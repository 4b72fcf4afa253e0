-------------------------- MODULE RdpViewer_proofs --------------------------
(***************************************************************************)
(* Proofs about RdpViewer, for every set of sessions and every number of   *)
(* connect attempts.                                                       *)
(***************************************************************************)
EXTENDS RdpViewer, TLAPS

\* A modal box of the viewer belongs to a session whose thread is not made yet, or
\* has ended.
BoxInv ==
    /\ loop = "starting" => exContext \in Sessions /\ pc[exContext] = "new"
    /\ loop = "dialog" => exContext \in Sessions /\ pc[exContext] = "finished"

\* A session that was told to end silently leaves another window behind.
SilentInv ==
    exContext \in Sessions /\ signal[exContext] = "none" => authActive \/ managerActive

\* While the thread has not announced the end, is_connected_last_time means that
\* the connect was announced.
AnnounceInv ==
    \A s \in Sessions :
        connectedLast[s] /\ pc[s] \notin {"free", "finished"} => told[s] = "connected"

\* The inductive invariant.
IInv ==
    /\ TypeOK
    /\ BoxInv
    /\ SilentInv
    /\ AnnounceInv
    /\ NoEarlyReturn
    /\ NeverWindowless

-----------------------------------------------------------------------------
\* What a call of rdp_viewer_stop does to the types and to the early return: it
\* touches the current session only, and its flag only once is_running is set.
LEMMA StopTyped ==
    ASSUME TypeOK, NEW silent \in {"job-finished", "quit-requested", "none"},
           NEW force \in BOOLEAN, rdp_viewer_stop(silent, force)
    PROVE  /\ signal' \in [Sessions -> {"job-finished", "quit-requested", "none"}]
           /\ abortDemanded' \in [Sessions -> BOOLEAN]
           /\ loop' \in {loop, "quit"}
           /\ \A s \in Sessions : abortDemanded'[s] # abortDemanded[s] => IsRunning(s)
           /\ \A s \in Sessions : signal'[s] \in {signal[s], silent}
<1>1. CASE exContext = NoSession \/ ~IsRunning(exContext)
  BY <1>1 DEF TypeOK, rdp_viewer_stop
<1>2. CASE ~(exContext = NoSession \/ ~IsRunning(exContext))
  <2>1. exContext \in Sessions /\ IsRunning(exContext)
    BY <1>2 DEF TypeOK
  <2>2. signal' = [signal EXCEPT ![exContext] = silent]
    BY <1>2 DEF rdp_viewer_stop
  <2>3. /\ loop' \in {loop, "quit"}
        /\ \/ abortDemanded' = abortDemanded
           \/ abortDemanded' = [abortDemanded EXCEPT ![exContext] = TRUE]
    BY <1>2 DEF rdp_viewer_stop
  <2> QED BY <2>1, <2>2, <2>3 DEF TypeOK
<1> QED BY <1>1, <1>2

LEMMA InitIInv == Init => IInv
<1> SUFFICES ASSUME Init PROVE IInv
  OBVIOUS
<1>1. 0 \in 0 .. (MaxConnTry - 1)
  BY MaxConnTryAssumption
<1>2. TypeOK
  BY <1>1 DEF Init, TypeOK, Pcs, Loops
<1>3. BoxInv /\ SilentInv /\ AnnounceInv /\ NoEarlyReturn /\ NeverWindowless
  BY SessionsAssumption
     DEF Init, BoxInv, SilentInv, AnnounceInv, NoEarlyReturn, NeverWindowless
<1> QED BY <1>2, <1>3 DEF IInv

\* A step of a job thread.
LEMMA JobStep ==
    ASSUME IInv, NEW s \in Sessions, JobThread(s)
    PROVE  IInv'
<1> USE SessionsAssumption, MaxConnTryAssumption
    DEF At, threadFrame, windowVars, Pcs, Loops
<1>1. TypeOK'
  <2>1. CASE job_begin(s) \/ check_abort(s) \/ begin_connect(s) \/ session_aborted(s)
               \/ disconnected(s)
    BY <2>1 DEF IInv, TypeOK, job_begin, check_abort, begin_connect, session_aborted,
         disconnected
  <2>2. CASE connect_succeeds(s)
    BY <2>2 DEF IInv, TypeOK, connect_succeeds
  <2>3. CASE connect_fails(s)
    BY <2>3 DEF IInv, TypeOK, connect_fails
  <2>4. CASE session_ends(s) \/ rail_exec_fails(s)
    BY <2>4 DEF IInv, TypeOK, session_ends, rail_exec_fails
  <2>5. CASE job_end(s)
    BY <2>5 DEF IInv, TypeOK, job_end
  <2> QED BY <2>1, <2>2, <2>3, <2>4, <2>5 DEF JobThread
<1>2. /\ UNCHANGED <<exContext, signal, loop, authActive, managerActive>>
      /\ pc[s] \notin {"free", "new", "finished"}
      /\ \E there \in Pcs \ {"free", "new", "begin"} : pc' = [pc EXCEPT ![s] = there]
  BY DEF IInv, TypeOK, JobThread, job_begin, check_abort, begin_connect, connect_succeeds,
       connect_fails, session_aborted, session_ends, rail_exec_fails, disconnected, job_end
<1>3. BoxInv'
  BY <1>1, <1>2 DEF IInv, TypeOK, BoxInv
<1>4. SilentInv' /\ NeverWindowless'
  BY <1>2 DEF IInv, SilentInv, NeverWindowless
<1>5. AnnounceInv'
  BY <1>1 DEF IInv, TypeOK, AnnounceInv, JobThread, job_begin, check_abort, begin_connect,
       connect_succeeds, connect_fails, session_aborted, session_ends, rail_exec_fails,
       disconnected, job_end
<1>6. NoEarlyReturn'
  BY <1>1 DEF IInv, TypeOK, NoEarlyReturn, JobThread, job_begin, check_abort, begin_connect,
       connect_succeeds, connect_fails, session_aborted, session_ends, rail_exec_fails,
       disconnected, job_end
<1> QED BY <1>1, <1>3, <1>4, <1>5, <1>6 DEF IInv

\* The clean-up of the current session.
LEMMA CleanUpStep ==
    ASSUME IInv, exContext \in Sessions, CleanUp
    PROVE  IInv'
<1>1. TypeOK'
  BY DEF IInv, TypeOK, CleanUp, Pcs, Loops
<1>2. BoxInv' /\ SilentInv'
  BY SessionsAssumption DEF CleanUp, BoxInv, SilentInv
<1>3. AnnounceInv' /\ NoEarlyReturn'
  BY <1>1 DEF IInv, TypeOK, CleanUp, AnnounceInv, NoEarlyReturn
<1>4. NeverWindowless'
  BY DEF IInv, TypeOK, SilentInv, CleanUp, NeverWindowless
<1> QED BY <1>1, <1>2, <1>3, <1>4 DEF IInv

\* A step of the main loop.
LEMMA MainStep ==
    ASSUME IInv, MainLoop
    PROVE  IInv'
<1> USE SessionsAssumption, MaxConnTryAssumption DEF sessionVars, windowVars
<1>1. CASE log_in \/ close_window
  BY <1>1 DEF IInv, TypeOK, Loops, BoxInv, SilentInv, AnnounceInv, NoEarlyReturn,
       NeverWindowless, log_in, close_window
<1>2. CASE rdp_viewer_start_routine_thread
  BY <1>2 DEF IInv, TypeOK, Pcs, Loops, BoxInv, SilentInv, AnnounceInv, NoEarlyReturn,
       NeverWindowless, rdp_viewer_start_routine_thread
<1>3. CASE on_stop_requested
  <2>1. PICK silent \in {"job-finished", "quit-requested"}, force \in BOOLEAN :
            rdp_viewer_stop(silent, force)
    BY <1>3 DEF on_stop_requested
  <2>2. /\ UNCHANGED <<exContext, jobThread, pc, connTry, connectedLast, told, authActive,
                       managerActive, loggedIn>>
        /\ loop = "idle" /\ exContext # NoSession
    BY <1>3 DEF on_stop_requested
  <2>3. TypeOK' /\ loop' \in {"idle", "quit"}
    BY <2>1, <2>2, StopTyped DEF IInv, TypeOK, Loops
  <2>4. NoEarlyReturn'
    BY <2>1, <2>2, StopTyped DEF IInv, NoEarlyReturn, IsRunning
  <2>5. SilentInv'
    <3>1. exContext \in Sessions /\ signal'[exContext] \in {signal[exContext], silent}
      BY <2>1, <2>2, StopTyped DEF IInv, TypeOK
    <3> QED BY <2>2, <3>1 DEF IInv, SilentInv
  <2>6. BoxInv' /\ AnnounceInv' /\ NeverWindowless'
    BY <2>2, <2>3 DEF IInv, BoxInv, AnnounceInv, NeverWindowless
  <2> QED BY <2>3, <2>4, <2>5, <2>6 DEF IInv
<1>4. CASE on_logged_out
  <2>1. /\ UNCHANGED <<exContext, jobThread, pc, connTry, connectedLast, told>>
        /\ rdp_viewer_stop("none", TRUE)
        /\ authActive' = TRUE /\ managerActive' = FALSE /\ loggedIn' = FALSE
    BY <1>4 DEF on_logged_out
  <2>2. TypeOK' /\ loop' \in {loop, "quit"}
    BY <2>1, StopTyped DEF IInv, TypeOK, Loops
  <2>3. NoEarlyReturn'
    BY <2>1, StopTyped DEF IInv, NoEarlyReturn, IsRunning
  <2>4. BoxInv' /\ SilentInv' /\ AnnounceInv' /\ NeverWindowless'
    BY <2>1, <2>2 DEF IInv, BoxInv, SilentInv, AnnounceInv, NeverWindowless
  <2> QED BY <2>2, <2>3, <2>4 DEF IInv
<1>5. ASSUME NEW s \in Sessions, rdp_viewer_start(s) PROVE IInv'
  <2>1. TypeOK'
    <3>1. connTry' \in [Sessions -> 0 .. (MaxConnTry - 1)]
      <4>1. 0 \in 0 .. (MaxConnTry - 1)
        OBVIOUS
      <4> QED BY <1>5, <4>1 DEF IInv, TypeOK, rdp_viewer_start
    <3>2. pc' \in [Sessions -> Pcs] /\ loop' \in Loops
      BY <1>5 DEF IInv, TypeOK, Pcs, Loops, rdp_viewer_start
    <3> QED BY <1>5, <3>1, <3>2 DEF IInv, TypeOK, rdp_viewer_start
  <2>2. BoxInv'
    BY <1>5 DEF IInv, TypeOK, BoxInv, rdp_viewer_start
  <2>3. SilentInv' /\ NeverWindowless'
    BY <1>5 DEF IInv, TypeOK, SilentInv, NeverWindowless, rdp_viewer_start
  <2>4. AnnounceInv'
    BY <1>5 DEF IInv, TypeOK, AnnounceInv, rdp_viewer_start
  <2>5. NoEarlyReturn'
    BY <1>5 DEF IInv, TypeOK, NoEarlyReturn, rdp_viewer_start
  <2> QED BY <2>1, <2>2, <2>3, <2>4, <2>5 DEF IInv
<1>6. ASSUME NEW s \in Sessions, work_thread_finished(s) PROVE IInv'
  <2>1. CASE CleanUp /\ exContext = s
    BY <2>1, CleanUpStep
  <2>2. CASE loop' \in {"dialog", "astray"} /\ ~CleanUp
    BY <1>6, <2>2 DEF IInv, TypeOK, Loops, BoxInv, SilentInv, AnnounceInv, NoEarlyReturn,
         NeverWindowless, work_thread_finished
  <2>3. CASE loop' \in {"dialog", "astray"} /\ CleanUp
    BY <2>3 DEF CleanUp
  <2> QED BY <1>6, <2>1, <2>2, <2>3 DEF work_thread_finished
<1>7. CASE dialog_closed
  BY <1>7, CleanUpStep DEF dialog_closed, IInv, BoxInv
<1>8. CASE ended
  BY <1>8 DEF ended, vars, IInv, TypeOK, BoxInv, SilentInv, AnnounceInv, NoEarlyReturn,
       NeverWindowless
<1> QED BY <1>1, <1>2, <1>3, <1>4, <1>5, <1>6, <1>7, <1>8 DEF MainLoop

\* IInv is an inductive invariant of the viewer.
THEOREM Inductive == Spec => []IInv
<1>1. IInv /\ [Next]_vars => IInv'
  <2> SUFFICES ASSUME IInv, [Next]_vars PROVE IInv'
    OBVIOUS
  <2>1. CASE MainLoop
    BY <2>1, MainStep
  <2>2. ASSUME NEW s \in Sessions, JobThread(s) PROVE IInv'
    BY <2>2, JobStep
  <2>3. CASE UNCHANGED vars
    BY <2>3 DEF vars, sessionVars, windowVars, IInv, TypeOK, BoxInv, SilentInv, AnnounceInv,
         NoEarlyReturn, NeverWindowless
  <2> QED BY <2>1, <2>2, <2>3 DEF Next
<1> QED BY InitIInv, <1>1, PTL DEF Spec

\* The types hold, among them the bound on the connect attempts.
THEOREM TypeCorrect == Spec => []TypeOK
<1>1. IInv => TypeOK
  BY DEF IInv
<1> QED BY Inductive, <1>1, PTL

\* While the application runs some window of it is shown.
THEOREM Windowed == Spec => []NeverWindowless
<1>1. IInv => NeverWindowless
  BY DEF IInv
<1> QED BY Inductive, <1>1, PTL

\* The job routine never leaves by its early return.
THEOREM NoEarlyReturnTaken == Spec => []NoEarlyReturn
<1>1. IInv => NoEarlyReturn
  BY DEF IInv
<1> QED BY Inductive, <1>1, PTL

\* The broker is told of a disconnect only after the connect it ends.
THEOREM DisconnectsFollow == Spec => DisconnectFollowsConnect
<1> DEFINE A == \A s \in Sessions :
                    told[s] # "disconnected" /\ told'[s] = "disconnected"
                        => told[s] = "connected"
<1>1. IInv /\ [Next]_vars => [A]_told
  <2> SUFFICES ASSUME IInv, [Next]_vars, told' # told,
                      NEW t \in Sessions, told[t] # "disconnected", told'[t] = "disconnected"
               PROVE  told[t] = "connected"
    OBVIOUS
  <2>1. CASE MainLoop
    <3>1. CASE \/ log_in \/ close_window \/ rdp_viewer_start_routine_thread
               \/ on_stop_requested \/ on_logged_out \/ dialog_closed \/ ended
      BY <3>1 DEF log_in, close_window, rdp_viewer_start_routine_thread, on_stop_requested,
           on_logged_out, dialog_closed, CleanUp, ended, vars, sessionVars
    <3>2. ASSUME NEW s \in Sessions, work_thread_finished(s) PROVE FALSE
      BY <3>2 DEF work_thread_finished, CleanUp, sessionVars
    <3>3. ASSUME NEW s \in Sessions, rdp_viewer_start(s) PROVE FALSE
      <4>1. told' = [told EXCEPT ![s] = "nothing"]
        BY <3>3 DEF rdp_viewer_start
      <4> QED BY <4>1 DEF IInv, TypeOK
    <3> QED BY <2>1, <3>1, <3>2, <3>3 DEF MainLoop
  <2>2. ASSUME NEW s \in Sessions, JobThread(s) PROVE told[t] = "connected"
    <3>1. /\ pc[s] = "end"
          /\ told' = [told EXCEPT ![s] = IF connectedLast[s] THEN "disconnected" ELSE @]
      BY <2>2 DEF IInv, TypeOK, JobThread, At, job_begin, check_abort, begin_connect,
           connect_succeeds, connect_fails, session_aborted, session_ends, rail_exec_fails,
           disconnected, job_end
    <3> QED BY <3>1 DEF IInv, TypeOK, AnnounceInv
  <2> QED BY <2>1, <2>2 DEF Next, vars, sessionVars
<1> QED BY Inductive, <1>1, PTL DEF Spec, DisconnectFollowsConnect

\* What the clean-up of the current session does to the windows: the selector comes for
\* them, or they were beside another one, or the application ends.
LEMMA CleanUpWindows ==
    ASSUME IInv, exContext \in Sessions, loop # "quit", CleanUp
    PROVE  Windows!Next
<1>1. signal[exContext] \in {"job-finished", "quit-requested", "none"}
  BY DEF IInv, TypeOK
<1> USE SessionsAssumption DEF CleanUp, Running, Windows!Next
<1>2. CASE signal[exContext] = "job-finished"
  BY <1>2 DEF Windows!Finish, Windows!Show
<1>3. CASE signal[exContext] = "quit-requested"
  BY <1>3 DEF Windows!Quit
<1>4. CASE signal[exContext] = "none"
  BY <1>4 DEF IInv, SilentInv, Windows!Vanish
<1> QED BY <1>1, <1>2, <1>3, <1>4

\* Every step of the viewer is a step of the windows, or leaves them as they are.
LEMMA WindowsStep == IInv /\ [Next]_vars => [Windows!Next]_(Windows!vars)
<1> SUFFICES ASSUME IInv, [Next]_vars PROVE [Windows!Next]_(Windows!vars)
  OBVIOUS
<1> USE SessionsAssumption DEF sessionVars, windowVars
<1> DEFINE shown == <<exContext, authActive, managerActive>>
<1>1. ASSUME UNCHANGED shown, UNCHANGED loop \/ (loop # "quit" /\ loop' # "quit")
      PROVE  UNCHANGED Windows!vars
  BY <1>1 DEF Windows!vars, Running
<1>2. ASSUME loop # "quit", loop' = "quit" PROVE Windows!Quit
  BY <1>2 DEF Windows!Quit, Running
<1>3. CASE log_in
  <2>1. Windows!LogIn
    BY <1>3 DEF log_in, Windows!LogIn, Windows!Show, Running
  <2> QED BY <2>1 DEF Windows!Next
<1>4. CASE close_window
  BY <1>2, <1>4 DEF close_window, Windows!Next
<1>5. CASE rdp_viewer_start_routine_thread
  BY <1>1, <1>5 DEF rdp_viewer_start_routine_thread
<1>6. CASE on_stop_requested
  <2>1. loop # "quit" /\ UNCHANGED shown
    BY <1>6 DEF on_stop_requested
  <2>2. loop' \in {loop, "quit"}
    BY <1>6, StopTyped DEF IInv, on_stop_requested
  <2> QED BY <1>1, <1>2, <2>1, <2>2 DEF Windows!Next
<1>7. CASE on_logged_out
  <2>1. /\ loop # "quit" /\ UNCHANGED exContext
        /\ authActive' = TRUE /\ managerActive' = FALSE
    BY <1>7 DEF on_logged_out
  <2>2. loop' \in {loop, "quit"}
    BY <1>7, StopTyped DEF IInv, on_logged_out
  <2>3. CASE loop' = loop
    BY <2>1, <2>3 DEF Windows!LoggedOut, Windows!Next, Running
  <2> QED BY <1>2, <2>1, <2>2, <2>3 DEF Windows!Next
<1>8. ASSUME NEW s \in Sessions, rdp_viewer_start(s) PROVE Windows!Next
  BY <1>8 DEF rdp_viewer_start, Windows!Open, Windows!Next, Running
<1>9. ASSUME NEW s \in Sessions, work_thread_finished(s)
      PROVE  [Windows!Next]_(Windows!vars)
  <2>1. CASE exContext = s /\ CleanUp
    BY <1>9, <2>1, CleanUpWindows DEF work_thread_finished
  <2>2. CASE UNCHANGED shown /\ loop' \in {"dialog", "astray"}
    BY <1>1, <1>9, <2>2 DEF work_thread_finished
  <2> QED BY <1>9, <2>1, <2>2 DEF work_thread_finished
<1>10. CASE dialog_closed
  BY <1>10, CleanUpWindows DEF dialog_closed, IInv, BoxInv
<1>11. CASE ended \/ UNCHANGED vars
  BY <1>1, <1>11 DEF ended, vars
<1>12. ASSUME NEW s \in Sessions, JobThread(s) PROVE UNCHANGED <<shown, loop>>
  BY <1>12 DEF JobThread, threadFrame, job_begin, check_abort, begin_connect,
       connect_succeeds, connect_fails, session_aborted, session_ends, rail_exec_fails,
       disconnected, job_end
<1> QED
  <2>1. CASE MainLoop
    BY <2>1, <1>3, <1>4, <1>5, <1>6, <1>7, <1>8, <1>9, <1>10, <1>11 DEF MainLoop
  <2> QED BY <2>1, <1>1, <1>11, <1>12 DEF Next

\* The viewer implements WindowFlow, for every set of sessions and every number of
\* connect attempts: stops, aborts, errors and logouts bring the next window, or leave
\* one that is there, and nothing comes up after the end.
THEOREM RefinesWindows == Spec => ImplementsWindows
<1>1. Init => Windows!Init
  BY SessionsAssumption DEF Init, Windows!Init, Running
<1> QED BY Inductive, <1>1, WindowsStep, PTL DEF Spec, ImplementsWindows, Windows!Safe

-----------------------------------------------------------------------------
(* What AbortEndsSession rests on.                                         *)

\* How far the job thread is from its end once an abort was demanded.
Ahead(here) ==
    CASE here = "ready" -> 6 [] here = "connect" -> 5 [] here = "session" -> 4
      [] here = "disconnect" -> 3 [] here = "check" -> 2 [] here = "end" -> 1 [] OTHER -> 0

Aborting(s) == IsRunning(s) /\ abortDemanded[s]

Advances(s) == pc'[s] = pc[s] \/ Ahead(pc'[s]) < Ahead(pc[s])

\* No step takes an abort back while the thread runs, and none leads away from the end:
\* a session that is to be aborted connects once more at most, whoever else stops,
\* starts or logs out.
AbortOnlyAdvances ==
    [][\A s \in Sessions :
          Aborting(s) => abortDemanded'[s] /\ Advances(s)]_vars

LEMMA AbortStep ==
    ASSUME IInv, Next, NEW s \in Sessions, Aborting(s)
    PROVE  abortDemanded'[s] /\ Advances(s)
<1> USE SessionsAssumption DEF sessionVars, Advances
<1>0. abortDemanded[s] /\ pc[s] \in {"check", "ready", "connect", "session", "disconnect", "end"}
  BY DEF Aborting, IsRunning
<1>1. ASSUME NEW t \in Sessions, JobThread(t)
      PROVE  abortDemanded'[s] /\ Advances(s)
  <2>1. CASE t # s
    BY <1>0, <1>1, <2>1
       DEF IInv, TypeOK, JobThread, At, job_begin, check_abort, begin_connect, connect_succeeds,
           connect_fails, session_aborted, session_ends, rail_exec_fails, disconnected, job_end
  <2>2. CASE t = s
    <3>1. abortDemanded'[s]
      BY <1>0, <1>1, <2>2
         DEF IInv, TypeOK, JobThread, job_begin, check_abort, begin_connect, connect_succeeds,
             connect_fails, session_aborted, session_ends, rail_exec_fails, disconnected,
             job_end
    <3>2. \/ pc'[s] = pc[s]
          \/ pc[s] = "check" /\ pc'[s] = "end"
          \/ pc[s] = "ready" /\ pc'[s] = "connect"
          \/ pc[s] = "connect" /\ pc'[s] \in {"session", "check", "end"}
          \/ pc[s] = "session" /\ pc'[s] = "disconnect"
          \/ pc[s] = "disconnect" /\ pc'[s] = "check"
          \/ pc[s] = "end" /\ pc'[s] = "finished"
      BY <1>0, <1>1, <2>2
         DEF IInv, TypeOK, JobThread, At, job_begin, check_abort, begin_connect,
             connect_succeeds, connect_fails, session_aborted, session_ends, rail_exec_fails,
             disconnected, job_end
    <3> QED BY <3>1, <3>2 DEF Ahead
  <2> QED BY <2>1, <2>2
<1>2. CASE MainLoop
  <2>1. CASE on_stop_requested \/ on_logged_out
    <3>1. PICK silent \in {"job-finished", "quit-requested", "none"}, force \in BOOLEAN :
              rdp_viewer_stop(silent, force)
      BY <2>1 DEF on_stop_requested, on_logged_out
    <3>2. \/ UNCHANGED abortDemanded
          \/ abortDemanded' = [abortDemanded EXCEPT ![exContext] = TRUE]
      BY <3>1 DEF rdp_viewer_stop
    <3> QED BY <1>0, <2>1, <3>2 DEF IInv, TypeOK, on_stop_requested, on_logged_out
  <2>2. CASE rdp_viewer_start_routine_thread
    BY <1>0, <2>2 DEF IInv, TypeOK, BoxInv, rdp_viewer_start_routine_thread
  <2>3. CASE log_in \/ close_window \/ ended
    BY <1>0, <2>3 DEF log_in, close_window, ended, vars
  <2>4. ASSUME NEW t \in Sessions, rdp_viewer_start(t) \/ work_thread_finished(t)
        PROVE  UNCHANGED <<abortDemanded[s], pc[s]>>
    BY <1>0, <2>4 DEF IInv, TypeOK, rdp_viewer_start, work_thread_finished, CleanUp
  <2>5. CASE dialog_closed
    BY <1>0, <2>5 DEF IInv, TypeOK, BoxInv, dialog_closed, CleanUp
  <2> QED BY <1>0, <1>2, <2>1, <2>2, <2>3, <2>4, <2>5 DEF MainLoop
<1> QED BY <1>1, <1>2 DEF Next

\* The safety half of AbortEndsSession, for any number of sessions and tries: what is
\* left to the scheduler is that the thread goes on.
THEOREM AbortAdvances == Spec => AbortOnlyAdvances
<1>1. IInv /\ [Next]_vars
        => [\A s \in Sessions :
               Aborting(s) => abortDemanded'[s] /\ Advances(s)]_vars
  BY AbortStep
<1> QED BY Inductive, <1>1, PTL DEF Spec, AbortOnlyAdvances
=============================================================================
