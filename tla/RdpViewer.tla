----------------------------- MODULE RdpViewer -----------------------------
(***************************************************************************)
(* The built-in RDP viewer (src/rdp_viewer/rdp_viewer.c): the job thread   *)
(* that connects, serves and reconnects one session, and the main loop     *)
(* that starts it, stops it and cleans up after it, together with the      *)
(* windows remote-viewer.c shows when a session or a login ends.           *)
(*                                                                         *)
(* A session is one ExtendedRdpContext.  Its flags are shared by the two   *)
(* threads without a lock: is_running, is_connecting and is_disconnecting  *)
(* are written by the job thread alone and follow its program counter.     *)
(***************************************************************************)
EXTENDS Naturals

CONSTANTS
    Sessions,    \* Bound: contexts alive at one time, reused once destroyed
    NoSession,   \* NULL
    MaxConnTry   \* MAX_CONN_TRY_NUMBER

ASSUME SessionsAssumption == NoSession \notin Sessions
ASSUME MaxConnTryAssumption == MaxConnTry \in Nat \ {0}

VARIABLES
    exContext,      \* RdpViewer.ex_context
    jobThread,      \* the session whose thread RdpViewer.job_thread is
    pc,             \* where the session's job thread is
    abortDemanded,  \* is_abort_demanded
    signal,         \* signal_upon_job_finish ("none": NULL)
    connTry,        \* conn_try
    connectedLast,  \* is_connected_last_time
    told,           \* the last VM event queued for the broker
    loop,           \* what the main loop is inside of
    authActive,     \* the login window is shown (RemoteViewerConnect.is_active)
    managerActive,  \* the VM selector is shown (VdiManager.is_active)
    loggedIn        \* between a login and the next logout

sessionVars == <<pc, abortDemanded, signal, connTry, connectedLast, told>>
windowVars == <<authActive, managerActive, loggedIn>>
vars == <<exContext, jobThread, sessionVars, loop, windowVars>>

\* new: the context is made, the thread is not; begin: before is_running is set;
\* check: top of the connect loop; ready: the abort check passed; connect,
\* session, disconnect: inside of the FreeRDP calls; end: after the loop;
\* finished: work_thread_finished is queued.
Pcs == {"free", "new", "begin", "check", "ready", "connect", "session",
        "disconnect", "end", "finished"}

\* idle: between callbacks; starting and dialog: in the nested loop of a modal
\* message box; astray: in the clean-up of another session than the one whose
\* thread ended; quit: the application has ended.
Loops == {"idle", "starting", "dialog", "astray", "quit"}

TypeOK ==
    /\ exContext \in Sessions \cup {NoSession}
    /\ jobThread \in Sessions \cup {NoSession}
    /\ pc \in [Sessions -> Pcs]
    /\ abortDemanded \in [Sessions -> BOOLEAN]
    /\ signal \in [Sessions -> {"job-finished", "quit-requested", "none"}]
    /\ connTry \in [Sessions -> 0 .. (MaxConnTry - 1)]
    /\ connectedLast \in [Sessions -> BOOLEAN]
    /\ told \in [Sessions -> {"nothing", "connected", "disconnected"}]
    /\ loop \in Loops
    /\ authActive \in BOOLEAN
    /\ managerActive \in BOOLEAN
    /\ loggedIn \in BOOLEAN

Init ==
    /\ exContext = NoSession
    /\ jobThread = NoSession
    /\ pc = [s \in Sessions |-> "free"]
    /\ abortDemanded = [s \in Sessions |-> FALSE]
    /\ signal = [s \in Sessions |-> "job-finished"]
    /\ connTry = [s \in Sessions |-> 0]
    /\ connectedLast = [s \in Sessions |-> FALSE]
    /\ told = [s \in Sessions |-> "nothing"]
    /\ loop = "idle"
    /\ authActive = TRUE
    /\ managerActive = FALSE
    /\ loggedIn = FALSE

\* is_running, is_connecting and is_disconnecting of a session.
IsRunning(s) == pc[s] \in {"check", "ready", "connect", "session", "disconnect", "end"}
IsConnecting(s) == pc[s] = "connect"
IsDisconnecting(s) == pc[s] = "disconnect"

-----------------------------------------------------------------------------
(* The job thread: rdp_viewer_job_routine.                                 *)

At(s, here, there) == pc[s] = here /\ pc' = [pc EXCEPT ![s] = there]

threadFrame == <<exContext, jobThread, signal, loop, windowVars>>

\* is_running is raised; the command line of FreeRDP may be refused.
job_begin(s) ==
    /\ ~abortDemanded[s]
    /\ \E there \in {"check", "end"} : At(s, "begin", there)
    /\ UNCHANGED <<threadFrame, abortDemanded, connTry, connectedLast, told>>

\* A mutant of check_abort: the flag is read in the inner loop only.
CheckAbortIgnored(s) ==
    /\ At(s, "check", "ready")
    /\ UNCHANGED <<threadFrame, abortDemanded, connTry, connectedLast, told>>

\* The top of the connect loop, which a retry and a reconnect come back to.
check_abort(s) ==
    /\ At(s, "check", IF abortDemanded[s] THEN "end" ELSE "ready")
    /\ UNCHANGED <<threadFrame, abortDemanded, connTry, connectedLast, told>>

begin_connect(s) ==
    /\ At(s, "ready", "connect")
    /\ UNCHANGED <<threadFrame, abortDemanded, connTry, connectedLast, told>>

connect_succeeds(s) ==
    /\ At(s, "connect", "session")
    /\ connectedLast' = [connectedLast EXCEPT ![s] = TRUE]
    /\ connTry' = [connTry EXCEPT ![s] = 0]
    /\ told' = [told EXCEPT ![s] = "connected"]
    /\ UNCHANGED <<threadFrame, abortDemanded>>

\* After half a second the next attempt; the last failure ends the loop.
connect_fails(s) ==
    /\ connectedLast' = [connectedLast EXCEPT ![s] = FALSE]
    /\ IF connTry[s] + 1 < MaxConnTry
       THEN /\ At(s, "connect", "check")
            /\ connTry' = [connTry EXCEPT ![s] = @ + 1]
       ELSE /\ At(s, "connect", "end")
            /\ UNCHANGED connTry
    /\ UNCHANGED <<threadFrame, abortDemanded, told>>

\* The inner loop finds the abort flag raised.
session_aborted(s) ==
    /\ abortDemanded[s]
    /\ At(s, "session", "disconnect")
    /\ UNCHANGED <<threadFrame, abortDemanded, connTry, connectedLast, told>>

\* The inner loop ends by itself: the link was lost (connect again), or the server
\* gave a reason, which counts as an abort.
session_ends(s) ==
    /\ At(s, "session", "disconnect")
    /\ \E hasReason \in BOOLEAN :
          abortDemanded' = [abortDemanded EXCEPT ![s] = @ \/ hasReason]
    /\ UNCHANGED <<threadFrame, connTry, connectedLast, told>>

\* rdp_rail_server_execute_result, on a channel thread: the remote application
\* could not be started.
rail_exec_fails(s) ==
    /\ pc[s] = "session"
    /\ abortDemanded' = [abortDemanded EXCEPT ![s] = TRUE]
    /\ UNCHANGED <<threadFrame, pc, connTry, connectedLast, told>>

disconnected(s) ==
    /\ At(s, "disconnect", "check")
    /\ UNCHANGED <<threadFrame, abortDemanded, connTry, connectedLast, told>>

\* A mutant of job_end: the disconnect is announced whatever happened.
JobEndAlwaysAnnounces(s) ==
    /\ At(s, "end", "finished")
    /\ told' = [told EXCEPT ![s] = "disconnected"]
    /\ UNCHANGED <<threadFrame, abortDemanded, connTry, connectedLast>>

\* is_running falls, the disconnect is announced, work_thread_finished is queued.
job_end(s) ==
    /\ At(s, "end", "finished")
    /\ told' = [told EXCEPT ![s] = IF connectedLast[s] THEN "disconnected" ELSE @]
    /\ UNCHANGED <<threadFrame, abortDemanded, connTry, connectedLast>>

JobThread(s) ==
    \/ job_begin(s) \/ check_abort(s) \/ begin_connect(s)
    \/ connect_succeeds(s) \/ connect_fails(s)
    \/ session_aborted(s) \/ session_ends(s) \/ rail_exec_fails(s)
    \/ disconnected(s) \/ job_end(s)

-----------------------------------------------------------------------------
(* The main loop.                                                          *)

\* The broker accepted the login: the login window makes way for the selector.
log_in ==
    /\ loop = "idle" /\ authActive
    /\ authActive' = FALSE
    /\ managerActive' = TRUE
    /\ loggedIn' = TRUE
    /\ UNCHANGED <<exContext, jobThread, sessionVars, loop>>

\* The user closes the login window or the selector.
close_window ==
    /\ loop = "idle" /\ (authActive \/ managerActive)
    /\ loop' = "quit"
    /\ UNCHANGED <<exContext, jobThread, sessionVars, windowVars>>

\* rdp_viewer_start, for the VM the selector received (go_to_vm): the context is
\* created and, unless the box about forbidden folders is shown first, the thread.
\* ex_context and job_thread are overwritten whatever they are.
rdp_viewer_start(s) ==
    /\ loop = "idle" /\ managerActive
    /\ pc[s] = "free"
    /\ managerActive' = FALSE
    /\ exContext' = s
    /\ abortDemanded' = [abortDemanded EXCEPT ![s] = FALSE]
    /\ signal' = [signal EXCEPT ![s] = "job-finished"]
    /\ connTry' = [connTry EXCEPT ![s] = 0]
    /\ connectedLast' = [connectedLast EXCEPT ![s] = FALSE]
    /\ told' = [told EXCEPT ![s] = "nothing"]
    /\ \/ pc' = [pc EXCEPT ![s] = "begin"] /\ jobThread' = s /\ UNCHANGED loop
       \/ pc' = [pc EXCEPT ![s] = "new"] /\ loop' = "starting" /\ UNCHANGED jobThread
    /\ UNCHANGED <<authActive, loggedIn>>

\* The box about forbidden folders is closed: rdp_viewer_start_routine_thread.
rdp_viewer_start_routine_thread ==
    /\ loop = "starting"
    /\ loop' = "idle"
    /\ pc' = [pc EXCEPT ![exContext] = "begin"]
    /\ abortDemanded' = [abortDemanded EXCEPT ![exContext] = FALSE]
    /\ jobThread' = exContext
    /\ UNCHANGED <<exContext, signal, connTry, connectedLast, told, windowVars>>

\* A mutant of rdp_viewer_stop: is_running is not looked at.
StopWithoutRunningCheck(signalUponFinish, exitIfCantAbort) ==
    IF exContext = NoSession
    THEN UNCHANGED <<signal, abortDemanded, loop>>
    ELSE /\ signal' = [signal EXCEPT ![exContext] = signalUponFinish]
         /\ IF IsConnecting(exContext) \/ IsDisconnecting(exContext)
            THEN /\ loop' = IF exitIfCantAbort THEN "quit" ELSE loop
                 /\ UNCHANGED abortDemanded
            ELSE /\ abortDemanded' = [abortDemanded EXCEPT ![exContext] = TRUE]
                 /\ UNCHANGED loop

\* rdp_viewer_stop: without effect before is_running is set and after it fell; in
\* FreeRDP's connect and disconnect, which cannot be aborted, the application
\* quits or the request is dropped.
rdp_viewer_stop(signalUponFinish, exitIfCantAbort) ==
    IF exContext = NoSession \/ ~IsRunning(exContext)
    THEN UNCHANGED <<signal, abortDemanded, loop>>
    ELSE /\ signal' = [signal EXCEPT ![exContext] = signalUponFinish]
         /\ IF IsConnecting(exContext) \/ IsDisconnecting(exContext)
            THEN /\ loop' = IF exitIfCantAbort THEN "quit" ELSE loop
                 /\ UNCHANGED abortDemanded
            ELSE /\ abortDemanded' = [abortDemanded EXCEPT ![exContext] = TRUE]
                 /\ UNCHANGED loop

\* The menu of the VM window: close (quit the application) or disconnect.
on_stop_requested ==
    /\ loop = "idle" /\ exContext # NoSession
    /\ \/ rdp_viewer_stop("quit-requested", TRUE)
       \/ rdp_viewer_stop("job-finished", FALSE)
    /\ UNCHANGED <<exContext, jobThread, pc, connTry, connectedLast, told, windowVars>>

\* A mutant of on_logged_out: the login window is left to the finished session.
LoggedOutWithoutWindow ==
    /\ loop \in {"idle", "starting", "dialog"} /\ loggedIn
    /\ loggedIn' = FALSE
    /\ rdp_viewer_stop("none", TRUE)
    /\ managerActive' = FALSE
    /\ authActive' = IF exContext = NoSession THEN TRUE ELSE authActive
    /\ UNCHANGED <<exContext, jobThread, pc, connTry, connectedLast, told>>

\* remote-viewer.c on_logged_out, after the broker's DISCONNECT, a 401 reply or the
\* quit button: nested loops run it too.
on_logged_out ==
    /\ loop \in {"idle", "starting", "dialog"} /\ loggedIn
    /\ loggedIn' = FALSE
    /\ rdp_viewer_stop("none", TRUE)
    /\ managerActive' = FALSE
    /\ authActive' = TRUE
    /\ UNCHANGED <<exContext, jobThread, pc, connTry, connectedLast, told>>

\* The end of work_thread_finished: the windows and the context are destroyed, and
\* the signal chosen by the last stop is emitted; "job-finished" reaches
\* on_vm_connection_finished, which shows the selector.
CleanUp ==
    /\ pc' = [pc EXCEPT ![exContext] = "free"]
    /\ exContext' = NoSession
    /\ managerActive' = IF signal[exContext] = "job-finished" THEN TRUE ELSE managerActive
    /\ loop' = IF signal[exContext] = "quit-requested" THEN "quit" ELSE "idle"
    /\ UNCHANGED <<jobThread, abortDemanded, signal, connTry, connectedLast, told,
                   authActive, loggedIn>>

\* rdp_viewer_work_thread_finished, queued by s and run by a nested loop too: it
\* joins job_thread and destroys ex_context.  Both are those of s unless another
\* session was started meanwhile (what it then does to that session is not
\* modelled).  An error is reported in a modal box before the clean-up.
work_thread_finished(s) ==
    /\ loop \in {"idle", "starting", "dialog"}
    /\ pc[s] = "finished"
    /\ IF jobThread = s /\ exContext = s
       THEN /\ loop = "idle"   \* its idle source was removed when it ran
            /\ \/ CleanUp
               \/ /\ loop' = "dialog"
                  /\ UNCHANGED <<exContext, jobThread, sessionVars, windowVars>>
       ELSE /\ loop' = "astray"
            /\ UNCHANGED <<exContext, jobThread, sessionVars, windowVars>>

\* The box about the error is closed.
dialog_closed == loop = "dialog" /\ CleanUp

\* Nothing happens in the main loop any more.
ended ==
    /\ loop \in {"quit", "astray"}
    /\ UNCHANGED vars

MainLoop ==
    \/ log_in \/ close_window
    \/ rdp_viewer_start_routine_thread
    \/ on_stop_requested \/ on_logged_out
    \/ \E s \in Sessions : rdp_viewer_start(s) \/ work_thread_finished(s)
    \/ dialog_closed
    \/ ended

Next == MainLoop \/ \E s \in Sessions : JobThread(s)

\* The operating system runs the job thread; FreeRDP's connect and disconnect are
\* assumed to return, which no code of this program can enforce.
ThreadFairness ==
    \A s \in Sessions :
        /\ WF_vars(job_begin(s) \/ check_abort(s) \/ begin_connect(s) \/ job_end(s))
        /\ WF_vars(session_aborted(s))
        /\ WF_vars(connect_succeeds(s) \/ connect_fails(s))
        /\ WF_vars(disconnected(s))

Spec == Init /\ [][Next]_vars /\ ThreadFairness

-----------------------------------------------------------------------------
(* Properties.                                                             *)

\* The user is never left without a window: while the application runs, the login
\* window, the selector or the window of a VM is shown.
NeverWindowless ==
    loop # "quit" => authActive \/ managerActive \/ exContext # NoSession

\* What the user sees of it: once the application has ended, nothing.
Running == loop # "quit"

Windows == INSTANCE WindowFlow WITH
    login    <- IF Running /\ authActive THEN "shown" ELSE "hidden",
    selector <- Running /\ managerActive,
    viewer   <- Running /\ exContext # NoSession,
    waiting  <- FALSE,
    ended    <- ~Running

\* The windows come and go as remote-viewer.c connects them: however stops, aborts,
\* errors and logouts meet, a session leaves its windows only for the selector, or to
\* the login window, and nothing comes up after the end.
ImplementsWindows == Windows!Safe

\* The broker hears that a VM was left only after it heard that it was entered.
DisconnectFollowsConnect ==
    [][\A s \in Sessions :
          told[s] # "disconnected" /\ told'[s] = "disconnected" => told[s] = "connected"]_told

\* An abort that was taken ends the session, however it interleaves with the
\* connect, retry and reconnect loops.
AbortEndsSession ==
    \A s \in Sessions : abortDemanded[s] ~> pc[s] \in {"finished", "free"} \/ ~abortDemanded[s]

\* The early return of rdp_viewer_job_routine, which would leave the session's
\* windows behind for ever, is never taken: nobody can abort before is_running.
NoEarlyReturn == \A s \in Sessions : pc[s] = "begin" => ~abortDemanded[s]

=============================================================================
