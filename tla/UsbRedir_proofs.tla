--------------------------- MODULE UsbRedir_proofs ---------------------------
(***************************************************************************)
(* Theorems about UsbRedir, for any finite set of devices.  The invariant  *)
(* follows a worker through its life: what it holds depends on how far it  *)
(* got, and the attaching thread is alive only while the worker accepts or *)
(* joins it.                                                               *)
(***************************************************************************)
EXTENDS UsbRedir, FiniteSetTheorems, TLAPS

\* Where a worker holds nothing yet, or nothing any more.
HoldsNothing == {"idle", "begin", "init", "bind", "done"}

\* A worker exists for each task, and only then.
WorkerPerTask == \A d \in Devices : pc[d] = "idle" <=> d \notin tasks

\* The attaching thread is alive only while the worker accepts or joins it.
AttachIsJoined == \A d \in Devices : attach[d] = "sent" => pc[d] \in {"accept", "join"}

ReleasedInv ==
    \A d \in Devices :
        pc[d] \in HoldsNothing => attach[d] = "none" /\ d \notin listening /\ d \notin client

\* The flag of the dialog is up exactly while its window is open or lost, and a main loop
\* that goes on after the application was told to quit is that of a lost one.
LoopOfDialog ==
    /\ shown <=> window # "none"
    /\ app # "runs" /\ shown => app = "quits" /\ window = "lost"

IInv ==
    /\ TypeOK /\ WorkerPerTask /\ AttachIsJoined /\ ReleasedInv /\ DialogShowsTasks
    /\ LoopOfDialog

-----------------------------------------------------------------------------
\* The number of tasks, which the next port is counted with, is a number.
LEMMA FreePortType ==
    ASSUME TypeOK
    PROVE  get_free_port \in Nat
<1>1. tasks \subseteq Devices /\ IsFiniteSet(Devices)
  BY DevicesAssumption DEF TypeOK
<1>2. IsFiniteSet(tasks)
  BY <1>1, FS_Subset
<1> QED BY <1>2, FS_CardinalityType DEF get_free_port

\* A step of a worker or of its attaching thread.
LEMMA WorkerStep ==
    ASSUME IInv, NEW d \in Devices, Worker(d)
    PROVE  IInv'
<1>1. /\ UNCHANGED <<tasks, port, session, shown, window, sensitive, state>>
      /\ UNCHANGED <<resetRequired, reset, resetOwner, app>>
  BY DEF Worker, launch_task, init_libusb, create_server_socket, attach_usb,
         client_accepted, accept_abandoned, join_attach_thread, open_device, main_loop_left,
         releasing_resources, workerFrame, dialogVars, resetVars
<1>2. flag' \in [Devices -> BOOLEAN] /\ pc' \in [Devices -> Pcs]
  BY DEF Worker, launch_task, init_libusb, create_server_socket, attach_usb,
         client_accepted, accept_abandoned, join_attach_thread, open_device, main_loop_left,
         releasing_resources, Go, At, Pcs, IInv, TypeOK
<1>3. /\ listening' \subseteq Devices /\ client' \subseteq Devices
      /\ attach' \in [Devices -> {"none", "sent", "uuid", "failed"}]
  BY DEF Worker, launch_task, init_libusb, create_server_socket, attach_usb,
         client_accepted, accept_abandoned, join_attach_thread, open_device, main_loop_left,
         releasing_resources, IInv, TypeOK
<1>4. /\ pc[d] # "idle" /\ pc'[d] # "idle"
      /\ \A e \in Devices \ {d} :
            /\ pc'[e] = pc[e] /\ attach'[e] = attach[e]
            /\ (e \in listening' <=> e \in listening) /\ (e \in client' <=> e \in client)
  BY DEF Worker, launch_task, init_libusb, create_server_socket, attach_usb,
         client_accepted, accept_abandoned, join_attach_thread, open_device, main_loop_left,
         releasing_resources, Go, At, IInv, TypeOK, AttachIsJoined
<1>5. attach'[d] = "sent" => pc'[d] \in {"accept", "join"}
  BY DEF Worker, launch_task, init_libusb, create_server_socket, attach_usb,
         client_accepted, accept_abandoned, join_attach_thread, open_device, main_loop_left,
         releasing_resources, Go, At, IInv, TypeOK, AttachIsJoined
<1>6. pc'[d] \in HoldsNothing =>
         attach'[d] = "none" /\ d \notin listening' /\ d \notin client'
  BY DEF Worker, launch_task, init_libusb, create_server_socket, attach_usb,
         client_accepted, accept_abandoned, join_attach_thread, open_device, main_loop_left,
         releasing_resources, Go, At, IInv, TypeOK, AttachIsJoined, ReleasedInv, HoldsNothing
<1>7. TypeOK'
  BY <1>1, <1>2, <1>3 DEF IInv, TypeOK
<1>8. WorkerPerTask' /\ DialogShowsTasks' /\ LoopOfDialog'
  BY <1>1, <1>4 DEF IInv, WorkerPerTask, DialogShowsTasks, LoopOfDialog
<1>9. AttachIsJoined' /\ ReleasedInv'
  BY <1>4, <1>5, <1>6 DEF IInv, AttachIsJoined, ReleasedInv
<1> QED BY <1>7, <1>8, <1>9 DEF IInv

\* The callback of a task: the worker and the task go together.
LEMMA TaskFinishedStep ==
    ASSUME IInv, NEW d \in Devices, usb_task_finished(d)
    PROVE  IInv'
<1>1. TypeOK'
  <2>1. /\ tasks' \subseteq Devices
        /\ flag' \in [Devices -> BOOLEAN]
        /\ pc' \in [Devices -> Pcs]
    BY DEF usb_task_finished, IInv, TypeOK, Pcs
  <2>2. port' \in [Devices -> Nat]
    BY DEF usb_task_finished, IInv, TypeOK
  <2>3. state' \in [Devices -> {"not_used", "being_redirected", "cancelling"}]
    BY DEF usb_task_finished, IInv, TypeOK
  <2>4. UNCHANGED <<listening, client, attach, session, shown, window, sensitive,
                    resetRequired, reset, resetOwner, app>>
    BY DEF usb_task_finished, resetVars
  <2> QED BY <2>1, <2>2, <2>3, <2>4 DEF IInv, TypeOK
<1>2. WorkerPerTask' /\ AttachIsJoined'
  BY DEF usb_task_finished, IInv, TypeOK, WorkerPerTask, AttachIsJoined
<1>3. ReleasedInv'
  BY DEF usb_task_finished, IInv, TypeOK, ReleasedInv, HoldsNothing
<1>4. DialogShowsTasks'
  BY DEF usb_task_finished, IInv, TypeOK, DialogShowsTasks
<1>5. LoopOfDialog'
  BY DEF usb_task_finished, IInv, LoopOfDialog
<1> QED BY <1>1, <1>2, <1>3, <1>4, <1>5 DEF IInv

\* A click that starts a task.
LEMMA StartTaskStep ==
    ASSUME IInv, NEW d \in Devices, start_task(d)
    PROVE  IInv'
<1>1. get_free_port \in Nat
  BY FreePortType DEF IInv
<1>2. d \notin tasks
  BY DEF start_task, IInv, DialogShowsTasks, LoopOfDialog
<1>3. TypeOK'
  <2>1. /\ tasks' \subseteq Devices
        /\ flag' \in [Devices -> BOOLEAN]
        /\ pc' \in [Devices -> Pcs]
    <3>1. /\ tasks' = tasks \cup {d}
          /\ flag' = [flag EXCEPT ![d] = FALSE]
          /\ pc' = [pc EXCEPT ![d] = "begin"]
      BY <1>2 DEF start_task
    <3>2. "begin" \in Pcs
      BY DEF Pcs
    <3> QED BY <3>1, <3>2 DEF IInv, TypeOK
  <2>2. port' \in [Devices -> Nat]
    BY <1>1, <1>2 DEF start_task, IInv, TypeOK
  <2>3. state' \in [Devices -> {"not_used", "being_redirected", "cancelling"}]
    BY DEF start_task, IInv, TypeOK
  <2>4. UNCHANGED <<listening, client, attach, session, shown, window, sensitive,
                    resetRequired, reset, resetOwner, app>>
    BY DEF start_task, resetVars
  <2> QED BY <2>1, <2>2, <2>3, <2>4 DEF IInv, TypeOK
<1>4. WorkerPerTask' /\ AttachIsJoined'
  BY <1>2 DEF start_task, IInv, TypeOK, WorkerPerTask, AttachIsJoined
<1>5. ReleasedInv'
  BY <1>2 DEF start_task, IInv, TypeOK, ReleasedInv, WorkerPerTask, HoldsNothing
<1>6. DialogShowsTasks'
  BY <1>2 DEF start_task, IInv, TypeOK, DialogShowsTasks
<1>7. LoopOfDialog'
  BY DEF start_task, IInv, LoopOfDialog
<1> QED BY <1>3, <1>4, <1>5, <1>6, <1>7 DEF IInv

\* A click that stops a task.
LEMMA StopTaskStep ==
    ASSUME IInv, NEW d \in Devices, stop_task(d)
    PROVE  IInv'
<1>1. TypeOK'
  BY DEF stop_task, IInv, TypeOK, workerVars, resetVars
<1>2. WorkerPerTask' /\ AttachIsJoined' /\ ReleasedInv'
  BY DEF stop_task, IInv, WorkerPerTask, AttachIsJoined, ReleasedInv, workerVars
<1>3. DialogShowsTasks'
  BY DEF stop_task, IInv, TypeOK, DialogShowsTasks
<1>4. LoopOfDialog'
  BY DEF stop_task, IInv, LoopOfDialog
<1> QED BY <1>1, <1>2, <1>3, <1>4 DEF IInv

\* The end of a session leaves the dialog's loop and its list as they are.
LEMMA SessionEndsStep ==
    ASSUME IInv, session_ends
    PROVE  IInv'
<1>1. /\ UNCHANGED <<tasks, port, pc, listening, client, attach, shown, sensitive, state>>
      /\ UNCHANGED <<resetRequired, reset, resetOwner, app>>
      /\ session' = FALSE
  BY DEF session_ends, workerVars, resetVars
<1>2. flag' \in [Devices -> BOOLEAN]
  BY DEF session_ends, TaskFlagsAfterStopAll, IInv, TypeOK
<1>3. window' = IF window = "open" THEN "lost" ELSE window
  BY DEF session_ends, parent_hidden
<1>4. TypeOK'
  BY <1>1, <1>2, <1>3 DEF IInv, TypeOK
<1>5. WorkerPerTask' /\ AttachIsJoined' /\ ReleasedInv' /\ DialogShowsTasks'
  BY <1>1 DEF IInv, WorkerPerTask, AttachIsJoined, ReleasedInv, DialogShowsTasks
<1>6. LoopOfDialog'
  BY <1>1, <1>3 DEF IInv, LoopOfDialog
<1> QED BY <1>4, <1>5, <1>6 DEF IInv

\* A session begins, and a dialog comes and goes: no task and no worker is touched.
LEMMA WindowStep ==
    ASSUME IInv,
           session_starts \/ dialog_start \/ dialog_closed
    PROVE  IInv'
<1>1. UNCHANGED <<tasks, flag, port, pc, listening, client, attach>>
  BY DEF session_starts, dialog_start, dialog_closed, taskVars, workerVars
<1>2. /\ session' \in BOOLEAN /\ shown' \in BOOLEAN /\ sensitive' \in BOOLEAN
      /\ window' \in {"none", "open", "lost"}
      /\ resetRequired' \in BOOLEAN /\ UNCHANGED app
      /\ reset' \in {"none", "sent", "answered"} /\ resetOwner' \in {"shown", "closed"}
  BY DEF session_starts, dialog_start, dialog_closed, dialogVars, IInv, TypeOK
<1>3. /\ state' \in [Devices -> {"not_used", "being_redirected", "cancelling"}]
      /\ DialogShowsTasks'
  <2>1. CASE session_starts
    BY <1>1, <2>1 DEF session_starts, dialogVars, IInv, TypeOK, DialogShowsTasks
  <2>2. CASE dialog_closed
    BY <2>2 DEF dialog_closed, DialogShowsTasks
  <2>3. CASE dialog_start
    <3>1. state' = [d \in Devices |-> InitialState(d)]
      BY <2>3 DEF dialog_start
    <3>2. \A d \in Devices : /\ InitialState(d) = "not_used" <=> d \notin tasks
                             /\ InitialState(d) \in
                                  {"not_used", "being_redirected", "cancelling"}
      BY DEF InitialState
    <3> QED BY <1>1, <3>1, <3>2 DEF DialogShowsTasks
  <2> QED BY <2>1, <2>2, <2>3
<1>4. LoopOfDialog'
  BY DEF session_starts, dialog_start, dialog_closed, dialogVars, LoopRuns, IInv, LoopOfDialog
<1>5. TypeOK'
  BY <1>1, <1>2, <1>3 DEF IInv, TypeOK
<1>6. WorkerPerTask' /\ AttachIsJoined' /\ ReleasedInv'
  BY <1>1 DEF IInv, WorkerPerTask, AttachIsJoined, ReleasedInv
<1> QED BY <1>3, <1>4, <1>5, <1>6 DEF IInv

\* The reset, and the end of the application.
LEMMA OtherStep ==
    ASSUME IInv,
           \/ reset_answered \/ usb_tcp_reset_finished
           \/ on_quit_requested \/ deinit \/ application_ends \/ application_ended
    PROVE  IInv'
<1> USE DEF reset_answered, usb_tcp_reset_finished, on_quit_requested, deinit,
            application_ends, application_ended, vars, taskVars, workerVars, dialogVars
<1>1. UNCHANGED <<tasks, port, pc, listening, client, attach, shown, window, state, session>>
  OBVIOUS
<1>2. flag' \in [Devices -> BOOLEAN]
  BY DEF TaskFlagsAfterStopAll, IInv, TypeOK
<1>3. /\ sensitive' \in BOOLEAN /\ resetRequired' \in BOOLEAN
      /\ reset' \in {"none", "sent", "answered"} /\ resetOwner' \in {"shown", "closed"}
      /\ app' \in {"runs", "quits", "sleeps", "ended"}
  BY DEF resetVars, IInv, TypeOK
<1>4. TypeOK'
  BY <1>1, <1>2, <1>3 DEF IInv, TypeOK
<1>5. \/ app' = app
      \/ app = "runs" /\ window # "open" /\ app' = "quits"
      \/ app \in {"quits", "sleeps"} /\ (app = "quits" => ~shown)
  BY DEF LoopRuns, resetVars
<1>6. LoopOfDialog'
  <2>1. /\ window \in {"none", "open", "lost"} /\ shown' = shown /\ window' = window
        /\ LoopOfDialog
    BY <1>1 DEF IInv, TypeOK
  <2> HIDE DEF reset_answered, usb_tcp_reset_finished, on_quit_requested, deinit,
               application_ends, application_ended
  <2> QED BY <1>5, <2>1 DEF LoopOfDialog
<1> QED BY <1>1, <1>4, <1>6
        DEF IInv, WorkerPerTask, AttachIsJoined, ReleasedInv, DialogShowsTasks

-----------------------------------------------------------------------------
\* The invariant holds in every reachable state.
THEOREM Inductive == Spec => []IInv
<1>1. Init => IInv
  <2>1. Init => TypeOK
    <3> SUFFICES ASSUME Init PROVE TypeOK
      OBVIOUS
    <3>1. port \in [Devices -> Nat]
      BY DEF Init
    <3>2. pc \in [Devices -> Pcs]
      BY DEF Init, Pcs
    <3>3. /\ flag \in [Devices -> BOOLEAN]
          /\ attach \in [Devices -> {"none", "sent", "uuid", "failed"}]
          /\ state \in [Devices -> {"not_used", "being_redirected", "cancelling"}]
      BY DEF Init
    <3>4. tasks \subseteq Devices /\ listening \subseteq Devices /\ client \subseteq Devices
      BY DEF Init
    <3>5. /\ session \in BOOLEAN /\ shown \in BOOLEAN /\ sensitive \in BOOLEAN
          /\ resetRequired \in BOOLEAN /\ reset \in {"none", "sent", "answered"}
          /\ resetOwner \in {"shown", "closed"} /\ window \in {"none", "open", "lost"}
          /\ app \in {"runs", "quits", "sleeps", "ended"}
      BY DEF Init
    <3> QED BY <3>1, <3>2, <3>3, <3>4, <3>5 DEF TypeOK
  <2>2. Init => /\ WorkerPerTask /\ AttachIsJoined /\ ReleasedInv
                /\ DialogShowsTasks /\ LoopOfDialog
    BY DEF Init, WorkerPerTask, AttachIsJoined, ReleasedInv, DialogShowsTasks, LoopOfDialog,
           HoldsNothing
  <2> QED BY <2>1, <2>2 DEF IInv
<1>2. IInv /\ [Next]_vars => IInv'
  <2> SUFFICES ASSUME IInv, [Next]_vars PROVE IInv'
    OBVIOUS
  <2>1. CASE Next
    BY <2>1, WorkerStep, TaskFinishedStep, StartTaskStep, StopTaskStep, SessionEndsStep,
       WindowStep, OtherStep DEF Next
  <2>2. CASE UNCHANGED vars
    BY <2>2 DEF vars, taskVars, workerVars, dialogVars, resetVars, IInv, TypeOK, WorkerPerTask,
                AttachIsJoined, ReleasedInv, DialogShowsTasks, LoopOfDialog
  <2> QED BY <2>1, <2>2
<1> QED BY <1>1, <1>2, PTL DEF Spec

\* Every variable keeps to its type.
THEOREM TypeCorrect == Spec => []TypeOK
<1>1. IInv => TypeOK
  BY DEF IInv
<1> QED BY <1>1, Inductive, PTL

\* The list of a dialog agrees with the array of tasks for as long as its loop runs, after
\* the window was lost as well, for any set of devices: the silent refusal of
\* usbredir_controller_start_task is never met.
THEOREM DialogAgrees == Spec => []DialogShowsTasks
<1>1. IInv => DialogShowsTasks
  BY DEF IInv
<1> QED BY <1>1, Inductive, PTL

\* Every way through usbredirserver_launch_task gives back what the worker took.
THEOREM WorkersRelease == Spec => []WorkerReleasesAll
<1>1. IInv => WorkerReleasesAll
  BY DEF IInv, ReleasedInv, WorkerReleasesAll, HoldsNothing
<1> QED BY <1>1, Inductive, PTL

\* A main loop that still runs after the application was told to quit is that of a dialog
\* that lost its window, and none runs any more when the tasks are freed.
NoLoopOutlivesQuitButALostOne ==
    /\ app = "quits" /\ LoopRuns => window = "lost"
    /\ app \in {"sleeps", "ended"} => ~shown

\* The safety half of QuitEnds: what holds the process back is a lost dialog, and
\* usbredir_controller_deinit_static is reached only after every loop has returned.
THEOREM QuitWaitsForLostDialogOnly == Spec => []NoLoopOutlivesQuitButALostOne
<1>1. IInv => NoLoopOutlivesQuitButALostOne
  BY DEF IInv, LoopOfDialog, LoopRuns, NoLoopOutlivesQuitButALostOne
<1> QED BY <1>1, Inductive, PTL

-----------------------------------------------------------------------------
\* The steps that have to do with the reset or the dialog; it is inductive by itself.
LEMMA ResetGuardStep ==
    ASSUME ResetGuardsItsDialog, Next
    PROVE  ResetGuardsItsDialog'
<1>1. CASE dialog_start
  BY <1>1 DEF dialog_start, ResetGuardsItsDialog
<1>2. CASE session_ends \/ dialog_closed
  BY <1>2 DEF session_ends, dialog_closed, resetVars, ResetGuardsItsDialog
<1>3. CASE reset_answered \/ usb_tcp_reset_finished
  BY <1>3 DEF reset_answered, usb_tcp_reset_finished, dialogVars, ResetGuardsItsDialog
<1>4. CASE \/ session_starts \/ on_quit_requested \/ deinit
           \/ application_ends \/ application_ended
  BY <1>4 DEF session_starts, on_quit_requested, deinit, application_ends, application_ended,
              vars, dialogVars, resetVars, ResetGuardsItsDialog
<1>5. ASSUME NEW d \in Devices, usb_task_finished(d) \/ start_task(d) \/ stop_task(d)
      PROVE  ResetGuardsItsDialog'
  BY <1>5 DEF usb_task_finished, start_task, stop_task, resetVars, ResetGuardsItsDialog
<1>6. ASSUME NEW d \in Devices, Worker(d)
      PROVE  ResetGuardsItsDialog'
  <2>1. UNCHANGED <<shown, sensitive, reset, resetOwner>>
    BY <1>6 DEF Worker, launch_task, init_libusb, create_server_socket,
         attach_usb, client_accepted, accept_abandoned, join_attach_thread, open_device,
         main_loop_left, releasing_resources, workerFrame, dialogVars, resetVars
  <2> QED BY <2>1 DEF ResetGuardsItsDialog
<1> QED BY <1>1, <1>2, <1>3, <1>4, <1>5, <1>6 DEF Next

\* The dialog that sent the detach-all cannot be used before the answer.
THEOREM ResetGuards == Spec => []ResetGuardsItsDialog
<1>1. Init => ResetGuardsItsDialog
  BY DEF Init, ResetGuardsItsDialog
<1>2. ResetGuardsItsDialog /\ [Next]_vars => ResetGuardsItsDialog'
  BY ResetGuardStep DEF vars, dialogVars, resetVars, ResetGuardsItsDialog
<1> QED BY <1>1, <1>2, PTL DEF Spec
-----------------------------------------------------------------------------
(* What LoweredFlagEnds rests on besides fairness: nothing takes a worker  *)
(* back, and nobody raises its flag again.                                 *)

\* How far a task that was started is from its end.
StepsLeft ==
    [idle |-> 0, done |-> 1, release |-> 2, serve |-> 3, open |-> 4, join |-> 5,
     accept |-> 6, bind |-> 7, init |-> 8, begin |-> 9]

\* A lowered flag stays down for a worker that reads it, and with each step of its own
\* the task is nearer to its end.
Advances(d) ==
    pc[d] \notin {"idle", "begin"} /\ ~flag[d] =>
        ~flag'[d] /\ (pc'[d] = pc[d] \/ StepsLeft[pc'[d]] < StepsLeft[pc[d]])

\* Whoever lowers the flag (usbredir_controller_stop_task, the end of the session, the
\* attaching thread): it stays down, and the task only advances, until it is gone.
LoweredFlagOnlyAdvances == [][\A d \in Devices : Advances(d)]_vars

\* A step of one device leaves the flag and the place of every other alone.
LEMMA OwnStepsOnly ==
    ASSUME TypeOK, NEW d \in Devices,
           Worker(d) \/ usb_task_finished(d) \/ start_task(d) \/ stop_task(d)
    PROVE  \A e \in Devices \ {d} : flag'[e] = flag[e] /\ pc'[e] = pc[e]
<1>1. CASE Worker(d)
  BY <1>1 DEF Worker, launch_task, init_libusb, create_server_socket, attach_usb,
         client_accepted, accept_abandoned, join_attach_thread, open_device, main_loop_left,
         releasing_resources, Go, At, workerFrame, TypeOK
<1>2. CASE usb_task_finished(d)
  BY <1>2 DEF usb_task_finished, TypeOK
<1>3. CASE start_task(d)
  BY <1>3 DEF start_task, taskVars, TypeOK
<1>4. CASE stop_task(d)
  BY <1>4 DEF stop_task, workerVars, TypeOK
<1> QED BY <1>1, <1>2, <1>3, <1>4

\* Neither the thread of a task nor its callback takes the task back.
LEMMA OwnStepAdvances ==
    ASSUME TypeOK, NEW d \in Devices, Worker(d) \/ usb_task_finished(d),
           pc[d] \notin {"idle", "begin"}, ~flag[d]
    PROVE  Advances(d)
<1> USE DEF Advances
<1>1. CASE init_libusb(d) \/ create_server_socket(d) \/ client_accepted(d)
  BY <1>1 DEF init_libusb, create_server_socket, client_accepted, Go, At, TypeOK, StepsLeft
<1>2. CASE accept_abandoned(d) \/ join_attach_thread(d) \/ open_device(d)
  BY <1>2 DEF accept_abandoned, join_attach_thread, open_device, Go, At, TypeOK, StepsLeft
<1>3. CASE main_loop_left(d) \/ releasing_resources(d)
  BY <1>3 DEF main_loop_left, releasing_resources, Go, At, TypeOK, StepsLeft
<1>4. CASE attach_usb(d)
  BY <1>4 DEF attach_usb, TypeOK
<1>5. CASE usb_task_finished(d)
  BY <1>5 DEF usb_task_finished, TypeOK, StepsLeft
<1>6. ~launch_task(d)
  BY DEF launch_task, Go, At
<1> QED BY <1>1, <1>2, <1>3, <1>4, <1>5, <1>6 DEF Worker

\* A task whose flag is down only goes forward, whatever the dialog, the session and the
\* other tasks do: with the fairness of the threads it comes to its end.
THEOREM LoweredFlagAdvances == Spec => LoweredFlagOnlyAdvances
<1>1. ASSUME IInv, Next, NEW d \in Devices
      PROVE  Advances(d)
  <2>1. TypeOK /\ (d \notin tasks => pc[d] = "idle")
    BY <1>1 DEF IInv, WorkerPerTask
  <2>2. ASSUME NEW e \in Devices \ {d},
               Worker(e) \/ usb_task_finished(e) \/ start_task(e) \/ stop_task(e)
        PROVE  Advances(d)
    <3>1. flag'[d] = flag[d] /\ pc'[d] = pc[d]
      BY <2>1, <2>2, OwnStepsOnly
    <3> QED BY <3>1 DEF Advances
  <2>3. CASE Worker(d) \/ usb_task_finished(d)
    <3>1. CASE pc[d] \in {"idle", "begin"} \/ flag[d]
      BY <3>1 DEF Advances
    <3>2. CASE pc[d] \notin {"idle", "begin"} /\ ~flag[d]
      BY <2>1, <2>3, <3>2, OwnStepAdvances
    <3> QED BY <3>1, <3>2
  <2>4. CASE start_task(d) \/ stop_task(d)
    BY <2>1, <2>4 DEF start_task, stop_task, taskVars, workerVars, TypeOK, Advances
  <2>5. CASE session_ends \/ deinit
    BY <2>1, <2>5 DEF session_ends, deinit, TaskFlagsAfterStopAll, workerVars, TypeOK, Advances
  <2>6. CASE \/ session_starts \/ dialog_start \/ dialog_closed \/ reset_answered
             \/ usb_tcp_reset_finished \/ on_quit_requested \/ application_ends
             \/ application_ended
    BY <2>6 DEF session_starts, dialog_start, dialog_closed, reset_answered,
                usb_tcp_reset_finished, on_quit_requested, application_ends,
                application_ended, vars, taskVars, workerVars, Advances
  <2> QED BY <1>1, <2>2, <2>3, <2>4, <2>5, <2>6 DEF Next
<1>2. IInv /\ [Next]_vars => [\A d \in Devices : Advances(d)]_vars
  BY <1>1
<1> QED BY <1>2, Inductive, PTL DEF Spec, LoweredFlagOnlyAdvances
=============================================================================
