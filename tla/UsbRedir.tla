------------------------------ MODULE UsbRedir ------------------------------
(***************************************************************************)
(* USB redirection over TCP in an RDP session: the tasks of                *)
(* usbredir_controller.c, the dialog that starts and cancels them          *)
(* (usbredir_dialog.c) and the worker of each task                         *)
(* (usbredirserver_lin.c), which listens for the VM while another thread   *)
(* asks the broker to attach the device (vdi_session_attach_usb).          *)
(*                                                                         *)
(* The dialog and the task list live in the main loop.  The running flag   *)
(* of a task is all the workers share with it, and the main loop, the      *)
(* worker and the attaching thread all write it without a lock.            *)
(***************************************************************************)
EXTENDS Integers, FiniteSets

CONSTANT Devices   \* USB devices, identified by bus and address

ASSUME DevicesAssumption == IsFiniteSet(Devices)

VARIABLES
    tasks,          \* the devices in tasks_array
    flag,           \* running_flag of a device's task
    port,           \* its port, counted from the first one
    pc,             \* where its worker is
    listening,      \* devices whose worker holds a server socket
    client,         \* devices whose worker holds a client socket
    attach,         \* the request to attach the device to the VM
    session,        \* the window of an RDP session is shown
    shown,          \* is_usb_tcp_window_shown: the loop of a dialog runs
    window,         \* the window of that dialog: open, or lost with its parent
    sensitive,      \* the list of devices can be clicked
    state,          \* usb_state in the dialog's list
    resetRequired,  \* reset_tcp_usb_devices_required
    reset,          \* the request to detach all devices
    resetOwner,     \* the dialog that waits for it is shown, or closed (or none does)
    app             \* the application runs, quits, sleeps in its deinit, or has ended

taskVars == <<tasks, flag, port>>
workerVars == <<pc, listening, client, attach>>
dialogVars == <<shown, window, sensitive, state>>
resetVars == <<resetRequired, reset, resetOwner>>
vars == <<taskVars, workerVars, session, dialogVars, resetVars, app>>

\* begin: scheduled, the flag is not raised yet; init: before libusb; bind:
\* before the server socket; accept: waits for the VM; join: for the attaching
\* thread; open: before the device is opened; serve: the device is redirected;
\* release: releasing_resources; done: the callback is queued, which a GTask does when
\* its thread function returns.
Pcs == {"idle", "begin", "init", "bind", "accept", "join", "open", "serve", "release", "done"}

TypeOK ==
    /\ tasks \subseteq Devices
    /\ flag \in [Devices -> BOOLEAN]
    /\ port \in [Devices -> Nat]
    /\ pc \in [Devices -> Pcs]
    /\ listening \subseteq Devices
    /\ client \subseteq Devices
    /\ attach \in [Devices -> {"none", "sent", "uuid", "failed"}]
    /\ session \in BOOLEAN
    /\ shown \in BOOLEAN
    /\ window \in {"none", "open", "lost"}
    /\ sensitive \in BOOLEAN
    /\ state \in [Devices -> {"not_used", "being_redirected", "cancelling"}]
    /\ resetRequired \in BOOLEAN
    /\ reset \in {"none", "sent", "answered"}
    /\ resetOwner \in {"shown", "closed"}
    /\ app \in {"runs", "quits", "sleeps", "ended"}

Init ==
    /\ tasks = {}
    /\ flag = [d \in Devices |-> FALSE]
    /\ port = [d \in Devices |-> 0]
    /\ pc = [d \in Devices |-> "idle"]
    /\ listening = {}
    /\ client = {}
    /\ attach = [d \in Devices |-> "none"]
    /\ session = FALSE
    /\ shown = FALSE
    /\ window = "none"
    /\ sensitive = FALSE
    /\ state = [d \in Devices |-> "not_used"]
    /\ resetRequired = TRUE
    /\ reset = "none"
    /\ resetOwner = "closed"
    /\ app = "runs"

-----------------------------------------------------------------------------
(* The worker of a task: usbredirserver_launch_task.                       *)

workerFrame == <<tasks, port, session, dialogVars, resetVars, app>>

At(d, here) == app # "ended" /\ pc[d] = here

Go(d, here, there) == At(d, here) /\ pc' = [pc EXCEPT ![d] = there]

\* The worker raises the flag, whatever happened to it since the task was made.
launch_task(d) ==
    /\ Go(d, "begin", "init")
    /\ flag' = [flag EXCEPT ![d] = TRUE]
    /\ UNCHANGED <<workerFrame, listening, client, attach>>

\* Without libusb the worker returns at once.
init_libusb(d) ==
    /\ \E there \in {"bind", "done"} : Go(d, "init", there)
    /\ UNCHANGED <<workerFrame, flag, listening, client, attach>>

\* Fails if another worker listens at the port, or for any other reason; otherwise
\* the thread that attaches the device is started.
create_server_socket(d) ==
    /\ \/ /\ \A e \in listening : port[e] # port[d]
          /\ Go(d, "bind", "accept")
          /\ listening' = listening \cup {d}
          /\ attach' = [attach EXCEPT ![d] = "sent"]
       \/ /\ Go(d, "bind", "release")
          /\ UNCHANGED <<listening, attach>>
    /\ UNCHANGED <<workerFrame, flag, client>>

\* vdi_session_attach_usb, on its own thread: without a uuid in the reply it lowers
\* the flag to stop the worker.
attach_usb(d) ==
    /\ app # "ended"
    /\ attach[d] = "sent"
    /\ \/ attach' = [attach EXCEPT ![d] = "uuid"] /\ UNCHANGED flag
       \/ attach' = [attach EXCEPT ![d] = "failed"] /\ flag' = [flag EXCEPT ![d] = FALSE]
    /\ UNCHANGED <<workerFrame, pc, listening, client>>

\* The accept loop: the VM connects.
client_accepted(d) ==
    /\ Go(d, "accept", "join")
    /\ client' = client \cup {d}
    /\ UNCHANGED <<workerFrame, flag, listening, attach>>

\* A mutant of accept_abandoned: accept blocks until a client comes.
AcceptBlocks(d) ==
    /\ ~flag[d] /\ d \in client
    /\ Go(d, "accept", "join")
    /\ UNCHANGED <<workerFrame, flag, listening, client, attach>>

\* The accept loop: the flag is found lowered.
accept_abandoned(d) ==
    /\ ~flag[d]
    /\ Go(d, "accept", "join")
    /\ UNCHANGED <<workerFrame, flag, listening, client, attach>>

\* The attaching thread is joined; a uuid and a client are needed to go on.
join_attach_thread(d) ==
    /\ attach[d] \in {"uuid", "failed"}
    /\ Go(d, "join", IF attach[d] = "uuid" /\ d \in client THEN "open" ELSE "release")
    /\ UNCHANGED <<workerFrame, flag, listening, client, attach>>

open_device(d) ==
    /\ \E there \in {"serve", "release"} : Go(d, "open", there)
    /\ UNCHANGED <<workerFrame, flag, listening, client, attach>>

\* usbredirserver_run_main_loop finds the flag lowered, or loses the client.
main_loop_left(d) ==
    /\ Go(d, "serve", "release")
    /\ flag' = [flag EXCEPT ![d] = FALSE]
    /\ client' = client \ {d}
    /\ UNCHANGED <<workerFrame, listening, attach>>

\* A mutant of releasing_resources: a device is detached only if a client came.
ReleaseDetachesServedOnly(d) ==
    /\ Go(d, "release", "done")
    /\ attach' = [attach EXCEPT ![d] = IF d \in client THEN "none" ELSE @]
    /\ listening' = listening \ {d}
    /\ client' = client \ {d}
    /\ UNCHANGED <<workerFrame, flag>>

\* releasing_resources: the device is detached if there is a uuid (the answer is not
\* looked at), the sockets are closed and the result is queued.
releasing_resources(d) ==
    /\ Go(d, "release", "done")
    /\ attach' = [attach EXCEPT ![d] = "none"]
    /\ listening' = listening \ {d}
    /\ client' = client \ {d}
    /\ UNCHANGED <<workerFrame, flag>>

-----------------------------------------------------------------------------
(* The main loop: the tasks.                                               *)

\* Callbacks are dispatched.  The loop of usbredir_dialog_start is nested in the one of
\* the application and goes on when that one was told to quit.
LoopRuns == app = "runs" \/ (app = "quits" /\ shown)

\* usbredir_controller_get_free_port, in a list of this many tasks.
get_free_port == Cardinality(tasks)

\* usbredir_controller_stop_all_cur_tasks lowers the flag of every task there is.
TaskFlagsAfterStopAll == [d \in Devices |-> flag[d] /\ d \notin tasks]

\* A mutant of usb_task_finished: a dialog in which the redirection is being cancelled
\* is not told.
FinishedUnlessCancelled(d) ==
    /\ LoopRuns
    /\ pc[d] = "done"
    /\ tasks' = tasks \ {d}
    /\ flag' = [flag EXCEPT ![d] = FALSE]
    /\ port' = [port EXCEPT ![d] = 0]
    /\ pc' = [pc EXCEPT ![d] = "idle"]
    /\ state' = IF shown /\ state[d] # "cancelling"
                THEN [state EXCEPT ![d] = "not_used"] ELSE state
    /\ UNCHANGED <<listening, client, attach, session, shown, window, sensitive, resetVars, app>>

\* usbredir_controller_task_finished: the task is freed, and the list of a dialog, also
\* of one that lost its window, has the device as not used.
usb_task_finished(d) ==
    /\ LoopRuns
    /\ pc[d] = "done"
    /\ tasks' = tasks \ {d}
    /\ flag' = [flag EXCEPT ![d] = FALSE]
    /\ port' = [port EXCEPT ![d] = 0]
    /\ pc' = [pc EXCEPT ![d] = "idle"]
    /\ state' = IF shown THEN [state EXCEPT ![d] = "not_used"] ELSE state
    /\ UNCHANGED <<listening, client, attach, session, shown, window, sensitive, resetVars, app>>

\* g_application_quit, from any window but the USB dialog: where that one is open it is
\* modal and nothing else can be clicked.
on_quit_requested ==
    /\ app = "runs" /\ window # "open"
    /\ app' = "quits"
    /\ UNCHANGED <<taskVars, workerVars, session, dialogVars, resetVars>>

\* usbredir_controller_deinit_static, after the main loop has returned: stop all, wait
\* for a second, free the tasks.
deinit ==
    /\ app = "quits" /\ ~LoopRuns
    /\ app' = "sleeps"
    /\ flag' = TaskFlagsAfterStopAll
    /\ UNCHANGED <<tasks, port, workerVars, session, dialogVars, resetVars>>

application_ends ==
    /\ app = "sleeps"
    /\ app' = "ended"
    /\ UNCHANGED <<taskVars, workerVars, session, dialogVars, resetVars>>

-----------------------------------------------------------------------------
(* The main loop: the RDP session and the dialog.                          *)

\* rdp_viewer_start asks for a reset.
session_starts ==
    /\ LoopRuns /\ ~session
    /\ session' = TRUE
    /\ resetRequired' = TRUE
    /\ UNCHANGED <<taskVars, workerVars, dialogVars, reset, resetOwner, app>>

\* usb_selector_widget_parent_hidden, and the destruction with the parent: the window of
\* the dialog goes, its loop does not end and nothing is freed.
parent_hidden == window' = IF window = "open" THEN "lost" ELSE window

\* rdp_viewer_work_thread_finished: usbredir_controller_stop_all, and the windows of the
\* session are destroyed.
session_ends ==
    /\ LoopRuns /\ session
    /\ session' = FALSE
    /\ flag' = TaskFlagsAfterStopAll
    /\ parent_hidden
    /\ UNCHANGED <<tasks, port, workerVars, shown, sensitive, state, resetVars, app>>

\* usbredir_dialog_set_initial_gui_state: a task whose flag is down is taken for one
\* that is being finished.
InitialState(d) ==
    IF d \notin tasks THEN "not_used"
    ELSE IF flag[d] THEN "being_redirected" ELSE "cancelling"

\* usbredir_dialog_start.  The reset is sent by the first dialog of an RDP session,
\* which cannot be used before it succeeded.  The menu refuses while a dialog's loop runs,
\* so after one that lost its window there is never another.  Bound: one reset in flight.
dialog_start ==
    /\ LoopRuns /\ session /\ ~shown
    /\ resetRequired => reset = "none"
    /\ shown' = TRUE
    /\ window' = "open"
    /\ state' = [d \in Devices |-> InitialState(d)]
    /\ sensitive' = ~resetRequired
    /\ resetRequired' = FALSE
    /\ IF resetRequired THEN reset' = "sent" /\ resetOwner' = "shown"
                        ELSE UNCHANGED <<reset, resetOwner>>
    /\ UNCHANGED <<taskVars, workerVars, session, app>>

\* A mutant of dialog_closed: the window is hidden, as by the parent, and its loop goes on.
DialogClosedHides ==
    /\ LoopRuns /\ window = "open"
    /\ window' = "none"
    /\ UNCHANGED <<taskVars, workerVars, session, shown, sensitive, state, resetVars, app>>

\* The OK button or the close button ends the loop, and usbredir_dialog_start frees the
\* dialog and its list.
dialog_closed ==
    /\ LoopRuns /\ window = "open"
    /\ shown' = FALSE
    /\ window' = "none"
    /\ sensitive' = FALSE
    /\ state' = [d \in Devices |-> "not_used"]
    /\ resetOwner' = "closed"
    /\ UNCHANGED <<taskVars, workerVars, session, resetRequired, reset, app>>

\* The detach-all request is executed, or fails.
reset_answered ==
    /\ app # "ended" /\ reset = "sent"
    /\ reset' = "answered"
    /\ UNCHANGED <<taskVars, workerVars, session, dialogVars, resetRequired, resetOwner, app>>

\* usbredir_dialog_on_usb_tcp_reset_finished.  With another dialog shown than the one
\* that sent the request it uses memory that was freed: the list of the one shown is
\* left as it is.
usb_tcp_reset_finished ==
    /\ LoopRuns /\ reset = "answered"
    /\ reset' = "none"
    /\ sensitive' \in IF shown /\ resetOwner = "shown" THEN {sensitive, TRUE} ELSE {sensitive}
    /\ resetOwner' = "closed"
    /\ UNCHANGED <<taskVars, workerVars, session, shown, window, state, resetRequired, app>>

\* A click on a device that is not used: usbredir_controller_start_task.  A device that
\* has a task is refused, and nobody is told.
start_task(d) ==
    /\ LoopRuns /\ window = "open" /\ sensitive
    /\ state[d] = "not_used"
    /\ state' = [state EXCEPT ![d] = "being_redirected"]
    /\ IF d \in tasks
       THEN UNCHANGED <<taskVars, pc>>
       ELSE /\ tasks' = tasks \cup {d}
            /\ flag' = [flag EXCEPT ![d] = FALSE]
            /\ port' = [port EXCEPT ![d] = get_free_port]
            /\ pc' = [pc EXCEPT ![d] = "begin"]
    /\ UNCHANGED <<listening, client, attach, session, shown, window, sensitive, resetVars, app>>

\* A click on a device that is redirected: usbredir_controller_stop_task.
stop_task(d) ==
    /\ LoopRuns /\ window = "open" /\ sensitive
    /\ state[d] = "being_redirected"
    /\ state' = [state EXCEPT ![d] = "cancelling"]
    /\ flag' = IF d \in tasks THEN [flag EXCEPT ![d] = FALSE] ELSE flag
    /\ UNCHANGED <<tasks, port, workerVars, session, shown, window, sensitive, resetVars, app>>

-----------------------------------------------------------------------------
Worker(d) ==
    \/ launch_task(d) \/ init_libusb(d)
    \/ create_server_socket(d) \/ attach_usb(d)
    \/ client_accepted(d) \/ accept_abandoned(d) \/ join_attach_thread(d)
    \/ open_device(d) \/ main_loop_left(d) \/ releasing_resources(d)

\* Nothing happens any more once the application has ended.
application_ended == app = "ended" /\ UNCHANGED vars

Next ==
    \/ \E d \in Devices : Worker(d) \/ usb_task_finished(d) \/ start_task(d) \/ stop_task(d)
    \/ session_starts \/ session_ends
    \/ dialog_start \/ dialog_closed
    \/ reset_answered \/ usb_tcp_reset_finished
    \/ on_quit_requested \/ deinit \/ application_ends \/ application_ended

\* Threads run, libusb and the broker's requests return (the requests time out), the
\* main loop dispatches callbacks, and once it returned the process runs to its end.
\* Nothing makes a client connect or leave, or a user click.
Fairness ==
    /\ WF_vars(deinit \/ application_ends)
    /\ \A d \in Devices :
          /\ WF_vars(launch_task(d) \/ init_libusb(d) \/ create_server_socket(d))
          /\ WF_vars(attach_usb(d))
          /\ WF_vars(accept_abandoned(d) \/ join_attach_thread(d) \/ open_device(d))
          /\ WF_vars(~flag[d] /\ main_loop_left(d))
          /\ WF_vars(releasing_resources(d))
          /\ WF_vars(usb_task_finished(d))

Spec == Init /\ [][Next]_vars /\ Fairness

-----------------------------------------------------------------------------
(* Properties.                                                             *)

\* While a dialog's loop runs, its list has a device as not used exactly when no task
\* holds it: a click is never one that start_task refuses in silence, and a device that
\* came free can be clicked again as long as the window is open.
DialogShowsTasks == shown => \A d \in Devices : state[d] = "not_used" <=> d \notin tasks

\* The application comes to its end when it was told to quit, with one exception: a USB
\* dialog that lost its window with the session leaves a loop nobody can end.
QuitEnds == app = "quits" ~> (app = "ended" \/ window = "lost")

\* The dialog that sent the detach-all starts no task before the answer: what it
\* attaches is not detached by a request under way.  (A dialog opened after it does.)
ResetGuardsItsDialog == resetOwner = "shown" /\ reset # "none" => shown /\ ~sensitive

\* Whichever step of a worker fails, when its result is queued no thread is attaching
\* the device, no uuid of the broker is left without a detach, no socket is left open.
WorkerReleasesAll ==
    \A d \in Devices :
        pc[d] \in {"idle", "done"} =>
            attach[d] = "none" /\ d \notin listening /\ d \notin client

\* Once the worker runs, a flag lowered by whomever (the user, the end of the session,
\* the attaching thread) ends the task, unless the main loop has returned meanwhile.
LoweredFlagEnds ==
    \A d \in Devices :
        (pc[d] \notin {"idle", "begin"} /\ ~flag[d]) ~> (d \notin tasks \/ ~LoopRuns)

\* "Determine the task by the USB's parameters [...] lower the flag to stop the task"
\* (usbredir_controller.c, usbredir_controller_stop_task): a redirection the dialog
\* shows as being cancelled comes to its end.
CancellingEnds ==
    \A d \in Devices :
        (window = "open" /\ state[d] = "cancelling")
            ~> (window # "open" \/ state[d] # "cancelling")

=============================================================================
