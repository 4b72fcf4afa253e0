-------------------------- MODULE ControllerClient --------------------------
(***************************************************************************)
(* The controller mode: the login to a controller, the window that lists   *)
(* its virtual machines (src/controller_client/controller_manager.c), the  *)
(* requests worker threads send for them (controller_session.c), and the   *)
(* windows remote-viewer.c shows when a machine is opened or a login ends. *)
(*                                                                         *)
(* Several requests can be under way.  soup_session_abort cuts those that  *)
(* are on the wire at that instant: one whose worker has not sent it yet,  *)
(* or whose result waits in the main loop's queue, goes on.  The protocol  *)
(* and the token are read where they are used, not where the user chose.   *)
(***************************************************************************)
EXTENDS Naturals, Sequences

CONSTANTS
    Slots,      \* Bound: tasks under way at one time
    MaxLogins,  \* Bound: logins the controller accepts
    Protocols   \* Bound: those of the window's box the user chooses from

ASSUME MaxLoginsAssumption == MaxLogins \in Nat
ASSUME ProtocolsAssumption == Protocols \subseteq {"spice", "direct", "rdp"}

VARIABLES
    tasks,       \* the tasks under way
    queue,       \* finished tasks whose callbacks the main loop has not run
    main,        \* the main loop runs, or is blocked by the POST of a logout
    jwt,         \* the number of the login whose token is kept (0: NULL)
    logins,      \* logins accepted so far
    valid,       \* tokens the controller honours
    protocol,    \* current_remote_protocol
    auth,        \* the login window: hidden, idle, or in a try
    mgr,         \* the controller window is shown (is_active)
    fetching,    \* the window's GUI state
    listOf,      \* whose machines vm_list_store holds (0: none)
    viewers,     \* the viewers that run, each from its start until it ends
    quit,        \* the application has ended
    user,        \* history: the login the main loop knows of (0: none)
    listMissed,  \* history: a logout missed the request behind the list
    escaped      \* history: a machine was started by a request a logout missed

netVars == <<jwt, logins, valid>>
windowVars == <<mgr, fetching, listOf, listMissed>>
startVars == <<viewers, escaped>>
vars == <<tasks, queue, main, netVars, protocol, auth, windowVars, startVars, quit, user>>

Logins == 0 .. MaxLogins
Kinds == {"login", "list", "vm"}
\* pool: not sent yet; parsed: the second request of direct SPICE, which asks for
\* the node, is not sent yet; node: it is on the wire; done: the callback is queued.
Stages == {"pool", "sent", "parsed", "node", "done"}
OnWire == {"sent", "node"}

\* node: the VM data has the address of the node; rival: another machine was asked
\* for while this one was; fate: what the last logout did to the task, if one came.
NoTask == [kind |-> "none", stage |-> "free", chosen |-> "none", token |-> 0, cut |-> FALSE,
           reply |-> "none", node |-> FALSE, rival |-> FALSE, fate |-> "none"]

Tasks == [kind : Kinds, stage : Stages, chosen : Protocols \cup {"none"}, token : Logins,
          cut : BOOLEAN, reply : {"none", "data", "error", "null"}, node : BOOLEAN,
          rival : BOOLEAN, fate : {"none", "cut", "missed"}]

\* A finished task is in the queue, and once.
QueueOK ==
    /\ queue \in Seq(Slots)
    /\ \A s \in Slots : tasks[s].stage = "done" <=> \E i \in DOMAIN queue : queue[i] = s
    /\ \A i, j \in DOMAIN queue : queue[i] = queue[j] => i = j

TypeOK ==
    /\ tasks \in [Slots -> Tasks \cup {NoTask}]
    /\ QueueOK
    /\ main \in {"loop", "logout"}
    /\ jwt \in Logins /\ logins \in Logins /\ user \in Logins /\ listOf \in Logins
    /\ valid \subseteq 1 .. MaxLogins
    /\ protocol \in Protocols
    /\ auth \in {"off", "idle", "try"}
    /\ mgr \in BOOLEAN /\ fetching \in BOOLEAN /\ quit \in BOOLEAN /\ escaped \in BOOLEAN
    /\ viewers \subseteq {"spice", "rdp"}
    /\ listMissed \in BOOLEAN

Init ==
    /\ tasks = [s \in Slots |-> NoTask] /\ queue = <<>> /\ main = "loop"
    /\ jwt = 0 /\ logins = 0 /\ valid = {}
    /\ protocol \in Protocols   \* read from the settings file
    /\ auth = "idle" /\ mgr = FALSE /\ fetching = FALSE /\ listOf = 0
    /\ viewers = {} /\ quit = FALSE
    /\ user = 0 /\ listMissed = FALSE /\ escaped = FALSE

Looping == main = "loop" /\ ~quit

-----------------------------------------------------------------------------
(* Tasks: execute_async_task, and the worker that runs one.                *)

Idle(ts) == {s \in Slots : ts[s].kind = "none"}
FreeSlot(ts) == CHOOSE s \in Idle(ts) : TRUE

NewTask(kind, chosen) ==
    [kind |-> kind, stage |-> "pool", chosen |-> chosen, token |-> 0, cut |-> FALSE,
     reply |-> "none", node |-> FALSE, rival |-> FALSE, fate |-> "none"]

\* controller_session_cancel_pending_requests: soup_session_abort.
Cut(ts) == [s \in Slots |-> IF ts[s].stage \in OnWire THEN [ts[s] EXCEPT !.cut = TRUE]
                                                      ELSE ts[s]]

\* A logout misses what is not on the wire, and the request for the node, the failure
\* of which is no failure of its task.  A list in the queue is taken out in time.
IsMissed(task) ==
    \/ task.stage \in {"pool", "parsed", "node"}
    \/ task.kind = "vm" /\ task.stage = "done"

LoggedOutOf(ts) ==
    [s \in Slots |->
        IF ts[s].kind \in {"list", "vm"}
        THEN [ts[s] EXCEPT !.fate = IF IsMissed(ts[s]) THEN "missed" ELSE "cut"]
        ELSE ts[s]]

Return(s, task) ==
    /\ tasks' = [tasks EXCEPT ![s] = [task EXCEPT !.stage = "done", !.cut = FALSE]]
    /\ queue' = Append(queue, s)

workerFrame == <<main, protocol, auth, windowVars, startVars, quit, user>>

\* The worker begins: controller_session_api_call needs a token, and the login
\* forgets the one there is.
send(s) ==
    /\ ~quit /\ tasks[s].stage = "pool"
    /\ IF tasks[s].kind # "login" /\ jwt = 0
       THEN Return(s, [tasks[s] EXCEPT !.reply = "null"]) /\ UNCHANGED jwt
       ELSE /\ tasks' = [tasks EXCEPT ![s].stage = "sent", ![s].token = jwt]
            /\ jwt' = IF tasks[s].kind = "login" THEN 0 ELSE jwt
            /\ UNCHANGED queue
    /\ UNCHANGED <<logins, valid, workerFrame>>

\* Refused, not answered in twenty seconds, or cut.
login_refused(s) ==
    /\ ~quit /\ tasks[s].kind = "login" /\ tasks[s].stage = "sent"
    /\ Return(s, [tasks[s] EXCEPT !.reply = "error"])
    /\ UNCHANGED <<netVars, workerFrame>>

login_accepted(s) ==
    /\ ~quit /\ tasks[s].kind = "login" /\ tasks[s].stage = "sent" /\ ~tasks[s].cut
    /\ logins < MaxLogins
    /\ logins' = logins + 1 /\ jwt' = logins' /\ valid' = valid \cup {logins'}
    /\ Return(s, [tasks[s] EXCEPT !.reply = "data", !.token = logins'])
    /\ UNCHANGED workerFrame

\* An error of the controller, or no body at all, which is an error for a machine.
request_fails(s) ==
    /\ ~quit /\ tasks[s].kind \in {"list", "vm"} /\ tasks[s].stage = "sent"
    /\ \E reply \in {"error", "null"} :
          /\ tasks[s].kind = "vm" => reply = "error"
          /\ Return(s, [tasks[s] EXCEPT !.reply = reply])
    /\ UNCHANGED <<netVars, workerFrame>>

Answerable(s) ==
    ~quit /\ tasks[s].stage = "sent" /\ ~tasks[s].cut /\ tasks[s].token \in valid

list_answered(s) ==
    /\ Answerable(s) /\ tasks[s].kind = "list"
    /\ Return(s, [tasks[s] EXCEPT !.reply = "data"])
    /\ UNCHANGED <<netVars, workerFrame>>

\* The data of the machine is read for the protocol that is current now.  A port of
\* zero is an error (request_fails); a guest without an address is not.
vm_answered(s) ==
    /\ Answerable(s) /\ tasks[s].kind = "vm"
    /\ \/ /\ protocol # "direct"
          /\ Return(s, [tasks[s] EXCEPT !.reply = "data"])
       \/ /\ protocol = "direct"
          /\ tasks' = [tasks EXCEPT ![s].stage = "parsed"]
          /\ UNCHANGED queue
    /\ UNCHANGED <<netVars, workerFrame>>

\* Whatever becomes of the request for the node, the task returns the data.
ReturnHost(s, node) == Return(s, [tasks[s] EXCEPT !.reply = "data", !.node = node])

send_node(s) ==
    /\ ~quit /\ tasks[s].stage = "parsed"
    /\ IF jwt = 0
       THEN ReturnHost(s, FALSE)
       ELSE /\ tasks' = [tasks EXCEPT ![s].stage = "node", ![s].token = jwt]
            /\ UNCHANGED queue
    /\ UNCHANGED <<netVars, workerFrame>>

node_answered(s) ==
    /\ ~quit /\ tasks[s].stage = "node"
    /\ \/ ReturnHost(s, FALSE)
       \/ ~tasks[s].cut /\ tasks[s].token \in valid /\ ReturnHost(s, TRUE)
    /\ UNCHANGED <<netVars, workerFrame>>

-----------------------------------------------------------------------------
(* The controller window.                                                  *)

\* controller_manager_get_vms_async, the tasks being ts.
GetVms(ts) ==
    /\ Idle(ts) # {}
    /\ tasks' = [Cut(ts) EXCEPT ![FreeSlot(ts)] = NewTask("list", "none")]
    /\ fetching' = TRUE

\* controller_manager_show.
Show(ts) ==
    IF mgr
    THEN tasks' = ts /\ UNCHANGED windowVars
    ELSE mgr' = TRUE /\ listOf' = 0 /\ listMissed' = FALSE /\ GetVms(ts)

\* controller_manager_finish_job.
FinishJob ==
    /\ mgr' = FALSE
    /\ listOf' = IF mgr THEN 0 ELSE listOf
    /\ listMissed' = (listMissed /\ ~mgr)

\* The main loop takes the callback of a finished task of this kind.
Callback(kind, s) ==
    /\ Looping /\ queue # <<>> /\ s = Head(queue) /\ tasks[s].kind = kind
    /\ queue' = Tail(queue)

Without(s) == [tasks EXCEPT ![s] = NoTask]

\* on_controller_session_log_in_finished, and show_vm_selector_window it leads to.
log_in_finished(s) ==
    /\ Callback("login", s)
    /\ IF tasks[s].reply = "data"
       THEN /\ auth' = "off"
            /\ user' = tasks[s].token
            /\ Show(Without(s))
       ELSE /\ auth' = "idle"
            /\ tasks' = Without(s)
            /\ UNCHANGED <<user, windowVars>>
    /\ UNCHANGED <<main, netVars, protocol, startVars, quit>>

\* A mutant of get_vm_list_finished: the early return leaves the GUI state.
ListFinishedEarly(s) ==
    /\ Callback("list", s)
    /\ tasks' = Without(s)
    /\ fetching' = (fetching /\ tasks[s].reply = "null")
    /\ listOf' = CASE tasks[s].reply = "null" -> listOf
                   [] tasks[s].reply = "error" -> 0
                   [] OTHER -> tasks[s].token
    /\ listMissed' = IF tasks[s].reply = "null" THEN listMissed ELSE tasks[s].fate = "missed"
    /\ UNCHANGED <<main, netVars, protocol, auth, mgr, startVars, quit, user>>

\* on_controller_session_get_vm_list_task_finished: without a body the list is kept,
\* and whether the window is shown is not asked.
get_vm_list_finished(s) ==
    /\ Callback("list", s)
    /\ tasks' = Without(s)
    /\ fetching' = FALSE
    /\ listOf' = CASE tasks[s].reply = "null" -> listOf
                   [] tasks[s].reply = "error" -> 0
                   [] OTHER -> tasks[s].token
    /\ listMissed' = IF tasks[s].reply = "null" THEN listMissed ELSE tasks[s].fate = "missed"
    /\ UNCHANGED <<main, netVars, protocol, auth, mgr, startVars, quit, user>>

Viewer(p) == IF p = "rdp" THEN "rdp" ELSE "spice"

\* connect_to_vm of remote-viewer.c: the protocol is read once more.
ConnectToVm(task) ==
    /\ viewers' = viewers \cup {Viewer(protocol)}
    /\ escaped' = (escaped \/ task.fate = "missed")

\* on_controller_session_get_vm_data_task_finished.
get_vm_data_finished(s) ==
    /\ Callback("vm", s)
    /\ tasks' = Without(s)
    /\ fetching' = FALSE
    /\ IF tasks[s].reply = "data"
       THEN FinishJob /\ ConnectToVm(tasks[s])
       ELSE UNCHANGED <<mgr, listOf, listMissed, startVars>>
    /\ UNCHANGED <<main, netVars, protocol, auth, quit, user>>

-----------------------------------------------------------------------------
(* The user.                                                               *)

userFrame == <<main, netVars, quit, user>>

connect_to_controller ==
    /\ Looping /\ auth = "idle"
    /\ auth' = "try"
    /\ Idle(tasks) # {}
    /\ tasks' = [tasks EXCEPT ![FreeSlot(tasks)] = NewTask("login", "none")]
    /\ UNCHANGED <<queue, protocol, windowVars, startVars, userFrame>>

\* The button of the login window, or the one of the controller window.
cancel_requests ==
    /\ Looping /\ (auth = "try" \/ (mgr /\ fetching))
    /\ tasks' = Cut(tasks)
    /\ UNCHANGED <<queue, protocol, auth, windowVars, startVars, userFrame>>

\* The button, or Enter in the filter: both are off while a list is fetched.
update_clicked ==
    /\ Looping /\ mgr /\ ~fetching
    /\ GetVms(tasks)
    /\ UNCHANGED <<queue, protocol, auth, mgr, listOf, listMissed, startVars, userFrame>>

Pending == {s \in Slots : tasks[s].kind = "vm"}

AskForVm(p) ==
    /\ Idle(tasks) # {}
    /\ tasks' = [s \in Slots |->
         IF s = FreeSlot(tasks) THEN [NewTask("vm", p) EXCEPT !.rival = Pending # {}]
         ELSE IF s \in Pending THEN [tasks[s] EXCEPT !.rival = TRUE] ELSE tasks[s]]

\* A mutant of vm_clicked: the protocol is left as it is.
VmClickedKeepsProtocol(p) ==
    /\ Looping /\ mgr /\ listOf # 0
    /\ AskForVm(p)
    /\ UNCHANGED <<queue, protocol, auth, windowVars, startVars, userFrame>>

\* vm_list_tree_view_mouse_btn_pressed: nothing keeps the user from a second click.
vm_clicked(p) ==
    /\ Looping /\ mgr /\ listOf # 0
    /\ AskForVm(p)
    /\ protocol' = p
    /\ UNCHANGED <<queue, auth, windowVars, startVars, userFrame>>

\* controller_manager_finish_job and on_logged_out of remote-viewer.c.
LoggedOut ==
    /\ FinishJob
    /\ viewers' = {}
    /\ auth' = IF auth = "off" THEN "idle" ELSE auth
    /\ user' = 0

\* A mutant of logout_clicked: the requests under way are left alone.
LogoutWithoutAbort ==
    /\ Looping /\ mgr
    /\ tasks' = LoggedOutOf(tasks)
    /\ IF jwt = 0
       THEN LoggedOut /\ UNCHANGED main
       ELSE main' = "logout" /\ UNCHANGED <<mgr, listOf, listMissed, viewers, auth, user>>
    /\ UNCHANGED <<queue, netVars, protocol, fetching, escaped, quit>>

\* on_btn_logout_clicked: the requests are cut, and with a token the main loop is
\* blocked by the POST, for a second at most.
logout_clicked ==
    /\ Looping /\ mgr
    /\ tasks' = Cut(LoggedOutOf(tasks))
    /\ IF jwt = 0
       THEN LoggedOut /\ UNCHANGED main
       ELSE main' = "logout" /\ UNCHANGED <<mgr, listOf, listMissed, viewers, auth, user>>
    /\ UNCHANGED <<queue, netVars, protocol, fetching, escaped, quit>>

\* The POST was answered or not; the token stays either way.
logout_finished ==
    /\ ~quit /\ main = "logout"
    /\ main' = "loop"
    /\ \E revoked \in SUBSET {jwt} : valid' = valid \ revoked
    /\ LoggedOut
    /\ UNCHANGED <<tasks, queue, jwt, logins, protocol, fetching, escaped, quit>>

\* A viewer ends: on_vm_connection_finished shows the controller window.
vm_connection_finished(v) ==
    /\ Looping /\ v \in viewers
    /\ viewers' = viewers \ {v}
    /\ Show(tasks)
    /\ UNCHANGED <<queue, protocol, auth, escaped, userFrame>>

\* A window is closed, the one of a viewer included: the application ends.
quit_requested ==
    /\ Looping
    /\ quit' = TRUE
    /\ tasks' = [s \in Slots |-> NoTask] /\ queue' = <<>>
    /\ auth' = "off" /\ FinishJob /\ fetching' = FALSE /\ viewers' = {}
    /\ UNCHANGED <<main, netVars, protocol, escaped, user>>

ended == quit /\ UNCHANGED vars

Answer(s) ==
    \/ login_refused(s) \/ login_accepted(s) \/ request_fails(s)
    \/ list_answered(s) \/ vm_answered(s) \/ node_answered(s)

Worker(s) == send(s) \/ send_node(s) \/ Answer(s)

MainLoop ==
    \/ logout_finished
    \/ \E s \in Slots :
         log_in_finished(s) \/ get_vm_list_finished(s) \/ get_vm_data_finished(s)

User ==
    \/ connect_to_controller \/ cancel_requests \/ update_clicked \/ logout_clicked
    \/ quit_requested
    \/ \E p \in Protocols : vm_clicked(p)
    \/ \E v \in viewers : vm_connection_finished(v)

Next == (\E s \in Slots : Worker(s)) \/ MainLoop \/ User \/ ended

\* A worker runs and its request ends, with the time-out of the session if nothing
\* else ends it; the main loop runs what is queued.
Fairness ==
    /\ \A s \in Slots : WF_vars(Worker(s))
    /\ WF_vars(MainLoop)

Spec == Init /\ [][Next]_vars /\ Fairness

-----------------------------------------------------------------------------
(* Properties.                                                             *)

\* Until the application ends some window is shown: the login window, the controller
\* window or a viewer.
NeverWindowless == quit \/ auth # "off" \/ mgr \/ viewers # {}

\* Nobody sees the controller window without a login, unless a machine was started
\* by a request that a logout had missed, and its viewer ended.
OnlyEscapedStartShowsSelector == mgr /\ user = 0 => escaped

\* The machines listed are those of the login that looks at them.  A request that
\* was on the wire at the logout was cut, and one whose answer was queued filled the
\* list before it was cleared: only one the logout caught before it was sent shows
\* one login's machines to the next.
ListBelongsToLogin ==
    mgr /\ listOf \notin {0, user} => escaped \/ listMissed

\* The main loop takes up the data of a machine, and starts it.
Starts(s) ==
    /\ queue # <<>> /\ s = Head(queue) /\ queue' = Tail(queue) /\ ~quit'
    /\ tasks[s].kind = "vm" /\ tasks[s].reply = "data"

\* A machine is started for the login that chose it: no request that was on the wire
\* when its login ended starts one, except the second request of direct SPICE.
StartBelongsToLogin == [][\A s \in Slots : Starts(s) => tasks[s].fate # "cut"]_vars

\* A machine is started once, from the controller window, over the protocol chosen
\* with it, unless another one was asked for while its request was under way.
StartMatchesClick ==
    [][\A s \in Slots : Starts(s) =>
          \/ tasks[s].rival \/ tasks[s].fate = "missed"
          \/ mgr /\ protocol = tasks[s].chosen]_vars

\* What the user sees of it.
LoginShown ==
    CASE auth = "off"  -> "hidden"
      [] auth = "idle" -> "shown"
      [] auth = "try"  -> "trying"

Windows == INSTANCE WindowFlow WITH
    login    <- LoginShown,
    selector <- mgr,
    viewer   <- viewers # {},
    waiting  <- mgr /\ fetching,
    ended    <- quit

\* The windows come and go as remote-viewer.c connects them, and a try to log in and the
\* wait for a list come to an end, whatever is cut meanwhile.
ImplementsWindows == Windows!Spec

=============================================================================
