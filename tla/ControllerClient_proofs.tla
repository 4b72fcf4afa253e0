----------------------- MODULE ControllerClient_proofs -----------------------
(***************************************************************************)
(* What ControllerClient keeps for any number of tasks and logins.         *)
(*                                                                         *)
(* A logout leaves a mark on every request it meets: cut, or missed.  The  *)
(* invariant says what a marked request can still do: one that was cut     *)
(* never brings a machine (CutFails), what it brings of a list is out of   *)
(* the queue before the next login (OldListsFirst), and a request without  *)
(* a mark belongs to the login there is now (OutlivesNoLogin, OneUser).    *)
(***************************************************************************)
EXTENDS ControllerClient, SequenceTheorems, TLAPS

Is(s, kinds) == tasks[s].kind \in kinds

OutlivesNoLogin ==
    ~escaped /\ user = 0 =>
        /\ ~mgr /\ viewers = {}
        /\ \A s \in Slots : Is(s, {"list", "vm"}) => tasks[s].fate # "none"

BlockedLogout ==
    main = "logout" => \A s \in Slots : Is(s, {"list", "vm"}) => tasks[s].fate # "none"

CutFails ==
    \A s \in Slots : tasks[s].fate = "cut" =>
        /\ (tasks[s].stage = "sent" /\ tasks[s].cut) \/ tasks[s].stage = "done"
        /\ Is(s, {"vm"}) => tasks[s].reply # "data"

Unanswered == \A s \in Slots : tasks[s].stage # "done" => tasks[s].reply = "none"

OneLogin ==
    \A s \in Slots : Is(s, {"login"}) =>
        /\ auth = "try" /\ tasks[s].fate = "none"
        /\ tasks[s].stage \in {"pool", "sent", "done"}
        /\ tasks[s].reply = "data" =>
              tasks[s].stage = "done" /\ tasks[s].token = jwt /\ jwt # 0
        /\ \A r \in Slots : Is(r, {"login"}) => r = s

ChosenAsClicked ==
    \A s \in Slots : Is(s, {"vm"}) =>
        /\ tasks[s].fate = "none" /\ ~tasks[s].rival => mgr /\ protocol = tasks[s].chosen
        /\ \A r \in Slots : Is(r, {"vm"}) /\ r # s => tasks[s].rival

OneUser ==
    ~escaped /\ ~quit =>
        /\ user # 0 <=> auth = "off"
        /\ user # 0 => jwt = user
        /\ \A s \in Slots : Is(s, {"list"}) /\ tasks[s].fate = "none" => tasks[s].token \in {0, user}

OldList(s) == Is(s, {"list"}) /\ tasks[s].fate = "cut" /\ tasks[s].reply \in {"none", "data"}

OldListsFirst ==
    ~escaped =>
        \A i \in DOMAIN queue : OldList(queue[i]) =>
            /\ main = "logout" \/ user = 0
            /\ \A j \in DOMAIN queue : Is(queue[j], {"login"}) => i < j

IInv ==
    /\ TypeOK
    /\ NeverWindowless
    /\ OutlivesNoLogin /\ BlockedLogout
    /\ CutFails /\ Unanswered /\ OneLogin
    /\ ChosenAsClicked
    /\ OneUser /\ OldListsFirst
    /\ ListBelongsToLogin

-----------------------------------------------------------------------------
(* Types.                                                                  *)

TaskSet == Tasks \cup {NoTask}

TasksTyped == tasks \in [Slots -> TaskSet]

\* What TypeOK says beside the tasks and the queue.
OthersTyped ==
    /\ main \in {"loop", "logout"}
    /\ jwt \in Logins /\ logins \in Logins /\ user \in Logins /\ listOf \in Logins
    /\ valid \subseteq 1 .. MaxLogins
    /\ protocol \in Protocols
    /\ auth \in {"off", "idle", "try"}
    /\ mgr \in BOOLEAN /\ fetching \in BOOLEAN /\ quit \in BOOLEAN /\ escaped \in BOOLEAN
    /\ viewers \subseteq {"spice", "rdp"}
    /\ listMissed \in BOOLEAN

LEMMA TypesSplit == TypeOK <=> TasksTyped /\ QueueOK /\ OthersTyped
BY DEF TypeOK, TasksTyped, TaskSet, OthersTyped

LEMMA TypesJoin ==
    ASSUME TasksTyped', QueueOK', OthersTyped'
    PROVE  TypeOK'
BY DEF TypeOK, TasksTyped, TaskSet, OthersTyped

LEMMA NoLogins == 0 \in Logins
BY MaxLoginsAssumption DEF Logins

\* A task is a task whichever of its fields is set.
LEMMA TaskEdits ==
    ASSUME NEW t \in Tasks
    PROVE  /\ \A v \in Stages : [t EXCEPT !.stage = v] \in Tasks
           /\ \A v \in {"none", "data", "error", "null"} : [t EXCEPT !.reply = v] \in Tasks
           /\ \A v \in Logins : [t EXCEPT !.token = v] \in Tasks
           /\ \A v \in BOOLEAN : [t EXCEPT !.node = v] \in Tasks
           /\ \A v \in BOOLEAN : [t EXCEPT !.cut = v] \in Tasks
           /\ \A v \in BOOLEAN : [t EXCEPT !.rival = v] \in Tasks
           /\ \A v \in {"none", "cut", "missed"} : [t EXCEPT !.fate = v] \in Tasks
BY DEF Tasks

LEMMA NewTaskTyped ==
    ASSUME NEW k \in Kinds, NEW p \in Protocols \cup {"none"}
    PROVE  /\ NewTask(k, p) \in Tasks
           /\ NewTask(k, p).kind = k /\ NewTask(k, p).stage = "pool"
           /\ NewTask(k, p).chosen = p /\ NewTask(k, p).token = 0
           /\ NewTask(k, p).reply = "none" /\ NewTask(k, p).fate = "none"
           /\ ~NewTask(k, p).rival
BY NoLogins DEF NewTask, Tasks, Stages

LEMMA NoTaskFacts ==
    /\ NoTask.kind = "none" /\ NoTask.stage = "free" /\ NoTask.fate = "none"
    /\ NoTask \notin Tasks
BY DEF NoTask, Tasks, Kinds

\* A slot is idle, or it holds a task.
LEMMA SlotFacts ==
    ASSUME TasksTyped, NEW s \in Slots
    PROVE  /\ tasks[s] \in TaskSet
           /\ tasks[s].kind \in Kinds => tasks[s] \in Tasks
           /\ tasks[s].stage \in Stages => tasks[s] \in Tasks
           /\ tasks[s].kind = "none" => tasks[s] = NoTask
BY NoTaskFacts DEF TasksTyped, TaskSet, Tasks, Kinds, Stages

\* The queue, when a worker returns, ...
LEMMA QueueAppended ==
    ASSUME QueueOK, NEW s \in Slots, tasks[s].stage # "done",
           queue' = Append(queue, s), tasks'[s].stage = "done",
           \A r \in Slots : r # s => tasks'[r].stage = tasks[r].stage
    PROVE  /\ QueueOK'
           /\ Len(queue') = Len(queue) + 1 /\ queue'[Len(queue) + 1] = s
           /\ \A i \in 1 .. Len(queue) : queue'[i] = queue[i]
<1>1. /\ queue' \in Seq(Slots) /\ Len(queue') = Len(queue) + 1
      /\ queue'[Len(queue) + 1] = s
      /\ \A i \in 1 .. Len(queue) : queue'[i] = queue[i]
  BY AppendProperties DEF QueueOK
<1>2. /\ DOMAIN queue = 1 .. Len(queue) /\ DOMAIN queue' = 1 .. (Len(queue) + 1)
      /\ Len(queue) \in Nat
  BY <1>1 DEF QueueOK
<1>3. \A i \in 1 .. Len(queue) : queue[i] # s
  BY <1>2 DEF QueueOK
<1>4. \A r \in Slots : tasks'[r].stage = "done" <=> \E i \in DOMAIN queue' : queue'[i] = r
  <2> TAKE r \in Slots
  <2>1. CASE r = s
    <3>1. Len(queue) + 1 \in DOMAIN queue'
      BY <1>2
    <3> QED BY <1>1, <2>1, <3>1
  <2>2. CASE r # s
    BY <1>1, <1>2, <2>2 DEF QueueOK
  <2> QED BY <2>1, <2>2
<1>5. \A i, j \in DOMAIN queue' : queue'[i] = queue'[j] => i = j
  BY <1>1, <1>2, <1>3 DEF QueueOK
<1> QED BY <1>1, <1>4, <1>5 DEF QueueOK

\* ... when the main loop takes the callback of a task, ...
LEMMA QueueTaken ==
    ASSUME QueueOK, queue # <<>>, NEW s, s = Head(queue), queue' = Tail(queue),
           tasks'[s].stage # "done",
           \A r \in Slots : r # s => (tasks'[r].stage = "done" <=> tasks[r].stage = "done")
    PROVE  /\ QueueOK'
           /\ Len(queue) \in Nat \ {0} /\ queue[1] = s
           /\ DOMAIN queue = 1 .. Len(queue) /\ DOMAIN queue' = 1 .. (Len(queue) - 1)
           /\ \A i \in 1 .. (Len(queue) - 1) : queue'[i] = queue[i + 1]
<1>1. /\ queue' \in Seq(Slots) /\ Len(queue') = Len(queue) - 1
      /\ \A i \in 1 .. Len(queue') : queue'[i] = queue[i + 1]
      /\ s \in Slots
  BY HeadTailProperties DEF QueueOK
<1>2. Len(queue) \in Nat \ {0} /\ queue[1] = s
  BY EmptySeq DEF QueueOK
<1>3. DOMAIN queue = 1 .. Len(queue) /\ DOMAIN queue' = 1 .. (Len(queue) - 1)
  BY <1>1 DEF QueueOK
<1>4. \A i \in 1 .. (Len(queue) - 1) : queue'[i] = queue[i + 1] /\ i + 1 \in DOMAIN queue
  BY <1>1, <1>2, <1>3
<1>5. \A r \in Slots : tasks'[r].stage = "done" <=> \E i \in DOMAIN queue' : queue'[i] = r
  <2> TAKE r \in Slots
  <2>1. CASE r = s
    <3>1. \A i \in DOMAIN queue' : queue'[i] # s
      BY <1>2, <1>3, <1>4 DEF QueueOK
    <3> QED BY <2>1, <3>1
  <2>2. CASE r # s
    <3>1. ASSUME tasks'[r].stage = "done" PROVE \E i \in DOMAIN queue' : queue'[i] = r
      <4>1. PICK i \in DOMAIN queue : queue[i] = r
        BY <2>2, <3>1 DEF QueueOK
      <4>2. i # 1 /\ i - 1 \in DOMAIN queue' /\ (i - 1) + 1 = i
        BY <1>2, <1>3, <2>2, <4>1
      <4>3. queue'[i - 1] = r
        BY <1>3, <1>4, <4>1, <4>2
      <4> QED BY <4>2, <4>3
    <3>2. ASSUME NEW i \in DOMAIN queue', queue'[i] = r PROVE tasks'[r].stage = "done"
      BY <1>3, <1>4, <2>2, <3>2 DEF QueueOK
    <3> QED BY <3>1, <3>2
  <2> QED BY <2>1, <2>2
<1>6. \A i, j \in DOMAIN queue' : queue'[i] = queue'[j] => i = j
  BY <1>2, <1>3, <1>4 DEF QueueOK
<1> QED BY <1>1, <1>2, <1>3, <1>4, <1>5, <1>6 DEF QueueOK

\* ... and when it is left alone.
LEMMA QueueKept ==
    ASSUME QueueOK, UNCHANGED queue,
           \A r \in Slots : tasks'[r].stage = "done" <=> tasks[r].stage = "done"
    PROVE  QueueOK'
BY DEF QueueOK

-----------------------------------------------------------------------------
(* The worker.                                                             *)

\* What a step of the worker of s leaves of its task and of the queue.
Worked(s) ==
    /\ TasksTyped' /\ QueueOK'
    /\ \A r \in Slots : r # s => tasks'[r] = tasks[r]
    /\ tasks'[s].kind = tasks[s].kind /\ tasks'[s].fate = tasks[s].fate
    /\ tasks'[s].chosen = tasks[s].chosen /\ tasks'[s].rival = tasks[s].rival
    /\ tasks[s].stage # "done"
    /\ \/ UNCHANGED queue
       \/ /\ Len(queue') = Len(queue) + 1 /\ queue'[Len(queue) + 1] = s
          /\ \A i \in 1 .. Len(queue) : queue'[i] = queue[i]

\* A request that a logout cut only fails, a list is asked for with the token there
\* is, and data, if it is of a login, comes with its token.
WorkerFacts(s) ==
    /\ Worked(s)
    /\ tasks[s].fate = "cut" => tasks'[s].stage = "done" /\ tasks'[s].reply \in {"error", "null"}
    /\ tasks'[s].stage # "done" => tasks'[s].reply = "none"
    /\ IF tasks[s].kind = "login"
       THEN /\ tasks'[s].stage \in {"sent", "done"}
            /\ tasks'[s].reply = "data" =>
                  tasks'[s].stage = "done" /\ tasks'[s].token = jwt' /\ jwt' # 0
       ELSE jwt' = jwt /\ tasks'[s].token \in {tasks[s].token, jwt}
    /\ jwt' \in Logins /\ logins' \in Logins /\ valid' \subseteq 1 .. MaxLogins

LEMMA ReturnWorks ==
    ASSUME TasksTyped, QueueOK, NEW s \in Slots, NEW t \in Tasks, Return(s, t),
           tasks[s].stage # "done",
           t.kind = tasks[s].kind, t.fate = tasks[s].fate,
           t.chosen = tasks[s].chosen, t.rival = tasks[s].rival
    PROVE  /\ Worked(s)
           /\ tasks'[s].stage = "done"
           /\ tasks'[s].reply = t.reply /\ tasks'[s].token = t.token
<1> DEFINE done == [t EXCEPT !.stage = "done", !.cut = FALSE]
<1>1. done \in Tasks
  BY DEF Tasks, Stages
<1>2. /\ done.kind = t.kind /\ done.fate = t.fate /\ done.chosen = t.chosen
      /\ done.rival = t.rival /\ done.stage = "done" /\ done.reply = t.reply
      /\ done.token = t.token
  BY DEF Tasks
<1>3. tasks' = [tasks EXCEPT ![s] = done] /\ queue' = Append(queue, s)
  BY DEF Return
<1> HIDE DEF done
<1>4. TasksTyped' /\ tasks'[s] = done /\ \A r \in Slots : r # s => tasks'[r] = tasks[r]
  BY <1>1, <1>3 DEF TasksTyped, TaskSet
<1>5. /\ QueueOK'
      /\ Len(queue') = Len(queue) + 1 /\ queue'[Len(queue) + 1] = s
      /\ \A i \in 1 .. Len(queue) : queue'[i] = queue[i]
  BY <1>2, <1>3, <1>4, QueueAppended
<1> QED BY <1>2, <1>4, <1>5 DEF Worked

\* The request goes on the wire, or is about to be followed by the one for the node.
LEMMA MoveWorks ==
    ASSUME TasksTyped, QueueOK, NEW s \in Slots, NEW t \in Tasks,
           tasks' = [tasks EXCEPT ![s] = t], UNCHANGED queue,
           tasks[s].stage # "done", t.stage # "done",
           t.kind = tasks[s].kind, t.fate = tasks[s].fate,
           t.chosen = tasks[s].chosen, t.rival = tasks[s].rival
    PROVE  Worked(s) /\ tasks'[s] = t
<1>1. TasksTyped' /\ tasks'[s] = t /\ \A r \in Slots : r # s => tasks'[r] = tasks[r]
  BY DEF TasksTyped, TaskSet
<1>2. QueueOK'
  BY <1>1, QueueKept
<1> QED BY <1>1, <1>2 DEF Worked

LEMMA WorkerStep ==
    ASSUME IInv, NEW s \in Slots, Worker(s)
    PROVE  WorkerFacts(s) /\ UNCHANGED workerFrame
<1>1. /\ TasksTyped /\ QueueOK /\ OthersTyped
      /\ 0 \in Logins /\ "none" \in {"none", "data", "error", "null"}
  BY TypesSplit, NoLogins DEF IInv
<1>2. tasks[s].stage \in Stages \ {"done"}
  BY DEF Worker, send, send_node, Answer, login_refused, login_accepted, request_fails,
         list_answered, vm_answered, Answerable, node_answered, Stages
<1>3. tasks[s] \in Tasks /\ tasks[s].reply = "none"
  BY <1>1, <1>2, SlotFacts DEF IInv, Unanswered
<1>4. tasks[s].fate = "cut" => tasks[s].stage = "sent" /\ tasks[s].cut
  BY <1>2 DEF IInv, CutFails
<1>5. tasks[s].kind = "login" => tasks[s].reply # "data" /\ tasks[s].fate = "none"
  BY <1>2 DEF IInv, OneLogin, Is
<1>6. /\ tasks[s].token \in Logins /\ tasks[s].kind \in Kinds
      /\ \A v \in Stages \ {"done"} :
            LET t == [tasks[s] EXCEPT !.stage = v] IN
               /\ t \in Tasks /\ t.stage = v /\ t.kind = tasks[s].kind
               /\ t.fate = tasks[s].fate /\ t.chosen = tasks[s].chosen
               /\ t.rival = tasks[s].rival /\ t.token = tasks[s].token
               /\ t.reply = tasks[s].reply
      /\ \A v \in {"none", "data", "error", "null"} :
            LET t == [tasks[s] EXCEPT !.reply = v] IN
               /\ t \in Tasks /\ t.reply = v /\ t.kind = tasks[s].kind
               /\ t.fate = tasks[s].fate /\ t.chosen = tasks[s].chosen
               /\ t.rival = tasks[s].rival /\ t.token = tasks[s].token
  BY <1>3 DEF Tasks
<1>7. CASE send(s)
  <2>1. tasks[s].stage = "pool" /\ UNCHANGED <<logins, valid, workerFrame>>
    BY <1>7 DEF send
  <2>2. tasks[s].fate # "cut"
    BY <1>4, <2>1
  <2>3. CASE tasks[s].kind # "login" /\ jwt = 0
    <3>1. Return(s, [tasks[s] EXCEPT !.reply = "null"]) /\ UNCHANGED jwt
      BY <1>7, <2>3 DEF send
    <3>2. Worked(s) /\ tasks'[s].token = tasks[s].token /\ tasks'[s].stage = "done"
      BY <1>1, <1>2, <1>6, <3>1, ReturnWorks
    <3> QED BY <1>1, <2>1, <2>2, <2>3, <3>1, <3>2 DEF WorkerFacts, OthersTyped
  <2>4. CASE ~(tasks[s].kind # "login" /\ jwt = 0)
    <3> DEFINE t == [tasks[s] EXCEPT !.stage = "sent", !.token = jwt]
    <3>1. /\ tasks' = [tasks EXCEPT ![s] = t] /\ UNCHANGED queue
          /\ jwt' = IF tasks[s].kind = "login" THEN 0 ELSE jwt
      BY <1>7, <2>4 DEF send
    <3>2. /\ t \in Tasks /\ t.stage = "sent" /\ t.token = jwt /\ t.kind = tasks[s].kind
          /\ t.fate = tasks[s].fate /\ t.chosen = tasks[s].chosen
          /\ t.rival = tasks[s].rival /\ t.reply = "none"
      BY <1>1, <1>3 DEF Tasks, Stages, OthersTyped
    <3> HIDE DEF t
    <3>3. Worked(s) /\ tasks'[s] = t
      BY <1>1, <1>2, <3>1, <3>2, MoveWorks
    <3> QED BY <1>1, <1>5, <2>1, <2>2, <3>1, <3>2, <3>3 DEF WorkerFacts, OthersTyped
  <2> QED BY <2>3, <2>4
<1>8. CASE login_refused(s)
  <2>1. /\ Return(s, [tasks[s] EXCEPT !.reply = "error"]) /\ tasks[s].kind = "login"
        /\ UNCHANGED <<netVars, workerFrame>>
    BY <1>8 DEF login_refused
  <2>2. Worked(s) /\ tasks'[s].reply = "error" /\ tasks'[s].stage = "done"
    BY <1>1, <1>2, <1>6, <2>1, ReturnWorks
  <2> QED BY <1>1, <1>5, <2>1, <2>2 DEF WorkerFacts, OthersTyped, netVars
<1>9. CASE login_accepted(s)
  <2> DEFINE t == [tasks[s] EXCEPT !.reply = "data", !.token = logins']
  <2>1. /\ Return(s, t) /\ tasks[s].kind = "login"
        /\ logins < MaxLogins /\ logins' = logins + 1 /\ jwt' = logins'
        /\ valid' = valid \cup {logins'} /\ UNCHANGED workerFrame
    BY <1>9 DEF login_accepted
  <2>2. logins' \in Logins /\ logins' \in 1 .. MaxLogins /\ logins' # 0
    BY <1>1, <2>1, MaxLoginsAssumption DEF OthersTyped, Logins
  <2>3. /\ t \in Tasks /\ t.token = logins' /\ t.kind = tasks[s].kind
        /\ t.fate = tasks[s].fate /\ t.chosen = tasks[s].chosen
        /\ t.rival = tasks[s].rival
    BY <1>3, <2>2 DEF Tasks
  <2> HIDE DEF t
  <2>4. Worked(s) /\ tasks'[s].stage = "done" /\ tasks'[s].token = logins'
    BY <1>1, <1>2, <2>1, <2>3, ReturnWorks
  <2>5. valid' \subseteq 1 .. MaxLogins
    BY <1>1, <2>1, <2>2 DEF OthersTyped
  <2> QED BY <1>5, <2>1, <2>2, <2>4, <2>5 DEF WorkerFacts
<1>10. CASE request_fails(s)
  <2>1. PICK v \in {"error", "null"} : Return(s, [tasks[s] EXCEPT !.reply = v])
    BY <1>10 DEF request_fails
  <2>2. UNCHANGED <<netVars, workerFrame>> /\ tasks[s].kind # "login"
    BY <1>10 DEF request_fails
  <2>3. /\ Worked(s) /\ tasks'[s].reply \in {"error", "null"} /\ tasks'[s].stage = "done"
        /\ tasks'[s].token = tasks[s].token
    BY <1>1, <1>2, <1>6, <2>1, ReturnWorks
  <2> QED BY <1>1, <2>2, <2>3 DEF WorkerFacts, OthersTyped, netVars
<1>11. CASE list_answered(s)
  <2>1. /\ Return(s, [tasks[s] EXCEPT !.reply = "data"]) /\ tasks[s].kind = "list"
        /\ UNCHANGED <<netVars, workerFrame>> /\ ~tasks[s].cut
    BY <1>11 DEF list_answered, Answerable
  <2>2. Worked(s) /\ tasks'[s].token = tasks[s].token /\ tasks'[s].stage = "done"
    BY <1>1, <1>2, <1>6, <2>1, ReturnWorks
  <2> QED BY <1>1, <1>4, <2>1, <2>2 DEF WorkerFacts, OthersTyped, netVars
<1>12. CASE vm_answered(s)
  <2>1. /\ tasks[s].kind = "vm" /\ UNCHANGED <<netVars, workerFrame>> /\ ~tasks[s].cut
    BY <1>12 DEF vm_answered, Answerable
  <2>2. CASE Return(s, [tasks[s] EXCEPT !.reply = "data"])
    <3>1. Worked(s) /\ tasks'[s].token = tasks[s].token /\ tasks'[s].stage = "done"
      BY <1>1, <1>2, <1>6, <2>2, ReturnWorks
    <3> QED BY <1>1, <1>4, <2>1, <3>1 DEF WorkerFacts, OthersTyped, netVars
  <2>3. CASE tasks' = [tasks EXCEPT ![s].stage = "parsed"] /\ UNCHANGED queue
    <3>1. tasks' = [tasks EXCEPT ![s] = [tasks[s] EXCEPT !.stage = "parsed"]]
      BY <2>3
    <3>2. Worked(s) /\ tasks'[s].token = tasks[s].token /\ tasks'[s].reply = "none"
      <4> DEFINE t == [tasks[s] EXCEPT !.stage = "parsed"]
      <4>1. /\ t \in Tasks /\ t.stage = "parsed" /\ t.kind = tasks[s].kind
            /\ t.fate = tasks[s].fate /\ t.chosen = tasks[s].chosen
            /\ t.rival = tasks[s].rival /\ t.token = tasks[s].token /\ t.reply = "none"
        BY <1>3 DEF Tasks, Stages
      <4> HIDE DEF t
      <4>2. tasks' = [tasks EXCEPT ![s] = t]
        BY <3>1 DEF t
      <4> QED BY <1>1, <1>2, <2>3, <4>1, <4>2, MoveWorks
    <3> QED BY <1>1, <1>4, <2>1, <3>2 DEF WorkerFacts, OthersTyped, netVars
  <2> QED BY <1>12, <2>2, <2>3 DEF vm_answered
<1>13. CASE send_node(s) \/ node_answered(s)
  <2>1. /\ tasks[s].stage \in {"parsed", "node"} /\ tasks[s].fate # "cut"
        /\ UNCHANGED <<netVars, workerFrame>>
    BY <1>4, <1>13 DEF send_node, node_answered
  <2>2. tasks[s].kind # "login"
    BY <2>1 DEF IInv, OneLogin, Is
  <2>3. CASE tasks' = [tasks EXCEPT ![s].stage = "node", ![s].token = jwt] /\ UNCHANGED queue
    <3> DEFINE t == [tasks[s] EXCEPT !.stage = "node", !.token = jwt]
    <3>1. tasks' = [tasks EXCEPT ![s] = t]
      BY <2>3
    <3>2. /\ t \in Tasks /\ t.stage = "node" /\ t.token = jwt /\ t.kind = tasks[s].kind
          /\ t.fate = tasks[s].fate /\ t.chosen = tasks[s].chosen
          /\ t.rival = tasks[s].rival /\ t.reply = "none"
      BY <1>1, <1>3 DEF Tasks, Stages, OthersTyped
    <3> HIDE DEF t
    <3>3. Worked(s) /\ tasks'[s] = t
      BY <1>1, <1>2, <2>3, <3>1, <3>2, MoveWorks
    <3> QED BY <1>1, <2>1, <2>2, <3>2, <3>3 DEF WorkerFacts, OthersTyped, netVars
  <2>4. ASSUME NEW node \in BOOLEAN, ReturnHost(s, node) PROVE WorkerFacts(s)
    <3> DEFINE t == [tasks[s] EXCEPT !.reply = "data", !.node = node]
    <3>1. /\ t \in Tasks /\ t.token = tasks[s].token /\ t.kind = tasks[s].kind
          /\ t.fate = tasks[s].fate /\ t.chosen = tasks[s].chosen
          /\ t.rival = tasks[s].rival
      BY <1>3 DEF Tasks
    <3>2. Return(s, t)
      BY <2>4 DEF ReturnHost
    <3> HIDE DEF t
    <3>3. Worked(s) /\ tasks'[s].token = tasks[s].token /\ tasks'[s].stage = "done"
      BY <1>1, <1>2, <3>1, <3>2, ReturnWorks
    <3> QED BY <1>1, <2>1, <2>2, <3>3 DEF WorkerFacts, OthersTyped, netVars
  <2> QED BY <1>13, <2>1, <2>3, <2>4 DEF send_node, node_answered, netVars
<1> QED BY <1>7, <1>8, <1>9, <1>10, <1>11, <1>12, <1>13 DEF Worker, Answer

LEMMA WorkerKeepsInv ==
    ASSUME IInv, NEW s \in Slots, WorkerFacts(s), UNCHANGED workerFrame
    PROVE  IInv'
<1>1. /\ TasksTyped' /\ QueueOK'
      /\ tasks'[s].kind = tasks[s].kind /\ tasks'[s].fate = tasks[s].fate
      /\ tasks'[s].chosen = tasks[s].chosen /\ tasks'[s].rival = tasks[s].rival
      /\ \A r \in Slots : r # s => tasks'[r] = tasks[r]
  BY DEF WorkerFacts, Worked
<1>2. \A r \in Slots : /\ tasks'[r].kind = tasks[r].kind /\ tasks'[r].fate = tasks[r].fate
                        /\ tasks'[r].chosen = tasks[r].chosen
                        /\ tasks'[r].rival = tasks[r].rival
  BY <1>1
<1>3. /\ UNCHANGED <<main, protocol, auth, mgr, fetching, listOf, listMissed>>
      /\ UNCHANGED <<viewers, escaped, quit, user>>
  BY DEF workerFrame, windowVars, startVars
<1>4. TypeOK'
  <2>1. OthersTyped'
    <3>1. jwt' \in Logins /\ logins' \in Logins /\ valid' \subseteq 1 .. MaxLogins
      BY DEF WorkerFacts
    <3>2. OthersTyped
      BY TypesSplit DEF IInv
    <3> QED BY <1>3, <3>1, <3>2 DEF OthersTyped
  <2> QED BY <1>1, <2>1, TypesJoin
<1>5. NeverWindowless' /\ ListBelongsToLogin'
  BY <1>3 DEF IInv, NeverWindowless, ListBelongsToLogin
<1>6. OutlivesNoLogin' /\ BlockedLogout'
  BY <1>2, <1>3 DEF IInv, OutlivesNoLogin, BlockedLogout, Is
<1>7. CutFails'
  <2>1. tasks[s].fate = "cut" => tasks'[s].stage = "done" /\ tasks'[s].reply \in {"error", "null"}
    BY DEF WorkerFacts
  <2> QED BY <1>1, <2>1 DEF IInv, CutFails, Is
<1>8. OneLogin'
  <2>1. CASE tasks[s].kind = "login"
    <3>1. /\ tasks'[s].stage \in {"sent", "done"}
          /\ tasks'[s].reply = "data" =>
                tasks'[s].stage = "done" /\ tasks'[s].token = jwt' /\ jwt' # 0
      BY <2>1 DEF WorkerFacts
    <3> QED BY <1>1, <1>3, <2>1, <3>1 DEF IInv, OneLogin, Is
  <2>2. CASE tasks[s].kind # "login"
    <3>1. jwt' = jwt
      BY <2>2 DEF WorkerFacts
    <3> QED BY <1>1, <1>3, <2>2, <3>1 DEF IInv, OneLogin, Is
  <2> QED BY <2>1, <2>2
<1>9. ChosenAsClicked'
  BY <1>2, <1>3 DEF IInv, ChosenAsClicked, Is
<1>10. OneUser'
  <2> SUFFICES ASSUME ~escaped, ~quit
               PROVE  /\ user # 0 <=> auth = "off"
                      /\ user # 0 => jwt' = user
                      /\ \A r \in Slots : tasks'[r].kind = "list" /\ tasks'[r].fate = "none" =>
                            tasks'[r].token \in {0, user}
    BY <1>3 DEF OneUser, Is
  <2>1. tasks[s].kind = "login" => user = 0
    BY DEF IInv, OneLogin, OneUser, Is
  <2>2. tasks[s].kind # "login" => jwt' = jwt /\ tasks'[s].token \in {tasks[s].token, jwt}
    BY DEF WorkerFacts
  <2>3. \A r \in Slots : tasks[r].kind = "list" /\ tasks[r].fate = "none" => user # 0
    BY DEF IInv, OutlivesNoLogin, Is
  <2> QED BY <1>1, <2>1, <2>2, <2>3 DEF IInv, OneUser, Is
<1>11. OldListsFirst'
  <2>1. tasks[s].fate = "cut" => tasks'[s].reply \in {"error", "null"}
    BY DEF WorkerFacts
  <2>2. \A r \in Slots : OldList(r)' => OldList(r) /\ r # s
    BY <1>1, <2>1 DEF OldList, Is
  <2>3. queue \in Seq(Slots) /\ DOMAIN queue = 1 .. Len(queue) /\ Len(queue) \in Nat
    BY TypesSplit DEF IInv, QueueOK
  <2>4. CASE UNCHANGED queue
    BY <1>2, <1>3, <2>2, <2>3, <2>4 DEF IInv, OldListsFirst, Is
  <2>5. CASE /\ Len(queue') = Len(queue) + 1 /\ queue'[Len(queue) + 1] = s
             /\ \A i \in 1 .. Len(queue) : queue'[i] = queue[i]
    <3>1. DOMAIN queue' = 1 .. (Len(queue) + 1) /\ \A i \in DOMAIN queue' : queue'[i] \in Slots
      BY <1>1, <2>5 DEF QueueOK
    <3> SUFFICES ASSUME ~escaped, NEW i \in DOMAIN queue',
                        tasks'[queue'[i]].kind = "list", tasks'[queue'[i]].fate = "cut",
                        tasks'[queue'[i]].reply \in {"none", "data"}
                 PROVE  /\ main = "logout" \/ user = 0
                        /\ \A j \in DOMAIN queue' : tasks'[queue'[j]].kind = "login" => i < j
      BY <1>3 DEF OldListsFirst, OldList, Is
    <3>2. i \in 1 .. Len(queue) /\ OldList(queue[i])
      BY <2>2, <2>3, <2>5, <3>1 DEF OldList, Is
    <3>3. /\ main = "logout" \/ user = 0
          /\ \A j \in DOMAIN queue : tasks[queue[j]].kind = "login" => i < j
      BY <2>3, <3>2 DEF IInv, OldListsFirst, Is
    <3>4. ASSUME NEW j \in DOMAIN queue', tasks'[queue'[j]].kind = "login" PROVE i < j
      <4>1. CASE j = Len(queue) + 1
        BY <2>3, <3>2, <4>1
      <4>2. CASE j # Len(queue) + 1
        <5>1. j \in DOMAIN queue /\ queue'[j] = queue[j] /\ queue[j] \in Slots
          BY <2>3, <2>5, <3>1, <4>2
        <5> QED BY <1>2, <3>3, <3>4, <5>1
      <4> QED BY <4>1, <4>2
    <3> QED BY <3>3, <3>4
  <2> QED BY <2>4, <2>5 DEF WorkerFacts, Worked
<1>12. Unanswered'
  BY <1>1 DEF IInv, Unanswered, WorkerFacts
<1> QED BY <1>4, <1>5, <1>6, <1>7, <1>8, <1>9, <1>10, <1>11, <1>12 DEF IInv

-----------------------------------------------------------------------------
(* The steps that cut tasks, take one out or ask for a list.               *)

SameButCut(t, u) ==
    /\ u.kind = t.kind /\ u.stage = t.stage /\ u.chosen = t.chosen /\ u.token = t.token
    /\ u.reply = t.reply /\ u.rival = t.rival /\ u.fate = t.fate
    /\ t.cut => u.cut

Fresh(u) ==
    /\ u.kind = "list" /\ u.stage = "pool" /\ u.token = 0 /\ u.reply = "none"
    /\ u.fate = "none"

Gone(u) == u = NoTask

Shrunk ==
    /\ TasksTyped'
    /\ \A r \in Slots :
          \/ SameButCut(tasks[r], tasks'[r])
          \/ Fresh(tasks'[r])
          \/ Gone(tasks'[r])

LEMMA CutFacts ==
    ASSUME NEW ts \in [Slots -> TaskSet]
    PROVE  /\ Cut(ts) \in [Slots -> TaskSet]
           /\ \A s \in Slots : /\ SameButCut(ts[s], Cut(ts)[s])
                               /\ ts[s].stage \in OnWire => Cut(ts)[s].cut
<1> SUFFICES ASSUME NEW s \in Slots
             PROVE  /\ Cut(ts)[s] \in TaskSet
                    /\ SameButCut(ts[s], Cut(ts)[s])
                    /\ ts[s].stage \in OnWire => Cut(ts)[s].cut
  BY DEF Cut
<1>1. CASE ts[s].stage \in OnWire
  <2>1. ts[s] \in Tasks
    BY <1>1, NoTaskFacts DEF TaskSet, OnWire
  <2>2. Cut(ts)[s] = [ts[s] EXCEPT !.cut = TRUE]
    BY <1>1 DEF Cut
  <2>3. [ts[s] EXCEPT !.cut = TRUE] \in Tasks
    BY <2>1, TaskEdits
  <2>4. SameButCut(ts[s], [ts[s] EXCEPT !.cut = TRUE]) /\ [ts[s] EXCEPT !.cut = TRUE].cut
    BY <2>1 DEF SameButCut, Tasks
  <2> QED BY <2>2, <2>3, <2>4 DEF TaskSet
<1>2. CASE ts[s].stage \notin OnWire
  <2>1. Cut(ts)[s] = ts[s]
    BY <1>2 DEF Cut
  <2> QED BY <1>2, <2>1 DEF SameButCut
<1> QED BY <1>1, <1>2

\* A list is asked for, everything on the wire is cut.
LEMMA GetVmsFacts ==
    ASSUME NEW ts \in [Slots -> TaskSet], GetVms(ts)
    PROVE  /\ TasksTyped'
           /\ \A r \in Slots : \/ SameButCut(ts[r], tasks'[r])
                               \/ ts[r] = NoTask /\ Fresh(tasks'[r])
<1> DEFINE f == FreeSlot(ts)
           new == NewTask("list", "none")
<1>1. f \in Slots /\ ts[f].kind = "none"
  BY DEF GetVms, FreeSlot, Idle
<1>2. ts[f] = NoTask
  BY <1>1 DEF TaskSet, Tasks, Kinds
<1>3. new \in Tasks /\ Fresh(new)
  BY NewTaskTyped DEF Fresh, Kinds
<1>4. tasks' = [Cut(ts) EXCEPT ![f] = new]
  BY DEF GetVms
<1> HIDE DEF f, new
<1>5. /\ Cut(ts) \in [Slots -> TaskSet]
      /\ \A r \in Slots : SameButCut(ts[r], Cut(ts)[r])
  BY CutFacts
<1>6. TasksTyped' /\ tasks'[f] = new /\ \A r \in Slots : r # f => tasks'[r] = Cut(ts)[r]
  BY <1>1, <1>3, <1>4, <1>5 DEF TasksTyped, TaskSet
<1> QED BY <1>2, <1>3, <1>5, <1>6

LEMMA WithoutFacts ==
    ASSUME TasksTyped, NEW s \in Slots
    PROVE  /\ Without(s) \in [Slots -> TaskSet] /\ Without(s)[s] = NoTask
           /\ \A r \in Slots : r # s => Without(s)[r] = tasks[r]
BY DEF Without, TasksTyped, TaskSet

LEMMA ShrunkKeeps ==
    ASSUME IInv, Shrunk
    PROVE  /\ CutFails' /\ Unanswered'
           /\ jwt' = jwt /\ (auth' = auth \/ \A s \in Slots : tasks'[s].kind # "login") => OneLogin'
           /\ protocol' = protocol /\ (mgr => mgr') => ChosenAsClicked'
<1>1. \A r \in Slots :
         \/ SameButCut(tasks[r], tasks'[r])
         \/ tasks'[r].kind \in {"none", "list"} /\ tasks'[r].fate = "none"
  BY NoTaskFacts DEF Shrunk, Fresh, Gone
<1>2. CutFails'
  BY <1>1 DEF IInv, CutFails, SameButCut, Is
<1>3. ASSUME jwt' = jwt, auth' = auth \/ \A s \in Slots : tasks'[s].kind # "login"
      PROVE  OneLogin'
  BY <1>1, <1>3 DEF IInv, OneLogin, SameButCut, Is
<1>4. ASSUME protocol' = protocol, mgr => mgr'
      PROVE  ChosenAsClicked'
  BY <1>1, <1>4 DEF IInv, ChosenAsClicked, SameButCut, Is
<1>5. Unanswered'
  BY NoTaskFacts DEF IInv, Unanswered, Shrunk, SameButCut, Fresh, Gone, NoTask
<1> QED BY <1>2, <1>3, <1>4, <1>5

\* The lists left of an old login stay before the next login.
LEMMA OldListsKept ==
    ASSUME IInv, Shrunk, QueueOK',
           \/ UNCHANGED queue
           \/ /\ Len(queue) \in Nat \ {0}
              /\ DOMAIN queue = 1 .. Len(queue) /\ DOMAIN queue' = 1 .. (Len(queue) - 1)
              /\ \A i \in 1 .. (Len(queue) - 1) : queue'[i] = queue[i + 1],
           escaped => escaped',
           \A s \in Slots : ~escaped' /\ OldList(s) /\ (main = "logout" \/ user = 0) =>
               \/ main' = "logout" \/ user' = 0
               \/ \A i \in DOMAIN queue' : queue'[i] # s
    PROVE  OldListsFirst'
<1>1. \A r \in Slots : tasks'[r].kind = "list" /\ tasks'[r].fate = "cut" => SameButCut(tasks[r], tasks'[r])
  BY NoTaskFacts DEF Shrunk, Fresh, Gone
<1>2. \A r \in Slots : tasks'[r].kind = "login" => tasks[r].kind = "login"
  BY NoTaskFacts DEF Shrunk, Fresh, Gone, SameButCut
<1>3. \A i \in DOMAIN queue' : queue'[i] \in Slots
  BY DEF QueueOK
<1> SUFFICES ASSUME ~escaped', NEW i \in DOMAIN queue',
                    tasks'[queue'[i]].kind = "list", tasks'[queue'[i]].fate = "cut",
                    tasks'[queue'[i]].reply \in {"none", "data"}
             PROVE  /\ main' = "logout" \/ user' = 0
                    /\ \A j \in DOMAIN queue' : tasks'[queue'[j]].kind = "login" => i < j
  BY DEF OldListsFirst, OldList, Is
<1>4. OldList(queue'[i])
  BY <1>1, <1>3 DEF OldList, SameButCut, Is
<1>5. CASE UNCHANGED queue
  BY <1>2, <1>3, <1>4, <1>5 DEF IInv, OldListsFirst, Is
<1>6. CASE /\ Len(queue) \in Nat \ {0}
           /\ DOMAIN queue = 1 .. Len(queue) /\ DOMAIN queue' = 1 .. (Len(queue) - 1)
           /\ \A k \in 1 .. (Len(queue) - 1) : queue'[k] = queue[k + 1]
  <2>1. i + 1 \in DOMAIN queue /\ OldList(queue[i + 1]) /\ i \in Nat
    BY <1>4, <1>6
  <2>2. /\ main = "logout" \/ user = 0
        /\ \A j \in DOMAIN queue : tasks[queue[j]].kind = "login" => i + 1 < j
    BY <2>1 DEF IInv, OldListsFirst, Is
  <2>3. ASSUME NEW j \in DOMAIN queue', tasks'[queue'[j]].kind = "login" PROVE i < j
    <3>1. j + 1 \in DOMAIN queue /\ queue'[j] = queue[j + 1] /\ j \in Nat
      BY <1>6
    <3> QED BY <1>2, <1>3, <2>1, <2>2, <2>3, <3>1
  <2> QED BY <1>3, <1>4, <2>2, <2>3
<1> QED BY <1>5, <1>6

\* No callback is taken: the requests are cut, and a list may be asked for.
Refilled ==
    /\ TasksTyped'
    /\ \A r \in Slots : \/ SameButCut(tasks[r], tasks'[r])
                        \/ tasks[r] = NoTask /\ Fresh(tasks'[r])
    /\ UNCHANGED <<queue, main, protocol, auth, jwt, logins, valid, escaped, quit, user>>
    /\ mgr => mgr'

LEMMA RefilledKeeps ==
    ASSUME IInv, Refilled
    PROVE  /\ QueueOK' /\ CutFails' /\ Unanswered' /\ OneLogin' /\ ChosenAsClicked'
           /\ OneUser' /\ OldListsFirst'
<1>1. Shrunk
  BY DEF Shrunk, Refilled
<1>2. QueueOK'
  <2>1. \A r \in Slots : tasks'[r].stage = "done" <=> tasks[r].stage = "done"
    BY NoTaskFacts DEF SameButCut, Fresh, Refilled
  <2> QED BY <2>1, QueueKept, TypesSplit DEF IInv, Refilled
<1>3. CutFails' /\ Unanswered' /\ OneLogin' /\ ChosenAsClicked'
  BY <1>1, ShrunkKeeps DEF Refilled
<1>4. OneUser'
  <2>1. \A r \in Slots : tasks'[r].kind = "list" =>
           \/ tasks'[r].token = 0
           \/ tasks[r].kind = "list" /\ tasks[r].token = tasks'[r].token /\ tasks[r].fate = tasks'[r].fate
    BY DEF SameButCut, Fresh, Refilled
  <2> QED BY <2>1 DEF IInv, OneUser, Is, Refilled
<1>5. OldListsFirst'
  BY <1>1, <1>2, OldListsKept DEF Refilled
<1> QED BY <1>2, <1>3, <1>4, <1>5

LEMMA CancelKeepsInv ==
    ASSUME IInv, cancel_requests
    PROVE  IInv'
<1>1. /\ UNCHANGED <<queue, main, protocol, auth, jwt, logins, valid, escaped, quit, user>>
      /\ UNCHANGED <<mgr, fetching, listOf, listMissed, viewers>>
  BY DEF cancel_requests, windowVars, startVars, userFrame, netVars
<1>2. /\ TasksTyped' /\ \A r \in Slots : SameButCut(tasks[r], tasks'[r])
  BY CutFacts, TypesSplit DEF IInv, cancel_requests, TasksTyped
<1>3. /\ QueueOK' /\ CutFails' /\ Unanswered' /\ OneLogin' /\ ChosenAsClicked'
      /\ OneUser' /\ OldListsFirst'
  <2>1. Refilled
    BY <1>1, <1>2 DEF Refilled
  <2> QED BY <2>1, RefilledKeeps
<1>4. TypeOK'
  BY <1>1, <1>2, <1>3, TypesSplit, TypesJoin DEF IInv, OthersTyped
<1>5. NeverWindowless' /\ ListBelongsToLogin'
  BY <1>1 DEF IInv, NeverWindowless, ListBelongsToLogin
<1>6. OutlivesNoLogin' /\ BlockedLogout'
  BY <1>1, <1>2 DEF IInv, OutlivesNoLogin, BlockedLogout, Is, SameButCut
<1> QED BY <1>3, <1>4, <1>5, <1>6 DEF IInv

LEMMA UpdateKeepsInv ==
    ASSUME IInv, update_clicked
    PROVE  IInv'
<1>1. /\ UNCHANGED <<queue, main, protocol, auth, jwt, logins, valid, escaped, quit, user>>
      /\ UNCHANGED <<mgr, listOf, listMissed, viewers>>
      /\ fetching' = TRUE /\ mgr /\ main = "loop" /\ GetVms(tasks)
  BY DEF update_clicked, Looping, startVars, userFrame, netVars, GetVms
<1>2. /\ TasksTyped'
      /\ \A r \in Slots : \/ SameButCut(tasks[r], tasks'[r])
                          \/ tasks[r] = NoTask /\ Fresh(tasks'[r])
  BY <1>1, GetVmsFacts, TypesSplit DEF IInv, TasksTyped
<1>3. /\ QueueOK' /\ CutFails' /\ Unanswered' /\ OneLogin' /\ ChosenAsClicked'
      /\ OneUser' /\ OldListsFirst'
  <2>1. Refilled
    BY <1>1, <1>2 DEF Refilled
  <2> QED BY <2>1, RefilledKeeps
<1>4. TypeOK'
  BY <1>1, <1>2, <1>3, TypesSplit, TypesJoin DEF IInv, OthersTyped
<1>5. NeverWindowless' /\ ListBelongsToLogin'
  BY <1>1 DEF IInv, NeverWindowless, ListBelongsToLogin
<1>6. OutlivesNoLogin' /\ BlockedLogout'
  BY <1>1 DEF IInv, OutlivesNoLogin, BlockedLogout
<1> QED BY <1>3, <1>4, <1>5, <1>6 DEF IInv

\* controller_manager_show, the tasks being ts.
LEMMA ShowFacts ==
    ASSUME NEW ts \in [Slots -> TaskSet], Show(ts), mgr \in BOOLEAN
    PROVE  /\ TasksTyped' /\ mgr' = TRUE
           /\ \A r \in Slots : \/ SameButCut(ts[r], tasks'[r])
                               \/ ts[r] = NoTask /\ Fresh(tasks'[r])
           /\ \/ mgr /\ UNCHANGED <<fetching, listOf, listMissed>>
              \/ ~mgr /\ fetching' = TRUE /\ listOf' = 0 /\ listMissed' = FALSE
<1>1. CASE mgr
  <2>1. tasks' = ts /\ UNCHANGED windowVars
    BY <1>1 DEF Show
  <2> QED BY <1>1, <2>1 DEF windowVars, TasksTyped, SameButCut
<1>2. CASE ~mgr
  <2>1. mgr' = TRUE /\ listOf' = 0 /\ listMissed' = FALSE /\ GetVms(ts)
    BY <1>2 DEF Show
  <2>2. fetching' = TRUE
    BY <2>1 DEF GetVms
  <2> QED BY <1>2, <2>1, <2>2, GetVmsFacts
<1> QED BY <1>1, <1>2

LEMMA VmFinishedKeepsInv ==
    ASSUME IInv, NEW v \in viewers, vm_connection_finished(v)
    PROVE  IInv'
<1>1. /\ UNCHANGED <<queue, main, protocol, auth, jwt, logins, valid, escaped, quit, user>>
      /\ main = "loop" /\ viewers' = viewers \ {v} /\ Show(tasks)
  BY DEF vm_connection_finished, Looping, userFrame, netVars
<1>2. TasksTyped /\ QueueOK /\ OthersTyped
  BY TypesSplit DEF IInv
<1>3. /\ TasksTyped' /\ mgr' = TRUE
      /\ \A r \in Slots : \/ SameButCut(tasks[r], tasks'[r])
                          \/ tasks[r] = NoTask /\ Fresh(tasks'[r])
      /\ \/ mgr /\ UNCHANGED <<fetching, listOf, listMissed>>
         \/ ~mgr /\ fetching' = TRUE /\ listOf' = 0 /\ listMissed' = FALSE
  BY <1>1, <1>2, ShowFacts DEF TasksTyped, OthersTyped
<1>4. /\ QueueOK' /\ CutFails' /\ Unanswered' /\ OneLogin' /\ ChosenAsClicked'
      /\ OneUser' /\ OldListsFirst'
  <2>1. Refilled
    BY <1>1, <1>3 DEF Refilled
  <2> QED BY <2>1, RefilledKeeps
<1>5. TypeOK'
  <2>1. OthersTyped'
    BY <1>1, <1>2, <1>3, NoLogins DEF OthersTyped
  <2> QED BY <1>3, <1>4, <2>1, TypesJoin
<1>6. NeverWindowless' /\ ListBelongsToLogin'
  BY <1>1, <1>3 DEF IInv, NeverWindowless, ListBelongsToLogin
<1>7. OutlivesNoLogin' /\ BlockedLogout'
  BY <1>1 DEF IInv, OutlivesNoLogin, BlockedLogout
<1> QED BY <1>4, <1>5, <1>6, <1>7 DEF IInv

-----------------------------------------------------------------------------
(* The callbacks of the tasks.                                             *)

\* What a callback leaves of the tasks and of the queue.
Delivered(s) ==
    /\ Shrunk /\ QueueOK'
    /\ main = "loop" /\ ~quit
    /\ Len(queue) \in Nat \ {0} /\ queue[1] = s
    /\ DOMAIN queue = 1 .. Len(queue) /\ DOMAIN queue' = 1 .. (Len(queue) - 1)
    /\ \A i \in 1 .. (Len(queue) - 1) : queue'[i] = queue[i + 1]
    /\ tasks[s] \in Tasks
    /\ SameButCut(NoTask, tasks'[s]) \/ Fresh(tasks'[s])
    /\ \A r \in Slots : r # s =>
          SameButCut(tasks[r], tasks'[r]) \/ (tasks[r] = NoTask /\ Fresh(tasks'[r]))

LEMMA CallbackFacts ==
    ASSUME IInv, NEW kind \in Kinds, NEW s \in Slots, Callback(kind, s), TasksTyped',
           \A r \in Slots : \/ SameButCut(Without(s)[r], tasks'[r])
                            \/ Without(s)[r] = NoTask /\ Fresh(tasks'[r])
    PROVE  Delivered(s)
<1>1. TasksTyped /\ QueueOK
  BY TypesSplit DEF IInv
<1>2. main = "loop" /\ ~quit /\ queue # <<>> /\ s = Head(queue) /\ queue' = Tail(queue)
  BY DEF Callback, Looping
<1>3. tasks[s] \in Tasks
  BY <1>1, SlotFacts DEF Callback
<1>4. /\ SameButCut(NoTask, tasks'[s]) \/ Fresh(tasks'[s])
      /\ \A r \in Slots : r # s =>
            SameButCut(tasks[r], tasks'[r]) \/ (tasks[r] = NoTask /\ Fresh(tasks'[r]))
  BY <1>1, WithoutFacts
<1>5. TaskSet = Tasks \cup {NoTask} /\ tasks'[s] \in TaskSet
  BY DEF TasksTyped, TaskSet
<1>6. tasks'[s].kind = "none" => Gone(tasks'[s])
  BY <1>5 DEF Gone, Tasks, Kinds
<1>7. Shrunk
  BY <1>4, <1>6, NoTaskFacts DEF Shrunk, SameButCut
<1>8. tasks'[s].stage # "done"
  BY <1>4, NoTaskFacts DEF SameButCut, Fresh
<1>9. \A r \in Slots : r # s => (tasks'[r].stage = "done" <=> tasks[r].stage = "done")
  BY <1>4, NoTaskFacts DEF SameButCut, Fresh
<1>10. /\ QueueOK'
       /\ Len(queue) \in Nat \ {0} /\ queue[1] = s
       /\ DOMAIN queue = 1 .. Len(queue) /\ DOMAIN queue' = 1 .. (Len(queue) - 1)
       /\ \A i \in 1 .. (Len(queue) - 1) : queue'[i] = queue[i + 1]
  BY <1>1, <1>2, <1>8, <1>9, QueueTaken
<1> QED BY <1>2, <1>3, <1>4, <1>7, <1>10 DEF Delivered

LEMMA CallbackOrder ==
    ASSUME IInv, NEW s, Delivered(s), UNCHANGED <<main, user>>, escaped => escaped'
    PROVE  OldListsFirst'
BY OldListsKept DEF Delivered

\* The callback takes its task out and asks for nothing.
LEMMA TakenOut ==
    ASSUME IInv, NEW kind \in Kinds, NEW s \in Slots, Callback(kind, s),
           tasks' = Without(s)
    PROVE  /\ Delivered(s) /\ TasksTyped'
           /\ tasks'[s] = NoTask /\ \A r \in Slots : r # s => tasks'[r] = tasks[r]
<1>1. /\ TasksTyped'
      /\ tasks'[s] = NoTask /\ \A r \in Slots : r # s => tasks'[r] = tasks[r]
  BY WithoutFacts, TypesSplit DEF IInv, TasksTyped
<1>2. \A r \in Slots : \/ SameButCut(Without(s)[r], tasks'[r])
                       \/ Without(s)[r] = NoTask /\ Fresh(tasks'[r])
  BY DEF SameButCut
<1>3. Delivered(s)
  BY <1>1, <1>2, CallbackFacts
<1> QED BY <1>1, <1>3

LEMMA ListFinishedKeepsInv ==
    ASSUME IInv, NEW s \in Slots, get_vm_list_finished(s)
    PROVE  IInv'
<1> DEFINE task == tasks[s]
<1>1. /\ Callback("list", s) /\ tasks' = Without(s) /\ fetching' = FALSE
      /\ UNCHANGED <<main, jwt, logins, valid, protocol, auth, mgr, viewers, escaped, quit, user>>
      /\ "list" \in Kinds /\ task.kind = "list"
  BY DEF get_vm_list_finished, Callback, netVars, startVars, Kinds
<1>2. /\ task.reply = "null" => UNCHANGED <<listOf, listMissed>>
      /\ task.reply = "error" => listOf' = 0
      /\ task.reply \in {"none", "data"} => listOf' = task.token
      /\ task.reply # "null" => listMissed' = (task.fate = "missed")
  BY DEF get_vm_list_finished
<1>3. /\ Delivered(s) /\ TasksTyped' /\ tasks'[s] = NoTask
      /\ \A r \in Slots : r # s => tasks'[r] = tasks[r]
  BY <1>1, TakenOut
<1>4. /\ task \in Tasks /\ main = "loop" /\ ~quit /\ queue[1] = s /\ 1 \in DOMAIN queue
      /\ QueueOK' /\ Shrunk
  BY <1>3 DEF Delivered
<1>5. /\ task.reply \in {"none", "data", "error", "null"} /\ task.token \in Logins
      /\ task.fate \in {"none", "cut", "missed"}
  BY <1>4 DEF Tasks
<1>6. TypeOK'
  <2>1. OthersTyped
    BY TypesSplit DEF IInv
  <2>2. listOf' \in Logins /\ listMissed' \in BOOLEAN
    BY <1>2, <1>5, <2>1, NoLogins DEF OthersTyped
  <2>3. OthersTyped'
    BY <1>1, <2>1, <2>2 DEF OthersTyped
  <2> QED BY <1>3, <1>4, <2>3, TypesJoin
<1>7. CutFails' /\ Unanswered' /\ OneLogin' /\ ChosenAsClicked'
  BY <1>1, <1>4, ShrunkKeeps
<1>8. OldListsFirst'
  BY <1>1, <1>3, CallbackOrder
<1>9. NeverWindowless' /\ OutlivesNoLogin' /\ BlockedLogout' /\ OneUser'
  BY <1>1, <1>3, NoTaskFacts
  DEF IInv, NeverWindowless, OutlivesNoLogin, BlockedLogout, OneUser, Is
<1>10. ListBelongsToLogin'
  <2> SUFFICES ASSUME mgr, listOf' \notin {0, user}, ~escaped
               PROVE  listMissed'
    BY <1>1 DEF ListBelongsToLogin
  <2>1. CASE task.reply \in {"null", "error"}
    BY <1>2, <2>1 DEF IInv, ListBelongsToLogin
  <2>2. CASE task.reply \in {"none", "data"}
    <3>1. task.fate # "none"
      BY <1>1, <1>2, <1>4, <2>2 DEF IInv, OneUser, Is
    <3>2. task.fate # "cut"
      BY <1>1, <1>4, <2>2 DEF IInv, OldListsFirst, OldList, OutlivesNoLogin, Is
    <3> QED BY <1>2, <1>5, <2>2, <3>1, <3>2
  <2> QED BY <1>5, <2>1, <2>2
<1> QED BY <1>6, <1>7, <1>8, <1>9, <1>10 DEF IInv

\* A request that was cut brings no machine: one is started by the login that chose
\* it, or escapes.
LEMMA VmDataKeepsInv ==
    ASSUME IInv, NEW s \in Slots, get_vm_data_finished(s)
    PROVE  IInv'
<1> DEFINE task == tasks[s]
<1>1. /\ Callback("vm", s) /\ tasks' = Without(s) /\ fetching' = FALSE
      /\ UNCHANGED <<main, jwt, logins, valid, protocol, auth, quit, user>>
      /\ "vm" \in Kinds /\ task.kind = "vm"
  BY DEF get_vm_data_finished, Callback, netVars, Kinds
<1>2. /\ Delivered(s) /\ TasksTyped' /\ tasks'[s] = NoTask
      /\ \A r \in Slots : r # s => tasks'[r] = tasks[r]
  BY <1>1, TakenOut
<1>3. /\ task \in Tasks /\ main = "loop" /\ ~quit /\ QueueOK' /\ Shrunk
  BY <1>2 DEF Delivered
<1>4. task.fate \in {"none", "cut", "missed"}
  BY <1>3 DEF Tasks
<1>5. OthersTyped
  BY TypesSplit DEF IInv
<1>6. CASE task.reply = "data"
  <2>1. /\ mgr' = FALSE /\ listOf' = (IF mgr THEN 0 ELSE listOf)
        /\ listMissed' = (listMissed /\ ~mgr)
        /\ viewers' = viewers \cup {Viewer(protocol)}
        /\ escaped' = (escaped \/ task.fate = "missed")
    BY <1>6 DEF get_vm_data_finished, FinishJob, ConnectToVm
  <2>2. TypeOK'
    <3>1. Viewer(protocol) \in {"spice", "rdp"}
      BY DEF Viewer
    <3>2. OthersTyped'
      BY <1>1, <1>5, <2>1, <3>1, NoLogins DEF OthersTyped
    <3> QED BY <1>2, <1>3, <3>2, TypesJoin
  <2>3. CutFails' /\ Unanswered' /\ OneLogin'
    BY <1>1, <1>3, ShrunkKeeps
  <2>4. ChosenAsClicked'
    BY <1>1, <1>2, NoTaskFacts DEF IInv, ChosenAsClicked, Is
  <2>5. OldListsFirst'
    BY <1>1, <1>2, <2>1, CallbackOrder
  <2>6. NeverWindowless' /\ ListBelongsToLogin'
    BY <2>1 DEF NeverWindowless, ListBelongsToLogin
  <2>7. task.fate # "cut"
    BY <1>1, <1>6 DEF IInv, CutFails, Is
  <2>8. OutlivesNoLogin'
    BY <1>1, <1>4, <2>1, <2>7 DEF IInv, OutlivesNoLogin, Is
  <2>9. BlockedLogout' /\ OneUser'
    BY <1>1, <1>2, <1>3, <2>1, NoTaskFacts DEF IInv, BlockedLogout, OneUser, Is
  <2> QED BY <2>2, <2>3, <2>4, <2>5, <2>6, <2>8, <2>9 DEF IInv
<1>7. CASE task.reply # "data"
  <2>1. UNCHANGED <<mgr, listOf, listMissed, viewers, escaped>>
    BY <1>7 DEF get_vm_data_finished, startVars
  <2>2. TypeOK'
    <3>1. OthersTyped'
      BY <1>1, <1>5, <2>1 DEF OthersTyped
    <3> QED BY <1>2, <1>3, <3>1, TypesJoin
  <2>3. CutFails' /\ Unanswered' /\ OneLogin' /\ ChosenAsClicked'
    BY <1>1, <1>3, <2>1, ShrunkKeeps
  <2>4. OldListsFirst'
    BY <1>1, <1>2, <2>1, CallbackOrder
  <2>5. NeverWindowless' /\ ListBelongsToLogin'
    BY <1>1, <2>1 DEF IInv, NeverWindowless, ListBelongsToLogin
  <2>6. OutlivesNoLogin' /\ BlockedLogout' /\ OneUser'
    BY <1>1, <1>2, <2>1, NoTaskFacts DEF IInv, OutlivesNoLogin, BlockedLogout, OneUser, Is
  <2> QED BY <2>2, <2>3, <2>4, <2>5, <2>6 DEF IInv
<1> QED BY <1>6, <1>7

\* A login is taken up: nothing of the one before is left, unless something escaped.
LEMMA LogInFinishedKeepsInv ==
    ASSUME IInv, NEW s \in Slots, log_in_finished(s)
    PROVE  IInv'
<1> DEFINE task == tasks[s]
<1>1. /\ Callback("login", s)
      /\ UNCHANGED <<main, jwt, logins, valid, protocol, viewers, escaped, quit>>
      /\ "login" \in Kinds /\ task.kind = "login"
  BY DEF log_in_finished, Callback, netVars, startVars, Kinds
<1>2. TasksTyped /\ QueueOK /\ OthersTyped
  BY TypesSplit DEF IInv
<1>3. auth = "try" /\ (~escaped /\ ~quit => user = 0)
  BY <1>1 DEF IInv, OneLogin, OneUser, Is
<1>4. \A r \in Slots : tasks[r].kind = "login" => r = s
  BY <1>1 DEF IInv, OneLogin, Is
<1>5. CASE task.reply = "data"
  <2>1. /\ auth' = "off" /\ user' = task.token /\ Show(Without(s))
        /\ user' = jwt /\ jwt # 0
    BY <1>1, <1>5 DEF log_in_finished, IInv, OneLogin, Is
  <2>2. Without(s) \in [Slots -> TaskSet] /\ mgr \in BOOLEAN
    BY <1>2, WithoutFacts DEF OthersTyped
  <2>3. /\ TasksTyped' /\ mgr' = TRUE
        /\ \A r \in Slots : \/ SameButCut(Without(s)[r], tasks'[r])
                            \/ Without(s)[r] = NoTask /\ Fresh(tasks'[r])
        /\ \/ mgr /\ UNCHANGED <<fetching, listOf, listMissed>>
           \/ ~mgr /\ fetching' = TRUE /\ listOf' = 0 /\ listMissed' = FALSE
    BY <2>1, <2>2, ShowFacts
  <2>4. Delivered(s)
    BY <1>1, <2>3, CallbackFacts
  <2>5. /\ Shrunk /\ QueueOK' /\ ~quit /\ main = "loop"
        /\ \A r \in Slots : \/ SameButCut(tasks[r], tasks'[r]) /\ r # s
                            \/ tasks'[r].kind \in {"none", "list"} /\ tasks'[r].token = 0
    BY <2>4, NoTaskFacts DEF Delivered, SameButCut, Fresh, NoTask
  <2>6. TypeOK'
    <3>1. OthersTyped'
      BY <1>1, <1>2, <2>1, <2>3, NoLogins DEF OthersTyped
    <3> QED BY <2>3, <2>5, <3>1, TypesJoin
  <2>7. \A r \in Slots : tasks'[r].kind # "login"
    BY <1>4, <2>5 DEF SameButCut
  <2>8. CutFails' /\ Unanswered' /\ OneLogin' /\ ChosenAsClicked'
    BY <1>1, <2>3, <2>5, <2>7, ShrunkKeeps
  <2>9. NeverWindowless' /\ OutlivesNoLogin' /\ BlockedLogout'
    BY <1>1, <2>1, <2>3, <2>5 DEF NeverWindowless, OutlivesNoLogin, BlockedLogout
  <2>10. ListBelongsToLogin'
    BY <1>1, <1>3, <2>3, <2>5 DEF IInv, ListBelongsToLogin, OutlivesNoLogin
  <2>11. OneUser'
    <3> SUFFICES ASSUME ~escaped, NEW r \in Slots, tasks'[r].kind = "list", tasks'[r].fate = "none"
                 PROVE  tasks'[r].token = 0
      BY <1>1, <2>1 DEF OneUser, Is
    <3>1. tasks[r].kind = "list" => tasks[r].fate # "none"
      BY <1>3, <2>5 DEF IInv, OutlivesNoLogin, Is
    <3> QED BY <2>5, <3>1 DEF SameButCut
  <2>12. OldListsFirst'
    <3>1. /\ Len(queue) \in Nat \ {0} /\ queue[1] = s
          /\ DOMAIN queue = 1 .. Len(queue) /\ DOMAIN queue' = 1 .. (Len(queue) - 1)
          /\ \A i \in 1 .. (Len(queue) - 1) : queue'[i] = queue[i + 1]
      BY <2>4 DEF Delivered
    <3>2. ASSUME NEW r \in Slots, ~escaped, OldList(r), NEW i \in DOMAIN queue'
          PROVE  queue'[i] # r
      <4>1. i + 1 \in DOMAIN queue /\ 1 \in DOMAIN queue /\ queue'[i] = queue[i + 1]
            /\ i \in Nat /\ i # 0
        BY <3>1
      <4>2. OldList(queue[i + 1]) => i + 1 < 1
        BY <1>1, <3>1, <3>2, <4>1 DEF IInv, OldListsFirst, Is
      <4> QED BY <3>2, <4>1, <4>2
    <3> QED BY <1>1, <2>5, <3>1, <3>2, OldListsKept
  <2> QED BY <2>6, <2>8, <2>9, <2>10, <2>11, <2>12 DEF IInv
<1>6. CASE task.reply # "data"
  <2>1. /\ auth' = "idle" /\ tasks' = Without(s)
        /\ UNCHANGED <<user, mgr, fetching, listOf, listMissed>>
    BY <1>6 DEF log_in_finished, windowVars
  <2>2. /\ Delivered(s) /\ TasksTyped' /\ tasks'[s] = NoTask
        /\ \A r \in Slots : r # s => tasks'[r] = tasks[r]
    BY <1>1, <2>1, TakenOut
  <2>3. Shrunk /\ QueueOK' /\ ~quit /\ main = "loop"
    BY <2>2 DEF Delivered
  <2>4. TypeOK'
    <3>1. OthersTyped'
      BY <1>1, <1>2, <2>1 DEF OthersTyped
    <3> QED BY <2>2, <2>3, <3>1, TypesJoin
  <2>5. CutFails' /\ Unanswered' /\ OneLogin' /\ ChosenAsClicked'
    <3>1. \A r \in Slots : tasks'[r].kind # "login"
      BY <1>4, <2>2, NoTaskFacts
    <3> QED BY <1>1, <2>1, <2>3, <3>1, ShrunkKeeps
  <2>6. OldListsFirst'
    BY <1>1, <2>1, <2>2, CallbackOrder
  <2>7. NeverWindowless' /\ ListBelongsToLogin'
    BY <1>1, <2>1 DEF IInv, NeverWindowless, ListBelongsToLogin
  <2>8. OutlivesNoLogin' /\ BlockedLogout'
    BY <1>1, <2>1, <2>2, NoTaskFacts DEF IInv, OutlivesNoLogin, BlockedLogout, Is
  <2>9. OneUser'
    BY <1>1, <1>3, <2>1, <2>2, NoTaskFacts DEF IInv, OneUser, Is
  <2> QED BY <2>4, <2>5, <2>6, <2>7, <2>8, <2>9 DEF IInv
<1> QED BY <1>5, <1>6

-----------------------------------------------------------------------------
(* The other steps of the user.                                            *)

LEMMA ConnectKeepsInv ==
    ASSUME IInv, connect_to_controller
    PROVE  IInv'
<1> DEFINE f == FreeSlot(tasks)
           new == NewTask("login", "none")
<1>1. /\ auth = "idle" /\ auth' = "try" /\ ~quit /\ main = "loop"
      /\ tasks' = [tasks EXCEPT ![f] = new]
      /\ UNCHANGED <<queue, main, jwt, logins, valid, protocol, mgr, fetching, listOf, listMissed>>
      /\ UNCHANGED <<viewers, escaped, quit, user>>
  BY DEF connect_to_controller, Looping, windowVars, startVars, userFrame, netVars
<1>2. f \in Slots /\ tasks[f].kind = "none"
  BY DEF connect_to_controller, FreeSlot, Idle
<1>3. /\ new \in Tasks /\ new.kind = "login" /\ new.stage = "pool" /\ new.reply = "none"
      /\ new.fate = "none"
  BY NewTaskTyped DEF Kinds
<1> HIDE DEF f, new
<1>4. TasksTyped /\ QueueOK /\ OthersTyped /\ tasks[f] = NoTask
  BY <1>2, TypesSplit, SlotFacts DEF IInv
<1>5. TasksTyped' /\ tasks'[f] = new /\ \A r \in Slots : r # f => tasks'[r] = tasks[r]
  BY <1>1, <1>2, <1>3, <1>4 DEF TasksTyped, TaskSet
<1>6. TypeOK'
  <2>1. QueueOK'
    BY <1>1, <1>3, <1>4, <1>5, NoTaskFacts, QueueKept
  <2>2. OthersTyped'
    BY <1>1, <1>4 DEF OthersTyped
  <2> QED BY <1>5, <2>1, <2>2, TypesJoin
<1>7. NeverWindowless' /\ ListBelongsToLogin'
  BY <1>1 DEF IInv, NeverWindowless, ListBelongsToLogin
<1>8. OutlivesNoLogin' /\ BlockedLogout' /\ CutFails' /\ Unanswered'
  BY <1>1, <1>3, <1>5 DEF IInv, OutlivesNoLogin, BlockedLogout, CutFails, Unanswered, Is
<1>9. OneLogin'
  BY <1>1, <1>3, <1>5 DEF IInv, OneLogin, Is
<1>10. ChosenAsClicked'
  BY <1>1, <1>3, <1>5 DEF IInv, ChosenAsClicked, Is
<1>11. OneUser'
  BY <1>1, <1>3, <1>5 DEF IInv, OneUser, Is
<1>12. OldListsFirst'
  <2>1. \A i \in DOMAIN queue : queue[i] # f /\ queue[i] \in Slots
    BY <1>4, NoTaskFacts DEF QueueOK
  <2>2. \A i \in DOMAIN queue : tasks'[queue[i]] = tasks[queue[i]]
    BY <1>5, <2>1
  <2> QED BY <1>1, <2>2 DEF IInv, OldListsFirst, OldList, Is
<1> QED BY <1>6, <1>7, <1>8, <1>9, <1>10, <1>11, <1>12 DEF IInv

LEMMA VmClickedKeepsInv ==
    ASSUME IInv, NEW p \in Protocols, vm_clicked(p)
    PROVE  IInv'
<1> DEFINE f == FreeSlot(tasks)
           new == [NewTask("vm", p) EXCEPT !.rival = Pending # {}]
<1>1. /\ mgr /\ ~quit /\ main = "loop" /\ protocol' = p
      /\ tasks' = [s \in Slots |-> IF s = f THEN new
                                   ELSE IF s \in Pending THEN [tasks[s] EXCEPT !.rival = TRUE]
                                                         ELSE tasks[s]]
      /\ UNCHANGED <<queue, main, jwt, logins, valid, auth, mgr, fetching, listOf, listMissed>>
      /\ UNCHANGED <<viewers, escaped, quit, user>>
  BY DEF vm_clicked, AskForVm, Looping, windowVars, startVars, userFrame, netVars
<1>2. f \in Slots /\ tasks[f].kind = "none"
  BY DEF vm_clicked, AskForVm, FreeSlot, Idle
<1>3. /\ new \in Tasks /\ new.kind = "vm" /\ new.stage = "pool" /\ new.reply = "none"
      /\ new.fate = "none" /\ new.chosen = p /\ (new.rival <=> Pending # {})
  <2> DEFINE plain == NewTask("vm", p)
  <2>1. /\ plain \in Tasks /\ plain.kind = "vm" /\ plain.stage = "pool"
        /\ plain.reply = "none" /\ plain.fate = "none" /\ plain.chosen = p
    BY NewTaskTyped DEF Kinds
  <2> HIDE DEF plain
  <2>2. new = [plain EXCEPT !.rival = Pending # {}]
    BY DEF plain
  <2> QED BY <2>1, <2>2 DEF Tasks
<1> HIDE DEF f, new
<1>4. TasksTyped /\ QueueOK /\ OthersTyped /\ tasks[f] = NoTask
  BY <1>2, TypesSplit, SlotFacts DEF IInv
<1>5. \A r \in Pending : tasks[r] \in Tasks /\ r # f
  BY <1>2, <1>4, SlotFacts DEF Pending, Kinds
<1>6. /\ tasks'[f] = new
      /\ \A r \in Slots : r # f /\ r \notin Pending => tasks'[r] = tasks[r]
      /\ \A r \in Pending : tasks'[r] = [tasks[r] EXCEPT !.rival = TRUE]
  BY <1>1, <1>2, <1>5 DEF Pending
<1>7. \A r \in Pending : /\ tasks'[r] \in Tasks /\ tasks'[r].kind = "vm" /\ tasks'[r].rival
                          /\ tasks'[r].stage = tasks[r].stage /\ tasks'[r].fate = tasks[r].fate
                          /\ tasks'[r].reply = tasks[r].reply /\ tasks'[r].cut = tasks[r].cut
  <2> TAKE r \in Pending
  <2>1. tasks[r] \in Tasks /\ tasks[r].kind = "vm" /\ tasks'[r] = [tasks[r] EXCEPT !.rival = TRUE]
    BY <1>5, <1>6 DEF Pending
  <2>2. tasks'[r] \in Tasks /\ tasks'[r].kind = "vm" /\ tasks'[r].rival
    BY <2>1 DEF Tasks
  <2>3. /\ tasks'[r].stage = tasks[r].stage /\ tasks'[r].fate = tasks[r].fate
        /\ tasks'[r].reply = tasks[r].reply /\ tasks'[r].cut = tasks[r].cut
    BY <2>1 DEF Tasks
  <2> QED BY <2>2, <2>3
<1>8. TasksTyped'
  BY <1>1, <1>3, <1>4, <1>6, <1>7 DEF TasksTyped, TaskSet
<1>9. TypeOK'
  <2>1. \A r \in Slots : tasks'[r].stage = "done" <=> tasks[r].stage = "done"
    BY <1>3, <1>4, <1>6, <1>7, NoTaskFacts
  <2>2. QueueOK'
    BY <1>1, <1>4, <2>1, QueueKept
  <2>3. OthersTyped'
    BY <1>1, <1>4 DEF OthersTyped
  <2> QED BY <1>8, <2>2, <2>3, TypesJoin
<1>10. NeverWindowless' /\ ListBelongsToLogin'
  BY <1>1 DEF IInv, NeverWindowless, ListBelongsToLogin
<1>11. OutlivesNoLogin' /\ BlockedLogout'
  BY <1>1 DEF IInv, OutlivesNoLogin, BlockedLogout
<1>12. CutFails' /\ Unanswered'
  BY <1>3, <1>6, <1>7 DEF IInv, CutFails, Unanswered, Is, Pending
<1>13. \A r \in Slots : tasks'[r].kind # "vm" => tasks'[r] = tasks[r]
  BY <1>3, <1>6, <1>7
<1>14. OneLogin' /\ OneUser'
  <2>1. OneLogin'
    <3>1. \A r \in Slots : tasks'[r].kind = "login" => tasks'[r] = tasks[r]
      BY <1>13
    <3>2. \A r \in Slots : tasks'[r].kind = "login" => tasks[r].kind = "login"
      BY <3>1
    <3>3. auth' = auth /\ jwt' = jwt
      BY <1>1
    <3> QED BY <3>1, <3>2, <3>3 DEF IInv, OneLogin, Is
  <2>2. OneUser'
    BY <1>1, <1>13 DEF IInv, OneUser, Is
  <2> QED BY <2>1, <2>2
<1>15. ChosenAsClicked'
  BY <1>1, <1>3, <1>6, <1>7 DEF ChosenAsClicked, Is, Pending
<1>16. OldListsFirst'
  <2>1. \A i \in DOMAIN queue :
           tasks'[queue[i]].kind # "vm" => tasks'[queue[i]] = tasks[queue[i]]
    BY <1>4, <1>13 DEF QueueOK
  <2>2. ASSUME NEW i \in DOMAIN queue, tasks'[queue[i]].kind = "list",
               tasks'[queue[i]].fate = "cut", tasks'[queue[i]].reply \in {"none", "data"}, ~escaped
        PROVE  /\ main = "logout" \/ user = 0
               /\ \A j \in DOMAIN queue : tasks'[queue[j]].kind = "login" => i < j
    <3>1. tasks'[queue[i]] = tasks[queue[i]]
      BY <2>1, <2>2
    <3>2. /\ main = "logout" \/ user = 0
          /\ \A j \in DOMAIN queue : tasks[queue[j]].kind = "login" => i < j
      BY <2>2, <3>1 DEF IInv, OldListsFirst, OldList, Is
    <3>3. \A j \in DOMAIN queue : tasks'[queue[j]].kind = "login" => tasks[queue[j]].kind = "login"
      BY <2>1
    <3> QED BY <3>2, <3>3
  <2> QED BY <1>1, <2>2 DEF OldListsFirst, OldList, Is
<1> QED BY <1>9, <1>10, <1>11, <1>12, <1>14, <1>15, <1>16 DEF IInv

-----------------------------------------------------------------------------
(* Logout and the end.                                                     *)

\* A logout marks every request; one that is marked as cut fails, or its answer waits
\* in the queue and is no machine.
LEMMA MarkFacts ==
    ASSUME NEW ts \in [Slots -> TaskSet]
    PROVE  /\ LoggedOutOf(ts) \in [Slots -> TaskSet]
           /\ \A s \in Slots :
                LET t == ts[s]
                    u == LoggedOutOf(ts)[s]
                IN /\ u.kind = t.kind /\ u.stage = t.stage /\ u.chosen = t.chosen
                   /\ u.token = t.token /\ u.reply = t.reply /\ u.rival = t.rival
                   /\ u.cut = t.cut
                   /\ t.kind \notin {"list", "vm"} => u.fate = t.fate
                   /\ t.kind \in {"list", "vm"} =>
                         /\ u.fate \in {"cut", "missed"}
                         /\ u.fate = "cut" => t.stage = "sent" \/ (t.stage = "done" /\ t.kind # "vm")
<1> SUFFICES ASSUME NEW s \in Slots
             PROVE  LET t == ts[s]
                        u == LoggedOutOf(ts)[s]
                    IN /\ u \in TaskSet
                       /\ u.kind = t.kind /\ u.stage = t.stage /\ u.chosen = t.chosen
                       /\ u.token = t.token /\ u.reply = t.reply /\ u.rival = t.rival
                       /\ u.cut = t.cut
                       /\ t.kind \notin {"list", "vm"} => u.fate = t.fate
                       /\ t.kind \in {"list", "vm"} =>
                            /\ u.fate \in {"cut", "missed"}
                            /\ u.fate = "cut" => t.stage = "sent" \/ (t.stage = "done" /\ t.kind # "vm")
  BY DEF LoggedOutOf
<1>1. CASE ts[s].kind \in {"list", "vm"}
  <2>1. ts[s] \in Tasks
    BY <1>1, NoTaskFacts DEF TaskSet
  <2>2. PICK v \in {"cut", "missed"} :
           /\ LoggedOutOf(ts)[s] = [ts[s] EXCEPT !.fate = v]
           /\ v = "cut" => ~IsMissed(ts[s])
    BY <1>1 DEF LoggedOutOf
  <2>3. [ts[s] EXCEPT !.fate = v] \in Tasks
    BY <2>1, TaskEdits
  <2>4. LET t == ts[s]
            u == [ts[s] EXCEPT !.fate = v]
        IN /\ u.kind = t.kind /\ u.stage = t.stage /\ u.chosen = t.chosen
           /\ u.token = t.token /\ u.reply = t.reply /\ u.rival = t.rival
           /\ u.cut = t.cut /\ u.fate = v
    BY <2>1 DEF Tasks
  <2>5. ~IsMissed(ts[s]) => ts[s].stage = "sent" \/ (ts[s].stage = "done" /\ ts[s].kind # "vm")
    BY <2>1 DEF IsMissed, Tasks, Stages
  <2> QED BY <1>1, <2>2, <2>3, <2>4, <2>5 DEF TaskSet
<1>2. CASE ts[s].kind \notin {"list", "vm"}
  BY <1>2 DEF LoggedOutOf
<1> QED BY <1>1, <1>2

\* controller_manager_finish_job and on_logged_out.
LEMMA LoggedOutFacts ==
    ASSUME OthersTyped, LoggedOut
    PROVE  /\ mgr' = FALSE /\ viewers' = {} /\ user' = 0 /\ auth' # "off"
           /\ listOf' \in Logins /\ listMissed' \in BOOLEAN /\ auth' \in {"idle", "try"}
           /\ auth = "try" => auth' = "try"
BY NoLogins DEF OthersTyped, LoggedOut, FinishJob

LEMMA LogoutClickedKeepsInv ==
    ASSUME IInv, logout_clicked
    PROVE  IInv'
<1>1. /\ tasks' = Cut(LoggedOutOf(tasks)) /\ mgr /\ main = "loop" /\ ~quit
      /\ UNCHANGED <<queue, jwt, logins, valid, protocol, fetching, escaped, quit>>
  BY DEF logout_clicked, Looping, netVars
<1>2. TasksTyped /\ QueueOK /\ OthersTyped
  BY TypesSplit DEF IInv
<1>3. \/ UNCHANGED main /\ LoggedOut
      \/ main' = "logout" /\ UNCHANGED <<mgr, listOf, listMissed, viewers, auth, user>>
  BY DEF logout_clicked
<1>4. /\ TasksTyped'
      /\ \A r \in Slots :
            /\ tasks'[r].kind = tasks[r].kind /\ tasks'[r].stage = tasks[r].stage
            /\ tasks'[r].chosen = tasks[r].chosen /\ tasks'[r].token = tasks[r].token
            /\ tasks'[r].reply = tasks[r].reply /\ tasks'[r].rival = tasks[r].rival
            /\ tasks[r].kind \notin {"list", "vm"} => tasks'[r].fate = tasks[r].fate
            /\ tasks[r].kind \in {"list", "vm"} =>
                  /\ tasks'[r].fate # "none"
                  /\ tasks'[r].fate = "cut" =>
                        (tasks[r].stage = "sent" /\ tasks'[r].cut) \/ (tasks[r].stage = "done" /\ tasks[r].kind # "vm")
  <2> DEFINE marked == LoggedOutOf(tasks)
  <2>1. marked \in [Slots -> TaskSet]
    BY <1>2, MarkFacts DEF TasksTyped
  <2>2. /\ Cut(marked) \in [Slots -> TaskSet]
        /\ \A s \in Slots : /\ SameButCut(marked[s], Cut(marked)[s])
                            /\ marked[s].stage \in OnWire => Cut(marked)[s].cut
    BY <2>1, CutFacts
  <2>3. \A s \in Slots :
           /\ marked[s].kind = tasks[s].kind /\ marked[s].stage = tasks[s].stage
           /\ marked[s].chosen = tasks[s].chosen /\ marked[s].token = tasks[s].token
           /\ marked[s].reply = tasks[s].reply /\ marked[s].rival = tasks[s].rival
           /\ tasks[s].kind \notin {"list", "vm"} => marked[s].fate = tasks[s].fate
           /\ tasks[s].kind \in {"list", "vm"} =>
                 /\ marked[s].fate \in {"cut", "missed"}
                 /\ marked[s].fate = "cut" =>
                       tasks[s].stage = "sent" \/ (tasks[s].stage = "done" /\ tasks[s].kind # "vm")
    BY <1>2, MarkFacts DEF TasksTyped
  <2> HIDE DEF marked
  <2>4. tasks' = Cut(marked)
    BY <1>1 DEF marked
  <2> QED BY <2>2, <2>3, <2>4 DEF SameButCut, OnWire, TasksTyped
<1>5. TypeOK'
  <2>1. QueueOK'
    BY <1>1, <1>2, <1>4, QueueKept
  <2>2. OthersTyped'
    BY <1>1, <1>2, <1>3, LoggedOutFacts, NoLogins DEF OthersTyped
  <2> QED BY <1>4, <2>1, <2>2, TypesJoin
<1>6. NeverWindowless' /\ ListBelongsToLogin'
  BY <1>1, <1>2, <1>3, LoggedOutFacts DEF IInv, NeverWindowless, ListBelongsToLogin
<1>7. OutlivesNoLogin' /\ BlockedLogout'
  BY <1>1, <1>2, <1>3, <1>4, LoggedOutFacts DEF IInv, OutlivesNoLogin, BlockedLogout, Is
<1>8. \A s \in Slots : tasks[s].fate = "cut" /\ tasks[s].kind \notin {"list", "vm"} =>
           tasks[s].stage = "done"
  <2>1. \A s \in Slots : tasks[s].kind = "login" \/ tasks[s] = NoTask \/ tasks[s].kind \in {"list", "vm"}
    BY <1>2, SlotFacts DEF TasksTyped, TaskSet, Tasks, Kinds
  <2> QED BY <2>1, NoTaskFacts DEF IInv, OneLogin, Is
<1>9. CutFails'
  <2> SUFFICES ASSUME NEW s \in Slots, tasks'[s].fate = "cut"
               PROVE  /\ (tasks'[s].stage = "sent" /\ tasks'[s].cut) \/ tasks'[s].stage = "done"
                      /\ tasks'[s].kind = "vm" => tasks'[s].reply # "data"
    BY DEF CutFails, Is
  <2>1. CASE tasks[s].kind \notin {"list", "vm"}
    BY <1>4, <1>8, <2>1
  <2>2. CASE tasks[s].kind \in {"list", "vm"}
    <3>1. /\ (tasks'[s].stage = "sent" /\ tasks'[s].cut) \/ tasks'[s].stage = "done"
          /\ tasks'[s].kind = "vm" => tasks[s].stage = "sent"
      BY <1>4, <2>2
    <3>2. tasks[s].kind = "vm" /\ tasks[s].stage = "sent" => tasks[s].reply # "data"
      BY DEF IInv, Unanswered
    <3> QED BY <1>4, <3>1, <3>2
  <2> QED BY <2>1, <2>2
<1>10. OneLogin' /\ ChosenAsClicked'
  <2>1. auth = "try" => auth' = "try"
    BY <1>2, <1>3, LoggedOutFacts
  <2> QED BY <1>1, <1>4, <2>1 DEF IInv, OneLogin, ChosenAsClicked, Is
<1>11. OneUser'
  BY <1>1, <1>2, <1>3, <1>4, LoggedOutFacts DEF IInv, OneUser, Is
<1>12. OldListsFirst'
  <2>1. main' = "logout" \/ user' = 0
    BY <1>2, <1>3, LoggedOutFacts
  <2>2. ~escaped => \A s \in Slots : tasks[s].kind # "login"
    BY <1>1 DEF IInv, OneLogin, OneUser, OutlivesNoLogin, Is
  <2>3. \A i \in DOMAIN queue : queue[i] \in Slots
    BY <1>2 DEF QueueOK
  <2>4. ~escaped => \A j \in DOMAIN queue : tasks'[queue[j]].kind # "login"
    BY <1>4, <2>2, <2>3
  <2> QED BY <1>1, <2>1, <2>4 DEF OldListsFirst, Is
<1>13. Unanswered'
  BY <1>4 DEF IInv, Unanswered
<1> QED BY <1>5, <1>6, <1>7, <1>9, <1>10, <1>11, <1>12, <1>13 DEF IInv

LEMMA LogoutFinishedKeepsInv ==
    ASSUME IInv, logout_finished
    PROVE  IInv'
<1>1. /\ main = "logout" /\ main' = "loop" /\ ~quit /\ LoggedOut /\ valid' \subseteq valid
      /\ UNCHANGED <<tasks, queue, jwt, logins, protocol, fetching, escaped, quit>>
  BY DEF logout_finished
<1>2. TasksTyped /\ QueueOK /\ OthersTyped
  BY TypesSplit DEF IInv
<1>3. /\ mgr' = FALSE /\ viewers' = {} /\ user' = 0 /\ auth' # "off"
      /\ listOf' \in Logins /\ listMissed' \in BOOLEAN /\ auth' \in {"idle", "try"}
      /\ auth = "try" => auth' = "try"
  BY <1>1, <1>2, LoggedOutFacts
<1>4. \A s \in Slots : tasks[s].kind \in {"list", "vm"} => tasks[s].fate # "none"
  BY <1>1 DEF IInv, BlockedLogout, Is
<1>5. TypeOK'
  <2>1. TasksTyped' /\ QueueOK'
    BY <1>1, <1>2, QueueKept DEF TasksTyped
  <2>2. OthersTyped'
    BY <1>1, <1>2, <1>3, NoLogins DEF OthersTyped
  <2> QED BY <2>1, <2>2, TypesJoin
<1>6. NeverWindowless' /\ ListBelongsToLogin' /\ OutlivesNoLogin' /\ BlockedLogout'
  BY <1>1, <1>3, <1>4 DEF NeverWindowless, ListBelongsToLogin, OutlivesNoLogin, BlockedLogout, Is
<1>7. CutFails' /\ Unanswered' /\ OneLogin'
  BY <1>1, <1>3 DEF IInv, CutFails, Unanswered, OneLogin, Is
<1>8. ChosenAsClicked' /\ OneUser'
  BY <1>1, <1>3, <1>4 DEF IInv, ChosenAsClicked, OneUser, Is
<1>9. OldListsFirst'
  BY <1>1, <1>3 DEF IInv, OldListsFirst, OldList, Is
<1> QED BY <1>5, <1>6, <1>7, <1>8, <1>9 DEF IInv

LEMMA QuitKeepsInv ==
    ASSUME IInv, quit_requested
    PROVE  IInv'
<1>1. /\ quit' = TRUE /\ tasks' = [s \in Slots |-> NoTask] /\ queue' = <<>>
      /\ mgr' = FALSE /\ fetching' = FALSE /\ viewers' = {} /\ auth' = "off" /\ main = "loop"
      /\ UNCHANGED <<main, jwt, logins, valid, protocol, escaped, user>>
      /\ listOf' = (IF mgr THEN 0 ELSE listOf) /\ listMissed' = (listMissed /\ ~mgr)
  BY DEF quit_requested, Looping, FinishJob, netVars
<1>2. \A s \in Slots : /\ tasks'[s].kind = "none" /\ tasks'[s].stage = "free"
                       /\ tasks'[s].fate = "none" /\ tasks'[s].reply = "none"
  BY <1>1 DEF NoTask
<1>3. DOMAIN queue' = {} /\ queue' \in Seq(Slots)
  BY <1>1
<1>4. TypeOK'
  <2>1. TasksTyped'
    BY <1>1 DEF TasksTyped, TaskSet
  <2>2. QueueOK'
    BY <1>2, <1>3 DEF QueueOK
  <2>3. OthersTyped'
    BY <1>1, NoLogins, TypesSplit DEF IInv, OthersTyped
  <2> QED BY <2>1, <2>2, <2>3, TypesJoin
<1>5. NeverWindowless' /\ ListBelongsToLogin' /\ OutlivesNoLogin' /\ BlockedLogout'
  BY <1>1, <1>2 DEF NeverWindowless, ListBelongsToLogin, OutlivesNoLogin, BlockedLogout, Is
<1>6. CutFails' /\ Unanswered' /\ OneLogin' /\ ChosenAsClicked' /\ OneUser'
  BY <1>1, <1>2 DEF CutFails, Unanswered, OneLogin, ChosenAsClicked, OneUser, Is
<1>7. OldListsFirst'
  BY <1>3 DEF OldListsFirst
<1> QED BY <1>4, <1>5, <1>6, <1>7 DEF IInv

LEMMA InitInv ==
    ASSUME Init
    PROVE  IInv
<1>1. /\ tasks = [s \in Slots |-> NoTask] /\ queue = <<>> /\ main = "loop"
      /\ jwt = 0 /\ logins = 0 /\ valid = {} /\ protocol \in Protocols
      /\ auth = "idle" /\ mgr = FALSE /\ fetching = FALSE /\ listOf = 0
      /\ viewers = {} /\ quit = FALSE /\ user = 0 /\ listMissed = FALSE /\ escaped = FALSE
  BY DEF Init
<1>2. \A s \in Slots : /\ tasks[s].kind = "none" /\ tasks[s].stage = "free"
                       /\ tasks[s].fate = "none" /\ tasks[s].reply = "none"
  BY <1>1 DEF NoTask
<1>3. DOMAIN queue = {} /\ queue \in Seq(Slots)
  BY <1>1
<1>4. TypeOK
  <2>1. TasksTyped
    BY <1>1 DEF TasksTyped, TaskSet
  <2>2. QueueOK
    BY <1>2, <1>3 DEF QueueOK
  <2>3. OthersTyped
    BY <1>1, NoLogins DEF OthersTyped
  <2> QED BY <2>1, <2>2, <2>3, TypesSplit
<1>5. NeverWindowless /\ ListBelongsToLogin /\ OutlivesNoLogin /\ BlockedLogout
  BY <1>1, <1>2 DEF NeverWindowless, ListBelongsToLogin, OutlivesNoLogin, BlockedLogout, Is
<1>6. CutFails /\ Unanswered /\ OneLogin /\ ChosenAsClicked /\ OneUser
  BY <1>1, <1>2 DEF CutFails, Unanswered, OneLogin, ChosenAsClicked, OneUser, Is
<1>7. OldListsFirst
  BY <1>3 DEF OldListsFirst
<1> QED BY <1>4, <1>5, <1>6, <1>7 DEF IInv

-----------------------------------------------------------------------------
(* The theorems.                                                           *)

LEMMA Inductive ==
    ASSUME IInv, [Next]_vars
    PROVE  IInv'
<1>1. CASE \E s \in Slots : Worker(s)
  BY <1>1, WorkerStep, WorkerKeepsInv
<1>2. CASE MainLoop
  BY <1>2, LogoutFinishedKeepsInv, LogInFinishedKeepsInv, ListFinishedKeepsInv, VmDataKeepsInv
  DEF MainLoop
<1>3. CASE User
  BY <1>3, ConnectKeepsInv, CancelKeepsInv, UpdateKeepsInv, LogoutClickedKeepsInv, QuitKeepsInv,
     VmClickedKeepsInv, VmFinishedKeepsInv
  DEF User
<1>4. CASE ended \/ UNCHANGED vars
  <2>1. /\ UNCHANGED <<tasks, queue, main, jwt, logins, valid, protocol, auth, mgr, fetching>>
        /\ UNCHANGED <<listOf, listMissed, viewers, escaped, quit, user>>
    BY <1>4 DEF ended, vars, netVars, windowVars, startVars
  <2>2. TypeOK'
    BY <2>1 DEF IInv, TypeOK, QueueOK
  <2>3. /\ NeverWindowless' /\ OutlivesNoLogin' /\ BlockedLogout' /\ CutFails' /\ Unanswered'
        /\ ListBelongsToLogin'
    BY <2>1 DEF IInv, NeverWindowless, OutlivesNoLogin, BlockedLogout, CutFails, Unanswered,
                ListBelongsToLogin, Is
  <2>4. OneLogin' /\ ChosenAsClicked' /\ OneUser'
    BY <2>1 DEF IInv, OneLogin, ChosenAsClicked, OneUser, Is
  <2>5. OldListsFirst'
    BY <2>1 DEF IInv, OldListsFirst, OldList, Is
  <2> QED BY <2>2, <2>3, <2>4, <2>5 DEF IInv
<1> QED BY <1>1, <1>2, <1>3, <1>4 DEF Next

\* What a request can still do after a logout, and for whom, holds in every state.
THEOREM InvHolds == Spec => []IInv
<1> QED BY InitInv, Inductive, PTL DEF Spec

\* Tasks, queue and windows keep their types: a finished task is queued, and once.
THEOREM TypeCorrect == Spec => []TypeOK
<1>1. IInv => TypeOK
  BY DEF IInv
<1> QED BY <1>1, InvHolds, PTL

\* Until the application ends the login window, the controller window or a viewer is
\* shown.
THEOREM NeverWindowlessHolds == Spec => []NeverWindowless
<1>1. IInv => NeverWindowless
  BY DEF IInv
<1> QED BY <1>1, InvHolds, PTL

\* Without a login the controller window is only shown after a machine was started by
\* a request a logout had missed.
THEOREM OnlyEscapedStartShowsSelectorHolds == Spec => []OnlyEscapedStartShowsSelector
<1>1. IInv => OnlyEscapedStartShowsSelector
  BY DEF IInv, OutlivesNoLogin, OnlyEscapedStartShowsSelector
<1> QED BY <1>1, InvHolds, PTL

\* The machines listed are those of the login that looks at them, unless a logout
\* caught their request before it was sent.
THEOREM ListBelongsToLoginHolds == Spec => []ListBelongsToLogin
<1>1. IInv => ListBelongsToLogin
  BY DEF IInv
<1> QED BY <1>1, InvHolds, PTL

\* A machine the main loop starts comes from a task that is done, and unmarked or
\* missed.
LEMMA StartFacts ==
    ASSUME IInv, NEW s \in Slots, Starts(s)
    PROVE  /\ tasks[s].fate # "cut"
           /\ tasks[s].rival \/ tasks[s].fate = "missed" \/ (mgr /\ protocol = tasks[s].chosen)
<1>1. tasks[s].kind = "vm" /\ tasks[s].reply = "data" /\ tasks[s] \in Tasks
  BY SlotFacts, TypesSplit DEF Starts, IInv, Kinds
<1>2. tasks[s].fate \in {"none", "cut", "missed"}
  BY <1>1 DEF Tasks
<1>3. tasks[s].fate # "cut"
  BY <1>1 DEF IInv, CutFails, Is
<1>4. tasks[s].fate = "none" /\ ~tasks[s].rival => mgr /\ protocol = tasks[s].chosen
  BY <1>1 DEF IInv, ChosenAsClicked, Is
<1> QED BY <1>2, <1>3, <1>4

\* No request that was on the wire when its login ended starts a machine.
THEOREM StartBelongsToLoginHolds == Spec => StartBelongsToLogin
<1>1. IInv => [\A s \in Slots : Starts(s) => tasks[s].fate # "cut"]_vars
  BY StartFacts
<1> QED BY <1>1, InvHolds, PTL DEF StartBelongsToLogin

\* A machine is started from the controller window over the protocol chosen with it,
\* unless another one was asked for meanwhile, or a logout missed its request.
THEOREM StartMatchesClickHolds == Spec => StartMatchesClick
<1>1. IInv => [\A s \in Slots : Starts(s) =>
                 \/ tasks[s].rival \/ tasks[s].fate = "missed"
                 \/ mgr /\ protocol = tasks[s].chosen]_vars
  BY StartFacts
<1> QED BY <1>1, InvHolds, PTL DEF StartMatchesClick

-----------------------------------------------------------------------------
(* The windows.                                                            *)

LEMMA SameWindows ==
    ASSUME UNCHANGED <<auth, mgr, fetching, viewers, quit>>
    PROVE  UNCHANGED Windows!vars
BY DEF Windows!vars, LoginShown

\* An answer that leaves the window where it is makes its buttons work again.
LEMMA AnsweredWindows ==
    ASSUME TypeOK, fetching' = FALSE, UNCHANGED <<auth, mgr, viewers, quit>>
    PROVE  [Windows!Next]_(Windows!vars)
<1>1. CASE mgr /\ fetching
  BY <1>1 DEF LoginShown, Windows!Answered, Windows!Next
<1>2. CASE ~(mgr /\ fetching)
  <2>1. UNCHANGED <<auth, mgr, viewers, quit>> /\ (mgr' /\ fetching') = (mgr /\ fetching)
    BY <1>2
  <2> QED BY <2>1 DEF LoginShown, Windows!vars
<1> QED BY <1>1, <1>2

LEMMA LoggedOutWindows ==
    ASSUME TypeOK, ~quit, LoggedOut, UNCHANGED quit
    PROVE  Windows!Next
<1>1. mgr' = FALSE /\ viewers' = {} /\ auth' = IF auth = "off" THEN "idle" ELSE auth
  BY DEF LoggedOut, FinishJob
<1>2. Windows!LoggedOut
  BY <1>1 DEF TypeOK, LoginShown, Windows!LoggedOut
<1> QED BY <1>2 DEF Windows!Next

\* The callbacks: a login finds the window in its try (OneLogin), a machine gets its
\* viewer whatever its data lack.
LEMMA CallbackWindows ==
    ASSUME IInv, NEW s \in Slots,
           log_in_finished(s) \/ get_vm_list_finished(s) \/ get_vm_data_finished(s)
    PROVE  [Windows!Next]_(Windows!vars)
<1>0. ~quit /\ UNCHANGED quit /\ TypeOK
  BY DEF IInv, log_in_finished, get_vm_list_finished, get_vm_data_finished, Callback, Looping
<1>1. CASE log_in_finished(s)
  <2>1. auth = "try" /\ UNCHANGED viewers
    BY <1>1 DEF IInv, OneLogin, Is, log_in_finished, Callback, startVars
  <2>2. CASE tasks[s].reply = "data"
    <3>1. auth' = "off" /\ mgr' = TRUE /\ ((mgr /\ UNCHANGED fetching) \/ fetching' = TRUE)
      BY <1>1, <2>2 DEF log_in_finished, Show, GetVms, windowVars
    <3>2. Windows!LogIn
      BY <1>0, <2>1, <3>1 DEF TypeOK, LoginShown, Windows!LogIn, Windows!Show
    <3> QED BY <3>2 DEF Windows!Next
  <2>3. CASE tasks[s].reply # "data"
    <3>1. auth' = "idle" /\ UNCHANGED <<mgr, fetching>>
      BY <1>1, <2>3 DEF log_in_finished, windowVars
    <3>2. Windows!Refused
      BY <1>0, <2>1, <3>1 DEF LoginShown, Windows!Refused
    <3> QED BY <3>2 DEF Windows!Next
  <2> QED BY <2>2, <2>3
<1>2. CASE get_vm_list_finished(s)
  BY <1>0, <1>2, AnsweredWindows DEF get_vm_list_finished, startVars
<1>3. CASE get_vm_data_finished(s)
  <2>1. CASE tasks[s].reply = "data"
    <3>1. mgr' = FALSE /\ viewers' # {} /\ UNCHANGED auth
      BY <1>3, <2>1 DEF get_vm_data_finished, FinishJob, ConnectToVm
    <3>2. Windows!Open
      BY <1>0, <3>1 DEF LoginShown, Windows!Open
    <3> QED BY <3>2 DEF Windows!Next
  <2>2. CASE tasks[s].reply # "data"
    BY <1>0, <1>3, <2>2, AnsweredWindows DEF get_vm_data_finished, startVars
  <2> QED BY <2>1, <2>2
<1> QED BY <1>1, <1>2, <1>3

LEMMA UserWindows ==
    ASSUME IInv, User
    PROVE  [Windows!Next]_(Windows!vars)
<1> USE DEF windowVars, startVars, userFrame
<1>0. TypeOK /\ ~quit
  BY DEF IInv, User, connect_to_controller, cancel_requests, update_clicked, logout_clicked,
         quit_requested, vm_clicked, vm_connection_finished, Looping
<1>1. CASE connect_to_controller
  <2>1. Windows!Connect
    BY <1>1 DEF connect_to_controller, LoginShown, Windows!Connect
  <2> QED BY <2>1 DEF Windows!Next
<1>2. CASE cancel_requests \/ \E p \in Protocols : vm_clicked(p)
  BY <1>2, SameWindows DEF cancel_requests, vm_clicked
<1>3. CASE update_clicked
  <2>1. Windows!Ask
    BY <1>3 DEF update_clicked, GetVms, LoginShown, Windows!Ask
  <2> QED BY <2>1 DEF Windows!Next
<1>4. CASE logout_clicked
  <2>1. CASE jwt = 0
    BY <1>0, <1>4, <2>1, LoggedOutWindows DEF logout_clicked
  <2>2. CASE jwt # 0
    BY <1>4, <2>2, SameWindows DEF logout_clicked
  <2> QED BY <2>1, <2>2
<1>5. CASE quit_requested
  <2>1. Windows!Quit
    BY <1>5 DEF quit_requested, FinishJob, LoginShown, Windows!Quit
  <2> QED BY <2>1 DEF Windows!Next
<1>6. CASE \E v \in viewers : vm_connection_finished(v)
  <2> PICK v \in viewers : vm_connection_finished(v)
    BY <1>6
  <2>1. /\ mgr' = TRUE /\ ((mgr /\ UNCHANGED fetching) \/ fetching' = TRUE)
        /\ UNCHANGED <<auth, quit>>
    BY DEF vm_connection_finished, Show, GetVms
  <2>2. Windows!Finish
    BY <1>0, <2>1 DEF TypeOK, LoginShown, Windows!Finish, Windows!Show
  <2> QED BY <2>2 DEF Windows!Next
<1> QED BY <1>1, <1>2, <1>3, <1>4, <1>5, <1>6 DEF User

LEMMA NextWindows == IInv /\ [Next]_vars => [Windows!Next]_(Windows!vars)
<1> SUFFICES ASSUME IInv, [Next]_vars PROVE [Windows!Next]_(Windows!vars)
  OBVIOUS
<1>1. CASE \E s \in Slots : Worker(s)
  BY <1>1, WorkerStep, SameWindows DEF workerFrame, windowVars, startVars
<1>2. CASE MainLoop
  <2>1. CASE logout_finished
    BY <2>1, LoggedOutWindows DEF logout_finished, IInv
  <2> QED BY <1>2, <2>1, CallbackWindows DEF MainLoop
<1>3. CASE User
  BY <1>3, UserWindows
<1>4. CASE ended \/ UNCHANGED vars
  BY <1>4, SameWindows DEF ended, vars, windowVars, startVars
<1> QED BY <1>1, <1>2, <1>3, <1>4 DEF Next

\* The controller client implements the safety half of WindowFlow, for any number of
\* logins and requests: whichever answer comes when, the login window goes only for the
\* controller window, that one only for a viewer, the login window or the end, and it
\* waits only while it is shown.
THEOREM RefinesWindows == Spec => Windows!Safe
<1>1. Init => Windows!Init
  BY DEF Init, LoginShown, Windows!Init
<1> QED BY <1>1, InvHolds, NextWindows, PTL DEF Spec, Windows!Safe
-----------------------------------------------------------------------------
(* What the end of a wait rests on besides fairness.                       *)

\* How far a task is from its callback.
StagesLeft == [pool |-> 4, sent |-> 3, parsed |-> 2, node |-> 1, done |-> 0]

\* The task stays what it is, and nothing takes it back to an earlier stage.
StaysOrAdvances(s) ==
    /\ tasks'[s].kind = tasks[s].kind /\ tasks'[s].chosen = tasks[s].chosen
    /\ \/ tasks'[s].stage = tasks[s].stage
       \/ StagesLeft[tasks'[s].stage] < StagesLeft[tasks[s].stage]

\* A task under way is neither lost nor run twice: whatever is cut, cancelled, logged out
\* of or asked for meanwhile, only its own callback takes it, when it is its turn.
TaskOnlyAdvances ==
    [][\A s \in Slots : tasks[s].kind # "none" /\ ~quit' =>
          \/ tasks[s].stage = "done" /\ queue # <<>> /\ s = Head(queue) /\ queue' = Tail(queue)
          \/ StaysOrAdvances(s)]_vars

LEMMA WorkerAdvances ==
    ASSUME IInv, NEW s \in Slots, Worker(s)
    PROVE  StaysOrAdvances(s)
<1>1. TasksTyped /\ tasks[s].stage \in Stages \ {"done"}
  BY TypesSplit DEF IInv, Worker, send, send_node, Answer, login_refused, login_accepted,
         request_fails, list_answered, vm_answered, Answerable, node_answered, Stages
<1>2. tasks[s] \in Tasks
  BY <1>1, SlotFacts
<1>3. tasks'[s].kind = tasks[s].kind /\ tasks'[s].chosen = tasks[s].chosen
  BY WorkerStep DEF WorkerFacts, Worked
<1>4. ASSUME NEW t, Return(s, t), t \in Tasks
      PROVE  tasks'[s].stage = "done"
  BY <1>1, <1>4 DEF Return, TasksTyped, Tasks
<1>5. /\ \A v \in {"none", "data", "error", "null"} : [tasks[s] EXCEPT !.reply = v] \in Tasks
      /\ \A v \in BOOLEAN : [tasks[s] EXCEPT !.reply = "data", !.node = v] \in Tasks
      /\ \A v \in Logins : [tasks[s] EXCEPT !.reply = "data", !.token = v] \in Tasks
  BY <1>2 DEF Tasks
<1>6. logins < MaxLogins => logins + 1 \in Logins
  BY MaxLoginsAssumption, TypesSplit DEF IInv, OthersTyped, Logins
<1>7. \/ tasks'[s].stage = "done"
      \/ tasks[s].stage = "pool" /\ tasks'[s].stage = "sent"
      \/ tasks[s].stage = "sent" /\ tasks'[s].stage = "parsed"
      \/ tasks[s].stage = "parsed" /\ tasks'[s].stage = "node"
  <2>1. CASE send(s)
    <3>1. CASE Return(s, [tasks[s] EXCEPT !.reply = "null"])
      BY <1>4, <1>5, <3>1
    <3>2. CASE tasks' = [tasks EXCEPT ![s].stage = "sent", ![s].token = jwt]
      <4> DEFINE t == [tasks[s] EXCEPT !.stage = "sent", !.token = jwt]
      <4>1. t.stage = "sent" /\ tasks' = [tasks EXCEPT ![s] = t]
        BY <1>2, <3>2 DEF Tasks
      <4> HIDE DEF t
      <4>2. tasks'[s] = t
        BY <1>1, <4>1 DEF TasksTyped
      <4> QED BY <2>1, <4>1, <4>2 DEF send
    <3> QED BY <2>1, <3>1, <3>2 DEF send
  <2>2. CASE login_accepted(s)
    BY <1>4, <1>5, <1>6, <2>2 DEF login_accepted
  <2>3. CASE login_refused(s) \/ request_fails(s) \/ list_answered(s)
    BY <1>4, <1>5, <2>3 DEF login_refused, request_fails, list_answered
  <2>4. CASE vm_answered(s)
    <3>1. CASE Return(s, [tasks[s] EXCEPT !.reply = "data"])
      BY <1>4, <1>5, <3>1
    <3>2. CASE tasks' = [tasks EXCEPT ![s].stage = "parsed"]
      <4> DEFINE t == [tasks[s] EXCEPT !.stage = "parsed"]
      <4>1. t.stage = "parsed" /\ tasks' = [tasks EXCEPT ![s] = t]
        BY <1>2, <3>2 DEF Tasks
      <4> HIDE DEF t
      <4>2. tasks'[s] = t
        BY <1>1, <4>1 DEF TasksTyped
      <4> QED BY <2>4, <4>1, <4>2 DEF vm_answered, Answerable
    <3> QED BY <2>4, <3>1, <3>2 DEF vm_answered
  <2>5. CASE send_node(s) \/ node_answered(s)
    <3>1. ASSUME NEW node \in BOOLEAN, ReturnHost(s, node) PROVE tasks'[s].stage = "done"
      BY <1>4, <1>5, <3>1 DEF ReturnHost
    <3>2. CASE /\ tasks[s].stage = "parsed"
               /\ tasks' = [tasks EXCEPT ![s].stage = "node", ![s].token = jwt]
      <4> DEFINE t == [tasks[s] EXCEPT !.stage = "node", !.token = jwt]
      <4>1. t.stage = "node" /\ tasks' = [tasks EXCEPT ![s] = t]
        BY <1>2, <3>2 DEF Tasks
      <4> HIDE DEF t
      <4>2. tasks'[s] = t
        BY <1>1, <4>1 DEF TasksTyped
      <4> QED BY <3>2, <4>1, <4>2
    <3> QED BY <2>5, <3>1, <3>2 DEF send_node, node_answered
  <2> QED BY <2>1, <2>2, <2>3, <2>4, <2>5 DEF Worker, Answer
<1> QED BY <1>1, <1>3, <1>7 DEF StaysOrAdvances, StagesLeft, Stages

\* A callback takes out its own task, and one that asks for a list finds a free slot.
LEMMA CallbackSpares ==
    ASSUME IInv, NEW kind \in Kinds, NEW s \in Slots, Callback(kind, s),
           tasks' = Without(s) \/ Show(Without(s)), NEW r \in Slots, tasks[r].kind # "none"
    PROVE  \/ tasks[r].stage = "done" /\ queue # <<>> /\ r = Head(queue) /\ queue' = Tail(queue)
           \/ StaysOrAdvances(r)
<1>1. queue # <<>> /\ s = Head(queue) /\ queue' = Tail(queue)
  BY DEF Callback
<1>2. TasksTyped /\ QueueOK /\ mgr \in BOOLEAN
  BY TypesSplit DEF IInv, OthersTyped
<1>3. CASE r = s
  <2>1. queue[1] = s /\ 1 \in DOMAIN queue
    BY <1>1, <1>2 DEF QueueOK
  <2>2. tasks[s].stage = "done"
    BY <1>2, <2>1 DEF QueueOK
  <2> QED BY <1>1, <1>3, <2>2
<1>4. CASE r # s
  <2>1. Without(s) \in [Slots -> TaskSet] /\ Without(s)[r] = tasks[r]
    BY <1>2, <1>4, WithoutFacts
  <2>2. SameButCut(tasks[r], tasks'[r])
    BY <1>2, <2>1, ShowFacts, NoTaskFacts DEF SameButCut
  <2> QED BY <2>2 DEF SameButCut, StaysOrAdvances
<1> QED BY <1>3, <1>4

\* No request of the controller client gets lost or comes back, for any number of tasks
\* side by side: with the workers running, each comes to its callback.
THEOREM TaskAdvances == Spec => TaskOnlyAdvances
<1> DEFINE Kept(s) ==
       \/ tasks[s].stage = "done" /\ queue # <<>> /\ s = Head(queue) /\ queue' = Tail(queue)
       \/ StaysOrAdvances(s)
<1>1. ASSUME IInv, Next, NEW s \in Slots, tasks[s].kind # "none", ~quit'
      PROVE  Kept(s)
  <2>1. TasksTyped /\ mgr \in BOOLEAN
    BY <1>1, TypesSplit DEF IInv, OthersTyped
  <2>2. ASSUME NEW r \in Slots, Worker(r) PROVE StaysOrAdvances(s)
    <3>1. CASE r = s
      BY <1>1, <2>2, <3>1, WorkerAdvances
    <3>2. CASE r # s
      <4>1. tasks'[s] = tasks[s]
        BY <1>1, <2>2, <3>2, WorkerStep DEF WorkerFacts, Worked
      <4> QED BY <4>1 DEF StaysOrAdvances
    <3> QED BY <3>1, <3>2
  <2>3. CASE logout_finished \/ ended
    <3>1. tasks' = tasks
      BY <2>3 DEF logout_finished, ended, vars
    <3> QED BY <3>1 DEF StaysOrAdvances
  <2>4. ASSUME NEW r \in Slots,
               log_in_finished(r) \/ get_vm_list_finished(r) \/ get_vm_data_finished(r)
        PROVE  Kept(s)
    <3>1. PICK kind \in Kinds : Callback(kind, r)
      BY <2>4 DEF log_in_finished, get_vm_list_finished, get_vm_data_finished, Kinds
    <3>2. tasks' = Without(r) \/ Show(Without(r))
      BY <2>4 DEF log_in_finished, get_vm_list_finished, get_vm_data_finished
    <3> QED BY <1>1, <3>1, <3>2, CallbackSpares
  <2>5. CASE update_clicked \/ \E v \in viewers : vm_connection_finished(v)
    <3>1. GetVms(tasks) \/ Show(tasks)
      BY <2>5 DEF update_clicked, vm_connection_finished
    <3>2. SameButCut(tasks[s], tasks'[s])
      BY <1>1, <2>1, <3>1, GetVmsFacts, ShowFacts, NoTaskFacts DEF TasksTyped
    <3> QED BY <3>2 DEF SameButCut, StaysOrAdvances
  <2>6. CASE cancel_requests
    BY <1>1, <2>1, <2>6, CutFacts DEF cancel_requests, SameButCut, StaysOrAdvances, TasksTyped
  <2>7. CASE logout_clicked
    <3>1. tasks' = Cut(LoggedOutOf(tasks)) /\ LoggedOutOf(tasks) \in [Slots -> TaskSet]
      BY <2>1, <2>7, MarkFacts DEF logout_clicked, TasksTyped
    <3>2. SameButCut(LoggedOutOf(tasks)[s], tasks'[s])
      BY <3>1, CutFacts
    <3> QED BY <2>1, <3>2, MarkFacts DEF SameButCut, StaysOrAdvances, TasksTyped
  <2>8. CASE connect_to_controller
    <3>1. PICK f \in Slots : /\ tasks[f].kind = "none"
                             /\ tasks' = [tasks EXCEPT ![f] = NewTask("login", "none")]
      BY <2>8 DEF connect_to_controller, FreeSlot, Idle
    <3> QED BY <1>1, <2>1, <3>1 DEF StaysOrAdvances, TasksTyped
  <2>9. ASSUME NEW p \in Protocols, vm_clicked(p) PROVE StaysOrAdvances(s)
    <3>1. FreeSlot(tasks) \in Slots /\ tasks[FreeSlot(tasks)].kind = "none"
      BY <2>9 DEF vm_clicked, AskForVm, FreeSlot, Idle
    <3>2. tasks'[s] = tasks[s] \/ tasks'[s] = [tasks[s] EXCEPT !.rival = TRUE]
      BY <1>1, <2>9, <3>1 DEF vm_clicked, AskForVm
    <3>3. tasks[s] \in Tasks
      BY <1>1, <2>1, NoTaskFacts DEF TasksTyped, TaskSet
    <3> QED BY <3>2, <3>3 DEF StaysOrAdvances, Tasks
  <2>10. ~quit_requested
    BY <1>1 DEF quit_requested
  <2> QED BY <1>1, <2>2, <2>3, <2>4, <2>5, <2>6, <2>7, <2>8, <2>9, <2>10 DEF Next, MainLoop, User
<1>2. IInv /\ [Next]_vars
        => [\A s \in Slots : tasks[s].kind # "none" /\ ~quit' => Kept(s)]_vars
  BY <1>1
<1> QED BY <1>2, InvHolds, PTL DEF Spec, TaskOnlyAdvances
=============================================================================
