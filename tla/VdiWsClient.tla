---------------------------- MODULE VdiWsClient ----------------------------
(***************************************************************************)
(* The web socket client of the VDI session (src/vdi_client/               *)
(* vdi_ws_client.c): start, stop, the asynchronous connect, the            *)
(* connection's "closed" signal and the five second reconnect timer.       *)
(*                                                                         *)
(* Everything below runs in the GLib main loop, so an action is one        *)
(* callback.  What makes the component hard is what is still queued in the *)
(* main loop when stop or a restart runs: libsoup calls on_connection of a *)
(* cancelled connect, and emits "closed" of a connection stop let go of,   *)
(* in a LATER iteration, when the client may already run again.            *)
(***************************************************************************)
CONSTANTS
    Conns,    \* Bound: identities for connect attempts and the connections
              \* they become, reused once nothing refers to them
    NoConn    \* the NULL of ws_conn

ASSUME ConnsAssumption == NoConn \notin Conns

VARIABLES
    isRunning,            \* is_running
    reconnectIfConnLost,  \* reconnect_if_conn_lost
    sourceId,             \* reconnect_event_source_id: 0, a source of the main
                          \* loop, or the id of a source already removed
    wsConn,               \* ws_conn
    conn,                 \* where each attempt or connection is in its life
    online                \* the green or red circle of the VDI window

vars == <<isRunning, reconnectIfConnLost, sourceId, wsConn, conn, online>>

\* connecting: connect_async was called; cancelled: so, and its cancellable was
\* cancelled; open: handlers are attached; closing: its "closed" signal is still
\* to come; closed: the signal came, and ws_conn still refers to it.
Stages == {"free", "connecting", "cancelled", "open", "closing", "closed"}

TypeOK ==
    /\ isRunning \in BOOLEAN
    /\ reconnectIfConnLost \in BOOLEAN
    /\ sourceId \in {"zero", "live", "removed"}
    /\ wsConn \in Conns \cup {NoConn}
    /\ conn \in [Conns -> Stages]
    /\ online \in BOOLEAN

Init ==
    /\ isRunning = FALSE
    /\ reconnectIfConnLost = TRUE
    /\ sourceId = "zero"
    /\ wsConn = NoConn
    /\ conn = [c \in Conns |-> "free"]
    /\ online = FALSE

-----------------------------------------------------------------------------
(* Helpers.                                                                *)

LinkUp == wsConn \in Conns /\ conn[wsConn] = "open"

\* An identity no callback of the main loop refers to any more.
Idle(c) == conn[c] \in {"free", "closed"}

\* reconnect_if_allowed arms the timer unless one is armed (or its id was left).
reconnect_if_allowed ==
    sourceId' = IF reconnectIfConnLost /\ isRunning /\ sourceId = "zero"
                THEN "live" ELSE sourceId

\* What stop does to one attempt: all attempts of this run share the cancellable
\* it cancels; only the connection ws_conn refers to is closed, and released.
StageAfterStop(c) ==
    CASE conn[c] = "connecting"              -> "cancelled"
      [] c = wsConn /\ conn[c] = "open"      -> "closing"
      [] c = wsConn /\ conn[c] = "closed"    -> "free"
      [] OTHER                               -> conn[c]

ConnAfterStop ==
    IF isRunning THEN [c \in Conns |-> StageAfterStop(c)] ELSE conn

\* A mutant of SourceAfterStop: the timer outlives the client.
SourceKeptByStop == sourceId

\* stop removes the source and keeps its id.
SourceAfterStop == IF isRunning /\ sourceId = "live" THEN "removed" ELSE sourceId

WsConnAfterStop == IF isRunning THEN NoConn ELSE wsConn

\* Assigning ws_conn forgets the connection it referred to: a closed one is no
\* longer anybody's, an open one stays open with its handlers attached.
Forget(stages, old) ==
    IF old \in Conns /\ stages[old] = "closed"
    THEN [stages EXCEPT ![old] = "free"] ELSE stages

-----------------------------------------------------------------------------
(* Calls of the owner (vdi_session.c).                                     *)

\* A mutant of stop: the cancellable is not cancelled.
StopWithoutCancel ==
    /\ isRunning
    /\ conn' = [c \in Conns |->
                  IF conn[c] = "connecting" THEN conn[c] ELSE StageAfterStop(c)]
    /\ sourceId' = SourceAfterStop
    /\ wsConn' = WsConnAfterStop
    /\ isRunning' = FALSE
    /\ reconnectIfConnLost' = FALSE
    /\ UNCHANGED online

\* vdi_ws_client_stop, from vdi_session_logout and auth_fail_detected.
stop ==
    /\ isRunning
    /\ conn' = ConnAfterStop
    /\ sourceId' = SourceAfterStop
    /\ wsConn' = WsConnAfterStop
    /\ isRunning' = FALSE
    /\ reconnectIfConnLost' = FALSE
    /\ UNCHANGED online

\* vdi_api_session_restart_vdi_ws_client: stop, then start, in one callback.
\* start finds is_running FALSE.  Its message cannot be built from a broken URL
\* (then the client stays stopped); otherwise the first connect begins, and
\* ws_connect zeroes the source id.  Bound: one further identity stays idle, so
\* that the bound on Conns never keeps an armed timer from firing.
restart_ws_client(c, urlOk) ==
    /\ Idle(c)
    /\ \E d \in Conns \ {c} : Idle(d)
    /\ wsConn' = WsConnAfterStop
    /\ IF urlOk
       THEN /\ conn' = [ConnAfterStop EXCEPT ![c] = "connecting"]
            /\ sourceId' = "zero"
            /\ isRunning' = TRUE
            /\ reconnectIfConnLost' = TRUE
       ELSE /\ conn' = ConnAfterStop
            /\ sourceId' = SourceAfterStop
            /\ isRunning' = FALSE
            /\ reconnectIfConnLost' = IF isRunning THEN FALSE ELSE reconnectIfConnLost
    /\ UNCHANGED online

\* vdi_manager_show paints the circle from the connection's state.
show_ws_state ==
    /\ online' = LinkUp
    /\ UNCHANGED <<isRunning, reconnectIfConnLost, sourceId, wsConn, conn>>

-----------------------------------------------------------------------------
(* Callbacks of the main loop.                                             *)

\* The timer fires: vdi_ws_client_ws_connect.
ws_connect(c) ==
    /\ sourceId = "live"
    /\ conn[c] = "free"
    /\ conn' = [conn EXCEPT ![c] = "connecting"]
    /\ sourceId' = "zero"
    /\ UNCHANGED <<isRunning, reconnectIfConnLost, wsConn, online>>

\* A mutant of on_connection_ok: it falls through to the reconnect of a failure.
ConnectionOkAlsoReconnects(c) ==
    /\ conn[c] = "connecting"
    /\ wsConn' = c
    /\ conn' = [Forget(conn, wsConn) EXCEPT ![c] = "open"]
    /\ reconnect_if_allowed
    /\ online' = TRUE
    /\ UNCHANGED <<isRunning, reconnectIfConnLost>>

\* on_connection of an attempt that succeeded.
on_connection_ok(c) ==
    /\ conn[c] = "connecting"
    /\ wsConn' = c
    /\ conn' = [Forget(conn, wsConn) EXCEPT ![c] = "open"]
    /\ online' = TRUE
    /\ UNCHANGED <<isRunning, reconnectIfConnLost, sourceId>>

\* on_connection of an attempt that failed or was cancelled: ws_conn becomes NULL
\* whatever it was, and a reconnect is scheduled if the client runs.
on_connection_error(c) ==
    /\ conn[c] \in {"connecting", "cancelled"}
    /\ wsConn' = NoConn
    /\ conn' = [Forget(conn, wsConn) EXCEPT ![c] = "free"]
    /\ reconnect_if_allowed
    /\ online' = FALSE
    /\ UNCHANGED <<isRunning, reconnectIfConnLost>>

\* The peer, or the network, ends the connection.
peer_closes(c) ==
    /\ conn[c] = "open"
    /\ conn' = [conn EXCEPT ![c] = "closing"]
    /\ UNCHANGED <<isRunning, reconnectIfConnLost, sourceId, wsConn, online>>

\* A mutant of on_close: only the current connection's loss is reported.
OnCloseReportsCurrentOnly(c) ==
    /\ conn[c] = "closing"
    /\ conn' = [conn EXCEPT ![c] = IF c = wsConn THEN "closed" ELSE "free"]
    /\ reconnect_if_allowed
    /\ online' = IF c = wsConn THEN FALSE ELSE online
    /\ UNCHANGED <<isRunning, reconnectIfConnLost, wsConn>>

\* The "closed" signal of a connection, current or not.
on_close(c) ==
    /\ conn[c] = "closing"
    /\ conn' = [conn EXCEPT ![c] = IF c = wsConn THEN "closed" ELSE "free"]
    /\ reconnect_if_allowed
    /\ online' = FALSE
    /\ UNCHANGED <<isRunning, reconnectIfConnLost, wsConn>>

\* The broker's DISCONNECT command: logout (which stops the client), and no
\* reconnect.  It may come over a connection ws_conn no longer refers to.
on_message_disconnect(c) ==
    /\ conn[c] = "open"
    /\ conn' = ConnAfterStop
    /\ sourceId' = SourceAfterStop
    /\ wsConn' = WsConnAfterStop
    /\ isRunning' = FALSE
    /\ reconnectIfConnLost' = FALSE
    /\ UNCHANGED online

-----------------------------------------------------------------------------
\* What happens to one attempt or connection without the owner.
Callback(c) ==
    \/ ws_connect(c)
    \/ on_connection_ok(c)
    \/ on_connection_error(c)
    \/ peer_closes(c)
    \/ on_close(c)
    \/ on_message_disconnect(c)

Next ==
    \/ stop
    \/ show_ws_state
    \/ \E c \in Conns, urlOk \in BOOLEAN : restart_ws_client(c, urlOk)
    \/ \E c \in Conns : Callback(c)

\* The main loop runs the timer and the callbacks that are due.
LoopFairness ==
    /\ WF_vars(\E c \in Conns : ws_connect(c))
    /\ \A c \in Conns :
          /\ WF_vars(on_connection_ok(c) \/ on_connection_error(c))
          /\ WF_vars(on_close(c))

\* A broker that is tried again and again accepts some time.
BrokerFairness == SF_vars(\E c \in Conns : on_connection_ok(c))

Spec == Init /\ [][Next]_vars /\ LoopFairness /\ BrokerFairness

-----------------------------------------------------------------------------
(* Properties.                                                             *)

\* stop releases the soup session, the message and the cancellable.  Nothing that
\* would use them is left behind: a timer is armed, or a connect that was not
\* cancelled is in flight, only while the client runs.
NothingPendingWhenStopped ==
    (sourceId = "live" \/ \E c \in Conns : conn[c] = "connecting") => isRunning

\* A running client is never stranded: an attempt is in flight, a reconnect is
\* scheduled, or ws_conn is a connection whose closing will schedule one.
NeverStranded ==
    isRunning =>
        \/ sourceId = "live"
        \/ \E c \in Conns : conn[c] = "connecting"
        \/ wsConn \in Conns /\ conn[wsConn] \in {"open", "closing"}

\* The circle is green only while some connection is open or its "closed" signal,
\* which turns the circle red, is still to come.
OnlineIsBacked == online => \E c \in Conns : conn[c] \in {"open", "closing"}

\* The client implements the link the rest of the program relies on.
Link == INSTANCE WsLink WITH on <- isRunning, up <- LinkUp
ImplementsLink == Link!Spec

\* "Reconnect if its not reconnecting yet" (vdi_ws_client.c, reconnect_if_allowed):
\* a running client has one connect attempt or one timer, never two of them.
OneReconnectAtATime ==
    isRunning =>
        /\ \A c, d \in Conns :
              conn[c] = "connecting" /\ conn[d] = "connecting" => c = d
        /\ sourceId = "live" => \A c \in Conns : conn[c] # "connecting"

\* One link: a running client is waiting for its timer, or connecting once, or has
\* a connection; and a connection that is open is the one ws_conn refers to, so that
\* stop can close it and the broker serves this client once.
OneLink ==
    /\ OneReconnectAtATime
    /\ \A c \in Conns : conn[c] = "open" => c = wsConn
    /\ isRunning /\ wsConn \in Conns /\ conn[wsConn] \in {"open", "closing"} =>
          sourceId # "live" /\ \A c \in Conns : conn[c] # "connecting"

\* The client has let go of an attempt or a connection, whose callback is to come.
LetGo(c) == conn[c] = "cancelled" \/ (conn[c] = "closing" /\ c # wsConn)

\* Nothing but the late callback of an attempt or a connection the client let go of
\* in a restart makes it have two links: the timer, restarts, stops, failures and the
\* broker's commands keep to one, in any order.
OnlyLateCallbackDoubles ==
    [][OneLink => OneLink' \/ \E c \in Conns : LetGo(c) /\ conn'[c] # conn[c]]_vars
=============================================================================
