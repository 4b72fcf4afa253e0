------------------------- MODULE VdiWsClient_proofs -------------------------
(***************************************************************************)
(* Proofs about VdiWsClient, for every set of connection identities.       *)
(***************************************************************************)
EXTENDS VdiWsClient, TLAPS

\* ws_conn refers to nothing while the client is stopped, and otherwise to a
\* connection whose callbacks have come as far as its stage says.
WsConnInv ==
    /\ wsConn \in Conns => isRunning
    /\ wsConn \in Conns => conn[wsConn] \in {"open", "closing", "closed"}

\* A running client may reconnect, and no removed source blocks its timer.
TimerInv == isRunning => reconnectIfConnLost /\ sourceId # "removed"

\* What has to be added to the safety properties to make them inductive.
IInv ==
    /\ TypeOK
    /\ WsConnInv
    /\ TimerInv
    /\ NothingPendingWhenStopped
    /\ NeverStranded

-----------------------------------------------------------------------------
\* Stopping an attempt leaves it in a stage of its life.
LEMMA StageTyped ==
    ASSUME TypeOK, NEW c \in Conns
    PROVE  /\ StageAfterStop(c) \in Stages
           /\ StageAfterStop(c) # "connecting"
BY DEF TypeOK, StageAfterStop, Stages

\* What a call of stop leaves: no attempt that is not cancelled, and no timer.
LEMMA AfterStop ==
    ASSUME IInv
    PROVE  /\ ConnAfterStop \in [Conns -> Stages]
           /\ \A c \in Conns : ConnAfterStop[c] # "connecting"
           /\ SourceAfterStop \in {"zero", "removed"}
           /\ WsConnAfterStop = NoConn
<1>1. CASE isRunning
  BY <1>1, StageTyped DEF IInv, TypeOK, TimerInv, ConnAfterStop, SourceAfterStop, WsConnAfterStop
<1>2. CASE ~isRunning
  BY <1>2 DEF IInv, TypeOK, WsConnInv, NothingPendingWhenStopped,
       ConnAfterStop, SourceAfterStop, WsConnAfterStop
<1> QED BY <1>1, <1>2 DEF IInv, TypeOK

\* Overwriting ws_conn changes no stage but that of a closed connection.
LEMMA ForgetTyped ==
    ASSUME TypeOK
    PROVE  /\ Forget(conn, wsConn) \in [Conns -> Stages]
           /\ \A c \in Conns : \/ Forget(conn, wsConn)[c] = conn[c]
                               \/ conn[c] = "closed" /\ Forget(conn, wsConn)[c] = "free"
BY DEF TypeOK, Forget, Stages

-----------------------------------------------------------------------------
LEMMA InitIInv == Init => IInv
BY ConnsAssumption DEF Init, IInv, TypeOK, Stages, WsConnInv, TimerInv,
     NothingPendingWhenStopped, NeverStranded

LEMMA NextIInv == IInv /\ [Next]_vars => IInv'
<1> SUFFICES ASSUME IInv, [Next]_vars PROVE IInv'
  OBVIOUS
<1> USE DEF IInv
<1>1. CASE stop
  BY <1>1, AfterStop, ConnsAssumption
     DEF stop, TypeOK, WsConnInv, TimerInv, NothingPendingWhenStopped, NeverStranded
<1>2. CASE show_ws_state
  BY <1>2 DEF show_ws_state, LinkUp, TypeOK, WsConnInv, TimerInv,
       NothingPendingWhenStopped, NeverStranded
<1>3. ASSUME NEW c \in Conns, NEW urlOk \in BOOLEAN, restart_ws_client(c, urlOk)
      PROVE  IInv'
  <2>1. CASE urlOk
    BY <1>3, <2>1, AfterStop, ConnsAssumption
       DEF restart_ws_client, TypeOK, Stages, WsConnInv, TimerInv,
           NothingPendingWhenStopped, NeverStranded
  <2>2. CASE ~urlOk
    BY <1>3, <2>2, AfterStop, ConnsAssumption
       DEF restart_ws_client, TypeOK, WsConnInv, TimerInv,
           NothingPendingWhenStopped, NeverStranded
  <2> QED BY <2>1, <2>2
<1>4. ASSUME NEW c \in Conns, ws_connect(c)
      PROVE  IInv'
  BY <1>4 DEF ws_connect, TypeOK, Stages, WsConnInv, TimerInv,
       NothingPendingWhenStopped, NeverStranded
<1>5. ASSUME NEW c \in Conns, on_connection_ok(c)
      PROVE  IInv'
  BY <1>5, ForgetTyped DEF on_connection_ok, TypeOK, Stages, WsConnInv, TimerInv,
       NothingPendingWhenStopped, NeverStranded
<1>6. ASSUME NEW c \in Conns, on_connection_error(c)
      PROVE  IInv'
  BY <1>6, ForgetTyped, ConnsAssumption
     DEF on_connection_error, reconnect_if_allowed, TypeOK, Stages, WsConnInv, TimerInv,
         NothingPendingWhenStopped, NeverStranded
<1>7. ASSUME NEW c \in Conns, peer_closes(c)
      PROVE  IInv'
  BY <1>7 DEF peer_closes, TypeOK, Stages, WsConnInv, TimerInv,
       NothingPendingWhenStopped, NeverStranded
<1>8. ASSUME NEW c \in Conns, on_close(c)
      PROVE  IInv'
  BY <1>8 DEF on_close, reconnect_if_allowed, TypeOK, Stages, WsConnInv, TimerInv,
       NothingPendingWhenStopped, NeverStranded
<1>9. ASSUME NEW c \in Conns, on_message_disconnect(c)
      PROVE  IInv'
  BY <1>9, AfterStop, ConnsAssumption
     DEF on_message_disconnect, TypeOK, WsConnInv, TimerInv,
         NothingPendingWhenStopped, NeverStranded
<1>10. CASE UNCHANGED vars
  BY <1>10 DEF vars, TypeOK, WsConnInv, TimerInv, NothingPendingWhenStopped, NeverStranded
<1> QED
  BY <1>1, <1>2, <1>3, <1>4, <1>5, <1>6, <1>7, <1>8, <1>9, <1>10 DEF Next, Callback

\* The strengthened invariant holds in every reachable state.
THEOREM Inductive == Spec => []IInv
BY InitIInv, NextIInv, PTL DEF Spec

\* Every variable keeps its type.
THEOREM TypeCorrect == Spec => []TypeOK
BY Inductive, PTL DEF IInv

\* After stop neither a timer nor an uncancelled connect of vdi_ws_client.c is
\* left that would use the objects stop released.
THEOREM StoppedIsQuiet == Spec => []NothingPendingWhenStopped
BY Inductive, PTL DEF IInv

\* reconnect_if_allowed is called often enough: a running client always has an
\* attempt, a timer, or a current connection whose closing will call it.
THEOREM NotStranded == Spec => []NeverStranded
BY Inductive, PTL DEF IInv

-----------------------------------------------------------------------------
\* A green circle is backed by a connection; needs no other invariant than types.
LEMMA NextOnline == TypeOK /\ OnlineIsBacked /\ [Next]_vars => OnlineIsBacked'
<1> SUFFICES ASSUME TypeOK, OnlineIsBacked, [Next]_vars PROVE OnlineIsBacked'
  OBVIOUS
<1> USE DEF OnlineIsBacked
\* Stopping turns no connection that is open or closing into anything else.
<1>a. \A c \in Conns : conn[c] \in {"open", "closing"} => ConnAfterStop[c] \in {"open", "closing"}
  BY DEF ConnAfterStop, StageAfterStop, TypeOK
<1>b. ConnAfterStop \in [Conns -> Stages]
  BY StageTyped DEF ConnAfterStop, TypeOK
<1>1. CASE stop
  BY <1>1, <1>a DEF stop
<1>2. CASE show_ws_state
  BY <1>2 DEF show_ws_state, LinkUp, TypeOK
<1>3. ASSUME NEW c \in Conns, NEW urlOk \in BOOLEAN, restart_ws_client(c, urlOk)
      PROVE  OnlineIsBacked'
  BY <1>3, <1>a, <1>b DEF restart_ws_client, Idle, TypeOK
<1>4. ASSUME NEW c \in Conns, Callback(c)
      PROVE  OnlineIsBacked'
  <2>1. CASE ws_connect(c)
    BY <2>1 DEF ws_connect, TypeOK
  <2>2. CASE on_connection_ok(c)
    BY <2>2, ForgetTyped DEF on_connection_ok, TypeOK
  <2>3. CASE on_connection_error(c)
    BY <2>3 DEF on_connection_error
  <2>4. CASE peer_closes(c)
    BY <2>4 DEF peer_closes, TypeOK
  <2>5. CASE on_close(c)
    BY <2>5 DEF on_close
  <2>6. CASE on_message_disconnect(c)
    BY <2>6, <1>a DEF on_message_disconnect
  <2> QED BY <1>4, <2>1, <2>2, <2>3, <2>4, <2>5, <2>6 DEF Callback
<1>5. CASE UNCHANGED vars
  BY <1>5 DEF vars
<1> QED
  BY <1>1, <1>2, <1>3, <1>4, <1>5 DEF Next

\* The green circle of the VDI window never outlives the last connection.
THEOREM OnlineBacked == Spec => []OnlineIsBacked
<1>1. Init => OnlineIsBacked
  BY DEF Init, OnlineIsBacked
<1> QED BY <1>1, NextOnline, TypeCorrect, PTL DEF Spec

-----------------------------------------------------------------------------
\* Each step of the client is a step of the abstract link, or leaves it alone.
LEMMA LinkStep == IInv /\ [Next]_vars => [Link!Next]_(Link!vars)
<1> SUFFICES ASSUME IInv, [Next]_vars PROVE [Link!Next]_(Link!vars)
  OBVIOUS
<1> USE DEF IInv, TypeOK, LinkUp, Link!Next, Link!vars
<1>1. CASE stop
  BY <1>1, AfterStop, ConnsAssumption DEF stop, Link!SwitchOff
<1>2. CASE show_ws_state
  BY <1>2 DEF show_ws_state
<1>3. ASSUME NEW c \in Conns, NEW urlOk \in BOOLEAN, restart_ws_client(c, urlOk)
      PROVE  [Link!Next]_(Link!vars)
  <2>1. CASE urlOk
    BY <1>3, <2>1, AfterStop, ConnsAssumption DEF restart_ws_client, Link!SwitchOn
  <2>2. CASE ~urlOk
    BY <1>3, <2>2, AfterStop, ConnsAssumption
       DEF restart_ws_client, Link!SwitchOff, WsConnInv, WsConnAfterStop
  <2> QED BY <2>1, <2>2
<1>4. ASSUME NEW c \in Conns, Callback(c)
      PROVE  [Link!Next]_(Link!vars)
  <2>1. CASE ws_connect(c)
    BY <2>1 DEF ws_connect
  <2>2. CASE on_connection_ok(c)
    BY <2>2, ForgetTyped DEF on_connection_ok, NothingPendingWhenStopped, Link!Establish
  <2>3. CASE on_connection_error(c)
    BY <2>3, ConnsAssumption DEF on_connection_error, Link!Lose
  <2>4. CASE peer_closes(c)
    BY <2>4 DEF peer_closes, Link!Lose
  <2>5. CASE on_close(c)
    BY <2>5 DEF on_close, Link!Lose
  <2>6. CASE on_message_disconnect(c)
    BY <2>6, AfterStop, ConnsAssumption
       DEF on_message_disconnect, WsConnInv, Link!SwitchOff
  <2> QED BY <1>4, <2>1, <2>2, <2>3, <2>4, <2>5, <2>6 DEF Callback
<1>5. CASE UNCHANGED vars
  BY <1>5 DEF vars
<1> QED
  BY <1>1, <1>2, <1>3, <1>4, <1>5 DEF Next

\* The client implements the safety part of the link the program relies on: it is
\* up only while wanted, and comes up only by a connect made while wanted.
THEOREM RefinesLink == Spec => Link!Safe
<1>1. Init => Link!Init
  BY ConnsAssumption DEF Init, LinkUp, Link!Init
<1> QED BY <1>1, LinkStep, Inductive, PTL DEF Spec, Link!Safe

-----------------------------------------------------------------------------
\* Stopping leaves no open connection behind if there was one link.
LEMMA StopClosesAll ==
    ASSUME IInv, OneLink
    PROVE  \A c \in Conns : ConnAfterStop[c] # "open"
<1>1. CASE isRunning
  BY <1>1 DEF OneLink, ConnAfterStop, StageAfterStop
<1>2. CASE ~isRunning
  BY <1>2 DEF OneLink, ConnAfterStop, IInv, WsConnInv
<1> QED BY <1>1, <1>2 DEF IInv, TypeOK

\* No step makes two links of one, unless it is the callback of what was let go of.
LEMMA OneLinkStep ==
    ASSUME IInv, OneLink, [Next]_vars,
           \A c \in Conns : LetGo(c) => conn'[c] = conn[c]
    PROVE  OneLink'
<1> USE DEF OneLink, OneReconnectAtATime
<1>1. CASE stop
  BY <1>1, AfterStop, StopClosesAll DEF stop
<1>2. CASE show_ws_state
  BY <1>2 DEF show_ws_state
<1>3. ASSUME NEW c \in Conns, NEW urlOk \in BOOLEAN, restart_ws_client(c, urlOk)
      PROVE  OneLink'
  <2>1. CASE urlOk
    BY <1>3, <2>1, AfterStop, StopClosesAll, ConnsAssumption DEF restart_ws_client
  <2>2. CASE ~urlOk
    BY <1>3, <2>2, AfterStop, StopClosesAll DEF restart_ws_client
  <2> QED BY <2>1, <2>2
<1>4. ASSUME NEW c \in Conns, Callback(c)
      PROVE  OneLink'
  <2> USE DEF IInv, TypeOK
  <2>1. CASE ws_connect(c)
    BY <2>1 DEF ws_connect, NothingPendingWhenStopped, WsConnInv
  <2>2. CASE on_connection_ok(c)
    <3>1. isRunning /\ sourceId # "live" /\ conn[c] = "connecting"
      BY <2>2 DEF on_connection_ok, NothingPendingWhenStopped
    <3>2. \A d \in Conns : conn[d] # "open" /\ (conn[d] = "connecting" => d = c)
      BY <3>1
    <3>3. \A d \in Conns \ {c} : conn'[d] # "open" /\ conn'[d] # "connecting"
      BY <2>2, <3>2, ForgetTyped DEF on_connection_ok
    <3>4. conn'[c] = "open" /\ wsConn' = c /\ sourceId' # "live"
      BY <2>2, <3>1, ForgetTyped DEF on_connection_ok
    <3> QED BY <3>3, <3>4
  <2>3. CASE on_connection_error(c)
    <3>1. conn[c] = "connecting" /\ isRunning
      <4>1. conn'[c] = "free"
        BY <2>3, ForgetTyped DEF on_connection_error
      <4> QED BY <2>3, <4>1 DEF on_connection_error, LetGo, NothingPendingWhenStopped
    <3>2. \A d \in Conns : conn[d] # "open" /\ (conn[d] = "connecting" => d = c)
      BY <3>1
    <3>3. \A d \in Conns : conn'[d] # "open" /\ conn'[d] # "connecting"
      BY <2>3, <3>2, ForgetTyped DEF on_connection_error
    <3>4. wsConn' = NoConn
      BY <2>3 DEF on_connection_error
    <3> QED BY <3>3, <3>4, ConnsAssumption
  <2>4. CASE peer_closes(c)
    BY <2>4 DEF peer_closes
  <2>5. CASE on_close(c)
    <3>1. c = wsConn /\ isRunning
      BY <2>5 DEF on_close, LetGo, WsConnInv
    <3>2. conn[c] = "closing" /\ conn' = [conn EXCEPT ![c] = "closed"] /\ UNCHANGED wsConn
      BY <2>5, <3>1 DEF on_close
    <3> QED BY <3>1, <3>2
  <2>6. CASE on_message_disconnect(c)
    BY <2>6, AfterStop, StopClosesAll DEF on_message_disconnect
  <2> QED BY <1>4, <2>1, <2>2, <2>3, <2>4, <2>5, <2>6 DEF Callback
<1>5. CASE UNCHANGED vars
  BY <1>5 DEF vars
<1> QED
  BY <1>1, <1>2, <1>3, <1>4, <1>5 DEF Next

\* Two links side by side are the work of a late callback, whatever else happens.
THEOREM LateCallbackDoubles == Spec => OnlyLateCallbackDoubles
<1>1. IInv /\ [Next]_vars =>
        [OneLink => OneLink' \/ \E c \in Conns : LetGo(c) /\ conn'[c] # conn[c]]_vars
  BY OneLinkStep
<1> QED BY <1>1, Inductive, PTL DEF Spec, OnlyLateCallbackDoubles
=============================================================================
