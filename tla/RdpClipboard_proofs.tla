------------------------ MODULE RdpClipboard_proofs ------------------------
(***************************************************************************)
(* Why the answers of the clipboard, which carry no number, reach their    *)
(* requests: as long as no paste gave up waiting there is at most one      *)
(* request under way (PasteInv), and as long as nothing was nested the     *)
(* callbacks queued for the requests of the server, and the one being      *)
(* served, are all of them and in their order (AskInv).                    *)
(***************************************************************************)
EXTENDS RdpClipboard, SequenceTheorems, TLAPS

PasteInv ==
    /\ wait \in Nat /\ pastes \in Nat
    /\ ~late =>
          /\ wait = 0 => pending = <<>> /\ converted = <<>>
          /\ wait # 0 =>
                \/ pending = <<wait>> /\ converted = <<>> /\ ~isTransfered
                \/ /\ pending = <<>> /\ answered = wait
                   /\ isTransfered => converted = <<>>

LEMMA InitPasteInv ==
    ASSUME Init
    PROVE  PasteInv
BY DEF Init, PasteInv

\* The only request under way is the one just sent.
LEMMA SendKeepsPasteInv ==
    ASSUME PasteInv, NEW info, wait = 0, SendRequest(info),
           UNCHANGED <<answered, converted, late>>
    PROVE  PasteInv'
<1>1. wait' \in Nat /\ pastes' \in Nat /\ wait' # 0
  BY DEF PasteInv, SendRequest
<1>2. ~late' => pending' = <<wait'>> /\ converted' = <<>> /\ ~isTransfered'
  BY DEF PasteInv, SendRequest
<1> QED BY <1>1, <1>2 DEF PasteInv

LEMMA PasteStep ==
    ASSUME PasteInv, [Next]_vars
    PROVE  PasteInv'
<1>1. CASE Channel
  <2>1. CASE convert_response
    <3>1. ~late => wait # 0 /\ pending = <<wait>> /\ ~isTransfered
      BY <2>1 DEF PasteInv, convert_response
    <3>2. ~late => pending' = <<>> /\ answered' = wait
      BY <2>1, <3>1 DEF convert_response
    <3> QED BY <2>1, <3>1, <3>2 DEF PasteInv, convert_response, mainVars
  <2>2. CASE signal_response
    <3>1. ~late => wait # 0 /\ pending = <<>> /\ answered = wait
      BY <2>2 DEF PasteInv, signal_response
    <3> QED BY <2>2, <3>1 DEF PasteInv, signal_response
  <2>3. CASE server_format_data_request
    BY <2>3 DEF PasteInv, server_format_data_request, askFrame
  <2>4. CASE server_format_list
    BY <2>4 DEF PasteInv, server_format_list
  <2> QED BY <1>1, <2>1, <2>2, <2>3, <2>4 DEF Channel
<1>2. CASE Main
  <2>1. CASE rdp_cliprdr_request_data
    <3> PICK info \in offered : SendRequest(info)
      BY <2>1 DEF rdp_cliprdr_request_data
    <3> QED BY <2>1, SendKeepsPasteInv DEF rdp_cliprdr_request_data, MainLoop
  <2>2. CASE wait_signalled
    BY <2>2 DEF PasteInv, wait_signalled, waitFrame
  <2>3. CASE wait_timeout
    BY <2>3 DEF PasteInv, wait_timeout, waitFrame
  <2>4. CASE set_clipboard_data
    BY <2>4 DEF PasteInv, set_clipboard_data, idleFrame
  <2>5. CASE set_clipboard_content
    BY <2>5 DEF PasteInv, set_clipboard_content, idleFrame
  <2>6. CASE get_clipboard_data
    <3>1. wait = 0 /\ UNCHANGED <<answered, converted, late>>
      BY <2>6 DEF get_clipboard_data, MainLoop
    <3>2. \/ UNCHANGED <<isTransfered, wait, pastes, pending>>
          \/ \E info \in offered : SendRequest(info)
      BY <2>6 DEF get_clipboard_data
    <3>3. CASE UNCHANGED <<isTransfered, wait, pastes, pending>>
      BY <3>1, <3>3 DEF PasteInv
    <3> QED BY <3>1, <3>2, <3>3, SendKeepsPasteInv
  <2>7. CASE get_clipboard_data_end
    BY <2>7 DEF PasteInv, get_clipboard_data_end
  <2>8. CASE rdp_event_on_clipboard
    BY <2>8 DEF PasteInv, rdp_event_on_clipboard, mainVars
  <2> QED BY <1>2, <2>1, <2>2, <2>3, <2>4, <2>5, <2>6, <2>7, <2>8 DEF Main
<1>3. CASE local_copy
  BY <1>3 DEF PasteInv, local_copy, mainVars
<1>4. CASE focus_moves
  BY <1>4 DEF PasteInv, focus_moves, mainVars
<1>5. CASE rdp_cliprdr_uninit
  BY <1>5 DEF PasteInv, rdp_cliprdr_uninit, mainVars
<1>6. CASE freed \/ UNCHANGED vars
  BY <1>6 DEF PasteInv, freed, vars, mainVars
<1> QED BY <1>1, <1>2, <1>3, <1>4, <1>5, <1>6 DEF Next

\* Unless a wait gave up, a single request of rdp_cliprdr_request_data is under way.
THEOREM PasteInvHolds == Spec => []PasteInv
<1> QED BY InitPasteInv, PasteStep, PTL DEF Spec

\* The answer that ends a wait in rdp_cliprdr_request_data is the answer to the
\* request it sent, unless an earlier wait reached its time limit.
THEOREM WaitEndsByOwnAnswerHolds == Spec => WaitEndsByOwnAnswer
<1>1. PasteInv => [wait # 0 /\ wait' = 0 /\ isTransfered => answered = wait \/ late]_vars
  BY DEF PasteInv
<1> QED BY <1>1, PasteInvHolds, PTL DEF WaitEndsByOwnAnswer

-----------------------------------------------------------------------------
(* Types.                                                                  *)

LEMMA EventTypes ==
    /\ \A fs \in SUBSET Formats : SetData(fs) \in Events
    /\ \A k \in Kinds : SetContent(k) \in Events
    /\ \A i \in 1 .. MaxAsk, f \in Formats : GetData(i, f) \in Events
    /\ \A e \in Events : e.type = "SET_DATA" => e.formats \subseteq Formats
    /\ \A e \in Events : e.type = "SET_CONTENT" => e.kind \in Kinds
    /\ \A e \in Events : e.type = "GET_DATA" => e.ask \in 1 .. MaxAsk /\ e.format \in Formats
<1>1. \A e \in Events : e.type = "SET_DATA" => e.formats \subseteq Formats
  BY DEF Events, SetData, SetContent, GetData
<1>2. \A e \in Events : e.type = "SET_CONTENT" => e.kind \in Kinds
  BY DEF Events, SetData, SetContent, GetData
<1>3. \A e \in Events : e.type = "GET_DATA" => e.ask \in 1 .. MaxAsk /\ e.format \in Formats
  BY DEF Events, SetData, SetContent, GetData
<1> QED BY <1>1, <1>2, <1>3 DEF Events

\* What the first callback of the queue may be.
LEMMA HeadIdle ==
    ASSUME TypeOK, idles # <<>>
    PROVE  /\ Head(idles) \in Events /\ Tail(idles) \in Seq(Events)
           /\ Len(Tail(idles)) = Len(idles) - 1
           /\ \A i \in 1 .. Len(Tail(idles)) : Tail(idles)[i] = idles[i + 1]
BY HeadTailProperties DEF TypeOK

LEMMA SendTypes ==
    ASSUME TypeOK, NEW info \in offered, SendRequest(info)
    PROVE  /\ format' \in Formats /\ crossed' \in BOOLEAN
           /\ pastes' \in Nat /\ pending' \in Seq(Nat)
           /\ isTransfered' \in BOOLEAN /\ wait' \in 0 .. pastes'
<1>1. format' \in Formats /\ crossed' \in BOOLEAN /\ isTransfered' \in BOOLEAN
  BY DEF TypeOK, SendRequest, SetFormat
<1>2. pastes \in Nat /\ pastes' = pastes + 1 /\ wait' = pastes + 1
  BY BoundsAssumption DEF TypeOK, SendRequest
<1>3. pastes' \in Nat /\ wait' \in 0 .. pastes'
  BY <1>2
<1>4. pending' \in Seq(Nat)
  BY <1>2 DEF TypeOK, SendRequest
<1> QED BY <1>1, <1>3, <1>4

LEMMA InitTypes ==
    ASSUME Init
    PROVE  TypeOK
<1>1. /\ 0 \in 0 .. MaxAsk /\ 0 \in 0 .. MaxCopy
      /\ idles \in Seq(Events) /\ getting \in Seq(Frames) /\ pending \in Seq(Nat)
      /\ converted \in Seq(Kinds) /\ Len(converted) = 0
  BY BoundsAssumption DEF Init
<1>2. wait \in 0 .. pastes /\ pastes \in Nat /\ answered \in Nat
  BY DEF Init
<1>3. /\ up \in BOOLEAN /\ isTransfered \in BOOLEAN /\ changed \in BOOLEAN
      /\ late \in BOOLEAN /\ crossed \in BOOLEAN
  BY DEF Init
<1>4. /\ format \in Formats /\ focused \in 0 .. Windows /\ offered \subseteq Formats
      /\ owner \in {"app", "self", "server"} /\ selfKind \in Kinds
      /\ serverView \in {"server", "client"} /\ owed \subseteq 1 .. asks
  BY DEF Init, Kinds
<1>5. asks \in 0 .. MaxAsk /\ copies \in 0 .. MaxCopy
  BY <1>1 DEF Init
<1> QED BY <1>1, <1>2, <1>3, <1>4, <1>5 DEF TypeOK

\* The types of the variables that the actions of one thread write, for the proofs
\* of the steps.
LEMMA TypesStep ==
    ASSUME TypeOK, [Next]_vars
    PROVE  TypeOK'
<1> USE DEF TypeOK, mainVars, localVars, serverVars
<1>1. CASE convert_response
  <2>1. /\ Head(pending) \in Nat /\ Tail(pending) \in Seq(Nat)
        /\ \A k \in Kinds : <<k>> \in Seq(Kinds) /\ Len(<<k>>) = 1
    BY <1>1, HeadTailProperties DEF convert_response
  <2>2. Kind(format) \in Kinds /\ "none" \in Kinds
    BY DEF Kind, Kinds
  <2> QED BY <1>1, <2>1, <2>2 DEF convert_response
<1>2. CASE signal_response
  <2>1. Head(converted) \in Kinds
    BY <1>2, HeadTailProperties DEF signal_response
  <2>2. idles' \in Seq(Events)
    BY <1>2, <2>1, EventTypes DEF signal_response
  <2>3. converted' \in Seq(Kinds) /\ Len(converted') = 0 /\ isTransfered' \in BOOLEAN
    BY <1>2 DEF signal_response
  <2> QED BY <1>2, <2>2, <2>3 DEF signal_response
<1>3. CASE server_format_data_request
  <2>1. asks + 1 \in 1 .. MaxAsk /\ asks + 1 \in 0 .. MaxAsk
    BY <1>3, BoundsAssumption DEF server_format_data_request
  <2>2. idles' \in Seq(Events)
    BY <1>3, <2>1, EventTypes DEF server_format_data_request
  <2>3. owed' \subseteq 1 .. asks'
    BY <1>3, <2>1 DEF server_format_data_request
  <2> QED BY <1>3, <2>1, <2>2, <2>3 DEF server_format_data_request, askFrame
<1>4. CASE server_format_list
  <2>1. copies' \in 0 .. MaxCopy
    BY <1>4, BoundsAssumption DEF server_format_list
  <2>2. idles' \in Seq(Events)
    <3>1. CASE UNCHANGED idles
      BY <3>1
    <3>2. CASE \E fs \in SUBSET Formats : idles' = Append(idles, SetData(fs))
      <4> PICK fs \in SUBSET Formats : idles' = Append(idles, SetData(fs))
        BY <3>2
      <4>1. SetData(fs) \in Events
        BY EventTypes
      <4> QED BY <4>1
    <3> QED BY <1>4, <3>1, <3>2 DEF server_format_list
  <2> QED BY <1>4, <2>1, <2>2 DEF server_format_list
<1>5. CASE rdp_cliprdr_request_data
  <2> PICK info \in offered : SendRequest(info)
    BY <1>5 DEF rdp_cliprdr_request_data
  <2>1. /\ format' \in Formats /\ crossed' \in BOOLEAN
        /\ pastes' \in Nat /\ pending' \in Seq(Nat)
        /\ isTransfered' \in BOOLEAN /\ wait' \in 0 .. pastes'
    BY SendTypes
  <2> QED BY <1>5, <2>1 DEF rdp_cliprdr_request_data
<1>6. CASE wait_signalled \/ wait_timeout
  <2>1. wait' = 0 /\ UNCHANGED pastes
    BY <1>6 DEF wait_signalled, wait_timeout, waitFrame
  <2>2. wait' \in 0 .. pastes'
    BY <2>1
  <2>3. late' \in BOOLEAN
    BY <1>6 DEF wait_signalled, wait_timeout
  <2> QED BY <1>6, <2>2, <2>3 DEF wait_signalled, wait_timeout, waitFrame
<1>7. CASE set_clipboard_data
  <2>1. /\ owner' \in {"app", "self", "server"} /\ offered' \subseteq Formats
        /\ changed' \in BOOLEAN /\ idles' \in Seq(Events)
    BY <1>7, HeadIdle, EventTypes, PermissionAssumption DEF set_clipboard_data
  <2> QED BY <1>7, <2>1 DEF set_clipboard_data, idleFrame
<1>8. CASE set_clipboard_content
  <2>1. /\ owner' \in {"app", "self", "server"} /\ offered' \subseteq Formats
        /\ changed' \in BOOLEAN /\ idles' \in Seq(Events) /\ selfKind' \in Kinds
    BY <1>8, HeadIdle, PermissionAssumption DEF set_clipboard_content, Kind, Kinds
  <2> QED BY <1>8, <2>1 DEF set_clipboard_content, idleFrame
<1>9. CASE get_clipboard_data_end
  <2>1. getting' \in Seq(Frames)
    BY <1>9 DEF get_clipboard_data_end, Front
  <2>2. owed' \subseteq 1 .. asks'
    BY <1>9 DEF get_clipboard_data_end, Answer
  <2> QED BY <1>9, <2>1, <2>2 DEF get_clipboard_data_end
<1>10. CASE local_copy
  BY <1>10, PermissionAssumption DEF local_copy
<1>11. CASE focus_moves
  BY <1>11 DEF focus_moves
<1>12. CASE rdp_event_on_clipboard
  <2>1. serverView' \in {"server", "client"} /\ changed' \in BOOLEAN
    BY <1>12 DEF rdp_event_on_clipboard
  <2> QED BY <1>12, <2>1 DEF rdp_event_on_clipboard
<1>13. CASE rdp_cliprdr_uninit
  BY <1>13 DEF rdp_cliprdr_uninit
<1>14. CASE freed \/ UNCHANGED vars
  BY <1>14 DEF freed, vars
<1>15. CASE get_clipboard_data
  <2> DEFINE e == Head(idles)
             frame(from) == [ask |-> e.ask, format |-> e.format, from |-> from]
  <2>1. /\ e.ask \in 1 .. MaxAsk /\ e.format \in Formats
        /\ idles' \in Seq(Events)
    BY <1>15, HeadIdle, EventTypes DEF get_clipboard_data
  <2>2. UNCHANGED <<up, answered, converted, asks, copies, serverView, late, owner, offered,
                    selfKind, changed, focused>>
    BY <1>15 DEF get_clipboard_data
  <2>3. frame("app") \in Frames /\ frame("paste") \in Frames
    BY <2>1 DEF Frames
  <2>4. CASE /\ SetFormat(e.format)
             /\ getting' = Append(getting, frame("app"))
             /\ UNCHANGED <<isTransfered, wait, owed, pastes, pending>>
    <3>1. getting' \in Seq(Frames)
      BY <2>3, <2>4
    <3>2. format' \in Formats /\ crossed' \in BOOLEAN
      BY <2>1, <2>4 DEF SetFormat
    <3> QED BY <2>1, <2>2, <2>4, <3>1, <3>2
  <2>5. CASE /\ SetFormat(e.format)
             /\ owed' = owed \ {e.ask}
             /\ UNCHANGED <<getting, isTransfered, wait, pastes, pending>>
    <3>1. format' \in Formats /\ crossed' \in BOOLEAN
      BY <2>1, <2>5 DEF SetFormat
    <3> QED BY <2>1, <2>2, <2>5, <3>1
  <2>6. CASE /\ \E info \in offered : SendRequest(info)
             /\ getting' = Append(getting, frame("paste"))
             /\ UNCHANGED owed
    <3>1. getting' \in Seq(Frames)
      BY <2>3, <2>6
    <3>2. /\ format' \in Formats /\ crossed' \in BOOLEAN
          /\ pastes' \in Nat /\ pending' \in Seq(Nat)
          /\ isTransfered' \in BOOLEAN /\ wait' \in 0 .. pastes'
      BY <2>6, SendTypes
    <3> QED BY <2>1, <2>2, <2>6, <3>1, <3>2
  <2> QED BY <1>15, <2>4, <2>5, <2>6 DEF get_clipboard_data, Answer
<1> QED
  BY <1>1, <1>2, <1>3, <1>4, <1>5, <1>6, <1>7, <1>8, <1>9, <1>10, <1>11, <1>12, <1>13, <1>14,
     <1>15
  DEF Next, Channel, Main

\* The variables of the clipboard keep their types: every callback queued is one of
\* the three kinds, with the data of its kind.
THEOREM TypeCorrect == Spec => []TypeOK
<1> QED BY InitTypes, TypesStep, PTL DEF Spec

-----------------------------------------------------------------------------
(* The requests of the server.                                             *)

IsAsk(e) == e.type = "GET_DATA"

\* The callbacks queued for requests come in the order of the requests.
QueueInOrder ==
    \A i, j \in DOMAIN idles :
        i < j /\ IsAsk(idles[i]) /\ IsAsk(idles[j]) => idles[i].ask < idles[j].ask

\* What is owed is queued or being served, and what is served was asked before.
OwedIsQueued ==
    \A ask \in owed :
        \/ \E i \in DOMAIN idles : IsAsk(idles[i]) /\ idles[i].ask = ask
        \/ \E i \in DOMAIN getting : getting[i].ask = ask

ServedIsFirst ==
    /\ Len(getting) <= 1
    /\ getting # <<>> =>
          /\ \A i \in DOMAIN idles : IsAsk(idles[i]) => getting[1].ask < idles[i].ask
          /\ getting[1].from = "app" => format = getting[1].format

AskInv ==
    /\ \A i \in DOMAIN idles : IsAsk(idles[i]) => idles[i].ask <= asks
    /\ \A i \in DOMAIN getting : getting[i].ask <= asks
    /\ ~crossed => QueueInOrder /\ OwedIsQueued /\ ServedIsFirst

LEMMA FreeOrCrossed ==
    ASSUME TypeOK, MainLoop, NEW f, SetFormat(f), ~crossed'
    PROVE  ~crossed /\ getting = <<>>
<1>1. ~crossed /\ ~(\E i \in DOMAIN getting : getting[i].from = "app")
  BY DEF SetFormat
<1>2. CASE getting # <<>>
  <2>1. Len(getting) \in DOMAIN getting
    BY <1>2 DEF TypeOK
  <2>2. getting[Len(getting)].from = "app"
    BY <1>2 DEF MainLoop, Last
  <2> QED BY <1>1, <2>1, <2>2
<1> QED BY <1>1, <1>2

\* Steps that leave the requests alone.
LEMMA AskFrame ==
    ASSUME AskInv, UNCHANGED <<idles, getting, format, asks, owed, crossed>>
    PROVE  AskInv'
BY DEF AskInv, QueueInOrder, OwedIsQueued, ServedIsFirst

\* Steps that queue a callback which is not a request.
LEMMA OtherQueued ==
    ASSUME TypeOK, AskInv, NEW e, ~IsAsk(e), idles' = Append(idles, e),
           UNCHANGED <<getting, format, asks, owed, crossed>>
    PROVE  AskInv'
<1>1. /\ idles \in Seq(Events) /\ DOMAIN idles' = 1 .. Len(idles) + 1
      /\ DOMAIN idles = 1 .. Len(idles) /\ Len(idles) \in Nat
      /\ \A i \in DOMAIN idles : idles'[i] = idles[i]
      /\ idles'[Len(idles) + 1] = e
  BY DEF TypeOK
<1>2. \A i \in DOMAIN idles' : IsAsk(idles'[i]) => i \in DOMAIN idles /\ idles'[i] = idles[i]
  BY <1>1
<1>3. \A i \in DOMAIN idles : i \in DOMAIN idles'
  BY <1>1
<1>4. \A i \in DOMAIN idles' : IsAsk(idles'[i]) => idles'[i].ask <= asks'
  BY <1>2 DEF AskInv
<1>5. QueueInOrder => QueueInOrder'
  BY <1>2 DEF QueueInOrder
<1>6. OwedIsQueued => OwedIsQueued'
  BY <1>1, <1>3 DEF OwedIsQueued
<1>7. ServedIsFirst => ServedIsFirst'
  BY <1>2 DEF ServedIsFirst
<1> QED BY <1>4, <1>5, <1>6, <1>7 DEF AskInv

\* Steps that take a callback which is not a request off the queue.
LEMMA OtherTaken ==
    ASSUME TypeOK, AskInv, idles # <<>>, ~IsAsk(Head(idles)), idles' = Tail(idles),
           UNCHANGED <<getting, format, asks, owed, crossed>>
    PROVE  AskInv'
<1>1. /\ \A i \in DOMAIN idles' : i + 1 \in DOMAIN idles /\ idles'[i] = idles[i + 1]
      /\ \A i \in DOMAIN idles' : i \in Nat
      /\ \A i \in DOMAIN idles : i = 1 \/ (i - 1 \in DOMAIN idles' /\ idles'[i - 1] = idles[i])
      /\ Head(idles) = idles[1]
  BY HeadIdle DEF TypeOK
<1>2. \A i \in DOMAIN idles' : IsAsk(idles'[i]) => idles'[i].ask <= asks'
  BY <1>1 DEF AskInv
<1>3. QueueInOrder => QueueInOrder'
  <2> SUFFICES ASSUME QueueInOrder, NEW i \in DOMAIN idles', NEW j \in DOMAIN idles',
                      i < j, IsAsk(idles'[i]), IsAsk(idles'[j])
               PROVE  idles'[i].ask < idles'[j].ask
    BY DEF QueueInOrder
  <2>1. i + 1 < j + 1 /\ i + 1 \in DOMAIN idles /\ j + 1 \in DOMAIN idles
    BY <1>1
  <2> QED BY <1>1, <2>1 DEF QueueInOrder
<1>4. OwedIsQueued => OwedIsQueued'
  <2> SUFFICES ASSUME OwedIsQueued, NEW ask \in owed
               PROVE  \/ \E i \in DOMAIN idles' : IsAsk(idles'[i]) /\ idles'[i].ask = ask
                      \/ \E i \in DOMAIN getting : getting[i].ask = ask
    BY DEF OwedIsQueued
  <2>1. CASE \E i \in DOMAIN idles : IsAsk(idles[i]) /\ idles[i].ask = ask
    <3> PICK i \in DOMAIN idles : IsAsk(idles[i]) /\ idles[i].ask = ask
      BY <2>1
    <3>1. i # 1
      BY <1>1
    <3> QED BY <1>1, <3>1
  <2> QED BY <2>1 DEF OwedIsQueued
<1>5. ServedIsFirst => ServedIsFirst'
  BY <1>1 DEF ServedIsFirst
<1> QED BY <1>2, <1>3, <1>4, <1>5 DEF AskInv

\* A request of the server is queued behind all others.
LEMMA AskQueued ==
    ASSUME TypeOK, AskInv, server_format_data_request
    PROVE  AskInv'
<1> DEFINE n == asks + 1
<1> PICK f \in Formats : idles' = Append(idles, GetData(n, f))
  BY DEF server_format_data_request
<1>1. /\ DOMAIN idles' = 1 .. Len(idles) + 1
      /\ DOMAIN idles = 1 .. Len(idles) /\ Len(idles) \in Nat
      /\ \A i \in DOMAIN idles : idles'[i] = idles[i]
      /\ idles'[Len(idles) + 1] = GetData(n, f)
  BY DEF TypeOK
<1>2. /\ IsAsk(GetData(n, f)) /\ GetData(n, f).ask = n
      /\ asks \in Nat /\ asks' = n /\ owed' = owed \cup {n}
      /\ UNCHANGED <<getting, format, crossed>>
  BY DEF TypeOK, IsAsk, GetData, server_format_data_request, askFrame
<1>3. \A i \in DOMAIN idles : IsAsk(idles[i]) => idles[i].ask \in Nat /\ idles[i].ask < n
  <2> SUFFICES ASSUME NEW i \in DOMAIN idles, IsAsk(idles[i])
               PROVE  idles[i].ask \in Nat /\ idles[i].ask < n
    OBVIOUS
  <2>1. idles[i] \in Events
    BY DEF TypeOK
  <2>2. idles[i].ask \in Nat
    BY <2>1, EventTypes DEF IsAsk
  <2>3. idles[i].ask <= asks
    BY DEF AskInv
  <2> QED BY <1>2, <2>2, <2>3
<1>4. \A i \in DOMAIN idles' : IsAsk(idles'[i]) => idles'[i].ask <= asks'
  BY <1>1, <1>2, <1>3
<1>5. QueueInOrder => QueueInOrder'
  <2> SUFFICES ASSUME QueueInOrder, NEW i \in DOMAIN idles', NEW j \in DOMAIN idles',
                      i < j, IsAsk(idles'[i]), IsAsk(idles'[j])
               PROVE  idles'[i].ask < idles'[j].ask
    BY DEF QueueInOrder
  <2>1. i \in DOMAIN idles
    BY <1>1
  <2>2. CASE j \in DOMAIN idles
    BY <1>1, <2>1, <2>2 DEF QueueInOrder
  <2>3. CASE j = Len(idles) + 1
    BY <1>1, <1>2, <1>3, <2>1, <2>3
  <2> QED BY <1>1, <2>2, <2>3
<1>6. OwedIsQueued => OwedIsQueued'
  <2> SUFFICES ASSUME OwedIsQueued, NEW ask \in owed'
               PROVE  \/ \E i \in DOMAIN idles' : IsAsk(idles'[i]) /\ idles'[i].ask = ask
                      \/ \E i \in DOMAIN getting' : getting'[i].ask = ask
    BY DEF OwedIsQueued
  <2>1. CASE ask = n
    BY <1>1, <1>2, <2>1
  <2>2. CASE ask \in owed
    BY <1>1, <1>2, <2>2 DEF OwedIsQueued
  <2> QED BY <1>2, <2>1, <2>2
<1>7. ServedIsFirst => ServedIsFirst'
  <2> SUFFICES ASSUME ServedIsFirst, getting # <<>>,
                      NEW i \in DOMAIN idles', IsAsk(idles'[i])
               PROVE  getting[1].ask < idles'[i].ask
    BY <1>2 DEF ServedIsFirst
  <2>1. getting[1].ask \in Nat /\ getting[1].ask < n
    <3>1. 1 \in DOMAIN getting /\ getting[1] \in Frames
      BY DEF TypeOK
    <3>2. getting[1].ask \in Nat
      BY <3>1 DEF Frames
    <3> QED BY <1>2, <3>1, <3>2 DEF AskInv
  <2>2. CASE i \in DOMAIN idles
    BY <1>1, <2>2 DEF ServedIsFirst
  <2>3. CASE i = Len(idles) + 1
    BY <1>1, <1>2, <2>1, <2>3
  <2> QED BY <1>1, <2>2, <2>3
<1>8. \A i \in DOMAIN getting : getting[i].ask <= asks'
  <2> SUFFICES ASSUME NEW i \in DOMAIN getting
               PROVE  getting[i].ask <= asks'
    OBVIOUS
  <2>1. getting[i] \in Frames
    BY DEF TypeOK
  <2>2. getting[i].ask \in Nat /\ getting[i].ask <= asks
    BY <2>1 DEF Frames, AskInv
  <2> QED BY <1>2, <2>2
<1> QED BY <1>2, <1>4, <1>5, <1>6, <1>7, <1>8 DEF AskInv

\* A request taken off the queue is answered at once, or becomes the one served.
LEMMA AskTaken ==
    ASSUME TypeOK, AskInv, get_clipboard_data
    PROVE  /\ AskInv'
           /\ \A ask \in owed \ owed' :
                 crossed' \/ (getting = <<>> /\ \A other \in owed' : ask < other)
<1> DEFINE e == Head(idles)
           frame(from) == [ask |-> e.ask, format |-> e.format, from |-> from]
<1>1. /\ \A i \in DOMAIN idles' : i + 1 \in DOMAIN idles /\ idles'[i] = idles[i + 1]
      /\ \A i \in DOMAIN idles' : i \in Nat
      /\ \A i \in DOMAIN idles : i = 1 \/ (i - 1 \in DOMAIN idles' /\ idles'[i - 1] = idles[i])
      /\ 1 \in DOMAIN idles /\ e = idles[1]
  <2>1. idles # <<>> /\ idles' = Tail(idles) /\ idles \in Seq(Events)
    BY DEF TypeOK, get_clipboard_data
  <2>2. DOMAIN idles = 1 .. Len(idles) /\ Len(idles) \in Nat \ {0} /\ e = idles[1]
    BY <2>1, EmptySeq, LenProperties
  <2>3. /\ DOMAIN idles' = 1 .. Len(idles) - 1
        /\ \A i \in 1 .. Len(idles) - 1 : idles'[i] = idles[i + 1]
    BY <2>1, HeadIdle, LenProperties
  <2> QED BY <2>2, <2>3
<1>2. /\ MainLoop /\ IsAsk(e) /\ e.ask <= asks /\ asks' = asks
      /\ e.ask \in Nat
  <2>1. MainLoop /\ IsAsk(e) /\ asks' = asks /\ e \in Events
    BY HeadIdle DEF get_clipboard_data, IsAsk
  <2>2. e.ask \in Nat
    BY <2>1, EventTypes DEF IsAsk
  <2> QED BY <1>1, <2>1, <2>2 DEF AskInv
<1>3. \A i \in DOMAIN idles' : IsAsk(idles'[i]) => idles'[i].ask <= asks'
  BY <1>1, <1>2 DEF AskInv
<1>4. QueueInOrder => QueueInOrder' /\ \A i \in DOMAIN idles' : IsAsk(idles'[i]) => e.ask < idles'[i].ask
  <2> SUFFICES ASSUME QueueInOrder
               PROVE  QueueInOrder' /\ \A i \in DOMAIN idles' : IsAsk(idles'[i]) => e.ask < idles'[i].ask
    OBVIOUS
  <2>1. QueueInOrder'
    <3> SUFFICES ASSUME NEW i \in DOMAIN idles', NEW j \in DOMAIN idles',
                        i < j, IsAsk(idles'[i]), IsAsk(idles'[j])
                 PROVE  idles'[i].ask < idles'[j].ask
      BY DEF QueueInOrder
    <3>1. i + 1 < j + 1 /\ i + 1 \in DOMAIN idles /\ j + 1 \in DOMAIN idles
      BY <1>1
    <3> QED BY <1>1, <3>1 DEF QueueInOrder
  <2>2. ASSUME NEW i \in DOMAIN idles', IsAsk(idles'[i])
        PROVE  e.ask < idles'[i].ask
    <3>1. 1 < i + 1 /\ i + 1 \in DOMAIN idles /\ idles'[i] = idles[i + 1]
      <4>1. i \in 1 .. Len(idles')
        BY HeadIdle DEF get_clipboard_data, TypeOK
      <4> QED BY <1>1, <4>1
    <3> QED BY <1>1, <1>2, <2>2, <3>1 DEF QueueInOrder
  <2> QED BY <2>1, <2>2
\* Without a crossing, nothing is being served.
<1>5. ASSUME NEW f, SetFormat(f), ~crossed'
      PROVE  /\ getting = <<>> /\ QueueInOrder'
             /\ \A i \in DOMAIN idles' : IsAsk(idles'[i]) => e.ask < idles'[i].ask
             /\ \A ask \in owed : ask = e.ask \/ \E i \in DOMAIN idles' : IsAsk(idles'[i]) /\ idles'[i].ask = ask
  <2>1. ~crossed /\ getting = <<>>
    BY <1>2, <1>5, FreeOrCrossed
  <2>2. QueueInOrder /\ OwedIsQueued
    BY <2>1 DEF AskInv
  <2>3. ASSUME NEW ask \in owed, ask # e.ask
        PROVE  \E i \in DOMAIN idles' : IsAsk(idles'[i]) /\ idles'[i].ask = ask
    <3>1. DOMAIN getting = {}
      BY <2>1
    <3> PICK i \in DOMAIN idles : IsAsk(idles[i]) /\ idles[i].ask = ask
      BY <2>2, <3>1 DEF OwedIsQueued
    <3>2. i # 1
      BY <1>1, <2>3
    <3> QED BY <1>1, <3>2
  <2> QED BY <1>4, <2>1, <2>2, <2>3
<1>6. ASSUME NEW from, NEW f, SetFormat(f), from = "app" => f = e.format,
             getting' = Append(getting, frame(from)), UNCHANGED owed
      PROVE  AskInv'
  <2>1. \A i \in DOMAIN getting' : getting'[i].ask <= asks'
    <3>1. \A i \in DOMAIN getting' : i \in DOMAIN getting \/ getting'[i] = frame(from)
      BY <1>6 DEF TypeOK
    <3>2. \A i \in DOMAIN getting : getting'[i] = getting[i]
      BY <1>6 DEF TypeOK
    <3> QED BY <1>2, <3>1, <3>2 DEF AskInv
  <2>2. ASSUME ~crossed'
        PROVE  QueueInOrder' /\ OwedIsQueued' /\ ServedIsFirst'
    <3>1. DOMAIN getting' = {1} /\ Len(getting') = 1 /\ getting'[1] = frame(from)
      <4>1. getting = <<>> /\ getting' = Append(getting, frame(from))
        BY <1>5, <1>6, <2>2
      <4> QED BY <4>1 DEF TypeOK
    <3>2. format' = f
      BY <1>6 DEF SetFormat
    <3>3. ServedIsFirst'
      BY <1>5, <1>6, <2>2, <3>1, <3>2 DEF ServedIsFirst
    <3>4. OwedIsQueued'
      BY <1>5, <1>6, <2>2, <3>1 DEF OwedIsQueued
    <3> QED BY <1>5, <1>6, <2>2, <3>3, <3>4
  <2> QED BY <1>3, <2>1, <2>2 DEF AskInv
<1>7. ASSUME SetFormat(e.format), owed' = owed \ {e.ask}, UNCHANGED getting
      PROVE  AskInv' /\ (crossed' \/ (getting = <<>> /\ \A other \in owed' : e.ask < other))
  <2>1. \A i \in DOMAIN getting' : getting'[i].ask <= asks'
    BY <1>2, <1>7 DEF AskInv
  <2>2. ASSUME ~crossed'
        PROVE  /\ QueueInOrder' /\ OwedIsQueued' /\ ServedIsFirst'
               /\ getting = <<>> /\ \A other \in owed' : e.ask < other
    <3>1. ServedIsFirst'
      BY <1>5, <1>7, <2>2 DEF ServedIsFirst
    <3>2. OwedIsQueued'
      BY <1>5, <1>7, <2>2 DEF OwedIsQueued
    <3>3. \A other \in owed' : e.ask < other
      BY <1>5, <1>7, <2>2
    <3> QED BY <1>5, <1>7, <2>2, <3>1, <3>2, <3>3
  <2> QED BY <1>3, <2>1, <2>2 DEF AskInv
<1>8. CASE /\ SetFormat(e.format)
           /\ getting' = Append(getting, frame("app")) /\ UNCHANGED owed
  BY <1>6, <1>8
<1>9. CASE /\ SetFormat(e.format) /\ owed' = owed \ {e.ask} /\ UNCHANGED getting
  <2>1. \A ask \in owed \ owed' : ask = e.ask
    BY <1>9
  <2> QED BY <1>7, <1>9, <2>1
<1>10. CASE /\ \E info \in offered : SetFormat(info)
            /\ getting' = Append(getting, frame("paste")) /\ UNCHANGED owed
  <2>1. AskInv'
    <3> PICK info \in offered : SetFormat(info)
      BY <1>10
    <3> QED BY <1>6, <1>10
  <2> QED BY <1>10, <2>1
<1> QED BY <1>8, <1>9, <1>10 DEF get_clipboard_data, SendRequest, Answer

\* The request served is answered.
LEMMA AskServed ==
    ASSUME TypeOK, AskInv, get_clipboard_data_end
    PROVE  /\ AskInv'
           /\ \A ask \in owed \ owed' :
                 \/ crossed'
                 \/ /\ \A other \in owed' : ask < other
                    /\ \A i \in DOMAIN getting : getting[i].from = "app" => format = getting[i].format
<1>1. /\ owed' = owed \ {Last(getting).ask} /\ getting' = Front(getting) /\ getting # <<>>
      /\ UNCHANGED <<idles, format, asks, crossed>>
  BY DEF get_clipboard_data_end, Answer
<1>2. /\ DOMAIN getting' = 1 .. Len(getting) - 1
      /\ \A i \in DOMAIN getting' : i \in DOMAIN getting /\ getting'[i] = getting[i]
      /\ Len(getting') = Len(getting) - 1 /\ Len(getting) \in Nat \ {0}
  <2>1. /\ getting \in Seq(Frames) /\ Len(getting) \in Nat \ {0}
        /\ DOMAIN getting = 1 .. Len(getting)
    BY <1>1, EmptySeq, LenProperties DEF TypeOK
  <2>2. getting' = SubSeq(getting, 1, Len(getting) - 1)
    BY <1>1 DEF Front
  <2>3. /\ DOMAIN getting' = 1 .. Len(getting) - 1 /\ Len(getting') = Len(getting) - 1
        /\ \A i \in 1 .. Len(getting) - 1 : getting'[i] = getting[i]
    BY <2>1, <2>2
  <2> QED BY <2>1, <2>3
<1>3. \A i \in DOMAIN getting' : getting'[i].ask <= asks'
  BY <1>1, <1>2 DEF AskInv
<1>4. ASSUME ~crossed
      PROVE  /\ Len(getting) = 1 /\ getting' = <<>> /\ Last(getting) = getting[1]
             /\ DOMAIN getting = {1}
  <2>1. Len(getting) = 1
    BY <1>2, <1>4 DEF AskInv, ServedIsFirst
  <2>2. Last(getting) = getting[1] /\ DOMAIN getting = {1}
    BY <2>1 DEF Last, TypeOK
  <2>3. getting' = <<>>
    BY <1>1, <2>1 DEF Front, TypeOK
  <2> QED BY <2>1, <2>2, <2>3
<1>5. ASSUME ~crossed
      PROVE  /\ QueueInOrder' /\ OwedIsQueued' /\ ServedIsFirst'
             /\ \A other \in owed' : getting[1].ask < other
             /\ getting[1].from = "app" => format = getting[1].format
  <2>1. QueueInOrder /\ OwedIsQueued /\ ServedIsFirst
    BY <1>5 DEF AskInv
  <2>2. \A ask \in owed' : \E i \in DOMAIN idles : IsAsk(idles[i]) /\ idles[i].ask = ask
    BY <1>1, <1>4, <1>5, <2>1 DEF OwedIsQueued
  <2>3. \A other \in owed' : getting[1].ask < other
    BY <1>1, <2>1, <2>2 DEF ServedIsFirst
  <2>4. QueueInOrder' /\ OwedIsQueued'
    BY <1>1, <2>1, <2>2 DEF QueueInOrder, OwedIsQueued
  <2>5. ServedIsFirst'
    BY <1>4, <1>5 DEF ServedIsFirst
  <2> QED BY <1>1, <2>1, <2>3, <2>4, <2>5 DEF ServedIsFirst
<1>6. AskInv'
  BY <1>1, <1>3, <1>5 DEF AskInv
<1>7. ASSUME NEW ask \in owed \ owed', ~crossed'
      PROVE  /\ \A other \in owed' : ask < other
             /\ \A i \in DOMAIN getting : getting[i].from = "app" => format = getting[i].format
  <2>1. ask = getting[1].ask
    BY <1>1, <1>4, <1>7
  <2> QED BY <1>1, <1>4, <1>5, <1>7, <2>1
<1> QED BY <1>6, <1>7

\* Every step keeps the order, and an answer is given in it.
LEMMA AskStep ==
    ASSUME TypeOK, AskInv, [Next]_vars
    PROVE  /\ AskInv'
           /\ \A ask \in owed \ owed' :
                 \/ crossed'
                 \/ /\ \A other \in owed' : ask < other
                    /\ \A i \in DOMAIN getting : getting[i].from = "app" => format = getting[i].format
<1> USE DEF mainVars, localVars, serverVars
<1>1. CASE \/ convert_response \/ wait_signalled \/ wait_timeout \/ rdp_event_on_clipboard
           \/ local_copy \/ focus_moves \/ rdp_cliprdr_uninit \/ freed \/ UNCHANGED vars
  <2>1. UNCHANGED <<idles, getting, format, asks, owed, crossed>>
    BY <1>1 DEF convert_response, wait_signalled, wait_timeout, rdp_event_on_clipboard,
                local_copy, focus_moves, rdp_cliprdr_uninit, freed, vars, waitFrame
  <2> QED BY <2>1, AskFrame
<1>2. CASE signal_response
  <2>1. ~IsAsk(SetContent(Head(converted)))
    BY DEF IsAsk, SetContent
  <2>2. /\ idles' = Append(idles, SetContent(Head(converted)))
        /\ UNCHANGED <<getting, format, asks, owed, crossed>>
    BY <1>2 DEF signal_response
  <2> QED BY <2>1, <2>2, OtherQueued
<1>3. CASE server_format_data_request
  <2>1. owed \ owed' = {}
    BY <1>3 DEF server_format_data_request
  <2> QED BY <1>3, <2>1, AskQueued
<1>4. CASE server_format_list
  <2>1. UNCHANGED <<getting, format, asks, owed, crossed>>
    BY <1>4 DEF server_format_list
  <2>2. CASE UNCHANGED idles
    BY <2>1, <2>2, AskFrame
  <2>3. CASE \E fs \in SUBSET Formats : idles' = Append(idles, SetData(fs))
    <3> PICK fs \in SUBSET Formats : idles' = Append(idles, SetData(fs))
      BY <2>3
    <3>1. ~IsAsk(SetData(fs))
      BY DEF IsAsk, SetData
    <3> QED BY <2>1, <3>1, OtherQueued
  <2> QED BY <1>4, <2>2, <2>3 DEF server_format_list
<1>5. CASE rdp_cliprdr_request_data
  <2>1. /\ MainLoop /\ UNCHANGED <<getting, idles, asks, owed>>
        /\ \E info \in offered : SetFormat(info)
    BY <1>5 DEF rdp_cliprdr_request_data, SendRequest
  <2> PICK info \in offered : SetFormat(info)
    BY <2>1
  <2>2. ~crossed' => ~crossed /\ getting = <<>>
    BY <2>1, FreeOrCrossed
  <2> QED BY <2>1, <2>2 DEF AskInv, QueueInOrder, OwedIsQueued, ServedIsFirst
<1>6. CASE set_clipboard_data \/ set_clipboard_content
  <2>1. /\ idles # <<>> /\ ~IsAsk(Head(idles)) /\ idles' = Tail(idles)
        /\ UNCHANGED <<getting, format, asks, owed, crossed>>
    BY <1>6 DEF set_clipboard_data, set_clipboard_content, idleFrame, IsAsk
  <2> QED BY <2>1, OtherTaken
<1>7. CASE get_clipboard_data
  BY <1>7, AskTaken
<1>8. CASE get_clipboard_data_end
  BY <1>8, AskServed
<1> QED BY <1>1, <1>2, <1>3, <1>4, <1>5, <1>6, <1>7, <1>8 DEF Next, Channel, Main

LEMMA InitAskInv ==
    ASSUME Init
    PROVE  AskInv
BY DEF Init, AskInv, QueueInOrder, OwedIsQueued, ServedIsFirst

\* Unless a nested loop interfered, the requests of the server are queued and served
\* in their order.
THEOREM AskInvHolds == Spec => []AskInv
<1>1. TypeOK /\ AskInv /\ [Next]_vars => AskInv'
  BY AskStep
<1> QED BY <1>1, InitAskInv, TypeCorrect, PTL DEF Spec

\* An answer of rdp_cliprdr_get_clipboard_data goes to the oldest request of the
\* server and in the format it asked for, unless the main loop nested in it ran
\* something that changed `format`.
THEOREM OnlyNestingCrossesAnswersHolds == Spec => OnlyNestingCrossesAnswers
<1>1. TypeOK /\ AskInv /\ [Next]_vars
        => [\A ask \in owed \ owed' :
               \/ crossed'
               \/ /\ \A other \in owed' : ask < other
                  /\ \A i \in DOMAIN getting :
                        getting[i].from = "app" => format = getting[i].format]_vars
  BY AskStep
<1> QED BY <1>1, TypeCorrect, AskInvHolds, PTL DEF Spec, OnlyNestingCrossesAnswers
=============================================================================
