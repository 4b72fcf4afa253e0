---------------------------- MODULE RdpClipboard ----------------------------
(***************************************************************************)
(* The clipboard shared with an RDP session (src/rdp_viewer/               *)
(* rdp_clipboard.c).                                                       *)
(*                                                                         *)
(* Two threads share one RdpClipboard.  The channel thread of FreeRDP      *)
(* takes the server's messages; what needs GTK it hands to the main thread *)
(* by idle callbacks.  The main thread pastes: it sends a request and      *)
(* blocks until the channel thread signals an answer or a second is over.  *)
(* To answer a request of the server it asks the owner of the local        *)
(* clipboard, and GTK runs the main loop inside of that call.              *)
(*                                                                         *)
(* The requests carry no number: `format` of the structure is all either   *)
(* side remembers of them.  GTK, FreeRDP and the server are external: the  *)
(* server answers the requests it got in their order, at any time.         *)
(***************************************************************************)
EXTENDS Integers, SequencesExt

CONSTANTS
    Formats,        \* the clipboard formats both sides know
    Images,         \* those of them that are images; the others are text
    Windows,        \* windows of the session, one per monitor
    GuestToClient,  \* vdi_session_is_shared_clipboard_g_to_c_permitted()
    ClientToGuest,  \* vdi_session_is_shared_clipboard_c_to_g_permitted()
    MaxPaste,       \* Bound: when there were so many pastes, no application starts one
    MaxAsk,         \* Bound: requests of the server
    MaxCopy         \* Bound: copies made on the server

ASSUME FormatsAssumption == Images \subseteq Formats
ASSUME WindowsAssumption == Windows \in Nat \ {0}
ASSUME PermissionAssumption == GuestToClient \in BOOLEAN /\ ClientToGuest \in BOOLEAN
ASSUME BoundsAssumption == MaxPaste \in Nat /\ MaxAsk \in Nat /\ MaxCopy \in Nat

Kind(f) == IF f \in Images THEN "image" ELSE "text"

VARIABLES
    up,             \* the channel is connected and the structure allocated
    format,         \* clipboard->format
    isTransfered,   \* clipboard->is_transfered
    idles,          \* callbacks queued for the main loop
    wait,           \* the paste the main thread is blocked in, or 0
    getting,        \* the requests of the server being served, the innermost last
    owner,          \* of the local clipboard: "app", "self" (text or image set by
                    \* this program) or "server" (rdp_cliprdr_request_data)
    offered,        \* formats offered while owner = "server"
    selfKind,       \* kind of what this program set while owner = "self"
    changed,        \* an owner-change signal is on its way
    focused,        \* the window that has the focus, or 0
    pastes,         \* requests sent to the server
    pending,        \* those it has not answered, in their order
    answered,       \* the last of them it answered
    converted,      \* the answer the channel thread is working on, or <<>>
    asks,           \* requests the server sent
    owed,           \* those not answered
    copies,         \* copies made on the server
    serverView,     \* whose clipboard the server takes for the current one
    late,           \* history: a paste gave up waiting
    crossed         \* history: the format was changed while a request was served

mainVars == <<wait, getting, idles>>
localVars == <<owner, offered, selfKind, changed, focused>>
serverVars == <<copies, serverView>>
vars == <<up, format, isTransfered, mainVars, localVars, pastes, pending, answered,
          converted, asks, owed, serverVars, late, crossed>>

SetData(fs) == [type |-> "SET_DATA", formats |-> fs]
GetData(ask, f) == [type |-> "GET_DATA", ask |-> ask, format |-> f]
\* kind of the data the answer was converted to; an empty answer has none.
SetContent(kind) == [type |-> "SET_CONTENT", kind |-> kind]
Kinds == {"image", "text", "none"}

Events ==
    {SetData(fs) : fs \in SUBSET Formats}
        \cup {GetData(i, f) : i \in 1 .. MaxAsk, f \in Formats}
        \cup {SetContent(k) : k \in Kinds}

\* A request being served, and where the data come from.
Frames == [ask : 1 .. MaxAsk, format : Formats, from : {"app", "paste"}]

TypeOK ==
    /\ up \in BOOLEAN /\ isTransfered \in BOOLEAN
    /\ format \in Formats
    /\ idles \in Seq(Events)
    /\ wait \in 0 .. pastes
    /\ getting \in Seq(Frames)
    /\ owner \in {"app", "self", "server"} /\ offered \subseteq Formats
    /\ selfKind \in Kinds
    /\ changed \in BOOLEAN /\ focused \in 0 .. Windows
    /\ pastes \in Nat /\ asks \in 0 .. MaxAsk /\ copies \in 0 .. MaxCopy
    /\ pending \in Seq(Nat) /\ owed \subseteq 1 .. asks
    /\ answered \in Nat
    /\ converted \in Seq(Kinds) /\ Len(converted) <= 1
    /\ serverView \in {"server", "client"}
    /\ late \in BOOLEAN /\ crossed \in BOOLEAN

\* rdp_cliprdr_init and rdp_cliprdr_monitor_ready: the first list of formats was sent.
Init ==
    /\ up = TRUE /\ format \in Formats /\ isTransfered = FALSE
    /\ idles = <<>> /\ wait = 0 /\ getting = <<>>
    /\ owner = "app" /\ offered = {} /\ selfKind = "none"
    /\ changed = FALSE /\ focused \in 0 .. Windows
    /\ pastes = 0 /\ pending = <<>> /\ answered = 0 /\ converted = <<>>
    /\ asks = 0 /\ owed = {} /\ copies = 0 /\ serverView = "client"
    /\ late = FALSE /\ crossed = FALSE

\* The main thread runs callbacks unless it is blocked in a paste, or about to answer
\* after one.
MainLoop == up /\ wait = 0 /\ (getting # <<>> => Last(getting).from = "app")

\* The one place requests are remembered.  A change under a request being served is
\* noted: it is what the answer will be converted to.
SetFormat(f) ==
    /\ format' = f
    /\ crossed' = (crossed \/ \E i \in DOMAIN getting : getting[i].from = "app")

-----------------------------------------------------------------------------
(* Pasting from the server.                                                *)

\* A mutant of SendRequest: the answer of an earlier paste still counts.
SendRequestKeepsTransfered(info) ==
    /\ SetFormat(info)
    /\ pastes' = pastes + 1
    /\ pending' = Append(pending, pastes + 1)
    /\ UNCHANGED isTransfered
    /\ wait' = pastes + 1

\* rdp_cliprdr_request_data up to its wait.  Its look at waiting_for_transfered_data
\* never finds it set: who waits is the main thread itself.
SendRequest(info) ==
    /\ SetFormat(info)
    /\ pastes' = pastes + 1
    /\ pending' = Append(pending, pastes + 1)
    /\ isTransfered' = FALSE
    /\ wait' = pastes + 1

\* An application pastes while the server's clipboard is the current one.
rdp_cliprdr_request_data ==
    /\ MainLoop /\ pastes < MaxPaste
    /\ owner = "server"
    /\ \E info \in offered : SendRequest(info)
    /\ UNCHANGED <<up, getting, idles, localVars, answered, converted, asks, owed,
                   serverVars, late>>

waitFrame == <<up, format, isTransfered, getting, idles, localVars, pastes, pending, answered,
               converted, asks, owed, serverVars, crossed>>

\* The signal of the channel thread ends the wait.
wait_signalled ==
    /\ up /\ wait # 0 /\ isTransfered
    /\ wait' = 0
    /\ UNCHANGED <<waitFrame, late>>

\* A mutant of wait_timeout: the wait has no limit.
WaitForever ==
    /\ up /\ wait # 0 /\ isTransfered
    /\ wait' = 0
    /\ late' = TRUE
    /\ UNCHANGED waitFrame

\* CLIPBOARD_TRANSFER_WAIT_TIME is over.
wait_timeout ==
    /\ up /\ wait # 0 /\ ~isTransfered
    /\ wait' = 0
    /\ late' = TRUE
    /\ UNCHANGED waitFrame

-----------------------------------------------------------------------------
(* The channel thread.                                                     *)

\* rdp_cliprdr_server_format_data_response, before it takes the mutex: the answer
\* is converted by what `format` says now; an empty one, or an image that cannot be
\* read, has no output.
convert_response ==
    /\ up /\ converted = <<>> /\ pending # <<>>
    /\ \E k \in {Kind(format), "none"} : converted' = <<k>>
    /\ answered' = Head(pending)
    /\ pending' = Tail(pending)
    /\ UNCHANGED <<up, format, isTransfered, mainVars, localVars, pastes, asks, owed,
                   serverVars, late, crossed>>

\* The rest of it, under the mutex: who waits is woken, and the content goes to the
\* main loop.
signal_response ==
    /\ up /\ converted # <<>>
    /\ isTransfered' = TRUE
    /\ idles' = Append(idles, SetContent(Head(converted)))
    /\ converted' = <<>>
    /\ UNCHANGED <<up, format, wait, getting, localVars, pastes, pending, answered, asks,
                   owed, serverVars, late, crossed>>

askFrame == <<up, format, isTransfered, wait, getting, localVars, pastes, pending, answered,
              converted, copies, serverView, late, crossed>>

\* A mutant of server_format_data_request: the callback overtakes the queued ones.
DataRequestFirst ==
    /\ up /\ converted = <<>> /\ serverView = "client" /\ asks < MaxAsk
    /\ asks' = asks + 1
    /\ owed' = owed \cup {asks + 1}
    /\ \E f \in Formats : idles' = <<GetData(asks + 1, f)>> \o idles
    /\ UNCHANGED askFrame

server_format_data_request ==
    /\ up /\ converted = <<>> /\ serverView = "client" /\ asks < MaxAsk
    /\ asks' = asks + 1
    /\ owed' = owed \cup {asks + 1}
    /\ \E f \in Formats : idles' = Append(idles, GetData(asks + 1, f))
    /\ UNCHANGED askFrame

\* Someone copies on the server: its list of formats comes.
server_format_list ==
    /\ up /\ converted = <<>> /\ copies < MaxCopy
    /\ copies' = copies + 1
    /\ serverView' = "server"
    /\ IF GuestToClient
       THEN \E fs \in SUBSET Formats : idles' = Append(idles, SetData(fs))
       ELSE UNCHANGED idles
    /\ UNCHANGED <<up, format, isTransfered, wait, getting, localVars, pastes, pending,
                   answered, converted, asks, owed, late, crossed>>

-----------------------------------------------------------------------------
(* The callbacks in the main loop, which may be one that runs inside of    *)
(* get_clipboard_data.                                                     *)

idleFrame == <<up, pastes, pending, answered, converted, asks, copies, serverView, late, focused>>

\* rdp_cliprdr_set_clipboard_data: an empty table of targets leaves the clipboard.
set_clipboard_data ==
    /\ MainLoop /\ idles # <<>> /\ Head(idles).type = "SET_DATA"
    /\ idles' = Tail(idles)
    /\ IF Head(idles).formats # {}
       THEN owner' = "server" /\ offered' = Head(idles).formats /\ changed' = ClientToGuest
       ELSE UNCHANGED <<owner, offered, changed>>
    /\ UNCHANGED <<idleFrame, format, isTransfered, wait, getting, selfKind, owed, crossed>>

\* rdp_cliprdr_set_clipboard_content: the data, taken for what `format` says now,
\* becomes the content of the local clipboard.
set_clipboard_content ==
    /\ MainLoop /\ idles # <<>> /\ Head(idles).type = "SET_CONTENT"
    /\ idles' = Tail(idles)
    /\ IF Head(idles).kind # "none"
       THEN owner' = "self" /\ selfKind' = Kind(format) /\ offered' = {}
            /\ changed' = ClientToGuest
       ELSE UNCHANGED <<owner, selfKind, offered, changed>>
    /\ UNCHANGED <<idleFrame, format, isTransfered, wait, getting, owed, crossed>>

\* A mutant of Answer: without data nothing is sent.
AnswerOnlyData(ask, hasData) == owed' = IF hasData THEN owed \ {ask} ELSE owed

\* ClientFormatDataResponse, with the data or with CB_RESPONSE_FAIL.
Answer(ask, hasData) == owed' = owed \ {ask}

\* rdp_cliprdr_get_clipboard_data up to the answer of the clipboard's owner: another
\* program is waited for in a nested main loop; what this program set is there at
\* once; and while the server's clipboard is the current one, GTK pastes from it,
\* which blocks, and has no data in the end.
get_clipboard_data ==
    /\ MainLoop /\ idles # <<>> /\ Head(idles).type = "GET_DATA"
    /\ idles' = Tail(idles)
    /\ LET ask == Head(idles).ask
           f == Head(idles).format
           paste == {info \in offered : Kind(info) = Kind(f)}
       IN \/ /\ owner = "app"
             /\ SetFormat(f)
             /\ getting' = Append(getting, [ask |-> ask, format |-> f, from |-> "app"])
             /\ UNCHANGED <<isTransfered, wait, owed, pastes, pending>>
          \/ /\ owner = "self" \/ (owner = "server" /\ paste = {})
             /\ SetFormat(f)
             /\ Answer(ask, owner = "self" /\ selfKind = Kind(f))
             /\ UNCHANGED <<getting, isTransfered, wait, pastes, pending>>
          \/ /\ owner = "server"
             /\ \E info \in paste : SendRequest(info)
             /\ getting' = Append(getting, [ask |-> ask, format |-> f, from |-> "paste"])
             /\ UNCHANGED owed
    /\ UNCHANGED <<up, answered, converted, asks, serverVars, late, localVars>>

\* The innermost nested loop ends, and get_clipboard_data answers: the data is
\* converted by what `format` says now.
get_clipboard_data_end ==
    /\ up /\ wait = 0 /\ getting # <<>>
    /\ \E hasData \in BOOLEAN :
          /\ hasData => Last(getting).from = "app"
          /\ Answer(Last(getting).ask, hasData)
    /\ getting' = Front(getting)
    /\ UNCHANGED <<up, format, isTransfered, wait, idles, localVars, pastes, pending, answered,
                   converted, asks, serverVars, late, crossed>>

\* Another program copies.
local_copy ==
    /\ up /\ owner # "app"
    /\ owner' = "app" /\ offered' = {}
    /\ changed' = ClientToGuest
    /\ UNCHANGED <<up, format, isTransfered, mainVars, selfKind, focused, pastes, pending,
                   answered, converted, asks, owed, serverVars, late, crossed>>

\* The focus moves to another window of the session or away from all of them.
focus_moves ==
    /\ up
    /\ focused' \in (0 .. Windows) \ {focused}
    /\ UNCHANGED <<up, format, isTransfered, mainVars, owner, offered, selfKind, changed, pastes,
                   pending, answered, converted, asks, owed, serverVars, late, crossed>>

\* rdp_event_on_clipboard: the loop over the windows keeps what the last one says.
rdp_event_on_clipboard ==
    /\ MainLoop /\ changed
    /\ changed' = FALSE
    /\ serverView' = IF focused # Windows THEN "client" ELSE serverView
    /\ UNCHANGED <<up, format, isTransfered, mainVars, owner, offered, selfKind, focused, pastes,
                   pending, answered, converted, asks, owed, copies, late, crossed>>

\* rdp_cliprdr_uninit in the thread of the session, when the channel thread has ended.
\* The structure is freed, whatever callbacks and waits refer to it: what the program
\* does from here on is undefined, and the model ends.
rdp_cliprdr_uninit ==
    /\ up /\ converted = <<>>
    /\ up' = FALSE
    /\ UNCHANGED <<format, isTransfered, mainVars, localVars, pastes, pending, answered,
                   converted, asks, owed, serverVars, late, crossed>>

freed == ~up /\ UNCHANGED vars

Channel ==
    \/ convert_response \/ signal_response
    \/ server_format_data_request \/ server_format_list

Main ==
    \/ rdp_cliprdr_request_data \/ wait_signalled \/ wait_timeout
    \/ set_clipboard_data \/ set_clipboard_content
    \/ get_clipboard_data \/ get_clipboard_data_end \/ rdp_event_on_clipboard

Next == Channel \/ Main \/ local_copy \/ focus_moves \/ rdp_cliprdr_uninit \/ freed

\* The wait is limited, the main loop runs its callbacks, and the owner of the local
\* clipboard answers or GTK gives up on it.
Fairness ==
    /\ WF_vars(wait_signalled \/ wait_timeout)
    /\ WF_vars(set_clipboard_data \/ set_clipboard_content \/ get_clipboard_data)
    /\ WF_vars(get_clipboard_data_end)

Spec == Init /\ [][Next]_vars /\ Fairness

-----------------------------------------------------------------------------
(* Properties.                                                             *)

\* The answer that ends a wait is the answer to the request that waits, unless an
\* earlier paste gave up waiting and its answer came late.
WaitEndsByOwnAnswer == [][wait # 0 /\ wait' = 0 /\ isTransfered => answered = wait \/ late]_vars

\* The server takes an answer for the one to its oldest request: answers come in the
\* order of the requests, and in the format asked for, unless a nested loop served
\* another request or a paste in between.
OnlyNestingCrossesAnswers ==
    [][\A ask \in owed \ owed' :
          \/ crossed'
          \/ /\ \A other \in owed' : ask < other
             /\ \A i \in DOMAIN getting : getting[i].from = "app" => format = getting[i].format]_vars

\* The main thread never stays blocked in a paste, not even when the server waits for
\* the client's data while the client asks it for them.
MainThreadReturns == wait # 0 ~> wait = 0 \/ ~up

\* Every request of the server is answered, with data or without.
EveryAskAnswered ==
    \A i \in 1 .. MaxAsk : i \in owed ~> i \notin owed \/ ~up

=============================================================================
