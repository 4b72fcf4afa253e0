------------------------ MODULE VirtViewerApp_proofs ------------------------
(***************************************************************************)
(* What VirtViewerApp keeps for every set of machines, every limit of      *)
(* tries and any number of channels.                                       *)
(*                                                                         *)
(* The properties about windows and the broker rest on two facts the code  *)
(* never states: a session with channels means that the application is     *)
(* active (LinkOK), and the viewer runs beside the login window or the     *)
(* selector only if a try was pending at a logout (WindowOK).              *)
(***************************************************************************)
EXTENDS VirtViewerApp, TLAPS

LinkOK ==
    /\ session \notin {"none", "idle"} => active
    /\ connected => active
    /\ session \in {"connecting", "open", "broken", "closing"} => channelCount # 0
    /\ channelCount <= live

WindowOK ==
    /\ authActive <=> ~loggedIn
    /\ (authActive \/ managerActive) /\ (active \/ reconnectPoll) => stray
    /\ ~loggedIn /\ managerActive => stray

\* What a step may leave of the session's and the application's variables.
RunTypes ==
    /\ session \in Links /\ passTry \in {0, 1}
    /\ live \in 0 .. MaxChannels /\ channelCount \in 0 .. MaxChannels
    /\ active \in BOOLEAN /\ connected \in BOOLEAN
    /\ told \in {"nothing", "connected", "disconnected"}
    /\ polling \in BOOLEAN /\ reconnectPoll \in BOOLEAN /\ connTry \in 0 .. MaxConnTry

IInv ==
    /\ TypeOK
    /\ LinkOK
    /\ WindowOK
    /\ NeverWindowless
    /\ ShowsRequestedVm
    /\ BrokerKnowsConnection

-----------------------------------------------------------------------------
LEMMA Bounds ==
    /\ 0 \in 0 .. MaxConnTry
    /\ 0 \in 0 .. MaxChannels /\ 1 \in 0 .. MaxChannels
BY MaxConnTryAssumption, MaxChannelsAssumption

LEMMA InitInv ==
    ASSUME Init
    PROVE  IInv
<1>1. /\ session \in Links /\ passTry \in {0, 1} /\ dialog \in {"none", "conn_error", "auth", "proxy"}
      /\ live \in 0 .. MaxChannels /\ channelCount \in 0 .. MaxChannels /\ connTry \in 0 .. MaxConnTry
      /\ target \in Vms \cup {NoVm} /\ sessionVm \in Vms \cup {NoVm}
      /\ told \in {"nothing", "connected", "disconnected"}
  BY Bounds DEF Init, Links
<1>2. TypeOK
  BY <1>1 DEF Init, TypeOK
<1>3. LinkOK /\ BrokerKnowsConnection
  BY DEF Init, LinkOK, BrokerKnowsConnection
<1>4. WindowOK /\ NeverWindowless /\ ShowsRequestedVm
  BY DEF Init, WindowOK, NeverWindowless, ShowsRequestedVm
<1> QED BY <1>2, <1>3, <1>4 DEF IInv

\* A try, from the start or from the timer.
LEMMA ConnectAttemptFacts ==
    ASSUME IInv, NEW vm \in Vms \cup {NoVm}, ConnectAttempt(vm),
           polling' \in BOOLEAN, UNCHANGED <<connTry, told>>
    PROVE  /\ RunTypes' /\ LinkOK' /\ BrokerKnowsConnection'
           /\ cancelled' \in BOOLEAN /\ sessionVm' \in Vms \cup {NoVm}
           /\ ~reconnectPoll'
           /\ (active' = active /\ sessionVm' = sessionVm) \/ (~active /\ sessionVm' = vm)
           /\ active' \/ session' = "idle"
<1>1. RunTypes'
  <2>1. /\ session' \in Links /\ passTry' \in {0, 1}
        /\ live' \in 0 .. MaxChannels /\ channelCount' \in 0 .. MaxChannels
    BY Bounds DEF IInv, TypeOK, Links, ConnectAttempt, Activate, linkVars
  <2>2. active' \in BOOLEAN /\ connected' \in BOOLEAN /\ reconnectPoll' \in BOOLEAN
    BY DEF IInv, TypeOK, ConnectAttempt, Activate, linkVars
  <2>3. /\ told' \in {"nothing", "connected", "disconnected"}
        /\ polling' \in BOOLEAN /\ connTry' \in 0 .. MaxConnTry
    BY DEF IInv, TypeOK
  <2> QED BY <2>1, <2>2, <2>3 DEF RunTypes
<1>2. LinkOK' /\ BrokerKnowsConnection'
  BY DEF IInv, TypeOK, Links, LinkOK, ConnectAttempt, Activate, linkVars, BrokerKnowsConnection
<1>3. cancelled' \in BOOLEAN /\ sessionVm' \in Vms \cup {NoVm} /\ ~reconnectPoll'
  BY DEF IInv, TypeOK, ConnectAttempt, Activate
<1>4. (active' = active /\ sessionVm' = sessionVm) \/ (~active /\ sessionVm' = vm)
  BY DEF ConnectAttempt, Activate
<1>5. active' \/ session' = "idle"
  BY DEF IInv, TypeOK, Links, LinkOK, ConnectAttempt, Activate, linkVars
<1> QED BY <1>1, <1>2, <1>3, <1>4, <1>5

\* Deactivation lets go of the session and settles the account with the broker.
LEMMA DeactivateFacts ==
    ASSUME IInv, Deactivate
    PROVE  /\ session' \in Links /\ passTry' \in {0, 1}
           /\ live' \in 0 .. MaxChannels /\ channelCount' \in 0 .. MaxChannels
           /\ active' = FALSE /\ connected' = FALSE
           /\ told' \in {"nothing", "connected", "disconnected"}
           /\ LinkOK' /\ BrokerKnowsConnection'
<1>1. /\ session' \in Links /\ passTry' \in {0, 1}
      /\ live' \in 0 .. MaxChannels /\ channelCount' \in 0 .. MaxChannels
  BY Bounds DEF IInv, TypeOK, Links, Deactivate, linkVars
<1>2. active' = FALSE /\ connected' = FALSE
  BY DEF IInv, TypeOK, LinkOK, Deactivate
<1>3. told' \in {"nothing", "connected", "disconnected"} /\ BrokerKnowsConnection'
  BY <1>2 DEF IInv, TypeOK, Deactivate, BrokerKnowsConnection
<1>4. LinkOK'
  BY <1>2 DEF IInv, TypeOK, LinkOK, Deactivate, linkVars
<1> QED BY <1>1, <1>2, <1>3, <1>4

\* A stop ends an active viewer with every try of it, and does nothing to another.
LEMMA StopFacts ==
    ASSUME IInv, StopIfActive
    PROVE  /\ RunTypes' /\ LinkOK' /\ BrokerKnowsConnection'
           /\ active' = FALSE
           /\ reconnectPoll' => reconnectPoll /\ ~active
           /\ ~active => shown' = shown
           /\ shown' \in BOOLEAN
<1>1. CASE active
  <2>1. Deactivate /\ polling' = FALSE /\ connTry' = 0 /\ reconnectPoll' = FALSE /\ shown' = FALSE
    BY <1>1 DEF StopIfActive
  <2>2. RunTypes'
    BY <2>1, DeactivateFacts, Bounds DEF RunTypes
  <2> QED BY <1>1, <2>1, <2>2, DeactivateFacts
<1>2. CASE ~active
  <2>1. UNCHANGED <<shown, polling, connTry, reconnectPoll, linkVars, told, connected, active>>
    BY <1>2 DEF StopIfActive
  <2>2. RunTypes' /\ LinkOK' /\ BrokerKnowsConnection'
    BY <2>1 DEF IInv, TypeOK, RunTypes, LinkOK, BrokerKnowsConnection, linkVars
  <2>3. active' = FALSE /\ shown' \in BOOLEAN
    BY <1>2, <2>1 DEF IInv, TypeOK
  <2> QED BY <1>2, <2>1, <2>2, <2>3
<1> QED BY <1>1, <1>2

-----------------------------------------------------------------------------
Boxes == {"none", "conn_error", "auth", "proxy"}

\* The types of what RunTypes leaves out.
RestTypes ==
    /\ cancelled \in BOOLEAN
    /\ target \in Vms \cup {NoVm} /\ sessionVm \in Vms \cup {NoVm}
    /\ shown \in BOOLEAN /\ ask \in BOOLEAN /\ dialog \in Boxes
    /\ authActive \in BOOLEAN /\ managerActive \in BOOLEAN
    /\ loggedIn \in BOOLEAN /\ stray \in BOOLEAN /\ quit \in BOOLEAN

LEMMA TypesSplit ==
    TypeOK <=> RunTypes /\ RestTypes
BY DEF TypeOK, RunTypes, RestTypes, Boxes

LEMMA TypesJoin ==
    ASSUME RunTypes', RestTypes'
    PROVE  TypeOK'
BY DEF TypeOK, RunTypes, RestTypes, Boxes

\* A stop with one of its two signals: whatever it ends, a window or the end of the
\* application follows.
LEMMA StopKeepsInv ==
    ASSUME IInv, NEW signal \in {"job-finished", "quit-requested"},
           virt_viewer_app_stop(signal),
           cancelled' \in BOOLEAN, ask' \in BOOLEAN, dialog' \in Boxes,
           UNCHANGED <<target, sessionVm, authActive, loggedIn, stray>>
    PROVE  IInv'
<1> USE DEF virt_viewer_app_stop
<1>1. /\ RunTypes' /\ LinkOK' /\ BrokerKnowsConnection'
      /\ active' = FALSE
      /\ reconnectPoll' => reconnectPoll /\ ~active
      /\ ~active => shown' = shown
      /\ shown' \in BOOLEAN
  BY StopFacts
<1>2. TypeOK'
  <2>1. RestTypes
    BY TypesSplit DEF IInv
  <2>2. managerActive' \in BOOLEAN /\ quit' \in BOOLEAN
    BY <2>1 DEF RestTypes
  <2>3. RestTypes'
    BY <1>1, <2>1, <2>2 DEF RestTypes
  <2> QED BY <1>1, <2>3, TypesJoin
<1>3. WindowOK'
  <2>1. managerActive' => managerActive \/ active
    OBVIOUS
  <2>2. ~active => (managerActive' <=> managerActive)
    OBVIOUS
  <2> QED BY <1>1, <2>1, <2>2 DEF IInv, WindowOK
<1>4. NeverWindowless'
  <2>1. active => managerActive' \/ quit'
    OBVIOUS
  <2>2. (managerActive => managerActive') /\ (quit => quit')
    OBVIOUS
  <2> QED BY <1>1, <2>1, <2>2 DEF IInv, NeverWindowless
<1>5. ShowsRequestedVm'
  BY <1>1 DEF ShowsRequestedVm
<1> QED BY <1>1, <1>2, <1>3, <1>4, <1>5 DEF IInv

\* The end of a session: a try is scheduled, a box reports it, or the viewer stops.
LEMMA DisconnectedKeepsInv ==
    ASSUME IInv, session \in {"connecting", "open", "broken", "closing"},
           Disconnected, UNCHANGED endFrame
    PROVE  IInv'
<1> USE DEF endFrame
<1>1. active /\ TypeOK /\ RestTypes /\ RunTypes
  BY TypesSplit DEF IInv, LinkOK
<1>2. CASE ~connected /\ ~cancelled /\ polling /\ connTry < MaxConnTry
  <2>1. /\ Deactivate
        /\ connTry' = connTry + 1 /\ reconnectPoll' = TRUE
        /\ UNCHANGED <<polling, shown, dialog, managerActive, quit>>
    BY <1>2 DEF Disconnected
  <2>2. connTry' \in 0 .. MaxConnTry
    BY <1>1, <1>2, <2>1, MaxConnTryAssumption DEF TypeOK
  <2>3. RunTypes'
    BY <1>1, <2>1, <2>2, DeactivateFacts DEF RunTypes
  <2>4. RestTypes'
    BY <1>1, <2>1 DEF RestTypes
  <2>5. WindowOK' /\ NeverWindowless'
    BY <1>1, <2>1, DeactivateFacts DEF IInv, WindowOK, NeverWindowless
  <2>6. ShowsRequestedVm'
    BY <2>1, DeactivateFacts DEF ShowsRequestedVm
  <2> QED BY <2>1, <2>3, <2>4, <2>5, <2>6, DeactivateFacts, TypesJoin DEF IInv
<1>3. CASE ~connected /\ ~cancelled /\ ~(polling /\ connTry < MaxConnTry)
  <2>1. ReportConnError
    BY <1>3 DEF Disconnected
  <2> USE DEF ReportConnError
  <2>2. RunTypes'
    <3>1. session' \in Links /\ live' \in 0 .. MaxChannels /\ channelCount' \in 0 .. MaxChannels
      BY <2>1, Bounds DEF Links
    <3> QED BY <1>1, <2>1, <3>1 DEF RunTypes
  <2>3. RestTypes'
    BY <1>1, <2>1 DEF RestTypes, Boxes
  <2>4. LinkOK'
    BY <1>1, <2>1 DEF IInv, LinkOK
  <2>5. WindowOK' /\ NeverWindowless' /\ ShowsRequestedVm' /\ BrokerKnowsConnection'
    BY <2>1 DEF IInv, WindowOK, NeverWindowless, ShowsRequestedVm, BrokerKnowsConnection
  <2> QED BY <2>2, <2>3, <2>4, <2>5, TypesJoin DEF IInv
<1>4. CASE connected \/ cancelled
  <2>1. virt_viewer_app_stop("job-finished") /\ UNCHANGED dialog
    BY <1>4 DEF Disconnected
  <2> QED BY <1>1, <2>1, StopKeepsInv DEF RestTypes
<1> QED BY <1>2, <1>3, <1>4

\* What counts a channel out.
LEMMA CountOutKeepsInv ==
    ASSUME IInv, session \in {"open", "broken", "closing"},
           NEW there \in {"broken", "closing"}, NEW left \in {live, live - 1},
           left >= channelCount - 1, left \in 0 .. MaxChannels,
           CountChannelOut(there, left), UNCHANGED endFrame
    PROVE  IInv'
<1>1. active /\ TypeOK /\ RestTypes /\ RunTypes /\ channelCount # 0
  BY TypesSplit DEF IInv, LinkOK
<1>2. CASE channelCount = 1
  BY <1>2, DisconnectedKeepsInv DEF CountChannelOut
<1>3. CASE channelCount # 1
  <2>1. /\ channelCount' = channelCount - 1 /\ session' = there /\ live' = left
        /\ UNCHANGED <<passTry, told, connected, active, connTry, polling, reconnectPoll,
                       shown, dialog, managerActive, quit>>
    BY <1>3 DEF CountChannelOut
  <2>2. channelCount' \in 0 .. MaxChannels /\ channelCount' # 0 /\ channelCount' <= live'
    BY <1>1, <1>3, <2>1, MaxChannelsAssumption DEF TypeOK
  <2>3. session' \in Links
    BY <2>1 DEF Links
  <2>4. RunTypes'
    BY <1>1, <2>1, <2>2, <2>3 DEF RunTypes
  <2>5. RestTypes'
    BY <1>1, <2>1 DEF RestTypes, endFrame
  <2>6. LinkOK'
    BY <1>1, <2>1, <2>2 DEF IInv, LinkOK
  <2>7. WindowOK' /\ NeverWindowless' /\ ShowsRequestedVm' /\ BrokerKnowsConnection'
    BY <2>1 DEF IInv, WindowOK, NeverWindowless, ShowsRequestedVm, BrokerKnowsConnection, endFrame
  <2> QED BY <2>4, <2>5, <2>6, <2>7, TypesJoin DEF IInv
<1> QED BY <1>2, <1>3

-----------------------------------------------------------------------------
(* The actions.                                                            *)

LEMMA SpiceInv ==
    ASSUME IInv, Spice
    PROVE  IInv'
<1>0. TypeOK /\ RestTypes /\ RunTypes
  BY TypesSplit DEF IInv
<1>1. CASE main_channel_opened
  <2> USE <1>1 DEF main_channel_opened
  <2>1. RunTypes'
    BY <1>0, Bounds DEF RunTypes, Links
  <2>2. RestTypes'
    BY <1>0 DEF RestTypes, boxVars, loginVars
  <2>3. LinkOK' /\ BrokerKnowsConnection'
    BY <1>0 DEF IInv, LinkOK, BrokerKnowsConnection
  <2>4. WindowOK' /\ NeverWindowless' /\ ShowsRequestedVm'
    BY DEF IInv, WindowOK, NeverWindowless, ShowsRequestedVm, loginVars
  <2> QED BY <2>1, <2>2, <2>3, <2>4, TypesJoin DEF IInv
<1>2. CASE main_channel_connect_error
  BY <1>2, DisconnectedKeepsInv DEF main_channel_connect_error
<1>3. CASE main_channel_auth_error
  <2> USE <1>3 DEF main_channel_auth_error
  <2>1. session' \in Links /\ passTry' \in {0, 1} /\ dialog' \in Boxes
    BY <1>0 DEF RunTypes, RestTypes, Links, Boxes
  <2>2. RunTypes'
    BY <1>0, <2>1 DEF RunTypes, appVars, vmVars
  <2>3. RestTypes'
    BY <1>0, <2>1 DEF RestTypes, appVars, vmVars, loginVars
  <2>4. LinkOK'
    BY <1>0 DEF IInv, LinkOK, appVars
  <2>5. WindowOK' /\ NeverWindowless' /\ ShowsRequestedVm' /\ BrokerKnowsConnection'
    BY DEF IInv, WindowOK, NeverWindowless, ShowsRequestedVm, BrokerKnowsConnection,
           appVars, vmVars, loginVars
  <2> QED BY <2>2, <2>3, <2>4, <2>5, TypesJoin DEF IInv
<1>4. CASE proxy_needs_auth
  <2> USE <1>4 DEF proxy_needs_auth
  <2>1. RunTypes' /\ RestTypes'
    BY <1>0 DEF RunTypes, RestTypes, Boxes, linkVars, appVars, vmVars, loginVars
  <2>2. LinkOK' /\ WindowOK' /\ NeverWindowless' /\ ShowsRequestedVm' /\ BrokerKnowsConnection'
    BY DEF IInv, LinkOK, WindowOK, NeverWindowless, ShowsRequestedVm, BrokerKnowsConnection,
           linkVars, appVars, vmVars, loginVars
  <2> QED BY <2>1, <2>2, TypesJoin DEF IInv
<1>5. CASE channel_new
  <2> USE <1>5 DEF channel_new
  <2>1. /\ live' \in 0 .. MaxChannels /\ channelCount' \in 0 .. MaxChannels
        /\ channelCount' # 0 /\ channelCount' <= live'
    BY <1>0, MaxChannelsAssumption DEF IInv, TypeOK, LinkOK
  <2>2. RunTypes' /\ RestTypes'
    BY <1>0, <2>1 DEF RunTypes, RestTypes, appVars, vmVars, boxVars, loginVars
  <2>3. LinkOK'
    BY <2>1 DEF IInv, LinkOK, appVars
  <2>4. WindowOK' /\ NeverWindowless' /\ ShowsRequestedVm' /\ BrokerKnowsConnection'
    BY DEF IInv, WindowOK, NeverWindowless, ShowsRequestedVm, BrokerKnowsConnection,
           appVars, vmVars, loginVars
  <2> QED BY <2>2, <2>3, <2>4, TypesJoin DEF IInv
<1>6. CASE main_channel_error
  <2>1. live >= channelCount - 1 /\ live \in 0 .. MaxChannels
    BY <1>0 DEF IInv, TypeOK, LinkOK
  <2> QED BY <1>6, <2>1, CountOutKeepsInv DEF main_channel_error
<1>7. CASE main_channel_closed
  <2> USE <1>7 DEF main_channel_closed
  <2>1. RunTypes' /\ RestTypes'
    BY <1>0 DEF RunTypes, RestTypes, Links, appVars, vmVars, boxVars, loginVars
  <2>2. LinkOK'
    BY DEF IInv, LinkOK, appVars
  <2>3. WindowOK' /\ NeverWindowless' /\ ShowsRequestedVm' /\ BrokerKnowsConnection'
    BY DEF IInv, WindowOK, NeverWindowless, ShowsRequestedVm, BrokerKnowsConnection,
           appVars, vmVars, loginVars
  <2> QED BY <2>1, <2>2, <2>3, TypesJoin DEF IInv
<1>8. CASE channel_destroyed
  <2>1. live - 1 >= channelCount - 1 /\ live - 1 \in 0 .. MaxChannels
    BY <1>0, <1>8, MaxChannelsAssumption DEF IInv, TypeOK, LinkOK, channel_destroyed
  <2> QED BY <1>8, <2>1, CountOutKeepsInv DEF channel_destroyed
<1> QED BY <1>1, <1>2, <1>3, <1>4, <1>5, <1>6, <1>7, <1>8 DEF Spice

\* The start of a machine, and the try the timer makes.
LEMMA StartInv ==
    ASSUME IInv, NEW vm \in Vms, virt_viewer_app_instant_start(vm)
    PROVE  IInv' /\ (active' \/ session' = "idle")
<1> USE DEF virt_viewer_app_instant_start
<1>1. /\ RunTypes' /\ LinkOK' /\ BrokerKnowsConnection'
      /\ cancelled' \in BOOLEAN /\ sessionVm' \in Vms \cup {NoVm}
      /\ ~reconnectPoll'
      /\ (active' = active /\ sessionVm' = sessionVm) \/ (~active /\ sessionVm' = vm)
      /\ active' \/ session' = "idle"
  BY ConnectAttemptFacts
<1>2. TypeOK /\ RestTypes
  BY TypesSplit DEF IInv
<1>3. RestTypes'
  <2>1. stray' \in BOOLEAN
    BY <1>2 DEF TypeOK
  <2> QED BY <1>1, <1>2, <2>1 DEF RestTypes, boxVars
<1>4. WindowOK' /\ NeverWindowless'
  BY DEF IInv, WindowOK, NeverWindowless
<1>5. ShowsRequestedVm'
  <2>1. CASE active
    BY <2>1 DEF IInv, WindowOK, ShowsRequestedVm
  <2>2. CASE ~active
    BY <1>1, <1>2, <2>2 DEF TypeOK, ShowsRequestedVm
  <2> QED BY <2>1, <2>2
<1> QED BY <1>1, <1>3, <1>4, <1>5, TypesJoin DEF IInv

LEMMA TimerInv ==
    ASSUME IInv, reconnect_timeout
    PROVE  IInv'
<1> USE DEF reconnect_timeout
<1>1. TypeOK /\ RestTypes
  BY TypesSplit DEF IInv
<1>2. polling' \in BOOLEAN /\ target \in Vms \cup {NoVm}
  BY <1>1 DEF TypeOK
<1>3. /\ RunTypes' /\ LinkOK' /\ BrokerKnowsConnection'
      /\ cancelled' \in BOOLEAN /\ sessionVm' \in Vms \cup {NoVm}
      /\ ~reconnectPoll'
      /\ (active' = active /\ sessionVm' = sessionVm) \/ (~active /\ sessionVm' = target)
  BY <1>2, ConnectAttemptFacts
<1>4. RestTypes'
  BY <1>1, <1>3 DEF RestTypes, boxVars, loginVars
<1>5. WindowOK' /\ NeverWindowless'
  BY <1>3 DEF IInv, WindowOK, NeverWindowless, loginVars
<1>6. ShowsRequestedVm'
  BY <1>3 DEF IInv, ShowsRequestedVm, loginVars
<1> QED BY <1>3, <1>4, <1>5, <1>6, TypesJoin DEF IInv

\* A logout: what it does not stop, it finds pending.
LEMMA LogoutInv ==
    ASSUME IInv, on_logged_out
    PROVE  IInv'
<1> USE DEF on_logged_out
<1>1. /\ RunTypes' /\ LinkOK' /\ BrokerKnowsConnection'
      /\ active' = FALSE
      /\ reconnectPoll' => reconnectPoll
      /\ shown' \in BOOLEAN
  BY StopFacts
<1>2. RestTypes'
  <2>1. RestTypes /\ TypeOK
    BY TypesSplit DEF IInv
  <2>2. stray' \in BOOLEAN
    BY <2>1 DEF TypeOK
  <2> QED BY <1>1, <2>1, <2>2 DEF RestTypes, boxVars
<1>3. WindowOK' /\ NeverWindowless'
  BY <1>1 DEF IInv, WindowOK, NeverWindowless
<1>4. ShowsRequestedVm'
  BY <1>1 DEF ShowsRequestedVm
<1> QED BY <1>1, <1>2, <1>3, <1>4, TypesJoin DEF IInv

LEMMA UserInv ==
    ASSUME IInv, User
    PROVE  IInv'
<1>0. /\ TypeOK /\ RestTypes /\ RunTypes
      /\ "job-finished" \in {"job-finished", "quit-requested"}
      /\ "quit-requested" \in {"job-finished", "quit-requested"}
  BY TypesSplit DEF IInv
<1>1. CASE log_in
  <2> USE <1>1 DEF log_in
  <2>1. RunTypes' /\ RestTypes'
    <3>1. RunTypes'
      BY <1>0 DEF RunTypes, linkVars, appVars, vmVars
    <3>2. RestTypes'
      BY <1>0 DEF RestTypes, appVars, vmVars, boxVars
    <3> QED BY <3>1, <3>2
  <2>2. LinkOK' /\ BrokerKnowsConnection'
    BY DEF IInv, LinkOK, BrokerKnowsConnection, linkVars, appVars, vmVars
  <2>3. WindowOK' /\ NeverWindowless' /\ ShowsRequestedVm'
    BY DEF IInv, WindowOK, NeverWindowless, ShowsRequestedVm, appVars, vmVars
  <2> QED BY <2>1, <2>2, <2>3, TypesJoin DEF IInv
<1>2. CASE close_window
  <2> USE <1>2 DEF close_window
  <2>1. RunTypes' /\ RestTypes'
    <3>1. RunTypes'
      BY <1>0 DEF RunTypes, linkVars, appVars, vmVars
    <3>2. RestTypes'
      BY <1>0 DEF RestTypes, appVars, vmVars, boxVars
    <3> QED BY <3>1, <3>2
  <2>2. LinkOK' /\ BrokerKnowsConnection'
    BY DEF IInv, LinkOK, BrokerKnowsConnection, linkVars, appVars, vmVars
  <2>3. WindowOK' /\ NeverWindowless' /\ ShowsRequestedVm'
    BY DEF IInv, WindowOK, NeverWindowless, ShowsRequestedVm, appVars, vmVars
  <2> QED BY <2>1, <2>2, <2>3, TypesJoin DEF IInv
<1>3. CASE menu_disconnect
  BY <1>0, <1>3, StopKeepsInv DEF menu_disconnect, endFrame, RestTypes
<1>4. CASE window_delete
  <2>1. CASE /\ ask' = TRUE
             /\ UNCHANGED <<linkVars, appVars, vmVars, shown, dialog, loginVars>>
    <3>1. RunTypes' /\ RestTypes'
      BY <1>0, <2>1 DEF RunTypes, RestTypes, linkVars, appVars, vmVars, loginVars
    <3>2. LinkOK' /\ WindowOK' /\ NeverWindowless' /\ ShowsRequestedVm' /\ BrokerKnowsConnection'
      BY <2>1 DEF IInv, LinkOK, WindowOK, NeverWindowless, ShowsRequestedVm,
                  BrokerKnowsConnection, linkVars, appVars, vmVars, loginVars
    <3> QED BY <3>1, <3>2, TypesJoin DEF IInv
  <2>2. CASE virt_viewer_app_stop("quit-requested") /\ UNCHANGED <<endFrame, dialog>>
    BY <1>0, <2>2, StopKeepsInv DEF endFrame, RestTypes
  <2> QED BY <1>4, <2>1, <2>2 DEF window_delete
<1>5. CASE \E vm \in Vms : virt_viewer_app_instant_start(vm)
  BY <1>5, StartInv
<1>6. CASE \E yes \in BOOLEAN : quit_answered(yes)
  <2> PICK yes \in BOOLEAN : quit_answered(yes)
    BY <1>6
  <2> USE DEF quit_answered
  <2>1. CASE yes
    BY <1>0, <2>1, StopKeepsInv DEF RestTypes
  <2>2. CASE ~yes
    <3>1. RunTypes' /\ RestTypes'
      <4>1. RunTypes'
        BY <1>0, <2>2 DEF RunTypes, linkVars
      <4>2. RestTypes'
        BY <1>0, <2>2 DEF RestTypes
      <4> QED BY <4>1, <4>2
    <3>2. LinkOK' /\ WindowOK' /\ NeverWindowless' /\ ShowsRequestedVm' /\ BrokerKnowsConnection'
      BY <2>2 DEF IInv, LinkOK, WindowOK, NeverWindowless, ShowsRequestedVm,
                  BrokerKnowsConnection, linkVars
    <3> QED BY <3>1, <3>2, TypesJoin DEF IInv
  <2> QED BY <2>1, <2>2
<1>7. CASE failure_dialog_closed
  BY <1>0, <1>7, StopKeepsInv DEF failure_dialog_closed, endFrame, RestTypes, Boxes
<1>8. CASE proxy_auth_given
  <2> USE <1>8 DEF proxy_auth_given
  <2>1. RunTypes' /\ RestTypes'
    BY <1>0 DEF RunTypes, RestTypes, Boxes, linkVars, appVars, vmVars, loginVars
  <2>2. LinkOK' /\ WindowOK' /\ NeverWindowless' /\ ShowsRequestedVm' /\ BrokerKnowsConnection'
    BY DEF IInv, LinkOK, WindowOK, NeverWindowless, ShowsRequestedVm, BrokerKnowsConnection,
           linkVars, appVars, vmVars, loginVars
  <2> QED BY <2>1, <2>2, TypesJoin DEF IInv
<1>9. CASE proxy_auth_cancelled
  BY <1>0, <1>9, StopKeepsInv DEF proxy_auth_cancelled, RestTypes, Boxes
<1> QED BY <1>1, <1>2, <1>3, <1>4, <1>5, <1>6, <1>7, <1>8, <1>9 DEF User

LEMMA StutterInv ==
    ASSUME IInv, UNCHANGED vars
    PROVE  IInv'
<1>1. TypeOK'
  BY DEF IInv, TypeOK, vars, linkVars, appVars, vmVars, boxVars, loginVars
<1>2. LinkOK' /\ WindowOK' /\ NeverWindowless' /\ ShowsRequestedVm' /\ BrokerKnowsConnection'
  BY DEF IInv, LinkOK, WindowOK, NeverWindowless, ShowsRequestedVm, BrokerKnowsConnection,
         vars, linkVars, appVars, vmVars, boxVars, loginVars
<1> QED BY <1>1, <1>2 DEF IInv

LEMMA NextInv ==
    ASSUME IInv, [Next]_vars
    PROVE  IInv'
<1>1. CASE Spice
  BY <1>1, SpiceInv
<1>2. CASE User
  BY <1>2, UserInv
<1>3. CASE reconnect_timeout
  BY <1>3, TimerInv
<1>4. CASE on_logged_out
  BY <1>4, LogoutInv
<1>5. CASE ended \/ UNCHANGED vars
  BY <1>5, StutterInv DEF ended
<1> QED BY <1>1, <1>2, <1>3, <1>4, <1>5 DEF Next

-----------------------------------------------------------------------------
(* The theorems.                                                           *)

\* The invariant holds in every behaviour of the viewer.
THEOREM SpecInv == Spec => []IInv
<1>1. Init => IInv
  BY InitInv
<1>2. IInv /\ [Next]_vars => IInv'
  BY NextInv
<1> QED BY <1>1, <1>2, PTL DEF Spec

\* The variables of the viewer keep their types: a channel is never counted out
\* below zero, and no more tries are counted than the limit.
THEOREM TypeCorrect == Spec => []TypeOK
<1>1. IInv => TypeOK
  BY DEF IInv
<1> QED BY <1>1, SpecInv, PTL

\* Some window is shown until the application ends (the callers of
\* virt_viewer_app_stop and what they show next).
THEOREM NeverWindowlessHolds == Spec => []NeverWindowless
<1>1. IInv => NeverWindowless
  BY DEF IInv
<1> QED BY <1>1, SpecInv, PTL

\* Without a login the viewer or the selector runs only after a pending try met a
\* logout (on_logged_out stops the viewer before it shows the login window).
THEOREM OnlyPendingTryOutlivesLoginHolds == Spec => []OnlyPendingTryOutlivesLogin
<1>1. IInv => OnlyPendingTryOutlivesLogin
  BY DEF IInv, WindowOK, OnlyPendingTryOutlivesLogin
<1> QED BY <1>1, SpecInv, PTL

\* An active viewer is connected to the machine asked for last, or a pending try
\* met a logout (connect_to_vm and the timer of virt_viewer_app_disconnected).
THEOREM ShowsRequestedVmHolds == Spec => []ShowsRequestedVm
<1>1. IInv => ShowsRequestedVm
  BY DEF IInv
<1> QED BY <1>1, SpecInv, PTL

\* The last event queued for the broker says "connected" exactly while the viewer is
\* (virt_viewer_app_connected and virt_viewer_app_deactivate).
THEOREM BrokerKnowsConnectionHolds == Spec => []BrokerKnowsConnection
<1>1. IInv => BrokerKnowsConnection
  BY DEF IInv
<1> QED BY <1>1, SpecInv, PTL

\* The selector makes way only for a viewer that is active, unless the session was
\* refused at once (virt_viewer_app_instant_start).
THEOREM EveryStartTakesHolds == Spec => EveryStartTakes
<1>1. IInv /\ [Next]_vars
        => [managerActive /\ ~managerActive' /\ loggedIn' => active' \/ session' = "idle"]_vars
  <2> SUFFICES ASSUME IInv, Next, managerActive, ~managerActive', loggedIn'
               PROVE  active' \/ session' = "idle"
    OBVIOUS
  <2>1. CASE \E vm \in Vms : virt_viewer_app_instant_start(vm)
    BY <2>1, StartInv
  <2>2. CASE Spice
    <3> USE DEF Deactivate, ReportConnError, StopIfActive, virt_viewer_app_stop, Disconnected,
                CountChannelOut, loginVars
    <3> QED BY <2>2 DEF Spice, main_channel_opened, main_channel_connect_error,
                 main_channel_auth_error, proxy_needs_auth, channel_new, main_channel_error,
                 main_channel_closed, channel_destroyed
  <2>3. CASE User /\ ~(\E vm \in Vms : virt_viewer_app_instant_start(vm))
    BY <2>3 DEF User, log_in, close_window, menu_disconnect, window_delete, quit_answered,
         failure_dialog_closed, proxy_auth_given, proxy_auth_cancelled, virt_viewer_app_stop,
         loginVars
  <2>4. CASE reconnect_timeout \/ on_logged_out \/ ended
    BY <2>4 DEF reconnect_timeout, on_logged_out, ended, vars, loginVars
  <2> QED BY <2>1, <2>2, <2>3, <2>4 DEF Next
<1> QED BY <1>1, SpecInv, PTL DEF Spec, EveryStartTakes

-----------------------------------------------------------------------------
(* The windows.                                                            *)

\* A viewer that runs, or will be tried again, has its window on the screen.
RunsShown == active \/ reconnectPoll => shown

\* What a step does to the windows: it keeps RunsShown, and is a step of WindowFlow.
WindowsStep == RunsShown' /\ [Windows!Next]_(Windows!vars)

LEMMA SameWindows ==
    ASSUME UNCHANGED <<shown, authActive, managerActive, quit>>
    PROVE  UNCHANGED Windows!vars
BY DEF Windows!vars

\* A stop brings the selector, or the end, for the viewer it ends.
LEMMA StopWindows ==
    ASSUME IInv, RunsShown, ~quit, NEW signal \in {"job-finished", "quit-requested"},
           virt_viewer_app_stop(signal), UNCHANGED authActive
    PROVE  WindowsStep
<1> USE DEF virt_viewer_app_stop
<1>1. CASE ~active
  <2>1. UNCHANGED <<shown, reconnectPoll, active, managerActive, quit>>
    BY <1>1 DEF IInv, TypeOK, StopIfActive
  <2> QED BY <2>1, SameWindows DEF RunsShown, WindowsStep
<1>2. CASE active
  <2>1. ~shown' /\ ~reconnectPoll' /\ ~active' /\ shown
    BY <1>2, StopFacts DEF StopIfActive, RunsShown
  <2>2. CASE signal = "job-finished"
    <3>1. managerActive' /\ quit' = FALSE /\ quit = FALSE
      BY <1>2, <2>2 DEF IInv, TypeOK
    <3>2. Windows!Finish
      BY <2>1, <3>1 DEF Windows!Finish, Windows!Show
    <3> QED BY <2>1, <3>2 DEF RunsShown, WindowsStep, Windows!Next
  <2>3. CASE signal = "quit-requested"
    <3>1. Windows!Quit
      BY <1>2, <2>3 DEF Windows!Quit
    <3> QED BY <2>1, <3>1 DEF RunsShown, WindowsStep, Windows!Next
  <2> QED BY <2>2, <2>3
<1> QED BY <1>1, <1>2

\* A connection that fails or ends leaves the window to the next try or to a box, or
\* stops the viewer.
LEMMA DisconnectedWindows ==
    ASSUME IInv, RunsShown, ~quit,
           session \in {"connecting", "open", "broken", "closing"},
           Disconnected, UNCHANGED authActive
    PROVE  WindowsStep
<1>1. active /\ shown
  BY DEF IInv, LinkOK, RunsShown
<1>2. CASE virt_viewer_app_stop("job-finished")
  BY <1>2, StopWindows
<1>3. CASE ~virt_viewer_app_stop("job-finished")
  <2>1. UNCHANGED <<shown, managerActive, quit>>
    BY <1>3 DEF Disconnected, ReportConnError
  <2> QED BY <1>1, <2>1, SameWindows DEF RunsShown, WindowsStep
<1> QED BY <1>2, <1>3

LEMMA SpiceWindows ==
    ASSUME IInv, RunsShown, Spice
    PROVE  WindowsStep
<1> USE DEF RunsShown, WindowsStep, appVars, loginVars
<1>1. CASE main_channel_opened
  BY <1>1, SameWindows DEF main_channel_opened
<1>2. CASE main_channel_connect_error
  BY <1>2, DisconnectedWindows DEF main_channel_connect_error, endFrame
<1>3. CASE main_channel_auth_error \/ proxy_needs_auth
  BY <1>3, SameWindows DEF main_channel_auth_error, proxy_needs_auth
<1>4. CASE channel_new \/ main_channel_closed
  BY <1>4, SameWindows DEF channel_new, main_channel_closed
<1>5. CASE main_channel_error \/ channel_destroyed
  <2>1. CASE channelCount = 1
    BY <1>5, <2>1, DisconnectedWindows
       DEF main_channel_error, channel_destroyed, CountChannelOut, endFrame
  <2>2. CASE channelCount # 1
    BY <1>5, <2>2, SameWindows
       DEF main_channel_error, channel_destroyed, CountChannelOut, endFrame
  <2> QED BY <2>1, <2>2
<1> QED BY <1>1, <1>2, <1>3, <1>4, <1>5 DEF Spice

LEMMA UserWindows ==
    ASSUME IInv, RunsShown, User
    PROVE  WindowsStep
<1> USE DEF appVars, loginVars
<1>1. CASE log_in
  <2>1. Windows!LogIn
    BY <1>1 DEF log_in, UserFree, Windows!LogIn, Windows!Show
  <2> QED BY <1>1, <2>1 DEF log_in, RunsShown, WindowsStep, Windows!Next
<1>2. CASE close_window
  <2>1. Windows!Quit
    BY <1>2 DEF close_window, Windows!Quit
  <2> QED BY <1>2, <2>1 DEF close_window, RunsShown, WindowsStep, Windows!Next
<1>3. CASE \E vm \in Vms : virt_viewer_app_instant_start(vm)
  <2> PICK vm \in Vms : virt_viewer_app_instant_start(vm)
    BY <1>3
  <2> USE DEF virt_viewer_app_instant_start
  <2>1. Windows!Open
    BY DEF UserFree, Windows!Open
  <2> QED BY <2>1 DEF RunsShown, WindowsStep, Windows!Next
<1>4. CASE menu_disconnect \/ failure_dialog_closed \/ proxy_auth_cancelled
  BY <1>4, StopWindows
     DEF menu_disconnect, failure_dialog_closed, proxy_auth_cancelled, UserFree, endFrame
<1>5. CASE window_delete
  <2>1. CASE virt_viewer_app_stop("quit-requested")
    BY <1>5, <2>1, StopWindows DEF window_delete, UserFree, endFrame
  <2>2. CASE ~virt_viewer_app_stop("quit-requested")
    BY <1>5, <2>2, SameWindows DEF window_delete, RunsShown, WindowsStep
  <2> QED BY <2>1, <2>2
<1>6. CASE \E yes \in BOOLEAN : quit_answered(yes)
  <2> PICK yes \in BOOLEAN : quit_answered(yes)
    BY <1>6
  <2> USE DEF quit_answered
  <2>1. CASE yes
    BY <2>1, StopWindows
  <2>2. CASE ~yes
    BY <2>2, SameWindows DEF RunsShown, WindowsStep
  <2> QED BY <2>1, <2>2
<1>7. CASE proxy_auth_given
  BY <1>7, SameWindows DEF proxy_auth_given, RunsShown, WindowsStep
<1> QED BY <1>1, <1>2, <1>3, <1>4, <1>5, <1>6, <1>7 DEF User

LEMMA NextWindows ==
    ASSUME IInv, RunsShown, [Next]_vars
    PROVE  WindowsStep
<1>1. CASE Spice
  BY <1>1, SpiceWindows
<1>2. CASE User
  BY <1>2, UserWindows
<1>3. CASE reconnect_timeout
  BY <1>3, SameWindows DEF reconnect_timeout, RunsShown, WindowsStep, loginVars
<1>4. CASE on_logged_out
  <2> USE <1>4 DEF on_logged_out
  <2>1. ~active' /\ shown' \in {shown, FALSE} /\ (reconnectPoll' => reconnectPoll /\ ~active)
        /\ (~active => shown' = shown)
    BY StopFacts DEF StopIfActive
  <2>2. Windows!LoggedOut
    BY <2>1 DEF IInv, TypeOK, Windows!LoggedOut
  <2> QED BY <2>1, <2>2 DEF RunsShown, WindowsStep, Windows!Next
<1>5. CASE ended \/ UNCHANGED vars
  BY <1>5, SameWindows DEF ended, vars, appVars, loginVars, RunsShown, WindowsStep
<1> QED BY <1>1, <1>2, <1>3, <1>4, <1>5 DEF Next

\* The viewer implements WindowFlow, for any machines, number of tries and of channels:
\* errors, retries, boxes and logouts bring the next window for the one they take, and
\* nothing comes up after the end.
THEOREM RefinesWindows == Spec => ImplementsWindows
<1>1. Init => Windows!Init /\ RunsShown
  BY DEF Init, Windows!Init, RunsShown
<1>2. IInv /\ RunsShown /\ [Next]_vars => RunsShown' /\ [Windows!Next]_(Windows!vars)
  BY NextWindows DEF WindowsStep
<1> QED BY <1>1, <1>2, SpecInv, PTL DEF Spec, ImplementsWindows, Windows!Safe
-----------------------------------------------------------------------------
(* What StartSettles and BrokenSessionEnds rest on besides fairness.       *)

\* The viewer works at a connection it has not made, and nothing was reported yet.
Unsettled == ~quit /\ dialog = "none" /\ ~connected /\ (reconnectPoll \/ active)

\* A timer is armed only for a try that was counted, a try begins only with its timer
\* used up, and within a try the password is sent again once.
UsesUpTries ==
    \/ UNCHANGED <<connTry, reconnectPoll, passTry>>
    \/ connTry' > connTry
    \/ connTry' = connTry /\ reconnectPoll /\ ~reconnectPoll'
    \/ connTry' = connTry /\ reconnectPoll' = reconnectPoll /\ passTry' > passTry

\* As long as virt_viewer_app_disconnected, the timer, logouts, starts from the selector
\* and message boxes leave the viewer unsettled, each change of its tries uses some up.
TriesOnlyUsedUp == [][Unsettled /\ Unsettled' => UsesUpTries]_vars

LEMMA StopSettles ==
    ASSUME IInv, StopIfActive
    PROVE  UNCHANGED <<connTry, reconnectPoll, passTry>> \/ ~(reconnectPoll' \/ active')
<1>1. CASE active
  BY <1>1 DEF StopIfActive, Deactivate
<1>2. CASE ~active
  BY <1>2 DEF StopIfActive, linkVars, IInv, TypeOK
<1> QED BY <1>1, <1>2 DEF IInv, TypeOK

LEMMA DisconnectedUsesUp ==
    ASSUME IInv, Disconnected, Unsettled'
    PROVE  UsesUpTries
<1>1. CASE ~connected /\ ~cancelled /\ polling /\ connTry < MaxConnTry
  <2>1. connTry' = connTry + 1 /\ connTry \in Int
    BY <1>1 DEF Disconnected, IInv, TypeOK
  <2> QED BY <2>1 DEF UsesUpTries
<1>2. CASE ~connected /\ ~cancelled /\ ~(polling /\ connTry < MaxConnTry)
  BY <1>2 DEF Disconnected, ReportConnError, Unsettled
<1>3. CASE connected \/ cancelled
  BY <1>3, StopSettles DEF Disconnected, virt_viewer_app_stop, Unsettled, UsesUpTries
<1> QED BY <1>1, <1>2, <1>3

LEMMA CountOutUsesUp ==
    ASSUME IInv, NEW there, NEW left, CountChannelOut(there, left), Unsettled'
    PROVE  UsesUpTries
<1>1. CASE channelCount = 1
  BY <1>1, DisconnectedUsesUp DEF CountChannelOut
<1>2. CASE channelCount # 1
  BY <1>2 DEF CountChannelOut, UsesUpTries
<1> QED BY <1>1, <1>2

\* The tries are used up whatever happens while they last, for any limit: no order of
\* starts, stops, logouts and boxes arms a timer that is not counted.
THEOREM TriesUsedUp == Spec => TriesOnlyUsedUp
<1>1. ASSUME IInv, Next, Unsettled, Unsettled'
      PROVE  UsesUpTries
  <2>1. CASE main_channel_opened
    BY <1>1, <2>1 DEF main_channel_opened, Unsettled
  <2>2. CASE main_channel_connect_error \/ main_channel_error \/ channel_destroyed
    BY <1>1, <2>2, DisconnectedUsesUp, CountOutUsesUp
       DEF main_channel_connect_error, main_channel_error, channel_destroyed
  <2>3. CASE main_channel_auth_error
    <3>1. UNCHANGED <<connTry, reconnectPoll>>
      BY <2>3 DEF main_channel_auth_error, appVars
    <3>2. passTry' > passTry
      BY <1>1, <2>3 DEF main_channel_auth_error, Unsettled
    <3> QED BY <3>1, <3>2 DEF UsesUpTries
  <2>4. CASE \/ proxy_needs_auth \/ proxy_auth_given \/ channel_new \/ main_channel_closed
             \/ log_in \/ close_window \/ ended
    BY <2>4 DEF proxy_needs_auth, proxy_auth_given, channel_new, main_channel_closed, log_in,
                close_window, ended, vars, linkVars, appVars, UsesUpTries
  <2>5. CASE \/ proxy_auth_cancelled \/ failure_dialog_closed \/ menu_disconnect
             \/ on_logged_out \/ window_delete \/ \E yes \in BOOLEAN : quit_answered(yes)
    <3>1. StopIfActive \/ UNCHANGED <<connTry, reconnectPoll, passTry>>
      BY <2>5 DEF proxy_auth_cancelled, failure_dialog_closed, menu_disconnect, on_logged_out,
                  window_delete, quit_answered, virt_viewer_app_stop, linkVars, appVars
    <3> QED BY <1>1, <3>1, StopSettles DEF Unsettled, UsesUpTries
  <2>6. CASE reconnect_timeout
    BY <1>1, <2>6 DEF reconnect_timeout, ConnectAttempt, UsesUpTries
  <2>7. ASSUME NEW vm \in Vms, virt_viewer_app_instant_start(vm)
        PROVE  UsesUpTries
    <3>1. connTry' = connTry /\ reconnectPoll' = FALSE /\ ConnectAttempt(vm)
      BY <2>7 DEF virt_viewer_app_instant_start, ConnectAttempt
    <3>2. CASE reconnectPoll
      BY <3>1, <3>2 DEF UsesUpTries
    <3>3. CASE ~reconnectPoll
      <4>1. active /\ passTry' = passTry
        BY <1>1, <3>1, <3>3 DEF Unsettled, ConnectAttempt, linkVars
      <4> QED BY <1>1, <3>1, <3>3, <4>1 DEF UsesUpTries, IInv, TypeOK
    <3> QED BY <3>2, <3>3
  <2> QED BY <1>1, <2>1, <2>2, <2>3, <2>4, <2>5, <2>6, <2>7 DEF Next, Spice, User
<1>2. IInv /\ [Next]_vars => [Unsettled /\ Unsettled' => UsesUpTries]_vars
  BY <1>1
<1> QED BY <1>2, SpecInv, PTL DEF Spec, TriesOnlyUsedUp

\* The main channel was lost, and the session is to end with its other channels.
Lost == session \in {"broken", "closing"}

\* The count reaches zero, which ends the session, before the channels run out, although
\* a main channel that reported an error is counted out twice.
CountedInTime == Lost => channelCount \in 1 .. live

\* Channels come and go, are closed and destroyed: a lost session only goes on to its end.
CountsDown ==
    \/ UNCHANGED <<session, live, channelCount>>
    \/ session = "broken" /\ session' = "closing" /\ UNCHANGED <<live, channelCount>>
    \/ UNCHANGED session /\ live' = live - 1 /\ channelCount' = channelCount - 1

LostOnlyCountsDown == [][Lost /\ Lost' => CountsDown]_vars

LEMMA DisconnectedCountsDown ==
    ASSUME IInv, Lost, Disconnected, Lost'
    PROVE  CountsDown
<1>1. active
  BY DEF IInv, LinkOK, Lost
<1>2. session' \in {"none", "failed"}
  BY <1>1 DEF Disconnected, Deactivate, ReportConnError, virt_viewer_app_stop, StopIfActive
<1> QED BY <1>2 DEF Lost

\* However the main channel is lost (virt_viewer_session_spice_main_channel_event), what
\* spice-gtk still destroys is enough to end the session, for any number of channels.
THEOREM LostSessionEnds == Spec => []CountedInTime /\ LostOnlyCountsDown
<1>1. IInv => CountedInTime
  <2> SUFFICES ASSUME IInv, Lost PROVE channelCount \in 1 .. live
    BY DEF CountedInTime
  <2>1. channelCount # 0 /\ channelCount <= live
    BY DEF IInv, LinkOK, Lost
  <2>2. channelCount \in Nat /\ live \in Nat
    BY MaxChannelsAssumption DEF IInv, TypeOK
  <2> QED BY <2>1, <2>2
<1>2. ASSUME IInv, Next, Lost, Lost'
      PROVE  CountsDown
  <2>1. active
    BY <1>2 DEF IInv, LinkOK, Lost
  <2>2. CASE main_channel_closed
    BY <1>2, <2>2 DEF main_channel_closed, Lost, CountsDown
  <2>3. CASE channel_destroyed
    BY <1>2, <2>3, DisconnectedCountsDown DEF channel_destroyed, CountChannelOut, CountsDown
  <2>4. CASE \/ main_channel_opened \/ main_channel_connect_error \/ main_channel_auth_error
             \/ proxy_needs_auth \/ channel_new \/ main_channel_error
    BY <1>2, <2>4 DEF main_channel_opened, main_channel_connect_error, main_channel_auth_error,
                      proxy_needs_auth, channel_new, main_channel_error, Lost
  <2>5. CASE proxy_auth_given \/ log_in \/ close_window \/ ended
    BY <2>5 DEF proxy_auth_given, log_in, close_window, ended, vars, linkVars, CountsDown
  <2>6. CASE \/ proxy_auth_cancelled \/ failure_dialog_closed \/ menu_disconnect
             \/ on_logged_out \/ window_delete \/ \E yes \in BOOLEAN : quit_answered(yes)
    <3>1. StopIfActive \/ UNCHANGED linkVars
      BY <2>6 DEF proxy_auth_cancelled, failure_dialog_closed, menu_disconnect, on_logged_out,
                  window_delete, quit_answered, virt_viewer_app_stop, linkVars
    <3> QED BY <1>2, <2>1, <3>1 DEF StopIfActive, Deactivate, linkVars, Lost, CountsDown
  <2>7. CASE reconnect_timeout \/ \E vm \in Vms : virt_viewer_app_instant_start(vm)
    BY <2>1, <2>7
       DEF reconnect_timeout, virt_viewer_app_instant_start, ConnectAttempt, linkVars, CountsDown
  <2> QED BY <1>2, <2>2, <2>3, <2>4, <2>5, <2>6, <2>7 DEF Next, Spice, User
<1>3. IInv /\ [Next]_vars => [Lost /\ Lost' => CountsDown]_vars
  BY <1>2
<1> QED BY <1>1, <1>3, SpecInv, PTL DEF Spec, LostOnlyCountsDown
=============================================================================
