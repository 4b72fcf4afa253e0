--------------------------- MODULE VirtViewerApp ---------------------------
(***************************************************************************)
(* The SPICE viewer: VirtViewerApp (src/virt_viewer/virt-viewer-app.c),    *)
(* which activates a session, tries again every three seconds when the     *)
(* first connection fails, deactivates and stops, and the events of the    *)
(* session's channels (virt-viewer-session-spice.c) that drive it.         *)
(*                                                                         *)
(* Everything runs in the main thread, but message boxes run the main loop *)
(* inside of a callback, and between two tries the application has neither *)
(* a session nor the flag `active`, which is what every way to end it asks.*)
(* spice-gtk is external: it reports the end of a channel by signals, and  *)
(* destroys the channels of a session in an idle callback.                 *)
(***************************************************************************)
EXTENDS Integers

CONSTANTS
    Vms,            \* Bound: the machines the user may ask for
    NoVm,           \* no machine asked for yet
    MaxConnTry,     \* MAX_CONN_TRY_NUMBER
    MaxChannels     \* Bound: channels of a session, the main channel included

ASSUME VmsAssumption == NoVm \notin Vms
ASSUME MaxConnTryAssumption == MaxConnTry \in Nat
ASSUME MaxChannelsAssumption == MaxChannels \in Nat \ {0}

VARIABLES
    session,        \* priv->session and how far its SPICE session got
    passTry,        \* pass_try of the session: logins the server refused
    live,           \* channels of the SPICE session not yet destroyed
    channelCount,   \* channel_count of the session
    active,         \* priv->active
    connected,      \* priv->connected
    cancelled,      \* priv->cancelled
    polling,        \* priv->is_polling_enabled
    connTry,        \* priv->conn_try
    reconnectPoll,  \* priv->reconnect_poll # 0: a try is pending
    target,         \* priv->guri: the machine asked for last
    sessionVm,      \* the machine the session was opened to
    told,           \* the last VM event queued for the broker
    shown,          \* the main VM window is visible
    ask,            \* the box "do you want to close the session" is open
    dialog,         \* the box above all others
    authActive,     \* the login window is shown
    managerActive,  \* the VM selector is shown
    loggedIn,       \* between a login and the next logout
    stray,          \* history: a logout met a pending try
    quit            \* the application has ended

linkVars == <<session, passTry, live, channelCount>>
appVars == <<active, connected, cancelled, polling, connTry, reconnectPoll>>
vmVars == <<target, sessionVm, told>>
boxVars == <<ask, dialog>>
loginVars == <<authActive, managerActive, loggedIn, stray, quit>>
vars == <<linkVars, appVars, vmVars, shown, boxVars, loginVars>>

\* idle: created, but spice_session_connect refused; broken: the main channel
\* reported an error while it was open; closing: spice_session_disconnect was
\* called, its idle callback has not destroyed every channel; failed: the session
\* ended and a message box says so.
Links == {"none", "idle", "connecting", "open", "broken", "closing", "failed"}

TypeOK ==
    /\ session \in Links
    /\ passTry \in {0, 1}
    /\ live \in 0 .. MaxChannels
    /\ channelCount \in 0 .. MaxChannels
    /\ active \in BOOLEAN /\ connected \in BOOLEAN /\ cancelled \in BOOLEAN
    /\ polling \in BOOLEAN /\ reconnectPoll \in BOOLEAN
    /\ connTry \in 0 .. MaxConnTry
    /\ target \in Vms \cup {NoVm} /\ sessionVm \in Vms \cup {NoVm}
    /\ told \in {"nothing", "connected", "disconnected"}
    /\ shown \in BOOLEAN /\ ask \in BOOLEAN
    /\ dialog \in {"none", "conn_error", "auth", "proxy"}
    /\ authActive \in BOOLEAN /\ managerActive \in BOOLEAN
    /\ loggedIn \in BOOLEAN /\ stray \in BOOLEAN /\ quit \in BOOLEAN

Init ==
    /\ session = "none" /\ passTry = 0 /\ live = 0 /\ channelCount = 0
    /\ active = FALSE /\ connected = FALSE /\ cancelled = FALSE
    /\ polling = FALSE /\ connTry = 0 /\ reconnectPoll = FALSE
    /\ target = NoVm /\ sessionVm = NoVm /\ told = "nothing"
    /\ shown = FALSE /\ ask = FALSE /\ dialog = "none"
    /\ authActive = TRUE /\ managerActive = FALSE
    /\ loggedIn = FALSE /\ stray = FALSE /\ quit = FALSE

\* The boxes are modal: the user reaches a window only when none is open.
UserFree == ~quit /\ ~ask /\ dialog = "none"

-----------------------------------------------------------------------------
(* Starting.                                                               *)

\* virt_viewer_app_create_session and virt_viewer_app_activate: a fresh session,
\* whose main channel is the first to be counted.
Activate(vm) ==
    /\ passTry' = 0
    /\ sessionVm' = vm
    /\ \/ /\ session' = "connecting"
          /\ live' = 1 /\ channelCount' = 1
          /\ active' = TRUE /\ cancelled' = FALSE
          /\ UNCHANGED connected
       \/ /\ session' = "idle"   \* refused at once: nothing clears the session
          /\ live' = 0 /\ channelCount' = 0
          /\ connected' = FALSE
          /\ UNCHANGED <<active, cancelled>>

\* virt_viewer_connect_attempt, from the start and from the timer.
ConnectAttempt(vm) ==
    /\ reconnectPoll' = FALSE
    /\ IF active \/ session # "none"
       THEN UNCHANGED <<linkVars, sessionVm, active, connected, cancelled>>
       ELSE Activate(vm)

\* connect_to_vm of remote-viewer.c for the machine the selector received, which
\* the broker gives only to a login.
virt_viewer_app_instant_start(vm) ==
    /\ UserFree /\ managerActive /\ loggedIn
    /\ managerActive' = FALSE
    /\ target' = vm
    /\ polling' = TRUE
    /\ ConnectAttempt(vm)
    /\ shown' = TRUE
    /\ stray' = (stray /\ active)
    /\ UNCHANGED <<connTry, told, boxVars, authActive, loggedIn, quit>>

\* The timer of the next try; message boxes run it too.
reconnect_timeout ==
    /\ ~quit /\ reconnectPoll
    /\ ConnectAttempt(target)
    /\ UNCHANGED <<polling, connTry, target, told, shown, boxVars, loginVars>>

-----------------------------------------------------------------------------
(* Ending.                                                                 *)

\* A mutant of Deactivate: the session is closed, but the pointer to it stays.
DeactivateKeepsSession ==
    /\ told' = IF connected THEN "disconnected" ELSE told
    /\ IF active
       THEN connected' = FALSE /\ active' = FALSE /\ UNCHANGED linkVars
       ELSE UNCHANGED <<linkVars, connected, active>>

\* A mutant of Deactivate: `connected` is reset before the broker is told.
DeactivateResetsFirst ==
    /\ IF active
       THEN /\ session' = "none" /\ passTry' = 0 /\ live' = 0 /\ channelCount' = 0
            /\ connected' = FALSE /\ active' = FALSE
       ELSE UNCHANGED <<linkVars, connected, active>>
    /\ told' = IF connected' THEN "disconnected" ELSE told

\* virt_viewer_app_deactivate: the session is closed and let go of, and with it
\* the handlers of everything its SPICE session still reports.
Deactivate ==
    /\ told' = IF connected THEN "disconnected" ELSE told
    /\ IF active
       THEN /\ session' = "none" /\ passTry' = 0 /\ live' = 0 /\ channelCount' = 0
            /\ connected' = FALSE /\ active' = FALSE
       ELSE UNCHANGED <<linkVars, connected, active>>

endFrame == <<cancelled, target, sessionVm, ask, authActive, loggedIn, stray>>

\* virt_viewer_app_stop: without effect while the application is not active.
StopIfActive ==
    IF active
    THEN /\ shown' = FALSE
         /\ polling' = FALSE /\ connTry' = 0 /\ reconnectPoll' = FALSE
         /\ Deactivate
    ELSE UNCHANGED <<shown, polling, connTry, reconnectPoll, linkVars, told,
                     connected, active>>

\* The signal stop emits when it had an effect: "job-finished" reaches
\* on_vm_connection_finished, which shows the selector, "quit-requested" ends the
\* application.
virt_viewer_app_stop(signal) ==
    /\ StopIfActive
    /\ managerActive' = (managerActive \/ (active /\ signal = "job-finished"))
    /\ quit' = (quit \/ (active /\ signal = "quit-requested"))

\* The first connection failed with no try left: a box reports it, and the session
\* stays until it is closed.
ReportConnError ==
    /\ dialog' = "conn_error"
    /\ session' = "failed" /\ live' = 0 /\ channelCount' = 0
    /\ UNCHANGED <<passTry, told, connected, active, connTry, polling, reconnectPoll,
                   shown, managerActive, quit>>

\* A mutant of Disconnected: the tries are not counted.
DisconnectedUncounted ==
    IF ~connected /\ ~cancelled
    THEN IF polling /\ connTry < MaxConnTry
         THEN /\ Deactivate
              /\ reconnectPoll' = TRUE
              /\ UNCHANGED <<connTry, polling, shown, dialog, managerActive, quit>>
         ELSE ReportConnError
    ELSE virt_viewer_app_stop("job-finished") /\ UNCHANGED dialog

\* A mutant of Disconnected: the windows are hidden until the next try.
DisconnectedHides ==
    IF ~connected /\ ~cancelled
    THEN IF polling /\ connTry < MaxConnTry
         THEN /\ Deactivate
              /\ connTry' = connTry + 1
              /\ reconnectPoll' = TRUE
              /\ shown' = FALSE
              /\ UNCHANGED <<polling, dialog, managerActive, quit>>
         ELSE ReportConnError
    ELSE virt_viewer_app_stop("job-finished") /\ UNCHANGED dialog

\* virt_viewer_app_disconnected: a connection that was never made is tried again,
\* up to the limit; one that was made, or was cancelled, ends the viewer.
Disconnected ==
    IF ~connected /\ ~cancelled
    THEN IF polling /\ connTry < MaxConnTry
         THEN /\ Deactivate
              /\ connTry' = connTry + 1
              /\ reconnectPoll' = TRUE
              /\ UNCHANGED <<polling, shown, dialog, managerActive, quit>>
         ELSE ReportConnError
    ELSE virt_viewer_app_stop("job-finished") /\ UNCHANGED dialog

-----------------------------------------------------------------------------
(* What spice-gtk reports of the session's channels.                       *)

\* SPICE_CHANNEL_OPENED: virt_viewer_app_connected.
main_channel_opened ==
    /\ ~quit /\ session = "connecting" /\ dialog = "none"
    /\ session' = "open"
    /\ connected' = TRUE
    /\ connTry' = 0
    /\ told' = "connected"
    /\ UNCHANGED <<passTry, live, channelCount, active, cancelled, polling, reconnectPoll,
                   target, sessionVm, shown, boxVars, loginVars>>

\* SPICE_CHANNEL_ERROR_CONNECT, _IO, _LINK or _TLS before the channel opened: the
\* only channel is gone.
main_channel_connect_error ==
    /\ ~quit /\ session = "connecting" /\ dialog = "none"
    /\ Disconnected
    /\ UNCHANGED endFrame

\* A proxy wants credentials: their box is open.
proxy_needs_auth ==
    /\ ~quit /\ session = "connecting" /\ dialog = "none"
    /\ dialog' = "proxy"
    /\ UNCHANGED <<linkVars, appVars, vmVars, shown, ask, loginVars>>

\* The credentials are given, and the session connects again (or, when it was
\* stopped under the box, the one about to be disposed of).
proxy_auth_given ==
    /\ ~quit /\ dialog = "proxy"
    /\ dialog' = "none"
    /\ UNCHANGED <<linkVars, appVars, vmVars, shown, ask, loginVars>>

\* The box is cancelled: virt_viewer_app_cancelled.
proxy_auth_cancelled ==
    /\ ~quit /\ dialog = "proxy"
    /\ dialog' = "none"
    /\ cancelled' = TRUE
    /\ virt_viewer_app_stop("job-finished")
    /\ UNCHANGED <<target, sessionVm, ask, authActive, loggedIn, stray>>

\* SPICE_CHANNEL_ERROR_AUTH: the password is tried once more, then a box reports it.
main_channel_auth_error ==
    /\ ~quit /\ session = "connecting" /\ dialog = "none"
    /\ IF passTry = 0
       THEN passTry' = 1 /\ UNCHANGED <<session, dialog>>
       ELSE session' = "failed" /\ dialog' = "auth" /\ UNCHANGED passTry
    /\ UNCHANGED <<live, channelCount, appVars, vmVars, shown, ask, loginVars>>

\* The box about a failed connection or login is closed.
failure_dialog_closed ==
    /\ ~quit /\ dialog \in {"conn_error", "auth"}
    /\ dialog' = "none"
    /\ virt_viewer_app_stop("job-finished")
    /\ UNCHANGED endFrame

\* virt_viewer_session_spice_channel_new for another channel than the main one.
channel_new ==
    /\ ~quit /\ session = "open" /\ live < MaxChannels
    /\ live' = live + 1
    /\ channelCount' = channelCount + 1
    /\ UNCHANGED <<session, passTry, appVars, vmVars, shown, boxVars, loginVars>>

\* virt_viewer_session_spice_channel_destroy: at zero the session has ended.
CountChannelOut(there, left) ==
    IF channelCount = 1
    THEN Disconnected
    ELSE /\ channelCount' = channelCount - 1
         /\ session' = there
         /\ live' = left
         /\ UNCHANGED <<passTry, told, connected, active, connTry, polling, reconnectPoll,
                        shown, dialog, managerActive, quit>>

\* The main channel fails after it opened: it is counted out although spice-gtk
\* will destroy it, and count it out, once more.
main_channel_error ==
    /\ ~quit /\ session = "open"
    /\ CountChannelOut("broken", live)
    /\ UNCHANGED endFrame

\* A mutant of main_channel_closed: the other channels are left to themselves.
ClosedKeepsChannels ==
    /\ ~quit /\ session \in {"open", "broken"}
    /\ UNCHANGED vars

\* SPICE_CHANNEL_CLOSED: the other channels get closed too.
main_channel_closed ==
    /\ ~quit /\ session \in {"open", "broken"}
    /\ session' = "closing"
    /\ UNCHANGED <<passTry, live, channelCount, appVars, vmVars, shown, boxVars, loginVars>>

\* The idle callback of spice_session_disconnect destroys a channel.
channel_destroyed ==
    /\ ~quit /\ session = "closing" /\ live > 0
    /\ CountChannelOut("closing", live - 1)
    /\ UNCHANGED endFrame

-----------------------------------------------------------------------------
(* The user and the broker.                                                *)

\* The login is accepted: the login window makes way for the selector.
log_in ==
    /\ UserFree /\ authActive
    /\ authActive' = FALSE /\ managerActive' = TRUE /\ loggedIn' = TRUE
    /\ UNCHANGED <<linkVars, appVars, vmVars, shown, boxVars, stray, quit>>

\* The login window or the selector is closed.
close_window ==
    /\ UserFree /\ (authActive \/ managerActive)
    /\ quit' = TRUE
    /\ UNCHANGED <<linkVars, appVars, vmVars, shown, boxVars, authActive, managerActive,
                   loggedIn, stray>>

\* virt_viewer_window_menu_disconnect.
menu_disconnect ==
    /\ UserFree /\ shown
    /\ virt_viewer_app_stop("job-finished")
    /\ UNCHANGED <<endFrame, dialog>>

\* virt_viewer_app_maybe_quit: the VM window is closed; the user may want a question.
window_delete ==
    /\ UserFree /\ shown
    /\ \/ /\ ask' = TRUE
          /\ UNCHANGED <<linkVars, appVars, vmVars, shown, dialog, loginVars>>
       \/ /\ virt_viewer_app_stop("quit-requested")
          /\ UNCHANGED <<endFrame, dialog>>

\* The question is answered, whatever became of the session meanwhile.
quit_answered(yes) ==
    /\ ~quit /\ ask /\ dialog = "none"
    /\ ask' = FALSE
    /\ IF yes
       THEN virt_viewer_app_stop("quit-requested")
       ELSE UNCHANGED <<linkVars, told, shown, polling, connTry, reconnectPoll,
                        connected, active, managerActive, quit>>
    /\ UNCHANGED <<cancelled, target, sessionVm, dialog, authActive, loggedIn, stray>>

\* A mutant of on_logged_out: the viewer is left running.
LoggedOutWithoutStop ==
    /\ ~quit /\ (loggedIn \/ managerActive)
    /\ loggedIn' = FALSE
    /\ authActive' = TRUE /\ managerActive' = FALSE
    /\ stray' = (stray \/ reconnectPoll)
    /\ UNCHANGED <<linkVars, appVars, vmVars, shown, boxVars, quit>>

\* on_logged_out of remote-viewer.c, after the broker's DISCONNECT, a 401 reply or
\* the logout button: it stops the viewer without a signal, finishes the selector
\* and shows the login window.  Message boxes run it too.
on_logged_out ==
    /\ ~quit /\ (loggedIn \/ managerActive)
    /\ loggedIn' = FALSE
    /\ StopIfActive
    /\ authActive' = TRUE /\ managerActive' = FALSE
    /\ stray' = (stray \/ reconnectPoll)
    /\ UNCHANGED <<cancelled, target, sessionVm, boxVars, quit>>

ended == quit /\ UNCHANGED vars

Spice ==
    \/ main_channel_opened \/ main_channel_connect_error \/ main_channel_auth_error
    \/ proxy_needs_auth \/ channel_new
    \/ main_channel_error \/ main_channel_closed \/ channel_destroyed

User ==
    \/ log_in \/ close_window \/ menu_disconnect \/ window_delete
    \/ \E vm \in Vms : virt_viewer_app_instant_start(vm)
    \/ \E yes \in BOOLEAN : quit_answered(yes)
    \/ failure_dialog_closed \/ proxy_auth_given \/ proxy_auth_cancelled

Next == Spice \/ User \/ reconnect_timeout \/ on_logged_out \/ ended

\* The main loop runs its timers, an attempt to connect gets some outcome, and
\* spice-gtk follows up an error of the main channel and destroys what it was told
\* to disconnect.  The user need not answer anything.
Fairness ==
    /\ WF_vars(reconnect_timeout)
    /\ WF_vars(main_channel_opened \/ main_channel_connect_error
               \/ main_channel_auth_error \/ proxy_needs_auth)
    /\ WF_vars(session = "broken" /\ main_channel_closed)
    /\ WF_vars(channel_destroyed)

Spec == Init /\ [][Next]_vars /\ Fairness

-----------------------------------------------------------------------------
(* Properties.                                                             *)

\* Until the application ends some window is shown: the login window, the selector
\* or the VM window, which stays while the viewer waits for its next try.
NeverWindowless == quit \/ authActive \/ managerActive \/ shown

\* What the user sees of it: once the application has ended, nothing.
Windows == INSTANCE WindowFlow WITH
    login    <- IF ~quit /\ authActive THEN "shown" ELSE "hidden",
    selector <- ~quit /\ managerActive,
    viewer   <- ~quit /\ shown,
    waiting  <- FALSE,
    ended    <- quit

\* The windows come and go as remote-viewer.c connects them: whatever ends a session or
\* a try, the viewer leaves the screen only for the selector, to the login window or at
\* the end, after which nothing comes up.
ImplementsWindows == Windows!Safe

\* Only a try that was pending at a logout, and which stop does not see, brings
\* the viewer, or after it the selector, back without a login.
OnlyPendingTryOutlivesLogin ==
    ~loggedIn /\ (active \/ managerActive) => stray

\* Whatever order starts, failures, retries and logouts come in, the viewer is
\* connected to the machine the user asked for last, unless such a try came back.
ShowsRequestedVm == active /\ sessionVm # target => stray

\* The broker believes the user is in a VM exactly while the viewer is connected:
\* no way to end a session forgets the event, or sends it for a session that never
\* was.
BrokerKnowsConnection == told = "connected" <=> connected

\* A machine chosen in the selector is connected to: no end of an earlier session
\* leaves behind what makes create_session give up silently, only an activation
\* that was refused does.
EveryStartTakes ==
    [][managerActive /\ ~managerActive' /\ loggedIn' => active' \/ session' = "idle"]_vars

\* Tries come to an end: the viewer connects, reports the failure in a box, or
\* gives up.
StartSettles ==
    reconnectPoll \/ (active /\ ~connected)
        ~> connected \/ dialog # "none" \/ quit \/ ~(reconnectPoll \/ active)

\* A session whose main channel was lost ends, although the main channel is counted
\* out twice when it reports an error first.
BrokenSessionEnds ==
    session \in {"broken", "closing"} ~> session \notin {"broken", "closing"} \/ quit

=============================================================================
