# VeiL Connect in TLA+

VeiL Connect is a GTK desktop client for virtual desktops. The user logs in at a broker (VeiL
VDI), picks a pool in a selector, receives a VM and works in it through a built-in RDP or spice
viewer or a foreign client. This directory holds TLA+ modules of the parts of the program in which
threads, timers, callbacks and broker messages meet, the TLC configurations that check them, and
TLAPS proofs of the properties that must hold for every number of sessions, devices or requests.

Everything below is about the C sources under `src/src/`.

## 1. Inventory

### 1.1 How the program runs

One GTK main loop shows three kinds of windows, one after the other: the login window
(`remote-viewer-connect.c`), the selector (`vdi_client/vdi_manager.c`) and a VM
(`rdp_viewer/`, `virt_viewer/`, or a foreign program). In the controller mode the window of
`controller_client/controller_manager.c` takes the place of the selector. `remote-viewer.c` connects
their GObject signals. Everything that waits is done in a `GTask` thread (`utility/async.c`) whose callback the
main loop runs later, in a plain `GThread` (RDP, USB attach), or by libsoup's asynchronous calls
in the main loop itself (web socket). Modal boxes and the USB dialog run *nested* main loops: other
callbacks are handled in the middle of a handler. The POST of a logout blocks the main loop: nothing
is handled until it returns, but the threads go on. Between threads there are few locks; most flags
are plain `gboolean`s.

### 1.2 Components

| Component | State it keeps | Operations | What is hard about it | What makes it correct |
|---|---|---|---|---|
| `vdi_ws_client` | is_running, the connection, the cancellable, the reconnect timer | start, stop, connect callback, close, messages, timer | cancelled connects still call back; the timer id; a restart between a cancel and its callback | one connect at a time, never given up while running, nothing left after a stop |
| `vdi_session` | jwt, address, soup session, ws client, current pool and VM | login worker over a list of brokers, API calls, logout, abort | workers share the jwt and the address with the main loop; abort reaches only what is on the wire; a logout blocks the main loop while workers go on | each login ends, one worker at a time, the socket runs only with a login |
| `remote-viewer-connect` | `auth_dialog_state`, login cancellable | connect, cancel, callback of the login | callback after a cancel, mode switched while a worker runs | the window leaves its connecting state |
| `vdi_manager` | client state, current request id, pool widgets | refresh, get VM, favourite, cancel, quit | answers that come after the window is gone | the selector never stays blocked, no VM without a login |
| `remote-viewer` | which window is shown | logged out, VM finished, quit | every end of a session can meet every other | there is always a window |
| `rdp_viewer`, `rdp_client` | `ex_context`, `job_thread`, abort flag, signal to emit | start, stop, connect loop, cleanup | stop against start, retry, reconnect, disconnect; one context for all sessions | an abort ends the session, events are paired, the right thread is joined |
| `rdp_clipboard` | formats, the data being transferred, a condition, the owner of the local clipboard | paste from the server, answer to the server, new formats, focus | the main thread blocks in a paste and runs the main loop inside of a request; the requests carry no number | an answer is given to the request it belongs to; nobody waits for ever |
| `rdp_rail`, `rdp_cursor`, `rdp_channels`, `rdp_disp`, `rdp_display` | channel contexts, image buffer | channel callbacks on the RDP thread | a shared image | |
| `usb_redirection` | task array, flags, dialog list and loop, reset required | start, stop, worker, attach, detach, reset | a flag written by three threads; tasks freed by callbacks; dialog opened again, or losing its window with the session | the dialog tells the truth, every worker gives everything back, the loop of a dialog ends |
| `virt_viewer` | the session with its count of channels, active, connected, conn_try, the timer of the next try | start, activate, try again, deactivate, stop, events of the main channel | between two tries nothing says that the viewer is at work; message boxes run the main loop; channels are destroyed later | a session ends once, it is the one asked for, the broker knows it |
| `controller_client` | token, protocol, list of machines, state of the window | login, list, data of a machine, logout | as `vdi_session`; the protocol and the token are read when a request gets there, not when the user clicked | what is shown and started belongs to the login and the click |
| `app_updater` | two flags, the admin password | check, install | flags read and raised in two steps; the dialogs that show them come and go | the password is forgotten, the button tells the truth |
| `loudplay`, `x2go`, `native_rdp_launcher` | child processes | launch, wait | the exit of the child against a stop | |
| `net_speedometer` | the bytes read last, the address, the quality, the ping thread | check every five seconds, ping, end | sessions end between two checks, a ping outlives the session it was for | speeds that could have been, the quality of the machine shown |
| `vdi_event`, `messenger` | queued events, texts | timers, requests | order of events at the broker | |
| settings (`remote_viewer_start_settings`, `settings_data`, `settingsfile`) | ini file, list of brokers | load, edit, save | the list is replaced under a running login | |
| widgets, `qr_code_generation`, `breakpad_wrapper`, `devops`, `doc`, `po`, `resources`, `tests` | | | | not modelled: layout, vendored code, packaging |

`PROJECT.json` lists all of them with their sources and the state of their model, and, under
`hazards`, each place at which the code is hard to test.

### 1.3 How they interact

* `vdi_session` owns a `vdi_ws_client`; after a login it starts it through a 500 ms timer.
* A message `DISCONNECT` on the web socket, a 401 to any request, and the quit button all end in
  `vdi_session_logout` and the signal `logged-out`, which `remote-viewer.c` turns into: stop the
  VM, hide the selector, show the login window.
* `vdi_manager` asks `vdi_session` for pools and a VM in worker threads and emits
  `connect-to-vm-requested`; `remote-viewer.c` starts a viewer.
* `rdp_viewer` reports connect and disconnect to the broker and, when its thread has ended, emits
  the signal chosen by the last stop: `job-finished` shows the selector again, `quit-requested`
  ends the program.
* The USB dialog, opened from the RDP window, starts tasks of `usbredir_controller`; each task asks
  the broker through `vdi_session` to attach the device to the VM. The end of an RDP session lowers
  the flags of all tasks and destroys the RDP window, and the window of the dialog with it.
* The channel thread of FreeRDP hands the clipboard's messages to the main loop by idle callbacks;
  a paste in the main thread waits for that thread at a condition.
* `virt_viewer` emits `job-finished` or `quit-requested` as `rdp_viewer` does, and gives the
  speedometer the bytes of its channels and, when it starts, the address to ping.
* `controller_manager` asks `controller_session` for a machine in a worker thread and emits
  `connect-to-vm-requested`; `remote-viewer.c` starts a viewer, and shows the window again after it.
* Each time the login window is shown it lets `app_updater` look for a new version; the settings
  dialog, which the end of a login try closes, lets it install one.

## 2. Modules

| Module | Models | Checked by | Proved in |
|---|---|---|---|
| `WsLink` | abstract: what the program may rely on about its web socket | `ImplementsLink` | |
| `WindowFlow` | abstract: which window of the client follows which, as `remote-viewer.c` connects them | `ImplementsWindows` of four modules | |
| `VdiWsClient` | `vdi_ws_client.c`, its timers and asynchronous callbacks | `ws_client` | `VdiWsClient_proofs` |
| `VdiSession` | login window, login worker, requests, selector, logout; the web socket is an instance of `WsLink` | `vdi_session`, `vdi_session_live` | `VdiSession_proofs` |
| `RdpViewer` | `rdp_viewer.c` and the windows around it | `rdp_viewer` | `RdpViewer_proofs` |
| `RdpClipboard` | `rdp_clipboard.c`, both directions and both threads | `rdp_clipboard` | `RdpClipboard_proofs` |
| `VirtViewerApp` | `virt-viewer-app.c`, the events of `virt-viewer-session-spice.c`, and the windows around them | `virt_viewer_app` | `VirtViewerApp_proofs` |
| `UsbRedir` | `usbredir_controller.c`, `usbredir_dialog.c`, the window and loop of `usb_selector_widget.c`, `usbredirserver_lin.c` and the attach and detach requests | `usb_redir`, `usb_cancel` | `UsbRedir_proofs` |
| `ControllerClient` | `controller_session.c`, `controller_manager.c`, the login window and the viewers around them | `controller_client` | `ControllerClient_proofs` |
| `AppUpdater` | `app_updater.c` (Linux) and the two windows it reports to | `app_updater` | `Background_proofs` |
| `NetSpeedometer` | `net_speedometer.c` under SPICE sessions that come and go | `net_speedometer`, `speed_sum` | `Background_proofs` |
| `MCVdiSession` | symmetry for TLC | | |

`VdiSession` composes with the client through `WsLink`: it uses `Link!SwitchOn`, `SwitchOff`,
`Establish` and `Lose`, and `VdiWsClient` is shown to implement exactly those. That the session asks
for nothing else is a theorem (`RefinesLink` of `VdiSession_proofs`).

`VdiSession`, `ControllerClient`, `RdpViewer` and `VirtViewerApp` share the screen. Each models its own
part in detail and the others' windows as far as its handlers touch them; `WindowFlow` is what they
promise each other about it, and `ImplementsWindows` of each says that it keeps the promise. The
windows are the login window (shown, in a try, or hidden), the selector or controller window, a
viewer, and the end. A step of it is one that the signals of `remote-viewer.c` make: a login that is
accepted hides the login window *for the selector*; a machine takes the selector away *for a
viewer*; the end of a viewer brings the selector (`job-finished`) or the end (`quit-requested`); a
logout brings the login window; a viewer that ends without a signal does so only beside another
window. Its liveness is that a login try ends and that a selector that waits for an answer is
released. Whether there is always some window (`SomeWindow`) and whether only a shown selector waits
(`WaitsOnlyShown`) then follows of the abstract module alone. The two viewers keep nobody
waiting, so they implement the safety half; the two clients implement both.

### 2.1 `VdiWsClient`

State: `isRunning`, `reconnectIfConnLost`, `wsConn`, the source id of the reconnect timer (none,
live, or left over from a removed source), the green circle of the selector (`online`), and for
every connection of a finite set where it is in its life: connecting, cancelled with its callback
still to come, open, closing with its `closed` signal still to come, closed. A connection is reused
once nothing refers to it, so the set bounds how many live at one time, not how many there ever
were. An action is one callback of the main loop, in which the whole component runs.
`restart_ws_client` is `stop` followed by `start`, as in the code; `on_connection_ok` and
`on_connection_error` are the two outcomes of `vdi_ws_client_on_connection`; `peer_closes` is the
environment. `OnlineIsBacked` is about the green circle the selector shows: it is set when a
connection is made, and each way of losing one must take it back.

One would like the client to have one link at a time (`OneLink`). It has not: the callback of a
cancelled connect still comes after a restart, finds the client running and sets a reconnect timer
next to the new attempt. `OnlyLateCallbackDoubles` says which step is to blame: from one link the
client gets to two only in the callback of an attempt, or of a connection, that it had let go of. The
timer, the user's restarts and stops, failures and the broker's commands never do it, in any order.

### 2.2 `VdiSession`

State: which window is shown (`auth`, `mgr`, `vm`), the login worker with its position in
`vdi_session_log_in_task` and the addresses it has left, the token and the address it shares with
the main loop, the queued restart timers and 401 callbacks, the link, and the selector's requests,
each with its kind and stage. In `main = "posting"` the logout POST blocks the main loop, while
the login worker and the answers to requests go on. `CancelPendingRequests` is
`soup_session_abort`: it fails what is on the wire and misses whatever has not been sent yet, which
is the heart of the liveness half of `ImplementsWindows`: every login try and every wait of the
selector comes to an end wherever the abort finds the workers. `parse_login_response` may receive a token from one broker
after the user cancelled; `auth_request_end` looks at the *shared* token as the code does.

`WsNeedsLogin` (the web socket client runs only with the token and the address of the present
login) does not hold of the code: the half second timer set after a login (`vdi_session.c:803`) is
never removed, and after a logout or a 401 in that half second it starts the client without a login.
`OnlyTimerOutlivesLogin` says that this is the only step that breaks it: whatever a new login, a
401, the broker's DISCONNECT and the POST of a logout do, and however they interleave, a
client that runs for the present login goes on doing so or is stopped.

### 2.3 `RdpViewer`

State: `ex_context` and `job_thread` of the viewer (one of each, overwritten by the next session),
and for each session the position of its thread in `rdp_viewer_job_routine`, the abort flag, the
signal, the connection try and what the broker was told. `is_running`, `is_connecting` and
`is_disconnecting` are functions of that position because the thread alone writes them. `loop` says
which nested loop the main thread is in: `starting` is the box about forbidden folders, `dialog`
the error box of the clean up. When the clean up of a session meets the thread or context of
another one the model stops in `loop = "astray"`: what the program does from there on is undefined
(it joins a running thread or uses a freed context) and is not modelled. That state is reachable:
a logout that was ignored because `is_running` was not raised yet, or the error box of a session, lets
the user start the next session before the clean up of the first.

### 2.4 `UsbRedir`

State: the array of tasks, for each device the flag, port and position of its worker, the sockets
it holds and the request of its attaching thread; the dialog with its own list of states; the
detach-all request with the dialog that sent it; the quit and the end of the application. `flag` is
written by the worker (`launch_task`, `main_loop_left`), the attaching thread (`attach_usb`) and the
main loop (`start_task`, `stop_task`, `session_ends`, `usb_task_finished`, `deinit`). The callback of a task runs only after its thread function has
returned, whatever the function did after it set its result, so a worker that is done holds no
reference to the task any more.

The dialog is two things: the nested main loop of `usbredir_dialog_start`, which runs exactly while
`is_usb_tcp_window_shown` is set (`shown`), and its `window`. Only the OK and the close button end the
loop (`dialog_closed`; `usb_selector_widget.c:23-35`). The end of the session does not: its window is
hidden (`usb_selector_widget.c:210-215`) and destroyed with the parent (`:221`), and the loop goes on
without one (`window = "lost"`). Nobody can click in it or end it any more. The list it works on is not
freed, so the callbacks of tasks still keep it (`usb_task_finished`), and `DialogShowsTasks` holds of it
as of an open one. The menu refuses every later dialog (`rdp_viewer_window.c:378`), hence `dialog_start`
needs `~shown`. `LoopRuns` says when callbacks are dispatched: until `g_application_quit`
(`on_quit_requested`), and after it for as long as the nested loop goes on. A quit under an open dialog
is not possible, as the dialog is modal; under a lost one it is, and the process then never gets to
`deinit`. `QuitEnds` states that a quit ends the application with this one exception. The error box
that `rdp_viewer_work_thread_finished` may show before it destroys the windows is not a step of its
own: it is modal above the dialog, and the callbacks it lets through are handled in the same way before
and after `session_ends`.

`ResetGuardsItsDialog` is what the code keeps of "when the window is opened, first of all send the
request to delete all tcp usb" (`usbredir_controller.h:29-30`): the dialog that sent the request
does not let a device be attached before the answer. (It is proved and not part of a run.) A dialog
that was closed and opened again while the request is under way does (`resetOwner = "closed"`,
`sensitive`): the flag was lowered when the request was sent. The answer then works on the dialog that was closed, whose memory is freed.

### 2.5 `RdpClipboard`

State: the fields of `RdpClipboard` (`format`, `is_transfered`), the idle callbacks queued for the
main loop, the paste the main thread is blocked in, and the stack of requests it is serving: GTK runs
the main loop while it asks another application for its data, so `get_clipboard_data` can begin in
the middle of another one, or of a paste. Of the server it keeps which requests it has not answered,
in their order, and which of its own are owed an answer. Contents are abstracted to their kind.

The structure has one `format` and no number of a request. `WaitEndsByOwnAnswer` and
`OnlyNestingCrossesAnswers` say exactly how far that suffices: a paste takes the answer of another
one only if one before it gave up after its second, and an answer to the server is of a wrong format
only if a request or a paste ran inside of the one it belongs to. Both sides can wait for each other
(a paste in the main thread, a request of the server queued behind it); `MainThreadReturns` and
`EveryAskAnswered` hold because the wait is limited. The end of the session frees the structure;
callbacks that use it afterwards are undefined, and the model stops there (`freed`).

### 2.6 `VirtViewerApp`

State: the application's flags (`active`, `connected`, `cancelled`, `is_polling_enabled`,
`conn_try`, the timer of the next try), the session with its count of channels and those spice-gtk
has not destroyed yet, the machine asked for and the one connected to, the last event queued for the
broker, the windows and the boxes. `Deactivate`, `Disconnected` and `StopIfActive` are the calls the
handlers share; an action is one callback of the main loop.

Every way to stop the viewer asks `active`, which is FALSE between two tries: a stop in those three
seconds does nothing. The menu is reachable then, and so is a logout, which shows the login window
and leaves the timer. The history variable `stray` marks such a logout:
`OnlyPendingTryOutlivesLogin` and `ShowsRequestedVm` say that nothing else brings a viewer or a
selector back without a login, or connects to a machine other than the one asked for.
`BrokenSessionEnds` is about the count of channels: an error of the main channel counts it out before
its destruction does, and the session has ended when the count is 0.

### 2.7 `ControllerClient`

State: the tasks under way (their kind, how far their worker is, the protocol and token they go with,
whether they were cut by an abort), the queue of their callbacks, the token kept and the tokens the
controller honours, the two windows and the viewers. An action is what a click of the
user does, a step of a worker up to the next request or answer, or a callback. A logout aborts, then blocks the main loop in its POST
while the workers go on.

`fate` of a task says what the last logout did to it: cut it, or missed it. `StartBelongsToLogin`,
`ListBelongsToLogin` and `OnlyEscapedStartShowsSelector` say that only missed requests start a machine
or fill the list for a login that is over. `StartMatchesClick` is about the protocol: it is read when
the callback runs, so it is that of the click only while no other machine was asked for meanwhile.

### 2.8 `AppUpdater`

State: where each check and each update is, the two flags they read and raise in separate steps, the
password, the `state_changed` callbacks queued, and the windows: the login window, and the settings
dialog with its button, its password box and its error boxes, each of which runs a loop of its own.
The answer to a login ends the dialog's loop under its boxes (`ending`): it is closed when they are.
`UpdaterTypeOK` says among other things that no box outlives its dialog. `staleBox` and `turnedAway`
mark the two exceptions: the button is set from the value an error box was opened with, and an update
that met the flag of another one keeps its password. Two properties have no exception and are proved
without a run of their own: `FlagsHaveOwners` (a flag that is up has a task that will lower it, so the
next check or update is not turned away by nobody) and `ButtonComesBack` (a button that is off while
nothing is queued or shown is off for an update at work).

### 2.9 `NetSpeedometer`

State: the bytes each channel of the present session received, what the last check read and the speed
it sent, the address to ping and where the ping thread is. The counters wrap at `Modulus`, as the
64-bit ones of the program: a difference taken over the end of a session or a channel is enormous.
`SpeedIsPossible` says that this is the only case. `sent` keeps what arrived before the last check,
which the code does not know, to compare with. `SpiceReadBytes` reads the channels as the code does:
the last one of a type wins (`speed_sum`).

## 3. Runs

An `expect: violation` run checks a statement that a comment of the code makes and that the code does
not keep; `PROJECT.json`, `findings`, quotes it.

| Run | Instance | Distinct states | Question |
|---|---|---|---|
| `ws_client` | 4 connections | 2 286 | does the client stay clean under restarts and stops at any moment; does it implement the link; what makes two links |
| `rdp_viewer` | 2 sessions, 2 tries | 127 140 | windows, events and aborts, and do they keep `WindowFlow` |
| `vdi_session` | 2 tokens, 2 requests, 2 brokers, 1 timer and 1 queued 401 | 490 120 (with symmetry) | always a window, what makes the web socket run without a login |
| `vdi_session_live` | 1 request | 93 732 | does the session keep `WindowFlow`, liveness included: does every login and every wait of the selector end |
| `usb_redir` | 2 devices | 450 291 | dialog and tasks agree, workers release everything, a lowered flag ends the task, a quit ends the application |
| `usb_cancel` | 1 device | violation | does a cancelled redirection end |
| `virt_viewer_app` | 2 machines, 3 tries, 3 channels | 2 088 | does it keep `WindowFlow`; the right machine, the broker's view, starts and ends come to an end |
| `rdp_clipboard` | 1 text and 1 image format, 2 pastes, 2 requests of the server, 1 copy, 1 window, both directions allowed | 375 420 | do answers meet their requests, does every wait end |
| `controller_client` | 2 tasks at a time, 2 logins, direct SPICE and RDP | 583 481 | do lists and starts belong to their login and click; does it keep `WindowFlow`, liveness included |
| `app_updater` | 2 checks, 2 updates, 2 queued callbacks, 1 error box | 669 256 | boxes, password, button, and the outcome of a check |
| `net_speedometer` | 2 addresses, 2 channels, chunks of 6 up to 12 bytes | 180 602 | possible speeds, the quality of the machine shown, the end |
| `speed_sum` | as above | violation | is the speed that of all channels |

The longest takes about two minutes with two workers. The type invariant of every component is proved, and
so is every invariant and every action property that a passing run checks.

### 3.1 Bounds and why they are enough

* Connections, sessions, requests, tasks, checks and updates are reused after they ended: the bounds
  limit what is alive at one time. Two sessions are what it takes to have one finish while the next
  runs; four connections allow a restart, a cancelled connect, an open connection and a new one at
  once; two tasks of the controller are an old one and one of the next login, or two clicks; two
  checks and two updates are one that holds a flag and one that meets it.
* `MaxConnTry = 2` in `RdpViewer`, and 3 in `VirtViewerApp`, have a first, a middle (reset by a
  success) and a last try. Three channels are the main channel and two that come and go around it.
* Two brokers have a first and a last address; empty and malformed addresses are a choice of
  `auth_request`.
* Two tokens tell the token of this login from that of the last one; a broker never hands out one
  that is in use. Two logins to the controller do the same.
* One restart timer and one queued 401 are enough for every property here: a second one only does
  the same again. They bound the guard of the actions that queue them.
* Two pastes and two requests are a late answer and the one it meets, or an outer and a nested
  request. One window of the session: more only matter for which of them has the focus.
* `MaxIdles` and `MaxBoxes` of `AppUpdater` bound the guards of the actions that queue and open
  them: two callbacks are the rise and the fall of the flag.
* `Modulus = 64` is above every counter of the instance, as the code's is, and a wrapped difference is
  still far above what arrived.
* Symmetry is used only where no liveness is checked.

### 3.2 Fairness

Worker threads run (weak fairness of each step), libsoup answers or times out (its timeout is set
in `vdi_session` and in `controller_session`), and the main loop dispatches what is queued. No user
action is fair anywhere.

* `VdiSession`: a callback can be put off by the POST of a logout any number of times, so the
  callbacks get strong fairness: a GLib main loop does not starve a source for ever.
* `RdpViewer`: `freerdp_connect` and `freerdp_disconnect` are assumed to return; the code itself says
  that they may hang (`rdp_viewer.c:574`), and nothing in it can prevent that.
* `UsbRedir`: nothing makes the VM connect to the socket or close it. Callbacks are fair only while a
  main loop runs, and the process runs to its end once none does.
* The link: `BrokerFairness` assumes of the broker that it accepts some time if it is tried again and
  again (strong fairness of `on_connection_ok`); that it *is* tried again is what the code has to show.
* `VirtViewerApp`: the timer of the next try fires, a connection attempt has some outcome, and
  spice-gtk follows an error of the main channel with its end and destroys the channels it was told to
  disconnect. Box answers are not fair: `StartSettles` counts an open box as settled.
* `RdpClipboard`: the limited wait ends by its signal or its time-out, the main loop runs its idle
  callbacks, and the owner of the local clipboard answers. Nothing makes the server answer.
* `ControllerClient`: every worker ends (20 s time-out) and the main loop runs the callbacks; the POST
  of a logout is part of the main loop and ends the same way.
* `AppUpdater`: the workers' commands end, and the queued callbacks run.
* `NetSpeedometer`: the ping thread goes on, its command ends, and the join returns when it has ended.

## 4. Proofs

Each `*_proofs` module EXTENDS its component and proves, for arbitrary constants that satisfy the
assumptions the component names, an inductive invariant and from it the properties:

* **`VdiWsClient_proofs`**: `IInv` is the type invariant with `WsConnInv` (`ws_conn` refers to
  nothing while the client is stopped, and otherwise to a connection that was made), `TimerInv` (a
  running client may reconnect, and no source id left over from a removed timer stops it from
  setting another), `NothingPendingWhenStopped` and `NeverStranded` (a running client has a
  connection, an attempt or a timer).
  `OnlineIsBacked` needs no more than its own induction. `RefinesLink` shows that every step is a
  step of `WsLink` or a stutter. `OnlyLateCallbackDoubles` rests on the lemma that a stop closes or
  cancels everything that was a link.
* **`RdpViewer_proofs`**: `NeverWindowless` is not inductive. It needs `BoxInv` (a nested loop
  belongs to a session that has no thread, or whose thread ended), `SilentInv` (a session that was
  told to end without a signal has a login window beside it) and `NoEarlyReturn`. `AnnounceInv`
  (what a session was told agrees with `is_connected_last_time`) gives the action property
  `DisconnectFollowsConnect`.
* **`VdiSession_proofs`**: `OneWorkerPerTry` (a login worker, or its callback, exists exactly while
  the login window waits) and `NeverWindowless` are inductive together with the
  types. The lemmas say what an abort, a stop of the link and `ThrowOut` preserve.
  `OnlyTimerOutlivesLogin` needs `LoginInv`: a worker that has not read its token runs without an
  address, the login window and a logout about to show it never come with both a token and an
  address, and during the POST of a logout the client is stopped. Without it a new worker, which
  drops the address first and the token after it, could do so under a running client.
* **`UsbRedir_proofs`**: `WorkerPerTask` (a worker runs exactly for the tasks in the array),
  `AttachIsJoined` (an attaching thread runs only while its worker is to join it) and `ReleasedInv`
  carry `DialogShowsTasks` and `WorkerReleasesAll`. `LoopOfDialog` (the flag is up exactly while the
  window is open or lost; after a quit, lost) is needed for a click to come from a dialog whose list
  is kept, and gives the safety half of `QuitEnds`. `ResetGuardsItsDialog` is inductive by itself.
* **`VirtViewerApp_proofs`**: `LinkOK` ties the session to the flags and the count (a session that got
  anywhere is active, a session under way has channels to wait for, no more are counted than live);
  `WindowOK` says that the login window and the login are one, and that the viewer is at work beside
  another window only after a logout met a pending try. With these every property of the run that is
  a safety property is proved, `EveryStartTakes` from `LinkOK`: in the selector nothing of a session is
  left but, at most, one whose activation was refused.
* **`RdpClipboard_proofs`**: two invariants for two directions. `PasteInv`: while no paste gave up,
  the one request under way is the one the main thread waits for. `AskInv`: while no format was
  changed inside of a request, every request owed is queued or being served, once and in order, and
  the format is that of the one being served.
* **`ControllerClient_proofs`**: `IInv` is the type invariant with what holds of the tasks after a
  logout: `CutFails` and `Unanswered` (a request for a machine that was cut brings no data),
  `OutlivesNoLogin` and `BlockedLogout` (without a login, or in the POST of a logout, every request
  under way bears the mark of the logout), `OneLogin` (a login under way is alone, and its answer
  comes with the token that is kept), `OneUser` (the login window is open exactly without a user, and
  requests without the mark went out with the user's token), `ChosenAsClicked` (without a
  rival the protocol is still the one of the click) and `OldListsFirst`: the answers of an earlier
  login stand in the queue before the answer of the next one, so they are shown, and cleared, before
  anyone of the next login looks.
* **`Background_proofs`**, for the meter: `CounterAhead` (while no channel was closed, the counter has
  not gone back behind what was read last, and has gained no more than what arrived since) gives
  `SpeedIsPossible` for every modulus above the counters; `ThreadWaitedFor` (the meter is freed only
  after the thread has ended) gives `NothingUsedAfterFree`. For the updater: `PasswordInUse` (a
  password that is kept, and that no refused update left behind, is that of an update that has yet to
  clear it), `FlagsHaveOwners` and `ButtonInformed` (where nothing queued or open will set the button, it
  is as it should be) are inductive together with the types, and give `PasswordForgotten`,
  `ButtonFollowsUpdate` and `ButtonComesBack`, for any number of checks, updates, callbacks and boxes.

### 4.1 Refinements

| Theorem | Shows | Rests on |
|---|---|---|
| `VdiWsClient_proofs!RefinesLink` | the client implements `WsLink!Safe` | `IInv` |
| `VdiSession_proofs!RefinesLink` | the session uses its web socket only as `WsLink` allows | no invariant: the handlers use the link by its own steps, all others leave it alone |
| `VdiSession_proofs!RefinesWindows` | the session implements `WindowFlow!Safe` | `IInv`: a login that is accepted has its window still in the try |
| `ControllerClient_proofs!RefinesWindows` | the same of the controller client | `OneLogin`: the answer to a login finds its window in the try |
| `RdpViewer_proofs!RefinesWindows` | the RDP viewer implements `WindowFlow!Safe`, which is all of its `ImplementsWindows` | `IInv`: a session without a signal has a window beside it |
| `VirtViewerApp_proofs!RefinesWindows` | the same of the SPICE viewer | `RunsShown`: a viewer that is active or waits for its next try is on the screen |
| `VdiSession_proofs!WindowsSeen` | `SomeWindow` and `WaitsOnlyShown` of `WindowFlow`, carried back to the session | the refinement and an induction in `WindowFlow` alone |

Each has one lemma for each group of handlers that says which step of the abstract module it is, or
that it is none.

### 4.2 What liveness rests on

Liveness itself is TLC's. What the code has to contribute to it, apart from being scheduled, is that
nothing leads a thread, a try or a request away from its end. That part is an action property, which is
proved for every value of the constants:

| Theorem | Liveness property | What only goes down |
|---|---|---|
| `RdpViewer_proofs!AbortAdvances` | `AbortEndsSession` | while the thread runs an abort is not taken back, and each step of the thread is one towards its end |
| `VdiSession_proofs!LoginAdvances` | `ImplementsWindows`, the login try | the addresses left, and with each the steps of the worker, whatever an abort cuts or misses |
| `UsbRedir_proofs!LoweredFlagAdvances` | `LoweredFlagEnds` | a flag stays down once the worker reads it, and the worker goes forward only |
| `VirtViewerApp_proofs!TriesUsedUp` | `StartSettles` | the tries left, the timer of this one, the password to be sent again |
| `VirtViewerApp_proofs!LostSessionEnds` | `BrokenSessionEnds` | the count of channels, which is at least 1 and never above the channels still to be destroyed |
| `ControllerClient_proofs!TaskAdvances` | `ImplementsWindows`, the waits | the stages of a task; only its own callback, in its turn, takes it away |

### 4.3 What stays with TLC

Only liveness: `ImplementsLink` and, for the two clients, `ImplementsWindows` in their liveness halves,
`AbortEndsSession`, `WsFollowsLogin`, `LoweredFlagEnds`, `QuitEnds`, `StartSettles`, `BrokenSessionEnds`,
`MainThreadReturns`, `EveryAskAnswered`, `WindowIsTold`, `QualityCatchesUp` and `MeterGoes`. The prover
has no rules for `ENABLED`, hence none for fairness. `ButtonComesBack`, `FlagsHaveOwners`,
`ResetGuardsItsDialog`, the action properties of 4.2 and `RefinesLink` of the session are proved and
not part of a run.

## 5. Where the code and its comments disagree

Two comments are refuted by a run:

| Run | In short |
|---|---|
| `usb_cancel` | a stop before the worker began is undone by the worker (`usbredirserver_lin.c:387`) |
| `speed_sum` | "we sum" the channels of one type, but each overwrites the one before (`virt-viewer-session-spice.c:1271-1285`) |

The models reach other behaviours a maintainer should know of. They are not runs of their own, but
the properties above name them as the exceptions they are, or `hazards` lists them:

* a restart of the web socket client while a connect is cancelled gives two reconnects (2.1);
* a VM answer that was under way opens the VM after a 401 (`vdi_manager.c:344`);
* a logout before `is_running` is raised is dropped, and the RDP session ends in the selector
  (`rdp_viewer.c:562`);
* a session that was connected and failed to reconnect sends no DISCONNECT (`rdp_viewer.c:401`);
* a USB dialog that is open when its RDP session ends loses its window but not its loop: the flag stays
  up, no USB dialog can be opened again until the program is restarted ("do not show if already open",
  `rdp_viewer_window.c:377`, while none is), and a quit leaves the process running without a window,
  its tasks without `usbredir_controller_deinit_static` (`usb_selector_widget.c:210`);
* the USB port of a new task can be one an older task still listens at (`usbredir_controller.c:115`);
* a disconnect, a quit or a logout between two tries of the SPICE viewer does not end the tries
  (`virt-viewer-app.c:1403`);
* of the windows of an RDP session only the last one's focus is looked at (`rdp_clipboard.c:722`):
  a copy made on the server while another one has the focus is taken for a local one;
* the second request of direct SPICE that fails leaves the address of the first
  (`controller_session.c:486`).

## 6. What is not modelled

* In `VdiSession`: the start with a previous pool, Windows SSO login, the direct
  mode, the application selector, actions on a VM; the pools and texts themselves.
* In `RdpViewer`: the dialog that asks for credentials, certificates, everything drawn, and the
  program after it went `astray`.
* In `RdpClipboard`: what is done to the structure after it was freed. Two steps are coarser than the
  code: the main loop that GTK runs while the local formats are listed (`rdp_clipboard.c:431`) is not a
  step of its own, as no field the properties read changes there, and a request for an image makes one
  paste, where GTK may try several image targets one after the other.
* In `VirtViewerApp`: displays and monitors, USB and file transfer over SPICE, migration, and the VNC
  session, which nothing in the program starts.
* In `UsbRedir`: the Windows worker (`usbredirserver_win.c`), spice USB, the determination of the
  thin client's address, and the time between the free of the tasks at the exit and the end of the
  process.
* In `ControllerClient`: what a viewer does with the address it was given.
* In `AppUpdater`: the Windows build, which downloads an installer. In `NetSpeedometer`: the counters of
  FreeRDP and the ping of the Windows build.
* About half of the lines under `src/src/` are generated data (`virt-viewer-resources.c`), and most of
  the rest is GTK layout, drawing, parsing, or vendored code; `PROJECT.json` gives the reason for each
  part. They keep no state in which an interleaving or a failure decides anything, or keep it in
  another program.

## 7. Plan

Done: all modules of section 2, their proofs, and `WindowFlow`, the contract between the components
that share the screen. What would add most, in this order:

1. A composition over the signals of `remote-viewer.c`: one module in which `VdiSession` opens either
   viewer, so that what `WindowFlow` promises of each part is shown of the whole, the token and the
   machine included.
2. `VdiSession` with a pool per request and the settings dialog that replaces the list of brokers.
3. `RdpImage`: the image buffer and its invalid region between the RDP thread and the drawing code.
4. `LoudplayControlServer` and `VdiEvents`: events to the broker in order.
5. Pure algorithms as functions: version comparison, the comma separated list of brokers, the choice
   of monitors.
