----------------------------- MODULE VdiSession -----------------------------
(***************************************************************************)
(* A user's session with the VDI broker: the login window                  *)
(* (remote-viewer-connect.c), the login worker and the requests of         *)
(* vdi_session.c, the VM selector (vdi_manager.c) and the hand-over        *)
(* between the windows (remote-viewer.c).                                  *)
(*                                                                         *)
(* Worker threads share the token, the address and the soup session with   *)
(* the main loop.  Nothing ties a worker, its callback or the restart      *)
(* timer of the web socket to the login it was started under: aborting the *)
(* soup session only reaches requests that are on the wire.                *)
(***************************************************************************)
EXTENDS Naturals

CONSTANTS
    Tokens,        \* Bound: tokens the broker hands out, reused once forgotten
    NoToken,       \* the NULL of jwt
    Reqs,          \* Bound: requests of the selector alive at one time
    MaxAddresses,  \* length of broker_addresses_list
    MaxPending     \* Bound: restart timers, and 401 idles, queued at one time

ASSUME TokensAssumption == NoToken \notin Tokens
ASSUME BoundsAssumption == MaxAddresses \in Nat \ {0} /\ MaxPending \in Nat \ {0}

VARIABLES
    auth,           \* the login window: closed, or its auth_dialog_state
    mgr,            \* the selector: closed, or its VdiClientState
    vm,             \* a VM is shown
    main,           \* the main loop runs, blocks in the logout POST, or has ended
    worker,         \* where the login worker is
    left,           \* addresses it has not tried
    cancelled,      \* login_cancellable
    jwt,            \* the token
    loggedAddress,  \* current_logged_address is set
    timers,         \* queued vdi_api_session_restart_vdi_ws_client timers
    authFails,      \* queued auth_fail_detected idles
    wsOn, wsUp,     \* the web socket client, as WsLink describes it
    wsToken,        \* the token in its URL
    kind, stage     \* the requests of the selector

windowVars == <<auth, mgr, vm>>
loginVars == <<worker, left, cancelled>>
wsVars == <<wsOn, wsUp, wsToken>>
reqVars == <<kind, stage>>
vars == <<windowVars, main, loginVars, jwt, loggedAddress, timers, authFails,
          wsVars, reqVars>>

\* begin: log_in_task is scheduled; loop: before an address; sent: POST /auth is on
\* the wire; parsed: the reply was read; after: the loop was left; asking: GET
\* /version is on the wire; callback: the task's callback is queued.
Workers == {"none", "begin", "loop", "sent", "parsed", "after", "version", "asking",
            "callback"}

Kinds == {"none", "pool", "vm", "favorite"}

\* started: the task's thread has sent nothing; ok, failed: the callback is queued.
Stages == {"free", "started", "sent", "ok", "failed"}

TypeOK ==
    /\ auth \in {"off", "default", "try"}
    /\ mgr \in {"off", "received", "pool", "vm"}
    /\ vm \in BOOLEAN
    /\ main \in {"loop", "posting", "closed"}
    /\ worker \in Workers
    /\ left \in 0 .. MaxAddresses
    /\ cancelled \in BOOLEAN
    /\ jwt \in Tokens \cup {NoToken}
    /\ loggedAddress \in BOOLEAN
    /\ timers \in 0 .. MaxPending
    /\ authFails \in 0 .. MaxPending
    /\ wsOn \in BOOLEAN
    /\ wsUp \in BOOLEAN
    /\ wsToken \in Tokens \cup {NoToken}
    /\ kind \in [Reqs -> Kinds]
    /\ stage \in [Reqs -> Stages]

Init ==
    /\ auth = "default" /\ mgr = "off" /\ vm = FALSE
    /\ main = "loop"
    /\ worker = "none" /\ left = 0 /\ cancelled = FALSE
    /\ jwt = NoToken
    /\ loggedAddress = FALSE
    /\ timers = 0 /\ authFails = 0
    /\ wsOn = FALSE /\ wsUp = FALSE /\ wsToken = NoToken
    /\ kind = [r \in Reqs |-> "none"]
    /\ stage = [r \in Reqs |-> "free"]

\* The web socket client, specified apart; VdiWsClient implements this.
Link == INSTANCE WsLink WITH on <- wsOn, up <- wsUp

-----------------------------------------------------------------------------
(* vdi_session.c: what an abort, a restart and a logout do.                *)

\* soup_session_abort: what is on the wire fails at once, anything else is missed.
WorkerAfterAbort ==
    CASE worker = "sent"   -> "parsed"
      [] worker = "asking" -> "callback"
      [] OTHER             -> worker

StagesAfterAbort == [r \in Reqs |-> IF stage[r] = "sent" THEN "failed" ELSE stage[r]]

\* vdi_session_cancel_pending_requests
CancelPendingRequests == worker' = WorkerAfterAbort /\ stage' = StagesAfterAbort

\* vdi_ws_client_stop
StopWs ==
    /\ IF wsOn THEN Link!SwitchOff ELSE UNCHANGED <<wsOn, wsUp>>
    /\ wsToken' = NoToken

\* The timer of a login fires: restart with the present token and address.  The
\* URL of a client without an address may be refused.
restart_vdi_ws_client ==
    /\ main = "loop"
    /\ timers > 0
    /\ timers' = timers - 1
    /\ \/ Link!SwitchOn /\ wsToken' = jwt
       \/ ~loggedAddress /\ StopWs
    /\ UNCHANGED <<windowVars, main, loginVars, jwt, loggedAddress, authFails, reqVars>>

\* A mutant of ThrowOut: the login window is shown if the selector was open.
ThrowOutOfSelector ==
    /\ vm' = FALSE
    /\ mgr' = "off"
    /\ auth' = IF auth = "off" /\ mgr # "off" THEN "default" ELSE auth

\* "logged-out", or the DISCONNECT command, reaches on_logged_out of remote-viewer.c:
\* it ends the VM, hides the selector and shows the login window unless it is shown.
ThrowOut ==
    /\ vm' = FALSE
    /\ mgr' = "off"
    /\ auth' = IF auth = "off" THEN "default" ELSE auth

\* A mutant of Logout: the web socket client is left alone.
LogoutWithoutStop ==
    /\ CancelPendingRequests
    /\ loggedAddress' = FALSE
    /\ IF jwt # NoToken
       THEN main' = "posting" /\ UNCHANGED windowVars
       ELSE ThrowOut /\ UNCHANGED main
    /\ UNCHANGED <<left, cancelled, jwt, timers, kind, wsVars>>

\* vdi_session_logout: with a token it blocks the main loop in a POST; without one
\* the caller goes on at once.
Logout ==
    /\ StopWs
    /\ CancelPendingRequests
    /\ loggedAddress' = FALSE
    /\ IF jwt # NoToken
       THEN main' = "posting" /\ UNCHANGED windowVars
       ELSE ThrowOut /\ UNCHANGED main
    /\ UNCHANGED <<left, cancelled, jwt, timers, kind>>

\* The POST has returned, and with 200 the token, whichever it is by now, is
\* forgotten.  The selector's job ends with another abort.
logout_finished ==
    /\ main = "posting"
    /\ main' = "loop"
    /\ jwt' \in {jwt, NoToken}
    /\ ThrowOut
    /\ IF mgr # "off" THEN CancelPendingRequests ELSE UNCHANGED <<worker, stage>>
    /\ UNCHANGED <<left, cancelled, loggedAddress, timers, authFails, wsVars, kind>>

-----------------------------------------------------------------------------
(* The login worker: vdi_session_log_in_task.                              *)

loginFrame == <<windowVars, main, cancelled, wsVars, reqVars>>

\* The process, and with it the worker, ends when the main loop has.
At(w) == main # "closed" /\ worker = w

log_in_begin ==
    /\ At("begin")
    /\ loggedAddress' = FALSE
    /\ worker' = "loop"
    /\ UNCHANGED <<loginFrame, left, jwt, timers, authFails>>

\* The next address: the token is dropped and POST /auth goes out.  An empty address
\* is passed over, one that makes no URL after the token was dropped.
auth_request ==
    /\ At("loop")
    /\ ~cancelled /\ left > 0
    /\ left' = left - 1
    /\ \/ worker' = "sent" /\ jwt' = NoToken
       \/ UNCHANGED worker /\ jwt' \in {jwt, NoToken}
    /\ UNCHANGED <<loginFrame, loggedAddress, timers, authFails>>

loop_left ==
    /\ At("loop")
    /\ cancelled \/ left = 0
    /\ worker' = "after"
    /\ UNCHANGED <<loginFrame, left, jwt, loggedAddress, timers, authFails>>

\* The broker's reply carries a token it did not hand out before, or an error.
parse_login_response ==
    /\ At("sent")
    /\ worker' = "parsed"
    /\ \/ jwt' \in Tokens \ {jwt, wsToken}
       \/ UNCHANGED jwt
    /\ UNCHANGED <<loginFrame, left, loggedAddress, timers, authFails>>

\* auth_request looks at the shared token again.
auth_request_end ==
    /\ At("parsed")
    /\ IF jwt # NoToken
       THEN worker' = "after" /\ loggedAddress' = TRUE
       ELSE worker' = "loop" /\ UNCHANGED loggedAddress
    /\ UNCHANGED <<loginFrame, left, jwt, timers, authFails>>

\* A mutant of after_loop: the timer is set for the first address only.
TimerOnFirstAddressOnly ==
    /\ At("after")
    /\ worker' = "version"
    /\ timers' = IF jwt # NoToken /\ loggedAddress /\ timers < MaxPending
                    /\ left = MaxAddresses - 1
                 THEN timers + 1 ELSE timers
    /\ UNCHANGED <<loginFrame, left, jwt, loggedAddress, authFails>>

\* "Connect to ws if token received": the half second timer.
after_loop ==
    /\ At("after")
    /\ worker' = "version"
    /\ timers' = IF jwt # NoToken /\ loggedAddress /\ timers < MaxPending
                 THEN timers + 1 ELSE timers
    /\ UNCHANGED <<loginFrame, left, jwt, loggedAddress, authFails>>

request_version ==
    /\ At("version")
    /\ worker' = IF jwt = NoToken THEN "callback" ELSE "asking"
    /\ UNCHANGED <<loginFrame, left, jwt, loggedAddress, timers, authFails>>

\* A 401 answer to any request queues the idle.
MayBeUnauthorized ==
    \/ UNCHANGED authFails
    \/ authFails < MaxPending /\ authFails' = authFails + 1

\* A mutant of version_answered: a 401 ends the worker without its callback.
VersionUnauthorizedReturns ==
    /\ At("asking")
    /\ MayBeUnauthorized
    /\ worker' = IF authFails' > authFails THEN "none" ELSE "callback"
    /\ UNCHANGED <<loginFrame, left, jwt, loggedAddress, timers>>

version_answered ==
    /\ At("asking")
    /\ worker' = "callback"
    /\ MayBeUnauthorized
    /\ UNCHANGED <<loginFrame, left, jwt, loggedAddress, timers>>

LoginWorker ==
    \/ log_in_begin \/ auth_request \/ loop_left \/ parse_login_response
    \/ auth_request_end \/ after_loop \/ request_version \/ version_answered

-----------------------------------------------------------------------------
(* The selector's requests: worker threads.                                *)

taskFrame == <<windowVars, main, loginVars, jwt, loggedAddress, timers, wsVars>>

\* vdi_session_api_call: nothing is sent without a token.
api_call(r) ==
    /\ main # "closed" /\ stage[r] = "started"
    /\ stage' = [stage EXCEPT ![r] = IF jwt = NoToken THEN "failed" ELSE "sent"]
    /\ UNCHANGED <<taskFrame, kind, authFails>>

api_call_answered(r) ==
    /\ main # "closed" /\ stage[r] = "sent"
    /\ \/ stage' = [stage EXCEPT ![r] = "ok"] /\ UNCHANGED authFails
       \/ stage' = [stage EXCEPT ![r] = "failed"] /\ MayBeUnauthorized
    /\ UNCHANGED <<taskFrame, kind>>

\* A task for request r is run, after what the caller did to the others.
StartTask(r, k, stages) ==
    /\ stage[r] = "free"
    /\ kind' = [kind EXCEPT ![r] = k]
    /\ stage' = [stages EXCEPT ![r] = "started"]

\* refresh_vdi_pool_data_async: abort, then ask for the pools.
RefreshPools(r) ==
    /\ worker' = WorkerAfterAbort
    /\ StartTask(r, "pool", StagesAfterAbort)
    /\ mgr' = "pool"

-----------------------------------------------------------------------------
(* The login window.                                                       *)

\* handle_connect_request
connect_to_vdi_server ==
    /\ main = "loop" /\ auth = "default"
    /\ auth' = "try"
    /\ worker' = "begin" /\ left' = MaxAddresses /\ cancelled' = FALSE
    /\ UNCHANGED <<mgr, vm, main, jwt, loggedAddress, timers, authFails, wsVars, reqVars>>

btn_cancel_auth_clicked ==
    /\ main = "loop" /\ auth = "try"
    /\ cancelled' = TRUE
    /\ CancelPendingRequests
    /\ UNCHANGED <<windowVars, main, left, jwt, loggedAddress, timers, authFails,
                   wsVars, kind>>

\* The worker's callback: a token, whoever received it, opens the selector; one that
\* is shown already is left as it is.
on_log_in_finished(r) ==
    /\ main = "loop" /\ worker = "callback"
    /\ worker' = "none" /\ left' = 0 /\ cancelled' = FALSE
    /\ IF jwt = NoToken
       THEN /\ auth' = "default"
            /\ UNCHANGED <<mgr, reqVars>>
       ELSE /\ auth' = "off"
            /\ IF mgr = "off"
               THEN StartTask(r, "pool", StagesAfterAbort) /\ mgr' = "pool"
               ELSE UNCHANGED <<mgr, reqVars>>
    /\ UNCHANGED <<vm, main, jwt, loggedAddress, timers, authFails, wsVars>>

-----------------------------------------------------------------------------
(* The selector.                                                           *)

mgrFrame == <<auth, vm, main, left, cancelled, jwt, loggedAddress, timers, authFails,
              wsVars>>

\* The update button; pool_entitlement_changed, sent by the broker, does the same.
refresh(r) ==
    /\ main = "loop"
    /\ mgr # "off" /\ (mgr = "received" \/ wsUp)
    /\ RefreshPools(r)
    /\ UNCHANGED mgrFrame

\* The start button of a pool.
get_vm_from_pool(r) ==
    /\ main = "loop" /\ mgr = "received"
    /\ StartTask(r, "vm", stage)
    /\ mgr' = "vm"
    /\ UNCHANGED <<mgrFrame, worker>>

set_pool_favorite(r) ==
    /\ main = "loop" /\ mgr = "received"
    /\ StartTask(r, "favorite", stage)
    /\ UNCHANGED <<mgrFrame, worker, mgr>>

\* The cancel button, which works while a request is awaited.
cancel_requests ==
    /\ main = "loop" /\ mgr \in {"pool", "vm"}
    /\ CancelPendingRequests
    /\ UNCHANGED <<mgrFrame, mgr, kind>>

Answered(r, k) ==
    /\ main = "loop"
    /\ kind[r] = k /\ stage[r] \in {"ok", "failed"}

\* on_vdi_session_get_vdi_pool_data_finished: right or wrong, the controls work again.
on_pool_data_finished(r) ==
    /\ Answered(r, "pool")
    /\ mgr' = IF mgr = "off" THEN mgr ELSE "received"
    /\ kind' = [kind EXCEPT ![r] = "none"]
    /\ stage' = [stage EXCEPT ![r] = "free"]
    /\ UNCHANGED <<mgrFrame, worker>>

\* The favorite task has no callback.
favorite_done(r) ==
    /\ main # "closed"
    /\ kind[r] = "favorite" /\ stage[r] \in {"ok", "failed"}
    /\ kind' = [kind EXCEPT ![r] = "none"]
    /\ stage' = [stage EXCEPT ![r] = "free"]
    /\ UNCHANGED <<mgrFrame, worker, mgr>>

vm_refused(r) ==
    /\ Answered(r, "vm") /\ stage[r] = "failed"
    /\ mgr' = IF mgr = "off" THEN mgr ELSE "received"
    /\ kind' = [kind EXCEPT ![r] = "none"]
    /\ stage' = [stage EXCEPT ![r] = "free"]
    /\ UNCHANGED <<mgrFrame, worker>>

\* A VM was received: the selector, if it is shown, ends its job (and aborts), and
\* the VM is connected to in any case.
go_to_vm(r) ==
    /\ Answered(r, "vm") /\ stage[r] = "ok"
    /\ mgr' = "off"
    /\ vm' = TRUE
    /\ kind' = [kind EXCEPT ![r] = "none"]
    /\ IF mgr = "off"
       THEN stage' = [stage EXCEPT ![r] = "free"] /\ UNCHANGED worker
       ELSE stage' = [StagesAfterAbort EXCEPT ![r] = "free"] /\ worker' = WorkerAfterAbort
    /\ UNCHANGED <<auth, main, left, cancelled, jwt, loggedAddress, timers, authFails,
                   wsVars>>

\* on_vm_connection_finished: vdi_manager_show, which asks for the pools.
vm_connection_finished(r) ==
    /\ main = "loop" /\ vm
    /\ vm' = FALSE
    /\ IF mgr = "off" THEN RefreshPools(r) ELSE UNCHANGED <<mgr, worker, reqVars>>
    /\ UNCHANGED <<auth, main, left, cancelled, jwt, loggedAddress, timers, authFails,
                   wsVars>>

-----------------------------------------------------------------------------
(* The ends of a session.                                                  *)

\* The quit button of the selector.
button_quit_clicked ==
    /\ main = "loop" /\ mgr = "received"
    /\ Logout
    /\ UNCHANGED authFails

\* The broker's DISCONNECT command.
ws_disconnect ==
    /\ main = "loop" /\ wsUp
    /\ Logout
    /\ UNCHANGED authFails

auth_fail_detected ==
    /\ main = "loop" /\ authFails > 0
    /\ authFails' = authFails - 1
    /\ Logout

\* The window is closed, or the application ends otherwise.
quit ==
    /\ main = "loop"
    /\ main' = "closed"
    /\ UNCHANGED <<windowVars, loginVars, jwt, loggedAddress, timers, authFails,
                   wsVars, reqVars>>

\* The link comes and goes (see VdiWsClient); a broker accepts no URL without a token.
ws_link ==
    /\ main = "loop"
    /\ \/ wsToken # NoToken /\ Link!Establish
       \/ Link!Lose
    /\ UNCHANGED <<windowVars, main, loginVars, jwt, loggedAddress, timers, authFails,
                   wsToken, reqVars>>

-----------------------------------------------------------------------------
SessionEnds == button_quit_clicked \/ ws_disconnect \/ auth_fail_detected

Request(r) ==
    \/ api_call(r) \/ api_call_answered(r)
    \/ refresh(r) \/ get_vm_from_pool(r) \/ set_pool_favorite(r)
    \/ on_pool_data_finished(r) \/ favorite_done(r) \/ vm_refused(r)
    \/ go_to_vm(r) \/ vm_connection_finished(r)
    \/ on_log_in_finished(r)

\* Nothing happens any more once the application has ended.
application_ended == main = "closed" /\ UNCHANGED vars

\* Every step but those that leave the session.
Inside ==
    \/ LoginWorker
    \/ connect_to_vdi_server \/ btn_cancel_auth_clicked
    \/ restart_vdi_ws_client \/ ws_link
    \/ cancel_requests
    \/ \E r \in Reqs : Request(r)
    \/ logout_finished
    \/ quit
    \/ application_ended

Next == Inside \/ SessionEnds

\* Threads run and soup answers within its timeout.  The main loop dispatches what
\* is queued; a callback that is due is only put off while the logout POST blocks
\* the loop, hence the strong fairness.
Fairness ==
    /\ WF_vars(LoginWorker)
    /\ \A r \in Reqs : WF_vars(api_call(r) \/ api_call_answered(r))
    /\ WF_vars(logout_finished)
    /\ SF_vars(restart_vdi_ws_client)
    /\ SF_vars(\E r \in Reqs : on_log_in_finished(r))
    /\ \A r \in Reqs : SF_vars(on_pool_data_finished(r) \/ vm_refused(r)
                                  \/ go_to_vm(r) \/ favorite_done(r))

Spec == Init /\ [][Next]_vars /\ Fairness

-----------------------------------------------------------------------------
(* Properties.                                                             *)

\* A login worker, or its callback, exists exactly while the login window shows the
\* connect state: there are never two workers writing the token, and the callback
\* never finds the window gone or busy with another try.
OneWorkerPerTry == worker # "none" <=> auth = "try"

\* The user is never left without a window.
NeverWindowless == auth # "off" \/ mgr # "off" \/ vm

\* What the user sees of it.
LoginShown ==
    CASE main = "closed" \/ auth = "off" -> "hidden"
      [] main # "closed" /\ auth = "try" -> "trying"
      [] OTHER -> "shown"

Windows == INSTANCE WindowFlow WITH
    login    <- LoginShown,
    selector <- main # "closed" /\ mgr # "off",
    viewer   <- main # "closed" /\ vm,
    waiting  <- main # "closed" /\ mgr \in {"pool", "vm"},
    ended    <- main = "closed"

\* The windows come and go as remote-viewer.c connects them, and, whatever is cancelled,
\* aborted, answered with 401 or logged out, and wherever the abort of the soup session
\* finds the workers: a login try ends, and a selector that waits for an answer becomes
\* usable again or is left.
ImplementsWindows == Windows!Spec

\* A token received at an address is followed by a web socket that carries it,
\* unless it is lost by then.
WsFollowsLogin ==
    \A t \in Tokens :
        (jwt = t /\ loggedAddress)
            ~> (wsOn /\ wsToken = t) \/ jwt # t \/ ~loggedAddress \/ main = "closed"

\* The web socket client runs for a session that has a token and an address.
WsNeedsLogin == wsOn => loggedAddress /\ wsToken # NoToken /\ wsToken = jwt

\* "Connect to ws if token received" (vdi_session.c, vdi_session_log_in_task): nothing
\* but the timer set there, firing after the login was lost, makes the client run
\* without the login it was started for, however a new login, a 401, the broker's
\* DISCONNECT and the logout POST interleave.
OnlyTimerOutlivesLogin ==
    [][WsNeedsLogin => \/ WsNeedsLogin'
                       \/ timers' < timers /\ (jwt = NoToken \/ ~loggedAddress)]_vars

=============================================================================
