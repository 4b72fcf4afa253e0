------------------------- MODULE VdiSession_proofs -------------------------
(***************************************************************************)
(* Proofs about VdiSession, for every set of tokens and requests and every *)
(* length of the address list.                                             *)
(***************************************************************************)
EXTENDS VdiSession, TLAPS

\* The three invariants strengthen each other: they are inductive together.
IInv ==
    /\ TypeOK
    /\ OneWorkerPerTry
    /\ NeverWindowless

-----------------------------------------------------------------------------
\* The bounds of the counters.
LEMMA Bounds == 0 \in 0 .. MaxAddresses /\ MaxAddresses \in 0 .. MaxAddresses /\ 0 \in 0 .. MaxPending
BY BoundsAssumption

\* An abort moves no worker to or from "none".
LEMMA AbortTyped ==
    ASSUME TypeOK
    PROVE  /\ WorkerAfterAbort \in Workers
           /\ WorkerAfterAbort = "none" <=> worker = "none"
           /\ StagesAfterAbort \in [Reqs -> Stages]
BY DEF TypeOK, WorkerAfterAbort, StagesAfterAbort, Workers, Stages

\* Stopping the web socket client keeps its types.
LEMMA StopWsTyped ==
    ASSUME TypeOK, StopWs
    PROVE  wsOn' \in BOOLEAN /\ wsUp' \in BOOLEAN /\ wsToken' \in Tokens \cup {NoToken}
BY DEF TypeOK, StopWs, Link!SwitchOff

\* Thrown out, the user sees the login window, in the connect state if a worker runs.
LEMMA ThrowOutShows ==
    ASSUME TypeOK, ThrowOut
    PROVE  /\ auth' \in {"default", "try"} /\ mgr' = "off" /\ vm' = FALSE
           /\ auth' = "try" <=> auth = "try"
BY DEF TypeOK, ThrowOut

\* Starting a task keeps the types of the requests.
LEMMA StartTaskTyped ==
    ASSUME TypeOK, NEW r \in Reqs, NEW k \in Kinds, NEW stages \in [Reqs -> Stages],
           StartTask(r, k, stages)
    PROVE  kind' \in [Reqs -> Kinds] /\ stage' \in [Reqs -> Stages]
BY DEF TypeOK, StartTask, Stages

LEMMA InitIInv == Init => IInv
BY Bounds
   DEF Init, IInv, TypeOK, OneWorkerPerTry, NeverWindowless, Workers, Kinds, Stages

-----------------------------------------------------------------------------
\* The login worker ends nowhere but in its callback.
LEMMA WorkerStep ==
    ASSUME IInv, LoginWorker
    PROVE  IInv'
<1> USE BoundsAssumption DEF At, loginFrame, windowVars, wsVars, reqVars
<1>1. /\ UNCHANGED <<auth, mgr, vm, main, cancelled, wsOn, wsUp, wsToken, kind, stage>>
      /\ worker # "none" /\ worker' \in Workers \ {"none"}
  BY DEF LoginWorker, log_in_begin, auth_request, loop_left, parse_login_response,
       auth_request_end, after_loop, request_version, version_answered, IInv, TypeOK, Workers
<1>2. left' \in 0 .. MaxAddresses
  BY DEF LoginWorker, log_in_begin, auth_request, loop_left, parse_login_response,
       auth_request_end, after_loop, request_version, version_answered, IInv, TypeOK
<1>3. jwt' \in Tokens \cup {NoToken} /\ loggedAddress' \in BOOLEAN
  BY DEF LoginWorker, log_in_begin, auth_request, loop_left, parse_login_response,
       auth_request_end, after_loop, request_version, version_answered, IInv, TypeOK
<1>4. timers' \in 0 .. MaxPending /\ authFails' \in 0 .. MaxPending
  BY DEF LoginWorker, log_in_begin, auth_request, loop_left, parse_login_response,
       auth_request_end, after_loop, request_version, version_answered, MayBeUnauthorized,
       IInv, TypeOK
<1> QED BY <1>1, <1>2, <1>3, <1>4 DEF IInv, TypeOK, OneWorkerPerTry, NeverWindowless

\* Leaving the session.
LEMMA SessionEndsStep ==
    ASSUME IInv, SessionEnds
    PROVE  IInv'
<1>1. Logout
  BY DEF SessionEnds, button_quit_clicked, ws_disconnect, auth_fail_detected
<1>2. authFails' \in 0 .. MaxPending
  BY BoundsAssumption
     DEF SessionEnds, button_quit_clicked, ws_disconnect, auth_fail_detected, IInv, TypeOK
<1>3. /\ worker' = WorkerAfterAbort /\ stage' = StagesAfterAbort
      /\ UNCHANGED <<left, cancelled, jwt, timers, kind>>
      /\ loggedAddress' = FALSE
      /\ StopWs
      /\ main' \in {main, "posting"}
  BY <1>1 DEF Logout, CancelPendingRequests
<1>4. \/ ThrowOut
      \/ UNCHANGED <<auth, mgr, vm>>
  BY <1>1 DEF Logout, windowVars
<1>5. /\ auth' \in {"off", "default", "try"} /\ mgr' \in {"off", "received", "pool", "vm"}
      /\ vm' \in BOOLEAN
      /\ auth' = "try" <=> auth = "try"
      /\ NeverWindowless'
  BY <1>4, ThrowOutShows DEF IInv, TypeOK, NeverWindowless
<1>6. TypeOK'
  BY <1>2, <1>3, <1>5, AbortTyped, StopWsTyped DEF IInv, TypeOK
<1> QED BY <1>3, <1>5, <1>6, AbortTyped DEF IInv, OneWorkerPerTry

\* The answers and callbacks of the selector's requests, and the callback of a login.
LEMMA RequestStep ==
    ASSUME IInv, NEW r \in Reqs, Request(r)
    PROVE  IInv'
<1> USE AbortTyped, BoundsAssumption
    DEF taskFrame, mgrFrame, windowVars, loginVars, wsVars, reqVars
<1>1. CASE api_call(r) \/ api_call_answered(r)
  <2>1. stage' \in [Reqs -> Stages] /\ authFails' \in 0 .. MaxPending
    BY <1>1 DEF IInv, TypeOK, Stages, api_call, api_call_answered, MayBeUnauthorized
  <2> QED BY <1>1, <2>1
       DEF IInv, TypeOK, OneWorkerPerTry, NeverWindowless, api_call, api_call_answered
<1>2. CASE refresh(r)
  <2>1. worker' = WorkerAfterAbort /\ mgr' = "pool" /\ StartTask(r, "pool", StagesAfterAbort)
    BY <1>2 DEF refresh, RefreshPools
  <2>2. kind' \in [Reqs -> Kinds] /\ stage' \in [Reqs -> Stages]
    BY <2>1, StartTaskTyped DEF IInv, Kinds
  <2> QED BY <1>2, <2>1, <2>2 DEF refresh, IInv, TypeOK, OneWorkerPerTry, NeverWindowless
<1>3. CASE get_vm_from_pool(r) \/ set_pool_favorite(r)
  <2>1. kind' \in [Reqs -> Kinds] /\ stage' \in [Reqs -> Stages]
    BY <1>3, StartTaskTyped DEF IInv, TypeOK, Kinds, get_vm_from_pool, set_pool_favorite
  <2> QED BY <1>3, <2>1
       DEF IInv, TypeOK, OneWorkerPerTry, NeverWindowless, get_vm_from_pool, set_pool_favorite
<1>4. CASE on_pool_data_finished(r) \/ favorite_done(r) \/ vm_refused(r)
  <2>1. kind' \in [Reqs -> Kinds] /\ stage' \in [Reqs -> Stages]
    BY <1>4 DEF IInv, TypeOK, Kinds, Stages, on_pool_data_finished, favorite_done, vm_refused
  <2> QED BY <1>4, <2>1
       DEF IInv, TypeOK, OneWorkerPerTry, NeverWindowless, on_pool_data_finished,
           favorite_done, vm_refused
<1>5. CASE go_to_vm(r)
  <2>1. kind' \in [Reqs -> Kinds] /\ stage' \in [Reqs -> Stages]
    BY <1>5 DEF IInv, TypeOK, Kinds, Stages, go_to_vm
  <2>2. worker' \in {worker, WorkerAfterAbort} /\ mgr' = "off" /\ vm' = TRUE
    BY <1>5 DEF go_to_vm
  <2> QED BY <1>5, <2>1, <2>2
       DEF IInv, TypeOK, OneWorkerPerTry, NeverWindowless, go_to_vm
<1>6. CASE vm_connection_finished(r)
  <2>1. CASE mgr = "off"
    <3>1. worker' = WorkerAfterAbort /\ mgr' = "pool" /\ StartTask(r, "pool", StagesAfterAbort)
      BY <1>6, <2>1 DEF vm_connection_finished, RefreshPools
    <3>2. kind' \in [Reqs -> Kinds] /\ stage' \in [Reqs -> Stages]
      BY <3>1, StartTaskTyped DEF IInv, Kinds
    <3> QED BY <1>6, <3>1, <3>2
         DEF vm_connection_finished, IInv, TypeOK, OneWorkerPerTry, NeverWindowless
  <2>2. CASE mgr # "off"
    BY <1>6, <2>2
       DEF vm_connection_finished, IInv, TypeOK, OneWorkerPerTry, NeverWindowless
  <2> QED BY <2>1, <2>2
<1>7. CASE on_log_in_finished(r)
  <2>1. /\ worker' = "none" /\ left' = 0 /\ cancelled' = FALSE
        /\ UNCHANGED <<vm, main, jwt, loggedAddress, timers, authFails, wsOn, wsUp, wsToken>>
    BY <1>7 DEF on_log_in_finished
  <2>2. CASE jwt = NoToken
    BY <1>7, <2>1, <2>2, Bounds
       DEF on_log_in_finished, IInv, TypeOK, OneWorkerPerTry, NeverWindowless, Workers
  <2>3. CASE jwt # NoToken
    <3>1. /\ auth' = "off"
          /\ \/ StartTask(r, "pool", StagesAfterAbort) /\ mgr' = "pool"
             \/ mgr # "off" /\ UNCHANGED <<mgr, kind, stage>>
      BY <1>7, <2>3 DEF on_log_in_finished
    <3>2. kind' \in [Reqs -> Kinds] /\ stage' \in [Reqs -> Stages]
      BY <3>1, StartTaskTyped DEF IInv, TypeOK, Kinds
    <3> QED BY <2>1, <3>1, <3>2, Bounds
         DEF IInv, TypeOK, OneWorkerPerTry, NeverWindowless, Workers
  <2> QED BY <2>2, <2>3
<1> QED BY <1>1, <1>2, <1>3, <1>4, <1>5, <1>6, <1>7 DEF Request

\* The rest of the main loop.
LEMMA LoopStep ==
    ASSUME IInv,
           \/ connect_to_vdi_server \/ btn_cancel_auth_clicked \/ restart_vdi_ws_client
           \/ ws_link \/ cancel_requests \/ logout_finished \/ quit \/ application_ended
    PROVE  IInv'
<1> USE AbortTyped, BoundsAssumption
    DEF mgrFrame, windowVars, loginVars, wsVars, reqVars
<1>1. CASE connect_to_vdi_server
  BY <1>1, Bounds
     DEF IInv, TypeOK, OneWorkerPerTry, NeverWindowless, Workers, connect_to_vdi_server
<1>2. CASE btn_cancel_auth_clicked \/ cancel_requests
  <2>1. /\ worker' = WorkerAfterAbort /\ stage' = StagesAfterAbort
        /\ cancelled' \in {TRUE, cancelled}
        /\ UNCHANGED <<auth, mgr, vm, main, left, jwt, loggedAddress, timers, authFails,
                       wsOn, wsUp, wsToken, kind>>
    BY <1>2 DEF btn_cancel_auth_clicked, cancel_requests, CancelPendingRequests
  <2>2. /\ worker' \in Workers /\ stage' \in [Reqs -> Stages]
        /\ worker' = "none" <=> worker = "none"
        /\ cancelled' \in BOOLEAN
    BY <2>1, AbortTyped DEF IInv, TypeOK
  <2>3. TypeOK'
    BY <2>1, <2>2 DEF IInv, TypeOK
  <2> QED BY <2>1, <2>2, <2>3 DEF IInv, OneWorkerPerTry, NeverWindowless
<1>3. CASE restart_vdi_ws_client
  <2>1. wsOn' \in BOOLEAN /\ wsUp' \in BOOLEAN /\ wsToken' \in Tokens \cup {NoToken}
    BY <1>3, StopWsTyped DEF IInv, TypeOK, restart_vdi_ws_client, Link!SwitchOn
  <2>2. timers' \in 0 .. MaxPending
    BY <1>3 DEF IInv, TypeOK, restart_vdi_ws_client
  <2> QED BY <1>3, <2>1, <2>2
       DEF IInv, TypeOK, OneWorkerPerTry, NeverWindowless, restart_vdi_ws_client
<1>4. CASE ws_link
  <2>1. wsOn' \in BOOLEAN /\ wsUp' \in BOOLEAN
    BY <1>4 DEF IInv, TypeOK, ws_link, Link!Establish, Link!Lose
  <2> QED BY <1>4, <2>1 DEF IInv, TypeOK, OneWorkerPerTry, NeverWindowless, ws_link
<1>5. CASE logout_finished
  <2>1. /\ worker' \in {worker, WorkerAfterAbort} /\ stage' \in {stage, StagesAfterAbort}
        /\ main' = "loop" /\ jwt' \in {jwt, NoToken}
        /\ ThrowOut
    BY <1>5 DEF logout_finished, CancelPendingRequests
  <2>2. /\ auth' \in {"default", "try"} /\ mgr' = "off" /\ vm' = FALSE
        /\ auth' = "try" <=> auth = "try"
    BY <2>1, ThrowOutShows DEF IInv
  <2>3. /\ worker' \in Workers /\ stage' \in [Reqs -> Stages]
        /\ worker' = "none" <=> worker = "none"
    BY <2>1, AbortTyped DEF IInv, TypeOK
  <2>4. UNCHANGED <<left, cancelled, loggedAddress, timers, authFails, wsOn, wsUp,
                    wsToken, kind>>
    BY <1>5 DEF logout_finished
  <2>5. TypeOK'
    BY <2>1, <2>2, <2>3, <2>4 DEF IInv, TypeOK
  <2> QED BY <2>2, <2>3, <2>5 DEF IInv, OneWorkerPerTry, NeverWindowless
<1>6. CASE quit \/ application_ended
  BY <1>6 DEF IInv, TypeOK, OneWorkerPerTry, NeverWindowless, quit, application_ended, vars
<1> QED BY <1>1, <1>2, <1>3, <1>4, <1>5, <1>6

\* IInv is an inductive invariant.
THEOREM Inductive == Spec => []IInv
<1>1. IInv /\ [Next]_vars => IInv'
  <2> SUFFICES ASSUME IInv, [Next]_vars PROVE IInv'
    OBVIOUS
  <2>1. CASE SessionEnds
    BY <2>1, SessionEndsStep
  <2>2. CASE LoginWorker
    BY <2>2, WorkerStep
  <2>3. ASSUME NEW r \in Reqs, Request(r) PROVE IInv'
    BY <2>3, RequestStep
  <2>4. CASE UNCHANGED vars
    BY <2>4 DEF vars, windowVars, loginVars, wsVars, reqVars, IInv, TypeOK, OneWorkerPerTry,
         NeverWindowless
  <2> QED BY <2>1, <2>2, <2>3, <2>4, LoopStep DEF Next, Inside
<1> QED BY InitIInv, <1>1, PTL DEF Spec

\* The types hold; the login worker never walks past the end of the address list.
THEOREM TypeCorrect == Spec => []TypeOK
<1>1. IInv => TypeOK
  BY DEF IInv
<1> QED BY Inductive, <1>1, PTL

\* A login worker exists exactly while the login window shows the connect state.
THEOREM OneWorker == Spec => []OneWorkerPerTry
<1>1. IInv => OneWorkerPerTry
  BY DEF IInv
<1> QED BY Inductive, <1>1, PTL

\* The user is never left without a window.
THEOREM Windowed == Spec => []NeverWindowless
<1>1. IInv => NeverWindowless
  BY DEF IInv
<1> QED BY Inductive, <1>1, PTL

-----------------------------------------------------------------------------
\* What a login knows about the address and the web socket client: a worker that has
\* not read a token yet runs without an address; nobody who may start a worker, and
\* no logout that is about to show the login window, has both an address and a token.
LoginInv ==
    /\ worker \in {"loop", "sent", "parsed"} => ~loggedAddress
    /\ auth = "default" \/ worker = "begin" \/ (main = "posting" /\ auth = "off")
           => ~loggedAddress \/ jwt = NoToken
    /\ main = "posting" => ~wsOn

\* What a step may do to a client that runs for the present login.
StillForLogin ==
    WsNeedsLogin => \/ WsNeedsLogin'
                    \/ timers' < timers /\ (jwt = NoToken \/ ~loggedAddress)

\* A worker drops the address before the token, and takes both up in that order.
LEMMA WorkerKeepsLogin ==
    ASSUME IInv, LoginInv, LoginWorker
    PROVE  LoginInv' /\ StillForLogin
<1> USE DEF At, loginFrame, windowVars, wsVars, reqVars, LoginInv, StillForLogin,
            WsNeedsLogin, IInv, OneWorkerPerTry
<1>1. CASE log_in_begin
  BY <1>1 DEF log_in_begin
<1>2. CASE auth_request
  BY <1>2 DEF auth_request
<1>3. CASE loop_left
  BY <1>3 DEF loop_left
<1>4. CASE parse_login_response
  BY <1>4 DEF parse_login_response
<1>5. CASE auth_request_end
  BY <1>5 DEF auth_request_end
<1>6. CASE after_loop
  BY <1>6 DEF after_loop
<1>7. CASE request_version \/ version_answered
  BY <1>7 DEF request_version, version_answered
<1> QED BY <1>1, <1>2, <1>3, <1>4, <1>5, <1>6, <1>7 DEF LoginWorker

\* Whoever leaves the session stops the client and drops the address.
LEMMA SessionEndKeepsLogin ==
    ASSUME IInv, LoginInv, SessionEnds
    PROVE  LoginInv' /\ StillForLogin
<1>1. Logout
  BY DEF SessionEnds, button_quit_clicked, ws_disconnect, auth_fail_detected
<1>2. loggedAddress' = FALSE /\ wsOn' = FALSE
  BY <1>1 DEF Logout, StopWs, Link!SwitchOff, IInv, TypeOK
<1> QED BY <1>2 DEF LoginInv, StillForLogin, WsNeedsLogin

\* The main loop: only the timer starts the client, only the POST drops the token.
LEMMA LoopKeepsLogin ==
    ASSUME IInv, LoginInv,
           \/ connect_to_vdi_server \/ btn_cancel_auth_clicked \/ restart_vdi_ws_client
           \/ ws_link \/ cancel_requests \/ logout_finished \/ quit \/ application_ended
    PROVE  LoginInv' /\ StillForLogin
<1> USE DEF mgrFrame, windowVars, loginVars, wsVars, reqVars, LoginInv, StillForLogin,
            WsNeedsLogin, WorkerAfterAbort
<1>1. CASE connect_to_vdi_server
  BY <1>1 DEF connect_to_vdi_server
<1>2. CASE btn_cancel_auth_clicked \/ cancel_requests
  BY <1>2 DEF btn_cancel_auth_clicked, cancel_requests, CancelPendingRequests
<1>3. CASE restart_vdi_ws_client
  <2>1. LoginInv'
    BY <1>3 DEF restart_vdi_ws_client
  <2>2. timers' < timers
    BY <1>3 DEF restart_vdi_ws_client, IInv, TypeOK
  <2>3. UNCHANGED <<jwt, loggedAddress>> /\ (wsToken' = jwt \/ wsOn' = FALSE)
    BY <1>3 DEF restart_vdi_ws_client, StopWs, Link!SwitchOff, IInv, TypeOK
  <2> QED BY <2>1, <2>2, <2>3
<1>4. CASE ws_link
  BY <1>4 DEF ws_link, Link!Establish, Link!Lose
<1>5. CASE logout_finished
  BY <1>5 DEF logout_finished, ThrowOut, CancelPendingRequests
<1>6. CASE quit \/ application_ended
  BY <1>6 DEF quit, application_ended, vars
<1> QED BY <1>1, <1>2, <1>3, <1>4, <1>5, <1>6

\* The requests, and the callback of a login, touch neither token nor address.
LEMMA RequestKeepsLogin ==
    ASSUME IInv, LoginInv, NEW r \in Reqs, Request(r)
    PROVE  LoginInv' /\ StillForLogin
<1> USE DEF taskFrame, mgrFrame, windowVars, loginVars, wsVars, LoginInv, StillForLogin,
            WsNeedsLogin, WorkerAfterAbort
<1>1. UNCHANGED <<main, jwt, loggedAddress, timers, wsOn, wsUp, wsToken>>
  BY DEF Request, api_call, api_call_answered, refresh, get_vm_from_pool, set_pool_favorite,
       on_pool_data_finished, favorite_done, vm_refused, go_to_vm, vm_connection_finished,
       on_log_in_finished
<1>2. CASE on_log_in_finished(r)
  BY <1>1, <1>2 DEF on_log_in_finished
<1>3. CASE ~on_log_in_finished(r)
  <2>1. auth' = auth /\ worker' \in {worker, WorkerAfterAbort}
    BY <1>3
       DEF Request, api_call, api_call_answered, refresh, get_vm_from_pool, set_pool_favorite,
           on_pool_data_finished, favorite_done, vm_refused, go_to_vm, vm_connection_finished,
           RefreshPools
  <2> QED BY <1>1, <2>1
<1> QED BY <1>2, <1>3

\* Nothing but the timer of a login that was lost makes the web socket client run
\* without the login it was started for.
THEOREM OnlyTimer == Spec => OnlyTimerOutlivesLogin
<1>1. Init => LoginInv
  BY DEF Init, LoginInv
<1>2. IInv /\ LoginInv /\ [Next]_vars => LoginInv' /\ [StillForLogin]_vars
  <2> SUFFICES ASSUME IInv, LoginInv, [Next]_vars PROVE LoginInv' /\ [StillForLogin]_vars
    OBVIOUS
  <2>1. CASE SessionEnds
    BY <2>1, SessionEndKeepsLogin
  <2>2. CASE LoginWorker
    BY <2>2, WorkerKeepsLogin
  <2>3. ASSUME NEW r \in Reqs, Request(r) PROVE LoginInv' /\ StillForLogin
    BY <2>3, RequestKeepsLogin
  <2>4. CASE UNCHANGED vars
    BY <2>4 DEF vars, windowVars, loginVars, wsVars, LoginInv
  <2> QED BY <2>1, <2>2, <2>3, <2>4, LoopKeepsLogin DEF Next, Inside
<1>3. Spec => []LoginInv
  BY Inductive, <1>1, <1>2, PTL DEF Spec
<1> QED BY Inductive, <1>2, <1>3, PTL DEF Spec, OnlyTimerOutlivesLogin, StillForLogin

-----------------------------------------------------------------------------
(* The windows.                                                            *)

LEMMA SameWindows ==
    ASSUME UNCHANGED <<auth, mgr, vm>>, main' = "closed" <=> main = "closed"
    PROVE  UNCHANGED Windows!vars
BY DEF Windows!vars, LoginShown

\* Whoever throws the user out does to the windows what on_logged_out promises.
LEMMA ThrowOutWindows ==
    ASSUME TypeOK, ThrowOut, main # "closed", main' # "closed"
    PROVE  Windows!Next
BY DEF TypeOK, ThrowOut, LoginShown, Windows!LoggedOut, Windows!Next

\* The requests: what is asked, answered, opened and finished, and the callback of a
\* login, which finds the window it belongs to (OneWorkerPerTry).
LEMMA RequestWindows ==
    ASSUME IInv, NEW r \in Reqs, Request(r)
    PROVE  [Windows!Next]_(Windows!vars)
<1> USE DEF taskFrame, mgrFrame, windowVars, Answered, Windows!Next
<1>0. main # "closed" /\ main' = main
  BY DEF Request, api_call, api_call_answered, refresh, get_vm_from_pool, set_pool_favorite,
       on_pool_data_finished, favorite_done, vm_refused, go_to_vm, vm_connection_finished,
       on_log_in_finished
<1>1. CASE api_call(r) \/ api_call_answered(r) \/ set_pool_favorite(r) \/ favorite_done(r)
  BY <1>0, <1>1, SameWindows
     DEF api_call, api_call_answered, set_pool_favorite, favorite_done
<1>2. CASE refresh(r) \/ get_vm_from_pool(r)
  <2>1. mgr # "off" /\ mgr' \in {"pool", "vm"} /\ UNCHANGED <<auth, vm>>
    BY <1>2 DEF refresh, get_vm_from_pool, RefreshPools
  <2>2. Windows!Ask
    BY <1>0, <2>1 DEF LoginShown, Windows!Ask
  <2> QED BY <2>2
<1>3. CASE on_pool_data_finished(r) \/ vm_refused(r)
  <2>1. UNCHANGED <<auth, vm>> /\ mgr' = IF mgr = "off" THEN mgr ELSE "received"
    BY <1>3 DEF on_pool_data_finished, vm_refused
  <2>2. CASE mgr \in {"off", "received"}
    BY <1>0, <2>1, <2>2, SameWindows
  <2>3. CASE mgr \in {"pool", "vm"}
    <3>1. Windows!Answered
      BY <1>0, <2>1, <2>3 DEF LoginShown, Windows!Answered
    <3> QED BY <3>1
  <2> QED BY <2>2, <2>3 DEF IInv, TypeOK
<1>4. CASE go_to_vm(r)
  <2>1. Windows!Open
    BY <1>0, <1>4 DEF go_to_vm, LoginShown, Windows!Open
  <2> QED BY <2>1
<1>5. CASE vm_connection_finished(r)
  <2>1. /\ vm /\ vm' = FALSE /\ UNCHANGED auth
        /\ IF mgr = "off" THEN mgr' = "pool" ELSE mgr' = mgr
    BY <1>5 DEF vm_connection_finished, RefreshPools
  <2>2. Windows!Finish
    BY <1>0, <2>1 DEF LoginShown, Windows!Finish, Windows!Show
  <2> QED BY <2>2
<1>6. CASE on_log_in_finished(r)
  <2>1. auth = "try" /\ UNCHANGED vm
    BY <1>6 DEF on_log_in_finished, IInv, OneWorkerPerTry
  <2>2. CASE jwt = NoToken
    <3>1. Windows!Refused
      BY <1>0, <1>6, <2>1, <2>2 DEF on_log_in_finished, LoginShown, Windows!Refused
    <3> QED BY <3>1
  <2>3. CASE jwt # NoToken
    <3>1. auth' = "off" /\ IF mgr = "off" THEN mgr' = "pool" ELSE mgr' = mgr
      BY <1>6, <2>3 DEF on_log_in_finished
    <3>2. Windows!LogIn
      BY <1>0, <2>1, <3>1 DEF LoginShown, Windows!LogIn, Windows!Show
    <3> QED BY <3>2
  <2> QED BY <2>2, <2>3
<1> QED BY <1>1, <1>2, <1>3, <1>4, <1>5, <1>6 DEF Request

LEMMA NextWindows == IInv /\ [Next]_vars => [Windows!Next]_(Windows!vars)
<1> SUFFICES ASSUME IInv, [Next]_vars PROVE [Windows!Next]_(Windows!vars)
  OBVIOUS
<1> USE DEF mgrFrame, windowVars
<1>1. CASE SessionEnds
  <2>1. main = "loop" /\ Logout
    BY <1>1 DEF SessionEnds, button_quit_clicked, ws_disconnect, auth_fail_detected
  <2>2. CASE jwt # NoToken
    BY <2>1, <2>2, SameWindows DEF Logout
  <2>3. CASE jwt = NoToken
    BY <2>1, <2>3, ThrowOutWindows DEF Logout, IInv
  <2> QED BY <2>2, <2>3
<1>2. CASE LoginWorker
  BY <1>2, SameWindows
     DEF LoginWorker, loginFrame, log_in_begin, auth_request, loop_left, parse_login_response,
         auth_request_end, after_loop, request_version, version_answered
<1>3. CASE connect_to_vdi_server
  <2>1. Windows!Connect
    BY <1>3 DEF connect_to_vdi_server, LoginShown, Windows!Connect
  <2> QED BY <2>1 DEF Windows!Next
<1>4. CASE btn_cancel_auth_clicked \/ cancel_requests \/ restart_vdi_ws_client \/ ws_link
  BY <1>4, SameWindows
     DEF btn_cancel_auth_clicked, cancel_requests, restart_vdi_ws_client, ws_link
<1>5. ASSUME NEW r \in Reqs, Request(r) PROVE [Windows!Next]_(Windows!vars)
  BY <1>5, RequestWindows
<1>6. CASE logout_finished
  BY <1>6, ThrowOutWindows DEF logout_finished, IInv
<1>7. CASE quit
  <2>1. Windows!Quit
    BY <1>7 DEF quit, LoginShown, Windows!Quit
  <2> QED BY <2>1 DEF Windows!Next
<1>8. CASE application_ended \/ UNCHANGED vars
  BY <1>8, SameWindows DEF application_ended, vars
<1> QED BY <1>1, <1>2, <1>3, <1>4, <1>5, <1>6, <1>7, <1>8 DEF Next, Inside

\* The session implements the safety half of WindowFlow, for every set of tokens and
\* requests: however abort, 401, DISCONNECT and the POST of a logout meet the workers,
\* the login window goes only for the selector, the selector only for a VM, the login
\* window or the end, and it waits only while it is shown.
THEOREM RefinesWindows == Spec => Windows!Safe
<1>1. Init => Windows!Init
  BY DEF Init, Windows!Init, LoginShown
<1> QED BY Inductive, <1>1, NextWindows, PTL DEF Spec, Windows!Safe

\* What WindowFlow itself keeps, step by step: some window, and no wait behind one that
\* is not there.
LEMMA WindowsKeep ==
    ASSUME Windows!SomeWindow, Windows!WaitsOnlyShown, [Windows!Next]_(Windows!vars)
    PROVE  Windows!SomeWindow' /\ Windows!WaitsOnlyShown'
<1> USE DEF Windows!SomeWindow, Windows!WaitsOnlyShown
<1>1. CASE Windows!Connect \/ Windows!Refused
  BY <1>1 DEF Windows!Connect, Windows!Refused
<1>2. CASE Windows!LogIn \/ Windows!Finish
  BY <1>2 DEF Windows!LogIn, Windows!Finish, Windows!Show
<1>3. CASE Windows!Open \/ Windows!Quit
  BY <1>3 DEF Windows!Open, Windows!Quit
<1>4. CASE Windows!Vanish \/ Windows!LoggedOut
  BY <1>4 DEF Windows!Vanish, Windows!LoggedOut
<1>5. CASE Windows!Ask \/ Windows!Answered
  BY <1>5 DEF Windows!Ask, Windows!Answered
<1>6. CASE UNCHANGED Windows!vars
  BY <1>6 DEF Windows!vars
<1> QED BY <1>1, <1>2, <1>3, <1>4, <1>5, <1>6 DEF Windows!Next

\* Hence, in every state of the session, a window is shown until the end, and no wait is
\* left behind by a selector that went.
THEOREM WindowsSeen == Spec => [](Windows!SomeWindow /\ Windows!WaitsOnlyShown)
<1>1. Init => Windows!SomeWindow /\ Windows!WaitsOnlyShown
  BY DEF Init, Windows!SomeWindow, Windows!WaitsOnlyShown, LoginShown
<1> QED BY <1>1, RefinesWindows, WindowsKeep, PTL DEF Spec, Windows!Safe

-----------------------------------------------------------------------------
(* What the liveness half of ImplementsWindows rests on.                   *)

\* How far a login worker is from its end: it has so many addresses left, each of which
\* takes it once more from the loop through the request to the loop.
Steps(here) ==
    CASE here = "begin" -> 7 [] here = "sent" -> 6 [] here = "parsed" -> 5
      [] here = "loop" -> 4 [] here = "after" -> 3 [] here = "version" -> 2
      [] here = "asking" -> 1 [] OTHER -> 0

Advances == left' < left \/ (left' = left /\ Steps(worker') < Steps(worker))

\* No step of anybody leads a login worker away from its callback: not an abort that
\* cuts its request, nor one that misses it, nor a token that is lost under it.
LoginOnlyAdvances ==
    [][worker \notin {"none", "callback"} => UNCHANGED <<worker, left>> \/ Advances]_vars

\* An abort takes a worker where an answer would have taken it.
LEMMA AbortAdvances ==
    ASSUME worker' \in {worker, WorkerAfterAbort}, UNCHANGED left
    PROVE  UNCHANGED <<worker, left>> \/ Advances
BY DEF WorkerAfterAbort, Advances, Steps

\* The steps of the worker itself.
LEMMA WorkerAdvances ==
    ASSUME IInv, LoginWorker
    PROVE  UNCHANGED <<worker, left>> \/ Advances
<1> USE DEF At, Advances, Steps
<1>1. CASE auth_request
  BY <1>1, BoundsAssumption DEF auth_request, IInv, TypeOK
<1>2. CASE log_in_begin \/ loop_left \/ parse_login_response \/ auth_request_end
  BY <1>2 DEF log_in_begin, loop_left, parse_login_response, auth_request_end
<1>3. CASE after_loop \/ request_version \/ version_answered
  BY <1>3 DEF after_loop, request_version, version_answered
<1> QED BY <1>1, <1>2, <1>3 DEF LoginWorker

LEMMA LoginStep ==
    ASSUME IInv, Next, worker \notin {"none", "callback"}
    PROVE  UNCHANGED <<worker, left>> \/ Advances
<1> USE DEF loginVars, mgrFrame, taskFrame
<1>1. CASE LoginWorker
  BY <1>1, WorkerAdvances
<1>2. CASE SessionEnds
  BY <1>2, AbortAdvances
     DEF SessionEnds, button_quit_clicked, ws_disconnect, auth_fail_detected, Logout,
         CancelPendingRequests
<1>3. CASE connect_to_vdi_server
  BY <1>3 DEF connect_to_vdi_server, IInv, OneWorkerPerTry
<1>4. CASE btn_cancel_auth_clicked \/ cancel_requests \/ logout_finished
  BY <1>4, AbortAdvances
     DEF btn_cancel_auth_clicked, cancel_requests, logout_finished, CancelPendingRequests
<1>5. CASE restart_vdi_ws_client \/ ws_link \/ quit \/ application_ended
  BY <1>5 DEF restart_vdi_ws_client, ws_link, quit, application_ended, vars
<1>6. ASSUME NEW r \in Reqs, Request(r)
      PROVE  UNCHANGED <<worker, left>> \/ Advances
  <2>1. worker' \in {worker, WorkerAfterAbort} /\ UNCHANGED left
    BY <1>6
       DEF Request, api_call, api_call_answered, refresh, get_vm_from_pool, set_pool_favorite,
           on_pool_data_finished, favorite_done, vm_refused, go_to_vm, vm_connection_finished,
           on_log_in_finished, RefreshPools
  <2> QED BY <2>1, AbortAdvances
<1> QED BY <1>1, <1>2, <1>3, <1>4, <1>5, <1>6 DEF Next, Inside

\* The safety half of "a login try ends", for any list of brokers: left to the scheduler
\* and the network is that the worker goes on.
THEOREM LoginAdvances == Spec => LoginOnlyAdvances
<1>1. IInv /\ [Next]_vars
        => [worker \notin {"none", "callback"} => UNCHANGED <<worker, left>> \/ Advances]_vars
  BY LoginStep
<1> QED BY Inductive, <1>1, PTL DEF Spec, LoginOnlyAdvances

-----------------------------------------------------------------------------
\* The session uses its web socket only as WsLink describes it: every other handler leaves
\* the link alone, and those that use it do it by one step at a time.
LEMMA LinkStep == [Next]_vars => [Link!Next]_(Link!vars)
<1> SUFFICES ASSUME [Next]_vars PROVE [Link!Next]_(Link!vars)
  OBVIOUS
<1> USE DEF wsVars, mgrFrame, taskFrame, loginFrame, Link!Next, Link!vars
<1>1. CASE SessionEnds
  BY <1>1 DEF SessionEnds, button_quit_clicked, ws_disconnect, auth_fail_detected, Logout, StopWs
<1>2. CASE restart_vdi_ws_client \/ ws_link
  BY <1>2 DEF restart_vdi_ws_client, ws_link, StopWs
<1>3. CASE LoginWorker
  BY <1>3
     DEF LoginWorker, log_in_begin, auth_request, loop_left, parse_login_response,
         auth_request_end, after_loop, request_version, version_answered
<1>4. CASE connect_to_vdi_server \/ btn_cancel_auth_clicked \/ cancel_requests
           \/ logout_finished \/ quit \/ application_ended \/ UNCHANGED vars
  BY <1>4
     DEF connect_to_vdi_server, btn_cancel_auth_clicked, cancel_requests, logout_finished,
         quit, application_ended, vars
<1>5. ASSUME NEW r \in Reqs, Request(r) PROVE UNCHANGED Link!vars
  BY <1>5
     DEF Request, api_call, api_call_answered, refresh, get_vm_from_pool, set_pool_favorite,
         on_pool_data_finished, favorite_done, vm_refused, go_to_vm, vm_connection_finished,
         on_log_in_finished
<1> QED BY <1>1, <1>2, <1>3, <1>4, <1>5 DEF Next, Inside

\* What the session does to its web socket (vdi_api_session_restart_vdi_ws_client, StopWs) is what WsLink
\* allows, and VdiWsClient implements WsLink: the two modules fit together.
THEOREM RefinesLink == Spec => Link!Safe
<1>1. Init => Link!Init
  BY DEF Init, Link!Init
<1> QED BY <1>1, LinkStep, PTL DEF Spec, Link!Safe
=============================================================================
