----------------------------- MODULE WindowFlow -----------------------------
(***************************************************************************)
(* The windows of the client, one after the other, as remote-viewer.c      *)
(* connects them: the login window, the selector (or the controller        *)
(* window), a viewer, and back.  This is what each component promises to   *)
(* the others about its own part in it: when a window may come, go, or be  *)
(* kept waiting.  VdiSession, ControllerClient, RdpViewer and              *)
(* VirtViewerApp are each shown to implement it.                           *)
(***************************************************************************)
VARIABLES
    login,      \* the login window: shown, trying to log in, or hidden
    selector,   \* the selector is shown
    viewer,     \* a viewer is shown
    waiting,    \* the selector waits for an answer, most of its controls are off
    ended       \* the application has ended

vars == <<login, selector, viewer, waiting, ended>>

TypeOK ==
    /\ login \in {"shown", "trying", "hidden"}
    /\ selector \in BOOLEAN /\ viewer \in BOOLEAN
    /\ waiting \in BOOLEAN /\ ended \in BOOLEAN

Init ==
    /\ login = "shown"
    /\ ~selector /\ ~viewer /\ ~waiting /\ ~ended

\* The selector comes up, and may wait for its first list.
Show == selector' = TRUE /\ waiting' \in {waiting, TRUE}

Connect ==
    /\ login = "shown" /\ login' = "trying"
    /\ UNCHANGED <<selector, viewer, waiting, ended>>

Refused ==
    /\ login = "trying" /\ login' = "shown"
    /\ UNCHANGED <<selector, viewer, waiting, ended>>

\* The login window goes only for the selector, which may be up already.
LogIn ==
    /\ login # "hidden" /\ login' = "hidden"
    /\ Show
    /\ UNCHANGED <<viewer, ended>>

\* connect_to_vm: the viewer takes the place of the selector.
Open ==
    /\ ~ended
    /\ selector' = FALSE /\ waiting' = FALSE
    /\ viewer' = TRUE
    /\ UNCHANGED <<login, ended>>

\* on_vm_connection_finished: the selector takes the place of the viewer, which may be
\* one of several.
Finish ==
    /\ viewer /\ viewer' \in BOOLEAN
    /\ Show
    /\ UNCHANGED <<login, ended>>

\* A viewer that was told to end without a signal goes only beside another window.
Vanish ==
    /\ viewer /\ viewer' = FALSE
    /\ login # "hidden" \/ selector
    /\ UNCHANGED <<login, selector, waiting, ended>>

\* on_logged_out: the selector goes, the login window comes unless it is there, and the
\* viewer goes now or when its session has ended.
LoggedOut ==
    /\ ~ended
    /\ selector' = FALSE /\ waiting' = FALSE
    /\ login' = IF login = "hidden" THEN "shown" ELSE login
    /\ viewer' \in {viewer, FALSE}
    /\ UNCHANGED ended

Ask ==
    /\ selector /\ waiting' = TRUE
    /\ UNCHANGED <<login, selector, viewer, ended>>

Answered ==
    /\ waiting /\ waiting' = FALSE
    /\ UNCHANGED <<login, selector, viewer, ended>>

\* on_quit_requested, or a window is closed: all of them go.
Quit ==
    /\ ended' = TRUE
    /\ login' = "hidden" /\ ~selector' /\ ~viewer' /\ ~waiting'

Next ==
    \/ Connect \/ Refused \/ LogIn \/ Open \/ Finish \/ Vanish \/ LoggedOut
    \/ Ask \/ Answered \/ Quit

Safe == Init /\ [][Next]_vars

\* A login try ends, and so does every wait of the selector.
Live ==
    /\ login = "trying" ~> login # "trying"
    /\ waiting ~> ~waiting

Spec == Safe /\ Live

\* What the user sees of it: never nothing, and never a selector that is not there but
\* waits.
SomeWindow == ended \/ login # "hidden" \/ selector \/ viewer
WaitsOnlyShown == waiting => selector
=============================================================================
