------------------------------- MODULE WsLink -------------------------------
(***************************************************************************)
(* What the rest of the client may rely on about its web socket to the     *)
(* broker: the link is up only while it is switched on, and while it stays *)
(* switched on it is brought up again after every loss.  VdiWsClient is    *)
(* shown to implement this.                                                *)
(***************************************************************************)
VARIABLES
    on,   \* the owner wants the link
    up    \* messages can be exchanged with the broker

vars == <<on, up>>

TypeOK == on \in BOOLEAN /\ up \in BOOLEAN

Init == ~on /\ ~up

\* Switching on (again) always starts from a link that is down.
SwitchOn == on' = TRUE /\ up' = FALSE

SwitchOff == on /\ on' = FALSE /\ up' = FALSE

Establish == on /\ up' = TRUE /\ on' = on

Lose == up /\ up' = FALSE /\ on' = on

Next == SwitchOn \/ SwitchOff \/ Establish \/ Lose

Safe == Init /\ [][Next]_vars

Spec == Safe /\ WF_vars(Establish)

\* The link is up only while it is wanted.
UpOnlyWhenOn == up => on
=============================================================================
