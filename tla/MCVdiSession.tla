---------------------------- MODULE MCVdiSession ----------------------------
(* Instances of VdiSession.                                                *)
EXTENDS VdiSession, TLC

\* Identities are interchangeable: used by the runs without liveness.
Symmetry == Permutations(Tokens) \cup Permutations(Reqs)
=============================================================================
