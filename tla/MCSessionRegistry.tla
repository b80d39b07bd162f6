------------------------- MODULE MCSessionRegistry -------------------------
(* Sessions that are registered for the same external session (a wrapper   *)
(* and the watcher both know it) or move from one to the other, and        *)
(* requests that race on them.                                             *)
EXTENDS SessionRegistry, TLC

Symmetry == Permutations(Requests) \cup Permutations(Sessions) \cup Permutations(Sources)
=============================================================================
