-------------------------- MODULE SessionLifecycle --------------------------
(***************************************************************************)
(* What the session registry promises about a session's place in the       *)
(* workspace, as if every request were one atomic step: a session becomes  *)
(* known, is archived and restored any number of times, and is deleted     *)
(* once, for good.                                                         *)
(***************************************************************************)
CONSTANT Sessions

VARIABLE life

Lives == {"unknown", "listed", "archived", "deleted"}

TypeOK == life \in [Sessions -> Lives]

Init == life = [s \in Sessions |-> "unknown"]

Moves(s, from, to) == life[s] \in from /\ life' = [life EXCEPT ![s] = to]

Appear(s)  == Moves(s, {"unknown"}, "listed")
Archive(s) == Moves(s, {"listed"}, "archived")
Restore(s) == Moves(s, {"archived"}, "listed")
Delete(s)  == Moves(s, {"listed", "archived"}, "deleted")

Next == \E s \in Sessions : Appear(s) \/ Archive(s) \/ Restore(s) \/ Delete(s)

Spec == Init /\ [][Next]_life
=============================================================================
