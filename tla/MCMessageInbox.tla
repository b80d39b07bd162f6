--------------------------- MODULE MCMessageInbox ---------------------------
(* Small instances of MessageInbox.                                         *)
EXTENDS MessageInbox, TLC

Symmetry == Permutations(Messages) \cup Permutations(Requests)
=============================================================================
