---------------------------- MODULE MCRunBridge ----------------------------
(* Small instances of RunBridge.  Run ids and stream clients are            *)
(* interchangeable, so the safety runs may permute them.                    *)
EXTENDS RunBridge, TLC

Symmetry == Permutations(Runs) \cup Permutations(Streams)
=============================================================================
