---------------------------- MODULE MCTurnRelay ----------------------------
(* Small instances of TurnRelay.  Run ids are interchangeable and nothing   *)
(* obliges a run to start, so it loses no behaviour but for their names to  *)
(* hand them out in one order.                                              *)
EXTENDS TurnRelay, SequencesExt

HandedOutInOrder ==
  LET order == SetToSeq(Runs) IN
  \A i, j \in DOMAIN order :
    i < j /\ status[order[i]] = "none" => status[order[j]] = "none"

OrderedSpec ==
  RelayInit /\ [][RelayNext /\ HandedOutInOrder']_vars /\ RelayFairness
=============================================================================
