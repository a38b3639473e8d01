-------------------------- MODULE MCDecisionLedger --------------------------
(***************************************************************************)
(* Model checking DecisionLedger.  Two decisions are enough: every property *)
(* relates at most two of them (a pending one and the one that supersedes  *)
(* it or is refused); one tick lets a deadline pass before, between and      *)
(* after the other operations.                                             *)
(***************************************************************************)
EXTENDS DecisionLedger, TLC

Symmetry == Permutations(Decisions)

=============================================================================
