---------------------------- MODULE MCExecutorCore ----------------------------
(***************************************************************************)
(* A mixed plan: a stock close and a core close, the core open that waits   *)
(* for the first, a swing entry and its take-profit.  Two closes of         *)
(* different books tell a hold of one from a hold of both.  Two attempts    *)
(* instead of three: one retry is what tells a 429 from any other           *)
(* rejection.  The cancel route is verified here, which adds the orders the *)
(* executor takes back itself.                                              *)
(***************************************************************************)
EXTENDS Executor

MixedLegs == 1 .. 5
MixedKind == <<"close", "close", "open", "open", "modify_tp">>
MixedSwing == <<FALSE, FALSE, FALSE, TRUE, TRUE>>
MixedStock == <<TRUE, FALSE, FALSE, FALSE, FALSE>>
MixedDeps == <<{}, {}, {1}, {}, {4}>>

=============================================================================
