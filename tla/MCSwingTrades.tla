---------------------------- MODULE MCSwingTrades ----------------------------
(***************************************************************************)
(* A trade from its proposal, whose entry opens one position, and a trade   *)
(* that is open with two.                                                  *)
(***************************************************************************)
EXTENDS SwingTrades

OnePosition == {{1}}
Beginnings == {{}, {1, 2}}
=============================================================================
