----------------------------- MODULE MCHeldOrders -----------------------------
(***************************************************************************)
(* A core close and a stock open held at once.  Each holds its own book:   *)
(* the whole book for the core close, the satellite for the stock open.    *)
(***************************************************************************)
EXTENDS HeldOrders, Naturals

TwoLegs == 1 .. 2
NoFlag == <<FALSE, FALSE>>
SecondFlag == <<FALSE, TRUE>>

(* A core close and a stock open. *)
CloseAndStock == {2}

=============================================================================
