--------------------------- MODULE MCExecutorSwing ---------------------------
(***************************************************************************)
(* A swing exit, a stock open that need not wait for it and a swing entry  *)
(* that must, under the fair specification and with all three attempts:    *)
(* what a swing leg may stop, that every run ends, and that all of it keeps*)
(* the order book.                                                         *)
(***************************************************************************)
EXTENDS Executor

ExitLegs == 1 .. 3
ExitKind == <<"close", "open", "open">>
ExitSwing == <<TRUE, FALSE, TRUE>>
ExitStock == <<FALSE, TRUE, FALSE>>
ExitDeps == <<{}, {}, {}>>

=============================================================================
