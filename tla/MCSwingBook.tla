------------------------------ MODULE MCSwingBook ------------------------------
(* A core line, two names of the swing book and one pause over two slots.      *)
EXTENDS SwingBook, TLC
Symmetry == Permutations(Tickers)
=============================================================================
