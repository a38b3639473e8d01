----------------------------- MODULE MCKillSwitch -----------------------------
(***************************************************************************)
(* Two equities: a peak and a breach of the HALT line (an unconfirmed      *)
(* breach is the WARN).  A fee drag of a fifth puts the adjusted equity on *)
(* the WARN line at the virtual peak.  Three reads are kept: two that      *)
(* confirm each other and one that may come between them.                 *)
(***************************************************************************)
EXTENDS KillSwitch

Levels == {60, 100}
OneFee == {0, 20}

=============================================================================
