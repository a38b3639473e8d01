----------------------------- MODULE MCPublication -----------------------------
(* Publication with reports stored up to three times.                        *)
EXTENDS Publication
=============================================================================
