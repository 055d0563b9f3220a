------------------------------ MODULE MCLogin -------------------------------
(* The code's own numbers are small enough for TLC.                         *)
EXTENDS Login
=============================================================================
