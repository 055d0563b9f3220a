------------------------------ MODULE MCServer ------------------------------
(* Instances of Server for TLC.                                             *)
EXTENDS Server

CONSTANTS c1, c2, c3
=============================================================================
