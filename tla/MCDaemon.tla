------------------------------ MODULE MCDaemon ------------------------------
(* Instances of Daemon for TLC.                                             *)
EXTENDS Daemon

CONSTANTS p1, p2, p3, i1, i2, i3, i4
=============================================================================
