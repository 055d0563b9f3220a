------------------------------- MODULE MCIpc --------------------------------
(* Instances of Ipc for TLC.                                                *)
EXTENDS Ipc

CONSTANTS c1, c2, c3
=============================================================================
