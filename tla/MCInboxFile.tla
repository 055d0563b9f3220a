---------------------------- MODULE MCInboxFile -----------------------------
(* Instances of InboxFile for TLC.                                          *)
EXTENDS InboxFile, TLC

CONSTANTS th1, th2

(* Threads are interchangeable (safety runs only).                          *)
Threads == Permutations(Thread)
=============================================================================
