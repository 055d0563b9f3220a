----------------------------- MODULE MCWatchdog -----------------------------
(* A small instance of Watchdog for TLC.                                    *)
EXTENDS Watchdog
=============================================================================
