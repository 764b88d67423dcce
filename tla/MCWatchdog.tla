----------------------------- MODULE MCWatchdog -----------------------------
(* Small instance of Watchdog for TLC. *)
EXTENDS Watchdog

BothPaths == {"restartable", "direct"}
=============================================================================
