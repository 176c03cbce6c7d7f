----------------------------- MODULE MCWatchdog -----------------------------
(* Four checks, one restart, a window of three ticks: a fall can be found at *)
(* the next check, at a later one, or not before run() is out of ticks.     *)
EXTENDS Watchdog
=============================================================================
