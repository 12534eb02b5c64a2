----------------------------- MODULE MCTimerWheel -----------------------------
(* Small instances of TimerWheel.                                          *)
EXTENDS TimerWheel
=============================================================================
