--------------------------- MODULE MCTimerQueue ---------------------------
(* Values of the constants of TimerQueue for TLC. *)
EXTENDS TimerQueue

\* Due later, and already past: clock + d may be an invalid Timestamp (<= 0).
PastDelays == {-1, 2}
=============================================================================
