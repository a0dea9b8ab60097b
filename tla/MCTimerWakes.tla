---------------------------- MODULE MCTimerWakes ----------------------------
(* TimerWakes for TLC: i1 and i2 are zero-delay timers, t1 a timeout, v1 an   *)
(* interval. Tokens start at 8 instead of 2^63; doubles are spaced 4 apart   *)
(* from there instead of 2048.                                               *)
EXTENDS TimerWakes

CONSTANTS i1, i2, t1, v1

MCKind == [t \in Timers |-> IF t \in {i1, i2} THEN "immediate"
                            ELSE IF t = t1 THEN "timeout" ELSE "interval"]
=============================================================================
