------------------------------- MODULE MCTimers -------------------------------
EXTENDS Timers

CONSTANTS b1, b2, b3, b4

MCQueue == <<b1, b2, b3, b4>>
MCBuffer == Range(MCQueue)

MCTimer == {"TIMER1", "TIMER2"}
MCCount == [t \in MCTimer |-> IF t = "TIMER1" THEN 3 ELSE 2]
=============================================================================
