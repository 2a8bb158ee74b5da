------------------------------ MODULE MCFsmSystem ------------------------------
EXTENDS FsmSystem

CONSTANTS a0, a1, b0

MCAutomate == {a0, a1, b0}
MCTypeOf == [a \in MCAutomate |-> IF a = b0 THEN 1 ELSE 0]
MCObjects == [t \in {0, 1} |-> IF t = 0 THEN 2 ELSE 1]
MCUseFreeList == [t \in {0, 1} |-> t = 0]
=============================================================================
