------------------------------ MODULE MCNetServer ------------------------------
EXTENDS NetServer

CONSTANTS a1, a2

MCAutomate == {a1, a2}
MCOrder == <<a1, a2>>
=============================================================================
