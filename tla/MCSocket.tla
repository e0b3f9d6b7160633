------------------------------- MODULE MCSocket -------------------------------
EXTENDS Socket

CONSTANTS p1, s1

MCPublishes == {p1}
MCSubs == {s1}
=============================================================================
