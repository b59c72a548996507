------------------------- MODULE MCRetirementQueue --------------------------
EXTENDS RetirementQueue

CONSTANTS p1, p2, d1, d2

TwoPublishers == {p1, p2}
TwoDestroyers == {d1, d2}
OneDestroyer == {d1}
=============================================================================
