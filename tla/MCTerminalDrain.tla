-------------------------- MODULE MCTerminalDrain ---------------------------
EXTENDS TerminalDrain, TLC

CONSTANTS s1, s2, t1, q1

OneSubmission == {s1}
TwoSubmissions == {s1, s2}
OneTurn == {t1}
OnePoller == {q1}
NoPoller == {}

Symmetry == Permutations(Submissions)
=============================================================================
