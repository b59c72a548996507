------------------------------ MODULE MCSettling ------------------------------
(***************************************************************************)
(* What must come to an end, on small instances: drains of completed       *)
(* submissions, and the retirement of artifacts that were replaced.  They  *)
(* share no state; a behaviour is one of a single subject while the other  *)
(* rests.                                                                  *)
(***************************************************************************)
EXTENDS TerminalDrain, RetirementQueue

CONSTANTS
  Subjects,           \* the subjects of a run
  s1, s2, t1, p1, p2, d1, d2

VARIABLE subject

TwoSubmissions == {s1, s2}
OneTurn == {t1}
NoPoller == {}
TwoPublishers == {p1, p2}
TwoDestroyers == {d1, d2}

-----------------------------------------------------------------------------
settlingVars == <<subject, vars, retirementVars>>

SettlingInit == subject \in Subjects /\ Init /\ RetirementInit

SettlingNext ==
  /\ UNCHANGED subject
  /\ \/ subject = "terminal" /\ Next /\ UNCHANGED retirementVars
     \/ subject = "retirement" /\ RetirementNext /\ UNCHANGED vars

SettlingSpec == SettlingInit /\ [][SettlingNext]_settlingVars

\* RetirementFairness, owed while the queue is the subject.  At rest nothing
\* that the fairness of the drain names is enabled, so that it asks for nothing.
RetiringFairness ==
  /\ \A d \in Destroyers :
       WF_retirementVars(subject = "retirement" /\ Drain(d))
  /\ \A p \in Publishers :
       /\ SF_retirementVars(subject = "retirement" /\ Publish(p))
       /\ SF_retirementVars(subject = "retirement" /\ CommitSwap(p))
       /\ WF_retirementVars(subject = "retirement" /\ CancelLease(p))

FairSettlingSpec == SettlingSpec /\ Fairness /\ RetiringFairness
=============================================================================
