----------------------------- MODULE MCRuntime ------------------------------
(***************************************************************************)
(* The wake probe and the submissions of the GPU on small instances.  They *)
(* share no state, so a behaviour is one of a single subject while the     *)
(* other rests: the state spaces add up instead of multiplying, and a      *)
(* subject at rest is owed no fairness.                                    *)
(***************************************************************************)
EXTENDS WakeProbe, GpuSubmission

CONSTANTS
  Subjects,           \* the subjects of a run
  c1, c2, q1, q2, s1, s2, b1, b2

VARIABLE subject

TwoConsumers == {c1, c2}
OneQueue == {q1}
TwoQueues == {q1, q2}
OneSubmission == {s1}
TwoSubmissions == {s1, s2}
TwoBuffers == {b1, b2}
OneThenTwo == [q \in Queues |-> IF q = q1 THEN 1 ELSE 2]

runtimeVars == <<subject, wakeVars, gpuVars>>

RuntimeInit == subject \in Subjects /\ WakeInit /\ GpuInit

RuntimeNext ==
  /\ UNCHANGED subject
  /\ \/ subject = "wake" /\ WakeNext /\ UNCHANGED gpuVars
     \/ subject = "gpu" /\ GpuNext /\ UNCHANGED wakeVars

RuntimeSpec == RuntimeInit /\ [][RuntimeNext]_runtimeVars

\* At rest nothing of either is enabled, so their fairness asks for nothing.
FairRuntimeSpec == RuntimeSpec /\ WakeFairness /\ GpuFairness
=============================================================================
