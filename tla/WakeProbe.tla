----------------------------- MODULE WakeProbe ------------------------------
(***************************************************************************)
(* The bounded wake probe between producers on any thread and the host's   *)
(* consumer turns (crates/fcb-runtime/src/lib.rs).  Each operation holds   *)
(* the probe's mutex from start to end, so each is one action.             *)
(*                                                                         *)
(* A command is identified by the number of commands accepted before it, a *)
(* motion update by the generation its publication produced.  The          *)
(* diagnostic counters rejected_ordered and coalesced_motion are left out: *)
(* nothing reads them back.                                                *)
(***************************************************************************)
EXTENDS Integers, Sequences

CONSTANTS
  Consumers,          \* host turns that may hold a batch at the same time
  QueueCapacity,      \* slots for ordered commands
  MaxGeneration,      \* the last value of the generation counter (u64::MAX)
  MaxTake,            \* bound: the largest drain limit a consumer asks for
  NoBatch             \* this consumer holds no batch

Priorities == 0..2    \* Background, Normal, Urgent
Background == 0
Urgent == 2

NoMotion == 0

WakeBatch ==
  [generation: 0..MaxGeneration, priority: Priorities, motion: 0..MaxGeneration]

ASSUME WakeAssumption ==
  /\ QueueCapacity \in Nat \ {0}
  /\ MaxGeneration \in Nat
  /\ MaxTake \in Nat
  /\ NoBatch \notin WakeBatch

VARIABLES
  ordered, motion, generation, priority, wakePending,
  accepted,           \* accepted_ordered
  batch,              \* the batch each consumer has taken
  delivered,          \* history: the commands handed out, in order
  lastMotion,         \* history: the newest motion update published
  seenMotion          \* history: the newest motion update handed out

probe == <<ordered, motion, generation, priority, wakePending, accepted>>
history == <<delivered, lastMotion, seenMotion>>
wakeVars == <<probe, batch, history>>

Greater(x, y) == IF x >= y THEN x ELSE y

-----------------------------------------------------------------------------
(* Producers.                                                              *)

\* Mutant: the counter is compared with its last value after it is used.
CanAdvanceLate == generation <= MaxGeneration

\* next_generation: no operation succeeds once the counter is used up.
CanAdvance == generation < MaxGeneration

\* Mutant: an ordinary request overrides the urgency of an earlier one.
ArmOverriding(p) ==
  /\ generation' = generation + 1
  /\ wakePending' = TRUE
  /\ priority' = p

\* Mutant: a second wake before the acknowledgement is taken for the first.
ArmOnce(p) ==
  /\ generation' = IF wakePending THEN generation ELSE generation + 1
  /\ wakePending' = TRUE
  /\ priority' = Greater(priority, p)

\* WakeProbe::arm
Arm(p) ==
  /\ generation' = generation + 1
  /\ wakePending' = TRUE
  /\ priority' = Greater(priority, p)

RequestWake(p) ==
  /\ CanAdvance
  /\ Arm(p)
  /\ UNCHANGED <<ordered, motion, accepted, batch, history>>

\* A full queue refuses the command and does not arm the wake.
PublishOrdered(p) ==
  /\ Len(ordered) < QueueCapacity
  /\ CanAdvance
  /\ accepted' = accepted + 1
  /\ ordered' = Append(ordered, accepted')
  /\ Arm(p)
  /\ UNCHANGED <<motion, batch, history>>

\* Mutant: the first motion update stays until it is taken.
OldestMotion == IF motion = NoMotion THEN generation + 1 ELSE motion

NewestMotion == generation + 1

PublishMotion(p) ==
  /\ CanAdvance
  /\ motion' = NewestMotion
  /\ lastMotion' = generation + 1
  /\ Arm(p)
  /\ UNCHANGED <<ordered, accepted, batch, delivered, seenMotion>>

-----------------------------------------------------------------------------
(* Consumers.                                                              *)

Smaller(x, y) == IF x <= y THEN x ELSE y

\* Mutant: the batch empties the queue whatever the drain limit was.
RemainingNone(count) == <<>>

Remaining(count) == SubSeq(ordered, count + 1, Len(ordered))

Take(c, limit) ==
  LET count == Smaller(limit, Len(ordered))
  IN  /\ batch[c] = NoBatch
      /\ limit > 0
      /\ batch' = [batch EXCEPT ![c] =
           [generation |-> generation, priority |-> priority,
            motion |-> motion]]
      /\ delivered' = delivered \o SubSeq(ordered, 1, count)
      /\ ordered' = Remaining(count)
      /\ seenMotion' = IF motion # NoMotion THEN motion ELSE seenMotion
      /\ motion' = NoMotion
      /\ UNCHANGED <<generation, priority, wakePending, accepted, lastMotion>>

\* Mutant: the generation is not compared.
IsCurrentAnyGeneration(b) == ordered = <<>> /\ motion = NoMotion

\* Mutant: the commands left behind by a bounded drain are not looked at.
IsCurrentLeavingCommands(b) == b.generation = generation /\ motion = NoMotion

\* Mutant: an off-by-one, the acknowledgement waits for a newer batch.
IsCurrentOfNext(b) ==
  b.generation = generation + 1 /\ ordered = <<>> /\ motion = NoMotion

\* The batch is the complete current state.
IsCurrent(b) ==
  /\ b.generation = generation
  /\ ordered = <<>>
  /\ motion = NoMotion

Acknowledge(c) ==
  /\ batch[c] # NoBatch
  /\ IF IsCurrent(batch[c])
     THEN wakePending' = FALSE /\ priority' = Background
     ELSE UNCHANGED <<wakePending, priority>>
  /\ batch' = [batch EXCEPT ![c] = NoBatch]
  /\ UNCHANGED <<ordered, motion, generation, accepted, history>>

\* The batch is dropped, or handed to another probe (ForeignBatch).
Abandon(c) ==
  /\ batch[c] # NoBatch
  /\ batch' = [batch EXCEPT ![c] = NoBatch]
  /\ UNCHANGED <<probe, history>>

-----------------------------------------------------------------------------

WakeInit ==
  /\ ordered = <<>>
  /\ motion = NoMotion
  /\ generation = 0
  /\ priority = Background
  /\ wakePending = FALSE
  /\ accepted = 0
  /\ batch = [c \in Consumers |-> NoBatch]
  /\ delivered = <<>>
  /\ lastMotion = NoMotion
  /\ seenMotion = NoMotion

WakeNext ==
  \/ \E p \in Priorities : RequestWake(p)
  \/ \E p \in Priorities : PublishOrdered(p)
  \/ \E p \in Priorities : PublishMotion(p)
  \/ \E c \in Consumers, limit \in 1..MaxTake : Take(c, limit)
  \/ \E c \in Consumers : Acknowledge(c)
  \/ \E c \in Consumers : Abandon(c)

WakeSpec == WakeInit /\ [][WakeNext]_wakeVars

\* The host answers a pending wake with a turn.  A turn may abandon its batch,
\* but a host whose turns come again and again does not abandon all of them.
\* Producers promise nothing.
AnswerWake(c) == wakePending /\ \E limit \in 1..MaxTake : Take(c, limit)
WakeFairness ==
  \A c \in Consumers : WF_wakeVars(AnswerWake(c)) /\ SF_wakeVars(Acknowledge(c))

WakeFairSpec == WakeSpec /\ WakeFairness

-----------------------------------------------------------------------------
(* Properties.                                                             *)

WakeTypeOK ==
  /\ ordered \in Seq(Nat)
  /\ Len(ordered) <= QueueCapacity
  /\ motion \in 0..MaxGeneration
  /\ generation \in 0..MaxGeneration
  /\ priority \in Priorities
  /\ wakePending \in BOOLEAN
  /\ accepted \in 0..MaxGeneration
  /\ batch \in [Consumers -> WakeBatch \cup {NoBatch}]
  /\ delivered \in Seq(Nat)
  /\ lastMotion \in 0..MaxGeneration
  /\ seenMotion \in 0..MaxGeneration

\* No lost wake: while anything waits in the probe its wake is pending, so a
\* host that sleeps until it is woken finds it.
NoLostWake == (ordered # <<>> \/ motion # NoMotion) => wakePending

\* Every accepted command is handed out once, in the order of acceptance,
\* however the drains are bounded and whoever takes the batches.
FifoOnce ==
  /\ accepted = Len(delivered) + Len(ordered)
  /\ \A i \in 1..Len(delivered) : delivered[i] = i
  /\ \A i \in 1..Len(ordered) : ordered[i] = Len(delivered) + i

\* Coalescing keeps the newest motion update: either it is waiting, or some
\* batch has carried it.
NewestMotionSurvives ==
  IF motion # NoMotion THEN motion = lastMotion ELSE seenMotion = lastMotion

\* An idle probe carries no urgency, and a batch of the current generation
\* carries all the urgency asked for (what reset then throws away).
UrgencyIsSeen ==
  /\ ~wakePending => priority = Background
  /\ \A c \in Consumers :
       (batch[c] # NoBatch /\ wakePending /\ batch[c].generation = generation)
         => batch[c].priority = priority

\* Requests can raise the urgency of a pending wake, never lower it; only the
\* acknowledgement that retires the wake does.
PendingUrgencyNeverDrops == wakePending /\ wakePending' => priority' >= priority

\* A wake that was asked for is retired only by a turn that began after it:
\* one that saw the last generation.
WakeRetiredBySeer ==
  wakePending /\ ~wakePending' =>
    \E c \in Consumers :
      /\ batch[c] # NoBatch
      /\ batch[c].generation = generation'
      /\ delivered' = [i \in 1..accepted' |-> i]
      /\ seenMotion' = lastMotion'

\* Every accepted command is delivered, though the host looks only when woken
\* and producers keep replacing motion.
CommandsAreDelivered ==
  \A n \in 1..MaxGeneration : (accepted >= n) ~> (Len(delivered) >= n)

\* Once producers fall silent the wake is retired: turns do not spin for ever.
WakeSettles == [](generation = MaxGeneration => <>(~wakePending))

\* What a turn is handed is all there was to hand out: commands once and in
\* order, the newest motion, the urgency asked for.
DeliveryIsExact ==
  WakeTypeOK /\ FifoOnce /\ NewestMotionSurvives /\ UrgencyIsSeen

\* A pending wake keeps its urgency and ends only with a turn that saw it.
PendingWakeStands == [][PendingUrgencyNeverDrops /\ WakeRetiredBySeer]_wakeVars

\* Turns deliver what was accepted, and come to an end.
TurnsFinishTheWork == CommandsAreDelivered /\ WakeSettles
=============================================================================
