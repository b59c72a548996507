---------------------------- MODULE RuntimeProofs ----------------------------
(***************************************************************************)
(* Proofs about WakeProbe, for any set of consumers, any capacity and any  *)
(* width of the generation counter, and about GpuSubmission, for any sets  *)
(* of queues, submissions and buffers, any capacities and any number of    *)
(* epochs.                                                                 *)
(***************************************************************************)
EXTENDS WakeProbe, GpuSubmission, TLAPS, SequenceTheorems, FiniteSetTheorems

-----------------------------------------------------------------------------
(* The wake probe.                                                         *)

\* A batch never carries a generation the probe has not reached, and every
\* accepted command took a generation of its own.
Sampled ==
  /\ \A c \in Consumers : batch[c] # NoBatch => batch[c].generation <= generation
  /\ accepted <= generation

WakeInv ==
  /\ WakeTypeOK
  /\ Sampled
  /\ NoLostWake
  /\ FifoOnce
  /\ NewestMotionSurvives
  /\ UrgencyIsSeen

Constants ==
  /\ QueueCapacity \in Nat
  /\ MaxGeneration \in Nat
  /\ NoBatch \notin WakeBatch

LEMMA WakeConstantsHold == Constants
BY WakeAssumption DEF Constants

LEMMA WakeInitHolds == WakeInit => WakeInv
<1> SUFFICES ASSUME WakeInit PROVE WakeInv
  OBVIOUS
<1>1. ordered = <<>> /\ delivered = <<>> /\ Len(<<>>) = 0 /\ <<>> \in Seq(Nat)
  BY EmptySeq DEF WakeInit
<1>2. 0 \in 0..MaxGeneration /\ 0 <= QueueCapacity
  BY WakeConstantsHold DEF Constants
<1>3. WakeTypeOK
  <2>1. /\ ordered \in Seq(Nat) /\ Len(ordered) <= QueueCapacity
        /\ delivered \in Seq(Nat)
    BY <1>1, <1>2
  <2>2. batch \in [Consumers -> WakeBatch \cup {NoBatch}]
    BY DEF WakeInit
  <2>3. /\ motion \in 0..MaxGeneration /\ generation \in 0..MaxGeneration
        /\ accepted \in 0..MaxGeneration /\ lastMotion \in 0..MaxGeneration
        /\ seenMotion \in 0..MaxGeneration
    BY <1>2 DEF WakeInit, NoMotion
  <2>4. priority \in Priorities
    BY DEF WakeInit, Background, Priorities
  <2>5. wakePending \in BOOLEAN
    BY DEF WakeInit
  <2>6. QED BY <2>1, <2>2, <2>3, <2>4, <2>5 DEF WakeTypeOK
<1>4. Sampled
  BY DEF WakeInit, Sampled
<1>5. FifoOnce
  BY <1>1 DEF WakeInit, FifoOnce
<1>6. NoLostWake /\ NewestMotionSurvives /\ UrgencyIsSeen
  BY DEF WakeInit, NoLostWake, NewestMotionSurvives, UrgencyIsSeen
<1>7. QED BY <1>3, <1>4, <1>5, <1>6 DEF WakeInv

\* The wake half of a publication: whatever batches are out are now older than
\* the probe, and the wake is pending with at least the urgency it had.
LEMMA ArmStep ==
  ASSUME WakeInv, NEW p \in Priorities, CanAdvance, Arm(p), UNCHANGED batch
  PROVE  /\ generation' \in 0..MaxGeneration
         /\ generation' = generation + 1
         /\ priority' \in Priorities
         /\ wakePending'
         /\ priority' >= priority
         /\ UrgencyIsSeen'
         /\ \A c \in Consumers :
              batch'[c] # NoBatch => batch'[c].generation <= generation'
<1>1. /\ generation' = generation + 1
      /\ wakePending'
      /\ priority' = Greater(priority, p)
  BY DEF Arm
<1>2. /\ generation \in 0..MaxGeneration
      /\ priority \in 0..2 /\ p \in 0..2
      /\ generation < MaxGeneration
  BY DEF WakeInv, WakeTypeOK, CanAdvance, Priorities
<1>3. generation' \in 0..MaxGeneration
  BY <1>1, <1>2, WakeConstantsHold DEF Constants
<1>4. priority' \in Priorities /\ priority' >= priority
  BY <1>1, <1>2 DEF Greater, Priorities
<1>5. ASSUME NEW c \in Consumers, batch[c] # NoBatch
      PROVE  batch[c].generation <= generation /\ batch[c].generation \in Int
  BY <1>5 DEF WakeInv, WakeTypeOK, Sampled, WakeBatch
<1>6. \A c \in Consumers :
        batch'[c] # NoBatch => batch'[c].generation < generation'
  BY <1>1, <1>2, <1>5
<1>7. UrgencyIsSeen'
  BY <1>1, <1>2, <1>5 DEF UrgencyIsSeen
<1>8. QED BY <1>1, <1>2, <1>3, <1>4, <1>5, <1>7

LEMMA RequestStep ==
  ASSUME WakeInv, NEW p \in Priorities, RequestWake(p)
  PROVE  WakeInv' /\ priority' >= priority
<1>1. /\ CanAdvance /\ Arm(p)
      /\ UNCHANGED <<ordered, motion, accepted, batch, history>>
  BY DEF RequestWake
<1>2. generation' = generation + 1 /\ wakePending'
  BY <1>1, ArmStep
<1>3. WakeTypeOK'
  BY <1>1, ArmStep DEF WakeInv, WakeTypeOK, history
<1>4. Sampled'
  BY <1>1, <1>2, ArmStep DEF WakeInv, WakeTypeOK, Sampled
<1>5. NoLostWake' /\ FifoOnce' /\ NewestMotionSurvives'
  BY <1>1, <1>2
  DEF WakeInv, NoLostWake, FifoOnce, NewestMotionSurvives, history
<1>6. QED BY <1>1, <1>3, <1>4, <1>5, ArmStep DEF WakeInv

LEMMA MotionStep ==
  ASSUME WakeInv, NEW p \in Priorities, PublishMotion(p)
  PROVE  WakeInv' /\ priority' >= priority
<1>1. /\ CanAdvance /\ Arm(p)
      /\ motion' = generation + 1 /\ lastMotion' = generation + 1
      /\ UNCHANGED <<ordered, accepted, batch, delivered, seenMotion>>
  BY DEF PublishMotion, NewestMotion
<1>2. /\ generation' = generation + 1 /\ wakePending'
      /\ generation' \in 0..MaxGeneration
  BY <1>1, ArmStep
<1>3. WakeTypeOK'
  BY <1>1, <1>2, ArmStep DEF WakeInv, WakeTypeOK
<1>4. Sampled'
  BY <1>1, <1>2, ArmStep DEF WakeInv, WakeTypeOK, Sampled
<1>5. NoLostWake' /\ FifoOnce'
  BY <1>1, <1>2 DEF WakeInv, NoLostWake, FifoOnce
<1>6. NewestMotionSurvives'
  BY <1>1 DEF WakeInv, WakeTypeOK, NewestMotionSurvives, NoMotion
<1>7. QED BY <1>1, <1>3, <1>4, <1>5, <1>6, ArmStep DEF WakeInv

LEMMA OrderedStep ==
  ASSUME WakeInv, NEW p \in Priorities, PublishOrdered(p)
  PROVE  WakeInv' /\ priority' >= priority
<1>1. /\ CanAdvance /\ Arm(p)
      /\ Len(ordered) < QueueCapacity
      /\ accepted' = accepted + 1
      /\ ordered' = Append(ordered, accepted + 1)
      /\ UNCHANGED <<motion, batch, history>>
  BY DEF PublishOrdered
<1>2. /\ generation' = generation + 1 /\ wakePending'
      /\ generation' \in 0..MaxGeneration
  BY <1>1, ArmStep
<1>3. /\ accepted \in Nat /\ generation \in Nat /\ accepted <= generation
      /\ ordered \in Seq(Nat) /\ delivered \in Seq(Nat)
  BY DEF WakeInv, WakeTypeOK, Sampled
<1>4. /\ ordered' \in Seq(Nat)
      /\ Len(ordered') = Len(ordered) + 1
      /\ \A i \in 1..Len(ordered) : ordered'[i] = ordered[i]
      /\ ordered'[Len(ordered) + 1] = accepted + 1
  BY <1>1, <1>3
<1>5. accepted' \in 0..MaxGeneration /\ accepted' <= generation'
  <2>1. \A x, g \in Nat : x <= g /\ g + 1 \in 0..MaxGeneration =>
          x + 1 \in 0..MaxGeneration /\ x + 1 <= g + 1
    BY WakeConstantsHold DEF Constants
  <2>2. QED BY <1>1, <1>2, <1>3, <2>1
<1>6. WakeTypeOK'
  <2>1. Len(ordered) \in Nat /\ Len(ordered') <= QueueCapacity
    BY <1>1, <1>3, <1>4, WakeConstantsHold DEF Constants
  <2>2. QED BY <1>1, <1>2, <1>4, <1>5, <2>1, ArmStep DEF WakeInv, WakeTypeOK, history
<1>7. Sampled'
  BY <1>1, <1>5, ArmStep DEF Sampled
<1>8. FifoOnce'
  <2>1. /\ accepted = Len(delivered) + Len(ordered)
        /\ \A i \in 1..Len(delivered) : delivered[i] = i
        /\ \A i \in 1..Len(ordered) : ordered[i] = Len(delivered) + i
    BY DEF WakeInv, FifoOnce
  <2>2. Len(ordered) \in Nat /\ Len(delivered) \in Nat
    BY <1>3, LenProperties
  <2>3. delivered' = delivered
    BY <1>1 DEF history
  <2>4. accepted' = Len(delivered) + Len(ordered')
    BY <1>1, <1>4, <2>1, <2>2
  <2>5. ASSUME NEW i \in 1..Len(ordered) + 1
        PROVE  ordered'[i] = Len(delivered) + i
    BY <1>4, <2>1, <2>2, SMTT(60)
  <2>6. QED BY <1>1, <1>4, <2>1, <2>3, <2>4, <2>5 DEF FifoOnce
<1>9. NoLostWake' /\ NewestMotionSurvives'
  BY <1>1, <1>2 DEF WakeInv, NoLostWake, NewestMotionSurvives, history
<1>10. QED BY <1>1, <1>6, <1>7, <1>8, <1>9, ArmStep DEF WakeInv

LEMMA TakeStep ==
  ASSUME WakeInv, NEW c \in Consumers, NEW limit \in 1..MaxTake, Take(c, limit)
  PROVE  WakeInv'
<1> DEFINE count == Smaller(limit, Len(ordered))
           n == Len(ordered)
           d == Len(delivered)
<1>1. /\ batch[c] = NoBatch
      /\ batch' = [batch EXCEPT ![c] = [generation |-> generation,
                    priority |-> priority, motion |-> motion]]
      /\ delivered' = delivered \o SubSeq(ordered, 1, count)
      /\ ordered' = SubSeq(ordered, count + 1, n)
      /\ seenMotion' = IF motion # NoMotion THEN motion ELSE seenMotion
      /\ motion' = NoMotion
      /\ UNCHANGED <<generation, priority, wakePending, accepted, lastMotion>>
  BY DEF Take, Remaining
<1>2. /\ ordered \in Seq(Nat) /\ delivered \in Seq(Nat)
      /\ n \in Nat /\ d \in Nat /\ n <= QueueCapacity
      /\ generation \in 0..MaxGeneration /\ motion \in 0..MaxGeneration
      /\ priority \in Priorities
      /\ batch \in [Consumers -> WakeBatch \cup {NoBatch}]
  BY LenProperties DEF WakeInv, WakeTypeOK
<1>3. count \in 0..n
  BY <1>2 DEF Smaller
<1>4. /\ SubSeq(ordered, 1, count) \in Seq(Nat)
      /\ Len(SubSeq(ordered, 1, count)) = count
      /\ \A i \in 1..count : SubSeq(ordered, 1, count)[i] = ordered[i]
  <2>1. \A i \in 1..count : ordered[i] \in Nat
    BY <1>2, <1>3, ElementOfSeq
  <2> HIDE DEF count
  <2>2. QED BY <1>2, <1>3, <2>1, SubSeqProperties
<1>5. /\ ordered' \in Seq(Nat)
      /\ Len(ordered') = n - count
      /\ \A i \in 1..n - count : ordered'[i] = ordered[count + i]
  <2> DEFINE m == count + 1
  <2>1. \A i \in m..n : ordered[i] \in Nat
    BY <1>2, <1>3, ElementOfSeq
  <2>2. m \in Int /\ n \in Int
    BY <1>2, <1>3
  <2>3. /\ (IF m <= n THEN n - m + 1 ELSE 0) = n - count
        /\ n - m + 1 = n - count
        /\ \A i \in 1..n - count : m + i - 1 = count + i
    <3>1. \A x, y \in Nat : x <= y =>
            /\ (IF x + 1 <= y THEN y - (x + 1) + 1 ELSE 0) = y - x
            /\ y - (x + 1) + 1 = y - x
            /\ \A i \in 1..y - x : x + 1 + i - 1 = x + i
      OBVIOUS
    <3>2. count \in Nat /\ n \in Nat /\ count <= n
      BY <1>2, <1>3
    <3> HIDE DEF count, n
    <3>3. QED BY <3>1, <3>2
  <2>4. ordered' = SubSeq(ordered, m, n)
    BY <1>1
  <2> HIDE DEF count, m, n
  <2>5. /\ SubSeq(ordered, m, n) \in Seq(Nat)
        /\ Len(SubSeq(ordered, m, n)) = IF m <= n THEN n - m + 1 ELSE 0
        /\ \A i \in 1..n - m + 1 : SubSeq(ordered, m, n)[i] = ordered[m + i - 1]
    BY <2>1, <2>2, SubSeqProperties
  <2>6. QED BY <2>3, <2>4, <2>5
<1> HIDE DEF count, n, d
<1>6. /\ delivered' \in Seq(Nat)
      /\ Len(delivered') = d + count
      /\ \A i \in 1..d + count :
           delivered'[i] = IF i <= d THEN delivered[i] ELSE ordered[i - d]
  <2>1. /\ delivered \o SubSeq(ordered, 1, count) \in Seq(Nat)
        /\ Len(delivered \o SubSeq(ordered, 1, count)) = d + count
        /\ \A i \in 1..d + count :
             (delivered \o SubSeq(ordered, 1, count))[i] =
               IF i <= d THEN delivered[i] ELSE SubSeq(ordered, 1, count)[i - d]
    BY <1>2, <1>4, ConcatProperties DEF d
  <2>2. \A i \in 1..d + count : i <= d \/ i - d \in 1..count
    BY <1>2, <1>3
  <2>3. QED BY <1>1, <1>4, <2>1, <2>2
<1>7. WakeTypeOK'
  <2>1. Len(ordered') <= QueueCapacity
    BY <1>2, <1>3, <1>5, WakeConstantsHold DEF Constants
  <2>2. batch' \in [Consumers -> WakeBatch \cup {NoBatch}]
    BY <1>1, <1>2 DEF WakeBatch
  <2>3. motion' \in 0..MaxGeneration /\ seenMotion' \in 0..MaxGeneration
    BY <1>1, <1>2, WakeConstantsHold DEF WakeInv, WakeTypeOK, NoMotion, Constants
  <2>4. QED BY <1>1, <1>5, <1>6, <2>1, <2>2, <2>3 DEF WakeInv, WakeTypeOK
<1>8. Sampled'
  BY <1>1, <1>2 DEF WakeInv, Sampled
<1>9. NoLostWake'
  <2>1. ordered' # <<>> => ordered # <<>>
    BY <1>2, <1>3, <1>5 DEF n
  <2>2. QED BY <1>1, <2>1 DEF WakeInv, NoLostWake
<1>10. FifoOnce'
  <2>1. /\ accepted = d + n
        /\ \A i \in 1..d : delivered[i] = i
        /\ \A i \in 1..n : ordered[i] = d + i
    BY DEF WakeInv, FifoOnce, d, n
  <2>2. accepted' = Len(delivered') + Len(ordered')
    <3>1. d + n = (d + count) + (n - count)
      BY <1>2, <1>3
    <3>2. QED BY <1>1, <1>5, <1>6, <2>1, <3>1
  <2>3. ASSUME NEW i \in 1..d + count PROVE delivered'[i] = i
    <3>1. CASE i <= d
      <4>1. i \in 1..d
        BY <1>2, <1>3, <3>1
      <4>2. QED BY <1>6, <2>1, <3>1, <4>1
    <3>2. CASE ~(i <= d)
      <4>1. i - d \in 1..n /\ d + (i - d) = i
        BY <1>2, <1>3, <3>2
      <4>2. QED BY <1>6, <2>1, <3>2, <4>1
    <3>3. QED BY <3>1, <3>2
  <2>4. ASSUME NEW i \in 1..n - count PROVE ordered'[i] = d + count + i
    <3>1. count + i \in 1..n /\ d + (count + i) = d + count + i
      BY <1>2, <1>3
    <3>2. QED BY <1>5, <2>1, <3>1
  <2>5. QED BY <1>5, <1>6, <2>2, <2>3, <2>4 DEF FifoOnce
<1>11. NewestMotionSurvives'
  BY <1>1 DEF WakeInv, NewestMotionSurvives
<1>12. UrgencyIsSeen'
  <2>1. ASSUME NEW k \in Consumers,
               batch'[k] # NoBatch, wakePending', batch'[k].generation = generation'
        PROVE  batch'[k].priority = priority'
    BY <1>1, <1>2, <2>1 DEF WakeInv, UrgencyIsSeen
  <2>2. QED BY <1>1, <2>1 DEF WakeInv, UrgencyIsSeen
<1>13. QED BY <1>7, <1>8, <1>9, <1>10, <1>11, <1>12 DEF WakeInv

\* What is left after a turn ends, whether it acknowledged or not.
LEMMA EndTurnStep ==
  ASSUME WakeInv, NEW c \in Consumers, Acknowledge(c) \/ Abandon(c)
  PROVE  WakeInv'
<1>1. /\ batch' = [batch EXCEPT ![c] = NoBatch]
      /\ UNCHANGED <<ordered, motion, generation, accepted, history>>
      /\ \/ UNCHANGED <<wakePending, priority>>
         \/ /\ ~wakePending' /\ priority' = Background
            /\ wakePending' \in BOOLEAN
            /\ ordered = <<>> /\ motion = NoMotion
  BY DEF Acknowledge, Abandon, IsCurrent, probe
<1>2. batch \in [Consumers -> WakeBatch \cup {NoBatch}]
  BY DEF WakeInv, WakeTypeOK
<1>3. WakeTypeOK'
  BY <1>1, <1>2 DEF WakeInv, WakeTypeOK, history, Background, Priorities
<1>4. \A k \in Consumers : batch'[k] # NoBatch => batch'[k] = batch[k]
  BY <1>1, <1>2
<1>5. Sampled'
  BY <1>1, <1>4 DEF WakeInv, Sampled
<1>6. NoLostWake' /\ FifoOnce' /\ NewestMotionSurvives'
  BY <1>1 DEF WakeInv, NoLostWake, FifoOnce, NewestMotionSurvives, history
<1>7. UrgencyIsSeen'
  BY <1>1, <1>4 DEF WakeInv, UrgencyIsSeen
<1>8. QED BY <1>3, <1>5, <1>6, <1>7 DEF WakeInv

\* An acknowledgement that retires the wake finds everything delivered.
LEMMA AcknowledgeRetires ==
  ASSUME WakeInv, NEW c \in Consumers, Acknowledge(c)
  PROVE  WakeRetiredBySeer /\ PendingUrgencyNeverDrops
<1> SUFFICES ASSUME IsCurrent(batch[c]) PROVE WakeRetiredBySeer /\ PendingUrgencyNeverDrops
  BY DEF Acknowledge, WakeRetiredBySeer, PendingUrgencyNeverDrops, WakeInv, WakeTypeOK, Priorities
<1>1. /\ batch[c] # NoBatch
      /\ batch[c].generation = generation
      /\ ordered = <<>> /\ motion = NoMotion
      /\ ~wakePending'
      /\ UNCHANGED <<generation, accepted, delivered, lastMotion, seenMotion>>
  BY DEF Acknowledge, IsCurrent, history
<1>2. seenMotion = lastMotion
  BY <1>1 DEF WakeInv, NewestMotionSurvives
<1>3. delivered \in Seq(Nat) /\ accepted = Len(delivered)
      /\ \A i \in 1..Len(delivered) : delivered[i] = i
  BY <1>1 DEF WakeInv, WakeTypeOK, FifoOnce
<1>4. delivered = [i \in 1..accepted |-> i]
  BY <1>3
<1>5. QED BY <1>1, <1>2, <1>4 DEF WakeRetiredBySeer, PendingUrgencyNeverDrops

LEMMA NextStep ==
  ASSUME WakeInv, [WakeNext]_wakeVars
  PROVE  WakeInv' /\ [PendingUrgencyNeverDrops]_wakeVars /\ [WakeRetiredBySeer]_wakeVars
<1>1. ASSUME NEW p \in Priorities, RequestWake(p)
      PROVE  WakeInv' /\ PendingUrgencyNeverDrops /\ WakeRetiredBySeer
  BY <1>1, RequestStep DEF PendingUrgencyNeverDrops, WakeRetiredBySeer, RequestWake, Arm
<1>2. ASSUME NEW p \in Priorities, PublishOrdered(p)
      PROVE  WakeInv' /\ PendingUrgencyNeverDrops /\ WakeRetiredBySeer
  BY <1>2, OrderedStep DEF PendingUrgencyNeverDrops, WakeRetiredBySeer, PublishOrdered, Arm
<1>3. ASSUME NEW p \in Priorities, PublishMotion(p)
      PROVE  WakeInv' /\ PendingUrgencyNeverDrops /\ WakeRetiredBySeer
  BY <1>3, MotionStep DEF PendingUrgencyNeverDrops, WakeRetiredBySeer, PublishMotion, Arm
<1>4. ASSUME NEW c \in Consumers, NEW limit \in 1..MaxTake, Take(c, limit)
      PROVE  WakeInv' /\ PendingUrgencyNeverDrops /\ WakeRetiredBySeer
  <2>1. priority' = priority /\ wakePending' = wakePending /\ priority \in 0..2
    BY <1>4 DEF Take, WakeInv, WakeTypeOK, Priorities
  <2>2. QED BY <1>4, <2>1, TakeStep DEF PendingUrgencyNeverDrops, WakeRetiredBySeer
<1>5. ASSUME NEW c \in Consumers, Acknowledge(c)
      PROVE  WakeInv' /\ PendingUrgencyNeverDrops /\ WakeRetiredBySeer
  BY <1>5, EndTurnStep, AcknowledgeRetires
<1>6. ASSUME NEW c \in Consumers, Abandon(c)
      PROVE  WakeInv' /\ PendingUrgencyNeverDrops /\ WakeRetiredBySeer
  <2>1. priority' = priority /\ wakePending' = wakePending /\ priority \in 0..2
    BY <1>6 DEF Abandon, probe, WakeInv, WakeTypeOK, Priorities
  <2>2. QED BY <1>6, <2>1, EndTurnStep DEF PendingUrgencyNeverDrops, WakeRetiredBySeer
<1>7. CASE UNCHANGED wakeVars
  BY <1>7
  DEF wakeVars, probe, history, WakeInv, WakeTypeOK, Sampled, NoLostWake, FifoOnce,
      NewestMotionSurvives, UrgencyIsSeen
<1>8. QED
  BY <1>1, <1>2, <1>3, <1>4, <1>5, <1>6, <1>7 DEF WakeNext

-----------------------------------------------------------------------------

THEOREM WakeInvariant == WakeSpec => []WakeInv
<1>1. WakeInv /\ [WakeNext]_wakeVars => WakeInv'
  BY NextStep
<1>2. QED BY WakeInitHolds, <1>1, PTL DEF WakeSpec

\* The queue stays within its capacity and the counter within its width
\* (publish_ordered and next_generation, lib.rs:289-314 and 411-416).
THEOREM WakeTypesCorrect == WakeSpec => []WakeTypeOK
<1>1. WakeInv => WakeTypeOK
  BY DEF WakeInv
<1>2. QED BY <1>1, WakeInvariant, PTL

\* No wake is lost: work in the probe implies a pending wake.
THEOREM WakesAreNotLost == WakeSpec => []NoLostWake
<1>1. WakeInv => NoLostWake
  BY DEF WakeInv
<1>2. QED BY <1>1, WakeInvariant, PTL

\* Ordered commands come out once each, in the order they went in.
THEOREM CommandsAreFifo == WakeSpec => []FifoOnce
<1>1. WakeInv => FifoOnce
  BY DEF WakeInv
<1>2. QED BY <1>1, WakeInvariant, PTL

\* Coalescing never loses the newest motion update.
THEOREM MotionSurvives == WakeSpec => []NewestMotionSurvives
<1>1. WakeInv => NewestMotionSurvives
  BY DEF WakeInv
<1>2. QED BY <1>1, WakeInvariant, PTL

\* A batch of the current generation carries the urgency asked for.
THEOREM UrgencyReachesBatches == WakeSpec => []UrgencyIsSeen
<1>1. WakeInv => UrgencyIsSeen
  BY DEF WakeInv
<1>2. QED BY <1>1, WakeInvariant, PTL

\* What a turn is handed is all there was to hand out (publish_motion,
\* take_batch, lib.rs:316-369).
THEOREM DeliveriesAreExact == WakeSpec => []DeliveryIsExact
<1>1. WakeInv => DeliveryIsExact
  BY DEF WakeInv, DeliveryIsExact
<1>2. QED BY <1>1, WakeInvariant, PTL

\* Coalesced requests keep the greatest urgency until the wake is retired, and
\* acknowledge retires it only for a turn that saw all of it (lib.rs:371-389).
THEOREM PendingWakesStand == WakeSpec => PendingWakeStands
<1> DEFINE Stands == PendingUrgencyNeverDrops /\ WakeRetiredBySeer
<1>1. WakeInv /\ [WakeNext]_wakeVars => [Stands]_wakeVars
  BY NextStep
<1>2. QED
  BY <1>1, WakeInvariant, PTL DEF WakeSpec, PendingWakeStands

-----------------------------------------------------------------------------
(* Submissions.                                                            *)

Live == {"encoding", "inFlight"}

\* Only an encoder or a submission in flight holds leases, and what its
\* commands copy is among them.
HeldByLive ==
  \A s \in Submissions :
    /\ phase[s] \notin Live => leases[s] = {}
    /\ phase[s] \in Live => copies[s] \subseteq leases[s]
    /\ phase[s] = "new" => copies[s] = {}

\* The GPU runs only what is in flight.
RunsInFlight ==
  \A s \in Submissions : gpu[s] = "running" => phase[s] = "inFlight"

\* A buffer whose lease leaked is marked for good, so it is never leased again.
LeakedIsUnleased ==
  \A b \in leaked : \A s \in Submissions : b \notin leases[s]

CancelledAfterCommit ==
  \A s \in Submissions :
    /\ cancelled[s] => phase[s] \in {"inFlight", "gone"}
    /\ cancelled[s] /\ phase[s] = "gone" => status[s] = "Cancelled"

LInv ==
  /\ HeldByLive
  /\ RunsInFlight
  /\ LeakedIsUnleased
  /\ LeaseIsExclusive
  /\ CancelledAfterCommit

LEMMA SubmissionConstantsHold ==
  /\ IsFiniteSet(Submissions)
  /\ Capacity \in [Queues -> Nat \ {0}]
  /\ MaxEpoch \in Nat \ {0}
BY SubmissionAssumption

LEMMA CardinalityIsNat ==
  ASSUME NEW ss \in SUBSET Submissions
  PROVE  IsFiniteSet(ss) /\ Cardinality(ss) \in Nat
BY SubmissionConstantsHold, FS_Subset, FS_CardinalityType

-----------------------------------------------------------------------------
(* Types.                                                                  *)

\* What finishing submissions leaves of the types.
LEMMA FinishTypes ==
  ASSUME GpuTypeOK, NEW q, NEW ss \in SUBSET Submissions, Finish(ss, q)
  PROVE  /\ reserved' \in [Queues -> Nat]
         /\ \A r \in Queues : reserved'[r] <= Capacity[r]
         /\ bufferGen' \in [Buffers -> 0..MaxEpoch]
         /\ flight' \in [Buffers -> BOOLEAN]
         /\ phase' \in [Submissions -> {"new", "encoding", "inFlight", "gone"}]
         /\ leases' \in [Submissions -> SUBSET Buffers]
         /\ released' \in [Submissions -> BOOLEAN]
         /\ UNCHANGED <<leaked, queueOf, cancelled, copies, gpu>>
<1>1. Cardinality(ss) \in Nat
  BY CardinalityIsNat
<1>2. /\ reserved' \in [Queues -> Nat]
      /\ \A r \in Queues : reserved'[r] <= Capacity[r]
  <2>1. ASSUME q \in Queues
        PROVE  /\ Minus(reserved[q], Cardinality(ss)) \in Nat
               /\ Minus(reserved[q], Cardinality(ss)) <= reserved[q]
    BY <1>1, <2>1 DEF Minus, GpuTypeOK
  <2>2. reserved' = [reserved EXCEPT ![q] = Minus(reserved[q], Cardinality(ss))]
    BY DEF Finish
  <2>3. ASSUME NEW r \in Queues
        PROVE  reserved[r] \in Nat /\ Capacity[r] \in Nat /\ reserved[r] <= Capacity[r]
    BY SubmissionConstantsHold DEF GpuTypeOK
  <2>4. ASSUME NEW r \in Queues
        PROVE  reserved'[r] \in Nat /\ reserved'[r] <= Capacity[r]
    <3> DEFINE left == Minus(reserved[q], Cardinality(ss))
    <3>1. reserved'[r] = IF r = q THEN left ELSE reserved[r]
      BY <2>2 DEF GpuTypeOK
    <3>2. CASE r = q
      <4>1. left \in Nat /\ left <= reserved[r] /\ reserved'[r] = left
        BY <2>1, <3>1, <3>2
      <4> HIDE DEF left
      <4>2. QED BY <2>3, <4>1
    <3>3. CASE r # q
      BY <2>3, <3>1, <3>3
    <3>4. QED BY <3>2, <3>3
  <2>5. DOMAIN reserved' = Queues /\ reserved' = [r \in Queues |-> reserved'[r]]
    BY <2>2 DEF GpuTypeOK
  <2>6. QED BY <2>4, <2>5
<1>3. flight' \in [Buffers -> BOOLEAN]
  BY DEF Finish, FlightWithout, GpuTypeOK
<1>4. phase' \in [Submissions -> {"new", "encoding", "inFlight", "gone"}]
  BY DEF Finish, GpuTypeOK
<1>5. leases' \in [Submissions -> SUBSET Buffers]
  BY DEF Finish, GpuTypeOK
<1>6. released' \in [Submissions -> BOOLEAN]
  BY DEF Finish, GpuTypeOK
<1>7. QED BY <1>2, <1>3, <1>4, <1>5, <1>6 DEF Finish, GpuTypeOK

LEMMA StatusTypes ==
  ASSUME GpuTypeOK, NEW ss \in SUBSET Submissions
  PROVE  StatusAfter(ss) \in [Submissions -> Terminal \cup {"Pending"}]
BY DEF GpuTypeOK, StatusAfter, FinalStatus, DriverStatus, Terminal

LEMMA TypesStep == GpuTypeOK /\ [GpuNext]_gpuVars => GpuTypeOK'
<1> SUFFICES ASSUME GpuTypeOK, [GpuNext]_gpuVars PROVE GpuTypeOK'
  OBVIOUS
<1> USE SubmissionConstantsHold
<1>1. ASSUME NEW b \in Buffers, CreateBuffer(b) PROVE GpuTypeOK'
  BY <1>1 DEF GpuTypeOK, CreateBuffer, device, submission
<1>2. ASSUME NEW q \in Queues, InvalidateGeneration(q) PROVE GpuTypeOK'
  BY <1>2 DEF GpuTypeOK, InvalidateGeneration, buffers, submission
<1>3. ASSUME NEW s \in Submissions, NEW q \in Queues, BeginSubmission(s, q)
      PROVE  GpuTypeOK'
  BY <1>3 DEF GpuTypeOK, BeginSubmission, HasRoom, device, buffers
<1>4. ASSUME NEW s \in Submissions, NEW src \in Buffers, NEW dst \in Buffers,
             EncodeCopy(s, src, dst)
      PROVE  GpuTypeOK'
  BY <1>4 DEF GpuTypeOK, EncodeCopy, device
<1>5. ASSUME NEW s \in Submissions, NEW src \in Buffers, NEW dst \in Buffers,
             EncodeCopyBusy(s, src, dst)
      PROVE  GpuTypeOK'
  BY <1>5 DEF GpuTypeOK, EncodeCopyBusy, device, submission
<1>6. ASSUME NEW s \in Submissions, Commit(s) PROVE GpuTypeOK'
  BY <1>6 DEF GpuTypeOK, Commit, device, buffers
<1>7. ASSUME NEW s \in Submissions, DropEncoder(s) PROVE GpuTypeOK'
  <2> DEFINE left == IF reserved[queueOf[s]] > 0 THEN reserved[queueOf[s]] - 1 ELSE 0
  <2>1. /\ reserved' \in [Queues -> Nat]
        /\ \A q \in Queues : reserved'[q] <= Capacity[q]
    <3>1. reserved' = [reserved EXCEPT ![queueOf[s]] = left]
      BY <1>7 DEF DropEncoder, ReservedAfterDrop
    <3>2. ASSUME NEW q \in Queues
          PROVE  reserved'[q] \in Nat /\ reserved'[q] <= Capacity[q]
      <4>1. reserved[q] \in Nat /\ Capacity[q] \in Nat /\ reserved[q] <= Capacity[q]
        BY DEF GpuTypeOK
      <4>2. reserved'[q] = IF q = queueOf[s] THEN left ELSE reserved[q]
        BY <3>1 DEF GpuTypeOK
      <4>3. QED BY <4>1, <4>2
    <3>3. reserved' = [q \in Queues |-> reserved'[q]]
      BY <3>1 DEF GpuTypeOK
    <3>4. QED BY <3>2, <3>3
  <2>2. flight' \in [Buffers -> BOOLEAN]
    BY <1>7 DEF GpuTypeOK, DropEncoder, FlightWithout
  <2>3. QED BY <1>7, <2>1, <2>2 DEF GpuTypeOK, DropEncoder, device, Terminal
<1>8. ASSUME NEW s \in Submissions, NEW q \in Queues, Cancel(s, q) PROVE GpuTypeOK'
  <2>1. (s \in InFlight(q)) \in BOOLEAN
    OBVIOUS
  <2>2. cancelled' \in [Submissions -> BOOLEAN]
    BY <1>8, <2>1 DEF GpuTypeOK, Cancel
  <2>3. QED BY <1>8, <2>2 DEF GpuTypeOK, Cancel, FlightAfterCancel, device, Terminal
<1>9. ASSUME NEW s \in Submissions, GpuFinishes(s) PROVE GpuTypeOK'
  BY <1>9 DEF GpuTypeOK, GpuFinishes, device, buffers, submission
<1>10. ASSUME NEW q \in Queues, PollCompletions(q) PROVE GpuTypeOK'
  <2>1. Finished(q) \in SUBSET Submissions
    BY DEF Finished, InFlight
  <2>2. QED BY <1>10, <2>1, FinishTypes, StatusTypes DEF GpuTypeOK, PollCompletions, device
<1>11. ASSUME NEW s \in Submissions, WaitForSubmission(s) PROVE GpuTypeOK'
  BY <1>11, FinishTypes, StatusTypes DEF GpuTypeOK, WaitForSubmission, device
<1>12. ASSUME NEW q \in Queues, DrainAllSync(q) PROVE GpuTypeOK'
  <2>1. InFlight(q) \in SUBSET Submissions
    BY DEF InFlight
  <2>2. QED BY <1>12, <2>1, FinishTypes, StatusTypes DEF GpuTypeOK, DrainAllSync, device
<1>13. ASSUME NEW q \in Queues, DropQueue(q) PROVE GpuTypeOK'
  <2>1. InFlight(q) \in SUBSET Submissions
    BY DEF InFlight
  <2>2. status' \in [Submissions -> Terminal \cup {"Pending"}]
    BY <1>13 DEF GpuTypeOK, DropQueue, Terminal
  <2>3. QED BY <1>13, <2>1, <2>2, FinishTypes DEF GpuTypeOK, DropQueue
<1>14. CASE UNCHANGED gpuVars
  BY <1>14 DEF GpuTypeOK, gpuVars, device, buffers, submission
<1>15. QED
  BY <1>1, <1>2, <1>3, <1>4, <1>5, <1>6, <1>7, <1>8, <1>9, <1>10, <1>11, <1>12,
     <1>13, <1>14 DEF GpuNext

-----------------------------------------------------------------------------
(* Leases, the GPU and cancellations.                                      *)

\* Finishing submissions that are in flight and that the GPU has left.
LEMMA FinishLeases ==
  ASSUME GpuTypeOK, LInv, NEW q, NEW ss \in SUBSET Submissions,
         \A s \in ss : phase[s] = "inFlight" /\ gpu[s] # "running",
         Finish(ss, q),
         \A s \in Submissions :
           status'[s] = "Cancelled" \/ (s \in ss /\ ~cancelled[s])
                                    \/ (s \notin ss /\ status'[s] = status[s])
  PROVE  LInv'
<1>1. /\ phase' = [s \in Submissions |-> IF s \in ss THEN "gone" ELSE phase[s]]
      /\ leases' = [s \in Submissions |-> IF s \in ss THEN {} ELSE leases[s]]
      /\ flight' = [b \in Buffers |-> flight[b] /\ \A s \in ss : b \notin leases[s]]
      /\ UNCHANGED <<leaked, cancelled, copies, gpu>>
  BY DEF Finish, FlightWithout
<1>2. HeldByLive'
  BY <1>1 DEF LInv, HeldByLive, Live
<1>3. RunsInFlight'
  BY <1>1 DEF LInv, RunsInFlight
<1>4. LeakedIsUnleased'
  BY <1>1 DEF LInv, LeakedIsUnleased, GpuTypeOK
<1>5. LeaseIsExclusive'
  <2>1. ASSUME NEW b \in Buffers, NEW s \in Submissions, NEW t \in Submissions,
               b \in leases'[s], b \in leases'[t]
        PROVE  s = t
    BY <1>1, <2>1 DEF LInv, LeaseIsExclusive
  <2>2. ASSUME NEW b \in Buffers
        PROVE  flight'[b] <=> b \in leaked' \/ \E s \in Submissions : b \in leases'[s]
    <3>1. flight'[b] <=> flight[b] /\ \A s \in ss : b \notin leases[s]
      BY <1>1
    <3>2. flight[b] <=> b \in leaked \/ \E s \in Submissions : b \in leases[s]
      BY DEF LInv, LeaseIsExclusive
    <3>3. b \in leaked => \A s \in Submissions : b \notin leases[s]
      BY DEF LInv, LeakedIsUnleased
    <3>4. \A s, t \in Submissions : b \in leases[s] /\ b \in leases[t] => s = t
      BY DEF LInv, LeaseIsExclusive
    <3>5. \A s \in Submissions : leases'[s] = IF s \in ss THEN {} ELSE leases[s]
      BY <1>1
    <3>6. leaked' = leaked
      BY <1>1
    <3>7. QED BY <3>1, <3>2, <3>3, <3>4, <3>5, <3>6
  <2>3. QED BY <2>1, <2>2 DEF LeaseIsExclusive
<1>6. CancelledAfterCommit'
  BY <1>1 DEF LInv, CancelledAfterCommit
<1>7. QED BY <1>2, <1>3, <1>4, <1>5, <1>6 DEF LInv

LEMMA FinalStatuses ==
  ASSUME GpuTypeOK, NEW ss \in SUBSET Submissions, status' = StatusAfter(ss)
  PROVE  \A s \in Submissions :
           status'[s] = "Cancelled" \/ (s \in ss /\ ~cancelled[s])
                                    \/ (s \notin ss /\ status'[s] = status[s])
BY DEF StatusAfter, FinalStatus, GpuTypeOK

\* An encoder obtains leases on buffers that are free or its own.
LEMMA EncodeLeases ==
  ASSUME GpuTypeOK, LInv, NEW s \in Submissions, NEW src \in Buffers, NEW dst \in Buffers,
         EncodeCopy(s, src, dst)
  PROVE  LInv'
<1>1. /\ phase[s] = "encoding"
      /\ src \in leases[s] \/ ~flight[src]
      /\ dst \in leases[s] \/ ~flight[dst]
      /\ \A t \in Submissions :
           leases'[t] = IF t = s THEN leases[s] \cup {src, dst} ELSE leases[t]
      /\ \A b \in Buffers : flight'[b] <=> (b \in {src, dst} \/ flight[b])
      /\ UNCHANGED <<phase, cancelled, status, leaked, gpu>>
  BY DEF EncodeCopy, Acquirable, GpuTypeOK
<1>2. \A t \in Submissions : copies'[t] \subseteq
        IF t = s THEN copies[s] \cup {src, dst} ELSE copies[t]
  BY DEF EncodeCopy, GpuTypeOK
<1>3. HeldByLive'
  <2>1. \A t \in Submissions : phase[t] = "new" => t # s
    BY <1>1
  <2>2. \A t \in Submissions : t # s => copies'[t] \subseteq copies[t]
    BY <1>2
  <2>3. copies'[s] \subseteq copies[s] \cup {src, dst}
    BY <1>2
  <2>4. QED BY <1>1, <2>1, <2>2, <2>3 DEF LInv, HeldByLive, Live
<1>4. RunsInFlight' /\ CancelledAfterCommit'
  BY <1>1 DEF LInv, RunsInFlight, CancelledAfterCommit
<1>5. LeakedIsUnleased'
  <2>1. \A b \in leaked : b \in Buffers /\ flight[b] /\ \A t \in Submissions : b \notin leases[t]
    BY DEF LInv, LeakedIsUnleased, LeaseIsExclusive, GpuTypeOK
  <2>2. src \notin leaked /\ dst \notin leaked
    BY <1>1, <2>1
  <2>3. QED BY <1>1, <2>1, <2>2 DEF LeakedIsUnleased
<1>6. LeaseIsExclusive'
  <2>1. \A t \in Submissions : t # s => src \notin leases[t] /\ dst \notin leases[t]
    BY <1>1 DEF LInv, LeaseIsExclusive
  <2>2. QED BY <1>1, <2>1 DEF LInv, LeaseIsExclusive
<1>7. QED BY <1>3, <1>4, <1>5, <1>6 DEF LInv

\* A copy that is refused half way marks a buffer nobody holds.
LEMMA BusyLeases ==
  ASSUME GpuTypeOK, LInv, NEW s \in Submissions, NEW src \in Buffers, NEW dst \in Buffers,
         EncodeCopyBusy(s, src, dst)
  PROVE  LInv'
<1>1. /\ ~flight[src]
      /\ leaked' = leaked \cup {src}
      /\ \A b \in Buffers : flight'[b] <=> (b = src \/ flight[b])
      /\ UNCHANGED submission /\ UNCHANGED gpu
  BY DEF EncodeCopyBusy, GpuTypeOK
<1>2. UNCHANGED <<phase, leases, cancelled, status, copies, gpu>>
  BY <1>1 DEF submission
<1>3. \A t \in Submissions : src \notin leases[t]
  BY <1>1 DEF LInv, LeaseIsExclusive
<1>4. HeldByLive' /\ RunsInFlight' /\ CancelledAfterCommit'
  BY <1>2 DEF LInv, HeldByLive, RunsInFlight, CancelledAfterCommit
<1>5. LeakedIsUnleased'
  BY <1>1, <1>2, <1>3 DEF LInv, LeakedIsUnleased
<1>6. LeaseIsExclusive'
  BY <1>1, <1>2 DEF LInv, LeaseIsExclusive
<1>7. QED BY <1>4, <1>5, <1>6 DEF LInv

\* A dropped encoder releases what it leased.
LEMMA DropLeases ==
  ASSUME GpuTypeOK, LInv, NEW s \in Submissions, DropEncoder(s)
  PROVE  LInv'
<1>1. /\ phase[s] = "encoding"
      /\ phase' = [phase EXCEPT ![s] = "gone"]
      /\ leases' = [leases EXCEPT ![s] = {}]
      /\ \A b \in Buffers : flight'[b] <=> (flight[b] /\ b \notin leases[s])
      /\ status' = [status EXCEPT ![s] = "Cancelled"]
      /\ UNCHANGED <<leaked, cancelled, copies, gpu>>
  BY DEF DropEncoder, FlightWithout
<1>2. HeldByLive' /\ RunsInFlight'
  BY <1>1 DEF LInv, HeldByLive, RunsInFlight, Live, GpuTypeOK
<1>3. LeakedIsUnleased'
  BY <1>1 DEF LInv, LeakedIsUnleased, GpuTypeOK
<1>4. LeaseIsExclusive'
  <2>1. \A b \in leaked : b \notin leases[s]
    BY DEF LInv, LeakedIsUnleased
  <2>2. \A t \in Submissions : leases'[t] = IF t = s THEN {} ELSE leases[t]
    BY <1>1 DEF GpuTypeOK
  <2>3. QED BY <1>1, <2>1, <2>2 DEF LInv, LeaseIsExclusive
<1>5. CancelledAfterCommit'
  BY <1>1 DEF LInv, CancelledAfterCommit, GpuTypeOK
<1>6. QED BY <1>2, <1>3, <1>4, <1>5 DEF LInv

LEMMA LeasesStep == GpuTypeOK /\ LInv /\ [GpuNext]_gpuVars => LInv'
<1> SUFFICES ASSUME GpuTypeOK, LInv, [GpuNext]_gpuVars PROVE LInv'
  OBVIOUS
<1>1. ASSUME NEW b \in Buffers, CreateBuffer(b) PROVE LInv'
  BY <1>1 DEF CreateBuffer, submission, LInv, HeldByLive, RunsInFlight,
     LeakedIsUnleased, LeaseIsExclusive, CancelledAfterCommit
<1>2. ASSUME NEW q \in Queues, InvalidateGeneration(q) PROVE LInv'
  BY <1>2 DEF InvalidateGeneration, buffers, submission, LInv, HeldByLive,
     RunsInFlight, LeakedIsUnleased, LeaseIsExclusive, CancelledAfterCommit
<1>3. ASSUME NEW s \in Submissions, NEW q \in Queues, BeginSubmission(s, q)
      PROVE  LInv'
  BY <1>3 DEF BeginSubmission, buffers, LInv, HeldByLive, RunsInFlight, Live,
     LeakedIsUnleased, LeaseIsExclusive, CancelledAfterCommit, GpuTypeOK
<1>4. ASSUME NEW s \in Submissions, NEW src \in Buffers, NEW dst \in Buffers,
             EncodeCopy(s, src, dst)
      PROVE  LInv'
  BY <1>4, EncodeLeases
<1>5. ASSUME NEW s \in Submissions, NEW src \in Buffers, NEW dst \in Buffers,
             EncodeCopyBusy(s, src, dst)
      PROVE  LInv'
  BY <1>5, BusyLeases
<1>6. ASSUME NEW s \in Submissions, Commit(s) PROVE LInv'
  BY <1>6 DEF Commit, buffers, LInv, HeldByLive, RunsInFlight, Live,
     LeakedIsUnleased, LeaseIsExclusive, CancelledAfterCommit, GpuTypeOK
<1>7. ASSUME NEW s \in Submissions, DropEncoder(s) PROVE LInv'
  BY <1>7, DropLeases
<1>8. ASSUME NEW s \in Submissions, NEW q \in Queues, Cancel(s, q) PROVE LInv'
  <2>1. /\ phase[s] = "inFlight"
        /\ \A t \in Submissions : t # s => /\ cancelled'[t] = cancelled[t]
                                           /\ status'[t] = status[t]
        /\ UNCHANGED <<phase, leases, flight, leaked, copies, gpu>>
    BY <1>8 DEF Cancel, FlightAfterCancel, GpuTypeOK
  <2>2. CancelledAfterCommit'
    BY <2>1 DEF LInv, CancelledAfterCommit
  <2>3. QED BY <2>1, <2>2 DEF LInv, HeldByLive, RunsInFlight,
     LeakedIsUnleased, LeaseIsExclusive
<1>9. ASSUME NEW s \in Submissions, GpuFinishes(s) PROVE LInv'
  BY <1>9 DEF GpuFinishes, buffers, submission, LInv, HeldByLive, RunsInFlight,
     LeakedIsUnleased, LeaseIsExclusive, CancelledAfterCommit, GpuTypeOK
<1>10. ASSUME NEW q \in Queues, PollCompletions(q) PROVE LInv'
  <2>1. /\ Finished(q) \in SUBSET Submissions
        /\ \A s \in Finished(q) : phase[s] = "inFlight" /\ gpu[s] # "running"
    BY DEF Finished, InFlight, Done
  <2>2. Finish(Finished(q), q) /\ status' = StatusAfter(Finished(q))
    BY <1>10 DEF PollCompletions
  <2>3. QED BY <2>1, <2>2, FinishLeases, FinalStatuses
<1>11. ASSUME NEW s \in Submissions, WaitForSubmission(s) PROVE LInv'
  <2>1. phase[s] = "inFlight" /\ gpu[s] # "running"
    BY <1>11 DEF WaitForSubmission, Done
  <2>2. Finish({s}, queueOf[s]) /\ status' = StatusAfter({s})
    BY <1>11 DEF WaitForSubmission
  <2>3. QED BY <2>1, <2>2, FinishLeases, FinalStatuses
<1>12. ASSUME NEW q \in Queues, DrainAllSync(q) PROVE LInv'
  <2>1. /\ InFlight(q) \in SUBSET Submissions
        /\ \A s \in InFlight(q) : phase[s] = "inFlight" /\ gpu[s] # "running"
    BY <1>12 DEF DrainAllSync, InFlight, Done
  <2>2. Finish(InFlight(q), q) /\ status' = StatusAfter(InFlight(q))
    BY <1>12 DEF DrainAllSync
  <2>3. QED BY <2>1, <2>2, FinishLeases, FinalStatuses
<1>13. ASSUME NEW q \in Queues, DropQueue(q) PROVE LInv'
  <2>1. /\ InFlight(q) \in SUBSET Submissions
        /\ \A s \in InFlight(q) : phase[s] = "inFlight" /\ gpu[s] # "running"
    BY <1>13 DEF DropQueue, InFlight, Done
  <2>2. /\ Finish(InFlight(q), q)
        /\ \A s \in Submissions :
             status'[s] = IF s \in InFlight(q) THEN "Cancelled" ELSE status[s]
    BY <1>13 DEF DropQueue
  <2>3. QED BY <2>1, <2>2, FinishLeases
<1>14. CASE UNCHANGED gpuVars
  BY <1>14 DEF gpuVars, device, buffers, submission, LInv, HeldByLive, RunsInFlight,
     LeakedIsUnleased, LeaseIsExclusive, CancelledAfterCommit
<1>15. QED
  BY <1>1, <1>2, <1>3, <1>4, <1>5, <1>6, <1>7, <1>8, <1>9, <1>10, <1>11, <1>12,
     <1>13, <1>14 DEF GpuNext

-----------------------------------------------------------------------------
(* Reservations.                                                           *)

Holding(q) == {s \in Submissions : phase[s] \in Live /\ queueOf[s] = q}

\* A live submission belongs to a queue, and the counts agree.
RInv ==
  /\ \A s \in Submissions : phase[s] \in Live => queueOf[s] \in Queues
  /\ \A q \in Queues : reserved[q] = Cardinality(Holding(q))

LEMMA HoldingIsLive == \A q \in Queues : Holding(q) = Encoding(q) \cup InFlight(q)
BY DEF Holding, Live, Encoding, InFlight

\* Nothing is reserved or given back by a step that leaves these alone.
LEMMA SameReservations ==
  ASSUME RInv, UNCHANGED <<reserved, queueOf>>,
         \A s \in Submissions : phase'[s] \in Live <=> phase[s] \in Live
  PROVE  RInv'
<1>1. ASSUME NEW q \in Queues PROVE Holding(q)' = Holding(q)
  BY DEF Holding
<1>2. QED BY <1>1 DEF RInv

\* Submissions of one queue that leave it give back as many reservations.
LEMMA GivenBack ==
  ASSUME GpuTypeOK, RInv, NEW q \in Queues, NEW ss \in SUBSET Holding(q),
         queueOf' = queueOf,
         \A s \in Submissions : phase'[s] \in Live <=> phase[s] \in Live /\ s \notin ss,
         reserved' = [reserved EXCEPT ![q] = Minus(reserved[q], Cardinality(ss))]
  PROVE  RInv'
<1>1. /\ IsFiniteSet(Holding(q)) /\ Cardinality(Holding(q)) \in Nat
      /\ Cardinality(ss) \in Nat /\ Cardinality(ss) <= Cardinality(Holding(q))
  <2>1. Holding(q) \in SUBSET Submissions /\ ss \in SUBSET Submissions
    BY DEF Holding
  <2>2. QED BY <2>1, CardinalityIsNat, FS_Subset
<1>2. Cardinality(Holding(q) \ ss) = Cardinality(Holding(q)) - Cardinality(ss)
  <2>1. Holding(q) \cap ss = ss
    OBVIOUS
  <2>2. QED BY <1>1, <2>1, FS_Difference
<1>3. Holding(q)' = Holding(q) \ ss
  BY DEF Holding
<1>4. ASSUME NEW r \in Queues, r # q PROVE Holding(r)' = Holding(r)
  BY <1>4 DEF Holding
<1>5. reserved'[q] = Cardinality(Holding(q)')
  <2>1. reserved[q] = Cardinality(Holding(q))
    BY DEF RInv
  <2>2. reserved'[q] = Minus(reserved[q], Cardinality(ss))
    BY DEF GpuTypeOK
  <2>3. Minus(reserved[q], Cardinality(ss)) = Cardinality(Holding(q)) - Cardinality(ss)
    BY <1>1, <2>1 DEF Minus
  <2>4. QED BY <1>2, <1>3, <2>2, <2>3
<1>6. ASSUME NEW r \in Queues, r # q PROVE reserved'[r] = Cardinality(Holding(r)')
  <2>1. reserved'[r] = reserved[r]
    BY <1>6 DEF GpuTypeOK
  <2>2. QED BY <1>4, <1>6, <2>1 DEF RInv
<1>7. QED BY <1>5, <1>6 DEF RInv

LEMMA ReservationsStep == GpuTypeOK /\ RInv /\ [GpuNext]_gpuVars => RInv'
<1> SUFFICES ASSUME GpuTypeOK, RInv, [GpuNext]_gpuVars PROVE RInv'
  OBVIOUS
<1>1. ASSUME NEW b \in Buffers, CreateBuffer(b) PROVE RInv'
  BY <1>1, SameReservations DEF CreateBuffer, submission
<1>2. ASSUME NEW q \in Queues, InvalidateGeneration(q) PROVE RInv'
  BY <1>2, SameReservations DEF InvalidateGeneration, submission
<1>3. ASSUME NEW s \in Submissions, NEW q \in Queues, BeginSubmission(s, q)
      PROVE  RInv'
  <2>1. /\ phase[s] = "new"
        /\ phase' = [phase EXCEPT ![s] = "encoding"]
        /\ queueOf' = [queueOf EXCEPT ![s] = q]
        /\ reserved' = [reserved EXCEPT ![q] = reserved[q] + 1]
    BY <1>3 DEF BeginSubmission
  <2>2. Holding(q)' = Holding(q) \cup {s} /\ s \notin Holding(q)
    BY <2>1 DEF Holding, Live, GpuTypeOK
  <2>3. ASSUME NEW r \in Queues, r # q PROVE Holding(r)' = Holding(r)
    BY <2>1, <2>3 DEF Holding, Live, GpuTypeOK
  <2>4. IsFiniteSet(Holding(q))
    BY CardinalityIsNat DEF Holding
  <2>5. Cardinality(Holding(q)') = Cardinality(Holding(q)) + 1
    BY <2>2, <2>4, FS_AddElement
  <2>6. reserved'[q] = Cardinality(Holding(q)')
    BY <2>1, <2>5 DEF RInv, GpuTypeOK
  <2>7. ASSUME NEW r \in Queues, r # q PROVE reserved'[r] = Cardinality(Holding(r)')
    BY <2>1, <2>3, <2>7 DEF RInv, GpuTypeOK
  <2>8. \A t \in Submissions : phase'[t] \in Live => queueOf'[t] \in Queues
    BY <2>1 DEF RInv, GpuTypeOK
  <2>9. QED BY <2>6, <2>7, <2>8 DEF RInv
<1>4. ASSUME NEW s \in Submissions, NEW src \in Buffers, NEW dst \in Buffers,
             EncodeCopy(s, src, dst)
      PROVE  RInv'
  BY <1>4, SameReservations DEF EncodeCopy
<1>5. ASSUME NEW s \in Submissions, NEW src \in Buffers, NEW dst \in Buffers,
             EncodeCopyBusy(s, src, dst)
      PROVE  RInv'
  BY <1>5, SameReservations DEF EncodeCopyBusy, submission
<1>6. ASSUME NEW s \in Submissions, Commit(s) PROVE RInv'
  BY <1>6, SameReservations DEF Commit, Live, GpuTypeOK
<1>7. ASSUME NEW s \in Submissions, DropEncoder(s) PROVE RInv'
  <2>1. queueOf[s] \in Queues /\ {s} \in SUBSET Holding(queueOf[s])
    BY <1>7 DEF DropEncoder, RInv, Live, Holding
  <2>2. \A t \in Submissions : phase'[t] \in Live <=> phase[t] \in Live /\ t \notin {s}
    BY <1>7 DEF DropEncoder, Live, GpuTypeOK
  <2>3. Cardinality({s}) = 1
    BY FS_EmptySet, FS_AddElement
  <2>4. Minus(reserved[queueOf[s]], Cardinality({s})) =
          IF reserved[queueOf[s]] > 0 THEN reserved[queueOf[s]] - 1 ELSE 0
    BY <2>1, <2>3 DEF Minus, GpuTypeOK
  <2>5. reserved' = [reserved EXCEPT ![queueOf[s]] =
                       Minus(reserved[queueOf[s]], Cardinality({s}))]
    BY <1>7, <2>4 DEF DropEncoder, ReservedAfterDrop
  <2>6. queueOf' = queueOf
    BY <1>7 DEF DropEncoder
  <2>7. QED BY <2>1, <2>2, <2>5, <2>6, GivenBack
<1>8. ASSUME NEW s \in Submissions, NEW q \in Queues, Cancel(s, q) PROVE RInv'
  BY <1>8, SameReservations DEF Cancel
<1>9. ASSUME NEW s \in Submissions, GpuFinishes(s) PROVE RInv'
  BY <1>9, SameReservations DEF GpuFinishes, submission
<1>10. ASSUME NEW q \in Queues, NEW ss \in SUBSET InFlight(q), Finish(ss, q)
       PROVE  RInv'
  <2>1. ss \in SUBSET Holding(q)
    BY DEF InFlight, Holding, Live
  <2>2. \A s \in Submissions : phase'[s] \in Live <=> phase[s] \in Live /\ s \notin ss
    BY <1>10 DEF Finish, Live
  <2>3. QED BY <1>10, <2>1, <2>2, GivenBack DEF Finish
<1>11. ASSUME NEW q \in Queues, PollCompletions(q) PROVE RInv'
  BY <1>10, <1>11 DEF PollCompletions, Finished
<1>12. ASSUME NEW s \in Submissions, WaitForSubmission(s) PROVE RInv'
  <2>1. queueOf[s] \in Queues /\ {s} \in SUBSET InFlight(queueOf[s])
    BY <1>12 DEF WaitForSubmission, RInv, Live, InFlight
  <2>2. QED BY <1>10, <1>12, <2>1 DEF WaitForSubmission
<1>13. ASSUME NEW q \in Queues, DrainAllSync(q) PROVE RInv'
  BY <1>10, <1>13 DEF DrainAllSync
<1>14. ASSUME NEW q \in Queues, DropQueue(q) PROVE RInv'
  BY <1>10, <1>14 DEF DropQueue
<1>15. CASE UNCHANGED gpuVars
  BY <1>15, SameReservations DEF gpuVars, submission
<1>16. QED
  BY <1>1, <1>2, <1>3, <1>4, <1>5, <1>6, <1>7, <1>8, <1>9, <1>11, <1>12, <1>13,
     <1>14, <1>15 DEF GpuNext

-----------------------------------------------------------------------------
(* Theorems.                                                               *)

SubmissionInv == GpuTypeOK /\ LInv /\ RInv

LEMMA SubmissionInitHolds == GpuInit => SubmissionInv
<1> SUFFICES ASSUME GpuInit PROVE SubmissionInv
  OBVIOUS
<1>1. GpuTypeOK
  BY SubmissionConstantsHold DEF GpuInit, GpuTypeOK, Terminal
<1>2. LInv
  BY DEF GpuInit, LInv, HeldByLive, Live, RunsInFlight, LeakedIsUnleased,
     LeaseIsExclusive, CancelledAfterCommit
<1>3. RInv
  <2>1. \A q \in Queues : Holding(q) = {}
    BY DEF GpuInit, Holding, Live
  <2>2. QED BY <2>1, FS_EmptySet DEF GpuInit, RInv, Live
<1>4. QED BY <1>1, <1>2, <1>3 DEF SubmissionInv

LEMMA Inductive == GpuSpec => []SubmissionInv
<1>1. SubmissionInv /\ [GpuNext]_gpuVars => SubmissionInv'
  BY TypesStep, LeasesStep, ReservationsStep DEF SubmissionInv
<1>2. QED BY SubmissionInitHolds, <1>1, PTL DEF GpuSpec

\* The marks, leases and cells keep their types, and no queue reserves more
\* than its capacity.
THEOREM SubmissionTypesCorrect == GpuSpec => []GpuTypeOK
<1>1. SubmissionInv => GpuTypeOK
  BY DEF SubmissionInv
<1>2. QED BY Inductive, <1>1, PTL

\* begin_submission and its undoing by drop, finish_slot and the queue's drop
\* balance, so reserved is the number of live encoders and slots in flight.
THEOREM ReservationsBalance == GpuSpec => []ReservedIsExact
<1>1. SubmissionInv => ReservedIsExact
  BY HoldingIsLive DEF SubmissionInv, RInv, ReservedIsExact
<1>2. QED BY Inductive, <1>1, PTL

\* No two encoders or submissions lease the same buffer, through whichever
\* queues, and a buffer is marked exactly while it is leased or has leaked.
THEOREM LeasesAreExclusive == GpuSpec => []LeaseIsExclusive
<1>1. SubmissionInv => LeaseIsExclusive
  BY DEF SubmissionInv, LInv
<1>2. QED BY Inductive, <1>1, PTL

\* What the GPU reads or writes refuses CPU writes until it is done.
THEOREM GpuWorkStaysLocked == GpuSpec => []GpuWorkIsLocked
<1>1. SubmissionInv => GpuWorkIsLocked
  BY DEF SubmissionInv, LInv, RunsInFlight, HeldByLive, Live, LeaseIsExclusive,
     GpuWorkIsLocked, GpuTypeOK
<1>2. QED BY Inductive, <1>1, PTL

\* finish_slot reports the cancellation its slot was marked with.
THEOREM CancellationsStand == GpuSpec => []CancellationStands
<1>1. SubmissionInv => CancellationStands
  BY DEF SubmissionInv, LInv, CancelledAfterCommit, CancellationStands
<1>2. QED BY Inductive, <1>1, PTL

\* Places in the queues and the fate of submissions are told right by
\* encode, poll, wait, drain, cancel and drop.
THEOREM SubmissionsStayExact == GpuSpec => []SubmissionsAreExact
<1>1. GpuTypeOK /\ ReservedIsExact /\ CancellationStands => SubmissionsAreExact
  BY DEF SubmissionsAreExact
<1>2. QED BY <1>1, SubmissionTypesCorrect, ReservationsBalance, CancellationsStand, PTL

\* A marked buffer has one holder, and work of the GPU keeps its buffers marked.
THEOREM BuffersStayLocked == GpuSpec => []BuffersAreLocked
<1>1. LeaseIsExclusive /\ GpuWorkIsLocked => BuffersAreLocked
  BY DEF BuffersAreLocked
<1>2. QED BY <1>1, LeasesAreExclusive, GpuWorkStaysLocked, PTL

==============================================================================
