--------------------------- MODULE TerminalDrain ----------------------------
(***************************************************************************)
(* The lossless terminal drain of GPU submissions and the wake that brings *)
(* the host to it (crates/fcb-runtime/src/terminal.rs with WakeProbe).     *)
(*                                                                         *)
(* The threads are the host's submitters, the driver's completion          *)
(* callbacks, cancelling callers, and drains: a drain is a host turn that  *)
(* answers a wake, or a poll outside any turn.  Each step is one critical  *)
(* section or one atomic access.  Counters, the event ring and the queue's *)
(* own wake_pending bit, which nothing reads back, are left out.  The      *)
(* driver and the order of the host's calls are external.                  *)
(***************************************************************************)
EXTENDS Integers, FiniteSets, FiniteSetsExt

CONSTANTS
  Submissions,        \* identities minted by GpuSubmissionId::next
  Capacity,           \* slots of the drain queue
  Turns, Pollers,     \* drains: host turns, and polls outside a turn
  RetirementRoom,     \* slots of the retirement queue given to the drain
  CommitFirst,        \* the host commits a record before the driver or a
                      \* canceller is told of the submission
  MaxGeneration,      \* bound: generations of the wake probe
  NoSlot, NoBatch

Drainers == Turns \cup Pollers
Slots == 1..Capacity

Terminal == {"Success", "Cancelled", "Error"}
Statuses == Terminal \cup {"Pending"}

\* retained_leases and retired_payloads of the record are leases[s] and
\* payloads[s]; drained and leases_released are set only on the way out.
SlotRecord ==
  [submission: Submissions, status: Statuses, committed: BOOLEAN]

ASSUME DrainAssumption ==
  /\ IsFiniteSet(Submissions)
  /\ Capacity \in Nat \ {0}
  /\ RetirementRoom \in Nat
  /\ CommitFirst \in BOOLEAN
  /\ MaxGeneration \in Nat
  /\ Turns \cap Pollers = {}
  /\ NoSlot \notin SlotRecord

VARIABLES
  slots, closed, inFlight,
  flag,               \* has_unserviced_wake
  minted,             \* submission identities in use
  reservation,        \* the submissions whose reservation is alive
  signal,             \* how far signal_coalesced_wake is for a submission
  stage, taken,       \* how far each drain is, and the records it took out
  leases, payloads,   \* what became of the lease and the payload attached
  driver,             \* external: the driver's work for a submission
  reported,           \* history: the status a drain took it out with
  drains,             \* history: how often a submission was drained
  ordered, motion, generation, priority, wakePending, accepted,
  batch, delivered, lastMotion, seenMotion    \* the wake probe

Probe == INSTANCE WakeProbe WITH Consumers <- Turns, QueueCapacity <- 1,
                                 MaxTake <- 1

probe == <<ordered, motion, generation, priority, wakePending, accepted,
           batch, delivered, lastMotion, seenMotion>>
queue == <<slots, closed, inFlight>>
threads == <<minted, reservation, signal, stage, taken>>
effects == <<leases, payloads, driver, reported, drains>>
vars == <<queue, flag, threads, effects, probe>>

-----------------------------------------------------------------------------
(* Records.                                                                *)

Occupied == {i \in Slots : slots[i] # NoSlot}
SlotsOf(s) == {i \in Occupied : slots[i].submission = s}

\* The record the search of record_completion and cancel_submission finds.
SlotOf(s) == Min(SlotsOf(s))

\* Mutant: a record is taken out whatever its status.
CompletedEarly == {i \in Occupied : slots[i].committed}

Completed == {i \in Occupied : slots[i].committed /\ slots[i].status \in Terminal}

\* Mutant: a record of another submission that has completed is reused.
FreeSlotsReused == {i \in Slots : slots[i] = NoSlot \/ i \in Completed}

FreeSlots == {i \in Slots : slots[i] = NoSlot}

-----------------------------------------------------------------------------
(* Submitters.                                                             *)

\* Mutant: a closed channel still admits.
AdmitsAlways == TRUE

Admits == ~closed

\* reserve; refused when closed or saturated, which changes nothing.
Reserve(s) ==
  /\ s \notin minted
  /\ Admits
  /\ FreeSlots # {}
  /\ slots' = [slots EXCEPT ![Min(FreeSlots)] =
       [submission |-> s, status |-> "Pending", committed |-> FALSE]]
  /\ minted' = minted \cup {s}
  /\ reservation' = reservation \cup {s}
  /\ UNCHANGED <<closed, inFlight, flag, signal, stage, taken, effects, probe>>

AttachLease(s) ==
  /\ s \in reservation
  /\ leases[s] = "none"
  /\ leases' = [leases EXCEPT ![s] = "held"]
  /\ UNCHANGED <<queue, flag, threads, payloads, driver, reported, drains, probe>>

AttachRetiredPayload(s) ==
  /\ s \in reservation
  /\ payloads[s] = "none"
  /\ payloads' = [payloads EXCEPT ![s] = "held"]
  /\ UNCHANGED <<queue, flag, threads, leases, driver, reported, drains, probe>>

Committed(s) == \E i \in SlotsOf(s) : slots[i].committed

\* External: the host hands the work to the driver.
Submit(s) ==
  /\ driver[s] = "absent"
  /\ IF CommitFirst THEN Committed(s) ELSE s \in reservation
  /\ driver' = [driver EXCEPT ![s] = "running"]
  /\ UNCHANGED <<queue, flag, threads, leases, payloads, reported, drains, probe>>

\* The host commits after the driver took the work, as commit() asks for.
Commit(s) ==
  /\ s \in reservation
  /\ CommitFirst \/ driver[s] # "absent"
  /\ slots' = [slots EXCEPT ![SlotOf(s)].committed = TRUE]
  /\ inFlight' = inFlight + 1
  /\ reservation' = reservation \ {s}
  /\ UNCHANGED <<closed, flag, minted, signal, stage, taken, effects, probe>>

\* TerminalRecordReservation::drop without a commit: the record goes, and
\* with it the lease and the payload.
Abort(s) ==
  /\ s \in reservation
  /\ driver[s] = "absent"
  /\ slots' = [slots EXCEPT ![SlotOf(s)] = NoSlot]
  /\ reservation' = reservation \ {s}
  /\ leases' = [leases EXCEPT ![s] = "none"]
  /\ payloads' = [payloads EXCEPT ![s] = "none"]
  /\ UNCHANGED <<closed, inFlight, flag, minted, signal, stage, taken,
                 driver, reported, drains, probe>>

Close ==
  /\ ~closed
  /\ closed' = TRUE
  /\ UNCHANGED <<slots, inFlight, flag, threads, effects, probe>>

-----------------------------------------------------------------------------
(* Completion callbacks, cancellation and the wake.                        *)

DriverFinishes(s) ==
  /\ driver[s] = "running"
  /\ driver' = [driver EXCEPT ![s] = "finished"]
  /\ UNCHANGED <<queue, flag, threads, leases, payloads, reported, drains, probe>>

Settled(s, status) == [slots EXCEPT ![SlotOf(s)].status = status]

\* Mutant: the callback settles the record and wakes nobody.
SignalsNever(s) == signal

\* Mutant: a closed channel no longer wakes the host.
SignalsIfOpen(s) ==
  IF slots[SlotOf(s)].status = "Pending" /\ ~closed
  THEN [signal EXCEPT ![s] = "raise"]
  ELSE signal

\* The first to settle a record signals.
SignalsIfPending(s) ==
  IF slots[SlotOf(s)].status = "Pending" THEN [signal EXCEPT ![s] = "raise"]
                                         ELSE signal

\* record_completion: UnknownSubmission if the record is gone.
RecordCompletion(s, status) ==
  /\ driver[s] = "finished"
  /\ driver' = [driver EXCEPT ![s] = "reported"]
  /\ IF SlotsOf(s) = {}
     THEN UNCHANGED <<slots, signal>>
     ELSE /\ slots' = Settled(s, status)
          /\ signal' = SignalsIfPending(s)
  /\ UNCHANGED <<closed, inFlight, flag, minted, reservation, stage, taken,
                 leases, payloads, reported, drains, probe>>

\* cancel_submission; a record that is already settled is left alone.
CancelSubmission(s) ==
  /\ SlotsOf(s) # {}
  /\ CommitFirst => Committed(s)
  /\ slots[SlotOf(s)].status = "Pending"
  /\ slots' = Settled(s, "Cancelled")
  /\ signal' = SignalsIfPending(s)
  /\ UNCHANGED <<closed, inFlight, flag, minted, reservation, stage, taken,
                 effects, probe>>

\* signal_coalesced_wake: the swap of has_unserviced_wake.
RaiseFlag(s) ==
  /\ signal[s] = "raise"
  /\ flag' = TRUE
  /\ signal' = [signal EXCEPT ![s] = IF flag THEN "none" ELSE "publish"]
  /\ UNCHANGED <<queue, minted, reservation, stage, taken, effects, probe>>

\* The rest of it, under the queue's mutex; the result is not looked at.
PublishWake(s) ==
  /\ signal[s] = "publish"
  /\ signal' = [signal EXCEPT ![s] = "none"]
  /\ IF generation < MaxGeneration THEN Probe!PublishMotion(Probe!Urgent)
                                   ELSE UNCHANGED probe
  /\ UNCHANGED <<queue, flag, minted, reservation, stage, taken, effects>>

-----------------------------------------------------------------------------
(* Drains.                                                                 *)

\* External: a host turn takes the probe's batch, drains and acknowledges.
TurnBegins(c) ==
  /\ wakePending
  /\ stage[c] = "idle"
  /\ Probe!Take(c, 1)
  /\ UNCHANGED <<queue, flag, threads, effects>>

MayDrain(d) == stage[d] = "idle" /\ (d \in Turns => batch[d] # NoBatch)

\* Mutant: the flag is not reset, so later signals count as coalesced.
ClearFlagNever(d) ==
  /\ MayDrain(d)
  /\ stage' = [stage EXCEPT ![d] = "cleared"]
  /\ UNCHANGED <<queue, flag, minted, reservation, signal, taken, effects, probe>>

\* drain_completed_internal, first statement.
ClearFlag(d) ==
  /\ MayDrain(d)
  /\ flag' = FALSE
  /\ stage' = [stage EXCEPT ![d] = "cleared"]
  /\ UNCHANGED <<queue, minted, reservation, signal, taken, effects, probe>>

Monus(x, y) == IF x > y THEN x - y ELSE 0

\* Mutant: the records are copied, not taken, out of the slots.
SlotsAfterCopy == slots

SlotsAfterTaking == [i \in Slots |-> IF i \in Completed THEN NoSlot ELSE slots[i]]

\* The critical section that takes the completed records out.
TakeCompleted(d) ==
  /\ stage[d] = "cleared"
  /\ taken' = [taken EXCEPT ![d] = {slots[i] : i \in Completed}]
  /\ slots' = SlotsAfterTaking
  /\ inFlight' = Monus(inFlight, Cardinality(Completed))
  /\ stage' = [stage EXCEPT ![d] = "processing"]
  /\ reported' = [s \in Submissions |->
       IF \E i \in Completed : slots[i].submission = s
       THEN slots[SlotOf(s)].status
       ELSE reported[s]]
  /\ UNCHANGED <<closed, flag, minted, reservation, signal,
                 leases, payloads, driver, drains, probe>>

Queued == {s \in Submissions : payloads[s] = "queued"}

\* Mutant: the leases of a record that failed stay with it.
ReleasedUnlessError(r) ==
  IF leases[r.submission] = "held" /\ r.status # "Error" THEN "released"
                                                         ELSE leases[r.submission]

Released(r) ==
  IF leases[r.submission] = "held" THEN "released" ELSE leases[r.submission]

\* One record, outside the mutex: leases go, the payload moves to the
\* retirement queue or, when that refuses, is destroyed on the spot.
ProcessRecord(d) ==
  \E r \in taken[d] :
    LET s == r.submission
    IN  /\ stage[d] = "processing"
        /\ taken' = [taken EXCEPT ![d] = @ \ {r}]
        /\ leases' = [leases EXCEPT ![s] = Released(r)]
        /\ payloads' = [payloads EXCEPT ![s] =
             IF @ # "held" THEN @
             ELSE IF Cardinality(Queued) < RetirementRoom THEN "queued"
             ELSE "inline"]
        /\ drains' = [drains EXCEPT ![s] = @ + 1]
        /\ UNCHANGED <<queue, flag, minted, reservation, signal, stage,
                       driver, reported, probe>>

DrainEnds(d) ==
  /\ stage[d] = "processing"
  /\ taken[d] = {}
  /\ stage' = [stage EXCEPT ![d] = IF d \in Turns THEN "drained" ELSE "idle"]
  /\ UNCHANGED <<queue, flag, minted, reservation, signal, taken, effects, probe>>

TurnEnds(c) ==
  /\ stage[c] = "drained"
  /\ stage' = [stage EXCEPT ![c] = "idle"]
  /\ Probe!Acknowledge(c)
  /\ UNCHANGED <<queue, flag, minted, reservation, signal, taken, effects>>

\* The maintenance thread destroys a retired payload (RetirementQueue).
DestroyRetired(s) ==
  /\ payloads[s] = "queued"
  /\ payloads' = [payloads EXCEPT ![s] = "destroyed"]
  /\ UNCHANGED <<queue, flag, threads, leases, driver, reported, drains, probe>>

-----------------------------------------------------------------------------

Init ==
  /\ slots = [i \in Slots |-> NoSlot]
  /\ closed = FALSE
  /\ inFlight = 0
  /\ flag = FALSE
  /\ minted = {}
  /\ reservation = {}
  /\ signal = [s \in Submissions |-> "none"]
  /\ stage = [d \in Drainers |-> "idle"]
  /\ taken = [d \in Drainers |-> {}]
  /\ leases = [s \in Submissions |-> "none"]
  /\ payloads = [s \in Submissions |-> "none"]
  /\ driver = [s \in Submissions |-> "absent"]
  /\ reported = [s \in Submissions |-> "Pending"]
  /\ drains = [s \in Submissions |-> 0]
  /\ Probe!WakeInit

Next ==
  \/ \E s \in Submissions : Reserve(s)
  \/ \E s \in Submissions : AttachLease(s)
  \/ \E s \in Submissions : AttachRetiredPayload(s)
  \/ \E s \in Submissions : Submit(s)
  \/ \E s \in Submissions : Commit(s)
  \/ \E s \in Submissions : Abort(s)
  \/ Close
  \/ \E s \in Submissions : DriverFinishes(s)
  \/ \E s \in Submissions, status \in {"Success", "Error"} :
       RecordCompletion(s, status)
  \/ \E s \in Submissions : CancelSubmission(s)
  \/ \E s \in Submissions : RaiseFlag(s)
  \/ \E s \in Submissions : PublishWake(s)
  \/ \E c \in Turns : TurnBegins(c)
  \/ \E d \in Drainers : ClearFlag(d)
  \/ \E d \in Drainers : TakeCompleted(d)
  \/ \E d \in Drainers : ProcessRecord(d)
  \/ \E d \in Drainers : DrainEnds(d)
  \/ \E c \in Turns : TurnEnds(c)
  \/ \E s \in Submissions : DestroyRetired(s)

Spec == Init /\ [][Next]_vars

\* Calls that were begun return, a committed record's work reaches the driver
\* and the driver finishes it, and the host answers its wakes.  No poll has to
\* be made, and nothing has to be reserved, cancelled or closed.
Fairness ==
  /\ \A s \in Submissions :
       /\ WF_vars(s \in minted /\ Submit(s))
       /\ WF_vars(DriverFinishes(s))
       /\ WF_vars(\E status \in {"Success", "Error"} : RecordCompletion(s, status))
       /\ WF_vars(RaiseFlag(s)) /\ WF_vars(PublishWake(s))
  /\ \A d \in Drainers :
       WF_vars(TakeCompleted(d)) /\ WF_vars(ProcessRecord(d)) /\ WF_vars(DrainEnds(d))
  /\ \A c \in Turns :
       WF_vars(TurnBegins(c)) /\ WF_vars(ClearFlag(c)) /\ WF_vars(TurnEnds(c))

FairSpec == Spec /\ Fairness

-----------------------------------------------------------------------------
(* Properties.                                                             *)

TypeOK ==
  /\ slots \in [Slots -> SlotRecord \cup {NoSlot}]
  /\ closed \in BOOLEAN
  /\ inFlight \in 0..Capacity
  /\ flag \in BOOLEAN
  /\ minted \subseteq Submissions
  /\ reservation \subseteq minted
  /\ signal \in [Submissions -> {"none", "raise", "publish"}]
  /\ stage \in [Drainers -> {"idle", "cleared", "processing", "drained"}]
  /\ taken \in [Drainers -> SUBSET SlotRecord]
  /\ leases \in [Submissions -> {"none", "held", "released"}]
  /\ payloads \in [Submissions -> {"none", "held", "queued", "inline", "destroyed"}]
  /\ driver \in [Submissions -> {"absent", "running", "finished", "reported"}]
  /\ reported \in [Submissions -> Statuses]
  /\ drains \in [Submissions -> 0..1]
  /\ Probe!WakeTypeOK

TakenOf(s) ==
  {d \in Drainers : \E r \in taken[d] : r.submission = s}

\* Conservation: a submission has one record, in a slot, in a drain's hands or
\* drained, from its reservation until the end of its drain, unless its
\* reservation was aborted; two drains never report it twice.
RecordsConserved ==
  \A s \in Submissions :
    LET copies == Cardinality(SlotsOf(s)) + Cardinality(TakenOf(s)) + drains[s]
    IN  /\ copies <= 1
        /\ (s \in reservation \/ driver[s] # "absent") => copies = 1
        /\ s \in reservation => SlotsOf(s) # {}

\* in_flight_count is the number of committed records in the slots, so that
\* its saturating subtraction never saturates.
InFlightIsExact ==
  inFlight = Cardinality({i \in Occupied : slots[i].committed})

\* A lease and a payload stay with the record and leave when it is drained:
\* none is held by nobody, none is released before the record is reported.
HeldWithRecord ==
  \A s \in Submissions :
    /\ (leases[s] = "held" \/ payloads[s] = "held") =>
         SlotsOf(s) # {} \/ TakenOf(s) # {}
    /\ leases[s] = "released" => drains[s] = 1
    /\ drains[s] = 1 => leases[s] # "held" /\ payloads[s] # "held"

\* The lease of work the driver still runs is released only for a submission
\* that was cancelled.
RunningKeepsLease ==
  \A s \in Submissions :
    driver[s] \in {"running", "finished"} /\ leases[s] = "released"
      => reported[s] = "Cancelled"

\* Stated by terminal.rs:559-562: a cancelled submission's leases too remain
\* locked until the hardware callback signals completion.
CancelledKeepsLease ==
  \A s \in Submissions :
    driver[s] \in {"running", "finished"} => leases[s] # "released"

\* A wake is on its way to a drain that has still to take records out.
WakeComing ==
  \/ \E s \in Submissions : signal[s] = "publish"
  \/ \E d \in Drainers : stage[d] = "cleared"
  \/ /\ wakePending
     /\ \A c \in Turns :
          stage[c] \in {"processing", "drained"} => batch[c].generation < generation

\* No completion wake is lost: a completed record that waits for its drain has
\* its own signal still to come, or a wake coming.
NoLostWake ==
  \A i \in Completed : signal[slots[i].submission] = "raise" \/ WakeComing

\* Stated by the project's plan (line 1190: the wake flag is reset in an order
\* that cannot lose a concurrent event) of a host that commits when commit's
\* comment says, after the driver took the work: no completion waits unwoken.
NoLostCompletion ==
  \A i \in Completed :
    LET s == slots[i].submission
    IN  driver[s] = "reported" => signal[s] = "raise" \/ WakeComing

\* Every completion the driver reports is drained in the end, by hosts that
\* look at the queue only when they are woken.
CompletionsAreDrained ==
  \A s \in Submissions : (driver[s] = "reported") ~> (drains[s] = 1)

\* Closing the channel lets what is in flight drain out.
ClosedDrainsOut == closed ~> (inFlight = 0)

-----------------------------------------------------------------------------
(* The slots, the drains and their threads implement the channel: a record *)
(* is admitted from its reservation to the critical section that takes it  *)
(* out, and delivered from there on with the status it then had.           *)

Delivered(s) == reported[s] # "Pending"

StageOf(s) ==
  CASE s \notin minted -> "new"
    [] Delivered(s) -> "delivered"
    [] ~Delivered(s) /\ SlotsOf(s) # {} -> "admitted"
    [] OTHER -> "aborted"

StatusOf(s) == IF SlotsOf(s) # {} THEN slots[SlotOf(s)].status ELSE reported[s]

Channel == INSTANCE CompletionChannel WITH
  open <- ~closed,
  stage <- [s \in Submissions |-> StageOf(s)],
  committed <- {s \in Submissions : Committed(s) \/ Delivered(s)},
  result <- [s \in Submissions |-> StatusOf(s)]

\* Refinement: every step of the queue is a step of the conservation channel:
\* each admitted submission is delivered once with its last status, or was
\* aborted uncommitted, and a drain leaves no settled record behind.
ImplementsChannel == Channel!Spec

\* Records are neither lost nor doubled, and what is in flight is counted.
RecordsAreExact == RecordsConserved /\ InFlightIsExact

\* A wake is where a completed record needs one, in states of the right type.
CompletionsAreHeard == TypeOK /\ NoLostWake

\* Leases and payloads follow their records, and the driver's work its lease.
LeasesFollowRecords == HeldWithRecord /\ RunningKeepsLease

\* A host that looks only when woken finishes what was reported and what it
\* closed on.
DrainFinishes == CompletionsAreDrained /\ ClosedDrainsOut
=============================================================================
