-------------------------- MODULE RetirementQueue ---------------------------
(***************************************************************************)
(* Off-UI retirement of published artifacts                                *)
(* (crates/fcb-core/src/retirement.rs).  A publisher reserves a slot and   *)
(* its bytes before it swaps, so the artifact it replaces always has a     *)
(* place to go; a drain pops items under the queue's mutex and destroys    *)
(* them after it has let go of it.                                         *)
(*                                                                         *)
(* Each publisher replaces its own Arc; <<p, v>> is the v-th artifact it   *)
(* published.  Counters that only status() reads are left out, and no      *)
(* thread panics with the mutex held, so nothing is ever poisoned.         *)
(***************************************************************************)
EXTENDS Integers, Sequences, FiniteSets

CONSTANTS
  Publishers,         \* interaction threads with an active artifact each
  Destroyers,         \* threads that drain the queue
  QueueSlots,           \* slots of the queue
  PoolBytes,          \* the budget's retirement pool
  MaxBytes,           \* bound: the largest artifact
  MaxVersion,         \* bound: artifacts one publisher publishes
  NoReservation

\* Cancelled when its slot is given back and its lease is not yet dropped.
RetirementReservation == [bytes: 1..MaxBytes, cancelled: BOOLEAN]

\* A retired item; charged until its lease is dropped.
RetiredItem ==
  [artifact: Publishers \X (0..MaxVersion), bytes: 1..MaxBytes,
   charged: BOOLEAN]

ASSUME RetirementAssumption ==
  /\ IsFiniteSet(Publishers) /\ IsFiniteSet(Destroyers)
  /\ QueueSlots \in Nat \ {0}
  /\ PoolBytes \in Nat
  /\ MaxBytes \in Nat
  /\ MaxVersion \in Nat
  /\ NoReservation \notin RetirementReservation

VARIABLES
  reservedSlots, items, retainedBytes,
  poolReserved,       \* bytes charged to the budget's retirement pool
  held,               \* the reservation each publisher holds
  active,             \* the version each publisher has published last
  dying,              \* what each drain has popped and not destroyed yet
  destroyed           \* history: the artifacts whose destructor has run

slotsAndItems == <<reservedSlots, items, retainedBytes>>
retirementVars == <<slotsAndItems, poolReserved, held, active, dying, destroyed>>

-----------------------------------------------------------------------------
(* Publication.                                                            *)

\* Mutant: the queue admits one reservation too many.
SlotFreeLate == reservedSlots <= QueueSlots

SlotFree == reservedSlots < QueueSlots

\* Mutant: the queue charges nothing for an artifact that fits the pool.
ChargeNothing(bytes) == bytes <= PoolBytes /\ UNCHANGED poolReserved

\* The lease of the retirement class, or a refusal (ProtectedPools of
\* ResourceLedger is what makes the pool the queue's own).
Charge(bytes) ==
  /\ poolReserved + bytes <= PoolBytes
  /\ poolReserved' = poolReserved + bytes

\* reserve_slot; a refusal defers the publication and changes nothing.
ReserveSlot(p, bytes) ==
  /\ held[p] = NoReservation
  /\ SlotFree
  /\ Charge(bytes)
  /\ reservedSlots' = reservedSlots + 1
  /\ held' = [held EXCEPT ![p] = [bytes |-> bytes, cancelled |-> FALSE]]
  /\ UNCHANGED <<items, retainedBytes, active, dying, destroyed>>

\* Mutant: the slot is given back when the item takes it over.
SlotAfterPushReleased == reservedSlots - 1

SlotAfterPush == reservedSlots

Reserves(p) == held[p] # NoReservation /\ ~held[p].cancelled

\* commit_swap: the replaced artifact goes to the reserved slot.
CommitSwap(p) ==
  LET item == [artifact |-> <<p, active[p]>>, bytes |-> held[p].bytes,
               charged |-> TRUE]
  IN  /\ Reserves(p)
      /\ active[p] < MaxVersion
      /\ active' = [active EXCEPT ![p] = @ + 1]
      /\ items' = Append(items, item)
      /\ retainedBytes' = retainedBytes + item.bytes
      /\ reservedSlots' = SlotAfterPush
      /\ held' = [held EXCEPT ![p] = NoReservation]
      /\ UNCHANGED <<poolReserved, dying, destroyed>>

\* RetirementReservation::drop without a commit: the slot under the mutex,
\* then the lease.
CancelSlot(p) ==
  /\ Reserves(p)
  /\ reservedSlots' = IF reservedSlots > 0 THEN reservedSlots - 1 ELSE 0
  /\ held' = [held EXCEPT ![p].cancelled = TRUE]
  /\ UNCHANGED <<items, retainedBytes, poolReserved, active, dying, destroyed>>

CancelLease(p) ==
  /\ held[p] # NoReservation
  /\ held[p].cancelled
  /\ poolReserved' = poolReserved - held[p].bytes
  /\ held' = [held EXCEPT ![p] = NoReservation]
  /\ UNCHANGED <<slotsAndItems, active, dying, destroyed>>

-----------------------------------------------------------------------------
(* Drains.                                                                 *)

\* The bytes of items one by one, so that their sum is how many they are.
Units(seq) == {u \in (DOMAIN seq) \X (1..MaxBytes) : u[2] <= seq[u[1]].bytes}

BytesOf(seq) == Cardinality(Units(seq))

SaturatingSub(x, y) == IF x > y THEN x - y ELSE 0

\* Mutant: the drain forgets what does not fit its batch.
LeftInQueueNone(n) == <<>>

LeftInQueue(n) == SubSeq(items, n + 1, Len(items))

\* Mutant: a batch gives one slot back, whatever its length.
SlotsAfterPopOne(n) == SaturatingSub(reservedSlots, 1)

SlotsAfterPop(n) == SaturatingSub(reservedSlots, n)

\* drain_batch under the mutex.
PopBatch(d, max) ==
  LET n == IF max < Len(items) THEN max ELSE Len(items)
      batch == SubSeq(items, 1, n)
  IN  /\ dying[d] = <<>>
      /\ n > 0
      /\ items' = LeftInQueue(n)
      /\ dying' = [dying EXCEPT ![d] = batch]
      /\ reservedSlots' = SlotsAfterPop(n)
      /\ retainedBytes' = SaturatingSub(retainedBytes, BytesOf(batch))
      /\ UNCHANGED <<poolReserved, held, active, destroyed>>

\* drop(items_to_drop), item by item; the fields of an item are dropped in
\* the order of their declaration, the lease before the payload.
DropLease(d) ==
  /\ dying[d] # <<>>
  /\ dying[d][1].charged
  /\ poolReserved' = poolReserved - dying[d][1].bytes
  /\ dying' = [dying EXCEPT ![d][1].charged = FALSE]
  /\ UNCHANGED <<slotsAndItems, held, active, destroyed>>

\* Mutant: the end of the batch is not destroyed.
AfterFirstNone(d) == <<>>

AfterFirst(d) == Tail(dying[d])

DestroyPayload(d) ==
  /\ dying[d] # <<>>
  /\ ~dying[d][1].charged
  /\ destroyed' = destroyed \cup {dying[d][1].artifact}
  /\ dying' = [dying EXCEPT ![d] = AfterFirst(d)]
  /\ UNCHANGED <<slotsAndItems, poolReserved, held, active>>

-----------------------------------------------------------------------------

RetirementInit ==
  /\ reservedSlots = 0
  /\ items = <<>>
  /\ retainedBytes = 0
  /\ poolReserved = 0
  /\ held = [p \in Publishers |-> NoReservation]
  /\ active = [p \in Publishers |-> 0]
  /\ dying = [d \in Destroyers |-> <<>>]
  /\ destroyed = {}

Drain(d) ==
  \/ \E max \in 1..QueueSlots : PopBatch(d, max)
  \/ DropLease(d)
  \/ DestroyPayload(d)

Publish(p) ==
  /\ active[p] < MaxVersion
  /\ \E bytes \in 1..MaxBytes : ReserveSlot(p, bytes)

RetirementNext ==
  \/ \E p \in Publishers, bytes \in 1..MaxBytes : ReserveSlot(p, bytes)
  \/ \E p \in Publishers : CommitSwap(p)
  \/ \E p \in Publishers : CancelSlot(p)
  \/ \E p \in Publishers : CancelLease(p)
  \/ \E d \in Destroyers, max \in 1..QueueSlots : PopBatch(d, max)
  \/ \E d \in Destroyers : DropLease(d)
  \/ \E d \in Destroyers : DestroyPayload(d)

RetirementSpec == RetirementInit /\ [][RetirementNext]_retirementVars

\* The maintenance thread keeps draining.  A deferred publisher tries again
\* while it has something to publish, and does not cancel every time.
RetirementFairness ==
  /\ \A d \in Destroyers : WF_retirementVars(Drain(d))
  /\ \A p \in Publishers :
       /\ SF_retirementVars(Publish(p))
       /\ SF_retirementVars(CommitSwap(p))
       /\ WF_retirementVars(CancelLease(p))

RetirementFairSpec == RetirementSpec /\ RetirementFairness

-----------------------------------------------------------------------------
(* Properties.                                                             *)

RetirementTypeOK ==
  /\ reservedSlots \in 0..QueueSlots
  /\ items \in Seq(RetiredItem)
  /\ retainedBytes \in Nat
  /\ poolReserved \in 0..PoolBytes
  /\ held \in [Publishers -> RetirementReservation \cup {NoReservation}]
  /\ active \in [Publishers -> 0..MaxVersion]
  /\ dying \in [Destroyers -> Seq(RetiredItem)]
  /\ destroyed \subseteq Publishers \X (0..MaxVersion)

\* Every slot is held by one reservation or by one waiting item, so a swap
\* always finds its slot and the deque never outgrows its capacity.
Reserving == {p \in Publishers : Reserves(p)}

SlotsAccounted == reservedSlots = Cardinality(Reserving) + Len(items)

\* The retirement pool is charged for exactly the reservations, the waiting
\* items and the popped items whose lease has not gone.
HeldUnits ==
  {u \in Publishers \X (1..MaxBytes) :
     held[u[1]] # NoReservation /\ u[2] <= held[u[1]].bytes}

ChargedUnits(seq) == {u \in Units(seq) : seq[u[1]].charged}

DyingUnits == UNION {{d} \X ChargedUnits(dying[d]) : d \in Destroyers}

ChargesAccounted ==
  /\ retainedBytes = BytesOf(items)
  /\ poolReserved = Cardinality(HeldUnits) + Cardinality(ChargedUnits(items))
                     + Cardinality(DyingUnits)
  /\ \A i \in DOMAIN items : items[i].charged

\* Every artifact that was replaced is waiting, being destroyed or destroyed,
\* once, and no artifact that is still published is any of these: no
\* publication drops the old artifact itself, loses it, or retires it twice.
Waiting(a) == {i \in DOMAIN items : items[i].artifact = a}

Dying(a) ==
  UNION {{d} \X {i \in DOMAIN dying[d] : dying[d][i].artifact = a} : d \in Destroyers}

ReplacedExactlyOnce ==
  \A p \in Publishers, v \in 0..MaxVersion :
    LET a == <<p, v>>
        copies == Cardinality(Waiting(a)) + Cardinality(Dying(a))
                  + (IF a \in destroyed THEN 1 ELSE 0)
    IN  copies = IF v < active[p] THEN 1 ELSE 0

\* Stated by retirement.rs:13-14: the bytes of a retired artifact remain
\* charged until its destruction off the interaction thread.
ChargedUntilDestroyed ==
  /\ \A i \in DOMAIN items : items[i].charged
  /\ \A d \in Destroyers : \A i \in DOMAIN dying[d] : dying[d][i].charged

\* Artifacts and bytes are each accounted for once.
RetirementIsExact == RetirementTypeOK /\ ChargesAccounted /\ ReplacedExactlyOnce

\* Deferral is not starvation, though publishers and drains each wait for room
\* the other gives: once one has reserved, every publisher gets all its swaps
\* through, those that were refused a slot or bytes included, and every
\* artifact they replaced is destroyed.
RetirementProgresses ==
  (\E p \in Publishers : held[p] # NoReservation)
    ~> \A p \in Publishers :
         /\ active[p] = MaxVersion
         /\ \A v \in 0..(MaxVersion - 1) : <<p, v>> \in destroyed
=============================================================================
