----------------------- MODULE RetirementQueueProofs ------------------------
(***************************************************************************)
(* Proofs about RetirementQueue, for any number of publishers and drains   *)
(* and any capacity: its slots, the bytes charged for its artifacts, and   *)
(* where each artifact it took is.                                         *)
(***************************************************************************)
EXTENDS RetirementQueue, TLAPS, FiniteSetTheorems, SequenceTheorems

IInv ==
  /\ items \in Seq(RetiredItem)
  /\ held \in [Publishers -> RetirementReservation \cup {NoReservation}]
  /\ active \in [Publishers -> 0..MaxVersion]
  /\ reservedSlots \in 0..QueueSlots
  /\ SlotsAccounted

\* The publishers that hold a reservation are finitely many.
LEMMA ReservingIsFinite ==
  /\ IsFiniteSet(Reserving)
  /\ Cardinality(Reserving) \in Nat
<1>1. Reserving \subseteq Publishers
  BY DEF Reserving
<1>2. QED BY <1>1, RetirementAssumption, FS_Subset, FS_CardinalityType

LEMMA InitHolds == RetirementInit => IInv
<1> SUFFICES ASSUME RetirementInit PROVE IInv
  OBVIOUS
<1>1. items \in Seq(RetiredItem) /\ Len(items) = 0
  BY EmptySeq DEF RetirementInit
<1>2. Reserving = {}
  BY DEF RetirementInit, Reserving, Reserves
<1>3. SlotsAccounted
  BY <1>1, <1>2, FS_EmptySet DEF RetirementInit, SlotsAccounted
<1>4. QED BY <1>1, <1>3, RetirementAssumption DEF RetirementInit, IInv

\* A reservation is taken: one more publisher holds a slot.
LEMMA ReserveStep ==
  ASSUME IInv, NEW p \in Publishers, NEW bytes \in 1..MaxBytes,
         ReserveSlot(p, bytes)
  PROVE  IInv'
<1>1. /\ held[p] = NoReservation /\ reservedSlots < QueueSlots
      /\ reservedSlots' = reservedSlots + 1
      /\ held' = [held EXCEPT ![p] = [bytes |-> bytes, cancelled |-> FALSE]]
      /\ UNCHANGED <<items, active>>
  BY DEF ReserveSlot, SlotFree
<1>2. [bytes |-> bytes, cancelled |-> FALSE] \in RetirementReservation
  BY DEF RetirementReservation
<1>3. held' \in [Publishers -> RetirementReservation \cup {NoReservation}]
  BY <1>1, <1>2 DEF IInv
<1>4. Reserving' = Reserving \cup {p} /\ p \notin Reserving
  BY <1>1, <1>2, RetirementAssumption DEF IInv, Reserving, Reserves
<1>5. Cardinality(Reserving') = Cardinality(Reserving) + 1
  BY <1>4, ReservingIsFinite, FS_AddElement
<1>6. Len(items) \in Nat
  BY LenProperties DEF IInv
<1>7. reservedSlots' \in 0..QueueSlots
  BY <1>1, RetirementAssumption DEF IInv
<1>8. reservedSlots' = Cardinality(Reserving') + Len(items')
  BY <1>1, <1>5, <1>6, ReservingIsFinite, RetirementAssumption DEF IInv, SlotsAccounted
<1> QED
  BY <1>1, <1>3, <1>7, <1>8 DEF IInv, SlotsAccounted

\* A reservation ends, committed or cancelled: one publisher fewer holds a
\* slot.
LEMMA ReservationEnds ==
  ASSUME IInv, NEW p \in Publishers, Reserves(p),
         \/ held' = [held EXCEPT ![p] = NoReservation]
         \/ held' = [held EXCEPT ![p].cancelled = TRUE]
  PROVE  /\ Cardinality(Reserving') = Cardinality(Reserving) - 1
         /\ Cardinality(Reserving) >= 1
         /\ held' \in [Publishers -> RetirementReservation \cup {NoReservation}]
<1>0. /\ held[p] \in RetirementReservation /\ ~held[p].cancelled
      /\ [held[p] EXCEPT !.cancelled = TRUE] \in RetirementReservation
      /\ [held[p] EXCEPT !.cancelled = TRUE].cancelled
  BY DEF IInv, Reserves, RetirementReservation
<1>1. Reserving' = Reserving \ {p} /\ p \in Reserving
  <2>1. \A q \in Publishers : q # p => held'[q] = held[q]
    BY DEF IInv
  <2>2. ~Reserves(p)'
    BY <1>0 DEF IInv, Reserves
  <2>3. QED BY <2>1, <2>2 DEF Reserving, Reserves
<1>2. Cardinality(Reserving') = Cardinality(Reserving) - 1
  BY <1>1, ReservingIsFinite, FS_RemoveElement
<1>3. Reserving # {}
  BY <1>1
<1>4. Cardinality(Reserving) >= 1
  BY <1>3, ReservingIsFinite, FS_EmptySet
<1>5. held' \in [Publishers -> RetirementReservation \cup {NoReservation}]
  BY <1>0 DEF IInv
<1>6. QED BY <1>2, <1>4, <1>5

\* The swap moves a slot from the reservation to the item.
LEMMA CommitStep ==
  ASSUME IInv, NEW p \in Publishers, CommitSwap(p)
  PROVE  IInv'
<1> DEFINE item == [artifact |-> <<p, active[p]>>, bytes |-> held[p].bytes,
                    charged |-> TRUE]
<1>1. /\ Reserves(p) /\ held[p] # NoReservation /\ active[p] < MaxVersion
      /\ active' = [active EXCEPT ![p] = @ + 1]
      /\ items' = Append(items, item)
      /\ reservedSlots' = reservedSlots
      /\ held' = [held EXCEPT ![p] = NoReservation]
  BY DEF CommitSwap, SlotAfterPush, Reserves
<1>2. item \in RetiredItem
  <2>1. held[p] \in RetirementReservation
    BY <1>1 DEF IInv
  <2>2. held[p].bytes \in 1..MaxBytes
    BY <2>1 DEF RetirementReservation
  <2>3. active[p] \in 0..MaxVersion
    BY DEF IInv
  <2>4. QED BY <2>2, <2>3 DEF RetiredItem
<1>3. items' \in Seq(RetiredItem) /\ Len(items') = Len(items) + 1
  <2> HIDE DEF item
  <2>1. QED BY <1>1, <1>2, AppendProperties DEF IInv
<1>4. active' \in [Publishers -> 0..MaxVersion]
  BY <1>1, RetirementAssumption DEF IInv
<1>5. Len(items) \in Nat
  BY LenProperties DEF IInv
<1>6. SlotsAccounted'
  <2>1. reservedSlots = Cardinality(Reserving) + Len(items)
    BY DEF IInv, SlotsAccounted
  <2>2. /\ Cardinality(Reserving') = Cardinality(Reserving) - 1
        /\ Cardinality(Reserving) \in Nat
    BY <1>1, ReservationEnds, ReservingIsFinite
  <2> HIDE DEF item
  <2>3. QED BY <1>1, <1>3, <1>5, <2>1, <2>2 DEF SlotsAccounted
<1>7. QED BY <1>1, <1>3, <1>4, <1>6, ReservationEnds DEF IInv

LEMMA CancelStep ==
  ASSUME IInv, NEW p \in Publishers, CancelSlot(p)
  PROVE  IInv'
<1>1. /\ Reserves(p)
      /\ reservedSlots' = IF reservedSlots > 0 THEN reservedSlots - 1 ELSE 0
      /\ held' = [held EXCEPT ![p].cancelled = TRUE]
      /\ UNCHANGED <<items, active>>
  BY DEF CancelSlot
<1>2. Len(items) \in Nat
  BY LenProperties DEF IInv
<1>3. /\ reservedSlots = Cardinality(Reserving) + Len(items)
      /\ reservedSlots \in 0..QueueSlots
  BY DEF IInv, SlotsAccounted
<1>4. /\ Cardinality(Reserving') = Cardinality(Reserving) - 1
      /\ Cardinality(Reserving) >= 1 /\ Cardinality(Reserving) \in Nat
      /\ held' \in [Publishers -> RetirementReservation \cup {NoReservation}]
  BY <1>1, ReservationEnds, ReservingIsFinite
<1>5. /\ reservedSlots' = Cardinality(Reserving') + Len(items)
      /\ reservedSlots' \in 0..QueueSlots
  BY <1>1, <1>2, <1>3, <1>4, RetirementAssumption
<1>6. QED BY <1>1, <1>4, <1>5 DEF IInv, SlotsAccounted

\* A cancelled reservation held no slot any more.
LEMMA CancelLeaseStep ==
  ASSUME IInv, NEW p \in Publishers, CancelLease(p)
  PROVE  IInv'
<1>1. /\ held[p] # NoReservation /\ held[p].cancelled
      /\ held' = [held EXCEPT ![p] = NoReservation]
      /\ UNCHANGED <<reservedSlots, items, active>>
  BY DEF CancelLease, slotsAndItems
<1>2. Reserving' = Reserving
  BY <1>1 DEF IInv, Reserving, Reserves
<1>3. QED BY <1>1, <1>2 DEF IInv, SlotsAccounted

\* A batch gives back as many slots as it has items; the saturating
\* subtraction of the code never saturates.
LEMMA PopStep ==
  ASSUME IInv, NEW d \in Destroyers, NEW max \in 1..QueueSlots, PopBatch(d, max)
  PROVE  IInv'
<1> DEFINE n == IF max < Len(items) THEN max ELSE Len(items)
           m == n + 1
           len == Len(items)
<1>1. /\ n > 0
      /\ items' = SubSeq(items, m, len)
      /\ reservedSlots' = SaturatingSub(reservedSlots, n)
      /\ UNCHANGED <<held, active>>
  BY DEF PopBatch, LeftInQueue, SlotsAfterPop
<1>2. len \in Nat /\ n \in 1..len /\ m \in Int
  BY <1>1, LenProperties DEF IInv
<1>3. \A i \in m..len : items[i] \in RetiredItem
  BY <1>2, ElementOfSeq DEF IInv
<1>4. (IF m <= len THEN len - m + 1 ELSE 0) = len - n
  <2>1. \A x, y \in Nat : x <= y =>
          (IF x + 1 <= y THEN y - (x + 1) + 1 ELSE 0) = y - x
    OBVIOUS
  <2>2. n \in Nat /\ n <= len
    BY <1>2
  <2> HIDE DEF n, len
  <2>3. QED BY <1>2, <2>1, <2>2
<1> HIDE DEF n, m, len
<1>5. SubSeq(items, m, len) \in Seq(RetiredItem)
      /\ Len(SubSeq(items, m, len)) = IF m <= len THEN len - m + 1 ELSE 0
  BY <1>2, <1>3, SubSeqProperties
<1>6. items' \in Seq(RetiredItem) /\ Len(items') = len - n
  BY <1>1, <1>4, <1>5
<1>7. Reserving' = Reserving
  BY <1>1 DEF Reserving, Reserves
<1>8. reservedSlots = Cardinality(Reserving) + len /\ reservedSlots \in 0..QueueSlots
  BY DEF IInv, SlotsAccounted, len
<1>9. reservedSlots' = Cardinality(Reserving) + (len - n)
      /\ reservedSlots' \in 0..QueueSlots
  BY <1>1, <1>2, <1>8, ReservingIsFinite, RetirementAssumption DEF SaturatingSub
<1>10. QED BY <1>1, <1>6, <1>7, <1>9 DEF IInv, SlotsAccounted

LEMMA NextKeepsSlots == IInv /\ [RetirementNext]_retirementVars => IInv'
<1> SUFFICES ASSUME IInv, [RetirementNext]_retirementVars PROVE IInv'
  OBVIOUS
<1>1. ASSUME NEW d \in Destroyers, DropLease(d) \/ DestroyPayload(d)
      PROVE  IInv'
  <2>1. UNCHANGED <<reservedSlots, items, held, active>>
    BY <1>1 DEF DropLease, DestroyPayload, slotsAndItems
  <2>2. QED BY <2>1 DEF IInv, SlotsAccounted, Reserving, Reserves
<1>2. CASE UNCHANGED retirementVars
  BY <1>2 DEF retirementVars, slotsAndItems, IInv, SlotsAccounted, Reserving, Reserves
<1>3. QED
  BY <1>1, <1>2, ReserveStep, CommitStep, CancelStep, CancelLeaseStep, PopStep DEF RetirementNext

\* Slots: whatever publishers and drains interleave, each slot is held by one
\* reservation or one waiting item, so a swap never finds the queue full
\* (retirement.rs:5-12).
THEOREM SlotsAreAccounted == RetirementSpec => []SlotsAccounted
<1>1. IInv => SlotsAccounted
  BY DEF IInv
<1>2. QED BY InitHolds, NextKeepsSlots, <1>1, PTL DEF RetirementSpec

-----------------------------------------------------------------------------
(***************************************************************************)
(* Bytes are counted as units: sets whose cardinalities add up when the    *)
(* sets are disjoint, and stay when places move along.                     *)
(***************************************************************************)

Unit(x, bytes) == {x} \X (1..bytes)

\* What is tagged counts as much as before.
LEMMA TaggedCount ==
  ASSUME NEW S, IsFiniteSet(S), NEW x
  PROVE  /\ IsFiniteSet({x} \X S)
         /\ Cardinality({x} \X S) = Cardinality(S)
<1> DEFINE f == [s \in S |-> <<x, s>>]
<1>1. f \in Bijection(S, {x} \X S)
  BY DEF Bijection, Injection, Surjection, IsInjective
<1>2. ExistsBijection(S, {x} \X S)
  BY <1>1 DEF ExistsBijection
<1>3. QED BY <1>2, FS_Bijection

LEMMA UnitCount ==
  ASSUME NEW x, NEW bytes \in Nat
  PROVE  IsFiniteSet(Unit(x, bytes)) /\ Cardinality(Unit(x, bytes)) = bytes
<1>1. IsFiniteSet(1..bytes) /\ Cardinality(1..bytes) = bytes
  BY FS_Interval
<1>2. QED BY <1>1, TaggedCount DEF Unit

LEMMA DisjointCount ==
  ASSUME NEW S, IsFiniteSet(S), NEW T, IsFiniteSet(T), S \cap T = {}
  PROVE  /\ IsFiniteSet(S \cup T)
         /\ Cardinality(S \cup T) = Cardinality(S) + Cardinality(T)
         /\ Cardinality(S) \in Nat /\ Cardinality(T) \in Nat
<1>1. /\ IsFiniteSet(S \cup T)
      /\ Cardinality(S \cup T) = Cardinality(S) + Cardinality(T) - Cardinality(S \cap T)
  BY FS_Union
<1>2. Cardinality(S) \in Nat /\ Cardinality(T) \in Nat
  BY FS_CardinalityType
<1>3. Cardinality(S \cap T) = 0
  BY FS_EmptySet
<1>4. QED BY <1>1, <1>2, <1>3

LEMMA UnitsAreFinite ==
  ASSUME NEW s \in Seq(RetiredItem)
  PROVE  /\ IsFiniteSet(Units(s)) /\ Cardinality(Units(s)) \in Nat
         /\ IsFiniteSet(ChargedUnits(s)) /\ Cardinality(ChargedUnits(s)) \in Nat
         /\ DOMAIN s = 1..Len(s) /\ Len(s) \in Nat
<1>1. DOMAIN s = 1..Len(s) /\ Len(s) \in Nat /\ MaxBytes \in Nat
  BY LenProperties, RetirementAssumption
<1>2. IsFiniteSet(1..Len(s)) /\ IsFiniteSet(1..MaxBytes)
  BY <1>1, FS_Interval
<1>3. IsFiniteSet((1..Len(s)) \X (1..MaxBytes))
  BY <1>2, FS_Product
<1>4. Units(s) \subseteq (1..Len(s)) \X (1..MaxBytes) /\ ChargedUnits(s) \subseteq Units(s)
  BY <1>1 DEF Units, ChargedUnits
<1>5. IsFiniteSet(Units(s))
  BY <1>3, <1>4, FS_Subset
<1>6. IsFiniteSet(ChargedUnits(s))
  BY <1>4, <1>5, FS_Subset
<1>7. QED BY <1>1, <1>5, <1>6, FS_CardinalityType

\* An item at the end adds its bytes.
LEMMA UnitsAppend ==
  ASSUME NEW s \in Seq(RetiredItem), NEW item \in RetiredItem, item.charged
  PROVE  /\ Append(s, item) \in Seq(RetiredItem)
         /\ Cardinality(Units(Append(s, item))) = Cardinality(Units(s)) + item.bytes
         /\ Cardinality(ChargedUnits(Append(s, item)))
              = Cardinality(ChargedUnits(s)) + item.bytes
<1> DEFINE n == Len(s)
           t == Append(s, item)
           new == Unit(n + 1, item.bytes)
<1>1. /\ t \in Seq(RetiredItem) /\ n \in Nat
      /\ DOMAIN s = 1..n /\ DOMAIN t = 1..(n + 1)
      /\ t[n + 1] = item /\ \A i \in 1..n : t[i] = s[i]
  BY AppendProperties, LenProperties
<1>2. item.bytes \in 1..MaxBytes /\ MaxBytes \in Nat
  BY RetirementAssumption DEF RetiredItem
<1> HIDE DEF n, t
<1>3. Units(t) = Units(s) \cup new /\ Units(s) \cap new = {}
  BY <1>1, <1>2 DEF Units, Unit
<1>4. ChargedUnits(t) = ChargedUnits(s) \cup new /\ ChargedUnits(s) \cap new = {}
  BY <1>1, <1>2, <1>3 DEF ChargedUnits, Units, Unit
<1>5. IsFiniteSet(new) /\ Cardinality(new) = item.bytes
  BY <1>2, UnitCount
<1>6. /\ IsFiniteSet(Units(s)) /\ IsFiniteSet(ChargedUnits(s))
  BY UnitsAreFinite
<1> HIDE DEF new
<1>7. Cardinality(Units(t)) = Cardinality(Units(s)) + item.bytes
  BY <1>3, <1>5, <1>6, DisjointCount
<1>8. Cardinality(ChargedUnits(t)) = Cardinality(ChargedUnits(s)) + item.bytes
  BY <1>4, <1>5, <1>6, DisjointCount
<1>9. QED BY <1>1, <1>7, <1>8 DEF t

\* The items of a batch and those that are left, by their places in the queue.
LEMMA SplitAt ==
  ASSUME NEW s \in Seq(RetiredItem), NEW n \in 1..Len(s)
  PROVE  LET batch == SubSeq(s, 1, n)
             rest == SubSeq(s, n + 1, Len(s))
         IN  /\ batch \in Seq(RetiredItem) /\ rest \in Seq(RetiredItem)
             /\ Len(batch) = n /\ Len(rest) = Len(s) - n
             /\ \A i \in 1..n : batch[i] = s[i]
             /\ \A i \in 1..(Len(s) - n) : rest[i] = s[n + i]
<1> DEFINE len == Len(s)
           m == n + 1
<1>1. len \in Nat /\ n \in Nat /\ n >= 1 /\ n <= len /\ m \in Int
  BY LenProperties
<1>2. \A i \in 1..len : s[i] \in RetiredItem
  BY ElementOfSeq
<1> HIDE DEF len
<1>3. /\ SubSeq(s, 1, n) \in Seq(RetiredItem)
      /\ Len(SubSeq(s, 1, n)) = IF 1 <= n THEN n - 1 + 1 ELSE 0
      /\ \A i \in 1..n - 1 + 1 : SubSeq(s, 1, n)[i] = s[1 + i - 1]
  BY <1>1, <1>2, SubSeqProperties
<1>4. \A i \in m..len : s[i] \in RetiredItem
  BY <1>1, <1>2
<1> HIDE DEF m
<1>5. /\ SubSeq(s, m, len) \in Seq(RetiredItem)
      /\ Len(SubSeq(s, m, len)) = IF m <= len THEN len - m + 1 ELSE 0
      /\ \A i \in 1..len - m + 1 : SubSeq(s, m, len)[i] = s[m + i - 1]
  BY <1>1, <1>4, SubSeqProperties
<1>6. /\ SubSeq(s, 1, n) \in Seq(RetiredItem) /\ Len(SubSeq(s, 1, n)) = n
      /\ \A i \in 1..n : SubSeq(s, 1, n)[i] = s[i]
  <2>1. n - 1 + 1 = n /\ \A i \in 1..n : 1 + i - 1 = i
    BY <1>1
  <2>2. QED BY <1>1, <1>3, <2>1
<1>7. /\ SubSeq(s, m, len) \in Seq(RetiredItem) /\ Len(SubSeq(s, m, len)) = len - n
      /\ \A i \in 1..(len - n) : SubSeq(s, m, len)[i] = s[n + i]
  <2>1. (IF m <= len THEN len - m + 1 ELSE 0) = len - n /\ len - m + 1 = len - n
    BY <1>1 DEF m
  <2>2. \A i \in 1..(len - n) : m + i - 1 = n + i
    BY <1>1 DEF m
  <2>3. QED BY <1>5, <2>1, <2>2
<1>8. QED BY <1>6, <1>7 DEF len, m

LEMMA UnitsSplit ==
  ASSUME NEW s \in Seq(RetiredItem), NEW n \in 1..Len(s), \A i \in DOMAIN s : s[i].charged
  PROVE  LET batch == SubSeq(s, 1, n)
             rest == SubSeq(s, n + 1, Len(s))
         IN  /\ Cardinality(Units(s)) = Cardinality(Units(batch)) + Cardinality(Units(rest))
             /\ ChargedUnits(s) = Units(s)
             /\ ChargedUnits(batch) = Units(batch)
             /\ ChargedUnits(rest) = Units(rest)
<1> DEFINE batch == SubSeq(s, 1, n)
           rest == SubSeq(s, n + 1, Len(s))
           len == Len(s)
           later == {u \in Units(s) : u[1] > n}
           f == [u \in later |-> <<u[1] - n, u[2]>>]
<1>1. /\ batch \in Seq(RetiredItem) /\ rest \in Seq(RetiredItem)
      /\ Len(batch) = n /\ Len(rest) = len - n
      /\ \A i \in 1..n : batch[i] = s[i]
      /\ \A i \in 1..(len - n) : rest[i] = s[n + i]
  BY SplitAt
<1> HIDE DEF batch, rest
<1>2. /\ len \in Nat /\ n \in Nat /\ n >= 1 /\ n <= len
      /\ DOMAIN s = 1..len /\ DOMAIN batch = 1..n /\ DOMAIN rest = 1..(len - n)
  BY <1>1, LenProperties
<1> HIDE DEF len
<1>3. Units(s) = Units(batch) \cup later /\ Units(batch) \cap later = {}
  BY <1>1, <1>2 DEF Units
<1>4. f \in Bijection(later, Units(rest))
  <2>1. ASSUME NEW u \in later PROVE f[u] \in Units(rest)
    <3>1. /\ u[1] \in 1..len /\ u[2] \in 1..MaxBytes /\ u[2] <= s[u[1]].bytes /\ u[1] > n
      BY <1>2 DEF Units
    <3>2. /\ u[1] - n \in 1..(len - n) /\ n + (u[1] - n) = u[1]
      <4>1. PICK k \in 1..len : k = u[1] /\ k > n
        BY <3>1
      <4>2. k - n \in 1..(len - n) /\ n + (k - n) = k
        BY <1>2, <4>1
      <4>3. QED BY <4>1, <4>2
    <3>3. rest[u[1] - n] = s[u[1]]
      BY <1>1, <3>2
    <3>4. <<u[1] - n, u[2]>> \in Units(rest)
      BY <1>2, <3>1, <3>2, <3>3 DEF Units
    <3>5. QED BY <3>4
  <2>2. \A u, v \in later : f[u] = f[v] => u = v
    BY <1>2 DEF Units
  <2>3. ASSUME NEW w \in Units(rest) PROVE \E u \in later : f[u] = w
    <3>1. w = <<w[1], w[2]>> /\ w[1] \in 1..(len - n) /\ w[2] \in 1..MaxBytes
          /\ w[2] <= rest[w[1]].bytes
      BY <1>2 DEF Units
    <3>2. <<n + w[1], w[2]>> \in later
      BY <1>1, <1>2, <3>1 DEF Units
    <3>3. f[<<n + w[1], w[2]>>] = w
      BY <1>2, <3>1, <3>2
    <3>4. QED BY <3>2, <3>3
  <2> HIDE DEF f, later
  <2>4. DOMAIN f = later
    BY DEF f
  <2>5. f \in [later -> Units(rest)]
    BY <2>1, <2>4 DEF f
  <2>6. QED BY <2>2, <2>3, <2>5 DEF Bijection, Injection, Surjection, IsInjective
<1>5. later \subseteq Units(s) /\ IsFiniteSet(Units(s)) /\ IsFiniteSet(Units(batch))
  BY <1>1, UnitsAreFinite
<1>6. IsFiniteSet(later) /\ Cardinality(later) = Cardinality(Units(rest))
  <2> HIDE DEF f, later
  <2>1. IsFiniteSet(later)
    BY <1>5, FS_Subset
  <2>2. QED BY <1>4, <2>1, FS_Bijection DEF ExistsBijection
<1>7. Cardinality(Units(s)) = Cardinality(Units(batch)) + Cardinality(later)
  <2> HIDE DEF later
  <2>1. QED BY <1>3, <1>5, <1>6, DisjointCount
<1>8. /\ ChargedUnits(s) = Units(s) /\ ChargedUnits(batch) = Units(batch)
      /\ ChargedUnits(rest) = Units(rest)
  <2>1. \A i \in 1..(len - n) : n + i \in 1..len
    BY <1>2
  <2>2. \A i \in DOMAIN rest : rest[i].charged
    BY <1>1, <1>2, <2>1
  <2>3. \A i \in DOMAIN batch : batch[i].charged
    BY <1>1, <1>2
  <2>4. QED BY <2>2, <2>3 DEF ChargedUnits, Units
<1>9. QED BY <1>6, <1>7, <1>8 DEF batch, rest, len

\* The first item goes, uncharged: nothing is counted less.
LEMMA TailCharges ==
  ASSUME NEW s \in Seq(RetiredItem), s # <<>>, ~s[1].charged
  PROVE  /\ Tail(s) \in Seq(RetiredItem)
         /\ Len(Tail(s)) = Len(s) - 1 /\ Len(s) >= 1
         /\ \A i \in 1..(Len(s) - 1) : Tail(s)[i] = s[i + 1]
         /\ Cardinality(ChargedUnits(Tail(s))) = Cardinality(ChargedUnits(s))
<1> DEFINE t == Tail(s)
           n == Len(s)
           f == [u \in ChargedUnits(s) |-> <<u[1] - 1, u[2]>>]
<1>1. /\ t \in Seq(RetiredItem) /\ Len(t) = n - 1 /\ n \in Nat /\ n >= 1
      /\ \A i \in 1..(n - 1) : t[i] = s[i + 1]
  BY HeadTailProperties, EmptySeq, LenProperties
<1>2. DOMAIN s = 1..n /\ DOMAIN t = 1..(n - 1)
  BY <1>1, LenProperties
<1> HIDE DEF t, n
<1>3. f \in Bijection(ChargedUnits(s), ChargedUnits(t))
  <2>1. ASSUME NEW u \in ChargedUnits(s) PROVE f[u] \in ChargedUnits(t)
    <3>1. /\ u[1] \in 1..n /\ u[2] \in 1..MaxBytes /\ u[2] <= s[u[1]].bytes
          /\ s[u[1]].charged
      BY <1>2 DEF Units, ChargedUnits
    <3>2. u[1] - 1 \in 1..(n - 1) /\ (u[1] - 1) + 1 = u[1]
      BY <1>1, <3>1
    <3>3. t[u[1] - 1] = s[u[1]]
      BY <1>1, <3>2
    <3>4. <<u[1] - 1, u[2]>> \in ChargedUnits(t)
      BY <1>2, <3>1, <3>2, <3>3 DEF Units, ChargedUnits
    <3>5. QED BY <3>4
  <2>2. ASSUME NEW u \in ChargedUnits(s), NEW v \in ChargedUnits(s), f[u] = f[v]
        PROVE  u = v
    <3>1. /\ u = <<u[1], u[2]>> /\ v = <<v[1], v[2]>>
          /\ u[1] \in 1..n /\ v[1] \in 1..n
      BY <1>2 DEF Units, ChargedUnits
    <3>2. u[1] - 1 = v[1] - 1 /\ u[2] = v[2]
      BY <2>2
    <3>3. u[1] = v[1]
      BY <1>1, <3>1, <3>2
    <3>4. QED BY <3>1, <3>2, <3>3
  <2>3. ASSUME NEW w \in ChargedUnits(t) PROVE \E u \in ChargedUnits(s) : f[u] = w
    <3>1. w = <<w[1], w[2]>> /\ w[1] \in 1..(n - 1) /\ w[2] \in 1..MaxBytes
          /\ w[2] <= t[w[1]].bytes /\ t[w[1]].charged
      BY <1>2 DEF Units, ChargedUnits
    <3>2. w[1] + 1 \in 1..n /\ (w[1] + 1) - 1 = w[1]
      <4>1. PICK k \in 1..(n - 1) : k = w[1]
        BY <3>1
      <4>2. k + 1 \in 1..n /\ (k + 1) - 1 = k
        BY <1>1
      <4>3. QED BY <4>1, <4>2
    <3>6. t[w[1]] = s[w[1] + 1]
      BY <1>1, <3>1
    <3>3. <<w[1] + 1, w[2]>> \in ChargedUnits(s)
      BY <1>2, <3>1, <3>2, <3>6 DEF Units, ChargedUnits
    <3>4. f[<<w[1] + 1, w[2]>>] = w
      BY <3>1, <3>2, <3>3
    <3>5. QED BY <3>3, <3>4
  <2> HIDE DEF f
  <2>4. DOMAIN f = ChargedUnits(s) /\ f = [u \in DOMAIN f |-> f[u]]
    BY DEF f
  <2>5. f \in [ChargedUnits(s) -> ChargedUnits(t)]
    BY <2>1, <2>4
  <2>6. QED BY <2>2, <2>3, <2>5 DEF Bijection, Injection, Surjection, IsInjective
<1>4. Cardinality(ChargedUnits(t)) = Cardinality(ChargedUnits(s))
  <2> HIDE DEF f
  <2>1. QED BY <1>3, UnitsAreFinite, FS_Bijection DEF ExistsBijection
<1>5. QED BY <1>1, <1>4 DEF t, n

\* The lease of the first item goes: its bytes are counted no more.
LEMMA FirstUncharged ==
  ASSUME NEW s \in Seq(RetiredItem), s # <<>>, s[1].charged
  PROVE  LET t == [s EXCEPT ![1].charged = FALSE]
         IN  /\ t \in Seq(RetiredItem) /\ Len(t) = Len(s)
             /\ \A i \in DOMAIN s : t[i].artifact = s[i].artifact
             /\ Cardinality(ChargedUnits(s)) = Cardinality(ChargedUnits(t)) + s[1].bytes
<1> DEFINE t == [s EXCEPT ![1].charged = FALSE]
           n == Len(s)
           first == Unit(1, s[1].bytes)
<1>1. n \in Nat /\ n >= 1 /\ DOMAIN s = 1..n /\ \A i \in 1..n : s[i] \in RetiredItem
  BY HeadTailProperties, EmptySeq, LenProperties, ElementOfSeq
<1>2. 1 \in 1..n /\ s[1] \in RetiredItem /\ s[1].bytes \in 1..MaxBytes /\ MaxBytes \in Nat
  BY <1>1, RetirementAssumption DEF RetiredItem
<1> HIDE DEF n
<1>3. [s[1] EXCEPT !.charged = FALSE] \in RetiredItem
  BY <1>2 DEF RetiredItem
<1>4. /\ DOMAIN t = 1..n /\ t[1] = [s[1] EXCEPT !.charged = FALSE]
      /\ \A i \in 1..n : i # 1 => t[i] = s[i]
  BY <1>1, <1>2
<1>5. t[1].artifact = s[1].artifact /\ t[1].bytes = s[1].bytes /\ ~t[1].charged
  BY <1>2, <1>4 DEF RetiredItem
<1>6. t \in Seq(RetiredItem) /\ Len(t) = n
  <2>1. t = [i \in 1..n |-> t[i]]
    BY <1>1
  <2>2. t \in [1..n -> RetiredItem]
    <3> HIDE DEF t
    <3>1. QED BY <1>1, <1>3, <1>4, <2>1
  <2>3. QED BY <1>1, <2>2, SeqDef, LenProperties
<1> HIDE DEF t
<1>7. ChargedUnits(s) = ChargedUnits(t) \cup first /\ ChargedUnits(t) \cap first = {}
  <2>1. Units(t) = Units(s)
    BY <1>1, <1>4, <1>5 DEF Units
  <2>2. first \subseteq ChargedUnits(s)
    BY <1>1, <1>2 DEF ChargedUnits, Units, Unit
  <2>3. \A u \in ChargedUnits(t) : u[1] # 1 /\ u \in ChargedUnits(s)
    BY <1>1, <1>4, <1>5, <2>1 DEF ChargedUnits, Units
  <2>4. ASSUME NEW u \in ChargedUnits(s) PROVE u \in ChargedUnits(t) \/ u \in first
    <3>1. u[1] = 1 => u \in first
      <4>1. /\ u = <<u[1], u[2]>> /\ u[2] \in 1..MaxBytes /\ u[2] <= s[u[1]].bytes
        BY DEF ChargedUnits, Units
      <4>2. u[1] = 1 => u[2] \in 1..(s[1].bytes)
        BY <1>2, <4>1
      <4>3. QED BY <4>1, <4>2 DEF Unit
    <3>2. u[1] # 1 => u \in ChargedUnits(t)
      BY <1>1, <1>4, <2>1 DEF ChargedUnits, Units
    <3>3. QED BY <3>1, <3>2
  <2>5. \A u \in first : u[1] = 1
    BY DEF Unit
  <2> HIDE DEF first
  <2>6. ChargedUnits(s) = ChargedUnits(t) \cup first
    BY <2>2, <2>3, <2>4
  <2>7. ChargedUnits(t) \cap first = {}
    BY <2>3, <2>5
  <2>8. QED BY <2>6, <2>7
<1>8. IsFiniteSet(first) /\ Cardinality(first) = s[1].bytes
  BY <1>2, UnitCount
<1>9. Cardinality(ChargedUnits(s)) = Cardinality(ChargedUnits(t)) + s[1].bytes
  <2>1. IsFiniteSet(ChargedUnits(t)) /\ ChargedUnits(t) \cap first = {}
    BY <1>6, <1>7, UnitsAreFinite
  <2> HIDE DEF first
  <2>2. Cardinality(ChargedUnits(t) \cup first) = Cardinality(ChargedUnits(t)) + Cardinality(first)
    BY <1>8, <2>1, DisjointCount
  <2>3. QED BY <1>7, <1>8, <2>2
<1>10. QED BY <1>1, <1>4, <1>5, <1>6, <1>9 DEF t, n

-----------------------------------------------------------------------------
\* The units of all reservations, and of all batches that are being destroyed.
HeldIn(h) ==
  {u \in Publishers \X (1..MaxBytes) :
     h[u[1]] # NoReservation /\ u[2] <= h[u[1]].bytes}

HeldBy(h, p) == IF h[p] = NoReservation THEN 0 ELSE h[p].bytes

DyingIn(f) == UNION {{d} \X ChargedUnits(f[d]) : d \in Destroyers}

Holdings == [Publishers -> RetirementReservation \cup {NoReservation}]

LEMMA HoldingsAreFinite ==
  ASSUME NEW h \in Holdings
  PROVE  IsFiniteSet(HeldIn(h)) /\ Cardinality(HeldIn(h)) \in Nat
<1>1. IsFiniteSet(HeldIn(h))
  <2>1. IsFiniteSet(1..MaxBytes) /\ IsFiniteSet(Publishers)
    BY FS_Interval, RetirementAssumption
  <2>2. IsFiniteSet(Publishers \X (1..MaxBytes))
    BY <2>1, FS_Product
  <2>3. HeldIn(h) \subseteq Publishers \X (1..MaxBytes)
    BY DEF HeldIn
  <2>4. QED BY <2>2, <2>3, FS_Subset
<1>2. QED BY <1>1, FS_CardinalityType

LEMMA HeldSplit ==
  ASSUME NEW h \in Holdings, NEW p \in Publishers
  PROVE  LET others == {u \in HeldIn(h) : u[1] # p}
         IN  /\ Cardinality(HeldIn(h)) = Cardinality(others) + HeldBy(h, p)
             /\ Cardinality(others) \in Nat /\ HeldBy(h, p) \in Nat
<1> DEFINE others == {u \in HeldIn(h) : u[1] # p}
<1>1. HeldBy(h, p) \in 0..MaxBytes /\ MaxBytes \in Nat
  BY RetirementAssumption DEF HeldBy, Holdings, RetirementReservation
<1>2. IsFiniteSet(HeldIn(h))
  BY HoldingsAreFinite
<1>3. IsFiniteSet(others)
  <2>1. others \subseteq HeldIn(h)
    OBVIOUS
  <2> HIDE DEF others
  <2>2. QED BY <1>2, <2>1, FS_Subset
<1>4. HeldIn(h) = others \cup Unit(p, HeldBy(h, p)) /\ others \cap Unit(p, HeldBy(h, p)) = {}
  <2>1. ASSUME NEW u \in HeldIn(h), u[1] = p PROVE u \in Unit(p, HeldBy(h, p))
    BY <1>1, <2>1 DEF HeldIn, HeldBy, Unit
  <2>2. ASSUME NEW u \in Unit(p, HeldBy(h, p)) PROVE u \in HeldIn(h) /\ u[1] = p
    <3>1. u = <<p, u[2]>> /\ u[2] \in 1..HeldBy(h, p)
      BY DEF Unit
    <3>2. h[p] # NoReservation /\ u[2] <= h[p].bytes /\ u[2] \in 1..MaxBytes
      BY <1>1, <3>1 DEF HeldBy
    <3>3. QED BY <3>1, <3>2 DEF HeldIn
  <2>3. QED BY <2>1, <2>2
<1>5. IsFiniteSet(Unit(p, HeldBy(h, p))) /\ Cardinality(Unit(p, HeldBy(h, p))) = HeldBy(h, p)
  BY <1>1, UnitCount
<1> HIDE DEF others
<1>6. Cardinality(HeldIn(h)) = Cardinality(others) + HeldBy(h, p) /\ Cardinality(others) \in Nat
  BY <1>3, <1>4, <1>5, DisjointCount
<1>7. QED BY <1>1, <1>6 DEF others

\* One reservation changes: the others count as before.
LEMMA HeldChanges ==
  ASSUME NEW h \in Holdings, NEW g \in Holdings, NEW p \in Publishers,
         \A q \in Publishers : q # p => g[q] = h[q]
  PROVE  /\ Cardinality(HeldIn(g)) + HeldBy(h, p) = Cardinality(HeldIn(h)) + HeldBy(g, p)
         /\ Cardinality(HeldIn(g)) \in Nat /\ Cardinality(HeldIn(h)) \in Nat
         /\ HeldBy(h, p) \in Nat /\ HeldBy(g, p) \in Nat
         /\ Cardinality(HeldIn(h)) >= HeldBy(h, p)
<1> DEFINE others == {u \in HeldIn(h) : u[1] # p}
           same == {u \in HeldIn(g) : u[1] # p}
<1>1. same = others
  BY DEF HeldIn
<1>2. /\ Cardinality(HeldIn(h)) = Cardinality(others) + HeldBy(h, p)
      /\ Cardinality(others) \in Nat /\ HeldBy(h, p) \in Nat
  BY HeldSplit
<1>3. /\ Cardinality(HeldIn(g)) = Cardinality(same) + HeldBy(g, p)
      /\ HeldBy(g, p) \in Nat
  BY HeldSplit
<1> HIDE DEF others, same
<1>4. QED BY <1>1, <1>2, <1>3

Batches == [Destroyers -> Seq(RetiredItem)]

LEMMA BatchesAreFinite ==
  ASSUME NEW f \in Batches
  PROVE  IsFiniteSet(DyingIn(f)) /\ Cardinality(DyingIn(f)) \in Nat
<1> DEFINE tagged == [e \in Destroyers |-> {e} \X ChargedUnits(f[e])]
<1>1. \A e \in Destroyers : IsFiniteSet(ChargedUnits(f[e]))
  BY UnitsAreFinite DEF Batches
<1>2. IsFiniteSet(DyingIn(f))
  <2>1. \A e \in Destroyers : IsFiniteSet({e} \X ChargedUnits(f[e]))
    BY <1>1, TaggedCount
  <2>2. IsFiniteSet(Destroyers)
    BY RetirementAssumption
  <2>3. tagged \in Surjection(Destroyers, {tagged[e] : e \in Destroyers})
    BY DEF Surjection
  <2>4. IsFiniteSet({tagged[e] : e \in Destroyers})
    <3> HIDE DEF tagged
    <3>1. QED BY <2>2, <2>3, FS_Surjection
  <2>5. {tagged[e] : e \in Destroyers} = {{e} \X ChargedUnits(f[e]) : e \in Destroyers}
    OBVIOUS
  <2>6. QED BY <2>1, <2>4, <2>5, FS_UNION DEF DyingIn
<1>3. QED BY <1>2, FS_CardinalityType

LEMMA DyingSplit ==
  ASSUME NEW f \in Batches, NEW d \in Destroyers
  PROVE  LET others == {u \in DyingIn(f) : u[1] # d}
         IN  /\ Cardinality(DyingIn(f)) = Cardinality(others) + Cardinality(ChargedUnits(f[d]))
             /\ Cardinality(others) \in Nat /\ Cardinality(ChargedUnits(f[d])) \in Nat
<1> DEFINE others == {u \in DyingIn(f) : u[1] # d}
           own == {d} \X ChargedUnits(f[d])
<1>1. \A e \in Destroyers : IsFiniteSet(ChargedUnits(f[e]))
  BY UnitsAreFinite DEF Batches
<1>2. IsFiniteSet(DyingIn(f))
  BY BatchesAreFinite
<1>3. IsFiniteSet(others)
  <2>1. others \subseteq DyingIn(f)
    OBVIOUS
  <2> HIDE DEF others
  <2>2. QED BY <1>2, <2>1, FS_Subset
<1>4. DyingIn(f) = others \cup own /\ others \cap own = {}
  BY DEF DyingIn
<1>5. IsFiniteSet(own) /\ Cardinality(own) = Cardinality(ChargedUnits(f[d]))
  BY <1>1, TaggedCount
<1> HIDE DEF others, own
<1>6. Cardinality(DyingIn(f)) = Cardinality(others) + Cardinality(own)
      /\ Cardinality(others) \in Nat
  BY <1>3, <1>4, <1>5, DisjointCount
<1>7. Cardinality(ChargedUnits(f[d])) \in Nat
  BY UnitsAreFinite DEF Batches
<1>8. QED BY <1>5, <1>6, <1>7 DEF others

\* One batch changes: the others count as before.
LEMMA DyingChanges ==
  ASSUME NEW f \in Batches, NEW g \in Batches, NEW d \in Destroyers,
         \A e \in Destroyers : e # d => g[e] = f[e]
  PROVE  /\ Cardinality(DyingIn(g)) + Cardinality(ChargedUnits(f[d]))
              = Cardinality(DyingIn(f)) + Cardinality(ChargedUnits(g[d]))
         /\ Cardinality(DyingIn(g)) \in Nat /\ Cardinality(DyingIn(f)) \in Nat
         /\ Cardinality(ChargedUnits(f[d])) \in Nat /\ Cardinality(ChargedUnits(g[d])) \in Nat
<1> DEFINE others == {u \in DyingIn(f) : u[1] # d}
           same == {u \in DyingIn(g) : u[1] # d}
<1>1. same = others
  BY DEF DyingIn
<1>2. /\ Cardinality(DyingIn(f)) = Cardinality(others) + Cardinality(ChargedUnits(f[d]))
      /\ Cardinality(others) \in Nat /\ Cardinality(ChargedUnits(f[d])) \in Nat
  BY DyingSplit
<1>3. /\ Cardinality(DyingIn(g)) = Cardinality(same) + Cardinality(ChargedUnits(g[d]))
      /\ Cardinality(ChargedUnits(g[d])) \in Nat
  BY DyingSplit
<1> HIDE DEF others, same
<1>4. QED BY <1>1, <1>2, <1>3

-----------------------------------------------------------------------------
(***************************************************************************)
(* Where a replaced artifact is: in the queue, in a batch or destroyed, in *)
(* one of them and once.                                                   *)
(***************************************************************************)

Artifacts == Publishers \X (0..MaxVersion)


OncePlaced ==
  \A a \in Artifacts :
    /\ \A i, j \in Waiting(a) : i = j
    /\ \A x, y \in Dying(a) : x = y
    /\ Waiting(a) # {} => Dying(a) = {} /\ a \notin destroyed
    /\ Dying(a) # {} => a \notin destroyed
    /\ Waiting(a) # {} \/ Dying(a) # {} \/ a \in destroyed <=> a[2] < active[a[1]]

BatchTypes ==
  /\ dying \in Batches
  /\ retainedBytes \in Nat
  /\ poolReserved \in 0..PoolBytes
  /\ destroyed \subseteq Artifacts

RetirementInv == IInv /\ BatchTypes /\ ChargesAccounted /\ OncePlaced


\* No two places hold one artifact, so each of the three counts is 0 or 1.
LEMMA OnceIsCounted ==
  ASSUME OncePlaced
  PROVE  ReplacedExactlyOnce
<1> SUFFICES ASSUME NEW p \in Publishers, NEW v \in 0..MaxVersion
             PROVE  Cardinality(Waiting(<<p, v>>)) + Cardinality(Dying(<<p, v>>))
                      + (IF <<p, v>> \in destroyed THEN 1 ELSE 0)
                      = IF v < active[p] THEN 1 ELSE 0
  BY DEF ReplacedExactlyOnce
<1>1. PICK a \in Artifacts : a = <<p, v>> /\ a[1] = p /\ a[2] = v
  <2>1. <<p, v>> \in Artifacts
    BY DEF Artifacts
  <2>2. <<p, v>>[1] = p /\ <<p, v>>[2] = v
    OBVIOUS
  <2>3. QED BY <2>1, <2>2
<1>2. /\ \A i, j \in Waiting(a) : i = j
      /\ \A x, y \in Dying(a) : x = y
      /\ Waiting(a) # {} => Dying(a) = {} /\ a \notin destroyed
      /\ Dying(a) # {} => a \notin destroyed
      /\ Waiting(a) # {} \/ Dying(a) # {} \/ a \in destroyed <=> v < active[p]
  BY <1>1 DEF OncePlaced
<1>3. /\ Cardinality(Waiting(a)) = IF Waiting(a) # {} THEN 1 ELSE 0
      /\ Cardinality(Dying(a)) = IF Dying(a) # {} THEN 1 ELSE 0
  <2>1. ASSUME NEW S, \A i, j \in S : i = j
        PROVE  Cardinality(S) = IF S # {} THEN 1 ELSE 0
    <3>1. CASE S = {}
      BY <3>1, FS_EmptySet
    <3>2. CASE S # {}
      <4>1. PICK x \in S : TRUE
        BY <3>2
      <4>2. S = {x}
        BY <2>1, <4>1
      <4>3. QED BY <3>2, <4>2, FS_Singleton
    <3>3. QED BY <3>1, <3>2
  <2>2. QED BY <1>2, <2>1
<1>4. QED BY <1>1, <1>2, <1>3

LEMMA CommitPlaces ==
  ASSUME IInv, OncePlaced, NEW p \in Publishers, CommitSwap(p)
  PROVE  OncePlaced'
<1> DEFINE item == [artifact |-> <<p, active[p]>>, bytes |-> held[p].bytes,
                    charged |-> TRUE]
           n == Len(items)
<1>1. /\ active[p] < MaxVersion /\ active' = [active EXCEPT ![p] = @ + 1]
      /\ items' = Append(items, item)
      /\ UNCHANGED <<dying, destroyed>>
  BY DEF CommitSwap
<1>2. /\ n \in Nat /\ DOMAIN items = 1..n /\ DOMAIN items' = 1..(n + 1)
      /\ items'[n + 1].artifact = <<p, active[p]>>
      /\ \A i \in 1..n : items'[i] = items[i]
  <2>1. item \in RetiredItem /\ items \in Seq(RetiredItem)
    <3>1. held[p] \in RetirementReservation
      BY DEF IInv, CommitSwap, Reserves
    <3>2. held[p].bytes \in 1..MaxBytes /\ active[p] \in 0..MaxVersion
      BY <3>1 DEF IInv, RetirementReservation
    <3>3. QED BY <3>2 DEF IInv, RetiredItem
  <2>2. item.artifact = <<p, active[p]>>
    OBVIOUS
  <2> HIDE DEF item
  <2>3. QED BY <1>1, <2>1, <2>2, AppendProperties, LenProperties
<1>3. active[p] \in Nat /\ active \in [Publishers -> 0..MaxVersion] /\ MaxVersion \in Nat
  BY RetirementAssumption DEF IInv
<1> HIDE DEF n, item
<1> SUFFICES ASSUME NEW a \in Artifacts
    PROVE  /\ \A i, j \in Waiting(a)' : i = j
           /\ \A x, y \in Dying(a)' : x = y
           /\ Waiting(a)' # {} => Dying(a)' = {} /\ a \notin destroyed'
           /\ Dying(a)' # {} => a \notin destroyed'
           /\ Waiting(a)' # {} \/ Dying(a)' # {} \/ a \in destroyed' <=> a[2] < active'[a[1]]
  BY DEF OncePlaced
<1>4. /\ \A i, j \in Waiting(a) : i = j
      /\ \A x, y \in Dying(a) : x = y
      /\ Waiting(a) # {} => Dying(a) = {} /\ a \notin destroyed
      /\ Dying(a) # {} => a \notin destroyed
      /\ Waiting(a) # {} \/ Dying(a) # {} \/ a \in destroyed <=> a[2] < active[a[1]]
  BY DEF OncePlaced
<1>5. Dying(a)' = Dying(a) /\ destroyed' = destroyed
  BY <1>1 DEF Dying
<1>6. a = <<a[1], a[2]>> /\ a[1] \in Publishers /\ a[2] \in 0..MaxVersion
  BY DEF Artifacts
<1>7. CASE a = <<p, active[p]>>
  <2>1. Waiting(a) = {} /\ Dying(a) = {} /\ a \notin destroyed
    BY <1>3, <1>4, <1>7
  <2>2. Waiting(a)' = {n + 1}
    BY <1>2, <1>7, <2>1 DEF Waiting
  <2>3. a[2] < active'[a[1]]
    BY <1>1, <1>3, <1>7
  <2>4. QED BY <1>5, <2>1, <2>2, <2>3
<1>8. CASE a # <<p, active[p]>>
  <2>1. Waiting(a)' = Waiting(a)
    <3>1. ASSUME NEW i \in 1..(n + 1), items'[i].artifact = a PROVE i \in 1..n
      <4>1. i # n + 1
        BY <1>2, <1>8, <3>1
      <4>2. QED BY <1>2, <4>1
    <3>2. \A i \in 1..n : i \in 1..(n + 1)
      BY <1>2
    <3>3. Waiting(a)' = {i \in 1..(n + 1) : items'[i].artifact = a}
      BY <1>2 DEF Waiting
    <3>4. Waiting(a) = {i \in 1..n : items[i].artifact = a}
      BY <1>2 DEF Waiting
    <3>5. QED BY <1>2, <3>1, <3>2, <3>3, <3>4
  <2>2. a[2] < active'[a[1]] <=> a[2] < active[a[1]]
    BY <1>1, <1>3, <1>6, <1>8
  <2>3. QED BY <1>4, <1>5, <2>1, <2>2
<1>9. QED BY <1>7, <1>8

LEMMA PopPlaces ==
  ASSUME IInv, BatchTypes, OncePlaced, NEW d \in Destroyers, NEW n \in 1..Len(items),
         dying[d] = <<>>,
         items' = SubSeq(items, n + 1, Len(items)),
         dying' = [dying EXCEPT ![d] = SubSeq(items, 1, n)],
         UNCHANGED <<active, destroyed>>
  PROVE  OncePlaced'
<1> DEFINE len == Len(items)
           batch == SubSeq(items, 1, n)
<1>1. /\ batch \in Seq(RetiredItem) /\ items' \in Seq(RetiredItem)
      /\ Len(batch) = n /\ Len(items') = len - n
      /\ \A i \in 1..n : batch[i] = items[i]
      /\ \A i \in 1..(len - n) : items'[i] = items[n + i]
  BY SplitAt DEF IInv
<1>2. /\ len \in Nat /\ n \in Nat /\ n >= 1 /\ n <= len
      /\ DOMAIN items = 1..len /\ DOMAIN batch = 1..n /\ DOMAIN items' = 1..(len - n)
  BY <1>1, LenProperties DEF IInv
<1>3. dying'[d] = batch /\ \A e \in Destroyers : e # d => dying'[e] = dying[e]
  BY DEF BatchTypes, Batches
<1> HIDE DEF len, batch
<1> SUFFICES ASSUME NEW a \in Artifacts
    PROVE  /\ \A i, j \in Waiting(a)' : i = j
           /\ \A x, y \in Dying(a)' : x = y
           /\ Waiting(a)' # {} => Dying(a)' = {} /\ a \notin destroyed'
           /\ Dying(a)' # {} => a \notin destroyed'
           /\ Waiting(a)' # {} \/ Dying(a)' # {} \/ a \in destroyed' <=> a[2] < active'[a[1]]
  BY DEF OncePlaced
<1>4. /\ \A i, j \in Waiting(a) : i = j
      /\ \A x, y \in Dying(a) : x = y
      /\ Waiting(a) # {} => Dying(a) = {} /\ a \notin destroyed
      /\ Dying(a) # {} => a \notin destroyed
      /\ Waiting(a) # {} \/ Dying(a) # {} \/ a \in destroyed <=> a[2] < active[a[1]]
  BY DEF OncePlaced
<1>5. ASSUME NEW i \in Waiting(a)' PROVE i \in Nat /\ n + i \in Waiting(a)
  <2>1. i \in 1..(len - n) /\ items'[i].artifact = a
    BY <1>2 DEF Waiting
  <2>2. n + i \in 1..len
    BY <1>2, <2>1
  <2>3. QED BY <1>1, <1>2, <2>1, <2>2 DEF Waiting
<1>6. ASSUME NEW x \in Dying(a)', x \notin Dying(a)
      PROVE  \E i \in Waiting(a) : i <= n /\ x = <<d, i>>
  <2>1. PICK e \in Destroyers : x \in {e} \X {i \in DOMAIN dying'[e] : dying'[e][i].artifact = a}
    BY DEF Dying
  <2>2. e = d
    BY <1>3, <1>6, <2>1 DEF Dying
  <2>3. PICK i \in 1..n : batch[i].artifact = a /\ x = <<d, i>>
    BY <1>2, <1>3, <2>1, <2>2
  <2>4. i \in 1..len /\ items[i].artifact = a /\ i <= n
    BY <1>1, <1>2, <2>3
  <2>5. QED BY <1>2, <2>3, <2>4 DEF Waiting
<1>7. ASSUME NEW i \in Waiting(a) PROVE Waiting(a)' # {} \/ Dying(a)' # {}
  <2>1. i \in 1..len /\ items[i].artifact = a
    BY <1>2 DEF Waiting
  <2>2. CASE i <= n
    <3>1. i \in 1..n /\ batch[i].artifact = a
      BY <1>1, <1>2, <2>1, <2>2
    <3>2. <<d, i>> \in Dying(a)'
      BY <1>2, <1>3, <3>1 DEF Dying
    <3>3. QED BY <3>2
  <2>3. CASE ~(i <= n)
    <3>1. i - n \in 1..(len - n) /\ n + (i - n) = i
      BY <1>2, <2>1, <2>3
    <3>2. items'[i - n].artifact = a
      BY <1>1, <2>1, <3>1
    <3>3. i - n \in Waiting(a)'
      BY <1>2, <3>1, <3>2 DEF Waiting
    <3>4. QED BY <3>3
  <2>4. QED BY <2>2, <2>3
<1>8. \A x \in Dying(a) : x \in Dying(a)'
  <2>1. ASSUME NEW x \in Dying(a) PROVE x \in Dying(a)'
    <3>1. PICK e \in Destroyers : x \in {e} \X {i \in DOMAIN dying[e] : dying[e][i].artifact = a}
      BY DEF Dying
    <3>2. e # d
      BY <3>1
    <3>3. QED BY <1>3, <3>1, <3>2 DEF Dying
  <2>2. QED BY <2>1
<1>9. \A i, j \in Waiting(a)' : i = j
  <2>1. ASSUME NEW i \in Waiting(a)', NEW j \in Waiting(a)' PROVE i = j
    <3>1. i \in Nat /\ j \in Nat /\ n + i = n + j
      BY <1>4, <1>5
    <3>2. QED BY <1>2, <3>1
  <2>2. QED BY <2>1
<1>10. \A x, y \in Dying(a)' : x = y
  BY <1>4, <1>6
<1>11. Waiting(a)' # {} => Dying(a)' = {} /\ a \notin destroyed'
  <2>1. ASSUME NEW i \in Waiting(a)', NEW x \in Dying(a)' PROVE FALSE
    <3>1. i \in Nat /\ n + i \in Waiting(a)
      BY <1>5
    <3>2. PICK j \in Waiting(a) : j <= n
      BY <1>4, <1>6, <3>1
    <3>3. i \in 1..(len - n) /\ j = n + i
      BY <1>2, <1>4, <3>1, <3>2 DEF Waiting
    <3>4. QED BY <1>2, <3>2, <3>3
  <2>2. QED BY <1>4, <1>5, <2>1
<1>12. Dying(a)' # {} => a \notin destroyed'
  BY <1>4, <1>6
<1>13. Waiting(a)' # {} \/ Dying(a)' # {} <=> Waiting(a) # {} \/ Dying(a) # {}
  BY <1>5, <1>6, <1>7, <1>8
<1>14. QED BY <1>4, <1>9, <1>10, <1>11, <1>12, <1>13

\* The artifact that is destroyed was the first of its batch and nowhere else;
\* the others of the batch move up.
LEMMA DestroyPlaces ==
  ASSUME BatchTypes, OncePlaced, NEW d \in Destroyers, DestroyPayload(d)
  PROVE  /\ OncePlaced'
         /\ dying' \in Batches /\ destroyed' \subseteq Artifacts
         /\ \A e \in Destroyers : e # d => dying'[e] = dying[e]
         /\ Cardinality(ChargedUnits(dying'[d])) = Cardinality(ChargedUnits(dying[d]))
<1> DEFINE s == dying[d]
           t == Tail(dying[d])
           n == Len(s)
<1>1. /\ s # <<>> /\ ~s[1].charged /\ s \in Seq(RetiredItem)
      /\ destroyed' = destroyed \cup {s[1].artifact}
      /\ dying' = [dying EXCEPT ![d] = t]
      /\ UNCHANGED <<items, active>>
  BY DEF DestroyPayload, AfterFirst, BatchTypes, Batches, slotsAndItems
<1>2. /\ t \in Seq(RetiredItem) /\ Len(t) = n - 1 /\ n >= 1
      /\ \A i \in 1..(n - 1) : t[i] = s[i + 1]
      /\ Cardinality(ChargedUnits(t)) = Cardinality(ChargedUnits(s))
  BY <1>1, TailCharges
<1>3. n \in Nat /\ DOMAIN s = 1..n /\ DOMAIN t = 1..(n - 1)
  BY <1>1, <1>2, LenProperties
<1>4. dying'[d] = t /\ \A e \in Destroyers : e # d => dying'[e] = dying[e]
  BY <1>1 DEF BatchTypes, Batches
<1>5. 1 \in 1..n /\ s[1] \in RetiredItem
  <2>1. 1 \in 1..n
    BY <1>2, <1>3
  <2>2. QED BY <1>1, <2>1, ElementOfSeq
<1>6. dying' \in Batches
  BY <1>1, <1>2 DEF BatchTypes, Batches
<1>7. destroyed' \subseteq Artifacts
  BY <1>1, <1>5 DEF BatchTypes, RetiredItem, Artifacts
<1>8. OncePlaced'
  <2> HIDE DEF s, t, n
  <2> SUFFICES ASSUME NEW a \in Artifacts
      PROVE  /\ \A i, j \in Waiting(a)' : i = j
             /\ \A x, y \in Dying(a)' : x = y
             /\ Waiting(a)' # {} => Dying(a)' = {} /\ a \notin destroyed'
             /\ Dying(a)' # {} => a \notin destroyed'
             /\ Waiting(a)' # {} \/ Dying(a)' # {} \/ a \in destroyed' <=> a[2] < active'[a[1]]
    BY DEF OncePlaced
  <2>1. /\ \A i, j \in Waiting(a) : i = j
        /\ \A x, y \in Dying(a) : x = y
        /\ Waiting(a) # {} => Dying(a) = {} /\ a \notin destroyed
        /\ Dying(a) # {} => a \notin destroyed
        /\ Waiting(a) # {} \/ Dying(a) # {} \/ a \in destroyed <=> a[2] < active[a[1]]
    BY DEF OncePlaced
  <2>2. Waiting(a)' = Waiting(a)
    BY <1>1 DEF Waiting
  <2>3. ASSUME NEW x \in Dying(a)'
        PROVE  \E y \in Dying(a) : y # <<d, 1>> /\ x = IF y[1] = d THEN <<d, y[2] - 1>> ELSE y
    <3>1. PICK e \in Destroyers : x \in {e} \X {i \in DOMAIN dying'[e] : dying'[e][i].artifact = a}
      BY DEF Dying
    <3>2. CASE e # d
      <4>1. x \in Dying(a) /\ x[1] = e /\ x # <<d, 1>>
        BY <1>4, <3>1, <3>2 DEF Dying
      <4>2. QED BY <3>2, <4>1
    <3>3. CASE e = d
      <4>1. PICK i \in 1..(n - 1) : x = <<d, i>> /\ t[i].artifact = a
        BY <1>3, <1>4, <3>1, <3>3
      <4>2. i + 1 \in 1..n /\ (i + 1) - 1 = i /\ i + 1 # 1
        BY <1>3
      <4>3. s[i + 1].artifact = a
        BY <1>2, <4>1
      <4>4. <<d, i + 1>> \in Dying(a)
        BY <1>3, <4>2, <4>3 DEF Dying, s
      <4>5. QED BY <4>1, <4>2, <4>4
    <3>4. QED BY <3>2, <3>3
  <2>4. \A x, y \in Dying(a)' : x = y
    BY <2>1, <2>3
  <2>5. CASE a = s[1].artifact
    <3>1. <<d, 1>> \in Dying(a)
      BY <1>3, <1>5, <2>5 DEF Dying, s
    <3>2. Dying(a)' = {}
      BY <2>1, <2>3, <3>1
    <3>3. Waiting(a) = {} /\ a \in destroyed' /\ a[2] < active[a[1]]
      BY <1>1, <2>1, <2>5, <3>1
    <3>4. QED BY <1>1, <2>1, <2>2, <3>2, <3>3
  <2>6. CASE a # s[1].artifact
    <3>1. ASSUME NEW y \in Dying(a) PROVE Dying(a)' # {}
      <4>1. PICK e \in Destroyers : y \in {e} \X {i \in DOMAIN dying[e] : dying[e][i].artifact = a}
        BY DEF Dying
      <4>2. CASE e # d
        <5>1. y \in Dying(a)'
          BY <1>4, <4>1, <4>2 DEF Dying
        <5>2. QED BY <5>1
      <4>3. CASE e = d
        <5>1. PICK i \in 1..n : s[i].artifact = a
          BY <1>3, <4>1, <4>3 DEF s
        <5>2. i # 1
          BY <2>6, <5>1
        <5>3. i - 1 \in 1..(n - 1) /\ (i - 1) + 1 = i
          BY <1>3, <5>2
        <5>4. t[i - 1].artifact = a
          BY <1>2, <5>1, <5>3
        <5>5. <<d, i - 1>> \in Dying(a)'
          BY <1>3, <1>4, <5>3, <5>4 DEF Dying
        <5>6. QED BY <5>5
      <4>4. QED BY <4>2, <4>3
    <3>2. Dying(a)' # {} <=> Dying(a) # {}
      BY <2>3, <3>1
    <3>3. a \in destroyed' <=> a \in destroyed
      BY <1>1, <2>6
    <3>4. QED BY <1>1, <2>1, <2>2, <2>4, <3>2, <3>3
  <2>7. QED BY <2>5, <2>6
<1>9. QED BY <1>2, <1>4, <1>6, <1>7, <1>8

\* A lease that goes leaves the item where it is.
LEMMA LeasePlaces ==
  ASSUME BatchTypes, OncePlaced, NEW d \in Destroyers, DropLease(d)
  PROVE  /\ OncePlaced'
         /\ dying' \in Batches
         /\ \A e \in Destroyers : e # d => dying'[e] = dying[e]
         /\ Cardinality(ChargedUnits(dying[d]))
              = Cardinality(ChargedUnits(dying'[d])) + dying[d][1].bytes
         /\ dying[d][1].bytes \in Nat
<1> DEFINE s == dying[d]
           t == [dying[d] EXCEPT ![1].charged = FALSE]
<1>1. /\ s # <<>> /\ s[1].charged /\ s \in Seq(RetiredItem)
      /\ dying' = [dying EXCEPT ![d] = t]
      /\ UNCHANGED <<items, active, destroyed>>
  BY DEF DropLease, BatchTypes, Batches, slotsAndItems
<1>2. /\ t \in Seq(RetiredItem) /\ Len(t) = Len(s)
      /\ \A i \in DOMAIN s : t[i].artifact = s[i].artifact
      /\ Cardinality(ChargedUnits(s)) = Cardinality(ChargedUnits(t)) + s[1].bytes
  BY <1>1, FirstUncharged
<1>3. dying'[d] = t /\ \A e \in Destroyers : e # d => dying'[e] = dying[e]
  BY <1>1 DEF BatchTypes, Batches
<1>4. dying' \in Batches
  BY <1>1, <1>2 DEF BatchTypes, Batches
<1>5. s[1].bytes \in Nat
  <2>1. Len(s) \in Nat /\ Len(s) >= 1 /\ 1 \in 1..Len(s)
    BY <1>1, EmptySeq, LenProperties
  <2>2. s[1] \in RetiredItem
    BY <1>1, <2>1, ElementOfSeq
  <2>3. QED BY <2>2, RetirementAssumption DEF RetiredItem
<1>6. DOMAIN t = DOMAIN s
  BY <1>1, <1>2, LenProperties
<1> HIDE DEF t
<1>7. \A a : Dying(a)' = Dying(a)
  <2> SUFFICES ASSUME NEW a PROVE Dying(a)' = Dying(a)
    OBVIOUS
  <2>1. \A e \in Destroyers :
          {i \in DOMAIN dying'[e] : dying'[e][i].artifact = a}
            = {i \in DOMAIN dying[e] : dying[e][i].artifact = a}
    BY <1>2, <1>3, <1>6
  <2>2. QED BY <2>1 DEF Dying
<1>8. \A a : Waiting(a)' = Waiting(a)
  BY <1>1 DEF Waiting
<1>9. OncePlaced'
  BY <1>1, <1>7, <1>8 DEF OncePlaced
<1>10. QED BY <1>2, <1>3, <1>4, <1>5, <1>9

-----------------------------------------------------------------------------
(***************************************************************************)
(* One lemma for each action: what it adds to one of the three counts it   *)
(* takes from another, or from the pool.                                   *)
(***************************************************************************)

ChargesKept == BatchTypes' /\ ChargesAccounted' /\ OncePlaced'

LEMMA UnitsOfState ==
  /\ HeldUnits = HeldIn(held) /\ DyingUnits = DyingIn(dying)
  /\ HeldUnits' = HeldIn(held') /\ DyingUnits' = DyingIn(dying')
BY DEF HeldUnits, HeldIn, DyingUnits, DyingIn

LEMMA InitAccounts == RetirementInit => RetirementInv
<1> SUFFICES ASSUME RetirementInit PROVE RetirementInv
  OBVIOUS
<1>1. IInv
  BY InitHolds
<1>2. BatchTypes
  BY EmptySeq, RetirementAssumption DEF RetirementInit, BatchTypes, Batches
<1>3. /\ Units(items) = {} /\ ChargedUnits(items) = {}
      /\ HeldUnits = {} /\ DyingUnits = {}
  <2>1. Units(<<>>) = {} /\ ChargedUnits(<<>>) = {}
    BY DEF Units, ChargedUnits
  <2>2. QED BY <2>1 DEF RetirementInit, HeldUnits, DyingUnits
<1>4. ChargesAccounted
  <2>1. DOMAIN items = {}
    BY DEF RetirementInit
  <2>2. retainedBytes = 0 /\ poolReserved = 0
    BY DEF RetirementInit
  <2>3. QED BY <1>3, <2>1, <2>2, FS_EmptySet DEF ChargesAccounted, BytesOf
<1>5. OncePlaced
  <2>1. \A a : Waiting(a) = {} /\ Dying(a) = {}
    BY DEF RetirementInit, Waiting, Dying
  <2>2. \A a \in Artifacts : ~(a[2] < active[a[1]])
    BY RetirementAssumption DEF RetirementInit, Artifacts
  <2>3. QED BY <2>1, <2>2 DEF RetirementInit, OncePlaced
<1>6. QED BY <1>1, <1>2, <1>4, <1>5 DEF RetirementInv

LEMMA ReserveAccounts ==
  ASSUME RetirementInv, NEW p \in Publishers, NEW bytes \in 1..MaxBytes,
         ReserveSlot(p, bytes)
  PROVE  ChargesKept
<1>1. /\ held[p] = NoReservation
      /\ poolReserved + bytes <= PoolBytes /\ poolReserved' = poolReserved + bytes
      /\ held' = [held EXCEPT ![p] = [bytes |-> bytes, cancelled |-> FALSE]]
      /\ UNCHANGED <<items, retainedBytes, active, dying, destroyed>>
  BY DEF ReserveSlot, Charge
<1>2. held \in Holdings /\ held' \in Holdings
  BY ReserveStep DEF RetirementInv, IInv, Holdings
<1>3. /\ HeldBy(held, p) = 0 /\ HeldBy(held', p) = bytes
      /\ \A q \in Publishers : q # p => held'[q] = held[q]
  <2>1. [bytes |-> bytes, cancelled |-> FALSE] \in RetirementReservation
    BY DEF RetirementReservation
  <2>2. QED BY <1>1, <1>2, <2>1, RetirementAssumption DEF HeldBy, Holdings
<1>4. Cardinality(HeldUnits') = Cardinality(HeldUnits) + bytes
      /\ Cardinality(HeldUnits) \in Nat
  BY <1>2, <1>3, HeldChanges, UnitsOfState
<1>5. /\ Cardinality(ChargedUnits(items)) \in Nat /\ Cardinality(DyingUnits) \in Nat
      /\ bytes \in Nat /\ poolReserved \in Nat /\ PoolBytes \in Nat
  <2>2. Cardinality(DyingUnits) \in Nat
    BY BatchesAreFinite, UnitsOfState DEF RetirementInv, BatchTypes
  <2>3. QED BY <2>2, UnitsAreFinite, RetirementAssumption DEF RetirementInv, IInv, BatchTypes
<1>6. ChargesAccounted'
  <2>1. poolReserved = Cardinality(HeldUnits) + Cardinality(ChargedUnits(items))
                         + Cardinality(DyingUnits)
    BY DEF RetirementInv, ChargesAccounted
  <2>2. poolReserved' = Cardinality(HeldUnits') + Cardinality(ChargedUnits(items))
                          + Cardinality(DyingUnits)
    BY <1>1, <1>4, <1>5, <2>1
  <2>3. DyingUnits' = DyingUnits
    BY <1>1 DEF DyingUnits
  <2>4. QED BY <1>1, <2>2, <2>3 DEF RetirementInv, ChargesAccounted
<1>7. BatchTypes'
  BY <1>1, <1>5 DEF RetirementInv, BatchTypes
<1>8. OncePlaced'
  BY <1>1 DEF RetirementInv, OncePlaced, Waiting, Dying
<1>9. QED BY <1>6, <1>7, <1>8 DEF ChargesKept

\* The bytes of the reservation become the bytes of the item.
LEMMA CommitAccounts ==
  ASSUME RetirementInv, NEW p \in Publishers, CommitSwap(p)
  PROVE  ChargesKept
<1> DEFINE item == [artifact |-> <<p, active[p]>>, bytes |-> held[p].bytes,
                    charged |-> TRUE]
           n == Len(items)
<1>1. /\ held[p] # NoReservation
      /\ items' = Append(items, item)
      /\ retainedBytes' = retainedBytes + item.bytes
      /\ held' = [held EXCEPT ![p] = NoReservation]
      /\ UNCHANGED <<poolReserved, dying, destroyed>>
  BY DEF CommitSwap, Reserves
<1>2. held \in Holdings /\ held' \in Holdings /\ items \in Seq(RetiredItem)
  BY CommitStep DEF RetirementInv, IInv, Holdings
<1>3. item \in RetiredItem /\ item.charged /\ item.bytes = held[p].bytes
  <2>1. held[p].bytes \in 1..MaxBytes
    BY <1>1, <1>2 DEF Holdings, RetirementReservation
  <2>2. active[p] \in 0..MaxVersion
    BY DEF RetirementInv, IInv
  <2>3. QED BY <2>1, <2>2 DEF RetiredItem
<1>4. item.bytes \in Nat /\ MaxBytes \in Nat
  BY <1>3, RetirementAssumption DEF RetiredItem
<1>5. /\ HeldBy(held, p) = item.bytes /\ HeldBy(held', p) = 0
      /\ \A q \in Publishers : q # p => held'[q] = held[q]
  BY <1>1, <1>2, <1>3 DEF HeldBy, Holdings
<1> HIDE DEF item
<1>6. /\ Cardinality(HeldUnits) = Cardinality(HeldUnits') + item.bytes
      /\ Cardinality(HeldUnits') \in Nat
  BY <1>2, <1>4, <1>5, HeldChanges, UnitsOfState
<1>7. /\ Cardinality(Units(items')) = Cardinality(Units(items)) + item.bytes
      /\ Cardinality(ChargedUnits(items')) = Cardinality(ChargedUnits(items)) + item.bytes
  BY <1>1, <1>2, <1>3, UnitsAppend
<1>8. /\ Cardinality(ChargedUnits(items)) \in Nat /\ Cardinality(Units(items)) \in Nat
      /\ Cardinality(DyingUnits) \in Nat
  BY <1>2, UnitsAreFinite, BatchesAreFinite, UnitsOfState DEF RetirementInv, BatchTypes
<1>9. \A i \in DOMAIN items' : items'[i].charged
  <2>1. /\ n \in Nat /\ DOMAIN items' = 1..(n + 1) /\ DOMAIN items = 1..n
        /\ items'[n + 1] = item /\ \A i \in 1..n : items'[i] = items[i]
    BY <1>1, <1>2, <1>3, AppendProperties, LenProperties
  <2>2. \A i \in 1..n : items[i].charged
    BY <2>1 DEF RetirementInv, ChargesAccounted
  <2> HIDE DEF n
  <2>3. ASSUME NEW i \in 1..(n + 1) PROVE items'[i].charged
    <3>1. i \in 1..n \/ i = n + 1
      BY <2>1
    <3>2. QED BY <1>3, <2>1, <2>2, <3>1
  <2>4. QED BY <2>1, <2>3
<1>10. ChargesAccounted'
  <2>1. /\ retainedBytes = Cardinality(Units(items))
        /\ poolReserved = Cardinality(HeldUnits) + Cardinality(ChargedUnits(items))
                            + Cardinality(DyingUnits)
    BY DEF RetirementInv, ChargesAccounted, BytesOf
  <2>2. DyingUnits' = DyingUnits
    BY <1>1 DEF DyingUnits
  <2>3. poolReserved' = Cardinality(HeldUnits') + Cardinality(ChargedUnits(items'))
                          + Cardinality(DyingUnits')
    BY <1>1, <1>4, <1>6, <1>7, <1>8, <2>1, <2>2
  <2>4. retainedBytes' = Cardinality(Units(items'))
    BY <1>1, <1>7, <2>1
  <2>5. QED BY <1>9, <2>3, <2>4 DEF ChargesAccounted, BytesOf
<1>11. BatchTypes'
  BY <1>1, <1>4 DEF RetirementInv, BatchTypes
<1>12. OncePlaced'
  BY CommitPlaces DEF RetirementInv
<1>13. QED BY <1>10, <1>11, <1>12 DEF ChargesKept

\* The slot goes back; the bytes stay charged.
LEMMA CancelAccounts ==
  ASSUME RetirementInv, NEW p \in Publishers, CancelSlot(p)
  PROVE  ChargesKept
<1>1. /\ held[p] # NoReservation
      /\ held' = [held EXCEPT ![p].cancelled = TRUE]
      /\ UNCHANGED <<items, retainedBytes, poolReserved, active, dying, destroyed>>
  BY DEF CancelSlot, Reserves
<1>2. held \in Holdings /\ held[p] \in RetirementReservation
  BY <1>1 DEF RetirementInv, IInv, Holdings
<1>3. [held[p] EXCEPT !.cancelled = TRUE] \in RetirementReservation
      /\ [held[p] EXCEPT !.cancelled = TRUE].bytes = held[p].bytes
  BY <1>2 DEF RetirementReservation
<1>4. \A q \in Publishers : /\ held'[q] = NoReservation <=> held[q] = NoReservation
                            /\ held[q] # NoReservation => held'[q].bytes = held[q].bytes
  BY <1>1, <1>2, <1>3, RetirementAssumption DEF Holdings
<1>5. HeldUnits' = HeldUnits
  BY <1>4 DEF HeldUnits
<1>6. DyingUnits' = DyingUnits
  BY <1>1 DEF DyingUnits
<1>7. ChargesAccounted'
  BY <1>1, <1>5, <1>6 DEF RetirementInv, ChargesAccounted
<1>8. BatchTypes' /\ OncePlaced'
  BY <1>1 DEF RetirementInv, BatchTypes, OncePlaced, Waiting, Dying
<1>9. QED BY <1>7, <1>8 DEF ChargesKept

\* The lease of a reservation goes, and its bytes with it.
LEMMA CancelLeaseAccounts ==
  ASSUME RetirementInv, NEW p \in Publishers, CancelLease(p)
  PROVE  ChargesKept
<1>1. /\ held[p] # NoReservation
      /\ poolReserved' = poolReserved - held[p].bytes
      /\ held' = [held EXCEPT ![p] = NoReservation]
      /\ UNCHANGED <<items, retainedBytes, active, dying, destroyed>>
  BY DEF CancelLease, slotsAndItems
<1>2. held \in Holdings /\ held' \in Holdings
  BY CancelLeaseStep DEF RetirementInv, IInv, Holdings
<1>3. /\ HeldBy(held, p) = held[p].bytes /\ HeldBy(held', p) = 0
      /\ held[p].bytes \in Nat
      /\ \A q \in Publishers : q # p => held'[q] = held[q]
  BY <1>1, <1>2, RetirementAssumption DEF HeldBy, Holdings, RetirementReservation
<1>4. /\ Cardinality(HeldUnits) = Cardinality(HeldUnits') + held[p].bytes
      /\ Cardinality(HeldUnits') \in Nat
  BY <1>2, <1>3, HeldChanges, UnitsOfState
<1>5. /\ Cardinality(ChargedUnits(items)) \in Nat /\ Cardinality(DyingUnits) \in Nat
      /\ PoolBytes \in Nat
  BY UnitsAreFinite, BatchesAreFinite, UnitsOfState, RetirementAssumption
     DEF RetirementInv, IInv, BatchTypes
<1>6. poolReserved = Cardinality(HeldUnits) + Cardinality(ChargedUnits(items))
                       + Cardinality(DyingUnits)
  BY DEF RetirementInv, ChargesAccounted
<1>7. /\ poolReserved' = Cardinality(HeldUnits') + Cardinality(ChargedUnits(items))
                           + Cardinality(DyingUnits)
      /\ poolReserved' \in 0..PoolBytes
  BY <1>1, <1>3, <1>4, <1>5, <1>6 DEF RetirementInv, BatchTypes
<1>8. ChargesAccounted'
  <2>1. DyingUnits' = DyingUnits
    BY <1>1 DEF DyingUnits
  <2>2. QED BY <1>1, <1>7, <2>1 DEF RetirementInv, ChargesAccounted
<1>9. BatchTypes' /\ OncePlaced'
  BY <1>1, <1>7 DEF RetirementInv, BatchTypes, OncePlaced, Waiting, Dying
<1>10. QED BY <1>8, <1>9 DEF ChargesKept

\* A batch takes its bytes from the queue to the drain: they stay charged, and
\* the queue retains no more than is left in it.
LEMMA PopAccounts ==
  ASSUME RetirementInv, NEW d \in Destroyers, NEW max \in 1..QueueSlots, PopBatch(d, max)
  PROVE  ChargesKept
<1> DEFINE n == IF max < Len(items) THEN max ELSE Len(items)
           batch == SubSeq(items, 1, n)
           rest == SubSeq(items, n + 1, Len(items))
<1>1. /\ dying[d] = <<>> /\ n > 0
      /\ items' = rest
      /\ dying' = [dying EXCEPT ![d] = batch]
      /\ retainedBytes' = SaturatingSub(retainedBytes, BytesOf(batch))
      /\ UNCHANGED <<poolReserved, held, active, destroyed>>
  BY DEF PopBatch, LeftInQueue
<1>2. items \in Seq(RetiredItem) /\ dying \in Batches /\ n \in 1..Len(items)
  BY <1>1, LenProperties DEF RetirementInv, IInv, BatchTypes
<1> HIDE DEF n
<1>3. batch \in Seq(RetiredItem) /\ rest \in Seq(RetiredItem)
  BY <1>2, SplitAt
<1>4. /\ Cardinality(Units(items)) = Cardinality(Units(batch)) + Cardinality(Units(rest))
      /\ ChargedUnits(items) = Units(items)
      /\ ChargedUnits(batch) = Units(batch)
      /\ ChargedUnits(rest) = Units(rest)
  BY <1>2, UnitsSplit DEF RetirementInv, ChargesAccounted
<1>5. \A i \in DOMAIN rest : rest[i].charged
  <2> DEFINE m == Len(items)
  <2>1. /\ \A i \in 1..(m - n) : rest[i] = items[n + i]
        /\ DOMAIN rest = 1..(m - n) /\ DOMAIN items = 1..m /\ m \in Nat
    BY <1>2, <1>3, SplitAt, LenProperties
  <2>2. n \in 1..m
    BY <1>2
  <2> HIDE DEF m, rest
  <2>3. \A i \in 1..(m - n) : n + i \in 1..m
    BY <2>1, <2>2
  <2>4. QED BY <2>1, <2>3 DEF RetirementInv, ChargesAccounted
<1> HIDE DEF batch, rest
<1>6. /\ dying' \in Batches /\ dying'[d] = batch
      /\ \A e \in Destroyers : e # d => dying'[e] = dying[e]
  BY <1>1, <1>2, <1>3 DEF Batches
<1>7. Cardinality(ChargedUnits(dying[d])) = 0
  BY <1>1, FS_EmptySet DEF ChargedUnits, Units
<1>8. /\ Cardinality(DyingUnits') = Cardinality(DyingUnits) + Cardinality(Units(batch))
      /\ Cardinality(DyingUnits) \in Nat
  BY <1>2, <1>4, <1>6, <1>7, DyingChanges, UnitsOfState
<1>9. HeldUnits' = HeldUnits /\ Cardinality(HeldUnits) \in Nat
  <2>1. HeldUnits' = HeldUnits
    BY <1>1 DEF HeldUnits
  <2>3. Cardinality(HeldUnits) \in Nat
    BY HoldingsAreFinite, UnitsOfState DEF RetirementInv, IInv, Holdings
  <2>4. QED BY <2>1, <2>3
<1>10. /\ Cardinality(Units(items)) \in Nat /\ Cardinality(Units(batch)) \in Nat
       /\ Cardinality(Units(rest)) \in Nat
  BY <1>2, <1>3, UnitsAreFinite
<1>11. ChargesAccounted'
  <2>1. /\ retainedBytes = Cardinality(Units(items))
        /\ poolReserved = Cardinality(HeldUnits) + Cardinality(ChargedUnits(items))
                            + Cardinality(DyingUnits)
    BY DEF RetirementInv, ChargesAccounted, BytesOf
  <2>2. retainedBytes' = Cardinality(Units(rest))
    BY <1>1, <1>4, <1>10, <2>1 DEF SaturatingSub, BytesOf
  <2>3. poolReserved' = Cardinality(HeldUnits') + Cardinality(ChargedUnits(items'))
                          + Cardinality(DyingUnits')
    BY <1>1, <1>4, <1>8, <1>9, <1>10, <2>1
  <2>4. QED BY <1>1, <1>5, <2>2, <2>3 DEF ChargesAccounted, BytesOf
<1>12. BatchTypes'
  <2>1. retainedBytes' \in Nat
    BY <1>10, <1>11, <1>1 DEF ChargesAccounted, BytesOf
  <2>2. QED BY <1>1, <1>6, <2>1 DEF RetirementInv, BatchTypes
<1>13. OncePlaced'
  BY <1>1, <1>2, PopPlaces DEF RetirementInv, batch, rest
<1>14. QED BY <1>11, <1>12, <1>13 DEF ChargesKept

LEMMA LeaseAccounts ==
  ASSUME RetirementInv, NEW d \in Destroyers, DropLease(d)
  PROVE  ChargesKept
<1>1. /\ poolReserved' = poolReserved - dying[d][1].bytes
      /\ UNCHANGED <<items, retainedBytes, held, active, destroyed>>
  BY DEF DropLease, slotsAndItems
<1>2. /\ OncePlaced' /\ dying' \in Batches
      /\ \A e \in Destroyers : e # d => dying'[e] = dying[e]
      /\ Cardinality(ChargedUnits(dying[d]))
           = Cardinality(ChargedUnits(dying'[d])) + dying[d][1].bytes
      /\ dying[d][1].bytes \in Nat
  BY LeasePlaces DEF RetirementInv
<1> DEFINE bytes == dying[d][1].bytes
<1> HIDE DEF bytes
<1>3. /\ Cardinality(DyingUnits) = Cardinality(DyingUnits') + bytes
      /\ Cardinality(DyingUnits') \in Nat
  BY <1>2, DyingChanges, UnitsOfState DEF RetirementInv, BatchTypes, bytes
<1>4. HeldUnits' = HeldUnits
  BY <1>1 DEF HeldUnits
<1>5. /\ Cardinality(HeldUnits) \in Nat /\ Cardinality(ChargedUnits(items)) \in Nat
      /\ bytes \in Nat /\ PoolBytes \in Nat
  BY <1>2, HoldingsAreFinite, UnitsAreFinite, UnitsOfState, RetirementAssumption
     DEF RetirementInv, IInv, Holdings, bytes
<1>6. poolReserved = Cardinality(HeldUnits) + Cardinality(ChargedUnits(items))
                       + Cardinality(DyingUnits)
  BY DEF RetirementInv, ChargesAccounted
<1>7. /\ poolReserved' = Cardinality(HeldUnits) + Cardinality(ChargedUnits(items))
                           + Cardinality(DyingUnits')
      /\ poolReserved' \in 0..PoolBytes
  BY <1>1, <1>3, <1>5, <1>6 DEF RetirementInv, BatchTypes, bytes
<1>8. ChargesAccounted'
  BY <1>1, <1>4, <1>7 DEF RetirementInv, ChargesAccounted
<1>9. BatchTypes'
  BY <1>1, <1>2, <1>7 DEF RetirementInv, BatchTypes
<1>10. QED BY <1>2, <1>8, <1>9 DEF ChargesKept

LEMMA DestroyAccounts ==
  ASSUME RetirementInv, NEW d \in Destroyers, DestroyPayload(d)
  PROVE  ChargesKept
<1>1. UNCHANGED <<items, retainedBytes, poolReserved, held, active>>
  BY DEF DestroyPayload, slotsAndItems
<1>2. /\ OncePlaced' /\ dying' \in Batches /\ destroyed' \subseteq Artifacts
      /\ \A e \in Destroyers : e # d => dying'[e] = dying[e]
      /\ Cardinality(ChargedUnits(dying'[d])) = Cardinality(ChargedUnits(dying[d]))
  BY DestroyPlaces DEF RetirementInv
<1>3. Cardinality(DyingUnits') = Cardinality(DyingUnits)
  BY <1>2, DyingChanges, UnitsOfState DEF RetirementInv, BatchTypes
<1>4. HeldUnits' = HeldUnits
  BY <1>1 DEF HeldUnits
<1>5. ChargesAccounted'
  BY <1>1, <1>3, <1>4 DEF RetirementInv, ChargesAccounted
<1>6. BatchTypes'
  BY <1>1, <1>2 DEF RetirementInv, BatchTypes
<1>7. QED BY <1>2, <1>5, <1>6 DEF ChargesKept

\* Artifacts and bytes: however publishers and drains interleave, the pool is
\* charged for exactly what is reserved, waiting or being destroyed, and every
\* replaced artifact is in exactly one place (retirement.rs:5-14).
THEOREM RetirementStaysExact == RetirementSpec => []RetirementIsExact
<1>1. RetirementInv /\ [RetirementNext]_retirementVars => RetirementInv'
  <2> SUFFICES ASSUME RetirementInv, [RetirementNext]_retirementVars PROVE RetirementInv'
    OBVIOUS
  <2>1. IInv'
    BY NextKeepsSlots DEF RetirementInv
  <2>2. ChargesKept
    <3>1. CASE UNCHANGED retirementVars
      <4>1. /\ UNCHANGED <<items, retainedBytes, poolReserved>>
            /\ UNCHANGED <<held, active, dying, destroyed>>
        BY <3>1 DEF retirementVars, slotsAndItems
      <4>2. ChargesAccounted'
        BY <4>1 DEF RetirementInv, ChargesAccounted, HeldUnits, DyingUnits
      <4>3. BatchTypes' /\ OncePlaced'
        BY <4>1 DEF RetirementInv, BatchTypes, OncePlaced, Waiting, Dying
      <4>4. QED BY <4>2, <4>3 DEF ChargesKept
    <3>2. QED
      BY <3>1, ReserveAccounts, CommitAccounts, CancelAccounts, CancelLeaseAccounts,
         PopAccounts, LeaseAccounts, DestroyAccounts DEF RetirementNext
  <2>3. QED BY <2>1, <2>2 DEF RetirementInv, ChargesKept
<1>2. RetirementInv => RetirementIsExact
  <2> SUFFICES ASSUME RetirementInv PROVE RetirementIsExact
    OBVIOUS
  <2>1. RetirementTypeOK
    BY DEF RetirementInv, IInv, BatchTypes, Batches, Artifacts, RetirementTypeOK
  <2>2. ReplacedExactlyOnce
    BY OnceIsCounted DEF RetirementInv
  <2>3. QED BY <2>1, <2>2 DEF RetirementInv, RetirementIsExact
<1>3. QED BY InitAccounts, <1>1, <1>2, PTL DEF RetirementSpec
=============================================================================
