------------------------ MODULE ResourceLedgerProofs ------------------------
(***************************************************************************)
(* Proofs about ResourceLedger, for every value of its constants.          *)
(***************************************************************************)
EXTENDS ResourceLedger, TLAPS, FiniteSetTheorems

-----------------------------------------------------------------------------
(* Running totals.                                                         *)

\* Replacing one summand moves the total by the difference, and no summand is
\* larger than the total.
LEMMA SumUpdate ==
  ASSUME NEW f \in [Allocations -> Nat], NEW total \in Nat,
         SumsTo(f, total),
         NEW a \in Allocations, NEW v \in Nat
  PROVE  /\ f[a] <= total
         /\ total - f[a] + v \in Nat
         /\ SumsTo([f EXCEPT ![a] = v], total - f[a] + v)
<1> DEFINE M == MaxAllocation
           d == v - f[a]
           g == [f EXCEPT ![a] = v]
           next == total - f[a] + v
<1>1. M \in Nat \ {0} /\ a \in 1..M /\ f[a] \in Nat
  BY LedgerAssumption DEF Allocations
<1>2. PICK r \in [0..M -> 0..total] :
        /\ r[0] = 0
        /\ r[M] = total
        /\ \A b \in Allocations : r[b] = r[b - 1] + f[b]
        /\ \A b, c \in 0..M : b <= c => r[b] <= r[c]
  BY DEF SumsTo
<1>3. r[a] = r[a - 1] + f[a] /\ r[a] <= total /\ r[a - 1] \in 0..total
  BY <1>1, <1>2 DEF Allocations
<1>4. f[a] <= total /\ next \in Nat
  BY <1>1, <1>3
<1> DEFINE s == [b \in 0..M |-> IF b < a THEN r[b] ELSE r[b] + d]
<1>5. \A b, c \in 0..M : b <= c => s[b] <= s[c]
  <2> SUFFICES ASSUME NEW b \in 0..M, NEW c \in 0..M, b <= c
               PROVE s[b] <= s[c]
    OBVIOUS
  <2>1. r[b] <= r[c] /\ r[b] \in Int /\ r[c] \in Int
    BY <1>2
  <2>2. CASE b < a /\ c >= a
    <3>1. r[b] <= r[a - 1] /\ r[a] <= r[c] /\ r[a] \in Int
      BY <1>1, <1>2, <2>2
    <3>2. QED BY <1>1, <1>3, <2>1, <2>2, <3>1
  <2>3. CASE c < a
    BY <1>1, <2>1, <2>3
  <2>4. CASE b >= a
    BY <1>1, <2>1, <2>4
  <2>5. QED BY <1>1, <2>2, <2>3, <2>4
<1>6. s[0] = 0 /\ s[M] = next
  BY <1>1, <1>2
<1>7. s \in [0..M -> 0..next]
  <2> SUFFICES ASSUME NEW b \in 0..M PROVE s[b] \in 0..next
    OBVIOUS
  <2>1. s[b] \in Int
    BY <1>1, <1>2
  <2>2. s[0] <= s[b] /\ s[b] <= s[M]
    BY <1>1, <1>5
  <2>3. QED BY <1>6, <2>1, <2>2, <1>4
<1>8. \A b \in Allocations : s[b] = s[b - 1] + g[b]
  <2> SUFFICES ASSUME NEW b \in 1..M PROVE s[b] = s[b - 1] + g[b]
    BY DEF Allocations
  <2>1. r[b] = r[b - 1] + f[b] /\ r[b] \in Int /\ r[b - 1] \in Int /\ f[b] \in Nat
    BY <1>1, <1>2 DEF Allocations
  <2>2. CASE b = a
    BY <1>1, <2>1, <2>2 DEF Allocations
  <2>3. CASE b < a
    BY <1>1, <2>1, <2>3 DEF Allocations
  <2>4. CASE b > a
    BY <1>1, <2>1, <2>4 DEF Allocations
  <2>5. QED BY <1>1, <2>2, <2>3, <2>4
<1>9. SumsTo(g, next)
  BY <1>5, <1>6, <1>7, <1>8 DEF SumsTo
<1>10. QED BY <1>4, <1>9

-----------------------------------------------------------------------------
(* The invariant.                                                          *)

IInv == LedgerTypeOK /\ Conservation /\ ProtectedPools /\ OwnershipMatchesLeases

\* What every operation that changes the ledger does to it: the record of one
\* allocation is replaced, and the counters move by the difference in bytes
\* under the record's own kind and class.
Recharged(a, record, kind, class, delta) ==
  /\ allocations' = [allocations EXCEPT ![a] = record]
  /\ AddBytes(kind, class, delta)
  /\ allocations[a] # NoRecord =>
       allocations[a].kind = kind /\ allocations[a].class = class
  /\ record # NoRecord => record.kind = kind /\ record.class = class
  /\ delta = (IF record = NoRecord THEN 0 ELSE record.bytes)
               - (IF allocations[a] = NoRecord THEN 0 ELSE allocations[a].bytes)

\* Such a replacement keeps every counter equal to its sum, and in particular
\* never takes a counter below zero.
LEMMA RechargedConserves ==
  ASSUME LedgerTypeOK, Conservation, ProtectedPools,
         NEW a \in Allocations, NEW record \in AllocationRecord \cup {NoRecord},
         NEW kind \in Kinds, NEW class \in Classes, NEW delta \in Int,
         Recharged(a, record, kind, class, delta)
  PROVE  /\ Conservation'
         /\ reserved' \in Nat /\ terminalReserved' \in Nat
         /\ retirementReserved' \in Nat /\ managed' \in Nat /\ queue' \in Nat
         /\ OrdinaryReserved' \in Nat
<1> DEFINE before == IF allocations[a] = NoRecord THEN 0 ELSE allocations[a].bytes
           after == IF record = NoRecord THEN 0 ELSE record.bytes
<1>1. before \in Nat /\ after \in Nat /\ delta = after - before
  BY DEF LedgerTypeOK, AllocationRecord, Recharged
<1>2. /\ reserved \in Nat /\ terminalReserved \in Nat /\ retirementReserved \in Nat
      /\ managed \in Nat /\ queue \in Nat /\ OrdinaryReserved \in Nat
  BY LedgerAssumption DEF LedgerTypeOK, ProtectedPools, OrdinaryReserved
<1>3. /\ Bytes \in [Allocations -> Nat]
      /\ \A c \in Classes : BytesOfClass(c) \in [Allocations -> Nat]
      /\ \A k \in Kinds : BytesOfKind(k) \in [Allocations -> Nat]
  BY DEF LedgerTypeOK, AllocationRecord, Active, Bytes, BytesOfClass, BytesOfKind
<1>4. /\ Bytes[a] = before
      /\ \A c \in Classes : BytesOfClass(c)[a] = IF c = class THEN before ELSE 0
      /\ \A k \in Kinds : BytesOfKind(k)[a] = IF k = kind THEN before ELSE 0
  BY DEF Active, Bytes, BytesOfClass, BytesOfKind, Recharged
<1>5. /\ allocations'[a] = record
      /\ \A b \in Allocations : b # a => allocations'[b] = allocations[b]
  BY DEF Recharged, LedgerTypeOK
<1>6. Bytes' = [Bytes EXCEPT ![a] = after]
  BY <1>5 DEF Active, Bytes
<1>7. ASSUME NEW c \in Classes
      PROVE  BytesOfClass(c)' =
               [BytesOfClass(c) EXCEPT ![a] = IF c = class THEN after ELSE 0]
  <2> DEFINE moved == [BytesOfClass(c) EXCEPT ![a] = IF c = class THEN after ELSE 0]
  <2>1. ASSUME NEW b \in Allocations PROVE BytesOfClass(c)'[b] = moved[b]
    <3>1. CASE b = a
      BY <1>3, <1>5, <3>1 DEF Active, BytesOfClass, Recharged
    <3>2. CASE b # a
      BY <1>5, <3>2 DEF Active, BytesOfClass
    <3>3. QED BY <3>1, <3>2
  <2>2. BytesOfClass(c)' = [b \in Allocations |-> BytesOfClass(c)'[b]]
    BY DEF BytesOfClass
  <2>3. moved = [b \in Allocations |-> moved[b]]
    BY <1>3
  <2>4. QED BY <2>1, <2>2, <2>3
<1>8. ASSUME NEW k \in Kinds
      PROVE  BytesOfKind(k)' =
               [BytesOfKind(k) EXCEPT ![a] = IF k = kind THEN after ELSE 0]
  <2> DEFINE moved == [BytesOfKind(k) EXCEPT ![a] = IF k = kind THEN after ELSE 0]
  <2>1. ASSUME NEW b \in Allocations PROVE BytesOfKind(k)'[b] = moved[b]
    <3>1. CASE b = a
      BY <1>3, <1>5, <3>1 DEF Active, BytesOfKind, Recharged
    <3>2. CASE b # a
      BY <1>5, <3>2 DEF Active, BytesOfKind
    <3>3. QED BY <3>1, <3>2
  <2>2. BytesOfKind(k)' = [b \in Allocations |-> BytesOfKind(k)'[b]]
    BY DEF BytesOfKind
  <2>3. moved = [b \in Allocations |-> moved[b]]
    BY <1>3
  <2>4. QED BY <2>1, <2>2, <2>3
<1>9. /\ reserved' = reserved - before + after
      /\ terminalReserved' = terminalReserved
           - (IF "Terminal" = class THEN before ELSE 0)
           + (IF "Terminal" = class THEN after ELSE 0)
      /\ retirementReserved' = retirementReserved
           - (IF "Retirement" = class THEN before ELSE 0)
           + (IF "Retirement" = class THEN after ELSE 0)
      /\ managed' = managed - (IF "Managed" = kind THEN before ELSE 0)
                            + (IF "Managed" = kind THEN after ELSE 0)
      /\ queue' = queue - (IF "Queue" = kind THEN before ELSE 0)
                        + (IF "Queue" = kind THEN after ELSE 0)
      /\ OrdinaryReserved' = OrdinaryReserved
           - (IF "Ordinary" = class THEN before ELSE 0)
           + (IF "Ordinary" = class THEN after ELSE 0)
  BY <1>1, <1>2 DEF Recharged, AddBytes, Share, OrdinaryReserved, Classes, Kinds
<1>10. reserved' \in Nat /\ SumsTo(Bytes', reserved')
  BY <1>1, <1>2, <1>3, <1>4, <1>6, <1>9, SumUpdate DEF Conservation
<1>11. OrdinaryReserved' \in Nat /\ SumsTo(BytesOfClass("Ordinary")', OrdinaryReserved')
  <2> DEFINE f == BytesOfClass("Ordinary")
             v == IF "Ordinary" = class THEN after ELSE 0
  <2>1. "Ordinary" \in Classes
    BY DEF Classes
  <2>2. f \in [Allocations -> Nat] /\ f[a] = IF "Ordinary" = class THEN before ELSE 0
    BY <1>3, <1>4, <2>1
  <2>3. SumsTo(f, OrdinaryReserved) /\ OrdinaryReserved \in Nat /\ v \in Nat
    BY <1>1, <1>2 DEF Conservation
  <2>4. BytesOfClass("Ordinary")' = [f EXCEPT ![a] = v]
    BY <1>7, <2>1
  <2>5. OrdinaryReserved' = OrdinaryReserved - f[a] + v
    BY <1>9, <2>2
  <2> HIDE DEF f, v
  <2>6. QED BY <2>2, <2>3, <2>4, <2>5, SumUpdate
<1>12. terminalReserved' \in Nat /\ SumsTo(BytesOfClass("Terminal")', terminalReserved')
  <2> DEFINE f == BytesOfClass("Terminal")
             v == IF "Terminal" = class THEN after ELSE 0
  <2>1. "Terminal" \in Classes
    BY DEF Classes
  <2>2. f \in [Allocations -> Nat] /\ f[a] = IF "Terminal" = class THEN before ELSE 0
    BY <1>3, <1>4, <2>1
  <2>3. SumsTo(f, terminalReserved) /\ terminalReserved \in Nat /\ v \in Nat
    BY <1>1, <1>2 DEF Conservation
  <2>4. BytesOfClass("Terminal")' = [f EXCEPT ![a] = v]
    BY <1>7, <2>1
  <2>5. terminalReserved' = terminalReserved - f[a] + v
    BY <1>9, <2>2
  <2> HIDE DEF f, v
  <2>6. QED BY <2>2, <2>3, <2>4, <2>5, SumUpdate
<1>13. retirementReserved' \in Nat /\ SumsTo(BytesOfClass("Retirement")', retirementReserved')
  <2> DEFINE f == BytesOfClass("Retirement")
             v == IF "Retirement" = class THEN after ELSE 0
  <2>1. "Retirement" \in Classes
    BY DEF Classes
  <2>2. f \in [Allocations -> Nat] /\ f[a] = IF "Retirement" = class THEN before ELSE 0
    BY <1>3, <1>4, <2>1
  <2>3. SumsTo(f, retirementReserved) /\ retirementReserved \in Nat /\ v \in Nat
    BY <1>1, <1>2 DEF Conservation
  <2>4. BytesOfClass("Retirement")' = [f EXCEPT ![a] = v]
    BY <1>7, <2>1
  <2>5. retirementReserved' = retirementReserved - f[a] + v
    BY <1>9, <2>2
  <2> HIDE DEF f, v
  <2>6. QED BY <2>2, <2>3, <2>4, <2>5, SumUpdate
<1>14. managed' \in Nat /\ SumsTo(BytesOfKind("Managed")', managed')
  <2> DEFINE f == BytesOfKind("Managed")
             v == IF "Managed" = kind THEN after ELSE 0
  <2>1. "Managed" \in Kinds
    BY DEF Kinds
  <2>2. f \in [Allocations -> Nat] /\ f[a] = IF "Managed" = kind THEN before ELSE 0
    BY <1>3, <1>4, <2>1
  <2>3. SumsTo(f, managed) /\ managed \in Nat /\ v \in Nat
    BY <1>1, <1>2 DEF Conservation
  <2>4. BytesOfKind("Managed")' = [f EXCEPT ![a] = v]
    BY <1>8, <2>1
  <2>5. managed' = managed - f[a] + v
    BY <1>9, <2>2
  <2> HIDE DEF f, v
  <2>6. QED BY <2>2, <2>3, <2>4, <2>5, SumUpdate
<1>15. queue' \in Nat /\ SumsTo(BytesOfKind("Queue")', queue')
  <2> DEFINE f == BytesOfKind("Queue")
             v == IF "Queue" = kind THEN after ELSE 0
  <2>1. "Queue" \in Kinds
    BY DEF Kinds
  <2>2. f \in [Allocations -> Nat] /\ f[a] = IF "Queue" = kind THEN before ELSE 0
    BY <1>3, <1>4, <2>1
  <2>3. SumsTo(f, queue) /\ queue \in Nat /\ v \in Nat
    BY <1>1, <1>2 DEF Conservation
  <2>4. BytesOfKind("Queue")' = [f EXCEPT ![a] = v]
    BY <1>8, <2>1
  <2>5. queue' = queue - f[a] + v
    BY <1>9, <2>2
  <2> HIDE DEF f, v
  <2>6. QED BY <2>2, <2>3, <2>4, <2>5, SumUpdate
<1>16. managed' + queue' = reserved'
  BY <1>1, <1>2, <1>9 DEF Conservation, Kinds
<1>17. Conservation'
  BY <1>10, <1>11, <1>12, <1>13, <1>14, <1>15, <1>16
     DEF Conservation, SumsTo, Allocations
<1>18. QED BY <1>10, <1>11, <1>12, <1>13, <1>14, <1>15, <1>17

-----------------------------------------------------------------------------
(* Counting leases.                                                        *)

LEMMA LeaseSetsAreFinite ==
  ASSUME NEW a, NEW o
  PROVE  /\ IsFiniteSet(LiveLeases) /\ Cardinality(LiveLeases) \in Nat
         /\ IsFiniteSet(LeasesOf(a)) /\ Cardinality(LeasesOf(a)) \in Nat
         /\ IsFiniteSet(LeasesOfOwner(a, o))
         /\ Cardinality(LeasesOfOwner(a, o)) \in Nat
<1>1. /\ LiveLeases \subseteq Handles
      /\ LeasesOf(a) \subseteq Handles
      /\ LeasesOfOwner(a, o) \subseteq Handles
  BY DEF LiveLeases, LeasesOf, LeasesOfOwner
<1>2. IsFiniteSet(Handles)
  BY LedgerAssumption
<1>3. QED BY <1>1, <1>2, FS_Subset, FS_CardinalityType

\* A new lease counts once for its allocation and once for its owner.
LEMMA LeaseAdded ==
  ASSUME LedgerTypeOK, NEW h \in Handles, leases[h] = NoLease,
         NEW lease \in LeaseInner,
         leases' = [leases EXCEPT ![h] = lease]
  PROVE  /\ LiveLeases' = LiveLeases \cup {h}
         /\ Cardinality(LiveLeases') = Cardinality(LiveLeases) + 1
         /\ \A b \in Allocations :
              Cardinality(LeasesOf(b)') =
                Cardinality(LeasesOf(b)) + (IF b = lease.allocation THEN 1 ELSE 0)
         /\ \A b \in Allocations, o \in Owners :
              Cardinality(LeasesOfOwner(b, o)') =
                Cardinality(LeasesOfOwner(b, o))
                  + (IF b = lease.allocation /\ o = lease.owner THEN 1 ELSE 0)
<1>1. lease # NoLease /\ leases'[h] = lease
      /\ \A g \in Handles : g # h => leases'[g] = leases[g]
  BY SentinelAssumption DEF LedgerTypeOK
<1>2. LiveLeases' = LiveLeases \cup {h} /\ h \notin LiveLeases
  BY <1>1 DEF LiveLeases
<1>3. Cardinality(LiveLeases') = Cardinality(LiveLeases) + 1
  BY <1>2, LeaseSetsAreFinite, FS_AddElement
<1>4. ASSUME NEW b \in Allocations
      PROVE  Cardinality(LeasesOf(b)') =
               Cardinality(LeasesOf(b)) + (IF b = lease.allocation THEN 1 ELSE 0)
  <2>1. CASE b = lease.allocation
    <3>1. LeasesOf(b)' = LeasesOf(b) \cup {h} /\ h \notin LeasesOf(b)
      BY <1>1, <2>1 DEF LeasesOf
    <3>2. QED BY <2>1, <3>1, LeaseSetsAreFinite, FS_AddElement
  <2>2. CASE b # lease.allocation
    <3>1. LeasesOf(b)' = LeasesOf(b)
      BY <1>1, <2>2 DEF LeasesOf
    <3>2. QED BY <2>2, <3>1, LeaseSetsAreFinite
  <2>3. QED BY <2>1, <2>2
<1>5. ASSUME NEW b \in Allocations, NEW o \in Owners
      PROVE  Cardinality(LeasesOfOwner(b, o)') =
               Cardinality(LeasesOfOwner(b, o))
                 + (IF b = lease.allocation /\ o = lease.owner THEN 1 ELSE 0)
  <2>1. CASE b = lease.allocation /\ o = lease.owner
    <3>1. LeasesOfOwner(b, o)' = LeasesOfOwner(b, o) \cup {h}
          /\ h \notin LeasesOfOwner(b, o)
      BY <1>1, <2>1 DEF LeasesOf, LeasesOfOwner
    <3>2. Cardinality(LeasesOfOwner(b, o) \cup {h}) = Cardinality(LeasesOfOwner(b, o)) + 1
      BY <3>1, LeaseSetsAreFinite, FS_AddElement, ZenonT(40)
    <3>3. QED BY <2>1, <3>1, <3>2, LeaseSetsAreFinite
  <2>2. CASE ~(b = lease.allocation /\ o = lease.owner)
    <3>1. LeasesOfOwner(b, o)' = LeasesOfOwner(b, o)
      BY <1>1, <2>2 DEF LeasesOf, LeasesOfOwner
    <3>2. QED BY <2>2, <3>1, LeaseSetsAreFinite
  <2>3. QED BY <2>1, <2>2
<1>6. QED BY <1>2, <1>3, <1>4, <1>5

\* A lease that is gone no longer counts, for its allocation and its owner.
LEMMA LeaseRemoved ==
  ASSUME LedgerTypeOK, NEW h \in Handles, leases[h] # NoLease,
         leases' = [leases EXCEPT ![h] = NoLease]
  PROVE  /\ LiveLeases' = LiveLeases \ {h}
         /\ Cardinality(LiveLeases') = Cardinality(LiveLeases) - 1
         /\ \A b \in Allocations :
              Cardinality(LeasesOf(b)') =
                Cardinality(LeasesOf(b))
                  - (IF b = leases[h].allocation THEN 1 ELSE 0)
         /\ \A b \in Allocations, o \in Owners :
              Cardinality(LeasesOfOwner(b, o)') =
                Cardinality(LeasesOfOwner(b, o))
                  - (IF b = leases[h].allocation /\ o = leases[h].owner THEN 1 ELSE 0)
<1>1. leases'[h] = NoLease /\ \A g \in Handles : g # h => leases'[g] = leases[g]
  BY DEF LedgerTypeOK
<1>2. LiveLeases' = LiveLeases \ {h} /\ h \in LiveLeases
  BY <1>1 DEF LiveLeases
<1>3. Cardinality(LiveLeases') = Cardinality(LiveLeases) - 1
  BY <1>2, LeaseSetsAreFinite, FS_RemoveElement
<1>4. ASSUME NEW b \in Allocations
      PROVE  Cardinality(LeasesOf(b)') =
               Cardinality(LeasesOf(b))
                 - (IF b = leases[h].allocation THEN 1 ELSE 0)
  <2>1. CASE b = leases[h].allocation
    <3>1. LeasesOf(b)' = LeasesOf(b) \ {h} /\ h \in LeasesOf(b)
      BY <1>1, <2>1 DEF LeasesOf
    <3>2. QED BY <2>1, <3>1, LeaseSetsAreFinite, FS_RemoveElement
  <2>2. CASE b # leases[h].allocation
    <3>1. LeasesOf(b)' = LeasesOf(b)
      BY <1>1, <2>2 DEF LeasesOf
    <3>2. QED BY <2>2, <3>1, LeaseSetsAreFinite
  <2>3. QED BY <2>1, <2>2
<1>5. ASSUME NEW b \in Allocations, NEW o \in Owners
      PROVE  Cardinality(LeasesOfOwner(b, o)') =
               Cardinality(LeasesOfOwner(b, o))
                 - (IF b = leases[h].allocation /\ o = leases[h].owner THEN 1 ELSE 0)
  <2>1. CASE b = leases[h].allocation /\ o = leases[h].owner
    <3>1. LeasesOfOwner(b, o)' = LeasesOfOwner(b, o) \ {h}
          /\ h \in LeasesOfOwner(b, o)
      BY <1>1, <2>1 DEF LeasesOf, LeasesOfOwner
    <3>2. /\ IsFiniteSet(LeasesOfOwner(b, o))
          /\ Cardinality(LeasesOfOwner(b, o)) \in Nat
      BY LeaseSetsAreFinite
    <3>3. Cardinality(LeasesOfOwner(b, o) \ {h}) = Cardinality(LeasesOfOwner(b, o)) - 1
      BY <3>1, <3>2, FS_RemoveElement
    <3>4. QED BY <2>1, <3>1, <3>2, <3>3
  <2>2. CASE ~(b = leases[h].allocation /\ o = leases[h].owner)
    <3>1. LeasesOfOwner(b, o)' = LeasesOfOwner(b, o)
      BY <1>1, <2>2 DEF LeasesOf, LeasesOfOwner
    <3>2. QED BY <2>2, <3>1, LeaseSetsAreFinite
  <2>3. QED BY <2>1, <2>2
<1>6. QED BY <1>2, <1>3, <1>4, <1>5

\* Cloning and dropping a clone leave the LeaseInner values as they are.
LEMMA LeaseKept ==
  ASSUME LedgerTypeOK, NEW h \in Handles, leases[h] # NoLease, NEW n \in Nat,
         leases' = [leases EXCEPT ![h].clones = n]
  PROVE  /\ leases' \in [Handles -> LeaseInner \cup {NoLease}]
         /\ LiveLeases' = LiveLeases
         /\ \A b \in Allocations : LeasesOf(b)' = LeasesOf(b)
         /\ \A b \in Allocations, o \in Owners :
              LeasesOfOwner(b, o)' = LeasesOfOwner(b, o)
         /\ \A g \in LiveLeases :
              /\ leases'[g].allocation = leases[g].allocation
              /\ leases'[g].kind = leases[g].kind
<1>1. leases[h] \in LeaseInner
  BY DEF LedgerTypeOK
<1> DEFINE lease == [leases[h] EXCEPT !.clones = n]
<1>2. leases' = [leases EXCEPT ![h] = lease]
  OBVIOUS
<1>3. /\ lease \in LeaseInner
      /\ lease.allocation = leases[h].allocation
      /\ lease.owner = leases[h].owner
      /\ lease.kind = leases[h].kind
  BY <1>1 DEF LeaseInner
<1> HIDE DEF lease
<1>4. lease # NoLease
  BY <1>3, SentinelAssumption
<1>5. /\ leases'[h] = lease
      /\ \A g \in Handles : g # h => leases'[g] = leases[g]
  BY <1>2 DEF LedgerTypeOK
<1>6. leases' \in [Handles -> LeaseInner \cup {NoLease}]
  BY <1>2, <1>3 DEF LedgerTypeOK
<1>7. LiveLeases' = LiveLeases
  BY <1>4, <1>5 DEF LiveLeases
<1>8. \A b \in Allocations : LeasesOf(b)' = LeasesOf(b)
  BY <1>3, <1>4, <1>5 DEF LeasesOf
<1>9. \A b \in Allocations, o \in Owners :
        LeasesOfOwner(b, o)' = LeasesOfOwner(b, o)
  BY <1>3, <1>4, <1>5 DEF LeasesOf, LeasesOfOwner
<1>10. \A g \in LiveLeases :
         /\ leases'[g].allocation = leases[g].allocation
         /\ leases'[g].kind = leases[g].kind
  BY <1>3, <1>5 DEF LiveLeases
<1>11. QED BY <1>6, <1>7, <1>8, <1>9, <1>10

-----------------------------------------------------------------------------
(* Admission.                                                              *)

\* A request within class_available fits its pool.
LEMMA AvailableFits ==
  ASSUME LedgerTypeOK, ProtectedPools, NEW class \in Classes, NEW x \in Nat,
         x <= ClassAvailable(class)
  PROVE  /\ class = "Terminal" => terminalReserved + x <= TerminalCapacity
         /\ class = "Retirement" => retirementReserved + x <= RetirementCapacity
         /\ class = "Ordinary" =>
              OrdinaryReserved + x
                <= Capacity - TerminalCapacity - RetirementCapacity
<1>1. CASE class = "Terminal"
  BY <1>1, LedgerAssumption DEF ClassAvailable, Monus, LedgerTypeOK, ProtectedPools
<1>2. CASE class = "Retirement"
  BY <1>2, LedgerAssumption DEF ClassAvailable, Monus, LedgerTypeOK, ProtectedPools
<1>3. CASE class = "Ordinary"
  BY <1>3, LedgerAssumption
     DEF ClassAvailable, Monus, LedgerTypeOK, ProtectedPools, OrdinaryReserved
<1>4. QED BY <1>1, <1>2, <1>3 DEF Classes

\* add_kind and add_class cannot overflow once reserved did not: this is why
\* their errors, which come after a first write, are never returned.
LEMMA PartsDoNotOverflow ==
  ASSUME LedgerTypeOK, Conservation, ProtectedPools,
         NEW kind \in Kinds, NEW class \in Classes, NEW x \in Nat,
         ~Overflows(reserved, x)
  PROVE  ~KindOverflows(kind, x) /\ ~ClassOverflows(class, x)
<1>1. managed <= reserved /\ queue <= reserved
  BY LedgerAssumption DEF LedgerTypeOK, Conservation
<1>2. terminalReserved <= reserved /\ retirementReserved <= reserved
  BY LedgerAssumption DEF LedgerTypeOK, ProtectedPools, OrdinaryReserved
<1>3. QED
  BY <1>1, <1>2, LedgerAssumption
     DEF LedgerTypeOK, Overflows, KindOverflows, ClassOverflows, Kinds

\* Growing an allocation within its pool keeps the pools and the peak.
LEMMA GrowthKeepsPools ==
  ASSUME LedgerTypeOK, Conservation, ProtectedPools,
         NEW kind \in Kinds, NEW class \in Classes, NEW x \in Nat,
         x <= ClassAvailable(class), AddBytes(kind, class, x),
         peakReserved' = Larger(peakReserved, reserved + x)
  PROVE  /\ ProtectedPools'
         /\ reserved' <= Capacity
         /\ peakReserved' \in 0..MaxWord
<1>1. /\ class = "Terminal" => terminalReserved + x <= TerminalCapacity
      /\ class = "Retirement" => retirementReserved + x <= RetirementCapacity
      /\ class = "Ordinary" =>
           OrdinaryReserved + x <= Capacity - TerminalCapacity - RetirementCapacity
  BY AvailableFits
<1>2. /\ terminalReserved' = terminalReserved + (IF class = "Terminal" THEN x ELSE 0)
      /\ retirementReserved' =
           retirementReserved + (IF class = "Retirement" THEN x ELSE 0)
      /\ OrdinaryReserved' =
           OrdinaryReserved + (IF class = "Ordinary" THEN x ELSE 0)
      /\ reserved' = reserved + x
  BY LedgerAssumption DEF AddBytes, Share, LedgerTypeOK, OrdinaryReserved, Classes
<1>3. /\ terminalReserved' <= TerminalCapacity
      /\ retirementReserved' <= RetirementCapacity
      /\ 0 <= OrdinaryReserved'
      /\ OrdinaryReserved' <= Capacity - TerminalCapacity - RetirementCapacity
  BY <1>1, <1>2, LedgerAssumption
     DEF LedgerTypeOK, ProtectedPools, OrdinaryReserved, Classes
<1>4. reserved' <= Capacity
  BY <1>2, <1>3, LedgerAssumption DEF LedgerTypeOK, OrdinaryReserved
<1>5. /\ reserved' <= peakReserved'
      /\ peakReserved' <= Capacity
      /\ peakReserved' \in 0..MaxWord
  BY <1>2, <1>4, LedgerAssumption DEF LedgerTypeOK, ProtectedPools, Larger
<1>6. QED BY <1>3, <1>4, <1>5 DEF ProtectedPools

\* Giving bytes back keeps them too.
LEMMA ShrinkKeepsPools ==
  ASSUME LedgerTypeOK, ProtectedPools,
         NEW kind \in Kinds, NEW class \in Classes, NEW x \in Nat,
         AddBytes(kind, class, -x), OrdinaryReserved' \in Nat,
         peakReserved' = peakReserved
  PROVE  ProtectedPools' /\ reserved' <= Capacity /\ peakReserved' \in 0..MaxWord
<1>1. /\ terminalReserved' <= terminalReserved
      /\ retirementReserved' <= retirementReserved
      /\ OrdinaryReserved' <= OrdinaryReserved
      /\ reserved' <= reserved
      /\ terminalReserved' \in Int /\ retirementReserved' \in Int
      /\ OrdinaryReserved' \in Int /\ reserved' \in Int
  BY LedgerAssumption DEF AddBytes, Share, LedgerTypeOK, OrdinaryReserved, Classes
<1>2. OrdinaryReserved \in Int
  BY DEF LedgerTypeOK, OrdinaryReserved
<1>3. QED BY <1>1, <1>2, LedgerAssumption DEF LedgerTypeOK, ProtectedPools

\* The class counters are parts of reserved, so all counters fit when it does.
LEMMA CountersFit ==
  ASSUME Conservation', ProtectedPools', reserved' <= Capacity,
         reserved' \in Nat, terminalReserved' \in Nat,
         retirementReserved' \in Nat, managed' \in Nat, queue' \in Nat
  PROVE  /\ reserved' \in 0..MaxWord
         /\ terminalReserved' \in 0..MaxWord
         /\ retirementReserved' \in 0..MaxWord
         /\ managed' \in 0..MaxWord
         /\ queue' \in 0..MaxWord
<1>1. managed' + queue' = reserved'
  BY DEF Conservation
<1>2. 0 <= reserved' - terminalReserved' - retirementReserved'
  BY DEF ProtectedPools, OrdinaryReserved
<1>3. Capacity \in Nat /\ MaxWord \in Nat /\ Capacity <= MaxWord
  BY LedgerAssumption
<1>4. \A r, t, u, m, q \in Nat :
        r <= Capacity /\ m + q = r /\ 0 <= r - t - u =>
          /\ r \in 0..MaxWord /\ t \in 0..MaxWord /\ u \in 0..MaxWord
          /\ m \in 0..MaxWord /\ q \in 0..MaxWord
  BY <1>3
<1>5. QED BY <1>1, <1>2, <1>4

-----------------------------------------------------------------------------
(* One lemma per operation.                                                *)

\* The part of LedgerTypeOK that an operation's own bookkeeping decides.
Bookkept ==
  /\ lastOrder' \in [Owners -> Nat]
  /\ outcome' \in Refusals \cup {"Ok"}

LEMMA AdmitStep ==
  ASSUME IInv, Bookkept,
         NEW h \in Handles, NEW o \in Owners, NEW a \in Allocations,
         NEW kind \in Kinds, NEW class \in Classes, NEW bytes \in Nat,
         leases[h] = NoLease, AdmissionCheck(a, class, bytes) = "Ok",
         Admit(h, o, a, kind, class, bytes)
  PROVE  IInv'
<1> USE DEF IInv
<1> DEFINE record == [kind |-> kind, class |-> class, bytes |-> bytes,
                      references |-> 1,
                      owners |-> [p \in Owners |-> IF p = o THEN 1 ELSE 0]]
           lease == [owner |-> o, allocation |-> a, kind |-> kind, clones |-> 1]
<1>1. /\ bytes > 0
      /\ allocations[a] = NoRecord
      /\ bytes <= ClassAvailable(class)
      /\ ~Overflows(activeLeases, 1)
      /\ ~Overflows(reserved, bytes)
  <2>1. ClassAvailable(class) \in Int
    BY LedgerAssumption DEF ClassAvailable, Monus, LedgerTypeOK, Classes
  <2>2. QED BY <2>1 DEF AdmissionCheck
<1>2. record \in AllocationRecord /\ record # NoRecord
  BY SentinelAssumption DEF AllocationRecord
<1>3. lease \in LeaseInner /\ lease # NoLease
  BY SentinelAssumption DEF LeaseInner
<1>4. Recharged(a, record, kind, class, bytes)
  BY <1>1, <1>2 DEF Recharged, Admit
<1> HIDE DEF record
<1>5. /\ Conservation'
      /\ reserved' \in Nat /\ terminalReserved' \in Nat
      /\ retirementReserved' \in Nat /\ managed' \in Nat /\ queue' \in Nat
  BY <1>2, <1>4, RechargedConserves
<1>6. ProtectedPools' /\ reserved' <= Capacity /\ peakReserved' \in 0..MaxWord
  BY <1>1, GrowthKeepsPools DEF Admit
<1>7. LedgerTypeOK'
  <2>1. /\ reserved' \in 0..MaxWord /\ terminalReserved' \in 0..MaxWord
        /\ retirementReserved' \in 0..MaxWord /\ managed' \in 0..MaxWord
        /\ queue' \in 0..MaxWord
    BY <1>5, <1>6, CountersFit
  <2>2. activeLeases' \in 0..MaxWord
    BY <1>1, LedgerAssumption DEF Admit, Overflows, LedgerTypeOK
  <2>3. allocations' \in [Allocations -> AllocationRecord \cup {NoRecord}]
    BY <1>2, <1>4 DEF Recharged, LedgerTypeOK
  <2>4. leases' \in [Handles -> LeaseInner \cup {NoLease}]
    BY <1>3 DEF Admit, LedgerTypeOK
  <2>5. QED BY <1>6, <2>1, <2>2, <2>3, <2>4 DEF LedgerTypeOK, Bookkept
<1>8. OwnershipMatchesLeases'
  <2>1. /\ allocations'[a] = record
        /\ \A b \in Allocations : b # a => allocations'[b] = allocations[b]
    BY <1>4 DEF Recharged, LedgerTypeOK
  <2>2. leases'[h] = lease /\ \A g \in Handles : g # h => leases'[g] = leases[g]
    BY DEF Admit, LedgerTypeOK
  <2>3. leases' = [leases EXCEPT ![h] = lease]
    BY DEF Admit
  <2> HIDE DEF lease
  <2>4. /\ LiveLeases' = LiveLeases \cup {h}
        /\ Cardinality(LiveLeases') = Cardinality(LiveLeases) + 1
        /\ \A b \in Allocations :
             Cardinality(LeasesOf(b)') =
               Cardinality(LeasesOf(b)) + (IF b = lease.allocation THEN 1 ELSE 0)
        /\ \A b \in Allocations, p \in Owners :
             Cardinality(LeasesOfOwner(b, p)') =
               Cardinality(LeasesOfOwner(b, p))
                 + (IF b = lease.allocation /\ p = lease.owner THEN 1 ELSE 0)
    BY <1>3, <2>3, LeaseAdded
  <2>5. lease.allocation = a /\ lease.owner = o /\ lease.kind = kind
    BY DEF lease
  <2>6. LeasesOf(a) = {} /\ \A p \in Owners : LeasesOfOwner(a, p) = {}
    BY <1>1 DEF OwnershipMatchesLeases, LeasesOf, LeasesOfOwner, LiveLeases, Active
  <2>7. activeLeases' = Cardinality(LiveLeases')
    BY <2>4 DEF Admit, OwnershipMatchesLeases
  <2>8. \A g \in LiveLeases' :
          /\ leases'[g].allocation \in Allocations
          /\ allocations'[leases'[g].allocation] # NoRecord
          /\ allocations'[leases'[g].allocation].kind = leases'[g].kind
    <3> SUFFICES ASSUME NEW g \in LiveLeases'
                 PROVE  /\ leases'[g].allocation \in Allocations
                        /\ allocations'[leases'[g].allocation] # NoRecord
                        /\ allocations'[leases'[g].allocation].kind = leases'[g].kind
      OBVIOUS
    <3>1. CASE g = h
      BY <1>2, <2>1, <2>2, <2>5, <3>1 DEF record
    <3>2. CASE g # h
      <4>1. g \in LiveLeases /\ g \in Handles
        BY <2>4, <3>2 DEF LiveLeases
      <4>2. /\ leases[g].allocation \in Allocations
            /\ leases[g].allocation # a
            /\ allocations[leases[g].allocation] # NoRecord
            /\ allocations[leases[g].allocation].kind = leases[g].kind
        BY <1>1, <4>1
           DEF OwnershipMatchesLeases, Active, LiveLeases, LedgerTypeOK, LeaseInner
      <4>3. QED BY <2>1, <2>2, <3>2, <4>1, <4>2
    <3>3. QED BY <3>1, <3>2
  <2>9. ASSUME NEW b \in Allocations, allocations'[b] # NoRecord
        PROVE  /\ allocations'[b].references = Cardinality(LeasesOf(b)')
               /\ allocations'[b].references > 0
               /\ allocations'[b].bytes > 0
               /\ \A p \in Owners :
                    allocations'[b].owners[p] = Cardinality(LeasesOfOwner(b, p)')
    <3>1. CASE b = a
      <4>1. Cardinality(LeasesOf(a)) = 0
            /\ \A p \in Owners : Cardinality(LeasesOfOwner(a, p)) = 0
        BY <2>6, FS_EmptySet
      <4>2. /\ record.references = 1 /\ record.bytes = bytes
            /\ \A p \in Owners : record.owners[p] = IF p = o THEN 1 ELSE 0
        BY DEF record
      <4>3. QED BY <1>1, <2>1, <2>4, <2>5, <3>1, <4>1, <4>2
    <3>2. CASE b # a
      <4>1. allocations'[b] = allocations[b]
        BY <2>1, <3>2
      <4>2. /\ Cardinality(LeasesOf(b)') = Cardinality(LeasesOf(b))
            /\ \A p \in Owners : Cardinality(LeasesOfOwner(b, p)')
                                   = Cardinality(LeasesOfOwner(b, p))
        BY <2>4, <2>5, <3>2, LeaseSetsAreFinite
      <4>3. QED BY <2>9, <4>1, <4>2 DEF OwnershipMatchesLeases, Active
    <3>3. QED BY <3>1, <3>2
  <2>10. QED BY <2>7, <2>8, <2>9 DEF OwnershipMatchesLeases, Active
<1>9. QED BY <1>5, <1>6, <1>7, <1>8

\* A refused reservation has written nothing.
LEMMA RefusedReservation ==
  ASSUME IInv,
         NEW h \in Handles, NEW o \in Owners, NEW a \in Allocations,
         NEW kind \in Kinds, NEW class \in Classes, NEW bytes \in Nat,
         ReserveClass(h, o, a, kind, class, bytes)
  PROVE  \/ /\ AdmissionCheck(a, class, bytes) = "Ok"
            /\ Admit(h, o, a, kind, class, bytes)
            /\ outcome' = "Ok"
         \/ UNCHANGED <<ledger, leases>> /\ outcome' \in Refusals
<1> DEFINE check == AdmissionCheck(a, class, bytes)
<1>1. check \in Refusals \cup {"Ok"}
  BY DEF AdmissionCheck, Refusals
<1>2. CASE check = "Ok"
  <2>1. ~Overflows(reserved, bytes)
    BY <1>2 DEF AdmissionCheck
  <2>2. ~KindOverflows(kind, bytes) /\ ~ClassOverflows(class, bytes)
    BY <2>1, PartsDoNotOverflow DEF IInv
  <2>3. QED BY <1>2, <2>2 DEF ReserveClass
<1>3. CASE check # "Ok"
  <2>1. Refuse(check, kind, bytes) /\ outcome' = check
    BY <1>3 DEF ReserveClass
  <2>2. managed' = managed /\ queue' = queue
    BY <1>3, <2>1, LedgerAssumption DEF Refuse, Share, IInv, LedgerTypeOK
  <2>3. QED BY <1>1, <1>3, <2>1, <2>2 DEF Refuse, ledger, counters
<1>4. QED BY <1>2, <1>3

LEMMA LedgerConserves ==
  ASSUME Conservation, UNCHANGED ledger
  PROVE  Conservation'
<1>1. Bytes' = Bytes
  BY DEF Bytes, Active, ledger
<1>2. \A c \in Classes : BytesOfClass(c)' = BytesOfClass(c)
  BY DEF BytesOfClass, Active, ledger
<1>3. \A k \in Kinds : BytesOfKind(k)' = BytesOfKind(k)
  BY DEF BytesOfKind, Active, ledger
<1>4. /\ reserved' = reserved /\ terminalReserved' = terminalReserved
      /\ retirementReserved' = retirementReserved
      /\ OrdinaryReserved' = OrdinaryReserved
      /\ managed' = managed /\ queue' = queue
  BY DEF OrdinaryReserved, ledger, counters
<1>5. /\ SumsTo(Bytes', reserved')
      /\ SumsTo(BytesOfClass("Ordinary")', OrdinaryReserved')
      /\ SumsTo(BytesOfClass("Terminal")', terminalReserved')
      /\ SumsTo(BytesOfClass("Retirement")', retirementReserved')
      /\ SumsTo(BytesOfKind("Managed")', managed')
      /\ SumsTo(BytesOfKind("Queue")', queue')
  BY <1>1, <1>2, <1>3, <1>4 DEF Conservation, Classes, Kinds
<1>6. managed' + queue' = reserved'
  BY <1>4 DEF Conservation
<1>7. QED BY <1>5, <1>6 DEF Conservation, SumsTo, Allocations

\* A step that leaves the ledger and the leases alone keeps the invariant.
LEMMA IdleStep ==
  ASSUME IInv, Bookkept, UNCHANGED <<ledger, leases>>
  PROVE  IInv'
<1>1. LedgerTypeOK'
  BY DEF IInv, Bookkept, LedgerTypeOK, ledger, counters
<1>2. Conservation'
  BY LedgerConserves DEF IInv
<1>3. ProtectedPools'
  BY DEF IInv, ProtectedPools, OrdinaryReserved, ledger, counters
<1>4. OwnershipMatchesLeases'
  BY DEF IInv, OwnershipMatchesLeases, LiveLeases, LeasesOf, LeasesOfOwner,
         Active, ledger, counters
<1>5. QED BY <1>1, <1>2, <1>3, <1>4 DEF IInv

\* What moves references about: the bytes and the identity of every charge
\* stay, and so do the sums and the pools.
LEMMA ReferencesConserve ==
  ASSUME IInv, NEW a \in Allocations, NEW record \in AllocationRecord,
         allocations[a] # NoRecord,
         record.kind = allocations[a].kind,
         record.class = allocations[a].class,
         record.bytes = allocations[a].bytes,
         allocations' = [allocations EXCEPT ![a] = record],
         UNCHANGED <<reserved, terminalReserved, retirementReserved, managed,
                     queue, peakReserved>>
  PROVE  Conservation' /\ ProtectedPools'
<1>1. record # NoRecord
  BY SentinelAssumption
<1>2. allocations[a] \in AllocationRecord
  BY DEF IInv, LedgerTypeOK
<1>3. AddBytes(record.kind, record.class, 0)
  BY LedgerAssumption DEF AddBytes, Share, IInv, LedgerTypeOK
<1>4. record.bytes - allocations[a].bytes = 0
  BY <1>2 DEF AllocationRecord
<1>5. Recharged(a, record, record.kind, record.class, 0)
  BY <1>1, <1>3, <1>4 DEF Recharged
<1>6. record.kind \in Kinds /\ record.class \in Classes
  BY DEF AllocationRecord
<1>7. Conservation'
  BY <1>5, <1>6, RechargedConserves DEF IInv
<1>8. ProtectedPools'
  BY DEF IInv, ProtectedPools, OrdinaryReserved
<1>9. QED BY <1>7, <1>8

\* The record with n more references, all of them held by o.
LEMMA RecordReferenced ==
  ASSUME NEW old \in AllocationRecord, NEW o \in Owners, NEW n \in Int,
         old.references + n \in Nat, old.owners[o] + n \in Nat
  PROVE  /\ Counted(old, o, n) \in AllocationRecord
         /\ Counted(old, o, n).kind = old.kind
         /\ Counted(old, o, n).class = old.class
         /\ Counted(old, o, n).bytes = old.bytes
         /\ Counted(old, o, n).references = old.references + n
         /\ \A p \in Owners : Counted(old, o, n).owners[p] =
              IF p = o THEN old.owners[p] + n ELSE old.owners[p]
<1> DEFINE counted == [old EXCEPT !.references = @ + n]
           owned == [old.owners EXCEPT ![o] = @ + n]
           record == [old EXCEPT !.references = @ + n, !.owners[o] = @ + n]
<1>1. old.owners \in [Owners -> Nat] /\ owned \in [Owners -> Nat]
  BY DEF AllocationRecord
<1>2. counted \in AllocationRecord /\ counted.owners = old.owners
  BY <1>1 DEF AllocationRecord
<1>3. [counted EXCEPT !.owners = owned] \in AllocationRecord
  BY <1>1, <1>2 DEF AllocationRecord
<1>4. record = [counted EXCEPT !.owners = owned]
  BY <1>2 DEF AllocationRecord
<1>5. /\ record.kind = old.kind /\ record.class = old.class
      /\ record.bytes = old.bytes /\ record.references = old.references + n
      /\ record.owners = owned
  BY DEF AllocationRecord
<1>6. \A p \in Owners :
        owned[p] = IF p = o THEN old.owners[p] + n ELSE old.owners[p]
  BY <1>1
<1>7. QED BY <1>3, <1>4, <1>5, <1>6 DEF Counted

LEMMA ShareStep ==
  ASSUME IInv, NEW h \in Handles, NEW o \in Owners, NEW source \in Handles,
         NEW foreign \in BOOLEAN, TryShare(h, o, source, foreign)
  PROVE  IInv' /\ (outcome' \in Refusals => UNCHANGED <<ledger, leases>>)
<1> USE DEF IInv
<1> DEFINE a == leases[source].allocation
           kind == leases[source].kind
           old == allocations[a]
           record == Counted(old, o, 1)
           lease == [owner |-> o, allocation |-> a, kind |-> kind, clones |-> 1]
<1>1. leases[h] = NoLease /\ lastOrder' = lastOrder /\ source \in LiveLeases
      /\ leases[source] \in LeaseInner /\ a \in Allocations /\ kind \in Kinds
  BY DEF TryShare, Alive, LiveLeases, LedgerTypeOK, LeaseInner
<1>2. old # NoRecord /\ old \in AllocationRecord /\ old.kind = kind
  BY <1>1 DEF OwnershipMatchesLeases, Active, LedgerTypeOK
<1>3. CASE foreign \/ ShareRefused(a, kind, o)
  <2>1. outcome' = "OwnershipMismatch" /\ UNCHANGED <<ledger, leases>>
    BY <1>3 DEF TryShare
  <2>2. QED BY <1>1, <2>1, IdleStep DEF Bookkept, LedgerTypeOK, Refusals
<1>4. CASE ~foreign /\ ~ShareRefused(a, kind, o)
  <2>1. /\ activeLeases' = activeLeases + 1
        /\ allocations' = Referenced(a, o, 1)
        /\ leases' = [leases EXCEPT ![h] = lease]
        /\ outcome' = "Ok"
        /\ UNCHANGED <<reserved, terminalReserved, retirementReserved, managed,
                       queue, peakReserved>>
    BY <1>4 DEF TryShare
  <2>2. /\ record \in AllocationRecord
        /\ record.kind = old.kind /\ record.class = old.class
        /\ record.bytes = old.bytes /\ record.references = old.references + 1
        /\ \A p \in Owners :
             record.owners[p] = old.owners[p] + (IF p = o THEN 1 ELSE 0)
    <3>1. old.references + 1 \in Nat /\ old.owners[o] + 1 \in Nat
      BY <1>2 DEF AllocationRecord
    <3>2. \A p \in Owners : old.owners[p] \in Nat
      BY <1>2 DEF AllocationRecord
    <3>3. QED BY <1>2, <3>1, <3>2, RecordReferenced
  <2>3. allocations' = [allocations EXCEPT ![a] = record]
    BY <2>1 DEF Referenced
  <2>4. lease \in LeaseInner /\ lease # NoLease
    BY <1>1, SentinelAssumption DEF LeaseInner
  <2>5. lease.allocation = a /\ lease.owner = o /\ lease.kind = kind
    OBVIOUS
  <2> HIDE DEF record, lease
  <2>6. Conservation' /\ ProtectedPools'
    BY <1>1, <1>2, <2>1, <2>2, <2>3, ReferencesConserve
  <2>7. LedgerTypeOK'
    <3>1. activeLeases' \in 0..MaxWord
      BY <1>4, <2>1, LedgerAssumption DEF ShareRefused, Overflows, LedgerTypeOK
    <3>2. allocations' \in [Allocations -> AllocationRecord \cup {NoRecord}]
      BY <2>2, <2>3 DEF LedgerTypeOK
    <3>3. leases' \in [Handles -> LeaseInner \cup {NoLease}]
      BY <2>1, <2>4 DEF LedgerTypeOK
    <3>4. QED BY <1>1, <2>1, <3>1, <3>2, <3>3 DEF LedgerTypeOK
  <2>8. OwnershipMatchesLeases'
    <3>1. /\ LiveLeases' = LiveLeases \cup {h}
          /\ Cardinality(LiveLeases') = Cardinality(LiveLeases) + 1
          /\ \A b \in Allocations :
               Cardinality(LeasesOf(b)') = Cardinality(LeasesOf(b))
                 + (IF b = lease.allocation THEN 1 ELSE 0)
          /\ \A b \in Allocations, p \in Owners :
               Cardinality(LeasesOfOwner(b, p)') = Cardinality(LeasesOfOwner(b, p))
                 + (IF b = lease.allocation /\ p = lease.owner THEN 1 ELSE 0)
      BY <1>1, <2>1, <2>4, LeaseAdded
    <3>2. /\ allocations'[a] = record /\ record # NoRecord
          /\ \A b \in Allocations : b # a => allocations'[b] = allocations[b]
      BY <1>1, <2>2, <2>3, SentinelAssumption DEF LedgerTypeOK
    <3>3. /\ leases'[h] = lease
          /\ \A g \in Handles : g # h => leases'[g] = leases[g]
      BY <2>1 DEF LedgerTypeOK
    <3>4. activeLeases' = Cardinality(LiveLeases')
      BY <2>1, <3>1 DEF OwnershipMatchesLeases
    <3>5. ASSUME NEW g \in LiveLeases'
          PROVE  /\ allocations'[leases'[g].allocation] # NoRecord
                 /\ allocations'[leases'[g].allocation].kind = leases'[g].kind
      <4>1. CASE g = h
        BY <1>2, <2>2, <2>5, <3>2, <3>3, <4>1
      <4>2. CASE g # h
        <5>1. /\ g \in LiveLeases /\ g \in Handles
              /\ leases[g].allocation \in Allocations
              /\ allocations[leases[g].allocation] # NoRecord
              /\ allocations[leases[g].allocation].kind = leases[g].kind
          BY <3>1, <4>2
             DEF OwnershipMatchesLeases, Active, LiveLeases, LedgerTypeOK, LeaseInner
        <5>2. QED BY <2>2, <3>2, <3>3, <4>2, <5>1
      <4>3. QED BY <4>1, <4>2
    <3>6. ASSUME NEW b \in Allocations, allocations'[b] # NoRecord
          PROVE  /\ allocations'[b].references = Cardinality(LeasesOf(b)')
                 /\ allocations'[b].references > 0
                 /\ allocations'[b].bytes > 0
                 /\ \A p \in Owners :
                      allocations'[b].owners[p] = Cardinality(LeasesOfOwner(b, p)')
      <4>1. CASE b = a
        <5>1. /\ old.references = Cardinality(LeasesOf(a))
              /\ old.references > 0 /\ old.bytes > 0
              /\ \A p \in Owners :
                   old.owners[p] = Cardinality(LeasesOfOwner(a, p))
          BY <1>1, <1>2 DEF OwnershipMatchesLeases, Active
        <5>2. old.references \in Nat
          BY <1>2 DEF AllocationRecord
        <5>3. QED BY <1>1, <2>2, <2>5, <3>1, <3>2, <4>1, <5>1, <5>2
      <4>2. CASE b # a
        <5>1. /\ Cardinality(LeasesOf(b)') = Cardinality(LeasesOf(b))
              /\ \A p \in Owners : Cardinality(LeasesOfOwner(b, p)')
                                     = Cardinality(LeasesOfOwner(b, p))
          BY <2>5, <3>1, <4>2, LeaseSetsAreFinite
        <5>2. allocations'[b] = allocations[b]
          BY <3>2, <4>2
        <5>3. QED BY <3>6, <5>1, <5>2 DEF OwnershipMatchesLeases, Active
      <4>3. QED BY <4>1, <4>2
    <3>7. QED BY <3>4, <3>5, <3>6 DEF OwnershipMatchesLeases, Active
  <2>9. QED BY <2>1, <2>6, <2>7, <2>8 DEF Refusals
<1>5. QED BY <1>3, <1>4

\* A LeaseInner that is dropped finds its record; the last one takes the
\* charge with it, any other one only its own count.
LEMMA RemoveStep ==
  ASSUME IInv, NEW h \in Handles, RemoveReference(h)
  PROVE  IInv'
<1> USE DEF IInv
<1>0. PICK a \in Allocations, o \in Owners :
        a = leases[h].allocation /\ o = leases[h].owner
  BY DEF RemoveReference, LedgerTypeOK, LeaseInner
<1> DEFINE old == allocations[a]
<1>1. /\ leases[h] # NoLease /\ h \in LiveLeases
      /\ a \in Allocations /\ o \in Owners
      /\ lastOrder' = lastOrder /\ outcome' = "Ok"
      /\ peakReserved' = peakReserved
      /\ activeLeases' = activeLeases - 1
      /\ leases' = [leases EXCEPT ![h] = NoLease]
  BY <1>0 DEF RemoveReference, LiveLeases, LedgerTypeOK, LeaseInner
<1>2. old # NoRecord /\ old \in AllocationRecord
  BY <1>0, <1>1 DEF OwnershipMatchesLeases, Active, LedgerTypeOK
<1>3. /\ LiveLeases' = LiveLeases \ {h}
      /\ Cardinality(LiveLeases') = Cardinality(LiveLeases) - 1
      /\ \A b \in Allocations :
           Cardinality(LeasesOf(b)') =
             Cardinality(LeasesOf(b)) - (IF b = a THEN 1 ELSE 0)
      /\ \A b \in Allocations, p \in Owners :
           Cardinality(LeasesOfOwner(b, p)') = Cardinality(LeasesOfOwner(b, p))
             - (IF b = a /\ p = o THEN 1 ELSE 0)
  BY <1>0, <1>1, LeaseRemoved
<1>4. \A g \in LiveLeases' :
        /\ g \in LiveLeases /\ leases'[g] = leases[g]
        /\ leases[g].allocation \in Allocations
        /\ allocations[leases[g].allocation] # NoRecord
        /\ allocations[leases[g].allocation].kind = leases[g].kind
  <2> SUFFICES ASSUME NEW g \in LiveLeases'
               PROVE  /\ g \in LiveLeases /\ leases'[g] = leases[g]
                      /\ leases[g].allocation \in Allocations
                      /\ allocations[leases[g].allocation] # NoRecord
                      /\ allocations[leases[g].allocation].kind = leases[g].kind
    OBVIOUS
  <2>1. g \in LiveLeases /\ g # h
    BY <1>3
  <2>2. leases'[g] = leases[g]
    BY <1>1, <2>1 DEF LedgerTypeOK, LiveLeases
  <2>3. QED
    BY <2>1, <2>2
       DEF OwnershipMatchesLeases, Active, LiveLeases, LedgerTypeOK, LeaseInner
<1>5. activeLeases' = Cardinality(LiveLeases') /\ activeLeases' \in 0..MaxWord
  <2>1. activeLeases' = Cardinality(LiveLeases')
    BY <1>1, <1>3 DEF OwnershipMatchesLeases
  <2>2. Cardinality(LiveLeases') \in Nat
    BY <1>3, LeaseSetsAreFinite, FS_RemoveElement, FS_CardinalityType
  <2>3. QED BY <1>1, <2>1, <2>2, LedgerAssumption DEF LedgerTypeOK
<1>6. leases' \in [Handles -> LeaseInner \cup {NoLease}]
  BY <1>1 DEF LedgerTypeOK
<1>7. /\ old.references = Cardinality(LeasesOf(a))
      /\ old.references > 0 /\ old.references \in Nat
      /\ old.bytes > 0 /\ old.bytes \in Nat
      /\ \A p \in Owners : /\ old.owners[p] = Cardinality(LeasesOfOwner(a, p))
                           /\ old.owners[p] \in Nat
  BY <1>1, <1>2 DEF OwnershipMatchesLeases, Active, AllocationRecord
<1>8. CASE LastReference(old)
  <2>1. /\ AddBytes(old.kind, old.class, -old.bytes)
        /\ allocations' = [allocations EXCEPT ![a] = NoRecord]
    BY <1>0, <1>8 DEF RemoveReference
  <2>2. old.kind \in Kinds /\ old.class \in Classes
    BY <1>2 DEF AllocationRecord
  <2>3. Recharged(a, NoRecord, old.kind, old.class, -old.bytes)
    BY <1>2, <1>7, <2>1 DEF Recharged
  <2> HIDE DEF old
  <2>11. -old.bytes \in Int
    BY <1>7
  <2>4. /\ Conservation'
        /\ reserved' \in Nat /\ terminalReserved' \in Nat
        /\ retirementReserved' \in Nat /\ managed' \in Nat /\ queue' \in Nat
        /\ OrdinaryReserved' \in Nat
    BY <1>1, <2>2, <2>3, <2>11, RechargedConserves
  <2>5. ProtectedPools' /\ reserved' <= Capacity /\ peakReserved' \in 0..MaxWord
    BY <1>1, <1>7, <2>1, <2>2, <2>4, ShrinkKeepsPools
  <2>6. /\ reserved' \in 0..MaxWord /\ terminalReserved' \in 0..MaxWord
        /\ retirementReserved' \in 0..MaxWord /\ managed' \in 0..MaxWord
        /\ queue' \in 0..MaxWord
    BY <2>4, <2>5, CountersFit
  <2>7. LedgerTypeOK'
    BY <1>1, <1>5, <1>6, <2>1, <2>5, <2>6 DEF LedgerTypeOK
  <2>8. LeasesOf(a)' = {}
    <3>1. Cardinality(LeasesOf(a)) = 1
      BY <1>7, <1>8 DEF LastReference
    <3>2. Cardinality(LeasesOf(a)') = 0
      BY <1>1, <1>3, <3>1
    <3>3. LeasesOf(a)' = LeasesOf(a) \ {h}
      BY <1>1 DEF LeasesOf, LedgerTypeOK
    <3>4. QED BY <3>2, <3>3, LeaseSetsAreFinite, FS_Subset, FS_EmptySet
  <2>9. OwnershipMatchesLeases'
    <3>1. \A b \in Allocations : b # a => allocations'[b] = allocations[b]
      BY <2>1 DEF LedgerTypeOK
    <3>2. allocations'[a] = NoRecord
      BY <1>1, <2>1 DEF LedgerTypeOK
    <3>3. \A g \in LiveLeases' : leases'[g].allocation # a
      BY <2>8 DEF LeasesOf, LiveLeases
    <3>4. \A g \in LiveLeases' :
            /\ allocations'[leases'[g].allocation] # NoRecord
            /\ allocations'[leases'[g].allocation].kind = leases'[g].kind
      BY <1>4, <3>1, <3>3
    <3>5. ASSUME NEW b \in Allocations, allocations'[b] # NoRecord
          PROVE  /\ allocations'[b].references = Cardinality(LeasesOf(b)')
                 /\ allocations'[b].references > 0
                 /\ allocations'[b].bytes > 0
                 /\ \A p \in Owners :
                      allocations'[b].owners[p] = Cardinality(LeasesOfOwner(b, p)')
      <4>1. b # a /\ allocations'[b] = allocations[b]
        BY <3>1, <3>2, <3>5
      <4>2. /\ Cardinality(LeasesOf(b)') = Cardinality(LeasesOf(b))
            /\ \A p \in Owners : Cardinality(LeasesOfOwner(b, p)')
                                   = Cardinality(LeasesOfOwner(b, p))
        BY <1>3, <4>1, LeaseSetsAreFinite
      <4>3. QED BY <3>5, <4>1, <4>2 DEF OwnershipMatchesLeases, Active
    <3>6. QED BY <1>5, <3>4, <3>5 DEF OwnershipMatchesLeases, Active
  <2>10. QED BY <2>4, <2>5, <2>7, <2>9
<1>9. CASE ~LastReference(old)
  <2> DEFINE record == Counted(old, o, -1)
  <2>1. /\ allocations' = Referenced(a, o, -1)
        /\ UNCHANGED <<reserved, terminalReserved, retirementReserved, managed,
                       queue>>
    BY <1>0, <1>9 DEF RemoveReference
  <2>2. old.owners[o] > 0
    <3>1. h \in LeasesOfOwner(a, o)
      BY <1>0, <1>1 DEF LeasesOf, LeasesOfOwner
    <3>2. Cardinality(LeasesOfOwner(a, o)) # 0
      BY <3>1, LeaseSetsAreFinite, FS_EmptySet
    <3>3. QED BY <1>1, <1>7, <3>2, LeaseSetsAreFinite
  <2>3. /\ record \in AllocationRecord
        /\ record.kind = old.kind /\ record.class = old.class
        /\ record.bytes = old.bytes
        /\ record.references = old.references + (-1)
        /\ \A p \in Owners : record.owners[p] =
             IF p = o THEN old.owners[p] + (-1) ELSE old.owners[p]
    <3>1. old.references + (-1) \in Nat /\ old.owners[o] + (-1) \in Nat
      BY <1>1, <1>7, <2>2
    <3>2. QED BY <1>1, <1>2, <3>1, RecordReferenced
  <2>4. allocations' = [allocations EXCEPT ![a] = record]
    BY <2>1 DEF Referenced
  <2> HIDE DEF record
  <2>5. Conservation' /\ ProtectedPools'
    BY <1>1, <1>2, <2>1, <2>3, <2>4, ReferencesConserve
  <2>6. LedgerTypeOK'
    <3>1. allocations' \in [Allocations -> AllocationRecord \cup {NoRecord}]
      BY <2>3, <2>4 DEF LedgerTypeOK
    <3>2. QED BY <1>1, <1>5, <1>6, <2>1, <3>1 DEF LedgerTypeOK
  <2>7. OwnershipMatchesLeases'
    <3>1. /\ allocations'[a] = record /\ record # NoRecord
          /\ \A b \in Allocations : b # a => allocations'[b] = allocations[b]
      BY <1>1, <2>3, <2>4, SentinelAssumption DEF LedgerTypeOK
    <3>2. \A g \in LiveLeases' :
            /\ allocations'[leases'[g].allocation] # NoRecord
            /\ allocations'[leases'[g].allocation].kind = leases'[g].kind
      BY <1>4, <2>3, <3>1
    <3>3. ASSUME NEW b \in Allocations, allocations'[b] # NoRecord
          PROVE  /\ allocations'[b].references = Cardinality(LeasesOf(b)')
                 /\ allocations'[b].references > 0
                 /\ allocations'[b].bytes > 0
                 /\ \A p \in Owners :
                      allocations'[b].owners[p] = Cardinality(LeasesOfOwner(b, p)')
      <4>1. CASE b = a
        <5>1. old.references > 1
          BY <1>7, <1>9 DEF LastReference
        <5>2. QED BY <1>1, <1>3, <1>7, <2>3, <3>1, <4>1, <5>1
      <4>2. CASE b # a
        <5>1. /\ Cardinality(LeasesOf(b)') = Cardinality(LeasesOf(b))
              /\ \A p \in Owners : Cardinality(LeasesOfOwner(b, p)')
                                     = Cardinality(LeasesOfOwner(b, p))
          BY <1>3, <4>2, LeaseSetsAreFinite
        <5>2. QED BY <3>1, <3>3, <4>2, <5>1 DEF OwnershipMatchesLeases, Active
      <4>3. QED BY <4>1, <4>2
    <3>4. QED BY <1>5, <3>2, <3>3 DEF OwnershipMatchesLeases, Active
  <2>8. QED BY <2>5, <2>6, <2>7
<1>10. QED BY <1>8, <1>9

LEMMA ReconcileStep ==
  ASSUME IInv, NEW h \in Handles, NEW actual \in Nat, Reconcile(h, actual)
  PROVE  IInv' /\ (outcome' \in Refusals => UNCHANGED <<ledger, leases>>)
<1> USE DEF IInv
<1>1. PICK a \in Allocations : a = leases[h].allocation
  BY DEF Reconcile, Alive, LedgerTypeOK, LeaseInner
<1> DEFINE old == allocations[a]
           check == ReconcileCheck(a, actual)
           delta == actual - old.bytes
           record == [old EXCEPT !.bytes = actual]
<1>2. h \in LiveLeases /\ leases' = leases /\ lastOrder' = lastOrder
      /\ outcome' = check
  BY <1>1 DEF Reconcile, Alive, LiveLeases
<1>3. /\ old # NoRecord /\ old \in AllocationRecord
      /\ old.kind \in Kinds /\ old.class \in Classes /\ old.bytes \in Nat
      /\ delta \in Int
  BY <1>1, <1>2 DEF OwnershipMatchesLeases, Active, LedgerTypeOK, AllocationRecord
<1>4. check \in Refusals \cup {"Ok"}
  BY DEF ReconcileCheck, Refusals
<1>5. CASE check # "Ok"
  <2>1. UNCHANGED <<ledger, leases>> /\ outcome' \in Refusals
    BY <1>1, <1>2, <1>4, <1>5 DEF Reconcile
  <2>2. QED BY <1>2, <2>1, IdleStep DEF Bookkept, LedgerTypeOK
<1>6. CASE check = "Ok"
  <2>1. /\ AddBytes(old.kind, old.class, delta)
        /\ peakReserved' = IF delta > 0 THEN Larger(peakReserved, reserved + delta)
                                        ELSE peakReserved
        /\ allocations' = [allocations EXCEPT ![a].bytes = actual]
        /\ activeLeases' = activeLeases
    BY <1>1, <1>6 DEF Reconcile, Resized
  <2>2. /\ record \in AllocationRecord
        /\ record.kind = old.kind /\ record.class = old.class
        /\ record.bytes = actual /\ record.references = old.references
        /\ record.owners = old.owners
    BY <1>3 DEF AllocationRecord
  <2>3. allocations' = [allocations EXCEPT ![a] = record]
    BY <2>1
  <2> HIDE DEF record
  <2>4. record # NoRecord
    BY <2>2, SentinelAssumption
  <2>5. Recharged(a, record, old.kind, old.class, delta)
    BY <1>3, <2>1, <2>2, <2>3, <2>4 DEF Recharged
  <2>6. actual > 0 /\ (delta > 0 => delta <= ClassAvailable(old.class))
    <3>1. ClassAvailable(old.class) \in Int
      BY <1>3, LedgerAssumption DEF ClassAvailable, Monus, LedgerTypeOK, Classes
    <3>2. QED BY <1>3, <1>6, <3>1 DEF ReconcileCheck
  <2> HIDE DEF old
  <2>7. /\ Conservation'
        /\ reserved' \in Nat /\ terminalReserved' \in Nat
        /\ retirementReserved' \in Nat /\ managed' \in Nat /\ queue' \in Nat
        /\ OrdinaryReserved' \in Nat
    BY <1>3, <2>2, <2>5, RechargedConserves
  <2>8. ProtectedPools' /\ reserved' <= Capacity /\ peakReserved' \in 0..MaxWord
    <3>1. CASE delta > 0
      <4>1. delta \in Nat
        BY <1>3, <3>1
      <4>2. QED BY <1>3, <2>1, <2>6, <3>1, <4>1, GrowthKeepsPools
    <3>2. CASE delta <= 0
      <4>1. -delta \in Nat /\ AddBytes(old.kind, old.class, -(-delta))
            /\ peakReserved' = peakReserved
        <5>1. -(-delta) = delta
          BY <1>3
        <5>2. QED BY <1>3, <2>1, <3>2, <5>1
      <4>2. QED BY <1>3, <2>7, <4>1, ShrinkKeepsPools
    <3>3. QED BY <1>3, <3>1, <3>2
  <2>9. LedgerTypeOK'
    <3>1. /\ reserved' \in 0..MaxWord /\ terminalReserved' \in 0..MaxWord
          /\ retirementReserved' \in 0..MaxWord /\ managed' \in 0..MaxWord
          /\ queue' \in 0..MaxWord
      BY <2>7, <2>8, CountersFit
    <3>2. allocations' \in [Allocations -> AllocationRecord \cup {NoRecord}]
      BY <2>2, <2>3 DEF LedgerTypeOK
    <3>3. QED BY <1>2, <1>4, <2>1, <2>8, <3>1, <3>2 DEF LedgerTypeOK
  <2>10. OwnershipMatchesLeases'
    <3>1. /\ allocations'[a] = record
          /\ \A b \in Allocations : b # a => allocations'[b] = allocations[b]
      BY <2>3 DEF LedgerTypeOK
    <3>2. /\ LiveLeases' = LiveLeases
          /\ \A b \in Allocations : LeasesOf(b)' = LeasesOf(b)
          /\ \A b \in Allocations, p \in Owners :
               LeasesOfOwner(b, p)' = LeasesOfOwner(b, p)
      BY <1>2 DEF LiveLeases, LeasesOf, LeasesOfOwner
    <3>3. \A g \in LiveLeases' :
            /\ allocations'[leases'[g].allocation] # NoRecord
            /\ allocations'[leases'[g].allocation].kind = leases'[g].kind
      <4> SUFFICES ASSUME NEW g \in LiveLeases
                   PROVE  /\ allocations'[leases[g].allocation] # NoRecord
                          /\ allocations'[leases[g].allocation].kind = leases[g].kind
        BY <1>2, <3>2
      <4>1. /\ leases[g].allocation \in Allocations
            /\ allocations[leases[g].allocation] # NoRecord
            /\ allocations[leases[g].allocation].kind = leases[g].kind
        BY DEF OwnershipMatchesLeases, Active, LiveLeases, LedgerTypeOK, LeaseInner
      <4>2. QED BY <2>2, <2>4, <3>1, <4>1 DEF old
    <3>4. ASSUME NEW b \in Allocations, allocations'[b] # NoRecord
          PROVE  /\ allocations'[b].references = Cardinality(LeasesOf(b))
                 /\ allocations'[b].references > 0
                 /\ allocations'[b].bytes > 0
                 /\ \A p \in Owners :
                      allocations'[b].owners[p] = Cardinality(LeasesOfOwner(b, p))
      <4>1. CASE b = a
        BY <1>3, <2>2, <2>6, <3>1, <4>1 DEF OwnershipMatchesLeases, Active, old
      <4>2. CASE b # a
        BY <3>1, <3>4, <4>2 DEF OwnershipMatchesLeases, Active
      <4>3. QED BY <4>1, <4>2
    <3>5. activeLeases' = Cardinality(LiveLeases')
      BY <2>1, <3>2 DEF OwnershipMatchesLeases
    <3>6. QED BY <3>2, <3>3, <3>4, <3>5 DEF OwnershipMatchesLeases, Active
  <2>11. QED BY <1>2, <1>6, <2>7, <2>8, <2>9, <2>10 DEF Refusals
<1>7. QED BY <1>5, <1>6

\* Clones come and go without the ledger's knowledge.
LEMMA CloneStep ==
  ASSUME IInv, NEW h \in Handles, CloneLease(h) \/ DropLease(h)
  PROVE  IInv' /\ outcome' = "Ok"
<1> USE DEF IInv
<1>1. PICK n \in Nat : leases' = [leases EXCEPT ![h].clones = n]
  <2>1. leases[h] \in LeaseInner /\ leases[h].clones > 0
    BY DEF CloneLease, DropLease, Alive, LedgerTypeOK
  <2>2. leases[h].clones + 1 \in Nat /\ leases[h].clones - 1 \in Nat
    BY <2>1 DEF LeaseInner
  <2>3. QED BY <2>2 DEF CloneLease, DropLease
<1>2. /\ leases[h] # NoLease /\ UNCHANGED <<ledger, lastOrder>>
      /\ outcome' = "Ok"
  BY DEF CloneLease, DropLease, Alive
<1>3. /\ leases' \in [Handles -> LeaseInner \cup {NoLease}]
      /\ LiveLeases' = LiveLeases
      /\ \A b \in Allocations : LeasesOf(b)' = LeasesOf(b)
      /\ \A b \in Allocations, o \in Owners :
           LeasesOfOwner(b, o)' = LeasesOfOwner(b, o)
      /\ \A g \in LiveLeases :
           /\ leases'[g].allocation = leases[g].allocation
           /\ leases'[g].kind = leases[g].kind
  BY <1>1, <1>2, LeaseKept
<1>4. LedgerTypeOK'
  BY <1>2, <1>3 DEF LedgerTypeOK, ledger, counters
<1>5. OwnershipMatchesLeases'
  BY <1>2, <1>3 DEF OwnershipMatchesLeases, Active, ledger, counters
<1>6. ProtectedPools'
  BY <1>2 DEF ProtectedPools, OrdinaryReserved, ledger, counters
<1>7. Conservation'
  <2>1. UNCHANGED ledger
    BY <1>2
  <2>2. QED BY <2>1, LedgerConserves DEF IInv
<1>8. QED BY <1>2, <1>4, <1>5, <1>6, <1>7

-----------------------------------------------------------------------------
(* The specification.                                                      *)

LEMMA InitHolds == LedgerInit => IInv
<1> SUFFICES ASSUME LedgerInit PROVE IInv
  OBVIOUS
<1> USE LedgerAssumption
<1> DEFINE zero == [a \in Allocations |-> 0]
<1>1. LedgerTypeOK
  BY DEF LedgerInit, LedgerTypeOK
<1>2. SumsTo(zero, 0)
  <2> DEFINE running == [b \in 0..MaxAllocation |-> 0]
  <2>1. /\ running \in [0..MaxAllocation -> 0..0]
        /\ running[0] = 0 /\ running[MaxAllocation] = 0
        /\ \A a \in Allocations : running[a] = running[a - 1] + zero[a]
        /\ \A a, b \in 0..MaxAllocation : a <= b => running[a] <= running[b]
    BY DEF Allocations
  <2>2. QED BY <2>1 DEF SumsTo
<1>3. /\ Bytes = zero
      /\ \A c \in Classes : BytesOfClass(c) = zero
      /\ \A k \in Kinds : BytesOfKind(k) = zero
  BY DEF LedgerInit, Bytes, BytesOfClass, BytesOfKind, Active
<1>4. OrdinaryReserved = 0 /\ reserved = 0 /\ terminalReserved = 0
      /\ retirementReserved = 0 /\ managed = 0 /\ queue = 0
  BY DEF LedgerInit, OrdinaryReserved
<1>5. Conservation
  BY <1>2, <1>3, <1>4 DEF Conservation, Classes, Kinds
<1>6. ProtectedPools
  BY <1>4 DEF LedgerInit, ProtectedPools
<1>7. OwnershipMatchesLeases
  BY FS_EmptySet DEF LedgerInit, OwnershipMatchesLeases, LiveLeases, Active
<1>8. QED BY <1>1, <1>5, <1>6, <1>7 DEF IInv

Refused == outcome' \in Refusals => UNCHANGED <<ledger, leases, lastOrder>>

\* Both reservation paths, and the order a sequence keeps.
LEMMA ReserveStep ==
  ASSUME IInv,
         NEW h \in Handles, NEW o \in Owners, NEW a \in Allocations,
         NEW kind \in Kinds, NEW class \in Classes, NEW bytes \in Nat,
         leases[h] = NoLease,
         ReserveClass(h, o, a, kind, class, bytes),
         lastOrder' \in [Owners -> Nat],
         outcome' # "Ok" => lastOrder' = lastOrder
  PROVE  IInv' /\ Refused
<1>1. \/ /\ AdmissionCheck(a, class, bytes) = "Ok"
         /\ Admit(h, o, a, kind, class, bytes)
         /\ outcome' = "Ok"
      \/ UNCHANGED <<ledger, leases>> /\ outcome' \in Refusals
  BY RefusedReservation
<1>2. Bookkept
  BY <1>1 DEF Bookkept
<1>3. "Ok" \notin Refusals
  BY DEF Refusals
<1>4. CASE /\ AdmissionCheck(a, class, bytes) = "Ok"
           /\ Admit(h, o, a, kind, class, bytes)
           /\ outcome' = "Ok"
  BY <1>2, <1>3, <1>4, AdmitStep DEF Refused
<1>5. CASE UNCHANGED <<ledger, leases>> /\ outcome' \in Refusals
  BY <1>2, <1>3, <1>5, IdleStep DEF Refused
<1>6. QED BY <1>1, <1>4, <1>5

LEMMA NextStep ==
  ASSUME IInv, [LedgerNext]_ledgerVars
  PROVE  IInv' /\ [Refused]_ledgerVars
<1> USE LedgerAssumption
<1>0. "Ok" \notin Refusals
  BY DEF Refusals
<1>1. ASSUME NEW h \in Handles, NEW o \in Owners, NEW a \in Allocations,
             NEW kind \in Kinds, NEW class \in Classes,
             NEW bytes \in 0..MaxRequest,
             TryReserve(h, o, a, kind, class, bytes)
      PROVE  IInv' /\ Refused
  BY <1>1, ReserveStep DEF TryReserve, IInv, LedgerTypeOK
<1>2. ASSUME NEW h \in Handles, NEW o \in Owners, NEW a \in Allocations,
             NEW kind \in Kinds, NEW class \in Classes, NEW order \in Orders,
             NEW bytes \in 0..MaxRequest,
             SequencedReserve(h, o, a, kind, class, order, bytes)
      PROVE  IInv' /\ Refused
  <2>1. CASE order < lastOrder[o]
    <3>1. UNCHANGED <<ledger, leases, lastOrder>> /\ outcome' \in Refusals
      BY <1>2, <2>1 DEF SequencedReserve, Refusals
    <3>2. QED BY <3>1, IdleStep DEF Bookkept, Refused, IInv, LedgerTypeOK
  <2>2. CASE ~(order < lastOrder[o])
    <3>1. /\ leases[h] = NoLease
          /\ ReserveClass(h, o, a, kind, class, bytes)
          /\ lastOrder' = Advanced(o, order, outcome')
      BY <1>2, <2>2 DEF SequencedReserve
    <3>2. order \in Nat /\ bytes \in Nat
      OBVIOUS
    <3>3. lastOrder' \in [Owners -> Nat] /\ (outcome' # "Ok" => lastOrder' = lastOrder)
      BY <3>1, <3>2 DEF Advanced, IInv, LedgerTypeOK
    <3>4. QED BY <3>1, <3>2, <3>3, ReserveStep
  <2>3. QED BY <2>1, <2>2
<1>3. ASSUME NEW o \in Owners, NewSequence(o)
      PROVE  IInv' /\ Refused
  BY <1>0, <1>3, IdleStep DEF NewSequence, Bookkept, Refused, IInv, LedgerTypeOK
<1>4. ASSUME NEW h \in Handles, NEW source \in Handles, NEW o \in Owners,
             NEW foreign \in BOOLEAN, TryShare(h, o, source, foreign)
      PROVE  IInv' /\ Refused
  BY <1>4, ShareStep DEF Refused, TryShare
<1>5. ASSUME NEW h \in Handles, NEW actual \in 0..MaxRequest,
             Reconcile(h, actual)
      PROVE  IInv' /\ Refused
  <2>1. actual \in Nat
    OBVIOUS
  <2>2. QED BY <1>5, <2>1, ReconcileStep DEF Refused, Reconcile
<1>6. ASSUME NEW h \in Handles, CloneLease(h) \/ DropLease(h)
      PROVE  IInv' /\ Refused
  BY <1>0, <1>6, CloneStep DEF Refused
<1>7. ASSUME NEW h \in Handles, RemoveReference(h)
      PROVE  IInv' /\ Refused
  BY <1>0, <1>7, RemoveStep DEF RemoveReference, Refused
<1>8. CASE UNCHANGED ledgerVars
  BY <1>8, IdleStep DEF ledgerVars, Bookkept, IInv, LedgerTypeOK
<1>9. QED
  BY <1>1, <1>2, <1>3, <1>4, <1>5, <1>6, <1>7, <1>8 DEF LedgerNext

\* The ledger's invariant: every counter is a u64 that equals its sum over the
\* allocation map, the pools are protected, and the references are the leases.
THEOREM LedgerInvariant == LedgerSpec => []IInv
<1>1. LedgerInit => IInv
  BY InitHolds
<1>2. IInv /\ [LedgerNext]_ledgerVars => IInv'
  BY NextStep
<1>3. QED BY <1>1, <1>2, PTL DEF LedgerSpec

\* No counter of the ledger overflows or wraps below zero (the unchecked
\* subtractions of remove_reference and reconcile, resources.rs:496-621).
THEOREM TypesCorrect == LedgerSpec => []LedgerTypeOK
<1>1. IInv => LedgerTypeOK
  BY DEF IInv
<1>2. QED BY <1>1, LedgerInvariant, PTL

\* The counters conserve the bytes of the allocation map.
THEOREM BytesAreConserved == LedgerSpec => []Conservation
<1>1. IInv => Conservation
  BY DEF IInv
<1>2. QED BY <1>1, LedgerInvariant, PTL

\* Ordinary work cannot consume terminal or retirement capacity
\* (resources.rs:53-57).
THEOREM PoolsAreProtected == LedgerSpec => []ProtectedPools
<1>1. IInv => ProtectedPools
  BY DEF IInv
<1>2. QED BY <1>1, LedgerInvariant, PTL

\* An allocation is charged exactly while leases refer to it, and no expect()
\* of the release path can fail.
THEOREM OwnershipIsExact == LedgerSpec => []OwnershipMatchesLeases
<1>1. IInv => OwnershipMatchesLeases
  BY DEF IInv
<1>2. QED BY <1>1, LedgerInvariant, PTL

\* A failed request leaves every counter and existing lease untouched
\* (resources.rs:691-698).
THEOREM RefusalsAreAtomic == LedgerSpec => RefusalChangesNothing
<1>1. IInv /\ [LedgerNext]_ledgerVars => [Refused]_ledgerVars
  BY NextStep
<1>2. QED
  BY <1>1, LedgerInvariant, PTL DEF LedgerSpec, RefusalChangesNothing, Refused

\* The ledger adds up: reserve, share, reconcile and release keep every total
\* and every pool's bound.
THEOREM LedgerBalance == LedgerSpec => []LedgerBalances
<1>1. IInv => LedgerBalances
  BY DEF IInv, LedgerBalances
<1>2. QED BY <1>1, LedgerInvariant, PTL

-----------------------------------------------------------------------------
(* A record keeps its kind and its class for as long as it is there.       *)

\* No step turns a record into one of another kind or class.
ChargesKeepTheirKind ==
  \A a \in Allocations : Active(a) /\ Active(a)' =>
    allocations'[a].kind = allocations[a].kind /\ allocations'[a].class = allocations[a].class

LEMMA RecordReplaced ==
  ASSUME IInv, NEW a \in Allocations, NEW r,
         allocations' = [allocations EXCEPT ![a] = r],
         Active(a) /\ r # NoRecord => r.kind = allocations[a].kind /\ r.class = allocations[a].class
  PROVE  ChargesKeepTheirKind
<1>1. /\ allocations'[a] = r
      /\ \A b \in Allocations : b # a => allocations'[b] = allocations[b]
  BY DEF IInv, LedgerTypeOK
<1>2. QED BY <1>1 DEF ChargesKeepTheirKind, Active

LEMMA ReferenceKeepsKind ==
  ASSUME IInv, NEW a \in Allocations, NEW o \in Owners, NEW n \in Int, Active(a),
         allocations' = Referenced(a, o, n)
  PROVE  ChargesKeepTheirKind
<1>1. allocations[a] \in AllocationRecord
  BY DEF IInv, LedgerTypeOK, Active
<1>2. /\ Counted(allocations[a], o, n).kind = allocations[a].kind
      /\ Counted(allocations[a], o, n).class = allocations[a].class
  BY <1>1 DEF AllocationRecord, Counted
<1>3. allocations' = [allocations EXCEPT ![a] = Counted(allocations[a], o, n)]
  BY DEF Referenced
<1>4. QED BY <1>2, <1>3, RecordReplaced

LEMMA NextKeepsKind ==
  ASSUME IInv, [LedgerNext]_ledgerVars
  PROVE  ChargesKeepTheirKind
<1>1. ASSUME UNCHANGED allocations PROVE ChargesKeepTheirKind
  BY <1>1 DEF ChargesKeepTheirKind, Active
<1>2. ASSUME NEW h \in Handles, NEW o \in Owners, NEW a \in Allocations, NEW kind \in Kinds,
             NEW class \in Classes, NEW bytes \in 0..MaxRequest,
             ReserveClass(h, o, a, kind, class, bytes)
      PROVE  ChargesKeepTheirKind
  <2>1. CASE UNCHANGED allocations
    BY <1>1, <2>1
  <2>2. CASE ~UNCHANGED allocations
    <3>1. AdmissionCheck(a, class, bytes) = "Ok" /\ Admit(h, o, a, kind, class, bytes)
      BY <1>2, <2>2 DEF ReserveClass, Refuse
    <3>2. ~Active(a)
      BY <3>1 DEF AdmissionCheck, Active
    <3>3. QED BY <3>1, <3>2, RecordReplaced DEF Admit
  <2>3. QED BY <2>1, <2>2
<1>3. ASSUME NEW h \in Handles, NEW source \in Handles, NEW o \in Owners,
             NEW foreign \in BOOLEAN, TryShare(h, o, source, foreign)
      PROVE  ChargesKeepTheirKind
  <2> DEFINE a == leases[source].allocation
  <2>1. CASE UNCHANGED allocations
    BY <1>1, <2>1
  <2>2. CASE ~UNCHANGED allocations
    <3>1. leases[source] \in LeaseInner
      BY <1>3 DEF TryShare, Alive, IInv, LedgerTypeOK
    <3>2. a \in Allocations
      BY <3>1 DEF LeaseInner
    <3>3. allocations' = Referenced(a, o, 1) /\ ~ShareRefused(a, leases[source].kind, o)
      BY <1>3, <2>2 DEF TryShare, ledger
    <3>4. Active(a)
      BY <3>3 DEF ShareRefused, Active
    <3>5. QED BY <3>2, <3>3, <3>4, ReferenceKeepsKind
  <2>3. QED BY <2>1, <2>2
<1>4. ASSUME NEW h \in Handles, NEW actual \in 0..MaxRequest, Reconcile(h, actual)
      PROVE  ChargesKeepTheirKind
  <2> DEFINE a == leases[h].allocation
  <2>1. CASE UNCHANGED allocations
    BY <1>1, <2>1
  <2>2. CASE ~UNCHANGED allocations
    <3>1. leases[h] \in LeaseInner
      BY <1>4 DEF Reconcile, Alive, IInv, LedgerTypeOK
    <3>2. a \in Allocations
      BY <3>1 DEF LeaseInner
    <3>3. allocations' = Resized(a, actual) /\ ReconcileCheck(a, actual) = "Ok"
      BY <1>4, <2>2 DEF Reconcile, ledger
    <3>4. allocations[a] # NoRecord
      BY <3>3 DEF ReconcileCheck
    <3>5. allocations[a] \in AllocationRecord
      BY <3>2, <3>4 DEF IInv, LedgerTypeOK
    <3>6. PICK r : r = [allocations[a] EXCEPT !.bytes = actual]
      OBVIOUS
    <3>7. r.kind = allocations[a].kind /\ r.class = allocations[a].class
      BY <3>5, <3>6 DEF AllocationRecord
    <3>8. allocations' = [allocations EXCEPT ![a] = r]
      BY <3>3, <3>6 DEF Resized
    <3>9. QED BY <3>2, <3>7, <3>8, RecordReplaced
  <2>3. QED BY <2>1, <2>2
<1>5. ASSUME NEW h \in Handles, RemoveReference(h)
      PROVE  ChargesKeepTheirKind
  <2>1. leases[h] \in LeaseInner /\ h \in LiveLeases
    BY <1>5 DEF RemoveReference, IInv, LedgerTypeOK, LiveLeases
  <2>2. leases[h].allocation \in Allocations /\ leases[h].owner \in Owners
    BY <2>1 DEF LeaseInner
  <2>3. Active(leases[h].allocation)
    BY <2>1 DEF IInv, OwnershipMatchesLeases
  <2>4. CASE allocations' = [allocations EXCEPT ![leases[h].allocation] = NoRecord]
    BY <2>2, <2>4, RecordReplaced
  <2>5. CASE allocations' = Referenced(leases[h].allocation, leases[h].owner, -1)
    BY <2>2, <2>3, <2>5, ReferenceKeepsKind
  <2>6. QED BY <1>5, <2>4, <2>5 DEF RemoveReference
<1>6. ASSUME NEW h \in Handles, NEW o \in Owners, NEW a \in Allocations, NEW kind \in Kinds,
             NEW class \in Classes, NEW order \in Orders, NEW bytes \in 0..MaxRequest,
             SequencedReserve(h, o, a, kind, class, order, bytes)
      PROVE  ChargesKeepTheirKind
  <2>1. CASE order < lastOrder[o]
    BY <1>1, <1>6, <2>1 DEF SequencedReserve, ledger
  <2>2. CASE ~(order < lastOrder[o])
    BY <1>2, <1>6, <2>2 DEF SequencedReserve
  <2>3. QED BY <2>1, <2>2
<1>7. ASSUME NEW h \in Handles, CloneLease(h) \/ DropLease(h) PROVE ChargesKeepTheirKind
  BY <1>1, <1>7 DEF CloneLease, DropLease, ledger
<1>8. ASSUME NEW o \in Owners, NewSequence(o) PROVE ChargesKeepTheirKind
  BY <1>1, <1>8 DEF NewSequence, ledger
<1>9. CASE UNCHANGED ledgerVars
  BY <1>1, <1>9 DEF ledgerVars, ledger
<1>10. ASSUME NEW h \in Handles, NEW o \in Owners, NEW a \in Allocations, NEW kind \in Kinds,
              NEW class \in Classes, NEW bytes \in 0..MaxRequest,
              TryReserve(h, o, a, kind, class, bytes)
      PROVE  ChargesKeepTheirKind
  BY <1>2, <1>10 DEF TryReserve
<1>11. QED
  BY <1>3, <1>4, <1>5, <1>6, <1>7, <1>8, <1>9, <1>10 DEF LedgerNext

\* A charge disappears or changes hands only when nobody holds it: no lease
\* outlives its record or finds it turned into another one, though ids are
\* used again (resources.rs:496-621).
THEOREM ChargesOutliveLeases == LedgerSpec => ChargeOutlivesItsLeases
<1> DEFINE Stands ==
      \A a \in Allocations :
        LeasesOf(a) \cap LeasesOf(a)' # {} =>
          /\ Active(a)'
          /\ allocations'[a].kind = allocations[a].kind
          /\ allocations'[a].class = allocations[a].class
<1>1. ASSUME IInv, IInv', [LedgerNext]_ledgerVars PROVE Stands
  <2>1. SUFFICES ASSUME NEW a \in Allocations, NEW h \in LeasesOf(a), h \in LeasesOf(a)'
                 PROVE  /\ Active(a)'
                        /\ allocations'[a].kind = allocations[a].kind
                        /\ allocations'[a].class = allocations[a].class
    OBVIOUS
  <2>2. Active(a) /\ Active(a)'
    <3>1. OwnershipMatchesLeases /\ OwnershipMatchesLeases'
      BY <1>1 DEF IInv
    <3>2. Active(a)
      BY <3>1 DEF OwnershipMatchesLeases, LeasesOf, LiveLeases
    <3>3. h \in Handles /\ leases'[h] # NoLease /\ leases'[h].allocation = a
      BY <2>1 DEF LeasesOf
    <3>4. Active(a)'
      BY <3>1, <3>3 DEF OwnershipMatchesLeases, LiveLeases
    <3>5. QED BY <3>2, <3>4
  <2>3. ChargesKeepTheirKind
    BY <1>1, NextKeepsKind
  <2>4. QED BY <2>2, <2>3 DEF ChargesKeepTheirKind
<1>2. IInv /\ IInv' /\ [LedgerNext]_ledgerVars => Stands
  BY <1>1
<1>3. LedgerSpec => [][Stands]_ledgerVars
  <2> HIDE DEF Stands
  <2>1. QED BY <1>2, LedgerInvariant, PTL DEF LedgerSpec
<1>4. QED BY <1>3 DEF ChargeOutlivesItsLeases
=============================================================================
