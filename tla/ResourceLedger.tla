--------------------------- MODULE ResourceLedger ---------------------------
(***************************************************************************)
(* The accounting domain behind ResourceBudget and ResourceLease           *)
(* (crates/fcb-core/src/resources.rs).  Every operation of the code takes  *)
(* the ledger's mutex once, so every operation is one action; the only     *)
(* operation of two steps is the drop of a lease, whose last clone goes    *)
(* away before LeaseInner::drop gets the mutex.                            *)
(*                                                                         *)
(* A handle is the slot of one LeaseInner, i.e. of all the clones of one   *)
(* Arc; a lease record keeps the number of its clones.                     *)
(***************************************************************************)
EXTENDS Integers, FiniteSets

CONSTANTS
  MaxAllocation,      \* allocation ids are 1..MaxAllocation
  Owners,             \* arena owners that hold or share leases
  Handles,            \* identities of LeaseInner values
  Capacity,           \* the hard ceiling in bytes
  TerminalCapacity,   \* the part of it kept for terminal records
  RetirementCapacity, \* the part of it kept for retirement records
  MaxWord,            \* the largest value of a counter (u64::MAX)
  MaxRequest,         \* bound: the largest number of bytes a caller asks for
  MaxClones,          \* bound: clones of one lease alive at a time
  Orders,             \* positions in the acquisition order, as numbers
  NoRecord,           \* no allocation under this id
  NoLease             \* no lease under this handle

Kinds == {"Managed", "Queue"}
Classes == {"Ordinary", "Terminal", "Retirement"}
Allocations == 1..MaxAllocation

\* The owners map of a record holds no zero: a count of 0 stands for no entry.
AllocationRecord ==
  [kind: Kinds, class: Classes, bytes: Nat, references: Nat,
   owners: [Owners -> Nat]]

LeaseInner ==
  [owner: Owners, allocation: Allocations, kind: Kinds, clones: Nat]

Refusals ==
  {"InvalidBytes", "AllocationConflict", "CapacityExhausted",
   "AcquisitionOrderViolation", "ReconciliationDenied", "ArithmeticOverflow",
   "OwnershipMismatch"}

\* ResourceBudget::new_with_protected_capacity refuses the other values.
ASSUME LedgerAssumption ==
  /\ MaxAllocation \in Nat \ {0}
  /\ IsFiniteSet(Handles)
  /\ Capacity \in Nat \ {0}
  /\ TerminalCapacity \in Nat
  /\ RetirementCapacity \in Nat
  /\ TerminalCapacity + RetirementCapacity <= Capacity
  /\ MaxWord \in Nat
  /\ Capacity <= MaxWord
  /\ MaxRequest \in Nat
  /\ MaxClones \in Nat
  /\ Orders \subseteq Nat \ {0}

ASSUME SentinelAssumption ==
  /\ NoRecord \notin AllocationRecord
  /\ NoLease \notin LeaseInner

VARIABLES
  reserved, terminalReserved, retirementReserved, managed, queue,
  peakReserved, activeLeases,
  allocations,        \* the map from allocation id to record
  leases,             \* the LeaseInner behind every handle
  lastOrder,          \* ResourceAcquisitionSequence::last, one per owner
  outcome             \* what the last operation returned ("Ok" if nothing)

counters ==
  <<reserved, terminalReserved, retirementReserved, managed, queue,
    peakReserved, activeLeases>>
ledger == <<counters, allocations>>
ledgerVars == <<ledger, leases, lastOrder, outcome>>

-----------------------------------------------------------------------------
(* Arithmetic of the ledger.                                               *)

Monus(x, y) == IF x > y THEN x - y ELSE 0
Larger(x, y) == IF x > y THEN x ELSE y

\* Mutant: ordinary work may use whatever the ceiling has left.
ClassAvailableUnprotected(class) ==
  CASE class = "Ordinary" -> Monus(Capacity, reserved)
    [] class = "Terminal" -> Monus(TerminalCapacity, terminalReserved)
    [] class = "Retirement" -> Monus(RetirementCapacity, retirementReserved)

\* ResourceLedger::class_available
ClassAvailable(class) ==
  CASE class = "Ordinary" ->
         Monus(Monus(Monus(Capacity, TerminalCapacity), RetirementCapacity),
               Monus(Monus(reserved, terminalReserved), retirementReserved))
    [] class = "Terminal" -> Monus(TerminalCapacity, terminalReserved)
    [] class = "Retirement" -> Monus(RetirementCapacity, retirementReserved)

\* What a class or a kind contributes to its own counter.
Share(is, bytes) == IF is THEN bytes ELSE 0

\* checked_add on a u64
Overflows(counter, bytes) == counter + bytes > MaxWord

\* Mutant: bytes given back are not taken out of the kind's counter.
AddBytesKeepingKind(kind, class, delta) ==
  /\ reserved' = reserved + delta
  /\ terminalReserved' = terminalReserved + Share(class = "Terminal", delta)
  /\ retirementReserved' =
       retirementReserved + Share(class = "Retirement", delta)
  /\ managed' = managed + Share(kind = "Managed" /\ delta > 0, delta)
  /\ queue' = queue + Share(kind = "Queue" /\ delta > 0, delta)

\* The counters after an allocation of this class and kind grew by delta.
AddBytes(kind, class, delta) ==
  /\ reserved' = reserved + delta
  /\ terminalReserved' = terminalReserved + Share(class = "Terminal", delta)
  /\ retirementReserved' =
       retirementReserved + Share(class = "Retirement", delta)
  /\ managed' = managed + Share(kind = "Managed", delta)
  /\ queue' = queue + Share(kind = "Queue", delta)

\* Mutant: the owner's own count is left behind.
CountedOnce(record, o, n) == [record EXCEPT !.references = @ + n]

\* The record with n more references, all of them held by o.
Counted(record, o, n) ==
  [record EXCEPT !.references = @ + n, !.owners[o] = @ + n]

Referenced(a, o, n) == [allocations EXCEPT ![a] = Counted(@, o, n)]

\* Mutant: every drop takes the record out.
AnyReference(record) == TRUE

LastReference(record) == record.references = 1

\* Mutant: the record keeps the size it was reserved with.
ReservedSize(a, actual) == allocations

Resized(a, actual) == [allocations EXCEPT ![a].bytes = actual]

-----------------------------------------------------------------------------
(* Admission: try_reserve_class.                                           *)

\* What refuses the request before the ledger is written; "Ok" if nothing.
AdmissionCheck(a, class, bytes) ==
  IF bytes = 0 THEN "InvalidBytes"
  ELSE IF allocations[a] # NoRecord THEN "AllocationConflict"
  ELSE IF bytes > ClassAvailable(class) THEN "CapacityExhausted"
  ELSE IF Overflows(activeLeases, 1) \/ Overflows(reserved, bytes)
    THEN "ArithmeticOverflow"
  ELSE "Ok"

KindOverflows(kind, bytes) ==
  Overflows(IF kind = "Managed" THEN managed ELSE queue, bytes)

ClassOverflows(class, bytes) ==
  \/ class = "Terminal" /\ Overflows(terminalReserved, bytes)
  \/ class = "Retirement" /\ Overflows(retirementReserved, bytes)

Admit(h, o, a, kind, class, bytes) ==
  /\ AddBytes(kind, class, bytes)
  /\ peakReserved' = Larger(peakReserved, reserved + bytes)
  /\ activeLeases' = activeLeases + 1
  /\ allocations' = [allocations EXCEPT ![a] =
       [kind |-> kind, class |-> class, bytes |-> bytes, references |-> 1,
        owners |-> [p \in Owners |-> IF p = o THEN 1 ELSE 0]]]
  /\ leases' = [leases EXCEPT ![h] =
       [owner |-> o, allocation |-> a, kind |-> kind, clones |-> 1]]

\* add_kind has already written its counter when add_class overflows.
Refuse(check, kind, bytes) ==
  LET kindCharged == check = "Ok" /\ ~KindOverflows(kind, bytes)
  IN  /\ managed' = managed + Share(kindCharged /\ kind = "Managed", bytes)
      /\ queue' = queue + Share(kindCharged /\ kind = "Queue", bytes)
      /\ UNCHANGED <<reserved, terminalReserved, retirementReserved,
                     peakReserved, activeLeases, allocations, leases>>

\* ResourceBudget::try_reserve_class; try_reserve and the others call it.
ReserveClass(h, o, a, kind, class, bytes) ==
  LET check == AdmissionCheck(a, class, bytes)
      overflows == KindOverflows(kind, bytes) \/ ClassOverflows(class, bytes)
  IN  IF check = "Ok" /\ ~overflows
      THEN Admit(h, o, a, kind, class, bytes) /\ outcome' = "Ok"
      ELSE /\ Refuse(check, kind, bytes)
           /\ outcome' = IF check = "Ok" THEN "ArithmeticOverflow" ELSE check

TryReserve(h, o, a, kind, class, bytes) ==
  /\ leases[h] = NoLease
  /\ ReserveClass(h, o, a, kind, class, bytes)
  /\ UNCHANGED lastOrder

\* Mutant: the sequence advances before the reservation is known.
AdvancedEagerly(o, order, result) == [lastOrder EXCEPT ![o] = order]

Advanced(o, order, result) ==
  IF result = "Ok" THEN [lastOrder EXCEPT ![o] = order] ELSE lastOrder

\* ResourceAcquisitionSequence::try_reserve
SequencedReserve(h, o, a, kind, class, order, bytes) ==
  /\ leases[h] = NoLease
  /\ IF order < lastOrder[o]
     THEN /\ outcome' = "AcquisitionOrderViolation"
          /\ UNCHANGED <<ledger, leases, lastOrder>>
     ELSE /\ ReserveClass(h, o, a, kind, class, bytes)
          /\ lastOrder' = Advanced(o, order, outcome')

\* A new ResourceAcquisitionSequence for the owner's next operation.
NewSequence(o) ==
  /\ lastOrder[o] # 0
  /\ lastOrder' = [lastOrder EXCEPT ![o] = 0]
  /\ outcome' = "Ok"
  /\ UNCHANGED <<ledger, leases>>

-----------------------------------------------------------------------------
(* Operations on a lease that is alive.                                    *)

Alive(h) == leases[h] # NoLease /\ leases[h].clones > 0

\* add_shared_reference refuses without having written anything.
ShareRefused(a, kind, o) ==
  \/ allocations[a] = NoRecord
  \/ allocations[a].kind # kind
  \/ Overflows(activeLeases, 1)
  \/ Overflows(allocations[a].references, 1)
  \/ Overflows(allocations[a].owners[o], 1)

\* ResourceBudget::try_share; "foreign" when the source lease belongs to
\* another ledger, which is refused before this ledger is locked.
TryShare(h, o, source, foreign) ==
  LET a == leases[source].allocation
      kind == leases[source].kind
  IN  /\ leases[h] = NoLease
      /\ Alive(source)
      /\ IF foreign \/ ShareRefused(a, kind, o)
         THEN /\ outcome' = "OwnershipMismatch"
              /\ UNCHANGED <<ledger, leases>>
         ELSE /\ activeLeases' = activeLeases + 1
              /\ allocations' = Referenced(a, o, 1)
              /\ leases' = [leases EXCEPT ![h] =
                   [owner |-> o, allocation |-> a, kind |-> kind,
                    clones |-> 1]]
              /\ outcome' = "Ok"
              /\ UNCHANGED <<reserved, terminalReserved, retirementReserved,
                             managed, queue, peakReserved>>
      /\ UNCHANGED lastOrder

ReconcileCheck(a, actual) ==
  IF actual = 0 THEN "InvalidBytes"
  ELSE IF allocations[a] = NoRecord THEN "AllocationConflict"
  ELSE LET additional == actual - allocations[a].bytes
           class == allocations[a].class
           kind == allocations[a].kind
       IN  IF additional <= 0 THEN "Ok"
           ELSE IF additional > ClassAvailable(class)
             THEN "ReconciliationDenied"
           ELSE IF \/ Overflows(reserved, additional)
                   \/ ClassOverflows(class, additional)
                   \/ KindOverflows(kind, additional)
             THEN "ArithmeticOverflow"
           ELSE "Ok"

\* ResourceLease::reconcile
Reconcile(h, actual) ==
  LET a == leases[h].allocation
      check == ReconcileCheck(a, actual)
      delta == actual - allocations[a].bytes
  IN  /\ Alive(h)
      /\ outcome' = check
      /\ IF check = "Ok"
         THEN /\ AddBytes(allocations[a].kind, allocations[a].class, delta)
              /\ peakReserved' = IF delta > 0
                                 THEN Larger(peakReserved, reserved + delta)
                                 ELSE peakReserved
              /\ allocations' = Resized(a, actual)
              /\ UNCHANGED activeLeases
         ELSE UNCHANGED ledger
      /\ UNCHANGED <<leases, lastOrder>>

CloneLease(h) ==
  /\ Alive(h)
  /\ leases[h].clones < MaxClones
  /\ leases' = [leases EXCEPT ![h].clones = @ + 1]
  /\ outcome' = "Ok"
  /\ UNCHANGED <<ledger, lastOrder>>

\* A clone goes away; the last one leaves the LeaseInner to be dropped.
DropLease(h) ==
  /\ Alive(h)
  /\ leases' = [leases EXCEPT ![h].clones = @ - 1]
  /\ outcome' = "Ok"
  /\ UNCHANGED <<ledger, lastOrder>>

\* LeaseInner::drop: remove_reference under the mutex.
RemoveReference(h) ==
  LET a == leases[h].allocation
      o == leases[h].owner
      record == allocations[a]
  IN  /\ leases[h] # NoLease
      /\ leases[h].clones = 0
      /\ activeLeases' = activeLeases - 1
      /\ leases' = [leases EXCEPT ![h] = NoLease]
      /\ IF LastReference(record)
         THEN /\ AddBytes(record.kind, record.class, -record.bytes)
              /\ allocations' = [allocations EXCEPT ![a] = NoRecord]
         ELSE /\ allocations' = Referenced(a, o, -1)
              /\ UNCHANGED <<reserved, terminalReserved, retirementReserved,
                             managed, queue>>
      /\ outcome' = "Ok"
      /\ UNCHANGED <<peakReserved, lastOrder>>

-----------------------------------------------------------------------------

LedgerInit ==
  /\ reserved = 0
  /\ terminalReserved = 0
  /\ retirementReserved = 0
  /\ managed = 0
  /\ queue = 0
  /\ peakReserved = 0
  /\ activeLeases = 0
  /\ allocations = [a \in Allocations |-> NoRecord]
  /\ leases = [h \in Handles |-> NoLease]
  /\ lastOrder = [o \in Owners |-> 0]
  /\ outcome = "Ok"

LedgerNext ==
  \/ \E h \in Handles, o \in Owners, a \in Allocations, kind \in Kinds,
        class \in Classes, bytes \in 0..MaxRequest :
       TryReserve(h, o, a, kind, class, bytes)
  \/ \E h \in Handles, o \in Owners, a \in Allocations, kind \in Kinds,
        class \in Classes, order \in Orders, bytes \in 0..MaxRequest :
       SequencedReserve(h, o, a, kind, class, order, bytes)
  \/ \E o \in Owners : NewSequence(o)
  \/ \E h, source \in Handles, o \in Owners, foreign \in BOOLEAN :
       TryShare(h, o, source, foreign)
  \/ \E h \in Handles, actual \in 0..MaxRequest : Reconcile(h, actual)
  \/ \E h \in Handles : CloneLease(h)
  \/ \E h \in Handles : DropLease(h)
  \/ \E h \in Handles : RemoveReference(h)

LedgerSpec == LedgerInit /\ [][LedgerNext]_ledgerVars

-----------------------------------------------------------------------------
(* Properties.                                                             *)

\* Every counter stays a u64: no checked_add fails half way, and none of the
\* plain subtractions of remove_reference and reconcile wraps.
LedgerTypeOK ==
  /\ reserved \in 0..MaxWord
  /\ terminalReserved \in 0..MaxWord
  /\ retirementReserved \in 0..MaxWord
  /\ managed \in 0..MaxWord
  /\ queue \in 0..MaxWord
  /\ peakReserved \in 0..MaxWord
  /\ activeLeases \in 0..MaxWord
  /\ allocations \in [Allocations -> AllocationRecord \cup {NoRecord}]
  /\ leases \in [Handles -> LeaseInner \cup {NoLease}]
  /\ lastOrder \in [Owners -> Nat]
  /\ outcome \in Refusals \cup {"Ok"}

\* What the allocation map says each counter should be, id by id.
Active(a) == allocations[a] # NoRecord
Bytes == [a \in Allocations |-> IF Active(a) THEN allocations[a].bytes ELSE 0]
BytesOfClass(class) ==
  [a \in Allocations |->
     IF Active(a) /\ allocations[a].class = class THEN allocations[a].bytes
                                                  ELSE 0]
BytesOfKind(kind) ==
  [a \in Allocations |->
     IF Active(a) /\ allocations[a].kind = kind THEN allocations[a].bytes
                                                ELSE 0]

\* f[1] + ... + f[MaxAllocation] = total, said with the running totals in the
\* order of the allocation map, so that no recursion is needed to prove it.
SumsTo(f, total) ==
  \E running \in [0..MaxAllocation -> 0..total] :
    /\ running[0] = 0
    /\ running[MaxAllocation] = total
    /\ \A a \in Allocations : running[a] = running[a - 1] + f[a]
    /\ \A a, b \in 0..MaxAllocation : a <= b => running[a] <= running[b]

\* Conservation: each counter, and what ordinary work holds, is the sum over
\* the allocation map of the bytes it accounts for, whatever was reserved,
\* shared, reconciled and released in between.
OrdinaryReserved == reserved - terminalReserved - retirementReserved

Conservation ==
  /\ SumsTo(Bytes, reserved)
  /\ SumsTo(BytesOfClass("Ordinary"), OrdinaryReserved)
  /\ SumsTo(BytesOfClass("Terminal"), terminalReserved)
  /\ SumsTo(BytesOfClass("Retirement"), retirementReserved)
  /\ SumsTo(BytesOfKind("Managed"), managed)
  /\ SumsTo(BytesOfKind("Queue"), queue)
  /\ managed + queue = reserved

LeasesOf(a) == {h \in Handles : leases[h] # NoLease /\ leases[h].allocation = a}
LeasesOfOwner(a, o) == {h \in LeasesOf(a) : leases[h].owner = o}
LiveLeases == {h \in Handles : leases[h] # NoLease}

\* Ownership: an allocation is charged exactly while some lease refers to it,
\* its reference and owner counts are the numbers of those leases, and every
\* lease finds its record, of its own kind (the expect()s of
\* remove_reference and info never fire).
OwnershipMatchesLeases ==
  /\ activeLeases = Cardinality(LiveLeases)
  /\ \A h \in LiveLeases :
       /\ Active(leases[h].allocation)
       /\ allocations[leases[h].allocation].kind = leases[h].kind
  /\ \A a \in Allocations : Active(a) =>
       /\ allocations[a].references = Cardinality(LeasesOf(a))
       /\ allocations[a].references > 0
       /\ allocations[a].bytes > 0
       /\ \A o \in Owners :
            allocations[a].owners[o] = Cardinality(LeasesOfOwner(a, o))

\* Protected pools: ordinary work can fill only what the terminal and the
\* retirement pools leave, each pool stays within its own capacity, and the
\* recorded peak is a high-water mark within the ceiling.
ProtectedPools ==
  /\ terminalReserved <= TerminalCapacity
  /\ retirementReserved <= RetirementCapacity
  /\ 0 <= OrdinaryReserved
  /\ OrdinaryReserved <= Capacity - TerminalCapacity - RetirementCapacity
  /\ reserved <= peakReserved
  /\ peakReserved <= Capacity

\* A refused admission, share or reconciliation changes nothing: the ledger,
\* the leases and the acquisition order are as before.
RefusalChangesNothing ==
  [][outcome' \in Refusals => UNCHANGED <<ledger, leases, lastOrder>>]_ledgerVars

\* A charge disappears or changes hands only when nobody holds it: between two
\* states that both have a lease on an allocation, its record is the same
\* charge: still there, of the same kind and class.
ChargeOutlivesItsLeases ==
  [][\A a \in Allocations :
       LeasesOf(a) \cap LeasesOf(a)' # {} =>
         /\ Active(a)'
         /\ allocations'[a].kind = allocations[a].kind
         /\ allocations'[a].class = allocations[a].class]_ledgerVars

\* The ledger adds up: its counters are words, they sum what is allocated, and
\* no pool is entered by work it does not belong to.
LedgerBalances == LedgerTypeOK /\ Conservation /\ ProtectedPools
=============================================================================
