------------------------ MODULE TerminalDrainProofs --------------------------
(***************************************************************************)
(* Proofs about TerminalDrain, for any set of submissions, any number of   *)
(* slots and drains, and hosts that commit before or after the driver took *)
(* the work.  Only the last part, about the wake, asks for a host that     *)
(* commits first.                                                          *)
(***************************************************************************)
EXTENDS TerminalDrain, Sequences, TLAPS, FiniteSetTheorems, WellFoundedInduction

Holds(i, s) == slots[i] # NoSlot /\ slots[i].submission = s
InSlot(s) == \E i \in Slots : Holds(i, s)
InHand(s) == \E d \in Drainers : \E r \in taken[d] : r.submission = s
CommittedSlots == {i \in Occupied : slots[i].committed}

\* The types of the queue; those of the wake probe are WakeProbe's own.
Types ==
  /\ slots \in [Slots -> SlotRecord \cup {NoSlot}]
  /\ minted \subseteq Submissions
  /\ reservation \subseteq minted
  /\ stage \in [Drainers -> {"idle", "cleared", "processing", "drained"}]
  /\ taken \in [Drainers -> SUBSET SlotRecord]
  /\ leases \in [Submissions -> {"none", "held", "released"}]
  /\ payloads \in [Submissions -> {"none", "held", "queued", "inline", "destroyed"}]
  /\ driver \in [Submissions -> {"absent", "running", "finished", "reported"}]
  /\ reported \in [Submissions -> Statuses]
  /\ drains \in [Submissions -> 0..1]

\* A submission has one record: in one slot, in the hands of one drain, or
\* drained.
OneRecord ==
  /\ \A i, j \in Slots, s \in Submissions : Holds(i, s) /\ Holds(j, s) => i = j
  /\ \A d, e \in Drainers : \A r \in taken[d], q \in taken[e] :
       r.submission = q.submission => d = e /\ r = q
  /\ \A s \in Submissions :
       /\ InSlot(s) => ~InHand(s)
       /\ drains[s] = 1 => ~InSlot(s) /\ ~InHand(s)

\* Where a record is tells what became of its submission.
Places ==
  /\ \A s \in Submissions :
       /\ InSlot(s) \/ InHand(s) \/ drains[s] = 1 => s \in minted
       /\ s \in reservation => InSlot(s)
       /\ driver[s] # "absent" => InSlot(s) \/ InHand(s) \/ drains[s] = 1
  /\ \A i \in Slots, s \in Submissions :
       Holds(i, s) => (slots[i].committed <=> s \notin reservation)
  /\ \A d \in Drainers : taken[d] # {} => stage[d] = "processing"

\* A record is reported by the drain that takes it out, with its status, and a
\* status other than Cancelled comes from the driver.
Reports ==
  /\ \A s \in Submissions :
       /\ InSlot(s) => reported[s] = "Pending"
       /\ drains[s] = 1 => reported[s] \in Terminal
       /\ reported[s] # "Pending" => InHand(s) \/ drains[s] = 1
       /\ reported[s] \in {"Success", "Error"} => driver[s] = "reported"
  /\ \A i \in Slots, s \in Submissions :
       Holds(i, s) /\ slots[i].status \in {"Success", "Error"} => driver[s] = "reported"
  /\ \A d \in Drainers : \A r \in taken[d] :
       r.status \in Terminal /\ reported[r.submission] = r.status

\* Leases and payloads are where the record is.
Attached ==
  \A s \in Submissions :
    /\ leases[s] = "held" \/ payloads[s] = "held" => InSlot(s) \/ InHand(s)
    /\ leases[s] = "released" => drains[s] = 1

Counted == inFlight = Cardinality(CommittedSlots)

IInv ==
  /\ Types
  /\ OneRecord
  /\ Places
  /\ Reports
  /\ Attached
  /\ Counted

-----------------------------------------------------------------------------
(* The constants, the smallest free slot, and the slot of a submission.    *)

LEMMA ConstantsHold ==
  /\ IsFiniteSet(Submissions)
  /\ Capacity \in Nat
  /\ NoSlot \notin SlotRecord
BY DrainAssumption

LEMMA SlotsAreFinite ==
  /\ Slots \subseteq Nat
  /\ IsFiniteSet(Slots)
  /\ Cardinality(Slots) = Capacity
BY ConstantsHold, FS_Interval DEF Slots

\* The first slot the search of reserve finds is one of those it looks for.
LEMMA MinIsFound ==
  ASSUME NEW ii \in SUBSET Slots, ii # {}
  PROVE  Min(ii) \in ii
<1> DEFINE less == {ss \in Nat \X Nat : ss[1] < ss[2]}
<1>1. IsWellFoundedOn(less, Nat)
  BY NatLessThanWellFounded, Zenon DEF OpToRel
<1>2. \E i \in ii : \A j \in ii : i =< j
  <2>1. PICK i \in ii : \A j \in ii : <<j, i>> \notin less
    <3> HIDE DEF less
    <3>1. QED BY <1>1, SlotsAreFinite, WFMin
  <2>2. ASSUME NEW j \in ii, ~(i =< j) PROVE FALSE
    <3>1. j < i /\ j \in Nat /\ i \in Nat
      BY <2>2, SlotsAreFinite
    <3>2. <<j, i>> \in less
      BY <3>1
    <3>3. QED BY <2>1, <3>2
  <2>3. QED BY <2>2
<1>3. QED BY <1>2 DEF Min

LEMMA MinOfOne ==
  ASSUME NEW i \in Slots
  PROVE  Min({i}) = i
BY MinIsFound

LEMMA RecordTypes ==
  ASSUME Types, NEW i \in Slots, slots[i] # NoSlot
  PROVE  /\ slots[i] \in SlotRecord
         /\ slots[i].submission \in Submissions
         /\ slots[i].status \in Statuses
         /\ slots[i].committed \in BOOLEAN
         /\ Holds(i, slots[i].submission)
<1>1. slots[i] \in SlotRecord
  BY DEF Types
<1>2. QED BY <1>1 DEF SlotRecord, Holds

\* With one record for a submission, the search finds its slot.
LEMMA SlotOfFound ==
  ASSUME OneRecord, NEW s \in Submissions, NEW i \in Slots, Holds(i, s)
  PROVE  SlotsOf(s) = {i} /\ SlotOf(s) = i
<1>1. SlotsOf(s) = {i}
  BY DEF SlotsOf, Occupied, OneRecord, Holds
<1>2. QED BY <1>1, MinOfOne DEF SlotOf

LEMMA NoSlotFound ==
  ASSUME NEW s \in Submissions
  PROVE  (SlotsOf(s) = {}) <=> ~InSlot(s)
BY DEF SlotsOf, Occupied, InSlot, Holds

LEMMA InitHolds == Init => IInv
<1> SUFFICES ASSUME Init PROVE IInv
  OBVIOUS
<1>1. Types
  BY DEF Init, Types, Statuses
<1>2. \A s \in Submissions : ~InSlot(s) /\ ~InHand(s)
  BY DEF Init, InSlot, InHand, Holds
<1>3. \A i \in Slots, s \in Submissions : ~Holds(i, s)
  BY DEF Init, Holds
<1>4. \A d \in Drainers : taken[d] = {}
  BY DEF Init
<1>5. OneRecord /\ Places /\ Reports /\ Attached
  BY <1>2, <1>3, <1>4 DEF Init, OneRecord, Places, Reports, Attached
<1>6. Counted
  <2>1. CommittedSlots = {}
    BY DEF Init, CommittedSlots, Occupied
  <2>2. QED BY <2>1, FS_EmptySet DEF Init, Counted
<1>7. QED BY <1>1, <1>5, <1>6 DEF IInv

-----------------------------------------------------------------------------
(* Steps that leave the records where they are.                            *)

\* The records, and who reported what of them.
records == <<slots, inFlight, minted, reservation, taken, reported, drains>>

LEMMA RecordsStay ==
  ASSUME UNCHANGED records
  PROVE  /\ \A s : InSlot(s)' = InSlot(s)
         /\ \A s : InHand(s)' = InHand(s)
         /\ \A i, s : Holds(i, s)' = Holds(i, s)
         /\ CommittedSlots' = CommittedSlots
         /\ OneRecord => OneRecord'
         /\ Counted => Counted'
BY DEF records, InSlot, InHand, Holds, CommittedSlots, Occupied, OneRecord, Counted

\* The wake, closing and the progress of a drain.
LEMMA QuietStep ==
  ASSUME IInv, UNCHANGED <<records, leases, payloads, driver>>,
         stage' \in [Drainers -> {"idle", "cleared", "processing", "drained"}],
         \A d \in Drainers : stage'[d] = stage[d] \/ taken[d] = {}
  PROVE  IInv'
<1>1. Types'
  BY DEF IInv, Types, records
<1>2. OneRecord' /\ Counted'
  BY RecordsStay DEF IInv
<1>3. Places'
  BY RecordsStay DEF IInv, Places, records
<1>4. Reports'
  BY RecordsStay DEF IInv, Reports, records
<1>5. Attached'
  BY RecordsStay DEF IInv, Attached, records
<1>6. QED BY <1>1, <1>2, <1>3, <1>4, <1>5 DEF IInv

\* What is attached to a reserved record, and what the maintenance thread does
\* with what the drain has moved on.
LEMMA AttachStep ==
  ASSUME IInv, NEW s \in Submissions,
         AttachLease(s) \/ AttachRetiredPayload(s) \/ DestroyRetired(s)
  PROVE  IInv'
<1>1. UNCHANGED records /\ UNCHANGED <<stage, driver>>
  BY DEF AttachLease, AttachRetiredPayload, DestroyRetired, records, queue, threads
<1>2. Types'
  BY <1>1 DEF IInv, Types, records, AttachLease, AttachRetiredPayload, DestroyRetired
<1>3. OneRecord' /\ Counted'
  BY <1>1, RecordsStay DEF IInv
<1>4. Places'
  BY <1>1, RecordsStay DEF IInv, Places, records
<1>5. Reports'
  BY <1>1, RecordsStay DEF IInv, Reports, records
<1>6. Attached'
  <2>1. CASE AttachLease(s)
    BY <1>1, <2>1, RecordsStay DEF IInv, Types, Places, Attached, AttachLease, records
  <2>2. CASE AttachRetiredPayload(s)
    BY <1>1, <2>2, RecordsStay
       DEF IInv, Types, Places, Attached, AttachRetiredPayload, records
  <2>3. CASE DestroyRetired(s)
    BY <1>1, <2>3, RecordsStay DEF IInv, Types, Attached, DestroyRetired, records
  <2>4. QED BY <2>1, <2>2, <2>3
<1>7. QED BY <1>2, <1>3, <1>4, <1>5, <1>6 DEF IInv

\* The driver is given the work of a record that has a slot, and finishes it.
LEMMA DriverStep ==
  ASSUME IInv, NEW s \in Submissions, Submit(s) \/ DriverFinishes(s)
  PROVE  IInv'
<1>1. UNCHANGED records /\ UNCHANGED <<stage, leases, payloads>>
  BY DEF Submit, DriverFinishes, records, queue, threads
<1>2. Types'
  BY <1>1 DEF IInv, Types, records, Submit, DriverFinishes
<1>3. OneRecord' /\ Counted'
  BY <1>1, RecordsStay DEF IInv
<1>4. Places'
  <2>1. InSlot(s) \/ InHand(s) \/ drains[s] = 1
    <3>1. CASE Submit(s)
      BY <3>1, NoSlotFound DEF IInv, Places, Submit, Committed
    <3>2. CASE DriverFinishes(s)
      BY <3>2 DEF IInv, Places, DriverFinishes
    <3>3. QED BY <3>1, <3>2
  <2>2. \A t \in Submissions : t # s => driver'[t] = driver[t]
    BY DEF IInv, Types, Submit, DriverFinishes
  <2>3. QED BY <1>1, <2>1, <2>2, RecordsStay DEF IInv, Places, records
<1>5. Reports'
  <2>1. \A t \in Submissions : driver[t] = "reported" => driver'[t] = "reported"
    BY DEF IInv, Types, Submit, DriverFinishes
  <2>2. QED BY <1>1, <2>1, RecordsStay DEF IInv, Reports, records
<1>6. Attached'
  BY <1>1, RecordsStay DEF IInv, Attached, records
<1>7. QED BY <1>2, <1>3, <1>4, <1>5, <1>6 DEF IInv

-----------------------------------------------------------------------------
(* Reservations.                                                           *)

LEMMA HandsStay ==
  ASSUME UNCHANGED taken
  PROVE  \A s : InHand(s)' = InHand(s)
BY DEF InHand

LEMMA ReserveStep ==
  ASSUME IInv, NEW s \in Submissions, Reserve(s)
  PROVE  IInv'
<1> DEFINE i == Min(FreeSlots)
           r == [submission |-> s, status |-> "Pending", committed |-> FALSE]
<1>1. i \in Slots /\ slots[i] = NoSlot
  <2>1. FreeSlots \in SUBSET Slots /\ FreeSlots # {}
    BY DEF Reserve, FreeSlots
  <2>2. Min(FreeSlots) \in FreeSlots
    BY <2>1, MinIsFound
  <2>3. QED BY <2>2 DEF FreeSlots
<1>2. slots' = [slots EXCEPT ![i] = r]
  BY DEF Reserve
<1>3. r \in SlotRecord /\ r # NoSlot
  <2>1. r \in SlotRecord
    BY DEF SlotRecord, Statuses
  <2>2. QED BY <2>1, ConstantsHold
<1>4. r.submission = s /\ r.status = "Pending" /\ r.committed = FALSE
  OBVIOUS
<1> HIDE DEF i, r
<1>5. s \notin minted /\ minted' = minted \cup {s} /\ reservation' = reservation \cup {s}
  BY DEF Reserve
<1>6. UNCHANGED <<inFlight, stage, taken, leases, payloads, driver, reported, drains>>
  BY DEF Reserve, effects
<1>7. slots'[i] = r /\ \A j \in Slots : j # i => slots'[j] = slots[j]
  BY <1>1, <1>2 DEF IInv, Types
<1>8. \A j \in Slots, t \in Submissions :
        Holds(j, t)' <=> Holds(j, t) \/ (j = i /\ t = s)
  BY <1>1, <1>3, <1>4, <1>7 DEF Holds
<1>9. \A t \in Submissions : /\ InSlot(t)' <=> InSlot(t) \/ t = s
                             /\ InHand(t)' <=> InHand(t)
  BY <1>1, <1>6, <1>8, HandsStay DEF InSlot
<1>10. ~InSlot(s) /\ ~InHand(s) /\ drains[s] # 1 /\ \A j \in Slots : ~Holds(j, s)
  BY <1>5 DEF IInv, Places, InSlot
<1>11. Types'
  BY <1>1, <1>2, <1>3, <1>5, <1>6 DEF IInv, Types
<1>12. OneRecord'
  BY <1>6, <1>8, <1>9, <1>10 DEF IInv, OneRecord
<1>13. Places'
  <2>1. \A t \in Submissions :
          /\ (InSlot(t) \/ InHand(t) \/ drains[t] = 1 => t \in minted)'
          /\ (t \in reservation => InSlot(t))'
          /\ (driver[t] # "absent" => InSlot(t) \/ InHand(t) \/ drains[t] = 1)'
    BY <1>5, <1>6, <1>9 DEF IInv, Places
  <2>2. \A j \in Slots, t \in Submissions :
          (Holds(j, t) => (slots[j].committed <=> t \notin reservation))'
    BY <1>1, <1>4, <1>5, <1>7, <1>8, <1>10 DEF IInv, Places, Holds
  <2>3. QED BY <1>6, <2>1, <2>2 DEF IInv, Places
<1>14. Reports'
  <2>1. reported[s] = "Pending"
    BY <1>10 DEF IInv, Reports
  <2>2. \A j \in Slots, t \in Submissions :
          (Holds(j, t) /\ slots[j].status \in {"Success", "Error"} => driver[t] = "reported")'
    BY <1>1, <1>4, <1>6, <1>7, <1>8 DEF IInv, Reports, Holds
  <2>3. QED BY <1>6, <1>9, <2>1, <2>2 DEF IInv, Reports
<1>15. Attached'
  BY <1>6, <1>9 DEF IInv, Attached
<1>16. Counted'
  <2>1. CommittedSlots' = CommittedSlots
    BY <1>1, <1>3, <1>4, <1>7 DEF CommittedSlots, Occupied
  <2>2. QED BY <1>6, <2>1 DEF IInv, Counted
<1>17. QED BY <1>11, <1>12, <1>13, <1>14, <1>15, <1>16 DEF IInv

\* The slot of a reservation, which is not committed.
LEMMA ReservedSlot ==
  ASSUME IInv, NEW s \in reservation
  PROVE  /\ s \in Submissions
         /\ SlotOf(s) \in Slots /\ Holds(SlotOf(s), s)
         /\ slots[SlotOf(s)].committed = FALSE
         /\ ~InHand(s) /\ drains[s] # 1 /\ reported[s] = "Pending"
<1>1. s \in Submissions /\ InSlot(s)
  BY DEF IInv, Types, Places
<1>2. PICK i \in Slots : Holds(i, s)
  BY <1>1 DEF InSlot
<1>3. SlotOf(s) = i
  BY <1>1, <1>2, SlotOfFound DEF IInv
<1>4. slots[i].committed \in BOOLEAN
  BY <1>2, RecordTypes DEF Holds, IInv
<1>5. QED BY <1>1, <1>2, <1>3, <1>4 DEF IInv, OneRecord, Places, Reports

\* A record whose fields are set keeps its slot and its submission.
LEMMA FieldSet ==
  ASSUME Types, NEW i \in Slots, slots[i] # NoSlot, NEW r \in SlotRecord,
         slots' = [slots EXCEPT ![i] = r],
         r.submission = slots[i].submission
  PROVE  /\ slots' \in [Slots -> SlotRecord \cup {NoSlot}]
         /\ slots'[i] = r
         /\ \A j \in Slots : j # i => slots'[j] = slots[j]
         /\ \A j \in Slots, t \in Submissions : Holds(j, t)' <=> Holds(j, t)
         /\ \A t \in Submissions : InSlot(t)' <=> InSlot(t)
<1>1. slots' \in [Slots -> SlotRecord \cup {NoSlot}]
  BY DEF Types
<1>2. slots'[i] = r /\ \A j \in Slots : j # i => slots'[j] = slots[j]
  BY DEF Types
<1>3. \A j \in Slots, t \in Submissions : Holds(j, t)' <=> Holds(j, t)
  BY <1>2, ConstantsHold DEF Holds
<1>4. \A t \in Submissions : InSlot(t)' <=> InSlot(t)
  BY <1>3 DEF InSlot
<1>5. QED BY <1>1, <1>2, <1>3, <1>4

LEMMA CommitStep ==
  ASSUME IInv, NEW s \in Submissions, Commit(s)
  PROVE  IInv'
<1> DEFINE i == SlotOf(s)
           r == [slots[i] EXCEPT !.committed = TRUE]
<1>1. s \in reservation /\ reservation' = reservation \ {s} /\ inFlight' = inFlight + 1
  BY DEF Commit
<1>2. UNCHANGED <<minted, stage, taken, leases, payloads, driver, reported, drains>>
  BY DEF Commit, effects
<1>3. i \in Slots /\ Holds(i, s) /\ slots[i].committed = FALSE
  BY <1>1, ReservedSlot
<1>4. slots[i] # NoSlot /\ slots[i] \in SlotRecord
  BY <1>3, RecordTypes DEF Holds, IInv
<1>5. slots' = [slots EXCEPT ![i] = r]
  BY DEF Commit
<1>6. /\ r \in SlotRecord /\ r.submission = slots[i].submission
      /\ r.status = slots[i].status /\ r.committed = TRUE
  BY <1>4 DEF SlotRecord
<1> HIDE DEF i, r
<1>7. /\ slots' \in [Slots -> SlotRecord \cup {NoSlot}]
      /\ slots'[i] = r
      /\ \A j \in Slots : j # i => slots'[j] = slots[j]
      /\ \A j \in Slots, t \in Submissions : Holds(j, t)' <=> Holds(j, t)
      /\ \A t \in Submissions : InSlot(t)' <=> InSlot(t)
  BY <1>3, <1>4, <1>5, <1>6, FieldSet DEF IInv
<1>8. \A t \in Submissions : InHand(t)' <=> InHand(t)
  BY <1>2, HandsStay
<1>9. Types'
  BY <1>1, <1>2, <1>7 DEF IInv, Types
<1>10. OneRecord'
  BY <1>2, <1>7, <1>8 DEF IInv, OneRecord
<1>11. Places'
  <2>1. \A j \in Slots, t \in Submissions :
          (Holds(j, t) => (slots[j].committed <=> t \notin reservation))'
    <3>1. \A j \in Slots, t \in Submissions : Holds(j, t) => (j = i <=> t = s)
      BY <1>3 DEF IInv, OneRecord, Holds
    <3>2. QED BY <1>1, <1>6, <1>7, <3>1 DEF IInv, Places
  <2>2. QED BY <1>1, <1>2, <1>7, <1>8, <2>1 DEF IInv, Places
<1>12. Reports'
  BY <1>2, <1>6, <1>7, <1>8 DEF IInv, Reports
<1>13. Attached'
  BY <1>2, <1>7, <1>8 DEF IInv, Attached
<1>14. Counted'
  <2>1. CommittedSlots' = CommittedSlots \cup {i}
    BY <1>3, <1>4, <1>6, <1>7, ConstantsHold DEF CommittedSlots, Occupied
  <2>2. i \notin CommittedSlots /\ CommittedSlots \in SUBSET Slots
    BY <1>3 DEF CommittedSlots, Occupied
  <2>3. Cardinality(CommittedSlots \cup {i}) = Cardinality(CommittedSlots) + 1
    BY <2>2, SlotsAreFinite, FS_Subset, FS_AddElement
  <2>4. QED BY <1>1, <2>1, <2>3 DEF IInv, Counted
<1>15. QED BY <1>9, <1>10, <1>11, <1>12, <1>13, <1>14 DEF IInv

LEMMA AbortStep ==
  ASSUME IInv, NEW s \in Submissions, Abort(s)
  PROVE  IInv'
<1> DEFINE i == SlotOf(s)
<1>1. s \in reservation /\ reservation' = reservation \ {s} /\ driver[s] = "absent"
  BY DEF Abort
<1>2. UNCHANGED <<inFlight, minted, stage, taken, driver, reported, drains>>
  BY DEF Abort
<1>3. /\ i \in Slots /\ Holds(i, s) /\ slots[i].committed = FALSE
      /\ ~InHand(s) /\ drains[s] # 1 /\ reported[s] = "Pending"
  BY <1>1, ReservedSlot
<1>4. slots' = [slots EXCEPT ![i] = NoSlot]
  BY DEF Abort
<1> HIDE DEF i
<1>5. slots'[i] = NoSlot /\ \A j \in Slots : j # i => slots'[j] = slots[j]
  BY <1>3, <1>4 DEF IInv, Types
<1>6. \A j \in Slots, t \in Submissions : Holds(j, t)' <=> Holds(j, t) /\ t # s
  BY <1>3, <1>5 DEF IInv, OneRecord, Holds
<1>7. \A t \in Submissions : /\ InSlot(t)' <=> InSlot(t) /\ t # s
                             /\ InHand(t)' <=> InHand(t)
  BY <1>2, <1>6, HandsStay DEF InSlot
<1>8. /\ leases'[s] = "none" /\ payloads'[s] = "none"
      /\ \A t \in Submissions : t # s => leases'[t] = leases[t] /\ payloads'[t] = payloads[t]
  BY DEF Abort, IInv, Types
<1>9. Types'
  BY <1>1, <1>2, <1>3, <1>4 DEF IInv, Types, Abort
<1>10. OneRecord'
  BY <1>2, <1>6, <1>7 DEF IInv, OneRecord
<1>11. Places'
  <2>1. \A j \in Slots, t \in Submissions :
          (Holds(j, t) => (slots[j].committed <=> t \notin reservation))'
    BY <1>1, <1>5, <1>6 DEF IInv, Places, Holds
  <2>2. QED BY <1>1, <1>2, <1>7, <2>1 DEF IInv, Places
<1>12. Reports'
  <2>1. \A j \in Slots, t \in Submissions :
          (Holds(j, t) /\ slots[j].status \in {"Success", "Error"} => driver[t] = "reported")'
    BY <1>2, <1>5, <1>6 DEF IInv, Reports, Holds
  <2>2. QED BY <1>2, <1>7, <2>1 DEF IInv, Reports
<1>13. Attached'
  BY <1>2, <1>3, <1>7, <1>8 DEF IInv, Attached
<1>14. Counted'
  <2>1. CommittedSlots' = CommittedSlots
    BY <1>3, <1>5 DEF CommittedSlots, Occupied
  <2>2. QED BY <1>2, <2>1 DEF IInv, Counted
<1>15. QED BY <1>9, <1>10, <1>11, <1>12, <1>13, <1>14 DEF IInv

-----------------------------------------------------------------------------
(* Settling.                                                               *)

\* A callback or a canceller sets the status of the record it finds; only the
\* driver sets one other than Cancelled.
LEMMA SettleStep ==
  ASSUME IInv, NEW s \in Submissions, NEW status \in Terminal,
         InSlot(s), slots' = Settled(s, status),
         UNCHANGED <<inFlight, minted, reservation, stage, taken, leases, payloads,
                     reported, drains>>,
         driver' \in [Submissions -> {"absent", "running", "finished", "reported"}],
         \A t \in Submissions : /\ driver[t] = "reported" => driver'[t] = "reported"
                                /\ driver'[t] = "absent" <=> driver[t] = "absent",
         status # "Cancelled" => driver'[s] = "reported"
  PROVE  IInv'
<1> DEFINE i == SlotOf(s)
           r == [slots[i] EXCEPT !.status = status]
<1>1. i \in Slots /\ Holds(i, s)
  BY SlotOfFound DEF IInv, InSlot
<1>2. slots[i] # NoSlot /\ slots[i] \in SlotRecord
  BY <1>1, RecordTypes DEF Holds, IInv
<1>3. slots' = [slots EXCEPT ![i] = r]
  BY DEF Settled
<1>4. /\ r \in SlotRecord /\ r.submission = slots[i].submission
      /\ r.status = status /\ r.committed = slots[i].committed
  BY <1>2 DEF SlotRecord, Statuses
<1> HIDE DEF i, r
<1>5. /\ slots' \in [Slots -> SlotRecord \cup {NoSlot}]
      /\ slots'[i] = r
      /\ \A j \in Slots : j # i => slots'[j] = slots[j]
      /\ \A j \in Slots, t \in Submissions : Holds(j, t)' <=> Holds(j, t)
      /\ \A t \in Submissions : InSlot(t)' <=> InSlot(t)
  BY <1>1, <1>2, <1>3, <1>4, FieldSet DEF IInv
<1>6. \A t \in Submissions : InHand(t)' <=> InHand(t)
  BY HandsStay
<1>7. Types'
  BY <1>5 DEF IInv, Types
<1>8. OneRecord'
  BY <1>5, <1>6 DEF IInv, OneRecord
<1>9. Places'
  BY <1>4, <1>5, <1>6 DEF IInv, Places
<1>10. Reports'
  <2>1. \A j \in Slots, t \in Submissions :
          (Holds(j, t) /\ slots[j].status \in {"Success", "Error"} => driver[t] = "reported")'
    <3>1. \A t \in Submissions : Holds(i, t) => t = s
      BY <1>1 DEF Holds
    <3>2. QED BY <1>4, <1>5, <3>1 DEF IInv, Reports, Terminal
  <2>2. QED BY <1>5, <1>6, <2>1 DEF IInv, Reports
<1>11. Attached'
  BY <1>5, <1>6 DEF IInv, Attached
<1>12. Counted'
  <2>1. CommittedSlots' = CommittedSlots
    BY <1>1, <1>2, <1>4, <1>5, ConstantsHold DEF CommittedSlots, Occupied
  <2>2. QED BY <2>1 DEF IInv, Counted
<1>13. QED BY <1>7, <1>8, <1>9, <1>10, <1>11, <1>12 DEF IInv

\* A callback of a submission whose record is gone changes nothing but itself.
LEMMA RecordCompletionStep ==
  ASSUME IInv, NEW s \in Submissions, NEW status \in {"Success", "Error"},
         RecordCompletion(s, status)
  PROVE  IInv'
<1>1. UNCHANGED <<inFlight, minted, reservation, stage, taken, leases, payloads,
                  reported, drains>>
  BY DEF RecordCompletion
<1>2. /\ driver' \in [Submissions -> {"absent", "running", "finished", "reported"}]
      /\ driver'[s] = "reported" /\ driver[s] = "finished"
      /\ \A t \in Submissions : t # s => driver'[t] = driver[t]
  BY DEF RecordCompletion, IInv, Types
<1>3. CASE InSlot(s)
  <2>1. slots' = Settled(s, status)
    BY <1>3, NoSlotFound DEF RecordCompletion
  <2>2. QED BY <1>1, <1>2, <1>3, <2>1, SettleStep DEF Terminal
<1>4. CASE ~InSlot(s)
  <2>1. UNCHANGED records /\ UNCHANGED <<stage, leases, payloads>>
    BY <1>1, <1>4, NoSlotFound DEF RecordCompletion, records
  <2>2. Types'
    BY <1>2, <2>1 DEF IInv, Types, records
  <2>3. OneRecord' /\ Counted'
    BY <2>1, RecordsStay DEF IInv
  <2>4. Places' /\ Reports' /\ Attached'
    BY <1>2, <2>1, RecordsStay DEF IInv, Places, Reports, Attached, records
  <2>5. QED BY <2>2, <2>3, <2>4 DEF IInv
<1>5. QED BY <1>3, <1>4

LEMMA CancelStep ==
  ASSUME IInv, NEW s \in Submissions, CancelSubmission(s)
  PROVE  IInv'
<1>1. UNCHANGED <<inFlight, minted, reservation, stage, taken, leases, payloads,
                  reported, drains, driver>>
  BY DEF CancelSubmission, effects
<1>2. InSlot(s) /\ slots' = Settled(s, "Cancelled")
  BY NoSlotFound DEF CancelSubmission
<1>3. driver \in [Submissions -> {"absent", "running", "finished", "reported"}]
  BY DEF IInv, Types
<1>4. QED BY <1>1, <1>2, <1>3, SettleStep DEF Terminal

-----------------------------------------------------------------------------
(* Drains.                                                                 *)

InCompleted(s) == \E i \in Completed : Holds(i, s)

\* What the critical section of a drain moves from the slots to its hands.
LEMMA TakeMoves ==
  ASSUME IInv, NEW d \in Drainers, TakeCompleted(d)
  PROVE  /\ taken[d] = {} /\ taken'[d] = {slots[i] : i \in Completed}
         /\ \A e \in Drainers : e # d => taken'[e] = taken[e]
         /\ \A i \in Slots : slots'[i] = IF i \in Completed THEN NoSlot ELSE slots[i]
         /\ \A i \in Slots, s \in Submissions :
              Holds(i, s)' <=> Holds(i, s) /\ i \notin Completed
         /\ \A s \in Submissions : InSlot(s)' <=> InSlot(s) /\ ~InCompleted(s)
         /\ \A s \in Submissions : InHand(s)' <=> InHand(s) \/ InCompleted(s)
         /\ \A s \in Submissions : ~InCompleted(s) => reported'[s] = reported[s]
         /\ \A i \in Completed, s \in Submissions :
              Holds(i, s) => reported'[s] = slots[i].status
<1>1. Completed \subseteq Slots /\ \A i \in Completed : slots[i] # NoSlot
  BY DEF Completed, Occupied
<1>2. taken[d] = {}
  BY DEF TakeCompleted, IInv, Places
<1>3. /\ taken'[d] = {slots[i] : i \in Completed}
      /\ \A e \in Drainers : e # d => taken'[e] = taken[e]
  BY DEF TakeCompleted, IInv, Types
<1>4. \A i \in Slots : slots'[i] = IF i \in Completed THEN NoSlot ELSE slots[i]
  BY DEF TakeCompleted, SlotsAfterTaking
<1>5. \A i \in Slots, s \in Submissions :
        Holds(i, s)' <=> Holds(i, s) /\ i \notin Completed
  BY <1>4 DEF Holds
<1>6. \A s \in Submissions : InSlot(s)' <=> InSlot(s) /\ ~InCompleted(s)
  BY <1>1, <1>5 DEF InSlot, InCompleted, IInv, OneRecord
<1>7. \A s \in Submissions : InHand(s)' <=> InHand(s) \/ InCompleted(s)
  <2>1. \A s \in Submissions :
          InCompleted(s) <=> \E r \in taken'[d] : r.submission = s
    BY <1>1, <1>3 DEF InCompleted, Holds
  <2>2. QED BY <1>2, <1>3, <2>1 DEF InHand
<1>8. \A s \in Submissions :
        reported'[s] = IF InCompleted(s) THEN slots[SlotOf(s)].status ELSE reported[s]
  BY <1>1 DEF TakeCompleted, InCompleted, Holds
<1>9. \A i \in Completed, s \in Submissions : Holds(i, s) => SlotOf(s) = i
  BY <1>1, SlotOfFound DEF IInv
<1>10. QED BY <1>2, <1>3, <1>4, <1>5, <1>6, <1>7, <1>8, <1>9 DEF InCompleted

LEMMA TakeCounts ==
  ASSUME IInv, NEW d \in Drainers, TakeCompleted(d)
  PROVE  Counted'
<1>1. /\ CommittedSlots \in SUBSET Slots /\ Completed \subseteq CommittedSlots
      /\ CommittedSlots \cap Completed = Completed
  BY DEF CommittedSlots, Completed, Occupied
<1>2. CommittedSlots' = CommittedSlots \ Completed
  BY TakeMoves DEF CommittedSlots, Occupied
<1>3. /\ IsFiniteSet(CommittedSlots)
      /\ Cardinality(CommittedSlots) \in Nat /\ Cardinality(Completed) \in Nat
      /\ Cardinality(Completed) <= Cardinality(CommittedSlots)
  BY <1>1, SlotsAreFinite, FS_Subset, FS_CardinalityType
<1>4. Cardinality(CommittedSlots \ Completed)
        = Cardinality(CommittedSlots) - Cardinality(Completed)
  BY <1>1, <1>3, FS_Difference
<1>5. inFlight' = Monus(Cardinality(CommittedSlots), Cardinality(Completed))
  BY DEF TakeCompleted, IInv, Counted
<1>6. QED BY <1>2, <1>3, <1>4, <1>5 DEF Counted, Monus

LEMMA TakeStep ==
  ASSUME IInv, NEW d \in Drainers, TakeCompleted(d)
  PROVE  IInv'
<1>1. UNCHANGED <<minted, reservation, leases, payloads, driver, drains>>
  BY DEF TakeCompleted
<1>2. \A i \in Completed :
        /\ i \in Slots /\ slots[i] \in SlotRecord
        /\ slots[i].submission \in Submissions /\ Holds(i, slots[i].submission)
        /\ slots[i].status \in Terminal
  BY RecordTypes DEF IInv, Completed, Occupied
<1>3. \A r \in taken'[d] : \E i \in Completed : r = slots[i]
  BY TakeMoves
<1>4. Types'
  <2>1. taken' \in [Drainers -> SUBSET SlotRecord]
    BY <1>2 DEF TakeCompleted, IInv, Types
  <2>2. slots' \in [Slots -> SlotRecord \cup {NoSlot}]
    BY DEF TakeCompleted, SlotsAfterTaking, IInv, Types
  <2>3. reported' \in [Submissions -> Statuses]
    <3>1. \A s \in Submissions : reported'[s] \in Statuses
      BY <1>2, TakeMoves DEF InCompleted, Statuses, IInv, Types
    <3>2. QED BY <3>1 DEF TakeCompleted
  <2>4. stage' \in [Drainers -> {"idle", "cleared", "processing", "drained"}]
    BY DEF TakeCompleted, IInv, Types
  <2>5. QED BY <1>1, <2>1, <2>2, <2>3, <2>4 DEF IInv, Types
<1>5. OneRecord'
  <2>1. \A r, q \in taken'[d] : r.submission = q.submission => r = q
    BY <1>2, <1>3 DEF IInv, OneRecord
  <2>2. \A r \in taken'[d] : InSlot(r.submission)
    BY <1>2, <1>3 DEF InSlot
  <2>3. \A e \in Drainers : \A r \in taken[e], q \in taken'[d] :
          r.submission # q.submission
    BY <1>2, <1>3, <2>2 DEF IInv, OneRecord, InHand
  <2>4. \A e, f \in Drainers : \A r \in taken'[e], q \in taken'[f] :
          r.submission = q.submission => e = f /\ r = q
    BY <2>1, <2>3, TakeMoves DEF IInv, OneRecord
  <2>5. \A s \in Submissions : InCompleted(s) => InSlot(s)
    BY <1>2 DEF InCompleted, InSlot
  <2>6. QED BY <1>1, <2>4, <2>5, TakeMoves DEF IInv, OneRecord
<1>6. Places'
  <2>1. \A s \in reservation : ~InCompleted(s)
    BY <1>2 DEF InCompleted, Completed, IInv, Types, Places, Holds
  <2>2. \A e \in Drainers : taken'[e] # {} => stage'[e] = "processing"
    BY TakeMoves DEF TakeCompleted, IInv, Types, Places
  <2>3. \A s \in Submissions : InCompleted(s) => InSlot(s)
    BY <1>2 DEF InCompleted, InSlot
  <2>4. \A s \in Submissions :
          /\ (InSlot(s) \/ InHand(s) \/ drains[s] = 1 => s \in minted)'
          /\ (s \in reservation => InSlot(s))'
          /\ (driver[s] # "absent" => InSlot(s) \/ InHand(s) \/ drains[s] = 1)'
    BY <1>1, <2>1, <2>3, TakeMoves DEF IInv, Places
  <2>5. \A i \in Slots, s \in Submissions :
          (Holds(i, s) => (slots[i].committed <=> s \notin reservation))'
    BY <1>1, TakeMoves DEF IInv, Places
  <2>6. QED BY <2>2, <2>4, <2>5 DEF Places
<1>7. Reports'
  <2>1. \A s \in Submissions : InCompleted(s) => InSlot(s) /\ drains[s] # 1
    BY <1>2 DEF InCompleted, InSlot, IInv, OneRecord
  <2>2. \A s \in Submissions :
          reported'[s] \in {"Success", "Error"} => driver[s] = "reported"
    BY <1>2, TakeMoves DEF InCompleted, IInv, Reports
  <2>3. \A s \in Submissions :
          /\ (InSlot(s) => reported[s] = "Pending")'
          /\ (drains[s] = 1 => reported[s] \in Terminal)'
          /\ (reported[s] # "Pending" => InHand(s) \/ drains[s] = 1)'
    BY <1>1, <2>1, TakeMoves DEF IInv, Reports
  <2>4. \A i \in Slots, s \in Submissions :
          (Holds(i, s) /\ slots[i].status \in {"Success", "Error"} => driver[s] = "reported")'
    BY <1>1, TakeMoves DEF IInv, Reports
  <2>5. \A e \in Drainers : \A r \in taken'[e] :
          r.status \in Terminal /\ reported'[r.submission] = r.status
    <3>1. \A r \in taken'[d] : r.status \in Terminal /\ reported'[r.submission] = r.status
      BY <1>2, <1>3, TakeMoves
    <3>2. \A e \in Drainers : \A r \in taken[e] : r.submission \in Submissions /\ InHand(r.submission)
      BY DEF IInv, Types, SlotRecord, InHand
    <3>3. \A e \in Drainers : \A r \in taken[e] : reported'[r.submission] = reported[r.submission]
      BY <2>1, <3>2, TakeMoves DEF IInv, OneRecord
    <3>4. QED BY <3>1, <3>3, TakeMoves DEF IInv, Reports
  <2>6. QED BY <1>1, <2>2, <2>3, <2>4, <2>5 DEF Reports
<1>8. Attached'
  BY <1>1, TakeMoves DEF IInv, Attached
<1>9. QED BY <1>4, <1>5, <1>6, <1>7, <1>8, TakeCounts DEF IInv

LEMMA ProcessStep ==
  ASSUME IInv, NEW d \in Drainers, ProcessRecord(d)
  PROVE  IInv'
<1> PICK r \in taken[d] :
      LET s == r.submission
      IN  /\ stage[d] = "processing"
          /\ taken' = [taken EXCEPT ![d] = @ \ {r}]
          /\ leases' = [leases EXCEPT ![s] = Released(r)]
          /\ payloads' = [payloads EXCEPT ![s] =
               IF @ # "held" THEN @
               ELSE IF Cardinality(Queued) < RetirementRoom THEN "queued"
               ELSE "inline"]
          /\ drains' = [drains EXCEPT ![s] = @ + 1]
          /\ UNCHANGED <<queue, flag, minted, reservation, signal, stage,
                         driver, reported, probe>>
  BY DEF ProcessRecord
<1> DEFINE s == r.submission
<1>1. UNCHANGED <<slots, inFlight, minted, reservation, stage, driver, reported>>
  BY DEF queue
<1>2. /\ r \in SlotRecord /\ s \in Submissions /\ InHand(s)
      /\ r.status \in Terminal /\ reported[s] = r.status
  BY DEF IInv, Types, Reports, SlotRecord, InHand
<1>3. drains[s] = 0 /\ ~InSlot(s) /\ s \in minted
  BY <1>2 DEF IInv, Types, OneRecord, Places
<1>4. /\ taken'[d] = taken[d] \ {r}
      /\ \A e \in Drainers : e # d => taken'[e] = taken[e]
      /\ \A e \in Drainers : taken'[e] \subseteq taken[e]
  BY DEF IInv, Types
<1>5. drains'[s] = 1 /\ \A t \in Submissions : t # s => drains'[t] = drains[t]
  BY <1>2, <1>3 DEF IInv, Types
<1>6. /\ leases'[s] # "held" /\ payloads'[s] # "held"
      /\ \A t \in Submissions :
           t # s => leases'[t] = leases[t] /\ payloads'[t] = payloads[t]
  BY <1>2 DEF Released, IInv, Types
<1>7. \A t \in Submissions : InSlot(t)' <=> InSlot(t)
  BY <1>1 DEF InSlot, Holds
<1>8. \A i \in Slots, t \in Submissions : Holds(i, t)' <=> Holds(i, t)
  BY <1>1 DEF Holds
<1>9. \A t \in Submissions : InHand(t)' <=> InHand(t) /\ t # s
  <2>1. \A e \in Drainers : \A q \in taken'[e] : q.submission # s
    BY <1>4 DEF IInv, OneRecord
  <2>2. \A t \in Submissions : InHand(t)' => InHand(t) /\ t # s
    BY <1>4, <2>1 DEF InHand
  <2>3. \A t \in Submissions : InHand(t) /\ t # s => InHand(t)'
    BY <1>4 DEF InHand
  <2>4. QED BY <2>2, <2>3
<1>10. Types'
  <2>1. taken' \in [Drainers -> SUBSET SlotRecord]
    BY DEF IInv, Types
  <2>2. leases' \in [Submissions -> {"none", "held", "released"}]
    BY <1>2 DEF IInv, Types, Released
  <2>3. payloads' \in [Submissions -> {"none", "held", "queued", "inline", "destroyed"}]
    BY <1>2 DEF IInv, Types
  <2>4. drains' \in [Submissions -> 0..1]
    BY <1>2, <1>3 DEF IInv, Types
  <2>5. QED BY <1>1, <2>1, <2>2, <2>3, <2>4 DEF IInv, Types
<1> HIDE DEF s
<1>11. OneRecord'
  <2>1. \A e, f \in Drainers : \A p \in taken'[e], q \in taken'[f] :
          p.submission = q.submission => e = f /\ p = q
    BY <1>4 DEF IInv, OneRecord
  <2>2. QED BY <1>3, <1>5, <1>7, <1>8, <1>9, <2>1 DEF IInv, OneRecord
<1>12. Places'
  <2>1. \A e \in Drainers : taken'[e] # {} => stage'[e] = "processing"
    BY <1>1, <1>4 DEF IInv, Places
  <2>2. \A i \in Slots, t \in Submissions :
          (Holds(i, t) => (slots[i].committed <=> t \notin reservation))'
    BY <1>1, <1>8 DEF IInv, Places
  <2>3. QED BY <1>1, <1>3, <1>5, <1>7, <1>9, <2>1, <2>2 DEF IInv, Places
<1>13. Reports'
  <2>1. \A e \in Drainers : \A q \in taken'[e] :
          q.status \in Terminal /\ reported'[q.submission] = q.status
    BY <1>1, <1>4 DEF IInv, Reports
  <2>2. \A i \in Slots, t \in Submissions :
          (Holds(i, t) /\ slots[i].status \in {"Success", "Error"} => driver[t] = "reported")'
    BY <1>1, <1>8 DEF IInv, Reports
  <2>3. QED BY <1>1, <1>2, <1>5, <1>7, <1>9, <2>1, <2>2 DEF IInv, Reports
<1>14. Attached'
  BY <1>3, <1>5, <1>6, <1>7, <1>9 DEF IInv, Attached
<1>15. Counted'
  BY <1>1 DEF IInv, Counted, CommittedSlots, Occupied
<1>16. QED BY <1>10, <1>11, <1>12, <1>13, <1>14, <1>15 DEF IInv

-----------------------------------------------------------------------------

LEMMA IInvStep == IInv /\ [Next]_vars => IInv'
<1> SUFFICES ASSUME IInv, [Next]_vars PROVE IInv'
  OBVIOUS
<1>1. stage \in [Drainers -> {"idle", "cleared", "processing", "drained"}]
  BY DEF IInv, Types
<1>2. ASSUME NEW s \in Submissions, Reserve(s) PROVE IInv'
  BY <1>2, ReserveStep
<1>3. ASSUME NEW s \in Submissions,
             AttachLease(s) \/ AttachRetiredPayload(s) \/ DestroyRetired(s)
      PROVE  IInv'
  BY <1>3, AttachStep
<1>4. ASSUME NEW s \in Submissions, Submit(s) \/ DriverFinishes(s) PROVE IInv'
  BY <1>4, DriverStep
<1>5. ASSUME NEW s \in Submissions, Commit(s) PROVE IInv'
  BY <1>5, CommitStep
<1>6. ASSUME NEW s \in Submissions, Abort(s) PROVE IInv'
  BY <1>6, AbortStep
<1>7. CASE Close
  BY <1>1, <1>7, QuietStep DEF Close, threads, effects, records
<1>8. ASSUME NEW s \in Submissions, NEW status \in {"Success", "Error"},
             RecordCompletion(s, status)
      PROVE  IInv'
  BY <1>8, RecordCompletionStep
<1>9. ASSUME NEW s \in Submissions, CancelSubmission(s) PROVE IInv'
  BY <1>9, CancelStep
<1>10. ASSUME NEW s \in Submissions, RaiseFlag(s) PROVE IInv'
  BY <1>1, <1>10, QuietStep DEF RaiseFlag, queue, effects, records
<1>11. ASSUME NEW s \in Submissions, PublishWake(s) PROVE IInv'
  BY <1>1, <1>11, QuietStep DEF PublishWake, queue, effects, records
<1>12. ASSUME NEW c \in Turns, TurnBegins(c) PROVE IInv'
  BY <1>1, <1>12, QuietStep DEF TurnBegins, queue, threads, effects, records
<1>13. ASSUME NEW d \in Drainers, ClearFlag(d) PROVE IInv'
  <2>1. UNCHANGED <<records, leases, payloads, driver>>
    BY <1>13 DEF ClearFlag, queue, effects, records
  <2>2. \A e \in Drainers : stage'[e] = stage[e] \/ taken[e] = {}
    BY <1>13 DEF ClearFlag, MayDrain, IInv, Types, Places
  <2>3. stage' \in [Drainers -> {"idle", "cleared", "processing", "drained"}]
    BY <1>1, <1>13 DEF ClearFlag
  <2>4. QED BY <2>1, <2>2, <2>3, QuietStep
<1>14. ASSUME NEW d \in Drainers, TakeCompleted(d) PROVE IInv'
  BY <1>14, TakeStep
<1>15. ASSUME NEW d \in Drainers, ProcessRecord(d) PROVE IInv'
  BY <1>15, ProcessStep
<1>16. ASSUME NEW d \in Drainers, DrainEnds(d) \/ (d \in Turns /\ TurnEnds(d)) PROVE IInv'
  <2>1. UNCHANGED <<records, leases, payloads, driver>>
    BY <1>16 DEF DrainEnds, TurnEnds, queue, effects, records
  <2>2. \A e \in Drainers : stage'[e] = stage[e] \/ taken[e] = {}
    BY <1>16 DEF DrainEnds, TurnEnds, IInv, Types, Places
  <2>3. stage' \in [Drainers -> {"idle", "cleared", "processing", "drained"}]
    BY <1>1, <1>16 DEF DrainEnds, TurnEnds
  <2>4. QED BY <2>1, <2>2, <2>3, QuietStep
<1>17. CASE UNCHANGED vars
  BY <1>1, <1>17, QuietStep DEF vars, queue, threads, effects, records
<1>18. QED
  BY <1>2, <1>3, <1>4, <1>5, <1>6, <1>7, <1>8, <1>9, <1>10, <1>11, <1>12, <1>13, <1>14,
     <1>15, <1>16, <1>17 DEF Next, Drainers

LEMMA Invariance == Spec => []IInv
BY InitHolds, IInvStep, PTL DEF Spec

-----------------------------------------------------------------------------
(* What the invariant gives.                                               *)

LEMMA CopiesCounted ==
  ASSUME IInv, NEW s \in Submissions
  PROVE  /\ InSlot(s) => Cardinality(SlotsOf(s)) = 1
         /\ ~InSlot(s) => Cardinality(SlotsOf(s)) = 0
         /\ InHand(s) => Cardinality(TakenOf(s)) = 1
         /\ ~InHand(s) => Cardinality(TakenOf(s)) = 0
         /\ SlotsOf(s) # {} <=> InSlot(s)
         /\ TakenOf(s) # {} <=> InHand(s)
<1>1. ASSUME InSlot(s) PROVE Cardinality(SlotsOf(s)) = 1
  <2>1. PICK i \in Slots : Holds(i, s)
    BY <1>1 DEF InSlot
  <2>2. SlotsOf(s) = {i}
    BY <2>1, SlotOfFound DEF IInv
  <2>3. QED BY <2>2, FS_Singleton, Zenon
<1>2. ASSUME ~InSlot(s) PROVE Cardinality(SlotsOf(s)) = 0
  <2>1. SlotsOf(s) = {}
    BY <1>2, NoSlotFound
  <2>2. QED BY <2>1, FS_EmptySet, Zenon
<1>3. ASSUME InHand(s) PROVE Cardinality(TakenOf(s)) = 1
  <2>1. PICK d \in Drainers : \E r \in taken[d] : r.submission = s
    BY <1>3 DEF InHand
  <2>2. TakenOf(s) = {d}
    BY <2>1 DEF TakenOf, IInv, OneRecord
  <2>3. QED BY <2>2, FS_Singleton, Zenon
<1>4. ASSUME ~InHand(s) PROVE Cardinality(TakenOf(s)) = 0
  <2>1. TakenOf(s) = {}
    BY <1>4 DEF InHand, TakenOf
  <2>2. QED BY <2>1, FS_EmptySet, Zenon
<1>5. TakenOf(s) # {} <=> InHand(s)
  BY DEF InHand, TakenOf
<1>6. SlotsOf(s) # {} <=> InSlot(s)
  BY NoSlotFound
<1>7. QED BY <1>1, <1>2, <1>3, <1>4, <1>5, <1>6

\* Every submission has one record from its reservation to the end of its
\* drain unless it was aborted, whatever completions, cancellations and drains
\* of any number of threads come between (reserve, record_completion,
\* drain_completed_internal).
THEOREM SubmissionsConserved == Spec => []RecordsConserved
<1>1. IInv => RecordsConserved
  <2> SUFFICES ASSUME IInv, NEW s \in Submissions
               PROVE  LET copies == Cardinality(SlotsOf(s)) + Cardinality(TakenOf(s))
                                      + drains[s]
                      IN  /\ copies <= 1
                          /\ (s \in reservation \/ driver[s] # "absent") => copies = 1
                          /\ s \in reservation => SlotsOf(s) # {}
    BY DEF RecordsConserved
  <2>1. /\ InSlot(s) => Cardinality(SlotsOf(s)) = 1
        /\ ~InSlot(s) => Cardinality(SlotsOf(s)) = 0
        /\ InHand(s) => Cardinality(TakenOf(s)) = 1
        /\ ~InHand(s) => Cardinality(TakenOf(s)) = 0
        /\ SlotsOf(s) # {} <=> InSlot(s)
    BY CopiesCounted
  <2>2. drains[s] \in 0..1
    BY DEF IInv, Types
  <2>3. (InSlot(s) => ~InHand(s)) /\ (drains[s] = 1 => ~InSlot(s) /\ ~InHand(s))
    BY DEF IInv, OneRecord
  <2>4. /\ s \in reservation => InSlot(s)
        /\ driver[s] # "absent" => InSlot(s) \/ InHand(s) \/ drains[s] = 1
    BY DEF IInv, Places
  <2>5. QED BY <2>1, <2>2, <2>3, <2>4
<1>2. QED BY <1>1, Invariance, PTL

\* in_flight_count is exact, so the saturating subtraction of
\* drain_completed_internal never saturates.
THEOREM InFlightCounts == Spec => []InFlightIsExact
<1>1. IInv => InFlightIsExact
  BY DEF IInv, Counted, CommittedSlots, InFlightIsExact
<1>2. QED BY <1>1, Invariance, PTL

\* What is attached to a record stays with it and leaves when it is drained,
\* for any room in the retirement queue.
THEOREM AttachmentsFollowRecords == Spec => []HeldWithRecord
<1>1. IInv => HeldWithRecord
  <2> SUFFICES ASSUME IInv, NEW s \in Submissions
               PROVE  /\ (leases[s] = "held" \/ payloads[s] = "held") =>
                           SlotsOf(s) # {} \/ TakenOf(s) # {}
                      /\ leases[s] = "released" => drains[s] = 1
                      /\ drains[s] = 1 => leases[s] # "held" /\ payloads[s] # "held"
    BY DEF HeldWithRecord
  <2>1. (SlotsOf(s) # {} <=> InSlot(s)) /\ (TakenOf(s) # {} <=> InHand(s))
    BY CopiesCounted
  <2>2. QED BY <2>1 DEF IInv, Attached, OneRecord
<1>2. QED BY <1>1, Invariance, PTL

\* A lease of work that the driver still runs is released only for a
\* submission that was cancelled (cancel_submission).
THEOREM RunningWorkKeepsLease == Spec => []RunningKeepsLease
<1>1. IInv => RunningKeepsLease
  BY DEF IInv, Types, Attached, Reports, RunningKeepsLease, Terminal
<1>2. QED BY <1>1, Invariance, PTL

-----------------------------------------------------------------------------
(* The queue implements CompletionChannel.                                 *)

\* What the refinement mapping shows of a submission, by its slot.
View ==
  \A s \in Submissions :
    /\ s \notin minted => StageOf(s) = "new"
    /\ InSlot(s) => StageOf(s) = "admitted" /\ ~Delivered(s)
    /\ Delivered(s) => StageOf(s) = "delivered"
    /\ s \in minted /\ ~InSlot(s) /\ ~Delivered(s) => StageOf(s) = "aborted"
    /\ ~InSlot(s) => StatusOf(s) = reported[s] /\ ~Committed(s)
    /\ \A i \in Slots : Holds(i, s) =>
         /\ StatusOf(s) = slots[i].status
         /\ Committed(s) <=> slots[i].committed

LEMMA ViewHolds == IInv => View
<1> SUFFICES ASSUME IInv, NEW s \in Submissions
             PROVE  /\ s \notin minted => StageOf(s) = "new"
                    /\ InSlot(s) => StageOf(s) = "admitted" /\ ~Delivered(s)
                    /\ Delivered(s) => StageOf(s) = "delivered"
                    /\ s \in minted /\ ~InSlot(s) /\ ~Delivered(s) => StageOf(s) = "aborted"
                    /\ ~InSlot(s) => StatusOf(s) = reported[s] /\ ~Committed(s)
                    /\ \A i \in Slots : Holds(i, s) =>
                         /\ StatusOf(s) = slots[i].status
                         /\ Committed(s) <=> slots[i].committed
  BY DEF View
<1>1. SlotsOf(s) # {} <=> InSlot(s)
  BY NoSlotFound
<1>2. /\ InSlot(s) => s \in minted /\ ~Delivered(s)
      /\ Delivered(s) => s \in minted
  BY DEF IInv, Places, Reports, Delivered
<1>3. s \notin minted => StageOf(s) = "new"
  BY <1>1, <1>2 DEF StageOf
<1>4. InSlot(s) => StageOf(s) = "admitted"
  BY <1>1, <1>2 DEF StageOf
<1>5. Delivered(s) => StageOf(s) = "delivered"
  BY <1>2 DEF StageOf
<1>6. s \in minted /\ ~InSlot(s) /\ ~Delivered(s) => StageOf(s) = "aborted"
  BY <1>1 DEF StageOf
<1>7. ~InSlot(s) => StatusOf(s) = reported[s] /\ ~Committed(s)
  BY <1>1 DEF StatusOf, Committed
<1>8. ASSUME NEW i \in Slots, Holds(i, s)
      PROVE  /\ StatusOf(s) = slots[i].status
             /\ Committed(s) <=> slots[i].committed
  <2>1. SlotsOf(s) = {i} /\ SlotOf(s) = i
    BY <1>8, SlotOfFound DEF IInv
  <2>2. QED BY <2>1 DEF StatusOf, Committed
<1>9. QED BY <1>2, <1>3, <1>4, <1>5, <1>6, <1>7, <1>8

\* A step that leaves the slots, the reports and the channel's end alone is
\* not seen.
LEMMA Stutters ==
  ASSUME UNCHANGED <<slots, closed, minted, reported>>
  PROVE  UNCHANGED Channel!vars
BY DEF Channel!vars, StageOf, Delivered, SlotsOf, SlotOf, Occupied, StatusOf, Committed

\* A saturated queue is a full channel: each slot in use has its submission.
LEMMA ReservesOnlyWithRoom ==
  ASSUME IInv, FreeSlots # {}
  PROVE  Cardinality({s \in Submissions : InSlot(s)}) < Capacity
<1>1. PICK i \in Slots : slots[i] = NoSlot
  BY DEF FreeSlots
<1>2. /\ Occupied \in SUBSET (Slots \ {i})
      /\ IsFiniteSet(Slots \ {i}) /\ Cardinality(Slots \ {i}) = Capacity - 1
  BY <1>1, SlotsAreFinite, FS_RemoveElement DEF Occupied
<1>3. IsFiniteSet(Occupied) /\ Cardinality(Occupied) <= Capacity - 1
  BY <1>2, FS_Subset
<1> DEFINE held == {s \in Submissions : InSlot(s)}
           f == [j \in Occupied |-> slots[j].submission]
<1>4. f \in Surjection(Occupied, held)
  <2>1. \A j \in Occupied : slots[j].submission \in held
    BY RecordTypes DEF IInv, Occupied, InSlot
  <2>2. \A s \in held : \E j \in Occupied : f[j] = s
    BY DEF InSlot, Holds, Occupied
  <2>3. QED BY <2>1, <2>2 DEF Surjection
<1>5. IsFiniteSet(held) /\ Cardinality(held) <= Cardinality(Occupied)
  BY <1>3, <1>4, FS_Surjection
<1>6. Cardinality(held) \in Nat /\ Cardinality(Occupied) \in Nat
  BY <1>3, <1>5, FS_CardinalityType
<1>7. QED BY <1>3, <1>5, <1>6, ConstantsHold

\* The mapped state, named so that a step is read off its values.
ChannelStage == [s \in Submissions |-> StageOf(s)]
ChannelCommitted == {s \in Submissions : Committed(s) \/ Delivered(s)}
ChannelResult == [s \in Submissions |-> StatusOf(s)]

LEMMA Admitted ==
  ASSUME IInv, View
  PROVE  Channel!Admitted = {s \in Submissions : InSlot(s)}
<1>1. \A s \in Submissions : StageOf(s) = "admitted" <=> InSlot(s)
  BY DEF View, IInv, Places
<1>2. QED BY <1>1 DEF Channel!Admitted

LEMMA MapsInit == Init => Channel!Init
<1> SUFFICES ASSUME Init PROVE Channel!Init
  OBVIOUS
<1>1. View /\ \A s \in Submissions : ~InSlot(s) /\ ~Delivered(s)
  BY InitHolds, ViewHolds DEF Init, InSlot, Holds, Delivered
<1>2. \A s \in Submissions :
        StageOf(s) = "new" /\ StatusOf(s) = "Pending" /\ ~Committed(s)
  BY <1>1 DEF View, Init
<1>3. QED BY <1>1, <1>2 DEF Init, Channel!Init

\* A submission whose record stays as it is is seen as it was.
LEMMA Unseen ==
  ASSUME View, View', NEW t \in Submissions,
         t \in minted' <=> t \in minted, reported'[t] = reported[t],
         \A j \in Slots : Holds(j, t)' <=> Holds(j, t),
         \A j \in Slots : Holds(j, t) => slots'[j] = slots[j]
  PROVE  /\ StageOf(t)' = StageOf(t) /\ StatusOf(t)' = StatusOf(t)
         /\ Committed(t)' <=> Committed(t)
         /\ Delivered(t)' <=> Delivered(t)
<1>1. InSlot(t)' <=> InSlot(t)
  BY DEF InSlot
<1>2. Delivered(t)' <=> Delivered(t)
  BY DEF Delivered
<1>3. StageOf(t)' = StageOf(t)
  BY <1>1, <1>2 DEF View
<1>4. StatusOf(t)' = StatusOf(t) /\ (Committed(t)' <=> Committed(t))
  BY <1>1 DEF View, InSlot
<1>5. QED BY <1>2, <1>3, <1>4

LEMMA MapsReserve ==
  ASSUME IInv, IInv', View, View', NEW s \in Submissions, Reserve(s)
  PROVE  Channel!Next
<1> DEFINE r == [submission |-> s, status |-> "Pending", committed |-> FALSE]
<1>1. PICK i \in Slots : slots[i] = NoSlot /\ slots' = [slots EXCEPT ![i] = r]
  <2>1. FreeSlots \in SUBSET Slots /\ FreeSlots # {}
    BY DEF Reserve, FreeSlots
  <2>2. Min(FreeSlots) \in FreeSlots
    BY <2>1, MinIsFound
  <2>3. QED BY <2>2 DEF Reserve, FreeSlots
<1>2. FreeSlots # {}
  BY DEF Reserve
<1>3. r # NoSlot /\ r.submission = s /\ r.status = "Pending" /\ r.committed = FALSE
  <2>1. r \in SlotRecord
    BY DEF SlotRecord, Statuses
  <2>2. QED BY <2>1, ConstantsHold
<1> HIDE DEF r
<1>4. slots'[i] = r /\ \A j \in Slots : j # i => slots'[j] = slots[j]
  BY <1>1 DEF IInv, Types
<1>5. /\ ~closed /\ s \notin minted /\ minted' = minted \cup {s}
      /\ closed' = closed /\ reported' = reported
  BY DEF Reserve, Admits, effects
<1>6. \A t \in Submissions : t # s =>
        /\ StageOf(t)' = StageOf(t) /\ StatusOf(t)' = StatusOf(t)
        /\ Committed(t)' <=> Committed(t)
  <2> SUFFICES ASSUME NEW t \in Submissions, t # s
               PROVE  /\ StageOf(t)' = StageOf(t) /\ StatusOf(t)' = StatusOf(t)
                      /\ Committed(t)' <=> Committed(t)
    OBVIOUS
  <2>1. \A j \in Slots : Holds(j, t)' <=> Holds(j, t)
    BY <1>1, <1>3, <1>4 DEF Holds
  <2>2. \A j \in Slots : Holds(j, t) => slots'[j] = slots[j]
    BY <1>1, <1>4 DEF Holds
  <2>3. QED BY <1>5, <2>1, <2>2, Unseen
<1>7. /\ StageOf(s) = "new" /\ StatusOf(s) = "Pending" /\ ~Committed(s)
  BY <1>5 DEF View, IInv, Places, Reports
<1>8. /\ StageOf(s)' = "admitted" /\ StatusOf(s)' = "Pending" /\ ~Committed(s)'
  <2>1. Holds(i, s)' /\ InSlot(s)'
    BY <1>1, <1>3, <1>4 DEF Holds, InSlot
  <2>2. QED BY <1>1, <1>3, <1>4, <2>1 DEF View
<1>9. ChannelStage' = [ChannelStage EXCEPT ![s] = "admitted"]
  BY <1>6, <1>8 DEF ChannelStage
<1>10. ChannelResult' = ChannelResult
  BY <1>6, <1>7, <1>8 DEF ChannelResult
<1>11. ChannelCommitted' = ChannelCommitted
  BY <1>5, <1>6, <1>7, <1>8 DEF ChannelCommitted, Delivered
<1>12. Cardinality(Channel!Admitted) < Capacity
  BY <1>2, Admitted, ReservesOnlyWithRoom
<1>13. Channel!Admit(s)
  <2>1. ChannelStage[s] = "new"
    BY <1>7 DEF ChannelStage
  <2>2. ~closed /\ (~closed)' = ~closed
    BY <1>5
  <2>3. Channel!Cardinality(Channel!Admitted) < Capacity
    BY <1>12 DEF Channel!Cardinality, Cardinality
  <2>4. QED
    BY <1>9, <1>10, <1>11, <2>1, <2>2, <2>3, Zenon
       DEF Channel!Admit, ChannelStage, ChannelResult, ChannelCommitted
<1>14. QED BY <1>13 DEF Channel!Next

LEMMA MapsCommit ==
  ASSUME IInv, IInv', View, View', NEW s \in Submissions, Commit(s)
  PROVE  Channel!Next
<1>1. s \in reservation
  BY DEF Commit
<1>2. PICK i \in Slots : /\ Holds(i, s) /\ slots[i].committed = FALSE
                         /\ slots' = [slots EXCEPT ![i].committed = TRUE]
  BY <1>1, ReservedSlot DEF Commit
<1>3. slots[i] # NoSlot /\ slots[i] \in SlotRecord
  BY <1>2, RecordTypes DEF Holds, IInv
<1>4. /\ slots'[i] = [slots[i] EXCEPT !.committed = TRUE]
      /\ \A j \in Slots : j # i => slots'[j] = slots[j]
  BY <1>2 DEF IInv, Types
<1>5. UNCHANGED <<closed, minted, reported>>
  BY DEF Commit, effects
<1>6. /\ slots'[i].submission = s /\ slots'[i].status = slots[i].status
      /\ slots'[i].committed = TRUE /\ slots'[i] # NoSlot
  <2>1. slots'[i] \in SlotRecord
    BY <1>3, <1>4 DEF SlotRecord
  <2>2. slots'[i] # NoSlot
    BY <2>1, ConstantsHold
  <2>3. QED BY <1>2, <1>3, <1>4, <2>2, SMTT(30) DEF SlotRecord, Holds
<1>7. \A t \in Submissions : t # s =>
        /\ StageOf(t)' = StageOf(t) /\ StatusOf(t)' = StatusOf(t)
        /\ Committed(t)' <=> Committed(t)
  <2> SUFFICES ASSUME NEW t \in Submissions, t # s
               PROVE  /\ StageOf(t)' = StageOf(t) /\ StatusOf(t)' = StatusOf(t)
                      /\ Committed(t)' <=> Committed(t)
    OBVIOUS
  <2>1. \A j \in Slots : Holds(j, t)' <=> Holds(j, t)
    BY <1>2, <1>4, <1>6 DEF Holds
  <2>2. \A j \in Slots : Holds(j, t) => slots'[j] = slots[j]
    BY <1>2, <1>4 DEF Holds
  <2>3. QED BY <1>5, <2>1, <2>2, Unseen
<1>8. /\ InSlot(s) /\ StageOf(s) = "admitted" /\ StatusOf(s) = slots[i].status
      /\ ~Committed(s) /\ ~Delivered(s)
  BY <1>2 DEF View, InSlot
<1>9. /\ StageOf(s)' = "admitted" /\ StatusOf(s)' = slots[i].status /\ Committed(s)'
  <2>1. Holds(i, s)' /\ InSlot(s)'
    BY <1>6 DEF Holds, InSlot
  <2>2. QED BY <1>6, <2>1 DEF View
<1>10. ChannelStage' = ChannelStage /\ ChannelResult' = ChannelResult
  BY <1>7, <1>8, <1>9 DEF ChannelStage, ChannelResult
<1>11. ChannelCommitted' = ChannelCommitted \cup {s}
  BY <1>5, <1>7, <1>9 DEF ChannelCommitted, Delivered
<1>12. Channel!Commit(s)
  <2>1. s \in Channel!Admitted \ ChannelCommitted
    BY <1>8, Admitted DEF ChannelCommitted
  <2>2. (~closed)' = ~closed
    BY <1>5
  <2>3. QED
    BY <1>10, <1>11, <2>1, <2>2, Zenon
       DEF Channel!Commit, ChannelStage, ChannelResult, ChannelCommitted
<1>13. QED BY <1>12 DEF Channel!Next

LEMMA MapsAbort ==
  ASSUME IInv, IInv', View, View', NEW s \in Submissions, Abort(s)
  PROVE  Channel!Next
<1>1. s \in reservation
  BY DEF Abort
<1>2. PICK i \in Slots : /\ Holds(i, s) /\ slots[i].committed = FALSE
                         /\ slots' = [slots EXCEPT ![i] = NoSlot]
  BY <1>1, ReservedSlot DEF Abort
<1>3. slots'[i] = NoSlot /\ \A j \in Slots : j # i => slots'[j] = slots[j]
  BY <1>2 DEF IInv, Types
<1>4. UNCHANGED <<closed, minted, reported>> /\ s \in minted /\ reported[s] = "Pending"
  BY <1>1, ReservedSlot DEF Abort, IInv, Types
<1>5. \A t \in Submissions : t # s =>
        /\ StageOf(t)' = StageOf(t) /\ StatusOf(t)' = StatusOf(t)
        /\ Committed(t)' <=> Committed(t)
  <2> SUFFICES ASSUME NEW t \in Submissions, t # s
               PROVE  /\ StageOf(t)' = StageOf(t) /\ StatusOf(t)' = StatusOf(t)
                      /\ Committed(t)' <=> Committed(t)
    OBVIOUS
  <2>1. \A j \in Slots : Holds(j, t)' <=> Holds(j, t)
    BY <1>2, <1>3 DEF Holds
  <2>2. \A j \in Slots : Holds(j, t) => slots'[j] = slots[j]
    BY <1>2, <1>3 DEF Holds
  <2>3. QED BY <1>4, <2>1, <2>2, Unseen
<1>6. InSlot(s) /\ ~Committed(s) /\ ~Delivered(s)
  BY <1>2 DEF View, InSlot
<1>7. /\ StageOf(s)' = "aborted" /\ StatusOf(s)' = "Pending" /\ ~Committed(s)'
  <2>1. ~InSlot(s)'
    BY <1>2, <1>3 DEF InSlot, Holds, IInv, OneRecord
  <2>2. s \in minted' /\ ~Delivered(s)' /\ reported'[s] = "Pending"
    BY <1>4 DEF Delivered
  <2>3. QED BY <2>1, <2>2 DEF View
<1>8. ChannelStage' = [ChannelStage EXCEPT ![s] = "aborted"]
  BY <1>5, <1>7 DEF ChannelStage
<1>9. ChannelResult' = [ChannelResult EXCEPT ![s] = "Pending"]
  BY <1>5, <1>7 DEF ChannelResult
<1>10. ChannelCommitted' = ChannelCommitted
  BY <1>4, <1>5, <1>6, <1>7 DEF ChannelCommitted, Delivered
<1>11. Channel!Abort(s)
  <2>1. s \in Channel!Admitted \ ChannelCommitted
    BY <1>6, Admitted DEF ChannelCommitted
  <2>2. (~closed)' = ~closed
    BY <1>4
  <2>3. QED
    BY <1>8, <1>9, <1>10, <2>1, <2>2, Zenon
       DEF Channel!Abort, ChannelStage, ChannelResult, ChannelCommitted
<1>12. QED BY <1>11 DEF Channel!Next

LEMMA MapsSettle ==
  ASSUME IInv, IInv', View, View', NEW s \in Submissions, NEW status \in Terminal,
         InSlot(s), slots' = Settled(s, status), UNCHANGED <<closed, minted, reported>>
  PROVE  Channel!Next
<1>1. PICK i \in Slots : /\ Holds(i, s)
                         /\ slots' = [slots EXCEPT ![i].status = status]
  BY SlotOfFound DEF Settled, IInv, InSlot
<1>2. slots[i] # NoSlot /\ slots[i] \in SlotRecord
  BY <1>1, RecordTypes DEF Holds, IInv
<1>3. /\ slots'[i] = [slots[i] EXCEPT !.status = status]
      /\ \A j \in Slots : j # i => slots'[j] = slots[j]
  BY <1>1 DEF IInv, Types
<1>4. /\ slots'[i].submission = s /\ slots'[i].status = status
      /\ slots'[i].committed = slots[i].committed /\ slots'[i] # NoSlot
  <2>1. slots'[i] \in SlotRecord
    BY <1>2, <1>3 DEF SlotRecord, Statuses
  <2>2. QED BY <1>1, <1>2, <1>3, <2>1, ConstantsHold DEF SlotRecord, Holds
<1>5. \A t \in Submissions : t # s =>
        /\ StageOf(t)' = StageOf(t) /\ StatusOf(t)' = StatusOf(t)
        /\ Committed(t)' <=> Committed(t)
  <2> SUFFICES ASSUME NEW t \in Submissions, t # s
               PROVE  /\ StageOf(t)' = StageOf(t) /\ StatusOf(t)' = StatusOf(t)
                      /\ Committed(t)' <=> Committed(t)
    OBVIOUS
  <2>1. \A j \in Slots : Holds(j, t)' <=> Holds(j, t)
    BY <1>1, <1>3, <1>4 DEF Holds
  <2>2. \A j \in Slots : Holds(j, t) => slots'[j] = slots[j]
    BY <1>1, <1>3 DEF Holds
  <2>3. QED BY <2>1, <2>2, Unseen
<1>6. StageOf(s) = "admitted" /\ (Committed(s) <=> slots[i].committed)
  BY <1>1 DEF View
<1>7. /\ StageOf(s)' = "admitted" /\ StatusOf(s)' = status
      /\ Committed(s)' <=> slots[i].committed
  <2>1. Holds(i, s)' /\ InSlot(s)'
    BY <1>4 DEF Holds, InSlot
  <2>2. QED BY <1>4, <2>1 DEF View
<1>8. ChannelStage' = ChannelStage
  BY <1>5, <1>6, <1>7 DEF ChannelStage
<1>9. ChannelResult' = [ChannelResult EXCEPT ![s] = status]
  BY <1>5, <1>7 DEF ChannelResult
<1>10. ChannelCommitted' = ChannelCommitted
  BY <1>5, <1>6, <1>7 DEF ChannelCommitted, Delivered
<1>11. Channel!Settle(s)
  <2>1. s \in Channel!Admitted /\ status \in Channel!Results
    BY Admitted DEF Channel!Results, Terminal
  <2>2. (~closed)' = ~closed
    OBVIOUS
  <2>3. QED
    BY <1>8, <1>9, <1>10, <2>1, <2>2, Zenon
       DEF Channel!Settle, ChannelStage, ChannelResult, ChannelCommitted
<1>12. QED BY <1>11 DEF Channel!Next

\* The critical section of a drain delivers all that was ready.
LEMMA MapsTake ==
  ASSUME IInv, IInv', View, View', NEW d \in Drainers, TakeCompleted(d)
  PROVE  Channel!Next \/ UNCHANGED Channel!vars
<1>1. UNCHANGED <<closed, minted>>
  BY DEF TakeCompleted
<1>2. \A i \in Completed : /\ i \in Slots /\ slots[i].committed
                           /\ slots[i].status \in Terminal
  BY DEF Completed, Occupied
<1>3. ASSUME NEW s \in Submissions, ~InCompleted(s)
      PROVE  /\ StageOf(s)' = StageOf(s) /\ StatusOf(s)' = StatusOf(s)
             /\ Committed(s)' <=> Committed(s)
             /\ Delivered(s)' <=> Delivered(s)
  <2>1. \A j \in Slots : Holds(j, s)' <=> Holds(j, s)
    BY <1>3, TakeMoves DEF InCompleted
  <2>2. \A j \in Slots : Holds(j, s) => slots'[j] = slots[j]
    BY <1>3, TakeMoves DEF InCompleted
  <2>3. reported'[s] = reported[s]
    BY <1>3, TakeMoves
  <2>4. QED BY <1>1, <2>1, <2>2, <2>3, Unseen
<1>4. ASSUME NEW s \in Submissions, InCompleted(s)
      PROVE  /\ StageOf(s)' = "delivered" /\ StatusOf(s)' = StatusOf(s)
             /\ InSlot(s) /\ Committed(s) /\ Delivered(s)'
             /\ StatusOf(s) \in Terminal
  <2>1. PICK i \in Completed : Holds(i, s)
    BY <1>4 DEF InCompleted
  <2>2. InSlot(s) /\ StatusOf(s) = slots[i].status /\ Committed(s)
    BY <1>2, <2>1 DEF View, InSlot
  <2>3. reported'[s] = slots[i].status /\ ~InSlot(s)'
    BY <1>4, <2>1, TakeMoves
  <2>4. Delivered(s)'
    BY <1>2, <2>1, <2>3 DEF Delivered, Terminal
  <2>5. QED BY <1>2, <2>1, <2>2, <2>3, <2>4 DEF View
<1>5. ASSUME NEW s \in Submissions, InSlot(s), Committed(s), StatusOf(s) \in Terminal
      PROVE  InCompleted(s)
  <2>1. PICK i \in Slots : Holds(i, s)
    BY <1>5 DEF InSlot
  <2>2. slots[i].committed /\ slots[i].status \in Terminal
    BY <1>5, <2>1 DEF View
  <2>3. QED BY <2>1, <2>2 DEF InCompleted, Completed, Occupied, Holds
<1>6. ChannelResult' = ChannelResult
  BY <1>3, <1>4 DEF ChannelResult
<1>7. ChannelCommitted' = ChannelCommitted
  <2>1. \A s \in Submissions :
          (Committed(s) \/ Delivered(s))' <=> Committed(s) \/ Delivered(s)
    BY <1>3, <1>4
  <2>2. QED BY <2>1 DEF ChannelCommitted
<1>8. Channel!Ready = {s \in Submissions : InCompleted(s)}
  <2>1. Channel!Results = Terminal
    BY DEF Channel!Results, Terminal
  <2>2. \A s \in Submissions :
          s \in Channel!Ready <=> /\ InSlot(s)
                                  /\ Committed(s) \/ Delivered(s)
                                  /\ StatusOf(s) \in Terminal
    BY <2>1, Admitted DEF Channel!Ready
  <2>3. \A s \in Submissions : InSlot(s) => ~Delivered(s)
    BY DEF View
  <2>4. \A s \in Submissions : s \in Channel!Ready <=> InCompleted(s)
    BY <1>4, <1>5, <2>2, <2>3
  <2>5. Channel!Ready \subseteq Submissions
    BY Admitted DEF Channel!Ready
  <2>6. QED BY <2>4, <2>5
<1>9. (~closed)' = ~closed
  BY <1>1
<1>10. CASE \E s \in Submissions : InCompleted(s)
  <2>1. ChannelStage' =
          [s \in Submissions |-> IF s \in Channel!Ready THEN "delivered" ELSE ChannelStage[s]]
    BY <1>3, <1>4, <1>8 DEF ChannelStage
  <2>2. Channel!Ready # {}
    BY <1>8, <1>10
  <2>3. Channel!Deliver
    BY <1>6, <1>7, <1>9, <2>1, <2>2, Zenon
       DEF Channel!Deliver, ChannelStage, ChannelResult, ChannelCommitted
  <2>4. QED BY <2>3 DEF Channel!Next
<1>11. CASE ~\E s \in Submissions : InCompleted(s)
  <2>1. ChannelStage' = ChannelStage
    BY <1>3, <1>11 DEF ChannelStage
  <2>2. QED
    BY <1>6, <1>7, <1>9, <2>1, Zenon
       DEF Channel!vars, ChannelStage, ChannelResult, ChannelCommitted
<1>12. QED BY <1>10, <1>11

LEMMA MapsNext ==
  IInv /\ View /\ IInv' /\ View' /\ [Next]_vars => [Channel!Next]_Channel!vars
<1> SUFFICES ASSUME IInv, View, IInv', View', [Next]_vars
             PROVE  Channel!Next \/ UNCHANGED Channel!vars
  OBVIOUS
<1> DEFINE seen == <<slots, closed, minted, reported>>
           quiet == UNCHANGED Channel!vars
<1>1. ASSUME NEW s \in Submissions, Reserve(s) PROVE Channel!Next
  BY <1>1, MapsReserve
<1>2. ASSUME NEW s \in Submissions, Commit(s) PROVE Channel!Next
  BY <1>2, MapsCommit
<1>3. ASSUME NEW s \in Submissions, Abort(s) PROVE Channel!Next
  BY <1>3, MapsAbort
<1>4. CASE Close
  <2>1. ~closed /\ closed' = TRUE /\ UNCHANGED <<slots, minted, reported>>
    BY <1>4 DEF Close, threads, effects
  <2>2. /\ ChannelStage' = ChannelStage /\ ChannelResult' = ChannelResult
        /\ ChannelCommitted' = ChannelCommitted
    BY <2>1 DEF ChannelStage, ChannelResult, ChannelCommitted, StageOf, Delivered,
                SlotsOf, SlotOf, Occupied, StatusOf, Committed
  <2>3. Channel!Close
    BY <2>1, <2>2
       DEF Channel!Close, ChannelStage, ChannelResult, ChannelCommitted
  <2>4. QED BY <2>3 DEF Channel!Next
<1>5. ASSUME NEW s \in Submissions, NEW status \in {"Success", "Error"},
             RecordCompletion(s, status)
      PROVE  Channel!Next \/ quiet
  <2>1. UNCHANGED <<closed, minted, reported>>
    BY <1>5 DEF RecordCompletion
  <2>2. CASE InSlot(s)
    <3>1. slots' = Settled(s, status)
      BY <1>5, <2>2, NoSlotFound DEF RecordCompletion
    <3>2. QED BY <2>1, <2>2, <3>1, MapsSettle DEF Terminal
  <2>3. CASE ~InSlot(s)
    <3>1. UNCHANGED seen
      BY <1>5, <2>1, <2>3, NoSlotFound DEF RecordCompletion
    <3>2. QED BY <3>1, Stutters
  <2>4. QED BY <2>2, <2>3
<1>6. ASSUME NEW s \in Submissions, CancelSubmission(s) PROVE Channel!Next
  <2>1. InSlot(s) /\ slots' = Settled(s, "Cancelled")
    BY <1>6, NoSlotFound DEF CancelSubmission
  <2>2. UNCHANGED <<closed, minted, reported>>
    BY <1>6 DEF CancelSubmission, effects
  <2>3. QED BY <2>1, <2>2, MapsSettle DEF Terminal
<1>7. ASSUME NEW d \in Drainers, TakeCompleted(d) PROVE Channel!Next \/ quiet
  BY <1>7, MapsTake
<1>8. ASSUME NEW s \in Submissions,
             \/ AttachLease(s) \/ AttachRetiredPayload(s) \/ DestroyRetired(s)
             \/ Submit(s) \/ DriverFinishes(s) \/ RaiseFlag(s) \/ PublishWake(s)
      PROVE  quiet
  <2>1. UNCHANGED seen
    BY <1>8 DEF AttachLease, AttachRetiredPayload, DestroyRetired, Submit,
                DriverFinishes, RaiseFlag, PublishWake, queue, threads, effects
  <2>2. QED BY <2>1, Stutters
<1>9. ASSUME NEW d \in Drainers,
             \/ ClearFlag(d) \/ ProcessRecord(d) \/ DrainEnds(d)
             \/ d \in Turns /\ (TurnBegins(d) \/ TurnEnds(d))
      PROVE  quiet
  <2>1. UNCHANGED seen
    BY <1>9 DEF ClearFlag, ProcessRecord, DrainEnds, TurnBegins, TurnEnds,
                queue, threads, effects
  <2>2. QED BY <2>1, Stutters
<1>10. CASE UNCHANGED vars
  <2>1. UNCHANGED seen
    BY <1>10 DEF vars, queue, threads, effects
  <2>2. QED BY <2>1, Stutters
<1>11. QED
  BY <1>1, <1>2, <1>3, <1>4, <1>5, <1>6, <1>7, <1>8, <1>9, <1>10 DEF Next, Drainers

\* The slots, the threads and the drains implement the conservation channel of
\* terminal.rs's module comment: an admitted submission is delivered once, with
\* its last status, or was aborted uncommitted, and a drain leaves nothing
\* behind that was ready for it.
THEOREM QueueImplementsChannel == Spec => ImplementsChannel
BY MapsInit, MapsNext, Invariance, ViewHolds, PTL
   DEF Spec, ImplementsChannel, Channel!Spec

\* Records are neither lost nor doubled between reserve and the end of a drain,
\* and in_flight_count counts them.
THEOREM RecordsStayExact == Spec => []RecordsAreExact
<1>1. RecordsConserved /\ InFlightIsExact => RecordsAreExact
  BY DEF RecordsAreExact
<1>2. QED BY <1>1, SubmissionsConserved, InFlightCounts, PTL

\* Leases and payloads go with the record of drain_completed_internal.
THEOREM LeasesStayWithRecords == Spec => []LeasesFollowRecords
<1>1. HeldWithRecord /\ RunningKeepsLease => LeasesFollowRecords
  BY DEF LeasesFollowRecords
<1>2. QED BY <1>1, AttachmentsFollowRecords, RunningWorkKeepsLease, PTL

-----------------------------------------------------------------------------
(* The wake.  What waits settled has been signalled to the end or has a    *)
(* signal to come; the flag that swallows a signal is up only while a wake *)
(* that no turn has seen is pending or about to be; and the probe counts at*)
(* most one generation for a submission.                                   *)

\* The record of a submission has a status, or is already out of its slot.
Settles(s) ==
  \/ \E i \in Slots : Holds(i, s) /\ slots[i].status # "Pending"
  \/ InHand(s) \/ drains[s] = 1

\* The submissions whose settling has been signalled to the end.
Heard == {s \in Submissions : signal[s] = "none" /\ Settles(s)}

\* The types of the wake.  The drain gives its probe no commands.
WakeTypes ==
  /\ signal \in [Submissions -> {"none", "raise", "publish"}]
  /\ ordered = <<>> /\ delivered = <<>> /\ accepted = 0
  /\ motion \in 0..MaxGeneration /\ generation \in 0..MaxGeneration
  /\ lastMotion \in 0..MaxGeneration /\ seenMotion \in 0..MaxGeneration
  /\ priority \in 0..2
  /\ batch \in [Turns -> Probe!WakeBatch \cup {NoBatch}]

Flags == closed \in BOOLEAN /\ flag \in BOOLEAN /\ wakePending \in BOOLEAN

\* No turn works with a batch of this or an earlier generation only.
NewerThanTurns(stages) ==
  /\ wakePending
  /\ \A c \in Turns : stage[c] \in stages => batch[c].generation < generation

\* A flag that is up is answered by a wake to come: one being published, or one
\* that the turns under way have not seen.
FlagIsAnswered ==
  flag => \/ \E s \in Submissions : signal[s] = "publish"
          \/ NewerThanTurns({"cleared", "processing", "drained"})

BatchesAreOld ==
  \A c \in Turns : /\ batch[c] # NoBatch => batch[c].generation <= generation
                   /\ stage[c] # "idle" => batch[c] # NoBatch

SignalsAreOfSettled == \A s \in Submissions : signal[s] # "none" => Settles(s)

\* What is reserved has not gone to the driver, and nobody settles it.
ReservedIsPending ==
  \A s \in reservation :
    /\ driver[s] = "absent"
    /\ \A i \in Slots : Holds(i, s) => slots[i].status = "Pending"

GenerationIsHeard == generation <= Cardinality(Heard)

WakeInv ==
  /\ WakeTypes /\ Flags
  /\ BatchesAreOld
  /\ SignalsAreOfSettled
  /\ ReservedIsPending
  /\ FlagIsAnswered
  /\ GenerationIsHeard
  /\ NoLostWake

\* The generations of the probe are enough for a wake per submission: the
\* counter has 64 bits.
GenerationsSuffice == Cardinality(Submissions) <= MaxGeneration

-----------------------------------------------------------------------------
LEMMA WakeInitHolds == Init => WakeInv
<1> SUFFICES ASSUME Init PROVE WakeInv
  OBVIOUS
<1>1. Probe!WakeInit
  BY DEF Init
<1>2. MaxGeneration \in Nat
  BY DrainAssumption
<1>3. WakeTypes
  BY <1>1, <1>2 DEF Init, Probe!WakeInit, WakeTypes, Probe!NoMotion, Probe!Background
<1>4. Flags
  BY <1>1, Zenon DEF Init, Probe!WakeInit, Flags
<1>5. \A s \in Submissions : ~Settles(s)
  BY DEF Init, Settles, Holds, InHand
<1>6. Heard = {}
  BY <1>5 DEF Heard
<1>7. GenerationIsHeard
  BY <1>1, <1>6, FS_EmptySet DEF GenerationIsHeard, Probe!WakeInit
<1>8. BatchesAreOld
  BY <1>1 DEF BatchesAreOld, Probe!WakeInit, Init, Drainers
<1>9. SignalsAreOfSettled /\ ReservedIsPending /\ FlagIsAnswered
  BY DEF Init, SignalsAreOfSettled, ReservedIsPending, FlagIsAnswered
<1>10. NoLostWake
  BY DEF Init, NoLostWake, Completed, Occupied
<1>11. QED BY <1>3, <1>4, <1>7, <1>8, <1>9, <1>10 DEF WakeInv

LEMMA HeardIsFinite ==
  /\ Heard \subseteq Submissions /\ IsFiniteSet(Heard)
  /\ Cardinality(Heard) \in Nat
  /\ Cardinality(Heard) <= Cardinality(Submissions)
BY ConstantsHold, FS_Subset, FS_CardinalityType DEF Heard

LEMMA HeardGrows ==
  ASSUME Heard \subseteq Heard', generation \in Nat, generation' = generation,
         GenerationIsHeard
  PROVE  GenerationIsHeard'
<1>1. IsFiniteSet(Heard') /\ Cardinality(Heard') \in Nat
  BY ConstantsHold, FS_Subset, FS_CardinalityType DEF Heard
<1>2. Cardinality(Heard) <= Cardinality(Heard')
  BY <1>1, FS_Subset
<1>3. Cardinality(Heard) \in Nat
  BY HeardIsFinite
<1>4. QED BY <1>1, <1>2, <1>3 DEF GenerationIsHeard

wake == <<signal, stage, flag, probe>>

\* A step that leaves the wake alone, brings no record to completion and takes
\* back no status.
LEMMA RecordsMove ==
  ASSUME WakeInv, UNCHANGED wake, closed' \in BOOLEAN,
         \A i \in Completed' : i \in Completed /\ slots'[i].submission = slots[i].submission,
         \A s \in Submissions : Settles(s) => Settles(s)',
         ReservedIsPending'
  PROVE  WakeInv'
<1>1. WakeTypes'
  BY DEF WakeInv, WakeTypes, wake, probe
<1>2. Flags'
  BY Zenon DEF WakeInv, Flags, wake, probe
<1>3. BatchesAreOld' /\ FlagIsAnswered'
  BY DEF WakeInv, BatchesAreOld, FlagIsAnswered, NewerThanTurns, wake, probe
<1>4. SignalsAreOfSettled'
  BY DEF WakeInv, SignalsAreOfSettled, wake
<1>5. GenerationIsHeard'
  <2>1. Heard \subseteq Heard'
    BY DEF Heard, wake
  <2>2. QED BY <2>1, HeardGrows DEF WakeInv, WakeTypes, wake, probe
<1>6. NoLostWake'
  <2>1. WakeComing' <=> WakeComing
    BY DEF WakeComing, wake, probe
  <2>2. QED BY <2>1 DEF WakeInv, NoLostWake, wake
<1>7. QED BY <1>1, <1>2, <1>3, <1>4, <1>5, <1>6 DEF WakeInv

\* What is attached, the driver's progress, and closing.
LEMMA AsideStep ==
  ASSUME IInv, WakeInv, UNCHANGED <<wake, records>>, closed' \in BOOLEAN,
         \A s \in reservation : driver'[s] = driver[s]
  PROVE  WakeInv'
<1>1. Completed' = Completed
  BY DEF Completed, Occupied, records
<1>2. \A s \in Submissions : Settles(s)' <=> Settles(s)
  BY RecordsStay DEF Settles, records
<1>3. ReservedIsPending'
  BY DEF WakeInv, ReservedIsPending, records, Holds
<1>4. QED BY <1>1, <1>2, <1>3, RecordsMove DEF records

LEMMA WakeReserveStep ==
  ASSUME IInv, WakeInv, NEW s \in Submissions, Reserve(s)
  PROVE  WakeInv'
<1> DEFINE i == Min(FreeSlots)
           r == [submission |-> s, status |-> "Pending", committed |-> FALSE]
<1>1. i \in Slots /\ slots[i] = NoSlot
  <2>1. FreeSlots \in SUBSET Slots /\ FreeSlots # {}
    BY DEF Reserve, FreeSlots
  <2>2. Min(FreeSlots) \in FreeSlots
    BY <2>1, MinIsFound
  <2>3. QED BY <2>2 DEF FreeSlots
<1>2. slots' = [slots EXCEPT ![i] = r]
  BY DEF Reserve
<1>3. r.submission = s /\ r.status = "Pending" /\ r.committed = FALSE
  OBVIOUS
<1> HIDE DEF i, r
<1>4. slots'[i] = r /\ \A j \in Slots : j # i => slots'[j] = slots[j]
  BY <1>1, <1>2 DEF IInv, Types
<1>5. UNCHANGED <<wake, closed, taken, drains, driver>>
  BY DEF Reserve, wake, probe, effects
<1>6. \A j \in Completed' : j \in Completed /\ slots'[j].submission = slots[j].submission
  BY <1>1, <1>3, <1>4 DEF Completed, Occupied, Slots
<1>7. \A t \in Submissions : Settles(t) => Settles(t)'
  <2>1. ASSUME NEW t \in Submissions, NEW j \in Slots, Holds(j, t), slots[j].status # "Pending"
        PROVE  Holds(j, t)' /\ slots'[j].status # "Pending"
    BY <1>1, <1>4, <2>1 DEF Holds
  <2>2. QED BY <1>5, <2>1, HandsStay DEF Settles
<1>8. ReservedIsPending'
  <2>1. reservation' = reservation \cup {s}
    BY DEF Reserve
  <2>2. driver[s] = "absent"
    BY DEF IInv, Places, Reserve
  <2>3. s \notin minted /\ \A j \in Slots : ~Holds(j, s)
    BY DEF Reserve, IInv, Places, InSlot
  <2>4. \A t \in reservation \cup {s}, j \in Slots : Holds(j, t)' => slots'[j].status = "Pending"
    BY <1>1, <1>3, <1>4, <2>3 DEF WakeInv, ReservedIsPending, Holds
  <2>5. QED BY <1>5, <2>1, <2>2, <2>4 DEF WakeInv, ReservedIsPending
<1>9. closed' \in BOOLEAN
  BY <1>5, Zenon DEF WakeInv, Flags
<1>10. QED BY <1>5, <1>6, <1>7, <1>8, <1>9, RecordsMove

\* A reservation is of a pending record, which is in no drain's hands.
LEMMA WakeCommitStep ==
  ASSUME IInv, WakeInv, NEW s \in Submissions, Commit(s)
  PROVE  WakeInv'
<1> DEFINE i == SlotOf(s)
           r == [slots[i] EXCEPT !.committed = TRUE]
<1>1. s \in reservation /\ reservation' = reservation \ {s}
  BY DEF Commit
<1>2. i \in Slots /\ Holds(i, s)
  BY <1>1, ReservedSlot
<1>3. slots[i] # NoSlot /\ slots[i] \in SlotRecord
  BY <1>2, RecordTypes DEF Holds, IInv
<1>4. slots' = [slots EXCEPT ![i] = r]
  BY DEF Commit
<1>5. /\ r \in SlotRecord /\ r.submission = slots[i].submission
      /\ r.status = slots[i].status
  BY <1>3 DEF SlotRecord
<1>6. slots[i].status = "Pending"
  BY <1>1, <1>2 DEF WakeInv, ReservedIsPending
<1> HIDE DEF i, r
<1>7. /\ slots'[i] = r
      /\ \A j \in Slots : j # i => slots'[j] = slots[j]
      /\ \A j \in Slots, t \in Submissions : Holds(j, t)' <=> Holds(j, t)
  BY <1>2, <1>3, <1>4, <1>5, FieldSet DEF IInv
<1>8. UNCHANGED <<wake, closed, taken, drains, driver>>
  BY DEF Commit, wake, probe, effects
<1>9. \A j \in Completed' : j \in Completed /\ slots'[j].submission = slots[j].submission
  BY <1>2, <1>5, <1>6, <1>7 DEF Completed, Occupied, Slots, Terminal
<1>10. \A j \in Slots : slots'[j].status = slots[j].status
  BY <1>5, <1>7
<1>11. \A t \in Submissions : Settles(t) => Settles(t)'
  BY <1>7, <1>8, <1>10, HandsStay DEF Settles
<1>12. ReservedIsPending'
  <2>1. reservation \subseteq Submissions
    BY DEF IInv, Types
  <2>2. QED BY <1>1, <1>7, <1>8, <1>10, <2>1 DEF WakeInv, ReservedIsPending
<1>13. closed' \in BOOLEAN
  BY <1>8, Zenon DEF WakeInv, Flags
<1>14. QED BY <1>8, <1>9, <1>11, <1>12, <1>13, RecordsMove

LEMMA WakeAbortStep ==
  ASSUME IInv, WakeInv, NEW s \in Submissions, Abort(s)
  PROVE  WakeInv'
<1> DEFINE i == SlotOf(s)
<1>1. s \in reservation /\ reservation' = reservation \ {s}
  BY DEF Abort
<1>2. i \in Slots /\ Holds(i, s)
  BY <1>1, ReservedSlot
<1>3. slots' = [slots EXCEPT ![i] = NoSlot]
  BY DEF Abort
<1>4. slots[i].status = "Pending"
  BY <1>1, <1>2 DEF WakeInv, ReservedIsPending
<1> HIDE DEF i
<1>5. slots'[i] = NoSlot /\ \A j \in Slots : j # i => slots'[j] = slots[j]
  BY <1>2, <1>3 DEF IInv, Types
<1>6. UNCHANGED <<wake, closed, taken, drains, driver>>
  BY DEF Abort, wake, probe
<1>7. \A j \in Completed' : j \in Completed /\ slots'[j].submission = slots[j].submission
  BY <1>2, <1>5 DEF Completed, Occupied, Slots
<1>8. \A t \in Submissions : Settles(t) => Settles(t)'
  <2>1. ASSUME NEW t \in Submissions, NEW j \in Slots, Holds(j, t), slots[j].status # "Pending"
        PROVE  Holds(j, t)' /\ slots'[j].status # "Pending"
    BY <1>4, <1>5, <2>1 DEF Holds
  <2>2. QED BY <1>6, <2>1, HandsStay DEF Settles
<1>9. ReservedIsPending'
  BY <1>1, <1>5, <1>6 DEF WakeInv, ReservedIsPending, Holds
<1>10. closed' \in BOOLEAN
  BY <1>6, Zenon DEF WakeInv, Flags
<1>11. QED BY <1>6, <1>7, <1>8, <1>9, <1>10, RecordsMove

\* The first to settle a record signals; until then it was not signalled.
LEMMA WakeSettleStep ==
  ASSUME IInv, WakeInv, NEW s \in Submissions, NEW status \in Terminal,
         InSlot(s), s \notin reservation,
         slots' = Settled(s, status), signal' = SignalsIfPending(s),
         UNCHANGED <<closed, reservation, taken, drains, flag, stage, probe>>,
         \A t \in reservation : driver'[t] = driver[t]
  PROVE  WakeInv'
<1> DEFINE i == SlotOf(s)
           r == [slots[i] EXCEPT !.status = status]
<1>1. i \in Slots /\ Holds(i, s)
  BY SlotOfFound DEF IInv, InSlot
<1>2. slots[i] # NoSlot /\ slots[i] \in SlotRecord
  BY <1>1, RecordTypes DEF Holds, IInv
<1>3. slots' = [slots EXCEPT ![i] = r]
  BY DEF Settled
<1>4. /\ r \in SlotRecord /\ r.submission = slots[i].submission
      /\ r.status = status /\ r.committed = slots[i].committed
  BY <1>2 DEF SlotRecord, Statuses
<1>5. /\ slots[i].status # "Pending" => signal' = signal
      /\ slots[i].status = "Pending" => signal' = [signal EXCEPT ![s] = "raise"]
  BY DEF SignalsIfPending
<1>6. status # "Pending" /\ slots[i].status \in Statuses
  BY <1>2 DEF Terminal, SlotRecord
<1> HIDE DEF i, r
<1>7. /\ slots'[i] = r
      /\ \A j \in Slots : j # i => slots'[j] = slots[j]
      /\ \A j \in Slots, t \in Submissions : Holds(j, t)' <=> Holds(j, t)
  BY <1>1, <1>2, <1>3, <1>4, FieldSet DEF IInv
<1>8. \A t \in Submissions : Settles(t) => Settles(t)'
  <2>1. ASSUME NEW t \in Submissions, NEW j \in Slots, Holds(j, t), slots[j].status # "Pending"
        PROVE  Holds(j, t)' /\ slots'[j].status # "Pending"
    BY <1>4, <1>6, <1>7, <2>1
  <2>2. QED BY <2>1, HandsStay DEF Settles
<1>9. ReservedIsPending'
  <2>1. reservation \subseteq Submissions /\ \A t \in reservation : ~Holds(i, t)
    BY <1>1 DEF IInv, Types, Holds
  <2>2. \A t \in reservation, j \in Slots : Holds(j, t)' => j # i /\ Holds(j, t)
    BY <1>7, <2>1
  <2>3. QED BY <1>7, <2>2 DEF WakeInv, ReservedIsPending
<1>10. CASE slots[i].status # "Pending"
  <2>1. \A j \in Completed' : j \in Completed /\ slots'[j].submission = slots[j].submission
    BY <1>1, <1>2, <1>4, <1>6, <1>7, <1>10 DEF Completed, Occupied, Slots, Statuses
  <2>2. UNCHANGED wake
    BY <1>5, <1>10 DEF wake
  <2>3. closed' \in BOOLEAN
    BY Zenon DEF WakeInv, Flags
  <2>4. QED BY <1>8, <1>9, <2>1, <2>2, <2>3, RecordsMove
<1>11. CASE slots[i].status = "Pending"
  <2>1. ~Settles(s)
    BY <1>1, <1>11 DEF Settles, IInv, OneRecord, InSlot
  <2>2. signal[s] = "none"
    BY <2>1 DEF WakeInv, SignalsAreOfSettled
  <2>3. signal' = [signal EXCEPT ![s] = "raise"]
    BY <1>5, <1>11
  <2>4. /\ signal' \in [Submissions -> {"none", "raise", "publish"}]
        /\ signal'[s] = "raise"
        /\ \A t \in Submissions : t # s => signal'[t] = signal[t]
    BY <2>3 DEF WakeInv, WakeTypes
  <2>5. WakeTypes'
    BY <2>4 DEF WakeInv, WakeTypes, probe
  <2>6. Flags'
    BY Zenon DEF WakeInv, Flags, probe
  <2>7. BatchesAreOld'
    BY DEF WakeInv, BatchesAreOld, probe
  <2>8. \A t \in Submissions : signal'[t] = "publish" <=> signal[t] = "publish"
    BY <2>2, <2>4
  <2>9. FlagIsAnswered'
    BY <2>8 DEF WakeInv, FlagIsAnswered, NewerThanTurns, probe
  <2>10. Settles(s)'
    BY <1>1, <1>4, <1>6, <1>7 DEF Settles
  <2>11. SignalsAreOfSettled'
    BY <1>8, <2>4, <2>10 DEF WakeInv, SignalsAreOfSettled
  <2>12. GenerationIsHeard'
    <3>1. Heard \subseteq Heard'
      BY <1>8, <2>1, <2>4 DEF Heard
    <3>2. QED BY <3>1, HeardGrows DEF WakeInv, WakeTypes, probe
  <2>13. WakeComing' <=> WakeComing
    BY <2>8 DEF WakeComing, probe
  <2>14. NoLostWake'
    <3>1. \A j \in Completed' : /\ slots'[j].submission \in Submissions
                                /\ slots'[j].submission # s => j \in Completed /\ slots'[j] = slots[j]
      <4>1. ASSUME NEW j \in Slots, j # i, slots[j] # NoSlot
            PROVE  slots[j].submission \in Submissions
        BY <4>1, RecordTypes DEF IInv
      <4>2. slots'[i].submission = s
        BY <1>1, <1>4, <1>7 DEF Holds
      <4>3. QED BY <1>7, <4>1, <4>2 DEF Completed, Occupied, Slots
    <3>2. QED BY <2>4, <2>13, <3>1 DEF WakeInv, NoLostWake
  <2>15. QED BY <1>9, <2>5, <2>6, <2>7, <2>9, <2>11, <2>12, <2>14 DEF WakeInv
<1>12. QED BY <1>10, <1>11

-----------------------------------------------------------------------------
(* The signal, and the drains.                                             *)

LEMMA SettlesStay ==
  ASSUME UNCHANGED records
  PROVE  /\ Completed' = Completed
         /\ \A s : Settles(s)' <=> Settles(s)
         /\ UNCHANGED driver => (ReservedIsPending => ReservedIsPending')
BY DEF Completed, Occupied, records, Settles, Holds, InHand, ReservedIsPending

LEMMA WakeRaiseStep ==
  ASSUME IInv, WakeInv, NEW s \in Submissions, RaiseFlag(s)
  PROVE  WakeInv'
<1>1. UNCHANGED <<records, closed, stage, driver, probe>>
  BY DEF RaiseFlag, queue, effects, records
<1>2. signal[s] = "raise" /\ flag' = TRUE
  BY DEF RaiseFlag
<1>3. /\ flag => signal' = [signal EXCEPT ![s] = "none"]
      /\ ~flag => signal' = [signal EXCEPT ![s] = "publish"]
  BY DEF RaiseFlag
<1>4. /\ signal' \in [Submissions -> {"none", "raise", "publish"}]
      /\ flag => signal'[s] = "none"
      /\ ~flag => signal'[s] = "publish"
      /\ \A t \in Submissions : t # s => signal'[t] = signal[t]
  BY <1>3 DEF WakeInv, WakeTypes
<1>5. WakeTypes'
  BY <1>1, <1>4 DEF WakeInv, WakeTypes, probe
<1>6. Flags'
  BY <1>1, <1>2, Zenon DEF WakeInv, Flags, probe
<1>7. BatchesAreOld' /\ ReservedIsPending'
  BY <1>1, SettlesStay DEF WakeInv, BatchesAreOld, probe
<1>8. Settles(s)
  BY <1>2 DEF WakeInv, SignalsAreOfSettled
<1>9. SignalsAreOfSettled'
  BY <1>1, <1>4, <1>8, SettlesStay DEF WakeInv, SignalsAreOfSettled
<1>10. GenerationIsHeard'
  <2>1. Heard \subseteq Heard'
    BY <1>1, <1>2, <1>4, SettlesStay DEF Heard
  <2>2. QED BY <1>1, <2>1, HeardGrows DEF WakeInv, WakeTypes, probe
<1>11. FlagIsAnswered'
  <2>1. CASE flag
    <3>1. CASE \E t \in Submissions : signal[t] = "publish"
      <4>1. \E t \in Submissions : signal'[t] = "publish"
        BY <1>2, <1>4, <3>1
      <4>2. QED BY <4>1 DEF FlagIsAnswered
    <3>2. CASE NewerThanTurns({"cleared", "processing", "drained"})
      BY <1>1, <3>2 DEF FlagIsAnswered, NewerThanTurns, probe
    <3>3. QED BY <2>1, <3>1, <3>2 DEF WakeInv, FlagIsAnswered
  <2>2. CASE ~flag
    BY <1>4, <2>2 DEF FlagIsAnswered
  <2>3. QED BY <2>1, <2>2
<1>12. NoLostWake'
  <2>1. CASE flag
    <3>1. CASE \E t \in Submissions : signal[t] = "publish"
      <4>1. \E t \in Submissions : signal'[t] = "publish"
        BY <1>2, <1>4, <3>1
      <4>2. QED BY <4>1 DEF NoLostWake, WakeComing
    <3>2. CASE NewerThanTurns({"cleared", "processing", "drained"})
      <4>1. WakeComing'
        BY <1>1, <3>2 DEF NewerThanTurns, probe, WakeComing
      <4>2. QED BY <4>1 DEF NoLostWake
    <3>3. QED BY <2>1, <3>1, <3>2 DEF WakeInv, FlagIsAnswered
  <2>2. CASE ~flag
    <3>1. WakeComing'
      BY <1>4, <2>2 DEF WakeComing
    <3>2. QED BY <3>1 DEF NoLostWake
  <2>3. QED BY <2>1, <2>2
<1>13. QED BY <1>5, <1>6, <1>7, <1>9, <1>10, <1>11, <1>12 DEF WakeInv

\* The generations given out are at most the submissions that were heard.
LEMMA RoomForOne ==
  ASSUME WakeInv, GenerationsSuffice, NEW s \in Submissions, s \notin Heard
  PROVE  generation < MaxGeneration
<1>1. Heard \cup {s} \subseteq Submissions
  BY HeardIsFinite
<1>2. Cardinality(Heard \cup {s}) = Cardinality(Heard) + 1
  BY HeardIsFinite, FS_AddElement
<1>3. Cardinality(Heard \cup {s}) <= Cardinality(Submissions) /\ Cardinality(Submissions) \in Nat
  BY <1>1, ConstantsHold, FS_Subset, FS_CardinalityType
<1>4. generation \in Nat /\ MaxGeneration \in Nat
  BY DrainAssumption DEF WakeInv, WakeTypes
<1>5. generation <= Cardinality(Heard) /\ Cardinality(Submissions) <= MaxGeneration
  BY DEF WakeInv, GenerationIsHeard, GenerationsSuffice
<1>6. QED BY <1>2, <1>3, <1>4, <1>5, HeardIsFinite

LEMMA WakePublishStep ==
  ASSUME IInv, WakeInv, GenerationsSuffice, NEW s \in Submissions, PublishWake(s)
  PROVE  WakeInv'
<1>1. UNCHANGED <<records, closed, stage, driver, flag>>
  BY DEF PublishWake, queue, effects, records
<1>2. signal[s] = "publish" /\ signal' = [signal EXCEPT ![s] = "none"]
  BY DEF PublishWake
<1>3. /\ signal' \in [Submissions -> {"none", "raise", "publish"}]
      /\ signal'[s] = "none"
      /\ \A t \in Submissions : t # s => signal'[t] = signal[t]
  BY <1>2 DEF WakeInv, WakeTypes
<1>4. s \notin Heard
  BY <1>2 DEF Heard
<1>5. generation < MaxGeneration /\ generation \in Nat /\ MaxGeneration \in Nat
  BY <1>4, RoomForOne, DrainAssumption DEF WakeInv, WakeTypes
<1>6. Probe!PublishMotion(Probe!Urgent)
  BY <1>5, Zenon DEF PublishWake
<1>7. /\ generation' = generation + 1 /\ wakePending' = TRUE
      /\ motion' = generation + 1 /\ lastMotion' = generation + 1
      /\ UNCHANGED <<ordered, accepted, batch, delivered, seenMotion>>
  BY <1>6 DEF Probe!PublishMotion, Probe!Arm, Probe!NewestMotion
<1>8. priority' \in 0..2
  BY <1>6 DEF Probe!PublishMotion, Probe!Arm, Probe!Greater, Probe!Urgent, WakeInv, WakeTypes
<1>9. WakeTypes'
  BY <1>3, <1>5, <1>7, <1>8 DEF WakeInv, WakeTypes
<1>10. Flags'
  BY <1>1, <1>7, Zenon DEF WakeInv, Flags
<1>11. \A c \in Turns : batch[c] # NoBatch =>
          batch[c].generation < generation' /\ batch[c].generation <= generation'
  <2>1. ASSUME NEW c \in Turns, batch[c] # NoBatch
        PROVE  batch[c].generation \in Nat /\ batch[c].generation <= generation
    BY <2>1 DEF WakeInv, WakeTypes, BatchesAreOld, Probe!WakeBatch
  <2>2. QED BY <1>5, <1>7, <2>1
<1>12. BatchesAreOld'
  BY <1>1, <1>7, <1>11 DEF WakeInv, BatchesAreOld
<1>13. NewerThanTurns({"cleared", "processing", "drained"})'
  BY <1>1, <1>7, <1>11 DEF WakeInv, BatchesAreOld, NewerThanTurns
<1>14. FlagIsAnswered' /\ WakeComing'
  BY <1>13 DEF FlagIsAnswered, WakeComing, NewerThanTurns
<1>15. SignalsAreOfSettled' /\ ReservedIsPending'
  BY <1>1, <1>3, SettlesStay DEF WakeInv, SignalsAreOfSettled
<1>16. GenerationIsHeard'
  <2>1. Settles(s)'
    BY <1>1, <1>2, SettlesStay DEF WakeInv, SignalsAreOfSettled
  <2>2. Heard \cup {s} \subseteq Heard'
    BY <1>1, <1>2, <1>3, <2>1, SettlesStay DEF Heard
  <2>3. IsFiniteSet(Heard') /\ Cardinality(Heard') \in Nat
    BY ConstantsHold, FS_Subset, FS_CardinalityType DEF Heard
  <2>4. Cardinality(Heard \cup {s}) = Cardinality(Heard) + 1
    BY <1>4, HeardIsFinite, FS_AddElement
  <2>5. Cardinality(Heard \cup {s}) <= Cardinality(Heard')
    BY <2>2, <2>3, FS_Subset
  <2>6. generation <= Cardinality(Heard)
    BY DEF WakeInv, GenerationIsHeard
  <2>7. QED BY <1>5, <1>7, <2>3, <2>4, <2>5, <2>6, HeardIsFinite DEF GenerationIsHeard
<1>17. QED BY <1>9, <1>10, <1>12, <1>14, <1>15, <1>16 DEF WakeInv, NoLostWake

\* A turn takes the probe's batch before it drains.
LEMMA WakeTurnStep ==
  ASSUME IInv, WakeInv, NEW c \in Turns, TurnBegins(c)
  PROVE  WakeInv'
<1> DEFINE b == [generation |-> generation, priority |-> priority, motion |-> motion]
<1>1. UNCHANGED <<records, closed, stage, driver, flag, signal>>
  BY DEF TurnBegins, queue, threads, effects, records
<1>2. stage[c] = "idle" /\ Probe!Take(c, 1)
  BY DEF TurnBegins
<1>3. /\ batch' = [batch EXCEPT ![c] = b]
      /\ UNCHANGED <<generation, priority, wakePending, accepted, lastMotion>>
  BY <1>2 DEF Probe!Take
<1>4. motion' \in 0..MaxGeneration /\ seenMotion' \in 0..MaxGeneration
  BY <1>2, DrainAssumption DEF Probe!Take, Probe!NoMotion, WakeInv, WakeTypes
<1>5. ordered' = <<>> /\ delivered' = <<>>
  <2>1. ordered = <<>> /\ delivered = <<>>
    BY DEF WakeInv, WakeTypes
  <2>2. Probe!Smaller(1, Len(ordered)) = 0
    BY <2>1 DEF Probe!Smaller
  <2>3. ordered' = SubSeq(ordered, 1, 0) /\ delivered' = delivered \o SubSeq(ordered, 1, 0)
    BY <1>2, <2>1, <2>2 DEF Probe!Take, Probe!Remaining
  <2>4. SubSeq(ordered, 1, 0) = <<>>
    BY <2>1
  <2>5. QED BY <2>1, <2>3, <2>4
<1>6. b \in Probe!WakeBatch
  BY DEF WakeInv, WakeTypes, Probe!WakeBatch, Probe!Priorities
<1>7. b.generation = generation
  OBVIOUS
<1> HIDE DEF b
<1>8. /\ batch' \in [Turns -> Probe!WakeBatch \cup {NoBatch}]
      /\ batch'[c] = b
      /\ \A e \in Turns : e # c => batch'[e] = batch[e]
  BY <1>3, <1>6 DEF WakeInv, WakeTypes
<1>9. WakeTypes'
  BY <1>1, <1>3, <1>4, <1>5, <1>8 DEF WakeInv, WakeTypes
<1>10. Flags'
  BY <1>1, <1>3, Zenon DEF WakeInv, Flags
<1>11. BatchesAreOld'
  BY <1>1, <1>2, <1>3, <1>7, <1>8 DEF WakeInv, WakeTypes, BatchesAreOld
<1>12. FlagIsAnswered'
  BY <1>1, <1>2, <1>3, <1>8 DEF WakeInv, FlagIsAnswered, NewerThanTurns
<1>13. WakeComing => WakeComing'
  BY <1>1, <1>2, <1>3, <1>8 DEF WakeComing
<1>14. SignalsAreOfSettled' /\ ReservedIsPending'
  BY <1>1, SettlesStay DEF WakeInv, SignalsAreOfSettled
<1>15. GenerationIsHeard'
  <2>1. Heard \subseteq Heard'
    BY <1>1, SettlesStay DEF Heard
  <2>2. QED BY <1>3, <2>1, HeardGrows DEF WakeInv, WakeTypes
<1>16. NoLostWake'
  BY <1>1, <1>13, SettlesStay DEF WakeInv, NoLostWake, records
<1>17. QED BY <1>9, <1>10, <1>11, <1>12, <1>14, <1>15, <1>16 DEF WakeInv

\* A drain lowers the flag before it looks at the records.
LEMMA WakeClearStep ==
  ASSUME IInv, WakeInv, NEW d \in Drainers, ClearFlag(d)
  PROVE  WakeInv'
<1>1. UNCHANGED <<records, closed, driver, signal, probe>>
  BY DEF ClearFlag, queue, effects, records
<1>2. flag' = FALSE /\ MayDrain(d) /\ stage' = [stage EXCEPT ![d] = "cleared"]
  BY DEF ClearFlag
<1>3. stage'[d] = "cleared" /\ \A e \in Drainers : e # d => stage'[e] = stage[e]
  BY <1>2 DEF IInv, Types
<1>4. WakeTypes'
  BY <1>1 DEF WakeInv, WakeTypes, probe
<1>5. Flags'
  BY <1>1, <1>2, Zenon DEF WakeInv, Flags, probe
<1>6. BatchesAreOld'
  <2>1. UNCHANGED <<batch, generation>>
    BY <1>1 DEF probe
  <2>2. QED BY <1>2, <1>3, <2>1 DEF WakeInv, BatchesAreOld, MayDrain, Drainers
<1>7. FlagIsAnswered'
  BY <1>2 DEF FlagIsAnswered
<1>8. SignalsAreOfSettled' /\ ReservedIsPending'
  BY <1>1, SettlesStay DEF WakeInv, SignalsAreOfSettled
<1>9. GenerationIsHeard'
  <2>1. Heard \subseteq Heard'
    BY <1>1, SettlesStay DEF Heard
  <2>2. QED BY <1>1, <2>1, HeardGrows DEF WakeInv, WakeTypes, probe
<1>10. NoLostWake'
  BY <1>3 DEF NoLostWake, WakeComing
<1>11. QED BY <1>4, <1>5, <1>6, <1>7, <1>8, <1>9, <1>10 DEF WakeInv

\* Nothing that is complete is left behind.
LEMMA WakeTakeStep ==
  ASSUME IInv, WakeInv, NEW d \in Drainers, TakeCompleted(d)
  PROVE  WakeInv'
<1>1. UNCHANGED <<closed, flag, reservation, signal, drains, driver, probe>>
  BY DEF TakeCompleted
<1>2. stage[d] = "cleared" /\ stage' = [stage EXCEPT ![d] = "processing"]
  BY DEF TakeCompleted
<1>3. stage'[d] = "processing" /\ \A e \in Drainers : e # d => stage'[e] = stage[e]
  BY <1>2 DEF IInv, Types
<1>4. WakeTypes'
  BY <1>1 DEF WakeInv, WakeTypes, probe
<1>5. Flags'
  BY <1>1, Zenon DEF WakeInv, Flags, probe
<1>6. BatchesAreOld'
  <2>1. UNCHANGED <<batch, generation>>
    BY <1>1 DEF probe
  <2>2. QED BY <1>2, <1>3, <2>1 DEF WakeInv, BatchesAreOld, Drainers
<1>7. FlagIsAnswered'
  <2>1. UNCHANGED <<batch, generation, wakePending>>
    BY <1>1 DEF probe
  <2>2. \A c \in Turns : stage'[c] # stage[c] => stage[c] = "cleared"
    BY <1>2, <1>3 DEF Drainers
  <2>3. QED BY <1>1, <2>1, <2>2 DEF WakeInv, FlagIsAnswered, NewerThanTurns
<1>8. \A i \in Slots, s \in Submissions :
        /\ Holds(i, s)' <=> Holds(i, s) /\ i \notin Completed
        /\ i \notin Completed => slots'[i] = slots[i]
  BY TakeMoves
<1>9. \A s \in Submissions : InHand(s)' <=> InHand(s) \/ InCompleted(s)
  BY TakeMoves
<1>10. \A s \in Submissions : Settles(s) => Settles(s)'
  BY <1>1, <1>8, <1>9 DEF Settles, InCompleted
<1>11. SignalsAreOfSettled'
  BY <1>1, <1>10 DEF WakeInv, SignalsAreOfSettled
<1>12. ReservedIsPending'
  <2>1. reservation \subseteq Submissions
    BY DEF IInv, Types
  <2>2. QED BY <1>1, <1>8, <2>1 DEF WakeInv, ReservedIsPending
<1>13. GenerationIsHeard'
  <2>1. Heard \subseteq Heard'
    BY <1>1, <1>10 DEF Heard
  <2>2. QED BY <1>1, <2>1, HeardGrows DEF WakeInv, WakeTypes, probe
<1>14. NoLostWake'
  <2>1. Completed' = {}
    BY TakeMoves DEF Completed, Occupied, Slots
  <2>2. QED BY <2>1 DEF NoLostWake
<1>15. QED BY <1>4, <1>5, <1>6, <1>7, <1>11, <1>12, <1>13, <1>14 DEF WakeInv

LEMMA WakeProcessStep ==
  ASSUME IInv, WakeInv, NEW d \in Drainers, ProcessRecord(d)
  PROVE  WakeInv'
<1>1. PICK r \in taken[d] :
        /\ taken' = [taken EXCEPT ![d] = @ \ {r}]
        /\ drains' = [drains EXCEPT ![r.submission] = @ + 1]
  BY DEF ProcessRecord
<1>2. UNCHANGED <<queue, flag, signal, stage, driver, reservation, probe>>
  BY DEF ProcessRecord
<1>3. UNCHANGED <<slots, closed>>
  BY <1>2 DEF queue
<1>4. r.submission \in Submissions /\ drains[r.submission] = 0
  <2>1. r \in SlotRecord
    BY DEF IInv, Types
  <2>2. r.submission \in Submissions
    BY <2>1 DEF SlotRecord
  <2>3. InHand(r.submission)
    BY DEF InHand
  <2>4. QED BY <2>2, <2>3 DEF IInv, Types, OneRecord
<1>5. /\ drains'[r.submission] = 1
      /\ \A s \in Submissions : s # r.submission => drains'[s] = drains[s]
  BY <1>1, <1>4 DEF IInv, Types
<1>6. \A s \in Submissions : InHand(s) /\ s # r.submission => InHand(s)'
  BY <1>1 DEF InHand, IInv, Types
<1>7. \A i, s : Holds(i, s)' <=> Holds(i, s)
  BY <1>3 DEF Holds
<1>8. \A s \in Submissions : Settles(s) => Settles(s)'
  BY <1>3, <1>5, <1>6, <1>7 DEF Settles
<1>9. Completed' = Completed
  BY <1>3 DEF Completed, Occupied
<1>10. ReservedIsPending'
  BY <1>2, <1>3, <1>7 DEF WakeInv, ReservedIsPending
<1>11. closed' \in BOOLEAN
  BY <1>3, Zenon DEF WakeInv, Flags
<1>12. UNCHANGED wake
  BY <1>2 DEF wake
<1>13. QED BY <1>3, <1>8, <1>9, <1>10, <1>11, <1>12, RecordsMove

LEMMA WakeDrainEndStep ==
  ASSUME IInv, WakeInv, NEW d \in Drainers, DrainEnds(d)
  PROVE  WakeInv'
<1>1. UNCHANGED <<records, closed, flag, driver, signal, probe>>
  BY DEF DrainEnds, queue, effects, records
<1>2. /\ stage[d] = "processing"
      /\ stage' = [stage EXCEPT ![d] = IF d \in Turns THEN "drained" ELSE "idle"]
  BY DEF DrainEnds
<1>3. /\ stage'[d] = IF d \in Turns THEN "drained" ELSE "idle"
      /\ \A e \in Drainers : e # d => stage'[e] = stage[e]
  BY <1>2 DEF IInv, Types
<1>4. WakeTypes'
  BY <1>1 DEF WakeInv, WakeTypes, probe
<1>5. Flags'
  BY <1>1, Zenon DEF WakeInv, Flags, probe
<1>6. UNCHANGED <<batch, generation, wakePending>>
  BY <1>1 DEF probe
<1>7. \A c \in Turns : stage'[c] # stage[c] => stage[c] = "processing"
  BY <1>2, <1>3 DEF Drainers
<1>8. BatchesAreOld'
  BY <1>6, <1>7 DEF WakeInv, BatchesAreOld
<1>9. FlagIsAnswered'
  BY <1>1, <1>6, <1>7 DEF WakeInv, FlagIsAnswered, NewerThanTurns
<1>10. WakeComing => WakeComing'
  BY <1>1, <1>2, <1>3, <1>6, <1>7 DEF WakeComing
<1>11. SignalsAreOfSettled' /\ ReservedIsPending'
  BY <1>1, SettlesStay DEF WakeInv, SignalsAreOfSettled
<1>12. GenerationIsHeard'
  <2>1. Heard \subseteq Heard'
    BY <1>1, SettlesStay DEF Heard
  <2>2. QED BY <1>1, <2>1, HeardGrows DEF WakeInv, WakeTypes, probe
<1>13. NoLostWake'
  BY <1>1, <1>10, SettlesStay DEF WakeInv, NoLostWake, records
<1>14. QED BY <1>4, <1>5, <1>8, <1>9, <1>11, <1>12, <1>13 DEF WakeInv

\* The turn's acknowledgement retires the wake only if no newer one was asked
\* for since its batch was taken.
LEMMA WakeTurnEndStep ==
  ASSUME IInv, WakeInv, NEW c \in Turns, TurnEnds(c)
  PROVE  WakeInv'
<1>1. UNCHANGED <<records, closed, flag, driver, signal>>
  BY DEF TurnEnds, queue, effects, records
<1>2. /\ stage[c] = "drained" /\ stage' = [stage EXCEPT ![c] = "idle"]
      /\ Probe!Acknowledge(c)
  BY DEF TurnEnds
<1>3. /\ stage'[c] = "idle"
      /\ \A e \in Drainers : e # c => stage'[e] = stage[e]
  BY <1>2 DEF IInv, Types, Drainers
<1>4. /\ batch' = [batch EXCEPT ![c] = NoBatch]
      /\ UNCHANGED <<ordered, motion, generation, accepted, delivered, lastMotion, seenMotion>>
  BY <1>2 DEF Probe!Acknowledge, Probe!history
<1>5. /\ batch' \in [Turns -> Probe!WakeBatch \cup {NoBatch}]
      /\ batch'[c] = NoBatch
      /\ \A e \in Turns : e # c => batch'[e] = batch[e]
  BY <1>4 DEF WakeInv, WakeTypes
<1>6. priority' \in 0..2
  BY <1>2 DEF Probe!Acknowledge, Probe!Background, WakeInv, WakeTypes
<1>7. WakeTypes'
  BY <1>1, <1>4, <1>5, <1>6 DEF WakeInv, WakeTypes
<1>8. wakePending' = FALSE \/ wakePending' = wakePending
  BY <1>2, Zenon DEF Probe!Acknowledge
<1>9. Flags'
  BY <1>1, <1>8, Zenon DEF WakeInv, Flags
<1>10. batch[c].generation # generation => wakePending' = wakePending
  BY <1>2, Zenon DEF Probe!Acknowledge, Probe!IsCurrent
<1>11. generation \in Nat
  BY DEF WakeInv, WakeTypes
<1>12. BatchesAreOld'
  BY <1>3, <1>4, <1>5 DEF WakeInv, BatchesAreOld, Drainers
<1>13. FlagIsAnswered'
  <2>1. NewerThanTurns({"cleared", "processing", "drained"}) =>
          NewerThanTurns({"cleared", "processing", "drained"})'
    <3>1. SUFFICES ASSUME NewerThanTurns({"cleared", "processing", "drained"})
                   PROVE  NewerThanTurns({"cleared", "processing", "drained"})'
      OBVIOUS
    <3>2. batch[c].generation < generation
      BY <1>2, <3>1 DEF NewerThanTurns
    <3>3. batch[c].generation # generation
      BY <1>11, <3>2
    <3>4. wakePending'
      BY <1>10, <3>1, <3>3 DEF NewerThanTurns
    <3>5. QED BY <1>3, <1>4, <1>5, <3>1, <3>4 DEF NewerThanTurns, Drainers
  <2>2. QED BY <1>1, <2>1 DEF WakeInv, FlagIsAnswered
<1>14. WakeComing => WakeComing'
  <2>1. CASE NewerThanTurns({"processing", "drained"})
    <3>2. batch[c].generation < generation
      BY <1>2, <2>1 DEF NewerThanTurns
    <3>3. batch[c].generation # generation
      BY <1>11, <3>2
    <3>4. wakePending'
      BY <1>10, <2>1, <3>3 DEF NewerThanTurns
    <3>5. NewerThanTurns({"processing", "drained"})'
      BY <1>3, <1>4, <1>5, <2>1, <3>4 DEF NewerThanTurns, Drainers
    <3>6. QED BY <3>5 DEF NewerThanTurns, WakeComing
  <2>2. CASE \E s \in Submissions : signal[s] = "publish"
    BY <1>1, <2>2 DEF WakeComing
  <2>3. CASE \E d \in Drainers : stage[d] = "cleared"
    BY <1>2, <1>3, <2>3 DEF WakeComing
  <2>4. QED BY <2>1, <2>2, <2>3 DEF NewerThanTurns, WakeComing
<1>15. SignalsAreOfSettled' /\ ReservedIsPending'
  BY <1>1, SettlesStay DEF WakeInv, SignalsAreOfSettled
<1>16. GenerationIsHeard'
  <2>1. Heard \subseteq Heard'
    BY <1>1, SettlesStay DEF Heard
  <2>2. QED BY <1>4, <2>1, HeardGrows DEF WakeInv, WakeTypes
<1>17. NoLostWake'
  BY <1>1, <1>14, SettlesStay DEF WakeInv, NoLostWake, records
<1>18. QED BY <1>7, <1>9, <1>12, <1>13, <1>15, <1>16, <1>17 DEF WakeInv

LEMMA WakeAttachStep ==
  ASSUME IInv, WakeInv, NEW s \in Submissions,
         \/ AttachLease(s) \/ AttachRetiredPayload(s) \/ DestroyRetired(s)
         \/ (CommitFirst /\ Submit(s)) \/ DriverFinishes(s) \/ Close
  PROVE  WakeInv'
<1>1. UNCHANGED <<wake, records>>
  BY DEF AttachLease, AttachRetiredPayload, DestroyRetired, Submit, DriverFinishes, Close,
         wake, probe, records, queue, threads, effects
<1>2. closed' = closed \/ closed' = TRUE
  BY DEF AttachLease, AttachRetiredPayload, DestroyRetired, Submit, DriverFinishes, Close, queue
<1>3. closed' \in BOOLEAN
  BY <1>2, Zenon DEF WakeInv, Flags
<1>4. \A t \in reservation : driver'[t] = driver[t]
  <2>1. CASE CommitFirst /\ Submit(s)
    <3>1. s \notin reservation
      BY <2>1 DEF Submit, Committed, SlotsOf, Occupied, IInv, Places, Holds, Slots
    <3>2. QED BY <2>1, <3>1 DEF Submit, IInv, Types
  <2>2. CASE DriverFinishes(s)
    <3>1. s \notin reservation
      BY <2>2 DEF DriverFinishes, WakeInv, ReservedIsPending
    <3>2. QED BY <2>2, <3>1 DEF DriverFinishes, IInv, Types
  <2>3. CASE AttachLease(s) \/ AttachRetiredPayload(s) \/ DestroyRetired(s) \/ Close
    BY <2>3 DEF AttachLease, AttachRetiredPayload, DestroyRetired, Close, effects
  <2>4. QED BY <2>1, <2>2, <2>3
<1>5. QED BY <1>1, <1>3, <1>4, AsideStep

LEMMA WakeRecordStep ==
  ASSUME IInv, WakeInv, NEW s \in Submissions, NEW status \in {"Success", "Error"},
         RecordCompletion(s, status)
  PROVE  WakeInv'
<1>1. s \notin reservation
  BY DEF RecordCompletion, WakeInv, ReservedIsPending
<1>2. \A t \in reservation : driver'[t] = driver[t]
  BY <1>1 DEF RecordCompletion, IInv, Types
<1>3. UNCHANGED <<closed, inFlight, minted, reservation, taken, reported, drains, flag, stage, probe>>
  BY DEF RecordCompletion
<1>4. CASE SlotsOf(s) = {}
  <2>1. UNCHANGED <<slots, signal>>
    BY <1>4 DEF RecordCompletion
  <2>2. UNCHANGED <<wake, records>>
    BY <1>3, <2>1 DEF wake, records
  <2>3. closed' \in BOOLEAN
    BY <1>3, Zenon DEF WakeInv, Flags
  <2>4. QED BY <1>2, <2>2, <2>3, AsideStep
<1>5. CASE SlotsOf(s) # {}
  <2>1. InSlot(s) /\ status \in Terminal
    BY <1>5, NoSlotFound DEF Terminal
  <2>2. slots' = Settled(s, status) /\ signal' = SignalsIfPending(s)
    BY <1>5 DEF RecordCompletion
  <2>3. QED BY <1>1, <1>2, <1>3, <2>1, <2>2, WakeSettleStep
<1>6. QED BY <1>4, <1>5

LEMMA WakeCancelStep ==
  ASSUME IInv, WakeInv, CommitFirst, NEW s \in Submissions, CancelSubmission(s)
  PROVE  WakeInv'
<1>1. InSlot(s) /\ "Cancelled" \in Terminal
  BY NoSlotFound DEF CancelSubmission, Terminal
<1>2. s \notin reservation
  BY DEF CancelSubmission, Committed, SlotsOf, Occupied, IInv, Places, Holds, Slots
<1>3. UNCHANGED <<closed, reservation, taken, drains, flag, stage, probe, driver>>
  BY DEF CancelSubmission, effects
<1>4. slots' = Settled(s, "Cancelled") /\ signal' = SignalsIfPending(s)
  BY DEF CancelSubmission
<1>5. QED BY <1>1, <1>2, <1>3, <1>4, WakeSettleStep

LEMMA WakeStutter ==
  ASSUME IInv, WakeInv, UNCHANGED vars
  PROVE  WakeInv'
<1>1. UNCHANGED <<wake, records, closed, driver>>
  BY DEF vars, queue, threads, effects, wake, records
<1>2. closed' \in BOOLEAN
  BY <1>1, Zenon DEF WakeInv, Flags
<1>3. QED BY <1>1, <1>2, AsideStep

LEMMA WakeNextStep ==
  ASSUME CommitFirst, GenerationsSuffice
  PROVE  IInv /\ WakeInv /\ [Next]_vars => WakeInv'
<1> SUFFICES ASSUME IInv, WakeInv, [Next]_vars PROVE WakeInv'
  OBVIOUS
<1>1. ASSUME NEW s \in Submissions, Reserve(s) PROVE WakeInv'
  BY <1>1, WakeReserveStep
<1>2. ASSUME NEW s \in Submissions,
             \/ AttachLease(s) \/ AttachRetiredPayload(s) \/ DestroyRetired(s)
             \/ Submit(s) \/ DriverFinishes(s) \/ Close
      PROVE  WakeInv'
  BY <1>2, WakeAttachStep
<1>3. CASE Close
  <2>1. UNCHANGED <<wake, records, driver>> /\ closed' = TRUE
    BY <1>3 DEF Close, threads, effects, wake, records
  <2>2. QED BY <2>1, AsideStep
<1>4. ASSUME NEW s \in Submissions, Commit(s) PROVE WakeInv'
  BY <1>4, WakeCommitStep
<1>5. ASSUME NEW s \in Submissions, Abort(s) PROVE WakeInv'
  BY <1>5, WakeAbortStep
<1>6. ASSUME NEW s \in Submissions, NEW status \in {"Success", "Error"},
             RecordCompletion(s, status)
      PROVE  WakeInv'
  BY <1>6, WakeRecordStep
<1>7. ASSUME NEW s \in Submissions, CancelSubmission(s) PROVE WakeInv'
  BY <1>7, WakeCancelStep
<1>8. ASSUME NEW s \in Submissions, RaiseFlag(s) PROVE WakeInv'
  BY <1>8, WakeRaiseStep
<1>9. ASSUME NEW s \in Submissions, PublishWake(s) PROVE WakeInv'
  BY <1>9, WakePublishStep
<1>10. ASSUME NEW c \in Turns, TurnBegins(c) PROVE WakeInv'
  BY <1>10, WakeTurnStep
<1>11. ASSUME NEW d \in Drainers, ClearFlag(d) PROVE WakeInv'
  BY <1>11, WakeClearStep
<1>12. ASSUME NEW d \in Drainers, TakeCompleted(d) PROVE WakeInv'
  BY <1>12, WakeTakeStep
<1>13. ASSUME NEW d \in Drainers, ProcessRecord(d) PROVE WakeInv'
  BY <1>13, WakeProcessStep
<1>14. ASSUME NEW d \in Drainers, DrainEnds(d) PROVE WakeInv'
  BY <1>14, WakeDrainEndStep
<1>15. ASSUME NEW c \in Turns, TurnEnds(c) PROVE WakeInv'
  BY <1>15, WakeTurnEndStep
<1>16. CASE UNCHANGED vars
  BY <1>16, WakeStutter
<1>17. QED BY <1>1, <1>2, <1>3, <1>4, <1>5, <1>6, <1>7, <1>8, <1>9, <1>10, <1>11, <1>12,
              <1>13, <1>14, <1>15, <1>16 DEF Next

LEMMA HeardFromInv == IInv /\ WakeInv => CompletionsAreHeard
<1> SUFFICES ASSUME IInv, WakeInv PROVE TypeOK /\ NoLostWake
  BY DEF CompletionsAreHeard
<1>1. inFlight \in 0..Capacity
  <2>1. CommittedSlots \subseteq Slots
    BY DEF CommittedSlots, Occupied
  <2>2. Cardinality(CommittedSlots) \in Nat /\ Cardinality(CommittedSlots) <= Capacity
    BY <2>1, SlotsAreFinite, FS_Subset, FS_CardinalityType
  <2>3. QED BY <2>2, ConstantsHold DEF IInv, Counted
<1>2. Probe!WakeTypeOK
  <2>1. <<>> \in Seq(Nat) /\ Len(<<>>) = 0
    OBVIOUS
  <2>2. ordered \in Seq(Nat) /\ Len(ordered) <= 1 /\ delivered \in Seq(Nat)
    BY <2>1 DEF WakeInv, WakeTypes
  <2>3. wakePending \in BOOLEAN
    BY Zenon DEF WakeInv, Flags
  <2>4. accepted \in 0..MaxGeneration
    BY DrainAssumption DEF WakeInv, WakeTypes
  <2>5. /\ motion \in 0..MaxGeneration /\ generation \in 0..MaxGeneration
        /\ lastMotion \in 0..MaxGeneration /\ seenMotion \in 0..MaxGeneration
        /\ priority \in 0..2
        /\ batch \in [Turns -> Probe!WakeBatch \cup {NoBatch}]
    BY DEF WakeInv, WakeTypes
  <2>6. QED BY <2>2, <2>3, <2>4, <2>5, Zenon DEF Probe!WakeTypeOK, Probe!Priorities
<1>3. closed \in BOOLEAN /\ flag \in BOOLEAN
  BY Zenon DEF WakeInv, Flags
<1>4. signal \in [Submissions -> {"none", "raise", "publish"}]
  BY DEF WakeInv, WakeTypes
<1>5. /\ slots \in [Slots -> SlotRecord \cup {NoSlot}]
      /\ minted \subseteq Submissions
      /\ reservation \subseteq minted
      /\ stage \in [Drainers -> {"idle", "cleared", "processing", "drained"}]
      /\ taken \in [Drainers -> SUBSET SlotRecord]
      /\ leases \in [Submissions -> {"none", "held", "released"}]
      /\ payloads \in [Submissions -> {"none", "held", "queued", "inline", "destroyed"}]
      /\ driver \in [Submissions -> {"absent", "running", "finished", "reported"}]
      /\ reported \in [Submissions -> Statuses]
      /\ drains \in [Submissions -> 0..1]
  BY Zenon DEF IInv, Types
<1>6. TypeOK
  BY <1>1, <1>2, <1>3, <1>4, <1>5, Zenon DEF TypeOK
<1>7. QED BY <1>6 DEF WakeInv

\* A settled record that waits in its slot has its own signal still to come, or
\* a wake is on its way to a drain that has not yet looked at the slots.  The
\* host commits before the driver or a canceller is told of the submission; a
\* host that does not can lose a completion (see NoLostCompletion).
THEOREM CompletionsStayHeard ==
  ASSUME CommitFirst, GenerationsSuffice
  PROVE  Spec => []CompletionsAreHeard
<1>1. IInv /\ WakeInv /\ [Next]_vars => WakeInv'
  BY WakeNextStep
<1>2. QED BY <1>1, WakeInitHolds, Invariance, HeardFromInv, PTL DEF Spec
=============================================================================
