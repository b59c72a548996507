----------------------------- MODULE StoresProofs ----------------------------
(***************************************************************************)
(* What is proved of the stores, of the sessions that read them and of the *)
(* shell of the interface, for every value of the constants. The six       *)
(* components share no state, so each section below stands alone.          *)
(***************************************************************************)
EXTENDS CacheNamespace, Reconciliation, FileContinuity, ObservedSnapshots,
        BridgeSessions, UiShell, TLAPS, FiniteSetTheorems, SequenceTheorems,
        WellFoundedInduction

-----------------------------------------------------------------------------
(***************************************************************************)
(* Bridge sessions. A call holds cells and locks that follow from the step *)
(* it is at; from that, a lock is held by the call it names, a session     *)
(* being retired stays in the table until its cells are gone, and nothing  *)
(* is delivered of a session that was revoked before the check.            *)
(***************************************************************************)

Operations == {"open", "begin", "step", "transfer", "import", "compare"}
PairOperations == {"transfer", "import", "compare"}

Cell == [closed : BOOLEAN, epoch : Nat, lock : Threads \cup {Nobody}, open : BOOLEAN,
         job : Nat, receipts : SUBSET Issued]

Call == [op : Operations, pc : 1..7, on : [1..2 -> Issued], epochs : [1..2 -> Nat],
         held : SUBSET {1, 2}, ok : BOOLEAN, revoked : BOOLEAN]

SessionTypes ==
  /\ nextHandle \in Nat \ {0}
  /\ table \subseteq Issued
  /\ cell \in [Issued -> Cell]
  /\ calls \in [Threads -> Call \cup {Idle}]
  /\ delivered \in BOOLEAN

\* The cells a call holds, and those whose locks it has, follow from the step
\* it is at.
HeldAt(kind, pc) ==
  {i \in {1, 2} : \/ i = 1 /\ pc > 1
                  \/ i = 2 /\ kind = "compare" /\ pc \in 3..6
                  \/ i = 2 /\ kind \in {"transfer", "import"} /\ pc \in 4..6}

LockedAt(kind, pc) ==
  {i \in {1, 2} : \/ i = 1 /\ (IF kind = "compare" THEN pc >= 4 ELSE pc >= 3)
                  \/ i = 2 /\ kind \in PairOperations /\ pc \in 5..6}

CallInv(t) ==
  calls[t].op # "idle" =>
    LET c == calls[t] IN
    /\ c.pc <= Len(Script[c.op])
    /\ c.op \in PairOperations => c.on[1] # c.on[2]
    /\ c.held = HeldAt(c.op, c.pc)
    /\ \A i \in LockedAt(c.op, c.pc) : cell[c.on[i]].lock = t
    /\ \A i \in c.held : c.epochs[i] <= cell[c.on[i]].epoch
    /\ c.op = "step" /\ c.pc >= 3 => cell[c.on[1]].job \in {0, c.epochs[1]}
    /\ c.op = "transfer" /\ c.pc = 5 => ~cell[c.on[2]].open
    /\ c.revoked /\ c.ok => Stopped(t)

SessionsInv ==
  /\ SessionTypes
  /\ \A t \in Threads : CallInv(t)
  /\ ReceiptsNameReaders
  /\ RevokedIsNotDelivered
  /\ RetiringCountsAsLive

-----------------------------------------------------------------------------

LEMMA SessionConstants ==
  /\ MaxSessions \in Nat /\ MaxHandles \in Nat
  /\ Nobody \notin Threads
  /\ Issued \subseteq Nat /\ IsFiniteSet(Issued)
BY SessionsAssumption, FS_Interval DEF Issued

\* Where in which script a step occurs.
LEMMA WhereAt ==
  ASSUME NEW t \in Threads, calls[t] \in Call,
         calls[t].pc <= Len(Script[calls[t].op]),
         NEW kind, kind = calls[t].op, NEW pc, pc = calls[t].pc
  PROVE  /\ Len(Script[kind]) = IF kind \in PairOperations THEN 7 ELSE 4
         /\ pc \in 1..Len(Script[kind])
         /\ At(t, Script[kind][pc])
         /\ \A name : At(t, name) => name = Script[kind][pc]
         /\ Script[kind][pc] = "get1" <=> pc = 1
         /\ Script[kind][pc] = "get2" <=>
              (kind \in {"transfer", "import"} /\ pc = 3) \/ (kind = "compare" /\ pc = 2)
         /\ Script[kind][pc] = "open1" <=>
              (kind \in Operations \ {"open", "compare"} /\ pc = 2) \/ (kind = "compare" /\ pc = 3)
         /\ Script[kind][pc] = "empty1" <=> kind = "open" /\ pc = 2
         /\ Script[kind][pc] = "open2" <=> kind \in {"import", "compare"} /\ pc = 4
         /\ Script[kind][pc] = "empty2" <=> kind = "transfer" /\ pc = 4
         /\ Script[kind][pc] = "install1" <=> kind = "open" /\ pc = 3
         /\ Script[kind][pc] = "install2" <=> kind = "transfer" /\ pc = 5
         /\ Script[kind][pc] = "pause" <=> kind = "begin" /\ pc = 3
         /\ Script[kind][pc] = "work" <=>
              (kind = "step" /\ pc = 3) \/ (kind \in {"import", "compare"} /\ pc = 5)
         /\ Script[kind][pc] = "check1" <=> pc = Len(Script[kind])
         /\ Script[kind][pc] = "check2" <=> kind \in PairOperations /\ pc = 6
<1>1. kind \in Operations /\ pc \in 1..7 /\ pc <= Len(Script[kind]) /\ kind # "idle"
  BY DEF Call, Operations
<1>2. \A name : At(t, name) <=> name = Script[kind][pc]
  BY <1>1 DEF At
<1>3. CASE kind = "open"
  <2>1. Script[kind] = OpenScript
    BY <1>3 DEF Script
  <2>2. pc \in 1..Len(OpenScript)
    BY <1>1, <2>1
  <2>3. QED BY <1>3, <1>2, <2>1, <2>2 DEF OpenScript, PairOperations, Operations
<1>4. CASE kind = "begin"
  <2>1. Script[kind] = BeginScript
    BY <1>4 DEF Script
  <2>2. pc \in 1..Len(BeginScript)
    BY <1>1, <2>1
  <2>3. QED BY <1>4, <1>2, <2>1, <2>2 DEF BeginScript, PairOperations, Operations
<1>5. CASE kind = "step"
  <2>1. Script[kind] = StepScript
    BY <1>5 DEF Script
  <2>2. pc \in 1..Len(StepScript)
    BY <1>1, <2>1
  <2>3. QED BY <1>5, <1>2, <2>1, <2>2 DEF StepScript, PairOperations, Operations
<1>6. CASE kind = "transfer"
  <2>1. Script[kind] = TransferScript
    BY <1>6 DEF Script
  <2>2. pc \in 1..Len(TransferScript)
    BY <1>1, <2>1
  <2>3. QED BY <1>6, <1>2, <2>1, <2>2 DEF TransferScript, PairOperations, Operations
<1>7. CASE kind = "import"
  <2>1. Script[kind] = ImportScript
    BY <1>7 DEF Script
  <2>2. pc \in 1..Len(ImportScript)
    BY <1>1, <2>1
  <2>3. QED BY <1>7, <1>2, <2>1, <2>2 DEF ImportScript, PairOperations, Operations
<1>8. CASE kind = "compare"
  <2>1. Script[kind] = CompareScript
    BY <1>8 DEF Script
  <2>2. pc \in 1..Len(CompareScript)
    BY <1>1, <2>1
  <2>3. QED BY <1>8, <1>2, <2>1, <2>2 DEF CompareScript, PairOperations, Operations
<1>9. QED BY <1>1, <1>3, <1>4, <1>5, <1>6, <1>7, <1>8 DEF Operations

LEMMA Calling ==
  ASSUME SessionTypes, NEW t \in Threads
  PROVE  /\ calls[t].op # "idle" => calls[t] \in Call
         /\ calls[t].op = "idle" => calls[t] = Idle
         /\ Idle \notin Call /\ Idle.op = "idle"
BY DEF SessionTypes, Call, Idle, Operations

\* What another call has locked, and what it compares, is as it was.
Bystanders(t) ==
  \A h \in Issued :
    /\ cell'[h].epoch = cell[h].epoch
    /\ cell'[h].closed = cell[h].closed
    /\ cell[h].lock \notin {t, Nobody} =>
         /\ cell'[h].lock = cell[h].lock
         /\ cell'[h].job \in {0, cell[h].job}
         /\ cell'[h].open = cell[h].open

LEMMA BystanderStays ==
  ASSUME SessionsInv, NEW t \in Threads, NEW u \in Threads \ {t},
         Bystanders(t), calls'[u] = calls[u]
  PROVE  CallInv(u)'
<1> SUFFICES ASSUME calls[u].op # "idle" PROVE CallInv(u)'
  BY DEF CallInv
<1>1. calls[u] \in Call
  BY Calling DEF SessionsInv
<1>2. \A i \in {1, 2} : calls[u].on[i] \in Issued /\ calls[u].epochs[i] \in Nat
  BY <1>1 DEF Call
<1>3. CallInv(u)
  BY DEF SessionsInv
<1>4. HeldAt(calls[u].op, calls[u].pc) \subseteq {1, 2}
      /\ LockedAt(calls[u].op, calls[u].pc) \subseteq {1, 2}
  BY DEF HeldAt, LockedAt
<1>5. u # Nobody
  BY SessionConstants
<1>6. Stopped(u) => Stopped(u)'
  BY <1>1, <1>2, <1>3, <1>4 DEF Stopped, Valid, Bystanders, CallInv
<1>7. \A i \in LockedAt(calls[u].op, calls[u].pc) : cell'[calls[u].on[i]].lock = u
  BY <1>2, <1>3, <1>4, <1>5 DEF Bystanders, CallInv
<1>8. \A i \in calls[u].held : calls[u].epochs[i] <= cell'[calls[u].on[i]].epoch
  BY <1>2, <1>3, <1>4 DEF Bystanders, CallInv
<1>9. calls[u].op = "step" /\ calls[u].pc >= 3 => 1 \in LockedAt(calls[u].op, calls[u].pc)
  BY DEF LockedAt
<1>10. calls[u].op = "step" /\ calls[u].pc >= 3
         => cell'[calls[u].on[1]].job \in {0, calls[u].epochs[1]}
  BY <1>2, <1>3, <1>5, <1>9 DEF Bystanders, CallInv
<1>11. calls[u].op = "transfer" /\ calls[u].pc = 5 => 2 \in LockedAt(calls[u].op, calls[u].pc)
  BY DEF LockedAt, PairOperations
<1>12. calls[u].op = "transfer" /\ calls[u].pc = 5 => ~cell'[calls[u].on[2]].open
  BY <1>2, <1>3, <1>5, <1>11 DEF Bystanders, CallInv
<1>13. QED
  BY <1>3, <1>6, <1>7, <1>8, <1>10, <1>12 DEF CallInv

\* Receipts that no step adds to stay true: an open cell is never emptied.
LEMMA ReceiptsStay ==
  ASSUME SessionTypes, ReceiptsNameReaders,
         \A h \in Issued : /\ cell'[h].receipts = cell[h].receipts
                           /\ cell[h].open => cell'[h].open
  PROVE  ReceiptsNameReaders'
<1>1. \A h \in Issued : cell[h].receipts \subseteq Issued
  BY DEF SessionTypes, Cell
<1>2. QED BY <1>1 DEF ReceiptsNameReaders

\* The sessions that are alive are at most those that were.
LEMMA LiveStay ==
  ASSUME RetiringCountsAsLive, \A h \in Issued : Reachable(h)' => Reachable(h)
  PROVE  RetiringCountsAsLive'
<1> DEFINE live == {h \in Issued : Reachable(h)}
           later == {h \in Issued : Reachable(h)'}
<1>1. IsFiniteSet(live) /\ IsFiniteSet(later)
  BY SessionConstants, FS_Subset
<1>2. Cardinality(later) <= Cardinality(live) /\ Cardinality(live) \in Nat
      /\ Cardinality(later) \in Nat
  <2>1. later \subseteq live
    OBVIOUS
  <2>2. QED BY <1>1, <2>1, FS_Subset, FS_CardinalityType
<1>3. QED BY <1>2, SessionConstants DEF RetiringCountsAsLive

\* A step of one call keeps the invariant if it does right by that call.
LEMMA OneCall ==
  ASSUME SessionsInv, NEW t \in Threads,
         table' = table, SessionTypes', Bystanders(t),
         \A u \in Threads \ {t} : calls'[u] = calls[u],
         HeldBy(t)' \subseteq HeldBy(t) \cup table,
         CallInv(t)', ReceiptsNameReaders', ~delivered'
  PROVE  SessionsInv'
<1>1. \A u \in Threads : CallInv(u)'
  BY BystanderStays
<1>2. \A u \in Threads \ {t} : HeldBy(u)' = HeldBy(u)
  BY DEF HeldBy
<1>3. \A h \in Issued : Reachable(h)' => Reachable(h)
  BY <1>2 DEF Reachable
<1>4. RetiringCountsAsLive'
  BY <1>3, LiveStay DEF SessionsInv
<1>5. QED BY <1>1, <1>4 DEF SessionsInv, RevokedIsNotDelivered

-----------------------------------------------------------------------------
(* Steps of calls.                                                         *)

\* Leaving a lock changes nothing else, and no lock of another call.
LEMMA FreeFacts ==
  ASSUME NEW t \in Threads, NEW hs, NEW cells \in [Issued -> Cell], NEW free,
         free = Free(cells, t, hs)
  PROVE  /\ free \in [Issued -> Cell]
         /\ \A h \in Issued :
              /\ free[h].closed = cells[h].closed /\ free[h].epoch = cells[h].epoch
              /\ free[h].open = cells[h].open /\ free[h].job = cells[h].job
              /\ free[h].receipts = cells[h].receipts
              /\ cells[h].lock # t \/ h \notin hs => free[h].lock = cells[h].lock
<1>1. \A h \in Issued : free[h] =
        IF h \in hs /\ cells[h].lock = t THEN [cells[h] EXCEPT !.lock = Nobody] ELSE cells[h]
  BY DEF Free
<1>2. \A h \in Issued : cells[h] \in Cell
  OBVIOUS
<1>3. ASSUME NEW h \in Issued PROVE free[h] \in Cell
  <2>1. cells[h] \in Cell
    BY <1>2
  <2>2. [cells[h] EXCEPT !.lock = Nobody] \in Cell
    BY <2>1 DEF Cell
  <2>3. QED BY <1>1, <2>1, <2>2
<1>4. DOMAIN free = Issued
  BY DEF Free
<1>5. free \in [Issued -> Cell]
  BY <1>3, <1>4 DEF Free
<1>6. \A h \in Issued : free[h] = cells[h] \/ free[h] = [cells[h] EXCEPT !.lock = Nobody]
  BY <1>1
<1>7. QED BY <1>1, <1>2, <1>5, <1>6 DEF Cell

\* A call that is over keeps the invariant, if what it leaves of the cells it
\* ran on is sound and it reports success only when no one revoked it.
LEMMA FinishStep ==
  ASSUME SessionsInv, NEW t \in Threads, calls[t].op # "idle",
         NEW cells \in [Issued -> Cell], NEW ok \in BOOLEAN,
         \A h \in Issued : \/ cells[h] = cell[h]
                           \/ cells[h] = [cell[h] EXCEPT !.job = 0],
         ok => ~calls[t].revoked,
         FinishCall(t, cells, ok), UNCHANGED <<nextHandle, table>>
  PROVE  SessionsInv'
<1>1. calls[t] \in Call /\ SessionTypes /\ cell \in [Issued -> Cell]
      /\ \A h \in Issued : cell[h] \in Cell
  BY Calling DEF SessionsInv, SessionTypes
<1>2. \A h \in Issued : /\ cells[h].closed = cell[h].closed /\ cells[h].epoch = cell[h].epoch
                        /\ cells[h].open = cell[h].open /\ cells[h].lock = cell[h].lock
                        /\ cells[h].job \in {0, cell[h].job}
                        /\ cells[h].receipts = cell[h].receipts
  BY <1>1 DEF Cell
<1>3. /\ cell' = Free(cells, t, HeldBy(t)) /\ calls' = [calls EXCEPT ![t] = Idle]
      /\ delivered' = (delivered \/ (ok /\ calls[t].revoked))
  BY DEF FinishCall
<1>4. /\ cell' \in [Issued -> Cell]
      /\ \A h \in Issued :
              /\ cell'[h].closed = cells[h].closed /\ cell'[h].epoch = cells[h].epoch
              /\ cell'[h].open = cells[h].open /\ cell'[h].job = cells[h].job
              /\ cell'[h].receipts = cells[h].receipts
              /\ cells[h].lock # t => cell'[h].lock = cells[h].lock
  BY <1>3, FreeFacts
<1>5. calls' \in [Threads -> Call \cup {Idle}] /\ calls'[t] = Idle
      /\ \A u \in Threads \ {t} : calls'[u] = calls[u]
  BY <1>1, <1>3 DEF SessionTypes
<1>6. delivered' = FALSE
  <2>1. (delivered \/ (ok /\ calls[t].revoked)) = FALSE
    BY DEF SessionsInv, RevokedIsNotDelivered
  <2>2. QED BY <1>3, <2>1, Zenon
<1>7. SessionTypes'
  <2>1. delivered' \in BOOLEAN
    BY <1>6
  <2>2. QED BY <1>1, <1>4, <1>5, <2>1 DEF SessionTypes
<1>8. Bystanders(t)
  BY <1>2, <1>4 DEF Bystanders
<1>9. HeldBy(t)' = {} /\ CallInv(t)'
  BY <1>5, Calling DEF HeldBy, CallInv, Idle
<1>10. ReceiptsNameReaders'
  BY <1>1, <1>2, <1>4, ReceiptsStay DEF SessionsInv
<1>11. QED BY <1>5, <1>6, <1>7, <1>8, <1>9, <1>10, OneCall

\* A call that goes on to a later step without touching the cells.
LEMMA MoveStep ==
  ASSUME SessionsInv, NEW t \in Threads, calls[t].op # "idle",
         NEW c \in Call, calls' = [calls EXCEPT ![t] = c],
         UNCHANGED <<nextHandle, table, cell, delivered>>,
         c.op = calls[t].op, c.on = calls[t].on, c.revoked = calls[t].revoked,
         c.pc <= Len(Script[c.op]), c.held = HeldAt(c.op, c.pc),
         \A i \in c.held \ calls[t].held :
            c.on[i] \in table /\ c.epochs[i] = cell[c.on[i]].epoch,
         LockedAt(c.op, c.pc) = LockedAt(calls[t].op, calls[t].pc),
         \A i \in calls[t].held : c.epochs[i] = calls[t].epochs[i],
         c.op = "step" /\ c.pc >= 3 => calls[t].pc >= 3 /\ c.epochs = calls[t].epochs,
         c.op = "transfer" => c.pc # 5,
         c.ok => calls[t].ok /\ calls[t].held \subseteq c.held
  PROVE  SessionsInv'
<1>1. calls[t] \in Call /\ SessionTypes /\ CallInv(t)
  BY Calling DEF SessionsInv
<1>2. calls' \in [Threads -> Call \cup {Idle}] /\ calls'[t] = c
      /\ \A u \in Threads \ {t} : calls'[u] = calls[u]
  BY <1>1 DEF SessionTypes
<1>3. SessionTypes'
  BY <1>1, <1>2 DEF SessionTypes
<1>4. Bystanders(t)
  BY DEF Bystanders
<1>5. HeldBy(t)' \subseteq HeldBy(t) \cup table
  BY <1>2 DEF HeldBy
<1>6. \A i \in {1, 2} : /\ c.on[i] \in Issued /\ c.epochs[i] \in Nat
                        /\ cell[c.on[i]].epoch \in Nat /\ calls[t].epochs[i] \in Nat
  BY <1>1 DEF SessionTypes, Call, Cell
<1>7. c.held \subseteq {1, 2} /\ calls[t].held \subseteq {1, 2}
  BY <1>1 DEF Call
<1>8. \A i \in c.held : c.epochs[i] <= cell[c.on[i]].epoch
  <2>1. \A i \in calls[t].held : calls[t].epochs[i] <= cell[c.on[i]].epoch
    BY <1>1 DEF CallInv
  <2>2. ASSUME NEW i \in c.held PROVE c.epochs[i] <= cell[c.on[i]].epoch
    <3>1. i \in {1, 2} /\ cell[c.on[i]].epoch \in Nat
      BY <1>6, <1>7
    <3>2. CASE i \in calls[t].held
      BY <2>1, <3>2
    <3>3. CASE i \notin calls[t].held
      <4>1. c.epochs[i] = cell[c.on[i]].epoch
        BY <3>3
      <4>2. QED BY <3>1, <4>1
    <3>4. QED BY <3>2, <3>3
  <2>3. QED BY <2>2
<1>9. c.revoked /\ c.ok => Stopped(t)'
  <2>1. c.revoked /\ c.ok => Stopped(t)
    BY <1>1 DEF CallInv
  <2>2. QED BY <2>1, <1>2, <1>7 DEF Stopped, Valid
<1>10. CallInv(t)'
  BY <1>1, <1>2, <1>8, <1>9 DEF CallInv
<1>11. ReceiptsNameReaders'
  BY <1>1, ReceiptsStay DEF SessionsInv
<1>12. ~delivered'
  BY DEF SessionsInv, RevokedIsNotDelivered
<1>13. QED BY <1>2, <1>3, <1>4, <1>5, <1>10, <1>11, <1>12, OneCall

\* Bumped(t) of a call is the same call, one step on.
LEMMA BumpedCall ==
  ASSUME NEW t \in Threads, calls[t] \in Call, NEW c, c = Bumped(t), calls[t].pc < 7
  PROVE  /\ c \in Call /\ c.pc = calls[t].pc + 1
         /\ c.op = calls[t].op /\ c.on = calls[t].on /\ c.epochs = calls[t].epochs
         /\ c.held = calls[t].held /\ c.ok = calls[t].ok /\ c.revoked = calls[t].revoked
BY DEF Bumped, Call

\* An early return keeps the invariant, wherever in its script the call is, the
\* last steps excepted, which return no other way.
LEMMA FailStep ==
  ASSUME SessionsInv, NEW t \in Threads, calls[t].op # "idle",
         Script[calls[t].op][calls[t].pc] \notin {"check1", "check2"},
         Fail(t)
  PROVE  SessionsInv'
<1> DEFINE kind == calls[t].op
           pc == calls[t].pc
           name == Script[kind][pc]
           working == name \in {"install1", "install2", "pause", "work"}
           nested == kind \in {"transfer", "import"} /\ pc > 2
<1>1. /\ calls[t] \in Call /\ SessionTypes /\ CallInv(t) /\ cell \in [Issued -> Cell]
      /\ kind \in Operations /\ pc \in 1..7 /\ calls[t].held \in SUBSET {1, 2}
  BY Calling DEF SessionsInv, SessionTypes, Call
<1>2. pc <= Len(Script[kind]) /\ calls[t].held = HeldAt(kind, pc)
  BY <1>1 DEF CallInv
<1>3. /\ Len(Script[kind]) = IF kind \in PairOperations THEN 7 ELSE 4
      /\ name = "check1" <=> pc = Len(Script[kind])
      /\ name = "check2" <=> kind \in PairOperations /\ pc = 6
      /\ name = "install1" <=> kind = "open" /\ pc = 3
      /\ name = "install2" <=> kind = "transfer" /\ pc = 5
      /\ name = "pause" <=> kind = "begin" /\ pc = 3
      /\ name = "work" <=>
              (kind = "step" /\ pc = 3) \/ (kind \in {"import", "compare"} /\ pc = 5)
  BY <1>1, <1>2, WhereAt
<1>4. pc < Len(Script[kind]) /\ (kind \in PairOperations => pc # 6)
  BY <1>1, <1>2, <1>3
<1>5. UNCHANGED <<nextHandle, table>>
  BY DEF Fail
<1>6. CASE /\ working
           /\ calls' = [calls EXCEPT ![t] = [Bumped(t) EXCEPT !.ok = FALSE]]
           /\ cell' = Rejected(t)
           /\ UNCHANGED delivered
  <2> DEFINE c == [Bumped(t) EXCEPT !.ok = FALSE]
  <2>1. /\ c \in Call /\ c.pc = pc + 1 /\ c.op = kind /\ c.on = calls[t].on
        /\ c.epochs = calls[t].epochs /\ c.held = calls[t].held /\ c.ok = FALSE
        /\ c.revoked = calls[t].revoked
    <3>1. pc < 7
      BY <1>1, <1>3, <1>4
    <3>2. PICK b : b = Bumped(t)
      OBVIOUS
    <3>3. /\ b \in Call /\ b.pc = pc + 1 /\ b.op = kind /\ b.on = calls[t].on
          /\ b.epochs = calls[t].epochs /\ b.held = calls[t].held
          /\ b.revoked = calls[t].revoked
      BY <1>1, <3>1, <3>2, BumpedCall
    <3>4. c = [b EXCEPT !.ok = FALSE]
      BY <3>2
    <3>5. QED BY <3>3, <3>4 DEF Call
  <2>2. c.held = HeldAt(kind, pc + 1) /\ LockedAt(kind, pc + 1) = LockedAt(kind, pc)
    BY <1>1, <1>2, <1>3, <1>6, <2>1 DEF HeldAt, LockedAt, PairOperations, Operations
  <2>3. c.pc <= Len(Script[c.op]) /\ (kind = "step" => pc >= 3)
        /\ (kind = "transfer" => pc + 1 # 5)
    BY <1>1, <1>3, <1>4, <1>6, <2>1
  <2>4. calls' = [calls EXCEPT ![t] = c] /\ cell' = cell /\ delivered' = delivered
    BY <1>6 DEF Rejected
  <2> HIDE DEF c
  <2>5. QED
    BY <1>1, <1>5, <2>1, <2>2, <2>3, <2>4, MoveStep
<1>7. CASE /\ nested /\ ~working
           /\ calls' = [calls EXCEPT ![t].pc = Len(Script[kind]), ![t].ok = FALSE,
                                     ![t].held = @ \ ({2} \cap calls[t].held)]
           /\ cell' = Free(cell, t, {calls[t].on[i] : i \in {2} \cap calls[t].held})
           /\ UNCHANGED delivered
  <2> DEFINE c == calls'[t]
             hs == {calls[t].on[i] : i \in {2} \cap calls[t].held}
  <2>1. /\ c \in Call /\ c.pc = 7 /\ c.op = kind /\ c.on = calls[t].on /\ c.ok = FALSE
        /\ c.epochs = calls[t].epochs /\ c.revoked = calls[t].revoked
        /\ c.held = calls[t].held \ {2}
        /\ \A u \in Threads \ {t} : calls'[u] = calls[u]
    <3>1. calls \in [Threads -> Call \cup {Idle}] /\ Len(Script[kind]) = 7
      BY <1>1, <1>3, <1>7 DEF SessionTypes, PairOperations
    <3>2. c = [calls[t] EXCEPT !.pc = Len(Script[kind]), !.ok = FALSE,
                               !.held = @ \ ({2} \cap calls[t].held)]
      BY <1>7, <3>1
    <3>3. calls[t].held \ ({2} \cap calls[t].held) = calls[t].held \ {2}
      OBVIOUS
    <3>4. \A u \in Threads \ {t} : calls'[u] = calls[u]
      BY <1>7, <3>1
    <3>5. c = [calls[t] EXCEPT !.pc = 7, !.ok = FALSE, !.held = calls[t].held \ {2}]
      BY <3>1, <3>2, <3>3
    <3> HIDE DEF c
    <3>6. calls[t].held \ {2} \in SUBSET {1, 2} /\ calls[t] \in Call
      BY <1>1
    <3>7. /\ c \in Call /\ c.pc = 7 /\ c.op = calls[t].op /\ c.on = calls[t].on
          /\ c.ok = FALSE /\ c.epochs = calls[t].epochs
          /\ c.revoked = calls[t].revoked /\ c.held = calls[t].held \ {2}
      <4>1. PICK r, rest, to : r = calls[t] /\ rest = calls[t].held \ {2} /\ to = c
        OBVIOUS
      <4>2. to = [r EXCEPT !.pc = 7, !.ok = FALSE, !.held = rest]
            /\ r \in Call /\ rest \in SUBSET {1, 2}
        BY <3>5, <3>6, <4>1
      <4>3. to = [op |-> r.op, pc |-> 7, on |-> r.on, epochs |-> r.epochs,
                  held |-> rest, ok |-> FALSE, revoked |-> r.revoked]
        BY <4>2 DEF Call
      <4>4. /\ r.op \in Operations /\ r.on \in [1..2 -> Issued]
            /\ r.epochs \in [1..2 -> Nat] /\ r.revoked \in BOOLEAN
            /\ 7 \in 1..7 /\ rest \in SUBSET {1, 2} /\ FALSE \in BOOLEAN
        BY <4>2 DEF Call
      <4>5. to \in Call
        BY <4>3, <4>4, Zenon DEF Call
      <4>6. QED BY <4>1, <4>3, <4>5
    <3>8. QED BY <3>4, <3>7
  <2>2. /\ cell' \in [Issued -> Cell]
        /\ \A h \in Issued :
              /\ cell'[h].closed = cell[h].closed /\ cell'[h].epoch = cell[h].epoch
              /\ cell'[h].open = cell[h].open /\ cell'[h].job = cell[h].job
              /\ cell'[h].receipts = cell[h].receipts
              /\ cell[h].lock # t \/ h \notin hs => cell'[h].lock = cell[h].lock
    BY <1>1, <1>7, FreeFacts
  <2>3. calls' \in [Threads -> Call \cup {Idle}]
    BY <1>1, <1>7, <2>1 DEF SessionTypes
  <2>4. SessionTypes'
    BY <1>1, <1>5, <1>7, <2>2, <2>3 DEF SessionTypes
  <2>5. Bystanders(t)
    BY <1>1, <2>2 DEF Bystanders, Cell
  <2>6. HeldBy(t)' \subseteq HeldBy(t)
    BY <2>1 DEF HeldBy
  <2>7. ReceiptsNameReaders'
    BY <1>1, <2>2, ReceiptsStay DEF SessionsInv
  <2>8. /\ c.held = HeldAt(kind, 7) /\ LockedAt(kind, 7) = {1} /\ 1 \in LockedAt(kind, pc)
        /\ c.held = {1} /\ 1 \in calls[t].held
    <3>1. pc \in {3, 4} /\ kind \in {"transfer", "import"}
      BY <1>1, <1>3, <1>4, <1>7 DEF PairOperations
    <3>2. calls[t].held = IF pc = 3 THEN {1} ELSE {1, 2}
      BY <1>2, <3>1 DEF HeldAt
    <3>3. HeldAt(kind, 7) = {1} /\ LockedAt(kind, 7) = {1} /\ 1 \in LockedAt(kind, pc)
      BY <3>1 DEF HeldAt, LockedAt, PairOperations
    <3>4. QED BY <2>1, <3>2, <3>3
  <2>9. calls[t].on[1] \in Issued /\ calls[t].on[1] # calls[t].on[2]
    BY <1>1, <1>7 DEF Call, CallInv, PairOperations
  <2>10. calls[t].on[1] \notin hs /\ cell'[calls[t].on[1]].lock = t
    <3>1. calls[t].on[1] \notin hs
      BY <2>9
    <3>2. QED BY <1>1, <2>2, <2>8, <2>9, <3>1 DEF CallInv
  <2>11. c.epochs[1] <= cell'[calls[t].on[1]].epoch
    BY <1>1, <2>1, <2>2, <2>8, <2>9 DEF CallInv
  <2>12. CallInv(t)'
    <3>1. kind \in {"transfer", "import"} /\ kind \in PairOperations /\ Len(Script[kind]) = 7
      BY <1>3, <1>7 DEF PairOperations
    <3> HIDE DEF c, hs, working, nested, name
    <3>2. CallInv(t)' <=> (c.op # "idle" =>
            /\ c.pc <= Len(Script[c.op])
            /\ c.op \in PairOperations => c.on[1] # c.on[2]
            /\ c.held = HeldAt(c.op, c.pc)
            /\ \A i \in LockedAt(c.op, c.pc) : cell'[c.on[i]].lock = t
            /\ \A i \in c.held : c.epochs[i] <= cell'[c.on[i]].epoch
            /\ c.op = "step" /\ c.pc >= 3 => cell'[c.on[1]].job \in {0, c.epochs[1]}
            /\ c.op = "transfer" /\ c.pc = 5 => ~cell'[c.on[2]].open
            /\ c.revoked /\ c.ok => Stopped(t)')
      BY DEF CallInv, c
    <3>3. c.held = HeldAt(c.op, c.pc) /\ c.pc <= Len(Script[c.op])
      <4>1. c.op = kind /\ c.pc = 7
        BY <2>1
      <4>2. HeldAt(c.op, c.pc) = HeldAt(kind, 7) /\ Len(Script[c.op]) = Len(Script[kind])
        BY <4>1, Zenon
      <4>3. QED BY <4>1, <4>2, <3>1, <2>8
    <3>4. c.op = "transfer" /\ c.pc = 5 => ~cell'[c.on[2]].open
      BY <2>1
    <3>5. \A i \in LockedAt(c.op, c.pc) : cell'[c.on[i]].lock = t
      BY <2>1, <2>8, <2>10
    <3>6. \A i \in c.held : c.epochs[i] <= cell'[c.on[i]].epoch
      BY <2>1, <2>8, <2>11
    <3>7. QED BY <3>1, <3>2, <3>3, <3>4, <3>5, <3>6, <2>1, <2>9
  <2>13. ~delivered'
    BY <1>7 DEF SessionsInv, RevokedIsNotDelivered
  <2>14. QED
    BY <1>5, <2>1, <2>4, <2>5, <2>6, <2>7, <2>12, <2>13, OneCall
<1>8. CASE ~nested /\ ~working /\ FinishCall(t, cell, FALSE)
  BY <1>1, <1>5, <1>8, FinishStep
<1>9. QED
  BY <1>6, <1>7, <1>8 DEF Fail

\* What is known of a call at a step before its last.
LEMMA Midway ==
  ASSUME SessionsInv, NEW t \in Threads, NEW name, At(t, name), name # "check1"
  PROVE  /\ calls[t].op # "idle" /\ calls[t].op \in Operations
         /\ calls[t] \in Call /\ SessionTypes /\ CallInv(t)
         /\ cell \in [Issued -> Cell] /\ \A h \in Issued : cell[h] \in Cell
         /\ calls[t].pc \in 1..7 /\ calls[t].pc < 7
         /\ calls[t].pc < Len(Script[calls[t].op])
         /\ name = Script[calls[t].op][calls[t].pc]
         /\ \A i \in {1, 2} : calls[t].on[i] \in Issued /\ calls[t].epochs[i] \in Nat
<1>1. /\ calls[t].op # "idle" /\ calls[t] \in Call /\ SessionTypes /\ CallInv(t)
      /\ calls[t].op \in Operations /\ calls[t].pc \in 1..7
  BY Calling DEF At, SessionsInv, Call
<1>2. calls[t].pc <= Len(Script[calls[t].op])
  BY <1>1 DEF CallInv
<1>3. /\ Len(Script[calls[t].op]) = IF calls[t].op \in PairOperations THEN 7 ELSE 4
      /\ name = Script[calls[t].op][calls[t].pc]
      /\ Script[calls[t].op][calls[t].pc] = "check1"
           <=> calls[t].pc = Len(Script[calls[t].op])
  BY <1>1, <1>2, WhereAt
<1>4. cell \in [Issued -> Cell] /\ \A h \in Issued : cell[h] \in Cell
  BY <1>1 DEF SessionTypes
<1>5. \A i \in {1, 2} : calls[t].on[i] \in Issued /\ calls[t].epochs[i] \in Nat
  BY <1>1 DEF Call
<1>6. calls[t].pc < Len(Script[calls[t].op]) /\ calls[t].pc < 7
  BY <1>1, <1>2, <1>3
<1>7. QED BY <1>1, <1>3, <1>4, <1>5, <1>6

LEMMA GetStep ==
  ASSUME SessionsInv, NEW t \in Threads, NEW i \in {1, 2}, Get(t, i)
  PROVE  SessionsInv'
<1> DEFINE kind == calls[t].op
           pc == calls[t].pc
           h == calls[t].on[i]
           name == IF i = 1 THEN "get1" ELSE "get2"
<1>1. At(t, name) /\ name \notin {"check1", "check2"}
  BY DEF Get
<1>2. /\ kind # "idle" /\ kind \in Operations /\ calls[t] \in Call /\ SessionTypes /\ CallInv(t)
      /\ pc \in 1..7 /\ pc < 7 /\ pc < Len(Script[kind]) /\ name = Script[kind][pc]
      /\ h \in Issued /\ cell[h] \in Cell
  BY <1>1, Midway
<1>3. /\ Script[kind][pc] = "get1" <=> pc = 1
      /\ Script[kind][pc] = "get2" <=>
            (kind \in {"transfer", "import"} /\ pc = 3) \/ (kind = "compare" /\ pc = 2)
  BY <1>2, WhereAt DEF CallInv
<1>4. CASE h \in table
  <2> DEFINE b == Bumped(t)
             c == [b EXCEPT !.held = @ \cup {i}, !.epochs[i] = cell[h].epoch]
  <2>1. calls' = [calls EXCEPT ![t] = c] /\ UNCHANGED <<nextHandle, table, cell, delivered>>
    BY <1>4 DEF Get
  <2>2. /\ b \in Call /\ b.pc = pc + 1 /\ b.op = kind /\ b.on = calls[t].on
        /\ b.epochs = calls[t].epochs /\ b.held = calls[t].held
        /\ b.ok = calls[t].ok /\ b.revoked = calls[t].revoked
    BY <1>2, BumpedCall
  <2>3. cell[h].epoch \in Nat /\ i \in 1..2 /\ i \in {1, 2}
    BY <1>2 DEF Cell
  <2> HIDE DEF b
  <2> DEFINE e == [b.epochs EXCEPT ![i] = cell[h].epoch]
             k == b.held \cup {i}
  <2>4. c = [b EXCEPT !.held = k, !.epochs = e]
    BY <2>2 DEF Call
  <2>5. e \in [1..2 -> Nat] /\ k \in SUBSET {1, 2} /\ e[i] = cell[h].epoch
        /\ \A j \in {1, 2} \ {i} : e[j] = calls[t].epochs[j]
    BY <2>2, <2>3 DEF Call
  <2> HIDE DEF c, e, k
  <2>6. /\ c \in Call /\ c.pc = pc + 1 /\ c.op = kind /\ c.on = calls[t].on
        /\ c.epochs = e /\ c.held = k /\ c.ok = calls[t].ok /\ c.revoked = calls[t].revoked
    BY <2>2, <2>4, <2>5 DEF Call
  <2>7. /\ k = HeldAt(kind, pc + 1) /\ LockedAt(kind, pc + 1) = LockedAt(kind, pc)
        /\ i \notin calls[t].held /\ pc + 1 <= Len(Script[kind])
        /\ ~(kind = "step" /\ pc + 1 >= 3) /\ ~(kind = "transfer" /\ pc + 1 = 5)
    <3>1. calls[t].held = HeldAt(kind, pc) /\ k = calls[t].held \cup {i}
      BY <1>2, <2>2 DEF CallInv, k
    <3>2. (i = 1 /\ pc = 1) \/ (i = 2 /\ kind \in {"transfer", "import"} /\ pc = 3)
          \/ (i = 2 /\ kind = "compare" /\ pc = 2)
      BY <1>2, <1>3
    <3>3. i \notin HeldAt(kind, pc) /\ HeldAt(kind, pc + 1) = HeldAt(kind, pc) \cup {i}
      BY <1>2, <3>2 DEF HeldAt
    <3>4. LockedAt(kind, pc + 1) = LockedAt(kind, pc)
      BY <1>2, <3>2 DEF LockedAt, PairOperations
    <3>5. QED BY <1>2, <3>1, <3>2, <3>3, <3>4
  <2>8. \A j \in calls[t].held : c.epochs[j] = calls[t].epochs[j]
    BY <1>2, <2>5, <2>6, <2>7 DEF Call
  <2>9. \A j \in c.held \ calls[t].held :
          c.on[j] \in table /\ c.epochs[j] = cell[c.on[j]].epoch
    BY <1>4, <2>2, <2>5, <2>6 DEF k
  <2>10. calls[t].held \subseteq c.held
    BY <2>2, <2>6 DEF k
  <2>11. QED
    BY <1>2, <2>1, <2>6, <2>7, <2>8, <2>9, <2>10, MoveStep
<1>5. CASE h \notin table
  BY <1>1, <1>2, <1>5, FailStep DEF Get
<1>6. QED BY <1>4, <1>5

\* A call that goes on with the cells it holds, and changes one of them.
LEMMA GoStep ==
  ASSUME SessionsInv, NEW t \in Threads, NEW name, At(t, name),
         name \notin {"get1", "get2", "check1", "check2"},
         calls' = [calls EXCEPT ![t] = Bumped(t)],
         UNCHANGED <<nextHandle, table, delivered>>,
         cell' \in [Issued -> Cell], Bystanders(t), ReceiptsNameReaders',
         \A j \in LockedAt(calls[t].op, calls[t].pc + 1) :
            cell'[calls[t].on[j]].lock = t,
         calls[t].op = "step" /\ calls[t].pc = 2 =>
            cell'[calls[t].on[1]].job \in {0, calls[t].epochs[1]},
         calls[t].op = "step" /\ calls[t].pc # 2 =>
            cell'[calls[t].on[1]].job = cell[calls[t].on[1]].job,
         calls[t].op = "transfer" /\ calls[t].pc = 4 => ~cell'[calls[t].on[2]].open
  PROVE  SessionsInv'
<1> DEFINE kind == calls[t].op
           pc == calls[t].pc
<1>1. /\ kind # "idle" /\ kind \in Operations /\ calls[t] \in Call /\ SessionTypes /\ CallInv(t)
      /\ pc \in 1..7 /\ pc < 7 /\ pc < Len(Script[kind]) /\ name = Script[kind][pc]
      /\ \A i \in {1, 2} : calls[t].on[i] \in Issued /\ calls[t].epochs[i] \in Nat
  BY Midway
<1>2. /\ Script[kind][pc] = "get1" <=> pc = 1
      /\ Script[kind][pc] = "get2" <=>
            (kind \in {"transfer", "import"} /\ pc = 3) \/ (kind = "compare" /\ pc = 2)
      /\ Len(Script[kind]) = IF kind \in PairOperations THEN 7 ELSE 4
      /\ Script[kind][pc] = "check2" <=> kind \in PairOperations /\ pc = 6
  <2>1. calls[t] \in Call /\ calls[t].pc <= Len(Script[calls[t].op])
    BY <1>1 DEF CallInv
  <2>2. kind = calls[t].op /\ pc = calls[t].pc
    OBVIOUS
  <2> HIDE DEF kind, pc
  <2>3. QED BY <2>1, <2>2, WhereAt
<1>3. PICK c : c = Bumped(t)
  OBVIOUS
<1>4. /\ c \in Call /\ c.pc = pc + 1 /\ c.op = kind /\ c.on = calls[t].on
      /\ c.epochs = calls[t].epochs /\ c.held = calls[t].held
      /\ c.ok = calls[t].ok /\ c.revoked = calls[t].revoked
  BY <1>1, <1>3, BumpedCall
<1>5. /\ calls' \in [Threads -> Call \cup {Idle}] /\ calls'[t] = c
      /\ \A u \in Threads \ {t} : calls'[u] = calls[u]
  BY <1>1, <1>3, <1>4 DEF SessionTypes
<1>6. SessionTypes'
  BY <1>1, <1>5 DEF SessionTypes
<1>7. HeldBy(t)' \subseteq HeldBy(t) \cup table
  BY <1>1, <1>4, <1>5 DEF HeldBy
<1>8. c.held = HeldAt(kind, pc) /\ HeldAt(kind, pc + 1) = HeldAt(kind, pc)
      /\ HeldAt(kind, pc) \subseteq {1, 2}
  <2>1. c.held = HeldAt(kind, pc)
    BY <1>1, <1>4 DEF CallInv
  <2>2. /\ pc # 1 /\ ~(kind \in {"transfer", "import"} /\ pc = 3)
        /\ ~(kind = "compare" /\ pc = 2) /\ ~(kind \in PairOperations /\ pc = 6)
    BY <1>1, <1>2
  <2>3. HeldAt(kind, pc + 1) = HeldAt(kind, pc)
    BY <1>1, <2>2 DEF HeldAt, PairOperations
  <2>4. QED BY <2>1, <2>3 DEF HeldAt
<1>9. \A i \in c.held : c.epochs[i] <= cell'[c.on[i]].epoch
  <2>1. ASSUME NEW i \in c.held PROVE c.epochs[i] <= cell[c.on[i]].epoch /\ i \in {1, 2}
    BY <1>1, <1>4, <1>8 DEF CallInv
  <2>2. ASSUME NEW i \in c.held PROVE cell'[c.on[i]].epoch = cell[c.on[i]].epoch
    BY <1>4, <2>1 DEF Bystanders, Call
  <2>3. QED BY <2>1, <2>2
<1>10. c.revoked /\ c.ok => \E i \in c.held : \/ cell'[c.on[i]].closed
                                             \/ cell'[c.on[i]].epoch # c.epochs[i]
  <2> SUFFICES ASSUME c.revoked, c.ok
               PROVE  \E i \in c.held : \/ cell'[c.on[i]].closed
                                        \/ cell'[c.on[i]].epoch # c.epochs[i]
    OBVIOUS
  <2>1. PICK i \in calls[t].held : ~Valid(calls[t].on[i], calls[t].epochs[i])
    BY <1>1, <1>4 DEF CallInv, Stopped
  <2>2. i \in c.held /\ i \in {1, 2} /\ calls[t].on[i] = c.on[i] /\ calls[t].epochs[i] = c.epochs[i]
    BY <1>4, <1>8, <2>1
  <2>3. c.on[i] \in Issued
    BY <1>4, <2>2 DEF Call
  <2>4. cell'[c.on[i]].epoch = cell[c.on[i]].epoch /\ cell'[c.on[i]].closed = cell[c.on[i]].closed
    BY <2>3 DEF Bystanders
  <2>5. QED BY <2>1, <2>2, <2>4 DEF Valid
<1>11. c.op = "step" /\ c.pc >= 3 => cell'[c.on[1]].job \in {0, c.epochs[1]}
  BY <1>1, <1>4 DEF CallInv
<1>12. CallInv(t)'
  <2>1. /\ c.held = HeldAt(c.op, c.pc) /\ c.pc <= Len(Script[c.op]) /\ calls'[t] = c
        /\ c.op \in PairOperations => c.on[1] # c.on[2]
        /\ c.op = "transfer" /\ c.pc = 5 => ~cell'[c.on[2]].open
    <3>1. c.held = HeldAt(c.op, c.pc) /\ calls'[t] = c
      BY <1>4, <1>5, <1>8
    <3>2. c.pc <= Len(Script[c.op])
      <4>1. PICK l \in Nat : l = Len(Script[kind]) /\ pc < l
        BY <1>1, <1>2
      <4>2. pc + 1 <= l
        BY <1>1, <4>1
      <4>3. QED BY <1>4, <4>1, <4>2
    <3>3. c.op \in PairOperations => c.on[1] # c.on[2]
      BY <1>1, <1>4 DEF CallInv
    <3>4. c.op = "transfer" /\ c.pc = 5 => ~cell'[c.on[2]].open
      <4>1. pc + 1 = 5 => pc = 4
        BY <1>1
      <4>2. QED BY <1>4, <4>1
    <3>5. QED BY <3>1, <3>2, <3>3, <3>4
  <2>2. LockedAt(c.op, c.pc) = LockedAt(kind, pc + 1)
    BY <1>4
  <2>3. \A i \in LockedAt(c.op, c.pc) : cell'[c.on[i]].lock = t
    BY <1>4, <2>2
  <2>4. QED BY <1>9, <1>10, <1>11, <2>1, <2>3 DEF CallInv, Stopped, Valid
<1>13. ~delivered'
  BY DEF SessionsInv, RevokedIsNotDelivered
<1>14. QED BY <1>5, <1>6, <1>7, <1>12, <1>13, OneCall

LEMMA EnterStep ==
  ASSUME SessionsInv, NEW t \in Threads, NEW i \in {1, 2}, NEW open \in BOOLEAN,
         Enter(t, i, open)
  PROVE  SessionsInv'
<1> DEFINE kind == calls[t].op
           pc == calls[t].pc
           h == calls[t].on[i]
           epoch == calls[t].epochs[i]
           name == CASE i = 1 /\ open -> "open1" [] i = 1 /\ ~open -> "empty1"
                     [] i = 2 /\ open -> "open2" [] OTHER -> "empty2"
           entered == IF open THEN Synchronized(cell[h], epoch) ELSE cell[h]
<1>1. At(t, name) /\ name \in {"open1", "empty1", "open2", "empty2"}
  BY DEF Enter
<1>2. /\ kind # "idle" /\ kind \in Operations /\ calls[t] \in Call /\ SessionTypes /\ CallInv(t)
      /\ pc \in 1..7 /\ pc < 7 /\ pc < Len(Script[kind]) /\ name = Script[kind][pc]
      /\ h \in Issued /\ epoch \in Nat
      /\ cell \in [Issued -> Cell] /\ \A k \in Issued : cell[k] \in Cell
      /\ \A j \in {1, 2} : calls[t].on[j] \in Issued
  BY <1>1, Midway
<1>3. /\ Script[kind][pc] = "open1" <=>
              (kind \in Operations \ {"open", "compare"} /\ pc = 2)
              \/ (kind = "compare" /\ pc = 3)
      /\ Script[kind][pc] = "empty1" <=> kind = "open" /\ pc = 2
      /\ Script[kind][pc] = "open2" <=> kind \in {"import", "compare"} /\ pc = 4
      /\ Script[kind][pc] = "empty2" <=> kind = "transfer" /\ pc = 4
  BY <1>2, WhereAt DEF CallInv
<1>4. CASE cell[h].lock = Nobody /\ Valid(h, epoch) /\ cell[h].open = open
  <2>1. /\ cell' = [cell EXCEPT ![h] = [entered EXCEPT !.lock = t]]
        /\ calls' = [calls EXCEPT ![t] = Bumped(t)]
        /\ UNCHANGED <<nextHandle, table, delivered>>
    BY <1>4 DEF Enter
  <2>2. /\ entered \in Cell /\ entered.closed = cell[h].closed /\ entered.epoch = cell[h].epoch
        /\ entered.open = cell[h].open /\ entered.receipts = cell[h].receipts
        /\ entered.job \in {0, cell[h].job}
        /\ open => entered.job \in {0, epoch}
    BY <1>2 DEF Synchronized, Cell
  <2> HIDE DEF entered
  <2>3. PICK n : n = [entered EXCEPT !.lock = t]
    OBVIOUS
  <2>4. /\ n \in Cell /\ n.closed = cell[h].closed /\ n.epoch = cell[h].epoch
        /\ n.open = cell[h].open /\ n.receipts = cell[h].receipts
        /\ n.job \in {0, cell[h].job} /\ n.lock = t
        /\ open => n.job \in {0, epoch}
    BY <2>2, <2>3 DEF Cell
  <2>5. cell' \in [Issued -> Cell] /\ cell'[h] = n
        /\ \A k \in Issued \ {h} : cell'[k] = cell[k]
    BY <1>2, <2>1, <2>3, <2>4
  <2>6. Bystanders(t)
    BY <1>4, <2>4, <2>5 DEF Bystanders
  <2>7. ReceiptsNameReaders'
    BY <1>2, <2>4, <2>5, ReceiptsStay DEF SessionsInv
  <2>8. \A j \in LockedAt(kind, pc + 1) : cell'[calls[t].on[j]].lock = t
    <3>1. LockedAt(kind, pc + 1) \subseteq LockedAt(kind, pc) \cup {i}
      BY <1>2, <1>3 DEF LockedAt, PairOperations, Operations
    <3>2. \A j \in LockedAt(kind, pc) : cell[calls[t].on[j]].lock = t /\ j \in {1, 2}
      BY <1>2 DEF CallInv, LockedAt
    <3>3. QED BY <1>2, <2>4, <2>5, <3>1, <3>2
  <2>9. kind = "step" => pc = 2 /\ i = 1 /\ open
    BY <1>2, <1>3
  <2>10. kind = "transfer" /\ pc = 4 => i = 2 /\ ~open
    BY <1>2, <1>3
  <2>11. kind = "transfer" /\ pc = 4 => ~cell'[calls[t].on[2]].open
    BY <1>4, <2>4, <2>5, <2>10
  <2>12. name \notin {"get1", "get2", "check1", "check2"}
    BY <1>1
  <2>13. kind = "step" /\ pc = 2 => cell'[calls[t].on[1]].job \in {0, calls[t].epochs[1]}
    BY <2>4, <2>5, <2>9
  <2>14. kind = "step" /\ pc # 2 => cell'[calls[t].on[1]].job = cell[calls[t].on[1]].job
    BY <2>9
  <2>15. At(t, name)
    BY <1>1
  <2> HIDE DEF name, h, epoch
  <2>16. QED
    BY <2>1, <2>5, <2>6, <2>7, <2>8, <2>11, <2>12, <2>13, <2>14, <2>15, GoStep
<1>5. CASE ~(cell[h].lock = Nobody /\ Valid(h, epoch) /\ cell[h].open = open)
  <2>1. Fail(t)
    BY <1>5 DEF Enter
  <2>2. QED BY <1>1, <1>2, <2>1, FailStep
<1>6. QED BY <1>4, <1>5

LEMMA WorkStep ==
  ASSUME SessionsInv, NEW t \in Threads, Work(t)
  PROVE  SessionsInv'
<1> DEFINE kind == calls[t].op
           pc == calls[t].pc
<1>1. /\ kind # "idle" /\ kind \in Operations /\ calls[t] \in Call /\ SessionTypes /\ CallInv(t)
      /\ pc \in 1..7 /\ pc < 7 /\ pc < Len(Script[kind]) /\ Script[kind][pc] = "work"
  BY Midway DEF Work
<1>2. (kind = "step" /\ pc = 3) \/ (kind \in {"import", "compare"} /\ pc = 5)
  BY <1>1, WhereAt DEF CallInv
<1>3. CASE /\ ~Stopped(t)
           /\ calls' = [calls EXCEPT ![t] = Bumped(t)]
           /\ UNCHANGED <<nextHandle, table, cell, delivered>>
  <2>1. cell' \in [Issued -> Cell] /\ Bystanders(t)
    BY <1>1, <1>3 DEF Bystanders, SessionTypes
  <2>2. ReceiptsNameReaders'
    BY <1>1, <1>3, ReceiptsStay DEF SessionsInv
  <2>3. LockedAt(kind, pc + 1) = LockedAt(kind, pc)
    BY <1>2 DEF LockedAt, PairOperations
  <2>4. \A j \in LockedAt(kind, pc + 1) : cell'[calls[t].on[j]].lock = t
    BY <1>1, <1>3, <2>3 DEF CallInv
  <2>5. At(t, "work")
    BY DEF Work
  <2>6. /\ ~(kind = "step" /\ pc = 2) /\ ~(kind = "transfer" /\ pc = 4)
        /\ cell'[calls[t].on[1]].job = cell[calls[t].on[1]].job
    BY <1>2, <1>3
  <2>7. QED
    BY <1>3, <2>1, <2>2, <2>4, <2>5, <2>6, GoStep
<1>4. CASE Fail(t)
  BY <1>1, <1>4, FailStep
<1>5. QED BY <1>3, <1>4 DEF Work

LEMMA PauseStep ==
  ASSUME SessionsInv, NEW t \in Threads, Pause(t)
  PROVE  SessionsInv'
<1> DEFINE kind == calls[t].op
           pc == calls[t].pc
           h == calls[t].on[1]
<1>1. /\ kind # "idle" /\ kind \in Operations /\ calls[t] \in Call /\ SessionTypes /\ CallInv(t)
      /\ pc \in 1..7 /\ pc < 7 /\ pc < Len(Script[kind]) /\ Script[kind][pc] = "pause"
      /\ h \in Issued /\ calls[t].epochs[1] \in Nat
      /\ cell \in [Issued -> Cell] /\ cell[h] \in Cell
  BY Midway DEF Pause
<1>2. kind = "begin" /\ pc = 3
  BY <1>1, WhereAt DEF CallInv
<1>3. CASE /\ ~Stopped(t)
           /\ cell' = [cell EXCEPT ![h].job = calls[t].epochs[1]]
           /\ calls' = [calls EXCEPT ![t] = Bumped(t)]
           /\ UNCHANGED <<nextHandle, table, delivered>>
  <2>1. PICK n : n = [cell[h] EXCEPT !.job = calls[t].epochs[1]]
    OBVIOUS
  <2>2. /\ n \in Cell /\ n.closed = cell[h].closed /\ n.epoch = cell[h].epoch
        /\ n.open = cell[h].open /\ n.receipts = cell[h].receipts /\ n.lock = cell[h].lock
    BY <1>1, <2>1 DEF Cell
  <2>3. cell' \in [Issued -> Cell] /\ cell'[h] = n
        /\ \A k \in Issued \ {h} : cell'[k] = cell[k]
    BY <1>1, <1>3, <2>1, <2>2
  <2>4. cell[h].lock = t /\ LockedAt(kind, pc + 1) = {1}
    BY <1>1, <1>2 DEF CallInv, LockedAt, PairOperations
  <2>5. Bystanders(t)
    BY <2>2, <2>3, <2>4 DEF Bystanders
  <2>6. ReceiptsNameReaders'
    BY <1>1, <2>2, <2>3, ReceiptsStay DEF SessionsInv
  <2>7. \A j \in LockedAt(kind, pc + 1) : cell'[calls[t].on[j]].lock = t
    BY <2>2, <2>3, <2>4
  <2>8. At(t, "pause")
    BY DEF Pause
  <2>9. QED
    BY <1>2, <1>3, <2>3, <2>5, <2>6, <2>7, <2>8, GoStep
<1>4. CASE Fail(t)
  BY <1>1, <1>4, FailStep
<1>5. QED BY <1>3, <1>4 DEF Pause

\* An installed destination is one no receipt names yet: it was empty when its
\* lock was taken, and it is still.
LEMMA InstallStep ==
  ASSUME SessionsInv, NEW t \in Threads, NEW i \in {1, 2}, Install(t, i)
  PROVE  SessionsInv'
<1> DEFINE kind == calls[t].op
           pc == calls[t].pc
           h == calls[t].on[i]
           o == calls[t].on[1]
           name == IF i = 1 THEN "install1" ELSE "install2"
<1>1. At(t, name) /\ name \in {"install1", "install2"}
  BY DEF Install
<1>2. /\ kind # "idle" /\ kind \in Operations /\ calls[t] \in Call /\ SessionTypes /\ CallInv(t)
      /\ pc \in 1..7 /\ pc < 7 /\ pc < Len(Script[kind]) /\ Script[kind][pc] = name
      /\ h \in Issued /\ o \in Issued
      /\ cell \in [Issued -> Cell] /\ cell[h] \in Cell /\ cell[o] \in Cell
  BY <1>1, Midway
<1>3. \/ i = 1 /\ kind = "open" /\ pc = 3 /\ h = o
      \/ i = 2 /\ kind = "transfer" /\ pc = 5 /\ h # o
  <2>1. \/ i = 1 /\ kind = "open" /\ pc = 3
        \/ i = 2 /\ kind = "transfer" /\ pc = 5
    BY <1>2, WhereAt DEF CallInv
  <2>2. kind = "transfer" => calls[t].on[1] # calls[t].on[2]
    BY <1>2 DEF CallInv, PairOperations
  <2>3. QED BY <2>1, <2>2
<1>4. CASE /\ ~Stopped(t)
           /\ cell' = [cell EXCEPT ![h].open = TRUE,
                ![o].receipts = IF i = 2 THEN @ \cup {h} ELSE @]
           /\ calls' = [calls EXCEPT ![t] = Bumped(t)]
           /\ UNCHANGED <<nextHandle, table, delivered>>
  <2>1. /\ cell' \in [Issued -> Cell]
        /\ \A k \in Issued :
             /\ cell'[k].closed = cell[k].closed /\ cell'[k].epoch = cell[k].epoch
             /\ cell'[k].lock = cell[k].lock /\ cell'[k].job = cell[k].job
             /\ k = h => cell'[k].open
             /\ k # h => cell'[k].open = cell[k].open
             /\ k = o /\ i = 2 => cell'[k].receipts = cell[k].receipts \cup {h}
             /\ k # o \/ i = 1 => cell'[k].receipts = cell[k].receipts
    <3>1. CASE i = 1
      <4>1. PICK n : n = [cell[h] EXCEPT !.open = TRUE]
        OBVIOUS
      <4>2. n \in Cell /\ n.open = TRUE /\ n.closed = cell[h].closed /\ n.epoch = cell[h].epoch
            /\ n.lock = cell[h].lock /\ n.job = cell[h].job /\ n.receipts = cell[h].receipts
        BY <1>2, <4>1 DEF Cell
      <4>3. cell' \in [Issued -> Cell] /\ cell'[h] = n
            /\ \A k \in Issued \ {h} : cell'[k] = cell[k]
        <5>1. cell' = [[cell EXCEPT ![h] = n] EXCEPT ![h].receipts = n.receipts]
          BY <1>2, <1>3, <1>4, <3>1, <4>1
        <5>2. QED BY <1>2, <4>2, <5>1 DEF Cell
      <4>4. QED BY <3>1, <4>2, <4>3
    <3>2. CASE i = 2
      <4>1. PICK n, m : /\ n = [cell[h] EXCEPT !.open = TRUE]
                        /\ m = [cell[o] EXCEPT !.receipts = cell[o].receipts \cup {h}]
        OBVIOUS
      <4>2. n \in Cell /\ n.open = TRUE /\ n.closed = cell[h].closed /\ n.epoch = cell[h].epoch
            /\ n.lock = cell[h].lock /\ n.job = cell[h].job /\ n.receipts = cell[h].receipts
        BY <1>2, <4>1 DEF Cell
      <4>3. m \in Cell /\ m.open = cell[o].open /\ m.closed = cell[o].closed
            /\ m.epoch = cell[o].epoch /\ m.lock = cell[o].lock /\ m.job = cell[o].job
            /\ m.receipts = cell[o].receipts \cup {h}
        BY <1>2, <4>1 DEF Cell
      <4>4. cell' = [[cell EXCEPT ![h] = n] EXCEPT ![o] = m]
        <5>1. cell' = [cell EXCEPT ![h].open = TRUE,
                                   ![o].receipts = cell[o].receipts \cup {h}]
          BY <1>2, <1>3, <1>4, <3>2
        <5>2. cell' = [[cell EXCEPT ![h] = n]
                         EXCEPT ![o].receipts = cell[o].receipts \cup {h}]
          BY <1>2, <4>1, <5>1
        <5>3. [cell EXCEPT ![h] = n][o] = cell[o]
          BY <1>2, <1>3, <3>2
        <5> DEFINE first == [cell EXCEPT ![h] = n]
        <5>4. cell' = [first EXCEPT ![o] = [first[o] EXCEPT
                                              !.receipts = cell[o].receipts \cup {h}]]
          BY <5>2, Zenon
        <5>5. QED BY <4>1, <5>3, <5>4
      <4>5. cell' \in [Issued -> Cell] /\ cell'[h] = n /\ cell'[o] = m
            /\ \A k \in Issued \ {h, o} : cell'[k] = cell[k]
        <5> DEFINE first == [cell EXCEPT ![h] = n]
        <5>1. /\ first \in [Issued -> Cell] /\ first[h] = n
              /\ \A k \in Issued \ {h} : first[k] = cell[k]
          BY <1>2, <1>3, <4>2
        <5>2. cell' = [first EXCEPT ![o] = m] /\ o \in Issued /\ o # h
          BY <1>2, <1>3, <3>2, <4>4
        <5> HIDE DEF first
        <5>3. m \in Cell /\ h # o /\ h \in Issued
          BY <1>2, <1>3, <4>3, <5>2
        <5>4. cell' \in [Issued -> Cell]
          BY <5>1, <5>2, <5>3
        <5>5. cell'[o] = m
          BY <5>1, <5>2
        <5>6. \A k \in Issued \ {o} : cell'[k] = first[k]
          BY <5>1, <5>2
        <5>7. cell'[h] = n
          BY <5>1, <5>3, <5>6
        <5>8. \A k \in Issued \ {h, o} : cell'[k] = cell[k]
          BY <5>1, <5>6
        <5>9. QED BY <5>4, <5>5, <5>7, <5>8
      <4>6. h # o /\ i = 2 /\ i # 1
        BY <1>3, <3>2
      <4>7. ASSUME NEW k \in Issued
            PROVE  /\ cell'[k].closed = cell[k].closed /\ cell'[k].epoch = cell[k].epoch
                   /\ cell'[k].lock = cell[k].lock /\ cell'[k].job = cell[k].job
                   /\ k = h => cell'[k].open
                   /\ k # h => cell'[k].open = cell[k].open
                   /\ k = o /\ i = 2 => cell'[k].receipts = cell[k].receipts \cup {h}
                   /\ k # o \/ i = 1 => cell'[k].receipts = cell[k].receipts
        <5>1. CASE k = h
          <6>1. cell'[k] = n
            BY <4>5, <5>1
          <6>2. QED BY <4>2, <4>6, <5>1, <6>1
        <5>2. CASE k = o
          <6>1. cell'[k] = m
            BY <4>5, <5>2
          <6>2. QED BY <4>3, <4>6, <5>2, <6>1
        <5>3. CASE k \notin {h, o}
          <6>1. cell'[k] = cell[k]
            BY <4>5, <5>3
          <6>2. QED BY <4>6, <5>3, <6>1
        <5>4. QED BY <5>1, <5>2, <5>3
      <4>8. QED BY <4>5, <4>7
    <3>3. QED BY <3>1, <3>2
  <2>2. \A j \in LockedAt(kind, pc) : j \in {1, 2} /\ cell[calls[t].on[j]].lock = t
    BY <1>2 DEF CallInv, LockedAt
  <2>3. i \in LockedAt(kind, pc) /\ LockedAt(kind, pc + 1) = LockedAt(kind, pc)
    BY <1>3 DEF LockedAt, PairOperations
  <2>4. Bystanders(t)
    <3>1. cell[h].lock = t
      BY <2>2, <2>3
    <3>2. QED BY <2>1, <3>1 DEF Bystanders
  <2>5. \A j \in LockedAt(kind, pc + 1) : cell'[calls[t].on[j]].lock = t
    <3>1. \A j \in {1, 2} : calls[t].on[j] \in Issued
      BY <1>2 DEF Call
    <3>2. QED BY <2>1, <2>2, <2>3, <3>1
  <2>6. ReceiptsNameReaders'
    <3>1. CASE i = 1
      BY <1>2, <2>1, <3>1, ReceiptsStay DEF SessionsInv
    <3>2. CASE i = 2
      <4>1. ~cell[h].open
        BY <1>2, <1>3, <3>2 DEF CallInv
      <4>2. ReceiptsNameReaders /\ \A k \in Issued : cell[k].receipts \subseteq Issued
        BY <1>2 DEF SessionsInv, Cell
      <4>3. \A k \in Issued : h \notin cell[k].receipts
        BY <4>1, <4>2 DEF ReceiptsNameReaders
      <4>4. QED BY <1>2, <1>3, <2>1, <3>2, <4>2, <4>3 DEF ReceiptsNameReaders
    <3>3. QED BY <3>1, <3>2
  <2>7. kind # "step" /\ ~(kind = "transfer" /\ pc = 4) /\ At(t, name)
        /\ name \notin {"get1", "get2", "check1", "check2"}
    BY <1>1, <1>3
  <2> HIDE DEF name
  <2>8. QED BY <1>4, <2>1, <2>4, <2>5, <2>6, <2>7, GoStep
<1>5. CASE Fail(t)
  BY <1>1, <1>2, <1>5, FailStep
<1>6. QED BY <1>4, <1>5 DEF Install

\* The last check of a call, and the one with which a destination is left.
LEMMA CheckStep ==
  ASSUME SessionsInv, NEW t \in Threads, NEW i \in {1, 2}, Check(t, i)
  PROVE  SessionsInv'
<1> DEFINE kind == calls[t].op
           pc == calls[t].pc
           h == calls[t].on[i]
           name == IF i = 1 THEN "check1" ELSE "check2"
           valid == Valid(h, calls[t].epochs[i])
           checked == IF valid THEN cell ELSE [cell EXCEPT ![h].job = 0]
<1>1. /\ kind # "idle" /\ kind \in Operations /\ calls[t] \in Call /\ SessionTypes /\ CallInv(t)
      /\ cell \in [Issued -> Cell] /\ \A k \in Issued : cell[k] \in Cell
      /\ At(t, name) /\ pc \in 1..7 /\ pc <= Len(Script[kind]) /\ h \in Issued
  <2>1. kind # "idle" /\ At(t, name)
    BY DEF Check, At
  <2>2. calls[t] \in Call /\ SessionTypes /\ CallInv(t)
    BY <2>1, Calling DEF SessionsInv
  <2>3. kind \in Operations /\ pc \in 1..7 /\ h \in Issued
    BY <2>2 DEF Call
  <2>4. pc <= Len(Script[kind])
    BY <2>1, <2>2 DEF CallInv
  <2>5. QED BY <2>1, <2>2, <2>3, <2>4 DEF SessionTypes
<1>2. /\ name = Script[kind][pc]
      /\ Script[kind][pc] = "check1" <=> pc = Len(Script[kind])
      /\ Script[kind][pc] = "check2" <=> kind \in PairOperations /\ pc = 6
      /\ Len(Script[kind]) = IF kind \in PairOperations THEN 7 ELSE 4
  BY <1>1, WhereAt
<1>3. /\ checked \in [Issued -> Cell]
      /\ \A k \in Issued : \/ checked[k] = cell[k]
                           \/ checked[k] = [cell[k] EXCEPT !.job = 0]
  BY <1>1 DEF Cell
<1>4. calls[t].revoked /\ calls[t].ok => Stopped(t)
  BY <1>1 DEF CallInv
<1>5. UNCHANGED <<nextHandle, table>>
  BY DEF Check
<1>6. CASE i = 1
  <2>1. calls[t].held = {1}
    BY <1>1, <1>2, <1>6 DEF CallInv, HeldAt, PairOperations
  <2>2. calls[t].ok /\ valid => ~calls[t].revoked
    BY <1>4, <1>6, <2>1 DEF Stopped
  <2>3. FinishCall(t, checked, calls[t].ok /\ valid)
    BY <1>6 DEF Check
  <2>4. PICK ok \in BOOLEAN : ok = (calls[t].ok /\ valid)
    OBVIOUS
  <2>5. FinishCall(t, checked, ok)
    BY <2>3, <2>4
  <2> HIDE DEF checked, valid
  <2>6. QED BY <1>1, <1>3, <1>5, <2>2, <2>4, <2>5, FinishStep
<1>7. CASE i = 2
  <2> DEFINE c == calls'[t]
  <2>1. /\ cell' = Free(checked, t, {h})
        /\ calls' = [calls EXCEPT ![t] =
                       [Bumped(t) EXCEPT !.ok = @ /\ valid, !.held = @ \ {i}]]
        /\ delivered' = delivered
    BY <1>7 DEF Check
  <2>2. kind \in PairOperations /\ pc = 6 /\ Len(Script[kind]) = 7
    BY <1>2, <1>7
  <2>3. /\ cell' \in [Issued -> Cell]
        /\ \A k \in Issued :
              /\ cell'[k].closed = checked[k].closed /\ cell'[k].epoch = checked[k].epoch
              /\ cell'[k].open = checked[k].open /\ cell'[k].job = checked[k].job
              /\ cell'[k].receipts = checked[k].receipts
              /\ checked[k].lock # t \/ k # h => cell'[k].lock = checked[k].lock
    <3> HIDE DEF checked
    <3>1. QED BY <1>3, <2>1, FreeFacts
  <2>4. \A k \in Issued :
              /\ checked[k].closed = cell[k].closed /\ checked[k].epoch = cell[k].epoch
              /\ checked[k].open = cell[k].open /\ checked[k].job \in {0, cell[k].job}
              /\ checked[k].receipts = cell[k].receipts /\ checked[k].lock = cell[k].lock
    <3> HIDE DEF checked
    <3>1. QED BY <1>1, <1>3 DEF Cell
  <2> HIDE DEF checked
  <2>5. PICK b, ok : b = Bumped(t) /\ ok = (b.ok /\ valid)
    OBVIOUS
  <2>6. /\ b \in Call /\ b.pc = 7 /\ b.op = kind /\ b.on = calls[t].on
        /\ b.epochs = calls[t].epochs /\ b.held = calls[t].held
        /\ b.ok = calls[t].ok /\ b.revoked = calls[t].revoked
    BY <1>1, <2>2, <2>5, BumpedCall
  <2>7. /\ c = [b EXCEPT !.ok = ok, !.held = b.held \ {2}]
        /\ ok \in BOOLEAN /\ b.held \ {2} \in SUBSET {1, 2}
        /\ \A u \in Threads \ {t} : calls'[u] = calls[u]
    <3>1. calls \in [Threads -> Call \cup {Idle}]
      BY <1>1 DEF SessionTypes
    <3>2. c = [b EXCEPT !.ok = ok, !.held = b.held \ {2}]
      BY <1>7, <2>1, <2>5, <3>1
    <3>3. ok \in BOOLEAN
      BY <2>5, Zenon
    <3>4. b.held \ {2} \in SUBSET {1, 2}
      BY <2>6 DEF Call
    <3>5. QED BY <2>1, <3>1, <3>2, <3>3, <3>4
  <2> HIDE DEF c
  <2>8. /\ c \in Call /\ c.pc = 7 /\ c.op = kind /\ c.on = calls[t].on
        /\ c.epochs = calls[t].epochs /\ c.held = calls[t].held \ {2}
        /\ c.ok = ok /\ c.revoked = calls[t].revoked
    <3>1. PICK kept : kept = b.held \ {2}
      OBVIOUS
    <3>2. c = [op |-> b.op, pc |-> b.pc, on |-> b.on, epochs |-> b.epochs,
               held |-> kept, ok |-> ok, revoked |-> b.revoked]
      BY <2>6, <2>7, <3>1 DEF Call
    <3>3. /\ b.op \in Operations /\ b.pc \in 1..7 /\ b.on \in [1..2 -> Issued]
          /\ b.epochs \in [1..2 -> Nat] /\ b.revoked \in BOOLEAN
          /\ ok \in BOOLEAN /\ kept \in SUBSET {1, 2}
      BY <2>6, <2>7, <3>1 DEF Call
    <3>4. c \in Call
      BY <3>2, <3>3, Zenon DEF Call
    <3>5. QED BY <2>6, <3>1, <3>2, <3>4
  <2>9. calls' \in [Threads -> Call \cup {Idle}] /\ calls'[t] = c
    BY <1>1, <2>1, <2>8 DEF SessionTypes, c
  <2>10. SessionTypes'
    BY <1>1, <1>5, <2>1, <2>3, <2>9 DEF SessionTypes
  <2>11. Bystanders(t)
    BY <2>3, <2>4 DEF Bystanders
  <2>12. HeldBy(t)' \subseteq HeldBy(t) \cup table
    BY <1>1, <2>8, <2>9 DEF HeldBy
  <2>13. ReceiptsNameReaders'
    BY <1>1, <2>3, <2>4, ReceiptsStay DEF SessionsInv
  <2>14. /\ calls[t].held = {1, 2} /\ c.held = {1} /\ HeldAt(kind, 7) = {1}
         /\ LockedAt(kind, 7) = {1} /\ 1 \in LockedAt(kind, pc)
    <3>1. HeldAt(kind, 6) = {1, 2} /\ HeldAt(kind, 7) = {1}
      BY <2>2 DEF HeldAt, PairOperations
    <3>2. LockedAt(kind, 7) = {1} /\ 1 \in LockedAt(kind, 6)
      BY <2>2 DEF LockedAt, PairOperations
    <3>3. calls[t].held = HeldAt(kind, pc)
      BY <1>1 DEF CallInv
    <3>4. QED BY <2>2, <2>8, <3>1, <3>2, <3>3
  <2>15. calls[t].on[1] \in Issued /\ calls[t].on[1] # h
    BY <1>1, <1>7, <2>2 DEF CallInv, Call
  <2>16. cell'[calls[t].on[1]].lock = t
    BY <1>1, <2>3, <2>4, <2>14, <2>15 DEF CallInv
  <2>17. calls[t].epochs[1] <= cell'[calls[t].on[1]].epoch
    BY <1>1, <2>3, <2>4, <2>14, <2>15 DEF CallInv
  <2>18. c.revoked /\ c.ok => \/ cell'[calls[t].on[1]].closed
                              \/ cell'[calls[t].on[1]].epoch # calls[t].epochs[1]
    <3>1. c.ok => calls[t].ok /\ valid
      BY <2>5, <2>6, <2>8
    <3>2. c.revoked /\ c.ok => Stopped(t) /\ valid
      BY <1>4, <2>8, <3>1
    <3>3. c.revoked /\ c.ok => ~Valid(calls[t].on[1], calls[t].epochs[1])
      BY <1>7, <2>14, <3>2 DEF Stopped
    <3>4. QED BY <2>3, <2>4, <2>15, <3>3 DEF Valid
  <2>19. c.op # "step" /\ c.on[1] # c.on[2]
    BY <1>7, <2>2, <2>8, <2>15 DEF PairOperations
  <2>20. c.held = HeldAt(c.op, c.pc) /\ LockedAt(c.op, c.pc) = {1}
         /\ c.pc = Len(Script[c.op]) /\ c.pc = 7
    <3>1. c.op = kind /\ c.pc = 7
      BY <2>8
    <3>2. QED BY <2>2, <2>14, <3>1
  <2>21. CallInv(t)'
    <3>1. \A j \in LockedAt(c.op, c.pc) : cell'[c.on[j]].lock = t
      BY <2>8, <2>16, <2>20
    <3>2. \A j \in c.held : c.epochs[j] <= cell'[c.on[j]].epoch
      BY <2>8, <2>14, <2>17
    <3>3. c.revoked /\ c.ok => \E j \in c.held : \/ cell'[c.on[j]].closed
                                                 \/ cell'[c.on[j]].epoch # c.epochs[j]
      BY <2>8, <2>14, <2>18
    <3>4. c.revoked /\ c.ok => Stopped(t)'
      BY <2>9, <3>3 DEF Stopped, Valid
    <3>5. c.held = HeldAt(c.op, c.pc) /\ c.pc <= Len(Script[c.op]) /\ c.pc # 5
      BY <2>20, <2>2, <2>8
    <3>6. QED BY <2>9, <2>19, <3>1, <3>2, <3>4, <3>5 DEF CallInv
  <2>22. ~delivered'
    BY <2>1 DEF SessionsInv, RevokedIsNotDelivered
  <2>23. QED
    BY <1>5, <2>7, <2>10, <2>11, <2>12, <2>13, <2>21, <2>22, OneCall
<1>8. QED BY <1>6, <1>7

LEMMA CallStepKeeps ==
  ASSUME SessionsInv, NEW t \in Threads, CallStep(t)
  PROVE  SessionsInv'
BY GetStep, InstallStep, CheckStep, EnterStep, WorkStep, PauseStep DEF CallStep

-----------------------------------------------------------------------------
(* Calls that begin, sessions that are created, cancelled and closed.      *)

LEMMA BeginStep ==
  ASSUME SessionsInv, NEW t \in Threads, NEW kind \in DOMAIN Script,
         NEW first \in table, NEW second \in table,
         BeginCall(t, kind, first, second)
  PROVE  SessionsInv'
<1> DEFINE c == [op |-> kind, pc |-> 1, on |-> <<first, second>>, epochs |-> <<0, 0>>,
                 held |-> {}, ok |-> TRUE, revoked |-> FALSE]
<1>1. /\ SessionTypes /\ calls[t] = Idle /\ calls' = [calls EXCEPT ![t] = c]
      /\ UNCHANGED <<nextHandle, table, cell, delivered>>
      /\ kind \in PairOperations <=> first # second
  BY DEF SessionsInv, BeginCall, PairOperations
<1>2. /\ kind \in Operations /\ first \in Issued /\ second \in Issued
      /\ <<first, second>> \in [1..2 -> Issued] /\ <<0, 0>> \in [1..2 -> Nat]
  BY <1>1 DEF Script, Operations, SessionTypes
<1>3. c \in Call
  <2>1. {} \in SUBSET {1, 2} /\ TRUE \in BOOLEAN /\ FALSE \in BOOLEAN /\ 1 \in 1..7
    OBVIOUS
  <2>2. QED BY <1>2, <2>1, Zenon DEF Call
<1>4. /\ c.op = kind /\ c.pc = 1 /\ c.on[1] = first /\ c.on[2] = second
      /\ c.held = {} /\ c.revoked = FALSE
  OBVIOUS
<1> HIDE DEF c
<1>5. /\ calls' \in [Threads -> Call \cup {Idle}] /\ calls'[t] = c
      /\ \A u \in Threads \ {t} : calls'[u] = calls[u]
  BY <1>1, <1>3 DEF SessionTypes
<1>6. SessionTypes'
  BY <1>1, <1>5 DEF SessionTypes
<1>7. Bystanders(t)
  BY <1>1 DEF Bystanders
<1>8. HeldBy(t)' \subseteq HeldBy(t) \cup table
  BY <1>4, <1>5 DEF HeldBy
<1>9. ReceiptsNameReaders'
  BY <1>1, ReceiptsStay DEF SessionsInv
<1>10. 1 <= Len(Script[kind]) /\ HeldAt(kind, 1) = {} /\ LockedAt(kind, 1) = {}
  <2>1. HeldAt(kind, 1) = {} /\ LockedAt(kind, 1) = {}
    BY DEF HeldAt, LockedAt
  <2>2. 1 <= Len(Script[kind])
    BY <1>2 DEF Script, Operations, OpenScript, BeginScript, StepScript, TransferScript,
                ImportScript, CompareScript
  <2>3. QED BY <2>1, <2>2
<1>11. CallInv(t)'
  <2>1. c.held = HeldAt(c.op, c.pc) /\ LockedAt(c.op, c.pc) = {}
        /\ c.pc <= Len(Script[c.op])
    BY <1>4, <1>10
  <2>2. c.op \in PairOperations => c.on[1] # c.on[2]
    BY <1>1, <1>4
  <2>3. QED BY <1>4, <1>5, <2>1, <2>2 DEF CallInv
<1>12. QED
  BY <1>1, <1>5, <1>6, <1>7, <1>8, <1>9, <1>11, OneCall
       DEF SessionsInv, RevokedIsNotDelivered

LEMMA CreateSessionStep ==
  ASSUME SessionsInv, CreateSession
  PROVE  SessionsInv'
<1>1. /\ Cardinality({h \in Issued : Reachable(h)}) < MaxSessions
      /\ nextHandle <= MaxHandles /\ table' = table \cup {nextHandle}
      /\ nextHandle' = nextHandle + 1 /\ UNCHANGED <<cell, calls, delivered>>
  BY DEF CreateSession, Admits
<1>2. SessionTypes /\ nextHandle \in Issued
  BY <1>1, SessionConstants DEF SessionsInv, SessionTypes, Issued
<1>3. SessionTypes'
  BY <1>1, <1>2 DEF SessionTypes
<1>4. \A t \in Threads : CallInv(t)'
  BY <1>1 DEF SessionsInv, CallInv, Stopped, Valid
<1>5. ReceiptsNameReaders'
  BY <1>1 DEF SessionsInv, ReceiptsNameReaders
<1>6. RetiringCountsAsLive'
  <2> DEFINE live == {h \in Issued : Reachable(h)}
             later == {h \in Issued : Reachable(h)'}
  <2>1. IsFiniteSet(live) /\ live \subseteq Issued
    BY SessionConstants, FS_Subset
  <2>2. later \subseteq live \cup {nextHandle}
    BY <1>1 DEF Reachable, HeldBy
  <2>3. IsFiniteSet(live \cup {nextHandle})
        /\ Cardinality(live \cup {nextHandle}) <= Cardinality(live) + 1
        /\ Cardinality(live) \in Nat
    BY <2>1, FS_AddElement, FS_CardinalityType
  <2>4. IsFiniteSet(later) /\ Cardinality(later) <= Cardinality(live \cup {nextHandle})
        /\ Cardinality(later) \in Nat /\ Cardinality(live \cup {nextHandle}) \in Nat
    BY <2>2, <2>3, FS_Subset, FS_CardinalityType
  <2>5. Cardinality(live) < MaxSessions
    BY <1>1
  <2> HIDE DEF live, later
  <2>6. Cardinality(later) <= MaxSessions
    BY <2>3, <2>4, <2>5, SessionConstants
  <2>7. QED BY <2>6 DEF RetiringCountsAsLive, later
<1>7. ~delivered'
  BY <1>1 DEF SessionsInv, RevokedIsNotDelivered
<1>8. QED BY <1>3, <1>4, <1>5, <1>6, <1>7 DEF SessionsInv, RevokedIsNotDelivered

\* A cancel or a close revokes the calls that hold the cell, each of which is
\* stopped by it: its epoch is none the cell will have again.
LEMMA RevokeStep ==
  ASSUME SessionsInv, NEW h \in table, NEW n \in Cell,
         n.lock = cell[h].lock, n.open = cell[h].open, n.job = cell[h].job,
         n.receipts = cell[h].receipts,
         \/ n.epoch = cell[h].epoch + 1 /\ n.closed = cell[h].closed
         \/ n.epoch = cell[h].epoch /\ n.closed,
         cell' = [cell EXCEPT ![h] = n], Revoke(h),
         table' \subseteq table, UNCHANGED <<nextHandle, delivered>>
  PROVE  SessionsInv'
<1>1. /\ SessionTypes /\ h \in Issued /\ cell \in [Issued -> Cell]
      /\ \A k \in Issued : cell[k] \in Cell
      /\ \A k \in Issued : cell[k].epoch \in Nat
  BY DEF SessionsInv, SessionTypes, Cell
<1>2. cell' \in [Issued -> Cell] /\ cell'[h] = n /\ \A k \in Issued \ {h} : cell'[k] = cell[k]
  BY <1>1
<1>3. calls' = [t \in Threads |->
                  IF Touches(t, h) THEN [calls[t] EXCEPT !.revoked = TRUE] ELSE calls[t]]
  BY DEF Revoke
<1>4. ASSUME NEW t \in Threads
      PROVE  /\ calls'[t] \in Call \cup {Idle} /\ CallInv(t)' /\ HeldBy(t)' = HeldBy(t)
  <2>1. CASE calls[t].op = "idle"
    <3>1. calls'[t] = calls[t] /\ calls[t] = Idle
      BY <1>1, <1>3, <2>1, Calling DEF Touches
    <3>2. QED BY <2>1, <3>1 DEF CallInv, HeldBy
  <2>2. CASE calls[t].op # "idle"
    <3>1. calls[t] \in Call /\ CallInv(t)
      BY <1>1, <2>2, Calling DEF SessionsInv
    <3>2. /\ calls[t].held \subseteq {1, 2}
          /\ \A i \in {1, 2} : calls[t].on[i] \in Issued /\ calls[t].epochs[i] \in Nat
      BY <3>1 DEF Call
    <3>3. PICK r : r = [calls[t] EXCEPT !.revoked = TRUE]
      OBVIOUS
    <3>4. /\ r \in Call /\ r.op = calls[t].op /\ r.pc = calls[t].pc /\ r.on = calls[t].on
          /\ r.epochs = calls[t].epochs /\ r.held = calls[t].held /\ r.ok = calls[t].ok
      BY <3>1, <3>3 DEF Call
    <3>5. PICK c : c = calls'[t]
      OBVIOUS
    <3>6. IF Touches(t, h) THEN c = r ELSE c = calls[t]
      BY <1>3, <3>3, <3>5
    <3>7. /\ c \in Call /\ c.op = calls[t].op /\ c.pc = calls[t].pc /\ c.on = calls[t].on
          /\ c.epochs = calls[t].epochs /\ c.held = calls[t].held /\ c.ok = calls[t].ok
      BY <3>1, <3>4, <3>6
    <3>8. HeldBy(t)' = HeldBy(t)
      BY <3>5, <3>7 DEF HeldBy
    <3>9. \A k \in Issued : /\ cell'[k].lock = cell[k].lock /\ cell'[k].open = cell[k].open
                            /\ cell'[k].job = cell[k].job
                            /\ cell[k].epoch <= cell'[k].epoch
                            /\ cell[k].closed => cell'[k].closed
      BY <1>1, <1>2
    <3>10. \A i \in LockedAt(c.op, c.pc) : cell'[c.on[i]].lock = t
      BY <2>2, <3>1, <3>2, <3>7, <3>9 DEF CallInv, LockedAt
    <3>11. \A i \in c.held : c.epochs[i] <= cell'[c.on[i]].epoch
      <4>1. \A i \in c.held : c.on[i] \in Issued /\ c.epochs[i] \in Nat
                              /\ c.epochs[i] <= cell[c.on[i]].epoch
        BY <2>2, <3>1, <3>2, <3>7 DEF CallInv
      <4>2. \A k \in Issued : cell[k].epoch \in Nat /\ cell'[k].epoch \in Nat
        BY <1>1, <1>2 DEF Cell
      <4>3. QED BY <3>9, <4>1, <4>2
    <3>12. c.revoked /\ c.ok => \E i \in c.held : \/ cell'[c.on[i]].closed
                                                  \/ cell'[c.on[i]].epoch # c.epochs[i]
      <4>1. CASE Touches(t, h)
        <5>1. PICK i \in {1, 2} : i \in calls[t].held /\ calls[t].on[i] = h
          BY <4>1 DEF Touches
        <5>2. calls[t].epochs[i] <= cell[h].epoch
          BY <2>2, <3>1, <5>1 DEF CallInv
        <5>3. n.closed \/ n.epoch # calls[t].epochs[i]
          BY <1>1, <3>2, <5>1, <5>2
        <5>4. QED BY <1>2, <3>7, <5>1, <5>3
      <4>2. CASE ~Touches(t, h)
        <5>1. c = calls[t]
          BY <3>6, <4>2
        <5>2. \A i \in c.held : c.on[i] # h /\ c.on[i] \in Issued
          BY <2>2, <3>2, <4>2, <5>1 DEF Touches
        <5>3. c.revoked /\ c.ok => \E i \in c.held : \/ cell[c.on[i]].closed
                                                     \/ cell[c.on[i]].epoch # c.epochs[i]
          BY <3>1, <5>1, <2>2 DEF CallInv, Stopped, Valid
        <5>4. QED BY <1>2, <5>2, <5>3
      <4>3. QED BY <4>1, <4>2
    <3>13. c.op = "step" /\ c.pc >= 3 => cell'[c.on[1]].job \in {0, c.epochs[1]}
      BY <2>2, <3>1, <3>2, <3>7, <3>9 DEF CallInv
    <3>14. c.op = "transfer" /\ c.pc = 5 => ~cell'[c.on[2]].open
      BY <2>2, <3>1, <3>2, <3>7, <3>9 DEF CallInv
    <3>15. /\ c.pc <= Len(Script[c.op])
           /\ c.op \in PairOperations => c.on[1] # c.on[2]
           /\ c.held = HeldAt(c.op, c.pc)
      BY <2>2, <3>1, <3>7 DEF CallInv
    <3>16. c.revoked /\ c.ok => Stopped(t)'
      BY <3>5, <3>12 DEF Stopped, Valid
    <3>17. CallInv(t)'
      BY <3>5, <3>10, <3>11, <3>13, <3>14, <3>15, <3>16 DEF CallInv
    <3>18. QED BY <3>5, <3>7, <3>8, <3>17
  <2>3. QED BY <2>1, <2>2
<1>5. calls' \in [Threads -> Call \cup {Idle}]
  BY <1>3, <1>4
<1>6. SessionTypes'
  BY <1>1, <1>2, <1>5 DEF SessionTypes
<1>7. ReceiptsNameReaders'
  BY <1>1, <1>2, ReceiptsStay DEF SessionsInv
<1>8. RetiringCountsAsLive'
  <2>1. \A k \in Issued : Reachable(k)' => Reachable(k)
    BY <1>4 DEF Reachable
  <2>2. QED BY <2>1, LiveStay DEF SessionsInv
<1>9. QED BY <1>4, <1>6, <1>7, <1>8 DEF SessionsInv, RevokedIsNotDelivered

LEMMA CancelStep ==
  ASSUME SessionsInv, NEW h \in Issued, Cancel(h) \/ Close(h)
  PROVE  SessionsInv'
<1>1. h \in table /\ cell \in [Issued -> Cell] /\ cell[h] \in Cell
  BY DEF SessionsInv, SessionTypes, Cancel, Close
<1>2. CASE Cancel(h)
  <2>1. PICK n : n = [cell[h] EXCEPT !.epoch = @ + 1]
    OBVIOUS
  <2>2. /\ n \in Cell /\ n.lock = cell[h].lock /\ n.open = cell[h].open
        /\ n.job = cell[h].job /\ n.receipts = cell[h].receipts
        /\ n.epoch = cell[h].epoch + 1 /\ n.closed = cell[h].closed
    BY <1>1, <2>1 DEF Cell
  <2>3. cell' = [cell EXCEPT ![h] = n]
    BY <1>1, <1>2, <2>1 DEF Cancel
  <2>4. Revoke(h) /\ UNCHANGED <<nextHandle, table, delivered>>
    BY <1>2 DEF Cancel
  <2>5. QED BY <1>1, <2>2, <2>3, <2>4, RevokeStep
<1>3. CASE Close(h)
  <2>1. PICK n : n = [cell[h] EXCEPT !.closed = TRUE]
    OBVIOUS
  <2>2. /\ n \in Cell /\ n.lock = cell[h].lock /\ n.open = cell[h].open
        /\ n.job = cell[h].job /\ n.receipts = cell[h].receipts
        /\ n.epoch = cell[h].epoch /\ n.closed
    BY <1>1, <2>1 DEF Cell
  <2>3. cell' = [cell EXCEPT ![h] = n]
    BY <1>1, <1>3, <2>1 DEF Close
  <2>4. Revoke(h) /\ UNCHANGED <<nextHandle, delivered>> /\ table' \subseteq table
    BY <1>3 DEF Close
  <2>5. QED BY <1>1, <2>2, <2>3, <2>4, RevokeStep
<1>4. QED BY <1>2, <1>3

-----------------------------------------------------------------------------

\* What calls hold, lock and compare follows from where in their scripts they
\* are: true at first, and kept by every step.
THEOREM SessionsInvariant == SessionsSpec => []SessionsInv
<1>1. SessionsInit => SessionsInv
  <2> SUFFICES ASSUME SessionsInit PROVE SessionsInv
    OBVIOUS
  <2>1. NewCell \in Cell /\ NewCell.receipts = {}
    <3>1. /\ FALSE \in BOOLEAN /\ 1 \in Nat /\ 0 \in Nat /\ {} \in SUBSET Issued
          /\ Nobody \in Threads \cup {Nobody}
      OBVIOUS
    <3>2. NewCell \in Cell
      BY <3>1, Zenon DEF NewCell, Cell
    <3>3. QED BY <3>2 DEF NewCell
  <2>2. \A t \in Threads : calls[t] = Idle /\ Idle.op = "idle"
    BY DEF SessionsInit, Idle
  <2>3. SessionTypes
    <3>1. nextHandle \in Nat \ {0} /\ table \subseteq Issued /\ delivered \in BOOLEAN
      <4>1. nextHandle = 1 /\ table = {} /\ delivered = FALSE
        BY DEF SessionsInit
      <4>2. nextHandle \in Nat \ {0} /\ table \subseteq Issued
        BY <4>1
      <4>3. delivered \in BOOLEAN
        BY <4>1, Zenon
      <4>4. QED BY <4>2, <4>3
    <3>2. cell \in [Issued -> Cell]
      <4>1. cell = [h \in Issued |-> NewCell]
        BY DEF SessionsInit
      <4>2. QED BY <2>1, <4>1
    <3>3. calls \in [Threads -> Call \cup {Idle}]
      BY DEF SessionsInit
    <3>4. QED BY <3>1, <3>2, <3>3 DEF SessionTypes
  <2>4. \A t \in Threads : CallInv(t)
    BY <2>2 DEF CallInv
  <2>5. ReceiptsNameReaders
    BY <2>1 DEF SessionsInit, ReceiptsNameReaders
  <2>6. {h \in Issued : Reachable(h)} = {}
    BY <2>2 DEF Reachable, HeldBy, SessionsInit
  <2>7. RetiringCountsAsLive
    BY <2>6, FS_EmptySet, SessionConstants DEF RetiringCountsAsLive
  <2>8. QED
    BY <2>3, <2>4, <2>5, <2>7 DEF SessionsInv, RevokedIsNotDelivered, SessionsInit
<1>2. SessionsInv /\ [SessionsNext]_sessionVars => SessionsInv'
  <2> SUFFICES ASSUME SessionsInv, [SessionsNext]_sessionVars PROVE SessionsInv'
    OBVIOUS
  <2>1. CASE CreateSession
    BY <2>1, CreateSessionStep
  <2>2. CASE \E t \in Threads : CallStep(t)
    BY <2>2, CallStepKeeps
  <2>3. CASE \E t \in Threads, kind \in DOMAIN Script, first, second \in table :
               BeginCall(t, kind, first, second)
    BY <2>3, BeginStep
  <2>4. CASE \E h \in Issued : Cancel(h) \/ Close(h)
    BY <2>4, CancelStep
  <2>5. CASE UNCHANGED sessionVars
    <3>2. UNCHANGED <<nextHandle, table, cell, calls, delivered>>
      BY <2>5 DEF sessionVars
    <3>3. SessionTypes' /\ \A t \in Threads : CallInv(t)'
      BY <3>2 DEF SessionsInv, SessionTypes, CallInv, Stopped, Valid
    <3>4. RetiringCountsAsLive'
      <4>1. \A h \in Issued : Reachable(h)' => Reachable(h)
        BY <3>2 DEF Reachable, HeldBy
      <4>2. QED BY <4>1, LiveStay DEF SessionsInv
    <3>5. QED BY <3>2, <3>3, <3>4
      DEF SessionsInv, ReceiptsNameReaders, RevokedIsNotDelivered
  <2>6. QED BY <2>1, <2>2, <2>3, <2>4, <2>5 DEF SessionsNext
<1>3. QED BY <1>1, <1>2, PTL DEF SessionsSpec

\* Sessions are counted while a call can reach them, a paused job is resumed
\* only by a call of its epoch, and receipts name destinations that were
\* installed from that source (reader_sessions.rs:6-8, 241-244).
THEOREM SessionsStayAccounted == SessionsSpec => []SessionsAreAccounted
<1>1. SessionsInv => SessionsAreAccounted
  <2> SUFFICES ASSUME SessionsInv PROVE SessionsAreAccounted
    OBVIOUS
  <2>1. ASSUME NEW t \in Threads, At(t, "work"), calls[t].op = "step"
        PROVE  cell[calls[t].on[1]].job \in {0, calls[t].epochs[1]}
    <3>1. /\ calls[t] \in Call /\ CallInv(t) /\ calls[t].pc \in 1..7
          /\ "work" = Script[calls[t].op][calls[t].pc]
          /\ calls[t].pc < Len(Script[calls[t].op])
      BY <2>1, Midway
    <3>2. calls[t].pc = 3
      BY <2>1, <3>1, WhereAt DEF CallInv
    <3>3. QED BY <2>1, <3>1, <3>2 DEF CallInv
  <2>2. ObsoleteJobsAreNotResumed
    BY <2>1 DEF ObsoleteJobsAreNotResumed
  <2>3. QED BY <2>2 DEF SessionsInv, SessionsAreAccounted
<1>2. QED BY <1>1, SessionsInvariant, PTL

\* A call that was cancelled or closed while it held the cell does not report
\* success (reader_sessions.rs:251-254).
THEOREM RevokedStaysUndelivered == SessionsSpec => []RevokedIsNotDelivered
<1>1. SessionsInv => RevokedIsNotDelivered
  BY DEF SessionsInv
<1>2. QED BY <1>1, SessionsInvariant, PTL

-----------------------------------------------------------------------------
(***************************************************************************)
(* File continuity. An identity is given out once, and a note stays on the *)
(* file that holds the text it was taken from.                             *)
(***************************************************************************)

NoteStates ==
  {"none", "active", "recycled", "tombstoned", "special", "outOfBounds", "diverged"}

NoteRecord == [owner : Nat, revision : Nat, expected : Texts \cup {TooShort}, state : NoteStates]

ContinuityTypes ==
  /\ text \in [Tracked -> Texts \cup {TooShort}]
  /\ identity \in [Tracked -> Nat] /\ revision \in [Tracked -> Nat]
  /\ inode \in [Tracked -> Inodes \cup {NoInode}] /\ tombstoned \in [Tracked -> BOOLEAN]
  /\ nextIdentity \in Nat \ {0}
  /\ note \in [Notes -> NoteRecord]
  /\ retired \subseteq Nat

\* An identity given out is below the next one, and a note is on one given out.
IdentitiesAreGivenOut ==
  /\ \A f \in Tracked : identity[f] < nextIdentity
  /\ \A id \in retired : id < nextIdentity /\ id # 0
  /\ \A n \in Notes : ActiveNotes(n) => note[n].owner # 0

ContinuityInv ==
  /\ ContinuityTypes
  /\ IdentitiesAreGivenOut
  /\ IdentitiesNameOneFile
  /\ NotesStayWithTheirText

-----------------------------------------------------------------------------

\* Orphaning takes notes out of the active ones and leaves the others alone.
LEMMA OrphanFacts ==
  ASSUME ContinuityTypes, NEW ns, NEW reason \in NoteStates \ {"active"},
         note' = Orphaned(ns, reason)
  PROVE  /\ note' \in [Notes -> NoteRecord]
         /\ \A n \in Notes : /\ n \in ns => ~ActiveNotes(n)'
                             /\ n \notin ns => note'[n] = note[n]
<1>1. \A n \in Notes : note[n] \in NoteRecord
  BY DEF ContinuityTypes
<1>2. ASSUME NEW n \in Notes
      PROVE  /\ [note[n] EXCEPT !.state = reason] \in NoteRecord
             /\ [note[n] EXCEPT !.state = reason].state = reason
  BY <1>1 DEF NoteRecord
<1>3. note' = [n \in Notes |-> IF n \in ns THEN [note[n] EXCEPT !.state = reason] ELSE note[n]]
  BY DEF Orphaned
<1>4. \A n \in Notes : /\ n \in ns => note'[n] = [note[n] EXCEPT !.state = reason]
                       /\ n \notin ns => note'[n] = note[n]
  BY <1>3
<1>5. note' \in [Notes -> NoteRecord]
  BY <1>1, <1>2, <1>3
<1>6. QED BY <1>2, <1>4, <1>5 DEF ActiveNotes

\* A fresh identity is no path's, no note's and not retired.
TakesFresh(f) ==
  /\ identity' \in [Tracked -> Nat] /\ revision' \in [Tracked -> Nat]
  /\ inode' \in [Tracked -> Inodes \cup {NoInode}] /\ tombstoned' \in [Tracked -> BOOLEAN]
  /\ nextIdentity' = nextIdentity + 1
  /\ identity'[f] = nextIdentity /\ tombstoned'[f] = FALSE
  /\ \A g \in Tracked \ {f} : /\ identity'[g] = identity[g] /\ revision'[g] = revision[g]
                              /\ tombstoned'[g] = tombstoned[g]
  /\ nextIdentity \in Nat \ {0} /\ nextIdentity \notin retired
  /\ \A g \in Tracked : identity[g] \in Nat /\ identity[g] < nextIdentity

LEMMA FreshFacts ==
  ASSUME ContinuityInv, NEW f \in Tracked, NEW i \in Inodes \cup {NoInode}, Fresh(f, i)
  PROVE  TakesFresh(f)
BY DEF ContinuityInv, ContinuityTypes, IdentitiesAreGivenOut, Fresh, NextIdentityAfter, TakesFresh

LEMMA ObserveNewStep ==
  ASSUME ContinuityInv, NEW f \in Tracked, NEW i \in Inodes \cup {NoInode}, ObserveNew(f, i)
  PROVE  ContinuityInv'
<1>1. /\ identity[f] = 0 /\ Fresh(f, i) /\ UNCHANGED <<note, retired>>
      /\ text' \in [Tracked -> Texts \cup {TooShort}]
      /\ \A g \in Tracked \ {f} : text'[g] = text[g]
  BY DEF ObserveNew
<1> TakesFresh(f)
  BY <1>1, FreshFacts
<1>2. ContinuityTypes'
  BY <1>1 DEF TakesFresh, ContinuityInv, ContinuityTypes
<1>3. IdentitiesAreGivenOut'
  BY <1>1, <1>2 DEF TakesFresh, ContinuityInv, ContinuityTypes, IdentitiesAreGivenOut, ActiveNotes
<1>4. IdentitiesNameOneFile'
  BY <1>1 DEF TakesFresh, ContinuityInv, IdentitiesNameOneFile
<1>5. NotesStayWithTheirText'
  <2> SUFFICES ASSUME NEW n \in Notes, ActiveNotes(n)
               PROVE  \E g \in Tracked :
                        /\ identity'[g] = note[n].owner /\ ~tombstoned'[g]
                        /\ revision'[g] = note[n].revision /\ text'[g] = note[n].expected
    BY <1>1 DEF NotesStayWithTheirText, ActiveNotes
  <2>1. PICK g \in Tracked : /\ identity[g] = note[n].owner /\ ~tombstoned[g]
                             /\ revision[g] = note[n].revision /\ text[g] = note[n].expected
    BY DEF ContinuityInv, NotesStayWithTheirText
  <2>2. g # f
    BY <1>1, <2>1 DEF ContinuityInv, IdentitiesAreGivenOut
  <2>3. QED BY <1>1, <2>1, <2>2 DEF TakesFresh
<1>6. QED BY <1>2, <1>3, <1>4, <1>5 DEF ContinuityInv

\* A recycled path: the notes of its old identity are active no more.
LEMMA ObserveRecycledStep ==
  ASSUME ContinuityInv, NEW f \in Tracked, NEW i \in Inodes \cup {NoInode}, NEW policy,
         ObserveRecycled(f, i, policy)
  PROVE  ContinuityInv'
<1>1. /\ identity[f] # 0 /\ Fresh(f, i) /\ retired' = retired \cup {identity[f]}
      /\ note' = Orphaned(NotesOn(identity[f]), "recycled")
      /\ text' \in [Tracked -> Texts \cup {TooShort}]
      /\ \A g \in Tracked \ {f} : text'[g] = text[g]
  BY DEF ObserveRecycled
<1> TakesFresh(f)
  BY <1>1, FreshFacts
<1>2. /\ note' \in [Notes -> NoteRecord]
      /\ \A n \in Notes : /\ n \in NotesOn(identity[f]) => ~ActiveNotes(n)'
                          /\ n \notin NotesOn(identity[f]) => note'[n] = note[n]
  <2>1. "recycled" \in NoteStates \ {"active"}
    BY DEF NoteStates
  <2>2. QED BY <1>1, <2>1, OrphanFacts DEF ContinuityInv
<1>3. ContinuityTypes'
  <2>1. retired' \subseteq Nat
    BY <1>1 DEF TakesFresh, ContinuityInv, ContinuityTypes
  <2>2. nextIdentity' \in Nat \ {0}
    BY DEF TakesFresh
  <2>3. QED BY <1>1, <1>2, <2>1, <2>2 DEF TakesFresh, ContinuityTypes
<1>4. IdentitiesAreGivenOut'
  BY <1>1, <1>2, <1>3
  DEF TakesFresh, ContinuityInv, ContinuityTypes, IdentitiesAreGivenOut, ActiveNotes
<1>5. IdentitiesNameOneFile'
  BY <1>1 DEF TakesFresh, ContinuityInv, IdentitiesNameOneFile
<1>6. NotesStayWithTheirText'
  <2> SUFFICES ASSUME NEW n \in Notes, ActiveNotes(n)'
               PROVE  \E g \in Tracked :
                        /\ identity'[g] = note'[n].owner /\ ~tombstoned'[g]
                        /\ revision'[g] = note'[n].revision /\ text'[g] = note'[n].expected
    BY DEF NotesStayWithTheirText
  <2>1. n \notin NotesOn(identity[f]) /\ note'[n] = note[n] /\ ActiveNotes(n)
    BY <1>2 DEF ActiveNotes
  <2>2. PICK g \in Tracked : /\ identity[g] = note[n].owner /\ ~tombstoned[g]
                             /\ revision[g] = note[n].revision /\ text[g] = note[n].expected
    BY <2>1 DEF ContinuityInv, NotesStayWithTheirText
  <2>3. g # f
    BY <2>1, <2>2 DEF NotesOn
  <2>4. QED BY <1>1, <2>1, <2>2, <2>3 DEF TakesFresh
<1>7. QED BY <1>3, <1>4, <1>5, <1>6 DEF ContinuityInv

\* An edit: the notes on the file are moved to its new revision, if their text
\* survived, and the others are orphaned.
LEMMA ObserveModifiedStep ==
  ASSUME ContinuityInv, NEW f \in Tracked, NEW i \in Inodes \cup {NoInode}, NEW policy,
         ObserveModified(f, i, policy)
  PROVE  ContinuityInv'
<1>1. /\ identity[f] # 0 /\ ~tombstoned[f]
      /\ revision' = [revision EXCEPT ![f] = @ + 1] /\ inode' = [inode EXCEPT ![f] = i]
      /\ UNCHANGED <<identity, tombstoned, nextIdentity, retired>>
  BY DEF ObserveModified, Recycles
<1>2. PICK t \in Texts \cup {TooShort} :
        /\ text' = [text EXCEPT ![f] = t]
        /\ note' = [n \in Notes |->
            IF n \notin NotesOn(identity[f]) THEN note[n]
            ELSE IF Survives(n, t) THEN [note[n] EXCEPT !.revision = revision[f] + 1]
            ELSE [note[n] EXCEPT !.state = IF t = TooShort THEN "outOfBounds" ELSE "diverged"]]
  BY DEF ObserveModified
<1>3. /\ text' \in [Tracked -> Texts \cup {TooShort}] /\ text'[f] = t
      /\ revision' \in [Tracked -> Nat] /\ revision'[f] = revision[f] + 1
      /\ \A g \in Tracked \ {f} : text'[g] = text[g] /\ revision'[g] = revision[g]
      /\ inode' \in [Tracked -> Inodes \cup {NoInode}]
      /\ revision[f] \in Nat
  BY <1>1, <1>2 DEF ContinuityInv, ContinuityTypes
<1>4. ASSUME NEW n \in Notes
      PROVE  /\ note'[n] \in NoteRecord
             /\ n \notin NotesOn(identity[f]) => note'[n] = note[n]
             /\ n \in NotesOn(identity[f]) /\ ActiveNotes(n)' =>
                  /\ note[n].expected = t /\ note'[n].expected = t
                  /\ note'[n].revision = revision[f] + 1
                  /\ note'[n].owner = note[n].owner
  <2>1. note[n] \in NoteRecord
    BY DEF ContinuityInv, ContinuityTypes
  <2>2. CASE n \notin NotesOn(identity[f])
    BY <1>2, <2>1, <2>2
  <2>3. CASE n \in NotesOn(identity[f]) /\ Survives(n, t)
    <3>1. note'[n] = [note[n] EXCEPT !.revision = revision[f] + 1]
      BY <1>2, <2>3
    <3>2. QED BY <1>3, <2>1, <2>3, <3>1 DEF NoteRecord, Survives
  <2>4. CASE n \in NotesOn(identity[f]) /\ ~Survives(n, t)
    <3>1. PICK s : s = IF t = TooShort THEN "outOfBounds" ELSE "diverged"
      OBVIOUS
    <3>2. note'[n] = [note[n] EXCEPT !.state = s]
      BY <1>2, <2>4, <3>1
    <3>3. s \in NoteStates /\ s # "active"
      BY <3>1 DEF NoteStates
    <3>4. QED BY <2>1, <2>4, <3>2, <3>3 DEF NoteRecord, ActiveNotes
  <2>5. QED BY <2>2, <2>3, <2>4
<1>5. ContinuityTypes'
  <2>1. note' \in [Notes -> NoteRecord]
    BY <1>2, <1>4
  <2>2. QED BY <1>1, <1>3, <2>1 DEF ContinuityInv, ContinuityTypes
<1>6. IdentitiesAreGivenOut'
  <2>1. \A n \in Notes : ActiveNotes(n)' => note'[n].owner # 0
    BY <1>4 DEF ContinuityInv, IdentitiesAreGivenOut, ActiveNotes, NotesOn
  <2>2. QED BY <1>1, <2>1 DEF ContinuityInv, IdentitiesAreGivenOut
<1>7. IdentitiesNameOneFile'
  BY <1>1 DEF ContinuityInv, IdentitiesNameOneFile
<1>8. NotesStayWithTheirText'
  <2> SUFFICES ASSUME NEW n \in Notes, ActiveNotes(n)'
               PROVE  \E g \in Tracked :
                        /\ identity'[g] = note'[n].owner /\ ~tombstoned'[g]
                        /\ revision'[g] = note'[n].revision /\ text'[g] = note'[n].expected
    BY DEF NotesStayWithTheirText
  <2>1. CASE n \in NotesOn(identity[f])
    <3>1. note'[n].owner = identity[f] /\ note'[n].expected = t
          /\ note'[n].revision = revision[f] + 1
      BY <1>4, <2>1 DEF NotesOn
    <3>2. QED BY <1>1, <1>3, <3>1
  <2>2. CASE n \notin NotesOn(identity[f])
    <3>1. note'[n] = note[n] /\ ActiveNotes(n)
      BY <1>4, <2>2 DEF ActiveNotes
    <3>2. PICK g \in Tracked : /\ identity[g] = note[n].owner /\ ~tombstoned[g]
                               /\ revision[g] = note[n].revision /\ text[g] = note[n].expected
      BY <3>1 DEF ContinuityInv, NotesStayWithTheirText
    <3>3. g # f
      BY <2>2, <3>1, <3>2 DEF NotesOn
    <3>4. QED BY <1>1, <1>3, <3>1, <3>2, <3>3
  <2>3. QED BY <2>1, <2>2
<1>9. QED BY <1>5, <1>6, <1>7, <1>8 DEF ContinuityInv

LEMMA TombstoneStep ==
  ASSUME ContinuityInv, NEW f \in Tracked, Tombstone(f)
  PROVE  ContinuityInv'
<1>1. /\ identity[f] # 0 /\ retired' = retired \cup {identity[f]}
      /\ tombstoned' = [tombstoned EXCEPT ![f] = TRUE]
      /\ note' = Orphaned(NotesOn(identity[f]), "tombstoned")
      /\ UNCHANGED <<text, identity, revision, inode, nextIdentity>>
  BY DEF Tombstone
<1>2. /\ note' \in [Notes -> NoteRecord]
      /\ \A n \in Notes : /\ n \in NotesOn(identity[f]) => ~ActiveNotes(n)'
                          /\ n \notin NotesOn(identity[f]) => note'[n] = note[n]
  <2>1. "tombstoned" \in NoteStates \ {"active"}
    BY DEF NoteStates
  <2>2. QED BY <1>1, <2>1, OrphanFacts DEF ContinuityInv
<1>3. /\ tombstoned' \in [Tracked -> BOOLEAN] /\ tombstoned'[f]
      /\ \A g \in Tracked \ {f} : tombstoned'[g] = tombstoned[g]
      /\ identity[f] \in Nat
  BY <1>1 DEF ContinuityInv, ContinuityTypes
<1>4. ContinuityTypes'
  BY <1>1, <1>2, <1>3 DEF ContinuityInv, ContinuityTypes
<1>5. IdentitiesAreGivenOut'
  BY <1>1, <1>2 DEF ContinuityInv, IdentitiesAreGivenOut, ActiveNotes
<1>6. IdentitiesNameOneFile'
  BY <1>1, <1>3 DEF ContinuityInv, IdentitiesNameOneFile
<1>7. NotesStayWithTheirText'
  <2> SUFFICES ASSUME NEW n \in Notes, ActiveNotes(n)'
               PROVE  \E g \in Tracked :
                        /\ identity'[g] = note'[n].owner /\ ~tombstoned'[g]
                        /\ revision'[g] = note'[n].revision /\ text'[g] = note'[n].expected
    BY DEF NotesStayWithTheirText
  <2>1. n \notin NotesOn(identity[f]) /\ note'[n] = note[n] /\ ActiveNotes(n)
    BY <1>2 DEF ActiveNotes
  <2>2. PICK g \in Tracked : /\ identity[g] = note[n].owner /\ ~tombstoned[g]
                             /\ revision[g] = note[n].revision /\ text[g] = note[n].expected
    BY <2>1 DEF ContinuityInv, NotesStayWithTheirText
  <2>3. g # f
    BY <2>1, <2>2 DEF NotesOn
  <2>4. QED BY <1>1, <1>3, <2>1, <2>2, <2>3
<1>8. QED BY <1>4, <1>5, <1>6, <1>7 DEF ContinuityInv

LEMMA SpecialStep ==
  ASSUME ContinuityInv, NEW f \in Tracked, BecomeSpecial(f)
  PROVE  ContinuityInv'
<1>1. /\ note' = Orphaned(NotesOn(identity[f]), "special")
      /\ UNCHANGED <<text, identity, revision, inode, tombstoned, nextIdentity, retired>>
  BY DEF BecomeSpecial, entry
<1>2. /\ note' \in [Notes -> NoteRecord]
      /\ \A n \in Notes : ActiveNotes(n)' => ActiveNotes(n) /\ note'[n] = note[n]
  <2>1. "special" \in NoteStates \ {"active"}
    BY DEF NoteStates
  <2>2. QED BY <1>1, <2>1, OrphanFacts DEF ContinuityInv, ActiveNotes
<1>3. ContinuityTypes' /\ IdentitiesAreGivenOut' /\ IdentitiesNameOneFile'
  BY <1>1, <1>2 DEF ContinuityInv, ContinuityTypes, IdentitiesAreGivenOut, IdentitiesNameOneFile
<1>4. NotesStayWithTheirText'
  BY <1>1, <1>2 DEF ContinuityInv, NotesStayWithTheirText
<1>5. QED BY <1>3, <1>4 DEF ContinuityInv

LEMMA AddNoteStep ==
  ASSUME ContinuityInv, NEW f \in Tracked, NEW m \in Notes, AddNote(m, f)
  PROVE  ContinuityInv'
<1>1. /\ identity[f] # 0 /\ ~tombstoned[f]
      /\ UNCHANGED <<text, identity, revision, inode, tombstoned, nextIdentity, retired>>
  BY DEF AddNote, entry
<1>2. PICK new : new = [owner |-> identity[f], revision |-> revision[f],
                        expected |-> text[f], state |-> "active"]
  OBVIOUS
<1>3. /\ new \in NoteRecord /\ new.owner = identity[f] /\ new.revision = revision[f]
      /\ new.expected = text[f]
  <2>1. /\ identity[f] \in Nat /\ revision[f] \in Nat /\ text[f] \in Texts \cup {TooShort}
        /\ "active" \in NoteStates
    BY DEF ContinuityInv, ContinuityTypes, NoteStates
  <2>2. new \in NoteRecord
    BY <1>2, <2>1, Zenon DEF NoteRecord
  <2>3. QED BY <1>2, <2>2
<1>4. note' = [note EXCEPT ![m] = new]
  BY <1>2 DEF AddNote
<1>5. /\ note' \in [Notes -> NoteRecord] /\ note'[m] = new
      /\ \A n \in Notes \ {m} : note'[n] = note[n]
  BY <1>3, <1>4 DEF ContinuityInv, ContinuityTypes
<1>6. ContinuityTypes' /\ IdentitiesNameOneFile'
  BY <1>1, <1>5 DEF ContinuityInv, ContinuityTypes, IdentitiesNameOneFile
<1>7. IdentitiesAreGivenOut'
  BY <1>1, <1>3, <1>5 DEF ContinuityInv, IdentitiesAreGivenOut, ActiveNotes
<1>8. NotesStayWithTheirText'
  BY <1>1, <1>3, <1>5 DEF ContinuityInv, NotesStayWithTheirText, ActiveNotes
<1>9. QED BY <1>6, <1>7, <1>8 DEF ContinuityInv

\* Identities and notes hold together from the first file on.
THEOREM ContinuityInvariant == ContinuitySpec => []ContinuityInv
<1>1. ContinuityInit => ContinuityInv
  <2> SUFFICES ASSUME ContinuityInit PROVE ContinuityInv
    OBVIOUS
  <2>1. \A n \in Notes : note[n].state = "none"
    BY DEF ContinuityInit
  <2>2. note \in [Notes -> NoteRecord]
    <3>1. "none" \in NoteStates /\ 0 \in Nat /\ TooShort \in Texts \cup {TooShort}
      BY DEF NoteStates
    <3>2. [owner |-> 0, revision |-> 0, expected |-> TooShort, state |-> "none"] \in NoteRecord
      BY <3>1, Zenon DEF NoteRecord
    <3>3. QED BY <3>2 DEF ContinuityInit
  <2>3. ContinuityTypes
    BY <2>2 DEF ContinuityInit, ContinuityTypes
  <2>4. QED BY <2>1, <2>3
    DEF ContinuityInit, ContinuityInv, IdentitiesAreGivenOut, IdentitiesNameOneFile,
        NotesStayWithTheirText, ActiveNotes
<1>2. ContinuityInv /\ [ContinuityNext]_continuityVars => ContinuityInv'
  <2> SUFFICES ASSUME ContinuityInv, [ContinuityNext]_continuityVars PROVE ContinuityInv'
    OBVIOUS
  <2>1. CASE ContinuityNext
    BY <2>1, TombstoneStep, SpecialStep, AddNoteStep, ObserveNewStep, ObserveRecycledStep,
       ObserveModifiedStep DEF ContinuityNext
  <2>2. CASE UNCHANGED continuityVars
    BY <2>2 DEF continuityVars, entry, ContinuityInv, ContinuityTypes, IdentitiesAreGivenOut,
       IdentitiesNameOneFile, NotesStayWithTheirText, ActiveNotes
  <2>3. QED BY <2>1, <2>2
<1>3. QED BY <1>1, <1>2, PTL DEF ContinuitySpec

\* Identities follow files, and an active note is on a live file with its text
\* (reconciliation.rs, FileContinuityRegistry and AnnotationRegistry).
THEOREM NotesKeepFollowing == ContinuitySpec => []NotesFollowFiles
<1>1. ContinuityInv => NotesFollowFiles
  BY DEF ContinuityInv, NotesFollowFiles
<1>2. QED BY <1>1, ContinuityInvariant, PTL

-----------------------------------------------------------------------------
(***************************************************************************)
(* Observed snapshots. What a reading has collected is a prefix of one     *)
(* version of the file for as long as the modification time it started     *)
(* with is the current one, so what passes the final check is one version. *)
(***************************************************************************)

CaptureRecord == [chunks : Seq(Nat), settled : BOOLEAN]

SnapshotTypes ==
  /\ bytes \in Seq(Nat) /\ modified \in Nat /\ writes \in Nat
  /\ before \in Nat \X Nat /\ got \in Seq(Nat) /\ retries \in Nat
  /\ reading \in {"no", "stat", "chunks", "check"}
  /\ capture \in CaptureRecord \cup {NoCapture}
  /\ snapshots \in [Stores -> [Revisions -> CaptureRecord \cup {NoCapture}]]
  /\ activePins \in [Stores -> [Revisions -> SUBSET Nat]]
  /\ pinned = [t \in Tokens |-> pinned[t]] /\ nextToken \in Nat

IsPrefixOf(s, t) == Len(s) <= Len(t) /\ \A i \in 1..Len(s) : s[i] = t[i]

\* While a reading is under way nothing is captured, and as long as the time it
\* began with is the file's, so is everything it has read.
ReadingIsOfOneVersion ==
  /\ bytes \in past
  /\ reading # "no" => capture = NoCapture
  /\ reading = "check" => Len(got) = before[1]
  /\ ~CoarseClock /\ reading \in {"chunks", "check"} =>
       /\ before[2] <= modified
       /\ before[2] = modified => before[1] = Len(bytes) /\ IsPrefixOf(got, bytes)

\* Pins are of captures in their stores, by tokens given out before.
PinsAreGivenOut ==
  \A t \in Tokens : pinned[t] # NoPin =>
    /\ t < nextToken
    /\ pinned[t].store \in Stores /\ pinned[t].revision \in Revisions
    /\ pinned[t].capture # NoCapture

SnapshotInv ==
  /\ SnapshotTypes
  /\ ReadingIsOfOneVersion
  /\ SettledIsOneVersion
  /\ PinsAreGivenOut
  /\ PinnedCaptureStays

-----------------------------------------------------------------------------

\* What a store keeps does not move while files are read and written.
LEMMA HoldsStand ==
  ASSUME SnapshotInv, UNCHANGED <<snapshots, holds>>
  PROVE  PinsAreGivenOut' /\ PinnedCaptureStays'
BY DEF SnapshotInv, PinsAreGivenOut, PinnedCaptureStays, holds

LEMMA FileWriteStep ==
  ASSUME SnapshotInv, Write
  PROVE  SnapshotInv'
<1>1. SnapshotTypes /\ bytes \in Seq(Nat) /\ writes \in Nat /\ modified \in Nat
  BY DEF SnapshotInv, SnapshotTypes
<1>2. bytes' \in Seq(Nat)
  <2>1. CASE \E i \in 1..Len(bytes) : bytes' = [bytes EXCEPT ![i] = writes + 1]
    BY <1>1, <2>1
  <2>2. CASE bytes' = Append(bytes, writes + 1)
    BY <1>1, <2>2
  <2>3. CASE Len(bytes) > 1 /\ bytes' = SubSeq(bytes, 1, Len(bytes) - 1)
    BY <1>1, <2>3
  <2>4. QED BY <2>1, <2>2, <2>3 DEF Write
<1>3. /\ writes' = writes + 1 /\ past' = past \cup {bytes'}
      /\ modified' \in Nat /\ (~CoarseClock => modified' = modified + 1)
      /\ UNCHANGED <<reading, before, got, retries, capture, snapshots, activePins, pinned, nextToken>>
  BY <1>1, SnapshotAssumption DEF Write, reader, holds
<1>4. SnapshotTypes'
  BY <1>1, <1>2, <1>3 DEF SnapshotTypes
<1>5. ReadingIsOfOneVersion'
  <2>1. ~CoarseClock /\ reading \in {"chunks", "check"} => before[2] < modified'
    BY <1>1, <1>3 DEF SnapshotInv, ReadingIsOfOneVersion, SnapshotTypes
  <2>2. before[2] \in Nat
    BY <1>1 DEF SnapshotTypes
  <2>3. ~CoarseClock /\ reading \in {"chunks", "check"} =>
          before[2] <= modified' /\ before[2] # modified'
    BY <1>3, <2>1, <2>2
  <2>4. QED BY <1>3, <2>3 DEF SnapshotInv, ReadingIsOfOneVersion
<1>6. SettledIsOneVersion'
  BY <1>3 DEF SnapshotInv, SettledIsOneVersion
<1>7. QED BY <1>3, <1>4, <1>5, <1>6, HoldsStand DEF SnapshotInv, holds

\* A reading that goes on: it may begin anew, and reads what the file is now.
LEMMA ReadStep ==
  ASSUME SnapshotInv, BeginRead \/ StatBefore \/ ReadChunk \/ CancelRead
  PROVE  SnapshotInv'
<1>1. SnapshotTypes /\ UNCHANGED <<bytes, modified, writes, snapshots, activePins, pinned, nextToken>>
  BY DEF SnapshotInv, BeginRead, StatBefore, ReadChunk, CancelRead, source, holds
<1>2. CASE BeginRead
  <2>1. SnapshotTypes' /\ ReadingIsOfOneVersion' /\ SettledIsOneVersion'
    BY <1>1, <1>2 DEF BeginRead, SnapshotInv, SnapshotTypes, ReadingIsOfOneVersion,
                      SettledIsOneVersion, source
  <2>2. QED BY <1>1, <2>1, HoldsStand DEF SnapshotInv, holds
<1>3. CASE StatBefore
  <2>1. SnapshotTypes'
    BY <1>1, <1>3 DEF StatBefore, SnapshotTypes
  <2>2. ReadingIsOfOneVersion' /\ SettledIsOneVersion'
    BY <1>1, <1>3 DEF StatBefore, SnapshotInv, SnapshotTypes, ReadingIsOfOneVersion,
                      SettledIsOneVersion, IsPrefixOf
  <2>3. QED BY <1>1, <2>1, <2>2, HoldsStand DEF SnapshotInv, holds
<1>4. CASE ReadChunk
  <2>1. /\ reading = "chunks" /\ Len(got) < Len(bytes)
        /\ got' = Append(got, bytes[Len(got) + 1])
        /\ UNCHANGED <<past, reading, before, retries, capture>>
    BY <1>4 DEF ReadChunk, source
  <2>2. /\ bytes \in Seq(Nat) /\ got \in Seq(Nat) /\ Len(got) + 1 \in 1..Len(bytes)
        /\ Len(got) \in Nat
    BY <1>1, <2>1 DEF SnapshotTypes
  <2>3. got' \in Seq(Nat) /\ Len(got') = Len(got) + 1
        /\ \A i \in 1..Len(got) : got'[i] = got[i]
        /\ got'[Len(got) + 1] = bytes[Len(got) + 1]
    BY <2>1, <2>2
  <2>4. IsPrefixOf(got, bytes) => IsPrefixOf(got', bytes)
    BY <2>1, <2>2, <2>3 DEF IsPrefixOf
  <2>5. SnapshotTypes'
    BY <1>1, <2>1, <2>3 DEF SnapshotTypes
  <2>6. ReadingIsOfOneVersion'
    BY <1>1, <2>1, <2>4 DEF SnapshotInv, ReadingIsOfOneVersion, IsPrefixOf
  <2>7. SettledIsOneVersion'
    BY <2>1 DEF SettledIsOneVersion
  <2>8. QED BY <1>1, <2>5, <2>6, <2>7, HoldsStand DEF SnapshotInv, holds
<1>5. CASE CancelRead
  <2>1. SnapshotTypes' /\ ReadingIsOfOneVersion' /\ SettledIsOneVersion'
    BY <1>1, <1>5 DEF CancelRead, GiveUp, SnapshotInv, SnapshotTypes, ReadingIsOfOneVersion,
                      SettledIsOneVersion, source
  <2>2. QED BY <1>1, <2>1, HoldsStand DEF SnapshotInv, holds
<1>6. QED BY <1>2, <1>3, <1>4, <1>5

\* A prefix as long as the whole is the whole.
LEMMA WholePrefix ==
  ASSUME NEW s \in Seq(Nat), NEW t \in Seq(Nat), IsPrefixOf(s, t), Len(s) = Len(t)
  PROVE  s = t
BY SMTT(60) DEF IsPrefixOf

\* The end of a reading: another one, none, or a capture of what the file is.
LEMMA SettleStep ==
  ASSUME SnapshotInv, EndOfFile \/ StatAfter
  PROVE  SnapshotInv'
<1>1. /\ SnapshotTypes
      /\ UNCHANGED <<bytes, modified, writes, past, snapshots, activePins, pinned, nextToken>>
  BY DEF SnapshotInv, EndOfFile, StatAfter, source, holds
<1>2. CASE /\ EndOfFile /\ reading' = "check"
           /\ Len(got) = before[1] /\ UNCHANGED <<before, got, retries, capture>>
  <2>1. SnapshotTypes'
    BY <1>1, <1>2 DEF SnapshotTypes
  <2>2. ReadingIsOfOneVersion' /\ SettledIsOneVersion'
    BY <1>1, <1>2 DEF EndOfFile, SnapshotInv, ReadingIsOfOneVersion, SettledIsOneVersion, IsPrefixOf
  <2>3. QED BY <1>1, <2>1, <2>2, HoldsStand DEF SnapshotInv, holds
<1>3. CASE reading # "no" /\ (Retry \/ GiveUp)
  <2>1. SnapshotTypes' /\ ReadingIsOfOneVersion' /\ SettledIsOneVersion'
    BY <1>1, <1>3 DEF Retry, GiveUp, SnapshotInv, SnapshotTypes, ReadingIsOfOneVersion,
                      SettledIsOneVersion
  <2>2. QED BY <1>1, <2>1, HoldsStand DEF SnapshotInv, holds
<1>4. CASE /\ reading = "check" /\ reading' = "no"
           /\ capture' = [chunks |-> got, settled |-> Settled]
           /\ UNCHANGED <<before, got, retries>>
  <2>1. PICK settled : settled = Settled
    OBVIOUS
  <2>2. settled \in BOOLEAN
    BY <2>1, Zenon DEF Settled
  <2>3. capture' \in CaptureRecord /\ capture'.chunks = got /\ capture'.settled = settled
    <3>1. capture' = [chunks |-> got, settled |-> settled]
      BY <1>4, <2>1
    <3>2. got \in Seq(Nat)
      BY <1>1 DEF SnapshotTypes
    <3>3. capture' \in CaptureRecord
      BY <3>1, <3>2, <2>2, Zenon DEF CaptureRecord
    <3>4. QED BY <3>1, <3>3
  <2>4. SnapshotTypes'
    BY <1>1, <1>4, <2>3 DEF SnapshotTypes
  <2>5. ReadingIsOfOneVersion'
    BY <1>1, <1>4 DEF SnapshotInv, ReadingIsOfOneVersion
  <2>6. SettledIsOneVersion'
    <3> SUFFICES ASSUME ~CoarseClock, settled PROVE got \in past
      BY <1>1, <1>4, <2>3 DEF SettledIsOneVersion
    <3>1. before = <<Len(bytes), modified>>
      BY <2>1, Zenon DEF Settled
    <3>2. before[1] = Len(bytes) /\ before[2] = modified
      BY <3>1
    <3>3. Len(got) = Len(bytes) /\ IsPrefixOf(got, bytes) /\ bytes \in past
      BY <1>4, <3>2 DEF SnapshotInv, ReadingIsOfOneVersion
    <3>4. got = bytes
      BY <1>1, <3>3, WholePrefix DEF SnapshotTypes
    <3>5. QED BY <3>3, <3>4
  <2>7. QED BY <1>1, <2>4, <2>5, <2>6, HoldsStand DEF SnapshotInv, holds
<1>5. QED BY <1>2, <1>3, <1>4 DEF EndOfFile, StatAfter

-----------------------------------------------------------------------------

\* Readings that rest: what was captured stays a capture of one version.
LEMMA ReadingsStand ==
  ASSUME SnapshotInv, UNCHANGED <<source, reader>>
  PROVE  ReadingIsOfOneVersion' /\ SettledIsOneVersion'
BY DEF SnapshotInv, ReadingIsOfOneVersion, SettledIsOneVersion, source, reader, IsPrefixOf

LEMMA InsertStep ==
  ASSUME SnapshotInv, NEW s \in Stores, NEW r \in Revisions, Insert(s, r) \/ Evict(s, r)
  PROVE  SnapshotInv'
<1> DEFINE new == IF Insert(s, r) THEN capture ELSE NoCapture
<1>1. /\ SnapshotTypes /\ UNCHANGED <<source, reader, activePins, pinned, nextToken>>
      /\ snapshots' = [snapshots EXCEPT ![s][r] = new]
      /\ snapshots[s][r] = NoCapture \/ activePins[s][r] = {}
      /\ new \in CaptureRecord \cup {NoCapture}
  BY DEF SnapshotInv, SnapshotTypes, Insert, Evict, Evictable, holds
<1> HIDE DEF new
<1>2. /\ snapshots' \in [Stores -> [Revisions -> CaptureRecord \cup {NoCapture}]]
      /\ \A x \in Stores, y \in Revisions :
           x # s \/ y # r => snapshots'[x][y] = snapshots[x][y]
  BY <1>1 DEF SnapshotTypes
<1>3. SnapshotTypes'
  BY <1>1, <1>2 DEF SnapshotTypes, source, reader
<1>4. PinsAreGivenOut'
  BY <1>1 DEF SnapshotInv, PinsAreGivenOut
<1>5. PinnedCaptureStays'
  <2> SUFFICES ASSUME NEW t \in Tokens, pinned[t] # NoPin
               PROVE  /\ t \in activePins[pinned[t].store][pinned[t].revision]
                      /\ snapshots'[pinned[t].store][pinned[t].revision] = pinned[t].capture
    BY <1>1 DEF PinnedCaptureStays
  <2>1. /\ t \in activePins[pinned[t].store][pinned[t].revision]
        /\ snapshots[pinned[t].store][pinned[t].revision] = pinned[t].capture
        /\ pinned[t].store \in Stores /\ pinned[t].revision \in Revisions
        /\ pinned[t].capture # NoCapture
    BY DEF SnapshotInv, PinnedCaptureStays, PinsAreGivenOut
  <2>2. pinned[t].store # s \/ pinned[t].revision # r
    BY <1>1, <2>1
  <2>3. QED BY <1>2, <2>1, <2>2
<1>6. QED BY <1>1, <1>3, <1>4, <1>5, ReadingsStand DEF SnapshotInv

LEMMA SnapshotPinStep ==
  ASSUME SnapshotInv, NEW s \in Stores, NEW r \in Revisions, PinSnapshot(s, r)
  PROVE  SnapshotInv'
<1>1. PICK pin : pin = [store |-> s, revision |-> r, capture |-> snapshots[s][r]]
  OBVIOUS
<1>2. /\ pin.store = s /\ pin.revision = r /\ pin.capture = snapshots[s][r]
      /\ snapshots[s][r] # NoCapture
  BY <1>1 DEF PinSnapshot
<1>3. /\ SnapshotTypes /\ UNCHANGED <<source, reader, snapshots>>
      /\ nextToken \in Tokens /\ nextToken' = nextToken + 1 /\ nextToken \in Nat
      /\ activePins' = [activePins EXCEPT ![s][r] = @ \cup {nextToken}]
      /\ pinned' = [pinned EXCEPT ![nextToken] = pin]
  BY <1>1 DEF SnapshotInv, SnapshotTypes, PinSnapshot
<1>4. /\ activePins' \in [Stores -> [Revisions -> SUBSET Nat]]
      /\ nextToken \in activePins'[s][r]
      /\ \A x \in Stores, y \in Revisions : activePins[x][y] \subseteq activePins'[x][y]
  BY <1>3 DEF SnapshotTypes
<1>5. /\ pinned' = [t \in Tokens |-> pinned'[t]] /\ pinned'[nextToken] = pin
      /\ \A t \in Tokens \ {nextToken} : pinned'[t] = pinned[t]
  <2>1. pinned = [t \in Tokens |-> pinned[t]]
    BY <1>3 DEF SnapshotTypes
  <2>2. pinned' = [t \in Tokens |-> IF t = nextToken THEN pin ELSE pinned[t]]
    BY <1>3, <2>1
  <2>3. QED BY <1>3, <2>2
<1>6. SnapshotTypes'
  BY <1>3, <1>4, <1>5 DEF SnapshotTypes, source, reader
<1>7. PinsAreGivenOut'
  BY <1>2, <1>3, <1>5, SnapshotAssumption DEF SnapshotInv, PinsAreGivenOut
<1>8. PinnedCaptureStays'
  <2> SUFFICES ASSUME NEW t \in Tokens, pinned'[t] # NoPin
               PROVE  /\ t \in activePins'[pinned'[t].store][pinned'[t].revision]
                      /\ snapshots[pinned'[t].store][pinned'[t].revision] = pinned'[t].capture
    BY <1>3 DEF PinnedCaptureStays
  <2>1. CASE t = nextToken
    BY <1>2, <1>4, <1>5, <2>1
  <2>2. CASE t # nextToken
    <3>1. /\ pinned'[t] = pinned[t]
          /\ t \in activePins[pinned[t].store][pinned[t].revision]
          /\ snapshots[pinned[t].store][pinned[t].revision] = pinned[t].capture
          /\ pinned[t].store \in Stores /\ pinned[t].revision \in Revisions
      BY <1>5, <2>2 DEF SnapshotInv, PinnedCaptureStays, PinsAreGivenOut
    <3>2. QED BY <1>4, <3>1
  <2>3. QED BY <2>1, <2>2
<1>9. QED BY <1>3, <1>6, <1>7, <1>8, ReadingsStand DEF SnapshotInv

\* A token offered to a store takes away its own pin there and no other.
LEMMA UnpinStep ==
  ASSUME SnapshotInv, NEW s \in Stores, NEW u \in Tokens, UnpinSnapshot(s, u)
  PROVE  SnapshotInv'
<1> DEFINE r == pinned[u].revision
<1>1. PICK left : left = IF s = pinned[u].store THEN NoPin ELSE pinned[u]
  OBVIOUS
<1>2. /\ SnapshotTypes /\ UNCHANGED <<source, reader, snapshots, nextToken>>
      /\ pinned[u] # NoPin
      /\ activePins' = [activePins EXCEPT ![s][r] = activePins[s][r] \ {u}]
  BY DEF SnapshotInv, UnpinSnapshot, Without
<1>3. pinned' = [pinned EXCEPT ![u] = left]
  BY <1>1 DEF UnpinSnapshot
<1>4. r \in Revisions /\ pinned[u].store \in Stores
  BY <1>2 DEF SnapshotInv, PinsAreGivenOut
<1> HIDE DEF r
<1>5. /\ activePins' \in [Stores -> [Revisions -> SUBSET Nat]]
      /\ \A x \in Stores, y \in Revisions :
           /\ activePins[x][y] \ {u} \subseteq activePins'[x][y]
           /\ x # s => activePins'[x][y] = activePins[x][y]
  BY <1>2, <1>4 DEF SnapshotTypes
<1>6. /\ pinned' = [t \in Tokens |-> pinned'[t]] /\ pinned'[u] = left
      /\ \A t \in Tokens \ {u} : pinned'[t] = pinned[t]
  <2>1. pinned = [t \in Tokens |-> pinned[t]]
    BY <1>2 DEF SnapshotTypes
  <2>2. pinned' = [t \in Tokens |-> IF t = u THEN left ELSE pinned[t]]
    BY <1>3, <2>1
  <2>3. QED BY <2>2
<1>7. SnapshotTypes'
  BY <1>2, <1>5, <1>6 DEF SnapshotTypes, source, reader
<1>8. \A t \in Tokens : pinned'[t] # NoPin =>
         pinned'[t] = pinned[t] /\ (t = u => pinned[t].store # s)
  BY <1>1, <1>6
<1>9. PinsAreGivenOut'
  BY <1>2, <1>8 DEF SnapshotInv, PinsAreGivenOut
<1>10. PinnedCaptureStays'
  <2> SUFFICES ASSUME NEW t \in Tokens, pinned'[t] # NoPin
               PROVE  /\ t \in activePins'[pinned'[t].store][pinned'[t].revision]
                      /\ snapshots[pinned'[t].store][pinned'[t].revision] = pinned'[t].capture
    BY <1>2 DEF PinnedCaptureStays
  <2>1. /\ pinned'[t] = pinned[t] /\ (t = u => pinned[t].store # s)
        /\ t \in activePins[pinned[t].store][pinned[t].revision]
        /\ snapshots[pinned[t].store][pinned[t].revision] = pinned[t].capture
        /\ pinned[t].store \in Stores /\ pinned[t].revision \in Revisions
    BY <1>8 DEF SnapshotInv, PinnedCaptureStays, PinsAreGivenOut
  <2>2. QED BY <1>5, <2>1
<1>11. QED BY <1>2, <1>7, <1>9, <1>10, ReadingsStand DEF SnapshotInv

\* A store that is cloned into had no captures, so no pins.
LEMMA CloneStep ==
  ASSUME SnapshotInv, NEW s \in Stores, NEW d \in Stores, CloneStore(s, d)
  PROVE  SnapshotInv'
<1>1. /\ SnapshotTypes /\ UNCHANGED <<source, reader, pinned, nextToken>>
      /\ \A r \in Revisions : snapshots[d][r] = NoCapture
      /\ snapshots' = [snapshots EXCEPT ![d] = snapshots[s]]
      /\ activePins' = [activePins EXCEPT ![d] = [r \in Revisions |-> {}]]
  BY DEF SnapshotInv, CloneStore, ClonedPins
<1>2. /\ snapshots' \in [Stores -> [Revisions -> CaptureRecord \cup {NoCapture}]]
      /\ activePins' \in [Stores -> [Revisions -> SUBSET Nat]]
      /\ \A x \in Stores \ {d} : snapshots'[x] = snapshots[x] /\ activePins'[x] = activePins[x]
  BY <1>1 DEF SnapshotTypes
<1>3. SnapshotTypes'
  BY <1>1, <1>2 DEF SnapshotTypes, source, reader
<1>4. PinsAreGivenOut'
  BY <1>1 DEF SnapshotInv, PinsAreGivenOut
<1>5. PinnedCaptureStays'
  <2> SUFFICES ASSUME NEW t \in Tokens, pinned[t] # NoPin
               PROVE  /\ t \in activePins'[pinned[t].store][pinned[t].revision]
                      /\ snapshots'[pinned[t].store][pinned[t].revision] = pinned[t].capture
    BY <1>1 DEF PinnedCaptureStays
  <2>1. /\ t \in activePins[pinned[t].store][pinned[t].revision]
        /\ snapshots[pinned[t].store][pinned[t].revision] = pinned[t].capture
        /\ pinned[t].store \in Stores /\ pinned[t].revision \in Revisions
        /\ pinned[t].capture # NoCapture
    BY DEF SnapshotInv, PinnedCaptureStays, PinsAreGivenOut
  <2>2. pinned[t].store # d
    BY <1>1, <2>1
  <2>3. QED BY <1>2, <2>1, <2>2
<1>6. QED BY <1>1, <1>3, <1>4, <1>5, ReadingsStand DEF SnapshotInv

\* Readings and pins hold together, from the file's first bytes on.
THEOREM SnapshotInvariant == SnapshotSpec => []SnapshotInv
<1>1. SnapshotInit => SnapshotInv
  <2> SUFFICES ASSUME SnapshotInit PROVE SnapshotInv
    OBVIOUS
  <2>1. bytes \in Seq(Nat)
    BY SnapshotAssumption DEF SnapshotInit
  <2>2. pinned = [t \in Tokens |-> pinned[t]] /\ \A t \in Tokens : pinned[t] = NoPin
    BY DEF SnapshotInit
  <2>3. SnapshotTypes
    BY <2>1, <2>2 DEF SnapshotInit, SnapshotTypes
  <2>4. QED BY <2>2, <2>3
    DEF SnapshotInit, SnapshotInv, ReadingIsOfOneVersion, SettledIsOneVersion,
        PinsAreGivenOut, PinnedCaptureStays
<1>2. SnapshotInv /\ [SnapshotNext]_snapshotVars => SnapshotInv'
  <2> SUFFICES ASSUME SnapshotInv, [SnapshotNext]_snapshotVars PROVE SnapshotInv'
    OBVIOUS
  <2>1. CASE SnapshotNext
    BY <2>1, FileWriteStep, ReadStep, SettleStep, InsertStep, SnapshotPinStep, UnpinStep, CloneStep
    DEF SnapshotNext
  <2>2. CASE UNCHANGED snapshotVars
    <3>1. UNCHANGED <<source, reader, snapshots, holds>>
      BY <2>2 DEF snapshotVars
    <3>2. SnapshotTypes'
      BY <3>1 DEF SnapshotInv, SnapshotTypes, source, reader, holds
    <3>3. QED BY <3>1, <3>2, ReadingsStand, HoldsStand DEF SnapshotInv
  <2>3. QED BY <2>1, <2>2
<1>3. QED BY <1>1, <1>2, PTL DEF SnapshotSpec

\* A settled capture is one version of the file, and a pinned capture stays as
\* long as its pin (snapshot.rs, BoundedRetryReader and PinnedSnapshotStore).
THEOREM CapturesStayWhole == SnapshotSpec => []CapturesAreWhole
<1>1. SnapshotInv => CapturesAreWhole
  BY DEF SnapshotInv, CapturesAreWhole
<1>2. QED BY <1>1, SnapshotInvariant, PTL

-----------------------------------------------------------------------------
(***************************************************************************)
(* Reconciliation. What a pass saw of a file is what is there, or the      *)
(* change is on its way to the tracker, or came to it after the pass       *)
(* started. This holds while no two passes overlap.                        *)
(***************************************************************************)

ReconciliationTypes ==
  /\ content \in [Files -> States] /\ recorded \in [Files -> States]
  /\ unreported \subseteq Files /\ falsely \subseteq Files
  /\ sequence \in Nat /\ hints \subseteq Paths \X Nat
  /\ running \subseteq Passes
  /\ scope \in [Passes -> Dirs \cup {Root}] /\ start \in [Passes -> Nat]
  /\ known \in [Passes -> SUBSET Files] /\ looked \in [Passes -> SUBSET Files]
  /\ seen \in [Passes -> [Files -> States]]
  /\ excluded \in [Passes -> SUBSET (Dirs \cup {Root})]

Covers(path, f) == path = f \/ path \in Above[f]

\* What a pass saw of a file is what is there, or the change is on its way to
\* the tracker, or has come to it since the pass started.
SightIsTracked(p, f) ==
  \/ seen[p][f] = content[f]
  \/ f \in unreported
  \/ \E h \in hints : h[2] >= start[p] /\ Covers(h[1], f)

PassInv(p) ==
  /\ start[p] <= sequence
  /\ known[p] = {f \in Files : recorded[f] # Absent /\ Within(f, scope[p])}
  /\ Seen(p) \subseteq looked[p]
  /\ \A f \in looked[p] : Within(f, scope[p]) /\ SightIsTracked(p, f)

ReconciliationInv ==
  /\ ReconciliationTypes
  /\ \A p \in running : PassInv(p)

\* A pass finishes before the next one starts; passes are over everything.
PassesDoNotOverlap == \A p, q \in running : p = q

PassesCoverAll == \A p \in running : scope[p] = Root

-----------------------------------------------------------------------------

\* The ancestors of a path are a chain.
LEMMA AncestorsAreAChain ==
  ASSUME NEW path \in Paths
  PROVE  /\ Above[path] \subseteq Dirs
         /\ \A a, b \in Above[path] : a = b \/ a \in Above[b] \/ b \in Above[a]
BY ReconciliationAssumption DEF Paths

\* A hint that covers a file affects every directory the file is in.
LEMMA CoveringAffects ==
  ASSUME NEW f \in Files, NEW path \in Paths, Covers(path, f),
         NEW d \in Dirs, d \in Above[f]
  PROVE  Affects(path, d)
BY AncestorsAreAChain DEF Covers, Affects, Paths

\* Passes that are running see nothing of what the disk and the watcher do,
\* and lose track of none of it.
LEMMA WatchedStep ==
  ASSUME ReconciliationInv,
         ReconciliationTypes', UNCHANGED <<recorded, pass>>,
         sequence <= sequence', hints \subseteq hints',
         \A f \in Files : content'[f] = content[f] \/ f \in unreported',
         \A f \in unreported \ unreported' :
            \E h \in hints' : h[2] >= sequence /\ Covers(h[1], f)
  PROVE  ReconciliationInv'
<1> SUFFICES ASSUME NEW p \in running PROVE PassInv(p)'
  BY DEF ReconciliationInv, pass
<1>1. /\ PassInv(p) /\ p \in Passes /\ start[p] \in Nat /\ sequence \in Nat
      /\ looked[p] \subseteq Files /\ sequence' \in Nat
      /\ \A h \in hints' : h[2] \in Nat
  BY DEF ReconciliationInv, ReconciliationTypes
<1>2. UNCHANGED <<running, scope, start, known, looked, seen, excluded>>
  BY DEF pass
<1>3. ASSUME NEW f \in looked[p] PROVE SightIsTracked(p, f)'
  <2>1. CASE seen[p][f] = content[f]
    BY <1>1, <1>2, <2>1 DEF SightIsTracked
  <2>2. CASE f \in unreported
    <3>1. f \in unreported' \/ \E h \in hints' : h[2] >= start[p] /\ Covers(h[1], f)
      BY <1>1, <2>2 DEF PassInv
    <3>2. QED BY <1>2, <3>1 DEF SightIsTracked
  <2>3. CASE \E h \in hints : h[2] >= start[p] /\ Covers(h[1], f)
    BY <1>2, <2>3 DEF SightIsTracked
  <2>4. QED BY <1>1, <2>1, <2>2, <2>3 DEF PassInv, SightIsTracked
<1>4. Seen(p)' = Seen(p)
  BY <1>2 DEF Seen
<1>5. QED BY <1>1, <1>2, <1>3, <1>4 DEF PassInv

LEMMA ChangeStep ==
  ASSUME ReconciliationInv, NEW f \in Files, Change(f)
  PROVE  ReconciliationInv'
<1>1. PICK c \in States : content' = [content EXCEPT ![f] = c]
  BY DEF Change
<1>2. /\ unreported' = unreported \cup {f}
      /\ UNCHANGED <<sequence, hints, recorded, running, scope, start, known, looked, seen,
                     excluded, falsely>>
  BY DEF Change, tracker, pass
<1>3. ReconciliationTypes'
  BY <1>1, <1>2 DEF ReconciliationInv, ReconciliationTypes
<1>4. \A g \in Files : content'[g] = content[g] \/ g \in unreported'
  BY <1>1, <1>2 DEF ReconciliationInv, ReconciliationTypes
<1>5. sequence <= sequence'
  BY <1>2 DEF ReconciliationInv, ReconciliationTypes
<1>6. QED BY <1>2, <1>3, <1>4, <1>5, WatchedStep DEF pass

LEMMA RecordHintStep ==
  ASSUME ReconciliationInv, NEW path \in Paths, RecordHint(path)
  PROVE  ReconciliationInv'
<1>1. /\ hints' = hints \cup {<<path, sequence>>} /\ sequence' = sequence + 1
      /\ unreported' = unreported \ {f \in unreported : f = path \/ path \in Above[f]}
      /\ UNCHANGED <<content, recorded, running, scope, start, known, looked, seen,
                     excluded, falsely>>
  BY DEF RecordHint, pass
<1>2. sequence \in Nat
  BY DEF ReconciliationInv, ReconciliationTypes
<1>3. ReconciliationTypes'
  BY <1>1, <1>2 DEF ReconciliationInv, ReconciliationTypes
<1>4. \A f \in unreported \ unreported' :
            \E h \in hints' : h[2] >= sequence /\ Covers(h[1], f)
  <2> SUFFICES ASSUME NEW f \in unreported \ unreported'
               PROVE  \E h \in hints' : h[2] >= sequence /\ Covers(h[1], f)
    OBVIOUS
  <2>1. Covers(path, f)
    BY <1>1 DEF Covers
  <2>2. <<path, sequence>> \in hints' /\ <<path, sequence>>[2] >= sequence
        /\ <<path, sequence>>[1] = path
    BY <1>1, <1>2
  <2>3. QED BY <2>1, <2>2
<1>5. sequence <= sequence' /\ hints \subseteq hints'
  BY <1>1, <1>2
<1>6. QED BY <1>1, <1>3, <1>4, <1>5, WatchedStep DEF pass

-----------------------------------------------------------------------------

LEMMA StartPassStep ==
  ASSUME ReconciliationInv, PassesDoNotOverlap',
         NEW p \in Passes, NEW d \in Scopes, StartPass(p, d)
  PROVE  ReconciliationInv'
<1>1. /\ p \notin running /\ running' = running \cup {p}
      /\ scope' = [scope EXCEPT ![p] = d] /\ start' = [start EXCEPT ![p] = sequence]
      /\ known' = [known EXCEPT ![p] = {f \in Files : recorded[f] # Absent /\ Within(f, d)}]
      /\ looked' = [looked EXCEPT ![p] = {}]
      /\ seen' = [seen EXCEPT ![p] = [f \in Files |-> Absent]]
      /\ excluded' = [excluded EXCEPT ![p] = {}]
      /\ UNCHANGED <<content, unreported, sequence, hints, recorded, falsely>>
  BY DEF StartPass, watched, tracker
<1>2. d \in Dirs \cup {Root} /\ Absent \in States
  BY ReconciliationAssumption DEF States
<1>3. ReconciliationTypes'
  BY <1>1, <1>2 DEF ReconciliationInv, ReconciliationTypes
<1>4. running' \subseteq {p}
  BY <1>1 DEF ReconciliationInv, ReconciliationTypes, PassesDoNotOverlap
<1>5. /\ scope'[p] = d /\ start'[p] = sequence /\ looked'[p] = {}
      /\ known'[p] = {f \in Files : recorded'[f] # Absent /\ Within(f, d)}
      /\ \A f \in Files : seen'[p][f] = Absent
      /\ sequence \in Nat
  BY <1>1 DEF ReconciliationInv, ReconciliationTypes
<1>6. PassInv(p)'
  BY <1>1, <1>5 DEF PassInv, Seen, Within
<1>7. QED BY <1>3, <1>4, <1>6 DEF ReconciliationInv

LEMMA LookStep ==
  ASSUME ReconciliationInv, PassesDoNotOverlap, NEW p \in Passes, NEW f \in Files, Look(p, f)
  PROVE  ReconciliationInv'
<1>1. /\ p \in running /\ Within(f, scope[p])
      /\ looked' = [looked EXCEPT ![p] = @ \cup {f}]
      /\ seen' = [seen EXCEPT ![p][f] = content[f]]
      /\ UNCHANGED <<content, unreported, sequence, hints, recorded, running, scope, start,
                     known, excluded, falsely>>
  BY DEF Look, watched, tracker
<1>2. ReconciliationTypes /\ content[f] \in States
  BY DEF ReconciliationInv, ReconciliationTypes
<1>3. /\ looked' \in [Passes -> SUBSET Files] /\ seen' \in [Passes -> [Files -> States]]
      /\ looked'[p] = looked[p] \cup {f} /\ seen'[p][f] = content[f]
      /\ \A g \in Files \ {f} : seen'[p][g] = seen[p][g]
  BY <1>1, <1>2 DEF ReconciliationTypes
<1>4. ReconciliationTypes'
  BY <1>1, <1>2, <1>3 DEF ReconciliationTypes
<1>5. PassInv(p)
  BY <1>1 DEF ReconciliationInv
<1>6. PassInv(p)'
  <2>1. Seen(p)' \subseteq looked'[p]
    BY <1>3, <1>5 DEF Seen, PassInv
  <2>2. ASSUME NEW g \in looked'[p] PROVE Within(g, scope[p]) /\ SightIsTracked(p, g)'
    <3>1. CASE g = f
      BY <1>1, <1>3, <3>1 DEF SightIsTracked
    <3>2. CASE g # f
      <4>1. g \in looked[p] /\ g \in Files
        BY <1>2, <1>3, <3>2 DEF ReconciliationTypes
      <4>2. QED BY <1>1, <1>3, <1>5, <3>2, <4>1 DEF SightIsTracked, PassInv
    <3>3. QED BY <3>1, <3>2
  <2>3. QED BY <1>1, <1>5, <2>1, <2>2 DEF PassInv, Within
<1>7. \A q \in running' : q = p
  BY <1>1, <1>2 DEF ReconciliationTypes, PassesDoNotOverlap
<1>8. QED BY <1>4, <1>6, <1>7 DEF ReconciliationInv

LEMMA ExcludeStep ==
  ASSUME ReconciliationInv, NEW p \in Passes, NEW d \in Dirs \cup {Root}, Exclude(p, d)
  PROVE  ReconciliationInv'
<1>1. /\ excluded' = [excluded EXCEPT ![p] = @ \cup {d}]
      /\ UNCHANGED <<content, unreported, sequence, hints, recorded, running, scope, start,
                     known, looked, seen, falsely>>
  BY DEF Exclude, watched, tracker
<1>2. ReconciliationTypes'
  BY <1>1 DEF ReconciliationInv, ReconciliationTypes
<1>3. \A q \in running : PassInv(q)'
  BY <1>1 DEF ReconciliationInv, PassInv, SightIsTracked, Seen, Within
<1>4. QED BY <1>1, <1>2, <1>3 DEF ReconciliationInv

\* What a complete pass that was not overtaken saw of a file is what is there,
\* or the watcher has yet to say otherwise.
LEMMA SightIsRight ==
  ASSUME ReconciliationInv, NEW p \in running, NEW f \in looked[p],
         ~HasHintsSince(start[p], scope[p])
  PROVE  seen[p][f] = content[f] \/ f \in unreported
<1>1. /\ PassInv(p) /\ p \in Passes /\ f \in Files /\ scope[p] \in Dirs \cup {Root}
      /\ Within(f, scope[p]) /\ SightIsTracked(p, f)
  BY DEF ReconciliationInv, ReconciliationTypes, PassInv
<1>2. ASSUME NEW h \in hints, h[2] >= start[p], Covers(h[1], f)
      PROVE  FALSE
  <2>1. h[1] \in Paths
    BY DEF ReconciliationInv, ReconciliationTypes
  <2>2. scope[p] # Root => scope[p] \in Dirs /\ scope[p] \in Above[f]
    BY <1>1 DEF Within
  <2>3. scope[p] # Root => Affects(h[1], scope[p])
    BY <1>1, <1>2, <2>1, <2>2, CoveringAffects
  <2>4. QED BY <1>2, <2>3 DEF HasHintsSince
<1>3. QED BY <1>1, <1>2 DEF SightIsTracked

LEMMA FinishFacts ==
  ASSUME ReconciliationInv, NEW p \in Passes, NEW completed \in BOOLEAN,
         FinishPass(p, completed)
  PROVE  /\ p \in running /\ PassInv(p) /\ running' = running \ {p}
         /\ hints' = IF ProvesAbsence(p, completed) THEN {h \in hints : Kept(p, h)} ELSE hints
         /\ UNCHANGED <<content, unreported, sequence, scope, start, known, looked, seen, excluded>>
         /\ Seen(p) \subseteq looked[p] /\ looked[p] \subseteq Files
         /\ \A f \in Files :
              /\ f \in Seen(p) => recorded'[f] = seen[p][f]
              /\ f \notin Seen(p) /\ f \in Tombstoned(p, completed) => recorded'[f] = Absent
              /\ f \notin Seen(p) /\ f \notin Tombstoned(p, completed)
                    => recorded'[f] = recorded[f]
         /\ falsely' = falsely \cup
              {f \in Tombstoned(p, completed) : content[f] # Absent /\ f \notin unreported}
         /\ ReconciliationTypes'
<1>1. /\ p \in running /\ running' = running \ {p}
      /\ hints' = IF ProvesAbsence(p, completed) THEN {h \in hints : Kept(p, h)} ELSE hints
      /\ recorded' = [f \in Files |-> IF f \in Seen(p) THEN seen[p][f]
                         ELSE IF f \in Tombstoned(p, completed) THEN Absent ELSE recorded[f]]
      /\ falsely' = falsely \cup
            {f \in Tombstoned(p, completed) : content[f] # Absent /\ f \notin unreported}
      /\ UNCHANGED <<content, unreported, sequence, scope, start, known, looked, seen, excluded>>
  BY DEF FinishPass, watched
<1>2. ReconciliationTypes /\ PassInv(p) /\ Absent \in States
      /\ Seen(p) \subseteq looked[p] /\ looked[p] \subseteq Files
      /\ Tombstoned(p, completed) \subseteq Files
  BY <1>1 DEF ReconciliationInv, ReconciliationTypes, PassInv, States, Tombstoned
<1>3. recorded' \in [Files -> States]
  BY <1>1, <1>2 DEF ReconciliationTypes
<1>4. hints' \subseteq hints
  BY <1>1
<1>5. ReconciliationTypes'
  BY <1>1, <1>2, <1>3, <1>4 DEF ReconciliationTypes
<1>6. QED BY <1>1, <1>2, <1>5

LEMMA FinishPassStep ==
  ASSUME ReconciliationInv, PassesDoNotOverlap, NEW p \in Passes,
         NEW completed \in BOOLEAN, FinishPass(p, completed)
  PROVE  ReconciliationInv'
<1>1. running' = {} /\ ReconciliationTypes'
  BY FinishFacts DEF ReconciliationInv, ReconciliationTypes, PassesDoNotOverlap
<1>2. QED BY <1>1 DEF ReconciliationInv

\* A file in the scope of a complete pass that no exclusion hides was seen.
LEMMA AbsentWasLooked ==
  ASSUME ReconciliationInv, NEW p \in running, Covered(p),
         NEW f \in Files, Within(f, scope[p]), ~Excludes(p, f)
  PROVE  f \in looked[p]
BY DEF Covered

LEMMA NoFalseTombstoneStep ==
  ASSUME ReconciliationInv, NoFalseTombstone, NEW p \in Passes,
         NEW completed \in BOOLEAN, FinishPass(p, completed)
  PROVE  NoFalseTombstone'
<1>1. /\ p \in running /\ PassInv(p)
      /\ falsely' = falsely \cup
            {f \in Tombstoned(p, completed) : content[f] # Absent /\ f \notin unreported}
  BY FinishFacts
<1>2. ASSUME NEW f \in Tombstoned(p, completed)
      PROVE  content[f] = Absent \/ f \in unreported
  <2>1. /\ f \in known[p] /\ f \notin Seen(p) /\ completed
        /\ ~HasHintsSince(start[p], scope[p]) /\ ~Excludes(p, f)
    BY DEF Tombstoned, ProvesAbsence, Unexcluded
  <2>2. f \in Files /\ Within(f, scope[p]) /\ Covered(p)
    BY <1>1, <2>1 DEF PassInv, FinishPass
  <2>3. f \in looked[p]
    BY <1>1, <2>1, <2>2, AbsentWasLooked
  <2>4. seen[p][f] = Absent
    BY <2>1, <2>2 DEF Seen
  <2>5. QED BY <1>1, <2>1, <2>3, <2>4, SightIsRight
<1>3. QED BY <1>1, <1>2 DEF NoFalseTombstone

\* A pass over everything that proves absence keeps the hints on the files it
\* was kept off, and has the others right.
LEMMA ChangesStayPendingStep ==
  ASSUME ReconciliationInv, ChangesStayPending, NEW p \in Passes,
         scope[p] = Root, NEW completed \in BOOLEAN, FinishPass(p, completed)
  PROVE  ChangesStayPending'
<1> SUFFICES ASSUME NEW f \in Files, recorded'[f] # content[f], f \notin unreported
             PROVE  \E h \in hints' : Affects(h[1], f)
  BY FinishFacts DEF ChangesStayPending, Affects
<1>1. /\ p \in running /\ PassInv(p) /\ f \in Paths
      /\ hints' = IF ProvesAbsence(p, completed) THEN {h \in hints : Kept(p, h)} ELSE hints
      /\ Seen(p) \subseteq looked[p] /\ looked[p] \subseteq Files
      /\ f \in Seen(p) => recorded'[f] = seen[p][f]
      /\ f \notin Seen(p) /\ f \in Tombstoned(p, completed) => recorded'[f] = Absent
      /\ f \notin Seen(p) /\ f \notin Tombstoned(p, completed) => recorded'[f] = recorded[f]
  BY FinishFacts DEF Paths
<1>2. Within(f, scope[p])
  BY DEF Within
<1>3. CASE ~ProvesAbsence(p, completed)
  <2>1. hints' = hints /\ f \notin Tombstoned(p, completed)
    BY <1>1, <1>3 DEF Tombstoned
  <2>2. CASE f \in Seen(p)
    <3>1. SightIsTracked(p, f) /\ seen[p][f] # content[f]
      BY <1>1, <2>2 DEF PassInv
    <3>2. PICK h \in hints : Covers(h[1], f)
      BY <3>1 DEF SightIsTracked
    <3>3. QED BY <2>1, <3>2 DEF Covers, Affects
  <2>3. CASE f \notin Seen(p)
    BY <1>1, <2>1, <2>3 DEF ChangesStayPending
  <2>4. QED BY <2>2, <2>3
<1>4. CASE ProvesAbsence(p, completed)
  <2>1. ~HasHintsSince(start[p], scope[p]) /\ completed /\ Covered(p)
    BY <1>4 DEF ProvesAbsence, FinishPass
  <2>2. f \in looked[p] => seen[p][f] = content[f]
    BY <1>1, <2>1, SightIsRight
  <2>3. f \notin Seen(p)
    BY <1>1, <2>2
  <2>4. Excludes(p, f)
    <3> SUFFICES ASSUME ~Excludes(p, f) PROVE FALSE
      OBVIOUS
    <3>1. f \in looked[p]
      BY <1>1, <1>2, <2>1, AbsentWasLooked
    <3>2. content[f] = Absent
      BY <2>2, <2>3, <3>1 DEF Seen
    <3>3. f \in known[p] => f \in Tombstoned(p, completed)
      BY <1>4, <2>3 DEF Tombstoned, Unexcluded
    <3>4. f \notin known[p] => recorded[f] = Absent
      BY <1>1, <1>2 DEF PassInv
    <3>5. QED BY <1>1, <2>3, <3>2, <3>3, <3>4
  <2>5. recorded'[f] = recorded[f]
    BY <1>1, <2>3, <2>4 DEF Tombstoned, Unexcluded
  <2>6. PICK h \in hints : Affects(h[1], f)
    BY <2>5 DEF ChangesStayPending
  <2>7. h[1] \in Paths /\ excluded[p] \subseteq Dirs \cup {Root}
    BY DEF ReconciliationInv, ReconciliationTypes
  <2>8. f \notin Above[h[1]]
    BY <2>7, AncestorsAreAChain, ReconciliationAssumption
  <2>9. Shields(p, h[1])
    <3>1. CASE Root \in excluded[p]
      BY <3>1 DEF Shields, Excludes
    <3>2. CASE h[1] = f
      BY <2>4, <3>2 DEF Shields
    <3>3. CASE Root \notin excluded[p] /\ h[1] \in Above[f]
      <4>1. PICK d \in excluded[p] : d \in Above[f] \cup {f}
        BY <2>4, <3>3 DEF Excludes
      <4>2. d \in Dirs
        BY <2>7, <3>3
      <4>3. d \in Above[f]
        BY <4>1, <4>2, ReconciliationAssumption
      <4>4. d = h[1] \/ d \in Above[h[1]] \/ h[1] \in Above[d]
        BY <1>1, <3>3, <4>3, AncestorsAreAChain
      <4>5. QED BY <4>1, <4>2, <4>4 DEF Shields, Excludes
    <3>4. QED BY <2>6, <2>8, <3>1, <3>2, <3>3 DEF Affects
  <2>10. h \in hints'
    BY <1>1, <1>4, <2>9 DEF Kept
  <2>11. QED BY <2>6, <2>10
<1>5. QED BY <1>3, <1>4

\* As long as passes do not overlap, each keeps track of what it saw.
THEOREM ReconciliationInvariant ==
  ReconciliationSpec /\ []PassesDoNotOverlap => []ReconciliationInv
<1>1. ReconciliationInit => ReconciliationInv
  <2> SUFFICES ASSUME ReconciliationInit PROVE ReconciliationInv
    OBVIOUS
  <2>1. Absent \in States /\ {} \in SUBSET Files /\ {} \in SUBSET (Dirs \cup {Root})
    BY DEF States
  <2>2. ReconciliationTypes
    BY <2>1 DEF ReconciliationInit, ReconciliationTypes
  <2>3. QED BY <2>2 DEF ReconciliationInit, ReconciliationInv
<1>2. /\ ReconciliationInv /\ PassesDoNotOverlap /\ PassesDoNotOverlap'
      /\ [ReconciliationNext]_reconciliationVars
      => ReconciliationInv'
  <2> SUFFICES ASSUME ReconciliationInv, PassesDoNotOverlap, PassesDoNotOverlap',
                      [ReconciliationNext]_reconciliationVars
               PROVE  ReconciliationInv'
    OBVIOUS
  <2>1. CASE ReconciliationNext
    BY <2>1, ChangeStep, RecordHintStep, StartPassStep, LookStep, ExcludeStep, FinishPassStep
    DEF ReconciliationNext
  <2>2. CASE UNCHANGED reconciliationVars
    <3>1. UNCHANGED <<content, unreported, sequence, hints, recorded, running, scope, start,
                      known, looked, seen, excluded, falsely>>
      BY <2>2 DEF reconciliationVars, watched, tracker, pass
    <3>2. QED BY <3>1 DEF ReconciliationInv, ReconciliationTypes, PassInv, SightIsTracked,
                          Seen, Within
  <2>3. QED BY <2>1, <2>2
<1>3. QED BY <1>1, <1>2, PTL DEF ReconciliationSpec

\* A file is reported gone only when it is, or its return is still to be
\* reported, whatever directories are passed over (reconciliation.rs, finish).
THEOREM TombstonesAreTrue ==
  ReconciliationSpec /\ []PassesDoNotOverlap => []NoFalseTombstone
<1>1. ReconciliationInit => NoFalseTombstone
  BY DEF ReconciliationInit, NoFalseTombstone
<1>2. ReconciliationInv /\ NoFalseTombstone /\ [ReconciliationNext]_reconciliationVars
        => NoFalseTombstone'
  <2> SUFFICES ASSUME ReconciliationInv, NoFalseTombstone,
                      [ReconciliationNext]_reconciliationVars
               PROVE  NoFalseTombstone'
    OBVIOUS
  <2>1. CASE \E p \in Passes, completed \in BOOLEAN : FinishPass(p, completed)
    BY <2>1, NoFalseTombstoneStep
  <2>2. CASE UNCHANGED falsely
    BY <2>2 DEF NoFalseTombstone
  <2>3. QED
    BY <2>1, <2>2 DEF ReconciliationNext, Change, RecordHint, StartPass, Look, Exclude,
                      reconciliationVars
<1>3. QED BY <1>1, <1>2, ReconciliationInvariant, PTL DEF ReconciliationSpec

\* No change is lost and no absence misreported while passes over everything
\* follow one another (reconciliation.rs, exclusion_affects_hint and finish).
THEOREM NothingStaysMisreported ==
  ReconciliationSpec /\ []PassesDoNotOverlap /\ []PassesCoverAll => []NothingIsMisreported
<1>1. ReconciliationInit => ChangesStayPending
  BY DEF ReconciliationInit, ChangesStayPending
<1>2. /\ ReconciliationInv /\ PassesCoverAll /\ ChangesStayPending
      /\ [ReconciliationNext]_reconciliationVars
      => ChangesStayPending'
  <2> SUFFICES ASSUME ReconciliationInv, PassesCoverAll, ChangesStayPending,
                      [ReconciliationNext]_reconciliationVars
               PROVE  ChangesStayPending'
    OBVIOUS
  <2>1. CASE \E p \in Passes, completed \in BOOLEAN : FinishPass(p, completed)
    <3>1. PICK p \in Passes, completed \in BOOLEAN : FinishPass(p, completed)
      BY <2>1
    <3>2. p \in running /\ scope[p] = Root
      BY <3>1, FinishFacts DEF PassesCoverAll
    <3>3. QED BY <3>1, <3>2, ChangesStayPendingStep
  <2>2. CASE \E f \in Files : Change(f)
    <3>1. PICK f \in Files : Change(f)
      BY <2>2
    <3>2. PICK c : content' = [content EXCEPT ![f] = c]
      BY <3>1 DEF Change
    <3>3. /\ unreported' = unreported \cup {f}
          /\ UNCHANGED <<hints, recorded, running, scope>>
      BY <3>1 DEF Change, tracker, pass
    <3>4. \A g \in Files \ {f} : content'[g] = content[g]
      BY <3>2 DEF ReconciliationInv, ReconciliationTypes
    <3>5. QED BY <3>3, <3>4 DEF ChangesStayPending, Affects
  <2>3. CASE \E path \in Paths : RecordHint(path)
    <3>1. PICK path \in Paths : RecordHint(path)
      BY <2>3
    <3>2. /\ hints' = hints \cup {<<path, sequence>>}
          /\ unreported' = unreported \ {f \in unreported : f = path \/ path \in Above[f]}
          /\ UNCHANGED <<content, recorded, running, scope>>
      BY <3>1 DEF RecordHint, pass
    <3>3. ASSUME NEW f \in Files, f \in unreported, f \notin unreported'
          PROVE  \E h \in hints' : Affects(h[1], f)
      <4>1. <<path, sequence>> \in hints' /\ <<path, sequence>>[1] = path /\ Affects(path, f)
        BY <3>2, <3>3 DEF Affects
      <4>2. QED BY <4>1
    <3>4. QED BY <3>2, <3>3 DEF ChangesStayPending, Affects
  <2>4. CASE \E p \in Passes, d \in Scopes : StartPass(p, d)
    BY <2>4 DEF StartPass, watched, tracker, ChangesStayPending, Affects, ReconciliationInv,
                ReconciliationTypes
  <2>5. CASE UNCHANGED <<content, unreported, hints, recorded, running, scope>>
    BY <2>5 DEF ChangesStayPending, Affects
  <2>6. QED
    BY <2>1, <2>2, <2>3, <2>4, <2>5 DEF ReconciliationNext, Look, Exclude,
       reconciliationVars, watched, tracker, pass
<1>3. NoFalseTombstone /\ ChangesStayPending => NothingIsMisreported
  BY DEF NothingIsMisreported
<1>4. QED BY <1>1, <1>2, <1>3, ReconciliationInvariant, TombstonesAreTrue, PTL
          DEF ReconciliationSpec

-----------------------------------------------------------------------------
(***************************************************************************)
(* The shell of the interface. The palette returns to the focus it opened  *)
(* on, a pane keeps its number and what it shows, and leaving with Escape  *)
(* never goes on for ever.                                                 *)
(***************************************************************************)

PaneRecord ==
  [id : Nat, file : Documents, revision : Captures \cup {Uncaptured}, pinned : {TRUE, FALSE}]

PanesAreNumbered == \A i \in DOMAIN panes : panes[i].id < nextPane

PanesInv ==
  /\ panes \in Seq(PaneRecord) /\ nextPane \in Nat
  /\ PanesAreCoherent /\ PanesAreNumbered

\* What the palette opened on is what closing it returns to.
OriginIsNext ==
  origin # Nothing => palette /\ focus = Palette /\ stack # <<>> /\ Last(stack) = origin

FocusInv ==
  /\ focus \in Surfaces /\ stack \in Seq(Surfaces) /\ palette \in {TRUE, FALSE}
  /\ OriginIsNext

ShellInv ==
  /\ PanesInv /\ FocusInv
  /\ selectedFile \in Documents \cup {Nothing} /\ queue \in Seq(Events)

\* The pane at a place is there after the step.
Stays(i) ==
  \E j \in DOMAIN panes' :
    /\ panes'[j].id = panes[i].id
    /\ panes'[j].file = panes[i].file /\ panes'[j].revision = panes[i].revision

-----------------------------------------------------------------------------
(* Panes.                                                                  *)

LEMMA LeastNumber ==
  ASSUME NEW S \in SUBSET Nat, S # {}
  PROVE  \E m \in S : \A n \in S : m <= n
<1> DEFINE less == {ss \in Nat \X Nat : ss[1] < ss[2]}
<1>1. IsWellFoundedOn(less, Nat)
  BY NatLessThanWellFounded, Zenon DEF OpToRel
<1>2. PICK m \in S : \A n \in S : <<n, m>> \notin less
  <2> HIDE DEF less
  <2>1. QED BY <1>1, WFMin
<1>3. ASSUME NEW n \in S, ~(m <= n) PROVE FALSE
  <2>1. <<n, m>> \in less
    BY <1>3
  <2>2. QED BY <1>2, <2>1
<1>4. QED BY <1>2, <1>3

LEMMA PaneFacts ==
  ASSUME PanesInv
  PROVE  /\ Len(panes) \in Nat /\ DOMAIN panes = 1 .. Len(panes)
         /\ panes = <<>> <=> Len(panes) = 0
         /\ \A i \in DOMAIN panes : /\ panes[i] \in PaneRecord /\ panes[i].id \in Ids
                                    /\ IndexOf(panes[i].id) = i /\ Pane(panes[i].id) = panes[i]
         /\ \A id \in Ids : /\ IndexOf(id) \in DOMAIN panes /\ panes[IndexOf(id)].id = id
                            /\ Pane(id) = panes[IndexOf(id)]
<1>1. Len(panes) \in Nat /\ DOMAIN panes = 1 .. Len(panes) /\ panes \in Seq(PaneRecord)
  BY LenProperties DEF PanesInv
<1>2. panes = <<>> <=> Len(panes) = 0
  BY <1>1, EmptySeq
<1>3. \A i \in DOMAIN panes : panes[i] \in PaneRecord
  BY <1>1, ElementOfSeq
<1>4. \A id \in Ids : IndexOf(id) \in DOMAIN panes /\ panes[IndexOf(id)].id = id
  <2>1. \A id \in Ids : \E i \in DOMAIN panes : panes[i].id = id
    BY DEF Ids
  <2>2. QED BY <2>1 DEF IndexOf
<1>5. \A i \in DOMAIN panes : panes[i].id \in Ids
  BY DEF Ids
<1>6. \A i \in DOMAIN panes : IndexOf(panes[i].id) = i
  BY <1>4, <1>5 DEF PanesInv, PanesAreCoherent
<1>7. \A id : Pane(id) = panes[IndexOf(id)]
  BY DEF Pane
<1>8. QED BY <1>1, <1>2, <1>3, <1>4, <1>5, <1>6, <1>7

LEMMA PanesRest ==
  ASSUME PanesInv, panes' = panes, nextPane' = nextPane, lensOpen' = lensOpen
  PROVE  PanesInv' /\ \A i \in DOMAIN panes : Stays(i)
BY DEF PanesInv, PanesAreCoherent, PanesAreNumbered, Stays

LEMMA PaneOpens ==
  ASSUME PanesInv, NEW f \in Documents, NEW r \in Captures \cup {Uncaptured}, OpenPane(f, r)
  PROVE  PanesInv' /\ \A i \in DOMAIN panes : Stays(i)
<1>1. CASE Showing(f, r) # {}
  <2>1. panes' = panes /\ nextPane' = nextPane /\ lensOpen' = TRUE
    BY <1>1 DEF OpenPane
  <2>2. panes # <<>>
    <3>1. PICK id \in Ids : TRUE
      BY <1>1 DEF Showing
    <3>2. QED BY <3>1, PaneFacts DEF Ids
  <2>3. lensOpen <=> lensOpen'
    BY <2>1, <2>2 DEF PanesInv, PanesAreCoherent
  <2>4. QED BY <2>1, <2>2, <2>3 DEF PanesInv, PanesAreCoherent, PanesAreNumbered, Stays
<1>2. CASE Showing(f, r) = {}
  <2>1. PICK n \in Nat : n = nextPane
    BY DEF PanesInv
  <2>2. PICK rec : rec = [id |-> n, file |-> f, revision |-> r, pinned |-> FALSE]
    OBVIOUS
  <2>3. rec \in PaneRecord /\ rec.id = n /\ rec.file = f /\ rec.revision = r
    BY <2>2 DEF PaneRecord
  <2>4. panes' = Append(panes, rec) /\ nextPane' = n + 1 /\ lensOpen' = TRUE
    BY <1>2, <2>1, <2>2 DEF OpenPane
  <2>5. PICK l \in Nat : l = Len(panes) /\ DOMAIN panes = 1 .. l
    BY PaneFacts
  <2>6. /\ panes' \in Seq(PaneRecord) /\ Len(panes') = l + 1
        /\ \A i \in 1 .. l : panes'[i] = panes[i]
        /\ panes'[l + 1] = rec
    BY <2>3, <2>4, <2>5, AppendProperties DEF PanesInv
  <2>7. DOMAIN panes' = 1 .. (l + 1) /\ panes' # <<>>
    BY <2>5, <2>6, LenProperties, EmptySeq
  <2>8. \A i \in 1 .. l : panes[i].id \in Nat /\ panes[i].id < n
    <3>1. \A p \in PaneRecord : p.id \in Nat
      BY DEF PaneRecord
    <3>2. QED BY <2>1, <2>5, <3>1, PaneFacts DEF PanesInv, PanesAreNumbered
  <2>9. \A i \in 1 .. l : ~(panes[i].file = f /\ panes[i].revision = r)
    BY <1>2, <2>5, PaneFacts DEF Showing
  <2>10. \A i, j \in 1 .. (l + 1) :
           panes'[i].id = panes'[j].id
             \/ (panes'[i].file = panes'[j].file /\ panes'[i].revision = panes'[j].revision)
           => i = j
    <3>1. \A i, j \in 1 .. l :
            panes[i].id = panes[j].id
              \/ (panes[i].file = panes[j].file /\ panes[i].revision = panes[j].revision)
            => i = j
      BY <2>5 DEF PanesInv, PanesAreCoherent
    <3>2. \A i \in 1 .. l : panes[i].id # rec.id
                            /\ ~(panes[i].file = rec.file /\ panes[i].revision = rec.revision)
      BY <2>3, <2>8, <2>9
    <3>3. \A i \in 1 .. (l + 1) : i \in 1 .. l \/ i = l + 1
      BY <2>5
    <3>4. QED BY <2>6, <3>1, <3>2, <3>3
  <2>11. PanesAreNumbered'
    <3>1. \A i \in 1 .. (l + 1) : panes'[i].id < n + 1
      <4>1. \A i \in 1 .. (l + 1) : i \in 1 .. l \/ i = l + 1
        BY <2>5
      <4>2. QED BY <2>3, <2>6, <2>8, <4>1
    <3>2. QED BY <2>4, <2>7, <3>1 DEF PanesAreNumbered
  <2>12. PanesAreCoherent'
    BY <2>4, <2>7, <2>10 DEF PanesAreCoherent
  <2>13. PanesInv'
    BY <2>1, <2>4, <2>6, <2>11, <2>12 DEF PanesInv
  <2>14. \A i \in DOMAIN panes : Stays(i)
    BY <2>5, <2>6, <2>7 DEF Stays
  <2>15. QED BY <2>13, <2>14
<1>3. QED BY <1>1, <1>2

LEMMA WithoutPlace ==
  ASSUME NEW S, NEW s \in Seq(S), NEW k \in 1 .. Len(s)
  PROVE  /\ Remove(s, k) \in Seq(S) /\ Len(Remove(s, k)) = Len(s) - 1
         /\ \A i \in 1 .. (Len(s) - 1) : Remove(s, k)[i] = IF i < k THEN s[i] ELSE s[i + 1]
<1>1. PICK n \in Nat : n = Len(s)
  BY LenProperties
<1>2. PICK a : a = k - 1
  OBVIOUS
<1>3. PICK b : b = k + 1
  OBVIOUS
<1>4. k \in 1 .. n /\ a \in Int /\ b \in Int /\ n \in Int
  BY <1>1, <1>2, <1>3
<1>5. /\ SubSeq(s, 1, a) \in Seq(S)
      /\ Len(SubSeq(s, 1, a)) = IF 1 <= a THEN a - 1 + 1 ELSE 0
      /\ \A i \in 1 .. a - 1 + 1 : SubSeq(s, 1, a)[i] = s[1 + i - 1]
  <2>1. \A i \in 1 .. a : s[i] \in S
    BY <1>1, <1>2, <1>4, ElementOfSeq
  <2>2. QED BY <1>4, <2>1, SubSeqProperties
<1>6. /\ SubSeq(s, b, n) \in Seq(S)
      /\ Len(SubSeq(s, b, n)) = IF b <= n THEN n - b + 1 ELSE 0
      /\ \A i \in 1 .. n - b + 1 : SubSeq(s, b, n)[i] = s[b + i - 1]
  <2>1. \A i \in b .. n : s[i] \in S
    BY <1>1, <1>3, <1>4, ElementOfSeq
  <2>2. QED BY <1>4, <2>1, SubSeqProperties
<1>7. PICK p \in Seq(S), q \in Seq(S) : p = SubSeq(s, 1, a) /\ q = SubSeq(s, b, n)
  BY <1>5, <1>6
<1>8. Len(p) = a /\ Len(q) = n - k
  BY <1>2, <1>3, <1>4, <1>5, <1>6, <1>7
<1>9. /\ Remove(s, k) \in Seq(S)
      /\ Len(Remove(s, k)) = Len(p) + Len(q)
      /\ \A i \in 1 .. Len(p) + Len(q) :
           Remove(s, k)[i] = IF i <= Len(p) THEN p[i] ELSE q[i - Len(p)]
  <2>1. Remove(s, k) = p \o q
    BY <1>1, <1>2, <1>3, <1>7 DEF Remove
  <2>2. QED BY <2>1, ConcatProperties, ZenonT(40)
<1>10. ASSUME NEW i \in 1 .. (n - 1)
       PROVE  Remove(s, k)[i] = IF i < k THEN s[i] ELSE s[i + 1]
  <2>1. Remove(s, k)[i] = IF i <= a THEN p[i] ELSE q[i - a]
    <3>1. i \in 1 .. Len(p) + Len(q)
      BY <1>2, <1>4, <1>8
    <3>2. QED BY <1>8, <1>9, <3>1
  <2>2. CASE i < k
    <3>1. i <= a /\ i \in 1 .. a - 1 + 1 /\ 1 + i - 1 = i
      BY <1>2, <1>4, <2>2
    <3>2. QED BY <1>5, <1>7, <2>1, <2>2, <3>1
  <2>3. CASE ~(i < k)
    <3>1. ~(i <= a) /\ (i - a) \in 1 .. n - b + 1 /\ b + (i - a) - 1 = i + 1
      BY <1>2, <1>3, <1>4, <2>3
    <3>2. q[i - a] = s[i + 1]
      BY <1>6, <1>7, <3>1
    <3>3. QED BY <2>1, <2>3, <3>1, <3>2
  <2>4. QED BY <2>2, <2>3
<1>11. Len(Remove(s, k)) = Len(s) - 1
  BY <1>1, <1>2, <1>4, <1>8, <1>9
<1>12. QED BY <1>1, <1>9, <1>10, <1>11

\* Only the pane that is closed goes.
LEMMA PaneCloses ==
  ASSUME PanesInv, NEW id \in Ids, ClosePane(id)
  PROVE  /\ PanesInv' /\ Len(panes') = Len(panes) - 1
         /\ panes' = <<>> <=> Len(panes') = 0
         /\ \A i \in DOMAIN panes :
              IF panes[i].id = id THEN \A j \in DOMAIN panes' : panes'[j].id # id ELSE Stays(i)
<1>1. PICK l, k : l = Len(panes) /\ k = IndexOf(id)
  OBVIOUS
<1>0. l \in Nat /\ k \in 1 .. l
  BY <1>1, PaneFacts
<1>2. DOMAIN panes = 1 .. l /\ panes[k].id = id /\ panes \in Seq(PaneRecord)
  BY <1>0, <1>1, PaneFacts DEF PanesInv
<1>3. panes' = Remove(panes, k) /\ lensOpen' = (panes' # <<>>) /\ nextPane' = nextPane
  BY <1>0, <1>1 DEF ClosePane, PanesWithout
<1>4. /\ panes' \in Seq(PaneRecord) /\ Len(panes') = l - 1
      /\ \A i \in 1 .. (l - 1) : panes'[i] = IF i < k THEN panes[i] ELSE panes[i + 1]
  BY <1>0, <1>1, <1>2, <1>3, WithoutPlace
<1>5. DOMAIN panes' = 1 .. (l - 1) /\ (panes' = <<>> <=> Len(panes') = 0)
  BY <1>4, LenProperties, EmptySeq
<1>6. \A j \in 1 .. (l - 1) : \E i \in 1 .. l :
        i # k /\ panes'[j] = panes[i] /\ i = IF j < k THEN j ELSE j + 1
  BY <1>0, <1>1, <1>4
<1>7. \A i \in 1 .. l : i # k => \E j \in 1 .. (l - 1) : panes'[j] = panes[i]
  <2>1. ASSUME NEW i \in 1 .. l, i # k PROVE \E j \in 1 .. (l - 1) : panes'[j] = panes[i]
    <3>1. CASE i < k
      <4>1. i \in 1 .. (l - 1)
        BY <1>0, <1>1, <3>1
      <4>2. QED BY <1>4, <3>1, <4>1
    <3>2. CASE ~(i < k)
      <4>1. PICK j \in 1 .. (l - 1) : j + 1 = i
        BY <1>0, <1>1, <2>1, <3>2
      <4>2. ~(j < k)
        BY <1>0, <1>1, <2>1, <3>2, <4>1
      <4>3. panes'[j] = panes[i]
        BY <1>4, <4>1, <4>2
      <4>4. QED BY <4>3
    <3>3. QED BY <3>1, <3>2
  <2>2. QED BY <2>1
<1>8. \A i, j \in 1 .. l :
        panes[i].id = panes[j].id
          \/ (panes[i].file = panes[j].file /\ panes[i].revision = panes[j].revision)
        => i = j
  BY <1>2 DEF PanesInv, PanesAreCoherent
<1>9. PanesAreNumbered'
  BY <1>2, <1>3, <1>5, <1>6 DEF PanesInv, PanesAreNumbered
<1>10. PanesAreCoherent'
  <2>1. ASSUME NEW x \in 1 .. (l - 1), NEW y \in 1 .. (l - 1),
               panes'[x].id = panes'[y].id
                 \/ (panes'[x].file = panes'[y].file /\ panes'[x].revision = panes'[y].revision)
        PROVE  x = y
    <3>1. PICK i \in 1 .. l : panes'[x] = panes[i] /\ i = IF x < k THEN x ELSE x + 1
      BY <1>6
    <3>2. PICK j \in 1 .. l : panes'[y] = panes[j] /\ j = IF y < k THEN y ELSE y + 1
      BY <1>6
    <3>3. i = j
      BY <1>8, <2>1, <3>1, <3>2
    <3>4. QED BY <1>0, <1>1, <3>1, <3>2, <3>3
  <2>2. QED BY <1>3, <1>5, <2>1 DEF PanesAreCoherent
<1>11. PanesInv'
  BY <1>3, <1>4, <1>9, <1>10 DEF PanesInv
<1>12. ASSUME NEW i \in 1 .. l, panes[i].id = id
       PROVE  \A j \in DOMAIN panes' : panes'[j].id # id
  <2>1. \A m \in 1 .. l : m # k => panes[m].id # id
    BY <1>0, <1>2, <1>8
  <2>2. QED BY <1>5, <1>6, <2>1
<1>13. ASSUME NEW i \in 1 .. l, panes[i].id # id PROVE Stays(i)
  BY <1>2, <1>5, <1>7, <1>13 DEF Stays
<1>14. QED BY <1>0, <1>1, <1>2, <1>4, <1>5, <1>11, <1>12, <1>13

LEMMA PinToggles ==
  ASSUME PanesInv, NEW id \in Ids,
         panes' = [panes EXCEPT ![IndexOf(id)].pinned = ~@],
         nextPane' = nextPane, lensOpen' = lensOpen
  PROVE  PanesInv' /\ \A i \in DOMAIN panes : Stays(i)
<1>1. PICK l, k : l = Len(panes) /\ k = IndexOf(id)
  OBVIOUS
<1>0. l \in Nat /\ k \in 1 .. l
  BY <1>1, PaneFacts
<1>2. DOMAIN panes = 1 .. l /\ panes \in Seq(PaneRecord)
      /\ \A i \in 1 .. l : panes[i] \in PaneRecord
  BY <1>0, <1>1, PaneFacts DEF PanesInv
<1>3. DOMAIN panes' = 1 .. l /\ panes' = [panes EXCEPT ![k] = [panes[k] EXCEPT !.pinned = ~@]]
  BY <1>0, <1>1, <1>2
<1>4. /\ [panes[k] EXCEPT !.pinned = ~@] \in PaneRecord
      /\ [panes[k] EXCEPT !.pinned = ~@].id = panes[k].id
      /\ [panes[k] EXCEPT !.pinned = ~@].file = panes[k].file
      /\ [panes[k] EXCEPT !.pinned = ~@].revision = panes[k].revision
  <2>1. PICK p \in PaneRecord : p = panes[k]
    BY <1>0, <1>2
  <2>2. PICK v \in {TRUE, FALSE} : v = ~p.pinned
    BY Zenon DEF PaneRecord
  <2>3. [p EXCEPT !.pinned = v] \in PaneRecord
    BY <2>1, <2>2 DEF PaneRecord
  <2>4. /\ [p EXCEPT !.pinned = v].id = p.id /\ [p EXCEPT !.pinned = v].file = p.file
        /\ [p EXCEPT !.pinned = v].revision = p.revision
    BY <2>1 DEF PaneRecord
  <2>5. [panes[k] EXCEPT !.pinned = ~@] = [p EXCEPT !.pinned = v]
    BY <2>1, <2>2
  <2>6. QED BY <2>1, <2>3, <2>4, <2>5
<1>5. panes' \in Seq(PaneRecord)
  BY <1>0, <1>1, <1>2, <1>3, <1>4, ExceptSeq
<1>6. \A i \in 1 .. l : /\ panes'[i].id = panes[i].id /\ panes'[i].file = panes[i].file
                        /\ panes'[i].revision = panes[i].revision
  BY <1>0, <1>1, <1>2, <1>3, <1>4
<1>7. panes # <<>> /\ panes' # <<>>
  BY <1>0, <1>1, <1>2, <1>3
<1>8. PanesAreCoherent' /\ PanesAreNumbered'
  BY <1>2, <1>3, <1>6, <1>7 DEF PanesInv, PanesAreCoherent, PanesAreNumbered
<1>9. QED BY <1>2, <1>3, <1>5, <1>6, <1>8 DEF PanesInv, Stays

-----------------------------------------------------------------------------
(* Focus and its return stack.                                             *)

LEMMA SurfaceFacts ==
  /\ Palette \in Surfaces /\ Lens \in Surfaces /\ Len(Plain) \in Nat \ {0}
  /\ DOMAIN Plain = 1 .. Len(Plain) /\ \A i \in DOMAIN Plain : Plain[i] \in Surfaces
  /\ StackCapacity \in Nat \ {0} /\ QueueCapacity \in Nat \ {0}
BY ShellAssumption, LenProperties, EmptySeq DEF Surfaces

\* What the stack holds after a surface is put on it.
Piled(s, f) == Append(IF Len(s) >= StackCapacity THEN Tail(s) ELSE s, f)

LEMMA Piling ==
  ASSUME NEW s \in Seq(Surfaces), NEW f \in Surfaces
  PROVE  /\ Piled(s, f) \in Seq(Surfaces) /\ Piled(s, f) # <<>>
         /\ Last(Piled(s, f)) = f
<1>1. Len(s) \in Nat /\ (s = <<>> <=> Len(s) = 0)
  BY LenProperties, EmptySeq
<1>2. PICK t \in Seq(Surfaces) : t = IF Len(s) >= StackCapacity THEN Tail(s) ELSE s
  <2>1. Len(s) >= StackCapacity => s # <<>>
    BY <1>1, SurfaceFacts
  <2>2. s # <<>> => Tail(s) \in Seq(Surfaces)
    BY HeadTailProperties
  <2>3. QED BY <2>1, <2>2
<1>3. /\ Append(t, f) \in Seq(Surfaces) /\ Len(Append(t, f)) = Len(t) + 1
      /\ Append(t, f)[Len(t) + 1] = f /\ Append(t, f) # <<>>
  BY AppendProperties
<1>4. QED BY <1>2, <1>3 DEF Piled, Last

LEMMA Unpiling ==
  ASSUME NEW s \in Seq(Surfaces), s # <<>>
  PROVE  /\ Last(s) \in Surfaces /\ Front(s) \in Seq(Surfaces)
         /\ Len(Front(s)) = Len(s) - 1 /\ Len(s) \in Nat
<1>1. PICK n \in Nat : n = Len(s) /\ n # 0
  BY LenProperties, EmptySeq
<1>2. s[n] \in Surfaces
  BY <1>1, ElementOfSeq
<1>3. PICK a \in Int : a = n - 1
  BY <1>1
<1>4. \A i \in 1 .. a : s[i] \in Surfaces
  BY <1>1, <1>3, ElementOfSeq
<1>5. /\ SubSeq(s, 1, a) \in Seq(Surfaces)
      /\ Len(SubSeq(s, 1, a)) = IF 1 <= a THEN a - 1 + 1 ELSE 0
  BY <1>4, SubSeqProperties, 1 \in Int
<1>6. QED BY <1>1, <1>2, <1>3, <1>5 DEF Last, Front

\* What a step keeps of the focus, and does with what the palette opened on.
LEMMA FocusRests ==
  ASSUME FocusInv, focus' = focus, stack' = stack, origin' = origin, palette' = palette
  PROVE  FocusInv' /\ PaletteReturns
BY DEF FocusInv, OriginIsNext, PaletteReturns

LEMMA FocusLetsGo ==
  ASSUME FocusInv, focus' \in Surfaces, stack' \in Seq(Surfaces), origin' = Nothing,
         palette' = palette
  PROVE  FocusInv' /\ PaletteReturns
BY DEF FocusInv, OriginIsNext, PaletteReturns

LEMMA FocusMoves ==
  ASSUME FocusInv, NEW to \in Surfaces, SetFocus(to), palette' = palette
  PROVE  FocusInv' /\ PaletteReturns
<1>1. CASE to = focus
  BY <1>1, FocusRests DEF SetFocus, Pushed
<1>2. CASE to # focus
  <2>1. stack' = Piled(stack, focus) /\ focus' = to /\ origin' = Nothing
    BY <1>2 DEF SetFocus, Pushed, Piled
  <2>2. stack' \in Seq(Surfaces)
    BY <2>1, Piling DEF FocusInv
  <2>3. QED BY <2>1, <2>2, FocusLetsGo
<1>3. QED BY <1>1, <1>2

\* The focus that returns leaves one surface less behind it.
LEMMA FocusGoesBack ==
  ASSUME FocusInv, ReturnFocus
  PROVE  /\ focus' \in Surfaces /\ stack' \in Seq(Surfaces)
         /\ Len(stack') \in Nat /\ Len(stack) \in Nat
         /\ stack = <<>> => stack' = stack /\ focus' = focus /\ origin' = origin
         /\ stack # <<>> => /\ Len(stack') = Len(stack) - 1 /\ focus' = Last(stack)
                            /\ origin' = Nothing
<1>1. Len(stack) \in Nat /\ stack \in Seq(Surfaces) /\ focus \in Surfaces
  BY LenProperties DEF FocusInv
<1>2. CASE stack = <<>>
  BY <1>1, <1>2 DEF ReturnFocus, focusVars
<1>3. CASE stack # <<>>
  <2>1. stack' = Front(stack) /\ focus' = Last(stack) /\ origin' = Nothing
    BY <1>3 DEF ReturnFocus
  <2>2. Last(stack) \in Surfaces /\ Front(stack) \in Seq(Surfaces)
        /\ Len(Front(stack)) = Len(stack) - 1
    BY <1>1, <1>3, Unpiling
  <2>3. Len(stack') \in Nat
    BY <2>1, <2>2, LenProperties
  <2>4. QED BY <1>1, <1>3, <2>1, <2>2, <2>3
<1>4. QED BY <1>2, <1>3

LEMMA FocusReturns ==
  ASSUME FocusInv, ReturnFocus, palette' = palette
  PROVE  FocusInv' /\ PaletteReturns
<1>1. CASE stack = <<>>
  BY <1>1, FocusGoesBack, FocusRests
<1>2. CASE stack # <<>>
  BY <1>2, FocusGoesBack, FocusLetsGo
<1>3. QED BY <1>1, <1>2

LEMMA PaletteOpens ==
  ASSUME FocusInv, OpenSearchPalette
  PROVE  FocusInv' /\ PaletteReturns
<1>1. CASE palette
  BY <1>1, FocusRests DEF OpenSearchPalette
<1>2. CASE ~palette /\ focus = Palette
  <2>1. focus' = Palette /\ stack' = stack /\ origin' = Nothing /\ palette' = TRUE
    BY <1>2 DEF OpenSearchPalette, Pushed
  <2>2. QED BY <1>2, <2>1, SurfaceFacts DEF FocusInv, OriginIsNext, PaletteReturns
<1>3. CASE ~palette /\ focus # Palette
  <2>1. /\ focus' = Palette /\ stack' = Piled(stack, focus) /\ origin' = focus
        /\ palette' = TRUE
    BY <1>3 DEF OpenSearchPalette, Pushed, Piled
  <2>2. stack' \in Seq(Surfaces) /\ stack' # <<>> /\ Last(stack') = focus
    BY <2>1, Piling DEF FocusInv
  <2>3. QED BY <1>3, <2>1, <2>2, SurfaceFacts DEF FocusInv, OriginIsNext, PaletteReturns
<1>4. QED BY <1>1, <1>2, <1>3

LEMMA PaletteCloses ==
  ASSUME FocusInv, palette' = FALSE, IF palette THEN ReturnFocus ELSE UNCHANGED focusVars
  PROVE  FocusInv' /\ PaletteReturns
<1>1. CASE ~palette
  BY <1>1, FocusRests DEF focusVars, FocusInv
<1>2. CASE palette /\ stack = <<>>
  <2>1. origin = Nothing
    BY <1>2 DEF FocusInv, OriginIsNext
  <2>2. focus' = focus /\ stack' = stack /\ origin' = Nothing
    BY <1>2, <2>1, FocusGoesBack
  <2>3. QED BY <1>2, <2>1, <2>2 DEF FocusInv, OriginIsNext, PaletteReturns
<1>3. CASE palette /\ stack # <<>>
  <2>1. origin # Nothing => Last(stack) = origin
    BY DEF FocusInv, OriginIsNext
  <2>2. /\ focus' = Last(stack) /\ focus' \in Surfaces /\ stack' \in Seq(Surfaces)
        /\ origin' = Nothing
    BY <1>3, FocusGoesBack
  <2>3. QED BY <2>1, <2>2 DEF FocusInv, OriginIsNext, PaletteReturns
<1>4. QED BY <1>1, <1>2, <1>3 DEF FocusInv

LEMMA PaletteIsLeft ==
  ASSUME FocusInv, NEW to \in Surfaces, to = Lens, LeavePalette(to)
  PROVE  FocusInv' /\ PaletteReturns
<1> DEFINE from == IF focus = Palette THEN ReturnedFrom ELSE focus
           left == IF focus = Palette THEN ReturnedStack ELSE stack
<1>1. stack \in Seq(Surfaces) /\ focus \in Surfaces
  BY DEF FocusInv
<1>2. from \in Surfaces /\ left \in Seq(Surfaces)
  BY <1>1, Unpiling DEF ReturnedFrom, ReturnedStack
<1>3. /\ palette' = FALSE /\ focus' = to /\ origin' = Nothing
      /\ stack' = IF from = to THEN left ELSE Piled(left, from)
  BY DEF LeavePalette, Piled
<1>4. origin # Nothing => from = origin
  BY DEF FocusInv, OriginIsNext, ReturnedFrom
<1> HIDE DEF from, left
<1>5. stack' \in Seq(Surfaces)
  BY <1>2, <1>3, Piling
<1>6. from # to => Last(stack') = from
  BY <1>2, <1>3, Piling
<1>7. QED BY <1>3, <1>4, <1>5, <1>6 DEF FocusInv, OriginIsNext, PaletteReturns

-----------------------------------------------------------------------------
(* The steps: what they do to the panes and what to the focus.             *)

\* A step that only opens panes, or leaves them, keeps them all.
LEMMA PanesAllStay ==
  ASSUME \A i \in DOMAIN panes : Stays(i)
  PROVE  PanesStay
BY DEF PanesStay, Stays

LEMMA PaneGoes ==
  ASSUME PanesInv, NEW id \in Ids, ClosePane(id), CloseReadingPane(id) \/ ~Pane(id).pinned
  PROVE  PanesStay
<1>1. \A i \in DOMAIN panes :
        IF panes[i].id = id THEN \A j \in DOMAIN panes' : panes'[j].id # id ELSE Stays(i)
  BY PaneCloses
<1>2. ASSUME NEW i \in DOMAIN panes, panes[i].id = id
      PROVE  ~panes[i].pinned \/ CloseReadingPane(panes[i].id)
  <2>1. CASE CloseReadingPane(id)
    BY <1>2, <2>1
  <2>2. CASE ~Pane(id).pinned
    BY <1>2, <2>2, PaneFacts
  <2>3. QED BY <2>1, <2>2
<1>3. QED BY <1>1, <1>2 DEF PanesStay, Stays

StepIsSound == ShellInv' /\ PaletteReturns /\ PanesStay

LEMMA StepFrom ==
  ASSUME ShellInv, PanesInv', PanesStay, FocusInv', PaletteReturns,
         selectedFile' \in Documents \cup {Nothing}, queue' \in Seq(Events)
  PROVE  StepIsSound
BY DEF ShellInv, StepIsSound

LEMMA Resting ==
  ASSUME ShellInv
  PROVE  PanesInv /\ FocusInv /\ selectedFile \in Documents \cup {Nothing}
BY DEF ShellInv

LEMMA FocusSteps ==
  ASSUME ShellInv, queue' \in Seq(Events),
         \/ \E to \in Surfaces : FocusChange(to)
         \/ \E forward \in BOOLEAN : FocusNavigate(forward)
         \/ OpenSearchPalette \/ CloseSearchPalette \/ FocusReturn \/ CancelGesture
         \/ PointerUp \/ (\E doc \in Documents \cup {Nothing} : SelectFile(doc))
  PROVE  StepIsSound
<1>1. panes' = panes /\ nextPane' = nextPane /\ lensOpen' = lensOpen
  BY DEF FocusChange, FocusNavigate, OpenSearchPalette, CloseSearchPalette, FocusReturn,
         CancelGesture, PointerUp, SelectFile, paneVars
<1>2. selectedFile' \in Documents \cup {Nothing}
  BY Resting DEF FocusChange, FocusNavigate, OpenSearchPalette, CloseSearchPalette,
         FocusReturn, CancelGesture, PointerUp, SelectFile
<1>3. PanesInv' /\ PanesStay
  BY <1>1, Resting, PanesRest, PanesAllStay
<1>4. FocusInv' /\ PaletteReturns
  <2>1. CASE \E to \in Surfaces : FocusChange(to)
    BY <2>1, Resting, FocusMoves DEF FocusChange
  <2>2. CASE \E forward \in BOOLEAN : FocusNavigate(forward)
    <3>1. PICK forward \in BOOLEAN : FocusNavigate(forward)
      BY <2>2
    <3>2. PICK n : n = Len(Ring)
      OBVIOUS
    <3>3. n \in Nat \ {0} /\ DOMAIN Ring = 1 .. n /\ \A i \in 1 .. n : Ring[i] \in Surfaces
      <4>1. Plain \in Seq(Surfaces)
        <5>1. Plain = [i \in 1 .. Len(Plain) |-> Plain[i]]
          BY ShellAssumption, SurfaceFacts
        <5>2. QED BY <5>1, SurfaceFacts, SeqDef
      <4>2. Ring \in Seq(Surfaces) /\ Len(Ring) >= Len(Plain)
        BY <4>1, SurfaceFacts, AppendProperties DEF Ring
      <4>3. QED BY <3>2, <4>2, SurfaceFacts, LenProperties, ElementOfSeq
    <3>4. PICK to \in 1 .. n : SetFocus(Ring[to])
      <4>1. CASE OnRing(focus) = {}
        BY <3>1, <3>2, <3>3, <4>1 DEF FocusNavigate
      <4>2. CASE OnRing(focus) # {}
        <5>1. PICK i \in 1 .. n : i = CHOOSE x \in OnRing(focus) : TRUE
          BY <3>3, <4>2 DEF OnRing
        <5>2. PICK to : to = IF forward THEN (i % n) + 1 ELSE IF i = 1 THEN n ELSE i - 1
          OBVIOUS
        <5>3. SetFocus(Ring[to])
          BY <3>1, <3>2, <4>2, <5>1, <5>2 DEF FocusNavigate
        <5>4. to \in 1 .. n
          <6>1. i % n \in 0 .. (n - 1)
            BY <3>3
          <6>2. QED BY <3>3, <5>2, <6>1
        <5>5. QED BY <5>3, <5>4
      <4>3. QED BY <4>1, <4>2
    <3>5. palette' = palette
      BY <3>1 DEF FocusNavigate
    <3>6. QED BY <3>3, <3>4, <3>5, Resting, FocusMoves
  <2>3. CASE OpenSearchPalette
    BY <2>3, Resting, PaletteOpens
  <2>4. CASE CloseSearchPalette
    BY <2>4, Resting, PaletteCloses DEF CloseSearchPalette
  <2>5. CASE FocusReturn
    BY <2>5, Resting, FocusReturns DEF FocusReturn
  <2>6. CASE CancelGesture \/ PointerUp \/ (\E doc \in Documents \cup {Nothing} : SelectFile(doc))
    BY <2>6, Resting, FocusRests DEF CancelGesture, PointerUp, SelectFile
  <2>7. QED BY <2>1, <2>2, <2>3, <2>4, <2>5, <2>6
<1>5. QED BY <1>2, <1>3, <1>4, StepFrom

LEMMA OpeningSteps ==
  ASSUME ShellInv, queue' \in Seq(Events), NEW doc \in Documents,
         NEW rev \in Captures \cup {Uncaptured},
         OpenPane(doc, rev), selectedFile' \in Documents \cup {Nothing},
         (SetFocus(Lens) /\ palette' = palette) \/ LeavePalette(Lens)
  PROVE  StepIsSound
<1>1. PanesInv' /\ PanesStay
  BY Resting, PaneOpens, PanesAllStay
<1>2. CASE SetFocus(Lens) /\ palette' = palette
  BY <1>1, <1>2, Resting, FocusMoves, SurfaceFacts, StepFrom
<1>3. CASE LeavePalette(Lens)
  BY <1>1, <1>3, Resting, PaletteIsLeft, SurfaceFacts, StepFrom
<1>4. QED BY <1>2, <1>3

LEMMA OpenSteps ==
  ASSUME ShellInv, queue' \in Seq(Events),
         \/ PromoteSelected
         \/ \E doc \in Documents :
              \/ OpenReadingLens(doc) \/ ActivateSearchResult(doc)
              \/ \E rev \in Captures : ActivateCapturedResult(doc, rev)
  PROVE  StepIsSound
<1>1. ASSUME NEW doc \in Documents, OpenReadingLens(doc) PROVE StepIsSound
  BY <1>1, Resting, OpeningSteps DEF OpenReadingLens
<1>2. CASE PromoteSelected
  <2>1. selectedFile \in Documents
    BY <1>2, Resting DEF PromoteSelected
  <2>2. QED BY <1>1, <1>2, <2>1 DEF PromoteSelected
<1>3. ASSUME NEW doc \in Documents, ActivateSearchResult(doc) PROVE StepIsSound
  BY <1>3, OpeningSteps DEF ActivateSearchResult
<1>4. ASSUME NEW doc \in Documents, NEW rev \in Captures,
             ActivateCapturedResult(doc, rev)
      PROVE  StepIsSound
  <2>1. selectedFile' = doc /\ OpenPane(doc, rev)
    BY <1>4 DEF ActivateCapturedResult
  <2>2. (SetFocus(Lens) /\ palette' = palette) \/ LeavePalette(Lens)
    BY <1>4 DEF ActivateCapturedResult
  <2>3. QED BY <2>1, <2>2, OpeningSteps
<1>5. QED BY <1>1, <1>2, <1>3, <1>4

LEMMA ClosingSteps ==
  ASSUME ShellInv, queue' \in Seq(Events), NEW id \in Ids, ClosePane(id),
         CloseReadingPane(id) \/ ~Pane(id).pinned,
         selectedFile' = selectedFile, palette' = palette,
         ReturnFocus \/ UNCHANGED focusVars
  PROVE  StepIsSound
<1>1. PanesInv' /\ PanesStay
  BY Resting, PaneCloses, PaneGoes
<1>2. FocusInv' /\ PaletteReturns
  BY Resting, FocusReturns, FocusRests DEF focusVars
<1>3. QED BY <1>1, <1>2, Resting, StepFrom

\* Among the panes that may be closed there is a topmost one.
LEMMA TopmostIsFound ==
  ASSUME PanesInv, Closable # {}
  PROVE  \E id \in Closable : \A other \in Closable : IndexOf(other) <= IndexOf(id)
<1>1. PICK l \in Nat : l = Len(panes) /\ \A id \in Ids : IndexOf(id) \in 1 .. l
  BY PaneFacts
<1> DEFINE behind == {l - IndexOf(id) : id \in Closable}
<1>2. behind \in SUBSET Nat /\ behind # {}
  BY <1>1 DEF Closable
<1>3. PICK m \in behind : \A n \in behind : m <= n
  <2> HIDE DEF behind
  <2>1. QED BY <1>2, LeastNumber
<1>4. PICK id \in Closable : m = l - IndexOf(id)
  BY <1>3
<1>5. ASSUME NEW other \in Closable PROVE IndexOf(other) <= IndexOf(id)
  <2>1. m <= l - IndexOf(other)
    BY <1>3
  <2>2. IndexOf(other) \in 1 .. l /\ IndexOf(id) \in 1 .. l
    BY <1>1 DEF Closable
  <2>3. QED BY <1>1, <1>4, <2>1, <2>2
<1>6. QED BY <1>5

\* The pane that closing the lens closes.
LEMMA LensCloses ==
  ASSUME PanesInv, panes # <<>>, Closable # {}, CloseReadingLens
  PROVE  \E id \in Closable : ClosePane(id)
<1>1. PICK id : id = IF activePane \in Closable THEN activePane
                     ELSE CHOOSE x \in Closable :
                            \A other \in Closable : IndexOf(other) <= IndexOf(x)
  OBVIOUS
<1>2. id \in Closable
  BY <1>1, TopmostIsFound
<1>3. ClosePane(id)
  BY <1>1 DEF CloseReadingLens
<1>4. QED BY <1>2, <1>3

LEMMA CloseSteps ==
  ASSUME ShellInv, queue' \in Seq(Events),
         CloseReadingLens \/ \E id \in Ids : CloseReadingPane(id)
  PROVE  StepIsSound
<1>1. CASE \E id \in Ids : CloseReadingPane(id)
  <2>1. PICK id \in Ids : CloseReadingPane(id)
    BY <1>1
  <2>2. ClosePane(id) /\ selectedFile' = selectedFile /\ palette' = palette
        /\ (ReturnFocus \/ UNCHANGED focusVars)
    BY <2>1 DEF CloseReadingPane
  <2>3. QED BY <2>1, <2>2, ClosingSteps
<1>2. CASE CloseReadingLens /\ panes # <<>> /\ Closable # {}
  <2>1. PICK id \in Closable : ClosePane(id)
    BY <1>2, Resting, LensCloses
  <2>2. id \in Ids /\ ~Pane(id).pinned
    BY DEF Closable
  <2>3. selectedFile' = selectedFile /\ palette' = palette
        /\ (ReturnFocus \/ UNCHANGED focusVars)
    BY <1>2 DEF CloseReadingLens
  <2>4. QED BY <2>1, <2>2, <2>3, ClosingSteps
<1>3. CASE CloseReadingLens /\ (panes = <<>> \/ Closable = {})
  <2>1. panes' = panes /\ nextPane' = nextPane
    BY <1>3 DEF CloseReadingLens, paneVars
  <2>2. lensOpen <=> lensOpen'
    BY <1>3 DEF CloseReadingLens, paneVars, ShellInv, PanesInv, PanesAreCoherent
  <2>3. PanesInv' /\ \A i \in DOMAIN panes : Stays(i)
    BY <2>1, <2>2, Resting DEF PanesInv, PanesAreCoherent, PanesAreNumbered, Stays
  <2>4. palette' = palette /\ selectedFile' = selectedFile
        /\ (ReturnFocus \/ UNCHANGED focusVars)
    BY <1>3 DEF CloseReadingLens
  <2>5. FocusInv' /\ PaletteReturns
    BY <2>4, Resting, FocusReturns, FocusRests DEF focusVars
  <2>6. QED BY <2>3, <2>4, <2>5, Resting, PanesAllStay, StepFrom
<1>4. QED BY <1>1, <1>2, <1>3

LEMMA PinSteps ==
  ASSUME ShellInv, queue' \in Seq(Events), NEW id \in Ids, TogglePin(id)
  PROVE  StepIsSound
<1>1. PanesInv' /\ PanesStay
  BY Resting, PinToggles, PanesAllStay DEF TogglePin
<1>2. FocusInv' /\ PaletteReturns
  BY Resting, FocusRests DEF TogglePin
<1>3. QED BY <1>1, <1>2, Resting, StepFrom DEF TogglePin

LEMMA PressSteps ==
  ASSUME ShellInv, queue' \in Seq(Events), NEW id, PointerDown(id)
  PROVE  StepIsSound
<1>1. PanesInv' /\ PanesStay
  BY Resting, PanesRest, PanesAllStay DEF PointerDown
<1>2. PICK to \in Surfaces : SetFocus(to)
  BY SurfaceFacts DEF PointerDown
<1>3. FocusInv' /\ PaletteReturns
  BY <1>2, Resting, FocusMoves DEF PointerDown
<1>4. QED BY <1>1, <1>3, Resting, StepFrom DEF PointerDown

LEMMA EscapeSteps ==
  ASSUME ShellInv, queue' \in Seq(Events), Escape
  PROVE  StepIsSound
BY FocusSteps, CloseSteps DEF Escape

LEMMA CommandSteps ==
  ASSUME ShellInv, queue' = queue, Command
  PROVE  StepIsSound
<1>1. queue' \in Seq(Events)
  BY DEF ShellInv
<1>2. SelectFile(Nothing) => \E doc \in Documents \cup {Nothing} : SelectFile(doc)
  OBVIOUS
<1>3. (\E doc \in Documents : SelectFile(doc))
        => \E doc \in Documents \cup {Nothing} : SelectFile(doc)
  OBVIOUS
<1>4. QED
  BY <1>1, <1>2, <1>3, FocusSteps, OpenSteps, CloseSteps, PinSteps DEF Command

-----------------------------------------------------------------------------
(* Escape.                                                                 *)

LEMMA DepthFacts ==
  ASSUME ShellInv
  PROVE  /\ Len(panes) \in Nat /\ Len(stack) \in Nat
         /\ (panes = <<>> <=> Len(panes) = 0) /\ (stack = <<>> <=> Len(stack) = 0)
         /\ (lensOpen <=> panes # <<>>)
BY LenProperties, EmptySeq DEF ShellInv, PanesInv, FocusInv, PanesAreCoherent

\* One Escape backs out of one thing.
LEMMA EscapeBacks ==
  ASSUME ShellInv, Escape
  PROVE  Depth' < Depth \/ Depth = 0 \/ (panes # <<>> /\ \A i \in DOMAIN panes : panes[i].pinned)
<1> DEFINE a == IF Active THEN 1 ELSE 0
           p == IF palette THEN 1 ELSE 0
<1>1. a \in 0 .. 1 /\ p \in 0 .. 1 /\ Depth = a + p + Len(panes) + Len(stack)
      /\ Depth' = a' + p' + Len(panes)' + Len(stack)'
  BY DEF Depth
<1>2. CASE Active
  <2>1. gesture' = Cancelled /\ panes' = panes /\ stack' = stack /\ palette' = palette
    BY <1>2 DEF Escape, CancelGesture, paneVars
  <2>2. a = 1 /\ a' = 0 /\ p' = p
    BY <1>2, <2>1 DEF Active, Cancelled
  <2> HIDE DEF a, p
  <2>3. QED BY <1>1, <2>1, <2>2, DepthFacts
<1>3. CASE ~Active /\ palette
  <2>1. CloseSearchPalette
    BY <1>3 DEF Escape
  <2>2. /\ gesture' = gesture /\ panes' = panes /\ ReturnFocus /\ palette' = FALSE
    BY <1>3, <2>1 DEF CloseSearchPalette, paneVars
  <2>3. a' = a /\ p' = 0 /\ p = 1
    BY <1>3, <2>2 DEF Active
  <2>4. Len(stack') \in Nat /\ Len(stack') <= Len(stack)
    BY <2>2, FocusGoesBack, DepthFacts DEF ShellInv
  <2> HIDE DEF a, p
  <2>5. QED BY <1>1, <2>2, <2>3, <2>4, DepthFacts
<1>4. CASE ~Active /\ ~palette /\ panes # <<>>
  <2>1. CloseReadingLens
    BY <1>4 DEF Escape
  <2>2. CASE Closable = {}
    <3>1. \A i \in DOMAIN panes : panes[i].pinned
      BY <2>2, PaneFacts DEF Closable, ShellInv
    <3>2. QED BY <1>4, <3>1
  <2>3. CASE Closable # {}
    <3>1. PICK id \in Closable : ClosePane(id)
      BY <1>4, <2>1, <2>3, LensCloses DEF ShellInv
    <3>2. Len(panes') = Len(panes) - 1
      BY <3>1, PaneCloses DEF ShellInv, Closable
    <3>3. gesture' = gesture /\ palette' = palette /\ (ReturnFocus \/ UNCHANGED focusVars)
      BY <2>1 DEF CloseReadingLens
    <3>4. a' = a /\ p' = p
      BY <3>3 DEF Active
    <3>5. Len(stack') \in Nat /\ Len(stack') <= Len(stack)
      <4>1. UNCHANGED focusVars => stack' = stack
        BY DEF focusVars
      <4>2. QED BY <3>3, <4>1, FocusGoesBack, DepthFacts DEF ShellInv
    <3> HIDE DEF a, p
    <3>6. QED BY <1>1, <3>2, <3>4, <3>5, DepthFacts
  <2>4. QED BY <2>2, <2>3
<1>5. CASE ~Active /\ ~palette /\ panes = <<>>
  <2>1. FocusReturn
    BY <1>5, DepthFacts DEF Escape
  <2>2. gesture' = gesture /\ palette' = palette /\ panes' = panes /\ ReturnFocus
    BY <2>1 DEF FocusReturn, paneVars
  <2>3. a = 0 /\ p = 0 /\ a' = 0 /\ p' = 0
    BY <1>5, <2>2 DEF Active
  <2>4. CASE stack = <<>>
    BY <1>1, <1>5, <2>3, <2>4, DepthFacts
  <2>5. CASE stack # <<>>
    <3>1. Len(stack') = Len(stack) - 1
      BY <2>2, <2>5, FocusGoesBack DEF ShellInv
    <3> HIDE DEF a, p
    <3>2. QED BY <1>1, <1>5, <2>2, <2>3, <3>1, DepthFacts
  <2>6. QED BY <2>4, <2>5
<1>6. QED BY <1>2, <1>3, <1>4, <1>5

-----------------------------------------------------------------------------
LEMMA ShellStarts == ShellInit => ShellInv
<1> SUFFICES ASSUME ShellInit PROVE ShellInv
  OBVIOUS
<1>1. panes \in Seq(PaneRecord) /\ stack \in Seq(Surfaces) /\ queue \in Seq(Events)
  BY DEF ShellInit
<1>2. Plain[1] \in Surfaces
  BY SurfaceFacts
<1>3. PanesInv
  BY <1>1 DEF ShellInit, PanesInv, PanesAreCoherent, PanesAreNumbered
<1>4. FocusInv
  BY <1>1, <1>2 DEF ShellInit, FocusInv, OriginIsNext
<1>5. QED BY <1>1, <1>3, <1>4 DEF ShellInit, ShellInv

LEMMA QueueFacts ==
  ASSUME ShellInv, queue # <<>>
  PROVE  /\ Head(queue) \in Events /\ Tail(queue) \in Seq(Events)
         /\ Len(Tail(queue)) = Len(queue) - 1 /\ Len(queue) \in Nat \ {0}
BY HeadTailProperties, LenProperties, EmptySeq DEF ShellInv

LEMMA ShellSteps ==
  ASSUME ShellInv, [ShellNext]_shellVars
  PROVE  StepIsSound /\ EscapeBacksOut
<1>1. CASE Command /\ UNCHANGED queue
  <2>1. EscapeBacksOut
    BY <1>1, QueueFacts DEF EscapeBacksOut
  <2>2. QED BY <1>1, <2>1, CommandSteps
<1>2. ASSUME NEW event \in Events, EnqueueDiscreteInput(event)
      PROVE  StepIsSound /\ EscapeBacksOut
  <2>1. PICK t \in Seq(Events) : t = IF Len(queue) >= QueueCapacity THEN Tail(queue) ELSE queue
    <3>1. Len(queue) >= QueueCapacity => queue # <<>>
      BY SurfaceFacts, EmptySeq
    <3>2. QED BY <3>1, QueueFacts DEF ShellInv
  <2>2. queue' = Append(t, event)
    BY <1>2, <2>1 DEF EnqueueDiscreteInput
  <2>3. queue' \in Seq(Events) /\ Len(queue') = Len(t) + 1
    BY <2>2, AppendProperties
  <2>4. queue # <<>> => queue' # Tail(queue)
    <3>1. queue # <<>> => t = queue \/ t = Tail(queue)
      BY <2>1
    <3>2. Len(t) \in Nat
      BY <2>1, LenProperties
    <3>3. QED BY <2>3, <3>1, <3>2, QueueFacts
  <2>5. PanesInv' /\ PanesStay /\ FocusInv' /\ PaletteReturns
    BY <1>2, Resting, PanesRest, PanesAllStay, FocusRests DEF EnqueueDiscreteInput, paneVars
  <2>6. QED
    BY <1>2, <2>3, <2>4, <2>5, Resting, StepFrom DEF EnqueueDiscreteInput, EscapeBacksOut
<1>3. CASE ProcessInput
  <2>1. queue # <<>> /\ queue' = Tail(queue) /\ queue' \in Seq(Events)
    BY <1>3, QueueFacts DEF ProcessInput
  <2>2. CASE Head(queue).kind = "escape"
    <3>1. Escape
      BY <1>3, <2>2 DEF ProcessInput
    <3>2. QED BY <2>1, <3>1, EscapeSteps, EscapeBacks DEF EscapeBacksOut
  <2>3. CASE Head(queue).kind # "escape"
    <3>1. Head(queue) # Key
      BY <2>3 DEF Key
    <3>2. PointerUp \/ \E id : PointerDown(id)
      BY <1>3, <2>3 DEF ProcessInput
    <3>3. QED BY <2>1, <3>1, <3>2, FocusSteps, PressSteps DEF EscapeBacksOut
  <2>4. QED BY <2>2, <2>3
<1>4. CASE UNCHANGED shellVars
  <2>1. PanesInv' /\ PanesStay /\ FocusInv' /\ PaletteReturns
    BY <1>4, Resting, PanesRest, PanesAllStay, FocusRests DEF shellVars
  <2>2. EscapeBacksOut
    BY <1>4, QueueFacts DEF shellVars, EscapeBacksOut
  <2>3. QED BY <1>4, <2>1, <2>2, StepFrom DEF shellVars, ShellInv
<1>5. QED BY <1>1, <1>2, <1>3, <1>4 DEF ShellNext

THEOREM ShellInvariant == ShellSpec => []ShellInv
<1>1. ShellInv /\ [ShellNext]_shellVars => ShellInv'
  BY ShellSteps DEF StepIsSound
<1>2. QED BY <1>1, ShellStarts, PTL DEF ShellSpec

\* The lens is open while it has a pane and no version is shown twice; the
\* palette returns to what it opened on; a pane shows its version until it
\* is closed, a pinned one only by name; and each Escape backs out of
\* something (focus.rs, reading_panes.rs, reducer.rs).
THEOREM ShellStaysCoherent == ShellSpec => ShellIsCoherent
<1>1. ShellInv /\ [ShellNext]_shellVars
        => [PanesAreCoherent' /\ PaletteReturns /\ PanesStay /\ EscapeBacksOut]_shellVars
  BY ShellSteps DEF StepIsSound, ShellInv, PanesInv
<1>2. QED BY <1>1, ShellInvariant, PTL DEF ShellSpec, ShellIsCoherent

-----------------------------------------------------------------------------
(***************************************************************************)
(* Cache namespaces. With one session alive at a time what it believes of  *)
(* the disk is so, and what it promises of the newest generation is what   *)
(* the abstract store does.                                                *)
(***************************************************************************)

\* At most one session is not closed: the others have died, or not opened yet.
OneAtATime == \A s, t \in Sessions : op[s] # "closed" /\ op[t] # "closed" => s = t

Awake(s) == op[s] \notin {"closed", "create"}
Clearing(s) == op[s] \in {"clear", "reclaim"}

\* What an awake session believes: it is in the newest generation, and what it
\* defers, clears and removes is older, cleared and not pinned.
SessionIsCurrent(s) ==
  /\ ~Awake(s) => hot[s] = {}
  /\ ~Clearing(s) => todo[s] = {} /\ target[s] = None
  /\ op[s] = "create" => built \in 1..3 /\ dirs = IF built <= 2 THEN {} ELSE {1}
  /\ Awake(s) => /\ built # 0 /\ current[s] = Highest(dirs)
                 /\ deferred[s] \subseteq cleared[s]
                 /\ \A g \in deferred[s] : g < current[s]
  /\ op[s] \in Names => current[s] \in dirs /\ file[<<current[s], op[s]>>] = "part"
  /\ Clearing(s) => current[s] \notin todo[s]
  /\ op[s] = "reclaim" => todo[s] \subseteq deferred[s]
  /\ target[s] # None => /\ target[s] \in (todo[s] \cap dirs \cap cleared[s]) \ pins
                         /\ target[s] < current[s]

DiskIsCurrent ==
  /\ built = 0 => dirs = {}
  /\ \A g \in pins : g <= Highest(dirs)

NamespaceInv ==
  /\ NamespaceTypeOK
  /\ DiskIsCurrent
  /\ \A s \in Sessions : SessionIsCurrent(s)
  /\ HotMatchesDisk

-----------------------------------------------------------------------------
(* Highest and newest generations.                                         *)

LEMMA NamespaceConstants ==
  /\ MaxGenerations \in Nat \ {0} /\ 1 \in Generations /\ Generations \subseteq Nat \ {0}
  /\ None \notin Generations
  /\ Names \cap {"closed", "create", "idle", "clear", "reclaim"} = {}
BY NamespaceAssumption DEF Generations, None

LEMMA FirstTurn ==
  ASSUME NEW gs \in SUBSET Generations, gs # {}
  PROVE  Min(gs) \in gs
<1>1. \E m \in gs : \A n \in gs : m =< n
  BY LeastNumber, NamespaceConstants
<1>2. QED BY <1>1 DEF Min

\* The highest of some generations is one of them and above the others.
LEMMA MaxIsFound ==
  ASSUME NEW gs \in SUBSET Generations, gs # {}
  PROVE  Max(gs) \in gs /\ \A g \in gs : g <= Max(gs)
<1> DEFINE above == {n \in Nat : \A g \in gs : g <= n}
<1>1. MaxGenerations \in above
  BY NamespaceConstants DEF Generations
<1>2. PICK m \in above : \A n \in above : m <= n
  <2> HIDE DEF above
  <2>1. QED BY <1>1, LeastNumber DEF above
<1>3. m \in gs
  <2> SUFFICES ASSUME m \notin gs PROVE FALSE
    OBVIOUS
  <2>1. \A g \in gs : g < m /\ g \in Nat /\ g # 0
    BY NamespaceConstants
  <2>2. m # 0 /\ m \in Nat
    <3>1. PICK g \in gs : TRUE
      OBVIOUS
    <3>2. g < m /\ g \in Nat
      BY <2>1, <3>1
    <3>3. m \in Nat
      BY <1>2
    <3>4. QED BY <3>2, <3>3
  <2>3. m - 1 \in above
    BY <2>1, <2>2
  <2>4. QED BY <1>2, <2>2, <2>3
<1>4. \A g \in gs : m >= g
  BY NamespaceConstants
<1>5. \E x \in gs : \A y \in gs : x >= y
  BY <1>3, <1>4
<1>6. Max(gs) \in gs /\ \A y \in gs : Max(gs) >= y
  BY <1>5 DEF Max
<1>7. QED BY <1>6, NamespaceConstants

LEMMA MaxIsUnique ==
  ASSUME NEW gs \in SUBSET Generations, NEW m \in gs, \A g \in gs : g <= m
  PROVE  Max(gs) = m
<1>1. Max(gs) \in gs /\ \A g \in gs : g <= Max(gs)
  BY MaxIsFound
<1>2. m \in Nat /\ Max(gs) \in Nat /\ m <= Max(gs) /\ Max(gs) <= m
  BY <1>1, NamespaceConstants
<1>3. QED BY <1>2

LEMMA HighestFacts ==
  ASSUME NEW ds \in SUBSET Generations
  PROVE  /\ Highest(ds) \in Generations /\ Highest(ds) \in ds \cup {1}
         /\ \A g \in ds : g <= Highest(ds)
         /\ ds # {} => Highest(ds) = Max(ds)
<1>1. ds \cup {1} \in SUBSET Generations /\ ds \cup {1} # {}
  BY NamespaceConstants
<1>2. Highest(ds) \in ds \cup {1} /\ \A g \in ds \cup {1} : g <= Highest(ds)
  BY <1>1, MaxIsFound DEF Highest
<1>3. ASSUME ds # {} PROVE Highest(ds) \in ds
  <2>1. \A g \in ds : g \in Nat /\ g >= 1
    BY NamespaceConstants
  <2>2. QED BY <1>2, <1>3, <2>1
<1>4. ds # {} => Highest(ds) = Max(ds)
  BY <1>2, <1>3, MaxIsUnique
<1>5. QED BY <1>1, <1>2, <1>4

\* A generation that is added above the others is the highest; one that goes
\* from below it changes nothing.
LEMMA HighestMoves ==
  ASSUME NEW ds \in SUBSET Generations
  PROVE  /\ Highest(ds) + 1 \in Generations =>
              Highest(ds \cup {Highest(ds) + 1}) = Highest(ds) + 1
         /\ \A g \in ds : g < Highest(ds) => Highest(ds \ {g}) = Highest(ds)
<1> PICK h : h = Highest(ds)
  OBVIOUS
<1>1. h \in Generations /\ h \in ds \cup {1} /\ \A g \in ds : g <= h
  BY HighestFacts
<1>2. ASSUME h + 1 \in Generations PROVE Highest(ds \cup {h + 1}) = h + 1
  <2> DEFINE more == ds \cup {h + 1, 1}
  <2>1. more \in SUBSET Generations /\ h + 1 \in more
    BY <1>2, NamespaceConstants
  <2>2. \A g \in more : g <= h + 1
    BY <1>1, <2>1, NamespaceConstants
  <2>3. Max(more) = h + 1
    <3> HIDE DEF more
    <3>1. QED BY <2>1, <2>2, MaxIsUnique
  <2>4. (ds \cup {h + 1}) \cup {1} = more
    OBVIOUS
  <2>5. QED BY <2>3, <2>4 DEF Highest
<1>3. ASSUME NEW g \in ds, g < h PROVE Highest(ds \ {g}) = h
  <2> DEFINE less == (ds \ {g}) \cup {1}
  <2>1. less \in SUBSET Generations /\ h \in less
    BY <1>1, <1>3, NamespaceConstants
  <2>2. \A x \in less : x <= h
    BY <1>1, NamespaceConstants
  <2>3. Max(less) = h
    <3> HIDE DEF less
    <3>1. QED BY <2>1, <2>2, MaxIsUnique
  <2>4. QED BY <2>3 DEF Highest
<1>4. QED BY <1>2, <1>3

\* The generation of an awake session that has a directory is the newest.
LEMMA NewestIsHighest ==
  ASSUME NEW ds \in SUBSET Generations, ds = dirs
  PROVE  dirs # {} => Newest = Highest(dirs)
BY HighestFacts DEF Newest

-----------------------------------------------------------------------------
(* Types, for any number of sessions at once.                              *)

LEMMA NamespaceTypesStep ==
  ASSUME NamespaceTypeOK, [NamespaceNext]_namespaceVars
  PROVE  NamespaceTypeOK'
<1> USE DEF NamespaceTypeOK
<1>1. CASE UNCHANGED namespaceVars
  BY <1>1 DEF namespaceVars, disk, memory
<1>2. ASSUME NEW s \in Sessions,
             Create(s) \/ CreateStep(s) \/ Open(s) \/ Crash(s)
      PROVE  NamespaceTypeOK'
  <2>1. 1 \in Generations /\ Highest(dirs) \in Generations
    BY HighestFacts, NamespaceConstants
  <2>2. CASE Create(s)
    BY <2>2 DEF Create, memory
  <2>3. CASE CreateStep(s)
    BY <2>1, <2>3 DEF CreateStep, Begin, memory
  <2>4. CASE Open(s)
    BY <2>1, <2>4 DEF Open, Begin, disk
  <2>5. CASE Crash(s)
    BY <2>1, <2>5 DEF Crash, Begin, disk
  <2>6. QED BY <1>2, <2>2, <2>3, <2>4, <2>5
<1>3. ASSUME NEW s \in Sessions, CanAdvance(s)
      PROVE  current[s] + 1 \in Generations /\ 1..current[s] \subseteq Generations
  BY <1>3, NamespaceConstants DEF CanAdvance, Generations
<1>4. ASSUME NEW s \in Sessions,
             AdvanceGeneration(s) \/ ClearNamespace(s)
      PROVE  NamespaceTypeOK'
  <2>1. AdvanceDir(s) => current[s] + 1 \in Generations /\ 1..current[s] \subseteq Generations
    BY <1>3 DEF AdvanceDir
  <2>2. CASE AdvanceGeneration(s)
    BY <2>1, <2>2, SMTT(30) DEF AdvanceGeneration, AdvanceDir
  <2>3. CASE ClearNamespace(s)
    BY <2>1, <2>3, SMTT(30) DEF ClearNamespace, AdvanceDir
  <2>4. QED BY <1>4, <2>2, <2>3
<1>5. ASSUME NEW s \in Sessions, NEW g \in Generations, ClearGeneration(s, g)
      PROVE  NamespaceTypeOK'
  BY <1>3, <1>5 DEF ClearGeneration, MoveOffCurrent, AdvanceDir
<1>6. ASSUME NEW s \in Sessions,
             ReclaimDeferred(s) \/ RemoveDir(s) \/ ReclaimFails(s) \/ Finish(s)
      PROVE  NamespaceTypeOK'
  <2>1. CASE ReclaimDeferred(s)
    BY <2>1 DEF ReclaimDeferred, disk, memory
  <2>2. CASE RemoveDir(s)
    BY <2>2 DEF RemoveDir
  <2>3. CASE ReclaimFails(s) \/ Finish(s)
    BY <2>3 DEF ReclaimFails, Finish, disk, memory
  <2>4. QED BY <1>6, <2>1, <2>2, <2>3
<1>7. ASSUME NEW s \in Sessions, NEW n \in Names,
             BeginWrite(s, n) \/ FinishWrite(s, n) \/ FailWrite(s, n) \/ RemoveFile(s, n)
      PROVE  NamespaceTypeOK'
  <2>1. CASE BeginWrite(s, n)
    BY <2>1 DEF BeginWrite, memory
  <2>2. CASE FinishWrite(s, n)
    <3>1. <<current[s], n>> \in Keys
      BY DEF Keys
    <3>2. QED BY <2>2, <3>1 DEF FinishWrite
  <2>3. CASE FailWrite(s, n)
    BY <2>3 DEF FailWrite, disk, memory
  <2>4. CASE RemoveFile(s, n)
    BY <2>4 DEF RemoveFile, memory
  <2>5. QED BY <1>7, <2>1, <2>2, <2>3, <2>4
<1>8. ASSUME NEW s \in Sessions, NEW g \in Generations,
             Pin(s, g) \/ Unpin(s, g) \/ Keep(s, g) \/ BeginReclaim(s, g)
      PROVE  NamespaceTypeOK'
  <2>1. CASE Pin(s, g) \/ Unpin(s, g)
    BY <2>1 DEF Pin, Unpin, memory
  <2>2. CASE Keep(s, g)
    BY <2>2 DEF Keep, disk
  <2>3. CASE BeginReclaim(s, g)
    BY <2>3 DEF BeginReclaim, Revoked, disk
  <2>4. QED BY <1>8, <2>1, <2>2, <2>3
<1>9. QED BY <1>1, <1>2, <1>4, <1>5, <1>6, <1>7, <1>8 DEF NamespaceNext

\* Types hold whatever sessions share the root (namespace.rs).
THEOREM NamespaceTypesCorrect == NamespaceSpec => []NamespaceTypeOK
<1>1. NamespaceInit => NamespaceTypeOK
  BY NamespaceConstants DEF NamespaceInit, NamespaceTypeOK
<1>2. QED BY <1>1, NamespaceTypesStep, PTL DEF NamespaceSpec

-----------------------------------------------------------------------------
(* One session at a time.                                                  *)

Alone(s) == \A t \in Sessions \ {s} : op[t] = "closed"

StoreStep == Store!StoreNext \/ UNCHANGED Store!store

\* What the step of a session that is alone has to do right.
LEMMA AloneStep ==
  ASSUME NamespaceInv, NEW s \in Sessions, Alone(s),
         NamespaceTypeOK', DiskIsCurrent', SessionIsCurrent(s)',
         \A t \in Sessions \ {s} : /\ op'[t] = op[t] /\ hot'[t] = hot[t]
                                   /\ todo'[t] = todo[t] /\ target'[t] = target[t],
         \A k \in hot'[s] : k[1] \notin cleared'[s] => file'[k] = "whole"
  PROVE  NamespaceInv'
<1>1. ASSUME NEW t \in Sessions \ {s}
      PROVE  SessionIsCurrent(t)' /\ hot'[t] = {}
  <2>1. SessionIsCurrent(t) /\ op[t] = "closed" /\ op'[t] = "closed"
    BY DEF NamespaceInv, Alone
  <2>2. hot[t] = {} /\ todo[t] = {} /\ target[t] = None
    BY <2>1 DEF SessionIsCurrent, Awake, Clearing
  <2>3. "closed" \notin Names
    BY NamespaceConstants
  <2>4. QED BY <2>1, <2>2, <2>3 DEF SessionIsCurrent, Awake, Clearing
<1>2. HotMatchesDisk'
  BY <1>1 DEF HotMatchesDisk
<1>3. QED BY <1>1, <1>2 DEF NamespaceInv

\* A step that leaves directories, entries and pins alone is no step of the store.
LEMMA StoreRests ==
  ASSUME UNCHANGED <<dirs, file, pins>>
  PROVE  StoreStep
BY DEF StoreStep, Store!store, Newest, Entries, Wholes

LEMMA AwakeFacts ==
  ASSUME NamespaceInv, NEW s \in Sessions, Awake(s)
  PROVE  /\ NamespaceTypeOK /\ SessionIsCurrent(s) /\ built # 0 /\ DiskIsCurrent
         /\ current[s] = Highest(dirs) /\ current[s] \in Generations
         /\ current[s] \in dirs \cup {1}
         /\ \A g \in dirs \cup pins : g <= current[s] /\ g \in Generations
         /\ \A g \in deferred[s] : g < current[s] /\ g \in cleared[s]
         /\ dirs # {} => Newest = current[s]
         /\ dirs = {} => Newest = 0
<1>1. NamespaceTypeOK /\ SessionIsCurrent(s) /\ DiskIsCurrent
  BY DEF NamespaceInv
<1>2. built # 0 /\ current[s] = Highest(dirs) /\ deferred[s] \subseteq cleared[s]
      /\ \A g \in deferred[s] : g < current[s]
  BY <1>1 DEF SessionIsCurrent
<1>3. dirs \in SUBSET Generations /\ pins \in SUBSET Generations
  BY <1>1 DEF NamespaceTypeOK
<1>4. /\ Highest(dirs) \in Generations /\ Highest(dirs) \in dirs \cup {1}
      /\ \A g \in dirs : g <= Highest(dirs)
  BY <1>3, HighestFacts
<1>5. \A g \in pins : g <= Highest(dirs)
  BY <1>1 DEF DiskIsCurrent
<1>6. dirs # {} => Newest = Highest(dirs)
  BY <1>3, NewestIsHighest
<1>7. QED BY <1>1, <1>2, <1>3, <1>4, <1>5, <1>6 DEF Newest

\* What a session that is alone does to the session variables of others: nothing.
OthersRest(s) ==
  \A t \in Sessions \ {s} : /\ op'[t] = op[t] /\ hot'[t] = hot[t]
                            /\ todo'[t] = todo[t] /\ target'[t] = target[t]

LEMMA CreateStepKeeps ==
  ASSUME NamespaceInv, NEW s \in Sessions, Alone(s), NamespaceTypeOK',
         Create(s) \/ CreateStep(s)
  PROVE  NamespaceInv' /\ StoreStep
<1>1. /\ NamespaceTypeOK /\ SessionIsCurrent(s) /\ DiskIsCurrent /\ ~Awake(s) /\ ~Clearing(s)
      /\ hot[s] = {} /\ todo[s] = {} /\ target[s] = None
  BY DEF NamespaceInv, Create, CreateStep, Awake, Clearing, SessionIsCurrent
<1>2. {"create", "idle"} \cap Names = {}
  BY NamespaceConstants
<1>3. CASE Create(s)
  <2>1. /\ built = 0 /\ built' = 1 /\ dirs = {} /\ op'[s] = "create"
        /\ UNCHANGED <<dirs, file, pins, current, hot, deferred, cleared, todo, target>>
        /\ \A t \in Sessions \ {s} : op'[t] = op[t]
    BY <1>1, <1>3 DEF Create, memory, NamespaceTypeOK, DiskIsCurrent
  <2>2. SessionIsCurrent(s)' /\ DiskIsCurrent'
    BY <1>1, <1>2, <2>1 DEF SessionIsCurrent, Awake, Clearing, DiskIsCurrent
  <2>3. QED BY <1>1, <2>1, <2>2, AloneStep, StoreRests
<1>4. CASE CreateStep(s) /\ built # 3
  <2>1. /\ built \in 1..2 /\ built' = built + 1 /\ op[s] = "create" /\ dirs = {}
        /\ dirs' = IF built = 2 THEN {1} ELSE {}
        /\ UNCHANGED <<op, file, pins, current, hot, deferred, cleared, todo, target>>
    BY <1>1, <1>4 DEF CreateStep, memory, SessionIsCurrent
  <2>2. SessionIsCurrent(s)'
    BY <1>1, <1>2, <2>1 DEF SessionIsCurrent, Awake, Clearing
  <2>3. Highest({1}) = 1 /\ Highest({}) = 1
    <3>1. {1} \in SUBSET Generations /\ {} \in SUBSET Generations
      BY NamespaceConstants
    <3>2. QED BY <3>1, HighestFacts
  <2>4. DiskIsCurrent'
    BY <1>1, <2>1, <2>3 DEF DiskIsCurrent
  <2>5. NamespaceInv'
    BY <1>1, <2>1, <2>2, <2>4, AloneStep
  <2>6. StoreStep
    <3>1. CASE built = 2
      <4>1. Newest = 0 /\ Newest' = 1
        <5>1. Max({1}) = 1
          BY <2>3 DEF Highest
        <5>2. QED BY <2>1, <3>1, <5>1 DEF Newest
      <4>2. 1 \in Generations /\ dirs' = dirs \cup {1}
        BY <2>1, <3>1, NamespaceConstants
      <4>3. UNCHANGED <<Entries, Wholes, pins>>
        BY <2>1 DEF Entries, Wholes
      <4>4. Store!NewGeneration
        BY <4>1, <4>2, <4>3 DEF Store!NewGeneration
      <4>5. QED BY <4>4 DEF StoreStep, Store!StoreNext
    <3>2. CASE built # 2
      BY <2>1, <3>2, StoreRests
    <3>3. QED BY <3>1, <3>2
  <2>7. QED BY <2>5, <2>6
<1>5. CASE CreateStep(s) /\ built = 3
  <2>1. /\ built' = 4 /\ dirs = {1} /\ dirs' = dirs /\ op'[s] = "idle" /\ current'[s] = 1
        /\ hot'[s] = {} /\ deferred'[s] = {} /\ cleared'[s] = {}
        /\ UNCHANGED <<file, pins, todo, target>>
        /\ \A t \in Sessions \ {s} : op'[t] = op[t] /\ hot'[t] = hot[t]
    BY <1>1, <1>5 DEF CreateStep, Begin, SessionIsCurrent, NamespaceTypeOK
  <2>2. Highest(dirs) = 1
    <3>1. {1} \in SUBSET Generations
      BY NamespaceConstants
    <3>2. QED BY <2>1, <3>1, HighestFacts
  <2>3. SessionIsCurrent(s)' /\ DiskIsCurrent'
    BY <1>1, <1>2, <2>1, <2>2 DEF SessionIsCurrent, Awake, Clearing, DiskIsCurrent
  <2>4. QED BY <1>1, <2>1, <2>3, AloneStep, StoreRests
<1>6. QED BY <1>3, <1>4, <1>5

LEMMA OpenStep ==
  ASSUME NamespaceInv, NEW s \in Sessions, Alone(s), NamespaceTypeOK', Open(s) \/ Crash(s)
  PROVE  NamespaceInv' /\ StoreStep
<1>1. NamespaceTypeOK /\ SessionIsCurrent(s) /\ DiskIsCurrent
  BY DEF NamespaceInv
<1>2. {"closed", "idle"} \cap Names = {}
  BY NamespaceConstants
<1>3. CASE Open(s)
  <2>1. /\ op[s] = "closed" /\ op'[s] = "idle" /\ built >= 2 /\ current'[s] = Highest(dirs)
        /\ hot'[s] = {} /\ deferred'[s] = {} /\ cleared'[s] = {}
        /\ UNCHANGED <<built, dirs, file, pins, todo, target>>
        /\ \A t \in Sessions \ {s} : op'[t] = op[t] /\ hot'[t] = hot[t]
    BY <1>1, <1>3 DEF Open, Begin, disk, NamespaceTypeOK
  <2>2. SessionIsCurrent(s)' /\ DiskIsCurrent'
    BY <1>1, <1>2, <2>1 DEF SessionIsCurrent, Awake, Clearing, DiskIsCurrent
  <2>3. QED BY <1>1, <2>1, <2>2, AloneStep, StoreRests
<1>4. CASE Crash(s)
  <2>1. /\ op'[s] = "closed" /\ hot'[s] = {} /\ todo'[s] = {} /\ target'[s] = None
        /\ UNCHANGED <<built, dirs, file, pins>>
        /\ \A t \in Sessions \ {s} : /\ op'[t] = op[t] /\ hot'[t] = hot[t]
                                     /\ todo'[t] = todo[t] /\ target'[t] = target[t]
    BY <1>1, <1>4 DEF Crash, Begin, disk, NamespaceTypeOK
  <2>2. SessionIsCurrent(s)' /\ DiskIsCurrent'
    BY <1>1, <1>2, <2>1 DEF SessionIsCurrent, Awake, Clearing, DiskIsCurrent
  <2>3. QED BY <1>1, <2>1, <2>2, AloneStep, StoreRests
<1>5. QED BY <1>3, <1>4

\* A new generation is above every other, so what is deferred, pinned and left
\* to do is still older than it.
LEMMA AdvanceFacts ==
  ASSUME NamespaceInv, NEW s \in Sessions, Awake(s), AdvanceDir(s)
  PROVE  /\ current'[s] = current[s] + 1 /\ current'[s] = Highest(dirs)'
         /\ \A g \in dirs' \cup pins : g <= current'[s]
         /\ \A g \in deferred[s] : g < current'[s]
         /\ current[s] \in Generations /\ current'[s] \in dirs'
         /\ UNCHANGED <<Entries, Wholes, pins>> => Store!NewGeneration
<1>1. /\ NamespaceTypeOK /\ current[s] = Highest(dirs) /\ current[s] \in Generations
      /\ \A g \in dirs \cup pins : g <= current[s] /\ g \in Generations
      /\ \A g \in deferred[s] : g < current[s]
      /\ Newest = current[s] \/ Newest = 0
  BY AwakeFacts
<1>2. /\ current'[s] = current[s] + 1 /\ dirs' = dirs \cup {current[s] + 1}
      /\ current[s] + 1 \in Generations
  BY <1>1, NamespaceConstants DEF AdvanceDir, CanAdvance, NamespaceTypeOK, Generations
<1>3. Highest(dirs)' = current[s] + 1
  <2>1. dirs \in SUBSET Generations
    BY <1>1 DEF NamespaceTypeOK
  <2>2. Highest(dirs \cup {current[s] + 1}) = current[s] + 1
    BY <1>1, <1>2, <2>1, HighestMoves
  <2>3. QED BY <1>2, <2>2
<1>4. Newest' = current[s] + 1 /\ Newest < current[s] + 1
  <2>1. dirs' \in SUBSET Generations /\ dirs' # {}
    BY <1>1, <1>2
  <2>2. Newest' = Max(dirs')
    BY <2>1 DEF Newest
  <2>3. Max(dirs') = Highest(dirs')
    BY <2>1, HighestFacts
  <2>4. Newest' = current[s] + 1
    BY <1>3, <2>2, <2>3
  <2>5. Newest < current[s] + 1
    <3>1. current[s] \in Nat
      BY <1>1, NamespaceConstants
    <3>2. QED BY <1>1, <3>1
  <2>6. QED BY <2>4, <2>5
<1>5. UNCHANGED <<Entries, Wholes, pins>> => Store!NewGeneration
  BY <1>2, <1>4 DEF Store!NewGeneration
<1>6. current[s] \in Nat /\ \A g \in dirs \cup pins \cup deferred[s] : g \in Nat
  BY <1>1, NamespaceConstants DEF NamespaceTypeOK
<1>7. QED BY <1>1, <1>2, <1>3, <1>5, <1>6

LEMMA AdvanceStep ==
  ASSUME NamespaceInv, NEW s \in Sessions, Alone(s), NamespaceTypeOK',
         AdvanceGeneration(s) \/ ClearNamespace(s)
  PROVE  NamespaceInv' /\ StoreStep
<1>1. op[s] = "idle" /\ Awake(s) /\ AdvanceDir(s) /\ {"idle", "clear"} \cap Names = {}
  BY NamespaceConstants DEF AdvanceGeneration, ClearNamespace, Awake
<1>2. /\ NamespaceTypeOK /\ SessionIsCurrent(s) /\ DiskIsCurrent /\ built # 0
      /\ todo[s] = {} /\ target[s] = None /\ deferred[s] \subseteq cleared[s]
  BY <1>1, AwakeFacts DEF SessionIsCurrent, Clearing
<1>3. /\ current'[s] = current[s] + 1 /\ current'[s] = Highest(dirs)'
      /\ \A g \in dirs' \cup pins : g <= current'[s]
      /\ \A g \in deferred[s] : g < current'[s]
      /\ current[s] \in Nat
  BY <1>1, AdvanceFacts, NamespaceConstants
<1>4. /\ op'[s] \in {"idle", "clear"}
      /\ op'[s] = "idle" => todo' = todo
      /\ op'[s] = "clear" => todo'[s] = 1..current[s]
      /\ UNCHANGED <<built, file, pins, hot, deferred, cleared, target>>
      /\ \A t \in Sessions \ {s} : op'[t] = op[t] /\ todo'[t] = todo[t]
  BY <1>1, <1>2 DEF AdvanceGeneration, ClearNamespace, NamespaceTypeOK
<1>5. current[s] + 1 \notin 1..current[s]
  BY <1>3
<1>6. SessionIsCurrent(s)'
  <2>1. /\ op'[s] \notin Names \cup {"create", "reclaim", "closed"}
        /\ target'[s] = None /\ built' # 0
    BY <1>1, <1>2, <1>4
  <2>2. current'[s] \notin todo'[s] /\ (op'[s] = "idle" => todo'[s] = {})
    BY <1>2, <1>3, <1>4, <1>5
  <2>3. /\ current'[s] = Highest(dirs') /\ deferred'[s] \subseteq cleared'[s]
        /\ \A g \in deferred'[s] : g < current'[s]
    BY <1>2, <1>3, <1>4
  <2>4. QED BY <1>4, <2>1, <2>2, <2>3 DEF SessionIsCurrent, Awake, Clearing
<1>7. DiskIsCurrent'
  BY <1>2, <1>3, <1>4 DEF DiskIsCurrent
<1>8. \A k \in hot'[s] : k[1] \notin cleared'[s] => file'[k] = "whole"
  BY <1>4 DEF NamespaceInv, HotMatchesDisk
<1>9. StoreStep
  BY <1>1, <1>4, AdvanceFacts DEF Entries, Wholes, StoreStep, Store!StoreNext
<1>10. QED BY <1>2, <1>4, <1>6, <1>7, <1>8, <1>9, AloneStep

LEMMA ClearStep ==
  ASSUME NamespaceInv, NEW s \in Sessions, Alone(s), NamespaceTypeOK',
         NEW g \in Generations, ClearGeneration(s, g)
  PROVE  NamespaceInv' /\ StoreStep
<1>1. op[s] = "idle" /\ op'[s] = "clear" /\ Awake(s) /\ "clear" \notin Names
  BY NamespaceConstants DEF ClearGeneration, Awake, NamespaceInv, NamespaceTypeOK
<1>2. /\ NamespaceTypeOK /\ SessionIsCurrent(s) /\ DiskIsCurrent /\ built # 0
      /\ todo[s] = {} /\ target[s] = None /\ deferred[s] \subseteq cleared[s]
      /\ current[s] = Highest(dirs) /\ current[s] \in Generations
      /\ \A d \in deferred[s] : d < current[s]
  BY <1>1, AwakeFacts DEF SessionIsCurrent, Clearing
<1>3. /\ todo'[s] = {g}
      /\ UNCHANGED <<built, file, pins, hot, deferred, cleared, target>>
      /\ \A t \in Sessions \ {s} : op'[t] = op[t] /\ todo'[t] = todo[t]
  BY <1>2 DEF ClearGeneration, NamespaceTypeOK
<1>4. /\ current'[s] = Highest(dirs)' /\ current'[s] # g
      /\ \A d \in deferred[s] : d < current'[s]
      /\ DiskIsCurrent'
  <2>1. CASE g = current[s]
    <3>1. AdvanceDir(s) /\ current[s] \in Nat
      BY <1>2, <2>1, NamespaceConstants DEF ClearGeneration, MoveOffCurrent
    <3>2. /\ current'[s] = current[s] + 1 /\ current'[s] = Highest(dirs)'
          /\ \A d \in dirs' \cup pins : d <= current'[s]
          /\ \A d \in deferred[s] : d < current'[s]
      BY <1>1, <3>1, AdvanceFacts
    <3>3. DiskIsCurrent'
      BY <1>2, <1>3, <3>2 DEF DiskIsCurrent
    <3>4. QED BY <2>1, <3>1, <3>2, <3>3
  <2>2. CASE g # current[s]
    <3>1. UNCHANGED <<current, dirs>>
      BY <2>2 DEF ClearGeneration, MoveOffCurrent
    <3>2. QED BY <1>2, <1>3, <2>2, <3>1 DEF DiskIsCurrent
  <2>3. QED BY <2>1, <2>2
<1>5. SessionIsCurrent(s)'
  <2>1. /\ op'[s] \notin Names \cup {"create", "reclaim", "closed", "idle"}
        /\ target'[s] = None /\ built' # 0 /\ current'[s] \notin todo'[s]
    BY <1>1, <1>2, <1>3, <1>4
  <2>2. /\ current'[s] = Highest(dirs)' /\ deferred'[s] \subseteq cleared'[s]
        /\ \A d \in deferred'[s] : d < current'[s]
    BY <1>2, <1>3, <1>4
  <2>3. QED BY <1>1, <2>1, <2>2 DEF SessionIsCurrent, Awake, Clearing
<1>6. \A k \in hot'[s] : k[1] \notin cleared'[s] => file'[k] = "whole"
  BY <1>3 DEF NamespaceInv, HotMatchesDisk
<1>7. StoreStep
  <2>1. CASE g = current[s]
    BY <1>1, <1>3, <2>1, AdvanceFacts
    DEF ClearGeneration, MoveOffCurrent, Entries, Wholes, StoreStep, Store!StoreNext
  <2>2. CASE g # current[s]
    <3>1. UNCHANGED dirs
      BY <2>2 DEF ClearGeneration, MoveOffCurrent
    <3>2. QED BY <1>3, <3>1, StoreRests
  <2>3. QED BY <2>1, <2>2
<1>8. NamespaceInv'
  BY <1>2, <1>3, <1>4, <1>5, <1>6, AloneStep
<1>9. QED BY <1>7, <1>8

\* A step that touches no disk and no entry in memory, and leaves the session
\* current, keeps the invariant.
LEMMA MemoryStep ==
  ASSUME NamespaceInv, NEW s \in Sessions, Alone(s), NamespaceTypeOK',
         UNCHANGED <<disk, hot>>, SessionIsCurrent(s)', OthersRest(s),
         cleared[s] \subseteq cleared'[s]
  PROVE  NamespaceInv' /\ StoreStep
<1>1. UNCHANGED <<built, dirs, file, pins, hot>>
  BY DEF disk
<1>2. DiskIsCurrent'
  BY <1>1 DEF NamespaceInv, DiskIsCurrent
<1>3. \A k \in hot'[s] : k[1] \notin cleared'[s] => file'[k] = "whole"
  BY <1>1 DEF NamespaceInv, HotMatchesDisk
<1>4. StoreStep
  BY <1>1, StoreRests
<1>5. NamespaceInv'
  BY <1>2, <1>3, AloneStep DEF OthersRest
<1>6. QED BY <1>4, <1>5

LEMMA ReclaimStep ==
  ASSUME NamespaceInv, NEW s \in Sessions, Alone(s), NamespaceTypeOK',
         ReclaimDeferred(s) \/ ReclaimFails(s) \/ Finish(s)
  PROVE  NamespaceInv' /\ StoreStep
<1>1. /\ NamespaceTypeOK /\ SessionIsCurrent(s)
      /\ {"idle", "reclaim", "clear", "create", "closed"} \cap Names = {}
  BY NamespaceConstants DEF NamespaceInv
<1>2. CASE ReclaimDeferred(s)
  <2>1. /\ op[s] = "idle" /\ op'[s] = "reclaim" /\ todo'[s] = deferred[s]
        /\ UNCHANGED <<disk, current, hot, deferred, cleared, target>> /\ OthersRest(s)
    BY <1>1, <1>2 DEF ReclaimDeferred, memory, OthersRest, NamespaceTypeOK
  <2>2. /\ Awake(s) /\ ~Clearing(s) /\ Awake(s)' /\ Clearing(s)' /\ UNCHANGED <<built, dirs>>
    BY <2>1 DEF Awake, Clearing, disk
  <2>3. /\ target[s] = None /\ current[s] = Highest(dirs) /\ built # 0
        /\ deferred[s] \subseteq cleared[s] /\ \A g \in deferred[s] : g < current[s]
        /\ current[s] \in Nat
    BY <1>1, <2>2, NamespaceConstants DEF SessionIsCurrent, NamespaceTypeOK
  <2>4. current'[s] \notin todo'[s] /\ target'[s] = None
    BY <2>1, <2>3
  <2>5. SessionIsCurrent(s)'
    BY <1>1, <2>1, <2>2, <2>3, <2>4 DEF SessionIsCurrent
  <2>6. QED BY <2>1, <2>5, MemoryStep
<1>3. CASE ReclaimFails(s) \/ Finish(s)
  <2>1. Clearing(s)
    <3>1. target[s] # None \/ op[s] \in {"clear", "reclaim"}
      BY <1>3 DEF ReclaimFails, Finish
    <3>2. QED BY <1>1, <3>1 DEF Clearing, SessionIsCurrent
  <2>2. /\ op'[s] = "idle" /\ todo'[s] = {} /\ target'[s] = None
        /\ UNCHANGED <<disk, current, hot, deferred, cleared>> /\ OthersRest(s)
    <3>1. CASE ReclaimFails(s)
      BY <1>1, <3>1 DEF ReclaimFails, memory, OthersRest, NamespaceTypeOK
    <3>2. CASE Finish(s)
      <4>1. target[s] = None
        BY <1>1, <3>2 DEF Finish, SessionIsCurrent
      <4>2. QED BY <1>1, <3>2, <4>1 DEF Finish, memory, OthersRest, NamespaceTypeOK
    <3>3. QED BY <1>3, <3>1, <3>2
  <2>3. Awake(s) /\ Awake(s)' /\ ~Clearing(s)' /\ UNCHANGED <<built, dirs>>
    BY <2>1, <2>2 DEF Awake, Clearing, disk
  <2>4. SessionIsCurrent(s)'
    BY <1>1, <2>2, <2>3 DEF SessionIsCurrent
  <2>5. QED BY <2>2, <2>4, MemoryStep
<1>4. QED BY <1>2, <1>3

LEMMA TurnFacts ==
  ASSUME NamespaceInv, NEW s \in Sessions, NEW g \in Generations, Turn(s, g)
  PROVE  /\ Awake(s) /\ Clearing(s) /\ target[s] = None /\ g \in todo[s] /\ g # current[s]
         /\ op[s] \notin Names
         /\ op[s] = "reclaim" => g \in deferred[s] /\ g \in cleared[s]
<1>1. NamespaceTypeOK /\ SessionIsCurrent(s)
  BY DEF NamespaceInv
<1>2. /\ op[s] \in {"clear", "reclaim"} /\ target[s] = None /\ todo[s] # {}
      /\ g = Min(todo[s]) /\ todo[s] \in SUBSET Generations
  BY <1>1 DEF Turn, NamespaceTypeOK
<1>3. g \in todo[s]
  BY <1>2, FirstTurn
<1>4. Awake(s) /\ Clearing(s)
  BY <1>2 DEF Awake, Clearing
<1>5. QED BY <1>1, <1>2, <1>3, <1>4, NamespaceConstants DEF SessionIsCurrent

LEMMA KeepStep ==
  ASSUME NamespaceInv, NEW s \in Sessions, Alone(s), NamespaceTypeOK',
         NEW g \in Generations, Keep(s, g)
  PROVE  NamespaceInv' /\ StoreStep
<1>1. Turn(s, g) /\ g \in pins
  BY DEF Keep, MustKeep
<1>2. /\ Awake(s) /\ Clearing(s) /\ target[s] = None /\ g \in todo[s] /\ g # current[s]
      /\ op[s] \notin Names
      /\ op[s] = "reclaim" => g \in deferred[s] /\ g \in cleared[s]
  BY <1>1, TurnFacts
<1>3. /\ NamespaceTypeOK /\ SessionIsCurrent(s) /\ built # 0 /\ current[s] = Highest(dirs)
      /\ g <= current[s] /\ deferred[s] \subseteq cleared[s] /\ g \in Nat /\ current[s] \in Nat
      /\ \A d \in deferred[s] : d < current[s]
  BY <1>1, <1>2, AwakeFacts, NamespaceConstants
<1>4. /\ UNCHANGED <<disk, op, current, hot, target>> /\ OthersRest(s)
      /\ todo'[s] = todo[s] \ {g}
      /\ op[s] = "clear" => /\ cleared'[s] = cleared[s] \cup {g}
                            /\ deferred'[s] = deferred[s] \cup {g}
      /\ op[s] # "clear" => UNCHANGED <<cleared, deferred>>
  BY <1>3 DEF Keep, OthersRest, NamespaceTypeOK
<1>5. /\ cleared[s] \subseteq cleared'[s] /\ deferred'[s] \subseteq cleared'[s]
      /\ \A d \in deferred'[s] : d < current[s]
  <2>1. CASE op[s] = "clear"
    BY <1>2, <1>3, <1>4, <2>1
  <2>2. CASE op[s] # "clear"
    BY <1>2, <1>3, <1>4, <2>2
  <2>3. QED BY <2>1, <2>2
<1>6. /\ Awake(s)' /\ Clearing(s)' /\ target'[s] = None /\ op'[s] \notin Names
      /\ op'[s] # "create" /\ current'[s] \notin todo'[s]
  BY <1>2, <1>3, <1>4 DEF Awake, Clearing, SessionIsCurrent
<1>7. op'[s] = "reclaim" => todo'[s] \subseteq deferred'[s]
  BY <1>3, <1>4 DEF SessionIsCurrent
<1>8. UNCHANGED <<built, dirs>>
  BY <1>4 DEF disk
<1>9. SessionIsCurrent(s)'
  BY <1>3, <1>4, <1>5, <1>6, <1>7, <1>8 DEF SessionIsCurrent
<1>10. QED BY <1>4, <1>5, <1>9, MemoryStep

LEMMA BeginReclaimStep ==
  ASSUME NamespaceInv, NEW s \in Sessions, Alone(s), NamespaceTypeOK',
         NEW g \in Generations, BeginReclaim(s, g)
  PROVE  NamespaceInv' /\ StoreStep
<1>1. Turn(s, g) /\ g \notin pins
  BY DEF BeginReclaim, MustKeep
<1>2. /\ Awake(s) /\ Clearing(s) /\ target[s] = None /\ g \in todo[s] /\ g # current[s]
      /\ op[s] \notin Names
      /\ op[s] = "reclaim" => g \in deferred[s] /\ g \in cleared[s]
  BY <1>1, TurnFacts
<1>3. /\ NamespaceTypeOK /\ SessionIsCurrent(s) /\ built # 0 /\ current[s] = Highest(dirs)
      /\ deferred[s] \subseteq cleared[s] /\ g \in Nat /\ current[s] \in Nat
      /\ \A d \in deferred[s] : d < current[s]
      /\ g \in dirs => g <= current[s]
  BY <1>2, AwakeFacts, NamespaceConstants
<1>4. /\ UNCHANGED <<disk, op, current, hot>> /\ OthersRest(s)
      /\ cleared'[s] = IF op[s] = "clear" THEN cleared[s] \cup {g} ELSE cleared[s]
  BY <1>3 DEF BeginReclaim, OthersRest, NamespaceTypeOK, Revoked
<1>5. g \in cleared'[s] /\ cleared[s] \subseteq cleared'[s]
  BY <1>2, <1>4 DEF Clearing
<1>6. /\ g \in dirs => target'[s] = g /\ UNCHANGED <<todo, deferred>>
      /\ g \notin dirs =>
            /\ todo'[s] = todo[s] \ {g} /\ UNCHANGED target
            /\ deferred'[s] = IF op[s] = "reclaim" THEN deferred[s] \ {g} ELSE deferred[s]
  BY <1>3 DEF BeginReclaim, NamespaceTypeOK
<1>7. UNCHANGED <<built, dirs, pins>>
  BY <1>4 DEF disk
<1>8. /\ Awake(s)' /\ Clearing(s)' /\ op'[s] \notin Names /\ op'[s] # "create"
      /\ current[s] \notin todo[s] /\ (op[s] = "reclaim" => todo[s] \subseteq deferred[s])
  BY <1>2, <1>3, <1>4 DEF Awake, Clearing, SessionIsCurrent
<1>9. CASE g \in dirs
  <2>1. /\ target'[s] \in (todo'[s] \cap dirs' \cap cleared'[s]) \ pins'
        /\ target'[s] < current'[s]
    BY <1>1, <1>2, <1>3, <1>4, <1>5, <1>6, <1>7, <1>9
  <2>2. /\ deferred'[s] \subseteq cleared'[s] /\ \A d \in deferred'[s] : d < current'[s]
        /\ current'[s] \notin todo'[s] /\ (op'[s] = "reclaim" => todo'[s] \subseteq deferred'[s])
    BY <1>3, <1>4, <1>5, <1>6, <1>8, <1>9
  <2>3. SessionIsCurrent(s)'
    BY <1>3, <1>4, <1>7, <1>8, <2>1, <2>2 DEF SessionIsCurrent
  <2>4. QED BY <1>4, <1>5, <2>3, MemoryStep
<1>10. CASE g \notin dirs
  <2>1. target'[s] = None
    BY <1>2, <1>6, <1>10
  <2>2. /\ deferred'[s] \subseteq cleared'[s] /\ \A d \in deferred'[s] : d < current'[s]
        /\ current'[s] \notin todo'[s] /\ (op'[s] = "reclaim" => todo'[s] \subseteq deferred'[s])
    BY <1>3, <1>4, <1>5, <1>6, <1>8, <1>10
  <2>3. SessionIsCurrent(s)'
    BY <1>3, <1>4, <1>7, <1>8, <2>1, <2>2 DEF SessionIsCurrent
  <2>4. QED BY <1>4, <1>5, <2>3, MemoryStep
<1>11. QED BY <1>9, <1>10

LEMMA RemoveFileStep ==
  ASSUME NamespaceInv, NEW s \in Sessions, Alone(s), NamespaceTypeOK',
         NEW n \in Names, RemoveFile(s, n)
  PROVE  NamespaceInv' /\ StoreStep
<1> PICK g : g = target[s]
  OBVIOUS
<1>1. /\ NamespaceTypeOK /\ SessionIsCurrent(s) /\ DiskIsCurrent /\ HotMatchesDisk
      /\ g # None /\ g \in (dirs \cap cleared[s]) \ pins /\ g < current[s]
      /\ g \in Generations /\ Awake(s)
  BY DEF NamespaceInv, RemoveFile, SessionIsCurrent, NamespaceTypeOK, Awake, Clearing
<1>2. /\ file[<<g, n>>] # "absent" /\ file' = [file EXCEPT ![<<g, n>>] = "absent"]
      /\ UNCHANGED <<built, dirs, pins, op, current, hot, deferred, cleared, todo, target>>
      /\ <<g, n>> \in Keys
  BY <1>1 DEF RemoveFile, Present, memory, Keys
<1>3. \A k \in Keys : k # <<g, n>> => file'[k] = file[k]
  BY <1>1, <1>2 DEF NamespaceTypeOK
<1>4. file'[<<g, n>>] = "absent"
  BY <1>1, <1>2 DEF NamespaceTypeOK
<1>5. SessionIsCurrent(s)'
  <2>1. op[s] \notin Names
    <3>1. Clearing(s)
      BY <1>1 DEF SessionIsCurrent
    <3>2. QED BY <3>1, NamespaceConstants DEF Clearing
  <2>2. QED BY <1>1, <1>2, <2>1 DEF SessionIsCurrent, Awake, Clearing
<1>6. DiskIsCurrent'
  BY <1>1, <1>2 DEF DiskIsCurrent
<1>7. \A k \in hot'[s] : k[1] \notin cleared'[s] => file'[k] = "whole"
  <2> SUFFICES ASSUME NEW k \in hot[s], k[1] \notin cleared[s] PROVE file'[k] = "whole"
    BY <1>2
  <2>1. k \in Keys /\ file[k] = "whole"
    BY <1>1 DEF HotMatchesDisk, NamespaceTypeOK
  <2>2. k # <<g, n>>
    BY <1>1
  <2>3. QED BY <1>3, <2>1, <2>2
<1>8. NamespaceInv'
  BY <1>2, <1>5, <1>6, <1>7, AloneStep
<1>9. StoreStep
  <2>1. Newest = current[s] /\ UNCHANGED Newest
    <3>1. Newest = current[s]
      BY <1>1, AwakeFacts
    <3>2. UNCHANGED Newest
      BY <1>2 DEF Newest
    <3>3. QED BY <3>1, <3>2
  <2>2. <<g, n>> \in Entries /\ <<g, n>>[1] = g
    BY <1>2 DEF Entries
  <2>3. Entries' = Entries \ {<<g, n>>}
    BY <1>3, <1>4 DEF Entries
  <2>4. Wholes' = Wholes \ {<<g, n>>}
    BY <1>3, <1>4 DEF Wholes
  <2>5. g < Newest /\ g \notin pins /\ UNCHANGED <<dirs, pins>>
    BY <1>1, <1>2, <2>1
  <2>6. Store!RemoveEntry
    BY <2>1, <2>2, <2>3, <2>4, <2>5 DEF Store!RemoveEntry
  <2>7. QED BY <2>6 DEF StoreStep, Store!StoreNext
<1>10. QED BY <1>8, <1>9

LEMMA RemoveDirStep ==
  ASSUME NamespaceInv, NEW s \in Sessions, Alone(s), NamespaceTypeOK', RemoveDir(s)
  PROVE  NamespaceInv' /\ StoreStep
<1> PICK g : g = target[s]
  OBVIOUS
<1>1. /\ NamespaceTypeOK /\ SessionIsCurrent(s) /\ DiskIsCurrent /\ HotMatchesDisk
      /\ g # None /\ g \in (dirs \cap cleared[s] \cap todo[s]) \ pins /\ g < current[s]
      /\ g \in Generations /\ Awake(s) /\ Clearing(s) /\ op[s] \notin Names
  <2>1. NamespaceTypeOK /\ SessionIsCurrent(s) /\ DiskIsCurrent /\ HotMatchesDisk /\ g # None
    BY DEF NamespaceInv, RemoveDir
  <2>2. Clearing(s)
    BY <2>1 DEF SessionIsCurrent
  <2>3. op[s] \notin Names /\ Awake(s)
    BY <2>2, NamespaceConstants DEF Clearing, Awake
  <2>4. QED BY <2>1, <2>2, <2>3 DEF SessionIsCurrent, NamespaceTypeOK
<1>2. /\ dirs' = dirs \ {g} /\ todo'[s] = todo[s] \ {g} /\ target'[s] = None
      /\ hot'[s] \subseteq hot[s] /\ deferred'[s] \subseteq deferred[s]
      /\ op[s] = "reclaim" => deferred'[s] = deferred[s] \ {g}
      /\ UNCHANGED <<built, file, pins, op, current, cleared>> /\ OthersRest(s)
  BY <1>1 DEF RemoveDir, OthersRest, NamespaceTypeOK
<1>3. /\ current[s] = Highest(dirs) /\ current[s] \in Generations /\ current[s] \in dirs \cup {1}
      /\ Newest = current[s] /\ built # 0 /\ current[s] \in Nat /\ g \in Nat /\ g # 0
      /\ deferred[s] \subseteq cleared[s] /\ \A d \in deferred[s] : d < current[s]
  BY <1>1, AwakeFacts, NamespaceConstants
<1>4. current[s] \in dirs'
  BY <1>1, <1>2, <1>3
<1>5. Highest(dirs') = current[s] /\ Newest' = current[s]
  <2>1. dirs \in SUBSET Generations /\ g \in dirs /\ dirs' \in SUBSET Generations
    BY <1>1, <1>2 DEF NamespaceTypeOK
  <2>2. Highest(dirs \ {g}) = Highest(dirs)
    BY <1>1, <1>3, <2>1, HighestMoves
  <2>3. Highest(dirs') = Max(dirs')
    BY <1>4, <2>1, HighestFacts
  <2>4. Newest' = Max(dirs')
    BY <1>4 DEF Newest
  <2>5. QED BY <1>2, <1>3, <2>2, <2>3, <2>4
<1>6. SessionIsCurrent(s)'
  <2>1. /\ Awake(s)' /\ Clearing(s)' /\ op'[s] \notin Names \cup {"create"}
        /\ target'[s] = None /\ current'[s] = Highest(dirs)' /\ built' # 0
    BY <1>1, <1>2, <1>3, <1>5 DEF Awake, Clearing
  <2>2. /\ current'[s] \notin todo'[s] /\ op'[s] = "reclaim" => todo'[s] \subseteq deferred'[s]
    BY <1>1, <1>2 DEF SessionIsCurrent
  <2>3. deferred'[s] \subseteq cleared'[s] /\ \A d \in deferred'[s] : d < current'[s]
    BY <1>2, <1>3
  <2>4. op'[s] = "reclaim" => todo'[s] \subseteq deferred'[s]
    BY <1>1, <1>2 DEF SessionIsCurrent
  <2>5. current'[s] \notin todo'[s]
    BY <1>1, <1>2 DEF SessionIsCurrent
  <2>6. QED BY <2>1, <2>3, <2>4, <2>5 DEF SessionIsCurrent
<1>7. DiskIsCurrent'
  BY <1>1, <1>2, <1>3, <1>5 DEF DiskIsCurrent
<1>8. \A k \in hot'[s] : k[1] \notin cleared'[s] => file'[k] = "whole"
  BY <1>1, <1>2 DEF HotMatchesDisk
<1>9. NamespaceInv'
  BY <1>2, <1>6, <1>7, <1>8, AloneStep DEF OthersRest
<1>10. StoreStep
  <2>1. \A e \in Entries : e[1] # g
    <3> SUFFICES ASSUME NEW e \in Entries, e[1] = g PROVE FALSE
      OBVIOUS
    <3>1. e \in Keys /\ file[e] # "absent"
      BY DEF Entries
    <3>2. e[2] \in Names /\ e = <<g, e[2]>>
      BY <3>1 DEF Keys
    <3>3. e[2] \in Present(g)
      BY <3>1, <3>2 DEF Present
    <3>4. QED BY <3>3 DEF RemoveDir
  <2>2. g \in dirs /\ g < Newest /\ g \notin pins /\ dirs' = dirs \ {g} /\ UNCHANGED Newest
    BY <1>1, <1>2, <1>3, <1>5
  <2>3. UNCHANGED <<Entries, Wholes, pins>>
    BY <1>2 DEF Entries, Wholes
  <2>4. Store!RemoveGeneration
    BY <2>1, <2>2, <2>3 DEF Store!RemoveGeneration
  <2>5. QED BY <2>4 DEF StoreStep, Store!StoreNext
<1>11. QED BY <1>9, <1>10

LEMMA WriteStep ==
  ASSUME NamespaceInv, NEW s \in Sessions, Alone(s), NamespaceTypeOK',
         NEW n \in Names, BeginWrite(s, n) \/ FinishWrite(s, n) \/ FailWrite(s, n)
  PROVE  NamespaceInv' /\ StoreStep
<1> PICK k : k = <<current[s], n>>
  OBVIOUS
<1>1. /\ NamespaceTypeOK /\ SessionIsCurrent(s) /\ DiskIsCurrent /\ HotMatchesDisk /\ Awake(s)
      /\ ~Clearing(s) /\ {"idle", "closed", "create", "clear", "reclaim"} \cap Names = {}
  BY NamespaceConstants DEF NamespaceInv, BeginWrite, FinishWrite, FailWrite, Awake, Clearing
<1>2. /\ todo[s] = {} /\ target[s] = None /\ built # 0 /\ current[s] = Highest(dirs)
      /\ deferred[s] \subseteq cleared[s] /\ \A g \in deferred[s] : g < current[s]
      /\ current[s] \in Generations /\ k \in Keys
  BY <1>1 DEF SessionIsCurrent, NamespaceTypeOK, Keys
<1>3. CASE BeginWrite(s, n)
  <2>1. /\ op[s] = "idle" /\ op'[s] = n /\ current[s] \in dirs
        /\ file[k] = "absent" /\ file' = [file EXCEPT ![k] = "part"]
        /\ UNCHANGED <<built, dirs, pins, current, hot, deferred, cleared, todo, target>>
        /\ OthersRest(s)
    BY <1>1, <1>3 DEF BeginWrite, memory, OthersRest, NamespaceTypeOK
  <2>2. file'[k] = "part" /\ \A j \in Keys : j # k => file'[j] = file[j]
    BY <1>1, <1>2, <2>1 DEF NamespaceTypeOK
  <2>3. SessionIsCurrent(s)' /\ DiskIsCurrent'
    BY <1>1, <1>2, <2>1, <2>2 DEF SessionIsCurrent, Awake, Clearing, DiskIsCurrent
  <2>4. \A j \in hot'[s] : j[1] \notin cleared'[s] => file'[j] = "whole"
    BY <1>1, <2>1, <2>2 DEF HotMatchesDisk, NamespaceTypeOK
  <2>5. NamespaceInv'
    BY <2>1, <2>3, <2>4, AloneStep DEF OthersRest
  <2>6. Newest = current[s] /\ UNCHANGED <<Newest, dirs, pins>> /\ Newest \in dirs
    BY <1>1, <2>1, AwakeFacts DEF Newest
  <2>7. k \notin Entries /\ Entries' = Entries \cup {k} /\ UNCHANGED Wholes
    BY <1>2, <2>1, <2>2 DEF Entries, Wholes
  <2>8. Store!AddEntry
    BY <2>6, <2>7 DEF Store!AddEntry
  <2>9. QED BY <2>5, <2>8 DEF StoreStep, Store!StoreNext
<1>4. CASE FinishWrite(s, n)
  <2>1. /\ op[s] = n /\ op'[s] = "idle" /\ hot'[s] = hot[s] \cup {k}
        /\ UNCHANGED <<built, dirs, pins, current, deferred, cleared, todo, target>>
        /\ OthersRest(s)
    BY <1>1, <1>4 DEF FinishWrite, OthersRest, NamespaceTypeOK
  <2>2. current[s] \in dirs /\ file[k] = "part"
    BY <1>1, <2>1 DEF SessionIsCurrent
  <2>3. file'[k] = "whole" /\ \A j \in Keys : j # k => file'[j] = file[j]
    BY <1>1, <1>2, <1>4, <2>2 DEF FinishWrite, NamespaceTypeOK
  <2>4. SessionIsCurrent(s)' /\ DiskIsCurrent'
    BY <1>1, <1>2, <2>1, <2>3 DEF SessionIsCurrent, Awake, Clearing, DiskIsCurrent
  <2>5. \A j \in hot'[s] : j[1] \notin cleared'[s] => file'[j] = "whole"
    BY <1>1, <2>1, <2>3 DEF HotMatchesDisk, NamespaceTypeOK
  <2>6. NamespaceInv'
    BY <2>1, <2>4, <2>5, AloneStep DEF OthersRest
  <2>7. Newest = current[s] /\ UNCHANGED <<Newest, dirs, pins>>
    BY <1>1, <2>1, <2>2, AwakeFacts DEF Newest
  <2>8. k \in Entries \ Wholes /\ UNCHANGED Entries /\ Wholes' = Wholes \cup {k}
    BY <1>2, <2>2, <2>3 DEF Entries, Wholes
  <2>9. Store!CompleteEntry
    BY <2>7, <2>8 DEF Store!CompleteEntry
  <2>10. QED BY <2>6, <2>9 DEF StoreStep, Store!StoreNext
<1>5. CASE FailWrite(s, n)
  <2>1. /\ op'[s] = "idle" /\ UNCHANGED <<disk, current, hot, deferred, cleared, todo, target>>
        /\ OthersRest(s)
    BY <1>1, <1>5 DEF FailWrite, memory, OthersRest, NamespaceTypeOK
  <2>2. UNCHANGED <<built, dirs>>
    BY <2>1 DEF disk
  <2>3. SessionIsCurrent(s)'
    BY <1>1, <1>2, <2>1, <2>2 DEF SessionIsCurrent, Awake, Clearing
  <2>4. QED BY <2>1, <2>3, MemoryStep
<1>6. QED BY <1>3, <1>4, <1>5

LEMMA PinStep ==
  ASSUME NamespaceInv, NEW s \in Sessions, Alone(s), NamespaceTypeOK',
         NEW g \in Generations, Pin(s, g) \/ Unpin(s, g)
  PROVE  NamespaceInv' /\ StoreStep
<1>1. /\ NamespaceTypeOK /\ SessionIsCurrent(s) /\ DiskIsCurrent /\ HotMatchesDisk
      /\ op[s] = "idle" /\ Awake(s) /\ ~Clearing(s) /\ "idle" \notin Names
  BY NamespaceConstants DEF NamespaceInv, Pin, Unpin, Awake, Clearing
<1>2. /\ UNCHANGED <<built, dirs, file, op, current, hot, deferred, cleared, todo, target>>
      /\ pins' \in {pins \cup {g}, pins \ {g}}
      /\ \A p \in pins' : p \in pins \/ p <= current[s]
  BY DEF Pin, Unpin, memory
<1>3. SessionIsCurrent(s)'
  BY <1>1, <1>2 DEF SessionIsCurrent, Awake, Clearing
<1>4. DiskIsCurrent'
  BY <1>1, <1>2 DEF DiskIsCurrent, SessionIsCurrent
<1>5. NamespaceInv'
  BY <1>1, <1>2, <1>3, <1>4, AloneStep DEF HotMatchesDisk
<1>6. UNCHANGED <<Newest, dirs, Entries, Wholes>>
  BY <1>2 DEF Newest, Entries, Wholes
<1>7. Store!ChangePin
  BY <1>2, <1>6 DEF Store!ChangePin
<1>8. QED BY <1>5, <1>7 DEF StoreStep, Store!StoreNext

-----------------------------------------------------------------------------
(* Every step, and what follows.                                           *)

LEMMA SessionStep ==
  ASSUME NamespaceInv, NEW s \in Sessions, Alone(s), NamespaceTypeOK',
         \/ Create(s) \/ CreateStep(s) \/ Open(s) \/ Crash(s)
         \/ AdvanceGeneration(s) \/ ClearNamespace(s) \/ ReclaimDeferred(s)
         \/ RemoveDir(s) \/ ReclaimFails(s) \/ Finish(s)
         \/ \E n \in Names :
              BeginWrite(s, n) \/ FinishWrite(s, n) \/ FailWrite(s, n) \/ RemoveFile(s, n)
         \/ \E g \in Generations :
              Pin(s, g) \/ Unpin(s, g) \/ ClearGeneration(s, g) \/ Keep(s, g) \/ BeginReclaim(s, g)
  PROVE  NamespaceInv' /\ StoreStep
<1>1. CASE \E n \in Names :
              BeginWrite(s, n) \/ FinishWrite(s, n) \/ FailWrite(s, n) \/ RemoveFile(s, n)
  BY <1>1, WriteStep, RemoveFileStep
<1>2. CASE \E g \in Generations :
              Pin(s, g) \/ Unpin(s, g) \/ ClearGeneration(s, g) \/ Keep(s, g) \/ BeginReclaim(s, g)
  BY <1>2, PinStep, ClearStep, KeepStep, BeginReclaimStep
<1>3. CASE Create(s) \/ CreateStep(s) \/ Open(s) \/ Crash(s)
  BY <1>3, CreateStepKeeps, OpenStep
<1>4. CASE AdvanceGeneration(s) \/ ClearNamespace(s) \/ ReclaimDeferred(s)
           \/ RemoveDir(s) \/ ReclaimFails(s) \/ Finish(s)
  BY <1>4, AdvanceStep, ReclaimStep, RemoveDirStep
<1>5. QED BY <1>1, <1>2, <1>3, <1>4

\* A session that takes a step is the only one that is not closed: before the
\* step or, when it is the one that opens, after it.
LEMMA StepsAlone ==
  ASSUME NamespaceTypeOK, OneAtATime, OneAtATime', NEW s \in Sessions,
         op'[s] # "closed" \/ op[s] # "closed",
         \A t \in Sessions \ {s} : op'[t] = op[t]
  PROVE  Alone(s)
BY DEF OneAtATime, Alone

LEMMA NamespaceStep ==
  ASSUME NamespaceInv, OneAtATime, OneAtATime', [NamespaceNext]_namespaceVars
  PROVE  NamespaceInv' /\ StoreStep
<1>1. NamespaceTypeOK /\ NamespaceTypeOK'
  BY NamespaceTypesStep DEF NamespaceInv
<1>2. CASE UNCHANGED namespaceVars
  <2>1. UNCHANGED <<built, dirs, file, pins, op, current, hot, deferred, cleared, todo, target>>
    BY <1>2 DEF namespaceVars, disk, memory
  <2>2. DiskIsCurrent' /\ HotMatchesDisk'
    BY <2>1 DEF NamespaceInv, DiskIsCurrent, HotMatchesDisk
  <2>3. \A s \in Sessions : SessionIsCurrent(s)'
    BY <2>1 DEF NamespaceInv, SessionIsCurrent, Awake, Clearing
  <2>4. QED BY <1>1, <2>1, <2>2, <2>3, StoreRests DEF NamespaceInv
<1>3. CASE NamespaceNext
  <2>1. PICK s \in Sessions :
         \/ Create(s) \/ CreateStep(s) \/ Open(s) \/ Crash(s)
         \/ AdvanceGeneration(s) \/ ClearNamespace(s) \/ ReclaimDeferred(s)
         \/ RemoveDir(s) \/ ReclaimFails(s) \/ Finish(s)
         \/ \E n \in Names :
              BeginWrite(s, n) \/ FinishWrite(s, n) \/ FailWrite(s, n) \/ RemoveFile(s, n)
         \/ \E g \in Generations :
              Pin(s, g) \/ Unpin(s, g) \/ ClearGeneration(s, g) \/ Keep(s, g) \/ BeginReclaim(s, g)
    BY <1>3 DEF NamespaceNext
  <2>2. op'[s] # "closed" \/ op[s] # "closed"
    <3>1. SessionIsCurrent(s) /\ "closed" \notin Names
      BY NamespaceConstants DEF NamespaceInv
    <3>2. target[s] # None => op[s] # "closed"
      BY <3>1 DEF SessionIsCurrent, Clearing
    <3>3. Create(s) \/ Open(s) => op'[s] # "closed"
      BY <1>1 DEF Create, Open, NamespaceTypeOK
    <3>4. CASE Create(s) \/ Open(s)
      BY <3>3, <3>4
    <3>5. CASE ~(Create(s) \/ Open(s))
      BY <2>1, <3>1, <3>2, <3>5
      DEF CreateStep, Crash, AdvanceGeneration, ClearNamespace, ReclaimDeferred, RemoveDir,
          ReclaimFails, Finish, BeginWrite, FinishWrite, FailWrite, RemoveFile, Pin, Unpin,
          ClearGeneration, Keep, BeginReclaim, Turn
    <3>6. QED BY <3>4, <3>5
  <2>3. \A t \in Sessions \ {s} : op'[t] = op[t]
    BY <1>1, <2>1
    DEF Create, Open, NamespaceTypeOK, disk, memory,
        CreateStep, Crash, AdvanceGeneration, ClearNamespace, ReclaimDeferred, RemoveDir,
        ReclaimFails, Finish, BeginWrite, FinishWrite, FailWrite, RemoveFile, Pin, Unpin,
        ClearGeneration, Keep, BeginReclaim
  <2>4. Alone(s)
    BY <1>1, <2>2, <2>3, StepsAlone
  <2>5. QED BY <1>1, <2>1, <2>4, SessionStep
<1>4. QED BY <1>2, <1>3

LEMMA NamespaceStart == ASSUME NamespaceInit PROVE NamespaceInv /\ Store!Start
<1>1. /\ built = 0 /\ dirs = {} /\ pins = {} /\ file = [k \in Keys |-> "absent"]
      /\ \A s \in Sessions : /\ op[s] = "closed" /\ hot[s] = {} /\ todo[s] = {}
                             /\ target[s] = None
  BY DEF NamespaceInit
<1>2. NamespaceTypeOK
  BY NamespaceConstants DEF NamespaceInit, NamespaceTypeOK
<1>3. DiskIsCurrent /\ HotMatchesDisk
  BY <1>1 DEF DiskIsCurrent, HotMatchesDisk
<1>4. \A s \in Sessions : SessionIsCurrent(s)
  BY <1>1, NamespaceConstants DEF SessionIsCurrent, Awake, Clearing
<1>5. Store!Start
  BY <1>1 DEF Store!Start, Newest, Entries, Wholes
<1>6. QED BY <1>2, <1>3, <1>4, <1>5 DEF NamespaceInv

\* What the one session that is awake believes of the disk stays so: it follows
\* the newest generation, and removes what is older, cleared and not pinned.
THEOREM NamespaceInvariant == NamespaceSpec /\ []OneAtATime => []NamespaceInv
<1>1. NamespaceInit => NamespaceInv
  BY NamespaceStart
<1>2. NamespaceInv /\ OneAtATime /\ OneAtATime' /\ [NamespaceNext]_namespaceVars => NamespaceInv'
  BY NamespaceStep
<1>3. QED BY <1>1, <1>2, PTL DEF NamespaceSpec

\* Hot and cold reads agree, whatever dies and is opened again (namespace.rs).
THEOREM NamespaceStaysCoherent == NamespaceSpec /\ []OneAtATime => []NamespaceIsCoherent
<1>1. NamespaceInv => NamespaceIsCoherent
  BY DEF NamespaceInv, NamespaceIsCoherent
<1>2. QED BY <1>1, NamespaceInvariant, PTL

\* A root used by one session at a time is a store of numbered generations.
THEOREM NamespaceImplementsStore == NamespaceSpec /\ []OneAtATime => ImplementsStore
<1>1. NamespaceInit => Store!Start
  BY NamespaceStart
<1>2. NamespaceInv /\ OneAtATime /\ OneAtATime' /\ [NamespaceNext]_namespaceVars => StoreStep
  BY NamespaceStep
<1>3. NamespaceInv /\ OneAtATime /\ OneAtATime' /\ [NamespaceNext]_namespaceVars
        => [Store!StoreNext]_(Store!store)
  BY <1>2 DEF StoreStep
<1>4. QED BY <1>1, <1>3, NamespaceInvariant, PTL DEF NamespaceSpec, ImplementsStore, Store!StoreSpec
=============================================================================
