---------------------------- MODULE BridgeSessions ----------------------------
(***************************************************************************)
(* The session registries behind the C bridge (fcb-bridge, *_sessions.rs): *)
(* a bounded table of cells, each with a closed flag, a cancellation epoch *)
(* and a state behind a try-lock.  Calls run on the host's threads beside  *)
(* cancel and close, and a call on two cells takes their locks one by one. *)
(* The six registries share one construction; one table stands for them    *)
(* all, and a call between two registries is a call on two of its cells.   *)
(*                                                                         *)
(* A call is a script of the steps its function takes, in the order of the *)
(* code.  Steps are merged where only a cancel or close could come between *)
(* with the effect it has just before: get and the read of the epoch, a    *)
(* try-lock and the validate under it, the last poll and the installation. *)
(* Abstracted: the table's own try-lock, whose Busy changes nothing; the   *)
(* work itself, which succeeds, fails, or leaves a paused job (searches    *)
(* and index builds of the atlas); replies.  The desk's start, save and    *)
(* export, which report what they did without a final check, are left out. *)
(***************************************************************************)
EXTENDS Naturals, Sequences, FiniteSets, FiniteSetsExt

CONSTANTS
    Threads,         \* the host's threads
    MaxSessions,     \* MAX_*_SESSIONS of the registry
    MaxHandles,      \* bound: handles the process allocates
    MaxRevocations   \* bound: cancels and closes together

Issued == 1 .. MaxHandles
Nobody == "nobody"
Idle == [op |-> "idle"]

ASSUME SessionsAssumption ==
    /\ {MaxSessions, MaxHandles, MaxRevocations} \subseteq Nat \ {0}
    /\ IsFiniteSet(Threads)
    /\ Nobody \notin Threads

VARIABLES
    nextHandle,   \* NEXT_HANDLE: handles below it are allocated
    table,        \* handles whose cell is in the registry
    cell,         \* every cell: its atomics, its lock and its state
    calls,        \* per thread, the call in progress
    delivered     \* history: a revoked call has reported success

sessionVars == <<nextHandle, table, cell, calls, delivered>>

NewCell == [closed |-> FALSE, epoch |-> 1, lock |-> Nobody, open |-> FALSE,
            job |-> 0, receipts |-> {}]

SessionsInit ==
    /\ nextHandle = 1
    /\ table = {}
    /\ cell = [h \in Issued |-> NewCell]
    /\ calls = [t \in Threads |-> Idle]
    /\ delivered = FALSE

(* What a call does, by its function: first cell 1, the source or the only  *)
(* one, then cell 2, the destination or the other reader.                   *)
OpenScript == <<"get1", "empty1", "install1", "check1">>
BeginScript == <<"get1", "open1", "pause", "check1">>
StepScript == <<"get1", "open1", "work", "check1">>
TransferScript == <<"get1", "open1", "get2", "empty2", "install2", "check2", "check1">>
ImportScript == <<"get1", "open1", "get2", "open2", "work", "check2", "check1">>
CompareScript == <<"get1", "get2", "open1", "open2", "work", "check2", "check1">>

Script == [open |-> OpenScript, begin |-> BeginScript, step |-> StepScript,
           transfer |-> TransferScript, import |-> ImportScript, compare |-> CompareScript]

At(t, step) == calls[t].op # "idle" /\ Script[calls[t].op][calls[t].pc] = step

(* Cells are shared pointers: the table and the calls that got one hold it. *)
HeldBy(t) == IF calls[t].op = "idle" THEN {}
             ELSE {calls[t].on[i] : i \in calls[t].held}

Reachable(h) == h \in table \/ \E t \in Threads : h \in HeldBy(t)

AdmitsTabled == Cardinality(table) < MaxSessions

Admits == Cardinality({h \in Issued : Reachable(h)}) < MaxSessions

CreateSession ==
    /\ Admits
    /\ nextHandle <= MaxHandles
    /\ table' = table \cup {nextHandle}
    /\ nextHandle' = nextHandle + 1
    /\ UNCHANGED <<cell, calls, delivered>>

-----------------------------------------------------------------------------
(* Calls. *)

BeginCall(t, op, first, second) ==
    /\ calls[t] = Idle
    /\ op \in {"transfer", "import", "compare"} <=> first # second
    /\ calls' = [calls EXCEPT ![t] =
         [op |-> op, pc |-> 1, on |-> <<first, second>>, epochs |-> <<0, 0>>,
          held |-> {}, ok |-> TRUE, revoked |-> FALSE]]
    /\ UNCHANGED <<nextHandle, table, cell, delivered>>

Bumped(t) == [calls[t] EXCEPT !.pc = @ + 1]

Free(cells, t, hs) ==
    [h \in Issued |->
       IF h \in hs /\ cells[h].lock = t THEN [cells[h] EXCEPT !.lock = Nobody] ELSE cells[h]]

FinishCall(t, cells, ok) ==
    /\ cell' = Free(cells, t, HeldBy(t))
    /\ calls' = [calls EXCEPT ![t] = Idle]
    /\ delivered' = (delivered \/ (ok /\ calls[t].revoked))

RejectedKeepsReceipt(t) ==
    IF calls[t].op = "transfer"
    THEN [cell EXCEPT ![calls[t].on[1]].receipts = @ \cup {calls[t].on[2]}] ELSE cell

(* A rejected candidate is dropped, and the receipt staged for it with it. *)
Rejected(t) == cell

(* An early return: out of the call, or, from the destination's part of a   *)
(* transfer or from the work, to the checks that are still made.            *)
Fail(t) ==
    LET script == Script[calls[t].op]
        working == script[calls[t].pc] \in {"install1", "install2", "pause", "work"}
        nested == calls[t].op \in {"transfer", "import"} /\ calls[t].pc > 2
        dropped == {2} \cap calls[t].held
    IN /\ \/ /\ working
             /\ calls' = [calls EXCEPT ![t] = [Bumped(t) EXCEPT !.ok = FALSE]]
             /\ cell' = Rejected(t)
             /\ UNCHANGED delivered
          \/ /\ nested /\ ~working
             /\ calls' = [calls EXCEPT ![t].pc = Len(script), ![t].ok = FALSE,
                                       ![t].held = @ \ dropped]
             /\ cell' = Free(cell, t, {calls[t].on[i] : i \in dropped})
             /\ UNCHANGED delivered
          \/ /\ ~nested /\ ~working
             /\ FinishCall(t, cell, FALSE)
       /\ UNCHANGED <<nextHandle, table>>

(* get clones the cell's pointer under the table's lock; the epoch is read  *)
(* next.                                                                    *)
Get(t, i) ==
    LET h == calls[t].on[i] IN
    /\ At(t, IF i = 1 THEN "get1" ELSE "get2")
    /\ IF h \in table
       THEN /\ calls' = [calls EXCEPT ![t] = [Bumped(t) EXCEPT
                           !.held = @ \cup {i}, !.epochs[i] = cell[h].epoch]]
            /\ UNCHANGED <<nextHandle, table, cell, delivered>>
       ELSE Fail(t)

ValidUnlessClosed(h, epoch) == ~cell[h].closed

Valid(h, epoch) == ~cell[h].closed /\ cell[h].epoch = epoch

KeptJob(c, epoch) == c

(* A paused job's epoch is the session's operation_epoch. *)
Synchronized(c, epoch) == IF c.job # epoch THEN [c EXCEPT !.job = 0] ELSE c

(* The state's try-lock, validate, and the state the function needs: an     *)
(* open session, whose obsolete job is reclaimed, or an empty destination.  *)
Enter(t, i, open) ==
    LET h == calls[t].on[i]
        c == cell[h]
        epoch == calls[t].epochs[i]
    IN /\ At(t, CASE i = 1 /\ open -> "open1" [] i = 1 /\ ~open -> "empty1"
                  [] i = 2 /\ open -> "open2" [] OTHER -> "empty2")
       /\ IF c.lock = Nobody /\ Valid(h, epoch) /\ c.open = open
          THEN /\ cell' = [cell EXCEPT ![h] =
                             [(IF open THEN Synchronized(c, epoch) ELSE c) EXCEPT !.lock = t]]
               /\ calls' = [calls EXCEPT ![t] = Bumped(t)]
               /\ UNCHANGED <<nextHandle, table, delivered>>
          ELSE Fail(t)

Stopped(t) == \E i \in calls[t].held : ~Valid(calls[t].on[i], calls[t].epochs[i])

(* The work of a call, which may fail, and fails when its poll finds the    *)
(* call revoked.                                                            *)
Work(t) ==
    /\ At(t, "work")
    /\ \/ /\ ~Stopped(t)
          /\ calls' = [calls EXCEPT ![t] = Bumped(t)]
          /\ UNCHANGED <<nextHandle, table, cell, delivered>>
       \/ Fail(t)

(* After a last poll the candidate is installed and the source's receipt    *)
(* accepted, with no poll in between.                                       *)
Install(t, i) ==
    LET h == calls[t].on[i] IN
    /\ At(t, IF i = 1 THEN "install1" ELSE "install2")
    /\ \/ /\ ~Stopped(t)
          /\ cell' = [cell EXCEPT ![h].open = TRUE,
                ![calls[t].on[1]].receipts = IF i = 2 THEN @ \cup {h} ELSE @]
          /\ calls' = [calls EXCEPT ![t] = Bumped(t)]
          /\ UNCHANGED <<nextHandle, table, delivered>>
       \/ Fail(t)

(* A resumable search or index build is left paused in the session. *)
Pause(t) ==
    /\ At(t, "pause")
    /\ \/ /\ ~Stopped(t)
          /\ cell' = [cell EXCEPT ![calls[t].on[1]].job = calls[t].epochs[1]]
          /\ calls' = [calls EXCEPT ![t] = Bumped(t)]
          /\ UNCHANGED <<nextHandle, table, delivered>>
       \/ Fail(t)

(* The final validate of a function, with which its lock is released. *)
Check(t, i) ==
    LET h == calls[t].on[i]
        valid == Valid(h, calls[t].epochs[i])
        checked == IF valid THEN cell ELSE [cell EXCEPT ![h].job = 0]
    IN /\ At(t, IF i = 1 THEN "check1" ELSE "check2")
       /\ IF i = 1 THEN FinishCall(t, checked, calls[t].ok /\ valid)
          ELSE /\ cell' = Free(checked, t, {h})
               /\ calls' = [calls EXCEPT ![t] =
                              [Bumped(t) EXCEPT !.ok = @ /\ valid, !.held = @ \ {i}]]
               /\ UNCHANGED delivered
       /\ UNCHANGED <<nextHandle, table>>

CallStep(t) ==
    \/ \E i \in {1, 2} : Get(t, i) \/ Install(t, i) \/ Check(t, i)
    \/ \E i \in {1, 2}, open \in BOOLEAN : Enter(t, i, open)
    \/ Work(t) \/ Pause(t)

-----------------------------------------------------------------------------
(* Cancel and close, which take no cell lock.                               *)

Touches(t, h) == \E i \in {1, 2} :
    calls[t].op # "idle" /\ i \in calls[t].held /\ calls[t].on[i] = h

Revocations ==
    MapThenSumSet(LAMBDA h : cell[h].epoch - 1 + (IF cell[h].closed THEN 1 ELSE 0), Issued)

Revoke(h) ==
    /\ Revocations < MaxRevocations
    /\ calls' = [t \in Threads |->
                  IF Touches(t, h) THEN [calls[t] EXCEPT !.revoked = TRUE] ELSE calls[t]]

Cancel(h) ==
    /\ h \in table
    /\ cell' = [cell EXCEPT ![h].epoch = @ + 1]
    /\ Revoke(h)
    /\ UNCHANGED <<nextHandle, table, delivered>>

Close(h) ==
    /\ h \in table
    /\ table' = table \ {h}
    /\ cell' = [cell EXCEPT ![h].closed = TRUE]
    /\ Revoke(h)
    /\ UNCHANGED <<nextHandle, delivered>>

SessionsNext ==
    \/ CreateSession
    \/ \E t \in Threads :
          \/ CallStep(t)
          \/ \E op \in DOMAIN Script, first, second \in table : BeginCall(t, op, first, second)
    \/ \E h \in Issued : Cancel(h) \/ Close(h)

SessionsSpec == SessionsInit /\ [][SessionsNext]_sessionVars

-----------------------------------------------------------------------------
(* Closed sessions keep their admission until the last call in flight lets  *)
(* the cell go: the registry never keeps more sessions alive than it admits *)
(* (reader_sessions.rs:6-8).                                                *)
RetiringCountsAsLive == Cardinality({h \in Issued : Reachable(h)}) <= MaxSessions

(* A call that was cancelled or closed after it read its epoch, and before  *)
(* its last check, does not report success (reader_sessions.rs:251-254).    *)
RevokedIsNotDelivered == ~delivered

(* A paused search or index build is resumed only by a call of the epoch it *)
(* was begun in (atlas_sessions.rs, Session::synchronize).                  *)
ObsoleteJobsAreNotResumed ==
    \A t \in Threads :
        At(t, "work") /\ calls[t].op = "step"
            => cell[calls[t].on[1]].job \in {0, calls[t].epochs[1]}

(* A source's receipt names a destination only if it was installed, from    *)
(* this source and no other, whatever was cancelled, closed or failed       *)
(* meanwhile (reader_sessions.rs:241-244).                                  *)
ReceiptsNameReaders ==
    \A h \in Issued : \A d \in cell[h].receipts :
        cell[d].open /\ \A o \in Issued \ {h} : d \notin cell[o].receipts

(* Sessions are counted while a call can reach them, and what they pass on  *)
(* (paused jobs, receipts) belongs to sessions that are there.              *)
SessionsAreAccounted ==
    RetiringCountsAsLive /\ ObsoleteJobsAreNotResumed /\ ReceiptsNameReaders
=============================================================================
