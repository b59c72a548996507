------------------------- MODULE ObservedSnapshots --------------------------
(***************************************************************************)
(* Reading a file that others write, and keeping what was read: the        *)
(* bounded retry of BoundedRetryReader and the pinned captures of          *)
(* PinnedSnapshotStore (fcb-source/src/snapshot.rs, chunk.rs).             *)
(*                                                                         *)
(* The writer is external and steps between any two reads of a chunk.  Its *)
(* writes move the modification time unless the clock is too coarse to see *)
(* them.  A chunk's bytes are the number of the write that made them.      *)
(***************************************************************************)
EXTENDS Integers, Sequences, FiniteSets

CONSTANTS
  Revisions, Stores, Tokens,
  MaxChunks, MaxWrites,   \* bounds: length of the file, writes to it
  MaxRetries,             \* RetryPolicy::max_retries
  CoarseClock,            \* a write may leave the modification time as it is
  NoCapture, NoPin

ASSUME SnapshotAssumption ==
  /\ MaxChunks \in Nat \ {0} /\ MaxWrites \in Nat /\ MaxRetries \in Nat
  /\ CoarseClock \in BOOLEAN
  /\ Tokens \subseteq Nat

VARIABLES
  bytes, modified, writes,  \* external: the file, its time, writes so far
  past,                     \* history: what the file has been since it was opened
  reading,                  \* "no", "stat", "chunks", "check"
  before, got, retries,     \* stat_before, chunks read, retries
  capture,                  \* what read_file_with_retry returned, or NoCapture
  snapshots,                \* captures by store and revision
  activePins,               \* active_pins: tokens by store and revision
  pinned,                   \* the pins their holders have: store, revision, capture
  nextToken                 \* NEXT_PIN_ID

source == <<bytes, modified, writes, past>>
reader == <<reading, before, got, retries, capture>>
holds == <<activePins, pinned, nextToken>>
snapshotVars == <<source, reader, snapshots, holds>>

Write ==
  /\ writes < MaxWrites
  /\ writes' = writes + 1
  /\ \/ \E i \in 1..Len(bytes) : bytes' = [bytes EXCEPT ![i] = writes + 1]
     \/ Len(bytes) < MaxChunks /\ bytes' = Append(bytes, writes + 1)
     \/ Len(bytes) > 1 /\ bytes' = SubSeq(bytes, 1, Len(bytes) - 1)
  /\ modified' \in {modified + 1} \cup IF CoarseClock THEN {modified} ELSE {}
  /\ past' = past \cup {bytes'}
  /\ UNCHANGED <<reader, snapshots, holds>>

-----------------------------------------------------------------------------
(* read_file_with_retry.                                                   *)

StatBefore ==
  /\ reading = "stat"
  /\ reading' = "chunks"
  /\ before' = <<Len(bytes), modified>>
  /\ got' = <<>>
  /\ past' = {bytes}
  /\ UNCHANGED <<bytes, modified, writes, retries, capture, snapshots, holds>>

BeginRead ==
  /\ reading = "no"
  /\ reading' = "stat"
  /\ retries' = 0
  /\ capture' = NoCapture
  /\ UNCHANGED <<source, before, got, snapshots, holds>>

ReadChunk ==
  /\ reading = "chunks"
  /\ Len(got) < Len(bytes)
  /\ got' = Append(got, bytes[Len(got) + 1])
  /\ UNCHANGED <<source, reading, before, retries, capture, snapshots, holds>>

Retry ==
  /\ reading' = "stat"
  /\ retries' = retries + 1
  /\ UNCHANGED <<before, got, capture>>

GiveUp ==
  /\ reading' = "no"
  /\ UNCHANGED <<before, got, retries, capture>>

\* At the end of the file, or after a short chunk taken for it: a length other
\* than expected is a modification.
EndOfFile ==
  /\ reading = "chunks"
  /\ Len(got) >= Len(bytes) \/ (got # <<>> /\ Len(got) = before[1])
  /\ IF Len(got) = before[1]
       THEN reading' = "check" /\ UNCHANGED <<before, got, retries, capture>>
       ELSE IF retries < MaxRetries THEN Retry ELSE GiveUp
  /\ UNCHANGED <<source, snapshots, holds>>

\* Mutant: only the length is compared.
SettledByLength == before[1] = Len(bytes)

Settled == before = <<Len(bytes), modified>>

StatAfter ==
  /\ reading = "check"
  /\ IF Settled \/ retries >= MaxRetries
       THEN /\ reading' = "no"
            /\ capture' = [chunks |-> got, settled |-> Settled]
            /\ UNCHANGED <<before, got, retries>>
       ELSE Retry
  /\ UNCHANGED <<source, snapshots, holds>>

CancelRead ==
  /\ reading # "no"
  /\ GiveUp
  /\ UNCHANGED <<source, snapshots, holds>>

-----------------------------------------------------------------------------
(* PinnedSnapshotStore.                                                    *)

Insert(s, r) ==
  /\ capture # NoCapture
  /\ snapshots[s][r] = NoCapture
  /\ snapshots' = [snapshots EXCEPT ![s][r] = capture]
  /\ UNCHANGED <<source, reader, holds>>

PinSnapshot(s, r) ==
  /\ snapshots[s][r] # NoCapture
  /\ nextToken \in Tokens
  /\ nextToken' = nextToken + 1
  /\ activePins' = [activePins EXCEPT ![s][r] = @ \cup {nextToken}]
  /\ pinned' = [pinned EXCEPT ![nextToken] =
                  [store |-> s, revision |-> r, capture |-> snapshots[s][r]]]
  /\ UNCHANGED <<source, reader, snapshots>>

\* Mutant: any pin of a capture releases all of them.
WithoutAll(s, r, t) == IF t \in activePins[s][r] THEN {} ELSE activePins[s][r]

Without(s, r, t) == activePins[s][r] \ {t}

\* A token may be offered to any store: only its own store's pin goes.
UnpinSnapshot(s, t) ==
  /\ pinned[t] # NoPin
  /\ LET r == pinned[t].revision IN
       /\ activePins' = [activePins EXCEPT ![s][r] = Without(s, r, t)]
       /\ pinned' = [pinned EXCEPT ![t] = IF s = @.store THEN NoPin ELSE @]
  /\ UNCHANGED <<source, reader, snapshots, nextToken>>

Evictable(s, r) == activePins[s][r] = {}

Evict(s, r) ==
  /\ snapshots[s][r] # NoCapture
  /\ Evictable(s, r)
  /\ snapshots' = [snapshots EXCEPT ![s][r] = NoCapture]
  /\ UNCHANGED <<source, reader, holds>>

\* A clone has the captures and none of the pins.
ClonedPins(s, t) == [activePins EXCEPT ![t] = [r \in Revisions |-> {}]]

CloneStore(s, t) ==
  /\ s # t
  /\ \A r \in Revisions : snapshots[t][r] = NoCapture
  /\ snapshots' = [snapshots EXCEPT ![t] = snapshots[s]]
  /\ activePins' = ClonedPins(s, t)
  /\ UNCHANGED <<source, reader, pinned, nextToken>>

SnapshotInit ==
  /\ bytes = [i \in 1..MaxChunks |-> 0] /\ modified = 0 /\ writes = 0 /\ past = {bytes}
  /\ reading = "no" /\ before = <<0, 0>> /\ got = <<>> /\ retries = 0 /\ capture = NoCapture
  /\ snapshots = [s \in Stores |-> [r \in Revisions |-> NoCapture]]
  /\ activePins = [s \in Stores |-> [r \in Revisions |-> {}]]
  /\ pinned = [t \in Tokens |-> NoPin] /\ nextToken = 1

SnapshotNext ==
  \/ Write \/ BeginRead \/ StatBefore \/ ReadChunk \/ EndOfFile \/ StatAfter \/ CancelRead
  \/ \E s \in Stores :
       \/ \E t \in Tokens : UnpinSnapshot(s, t)
       \/ \E t \in Stores : CloneStore(s, t)
       \/ \E r \in Revisions : Insert(s, r) \/ PinSnapshot(s, r) \/ Evict(s, r)

SnapshotSpec == SnapshotInit /\ [][SnapshotNext]_snapshotVars

-----------------------------------------------------------------------------
(* Properties.                                                             *)

\* A capture that claims to match is what the file was at one instant, if the
\* clock sees every write: no mixture of two versions is published as settled.
SettledIsOneVersion ==
  ~CoarseClock /\ reading = "no" /\ capture # NoCapture /\ capture.settled
    => capture.chunks \in past

\* While a holder has a pin, the capture it pinned stays in its store, the same
\* bytes, whatever other holders, clones and evictions do.
PinnedCaptureStays ==
  \A t \in Tokens : pinned[t] # NoPin =>
    /\ t \in activePins[pinned[t].store][pinned[t].revision]
    /\ snapshots[pinned[t].store][pinned[t].revision] = pinned[t].capture

\* Readers hold captures of one version each, for as long as they pin them.
CapturesAreWhole == SettledIsOneVersion /\ PinnedCaptureStays
=============================================================================
