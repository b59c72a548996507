# FrankenCodeBrowser: specifications, model checking and proofs

TLA+ specifications of the parts of FrankenCodeBrowser whose correctness depends
on order: threads, callbacks, crashes, late answers, stale handles, bytes that
come in pieces. Beside them, the TLC configurations that check them on small
instances, and proofs for every value of the constants. `PROJECT.json` maps
every definition to the lines it stands for. Paths below are relative to the
repository; `crates/` and `native/` are its two source trees.

    tlc -workers 2 -config Workspace.cfg MCWorkspace.tla
    tlapm StoresProofs.tla

## 1. Inventory

The program is a library of crates with a native host. The host's main thread
runs turns and draws frames; GPU completion callbacks, scanners, indexers and
publishers run on other threads, and foreign threads enter through the bridge.
They meet in the wake probe (threads call the host), the resource ledger
(everybody charges what he keeps), the retirement queue (publishers hand old
artifacts to a maintenance thread), the two queues of GPU work and the bridge's
registries. The stores meet other programs on disk. The interface, the atlas, the
desk and the text algorithms are sequential; what is hard there is a call that
comes late, twice, half way through something, or cut at an awkward byte.

### The runtime

**Resource ledger** (`fcb-core/src/resources.rs`). State: byte counters by
class (ordinary, terminal, retirement) and kind (managed, queue), a peak, a map
of allocations with reference and owner counts, and leases cloned by anybody.
Operations: reserve in a class, reserve in acquisition order, share under
another owner, reconcile to the actual size, clone, drop. One mutex; a drop is
two steps, because the last clone is gone before `LeaseInner::drop` locks. Used
by retirement, terminal records, snapshots, bridge sessions. Hard: checked
arithmetic that must refuse before it changes anything, references and owners
that must agree with leases dropped on any thread, pools that ordinary work
must never enter. Correct when: counters equal the sums over the map; an
allocation is charged exactly while a lease refers to it; refusals are atomic.

**Wake probe** (`fcb-runtime/src/lib.rs`). State: a bounded FIFO of ordered
commands, one coalesced motion update, a generation counter, a pending flag
with its urgency. Operations: request a wake, publish a command, publish
motion, take a batch of bounded size, acknowledge it. Producers on any thread;
turns may hold several batches. Hard: an acknowledgement racing a new request,
bounded batches that leave commands behind, an urgent request coalesced with a
background one. Correct when: nothing waits without a wake, commands come out
once and in order, the newest motion survives, urgency only rises until a turn
has seen it.

**Retirement queue** (`fcb-core/src/retirement.rs`). State: reserved slots, a
deque of retired items, retained bytes, a lease on the budget's retirement
pool per item. Operations: reserve, swap the published `Arc` and push the old
one, drop a reservation, pop a batch and destroy it outside the lock. Hard:
room must be certain at the swap, destruction overlaps everything else, two
drains overlap each other. Correct when: slots and bytes are accounted for,
every replaced artifact is destroyed once and none that is published, deferred
publishers are not starved.

**Terminal drain** (`fcb-runtime/src/terminal.rs`). State: slots of submission
records with leases and payloads, an in-flight count, a closed flag, an atomic
`has_unserviced_wake` beside the mutex. Operations: reserve, attach, commit,
abort, record a completion from a driver callback, cancel, signal the wake (an
atomic swap, then a publication under the lock), drain (clear the flag, take
the completed records under the lock, process them outside), close. It drives
the wake probe. Hard: everything between those steps; completion before
commit; cancellation of running work; two drains; closing with work in flight.
Correct when: each admitted record is drained once with its last status, or
aborted; leases and payloads leave with it; no completed record waits without
a wake on its way.

**GPU submission** (`native/macos/src/submission.rs`, buffers of `lib.rs`).
State: per queue a generation, a capacity and reservations; encoders and slots
in flight with their leases; per buffer a generation and an in-flight mark; a
device-wide resource epoch. Operations: begin, encode a copy, commit, drop,
cancel, poll, wait, drain, drop the queue, start a new epoch. All on the main
thread, beside the GPU. Hard: leases of several encoders and queues of one
device, cancellation against completion, early returns with one of two leases
taken, command buffers finishing in any order or failing.

### The host

**Frame pacing** (`native/macos/src/pacing.rs`, `scheduler.rs`,
`view_binding.rs`). State: the scheduler's visibility and pending request, an
engine with its in-flight count and generations, frames on their way to the
screen, a view binding with an owner and leases. Operations: request, start,
present and drop a frame, change camera and visibility, pause, invalidate,
replace the engine, attach, detach, lease. Hard: frames that outlive the engine
or owner they were made for. Correct when: counts are those of the live frames
and leases, a request does not get lost while the engine sleeps.

**Glyph atlas** (`fcb/src/glyph_atlas.rs`). State: pages of shelves and slots
with generations, pins and last use, an index by key, a bounded queue of raster
misses, the device's generation. Operations: allocate, query with a miss,
process a request, pin and unpin, new frame, reset of the device. Hard: draw
data keeps references to slots that are evicted and reused. Correct when: an
index entry is its glyph's slot, a stale reference stays stale, what a command
buffer reads is not reused, glyphs do not touch.

**Handle tables** (`fcb-core/src/handles.rs`). State: per table a domain, slots
with a generation and a free list. Operations: new table, insert, update,
remove; any handle may be shown to any table. Correct when: a handle names one
value for ever or nothing.

**Reading desk** (`fcb/src/ui/reading_panes/desk.rs`, `desk/checkpoint.rs`).
State: panes, visits with a cursor, bookmarks, retained captures, identities.
Operations: open, focus, pin, duplicate, close, navigate, scroll, revisit, mark,
edit, recall, reattach, forget, clear, save and restore. Hard: what retains a
capture, identities across a restore, visits whose pane is gone. Correct when:
whatever a step leaves can be saved and restored, the cursor is where the reader
is, numbers are not used twice, pins and notes stay until they are let go.

### The workspace

**Cache namespaces** (`fcb-store/src/namespace.rs`). State: numbered generation
directories, entries and pin markers on disk; a session's current generation,
hot copies, deferred and cleared sets in memory. Operations: create, open, write,
pin, unpin, advance, clear, reclaim. Hard: a crash between any two file
operations, deferred work known only to a session that has ended, a removal that
fails half way. Correct when: pinned generations survive every clear, nothing is
added to an old generation, memory agrees with disk, generations only grow.

**Reconciliation and continuity** (`fcb-source/src/reconciliation.rs`). State: a
sequence of dirty hints, passes with a scope and a start, records of the files;
identities and notes by path. Operations: hint, start, look, exclude, finish;
observe, tombstone, note. Hard: files change while they are enumerated, names
are recycled. Correct when: no change is lost, nothing is declared gone that is
there, a note stays on the file and text it was made for.

**Observed snapshots** (`fcb-source/src/snapshot.rs`, `chunk.rs`). State: one
read with its retries, captures and pins by store and revision. Hard: a writer
between any two reads, a clone of a store with a pin of the original. Correct
when: what a read settles on was the file at one time, a pinned capture stays.

**Bridge sessions** (`fcb-bridge/src/*_sessions.rs`). State: a bounded table of
cells, each with a closed flag, a cancellation epoch and a state behind a
try-lock. Foreign threads create, call, cancel and close at once; a call on two
sessions takes two locks. Correct when: a call revoked while it worked delivers
nothing, capacity is given back when the last call lets go, a paused job is
resumed only in its epoch.

**Search, focus and panes of the interface** (`fcb/src/ui`). State: a draft, the
active query and rows; focus with its return stack, palette, panes, gesture and
the queue of discrete input. Hard: answers that come late, twice, out of order or
never, input that waits while the pane it is aimed at is closed. Correct when:
rows carry the text they were asked for, every request ends, Escape always backs
out of something, closing the palette returns where it came from.

**Map navigation** (`fcb-map/src/navigation.rs`). State: entries behind, at and
ahead, a flight, reduced motion. Hard: a flight interrupted half way, where the
camera may have no exact value. Correct when: back and forward walk one trail,
the history is bounded, the screen does not jump.

### The content

**Encodings** (`fcb-source/src/encoding.rs`): decoding of UTF-8, UTF-16 and
escapes, maps between original, decoded, UTF-16 and scalar offsets, and a decoder
of chunks cut anywhere. **Search** (`fcb-search/src/text.rs`, `capture.rs`,
`stream.rs`, `normalized.rs`; `fcb/src/search/streaming.rs`): overlapping matches
over chunks, and in a file that is read once in interruptible steps. **Lines**
(`fcb-source/src/line_index.rs` and `line_index/window.rs`; `fcb-app/src/lines.rs`,
`host/reader`, `host/position`): windows of lines, a resumable index, a reader's
checkpoints, a named file. State: what is held back of the last chunk, the
cursor, budgets, checkpoints. Hard: cuts inside a character, a unit or a CRLF,
short reads, interruption and resumption, limits met in the middle of a match.
Correct when: the answer is that of the whole file whatever the cuts, and an
interrupted search is never stuck.

### Not modelled

Traces and clocks, identities and geometry, host adapters (clipboard, IME,
accessibility), persisted envelopes, discovery and ignore rules, long lines,
indexes and query engines, map layout, documents, code facts, rendering, the
command line, the FFI marshalling and the SwiftUI application. They are value
types, formats, drivers of the parts above, or pure algorithms on text and
geometry that keep no state between calls and are tested against oracles in
their crates. Harnesses, examples and scripts are not part of the product.
`PROJECT.json` lists every part with its reason.

## 2. Modules

| module | stands for | composed with |
|---|---|---|
| `ResourceLedger` | `resources.rs`, one action per locked operation, two for a drop | - |
| `WakeProbe` | `fcb-runtime/src/lib.rs`, one action per locked operation | - |
| `RetirementQueue` | `retirement.rs`; cancelling and draining split where the lock is let go | the ledger's retirement pool, as one byte counter |
| `CompletionChannel` | abstract: what the drain promises to owners of GPU work | implemented by `TerminalDrain` |
| `TerminalDrain` | `terminal.rs`, one action per critical section or atomic access | `INSTANCE WakeProbe` |
| `GpuSubmission` | `submission.rs` and the flight marks of `lib.rs`, one action per call | the GPU, external |
| `FramePacing` | `pacing.rs`, `scheduler.rs`, `view_binding.rs`, one action per call | the screen |
| `GlyphAtlas` | `glyph_atlas.rs`, one action per call | draw data and command buffers that keep references |
| `HandleRegistry` | abstract: what a handle promises | implemented by `HandleTables` |
| `HandleTables` | `handles.rs` | - |
| `ReadingDesk` | `desk.rs`, `desk/checkpoint.rs`, one action per published command | - |
| `GenerationStore` | abstract: numbered generations that only grow | implemented by `CacheNamespace` |
| `CacheNamespace` | `namespace.rs`, one action per file operation | the disk, crashes |
| `Reconciliation` | passes and hints of `reconciliation.rs` | the file system and its watcher, external |
| `FileContinuity` | the two registries of `reconciliation.rs` and their caller | the file system, external |
| `ObservedSnapshots` | `snapshot.rs`, `chunk.rs`, one action per read | a writer, external |
| `BridgeSessions` | the registry all `*_sessions.rs` are built from, one action per lock, check or installation | the host's threads |
| `UiSearch` | requests and rows of `reducer.rs`, `sidebar.rs`, `search_navigation.rs` | the workers, external |
| `UiShell` | `reducer.rs`, `focus.rs`, `reading_panes.rs`, `gesture.rs`, `motion_mailbox.rs` | the user |
| `MapNavigation` | `navigation.rs` | - |
| `SourceBytes` | operators: marks, detection and units of `encoding.rs` | used by the modules below |
| `SourceEncoding` | operators: decoding, offset maps of `encoding.rs` | `SourceBytes` |
| `ChunkDecoder` | `StatefulChunkDecoder` | `SourceEncoding` |
| `ByteSearch` | operators: the cursors of `stream.rs` and `normalized.rs` | - |
| `TextScan` | `text.rs`, `capture.rs` | `SourceEncoding`, `ByteSearch` |
| `ReaderSearch` | `search/streaming.rs` | a reader, external; `SourceEncoding`, `ByteSearch` |
| `LineWindow` | operators: `line_index/window.rs` | `SourceBytes` |
| `LineIndex` | `line_index.rs` | `LineWindow` |
| `ReaderLines` | `read_lines` and `read_position` of a reader session | `LineWindow` |
| `LineReading` | `lines.rs` of `fcb-app` | `LineWindow`, the file, external |
| `MCResourceLedger`, `MCTerminalDrain`, `MCRetirementQueue` | instances of one module | |
| `MCRuntime` | wake probe, GPU submission | |
| `MCSettling` | terminal drain, retirement queue, with fairness | |
| `MCHost` | pacing, atlas, handles, the desk twice | |
| `MCWorkspace` | namespace, reconciliation, continuity, snapshots, sessions, search, shell, navigation | |
| `MCContent` | decoder, scan, reader, index, lines, named file | |
| `StoresProofs` | theorems about namespace, reconciliation, continuity, snapshots, sessions, shell | |
| `HostProofs` | theorems about pacing, atlas, search, navigation | |
| `RuntimeProofs` | theorems about the wake probe and GPU submission | |
| `LineProofs` | theorems about line windows, reader sessions, named files and the line index | |
| `SearchProofs` | theorems about the cursors, raw scans and searches of a reader | |
| the other `...Proofs` | theorems about the module of that name | |

The parts in `MCRuntime`, `MCSettling`, `MCHost`, `MCWorkspace` and `MCContent`
share no state. There `subject` is chosen at the start; that part moves and the
others rest in their initial state, so that state spaces add up instead of
multiplying. A property about a part at rest holds of its initial state only
and costs nothing.

Operators named `...Late`, `...Always`, `...None` and the like, under a comment
that starts with *Mutant*, are not part of a specification. Each is a plausible
bug in the definition that follows it and makes a property of a run fail, which
shows that the property depends on that line of the code.

**ResourceLedger.** `reserved`, `terminalReserved`, `retirementReserved`,
`managed`, `queue`, `peakReserved`, `activeLeases`, `allocations` are the fields
of `ResourceLedger`; `leases[h]` is one `LeaseInner` with the number of its
clones, `lastOrder[o]` one `ResourceAcquisitionSequence`. `outcome` is the
result of the last call. Refusals follow the order in which the code tests.
`MaxWord` is the width of a counter; an overflow is a refusal, a
subtraction below zero would break `LedgerTypeOK`.

**WakeProbe.** The variables are the fields of `WakeState`; `batch[c]` is what a
turn has taken. A command is numbered by acceptance and a motion update by its
generation, which is all the properties tell apart. `MaxGeneration` is the width
of the counter and with it the bound of every run: no operation succeeds past
it, as in the code.

**RetirementQueue.** `held[p]` is a publisher's reservation, `active[p]` the
version its `Arc` points to. `PopBatch`, then `DropLease` and `DestroyPayload`
item by item, are `drain_batch`: slot and retained bytes are free at the pop,
the lease and the payload go after it.

**TerminalDrain.** `flag` is `has_unserviced_wake`. `signal[s]` says how far the
callback of `s` is in `signal_coalesced_wake` (`raise`, then `publish` if the
swap found the flag clear). `stage[d]` and `taken[d]` say how far a drain is:
flag cleared, records taken, each processed. A drain is a host turn, which
takes the probe's batch first and acknowledges it after, or a poll outside any
turn. `CommitFirst` says in which order the host commits a record and tells
the driver; `commit`'s comment asks for the driver first, which is `FALSE`.

**GpuSubmission.** `flight` is `gpu_in_flight`, `reserved`, `queueGen` and
`epoch` the cells of the queue. `gpu[s]`, `copies[s]` are the driver's side:
what a command buffer reads and writes and how far it is. `leaked` only
remembers the marks whose lease was dropped unreleased.

**FramePacing.** `engine` is the engine the host drives, `inFlight` the counts
of every engine it ever bound: a frame carries the engine it was started on.
Seven reasons are two classes (coalescable or discrete), four visibilities two.

**GlyphAtlas.** `pages`, `index` and `queue` are the fields of the atlas and of
its queue; a key stands for itself and not for its hash. `drawn` remembers every
reference handed out, `flights` those that command buffers pinned. A slot's
rectangle is kept, since the shelves are what `GuttersAreKept` is about.

**HandleTables.** Owner, device and device generation of a table are one
qualifier. The free list is a set: the order of reuse shows nowhere.

**ReadingDesk.** A command works on a copy that is published whole, so it is one
action and a refused one is none. `sources` are the retained captures; a save
and the restore from it are one action, `RestoreCheckpoint`. `retainedTop`
remembers the highest number an identity had.

**CacheNamespace.** `dirs`, `file`, `pins`, `built` are the disk, the rest what
each session remembers. `op`, `todo` and `target` say how far a session is in
`create`, `clear` or `reclaim`; `Crash` may follow any of their steps and forgets
the session. An entry is `part` until it is written to the end.

**Reconciliation.** `Change` is the file system, `RecordHint` the watcher, late.
A pass looks at each file of its scope once. `falsely` remembers files reported
gone that nothing explains.

**FileContinuity.** Each observation is one action: the caller hands what the
continuity registry decides to the annotation registry. A file is its text under
the notes.

**ObservedSnapshots.** `reading` is the step of the read: stat, chunks, check.
Chunks hold the number of the write that made them. `past` is what the file has
been since it was opened.

**BridgeSessions.** A call is a script, one entry per step of the function it
stands for; steps are merged where only a cancel or a close could come between
with the effect it has just before. `delivered` remembers that a revoked call
reported success.

**UiSearch.** `dispatched` is the list of generations with their texts, so that a
generation is a place in it; `resolved` are answers on their way.

**UiShell.** `focus` and `stack` are the `FocusManager`, `panes` and `activePane`
the pane manager. A batch of events is a number of single events. `origin`
remembers where the palette was opened.

**MapNavigation.** A camera is a place on a line, a flight an interpolation
between two; some places are not exact, where an interruption fails.

**Text.** Bytes are numbers and the operators are the code's own loops over them.
A run starts from one of a list of files that hold every kind of character,
malformed sequence and line end. What is checked is a comparison with the whole
file decoded, searched or split by definition.

What the models leave out throughout: counters that only status calls
report, event rings, poisoned mutexes (no thread panics with one held),
and calls that are refused without changing anything, unless a property
is about refusals (the ledger's).

## 3. Runs

| run | shows |
|---|---|
| `ledger` | three leases of two owners, two allocations, all pools, ordered acquisition, every refusal: `LedgerBalances`, `OwnershipMatchesLeases`, `ChargeOutlivesItsLeases`, `RefusalChangesNothing` |
| `runtime` | two turns and any number of producers, two GPU queues with two submissions: `NoLostWake`, `DeliveryIsExact`, `PendingWakeStands`, `SubmissionsAreExact`, `BuffersAreLocked`; `TurnsFinishTheWork` and `FlightsLand` under fairness |
| `terminal` | two submissions, a woken turn beside a poll: `CompletionsAreHeard`, `RecordsAreExact`, `LeasesFollowRecords`, refinement `ImplementsChannel` |
| `settling` | a host that looks only when woken, two publishers and two drains of retirement: `DrainFinishes`, `RetirementProgresses`, `SlotsAccounted`, `RetirementIsExact` |
| `host` | `PacingIsCounted`, `RequestsAreStarted`; `AtlasIsConsistent`, `StaleRefsStayStale`; `HandlesAreSpentOnce`, `ImplementsRegistry`; `DeskStands` |
| `workspace` | `NamespaceIsCoherent`, `ImplementsStore`; `NothingIsMisreported`; `NotesFollowFiles`; `CapturesAreWhole`; `SessionsAreAccounted`, `RevokedIsNotDelivered`; `SearchIsCoherent`; `ShellIsCoherent`; `NavigationStands` |
| `content` | `TextIsExact` (decoder, scan, reader), `PublishedLinesStand` (index), `CheckpointsServeAllLines` (reader lines), `NamedLinesAreWhole` (named file) |
| `retirement_charge`, `terminal_commit_last`, `terminal_cancel`, `gpu_lease`, `atlas_pages` | counterexamples, section 5 |

**Bounds.** Every bound is a constant named as such in its module. They are the
least for which the interesting cases meet:

- `ledger`: three handles allow an owner two leases on an allocation beside
  another owner's; capacity 4 with one byte in each pool makes every class
  exhaust on its own; requests up to 3 exceed what ordinary work may have, and
  with a counter that holds 5 its checked additions can fail.
- `runtime`: four generations and a queue of two are enough to fill the queue, to
  leave a command behind a batch of one, and for a producer to interfere between
  a turn's taking and acknowledging twice. GPU queues of capacity 1 and 2
  differ, so one is full while the other is not; two epochs make a buffer stale
  on one queue and current on another.
- `terminal`, `settling`: two submissions fill the two slots. Two generations of
  the probe suffice because each submission signals at most once.
  `RetirementRoom` 1 makes the retirement queue refuse. In `settling` a pool of
  three bytes for artifacts of one or two is exhausted before, with and after
  the two slots; two versions per publisher make an artifact both replacement
  and replaced. The host commits first, the order that can keep the promise.
- `host`: two frames in flight and two engines let a frame outlive its engine, three
  bindings let an owner and a lease outlive theirs. Three glyphs of different
  sizes do not fit one page of six, so a slot is evicted and reused while two
  pins are held; reuse and device generations up to 2 make a reference stale
  either way. Two slots with two generations in two tables reach exhaustion. The
  desk is taken with two panes and two visits, and with one bookmark: two
  revisions of a file, four identities, enough to close, revisit and restore.
- `workspace`: three generations let one be pinned below a cleared one and above it
  a current one, with one session after another. Two files, one of them in a
  directory of a directory, and four hints. Two inodes and two texts recycle a name.
  Two chunks tear, one retry exhausts, two stores share a token. Two threads with
  three handles in a table of two: a call, a close and a successor. Three requests
  overtake each other. Two surfaces and a stack of two overflow it; a queue of
  one event with two panes aims at a pane that is gone. Three endpoints overflow
  a history of two.
- `content`: windows and buffers of four and five bytes are shorter than the longest
  character beside a query; chunks from one byte up cut everything everywhere; a
  stride of two lines puts checkpoints between any two.

Symmetry is used where values are only compared (owners and handles, submissions,
threads). Deadlock is not checked where the system stops: when all identities or
generations of the bound are used. The ledger's run does check it.

**Fairness.** Producers, publishers' first wish, cancellers and pollers promise
nothing, and a part at rest has nothing enabled.

- `WakeProbe`: a pending wake is answered by a turn (weak), and a turn that comes
  again and again does not abandon every batch (strong on `Acknowledge`):
  `acknowledge` is what a host turn ends with.
- `RetirementQueue`: the maintenance thread drains (weak). `publish_or_defer`
  hands a refused publisher its value back to try again; strong fairness on
  reserving and swapping says he does, though room comes and goes.
- `TerminalDrain`: calls that were begun return; committed work reaches the
  driver, which finishes it and calls back; the host answers wakes with a turn.
  All weak. Polls owe nothing, so that liveness rests on the wakes alone.
- `GpuSubmission`: the GPU finishes what was committed and the host polls (weak).
- `FramePacing`: the display link goes on ticking (weak on `StartFrame`) and the
  host presents or drops the frames it got (weak on `Present`).
- `ReaderSearch` assumes none: that a search can always go on is the invariant
  `NeverStuck`, which is also proved.

## 4. Proofs

Proved for any sets of threads, owners, submissions, queues, files, glyphs and
documents and any capacities, from the assumptions named in each module:

| theorem | states | under |
|---|---|---|
| `ResourceLedgerProofs`: `LedgerBalance` | `LedgerBalances` | `LedgerAssumption` (the constructor's own tests, finitely many handles), `SentinelAssumption` |
| `OwnershipIsExact`, `RefusalsAreAtomic`, `ChargesOutliveLeases` | `OwnershipMatchesLeases`, `RefusalChangesNothing`, `ChargeOutlivesItsLeases` | same |
| `RuntimeProofs`: `WakesAreNotLost`, `DeliveriesAreExact`, `PendingWakesStand` | `NoLostWake`, `DeliveryIsExact`, `PendingWakeStands` | `WakeAssumption` |
| `RetirementQueueProofs`: `SlotsAreAccounted`, `RetirementStaysExact` | `SlotsAccounted`, `RetirementIsExact` | `RetirementAssumption` |
| `TerminalDrainProofs`: `QueueImplementsChannel`, `RecordsStayExact`, `LeasesStayWithRecords` | `ImplementsChannel`, `RecordsAreExact`, `LeasesFollowRecords` | `DrainAssumption` |
| `CompletionsStayHeard` | `CompletionsAreHeard` | `DrainAssumption`, `CommitFirst`, `GenerationsSuffice` |
| `RuntimeProofs`: `SubmissionsStayExact`, `BuffersStayLocked` | `SubmissionsAreExact`, `BuffersAreLocked` | `SubmissionAssumption` |
| `StoresProofs`: `SessionsStayAccounted`, `RevokedStaysUndelivered` | `SessionsAreAccounted`, `RevokedIsNotDelivered` | `SessionsAssumption` |
| `NotesKeepFollowing` | `NotesFollowFiles` | `ContinuityAssumption` |
| `CapturesStayWhole` | `CapturesAreWhole` | `SnapshotAssumption` |
| `TombstonesAreTrue` | `NoFalseTombstone` | `ReconciliationAssumption`, `PassesDoNotOverlap` |
| `NothingStaysMisreported` | `NothingIsMisreported` | the same and `PassesCoverAll` |
| `NamespaceTypesCorrect` | `NamespaceTypeOK` | `NamespaceAssumption` |
| `NamespaceStaysCoherent`, `NamespaceImplementsStore` | `NamespaceIsCoherent`, `ImplementsStore` | `NamespaceAssumption`, `OneAtATime` |
| `ShellStaysCoherent` | `ShellIsCoherent` | `ShellAssumption` |
| `HostProofs`: `TablesImplementRegistry`, `SpentOnce` | `ImplementsRegistry`, `HandlesAreSpentOnce` | `HandleAssumption` |
| `PacingStaysCounted` | `PacingIsCounted` | `PacingAssumption` |
| `AtlasStaysConsistent`, `StaleNeverValidates` | `AtlasIsConsistent`, `StaleRefsStayStale` | `AtlasAssumption`, `GlyphsFit` |
| `SearchStaysCoherent`, `NavigationAlwaysStands` | `SearchIsCoherent`, `NavigationStands` | `SearchAssumption`, `NavigationAssumption` |
| `DeskAlwaysStands` | `DeskStands` | `DeskAssumption` |
| `LineProofs`: `SessionsServeAllLines` | `CheckpointsServeAllLines` | `LinesAssumption` |
| `ReadingsPublishWholeLines` | `NamedLinesAreWhole` | `NamedAssumption` |
| `PublishedLinesAlwaysStand` | `PublishedLinesStand` | `IndexAssumption` |
| `SearchProofs`: `RawScansAreExact` | `RawScanIsExact`, the raw part of `ScanIsExact` in `TextIsExact` | `ScanAssumption` |
| `RawReadsAreExact` | `RawReaderIsExact`, the raw part of `ReaderIsExact` in `TextIsExact` | `ReadAssumption` |
| `ReadersAreNeverStuck` | `AskedIsNeverStuck`, the `NeverStuck` of `ReaderIsExact` in `TextIsExact` | `ReadAssumption` |

Hypotheses that are not assumptions on constants alone are written into the
theorem, and each says of the environment what the run says too:

- `CommitFirst` is a host that commits a record before the driver has the work; with
  the other order the property is false (section 5, `terminal_commit_last`).
- `GenerationsSuffice`: the probe's counter, of 64 bits in the code, outlasts the
  submissions. Each one signals at most once.
- `[]PassesDoNotOverlap`: one pass of reconciliation ends before the next begins;
  `[]PassesCoverAll`: passes are over the whole tree. Without either the property
  is false in the code (section 6).
- `[]OneAtATime`: at most one session of a cache root is alive; others have died
  or are still to come. Two that live at once can race a pin against a removal.
- `AsksForSomething`: a search of a reader may read a byte and make a call. The code
  takes limits of zero too; such a search is pending until its first step ends it.
- `GlyphsFit`: every raster with its gutter fits an empty page. Without it the
  code uses up a page number for no page, and later references name the wrong one.

**Ledger.** The invariant is the conjunction of the parts of the checked
ones; none is inductive alone. That subtractions do not wrap (`LedgerTypeOK`)
needs the counter to be a sum that contains the record's bytes (`Conservation`),
which needs the lease to have its record (`OwnershipMatchesLeases`), and the
ceilings need both. Sums over the allocation map are stated with their running
totals (`SumsTo`), because a recursive sum cannot be unfolded by the provers;
lemma `SumUpdate` says what replacing one summand does, `RechargedConserves`
applies it to every operation at once, since each replaces one record.
`LeaseAdded`, `LeaseRemoved` and `LeaseKept` do the same for the counts of leases.
That a charge outlives its leases is then an action property of each step: a
record goes only when its last lease does.

**Wake probe.** The strengthening is `Sampled`: no batch is ahead of the
generation, and every accepted command used up one. Then a batch of the current
generation was taken after the last publication, so what the acknowledgement
resets was seen.

**Retirement queue.** `SlotsAccounted` with the types of the queue is inductive;
it gives `QueueSlots` as the bound of the deque, so a swap that reserved finds room.
Bytes are counted as the units of a set (`Units`: place and ordinal), so that their
sum is a cardinality and needs no induction over the deque: appending an item adds a
disjoint set, a batch splits the set in two, the rest of a batch is in bijection with
what it was. `RetirementInv` adds `ChargesAccounted` and `OncePlaced`, which says of
each artifact what the three counts of `ReplacedExactlyOnce` add up to: at most one
place in the queue, at most one in all batches, never two of queue, batch and
`destroyed`, and one of them exactly when a later version is published.
`Artifacts` numbered from `active` on are in none, so a swap never meets its own
artifact there. That no saturating subtraction saturates is a consequence.

**Terminal drain.** `IInv` says where a record is: in one slot, in the hands of one
drain, or drained (`OneRecord`); which of these a reservation, the driver's state
and the flag `committed` imply (`Places`); that a record is reported by the drain that
took it, with a status only the driver sets unless it is Cancelled (`Reports`); and
that leases and payloads are where the record is (`Attached`). `RecordsConserved` is
not inductive: it counts copies but does not say that a reserved record is
uncommitted, on which `Abort` keeping the in-flight count depends, or that a drain between
its critical section and its end holds nothing of another's. `View` reads the
refinement mapping off the slots; each `Maps...` lemma turns one step into the
channel's step, and the rest stutter (`Stutters`). That a reservation finds the channel with
room counts the submissions in the slots by a surjection (`ReservesOnlyWithRoom`).
None of this depends on the wake or on when the host commits. The wake has an
invariant of its own, `WakeInv`: a raised flag has somebody to answer it
(`FlagIsAnswered`: a callback between its swap and its publication, or a pending
wake newer than the batches of the turns that have cleared it), and the probe's
generation is at most the number of submissions heard of (`GenerationIsHeard`),
which is why it never runs out.

**GPU submission.** `LInv` collects what leases need: only live submissions hold
them (`HeldByLive`), running work is in flight and leases what it copies
(`RunsInFlight`), a leaked mark is nobody's lease (`LeakedIsUnleased`),
exclusivity, and cancellation only after the commit (`CancelledAfterCommit`).
`RInv` counts the holders of a queue. `GpuWorkIsLocked` follows from `LInv`: what
runs is leased, and what is leased is marked.

**Handles.** `SpentAreBehind`: a spent handle is of a generation its slot has
passed or is leaving. With the free list being the vacant slots, an insertion makes
a handle that was never spent, which is what the registry's step asks for.

**Bridge sessions.** What a call holds follows from the step of its script it is
at (`HeldAt`, `LockedAt`); hence a lock names the call that holds it, a retired
session stays in the table until its cells are let go, and the last check of a
call sees every revocation that came before.

**Continuity, snapshots.** Beside the parts of `NotesFollowFiles`, identities in use or
retired are below the next one (`IdentitiesAreGivenOut`), so a new one names no
old file. A read holds a prefix of one version as long as the file's time is the
one it began with (`ReadingIsOfOneVersion`); pins are of captures in their stores,
by tokens given out before (`PinsAreGivenOut`).

**Reconciliation.** `SightIsTracked`: what a pass has seen of a file is on disk,
or the watcher has still to report the change, or a hint since the pass started
covers it. So a completed pass may drop the hints from before its start and declare
gone what it has not seen.

**Cache namespace.** `SessionIsCurrent` and `DiskIsCurrent` tie one awake session to
the directories: its generation is the highest, what it has deferred is cleared,
what it is removing is older and not pinned. Crash and reopening preserve it since
`open` reads the highest directory back. The refinement maps directories, markers
and entries to the store's, under the same invariant.

**Shell.** `OriginIsNext`: while focus stays in the palette, what it was opened on is on
top of the stack. `PanesAreNumbered`: pane ids are below the next one. A measure
(`Depth`) falls with every Escape until it is zero or only pinned panes keep it.

**Pacing.** An engine's count is the number of places in the sequence of frames
that hold one of its live frames. `PlacesAppend` and `PlacesRemoved` say how such
a number changes; no induction is needed, since what is left after a removal is mapped
one to one. `FreshGenerationsAreUnused` says that a binding to come has no leases.

**Atlas.** `PagesAreNumbered`: the number of a page, less one, is its place
(under `GlyphsFit`). `RefsAreBehind`: a reference's generation is at most its
slot's, and equal only if the glyph is the same one; slots only count up, so what
is stale stays so. `PinsAreCounted`: pins are the places of the reference among
the flights, by the lemmas of the pacing. `PagesArePacked`: shelves are
stacked, every slot stands on one, and no two overlap with their gutters.

**Search, navigation.** `ActiveIsLast`: the generation waited for is the last
dispatched. `FlightIsOfEntry`: a flight ends at the current entry, so an
interruption replaces that entry by what is on the screen. Past and future
together stay within the bound, so the evictions in back and forward never happen.

**Desk.** `DeskInv` takes the parts of `EveryDeskRestores` with their types:
panes, visits and marks point at captures there are (`Provided`), captures are
told apart by their identities (`Exact`), numbers in use are below the next one
(`Numbered`), and `retainedTop` is below `highWater`. Each command but the restore works on
the captures there are, or one more (`CommandStep`, `PlainStep`), so the text of a
location stays (`TextStays`); the restore gives every capture, pane and mark
a number that none had, and two things their own (`NewSourceIs`, `NewPaneIs`).
What is kept of a sequence is written with the rank of its places (`Kept`), not by
a recursive filter, so that its elements and their order are provable (`KeptIs`).

**Lines.** `LinesAssumption` and `NamedAssumption` are what the readers let through:
bytes, an encoding that has lines, steps of at least a byte, lines counted from one;
`IndexAssumption` that captures are chunks of bytes and the stride is not zero.
Lines are defined on the whole file (`LineEnds`): a unit LF, and a CR that no LF
follows, ends its line, and so does the end of the file. A window over the first
bytes of a file is `Seen`: its line count is the number of ends behind it, less the
line it is in, and it holds exactly the start and the end those bytes determine.
`UnitTaken` proves that for one unit in every case of CR, LF and pending CR,
`ByteTaken` for one byte of either width. A chunk is a recursive function over its
bytes; that every place of it is `Seen` has no induction theorem to cite, so
`ChunkTaken` takes the least place that is not (`LeastNumber`) and refutes it.
`CheckpointServes` then says that a checkpoint before a line is as good as a
window that began at zero, and `WindowFinished` what the end of the file adds.

`LinesInv` of a session is that the running cursor and every checkpoint are such
windows, none past its request's line. `LineReadingInv` of a named file follows its phases: the bytes
of the prefix are the file's first (`Gathered`), afterwards the window is `Seen` over
what was read, the history is its last eight bytes, and what is retained is the
file's from `backing` up to what is known to be wanted (`Looked`). `RetainedKeeps`
is the arithmetic of overlapping buffers: a piece that begins in the history never
leaves a gap, because a window is at most a unit and a CR behind the bytes, less than
the history holds. The first three bytes decide the encoding although only two may
have been read: `PrefixEncoding` says that the two then read lines alike (`SameText`).

A scanner of the line index that saw the bytes before its offset (`Scanned`) has
published the starts of the lines begun there, marked every stride, and knows from its last byte
whether the next one opens a line; `ByteScanned` keeps that over one byte, of which
`NextBegun` says whether a line begins with it. The loops over bytes, chunks and budgets are
recursive functions: that such a run exists and stays where its steps lead is
`RunExists`, that it is the only one is `RunsAlike`, both from `LeastNumber`.
`Reached` adds that the offset is a place where a chunk ends and that a complete
scanner saw them all; a budget of all chunks completes it (`SteppedReached`,
`SteppedUntilReached`). The answers then follow from `StartsBefore`: the starts before
a place are those of the first lines, as many as have begun (`ScannerKnows`).

**Search.** `ScanAssumption` and `ReadAssumption` say that files are bytes, a needle is
not empty and a step may do something. `FailureIsRight` is about every needle: entry n
of the table is the longest proper prefix that ends at n (`IsFailure`); falling back
through the table visits the prefixes that end there in falling order
(`Fits` of a prefix is `Fits` of the needle in itself, `ShorterFits`), so the first that the next byte
extends is the longest. The same walk over a text gives `Follows`, the invariant of a
cursor: it stands where the longest prefix of the needle ends. `CursorSteps` cites both: a
batch that is stopped by a limit of bytes or of hits leaves a cursor that follows, and
reports the ends up to there. What is reported is compared with the places of the
needle by their number (`Upto` counts the ends up to a place), so that "the k-th hit is the
k-th place" needs no induction over the hits (`HitsAreEnds`). `RawScansAreExact` adds that
chunks hand the cursor on, or break it where the request says that no hit may cross
a chunk, and that a budget, a limit or a cancellation stops the scan with the hits so far.

`Proceeds` is an invariant of a search of a reader. Bytes that are ready are not yet
all searched (`Waiting`), and once the input is final they are all that is in the
buffer; so a buffer that was searched and still holds something is waiting for bytes that
may come, and `SettledReader` ends the search when no call may be made
(`PauseMayRead`). The prefix that is held back needs no more than that it is a number of bytes
(`PrefixIsNumber`).

`RawRead` adds to it what a search for bytes has found. The buffer ends where the reading
does and holds the bytes from `base` on, all of them ready; the cursor stands at
what was consumed, follows there, and as many hits are kept as needles end before
(`RawAt`). So calls that are interrupted, come short or cut the needle only move
the end of the buffer (`RawReadsOn`), a batch takes the number of hits to the number of ends up to
where it stops (`RawBatch`), the limit lets one more be counted than kept (`OneFound`),
and where nothing is left to search the hits are those of all that was read, which
is what `SettledReader` reports (`RawSettled`). A host that cancels, or a call that
fails, leaves the hits so far. `RawReadReports` takes this to `ReaderFindsAll`, whose
reference reads the whole at once.

Stated beside these and used by them: `LedgerInvariant`, `TypesCorrect`,
`BytesAreConserved`, `PoolsAreProtected` (ledger); `WakeInvariant`, `TypesCorrect`,
`CommandsAreFifo`, `MotionSurvives`, `UrgencyReachesBatches` (probe);
`SubmissionsConserved`, `InFlightCounts`, `AttachmentsFollowRecords`,
`RunningWorkKeepsLease` (drain); `TypesCorrect`, `ReservationsBalance`,
`LeasesAreExclusive`, `GpuWorkStaysLocked`, `CancellationsStand` (GPU);
`HandleInvariant`, `FreeSlotsUsable`, `SpentStaySpent` (handles);
`SessionsInvariant`, `ContinuityInvariant`, `SnapshotInvariant`,
`ReconciliationInvariant`, `NamespaceInvariant`, `ShellInvariant` (stores);
`SearchInvariant`, `NavigationInvariant` (host).

**Model-checked only.**

- Liveness (`TurnsFinishTheWork`, `FlightsLand`, `DrainFinishes`,
  `RetirementProgresses`, `RequestsAreStarted`): the provers do not reason about
  ENABLED, and so not about fairness.
- `TextIsExact` but for the parts above: that decoding in chunks is decoding the whole
  (`DecodingIsSeamless`), the hits of exact and folded scans, whose places go through the
  offset maps, and those of a reader's search for text. What the decoders compute over a file is
  defined by their loop alone; a statement of it for every file is an induction over
  the tokens of the text.

## 5. Where the code and its documents disagree

- `retirement_charge`: bytes are said to stay charged until the artifact is
  destroyed (`retirement.rs:13-14`); the item's lease is dropped before its
  payload, and slots are given back at the pop.
- `terminal_commit_last`: a host that commits after the driver took the work, as
  `terminal.rs:316` says, can leave a completed record in its slot with nothing to
  wake anybody: the drain passed over it before its commit, and `commit`
  does not signal. With the commit first, `terminal` and `settling` pass, and
  `CompletionsStayHeard` is proved.
- `terminal_cancel`: leases of cancelled work are said to remain locked until the
  driver calls back (`terminal.rs:561-562`); the next drain releases them.
- `gpu_lease`: a copy refused because its destination is busy leaves its source
  marked for ever (`submission.rs:689`), since the lease it holds has no `Drop`.
- `atlas_pages`: a new shelf is admitted by the glyph's own height but is at least
  16 rows high (`glyph_atlas.rs:473-474`), so a taller glyph on it can end
  below its page, though the test asks for coordinates within it
  (`glyph_atlas_test.rs:168-177`).

## 6. What the models show beside

Behaviour of the code that no property claims, or that a hypothesis excludes. It
is kept in the models where it can be reached there.

- Retirement: a payload the retirement queue refuses is destroyed on the draining
  thread (state `inline` of `TerminalDrain`).
- GPU: a second queue keeps its old generation after a new epoch, and a status goes
  from Cancelled to Success if the cancellation went through another queue.
- Cache namespaces: `clear_generation(g)` with `g` above the current one marks a
  generation cleared that is still to come; deferred and cleared sets are lost
  with the session; `reclaim_deferred` that fails midway leaves hot copies; two live
  sessions can race a pin against a removal (hence `OneAtATime`); a half-created
  root opens but cannot pin.
- Reconciliation: overlapping passes can lose changes and report a file gone
  falsely, and a pass over a directory can clear what only a pass over its parent
  would have seen (`reconciliation.rs:479-483` against `:476`, `:395-396`). Hence
  `PassesDoNotOverlap` and `PassesCoverAll`.
- Frame pacing: `present` checks neither the owner's generation nor invalidation,
  although `pacing.rs:269-270` says so. A camera motion after a discrete request
  overwrites its reason, and the frame can then be dropped as obsolete
  (`scheduler.rs:302` against the comment at `:29`).
- Glyph atlas: a glyph that fits a page but not with its gutter uses up a page number
  for a page that is not kept (`glyph_atlas.rs:1088`), and pages are looked up by
  their number less one (`:1052`, `:1338`, `:1354`, `:1382`): later references
  name the wrong page. Hence `GlyphsFit`. A hit does not count as a use of the slot
  (`:1011-1023` against `:1512-1513`); a request that comes back after `AtlasFull`
  goes behind its tier; one whose slots are all pinned blocks those behind it; an
  error of the rasterizer loses its request (`:1488`).
- Map navigation: back and forward drop the entry they popped when the flight they
  interrupt shows a camera without an exact value; an interruption
  overwrites the endpoint by the camera half way.
- Interface: a change of focus while the palette is open makes closing it pop one
  entry only (`focus.rs:5-7`); a press queued before its pane was closed focuses the
  reading lens without a lens and leaves a dangling `active_pane_id`; a
  `PointerUp` dropped from the queue leaves the gesture active; Escape is
  swallowed while only pinned panes remain; a press on another pane does not change
  `reading_lens_file`; selecting the same file keeps the inspector's revision.
- Reading desk: an identity the desk has evicted can be offered again with other
  bytes by its host.
- Encodings: a scalar offset inside an escape is answered by the byte's end, though
  the other domains refuse it (`encoding.rs:971-977`).
- Streaming search: a short read that cuts a scalar is reported as unsupported text;
  a cancel or stale step turns a finished search into a cancelled one.
- Lines: a byte limit of zero on an empty file reports that limit; a checkpoint at
  the end of a capture shares its slot with the last full step.

## 7. What is left out of the modelled parts

- `UiShell`: positions, sizes, scrolling, continuous motion, the sidebar's tabs and
  history, wrap of pane ids. `ReadingDesk`: refusal of stale revisions and
  attempts, layout; byte limits are counts.
- `BridgeSessions`: calls on three cells, the desk's start, save and export, the
  work itself. `ObservedSnapshots`: resolution of anchors, ranges over chunks.
- `GpuSubmission`: `MetalBuffer::invalidate` and the blocking queue, which only tests
  and a qualification binary call.
- Text: refusals of offsets past 2^64 and range forms; the Unicode tables are those
  of ASCII and sharp s; declared encodings, canonical equivalence, matched text
  and inconsistent chunk lengths; owner checks and memory charges of the streaming
  search; columns, argument parsing, metadata checks and the decoding of the extent
  in the line readers.

`PROJECT.json` has the same by component, and lists as hazards what is hard to
test, each at its line with the properties that watch it.

## 8. Next

1. Decoding and the offset maps, for every file: an induction over the tokens of the text,
   as `SearchProofs` has one over bytes. Exact and folded scans need it.
2. More of the sequential services over these parts: the bridge's calls on three
   cells, trails and snapshots on disk, the indexes' publication.
