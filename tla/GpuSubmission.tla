--------------------------- MODULE GpuSubmission ----------------------------
(***************************************************************************)
(* Bounded submission queues of one Metal device, their encoders and       *)
(* submission handles, and the flight marks of the buffers they copy       *)
(* between (native/macos/src/submission.rs, MetalBuffer of lib.rs).        *)
(*                                                                         *)
(* All calls come from the main thread, so each is one action; what runs   *)
(* beside it is the GPU, which is external.  A call that waits for the GPU *)
(* is an action that is enabled once the GPU is done.  Event ring,         *)
(* counters and refusals that change nothing (foreign device, bad bounds,  *)
(* wrong thread, full queue, driver out of command buffers) are left out.  *)
(***************************************************************************)
EXTENDS Integers, FiniteSets

CONSTANTS
  Queues,             \* queues of the device
  Submissions,        \* identities minted by SubmissionId::next
  Buffers,
  Capacity,           \* of each queue, a function
  MaxEpoch,           \* bound: values of the device's resource epoch
  NoQueue

ASSUME SubmissionAssumption ==
  /\ IsFiniteSet(Submissions)
  /\ Capacity \in [Queues -> Nat \ {0}]
  /\ MaxEpoch \in Nat \ {0}
  /\ NoQueue \notin Queues

VARIABLES
  epoch,              \* resource_epoch, shared by the device's queues
  queueGen, open,     \* generation of a queue; whether it is not dropped yet
  reserved,           \* reserved of a queue
  bufferGen,          \* generation of a buffer, 0 before it is created
  flight,             \* gpu_in_flight of a buffer
  phase,              \* encoder, slot of in_flight, or gone
  queueOf, leases, cancelled, status, released,
  copies,             \* the buffers the submission's commands read or write
  gpu,                \* external: the driver's state of the command buffer
  leaked              \* history: buffers whose lease was dropped unreleased

device == <<epoch, queueGen, open>>
buffers == <<bufferGen, flight, leaked>>
submission == <<phase, queueOf, leases, cancelled, status, released, copies>>
gpuVars == <<device, reserved, buffers, submission, gpu>>

Terminal == {"Success", "Cancelled", "Error"}

Encoding(q) == {s \in Submissions : phase[s] = "encoding" /\ queueOf[s] = q}
InFlight(q) == {s \in Submissions : phase[s] = "inFlight" /\ queueOf[s] = q}

-----------------------------------------------------------------------------
(* Buffers.                                                                *)

CreateBuffer(b) ==
  /\ bufferGen[b] = 0
  /\ bufferGen' = [bufferGen EXCEPT ![b] = epoch]
  /\ UNCHANGED <<device, reserved, flight, leaked, submission, gpu>>

\* Buffers of the earlier epoch become stale on this queue, and all buffers of
\* the new one on the device's other queues.
InvalidateGeneration(q) ==
  /\ open[q]
  /\ epoch < MaxEpoch
  /\ epoch' = epoch + 1
  /\ queueGen' = [queueGen EXCEPT ![q] = epoch + 1]
  /\ UNCHANGED <<open, reserved, buffers, submission, gpu>>

-----------------------------------------------------------------------------
(* Encoders.                                                               *)

\* Mutant: only committed submissions count against the capacity.
HasRoomInFlight(q) == Cardinality(InFlight(q)) < Capacity[q]

HasRoom(q) == reserved[q] < Capacity[q]

BeginSubmission(s, q) ==
  /\ phase[s] = "new"
  /\ open[q]
  /\ HasRoom(q)
  /\ reserved' = [reserved EXCEPT ![q] = @ + 1]
  /\ phase' = [phase EXCEPT ![s] = "encoding"]
  /\ queueOf' = [queueOf EXCEPT ![s] = q]
  /\ UNCHANGED <<device, buffers, leases, cancelled, status, released, copies, gpu>>

\* Mutant: a buffer in flight is leased again.
AcquirableAlways(s, b) == TRUE

\* acquire_unique_lease: already leased by this encoder, or free.
Acquirable(s, b) == b \in leases[s] \/ ~flight[b]

BufferIsCurrent(s, b) == bufferGen[b] = queueGen[queueOf[s]]

\* encode_copy that obtains both leases.  The driver may still refuse the blit
\* encoder of a first copy; the leases then stay with the encoder.
EncodeCopy(s, src, dst) ==
  /\ phase[s] = "encoding"
  /\ BufferIsCurrent(s, src) /\ BufferIsCurrent(s, dst)
  /\ Acquirable(s, src) /\ Acquirable(s, dst)
  /\ src = dst => src \in leases[s]
  /\ leases' = [leases EXCEPT ![s] = @ \cup {src, dst}]
  /\ flight' = [b \in Buffers |-> b \in {src, dst} \/ flight[b]]
  /\ \/ copies' = [copies EXCEPT ![s] = @ \cup {src, dst}]
     \/ copies[s] = {} /\ UNCHANGED copies
  /\ UNCHANGED <<device, reserved, bufferGen, leaked, phase, queueOf,
                 cancelled, status, released, gpu>>

\* encode_copy that obtains the source's lease and finds the destination busy,
\* which it is when it is the source: the lease it holds has no Drop.
EncodeCopyBusy(s, src, dst) ==
  /\ phase[s] = "encoding"
  /\ BufferIsCurrent(s, src) /\ BufferIsCurrent(s, dst)
  /\ ~flight[src]
  /\ dst \notin leases[s]
  /\ flight[dst] \/ src = dst
  /\ flight' = [flight EXCEPT ![src] = TRUE]
  /\ leaked' = leaked \cup {src}
  /\ UNCHANGED <<device, reserved, bufferGen, submission, gpu>>

Commit(s) ==
  /\ phase[s] = "encoding"
  /\ phase' = [phase EXCEPT ![s] = "inFlight"]
  /\ gpu' = [gpu EXCEPT ![s] = "running"]
  /\ UNCHANGED <<device, reserved, buffers, queueOf, leases, cancelled, status,
                 released, copies>>

\* flight after the submissions of ss have released their leases.
FlightWithout(ss) ==
  [b \in Buffers |-> flight[b] /\ \A s \in ss : b \notin leases[s]]

\* Mutant: an encoder that is dropped keeps its slot.
ReservedAfterDropKept(q) == reserved

ReservedAfterDrop(q) == [reserved EXCEPT ![q] = IF @ > 0 THEN @ - 1 ELSE 0]

\* SubmissionEncoder::drop before a commit.
DropEncoder(s) ==
  /\ phase[s] = "encoding"
  /\ phase' = [phase EXCEPT ![s] = "gone"]
  /\ flight' = FlightWithout({s})
  /\ leases' = [leases EXCEPT ![s] = {}]
  /\ status' = [status EXCEPT ![s] = "Cancelled"]
  /\ released' = [released EXCEPT ![s] = TRUE]
  /\ reserved' = ReservedAfterDrop(queueOf[s])
  /\ UNCHANGED <<device, bufferGen, leaked, queueOf, cancelled, copies, gpu>>

-----------------------------------------------------------------------------
(* Submissions in flight.                                                  *)

\* Mutant: cancelling gives the buffers back at once.
FlightAfterCancelFreed(s) == FlightWithout({s})

FlightAfterCancel(s) == flight

\* Submission::cancel through any queue of the device; only the queue that has
\* the slot marks it.
Cancel(s, q) ==
  /\ phase[s] = "inFlight"
  /\ open[q]
  /\ status[s] \notin Terminal
  /\ status' = [status EXCEPT ![s] = "Cancelled"]
  /\ cancelled' = [cancelled EXCEPT ![s] = s \in InFlight(q)]
  /\ flight' = FlightAfterCancel(s)
  /\ UNCHANGED <<device, reserved, bufferGen, leaked, phase, queueOf, leases,
                 released, copies, gpu>>

GpuFinishes(s) ==
  /\ gpu[s] = "running"
  /\ \E result \in {"completed", "failed"} : gpu' = [gpu EXCEPT ![s] = result]
  /\ UNCHANGED <<device, reserved, buffers, submission>>

Done(s) == gpu[s] \in {"completed", "failed"}

DriverStatus(s) == IF gpu[s] = "completed" THEN "Success" ELSE "Error"

\* Mutant: what the driver reports, though the submission was cancelled.
FinalStatusUncancelled(s) == DriverStatus(s)

FinalStatus(s) == IF cancelled[s] THEN "Cancelled" ELSE DriverStatus(s)

Minus(x, y) == IF x > y THEN x - y ELSE 0

\* remove and finish_slot for the slots of ss, all of q.
Finish(ss, q) ==
  /\ phase' = [s \in Submissions |-> IF s \in ss THEN "gone" ELSE phase[s]]
  /\ flight' = FlightWithout(ss)
  /\ leases' = [s \in Submissions |-> IF s \in ss THEN {} ELSE leases[s]]
  /\ released' = [s \in Submissions |-> s \in ss \/ released[s]]
  /\ reserved' = [reserved EXCEPT ![q] = Minus(@, Cardinality(ss))]
  /\ UNCHANGED <<bufferGen, leaked, queueOf, cancelled, copies, gpu>>

StatusAfter(ss) ==
  [s \in Submissions |-> IF s \in ss THEN FinalStatus(s) ELSE status[s]]

\* Mutant: a command buffer that failed does not count as finished.
FinishedCompleted(q) == {s \in InFlight(q) : gpu[s] = "completed"}

Finished(q) == {s \in InFlight(q) : Done(s)}

PollCompletions(q) ==
  /\ Finished(q) # {}
  /\ Finish(Finished(q), q)
  /\ status' = StatusAfter(Finished(q))
  /\ UNCHANGED device

WaitForSubmission(s) ==
  /\ phase[s] = "inFlight"
  /\ Done(s)
  /\ Finish({s}, queueOf[s])
  /\ status' = StatusAfter({s})
  /\ UNCHANGED device

DrainAllSync(q) ==
  /\ InFlight(q) # {}
  /\ \A s \in InFlight(q) : Done(s)
  /\ Finish(InFlight(q), q)
  /\ status' = StatusAfter(InFlight(q))
  /\ UNCHANGED device

\* BoundedSubmissionQueue::drop waits, and reports everything as cancelled.
\* An encoder borrows its queue, so none is alive.
DropQueue(q) ==
  /\ open[q]
  /\ Encoding(q) = {}
  /\ \A s \in InFlight(q) : Done(s)
  /\ open' = [open EXCEPT ![q] = FALSE]
  /\ Finish(InFlight(q), q)
  /\ status' = [s \in Submissions |->
       IF s \in InFlight(q) THEN "Cancelled" ELSE status[s]]
  /\ UNCHANGED <<epoch, queueGen>>

-----------------------------------------------------------------------------

GpuInit ==
  /\ epoch = 1
  /\ queueGen = [q \in Queues |-> 1]
  /\ open = [q \in Queues |-> TRUE]
  /\ reserved = [q \in Queues |-> 0]
  /\ bufferGen = [b \in Buffers |-> 0]
  /\ flight = [b \in Buffers |-> FALSE]
  /\ phase = [s \in Submissions |-> "new"]
  /\ queueOf = [s \in Submissions |-> NoQueue]
  /\ leases = [s \in Submissions |-> {}]
  /\ cancelled = [s \in Submissions |-> FALSE]
  /\ status = [s \in Submissions |-> "Pending"]
  /\ released = [s \in Submissions |-> FALSE]
  /\ copies = [s \in Submissions |-> {}]
  /\ gpu = [s \in Submissions |-> "idle"]
  /\ leaked = {}

GpuNext ==
  \/ \E b \in Buffers : CreateBuffer(b)
  \/ \E q \in Queues : InvalidateGeneration(q)
  \/ \E s \in Submissions, q \in Queues : BeginSubmission(s, q)
  \/ \E s \in Submissions, src, dst \in Buffers : EncodeCopy(s, src, dst)
  \/ \E s \in Submissions, src, dst \in Buffers : EncodeCopyBusy(s, src, dst)
  \/ \E s \in Submissions : Commit(s)
  \/ \E s \in Submissions : DropEncoder(s)
  \/ \E s \in Submissions, q \in Queues : Cancel(s, q)
  \/ \E s \in Submissions : GpuFinishes(s)
  \/ \E q \in Queues : PollCompletions(q)
  \/ \E s \in Submissions : WaitForSubmission(s)
  \/ \E q \in Queues : DrainAllSync(q)
  \/ \E q \in Queues : DropQueue(q)

GpuSpec == GpuInit /\ [][GpuNext]_gpuVars

\* The GPU finishes what it was given and the host polls its queues.
GpuFairness ==
  /\ \A s \in Submissions : WF_gpuVars(GpuFinishes(s))
  /\ \A q \in Queues : WF_gpuVars(PollCompletions(q))

GpuFairSpec == GpuSpec /\ GpuFairness

-----------------------------------------------------------------------------
(* Properties.                                                             *)

GpuTypeOK ==
  /\ epoch \in 1..MaxEpoch
  /\ queueGen \in [Queues -> 1..MaxEpoch]
  /\ open \in [Queues -> BOOLEAN]
  /\ reserved \in [Queues -> Nat] /\ \A q \in Queues : reserved[q] <= Capacity[q]
  /\ bufferGen \in [Buffers -> 0..MaxEpoch]
  /\ flight \in [Buffers -> BOOLEAN]
  /\ phase \in [Submissions -> {"new", "encoding", "inFlight", "gone"}]
  /\ queueOf \in [Submissions -> Queues \cup {NoQueue}]
  /\ leases \in [Submissions -> SUBSET Buffers]
  /\ cancelled \in [Submissions -> BOOLEAN]
  /\ status \in [Submissions -> Terminal \cup {"Pending"}]
  /\ released \in [Submissions -> BOOLEAN]
  /\ copies \in [Submissions -> SUBSET Buffers]
  /\ gpu \in [Submissions -> {"idle", "running", "completed", "failed"}]
  /\ leaked \subseteq Buffers

\* A queue's reservations are its live encoders and its slots in flight, so
\* the capacity bounds both together and no saturating subtraction saturates.
ReservedIsExact ==
  \A q \in Queues : reserved[q] = Cardinality(Encoding(q) \cup InFlight(q))

\* A buffer has one lease, on whichever queue, and is marked while it has it.
LeaseIsExclusive ==
  \A b \in Buffers :
    /\ \A s, t \in Submissions : b \in leases[s] /\ b \in leases[t] => s = t
    /\ flight[b] <=> b \in leaked \/ \E s \in Submissions : b \in leases[s]

\* Buffers the GPU may touch refuse CPU writes, though the submission has been
\* cancelled or its epoch is over.
GpuWorkIsLocked ==
  \A s \in Submissions : gpu[s] = "running" => \A b \in copies[s] : flight[b]

\* A cancellation that reached its slot is the submission's final status.
CancellationStands ==
  \A s \in Submissions :
    cancelled[s] /\ phase[s] = "gone" => status[s] = "Cancelled"

\* Stated by lib.rs:538: the mark tells whether the GPU is using the buffer,
\* so a buffer no encoder and no submission holds is not marked.
MarkedHasHolder ==
  \A b \in Buffers : flight[b] => \E s \in Submissions : b \in leases[s]

\* Every submission in flight is finished and its leases given back by a host
\* that polls, whatever the order in which the GPU finishes.
FlightsLand == \A s \in Submissions : phase[s] = "inFlight" ~> released[s]

\* Places in a queue and the fate of its submissions are told right.
SubmissionsAreExact == GpuTypeOK /\ ReservedIsExact /\ CancellationStands

\* The mark of a buffer is a lock: one holder, and held while the GPU runs.
BuffersAreLocked == LeaseIsExclusive /\ GpuWorkIsLocked
=============================================================================
