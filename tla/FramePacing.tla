----------------------------- MODULE FramePacing -----------------------------
(***************************************************************************)
(* Demand-driven frames on macOS: the scheduler's pending request          *)
(* (scheduler.rs), the pacing engine's two-frame policy (pacing.rs) and    *)
(* the view binding that lets one presentation owner acquire drawables     *)
(* (view_binding.rs).  All three run on the main thread, so every call is  *)
(* one action; what interleaves is the host's calls, the display link's    *)
(* ticks and the frames that are still on their way to the screen.         *)
(*                                                                         *)
(* Abstracted: counters and event rings; timestamps; the four visibilities *)
(* are the two classes of should_render; the seven reasons are the two     *)
(* classes of is_coalescable.                                              *)
(***************************************************************************)
EXTENDS Naturals, Sequences, FiniteSets, SequencesExt

CONSTANTS
    MaxInFlight,     \* PacingConfig::max_in_flight, 1 to 3
    MaxEngines,      \* bound: engines the host binds one after the other
    MaxBindings,     \* bound: generations of the view binding
    MaxTargets       \* bound: render target leases outstanding per generation

ASSUME PacingAssumption ==
    /\ MaxInFlight \in 1 .. 3
    /\ {MaxEngines, MaxBindings, MaxTargets} \subseteq Nat \ {0}

NoReason == "none"
Coalescable == {"motion"}
Reasons == Coalescable \cup {"input"}

VARIABLES
    visible,      \* should_render of the scheduler's visibility
    pending,      \* the scheduler's pending_reason
    engine,       \* the engine the host drives: its Cells
    inFlight,     \* the in_flight count of every engine ever bound
    frames,       \* ScheduledFrames not yet presented or dropped, oldest first
    binding,      \* the view binding: attached, generation, owner_live, leases
    hostOwner,    \* generation of the PresentationOwner the host holds, or 0
    targets       \* outstanding RenderTargetLeases by generation

pacingVars ==
    <<visible, pending, engine, inFlight, frames, binding, hostOwner, targets>>

NewEngineIdle(id) == [id |-> id, owner |-> hostOwner, needsRender |-> FALSE,
                      paused |-> FALSE, invalidated |-> FALSE]

NewEngine(id) == [id |-> id, owner |-> hostOwner, needsRender |-> TRUE,
                  paused |-> FALSE, invalidated |-> FALSE]

PacingInit ==
    /\ visible = TRUE
    /\ pending = NoReason
    /\ binding = [attached |-> TRUE, generation |-> 1, ownerLive |-> TRUE, leases |-> 0]
    /\ hostOwner = 1
    /\ engine = [id |-> 1, owner |-> 1, needsRender |-> TRUE,
                 paused |-> FALSE, invalidated |-> FALSE]
    /\ inFlight = [e \in 1 .. MaxEngines |-> 0]
    /\ frames = <<>>
    /\ targets = [g \in 1 .. MaxBindings |-> 0]

-----------------------------------------------------------------------------
(* The scheduler's requests. *)

ArmsNothing(e) == e

Arms(e) == [e EXCEPT !.needsRender = TRUE]

RequestFrame(reason) ==
    /\ pending' = reason
    /\ engine' = Arms(engine)
    /\ UNCHANGED <<visible, inFlight, frames, binding, hostOwner, targets>>

UpdateCamera ==
    /\ pending' = "motion"
    /\ engine' = Arms(engine)
    /\ frames' = [i \in DOMAIN frames |-> [frames[i] EXCEPT !.behind = TRUE]]
    /\ UNCHANGED <<visible, inFlight, binding, hostOwner, targets>>

Resumed(e) == IF e.paused THEN [e EXCEPT !.paused = FALSE, !.needsRender = TRUE] ELSE e

SetVisibility ==
    /\ visible' = ~visible
    /\ engine' = IF visible' THEN Resumed(engine) ELSE [engine EXCEPT !.paused = TRUE]
    /\ UNCHANGED <<pending, inFlight, frames, binding, hostOwner, targets>>

-----------------------------------------------------------------------------
(* The pacing engine. *)

PauseOrResume ==
    /\ engine' \in {[engine EXCEPT !.paused = TRUE], Resumed(engine)}
    /\ UNCHANGED <<visible, pending, inFlight, frames, binding, hostOwner, targets>>

UpdateOwner ==
    /\ hostOwner = binding.generation
    /\ engine' = [engine EXCEPT !.owner = hostOwner]
    /\ UNCHANGED <<visible, pending, inFlight, frames, binding, hostOwner, targets>>

(* The host gives the engine up (invalidate, or its Drop) and binds another. *)
Invalidate ==
    /\ engine' = [engine EXCEPT !.invalidated = TRUE]
    /\ UNCHANGED <<visible, pending, inFlight, frames, binding, hostOwner, targets>>

BindEngine ==
    /\ engine.invalidated
    /\ engine.id < MaxEngines
    /\ hostOwner = binding.generation
    /\ binding.attached
    /\ engine' = NewEngine(engine.id + 1)
    /\ UNCHANGED <<visible, pending, inFlight, frames, binding, hostOwner, targets>>

MayAcquire(owner) ==
    /\ owner = binding.generation
    /\ binding.ownerLive
    /\ binding.attached

RoomIgnored == TRUE

Room == inFlight[engine.id] < MaxInFlight

Ready == ~engine.invalidated /\ ~engine.paused /\ engine.needsRender /\ Room

(* A tick of the display link that starts a frame.  Every other outcome --  *)
(* occluded, stationary, paused, full, stale owner, no drawable -- leaves   *)
(* the pending request and the engine as they were.                         *)
StartFrame ==
    /\ visible
    /\ pending # NoReason
    /\ Ready
    /\ MayAcquire(engine.owner)
    /\ inFlight' = [inFlight EXCEPT ![engine.id] = @ + 1]
    /\ engine' = [engine EXCEPT !.needsRender = FALSE]
    /\ frames' = Append(frames, [engine |-> engine.id, reason |-> pending,
                                 behind |-> FALSE])
    /\ pending' = NoReason
    /\ UNCHANGED <<visible, binding, hostOwner, targets>>

GivesBackHere(f) == engine.id

GivesBack(f) == f.engine

FrameEnds(i) ==
    /\ inFlight' = [inFlight EXCEPT ![GivesBack(frames[i])] = IF @ > 0 THEN @ - 1 ELSE 0]
    /\ frames' = RemoveAt(frames, i)
    /\ UNCHANGED <<visible, pending, engine, binding, hostOwner, targets>>

(* present consumes the frame: one of another engine is refused and dropped. *)
Present(i) == FrameEnds(i)

IsObsolete(f) == f.reason \in Coalescable /\ f.behind

DropObsolete(i) ==
    /\ IsObsolete(frames[i])
    /\ FrameEnds(i)

-----------------------------------------------------------------------------
(* The view binding. *)

LeaseTarget ==
    /\ MayAcquire(hostOwner)
    /\ targets[binding.generation] < MaxTargets
    /\ binding' = [binding EXCEPT !.leases = @ + 1]
    /\ targets' = [targets EXCEPT ![binding.generation] = @ + 1]
    /\ UNCHANGED <<visible, pending, engine, inFlight, frames, hostOwner>>

ReleasesAny(g) == TRUE

Releases(g) == g = binding.generation

ReleaseLease(g) ==
    /\ targets[g] > 0
    /\ targets' = [targets EXCEPT ![g] = @ - 1]
    /\ binding' = IF Releases(g)
                  THEN [binding EXCEPT !.leases = IF @ > 0 THEN @ - 1 ELSE 0]
                  ELSE binding
    /\ UNCHANGED <<visible, pending, engine, inFlight, frames, hostOwner>>

TakeOwner ==
    /\ binding.attached
    /\ ~binding.ownerLive
    /\ binding' = [binding EXCEPT !.ownerLive = TRUE]
    /\ hostOwner' = binding.generation
    /\ UNCHANGED <<visible, pending, engine, inFlight, frames, targets>>

ReturnOwner ==
    /\ hostOwner = binding.generation
    /\ binding.ownerLive
    /\ binding' = [binding EXCEPT !.ownerLive = FALSE]
    /\ hostOwner' = 0
    /\ UNCHANGED <<visible, pending, engine, inFlight, frames, targets>>

Detach ==
    /\ binding.attached
    /\ binding.generation < MaxBindings
    /\ binding' = [attached |-> FALSE, generation |-> binding.generation + 1,
                   ownerLive |-> FALSE, leases |-> 0]
    /\ UNCHANGED <<visible, pending, engine, inFlight, frames, hostOwner, targets>>

Reattach ==
    /\ ~binding.attached
    /\ binding.generation < MaxBindings
    /\ binding' = [attached |-> TRUE, generation |-> binding.generation + 1,
                   ownerLive |-> TRUE, leases |-> 0]
    /\ hostOwner' = binding.generation + 1
    /\ UNCHANGED <<visible, pending, engine, inFlight, frames, targets>>

FrameProgress == StartFrame \/ \E i \in DOMAIN frames : Present(i)

PacingNext ==
    \/ FrameProgress
    \/ \E reason \in Reasons : RequestFrame(reason)
    \/ UpdateCamera \/ SetVisibility \/ PauseOrResume
    \/ UpdateOwner \/ Invalidate \/ BindEngine
    \/ \E i \in DOMAIN frames : DropObsolete(i)
    \/ LeaseTarget \/ (\E g \in 1 .. MaxBindings : ReleaseLease(g))
    \/ TakeOwner \/ ReturnOwner \/ Detach \/ Reattach

(* The display link goes on ticking and the host finishes the frames it got. *)
PacingFairness ==
    /\ WF_pacingVars(StartFrame)
    /\ WF_pacingVars(\E i \in DOMAIN frames : Present(i))

PacingSpec == PacingInit /\ [][PacingNext]_pacingVars /\ PacingFairness

-----------------------------------------------------------------------------
(* An engine's count is the number of its frames that are neither presented *)
(* nor dropped, whichever engine they are handed to and whatever became of  *)
(* the engine since: a count that drifts up deadlocks the pacing queue, one *)
(* that drifts down lets a third frame in (pacing.rs:225-226).              *)
FramesAreCounted ==
    \A e \in 1 .. MaxEngines :
        /\ inFlight[e] = Cardinality({i \in DOMAIN frames : frames[i].engine = e})
        /\ inFlight[e] <= MaxInFlight

(* A pending request has armed the engine the next tick asks, also when the *)
(* engine was replaced in between: otherwise the tick finds it idle and the *)
(* request waits for the next one (scheduler.rs:302, pacing.rs:500).        *)
PendingIsArmed == pending # NoReason => engine.needsRender

(* The binding counts the leases of its own generation, after leases of an  *)
(* earlier one are released late (view_binding.rs:434).                     *)
TargetsAreCounted ==
    binding.leases = IF binding.attached THEN targets[binding.generation] ELSE 0

Presentable ==
    /\ visible
    /\ ~engine.paused
    /\ ~engine.invalidated
    /\ MayAcquire(engine.owner)

(* A request does not stay pending for ever on a presentable window: frames *)
(* in flight end, the engine is armed, and the next tick starts a frame.    *)
RequestsAreStarted == []<>(pending = NoReason \/ ~Presentable)

(* The engine, the queue and the binding agree on what is under way.        *)
PacingIsCounted == FramesAreCounted /\ PendingIsArmed /\ TargetsAreCounted
=============================================================================
