--------------------------- MODULE CacheNamespace ---------------------------
(***************************************************************************)
(* One cache namespace root on disk and the sessions that create or open   *)
(* it (fcb-store/src/namespace.rs).  A session is used by one thread, but  *)
(* its process may die between any two file operations, so each of them is *)
(* an action; what a session keeps in memory is gone then, what is on disk *)
(* stays.  Sessions of two processes meet on disk only.                    *)
(*                                                                         *)
(* Entry bytes are "part" (created, not written to the end) or "whole".    *)
(* Left out: counters and reports, name and size checks, protected paths,  *)
(* and roots or entries replaced by symbolic links, which every operation  *)
(* refuses without changing anything.                                      *)
(***************************************************************************)
EXTENDS Integers, FiniteSets, FiniteSetsExt

CONSTANTS
  Sessions, Names,
  MaxGenerations      \* MAX_GENERATIONS

ASSUME NamespaceAssumption ==
  /\ MaxGenerations \in Nat \ {0}
  /\ Names \cap {"closed", "create", "idle", "clear", "reclaim"} = {}

Generations == 1..MaxGenerations
Keys == Generations \X Names
None == 0             \* no generation

VARIABLES
  built,              \* root, marker, first generation and pins made by create
  dirs, file, pins,   \* on disk: gen-* directories, entries, pin markers
  op,                 \* what a session is doing
  current,            \* current_generation
  hot,                \* keys of hot
  deferred, cleared,  \* deferred_generations, cleared_generations
  todo,               \* generations the running clear or reclaim has left
  target              \* directory it is removing: a generation or None

disk == <<built, dirs, file, pins>>
memory == <<current, hot, deferred, cleared>>
namespaceVars == <<disk, op, memory, todo, target>>

Present(g) == {n \in Names : file[<<g, n>>] # "absent"}

-----------------------------------------------------------------------------
(* Creating and opening a root.                                            *)

\* A session starts at generation g with empty memory.
Begin(s, g) ==
  /\ current' = [current EXCEPT ![s] = g]
  /\ hot' = [hot EXCEPT ![s] = {}]
  /\ deferred' = [deferred EXCEPT ![s] = {}]
  /\ cleared' = [cleared EXCEPT ![s] = {}]

Create(s) ==
  /\ op[s] = "closed"
  /\ built = 0
  /\ built' = 1
  /\ op' = [op EXCEPT ![s] = "create"]
  /\ UNCHANGED <<dirs, file, pins, memory, todo, target>>

\* The marker, the directory of generation 1, then the directory of pins.
CreateStep(s) ==
  /\ op[s] = "create"
  /\ built < 4
  /\ built' = built + 1
  /\ dirs' = IF built = 2 THEN dirs \cup {1} ELSE dirs
  /\ IF built = 3
       THEN Begin(s, 1) /\ op' = [op EXCEPT ![s] = "idle"]
       ELSE UNCHANGED <<memory, op>>
  /\ UNCHANGED <<file, pins, todo, target>>

\* Mutant: a session resumes after the highest generation.
HighestNext(ds) == Max(ds \cup {1}) + 1

Highest(ds) == Max(ds \cup {1})

\* open validates the marker, so it needs one.
Open(s) ==
  /\ op[s] = "closed"
  /\ built >= 2
  /\ Begin(s, Highest(dirs))
  /\ op' = [op EXCEPT ![s] = "idle"]
  /\ UNCHANGED <<disk, todo, target>>

\* The process dies, or drops the session: there is no other close.
Crash(s) ==
  /\ op[s] # "closed"
  /\ Begin(s, 1)
  /\ op' = [op EXCEPT ![s] = "closed"]
  /\ todo' = [todo EXCEPT ![s] = {}]
  /\ target' = [target EXCEPT ![s] = None]
  /\ UNCHANGED disk

-----------------------------------------------------------------------------
(* Generations, entries and pins.                                          *)

CanAdvance(s) == current[s] < MaxGenerations /\ current[s] + 1 \notin dirs

AdvanceDir(s) ==
  /\ CanAdvance(s)
  /\ dirs' = dirs \cup {current[s] + 1}
  /\ current' = [current EXCEPT ![s] = @ + 1]

AdvanceGeneration(s) ==
  /\ op[s] = "idle"
  /\ AdvanceDir(s)
  /\ UNCHANGED <<built, file, pins, op, hot, deferred, cleared, todo, target>>

\* write_entry_in_generation refuses any generation but the current one, and
\* a name that is taken; it creates the file, then writes it.
BeginWrite(s, n) ==
  /\ op[s] = "idle"
  /\ current[s] \in dirs
  /\ file[<<current[s], n>>] = "absent"
  /\ file' = [file EXCEPT ![<<current[s], n>>] = "part"]
  /\ op' = [op EXCEPT ![s] = n]
  /\ UNCHANGED <<built, dirs, pins, memory, todo, target>>

FinishWrite(s, n) ==
  /\ op[s] = n
  /\ LET key == <<current[s], n>> IN
       /\ file' = [file EXCEPT ![key] = IF @ = "absent" THEN @ ELSE "whole"]
       /\ hot' = [hot EXCEPT ![s] = @ \cup {key}]
  /\ op' = [op EXCEPT ![s] = "idle"]
  /\ UNCHANGED <<built, dirs, pins, current, deferred, cleared, todo, target>>

\* The file system fails: the entry stays as it is.
FailWrite(s, n) ==
  /\ op[s] = n
  /\ op' = [op EXCEPT ![s] = "idle"]
  /\ UNCHANGED <<disk, memory, todo, target>>

\* Without the pins directory the marker cannot be created.
Pin(s, g) ==
  /\ op[s] = "idle"
  /\ g <= current[s]
  /\ built = 4
  /\ g \notin pins
  /\ pins' = pins \cup {g}
  /\ UNCHANGED <<built, dirs, file, op, memory, todo, target>>

Unpin(s, g) ==
  /\ op[s] = "idle"
  /\ g \in pins
  /\ pins' = pins \ {g}
  /\ UNCHANGED <<built, dirs, file, op, memory, todo, target>>

-----------------------------------------------------------------------------
(* Clearing and reclaiming.                                                *)

\* clear_generation moves on first when it clears the current generation.
MoveOffCurrent(s, g) ==
  IF g = current[s] THEN AdvanceDir(s) ELSE UNCHANGED <<current, dirs>>

\* clear_namespace: everything up to the current generation is to go.
ClearNamespace(s) ==
  /\ op[s] = "idle"
  /\ AdvanceDir(s)
  /\ op' = [op EXCEPT ![s] = "clear"]
  /\ todo' = [todo EXCEPT ![s] = 1..current[s]]
  /\ UNCHANGED <<built, file, pins, hot, deferred, cleared, target>>

\* clear_generation: any generation, also one that is yet to come.
ClearGeneration(s, g) ==
  /\ op[s] = "idle"
  /\ MoveOffCurrent(s, g)
  /\ op' = [op EXCEPT ![s] = "clear"]
  /\ todo' = [todo EXCEPT ![s] = {g}]
  /\ UNCHANGED <<built, file, pins, hot, deferred, cleared, target>>

ReclaimDeferred(s) ==
  /\ op[s] = "idle"
  /\ deferred[s] # {}
  /\ op' = [op EXCEPT ![s] = "reclaim"]
  /\ todo' = [todo EXCEPT ![s] = deferred[s]]
  /\ UNCHANGED <<disk, memory, target>>

Turn(s, g) ==
  op[s] \in {"clear", "reclaim"} /\ target[s] = None /\ todo[s] # {} /\ g = Min(todo[s])

\* Mutant: a generation is reclaimed whether it is pinned or not.
MustKeepNothing(g) == FALSE

MustKeep(g) == g \in pins

\* The next generation of a clear is revoked, and deferred if it is pinned; the
\* next one of a reclaim is passed over if it is still pinned.
Keep(s, g) ==
  /\ Turn(s, g)
  /\ MustKeep(g)
  /\ todo' = [todo EXCEPT ![s] = @ \ {g}]
  /\ IF op[s] = "clear"
       THEN /\ cleared' = [cleared EXCEPT ![s] = @ \cup {g}]
            /\ deferred' = [deferred EXCEPT ![s] = @ \cup {g}]
       ELSE UNCHANGED <<cleared, deferred>>
  /\ UNCHANGED <<disk, op, current, hot, target>>

\* Mutant: a clear does not revoke what it reclaims.
RevokedNot(s, g) == cleared[s]

Revoked(s, g) == IF op[s] = "clear" THEN cleared[s] \cup {g} ELSE cleared[s]

\* Otherwise its directory is removed, if it is there.
BeginReclaim(s, g) ==
  /\ Turn(s, g)
  /\ ~MustKeep(g)
  /\ cleared' = [cleared EXCEPT ![s] = Revoked(s, g)]
  /\ IF g \in dirs
       THEN target' = [target EXCEPT ![s] = g] /\ UNCHANGED <<todo, deferred>>
       ELSE /\ todo' = [todo EXCEPT ![s] = @ \ {g}]
            /\ deferred' = [deferred EXCEPT ![s] = IF op[s] = "reclaim" THEN @ \ {g} ELSE @]
            /\ UNCHANGED target
  /\ UNCHANGED <<disk, op, current, hot>>

RemoveFile(s, n) ==
  /\ target[s] # None
  /\ n \in Present(target[s])
  /\ file' = [file EXCEPT ![<<target[s], n>>] = "absent"]
  /\ UNCHANGED <<built, dirs, pins, op, memory, todo, target>>

RemoveDir(s) ==
  LET g == target[s] IN
  /\ g # None
  /\ Present(g) = {}
  /\ dirs' = dirs \ {g}
  /\ hot' = [hot EXCEPT ![s] = {k \in @ : k[1] # g}]
  /\ deferred' = [deferred EXCEPT ![s] = IF op[s] = "reclaim" THEN @ \ {g} ELSE @]
  /\ todo' = [todo EXCEPT ![s] = @ \ {g}]
  /\ target' = [target EXCEPT ![s] = None]
  /\ UNCHANGED <<built, file, pins, op, current, cleared>>

\* A removal is refused: the call returns at once and leaves the rest.
ReclaimFails(s) ==
  /\ target[s] # None
  /\ op' = [op EXCEPT ![s] = "idle"]
  /\ todo' = [todo EXCEPT ![s] = {}]
  /\ target' = [target EXCEPT ![s] = None]
  /\ UNCHANGED <<disk, memory>>

Finish(s) ==
  /\ op[s] \in {"clear", "reclaim"}
  /\ todo[s] = {}
  /\ op' = [op EXCEPT ![s] = "idle"]
  /\ UNCHANGED <<disk, memory, todo, target>>

NamespaceInit ==
  /\ built = 0 /\ dirs = {} /\ pins = {}
  /\ file = [k \in Keys |-> "absent"]
  /\ op = [s \in Sessions |-> "closed"]
  /\ current = [s \in Sessions |-> 1]
  /\ hot = [s \in Sessions |-> {}]
  /\ deferred = [s \in Sessions |-> {}]
  /\ cleared = [s \in Sessions |-> {}]
  /\ todo = [s \in Sessions |-> {}]
  /\ target = [s \in Sessions |-> None]

NamespaceNext ==
  \E s \in Sessions :
    \/ Create(s) \/ CreateStep(s) \/ Open(s) \/ Crash(s)
    \/ AdvanceGeneration(s) \/ ClearNamespace(s) \/ ReclaimDeferred(s)
    \/ RemoveDir(s) \/ ReclaimFails(s) \/ Finish(s)
    \/ \E n \in Names : BeginWrite(s, n) \/ FinishWrite(s, n) \/ FailWrite(s, n) \/ RemoveFile(s, n)
    \/ \E g \in Generations :
         Pin(s, g) \/ Unpin(s, g) \/ ClearGeneration(s, g) \/ Keep(s, g) \/ BeginReclaim(s, g)

NamespaceSpec == NamespaceInit /\ [][NamespaceNext]_namespaceVars

-----------------------------------------------------------------------------
(* Properties.                                                             *)

\* The types of the variables.
NamespaceTypeOK ==
  /\ built \in 0..4
  /\ dirs \subseteq Generations /\ pins \subseteq Generations
  /\ file \in [Keys -> {"absent", "part", "whole"}]
  /\ op \in [Sessions -> {"closed", "create", "idle", "clear", "reclaim"} \cup Names]
  /\ current \in [Sessions -> Generations]
  /\ hot \in [Sessions -> SUBSET Keys]
  /\ deferred \in [Sessions -> SUBSET Generations]
  /\ cleared \in [Sessions -> SUBSET Generations]
  /\ todo \in [Sessions -> SUBSET Generations]
  /\ target \in [Sessions -> Generations \cup {None}]

\* Hot and cold reads agree: an entry a session keeps in memory, of a generation
\* it did not clear, is on disk as written.
HotMatchesDisk ==
  \A s \in Sessions : \A k \in hot[s] : k[1] \notin cleared[s] => file[k] = "whole"

\* A root used by one session at a time, dying and opened again at any point,
\* is a store of numbered generations: entries enter the newest only and leave
\* only older, unpinned ones, and no number is ever used again.
Entries == {k \in Keys : file[k] # "absent"}
Wholes == {k \in Keys : file[k] = "whole"}
Newest == IF dirs = {} THEN 0 ELSE Max(dirs)

Store == INSTANCE GenerationStore WITH
           newest <- Newest, entries <- Entries, whole <- Wholes

ImplementsStore == Store!StoreSpec

\* What a session believes of its generations is true of the directories.
NamespaceIsCoherent == NamespaceTypeOK /\ HotMatchesDisk
=============================================================================
