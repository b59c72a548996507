--------------------------- MODULE MapNavigation ---------------------------
(***************************************************************************)
(* The navigation history of the map (fcb-map/src/navigation.rs): endpoints *)
(* behind, at and ahead of the user, and the flight on its way to the       *)
(* current one.  A camera is its place on a line; what a flight shows half  *)
(* way may have no exact camera (PrecisionLost, camera.rs:44), which makes  *)
(* the interruption of that flight fail.                                    *)
(***************************************************************************)
EXTENDS Integers, Sequences

CONSTANTS
  Endpoints,    \* the places one navigates to
  MaxHistory    \* max_capacity

ASSUME NavigationAssumption == MaxHistory \in Nat \ {0} /\ Endpoints \subseteq Nat

VARIABLES
  pastEntries,  \* endpoints behind, the oldest first
  currentEntry, \* the entry one is at
  future,       \* endpoints ahead, the nearest first
  flight,       \* the flight to the current entry
  reducedMotion

navigationVars == <<pastEntries, currentEntry, future, flight, reducedMotion>>

Nowhere == -1
NoFlight == [start |-> Nowhere, target |-> Nowhere, elapsed |-> 0]
Duration == 2    \* duration_nanos, in the largest steps that are taken

-----------------------------------------------------------------------------
(* Flights.                                                                 *)

Flying == flight # NoFlight

\* The interpolated camera, if it can be represented.
HasCamera(f) == f.elapsed # 1 \/ (f.start + f.target) % 2 = 0
CameraOf(f) == CASE f.elapsed = 0 -> f.start
                 [] f.elapsed = Duration -> f.target
                 [] OTHER -> (f.start + f.target) \div 2

\* Mutant: time asleep is flown at once.
AdvancedUnclamped(f, dt) == IF f.elapsed + dt > Duration THEN Duration ELSE f.elapsed + dt

Advanced(f, dt) ==
  LET step == IF dt > 1 THEN 1 ELSE dt
  IN  IF f.elapsed + step > Duration THEN Duration ELSE f.elapsed + step

Fly(start, target) ==
  IF reducedMotion \/ start = target
  THEN NoFlight ELSE [start |-> start, target |-> target, elapsed |-> 0]

\* What is on the screen.
Shown == IF Flying THEN CameraOf(flight) ELSE currentEntry

-----------------------------------------------------------------------------
(* The history.                                                             *)

\* push_back on a full deque drops what is oldest.
Behind(seq, x) == Append(IF Len(seq) >= MaxHistory THEN Tail(seq) ELSE seq, x)

\* push_front on a full deque drops what is farthest.
Ahead(x, seq) ==
  <<x>> \o (IF Len(seq) >= MaxHistory THEN SubSeq(seq, 1, Len(seq) - 1) ELSE seq)

\* The flight under way is taken and interrupted; if that fails, it is gone.
Interrupts == Flying => HasCamera(flight)
StartFor(target) == IF currentEntry = Nowhere THEN target ELSE Shown

\* Mutant: what was ahead stays ahead of the new branch.
FutureAfterPushKept == future

FutureAfterPush == <<>>

PushSemanticEndpoint(target) ==
  IF Interrupts
  THEN /\ flight' = Fly(StartFor(target), target)
       /\ pastEntries' = IF currentEntry = Nowhere THEN pastEntries ELSE Behind(pastEntries, currentEntry)
       /\ future' = FutureAfterPush
       /\ currentEntry' = target
       /\ UNCHANGED reducedMotion
  ELSE /\ flight' = NoFlight
       /\ UNCHANGED <<pastEntries, currentEntry, future, reducedMotion>>

\* The entry is taken before the flight is interrupted, and dropped with it if
\* that fails.
NavigateBack ==
  /\ pastEntries # <<>>
  /\ LET entry == pastEntries[Len(pastEntries)] IN
       /\ pastEntries' = SubSeq(pastEntries, 1, Len(pastEntries) - 1)
       /\ IF Interrupts
          THEN /\ flight' = Fly(StartFor(entry), entry)
               /\ future' = IF currentEntry = Nowhere THEN future ELSE Ahead(currentEntry, future)
               /\ currentEntry' = entry
          ELSE flight' = NoFlight /\ UNCHANGED <<currentEntry, future>>
  /\ UNCHANGED reducedMotion

NavigateForward ==
  /\ future # <<>>
  /\ future' = Tail(future)
  /\ IF Interrupts
     THEN /\ flight' = Fly(StartFor(Head(future)), Head(future))
          /\ pastEntries' = IF currentEntry = Nowhere THEN pastEntries ELSE Behind(pastEntries, currentEntry)
          /\ currentEntry' = Head(future)
     ELSE flight' = NoFlight /\ UNCHANGED <<pastEntries, currentEntry>>
  /\ UNCHANGED reducedMotion

\* Time advances also when the camera of the moment cannot be represented.
StepFlight(dt) ==
  /\ Flying
  /\ LET elapsed == Advanced(flight, dt)
     IN  flight' = IF elapsed = Duration THEN NoFlight
                                         ELSE [flight EXCEPT !.elapsed = elapsed]
  /\ UNCHANGED <<pastEntries, currentEntry, future, reducedMotion>>

\* The user takes over where the flight is: that is then the current entry.
InterruptFlight ==
  /\ Flying
  /\ flight' = NoFlight
  /\ currentEntry' = IF HasCamera(flight) THEN CameraOf(flight) ELSE currentEntry
  /\ UNCHANGED <<pastEntries, future, reducedMotion>>

\* A flight under way ends at its target.
SetMotionPreference ==
  /\ reducedMotion' = ~reducedMotion
  /\ currentEntry' = IF reducedMotion' /\ Flying THEN flight.target ELSE currentEntry
  /\ flight' = IF reducedMotion' THEN NoFlight ELSE flight
  /\ UNCHANGED <<pastEntries, future>>

NavigationInit ==
  /\ pastEntries = <<>> /\ future = <<>> /\ flight = NoFlight
  /\ currentEntry \in Endpoints \cup {Nowhere}
  /\ reducedMotion = FALSE

NavigationNext ==
  \/ \E e \in Endpoints : PushSemanticEndpoint(e)
  \/ NavigateBack \/ NavigateForward \/ InterruptFlight \/ SetMotionPreference
  \/ \E dt \in 0..(2 * Duration) : StepFlight(dt)

NavigationSpec == NavigationInit /\ [][NavigationNext]_navigationVars

-----------------------------------------------------------------------------
(* Properties.                                                             *)

\* A flight goes to the current entry, and the entries together fit one deque,
\* so going back never has to drop the farthest endpoint ahead.
HistoryIsBounded ==
  /\ Flying => flight.target = currentEntry /\ flight.elapsed < Duration /\ ~reducedMotion
  /\ Len(pastEntries) + Len(future) <= MaxHistory
  /\ currentEntry = Nowhere => pastEntries = <<>> /\ future = <<>>

Trail == pastEntries \o <<currentEntry>> \o future

\* Going back and forth changes where one is and nothing else: endpoints leave
\* only to a new branch, at the far end, or with an interruption that failed.
TrailIsWalked ==
  \/ Trail' = Trail /\ Len(pastEntries') - Len(pastEntries) \in {-1, 0, 1}
  \/ UNCHANGED <<pastEntries, future>> /\ Flying /\ ~Flying' /\ currentEntry' = Shown
  \/ /\ future' = <<>>
     /\ Trail' \in {SubSeq(Trail, 1, Len(pastEntries) + 1) \o <<currentEntry'>>,
                    SubSeq(Trail, 2, Len(pastEntries) + 1) \o <<currentEntry'>>, <<currentEntry'>>}
  \/ Flying /\ ~HasCamera(flight) /\ ~Flying' /\ UNCHANGED currentEntry

\* What is on the screen never jumps: it stands still or goes half a flight
\* on, however long the machine slept, unless motion is reduced, the new
\* target is already there or an interruption failed.
ScreenDoesNotJump ==
  \/ Shown' = Shown
  \/ Flying /\ flight' = NoFlight /\ currentEntry' = flight.target
       /\ (flight.elapsed = 1 \/ reducedMotion' \/ ~HasCamera(flight))
  \/ Flying /\ flight.elapsed = 0 /\ flight' = [flight EXCEPT !.elapsed = 1]
  \/ reducedMotion \/ currentEntry = Nowhere

NavigationStands ==
  [][HistoryIsBounded' /\ TrailIsWalked /\ ScreenDoesNotJump]_navigationVars
=============================================================================
