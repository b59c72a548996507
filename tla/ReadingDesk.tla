---------------------------- MODULE ReadingDesk ----------------------------
(***************************************************************************)
(* The desk of readers (fcb/src/ui/reading_panes/desk.rs and                *)
(* desk/checkpoint.rs): panes, visits and bookmarks over the exact captures *)
(* they refer to, which the desk retains as long as something does.  A      *)
(* command works on a copy that is published whole or not at all, so a      *)
(* refused, failed or cancelled one is no step, except that the identities  *)
(* it saw stay used.  Stale revisions and attempts are refused before that  *)
(* and left out.  A place is an offset with its selection.                  *)
(***************************************************************************)
EXTENDS Naturals, Sequences, FiniteSets

CONSTANTS
  Offered,        \* captures hosts open: file, revision, bytes
  Places,
  MaxDeskPanes, MaxSources, MaxVisits, MaxMarks,   \* DeskLimits
  MaxPaneId, MaxMarkId,     \* bounds of the model: panes opened and marks made,
  MaxIdentity, MaxUpdates   \* restored identities, edits of a mark

\* Identities are never 0.
Capture ==
  [file : Nat \ {0}, revision : Nat \ {0}, bytes : {c.bytes : c \in Offered}]

ASSUME DeskAssumption ==
  /\ Offered \subseteq Capture
  /\ {MaxDeskPanes, MaxSources, MaxVisits} \subseteq Nat \ {0}
  /\ {MaxMarks, MaxPaneId, MaxMarkId, MaxIdentity, MaxUpdates} \subseteq Nat

VARIABLES
  deskPanes,      \* panes and offsets: id, file, revision, place, pinned
  activeReader,     \* the active pane, 0 for none
  nextPaneId,
  sources,        \* retained captures
  visits,         \* history: file, revision, place, preferred pane
  cursor,         \* 0 for none
  marks,          \* bookmarks: id, update_sequence, location
  nextMark,
  highWater,      \* source_high_water
  retainedTop           \* history: the highest number an identity it retained ever had

deskVars == <<deskPanes, activeReader, nextPaneId, sources, visits, cursor, marks, nextMark,
              highWater, retainedTop>>

Elements(seq) == {seq[i] : i \in DOMAIN seq}
Identity(s) == [file |-> s.file, revision |-> s.revision]
Keeps(s, t) == Identity(s) = Identity(t)
Top(s) == IF s.file > s.revision THEN s.file ELSE s.revision
Greatest(numbers) == CHOOSE m \in numbers : \A n \in numbers : n <= m

\* What retain and remove leave of a sequence, in its order: the n-th is at the
\* n-th of the places that are kept.
Kept(seq, places) ==
  LET rank(i) == Cardinality({j \in places : j <= i})
  IN  [n \in 1..Cardinality(places) |-> seq[CHOOSE i \in places : rank(i) = n]]

-----------------------------------------------------------------------------
(* Transactions.                                                            *)

\* Mutant: a bookmark does not keep its capture.
ReferencedByPanes(s, open, trail, notes) ==
  \E t \in Elements(open) \cup Elements(trail) : Keeps(s, t)

Referenced(s, open, trail, notes) ==
  \/ \E t \in Elements(open) \cup Elements(trail) : Keeps(s, t)
  \/ \E m \in Elements(notes) : Keeps(s, m.location)

\* What nothing refers to any more is given up.
Publish(staged) ==
  /\ sources' = Kept(staged, {i \in DOMAIN staged :
                               Referenced(staged[i], deskPanes', visits', marks')})
  /\ retainedTop' = Greatest({retainedTop} \cup {Top(s) : s \in Elements(sources')})

PaneOf(id) == CHOOSE p \in Elements(deskPanes) : p.id = id
PaneIds == {p.id : p \in Elements(deskPanes)}
LocationOf(id) ==
  LET p == PaneOf(id)
  IN  [file |-> p.file, revision |-> p.revision, place |-> p.place, pane |-> id]

-----------------------------------------------------------------------------
(* Opening a location.                                                      *)

\* Mutant: the pane a location was last seen in takes it, pinned or not.
HintedPinned(at) == {p \in Elements(deskPanes) : p.id = at.pane}

Hinted(at) == {p \in Elements(deskPanes) : p.id = at.pane /\ (~p.pinned \/ Keeps(p, at))}

FirstFree ==
  LET free == {i \in DOMAIN deskPanes : ~deskPanes[i].pinned}
  IN  IF free = {} THEN 0
      ELSE deskPanes[CHOOSE i \in free : \A j \in free : i <= j].id

Preferred(at) ==
  IF Hinted(at) # {} THEN at.pane
  ELSE IF activeReader # 0 /\ ~PaneOf(activeReader).pinned THEN activeReader
  ELSE FirstFree

\* A pane that is free shows it, else a new one; the location moves there.
OpenLocation(at, id) ==
  /\ activeReader' = IF id # 0 THEN id ELSE nextPaneId
  /\ IF id # 0
     THEN /\ deskPanes' = [i \in DOMAIN deskPanes |->
               IF deskPanes[i].id = id
               THEN [deskPanes[i] EXCEPT !.file = at.file, !.revision = at.revision,
                                         !.place = at.place]
               ELSE deskPanes[i]]
          /\ UNCHANGED nextPaneId
     ELSE /\ Len(deskPanes) < MaxDeskPanes /\ nextPaneId <= MaxPaneId
          /\ deskPanes' = Append(deskPanes,
               [id |-> nextPaneId, file |-> at.file, revision |-> at.revision,
                place |-> at.place, pinned |-> FALSE])
          /\ nextPaneId' = nextPaneId + 1

Opened(at) == [at EXCEPT !.pane = activeReader']

\* A visit to the same place is none; a new one ends what was ahead.
Record(at, trail, position) ==
  IF position # 0 /\ trail[position] = at THEN visits' = trail /\ cursor' = position
  ELSE LET behind == SubSeq(trail, 1, position)
           kept == IF Len(behind) = MaxVisits THEN Tail(behind) ELSE behind
       IN  visits' = Append(kept, at) /\ cursor' = Len(kept) + 1

\* A capture is admitted beside the ones there are, before any is given up.
AdmitsCapture(c) ==
  IF \E s \in Elements(sources) : Keeps(s, c) THEN c \in Elements(sources)
                                               ELSE Len(sources) < MaxSources
Raised(c) == Greatest({highWater, Top(c)})

OpenCapture(c, place) ==
  /\ AdmitsCapture(c)
  /\ LET at == [file |-> c.file, revision |-> c.revision, place |-> place, pane |-> activeReader]
     IN  OpenLocation(at, Preferred(at)) /\ Record(Opened(at), visits, cursor)
  /\ UNCHANGED <<marks, nextMark>>
  /\ Publish(IF c \in Elements(sources) THEN sources ELSE Append(sources, c))
  /\ highWater' = Raised(c)

\* Identity conflict, no room, or cancelled: the identity was seen all the same.
OpenFails(c) ==
  highWater' = Raised(c) /\ UNCHANGED <<deskPanes, activeReader, nextPaneId, sources, visits,
                                        cursor, marks, nextMark, retainedTop>>

-----------------------------------------------------------------------------
(* Commands.                                                                *)

Focus(id) ==
  /\ activeReader' = id
  /\ Record(LocationOf(id), visits, cursor)
  /\ UNCHANGED <<deskPanes, nextPaneId, marks, nextMark, highWater>>
  /\ Publish(sources)

Navigate(id, place) ==
  /\ LET at == [LocationOf(id) EXCEPT !.place = place]
     IN  OpenLocation(at, Preferred(at)) /\ Record(Opened(at), visits, cursor)
  /\ UNCHANGED <<marks, nextMark, highWater>>
  /\ Publish(sources)

Moved(id, place) ==
  [i \in DOMAIN deskPanes |->
     IF deskPanes[i].id = id THEN [deskPanes[i] EXCEPT !.place = place] ELSE deskPanes[i]]

\* Mutant: the visit keeps the place it was made at.
FollowsNever(id) == FALSE

Follows(id) == cursor # 0 /\ visits[cursor].pane = id

Scroll(id, place) ==
  /\ deskPanes' = Moved(id, place)
  /\ visits' = IF Follows(id)
               THEN [visits EXCEPT ![cursor] = [LocationOf(id) EXCEPT !.place = place]]
               ELSE visits
  /\ UNCHANGED <<activeReader, nextPaneId, cursor, marks, nextMark, highWater>>
  /\ Publish(sources)

PinReader(id) ==
  /\ deskPanes' = [i \in DOMAIN deskPanes |->
       IF deskPanes[i].id = id THEN [deskPanes[i] EXCEPT !.pinned = ~@] ELSE deskPanes[i]]
  /\ UNCHANGED <<activeReader, nextPaneId, visits, cursor, marks, nextMark, highWater>>
  /\ Publish(sources)

Duplicate(id) ==
  /\ Len(deskPanes) < MaxDeskPanes /\ nextPaneId <= MaxPaneId
  /\ deskPanes' = Append(deskPanes, [PaneOf(id) EXCEPT !.id = nextPaneId, !.pinned = TRUE])
  /\ activeReader' = nextPaneId /\ nextPaneId' = nextPaneId + 1
  /\ Record(Opened(LocationOf(id)), visits, cursor)
  /\ UNCHANGED <<marks, nextMark, highWater>>
  /\ Publish(sources)

CloseReader(id) ==
  /\ deskPanes' = Kept(deskPanes, {i \in DOMAIN deskPanes : deskPanes[i].id # id})
  /\ activeReader' = IF activeReader # id THEN activeReader
                ELSE IF deskPanes' = <<>> THEN 0 ELSE deskPanes'[Len(deskPanes')].id
  /\ UNCHANGED <<nextPaneId, visits, cursor, marks, nextMark, highWater>>
  /\ Publish(sources)

\* The active pane if it is not pinned, else the topmost that is not.
Escapes ==
  IF activeReader # 0 /\ ~PaneOf(activeReader).pinned THEN {activeReader}
  ELSE LET free == {i \in DOMAIN deskPanes : ~deskPanes[i].pinned}
       IN  {deskPanes[i].id : i \in {i \in free : \A j \in free : j <= i}}

\* Back and forward: the visit follows the pane it is opened in.
Revisit(target) ==
  /\ target \in DOMAIN visits
  /\ OpenLocation(visits[target], Preferred(visits[target]))
  /\ visits' = [visits EXCEPT ![target] = Opened(@)]
  /\ cursor' = target
  /\ UNCHANGED <<marks, nextMark, highWater>>
  /\ Publish(sources)

\* A bookmark or an annotation.
AddMark(id) ==
  /\ Len(marks) < MaxMarks /\ nextMark <= MaxMarkId
  /\ marks' = Append(marks, [id |-> nextMark, updates |-> 1, location |-> LocationOf(id)])
  /\ nextMark' = nextMark + 1
  /\ UNCHANGED <<deskPanes, activeReader, nextPaneId, visits, cursor, highWater>>
  /\ Publish(sources)

EditMark(i) ==
  /\ marks[i].updates < MaxUpdates
  /\ marks' = [marks EXCEPT ![i].updates = @ + 1]
  /\ UNCHANGED <<deskPanes, activeReader, nextPaneId, visits, cursor, nextMark, highWater>>
  /\ Publish(sources)

\* What is selected at a location, of the bytes that are retained.
SelectedIn(kept, at) ==
  LET s == CHOOSE s \in Elements(kept) : Keeps(s, at) IN <<s.bytes, at.place>>

\* Mutant: a note goes wherever it is told.
CorrespondsAnyway(m, at) == TRUE

Corresponds(m, at) == SelectedIn(sources, m.location) = SelectedIn(sources, at)

ReattachMark(i, id) ==
  /\ marks[i].updates < MaxUpdates
  /\ Corresponds(marks[i], LocationOf(id))
  /\ marks' = [marks EXCEPT ![i].updates = @ + 1, ![i].location = LocationOf(id)]
  /\ UNCHANGED <<deskPanes, activeReader, nextPaneId, visits, cursor, nextMark, highWater>>
  /\ Publish(sources)

RecallMark(i) ==
  /\ OpenLocation(marks[i].location, Preferred(marks[i].location))
  /\ Record(Opened(marks[i].location), visits, cursor)
  /\ UNCHANGED <<marks, nextMark, highWater>>
  /\ Publish(sources)

ForgetMark(i) ==
  /\ marks' = Kept(marks, DOMAIN marks \ {i})
  /\ UNCHANGED <<deskPanes, activeReader, nextPaneId, visits, cursor, nextMark, highWater>>
  /\ Publish(sources)

ClearHistory ==
  /\ IF activeReader = 0 THEN visits' = <<>> /\ cursor' = 0
                    ELSE Record(LocationOf(activeReader), <<>>, 0)
  /\ UNCHANGED <<deskPanes, activeReader, nextPaneId, marks, nextMark, highWater>>
  /\ Publish(sources)

-----------------------------------------------------------------------------
(* Checkpoints: saved and restored in one step here, since all that ties a  *)
(* checkpoint to its time are numbers, and these are replaced.              *)

\* What a restore checks of a document.
CheckpointValid(kept, open, active, trail, position, notes) ==
  /\ Len(kept) <= MaxSources /\ Len(open) <= MaxDeskPanes
  /\ Len(trail) <= MaxVisits /\ Len(notes) <= MaxMarks
  /\ IF trail = <<>> THEN position = 0 ELSE position \in DOMAIN trail
  /\ IF open = <<>> THEN active = 0 ELSE \E p \in Elements(open) : p.id = active
  /\ \A i, j \in DOMAIN kept : Keeps(kept[i], kept[j]) => i = j
  /\ \A t \in Elements(open) \cup Elements(trail) \cup {m.location : m \in Elements(notes)} :
       \E s \in Elements(kept) : Keeps(s, t)
  /\ \A s \in Elements(kept) : Referenced(s, open, trail, notes)

\* Mutant: identities are free again once their captures are gone.
FirstFreshRetained == 1 + Greatest({0} \cup {Top(s) : s \in Elements(sources)})

FirstFresh == highWater + 1

\* Files keep what relates their revisions; every revision is a new one.
NewSource(s) ==
  LET at(t) == CHOOSE i \in DOMAIN sources : sources[i] = t
      file == CHOOSE i \in DOMAIN sources :
                /\ sources[i].file = s.file
                /\ \A j \in DOMAIN sources : sources[j].file = s.file => i <= j
  IN  [file |-> FirstFresh + file - 1, revision |-> FirstFresh + at(s) - 1, bytes |-> s.bytes]
NewPane(id) ==
  IF id \in PaneIds
  THEN nextPaneId - 1 + (CHOOSE i \in DOMAIN deskPanes : deskPanes[i].id = id) ELSE 0
Renamed(t) ==
  LET s == NewSource(CHOOSE s \in Elements(sources) : Keeps(s, t))
  IN  [t EXCEPT !.file = s.file, !.revision = s.revision]
Moving(at) == [Renamed(at) EXCEPT !.pane = NewPane(at.pane)]

RestoreCheckpoint ==
  /\ CheckpointValid(sources, deskPanes, activeReader, visits, cursor, marks)
  /\ highWater + Len(sources) <= MaxIdentity
  /\ highWater' = FirstFresh + Len(sources) - 1
  /\ deskPanes' = [i \in DOMAIN deskPanes |->
                     [Renamed(deskPanes[i]) EXCEPT !.id = NewPane(deskPanes[i].id)]]
  /\ activeReader' = NewPane(activeReader)
  /\ nextPaneId' = nextPaneId + Len(deskPanes)
  /\ visits' = [i \in DOMAIN visits |-> Moving(visits[i])]
  /\ marks' = [i \in DOMAIN marks |-> [marks[i] EXCEPT !.id = nextMark + i - 1,
                                                       !.location = Moving(@)]]
  /\ nextMark' = nextMark + Len(marks)
  /\ UNCHANGED cursor
  /\ Publish([i \in DOMAIN sources |-> NewSource(sources[i])])

DeskInit ==
  /\ deskPanes = <<>> /\ activeReader = 0 /\ nextPaneId = 1 /\ sources = <<>>
  /\ visits = <<>> /\ cursor = 0 /\ marks = <<>> /\ nextMark = 1
  /\ highWater = 0 /\ retainedTop = 0

DeskNext ==
  \/ \E c \in Offered : OpenFails(c) \/ \E place \in Places : OpenCapture(c, place)
  \/ \E id \in PaneIds :
       \/ Focus(id) \/ PinReader(id) \/ Duplicate(id) \/ CloseReader(id) \/ AddMark(id)
       \/ \E place \in Places : Navigate(id, place) \/ Scroll(id, place)
  \/ \E id \in Escapes : CloseReader(id)
  \/ cursor # 0 /\ \E target \in {cursor - 1, cursor + 1} : Revisit(target)
  \/ \E i \in DOMAIN marks :
       \/ EditMark(i) \/ RecallMark(i) \/ ForgetMark(i)
       \/ \E id \in PaneIds : ReattachMark(i, id)
  \/ ClearHistory \/ RestoreCheckpoint

DeskSpec == DeskInit /\ [][DeskNext]_deskVars

-----------------------------------------------------------------------------
(* Properties.                                                             *)

\* Every desk can be saved and restored: each location has its capture, each
\* capture a location, and a pane is active whenever there is one.
EveryDeskRestores == CheckpointValid(sources, deskPanes, activeReader, visits, cursor, marks)

\* Where the history says one is, is what its pane shows, if it is open.
CursorIsWhatIsShown ==
  cursor # 0 /\ visits[cursor].pane \in PaneIds =>
    visits[cursor] = LocationOf(visits[cursor].pane)

\* What a restore brings never takes the identity of a capture there was
\* before, evicted or not: a view of that one may still be out.
IdentitiesStand ==
  /\ retainedTop' <= highWater'
  /\ \A s \in Elements(sources') :
       s \in Elements(sources) \cup Offered \/ (s.file > retainedTop /\ s.revision > retainedTop)

\* A pinned pane keeps its capture; what a note points at keeps its text.
PinsAndNotesStand ==
  /\ \A p \in Elements(deskPanes), q \in Elements(deskPanes') :
       p.id = q.id /\ p.pinned => Keeps(p, q)
  /\ \A m \in Elements(marks), n \in Elements(marks') :
       m.id = n.id => SelectedIn(sources, m.location) = SelectedIn(sources', n.location)

DeskStands ==
  [][EveryDeskRestores' /\ CursorIsWhatIsShown' /\ IdentitiesStand
     /\ PinsAndNotesStand]_deskVars
=============================================================================
