----------------------------- MODULE GlyphAtlas -----------------------------
(***************************************************************************)
(* The bounded glyph atlas and its queue of raster misses                  *)
(* (fcb/src/glyph_atlas.rs).  One thread calls it; what is out of its      *)
(* hands is the draw data that keeps references to slots, the command      *)
(* buffers in flight that pin them, and device resets.                     *)
(*                                                                         *)
(* Abstracted: textures, metrics, the event log and the counters; a batch  *)
(* of the queue is a series of batches of one.                             *)
(***************************************************************************)
EXTENDS Integers, Sequences, FiniteSets, FiniteSetsExt, SequencesExt

CONSTANTS
  Glyphs,               \* raster keys
  Width, Height, Kind,  \* of a raster; Kind is the kind of page it belongs to
  PageSize, MaxPages, QueueCapacity,
  MinShelf, Word,       \* the lowest shelf, 16; the range of a u32
  MaxFrame, MaxDevice,  \* bounds
  MaxReuse,             \* bound: generations of a slot
  MaxPins               \* bound: pins in flight

ASSUME AtlasAssumption ==
  /\ Width \in [Glyphs -> 1..PageSize] /\ Height \in [Glyphs -> 1..PageSize]
  /\ {PageSize, MaxPages, QueueCapacity, MinShelf, MaxFrame, MaxDevice, MaxReuse}
       \subseteq Nat \ {0}
  /\ Word \in Nat /\ Word > PageSize

Priorities == 0..1      \* distant text, reading text

VARIABLES
  device,               \* device_generation
  frame,                \* the caller's current frame
  pages,                \* AtlasPages: id, kind, slots, shelves
  nextPage,             \* next_page_id
  index,                \* by_hash: <<key, reference>>
  queue,                \* raster_queue, by sequence
  drawn,                \* history: references handed out
  flights               \* references pinned by command buffers in flight

atlas == <<device, pages, nextPage, index>>
atlasVars == <<atlas, frame, queue, drawn, flights>>

AllSlots == UNION {{<<p, n>> : n \in DOMAIN pages[p].slots} : p \in DOMAIN pages}

Resident(k) == {r \in drawn : <<k, r>> \in index}

\* Pages are found by their number, less one.
SlotsAt(id) == IF id \in DOMAIN pages THEN pages[id].slots ELSE <<>>

\* validate_ref
Validates(r) ==
  /\ r.device = device
  /\ r.slot \in DOMAIN SlotsAt(r.page)
  /\ LET s == SlotsAt(r.page)[r.slot] IN s.generation = r.generation /\ s.key = r.key

Ref(k, page, slot, generation) ==
  [device |-> device, page |-> page, slot |-> slot, generation |-> generation, key |-> k]

-----------------------------------------------------------------------------
(* allocate_and_insert.                                                    *)

\* allocate_rect: on the first shelf with room, else on a new one below.
Padded(n) == n + 2

Shelf(shelves, k) ==
  {i \in DOMAIN shelves : /\ shelves[i].height >= Padded(Height[k])
                          /\ PageSize - shelves[i].x >= Padded(Width[k])}

Bottom(shelves) ==
  IF shelves = <<>> THEN 0 ELSE Last(shelves).y + Last(shelves).height

\* Below the page's end the subtraction wraps in a release build.
Below(shelves) == (PageSize - Bottom(shelves)) % Word

HasRoom(shelves, k) ==
  /\ Padded(Width[k]) <= PageSize /\ Padded(Height[k]) <= PageSize
  /\ Shelf(shelves, k) # {} \/ Below(shelves) >= Padded(Height[k])

\* Mutant: what a glyph takes of a shelf leaves its gutter out.
TakenBare(k) == Width[k]

Taken(k) == Padded(Width[k])

Packed(shelves, k) ==
  IF Shelf(shelves, k) # {}
  THEN [shelves EXCEPT ![Min(Shelf(shelves, k))].x = @ + Taken(k)]
  ELSE Append(shelves, [y |-> Bottom(shelves), height |-> Max({Padded(Height[k]), MinShelf}),
                        x |-> Taken(k)])

Corner(shelves, k) ==
  IF Shelf(shelves, k) # {}
  THEN LET i == Min(Shelf(shelves, k)) IN <<shelves[i].x + 1, shelves[i].y + 1>>
  ELSE <<1, Bottom(shelves) + 1>>

FreshSlot(shelves, k) ==
  [corner |-> Corner(shelves, k), width |-> Width[k], height |-> Height[k],
   generation |-> 1, key |-> k, pins |-> 0, used |-> frame]

Roomy(k) == {p \in DOMAIN pages : pages[p].kind = Kind[k] /\ HasRoom(pages[p].shelves, k)}

Inserted(k, r) ==
  /\ index' = index \cup {<<k, r>>}
  /\ drawn' = drawn \cup {r}

\* The glyph is there: its slot was used this frame.
Touch(k) ==
  \E r \in Resident(k) :
    /\ pages' = IF r.slot \in DOMAIN SlotsAt(r.page)
                THEN [pages EXCEPT ![r.page].slots[r.slot].used = frame] ELSE pages
    /\ UNCHANGED <<nextPage, index, drawn>>

CreateSlot(k) ==
  LET p == Min(Roomy(k)) IN
  /\ pages' = [pages EXCEPT ![p].slots = Append(@, FreshSlot(pages[p].shelves, k)),
                            ![p].shelves = Packed(@, k)]
  /\ Inserted(k, Ref(k, pages[p].id, Len(pages[p].slots) + 1, 1))
  /\ UNCHANGED nextPage

CreatePage(k) ==
  /\ HasRoom(<<>>, k)
  /\ nextPage' = nextPage + 1
  /\ pages' = Append(pages, [id |-> nextPage, kind |-> Kind[k],
                             slots |-> <<FreshSlot(<<>>, k)>>, shelves |-> Packed(<<>>, k)])
  /\ Inserted(k, Ref(k, nextPage, 1, 1))

\* A number is taken for a page that turns out too small.
WastedPage(k) == Len(pages) < MaxPages /\ ~HasRoom(<<>>, k)

\* Mutant: a slot in flight is as good as any.
ReusableInFlight(s, k) == s.used < frame /\ s.width >= Width[k] /\ s.height >= Height[k]

Reusable(s, k) ==
  s.pins = 0 /\ s.used < frame /\ s.width >= Width[k] /\ s.height >= Height[k]

Candidates(k) ==
  {c \in AllSlots : pages[c[1]].kind = Kind[k] /\ Reusable(pages[c[1]].slots[c[2]], k)}

UsedAt(c) == pages[c[1]].slots[c[2]].used

\* The candidate that was used longest ago, the first of several.
IsOldest(c, k) ==
  \A d \in Candidates(k) :
    \/ UsedAt(c) < UsedAt(d)
    \/ UsedAt(c) = UsedAt(d) /\ (c[1] < d[1] \/ (c[1] = d[1] /\ c[2] <= d[2]))

\* Mutant: the evicted glyph stays in the index.
ForgotNothing(k) == index

Forgotten(k) == {e \in index : e[1] # k}

\* Mutant: a slot keeps its generation when it is reused.
SameGeneration(g) == g

NextGeneration(g) == g + 1

Evict(k) ==
  \E c \in Candidates(k) :
    LET s == pages[c[1]].slots[c[2]]
        r == Ref(k, pages[c[1]].id, c[2], NextGeneration(s.generation))
    IN /\ IsOldest(c, k)
       /\ s.generation < MaxReuse
       /\ pages' = [pages EXCEPT ![c[1]].slots[c[2]] =
                      [@ EXCEPT !.generation = r.generation, !.key = k, !.used = frame]]
       /\ index' = Forgotten(s.key) \cup {<<k, r>>}
       /\ drawn' = drawn \cup {r}
       /\ nextPage' = IF WastedPage(k) THEN nextPage + 1 ELSE nextPage

\* What allocate_and_insert does when it succeeds.
Place(k) ==
  IF Resident(k) # {} THEN Touch(k)
  ELSE IF Roomy(k) # {} THEN CreateSlot(k)
  ELSE IF Len(pages) < MaxPages /\ HasRoom(<<>>, k) THEN CreatePage(k)
  ELSE Evict(k)

\* It fails with AtlasFull or AllSlotsPinned.
Full(k) ==
  /\ Resident(k) = {} /\ Roomy(k) = {} /\ Candidates(k) = {}
  /\ Len(pages) < MaxPages => ~HasRoom(<<>>, k)

Refused(k) ==
  /\ Full(k)
  /\ nextPage' = IF WastedPage(k) THEN nextPage + 1 ELSE nextPage
  /\ UNCHANGED <<pages, index, drawn>>

AllocateAndInsert(k) ==
  /\ nextPage <= MaxPages + 1
  /\ Place(k) \/ Refused(k)
  /\ UNCHANGED <<device, frame, queue, flights>>

-----------------------------------------------------------------------------
(* The queue of raster misses.                                             *)

Queued(k) == {i \in DOMAIN queue : queue[i].key = k}

\* The request that goes first when the queue is full.
Lowest(i) == \A j \in DOMAIN queue :
  queue[i].priority < queue[j].priority \/ (queue[i].priority = queue[j].priority /\ i <= j)

\* Mutant: a request is a duplicate only at the same priority.
SameRequest(i, k, p) == queue[i].key = k /\ queue[i].priority = p

SameKey(i, k, p) == queue[i].key = k

Enqueue(k, p) ==
  LET same == {i \in DOMAIN queue : SameKey(i, k, p)}
      request == [key |-> k, priority |-> p]
  IN IF same # {}
     THEN queue' = [i \in DOMAIN queue |->
            IF i \in same /\ queue[i].priority < p THEN request ELSE queue[i]]
     ELSE IF Len(queue) < QueueCapacity THEN queue' = Append(queue, request)
     ELSE \E i \in DOMAIN queue :
            /\ Lowest(i)
            /\ queue' = IF queue[i].priority < p
                        THEN Append(RemoveAt(queue, i), request) ELSE queue

\* query_or_enqueue, after a miss; a hit changes nothing.
QueryMiss(k, p) ==
  /\ Resident(k) = {}
  /\ Enqueue(k, p)
  /\ UNCHANGED <<atlas, frame, drawn, flights>>

\* The request that is popped: the highest priority, then the oldest.
IsNext(i) == \A j \in DOMAIN queue :
  queue[i].priority > queue[j].priority \/ (queue[i].priority = queue[j].priority /\ i <= j)

\* process_raster_queue_batch: a request that finds no slot goes back, behind
\* the others of its priority; one the rasterizer fails is gone.
ProcessRequest ==
  \E i \in DOMAIN queue :
    LET rest == RemoveAt(queue, i)
        k == queue[i].key
    IN /\ IsNext(i)
       /\ nextPage <= MaxPages + 1
       /\ \/ Place(k) /\ queue' = rest
          \/ Refused(k) /\ queue' = Append(rest, queue[i])
          \/ queue' = rest /\ UNCHANGED <<pages, nextPage, index, drawn>>
       /\ UNCHANGED <<device, frame, flights>>

-----------------------------------------------------------------------------
(* Draw data, command buffers and the device.                              *)

NextFrame ==
  /\ frame < MaxFrame
  /\ frame' = frame + 1
  /\ UNCHANGED <<atlas, queue, drawn, flights>>

PinSlot(r) ==
  /\ Validates(r)
  /\ Len(flights) < MaxPins
  /\ pages' = [pages EXCEPT ![r.page].slots[r.slot].pins = @ + 1]
  /\ flights' = Append(flights, r)
  /\ UNCHANGED <<device, nextPage, index, frame, queue, drawn>>

\* A command buffer ends: its pin goes, unless the reference is refused.
UnpinSlot(i) ==
  LET r == flights[i] IN
  /\ pages' = IF Validates(r)
              THEN [pages EXCEPT ![r.page].slots[r.slot].pins = IF @ > 0 THEN @ - 1 ELSE 0]
              ELSE pages
  /\ flights' = RemoveAt(flights, i)
  /\ UNCHANGED <<device, nextPage, index, frame, queue, drawn>>

\* reset_device_generation, with the device's next generation.
ResetDevice ==
  /\ device < MaxDevice
  /\ device' = device + 1
  /\ pages' = <<>> /\ index' = {} /\ nextPage' = 1 /\ queue' = <<>>
  /\ UNCHANGED <<frame, drawn, flights>>

AtlasInit ==
  /\ device = 1 /\ frame = 1
  /\ pages = <<>> /\ nextPage = 1 /\ index = {}
  /\ queue = <<>> /\ drawn = {} /\ flights = <<>>

AtlasNext ==
  \/ \E k \in Glyphs : AllocateAndInsert(k) \/ \E p \in Priorities : QueryMiss(k, p)
  \/ ProcessRequest \/ NextFrame \/ ResetDevice
  \/ \E r \in drawn : PinSlot(r)
  \/ \E i \in DOMAIN flights : UnpinSlot(i)

AtlasSpec == AtlasInit /\ [][AtlasNext]_atlasVars

-----------------------------------------------------------------------------
(* Properties.                                                             *)

\* What a command buffer in flight reads stays what it was when it was pinned,
\* whatever pressure there is on the atlas, and its slot knows of every such
\* buffer, so that the pin outlives others' unpinning (glyph_atlas.rs:16-18).
PinnedSlotsStay ==
  \A i \in DOMAIN flights :
    LET r == flights[i] IN
    r.device = device =>
      /\ Validates(r)
      /\ SlotsAt(r.page)[r.slot].pins
           = Cardinality({j \in DOMAIN flights : flights[j] = r})

\* The index and the slots say the same: an entry names a slot that holds its
\* glyph now, no glyph is resident twice, and no slot is lost to the index.
IndexMatchesSlots ==
  /\ \A e \in index : Validates(e[2]) /\ e[2].key = e[1]
  /\ \A e, f \in index : e[1] = f[1] => e = f
  /\ \A c \in AllSlots : \E e \in index : e[2].page = pages[c[1]].id /\ e[2].slot = c[2]

\* A reference that has gone stale stays so: retained draw data never comes to
\* sample a slot again, not even for the same glyph (glyph_atlas.rs:19-21).
StaleRefsStayStale ==
  [][\A r \in drawn : ~Validates(r) => ~Validates(r)']_atlasVars

\* A glyph is asked for once, however often and at whatever priority it is
\* missed, and the queue keeps its bound (glyph_atlas.rs:544-547).
MissesAreQueuedOnce ==
  /\ Len(queue) <= QueueCapacity
  /\ \A k \in Glyphs : Cardinality(Queued(k)) <= 1

\* No two glyphs of a page touch: between them there is the gutter of both, or
\* sampling one bleeds into the other (glyph_atlas.rs:441).
GuttersAreKept ==
  \A c, d \in AllSlots :
    c[1] = d[1] /\ c[2] < d[2] =>
      LET s == pages[c[1]].slots[c[2]]
          t == pages[d[1]].slots[d[2]]
      IN \/ s.corner[1] + s.width + 2 <= t.corner[1] \/ t.corner[1] + t.width + 2 <= s.corner[1]
         \/ s.corner[2] + s.height + 2 <= t.corner[2] \/ t.corner[2] + t.height + 2 <= s.corner[2]

\* A reference just handed out can be drawn with: it validates, and its
\* rectangle is on the page.  (The tests verify that "UV coordinates are
\* within (0.0..=1.0)".)
FreshRefsAreDrawable ==
  [][\A r \in drawn' \ drawn :
       /\ Validates(r)'
       /\ LET s == pages'[r.page].slots[r.slot] IN s.corner[2] + s.height <= PageSize]_atlasVars

\* The index, the pages, the queue and the pins say the same of every glyph.
AtlasIsConsistent ==
  IndexMatchesSlots /\ MissesAreQueuedOnce /\ GuttersAreKept /\ PinnedSlotsStay
=============================================================================
