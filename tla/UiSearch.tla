----------------------------- MODULE UiSearch ------------------------------
(***************************************************************************)
(* The search of the user interface (fcb/src/ui/reducer.rs, sidebar.rs,     *)
(* search_navigation.rs): drafts dispatch requests to workers, workers      *)
(* answer late, several times, out of order or never, and rows stay visible *)
(* under their own label until a replacement is admitted.  A worker also    *)
(* resolves one hit of its report; the reader it opens must be the source   *)
(* the visible rows were found in, which is the one of their generation.    *)
(***************************************************************************)
EXTENDS Integers, Sequences

CONSTANTS
  Queries,      \* texts one types, all short enough
  Hits,         \* occurrences: id, file and range
  MaxQueries,   \* u64::MAX of last_query_generation
  MaxRows       \* MAX_UI_SEARCH_RESULTS

ASSUME SearchAssumption == MaxQueries \in Nat /\ MaxRows \in Nat \ {0}

VARIABLES
  input,        \* search_input
  searchActive, \* active_query_generation, 0 for none
  searching,    \* is_searching
  rows,         \* the published results
  dispatched,   \* the query of every generation handed to the workers
  cancelled,    \* how often the cancellation of each was asked for
  failed,       \* generations a worker gave up
  resolved,     \* hits resolved by workers, on their way to the interface
  opened        \* what a resolved hit opened last, beside the rows of then

searchVars == <<input, searchActive, searching, rows, dispatched, cancelled, failed,
                resolved, opened>>

NoText == "none"
NoRows == [query |-> NoText, generation |-> 0, hits |-> <<>>, selected |-> 0]
Dispatches == 1..Len(dispatched)

\* What workers report: rows without repetition, the oversized ones included.
Reports ==
  {r \in UNION {[1..n -> Hits] : n \in 0..(MaxRows + 1)} :
     \A i, j \in DOMAIN r : r[i] = r[j] => i = j}

-----------------------------------------------------------------------------
(* The draft.                                                               *)

\* The request under way loses its subscriber.
CancelActive == IF searchActive = 0 THEN cancelled
                                    ELSE [cancelled EXCEPT ![searchActive] = @ + 1]

\* Mutant: a refused draft leaves the request under way.
ActiveAfterRefusalKept == searchActive

ActiveAfterRefusal == 0

ClearQuery ==
  /\ cancelled' = CancelActive
  /\ searchActive' = 0 /\ searching' = FALSE
  /\ input' = NoText /\ rows' = NoRows
  /\ UNCHANGED <<dispatched, failed, resolved, opened>>

\* The draft is too long, or the identities are used up: the text on which the
\* last request was dispatched stays.
RefuseQuery ==
  /\ cancelled' = CancelActive
  /\ searchActive' = ActiveAfterRefusal /\ searching' = FALSE
  /\ UNCHANGED <<input, rows, dispatched, failed, resolved, opened>>

DispatchQuery(q) ==
  /\ Len(dispatched) < MaxQueries
  /\ dispatched' = Append(dispatched, q)
  /\ cancelled' = Append(CancelActive, 0)
  /\ searchActive' = Len(dispatched) + 1 /\ searching' = TRUE
  /\ input' = q
  /\ UNCHANGED <<rows, failed, resolved, opened>>

-----------------------------------------------------------------------------
(* Answers.                                                                 *)

SelectedHit == IF rows.selected = 0 THEN {} ELSE {rows.hits[rows.selected]}

\* Mutant: the row keeps its number, not the hit that was selected.
RowNow(hits) == IF rows.selected \in DOMAIN hits THEN rows.selected
                ELSE IF hits = <<>> THEN 0 ELSE 1

\* Where the selected hit is now, else the first row.
RowOf(hits) ==
  IF \E i \in DOMAIN hits : hits[i] \in SelectedHit
  THEN CHOOSE i \in DOMAIN hits : hits[i] \in SelectedHit
  ELSE IF hits = <<>> THEN 0 ELSE 1

\* Mutant: whatever a worker answers is taken.
IsCurrentAny(g) == TRUE

IsCurrent(g) == searchActive = g

\* A request can be answered again until it is replaced.
ReceiveResults(g, hits) ==
  /\ IF ~IsCurrent(g) THEN UNCHANGED <<searchActive, searching, rows, cancelled>>
     ELSE IF Len(hits) > MaxRows
     THEN /\ searchActive' = 0 /\ searching' = FALSE
          /\ cancelled' = [cancelled EXCEPT ![g] = @ + 1]
          /\ UNCHANGED rows
     ELSE /\ rows' = [query |-> input, generation |-> g, hits |-> hits,
                      selected |-> RowOf(hits)]
          /\ searching' = FALSE
          /\ UNCHANGED <<searchActive, cancelled>>
  /\ UNCHANGED <<input, dispatched, failed, resolved, opened>>

\* A worker fails once.
ReceiveFailure(g) ==
  /\ g \notin failed
  /\ failed' = failed \cup {g}
  /\ IF IsCurrent(g) THEN searchActive' = 0 /\ searching' = FALSE
                     ELSE UNCHANGED <<searchActive, searching>>
  /\ UNCHANGED <<input, rows, dispatched, cancelled, resolved, opened>>

SelectResult(step) ==
  /\ rows.hits # <<>>
  /\ LET row == rows.selected + step IN
       rows' = [rows EXCEPT !.selected =
                  IF row < 1 THEN 1 ELSE IF row > Len(rows.hits) THEN Len(rows.hits) ELSE row]
  /\ UNCHANGED <<input, searchActive, searching, dispatched, cancelled, failed,
                 resolved, opened>>

-----------------------------------------------------------------------------
(* Readers on a hit.                                                        *)

\* A worker reads on from the report of its generation.
ResolveHit(g, h) ==
  /\ resolved = {}
  /\ resolved' = {[generation |-> g, hit |-> h]}
  /\ UNCHANGED <<input, searchActive, searching, rows, dispatched, cancelled, failed,
                 opened>>

\* Mutant: the same occurrence in an older source will do.
StandsAlone(target) == target.hit \in SelectedHit

\* A draft that is not answered yet does not count: the visible rows do.
Stands(target) == rows.generation = target.generation /\ target.hit \in SelectedHit

ActivateCaptured(target) ==
  /\ resolved' = resolved \ {target}
  /\ opened' = IF Stands(target) THEN [source |-> target.generation, rows |-> rows.generation]
                                 ELSE opened
  /\ UNCHANGED <<input, searchActive, searching, rows, dispatched, cancelled, failed>>

SearchInit ==
  /\ input = NoText /\ searchActive = 0 /\ searching = FALSE /\ rows = NoRows
  /\ dispatched = <<>> /\ cancelled = <<>> /\ failed = {} /\ resolved = {}
  /\ opened = [source |-> 0, rows |-> 0]

SearchNext ==
  \/ ClearQuery \/ RefuseQuery \/ \E q \in Queries : DispatchQuery(q)
  \/ \E g \in Dispatches :
       \/ \E hits \in Reports : ReceiveResults(g, hits)
       \/ ReceiveFailure(g)
       \/ \E h \in Hits : ResolveHit(g, h)
  \/ \E step \in {-1, 1} : SelectResult(step)
  \/ \E target \in resolved : ActivateCaptured(target)

SearchSpec == SearchInit /\ [][SearchNext]_searchVars

-----------------------------------------------------------------------------
(* Properties.                                                             *)

\* Rows carry the text their request was dispatched with, though the draft may
\* have moved on or been refused since.
RowsAreLabelled == rows.generation # 0 => rows.query = dispatched[rows.generation]

\* Every request but the one under way came to one end: its worker gave it up,
\* or its cancellation was asked for, once.
RequestsEnd ==
  \A g \in Dispatches :
    IF g = searchActive THEN g \notin failed /\ cancelled[g] = 0
                        ELSE cancelled[g] <= 1 /\ (cancelled[g] = 1 \/ g \in failed)

\* Waiting is waiting for an answer that can still come.
WaitingHasARequest ==
  /\ searching => searchActive # 0 /\ rows.generation # searchActive
  /\ searchActive # 0 /\ ~searching => rows.generation = searchActive

\* The reader that opened shows the source the rows were found in.
OpenedIsVisible == opened.source = opened.rows

\* Older rows never come back, and a replacement keeps the selected occurrence.
RowsGoForward ==
  rows'.generation # 0 =>
    /\ rows'.generation >= rows.generation
    /\ rows'.hits # rows.hits /\ SelectedHit # {} =>
         \A h \in SelectedHit :
           (\E i \in DOMAIN rows'.hits : rows'.hits[i] = h) => rows'.hits[rows'.selected] = h

SearchIsCoherent ==
  [][/\ RowsAreLabelled' /\ RequestsEnd' /\ WaitingHasARequest' /\ OpenedIsVisible'
     /\ RowsGoForward]_searchVars
=============================================================================
