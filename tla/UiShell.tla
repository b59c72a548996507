------------------------------ MODULE UiShell ------------------------------
(***************************************************************************)
(* Where the keyboard goes: focus and its return stack, the search palette, *)
(* reading panes, the pointer's gesture and the queue of discrete input     *)
(* (fcb/src/ui: reducer.rs, focus.rs, reading_panes.rs, gesture.rs,         *)
(* motion_mailbox.rs).  Input waits in the queue while panes come and go,   *)
(* so an event can be aimed at a pane that is closed.  A batch is a number  *)
(* of single events; positions, scrolling and motion are left out.          *)
(***************************************************************************)
EXTENDS Naturals, Sequences

CONSTANTS
  Plain,          \* the surfaces of the tab ring before the reading lens, in order
  Documents,
  Captures,       \* source revisions of captured results
  Uncaptured,      \* the revision of a pane opened by its path
  StackCapacity,  \* FocusStack::DEFAULT_CAPACITY
  QueueCapacity,  \* MotionMailbox::DEFAULT_QUEUE_CAPACITY
  MaxCaptured,    \* MAX_CAPTURED_READING_PANES
  MaxPanes        \* panes ever opened, a bound of the model

ASSUME ShellAssumption ==
  /\ Plain \in Seq({Plain[i] : i \in DOMAIN Plain}) \ {<<>>}
  /\ StackCapacity \in Nat \ {0} /\ QueueCapacity \in Nat \ {0}

VARIABLES
  focus, stack,   \* FocusManager
  palette,        \* search_palette_open
  origin,         \* history: the focus the palette opened on, until it is moved
  panes,          \* ReadingPaneManager: id, file, revision, is_pinned
  activePane,     \* active_pane_id, 0 for none
  nextPane,
  lensOpen,       \* reading_lens_open
  selectedFile,
  gesture,        \* what owns the pointer
  queue           \* discrete events

shellVars == <<focus, stack, palette, origin, panes, activePane, nextPane, lensOpen,
               selectedFile, gesture, queue>>
paneVars == <<panes, activePane, nextPane, lensOpen>>
focusVars == <<focus, stack, origin>>

Lens == "ReadingLens"
Palette == "SearchPalette"
Nothing == "none"
Surfaces == {Plain[i] : i \in DOMAIN Plain} \cup {Lens, Palette}
Last(seq) == seq[Len(seq)]
Front(seq) == SubSeq(seq, 1, Len(seq) - 1)
Remove(seq, i) == SubSeq(seq, 1, i - 1) \o SubSeq(seq, i + 1, Len(seq))

-----------------------------------------------------------------------------
(* Focus.                                                                   *)

\* Mutant: a full stack takes nothing more.
PushedUnlessFull(target) ==
  IF target = focus \/ Len(stack) >= StackCapacity THEN stack ELSE Append(stack, focus)

\* A full stack forgets the oldest surface.
Pushed(target) ==
  IF target = focus THEN stack
  ELSE Append(IF Len(stack) >= StackCapacity THEN Tail(stack) ELSE stack, focus)

SetFocus(target) ==
  /\ focus' = target
  /\ stack' = Pushed(target)
  /\ origin' = IF target = focus THEN origin ELSE Nothing

ReturnFocus ==
  IF stack = <<>> THEN UNCHANGED focusVars
  ELSE focus' = Last(stack) /\ stack' = Front(stack) /\ origin' = Nothing

\* Where the focus is while the palette closes under it.
ReturnedFrom == IF stack = <<>> THEN focus ELSE Last(stack)
ReturnedStack == IF stack = <<>> THEN stack ELSE Front(stack)

Ring == IF lensOpen THEN Append(Plain, Lens) ELSE Plain
OnRing(target) == {i \in DOMAIN Ring : Ring[i] = target}

\* Off the ring, Next enters at its start and Prev at its end.
FocusNavigate(forward) ==
  LET n == Len(Ring)
      to == IF OnRing(focus) = {} THEN IF forward THEN 1 ELSE n
            ELSE LET i == CHOOSE i \in OnRing(focus) : TRUE
                 IN  IF forward THEN (i % n) + 1 ELSE IF i = 1 THEN n ELSE i - 1
  IN  SetFocus(Ring[to]) /\ UNCHANGED <<palette, selectedFile, gesture>> /\ UNCHANGED paneVars

FocusChange(target) ==
  SetFocus(target) /\ UNCHANGED <<palette, selectedFile, gesture>> /\ UNCHANGED paneVars

FocusReturn ==
  ReturnFocus /\ UNCHANGED <<palette, selectedFile, gesture>> /\ UNCHANGED paneVars

OpenSearchPalette ==
  /\ IF palette THEN UNCHANGED <<palette, focus, stack, origin>>
     ELSE /\ palette' = TRUE
          /\ focus' = Palette /\ stack' = Pushed(Palette)
          /\ origin' = IF focus = Palette THEN Nothing ELSE focus
  /\ UNCHANGED <<selectedFile, gesture>> /\ UNCHANGED paneVars

CloseSearchPalette ==
  /\ palette' = FALSE
  /\ IF palette THEN ReturnFocus ELSE UNCHANGED focusVars
  /\ UNCHANGED <<selectedFile, gesture>> /\ UNCHANGED paneVars

-----------------------------------------------------------------------------
(* Reading panes.                                                           *)

Ids == {panes[i].id : i \in DOMAIN panes}
IndexOf(id) == CHOOSE i \in DOMAIN panes : panes[i].id = id
Pane(id) == panes[IndexOf(id)]

Showing(file, revision) ==
  {id \in Ids : Pane(id).file = file /\ Pane(id).revision = revision}

\* A pane of that version is taken, or a new one opens on top.
OpenPane(file, revision) ==
  /\ IF Showing(file, revision) # {}
     THEN /\ activePane' = CHOOSE id \in Showing(file, revision) : TRUE
          /\ UNCHANGED <<panes, nextPane>>
     ELSE /\ nextPane <= MaxPanes
          /\ panes' = Append(panes, [id |-> nextPane, file |-> file,
                                     revision |-> revision, pinned |-> FALSE])
          /\ activePane' = nextPane
          /\ nextPane' = nextPane + 1
  /\ lensOpen' = TRUE

OpenReadingLens(file) ==
  OpenPane(file, Uncaptured) /\ SetFocus(Lens) /\ UNCHANGED <<palette, selectedFile, gesture>>

PromoteSelected ==
  /\ selectedFile # Nothing
  /\ OpenReadingLens(selectedFile)

\* If the focus is elsewhere the palette closes without returning it.
LeavePalette(target) ==
  LET returns == focus = Palette
      from == IF returns THEN ReturnedFrom ELSE focus
      left == IF returns THEN ReturnedStack ELSE stack
  IN  /\ palette' = FALSE
      /\ focus' = target
      /\ stack' = IF from = target THEN left
                  ELSE Append(IF Len(left) >= StackCapacity THEN Tail(left) ELSE left, from)
      /\ origin' = Nothing

\* Opened by its path, whether from the palette or from the sidebar.
ActivateSearchResult(file) ==
  /\ selectedFile' = file
  /\ OpenPane(file, Uncaptured)
  /\ LeavePalette(Lens)
  /\ UNCHANGED gesture

CapturedRoom(file, revision) ==
  Showing(file, revision) # {} \/ Len(panes) < MaxCaptured

\* A refusal changes nothing. Only an open palette gives the focus back.
ActivateCapturedResult(file, revision) ==
  /\ CapturedRoom(file, revision)
  /\ selectedFile' = file
  /\ OpenPane(file, revision)
  /\ IF palette THEN LeavePalette(Lens) ELSE SetFocus(Lens) /\ UNCHANGED palette
  /\ UNCHANGED gesture

\* The pane on top takes over from the one that was active.
PanesWithout(id) == Remove(panes, IndexOf(id))
ActiveWithout(id) ==
  IF activePane # id THEN activePane
  ELSE IF PanesWithout(id) = <<>> THEN 0 ELSE Last(PanesWithout(id)).id

ClosePane(id) ==
  /\ panes' = PanesWithout(id)
  /\ activePane' = ActiveWithout(id)
  /\ lensOpen' = (panes' # <<>>)
  /\ UNCHANGED nextPane

CloseReadingPane(id) ==
  /\ id \in Ids
  /\ ClosePane(id)
  /\ IF panes' = <<>> /\ focus = Lens THEN ReturnFocus ELSE UNCHANGED focusVars
  /\ UNCHANGED <<palette, selectedFile, gesture>>

\* Mutant: the pane in use is closed, pinned or not.
ClosableActive == Ids

Closable == {id \in Ids : ~Pane(id).pinned}

\* The pane in use, else the topmost that is not pinned. The flag is
\* taken from the panes again, and the focus returned when none is left.
CloseReadingLens ==
  /\ IF panes = <<>>
     THEN /\ UNCHANGED <<panes, activePane, nextPane>> /\ lensOpen' = FALSE
          /\ IF lensOpen THEN ReturnFocus ELSE UNCHANGED focusVars
     ELSE /\ IF Closable = {} THEN UNCHANGED paneVars
             ELSE ClosePane(IF activePane \in Closable THEN activePane
                            ELSE CHOOSE id \in Closable :
                                   \A other \in Closable : IndexOf(other) <= IndexOf(id))
          /\ IF panes' = <<>> THEN ReturnFocus ELSE UNCHANGED focusVars
  /\ UNCHANGED <<palette, selectedFile, gesture>>

TogglePin(id) ==
  /\ id \in Ids
  /\ panes' = [panes EXCEPT ![IndexOf(id)].pinned = ~@]
  /\ UNCHANGED <<focus, stack, origin, palette, activePane, nextPane, lensOpen,
                 selectedFile, gesture>>

SelectFile(file) ==
  /\ selectedFile' = file
  /\ UNCHANGED <<focus, stack, origin, palette, gesture>> /\ UNCHANGED paneVars

-----------------------------------------------------------------------------
(* Pointer and keys.                                                        *)

\* Presses are on a pane, or on the atlas (0).
Press(id) == [kind |-> "press", pane |-> id]
Key == [kind |-> "escape", pane |-> 0]
Release == [kind |-> "release", pane |-> 0]
Events == {Key, Release} \cup {Press(id) : id \in 0..MaxPanes}

NoGesture == [kind |-> "idle", pane |-> 0]
Cancelled == [kind |-> "cancelled", pane |-> 0]
Active == gesture.kind = "press"

\* A press on a pane makes it the active one, whether or not it still exists;
\* a gesture that owns the pointer keeps it.
PointerDown(id) ==
  /\ gesture' = IF Active THEN gesture ELSE Press(id)
  /\ activePane' = IF id = 0 THEN activePane ELSE id
  /\ SetFocus(IF id = 0 THEN Plain[1] ELSE Lens)
  /\ UNCHANGED <<palette, panes, nextPane, lensOpen, selectedFile>>

PointerUp ==
  /\ gesture' = IF Active THEN NoGesture ELSE gesture
  /\ UNCHANGED <<focus, stack, origin, palette, selectedFile>> /\ UNCHANGED paneVars

CancelGesture ==
  /\ gesture' = IF Active THEN Cancelled ELSE gesture
  /\ UNCHANGED <<focus, stack, origin, palette, selectedFile>> /\ UNCHANGED paneVars

\* One Escape backs out of one thing.
Escape ==
  IF Active THEN CancelGesture
  ELSE IF palette THEN CloseSearchPalette
  ELSE IF panes # <<>> \/ lensOpen THEN CloseReadingLens
  ELSE FocusReturn

-----------------------------------------------------------------------------
(* The queue of discrete input.                                             *)

\* A press is aimed at what is on the screen; when full, the oldest event goes.
EnqueueDiscreteInput(event) ==
  /\ event.kind = "press" => event.pane \in Ids \cup {0}
  /\ queue' = Append(IF Len(queue) >= QueueCapacity THEN Tail(queue) ELSE queue, event)
  /\ UNCHANGED <<focus, stack, palette, origin, selectedFile, gesture>> /\ UNCHANGED paneVars

ProcessInput ==
  /\ queue # <<>>
  /\ queue' = Tail(queue)
  /\ CASE Head(queue).kind = "escape" -> Escape
       [] Head(queue).kind = "release" -> PointerUp
       [] OTHER -> PointerDown(Head(queue).pane)

\* What a command palette or a menu asks for at once.
Command ==
  \/ \E target \in Surfaces : FocusChange(target)
  \/ \E forward \in BOOLEAN : FocusNavigate(forward)
  \/ OpenSearchPalette \/ CloseSearchPalette \/ FocusReturn
  \/ CloseReadingLens \/ CancelGesture \/ PromoteSelected
  \/ \E file \in Documents :
       \/ OpenReadingLens(file) \/ ActivateSearchResult(file) \/ SelectFile(file)
       \/ \E revision \in Captures : ActivateCapturedResult(file, revision)
  \/ SelectFile(Nothing)
  \/ \E id \in Ids : CloseReadingPane(id) \/ TogglePin(id)

ShellInit ==
  /\ focus = Plain[1] /\ stack = <<>> /\ palette = FALSE /\ origin = Nothing
  /\ panes = <<>> /\ activePane = 0 /\ nextPane = 1 /\ lensOpen = FALSE
  /\ selectedFile = Nothing /\ gesture = NoGesture /\ queue = <<>>

ShellNext ==
  \/ Command /\ UNCHANGED queue
  \/ \E event \in Events : EnqueueDiscreteInput(event)
  \/ ProcessInput

ShellSpec == ShellInit /\ [][ShellNext]_shellVars

-----------------------------------------------------------------------------
(* Properties.                                                             *)

\* The lens is open while it has a pane, and no version is shown in two.
PanesAreCoherent ==
  /\ lensOpen <=> panes # <<>>
  /\ \A i, j \in DOMAIN panes :
       panes[i].id = panes[j].id
         \/ (panes[i].file = panes[j].file /\ panes[i].revision = panes[j].revision) => i = j

\* The palette is a parenthesis: as long as nothing else moved the focus, what
\* it opened on is what closing it, or closing the reader opened from it, gets.
PaletteReturns ==
  /\ palette' /\ origin' # Nothing => focus' = Palette /\ stack' # <<>> /\ Last(stack') = origin'
  /\ palette /\ ~palette' /\ origin # Nothing =>
       \/ focus' = origin
       \/ focus' = Lens /\ Last(stack') = origin

\* A pane shows one version as long as it is open, and a pinned one goes only
\* when it is closed by name.
PanesStay ==
  \A i \in DOMAIN panes :
    IF \E j \in DOMAIN panes' : panes'[j].id = panes[i].id
    THEN \E j \in DOMAIN panes' :
           /\ panes'[j].id = panes[i].id
           /\ panes'[j].file = panes[i].file /\ panes'[j].revision = panes[i].revision
    ELSE ~panes[i].pinned \/ CloseReadingPane(panes[i].id)

\* What is left to back out of.
Depth == (IF Active THEN 1 ELSE 0) + (IF palette THEN 1 ELSE 0) + Len(panes) + Len(stack)

\* Every Escape backs out of something, until only pinned panes keep it.
EscapeBacksOut ==
  queue # <<>> /\ Head(queue) = Key /\ queue' = Tail(queue) =>
    \/ Depth' < Depth
    \/ Depth = 0
    \/ panes # <<>> /\ \A i \in DOMAIN panes : panes[i].pinned

ShellIsCoherent ==
  [][PanesAreCoherent' /\ PaletteReturns /\ PanesStay /\ EscapeBacksOut]_shellVars
=============================================================================
