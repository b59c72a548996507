------------------------------ MODULE LineWindow ------------------------------
(***************************************************************************)
(* LineWindowScanner (crates/fcb-source/src/line_index/window.rs): a       *)
(* cursor that finds the bytes of a range of lines in a sequence it sees   *)
(* once, in chunks cut anywhere, also inside a CRLF or a UTF-16 unit.  It  *)
(* keeps no byte but the first half of a unit.                             *)
(***************************************************************************)
EXTENDS SourceBytes, FiniteSets

Unset == -1
CR == 13
LF == 10

NewWindow(first, count, enc) ==
  [first |-> first, last |-> first + count - 1, encoding |-> enc,
   offset |-> 0, line |-> 0, active |-> FALSE, cr |-> FALSE, half |-> Unset,
   from |-> Unset, to |-> Unset, finished |-> FALSE, eof |-> FALSE]

\* Mutant: the checkpoint forgets that its last unit was a CR.
RetargetWithoutCr(w, first, count) ==
  [w EXCEPT !.first = first, !.last = first + count - 1, !.from = Unset,
            !.cr = FALSE]

\* A pending cursor, turned to a later line of the same bytes.
Retarget(w, first, count) ==
  [w EXCEPT !.first = first, !.last = first + count - 1, !.from = Unset]

CanRetarget(w, first) == ~w.finished /\ ~w.eof /\ first > w.line

-----------------------------------------------------------------------------
(* One unit of text: a byte, or two of UTF-16.                             *)

ResolvedAt(w, to) == [w EXCEPT !.to = to, !.finished = TRUE]

\* A line exists once it has a unit.
OpenLine(w, from) ==
  IF w.active THEN w
  ELSE [w EXCEPT !.line = @ + 1, !.active = TRUE,
                 !.from = IF w.line + 1 = w.first THEN from ELSE @]

EndLine(w, unit, to) ==
  CASE unit = CR -> [w EXCEPT !.cr = TRUE, !.active = FALSE]
    [] unit = LF /\ w.line = w.last ->
         ResolvedAt([w EXCEPT !.active = FALSE], to)
    [] unit = LF /\ w.line # w.last -> [w EXCEPT !.active = FALSE]
    [] OTHER -> w

\* After a CR an LF belongs to the line that is over, and any other unit shows
\* that the line was over before it.
TakeUnit(w, unit, from, to) ==
  LET joined == [w EXCEPT !.cr = FALSE]
  IN  CASE w.cr /\ unit = LF /\ w.line = w.last -> ResolvedAt(joined, to)
        [] w.cr /\ unit = LF /\ w.line # w.last -> joined
        [] w.cr /\ unit # LF /\ w.line = w.last -> ResolvedAt(joined, from)
        [] OTHER -> EndLine(OpenLine(joined, from), unit, to)

\* Mutant: a unit begins at the byte that completes it.
UnitStartLate(w) == w.offset

UnitStart(w) == IF w.half = Unset THEN w.offset ELSE w.offset - 1

TakeByte(w, byte) ==
  LET read == [w EXCEPT !.offset = @ + 1]
  IN  CASE ~IsUtf16(w.encoding) -> TakeUnit(read, byte, UnitStart(w), read.offset)
        [] IsUtf16(w.encoding) /\ w.half = Unset -> [read EXCEPT !.half = byte]
        [] OTHER -> TakeUnit([read EXCEPT !.half = Unset],
                             Unit(<<w.half, byte>>, 1, w.encoding),
                             UnitStart(w), read.offset)

-----------------------------------------------------------------------------
(* A chunk, and the end of the file.                                       *)

\* Of the bytes only those up to the end of the window are consumed.
Taken(w, byte) == IF w.finished THEN w ELSE TakeByte(w, byte)

StepWindow(w, bytes) ==
  LET after[n \in 0..Len(bytes)] == IF n = 0 THEN w ELSE Taken(after[n - 1], bytes[n])
  IN  after[Len(bytes)]

\* finish: half a unit is content, and the last line needs no terminator.
FinishWindow(w) ==
  LET ended == [w EXCEPT !.eof = TRUE]
      whole == IF w.finished \/ w.half = Unset THEN ended
               ELSE TakeUnit([ended EXCEPT !.half = Unset], 65535,
                             w.offset - 1, w.offset)
  IN  IF whole.finished THEN whole ELSE ResolvedAt(whole, w.offset)

Located(w) == w.finished /\ w.from # Unset /\ w.to # Unset
NotThere(w) == w.finished /\ (w.from = Unset \/ w.to = Unset)

-----------------------------------------------------------------------------
(* Lines by definition: a unit LF, and a CR that no LF follows, is the     *)
(* last of its line, and so is the last unit of all.                       *)

UnitSize(enc) == IF IsUtf16(enc) THEN 2 ELSE 1

UnitAt(bytes, k, enc) ==
  CASE ~IsUtf16(enc) -> bytes[k + 1]
    [] IsUtf16(enc) /\ k + 2 <= Len(bytes) -> Unit(bytes, k + 1, enc)
    [] OTHER -> 65535

\* Offsets of units, and of the ends of lines.
UnitsAt(bytes, enc) == {k \in 0..(Len(bytes) - 1) : k % UnitSize(enc) = 0}

LineEnds(bytes, enc) ==
  LET size == UnitSize(enc)
      Is(k, unit) == k \in UnitsAt(bytes, enc) /\ UnitAt(bytes, k, enc) = unit
  IN  {k + size : k \in {j \in UnitsAt(bytes, enc) :
                           Is(j, LF) \/ (Is(j, CR) /\ ~Is(j + size, LF))}}
      \cup (IF bytes = <<>> THEN {} ELSE {Len(bytes)})

LineCount(bytes, enc) == Cardinality(LineEnds(bytes, enc))

LineEnd(bytes, enc, n) ==
  LET ends == LineEnds(bytes, enc)
  IN  CHOOSE e \in ends : Cardinality({f \in ends : f <= e}) = n

LineStart(bytes, enc, n) == IF n = 1 THEN 0 ELSE LineEnd(bytes, enc, n - 1)

\* The window's answer to a request, were it known all at once.
TrueWindow(bytes, enc, first, count) ==
  LET lines == LineCount(bytes, enc)
      last == IF first + count - 1 <= lines THEN first + count - 1 ELSE lines
  IN  IF first > lines THEN <<>>
      ELSE <<LineStart(bytes, enc, first), LineEnd(bytes, enc, last)>>
=============================================================================
