------------------------------ MODULE LineIndex ------------------------------
(***************************************************************************)
(* ResumableLineScanner and SparseLineIndex                                *)
(* (crates/fcb-source/src/line_index.rs): the starts of the lines of one   *)
(* immutable capture, found chunk by chunk, within budgets, by calls in    *)
(* any order.  What is published before the end is never taken back.       *)
(***************************************************************************)
EXTENDS LineWindow

CONSTANTS
  IndexedCaptures,    \* pairs of captures: sequences of chunks of bytes
  Stride,             \* between sparse checkpoints
  MaxScreen           \* bound: lines and chunks that are asked for

\* The stride of a scanner is at least 1.
ASSUME IndexAssumption ==
  /\ IndexedCaptures \subseteq Seq(Seq(0..255)) \X Seq(Seq(0..255))
  /\ Stride \in Nat \ {0}
  /\ MaxScreen \in Nat

VARIABLES
  captures,           \* the capture the host means, and another one
  index,              \* the fields of ResumableLineScanner
  told                \* the last answer

indexVars == <<captures, index, told>>

NewIndex ==
  [chunks |-> 0, offset |-> 0, cr |-> FALSE, opens |-> TRUE, starts |-> <<>>,
   marks |-> <<>>, complete |-> FALSE, bound |-> <<>>]

Line(i) == Len(i.starts)

-----------------------------------------------------------------------------
(* Scanning.                                                               *)

RecordLine(i, start) ==
  LET line == Line(i) + 1
  IN  [i EXCEPT !.starts = Append(@, start), !.opens = FALSE,
                !.marks = IF line = 1 \/ line % Stride = 0
                          THEN Append(@, [line |-> line, at |-> start]) ELSE @]

\* Mutant: a line opens behind its terminator, whether or not it has a byte.
OpensAtOnce(i, byte, at) ==
  IF byte = LF THEN RecordLine(i, at + 1) ELSE i

\* A terminator does not show that there is another line; its first byte does.
Opens(i, byte, at) == IF i.opens THEN RecordLine(i, at) ELSE i

AfterByte(i, byte) ==
  [i EXCEPT !.opens = byte \in {CR, LF}, !.cr = byte = CR]

ScanByte(i, byte) ==
  LET next == [i EXCEPT !.offset = @ + 1, !.cr = FALSE]
  IN  IF i.cr /\ byte = LF THEN next
      ELSE AfterByte(Opens(next, byte, i.offset), byte)

ScanChunk(i, bytes) ==
  LET after[n \in 0..Len(bytes)] == IF n = 0 THEN i ELSE ScanByte(after[n - 1], bytes[n])
  IN  after[Len(bytes)]

Completed(i, capture) == [i EXCEPT !.complete = i.chunks = Len(capture)]

\* Mutant: after a chunk the pending CR is forgotten.
NextChunkApart(i, capture) ==
  [ScanChunk([i EXCEPT !.cr = FALSE], capture[i.chunks + 1]) EXCEPT !.chunks = @ + 1]

ScanNextChunk(i, capture) ==
  [ScanChunk(i, capture[i.chunks + 1]) EXCEPT !.chunks = @ + 1]

OneChunk(i, capture) ==
  IF i.complete \/ i.chunks = Len(capture) THEN i ELSE ScanNextChunk(i, capture)

\* step, on the capture the scanner is bound to.
Stepped(i, capture, budget) ==
  LET after[n \in 0..budget] == IF n = 0 THEN i ELSE OneChunk(after[n - 1], capture)
  IN  Completed(after[budget], capture)

OneChunkUntil(i, capture, line) ==
  IF Line(i) >= line \/ i.complete THEN i ELSE Stepped(i, capture, 1)

SteppedUntil(i, capture, line, budget) ==
  LET after[n \in 0..budget] ==
        IF n = 0 THEN i ELSE OneChunkUntil(after[n - 1], capture, line)
  IN  after[budget]

-----------------------------------------------------------------------------
(* Calls.                                                                  *)

Say(kind, line, at) == [kind |-> kind, line |-> line, at |-> at]

\* validate_capture: the first capture is the only one.
Bound(i, capture) == [i EXCEPT !.bound = capture]
Accepts(i, capture) == i.bound \in {<<>>, <<capture>>}

\* A call on another capture changes nothing.
Refuse(capture) ==
  /\ ~Accepts(index, capture)
  /\ told' = Say("mismatch", 0, 0)
  /\ UNCHANGED <<captures, index>>

Jump(i, line) ==
  IF line <= Line(i) THEN Say("resolved", line, i.starts[line])
  ELSE Say("pending", Line(i), 0)

StepIndex(capture, budget) ==
  /\ Accepts(index, capture)
  /\ index' = Stepped(Bound(index, <<capture>>), capture, budget)
  /\ told' = Say("stepped", 0, 0)
  /\ UNCHANGED captures

JumpToLine(line) ==
  /\ told' = Jump(index, line)
  /\ UNCHANGED <<captures, index>>

Resumed(i, line) ==
  IF i.complete /\ Line(i) < line THEN Say("absent", line, 0) ELSE Jump(i, line)

ResumeUntilLine(capture, line, budget) ==
  /\ Accepts(index, capture)
  /\ index' = SteppedUntil(Bound(index, <<capture>>), capture, line, budget)
  /\ told' = Resumed(index', line)
  /\ UNCHANGED captures

\* Mutant: the screen ends where its last line begins.
ScreenEndEarly(i, last) == i.starts[last]

\* The next line's start, or everything that was scanned.
ScreenEnd(i, last) == IF last < Line(i) THEN i.starts[last + 1] ELSE i.offset

Screen(i, lines) ==
  LET last == IF Line(i) < lines THEN Line(i) ELSE lines
  IN  IF Line(i) = 0 THEN Say("unavailable", 0, 0)
      ELSE Say("screen", last, ScreenEnd(i, last))

\* The line after the last one of the screen has to be seen.
LocateFirstScreen(capture, lines) ==
  /\ Accepts(index, capture)
  /\ index' = SteppedUntil(Bound(index, <<capture>>), capture, lines + 1,
                           Len(capture) + 1)
  /\ told' = Screen(index', lines)
  /\ UNCHANGED captures

\* finish, and the questions an index answers: here the line of a byte.
ByteToLine(i, at) ==
  IF at > i.offset \/ Line(i) = 0 THEN Say("out of bounds", 0, at)
  ELSE Say("line", Cardinality({n \in DOMAIN i.starts : i.starts[n] <= at}), at)

FinishIndex(capture, at) ==
  /\ Accepts(index, capture)
  /\ index' = Stepped(Bound(index, <<capture>>), capture, Len(capture))
  /\ told' = ByteToLine(index', at)
  /\ UNCHANGED captures

IndexInit ==
  /\ captures \in IndexedCaptures
  /\ index = NewIndex
  /\ told = Say("none", 0, 0)

IndexNext ==
  \/ \E line \in 1..MaxScreen : JumpToLine(line)
  \/ \E n \in 1..2 :
       \/ Refuse(captures[n])
       \/ \E budget \in 0..MaxScreen :
            \/ StepIndex(captures[n], budget)
            \/ \E line \in 1..MaxScreen : ResumeUntilLine(captures[n], line, budget)
       \/ \E lines \in 1..MaxScreen : LocateFirstScreen(captures[n], lines)
       \/ \E at \in 0..MaxScreen : FinishIndex(captures[n], at)

LineIndexSpec == IndexInit /\ [][IndexNext]_indexVars

-----------------------------------------------------------------------------
(* Properties.                                                             *)

\* What the chunks hold up to each of them, and all of it.
JoinedUpTo(chunks) ==
  LET joined[n \in 0..Len(chunks)] ==
        IF n = 0 THEN <<>> ELSE joined[n - 1] \o chunks[n]
  IN  joined

Joined(chunks) == JoinedUpTo(chunks)[Len(chunks)]

TrueStarts(bytes) ==
  [n \in 1..LineCount(bytes, "utf8") |-> LineStart(bytes, "utf8", n)]

AnswerIsTrue(bytes, starts) ==
  CASE told.kind = "resolved" -> told.line <= Len(starts) /\ told.at = starts[told.line]
    [] told.kind = "absent" -> told.line > Len(starts)
    [] told.kind = "screen" ->
         told.line <= Len(starts) /\ told.at = LineEnd(bytes, "utf8", told.line)
    [] told.kind = "line" ->
         /\ told.line \in DOMAIN starts /\ starts[told.line] <= told.at
         /\ \A n \in DOMAIN starts : n > told.line => told.at < starts[n]
    [] told.kind = "out of bounds" -> told.at > Len(bytes) \/ starts = <<>>
    [] told.kind = "unavailable" -> starts = <<>>
    [] OTHER -> TRUE

Knows(bytes, starts) ==
  /\ DOMAIN index.starts = {n \in DOMAIN starts : starts[n] < index.offset}
  /\ \A n \in DOMAIN index.starts : index.starts[n] = starts[n]
  /\ index.complete => index.offset = Len(bytes)
  /\ {m.line : m \in {index.marks[k] : k \in DOMAIN index.marks}}
       = {n \in DOMAIN index.starts : n = 1 \/ n % Stride = 0}
  /\ AnswerIsTrue(bytes, starts)

Agrees(bytes) == Knows(bytes, TrueStarts(bytes))

\* Wherever chunks end, also inside a CRLF, the starts known so far are those
\* of the lines begun so far, in the capture that was scanned first, and every
\* answer given on the way is the one the whole capture gives.
PublishedLinesStand ==
  IF index.bound = <<>> THEN index = NewIndex ELSE Agrees(Joined(index.bound[1]))
=============================================================================
