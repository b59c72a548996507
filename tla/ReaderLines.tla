------------------------------ MODULE ReaderLines ------------------------------
(***************************************************************************)
(* Lines of a capture that a reader holds (crates/fcb-app/src/host):       *)
(* ReaderSession::read_lines and the line of read_position.  A request     *)
(* resumes from the furthest checkpoint that is before its line, and       *)
(* leaves checkpoints behind, a request that was canceled too.             *)
(***************************************************************************)
EXTENDS LineWindow

CONSTANTS
  LineFiles,          \* records of the bytes and the encoding of a capture
  LineScanStep,       \* LINE_SCAN_STEP
  MaxLine,            \* bound: the lines that are asked for
  MaxRequests         \* bound: the requests of a session

\* A capture whose encoding has no lines is refused before its lines are looked
\* for, and so is a request for line 0.
ASSUME LinesAssumption ==
  /\ LineFiles \subseteq [bytes : Seq(0..255),
                         encoding : {"utf8", "utf8bom", "utf16le", "utf16be"}]
  /\ LineScanStep \in Nat \ {0}
  /\ MaxLine \in Nat

VARIABLES
  lineFile,
  checkpoints,        \* line_checkpoints, by slot
  lineRequest,        \* the request that runs, or that was answered last
  lineScan,           \* the cursor of the request
  lineAnswer,         \* what was said, and the offsets that were found
  asked               \* how many requests there were

linesVars == <<lineFile, checkpoints, lineRequest, lineScan, lineAnswer, asked>>

NoCursor == [finished |-> TRUE]
Says(kind, place) == [kind |-> kind, place |-> place]
Unanswered == Says("none", <<>>)
FileLength == Len(lineFile.bytes)
Answering == lineScan # NoCursor

-----------------------------------------------------------------------------
\* Mutant: a checkpoint inside the line that is asked for.
UsableInside(w, first) == w.line <= first

Usable(w, first) == w.line < first

\* The checkpoint a request starts from, if it may start at all.
Furthest(first) ==
  LET usable == {w \in {checkpoints[s] : s \in DOMAIN checkpoints} : Usable(w, first)}
  IN  {w \in usable : \A v \in usable : v.offset <= w.offset}

\* read_lines and position_line_start begin alike.
AskLines(kind, first, count) ==
  /\ ~Answering /\ asked < MaxRequests
  /\ asked' = asked + 1
  /\ lineRequest' = [kind |-> kind, first |-> first, count |-> count]
  /\ \/ /\ Furthest(first) = {}
        /\ lineScan' = NewWindow(first, count, lineFile.encoding)
        /\ lineAnswer' = Unanswered
     \/ \E w \in Furthest(first) :
          IF CanRetarget(w, first)
          THEN /\ lineScan' = Retarget(w, first, count)
               /\ lineAnswer' = Unanswered
          ELSE /\ lineScan' = NoCursor /\ lineAnswer' = Says("invalid", <<>>)
  /\ UNCHANGED <<lineFile, checkpoints>>

\* A position needs no more than the first byte of its line.
HasEnough(w) ==
  \/ w.finished
  \/ lineRequest.kind = "position" /\ w.from # Unset

Looking == Answering /\ ~HasEnough(lineScan) /\ lineScan.offset < FileLength

UpTo(n) == IF n < FileLength THEN n ELSE FileLength

NextChunk(w) == SubSeq(lineFile.bytes, w.offset + 1, UpTo(w.offset + LineScanStep))

Slot(w) == w.offset \div LineScanStep

\* The scan's line is not reached: what it saw serves every later request.
Keeps(w) == ~HasEnough(w) /\ w.line < lineRequest.first

LookOn ==
  /\ Looking
  /\ LET w == StepWindow(lineScan, NextChunk(lineScan))
     IN  /\ lineScan' = w
         /\ checkpoints' =
              IF Keeps(w)
              THEN [s \in DOMAIN checkpoints \cup {Slot(w)} |->
                      IF s = Slot(w) THEN w ELSE checkpoints[s]]
              ELSE checkpoints
  /\ UNCHANGED <<lineFile, lineRequest, lineAnswer, asked>>

Answer(w) ==
  CASE w.from = Unset -> Says("missing", <<>>)
    [] w.from # Unset /\ lineRequest.kind = "position" -> Says("found", <<w.from>>)
    [] OTHER -> Says("found", <<w.from, w.to>>)

AnswerLines ==
  /\ Answering /\ ~Looking
  /\ LET w == IF HasEnough(lineScan) THEN lineScan ELSE FinishWindow(lineScan)
     IN  lineAnswer' = Answer(w)
  /\ lineScan' = NoCursor
  /\ UNCHANGED <<lineFile, checkpoints, lineRequest, asked>>

\* check(canceled) precedes every step and the answer.
CancelLines ==
  /\ Answering
  /\ lineScan' = NoCursor /\ lineAnswer' = Says("canceled", <<>>)
  /\ UNCHANGED <<lineFile, checkpoints, lineRequest, asked>>

ReaderLinesInit ==
  /\ lineFile \in LineFiles
  /\ checkpoints = <<>>
  /\ lineRequest = [kind |-> "none", first |-> 1, count |-> 1]
  /\ lineScan = NoCursor
  /\ lineAnswer = Unanswered
  /\ asked = 0

ReaderLinesNext ==
  \/ \E first \in 1..MaxLine, count \in 1..2 : AskLines("lines", first, count)
  \/ \E first \in 1..MaxLine : AskLines("position", first, 1)
  \/ LookOn
  \/ AnswerLines
  \/ CancelLines

ReaderLinesSpec == ReaderLinesInit /\ [][ReaderLinesNext]_linesVars

-----------------------------------------------------------------------------
(* Properties.                                                             *)

Demanded ==
  TrueWindow(lineFile.bytes, lineFile.encoding, lineRequest.first, lineRequest.count)

\* A request is answered with the lines' bytes whatever was asked before it and
\* wherever earlier requests were stopped, and is refused for no checkpoint.
CheckpointsServeAllLines ==
  ~Answering /\ lineAnswer.kind \notin {"none", "canceled"} =>
    lineAnswer = CASE Demanded = <<>> -> Says("missing", <<>>)
                   [] Demanded # <<>> /\ lineRequest.kind = "position" ->
                        Says("found", <<Demanded[1]>>)
                   [] OTHER -> Says("found", Demanded)
=============================================================================
