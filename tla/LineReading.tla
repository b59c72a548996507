------------------------------ MODULE LineReading ------------------------------
(***************************************************************************)
(* The lines of a named file (crates/fcb-app/src/lines.rs: read, retain,   *)
(* scan).  The file is read once, in whatever pieces the system returns;   *)
(* the first three bytes settle its encoding, a history of eight is kept,  *)
(* and the lines are retained with four bytes of context on either side,   *)
(* so that they can be decoded.                                            *)
(***************************************************************************)
EXTENDS LineWindow

CONSTANTS
  NamedFiles,         \* sequences of bytes
  NamedRequests,      \* records: first, count, maxBytes, maxScan, encoding
  ReadBytes,          \* BUFFER_BYTES
  MaxReadCalls        \* MAX_READ_CALLS

\* What parse lets through: lines are counted from 1, and at least one line and
\* one byte are asked for.
ASSUME NamedAssumption ==
  /\ NamedFiles \subseteq Seq(0..255)
  /\ NamedRequests \subseteq
       [first : Nat \ {0}, count : Nat \ {0}, maxBytes : Nat \ {0}, maxScan : Nat,
        encoding : {"auto", "utf8", "utf16le", "utf16be"}]
  /\ ReadBytes \in Nat

VARIABLES
  named,              \* the bytes of the file
  wish,               \* the request
  reading             \* Scan, with what scan keeps in locals

namedVars == <<named, wish, reading>>

PrefixBytes == 3
Context == 4
HistoryBytes == 8

Lesser(x, y) == IF x < y THEN x ELSE y
Capacity == wish.maxBytes + 2 * Context

EncodingFor(prefix) ==
  CASE wish.encoding = "auto" -> DetectEncoding(prefix)
    [] wish.encoding = "utf8" /\ StartsWith(prefix, Mark("utf8bom")) -> "utf8bom"
    [] OTHER -> wish.encoding

-----------------------------------------------------------------------------
(* What is retained.                                                       *)

Beginning(r) ==
  CASE r.backing # Unset -> r.backing
    [] r.backing = Unset /\ r.window.from > Context -> r.window.from - Context
    [] OTHER -> 0

WantedEnd(r) ==
  IF Located(r.window) THEN r.window.to + Context ELSE r.window.offset

\* Mutant: the bytes at hand are retained from the first of them on.
NewBytesFrom(r, base, bytes) == base

\* Successive buffers overlap: what is retained already is not appended again.
NewBytes(r, base, bytes) == Beginning(r) + Len(r.selected)

\* backing_start is set once.
Settled(r) == [r EXCEPT !.backing = Beginning(r)]

\* retain.  "bytes" are those of the file from "base" on.
Retained(r, base, bytes) ==
  LET from == NewBytes(r, base, bytes)
      to == Lesser(base + Len(bytes), WantedEnd(r))
      begun == Settled(r)
  IN  CASE r.window.from = Unset -> r
        [] r.window.from # Unset /\ to <= from -> begun
        [] r.window.from # Unset /\ from < to /\ from < base ->
             [begun EXCEPT !.stop = "invalid"]
        [] r.window.from # Unset /\ base <= from /\ from < to
             /\ to - from > Capacity - Len(r.selected) -> [begun EXCEPT !.fits = FALSE]
        [] OTHER -> [begun EXCEPT !.selected = @ \o SubSeq(bytes, from - base + 1, to - base)]

-----------------------------------------------------------------------------
(* The loop of scan, up to its next call of the reader.                    *)

Ended(r) ==
  IF ~r.eof THEN r
  ELSE Retained([r EXCEPT !.window = FinishWindow(@)], r.bytesRead - Len(r.history),
                r.history)

\* Mutant: a window is complete as soon as its end is known.
HasContextAtOnce(r) == TRUE

HasContext(r) == r.eof \/ r.bytesRead >= r.window.to + Context

StopOf(r) ==
  CASE r.stop = "invalid" -> "invalid"
    [] r.stop # "invalid" /\ ~r.fits -> "output-byte-limit"
    [] r.stop # "invalid" /\ r.fits /\ Located(r.window)
         /\ r.window.to - r.window.from > wish.maxBytes -> "output-byte-limit"
    [] r.stop # "invalid" /\ r.fits /\ Located(r.window)
         /\ r.window.to - r.window.from <= wish.maxBytes /\ HasContext(r) -> "resolved"
    [] r.stop # "invalid" /\ r.fits /\ NotThere(r.window) -> "missing"
    [] OTHER -> IF r.bytesRead = wish.maxScan THEN "scan-byte-limit"
                ELSE IF r.calls = MaxReadCalls THEN "read-call-limit" ELSE "pending"

AtLoopTop(r) == LET ended == Ended(r) IN [ended EXCEPT !.stop = StopOf(ended)]

LastOf(bytes, n) == IF Len(bytes) <= n THEN bytes ELSE Rest(bytes, Len(bytes) - n)

\* Mutant: the history is no longer than the context.
HistoryAfterContext(bytes) == LastOf(bytes, Context)

HistoryAfter(bytes) == LastOf(bytes, HistoryBytes)

\* The prefix is complete: its encoding is known and it is looked through.
PrefixDone(r) ==
  LET window == NewWindow(wish.first, wish.count, EncodingFor(r.history))
      looked == [r EXCEPT !.window = StepWindow(window, r.history), !.phase = "lines"]
  IN  AtLoopTop(Retained(looked, 0, r.history))

PrefixComplete(r) ==
  \/ r.eof
  \/ Len(r.history) = PrefixBytes
  \/ Len(r.history) = wish.maxScan
  \/ r.calls = MaxReadCalls

AfterPrefixRead(r) == IF PrefixComplete(r) THEN PrefixDone(r) ELSE r

\* A piece of the file behind the history.
AfterLinesRead(r, piece) ==
  LET buffer == r.history \o piece
      base == r.bytesRead - Len(r.history)
      seen == [r EXCEPT !.window = StepWindow(@, piece),
                        !.bytesRead = @ + Len(piece)]
      kept == Retained(seen, base, buffer)
  IN  AtLoopTop([kept EXCEPT !.history = HistoryAfter(buffer)])

-----------------------------------------------------------------------------
(* Calls of the reader.                                                    *)

Wants(r) ==
  CASE r.phase = "prefix" ->
         Lesser(PrefixBytes, wish.maxScan) - Len(r.history)
    [] r.phase = "lines" /\ Located(r.window) ->
         Lesser(Lesser(r.window.to + Context - r.bytesRead, ReadBytes),
                wish.maxScan - r.bytesRead)
    [] OTHER -> Lesser(ReadBytes, wish.maxScan - r.bytesRead)

Reading == reading.stop = "pending"

Called == [reading EXCEPT !.calls = @ + 1]

\* Any part of what is asked for, and nothing at the end of the file only.
ReceivePiece(n) ==
  LET piece == SubSeq(named, reading.bytesRead + 1, reading.bytesRead + n)
  IN  /\ Reading /\ n <= Wants(reading) /\ reading.bytesRead + n <= Len(named)
      /\ reading' =
           IF reading.phase = "prefix"
           THEN AfterPrefixRead([Called EXCEPT !.history = @ \o piece,
                                               !.bytesRead = @ + n])
           ELSE AfterLinesRead(Called, piece)
      /\ UNCHANGED <<named, wish>>

ReceiveEnd ==
  /\ Reading /\ reading.bytesRead = Len(named)
  /\ reading' = IF reading.phase = "prefix"
                THEN AfterPrefixRead([Called EXCEPT !.eof = TRUE])
                ELSE AtLoopTop([Called EXCEPT !.eof = TRUE])
  /\ UNCHANGED <<named, wish>>

\* An interrupted call is made again, and counted.
InterruptRead ==
  /\ Reading
  /\ reading' = IF reading.phase = "prefix" THEN AfterPrefixRead(Called)
                                            ELSE AtLoopTop(Called)
  /\ UNCHANGED <<named, wish>>

\* Cancellation and a failed call leave nothing.
AbandonReading ==
  /\ Reading
  /\ reading' = [reading EXCEPT !.stop = "failed", !.selected = <<>>]
  /\ UNCHANGED <<named, wish>>

NothingRead ==
  [phase |-> "prefix", window |-> [finished |-> FALSE, from |-> Unset],
   history |-> <<>>, selected |-> <<>>, backing |-> Unset, bytesRead |-> 0,
   calls |-> 0, eof |-> FALSE, fits |-> TRUE, stop |-> "pending"]

LineReadingInit ==
  /\ named \in NamedFiles
  /\ wish \in NamedRequests
  /\ reading = AfterPrefixRead(NothingRead)

LineReadingNext ==
  \/ \E n \in 1..ReadBytes : ReceivePiece(n)
  \/ ReceiveEnd
  \/ InterruptRead
  \/ AbandonReading

LineReadingSpec == LineReadingInit /\ [][LineReadingNext]_namedVars

-----------------------------------------------------------------------------
(* Properties.                                                             *)

Truth == TrueWindow(named, EncodingFor(SubSeq(named, 1, Lesser(PrefixBytes, Len(named)))),
                    wish.first, wish.count)

Surrounded(from, to) ==
  LET first == IF from > Context THEN from - Context ELSE 0
  IN  [start |-> first,
       bytes |-> SubSeq(named, first + 1, Lesser(to + Context, Len(named)))]

\* Lines are published whole, with the context they are decoded by, and only
\* within the limit; a line is missing when the file ends before it; too long
\* is said of lines that are; and no order of short and interrupted reads
\* makes the rolling history lose a byte that is still needed.
NamedLinesAreWhole ==
  /\ reading.stop # "invalid"
  /\ Len(reading.selected) <= Capacity
  /\ reading.stop = "resolved" =>
       /\ <<reading.window.from, reading.window.to>> = Truth
       /\ Truth[2] - Truth[1] <= wish.maxBytes
       /\ [start |-> reading.backing, bytes |-> reading.selected]
            = Surrounded(Truth[1], Truth[2])
  /\ reading.stop = "missing" => reading.eof /\ Truth = <<>>
  /\ reading.stop = "output-byte-limit" =>
       Truth # <<>> /\ Truth[2] - Truth[1] > wish.maxBytes
=============================================================================
