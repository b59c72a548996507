----------------------------- MODULE ReaderSearch -----------------------------
(***************************************************************************)
(* ReaderSearch (crates/fcb/src/search/streaming.rs): a search that reads  *)
(* a file once, through a small buffer, in steps its host can stop.  Every *)
(* call may be interrupted, return less than asked or fail; the file may   *)
(* be shorter or longer than it was observed to be.  Hits are found in the *)
(* original bytes and are those of the text only because every window of   *)
(* the buffer was decoded without a malformed character.                   *)
(***************************************************************************)
EXTENDS SourceEncoding, ByteSearch

CONSTANTS
  ReadInputs,         \* records of the bytes there are and the observed length
  ReadRequests,       \* records of the query and its limits
  StepBudgets,        \* records of the limits of one step
  BufferSize

VARIABLES
  input,
  request,
  reader              \* the fields of ReaderSearch

readerVars == <<input, request, reader>>

\* Bytes are asked for as they are, and a step that may do nothing is none.
ASSUME ReadAssumption ==
  /\ \A i \in ReadInputs : i.bytes \in Seq(0..255) /\ i.length \in Nat
  /\ \A r \in ReadRequests :
       /\ r.maxMatches \in Nat /\ r.maxBytes \in Nat /\ r.maxCalls \in Nat
       /\ r.mode = "raw" =>
            r.encoding = "unknown" /\ r.chars \in Seq({<<b>> : b \in 0..255}) \ {<<>>}
  /\ \A b \in StepBudgets : b.bytes \in Nat \ {0} /\ b.hits \in Nat \ {0} /\ b.calls \in Nat
  /\ BufferSize \in Nat

Smaller(x, y) == IF x < y THEN x ELSE y

\* A character of the query in the encoding of the file.
Encoded(char, enc) ==
  LET units == UnitsOf(ScalarOf(char))
      Bytes(u) == IF enc = "utf16le" THEN <<u % 256, u \div 256>>
                                     ELSE <<u \div 256, u % 256>>
  IN  CASE ~IsUtf16(enc) -> char
        [] IsUtf16(enc) /\ Len(units) = 1 -> Bytes(units[1])
        [] OTHER -> Bytes(units[1]) \o Bytes(units[2])

IsText == request.mode = "text"

\* encoded: what the cursor looks for.
Wanted(s) ==
  Flatten([i \in DOMAIN request.chars |-> Encoded(request.chars[i], s.encoding)])

Pending(s) == s.state = "pending"

-----------------------------------------------------------------------------
(* One call of the reader.                                                 *)

MayRead(s) ==
  /\ s.ready = 0
  /\ ~s.eof
  /\ s.bytesRead < Smaller(input.length, request.maxBytes)
  /\ s.calls < request.maxCalls

Room(s, budget) ==
  Smaller(Smaller(BufferSize - Len(s.buffer), budget.bytes),
          Smaller(input.length, request.maxBytes) - s.bytesRead)

CallsLeft(s, budget) == Smaller(budget.calls, request.maxCalls - s.calls)

Received(s, n) ==
  [s EXCEPT !.buffer = @ \o SubSeq(input.bytes, s.bytesRead + 1, s.bytesRead + n),
            !.bytesRead = @ + n, !.calls = @ + 1]

Interrupted(s, n) == [s EXCEPT !.calls = @ + n]

\* What may come of the calls of one step: some are interrupted, then one
\* returns bytes or the end of the file, unless all of them are interrupted.
Reads(s, budget) ==
  LET left == Len(input.bytes) - s.bytesRead
      calls == CallsLeft(s, budget)
      sizes == 1..Smaller(Room(s, budget), left)
      Final(t) == IF left <= 0 THEN {[t EXCEPT !.eof = TRUE, !.calls = @ + 1]}
                  ELSE {Received(t, n) : n \in sizes}
  IN  IF ~MayRead(s) THEN {s}
      ELSE {Interrupted(s, calls)} \cup UNION {Final(Interrupted(s, n)) : n \in 0..(calls - 1)}

-----------------------------------------------------------------------------
(* What is read is validated before it is searched.                        *)

FinalInput(s) == s.eof \/ s.bytesRead = input.length

\* Mutant: the first byte decides the encoding.
UndecidedNever(s) == FALSE

\* Too little is read to tell whether the file begins with a mark.
Undecided(s) ==
  ~s.decided /\ ~FinalInput(s) /\ (s.buffer = <<>> \/ PartialMark(s.buffer))

Decided(s) ==
  LET enc == IF s.encoding = "unknown" THEN DetectEncoding(s.buffer) ELSE s.encoding
      header == IF StartsWith(s.buffer, Mark(enc)) THEN Len(Mark(enc)) ELSE 0
  IN  IF s.decided THEN s
      ELSE [s EXCEPT !.encoding = enc, !.decided = TRUE, !.header = header]

Ready(s) == IF ~IsText \/ FinalInput(s) THEN Len(s.buffer)
            ELSE CompletePrefix(s.buffer, s.encoding)

FirstMalformed(map) ==
  map.spans[CHOOSE i \in DOMAIN map.spans :
              /\ map.spans[i].kind = "malformed"
              /\ \A j \in 1..(i - 1) : map.spans[j].kind # "malformed"].start.raw

Prepared(s) ==
  LET known == Decided(s)
      t == [known EXCEPT !.ready = Ready(known)]
      map == Build(SubSeq(t.buffer, 1, t.ready), t.encoding, At(t.base, 0, 0, 0))
  IN  CASE Undecided(s) -> s
        [] ~Undecided(s) /\ IsText /\ IsMalformed(map) ->
             [t EXCEPT !.unsupportedAt = FirstMalformed(map), !.hits = <<>>,
                       !.seen = 0, !.state = "unsupported"]
        [] OTHER -> t

-----------------------------------------------------------------------------
(* One batch of the cursor.                                                *)

\* Mutant: a hit may begin in the middle of a UTF-16 unit.
IsPlaceAnywhere(s, from) == ~IsText \/ from >= s.header

\* The text begins behind the mark, and at whole UTF-16 units.
IsPlace(s, from) ==
  ~IsText \/ (from >= s.header /\ (IsUtf16(s.encoding) => from % 2 = 0))

AcceptOne(s, to) ==
  LET from == to - Len(Wanted(s))
      full == Len(s.hits) = request.maxMatches
      t == [s EXCEPT !.seen = @ + 1]
      hit == [occurrence |-> t.seen, from |-> from, to |-> to]
  IN  CASE ~Pending(s) \/ ~IsPlace(s, from) -> s
        [] Pending(s) /\ IsPlace(s, from) /\ full -> [t EXCEPT !.state = "truncated"]
        [] OTHER -> [t EXCEPT !.hits = Append(@, hit)]

Accepted(s, ends) ==
  LET after[n \in 0..Len(ends)] == IF n = 0 THEN s ELSE AcceptOne(after[n - 1], ends[n])
  IN  after[Len(ends)]

\* A buffer that is searched makes room; what was held back moves to its front.
Compacted(s) ==
  IF s.consumed < s.ready THEN s
  ELSE [s EXCEPT !.buffer = Rest(@, s.ready), !.base = @ + s.ready,
                 !.ready = 0, !.consumed = 0]

Searched(s, budget) ==
  LET bytes == SubSeq(s.buffer, s.consumed + 1, s.ready)
      batch == CursorStep(Wanted(s), s.cursor, bytes, budget.bytes, budget.hits)
      t == [s EXCEPT !.cursor = batch.cursor, !.consumed = @ + batch.consumed]
  IN  IF s.ready = s.consumed THEN s ELSE Compacted(Accepted(t, batch.hits))

\* Mutant: a search that may not call again waits for the reader for ever.
OutOfCallsNever(s) == FALSE

OutOfCalls(s) == s.calls >= request.maxCalls

\* set_terminal
SettledReader(s) ==
  LET empty == s.buffer = <<>>
      state == CASE empty /\ s.bytesRead = input.length -> "complete"
                 [] empty /\ s.bytesRead # input.length /\ s.eof -> "short"
                 [] ~(empty /\ (s.bytesRead = input.length \/ s.eof)) ->
                      CASE s.bytesRead >= request.maxBytes -> "bytelimit"
                        [] s.bytesRead < request.maxBytes /\ OutOfCalls(s) -> "calllimit"
                        [] OTHER -> "pending"
  IN  IF Pending(s) /\ s.ready = 0 THEN [s EXCEPT !.state = state] ELSE s

AfterStep(s, budget) ==
  LET prepared == IF s.ready = 0 THEN Prepared(s) ELSE s
  IN  IF Pending(prepared) THEN SettledReader(Searched(prepared, budget)) ELSE prepared

-----------------------------------------------------------------------------
(* Steps.                                                                  *)

Stopped(s) == [s EXCEPT !.state = "canceled"]

\* step: the host is asked whether to go on before the calls, after them, and
\* at the end, when a result that is there already is given up, too.
StepReader(budget) ==
  /\ Pending(reader)
  /\ \E s \in Reads(reader, budget) :
       reader' \in {AfterStep(s, budget), Stopped(s), Stopped(AfterStep(s, budget))}
  /\ UNCHANGED <<input, request>>

\* A call fails, or claims more bytes than there was room for.
ReaderFails(budget) ==
  /\ Pending(reader)
  /\ MayRead(reader)
  /\ \E n \in 1..CallsLeft(reader, budget) :
       reader' = [Interrupted(reader, n) EXCEPT !.state = "failed"]
  /\ UNCHANGED <<input, request>>

\* cancel, or a step for another generation: of a search that ended, too.
StopReader ==
  /\ reader.state # "canceled"
  /\ reader' = Stopped(reader)
  /\ UNCHANGED <<input, request>>

NewReader ==
  [buffer |-> <<>>, base |-> 0, ready |-> 0, consumed |-> 0, eof |-> FALSE,
   encoding |-> request.encoding, decided |-> request.mode = "raw", header |-> 0,
   cursor |-> NewCursor, hits |-> <<>>, seen |-> 0, unsupportedAt |-> -1,
   bytesRead |-> 0, calls |-> 0, state |-> "pending"]

\* new: an empty file is complete at once.
ReaderInit ==
  /\ input \in ReadInputs
  /\ request \in ReadRequests
  /\ reader = IF input.length = 0 THEN SettledReader(Prepared(NewReader)) ELSE NewReader

ReaderNext ==
  \/ \E budget \in StepBudgets : StepReader(budget) \/ ReaderFails(budget)
  \/ StopReader

ReaderSpec == ReaderInit /\ [][ReaderNext]_readerVars

-----------------------------------------------------------------------------
(* Properties.                                                             *)

\* The characters, or bytes, that were read.
ReadChars ==
  LET bytes == SubSeq(input.bytes, 1, reader.bytesRead)
  IN  IF IsText
      THEN RefDecode(bytes, IF request.encoding = "unknown" THEN DetectEncoding(input.bytes)
                            ELSE request.encoding)
      ELSE [i \in DOMAIN bytes |-> [text |-> <<bytes[i]>>, valid |-> TRUE,
                                    from |-> At(i - 1, 0, 0, 0), to |-> At(i, 0, 0, 0)]]

ReadHits(chars) ==
  LET n == Len(request.chars)
      Stands(i) == \A k \in 1..n : chars[i + k - 1].valid
                                   /\ chars[i + k - 1].text = request.chars[k]
      places == {i \in 1..(Len(chars) - n + 1) : Stands(i)}
      Place(k) == CHOOSE i \in places : Cardinality({j \in places : j < i}) = k - 1
  IN  [k \in 1..Cardinality(places) |->
         [occurrence |-> k, from |-> chars[Place(k)].from.raw,
          to |-> chars[Place(k) + n - 1].to.raw]]

\* However the file came, the hits reported are those a decoder of the whole
\* finds in what was read: all of them when the state says the scan got to an
\* end, the first ones when it says they were too many, and none when it says
\* where the text is malformed.
ReaderFindsAll ==
  LET chars == ReadChars
      hits == ReadHits(chars)
      bad == {i \in DOMAIN chars : ~chars[i].valid}
      first == Len(reader.hits) <= Len(hits)
               /\ reader.hits = SubSeq(hits, 1, Len(reader.hits))
  IN  CASE reader.state = "complete" ->
             reader.bytesRead = input.length /\ bad = {} /\ reader.hits = hits
        [] reader.state = "short" ->
             reader.bytesRead = Len(input.bytes) /\ bad = {} /\ reader.hits = hits
        [] reader.state \in {"bytelimit", "calllimit"} ->
             /\ reader.hits = hits
             /\ \A i \in bad : chars[i].from.raw >= reader.base
        [] reader.state = "truncated" ->
             first /\ Len(reader.hits) = request.maxMatches /\ reader.seen <= Len(hits)
                   /\ reader.seen = request.maxMatches + 1
        [] reader.state = "unsupported" ->
             /\ reader.hits = <<>>
             /\ \E i \in bad : /\ reader.unsupportedAt = chars[i].from.raw
                               /\ \A j \in bad : i <= j
        [] OTHER -> first

\* A search that is not at its end has bytes to search or a call to make: no step
\* of it is spent on nothing, and a host that goes on gets to the end, the calls
\* and the bytes being limited.
NeverStuck ==
  Pending(reader) => MayRead(reader) \/ reader.consumed < reader.ready

ReaderIsExact == ReaderFindsAll /\ NeverStuck

\* Of a search for bytes: those of the needle, wherever they stand.
RawReaderIsExact == request.mode = "raw" => ReaderFindsAll

\* A search that may read nothing is not ended before its first step.
AsksForSomething == request.maxBytes > 0 /\ request.maxCalls > 0

AskedIsNeverStuck == AsksForSomething => NeverStuck
=============================================================================
