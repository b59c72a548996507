------------------------------ MODULE TextScan ------------------------------
(***************************************************************************)
(* Searching the chunks of a capture without joining them                  *)
(* (crates/fcb-search/src/text.rs and capture.rs, with normalized.rs).     *)
(* A text scan decodes windows cut at whole characters, keeps the spans a  *)
(* match may still reach back to, and reports original byte ranges; a raw  *)
(* scan feeds chunks to the cursor as they are.  The Unicode tables of the *)
(* folding mode are those of ASCII and of one letter that becomes two.     *)
(***************************************************************************)
EXTENDS SourceEncoding, ByteSearch

CONSTANTS
  ScannedFiles,       \* sequences of bytes
  TextQueries,        \* records of the query's characters and the mode
  Window,             \* bytes decoded at once
  ChunkSizes,         \* bound: the sizes of chunks
  MatchLimits,        \* bound: the limits queries ask for
  ByteLimits

VARIABLES
  scanned, query,
  fed,                \* bytes taken from the chunks
  chunkLeft,          \* bytes of the current chunk still to take
  cuts,               \* history: where chunks end, if that matters
  scan

scanVars == <<scanned, query, fed, chunkLeft, cuts, scan>>

SharpS == <<195, 159>>

Fold(char) == CASE char = SharpS -> <<<<115>>, <<115>>>>
                [] Len(char) = 1 /\ char[1] \in 65..90 -> <<<<char[1] + 32>>>>
                [] OTHER -> <<char>>

\* The units a character is compared by; of a query in bytes, its bytes.
Units(mode, char) == IF mode = "fold" THEN Fold(char) ELSE <<char>>

NeedleOf(q) ==
  IF q.mode = "fold" THEN Flatten([i \in DOMAIN q.chars |-> Units("fold", q.chars[i])])
  ELSE Flatten(q.chars)

Needle == query.needle

\* A cursor refuses an empty needle.
ASSUME ScanAssumption ==
  /\ ScannedFiles \subseteq Seq(0..255)
  /\ \A q \in TextQueries :
       NeedleOf(q) \in (IF q.mode = "fold" THEN Seq(Seq(0..255)) ELSE Seq(0..255)) \ {<<>>}
  /\ ChunkSizes \subseteq Nat
  /\ MatchLimits \subseteq Nat
  /\ ByteLimits \subseteq Nat

-----------------------------------------------------------------------------
(* Ranges and scope.                                                       *)

Unmapped == -1

\* original_offset, by the retained spans.
OriginalOffset(s, dec) ==
  LET n == Cardinality({i \in DOMAIN s.spans : s.spans[i].start.dec <= dec})
      span == s.spans[n]
      scale == span.len.raw \div span.len.dec
  IN  CASE n = 0 -> Unmapped
        [] n > 0 /\ dec = span.start.dec -> span.start.raw
        [] n > 0 /\ dec # span.start.dec /\ dec = SpanEnd(span).dec -> SpanEnd(span).raw
        [] n > 0 /\ dec \in (span.start.dec + 1)..(SpanEnd(span).dec - 1)
                 /\ span.kind = "ascii" ->
             span.start.raw + (dec - span.start.dec) * scale
        [] OTHER -> Unmapped

CrossesChunk(s, from, to) ==
  \E i \in DOMAIN s.ends : from < s.ends[i] /\ s.ends[i] < to

OutOfScope(s, hit) == ~query.crossChunk /\ CrossesChunk(s, hit.from, hit.to)

\* Mutant: a hit that is out of scope uses up a place.
AdmittedFirst(s, hit) ==
  LET full == Len(s.matches) = query.maxMatches
  IN  IF hit.from = Unmapped \/ hit.to = Unmapped
      THEN [s EXCEPT !.coverage = "failed"]
      ELSE CASE full -> [s EXCEPT !.coverage = "truncated"]
             [] ~full /\ OutOfScope(s, hit) -> s
             [] OTHER -> [s EXCEPT !.matches = Append(@, hit)]

\* A hit out of scope is passed over before the limit is looked at; one more
\* than the limit proves that the list is cut.
Admitted(s, hit) ==
  LET full == Len(s.matches) = query.maxMatches
  IN  IF hit.from = Unmapped \/ hit.to = Unmapped
      THEN [s EXCEPT !.coverage = "failed"]
      ELSE CASE OutOfScope(s, hit) -> s
             [] ~OutOfScope(s, hit) /\ full -> [s EXCEPT !.coverage = "truncated"]
             [] OTHER -> [s EXCEPT !.matches = Append(@, hit)]

Running(s) == s.coverage = "running"

AdmitOne(s, hit) == IF Running(s) THEN Admitted(s, hit) ELSE s

AdmitAll(s, hits) ==
  LET after[n \in 0..Len(hits)] == IF n = 0 THEN s ELSE AdmitOne(after[n - 1], hits[n])
  IN  after[Len(hits)]

-----------------------------------------------------------------------------
(* One window.                                                             *)

DropWhile(seq, Test(_)) ==
  LET kept == {i \in DOMAIN seq : \A j \in 1..i : Test(seq[j])}
  IN  SubSeq(seq, Cardinality(kept) + 1, Len(seq))

\* Mutant: only the last decoded span is kept.
KeepFromLast(s) == s.cursor.scanned

\* A hit may still begin a needle's length before what was scanned.
KeepFrom(s) ==
  IF s.cursor.scanned > Len(Needle) THEN s.cursor.scanned - Len(Needle) ELSE 0

\* prune: spans and chunk ends that no further hit can reach.
Pruned(s) ==
  LET spans == IF query.mode = "fold" THEN <<>>
               ELSE DropWhile(s.spans, LAMBDA span : SpanEnd(span).dec <= KeepFrom(s))
      from == CASE query.mode = "fold" /\ s.ring # <<>> -> s.ring[1].from
                [] query.mode # "fold" /\ spans # <<>> -> spans[1].start.raw
                [] OTHER -> s.at.raw
  IN  [s EXCEPT !.spans = spans,
                !.ends = DropWhile(@, LAMBDA end : end <= from)]

\* The exact scan: the decoded bytes in batches of at most one hit too many.
SearchBatch(s, bytes, from) ==
  LET rest == Rest(bytes, s.cursor.scanned - from)
      limit == query.maxMatches - Len(s.matches) + 1
      batch == CursorStep(Needle, s.cursor, rest, Len(rest), limit)
      hits == [i \in DOMAIN batch.hits |->
                 [from |-> OriginalOffset(s, batch.hits[i] - Len(Needle)),
                  to |-> OriginalOffset(s, batch.hits[i])]]
      after == AdmitAll([s EXCEPT !.cursor = batch.cursor], hits)
  IN  CASE rest = <<>> \/ ~Running(s) -> s
        [] rest # <<>> /\ Running(s) /\ Running(after) -> Pruned(after)
        [] OTHER -> after

SearchBytes(s, bytes) ==
  LET after[n \in 0..Len(bytes)] ==
        IF n = 0 THEN s ELSE SearchBatch(after[n - 1], bytes, s.cursor.scanned)
  IN  after[Len(bytes)]

\* Mutant: the ring holds one unit less than the needle.
RingFullEarly(ring) == Len(ring) = Len(Needle) - 1 /\ ring # <<>>

RingFull(ring) == Len(ring) = Len(Needle)

\* NormalizedCursor::push: the ring keeps where the last units come from.
PushUnit(s, unit, scalar) ==
  LET ring == Append(IF RingFull(s.ring) THEN Tail(s.ring) ELSE s.ring, scalar)
      table == Failure(Needle)
      m == Matching(Needle, table, s.cursor.matched, unit)
      pushed == [s EXCEPT !.ring = ring,
                          !.cursor.matched = Carried(Needle, table, m)]
  IN  CASE ~Running(s) -> s
        [] Running(s) /\ m = Len(Needle) ->
             Admitted(pushed, [from |-> ring[1].from, to |-> scalar.to])
        [] OTHER -> pushed

SearchChar(s, char, dec) ==
  LET units == Units(query.mode, char)
      scalar == [from |-> OriginalOffset(s, dec),
                 to |-> OriginalOffset(s, dec + Len(char))]
      after[n \in 0..Len(units)] ==
        IF n = 0 THEN s ELSE PushUnit(after[n - 1], units[n], scalar)
  IN  after[Len(units)]

SearchChars(s, chars, dec) ==
  LET from[n \in DOMAIN chars] == IF n = 1 THEN dec ELSE from[n - 1] + Len(chars[n - 1])
      after[n \in 0..Len(chars)] ==
        IF n = 0 THEN s ELSE SearchChar(after[n - 1], chars[n], from[n])
  IN  after[Len(chars)]

SearchedMap(s, map) ==
  LET decoded == [s EXCEPT
        !.spans = @ \o SelectSeq(map.spans, LAMBDA span : span.len.dec > 0),
        !.at = map.end]
  IN  IF query.mode = "fold" THEN SearchChars(decoded, map.text, s.at.dec)
      ELSE SearchBytes(decoded, Flatten(map.text))

\* The spans behind a window that stopped the scan are of no use any more.
Behind(found, n) ==
  IF Running(found) THEN [Pruned(found) EXCEPT !.staging = Rest(@, n)] ELSE found

ProcessedMap(s, map, n) ==
  IF IsMalformed(map) THEN [s EXCEPT !.coverage = "unsupported", !.matches = <<>>]
  ELSE Behind(SearchedMap(s, map), n)

ProcessedPrefix(s, n) ==
  IF n = 0 THEN s
  ELSE ProcessedMap(s, Build(SubSeq(s.staging, 1, n), s.encoding, s.at), n)

ProcessedAs(s, eof) ==
  ProcessedPrefix(s, IF eof THEN Len(s.staging) ELSE CompletePrefix(s.staging, s.encoding))

\* process: decode what is whole, search it, keep the rest.
Processed(s, eof) ==
  CASE s.staging = <<>> -> s
    [] ~eof /\ s.at.raw = 0 /\ s.encoding = "unknown" /\ PartialMark(s.staging) -> s
    [] OTHER -> ProcessedAs([s EXCEPT !.encoding =
                  IF @ = "unknown" THEN DetectEncoding(s.staging) ELSE @], eof)

-----------------------------------------------------------------------------
(* The loop over the chunks.                                               *)

Scanning == Running(scan)

BeginChunk(n) ==
  /\ Scanning
  /\ chunkLeft = 0
  /\ fed + n <= Len(scanned)
  /\ chunkLeft' = n
  /\ scan' = CASE query.mode = "raw" /\ ~query.crossChunk ->
                    [scan EXCEPT !.cursor = Broken(@)]
               [] query.mode # "raw" /\ ~query.crossChunk ->
                    [scan EXCEPT !.ends = Append(@, fed + n)]
               [] OTHER -> scan
  /\ cuts' = IF query.crossChunk THEN cuts ELSE cuts \cup {fed + n}
  /\ UNCHANGED <<scanned, query, fed>>

LeastOf(x, y) == IF x < y THEN x ELSE y

\* Nothing more may be read.
Exhausted(s) == IF Running(s) /\ fed = query.maxBytes THEN [s EXCEPT !.coverage = "budget"] ELSE s

\* scan_text_chunks: fill the window, and decode it when it is full.
FillWindow ==
  LET take == LeastOf(LeastOf(chunkLeft, Window - Len(scan.staging)),
                      query.maxBytes - fed)
      staged == [scan EXCEPT !.staging = @ \o SubSeq(scanned, fed + 1, fed + take)]
  IN  /\ Scanning
      /\ query.mode # "raw"
      /\ chunkLeft > 0
      /\ scan' = IF fed < query.maxBytes /\ Len(staged.staging) < Window THEN staged
                 ELSE Exhausted(Processed(staged, FALSE))
      /\ fed' = fed + take
      /\ chunkLeft' = chunkLeft - take
      /\ UNCHANGED <<scanned, query, cuts>>

\* scan_raw_chunks: one batch of the cursor.
StepRaw ==
  LET batch == CursorStep(Needle, scan.cursor,
                          SubSeq(scanned, fed + 1, fed + chunkLeft),
                          query.maxBytes - fed,
                          query.maxMatches - Len(scan.matches) + 1)
      hits == [i \in DOMAIN batch.hits |->
                 [from |-> batch.hits[i] - Len(Needle), to |-> batch.hits[i]]]
  IN  /\ Scanning
      /\ query.mode = "raw"
      /\ chunkLeft > 0
      /\ scan' = IF fed = query.maxBytes THEN Exhausted(scan)
                 ELSE AdmitAll([scan EXCEPT !.cursor = batch.cursor], hits)
      /\ fed' = fed + batch.consumed
      /\ chunkLeft' = chunkLeft - batch.consumed
      /\ UNCHANGED <<scanned, query, cuts>>

EndScan ==
  LET s == IF query.mode = "raw" THEN scan ELSE Processed(scan, TRUE)
  IN  /\ Scanning
      /\ chunkLeft = 0
      /\ fed = Len(scanned)
      /\ scan' = IF Running(s) THEN [s EXCEPT !.coverage = "exhaustive"] ELSE s
      /\ UNCHANGED <<scanned, query, fed, chunkLeft, cuts>>

\* The loop asks before every window and every batch.
CancelScan ==
  /\ Scanning
  /\ chunkLeft > 0
  /\ scan' = [scan EXCEPT !.coverage = "canceled"]
  /\ UNCHANGED <<scanned, query, fed, chunkLeft, cuts>>

ScanInit ==
  /\ scanned \in ScannedFiles
  /\ query \in {[chars |-> q.chars, mode |-> q.mode, needle |-> NeedleOf(q), crossChunk |-> c,
                 maxMatches |-> m, maxBytes |-> LeastOf(b, Len(scanned))] :
                q \in TextQueries, c \in BOOLEAN, m \in MatchLimits, b \in ByteLimits}
  /\ fed = 0
  /\ chunkLeft = 0
  /\ cuts = {}
  /\ scan = [staging |-> <<>>, encoding |-> "unknown", at |-> At(0, 0, 0, 0),
             spans |-> <<>>, ends |-> <<>>, cursor |-> NewCursor, ring |-> <<>>,
             matches |-> <<>>,
             coverage |-> IF query.maxMatches = 0 /\ Len(scanned) > 0
                          THEN "truncated" ELSE "running"]

ScanNext ==
  \/ \E n \in ChunkSizes : BeginChunk(n)
  \/ FillWindow
  \/ StepRaw
  \/ EndScan
  \/ CancelScan

ScanSpec == ScanInit /\ [][ScanNext]_scanVars

-----------------------------------------------------------------------------
(* Reference and properties.                                               *)

ScannedChars == RefDecode(scanned, DetectEncoding(scanned))

AllValid(chars) == \A i \in DOMAIN chars : chars[i].valid

WhollyValid == AllValid(ScannedChars)

RefUnitsOf(char, units) ==
  [k \in DOMAIN units |->
     [unit |-> units[k], from |-> char.from.raw, to |-> char.to.raw]]

\* The units of the characters before the first malformed byte.
ValidUnits(chars) ==
  LET valid == {i \in DOMAIN chars : AllValid(SubSeq(chars, 1, i))}
  IN  Flatten([i \in 1..Cardinality(valid) |->
                 RefUnitsOf(chars[i], Units(query.mode, chars[i].text))])

RefUnits ==
  IF query.mode # "raw" THEN ValidUnits(ScannedChars)
  ELSE [i \in DOMAIN scanned |-> [unit |-> scanned[i], from |-> i - 1, to |-> i]]

\* Every place the needle stands at, in order, unless a chunk ends in it.
HitsAmong(units, needle) ==
  LET HitAt(i) == [from |-> units[i].from, to |-> units[i + Len(needle) - 1].to]
      places == {i \in 1..(Len(units) - Len(needle) + 1) :
                   /\ \A k \in DOMAIN needle : units[i + k - 1].unit = needle[k]
                   /\ ~\E c \in cuts : HitAt(i).from < c /\ c < HitAt(i).to}
      Place(k) == CHOOSE i \in places : Cardinality({j \in places : j < i}) = k - 1
  IN  [k \in 1..Cardinality(places) |-> HitAt(Place(k))]

RefHits ==
  HitsAmong(RefUnits, IF query.mode = "exact" THEN query.chars ELSE Needle)

Reported(hits) ==
  LET first == SubSeq(hits, 1, Len(scan.matches))
  IN  CASE scan.coverage = "exhaustive" ->
             scan.matches = hits /\ (query.mode = "raw" \/ WhollyValid)
        [] scan.coverage = "truncated" /\ query.maxMatches > 0 ->
             /\ Len(scan.matches) = query.maxMatches
             /\ Len(hits) > query.maxMatches
             /\ scan.matches = first
        [] scan.coverage = "budget" ->
             scan.matches =
               SubSeq(hits, 1, Cardinality({k \in DOMAIN hits : hits[k].to <= query.maxBytes}))
        [] scan.coverage = "unsupported" ->
             scan.matches = <<>> /\ ~WhollyValid
        [] scan.coverage = "failed" -> FALSE
        [] OTHER -> Len(scan.matches) <= Len(hits) /\ scan.matches = first

\* Windows, chunks, batches and pruning show in nothing a scan reports: its
\* matches are the reference's, all of them or the first ones, whole ranges of
\* original bytes; what was passed over or cut short is said so.
ScanIsExact == Reported(RefHits)

\* Of a raw scan: the bytes of the needle, wherever they stand.
RawScanIsExact == query.mode = "raw" => ScanIsExact
=============================================================================
