--------------------------- MODULE SourceEncoding ---------------------------
(***************************************************************************)
(* Decoding of source bytes and the maps between their offsets             *)
(* (crates/fcb-source/src/encoding.rs).  A position counts original bytes  *)
(* ("raw"), bytes of the decoded text ("dec"), UTF-16 units ("u16") and    *)
(* scalars ("sca").  A map lists its spans in order; a run of ASCII is one *)
(* span, every other character, replaced byte or escape has its own.       *)
(***************************************************************************)
EXTENDS SourceBytes, FiniteSets

Domains == {"raw", "dec", "u16", "sca"}
Position == [Domains -> Nat]

At(raw, dec, u16, sca) ==
  [raw |-> raw, dec |-> dec, u16 |-> u16, sca |-> sca]

Plus(p, q) == [d \in Domains |-> p[d] + q[d]]

-----------------------------------------------------------------------------
(* Characters: the token that the first bytes form.                        *)

Continues(b) == b \in 128..191

Needed(b) == CASE b \in 194..223 -> 2
               [] b \in 224..239 -> 3
               [] b \in 240..244 -> 4
               [] OTHER -> 1

\* Neither overlong forms, nor surrogates, nor scalars past the last one.
SecondByte(b) == CASE b = 224 -> 160..191
                   [] b = 237 -> 128..159
                   [] b = 240 -> 144..191
                   [] b = 244 -> 128..143
                   [] OTHER -> 128..191

\* How many bytes from the front could belong to the character begun there.
BelongToFirst(bytes) ==
  LET n == IF Needed(bytes[1]) < Len(bytes) THEN Needed(bytes[1]) ELSE Len(bytes)
      bad == {i \in 2..n : IF i = 2 THEN bytes[2] \notin SecondByte(bytes[1])
                                    ELSE ~Continues(bytes[i])}
  IN  IF bad = {} THEN n ELSE (CHOOSE i \in bad : \A j \in bad : i <= j) - 1

Token(raw, text, u16, sca, kind) ==
  [len |-> At(raw, Len(text), u16, sca), text |-> text, kind |-> kind]

Replaced(raw) == Token(raw, <<239, 191, 189>>, 1, 1, "malformed")

Utf8Token(bytes) ==
  LET n == Needed(bytes[1])
  IN  CASE bytes[1] < 128 -> Token(1, <<bytes[1]>>, 1, 1, "ascii")
        [] n > 1 /\ BelongToFirst(bytes) = n ->
             Token(n, SubSeq(bytes, 1, n), IF n = 4 THEN 2 ELSE 1, 1,
                   IF n = 4 THEN "pair" ELSE "bmp")
        [] OTHER -> Replaced(1)

HighSurrogate(u) == u \in 55296..56319
LowSurrogate(u) == u \in 56320..57343

Utf8Of(scalar) ==
  LET Tail6(n) == 128 + ((scalar \div n) % 64)
  IN  CASE scalar < 128 -> <<scalar>>
        [] scalar \in 128..2047 -> <<192 + scalar \div 64, Tail6(1)>>
        [] scalar \in 2048..65535 ->
             <<224 + scalar \div 4096, Tail6(64), Tail6(1)>>
        [] OTHER ->
             <<240 + scalar \div 262144, Tail6(4096), Tail6(64), Tail6(1)>>

Utf16Token(bytes, enc) ==
  LET u == Unit(bytes, 1, enc)
      next == IF Len(bytes) < 4 THEN 0 ELSE Unit(bytes, 3, enc)
      scalar == 65536 + 1024 * (u - 55296) + (next - 56320)
  IN  IF Len(bytes) = 1 THEN Replaced(1)
      ELSE CASE u < 128 -> Token(2, <<u>>, 1, 1, "ascii")
             [] HighSurrogate(u) /\ LowSurrogate(next) ->
                  Token(4, Utf8Of(scalar), 2, 1, "pair")
             [] (HighSurrogate(u) /\ ~LowSurrogate(next)) \/ LowSurrogate(u) ->
                  Replaced(2)
             [] OTHER -> Token(2, Utf8Of(u), 1, 1, "bmp")

\* build_escaped: a byte of an unsupported encoding is shown as \xHH.
Escape(b) == Token(1, <<92, 120, b \div 16, b % 16>>, 4, 4, "escaped")

FirstToken(bytes, enc) ==
  CASE IsUtf16(enc) -> Utf16Token(bytes, enc)
    [] enc = "unsupported" -> Escape(bytes[1])
    [] OTHER -> Utf8Token(bytes)

-----------------------------------------------------------------------------
(* Maps.                                                                   *)

SpanEnd(span) == Plus(span.start, span.len)

Extended(map, token) ==
  LET last == map.spans[Len(map.spans)]
      joins == map.spans # <<>> /\ token.kind = "ascii" /\ last.kind = "ascii"
  IN  [map EXCEPT
        !.end = Plus(@, token.len),
        !.text = IF token.text = <<>> THEN @ ELSE Append(@, token.text),
        !.spans = IF joins
                  THEN [@ EXCEPT ![Len(@)].len = Plus(@, token.len)]
                  ELSE Append(@, [start |-> map.end, len |-> token.len,
                                  kind |-> token.kind])]

\* One token more, of bytes that begin at an offset.
NextToken(map, bytes, from) ==
  LET rest == Rest(bytes, map.end.raw - from)
  IN  IF rest = <<>> THEN map ELSE Extended(map, FirstToken(rest, map.encoding))

BuildFrom(map, bytes) ==
  LET after[n \in 0..Len(bytes)] ==
        IF n = 0 THEN map ELSE NextToken(after[n - 1], bytes, map.end.raw)
  IN  after[Len(bytes)]

\* Mutant: a mark is dropped wherever a window starts with one.
HasHeaderAnywhere(bytes, enc, base) ==
  Mark(enc) # <<>> /\ StartsWith(bytes, Mark(enc))

\* A mark is a header only at the first byte of the capture.
HasHeader(bytes, enc, base) ==
  Mark(enc) # <<>> /\ base.raw = 0 /\ StartsWith(bytes, Mark(enc))

Build(bytes, enc, base) ==
  LET empty == [encoding |-> enc, base |-> base, end |-> base,
                text |-> <<>>, spans |-> <<>>]
      header == [len |-> At(Len(Mark(enc)), 0, 0, 0), text |-> <<>>, kind |-> "bom"]
  IN  IF HasHeader(bytes, enc, base)
      THEN BuildFrom(Extended(empty, header), Rest(bytes, Len(Mark(enc))))
      ELSE BuildFrom(empty, bytes)

IsMalformed(map) ==
  \E i \in DOMAIN map.spans : map.spans[i].kind = "malformed"

-----------------------------------------------------------------------------
(* Offsets.                                                                *)

Rejected == -1

\* The last span that starts at or before an offset.
FindSpan(map, d, offset) ==
  map.spans[Cardinality({i \in DOMAIN map.spans : map.spans[i].start[d] <= offset})]

\* Mutant: offsets inside a run of ASCII are scaled as in UTF-8.
ScaleOne(map) == 1

\* Original bytes of one ASCII character.
Scale(map) == IF IsUtf16(map.encoding) THEN 2 ELSE 1

\* decoded_utf8_to_byte_offset, utf16_to_byte_offset, scalar_to_byte_offset.
ToRaw(map, d, offset) ==
  LET span == FindSpan(map, d, offset)
  IN  CASE offset \notin map.base[d]..map.end[d] -> Rejected
        [] offset = map.end[d] -> map.end.raw
        [] OTHER ->
             CASE span.kind = "ascii" ->
                    span.start.raw + (offset - span.start[d]) * Scale(map)
               [] span.kind = "bom" -> SpanEnd(span).raw
               [] span.kind \notin {"ascii", "bom"} /\ offset = span.start[d] ->
                    span.start.raw
               [] span.kind = "escaped" /\ d = "sca" /\ offset # span.start[d] ->
                    SpanEnd(span).raw
               [] OTHER -> Rejected

\* byte_to_decoded_utf8_offset, byte_to_utf16_offset, byte_to_scalar_index.
FromRaw(map, d, raw) ==
  LET span == FindSpan(map, "raw", raw)
      delta == raw - span.start.raw
  IN  CASE raw \notin map.base.raw..map.end.raw -> Rejected
        [] raw = map.end.raw -> map.end[d]
        [] OTHER ->
             CASE span.kind = "bom" -> span.start[d]
               [] span.kind = "ascii" /\ delta % Scale(map) = 0 ->
                    span.start[d] + delta \div Scale(map)
               [] span.kind \notin {"ascii", "bom"} /\ delta = 0 -> span.start[d]
               [] OTHER -> Rejected

-----------------------------------------------------------------------------
(* Where a window may be cut.                                              *)

\* Mutant: a complete high surrogate is decoded without its other half.
Utf16HeldBackOdd(bytes, enc) == Len(bytes) % 2

\* Half a unit, and a high surrogate whose other half is still to come.
Utf16HeldBack(bytes, enc) ==
  LET odd == Len(bytes) % 2
      complete == Len(bytes) - odd
  IN  IF complete >= 2 /\ HighSurrogate(Unit(bytes, complete - 1, enc))
      THEN odd + 2 ELSE odd

\* find_trailing_utf8_split: an unfinished character, valid so far or not.
Utf8HeldBack(bytes) ==
  LET n == IF Len(bytes) < 4 THEN Len(bytes) ELSE 4
      leads == {i \in 1..n : ~Continues(bytes[Len(bytes) - i + 1])}
      i == CHOOSE i \in leads : \A j \in leads : i <= j
  IN  IF leads # {} /\ i < Needed(bytes[Len(bytes) - i + 1]) THEN i ELSE 0

HeldBack(bytes, enc) ==
  CASE IsUtf16(enc) -> Utf16HeldBack(bytes, enc)
    [] enc = "unsupported" -> 0
    [] OTHER -> Utf8HeldBack(bytes)

NextValid(bytes, from) ==
  IF from = Len(bytes) \/ Utf8Token(Rest(bytes, from)).kind = "malformed" THEN from
  ELSE from + Utf8Token(Rest(bytes, from)).len.raw

ValidUpTo(bytes) ==
  LET after[n \in 0..Len(bytes)] == IF n = 0 THEN 0 ELSE NextValid(bytes, after[n - 1])
  IN  after[Len(bytes)]

\* A character that is valid as far as it goes.
IsBegun(tail) ==
  tail # <<>> /\ Needed(tail[1]) > Len(tail) /\ BelongToFirst(tail) = Len(tail)

\* complete_prefix of the two text scans: everything but a character that is
\* valid as far as it goes and ends with the window.
Utf8Prefix(bytes, valid) == IF IsBegun(Rest(bytes, valid)) THEN valid ELSE Len(bytes)

CompletePrefix(bytes, enc) ==
  IF IsUtf16(enc)
  THEN Len(bytes) - (Len(bytes) % 2) - (IF Utf16HeldBack(bytes, enc) >= 2 THEN 2 ELSE 0)
  ELSE Utf8Prefix(bytes, ValidUpTo(bytes))

-----------------------------------------------------------------------------
(* Reference: a character is whatever its scalar encodes to.               *)

\* The bits behind a leading byte's, whatever the bytes are.
ScalarOf(bytes) ==
  LET Bits[i \in 1..Len(bytes)] ==
        IF i = 1 THEN bytes[1] % (IF Len(bytes) = 1 THEN 256 ELSE 2^(7 - Len(bytes)))
                 ELSE Bits[i - 1] * 64 + (bytes[i] % 64)
  IN  Bits[Len(bytes)]

IsScalar(v) == v \in 0..1114111 /\ ~HighSurrogate(v) /\ ~LowSurrogate(v)

IsUtf8Char(bytes) == IsScalar(ScalarOf(bytes)) /\ Utf8Of(ScalarOf(bytes)) = bytes

UnitsOf(scalar) ==
  IF scalar < 65536 THEN <<scalar>>
  ELSE <<55296 + (scalar - 65536) \div 1024, 56320 + ((scalar - 65536) % 1024)>>

\* The scalars whose UTF-16 the bytes are: none, or one.
Utf16Chars(bytes, enc) ==
  LET units == [i \in 1..(Len(bytes) \div 2) |-> Unit(bytes, 2 * i - 1, enc)]
      guess == IF Len(units) = 1 THEN units[1]
               ELSE 65536 + 1024 * (units[1] - 55296) + units[2] - 56320
  IN  {v \in {guess} : IsScalar(v) /\ UnitsOf(v) = units}

\* The texts of the characters that the first n bytes are: none, or one.
WholeChars(bytes, n, enc) ==
  IF IsUtf16(enc) THEN {Utf8Of(v) : v \in Utf16Chars(SubSeq(bytes, 1, n), enc)}
  ELSE {text \in {SubSeq(bytes, 1, n)} : IsUtf8Char(text)}

RefLengths(bytes, enc) ==
  {n \in (IF IsUtf16(enc) THEN {2, 4} ELSE 1..4) :
     n <= Len(bytes) /\ WholeChars(bytes, n, enc) # {}}

RefChar(text, valid, n, position) ==
  [text |-> text, valid |-> valid, from |-> position,
   to |-> Plus(position, At(n, Len(text), IF Len(text) = 4 THEN 2 ELSE 1, 1))]

\* What no character begins with is replaced, a byte or a unit at a time.
RefFirst(bytes, enc, position, lengths) ==
  LET n == CHOOSE k \in lengths : TRUE
      wasted == IF IsUtf16(enc) /\ Len(bytes) > 1 THEN 2 ELSE 1
  IN  IF lengths = {} THEN RefChar(<<239, 191, 189>>, FALSE, wasted, position)
      ELSE RefChar(CHOOSE t \in WholeChars(bytes, n, enc) : TRUE, TRUE, n, position)

RefNext(chars, bytes, enc, position) ==
  LET at == IF chars = <<>> THEN position ELSE chars[Len(chars)].to
      rest == Rest(bytes, at.raw - position.raw)
  IN  IF rest = <<>> THEN chars
      ELSE Append(chars, RefFirst(rest, enc, at, RefLengths(rest, enc)))

RefFrom(bytes, enc, position) ==
  LET after[n \in 0..Len(bytes)] ==
        IF n = 0 THEN <<>> ELSE RefNext(after[n - 1], bytes, enc, position)
  IN  after[Len(bytes)]

RefHeader(bytes, enc) ==
  IF StartsWith(bytes, Mark(enc)) THEN Len(Mark(enc)) ELSE 0

\* The characters of a file, with where each begins and ends.
RefDecode(bytes, enc) ==
  RefFrom(Rest(bytes, RefHeader(bytes, enc)), enc,
          At(RefHeader(bytes, enc), 0, 0, 0))

\* Every byte escaped.
RefEscapes(bytes, raw) ==
  [i \in DOMAIN bytes |->
     [text |-> <<92, 120, bytes[i] \div 16, bytes[i] % 16>>, valid |-> FALSE,
      from |-> At(raw + i - 1, 4 * (i - 1), 4 * (i - 1), 4 * (i - 1)),
      to |-> At(raw + i, 4 * i, 4 * i, 4 * i)]]
=============================================================================
