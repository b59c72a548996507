---------------------------- MODULE ChunkDecoder ----------------------------
(***************************************************************************)
(* StatefulChunkDecoder (crates/fcb-source/src/encoding.rs): a file is given *)
(* in chunks cut anywhere, and each call returns the map of the characters *)
(* it completed.  The maps together must be the map of the whole file.     *)
(* Offsets that pass 2^64 are refused by every call and left out.          *)
(***************************************************************************)
EXTENDS SourceEncoding

CONSTANTS
  DecodedFiles,       \* records of bytes, their encoding and where they begin
  MaxChunk            \* bound: bytes of one chunk

VARIABLES
  file,
  given,                \* bytes given to the decoder
  pendingBytes,       \* held back for the next chunk
  offsets,            \* current_raw_offset and its three companions
  decodedMap,         \* the map the last call returned
  decodedText,        \* history: the text of all maps
  corners,            \* history: the positions between characters of all maps
  finished

decoderVars == <<file, given, pendingBytes, offsets, decodedMap, decodedText,
                 corners, finished>>

\* with_raw_offset: only original bytes are counted from the file's beginning.
Start == At(file.base, 0, 0, 0)

\* The positions a map's spans say characters begin and end at.
Corners(map) ==
  UNION {LET span == map.spans[i]
             step == At(Scale(map), 1, 1, 1)
             Corner(k) == [d \in Domains |-> span.start[d] + k * step[d]]
         IN  IF span.kind = "ascii" THEN {Corner(k) : k \in 0..span.len.sca}
                                    ELSE {span.start, SpanEnd(span)}
         : i \in DOMAIN map.spans}

Returned(map) ==
  /\ decodedMap' = map
  /\ offsets' = map.end
  /\ decodedText' = decodedText \o map.text
  /\ corners' = corners \cup Corners(map)

DecodeChunk(n) ==
  LET buffer == pendingBytes \o SubSeq(file.bytes, given + 1, given + n)
      processed == Len(buffer) - HeldBack(buffer, file.encoding)
  IN  /\ ~finished
      /\ given + n <= Len(file.bytes)
      /\ Returned(Build(SubSeq(buffer, 1, processed), file.encoding, offsets))
      /\ pendingBytes' = Rest(buffer, processed)
      /\ given' = given + n
      /\ UNCHANGED <<file, finished>>

\* finish: what is still held back is malformed.
FinishDecoding ==
  /\ ~finished
  /\ given = Len(file.bytes)
  /\ Returned(Build(pendingBytes, file.encoding, offsets))
  /\ pendingBytes' = <<>>
  /\ finished' = TRUE
  /\ UNCHANGED <<file, given>>

DecoderInit ==
  /\ file \in DecodedFiles
  /\ given = 0
  /\ pendingBytes = <<>>
  /\ offsets = Start
  /\ decodedMap = Build(<<>>, file.encoding, Start)
  /\ decodedText = <<>>
  /\ corners = {Start}
  /\ finished = FALSE

DecoderNext == (\E n \in 1..MaxChunk : DecodeChunk(n)) \/ FinishDecoding

-----------------------------------------------------------------------------
(* Properties.                                                             *)

\* A mark is one at the first byte of a file only.
WholeHeader == IF file.base = 0 THEN RefHeader(file.bytes, file.encoding) ELSE 0

FileChars ==
  CASE file.encoding = "unsupported" -> RefEscapes(file.bytes, file.base)
    [] file.encoding # "unsupported" /\ file.base = 0 ->
         RefDecode(file.bytes, file.encoding)
    [] OTHER -> RefFrom(file.bytes, file.encoding, Start)

WholeCorners ==
  LET chars == FileChars
  IN  {Start, At(file.base + WholeHeader, 0, 0, 0)}
      \cup {chars[i].to : i \in DOMAIN chars}

WholeText == LET chars == FileChars IN [i \in DOMAIN chars |-> chars[i].text]

\* However a file is cut into chunks, in the middle of characters, surrogate
\* pairs or the byte order mark, the maps together decode it as one.
DecodesAsOne ==
  LET whole == WholeCorners
  IN  /\ corners = {c \in whole : c.raw <= offsets.raw}
      /\ offsets \in whole
      /\ offsets.raw + Len(pendingBytes) = file.base + given
      /\ StartsWith(WholeText, decodedText)
      /\ finished => decodedText = WholeText

\* In every map an offset between characters is translated to the original
\* byte and back, and one inside a character is refused, in each domain.  The
\* offset of a header's text is that of the text behind it; the scalars inside
\* an escape are taken for its end.
OffsetsTranslate ==
  LET map == decodedMap
      known == {c \in corners : c.raw >= map.base.raw}
      AtOffset(d, offset) == {c \in known : c[d] = offset}
      Last(cs) == CHOOSE c \in cs : \A e \in cs : e.raw <= c.raw
      Following(d, offset) == {c \in known : c[d] = offset + ((-offset) % 4)}
      InHeader(raw) == map.base.raw = 0 /\ raw < WholeHeader
  IN  \A d \in Domains \ {"raw"} :
        /\ \A offset \in map.base[d]..map.end[d] :
             ToRaw(map, d, offset) =
               CASE AtOffset(d, offset) # {} -> Last(AtOffset(d, offset)).raw
                 [] AtOffset(d, offset) = {} /\ d = "sca" ->
                      Last(Following(d, offset)).raw
                 [] OTHER -> Rejected
        /\ \A raw \in map.base.raw..map.end.raw :
             FromRaw(map, d, raw) =
               CASE AtOffset("raw", raw) # {} -> Last(AtOffset("raw", raw))[d]
                 [] AtOffset("raw", raw) = {} /\ InHeader(raw) -> 0
                 [] OTHER -> Rejected

DecodingIsSeamless == DecodesAsOne /\ OffsetsTranslate
=============================================================================
