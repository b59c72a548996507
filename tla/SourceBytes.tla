------------------------------ MODULE SourceBytes ------------------------------
(***************************************************************************)
(* The bytes of a source file before they are decoded: the encoding that   *)
(* its mark declares and the units of UTF-16                               *)
(* (crates/fcb-source/src/encoding.rs).                                    *)
(***************************************************************************)
EXTENDS Integers, Sequences

Rest(bytes, n) == SubSeq(bytes, n + 1, Len(bytes))

Flatten(seqs) ==
  LET joined[n \in 0..Len(seqs)] == IF n = 0 THEN <<>> ELSE joined[n - 1] \o seqs[n]
  IN  joined[Len(seqs)]

IsUtf16(enc) == enc \in {"utf16le", "utf16be"}

Mark(enc) == CASE enc = "utf8bom" -> <<239, 187, 191>>
               [] enc = "utf16le" -> <<255, 254>>
               [] enc = "utf16be" -> <<254, 255>>
               [] OTHER -> <<>>

StartsWith(bytes, prefix) ==
  Len(prefix) <= Len(bytes) /\ SubSeq(bytes, 1, Len(prefix)) = prefix

DetectEncoding(bytes) ==
  CASE StartsWith(bytes, Mark("utf8bom")) -> "utf8bom"
    [] StartsWith(bytes, Mark("utf16le")) -> "utf16le"
    [] StartsWith(bytes, Mark("utf16be")) -> "utf16be"
    [] OTHER -> "utf8"

\* A file's first bytes that may yet become a mark.
PartialMark(bytes) ==
  bytes \in {<<239>>, <<239, 187>>, <<255>>, <<254>>}

Unit(bytes, i, enc) == IF enc = "utf16le" THEN bytes[i] + 256 * bytes[i + 1]
                                          ELSE 256 * bytes[i] + bytes[i + 1]
================================================================================
