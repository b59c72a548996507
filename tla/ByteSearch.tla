----------------------------- MODULE ByteSearch -----------------------------
(***************************************************************************)
(* ByteSearchCursor (crates/fcb-search/src/stream.rs) and the transformed  *)
(* cursor beside it (normalized.rs): overlapping literal matching that can *)
(* be suspended after any byte.  A needle is a sequence of bytes, or of    *)
(* folded characters.                                                      *)
(***************************************************************************)
EXTENDS Integers, Sequences

\* Back through the table to what the next byte goes on with, or to nothing.
Fallback(needle, table, matched, b) ==
  LET to[m \in 0..matched] == IF m = 0 \/ needle[m + 1] = b THEN m ELSE to[table[m]]
  IN  to[matched]

\* How much of the needle ends at b; all of it is an occurrence.
Matching(needle, table, matched, b) ==
  LET m == Fallback(needle, table, matched, b)
  IN  IF needle[m + 1] = b THEN m + 1 ELSE m

\* Mutant: a hit does not overlap the next.
FailureNone(needle) == [n \in 1..Len(needle) |-> 0]

\* The table is made by searching the needle in itself.
Failure(needle) ==
  LET table[n \in 1..Len(needle)] ==
        IF n = 1 THEN 0 ELSE Matching(needle, table, table[n - 1], needle[n])
  IN  table

Carried(needle, table, matched) ==
  IF matched = Len(needle) THEN table[matched] ELSE matched

\* A cursor counts what it scanned; hits are the offsets at which one ends.
NewCursor == [matched |-> 0, scanned |-> 0]

StepByte(needle, table, batch, b, hitLimit) ==
  LET m == Matching(needle, table, batch.cursor.matched, b)
      scanned == batch.cursor.scanned + 1
  IN  IF Len(batch.hits) = hitLimit THEN batch
      ELSE [cursor |-> [matched |-> Carried(needle, table, m), scanned |-> scanned],
            consumed |-> batch.consumed + 1,
            hits |-> IF m = Len(needle) THEN Append(batch.hits, scanned) ELSE batch.hits]

\* step: at most work bytes, and no further than the last hit allowed.
CursorStep(needle, cursor, input, work, hitLimit) ==
  LET size == IF work < Len(input) THEN work ELSE Len(input)
      table == Failure(needle)
      after[n \in 0..size] ==
        IF n = 0 THEN [cursor |-> cursor, consumed |-> 0, hits |-> <<>>]
        ELSE StepByte(needle, table, after[n - 1], input[n], hitLimit)
  IN  after[size]

\* break_match_continuity
Broken(cursor) == [cursor EXCEPT !.matched = 0]
=============================================================================
