------------------------------ MODULE MCContent -------------------------------
(***************************************************************************)
(* The text of files on small instances: decoded in chunks, searched in    *)
(* chunks, searched while it is read, and found by its lines, in a         *)
(* capture's index, a reader's checkpoints and a named file.  The subjects *)
(* share no state, so a behaviour is one of a single subject while the     *)
(* others rest: the state spaces add up instead of multiplying.            *)
(***************************************************************************)
EXTENDS ChunkDecoder, TextScan, ReaderSearch, LineIndex, ReaderLines,
        LineReading

CONSTANT Subjects     \* the subjects of a run

VARIABLE subject

-----------------------------------------------------------------------------
(* Texts, in pieces.                                                       *)

CapitalA == <<65>>
SmallA == <<97>>
SmallS == <<115>>
AAcute == <<195, 161>>
Euro == <<226, 130, 172>>
Grin == <<240, 159, 152, 128>>
Utf8Mark == <<239, 187, 191>>
LittleMark == <<255, 254>>
High == <<61, 216>>           \* the halves of Grin in UTF-16
Low == <<0, 222>>

\* Characters of every length, and what is none: a byte that begins nothing, a
\* character cut short, a surrogate.
Utf8Pieces == {SmallA, AAcute, Euro, Grin, Utf8Mark, <<255>>, <<226, 130>>,
               <<237, 160, 128>>}
LittlePieces == {<<97, 0>>, <<172, 32>>, High \o Low, LittleMark, High, Low}

UpTo3(pieces) ==
  pieces \cup {a \o b : a, b \in pieces} \cup {a \o b \o c : a, b, c \in pieces}

CutUnits == {a \o b \o <<97>> : a, b \in LittlePieces}

BigEndian(bytes) ==
  [i \in DOMAIN bytes |->
     CASE i % 2 = 0 -> bytes[i - 1]
       [] i % 2 = 1 /\ i < Len(bytes) -> bytes[i + 1]
       [] OTHER -> bytes[i]]

SmallLittle == LittlePieces \cup {a \o b : a, b \in LittlePieces} \cup CutUnits

In(enc, base, texts) ==
  {[bytes |-> b, encoding |-> enc, base |-> base] : b \in texts}

MixedFiles ==
  {[bytes |-> b, encoding |-> DetectEncoding(b), base |-> 0] : b \in UpTo3(Utf8Pieces)}
  \cup In("utf16le", 0, SmallLittle)
  \cup In("utf16be", 0, {BigEndian(b) : b \in SmallLittle})
  \cup In("utf8bom", 2, {Utf8Mark \o b : b \in Utf8Pieces})
  \cup In("utf16le", 2, {LittleMark \o b : b \in LittlePieces})
  \cup In("unsupported", 1, {SmallA \o b : b \in Utf8Pieces})

Aaaaa == SmallA \o SmallA \o SmallA \o SmallA \o SmallA

SearchedFiles ==
  {Aaaaa,
   CapitalA \o SmallA \o AAcute \o SmallA \o AAcute,
   SharpS \o SharpS \o SmallS,
   Utf8Mark \o SmallA \o AAcute \o SmallA \o SmallA,
   Grin \o SmallA \o Grin \o SmallA \o SmallA,
   SmallA \o SmallA \o <<255>> \o SmallA,
   SmallA \o SmallA \o SmallA \o SmallA \o <<195>>,
   LittleMark \o <<97, 0, 97, 0, 97, 0>> \o High \o Low \o <<97, 0>>,
   LittleMark \o <<97, 0>> \o High \o <<97, 0>>,
   LittleMark \o <<97, 0, 97, 0, 97>>}

SearchedTexts ==
  {[chars |-> <<SmallA, SmallA>>, mode |-> m] : m \in {"exact", "fold", "raw"}}
  \cup {[chars |-> <<SmallA, AAcute>>, mode |-> "exact"],
        [chars |-> <<SmallS, SmallS, SmallS>>, mode |-> "fold"],
        [chars |-> <<Grin, SmallA>>, mode |-> "exact"]}

\* A file as long as it was observed, one that lost its last bytes, and one
\* that has grown.
Observed(bytes) ==
  {[bytes |-> bytes, length |-> n] : n \in {Len(bytes) - 1, Len(bytes), Len(bytes) + 1}}

ReadFiles ==
  UNION {Observed(b) :
    b \in {Aaaaa,
           Utf8Mark \o SmallA \o AAcute \o SmallA,
           SmallA \o Grin \o SmallA,
           SmallA \o <<195>> \o SmallA,
           SmallA \o SmallA \o <<195>>,
           LittleMark \o <<97, 0>> \o High \o Low,
           BigEndian(LittleMark \o <<97, 0>> \o High \o Low),
           LittleMark \o <<97, 0>> \o High \o <<97, 0>>,
           <<97, 97, 0, 97, 97, 0>>}}
  \cup {[bytes |-> <<>>, length |-> n] : n \in {0, 1}}

Asked(chars, mode, enc, matches, bytes, calls) ==
  [chars |-> chars, mode |-> mode, encoding |-> enc, maxMatches |-> matches,
   maxBytes |-> bytes, maxCalls |-> calls]

Unlimited == 99

Requests ==
  {Asked(<<SmallA>> \o rest, "text", "unknown", n, Unlimited, 4) :
     rest \in {<<>>, <<SmallA>>, <<Grin>>, <<AAcute>>}, n \in {1, 9}}
  \cup {Asked(<<SmallA>>, "text", "unknown", 9, 3, 4),
        Asked(<<SmallA>>, "text", "utf16le", 9, Unlimited, 4),
        Asked(<<SmallA, SmallA>>, "raw", "unknown", 1, Unlimited, 4),
        Asked(<<SmallA, SmallA>>, "raw", "unknown", 9, Unlimited, 2)}

Steps == {[bytes |-> 9, hits |-> 9, calls |-> 2], [bytes |-> 2, hits |-> 1, calls |-> 1]}

-----------------------------------------------------------------------------
(* Lines.                                                                  *)

X == <<120>>
WideX == <<120, 0>>
WideCr == <<13, 0>>
WideLf == <<10, 0>>

RECURSIVE Words(_, _)
Words(parts, n) ==
  IF n = 0 THEN {<<>>}
  ELSE Words(parts, n - 1) \cup {p \o w : p \in parts, w \in Words(parts, n - 1)}

\* <<10, 10>> is a unit that holds the byte of an LF twice and is none.
WideWords == {w \o odd : w \in Words({WideX, WideCr, WideLf, <<10, 10>>}, 2),
                        odd \in {<<>>, <<10>>}}

LinedFiles ==
  {[bytes |-> w, encoding |-> "utf8"] : w \in Words({X, <<13>>, <<10>>}, 4)}
  \cup {[bytes |-> w, encoding |-> "utf16le"] : w \in WideWords}
  \cup {[bytes |-> BigEndian(w), encoding |-> "utf16be"] : w \in WideWords}

ChunkTexts == {X, <<13>>, <<10>>, <<120, 13>>, <<10, 120>>, <<13, 10>>, <<10, 13>>}

ChunkedCaptures ==
  {<<>>} \cup {<<a>> : a \in ChunkTexts} \cup {<<a, b>> : a, b \in ChunkTexts}
  \cup {<<a, b, c>> : a \in {<<13>>, <<120, 13>>}, b \in {<<10>>, <<10, 13>>},
                     c \in ChunkTexts}

CapturePairs == {<<c, <<X, X>>>> : c \in ChunkedCaptures}

FilesToRead ==
  {<<>>, X, <<10, 120>>, <<120, 13>>, <<13, 10, 120>>, <<10, 13, 10, 10, 120, 120>>,
   <<120, 120, 120, 13, 10, 120, 120, 120, 13, 120, 120, 120, 120, 120>>,
   Utf8Mark \o <<10, 120, 120, 120, 120, 13>>,
   LittleMark \o <<10>>,
   LittleMark \o WideX \o WideX \o WideLf \o WideX \o WideX \o <<10>>,
   LittleMark \o WideX \o WideX \o WideCr \o WideLf \o WideX \o WideCr \o WideX}

LinesWanted ==
  {[first |-> f, count |-> c, maxBytes |-> m, maxScan |-> s, encoding |-> "auto"] :
     f \in 1..3, c \in 1..2, m \in {3, 20}, s \in {0, 6, Unlimited}}
  \cup {[first |-> f, count |-> 1, maxBytes |-> 20, maxScan |-> Unlimited, encoding |-> e] :
          f \in 1..3, e \in {"utf8", "utf16be", "utf16le"}}

\* Text is decoded and found alike wherever it is cut.  A subject at rest keeps
\* what it began with, so this is asked of the subject that moves.
TextIsExact ==
  /\ subject = "decoder" => DecodingIsSeamless
  /\ subject = "scan" => ScanIsExact
  /\ subject = "reader" => ReaderIsExact

-----------------------------------------------------------------------------
lineVars == <<indexVars, linesVars, namedVars>>
contentVars ==
  <<subject, decoderVars, scanVars, readerVars, lineVars>>

\* A subject at rest begins with one input, a file that is read to its end.
ContentInit ==
  /\ subject \in Subjects
  /\ subject # "decoder" => file = CHOOSE f \in MixedFiles : TRUE
  /\ subject # "scan" =>
       /\ scanned = Aaaaa
       /\ query = [chars |-> <<Grin, SmallA>>, mode |-> "exact",
                   needle |-> Grin \o SmallA, crossChunk |-> FALSE,
                   maxMatches |-> 1, maxBytes |-> Len(Aaaaa)]
  /\ subject # "reader" =>
       /\ input = [bytes |-> <<>>, length |-> 0]
       /\ request = Asked(<<SmallA>>, "text", "utf16le", 9, Unlimited, 4)
  /\ subject # "index" => captures = <<<<>>, <<X, X>>>>
  /\ subject # "lines" => lineFile = [bytes |-> <<>>, encoding |-> "utf8"]
  /\ subject # "named" =>
       /\ named = <<>>
       /\ wish = [first |-> 1, count |-> 1, maxBytes |-> 20, maxScan |-> 0,
                  encoding |-> "auto"]
  /\ DecoderInit /\ ScanInit /\ ReaderInit
  /\ IndexInit /\ ReaderLinesInit /\ LineReadingInit

ContentNext ==
  /\ UNCHANGED subject
  /\ \/ /\ subject = "decoder" /\ DecoderNext
        /\ UNCHANGED <<scanVars, readerVars, lineVars>>
     \/ /\ subject = "scan" /\ ScanNext
        /\ UNCHANGED <<decoderVars, readerVars, lineVars>>
     \/ /\ subject = "reader" /\ ReaderNext
        /\ UNCHANGED <<decoderVars, scanVars, lineVars>>
     \/ /\ UNCHANGED <<decoderVars, scanVars, readerVars>>
        /\ \/ subject = "index" /\ IndexNext /\ UNCHANGED <<linesVars, namedVars>>
           \/ subject = "lines" /\ ReaderLinesNext /\ UNCHANGED <<indexVars, namedVars>>
           \/ subject = "named" /\ LineReadingNext /\ UNCHANGED <<indexVars, linesVars>>

ContentSpec == ContentInit /\ [][ContentNext]_contentVars
=============================================================================
