----------------------------- MODULE LineProofs -----------------------------
(***************************************************************************)
(* What is proved of the line windows, of two of their users and of the    *)
(* line index, for every file and every way of cutting it.  A window that  *)
(* saw a part of a file knows the lines that part begins and ends: that is *)
(* proved of one unit, of one byte and, the places where it fails having a *)
(* least one, of any number of bytes.  A reader's checkpoints are such     *)
(* windows.  A reading of a named file is one too, with the bytes it       *)
(* retained.  The scanner of a line index is followed in the same way.     *)
(***************************************************************************)
EXTENDS LineIndex, ReaderLines, LineReading, TLAPS, FiniteSetTheorems, SequenceTheorems,
        WellFoundedInduction

Bytes == 0 .. 255
TextEncodings == {"utf8", "utf8bom", "utf16le", "utf16be"}

LEMMA LeastNumber ==
  ASSUME NEW S \in SUBSET Nat, S # {}
  PROVE  \E m \in S : \A n \in S : m <= n
<1> DEFINE less == {ss \in Nat \X Nat : ss[1] < ss[2]}
<1>1. IsWellFoundedOn(less, Nat)
  BY NatLessThanWellFounded, Zenon DEF OpToRel
<1>2. PICK m \in S : \A n \in S : <<n, m>> \notin less
  <2> HIDE DEF less
  <2>1. QED BY <1>1, WFMin
<1>3. ASSUME NEW n \in S, ~(m <= n) PROVE FALSE
  <2>1. <<n, m>> \in less
    BY <1>3
  <2>2. QED BY <1>2, <2>1
<1>4. QED BY <1>2, <1>3

\* A run over the bytes exists, whatever they are.
LEMMA WindowRun ==
  ASSUME NEW w, NEW bytes \in Seq(Bytes)
  PROVE  \E after :
           /\ after[0] = w
           /\ \A n \in 1 .. Len(bytes) : after[n] = Taken(after[n - 1], bytes[n])
           /\ StepWindow(w, bytes) = after[Len(bytes)]
<1> DEFINE Runs(f, k) ==
             f = [n \in 0 .. k |-> IF n = 0 THEN w ELSE Taken(f[n - 1], bytes[n])]
           bad == {k \in 0 .. Len(bytes) : ~ \E f : Runs(f, k)}
<1>1. Len(bytes) \in Nat
  BY LenProperties
<1>2. bad = {}
  <2>1. SUFFICES ASSUME bad # {} PROVE FALSE
    OBVIOUS
  <2>2. PICK k \in bad : \A j \in bad : k <= j
    <3>1. bad \in SUBSET Nat
      BY <1>1
    <3> HIDE DEF bad
    <3>2. QED BY <2>1, <3>1, LeastNumber
  <2>3. k \in 0 .. Len(bytes) /\ ~ \E f : Runs(f, k)
    OBVIOUS
  <2>4. CASE k = 0
    <3>1. Runs([n \in 0 .. 0 |-> w], 0)
      OBVIOUS
    <3>2. QED BY <2>3, <2>4, <3>1
  <2>5. CASE k # 0
    <3>1. k - 1 \in 0 .. Len(bytes) /\ ~(k <= k - 1)
      BY <1>1, <2>3, <2>5
    <3>2. PICK f : Runs(f, k - 1)
      BY <2>2, <3>1
    <3> DEFINE g == [n \in 0 .. k |->
                       IF n = 0 THEN w ELSE Taken(f[n - 1], bytes[n])]
    <3>3. \A n \in 0 .. (k - 1) : g[n] = f[n]
      BY <1>1, <2>3, <3>1, <3>2
    <3>4. ASSUME NEW n \in 0 .. k, n # 0 PROVE g[n - 1] = f[n - 1]
      <4>1. n - 1 \in 0 .. (k - 1)
        BY <1>1, <2>3, <3>4
      <4> HIDE DEF g
      <4>2. QED BY <3>3, <4>1
    <3>5. Runs(g, k)
      BY <3>4
    <3>6. QED BY <2>3, <3>5
  <2>6. QED BY <2>4, <2>5
<1>3. PICK f : Runs(f, Len(bytes))
  BY <1>1, <1>2
<1> DEFINE after == CHOOSE g : Runs(g, Len(bytes))
<1>4. Runs(after, Len(bytes))
  BY <1>3
<1>5. StepWindow(w, bytes) = after[Len(bytes)]
  BY DEF StepWindow
<1> HIDE DEF after
<1>6. QED BY <1>1, <1>4, <1>5

-----------------------------------------------------------------------------
(* Ends of lines, counted.                                                 *)

Upto(E, p) == Cardinality({e \in E : e <= p})

LEMMA UnitSizes ==
  ASSUME NEW enc \in TextEncodings
  PROVE  UnitSize(enc) \in {1, 2} /\ (UnitSize(enc) = 2 <=> IsUtf16(enc))
BY DEF UnitSize

LEMMA EndsAreFinite ==
  ASSUME NEW bytes \in Seq(Bytes), NEW enc \in TextEncodings
  PROVE  /\ LineEnds(bytes, enc) \subseteq 1 .. Len(bytes)
         /\ IsFiniteSet(LineEnds(bytes, enc))
         /\ Len(bytes) > 0 => Len(bytes) \in LineEnds(bytes, enc)
<1>1. Len(bytes) \in Nat /\ (Len(bytes) = 0 <=> bytes = <<>>)
  BY EmptySeq, LenProperties
<1>2. UnitSize(enc) \in {1, 2}
  BY UnitSizes
<1>3. ASSUME NEW e \in LineEnds(bytes, enc) PROVE e \in 1 .. Len(bytes)
  <2>1. CASE bytes # <<>> /\ e = Len(bytes)
    BY <1>1, <2>1
  <2>2. CASE ~(bytes # <<>> /\ e = Len(bytes))
    <3>1. PICK k \in UnitsAt(bytes, enc) :
            e = k + UnitSize(enc) /\ UnitAt(bytes, k, enc) \in {LF, CR}
      BY <1>3, <2>2 DEF LineEnds
    <3>2. k \in 0 .. (Len(bytes) - 1)
      BY DEF UnitsAt
    <3>3. UnitSize(enc) = 2 => k + 2 <= Len(bytes)
      BY <1>1, <3>1, <3>2 DEF UnitAt, UnitSize, LF, CR
    <3>4. QED BY <1>1, <1>2, <3>1, <3>2, <3>3
  <2>3. QED BY <2>1, <2>2
<1>4. IsFiniteSet(1 .. Len(bytes))
  BY <1>1, FS_Interval
<1>5. QED BY <1>1, <1>3, <1>4, FS_Subset DEF LineEnds

\* Lines end where units do, or with the file.
LEMMA EndsOfUnits ==
  ASSUME NEW bytes \in Seq(Bytes), NEW enc \in TextEncodings,
         NEW p \in 1 .. (Len(bytes) - 1)
  PROVE  p \in LineEnds(bytes, enc) <=>
           LET before == UnitAt(bytes, p - UnitSize(enc), enc)
           IN  /\ p % UnitSize(enc) = 0
               /\ before = LF \/ (before = CR /\ UnitAt(bytes, p, enc) # LF)
<1> DEFINE size == UnitSize(enc)
<1>1. Len(bytes) \in Nat /\ size \in {1, 2} /\ p \in Nat /\ p # Len(bytes)
  BY LenProperties, UnitSizes
<1>2. ASSUME NEW k \in Nat, p = k + size
      PROVE  k = p - size /\ (k % size = 0 <=> p % size = 0) /\ k \in 0 .. (Len(bytes) - 1)
  BY <1>1, <1>2
<1>3. p % size = 0 <=> p \in UnitsAt(bytes, enc)
  BY <1>1 DEF UnitsAt
<1>4. ASSUME p \in LineEnds(bytes, enc)
      PROVE  LET before == UnitAt(bytes, p - size, enc)
             IN  /\ p % size = 0
                 /\ before = LF \/ (before = CR /\ UnitAt(bytes, p, enc) # LF)
  <2>1. PICK k \in UnitsAt(bytes, enc) :
          /\ p = k + size
          /\ \/ UnitAt(bytes, k, enc) = LF
             \/ /\ UnitAt(bytes, k, enc) = CR
                /\ ~(p \in UnitsAt(bytes, enc) /\ UnitAt(bytes, p, enc) = LF)
    BY <1>1, <1>4 DEF LineEnds
  <2>2. k \in Nat /\ k % size = 0
    BY <1>1 DEF UnitsAt
  <2>3. QED BY <1>2, <1>3, <2>1, <2>2
<1>5. ASSUME p % size = 0,
             LET before == UnitAt(bytes, p - size, enc)
             IN  before = LF \/ (before = CR /\ UnitAt(bytes, p, enc) # LF)
      PROVE  p \in LineEnds(bytes, enc)
  <2>1. PICK k : k = p - size
    OBVIOUS
  <2>2. k \in Nat /\ p = k + size
    BY <1>1, <1>5, <2>1
  <2>3. k \in UnitsAt(bytes, enc)
    BY <1>2, <1>5, <2>2 DEF UnitsAt
  <2>4. QED BY <1>3, <1>5, <2>1, <2>2, <2>3 DEF LineEnds
<1>6. QED BY <1>4, <1>5

LEMMA UptoStep ==
  ASSUME NEW E \in SUBSET Nat, IsFiniteSet(E), NEW p \in Nat
  PROVE  /\ Upto(E, p) \in Nat
         /\ p > 0 => Upto(E, p) = Upto(E, p - 1) + (IF p \in E THEN 1 ELSE 0)
<1>0. \A e \in E : e <= p - 1 <=> e <= p /\ e # p
  <2>1. ASSUME NEW e \in E PROVE e <= p - 1 <=> e <= p /\ e # p
    <3>1. e \in Nat
      BY <2>1
    <3>2. QED BY <3>1
  <2>2. QED BY <2>1
<1>1. IsFiniteSet({e \in E : e <= p}) /\ IsFiniteSet({e \in E : e <= p - 1})
  BY FS_Subset
<1>2. Upto(E, p) \in Nat /\ Upto(E, p - 1) \in Nat
  BY <1>1, FS_CardinalityType DEF Upto
<1>3. CASE p > 0 /\ p \in E
  <2>1. {e \in E : e <= p} = {e \in E : e <= p - 1} \cup {p} /\ p \notin {e \in E : e <= p - 1}
    <3>1. p <= p
      OBVIOUS
    <3>2. QED BY <1>0, <1>3, <3>1, Zenon
  <2>2. QED BY <1>1, <1>2, <1>3, <2>1, FS_AddElement DEF Upto
<1>4. CASE p > 0 /\ p \notin E
  <2>1. {e \in E : e <= p} = {e \in E : e <= p - 1}
    BY <1>0, <1>4, Zenon
  <2>2. QED BY <1>2, <1>4, <2>1 DEF Upto
<1>5. QED BY <1>2, <1>3, <1>4

LEMMA UptoGrows ==
  ASSUME NEW E \in SUBSET Nat, IsFiniteSet(E), NEW p \in Int, NEW q \in Int, p <= q
  PROVE  Upto(E, p) \in Nat /\ Upto(E, q) \in Nat /\ Upto(E, p) <= Upto(E, q)
<1>1. IsFiniteSet({e \in E : e <= p}) /\ IsFiniteSet({e \in E : e <= q})
  BY FS_Subset
<1>2. {e \in E : e <= p} \subseteq {e \in E : e <= q}
  <2>1. ASSUME NEW e \in E, e <= p PROVE e <= q
    <3>1. e \in Nat
      BY <2>1
    <3>2. QED BY <2>1, <3>1
  <2>2. QED BY <2>1
<1>3. QED BY <1>1, <1>2, FS_Subset, FS_CardinalityType DEF Upto

\* The line that ends somewhere is the one as many lines have ended by.
LEMMA EndOfLine ==
  ASSUME NEW bytes \in Seq(Bytes), NEW enc \in TextEncodings,
         NEW e \in LineEnds(bytes, enc)
  PROVE  LineEnd(bytes, enc, Upto(LineEnds(bytes, enc), e)) = e
<1> DEFINE E == LineEnds(bytes, enc)
<1>1. E \in SUBSET Nat /\ IsFiniteSet(E)
  BY EndsAreFinite, LenProperties
<1>2. ASSUME NEW a \in E, NEW b \in E, a < b PROVE Upto(E, a) < Upto(E, b)
  <2>1. a \in Nat /\ b \in Nat /\ b > 0 /\ b - 1 \in Int /\ a <= b - 1
    BY <1>1, <1>2
  <2>2. Upto(E, b) = Upto(E, b - 1) + 1
    <3> HIDE DEF E
    <3>1. QED BY <1>1, <1>2, <2>1, UptoStep
  <2>3. Upto(E, a) \in Nat /\ Upto(E, b - 1) \in Nat /\ Upto(E, a) <= Upto(E, b - 1)
    <3> HIDE DEF E
    <3>1. QED BY <1>1, <2>1, UptoGrows
  <2>4. QED BY <2>2, <2>3
<1>3. \A a \in E : Upto(E, a) = Upto(E, e) => a = e
  <2> HIDE DEF E
  <2>1. SUFFICES ASSUME NEW a \in E, Upto(E, a) = Upto(E, e), a # e PROVE FALSE
    OBVIOUS
  <2>2. e \in E
    BY DEF E
  <2>3. a \in Nat /\ e \in Nat
    BY <1>1, <2>2
  <2>4. Upto(E, a) \in Nat /\ Upto(E, e) \in Nat
    BY <1>1, <2>3, UptoStep
  <2>5. QED BY <1>2, <2>1, <2>2, <2>3, <2>4
<1>4. LineEnd(bytes, enc, Upto(E, e)) = CHOOSE a \in E : Upto(E, a) = Upto(E, e)
  BY DEF LineEnd, Upto
<1>5. QED BY <1>3, <1>4

-----------------------------------------------------------------------------
(* A window, one unit after another.                                       *)

Halves == Bytes \cup {Unset}

Windows ==
  [first : Nat, last : Nat, encoding : TextEncodings, offset : Nat, line : Nat,
   active : {TRUE, FALSE}, cr : {TRUE, FALSE}, half : Halves,
   from : Int, to : Int, finished : {TRUE, FALSE}, eof : {TRUE, FALSE}]

\* How many lines begin before p.
Begun(bytes, enc, p) == IF p = 0 THEN 0 ELSE 1 + Upto(LineEnds(bytes, enc), p - 1)

StartSeen(w, bytes) ==
  w.from = IF w.first <= w.line THEN LineStart(bytes, w.encoding, w.first) ELSE Unset

\* A window that goes on after the units before p.
FollowsUnits(w, bytes, p) ==
  LET before == UnitAt(bytes, p - UnitSize(w.encoding), w.encoding)
  IN  /\ p \in 0 .. Len(bytes) /\ p % UnitSize(w.encoding) = 0
      /\ w.cr <=> (p > 0 /\ before = CR)
      /\ w.active <=> (p > 0 /\ before \notin {CR, LF})
      /\ w.line = Begun(bytes, w.encoding, p)
      /\ StartSeen(w, bytes)
      /\ w.line <= w.last
      /\ w.line = w.last => w.active \/ w.cr

\* A window that has found its end.
FoundEnd(w, bytes) ==
  /\ w.line = w.last /\ StartSeen(w, bytes)
  /\ w.to = LineEnd(bytes, w.encoding, w.last)
  /\ w.last <= LineCount(bytes, w.encoding)

SameRequest(w, v) ==
  /\ v.first = w.first /\ v.last = w.last /\ v.encoding = w.encoding

LEMMA LinesBegun ==
  ASSUME NEW bytes \in Seq(Bytes), NEW enc \in TextEncodings,
         NEW p \in 0 .. (Len(bytes) - 1), p % UnitSize(enc) = 0
  PROVE  LET ends == LineEnds(bytes, enc)
             size == UnitSize(enc)
             before == UnitAt(bytes, p - size, enc)
             unit == UnitAt(bytes, p, enc)
         IN  /\ Upto(ends, p) \in Nat
             /\ 1 + Upto(ends, p) <= LineCount(bytes, enc)
             /\ p = 0 => 1 + Upto(ends, p) = 1
             /\ p > 0 => Begun(bytes, enc, p) > 0
             /\ p > 0 /\ (before = LF \/ (before = CR /\ unit # LF)) =>
                  /\ Upto(ends, p) = Begun(bytes, enc, p)
                  /\ LineEnd(bytes, enc, Upto(ends, p)) = p
             /\ p > 0 /\ ~(before = LF \/ (before = CR /\ unit # LF)) =>
                  1 + Upto(ends, p) = Begun(bytes, enc, p)
             /\ p + size <= Len(bytes) => Begun(bytes, enc, p + size) = 1 + Upto(ends, p)
             /\ p + size <= Len(bytes) /\ unit = LF =>
                  LineEnd(bytes, enc, 1 + Upto(ends, p)) = p + size
<1> DEFINE E == LineEnds(bytes, enc)
           size == UnitSize(enc)
           before == UnitAt(bytes, p - size, enc)
           unit == UnitAt(bytes, p, enc)
<1>1. Len(bytes) \in Nat /\ size \in {1, 2} /\ p \in Nat
  BY LenProperties, UnitSizes
<1>2. /\ E \in SUBSET Nat /\ IsFiniteSet(E) /\ E \subseteq 1 .. Len(bytes)
      /\ Len(bytes) \in E
  BY <1>1, EndsAreFinite
<1>3. 0 \notin E /\ \A e \in E : e <= Len(bytes) /\ ~(e <= 0)
  <2> HIDE DEF E
  <2>1. \A e \in E : e \in 1 .. Len(bytes)
    BY <1>2
  <2>2. QED BY <1>1, <2>1
<1>4. p > 0 => (p \in E <=> before = LF \/ (before = CR /\ unit # LF))
  BY <1>1, EndsOfUnits
<1>5. size = 2 => p + 1 \notin E \/ p + 1 = Len(bytes)
  <2>1. SUFFICES ASSUME size = 2, p + 1 \in E, p + 1 # Len(bytes) PROVE FALSE
    OBVIOUS
  <2>2. p + 1 \in 1 .. (Len(bytes) - 1)
    BY <1>1, <2>1
  <2>3. (p + 1) % size = 0
    BY <2>1, <2>2, EndsOfUnits
  <2>4. QED BY <1>1, <2>1, <2>3
<1>6. p + size <= Len(bytes) /\ unit = LF => p + size \in E
  <2>1. SUFFICES ASSUME p + size <= Len(bytes), unit = LF, p + size # Len(bytes)
                 PROVE  p + size \in E
    BY <1>2
  <2>2. PICK q : q = p + size
    OBVIOUS
  <2>3. q \in 1 .. (Len(bytes) - 1) /\ q - size = p /\ q % size = 0
    BY <1>1, <2>1, <2>2
  <2>4. QED BY <2>1, <2>2, <2>3, EndsOfUnits
<1> HIDE DEF E, size, before, unit
<1>7. /\ Upto(E, p) \in Nat /\ Upto(E, p + 1) \in Nat
      /\ p > 0 => Upto(E, p) = Upto(E, p - 1) + (IF p \in E THEN 1 ELSE 0)
      /\ Upto(E, p + 1) = Upto(E, p) + (IF p + 1 \in E THEN 1 ELSE 0)
      /\ Upto(E, p + 2) = Upto(E, p + 1) + (IF p + 2 \in E THEN 1 ELSE 0)
  <2>1. /\ p + 1 \in Nat /\ p + 1 > 0 /\ (p + 1) - 1 = p
        /\ p + 2 \in Nat /\ p + 2 > 0 /\ (p + 2) - 1 = p + 1
    BY <1>1
  <2>2. /\ Upto(E, p) \in Nat
        /\ p > 0 => Upto(E, p) = Upto(E, p - 1) + (IF p \in E THEN 1 ELSE 0)
    BY <1>1, <1>2, UptoStep
  <2>3. /\ Upto(E, p + 1) \in Nat
        /\ Upto(E, p + 1) = Upto(E, p) + (IF p + 1 \in E THEN 1 ELSE 0)
    <3>1. PICK q \in Nat : q = p + 1 /\ q > 0 /\ q - 1 = p
      BY <2>1
    <3>2. Upto(E, q) \in Nat /\ Upto(E, q) = Upto(E, q - 1) + (IF q \in E THEN 1 ELSE 0)
      BY <1>2, <3>1, UptoStep
    <3>3. QED BY <3>1, <3>2
  <2>4. Upto(E, p + 2) = Upto(E, p + 1) + (IF p + 2 \in E THEN 1 ELSE 0)
    <3>1. PICK q \in Nat : q = p + 2 /\ q > 0 /\ q - 1 = p + 1
      BY <2>1
    <3>2. Upto(E, q) = Upto(E, q - 1) + (IF q \in E THEN 1 ELSE 0)
      BY <1>2, <3>1, UptoStep
    <3>3. QED BY <3>1, <3>2
  <2>5. QED BY <2>2, <2>3, <2>4
<1>8. p > 0 => Upto(E, p - 1) \in Nat
  BY <1>1, <1>2, UptoStep
<1>9. 1 + Upto(E, p) <= LineCount(bytes, enc)
  <2>1. PICK n : n = Len(bytes)
    OBVIOUS
  <2>2. Upto(E, n) = Upto(E, n - 1) + 1 /\ Upto(E, n) \in Nat
    <3>1. n \in Nat /\ n > 0 /\ n \in E
      BY <1>1, <1>2, <2>1
    <3>2. QED BY <1>2, <3>1, UptoStep
  <2>3. n - 1 \in Int /\ p <= n - 1
    BY <1>1, <2>1
  <2>4. Upto(E, p) <= Upto(E, n - 1) /\ Upto(E, n - 1) \in Nat
    BY <1>1, <1>2, <2>3, UptoGrows
  <2>5. E = {e \in E : e <= n}
    BY <1>3, <2>1, Zenon
  <2>6. LineCount(bytes, enc) = Upto(E, n)
    BY <2>5 DEF LineCount, Upto, E
  <2>7. QED BY <1>7, <2>2, <2>4, <2>6
<1>10. p = 0 => Upto(E, p) = 0
  <2>1. SUFFICES ASSUME p = 0 PROVE Upto(E, p) = 0
    OBVIOUS
  <2>2. {e \in E : e <= p} = {}
    BY <1>3, <2>1, Zenon
  <2>3. QED BY <2>2, FS_EmptySet DEF Upto
<1>11. p + size <= Len(bytes) => Begun(bytes, enc, p + size) = 1 + Upto(E, p)
  <2>1. SUFFICES ASSUME p + size <= Len(bytes)
                 PROVE  Begun(bytes, enc, p + size) = 1 + Upto(E, p)
    OBVIOUS
  <2>2. Begun(bytes, enc, p + size) = 1 + Upto(E, p + size - 1)
    BY <1>1 DEF Begun, E
  <2>3. size = 2 => p + 1 # Len(bytes)
    BY <1>1, <2>1
  <2>4. QED BY <1>1, <1>5, <1>7, <2>2, <2>3
<1>12. p + size <= Len(bytes) /\ unit = LF => Upto(E, p + size) = 1 + Upto(E, p)
  <2>1. SUFFICES ASSUME p + size <= Len(bytes), unit = LF
                 PROVE  Upto(E, p + size) = 1 + Upto(E, p)
    OBVIOUS
  <2>2. size = 2 => p + 1 # Len(bytes)
    BY <1>1, <2>1
  <2>3. QED BY <1>1, <1>5, <1>6, <1>7, <2>1, <2>2
<1>13. \A e \in E : LineEnd(bytes, enc, Upto(E, e)) = e
  BY EndOfLine DEF E
<1>14. p > 0 => Begun(bytes, enc, p) = 1 + Upto(E, p - 1)
  BY DEF Begun, E
<1>15. /\ Upto(E, p) \in Nat
       /\ 1 + Upto(E, p) <= LineCount(bytes, enc)
       /\ p = 0 => 1 + Upto(E, p) = 1
       /\ p > 0 => Begun(bytes, enc, p) > 0
       /\ p > 0 /\ (before = LF \/ (before = CR /\ unit # LF)) =>
            Upto(E, p) = Begun(bytes, enc, p) /\ LineEnd(bytes, enc, Upto(E, p)) = p
       /\ p > 0 /\ ~(before = LF \/ (before = CR /\ unit # LF)) =>
            1 + Upto(E, p) = Begun(bytes, enc, p)
       /\ p + size <= Len(bytes) => Begun(bytes, enc, p + size) = 1 + Upto(E, p)
       /\ p + size <= Len(bytes) /\ unit = LF =>
            LineEnd(bytes, enc, 1 + Upto(E, p)) = p + size
  BY <1>4, <1>6, <1>7, <1>8, <1>9, <1>10, <1>11, <1>12, <1>13, <1>14
<1>16. QED BY <1>15 DEF E, size, before, unit

LEMMA WindowPut ==
  ASSUME NEW w \in Windows
  PROVE  /\ \A i \in Int : [w EXCEPT !.to = i] \in Windows
         /\ \A i \in Int : [w EXCEPT !.from = i] \in Windows
         /\ \A n \in Nat : [w EXCEPT !.line = n] \in Windows
         /\ \A n \in Nat : [w EXCEPT !.offset = n] \in Windows
         /\ \A b \in Halves : [w EXCEPT !.half = b] \in Windows
         /\ [w EXCEPT !.active = TRUE] \in Windows
         /\ [w EXCEPT !.active = FALSE] \in Windows
         /\ [w EXCEPT !.finished = TRUE] \in Windows
         /\ [w EXCEPT !.eof = TRUE] \in Windows
BY DEF Windows

LEMMA WindowResolved ==
  ASSUME NEW w \in Windows, NEW to \in Int
  PROVE  LET o == ResolvedAt(w, to)
         IN  /\ o \in Windows /\ SameRequest(w, o)
             /\ o.offset = w.offset /\ o.half = w.half /\ o.eof = w.eof
             /\ o.line = w.line /\ o.from = w.from /\ o.to = to /\ o.finished
<1>1. PICK o : o = [w EXCEPT !.to = to, !.finished = TRUE]
  OBVIOUS
<1>2. o \in Windows
  BY <1>1 DEF Windows
<1>3. /\ o.offset = w.offset /\ o.half = w.half /\ o.eof = w.eof
      /\ o.first = w.first /\ o.last = w.last /\ o.encoding = w.encoding
      /\ o.line = w.line /\ o.from = w.from /\ o.to = to /\ o.finished
  BY <1>1 DEF Windows
<1>4. QED BY <1>1, <1>2, <1>3 DEF ResolvedAt, SameRequest

LEMMA LineOpened ==
  ASSUME NEW w \in Windows, NEW p \in Nat
  PROVE  LET o == OpenLine(w, p)
         IN  /\ o \in Windows /\ SameRequest(w, o)
             /\ o.offset = w.offset /\ o.half = w.half /\ o.eof = w.eof
             /\ (o.finished <=> w.finished) /\ (o.cr <=> w.cr) /\ o.active
             /\ o.line = IF w.active THEN w.line ELSE w.line + 1
             /\ o.from = IF ~w.active /\ w.line + 1 = w.first THEN p ELSE w.from
<1>1. CASE w.active
  <2>1. OpenLine(w, p) = w /\ w.active = TRUE
    BY <1>1 DEF OpenLine, Windows
  <2>2. QED BY <1>1, <2>1 DEF SameRequest
<1>2. CASE ~w.active
  <2>1. OpenLine(w, p) =
          [w EXCEPT !.line = @ + 1, !.active = TRUE,
                    !.from = IF w.line + 1 = w.first THEN p ELSE @]
    BY <1>2 DEF OpenLine
  <2>2. PICK o : o = OpenLine(w, p)
    OBVIOUS
  <2>3. o \in Windows
    <3>1. w.line + 1 \in Nat /\ w.from \in Int
      BY DEF Windows
    <3>2. PICK from \in Int : from = IF w.line + 1 = w.first THEN p ELSE w.from
      BY <3>1
    <3>3. PICK u : u = [w EXCEPT !.line = @ + 1]
      OBVIOUS
    <3>4. PICK v : v = [u EXCEPT !.active = TRUE]
      OBVIOUS
    <3>5. u \in Windows /\ u.from = w.from
      BY <3>1, <3>3 DEF Windows
    <3>6. v \in Windows /\ v.from = w.from
      BY <3>4, <3>5 DEF Windows
    <3>7. o = [v EXCEPT !.from = from]
      BY <2>1, <2>2, <3>2, <3>3, <3>4, <3>6
    <3>8. QED BY <3>6, <3>7 DEF Windows
  <2>4. /\ o.offset = w.offset /\ o.half = w.half /\ o.eof = w.eof
        /\ o.first = w.first /\ o.last = w.last /\ o.encoding = w.encoding
        /\ (o.finished <=> w.finished) /\ (o.cr <=> w.cr) /\ o.active
    BY <2>1, <2>2 DEF Windows
  <2>5. /\ o.line = w.line + 1
        /\ o.from = IF w.line + 1 = w.first THEN p ELSE w.from
    BY <2>1, <2>2 DEF Windows
  <2>6. QED BY <1>2, <2>2, <2>3, <2>4, <2>5 DEF SameRequest
<1>3. QED BY <1>1, <1>2

LEMMA LineEnded ==
  ASSUME NEW w \in Windows, NEW unit \in Nat, NEW to \in Nat
  PROVE  LET o == EndLine(w, unit, to)
         IN  /\ o \in Windows /\ SameRequest(w, o)
             /\ o.offset = w.offset /\ o.half = w.half /\ o.eof = w.eof
             /\ o.line = w.line /\ o.from = w.from
             /\ o.cr <=> (w.cr \/ unit = CR)
             /\ o.active <=> (w.active /\ unit \notin {CR, LF})
             /\ o.finished <=> (w.finished \/ (unit = LF /\ w.line = w.last))
<1>1. CASE unit = CR
  <2>1. PICK o : o = EndLine(w, unit, to)
    OBVIOUS
  <2>2. o = [w EXCEPT !.cr = TRUE, !.active = FALSE] /\ unit # LF
    BY <1>1, <2>1 DEF EndLine, CR, LF
  <2>3. o \in Windows
    BY <2>2 DEF Windows
  <2>4. /\ o.offset = w.offset /\ o.half = w.half /\ o.eof = w.eof
        /\ o.first = w.first /\ o.last = w.last /\ o.encoding = w.encoding
        /\ o.line = w.line /\ o.from = w.from /\ o.to = w.to
        /\ (o.finished <=> w.finished) /\ o.cr /\ ~o.active
    BY <2>2 DEF Windows
  <2>5. QED BY <1>1, <2>1, <2>2, <2>3, <2>4 DEF SameRequest
<1>2. CASE unit = LF /\ w.line = w.last
  <2>1. PICK o : o = EndLine(w, unit, to)
    OBVIOUS
  <2>2. o = [[w EXCEPT !.active = FALSE] EXCEPT !.to = to, !.finished = TRUE] /\ unit # CR
    BY <1>2, <2>1 DEF EndLine, ResolvedAt, CR, LF
  <2>3. o \in Windows
    <3>1. PICK u \in Windows : u = [w EXCEPT !.active = FALSE]
      BY DEF Windows
    <3>2. PICK v : v = [u EXCEPT !.to = to]
      OBVIOUS
    <3>5. v \in Windows
      <4>1. to \in Int
        OBVIOUS
      <4>2. QED BY <3>1, <3>2, <4>1, WindowPut
    <3>3. o = [v EXCEPT !.finished = TRUE]
      BY <2>2, <3>1, <3>2
    <3>4. QED BY <3>3, <3>5, WindowPut
  <2>4. /\ o.offset = w.offset /\ o.half = w.half /\ o.eof = w.eof
        /\ o.first = w.first /\ o.last = w.last /\ o.encoding = w.encoding
        /\ o.line = w.line /\ o.from = w.from /\ o.to = to
        /\ o.finished /\ (o.cr <=> w.cr) /\ ~o.active
    BY <2>2 DEF Windows
  <2>5. QED BY <1>2, <2>1, <2>2, <2>3, <2>4 DEF SameRequest
<1>3. CASE unit = LF /\ w.line # w.last
  <2>1. PICK o : o = EndLine(w, unit, to)
    OBVIOUS
  <2>2. o = [w EXCEPT !.active = FALSE] /\ unit # CR
    BY <1>3, <2>1 DEF EndLine, CR, LF
  <2>3. o \in Windows
    BY <2>2 DEF Windows
  <2>4. /\ o.offset = w.offset /\ o.half = w.half /\ o.eof = w.eof
        /\ o.first = w.first /\ o.last = w.last /\ o.encoding = w.encoding
        /\ o.line = w.line /\ o.from = w.from /\ o.to = w.to
        /\ (o.finished <=> w.finished) /\ (o.cr <=> w.cr) /\ ~o.active
    BY <2>2 DEF Windows
  <2>5. QED BY <1>3, <2>1, <2>2, <2>3, <2>4 DEF SameRequest
<1>4. CASE unit \notin {CR, LF}
  <2>1. EndLine(w, unit, to) = w
    BY <1>4 DEF EndLine, CR, LF
  <2>2. QED BY <1>4, <2>1 DEF SameRequest
<1>5. QED BY <1>1, <1>2, <1>3, <1>4

LEMMA LineEndedThere ==
  ASSUME NEW w \in Windows, NEW unit \in Nat, NEW to \in Nat,
         unit = LF, w.line = w.last
  PROVE  EndLine(w, unit, to).to = to
<1>1. PICK v : v = [w EXCEPT !.active = FALSE]
  OBVIOUS
<1>2. PICK e : e = [v EXCEPT !.to = to, !.finished = TRUE]
  OBVIOUS
<1>3. EndLine(w, unit, to) = e
  BY <1>1, <1>2 DEF EndLine, ResolvedAt, CR, LF
<1>4. v \in Windows
  BY <1>1, WindowPut
<1>5. e.to = to
  BY <1>2, <1>4 DEF Windows
<1>6. QED BY <1>3, <1>5

\* The unit at p is taken by a window that follows those before it.
LEMMA UnitTaken ==
  ASSUME NEW bytes \in Seq(Bytes), NEW w \in Windows, NEW p \in 0 .. (Len(bytes) - 1),
         NEW to \in Nat, NEW unit \in Nat,
         unit = UnitAt(bytes, p, w.encoding),
         unit = LF => to = p + UnitSize(w.encoding) /\ to <= Len(bytes),
         ~w.finished, 1 <= w.first, w.first <= w.last,
         FollowsUnits(w, bytes, p)
  PROVE  LET o == TakeUnit(w, unit, p, to)
         IN  /\ o \in Windows /\ SameRequest(w, o)
             /\ o.offset = w.offset /\ o.half = w.half /\ o.eof = w.eof
             /\ o.finished => FoundEnd(o, bytes) /\ o.to \in {p, to}
             /\ ~o.finished =>
                  /\ o.line = 1 + Upto(LineEnds(bytes, w.encoding), p)
                  /\ StartSeen(o, bytes)
                  /\ o.line <= o.last
                  /\ o.line = o.last => o.active \/ o.cr
                  /\ o.cr <=> (unit = CR)
                  /\ o.active <=> (unit \notin {CR, LF})
<1> DEFINE enc == w.encoding
           size == UnitSize(enc)
           before == UnitAt(bytes, p - size, enc)
           through == 1 + Upto(LineEnds(bytes, enc), p)
           joined == [w EXCEPT !.cr = FALSE]
           o == TakeUnit(w, unit, p, to)
<1>1. /\ enc \in TextEncodings /\ size \in {1, 2} /\ p \in Nat /\ Len(bytes) \in Nat
      /\ p % size = 0
  BY LenProperties, UnitSizes DEF Windows, FollowsUnits
<1>2. /\ through \in Nat /\ through - 1 \in Nat /\ through <= LineCount(bytes, enc)
      /\ p = 0 => through = 1
      /\ p > 0 => Begun(bytes, enc, p) > 0
      /\ p > 0 /\ (before = LF \/ (before = CR /\ unit # LF)) =>
           through - 1 = Begun(bytes, enc, p) /\ LineEnd(bytes, enc, through - 1) = p
      /\ p > 0 /\ ~(before = LF \/ (before = CR /\ unit # LF)) =>
           through = Begun(bytes, enc, p)
      /\ unit = LF => LineEnd(bytes, enc, through) = to
  <2>1. PICK n \in Nat : n = Upto(LineEnds(bytes, enc), p) /\ through = 1 + n /\ through - 1 = n
    BY <1>1, LinesBegun
  <2>2. QED BY <1>1, <2>1, LinesBegun
<1>3. /\ w.cr <=> (p > 0 /\ before = CR)
      /\ w.active <=> (p > 0 /\ before \notin {CR, LF})
      /\ w.line = Begun(bytes, enc, p)
      /\ w.from = IF w.first <= w.line THEN LineStart(bytes, enc, w.first) ELSE Unset
      /\ w.line <= w.last
      /\ w.line = w.last => w.active \/ w.cr
  BY DEF FollowsUnits, StartSeen
<1>4. p = 0 => w.line = 0
  BY <1>3 DEF Begun
<1>5. /\ w.first \in Nat /\ w.last \in Nat /\ w.line \in Nat
      /\ ~w.finished
  BY DEF Windows
<1>6. CR # LF
  BY DEF CR, LF
<1>7. joined \in Windows /\ SameRequest(w, joined)
      /\ joined.offset = w.offset /\ joined.half = w.half /\ joined.eof = w.eof
      /\ ~joined.finished /\ (joined.active <=> w.active) /\ ~joined.cr
      /\ joined.line = w.line /\ joined.from = w.from
  BY DEF Windows, SameRequest
<1> HIDE DEF enc, size, before, through, joined
<1>8. CASE w.cr /\ unit = LF /\ w.line = w.last
  <2>1. o = ResolvedAt(joined, to)
    BY <1>8 DEF TakeUnit, joined
  <2>2. /\ o \in Windows /\ SameRequest(w, o)
        /\ o.offset = w.offset /\ o.half = w.half /\ o.eof = w.eof /\ o.finished
        /\ o.line = w.line /\ o.from = w.from /\ o.to = to
    BY <1>7, <2>1, WindowResolved DEF SameRequest
  <2>3. w.line = through /\ LineEnd(bytes, enc, w.last) = to
    BY <1>2, <1>3, <1>6, <1>8
  <2>4. FoundEnd(o, bytes)
    BY <1>2, <1>3, <1>8, <2>2, <2>3 DEF FoundEnd, StartSeen, SameRequest, enc
  <2>5. QED BY <2>2, <2>4
<1>9. CASE w.cr /\ unit = LF /\ w.line # w.last
  <2>1. o = joined
    BY <1>9 DEF TakeUnit, joined
  <2>2. w.line = through /\ ~w.active
    BY <1>2, <1>3, <1>6, <1>9
  <2>3. QED BY <1>3, <1>5, <1>6, <1>7, <1>9, <2>1, <2>2 DEF StartSeen, SameRequest, enc, through
<1>10. CASE w.cr /\ unit # LF /\ w.line = w.last
  <2>1. o = ResolvedAt(joined, p)
    BY <1>10 DEF TakeUnit, joined
  <2>2. /\ o \in Windows /\ SameRequest(w, o)
        /\ o.offset = w.offset /\ o.half = w.half /\ o.eof = w.eof /\ o.finished
        /\ o.line = w.line /\ o.from = w.from /\ o.to = p
    BY <1>1, <1>7, <2>1, WindowResolved DEF SameRequest
  <2>3. w.line = through - 1 /\ LineEnd(bytes, enc, w.last) = p
    BY <1>2, <1>3, <1>6, <1>10
  <2>4. w.last <= LineCount(bytes, enc)
    <3>1. LineCount(bytes, enc) \in Nat
      BY <1>1, EndsAreFinite, FS_CardinalityType DEF LineCount
    <3>2. QED BY <1>2, <1>5, <1>10, <2>3, <3>1
  <2>5. FoundEnd(o, bytes)
    BY <1>3, <1>10, <2>2, <2>3, <2>4 DEF FoundEnd, StartSeen, SameRequest, enc
  <2>6. QED BY <2>2, <2>5
<1>11. CASE ~(w.cr /\ unit = LF) /\ ~(w.cr /\ unit # LF /\ w.line = w.last)
  <2> DEFINE opened == OpenLine(joined, p)
  <2>1. o = EndLine(opened, unit, to)
    BY <1>11 DEF TakeUnit, joined
  <2>2. /\ opened \in Windows /\ SameRequest(w, opened)
        /\ opened.offset = w.offset /\ opened.half = w.half /\ opened.eof = w.eof
        /\ ~opened.finished /\ ~opened.cr /\ opened.active
        /\ opened.line = IF w.active THEN w.line ELSE w.line + 1
        /\ opened.from = IF ~w.active /\ w.line + 1 = w.first THEN p ELSE w.from
    <3>1. /\ opened \in Windows /\ SameRequest(joined, opened)
          /\ opened.offset = joined.offset /\ opened.half = joined.half
          /\ opened.eof = joined.eof
          /\ (opened.finished <=> joined.finished) /\ (opened.cr <=> joined.cr) /\ opened.active
          /\ opened.line = IF joined.active THEN joined.line ELSE joined.line + 1
          /\ opened.from = IF ~joined.active /\ joined.line + 1 = joined.first THEN p ELSE joined.from
      BY <1>1, <1>7, LineOpened, ZenonT(40)
    <3> HIDE DEF opened
    <3>2. QED BY <1>5, <1>7, <3>1 DEF SameRequest
  <2> HIDE DEF opened
  <2>3. /\ o \in Windows /\ SameRequest(w, o)
        /\ o.offset = w.offset /\ o.half = w.half /\ o.eof = w.eof
        /\ o.line = opened.line /\ o.from = opened.from
        /\ o.cr <=> (unit = CR)
        /\ o.active <=> (unit \notin {CR, LF})
        /\ o.finished <=> (unit = LF /\ opened.line = w.last)
        /\ unit = LF /\ opened.line = w.last => o.to = to
    <3>1. /\ o \in Windows /\ SameRequest(opened, o)
          /\ o.offset = opened.offset /\ o.half = opened.half /\ o.eof = opened.eof
          /\ o.line = opened.line /\ o.from = opened.from
          /\ o.cr <=> (opened.cr \/ unit = CR)
          /\ o.active <=> (opened.active /\ unit \notin {CR, LF})
          /\ o.finished <=> (opened.finished \/ (unit = LF /\ opened.line = opened.last))
          /\ unit = LF /\ opened.line = opened.last => o.to = to
      <4> HIDE DEF o
      <4>1. PICK e : e = EndLine(opened, unit, to)
        OBVIOUS
      <4>2. /\ e \in Windows /\ SameRequest(opened, e)
            /\ e.offset = opened.offset /\ e.half = opened.half /\ e.eof = opened.eof
            /\ e.line = opened.line /\ e.from = opened.from
        BY <2>2, <4>1, LineEnded, ZenonT(40)
      <4>3. /\ e.cr <=> (opened.cr \/ unit = CR)
            /\ e.active <=> (opened.active /\ unit \notin {CR, LF})
            /\ e.finished <=> (opened.finished \/ (unit = LF /\ opened.line = opened.last))
        BY <2>2, <4>1, LineEnded, ZenonT(40)
      <4>4. unit = LF /\ opened.line = opened.last => e.to = to
        BY <2>2, <4>1, LineEndedThere
      <4>5. o = e
        BY <2>1, <4>1
      <4>6. QED BY <4>2, <4>3, <4>4, <4>5
    <3> HIDE DEF o
    <3>2. QED BY <2>2, <3>1 DEF SameRequest
  <2> HIDE DEF o
  <2>4. opened.line = through
    <3>1. CASE w.active
      BY <1>2, <1>3, <2>2, <3>1
    <3>2. CASE ~w.active /\ p = 0
      BY <1>2, <1>4, <2>2, <3>2
    <3>3. CASE ~w.active /\ p # 0
      <4>1. before = LF \/ (before = CR /\ unit # LF)
        BY <1>1, <1>3, <1>11, <3>3
      <4>2. QED BY <1>1, <1>2, <1>3, <1>5, <2>2, <3>3, <4>1
    <3>4. QED BY <3>1, <3>2, <3>3
  <2>5. opened.line <= w.last
    BY <1>3, <1>5, <1>11, <2>2
  <2>6. opened.from = IF w.first <= opened.line THEN LineStart(bytes, enc, w.first) ELSE Unset
    <3>1. CASE w.active
      BY <1>3, <2>2, <3>1
    <3>2. CASE ~w.active /\ p = 0
      BY <1>3, <1>4, <1>5, <2>2, <3>2 DEF LineStart
    <3>3. CASE ~w.active /\ p # 0
      <4>1. before = LF \/ (before = CR /\ unit # LF)
        BY <1>1, <1>3, <1>11, <3>3
      <4>2. w.line = through - 1 /\ LineEnd(bytes, enc, w.line) = p /\ w.line + 1 = opened.line
        BY <1>1, <1>2, <1>3, <2>2, <3>3, <4>1
      <4>3. CASE w.line + 1 = w.first
        <5>1. w.first # 1 /\ w.first - 1 = w.line
          <6>1. w.line # 0
            BY <1>1, <1>2, <1>3, <3>3
          <6>2. QED BY <1>5, <4>3, <6>1
        <5>2. LineStart(bytes, enc, w.first) = p
          BY <4>2, <5>1 DEF LineStart
        <5>3. QED BY <1>5, <2>2, <3>3, <4>2, <4>3, <5>2
      <4>4. CASE w.line + 1 # w.first
        BY <1>3, <1>5, <2>2, <3>3, <4>2, <4>4
      <4>5. QED BY <4>3, <4>4
    <3>4. QED BY <3>1, <3>2, <3>3
  <2>7. StartSeen(o, bytes)
    BY <2>3, <2>6 DEF StartSeen, SameRequest, enc
  <2>8. o.finished => FoundEnd(o, bytes) /\ o.to \in {p, to}
    BY <1>2, <2>3, <2>4, <2>7 DEF FoundEnd, SameRequest, enc
  <2>9. ~o.finished =>
          /\ o.line = through /\ o.line <= o.last
          /\ o.line = o.last => o.active \/ o.cr
    BY <1>6, <2>3, <2>4, <2>5 DEF SameRequest
  <2>10. QED BY <2>3, <2>7, <2>8, <2>9 DEF through, enc, o
<1>12. QED BY <1>8, <1>9, <1>10, <1>11

-----------------------------------------------------------------------------
(* A window, one byte after another, and at the end of the file.           *)

\* A window over a file of which it has seen what is before its offset.
Seen(w, bytes) ==
  /\ w \in Windows /\ 1 <= w.first /\ w.first <= w.last
  /\ w.offset \in 0 .. Len(bytes) /\ ~w.eof
  /\ w.finished => FoundEnd(w, bytes) /\ w.to <= w.offset
  /\ ~w.finished =>
       /\ FollowsUnits(w, bytes, UnitStart(w))
       /\ w.half # Unset =>
            IsUtf16(w.encoding) /\ 0 < w.offset /\ w.half = bytes[w.offset]

\* Two windows that differ in how many bytes they have consumed at most.
SameLines(w, v) ==
  /\ SameRequest(w, v) /\ v.line = w.line /\ v.from = w.from
  /\ (v.cr <=> w.cr) /\ (v.active <=> w.active)
  /\ (v.finished <=> w.finished) /\ (v.eof <=> w.eof)

AtOffset(w, offset, half) == [w EXCEPT !.offset = offset, !.half = half]

LEMMA Moved ==
  ASSUME NEW w \in Windows, NEW offset \in Nat, NEW half \in Halves
  PROVE  LET v == AtOffset(w, offset, half)
         IN  v \in Windows /\ SameLines(w, v) /\ v.offset = offset /\ v.half = half
<1>0. PICK v : v = AtOffset(w, offset, half)
  OBVIOUS
<1>1. PICK u : u = [w EXCEPT !.offset = offset]
  OBVIOUS
<1>2. v = [u EXCEPT !.half = half]
  BY <1>0, <1>1 DEF AtOffset
<1>3. u \in Windows /\ v \in Windows
  <2>1. u \in Windows
    BY <1>1, WindowPut
  <2>2. QED BY <1>2, <2>1, WindowPut
<1>4. /\ u.first = w.first /\ u.last = w.last /\ u.encoding = w.encoding
      /\ u.line = w.line /\ u.from = w.from /\ u.offset = offset
      /\ (u.cr <=> w.cr) /\ (u.active <=> w.active)
      /\ (u.finished <=> w.finished) /\ (u.eof <=> w.eof)
  BY <1>1 DEF Windows
<1>5. /\ v.first = u.first /\ v.last = u.last /\ v.encoding = u.encoding
      /\ v.line = u.line /\ v.from = u.from /\ v.offset = u.offset /\ v.half = half
      /\ (v.cr <=> u.cr) /\ (v.active <=> u.active)
      /\ (v.finished <=> u.finished) /\ (v.eof <=> u.eof)
  BY <1>2, <1>3 DEF Windows
<1>6. QED BY <1>0, <1>3, <1>4, <1>5 DEF SameLines, SameRequest

LEMMA FollowsAlike ==
  ASSUME NEW bytes, NEW w, NEW v, NEW p, SameLines(w, v), FollowsUnits(w, bytes, p)
  PROVE  FollowsUnits(v, bytes, p)
<1>1. /\ v.first = w.first /\ v.last = w.last /\ v.encoding = w.encoding
      /\ v.line = w.line /\ v.from = w.from
      /\ (v.cr <=> w.cr) /\ (v.active <=> w.active)
  BY DEF SameLines, SameRequest
<1>2. QED BY <1>1 DEF FollowsUnits, StartSeen

LEMMA BytesAreNumbers ==
  ASSUME NEW bytes \in Seq(Bytes), NEW i \in 1 .. Len(bytes)
  PROVE  bytes[i] \in Bytes /\ bytes[i] \in Nat
<1>1. PICK b : b = bytes[i]
  OBVIOUS
<1>2. b \in Bytes
  BY <1>1, ElementOfSeq
<1>3. b \in Nat
  BY <1>2 DEF Bytes
<1>4. QED BY <1>1, <1>2, <1>3

LEMMA UnitOfBytes ==
  ASSUME NEW bytes \in Seq(Bytes), NEW enc \in TextEncodings,
         NEW p \in 0 .. (Len(bytes) - 1)
  PROVE  /\ UnitAt(bytes, p, enc) \in Nat
         /\ UnitAt(bytes, p, enc) = LF => p + UnitSize(enc) <= Len(bytes)
<1>1. Len(bytes) \in Nat
  BY LenProperties
<1>2. CASE ~IsUtf16(enc)
  <2>1. p + 1 \in 1 .. Len(bytes) /\ UnitSize(enc) = 1
    BY <1>1, <1>2 DEF UnitSize
  <2>2. UnitAt(bytes, p, enc) = bytes[p + 1]
    BY <1>2 DEF UnitAt
  <2>3. bytes[p + 1] \in Nat
    BY <2>1, BytesAreNumbers
  <2>4. QED BY <1>1, <2>1, <2>2, <2>3
<1>3. CASE IsUtf16(enc) /\ p + 2 <= Len(bytes)
  <2>1. p + 1 \in 1 .. Len(bytes) /\ p + 1 + 1 \in 1 .. Len(bytes) /\ UnitSize(enc) = 2
    BY <1>1, <1>3 DEF UnitSize
  <2>2. bytes[p + 1] \in Nat /\ bytes[p + 1 + 1] \in Nat
    BY <2>1, BytesAreNumbers
  <2>3. UnitAt(bytes, p, enc) = Unit(bytes, p + 1, enc)
    BY <1>3 DEF UnitAt
  <2>4. QED BY <1>1, <1>3, <2>1, <2>2, <2>3 DEF Unit
<1>4. CASE IsUtf16(enc) /\ ~(p + 2 <= Len(bytes))
  BY <1>4 DEF UnitAt, LF
<1>5. QED BY <1>2, <1>3, <1>4

\* A whole unit is taken.
LEMMA WholeUnitTaken ==
  ASSUME NEW bytes \in Seq(Bytes), NEW w \in Windows, NEW p \in 0 .. (Len(bytes) - 1),
         ~w.finished, ~w.eof, 1 <= w.first, w.first <= w.last,
         w.half = Unset, w.offset = p + UnitSize(w.encoding), w.offset <= Len(bytes),
         FollowsUnits(w, bytes, p)
  PROVE  LET o == TakeUnit(w, UnitAt(bytes, p, w.encoding), p, w.offset)
         IN  Seen(o, bytes) /\ SameRequest(w, o) /\ o.offset = w.offset
<1> DEFINE enc == w.encoding
           size == UnitSize(enc)
           unit == UnitAt(bytes, p, enc)
           o == TakeUnit(w, unit, p, w.offset)
<1>1. /\ enc \in TextEncodings /\ size \in {1, 2} /\ p \in Nat /\ Len(bytes) \in Nat
      /\ w.offset \in Nat /\ p % size = 0 /\ unit \in Nat
  BY LenProperties, UnitSizes, UnitOfBytes DEF Windows, FollowsUnits
<1>2. /\ o \in Windows /\ SameRequest(w, o)
      /\ o.offset = w.offset /\ o.half = w.half /\ o.eof = w.eof
      /\ o.finished => FoundEnd(o, bytes) /\ o.to \in {p, w.offset}
      /\ ~o.finished =>
           /\ o.line = 1 + Upto(LineEnds(bytes, enc), p)
           /\ StartSeen(o, bytes)
           /\ o.line <= o.last
           /\ o.line = o.last => o.active \/ o.cr
           /\ o.cr <=> (unit = CR)
           /\ o.active <=> (unit \notin {CR, LF})
  BY <1>1, UnitTaken
<1>3. Begun(bytes, enc, p + size) = 1 + Upto(LineEnds(bytes, enc), p)
  BY <1>1, LinesBegun
<1>4. PICK q : q = w.offset
  OBVIOUS
<1>5. /\ q - size = p /\ q > 0 /\ q \in 0 .. Len(bytes) /\ q % size = 0 /\ q = p + size
      /\ w.half = Unset
  BY <1>1, <1>4
<1> HIDE DEF o, unit, size
<1>6. ASSUME ~o.finished PROVE FollowsUnits(o, bytes, q)
  <2>1. o.encoding = enc /\ UnitAt(bytes, q - size, enc) = unit
    BY <1>2, <1>5 DEF SameRequest, unit
  <2>2. QED BY <1>2, <1>3, <1>5, <1>6, <2>1 DEF FollowsUnits, size
<1>7. UnitStart(o) = q
  BY <1>2, <1>4, <1>5 DEF UnitStart
<1>8. Seen(o, bytes)
  <2>1. o.finished => o.to <= o.offset
    BY <1>1, <1>2, <1>4, <1>5
  <2>2. QED BY <1>2, <1>4, <1>5, <1>6, <1>7, <2>1 DEF Seen, SameRequest
<1>9. QED BY <1>2, <1>8 DEF o, unit

LEMMA ByteTaken ==
  ASSUME NEW bytes \in Seq(Bytes), NEW w, Seen(w, bytes), ~w.finished,
         w.offset < Len(bytes)
  PROVE  LET v == TakeByte(w, bytes[w.offset + 1])
         IN  Seen(v, bytes) /\ SameRequest(w, v) /\ v.offset = w.offset + 1
<1> DEFINE enc == w.encoding
           byte == bytes[w.offset + 1]
           p == UnitStart(w)
<1>1. /\ w \in Windows /\ 1 <= w.first /\ w.first <= w.last /\ ~w.eof
      /\ w.offset \in Nat /\ w.offset + 1 \in 1 .. Len(bytes) /\ Len(bytes) \in Nat
      /\ FollowsUnits(w, bytes, p)
      /\ w.half # Unset => IsUtf16(enc) /\ 0 < w.offset /\ w.half = bytes[w.offset]
  BY LenProperties DEF Seen
<1>2. byte \in Bytes /\ enc \in TextEncodings /\ w.half \in Halves
  BY <1>1, BytesAreNumbers DEF Windows, Halves
<1>3. p \in 0 .. (Len(bytes) - 1)
  BY <1>1 DEF UnitStart
<1>4. Unset \notin Bytes /\ Unset \in Halves /\ byte \in Halves
  BY <1>2 DEF Bytes, Unset, Halves
<1> HIDE DEF byte
<1>5. PICK n \in Nat : n = w.offset + 1
  BY <1>1
<1>8. CASE ~IsUtf16(enc)
  <2>0. PICK read : read = AtOffset(w, n, w.half)
    OBVIOUS
  <2>1. w.half = Unset /\ UnitSize(enc) = 1 /\ p = w.offset
    BY <1>1, <1>8 DEF UnitSize, UnitStart
  <2>2. read \in Windows /\ SameLines(w, read) /\ read.offset = w.offset + 1 /\ read.half = Unset
    <3>1. w \in Windows /\ w.half \in Halves
      BY <1>1, <1>2, <1>4
    <3>2. read \in Windows /\ SameLines(w, read) /\ read.offset = n /\ read.half = w.half
      BY <2>0, <3>1, Moved
    <3>3. QED BY <1>5, <2>1, <3>2
  <2>3. read = [w EXCEPT !.offset = @ + 1]
    BY <1>1, <1>5, <2>0, <2>1 DEF Windows, AtOffset
  <2>4. FollowsUnits(read, bytes, p)
    BY <1>1, <2>2, FollowsAlike
  <2>5. UnitAt(bytes, p, enc) = byte
    BY <1>8, <2>1 DEF UnitAt, byte
  <2>6. TakeByte(w, byte) = TakeUnit(read, byte, p, read.offset)
    BY <1>8, <2>3 DEF TakeByte
  <2> HIDE DEF p
  <2>7. /\ ~read.finished /\ ~read.eof /\ 1 <= read.first /\ read.first <= read.last
        /\ read.encoding = enc /\ read.offset = p + UnitSize(enc) /\ read.offset <= Len(bytes)
    BY <1>1, <2>1, <2>2 DEF SameLines, SameRequest
  <2>8. LET o == TakeUnit(read, UnitAt(bytes, p, enc), p, read.offset)
        IN  Seen(o, bytes) /\ SameRequest(read, o) /\ o.offset = read.offset
    BY <1>3, <2>2, <2>4, <2>7, WholeUnitTaken
  <2>9. QED BY <2>2, <2>5, <2>6, <2>8 DEF byte, SameLines, SameRequest
<1>6. CASE IsUtf16(enc) /\ w.half = Unset
  <2>0. PICK read : read = AtOffset(w, n, byte)
    OBVIOUS
  <2>1. read \in Windows /\ SameLines(w, read) /\ read.offset = w.offset + 1 /\ read.half = byte
    <3>1. w \in Windows /\ byte \in Halves
      BY <1>1, <1>2, <1>4
    <3>2. read \in Windows /\ SameLines(w, read) /\ read.offset = n /\ read.half = byte
      BY <2>0, <3>1, Moved
    <3>3. QED BY <1>5, <3>2
  <2>2. TakeByte(w, byte) = read
    BY <1>1, <1>5, <1>6, <2>0 DEF TakeByte, Windows, AtOffset
  <2>3. FollowsUnits(read, bytes, p)
    BY <1>1, <2>1, FollowsAlike
  <2>4. read.half # Unset
    BY <1>2, <1>4, <2>1
  <2>5. UnitStart(read) = p
    BY <1>1, <1>6, <2>1, <2>4 DEF UnitStart
  <2>6. Seen(read, bytes)
    BY <1>1, <1>5, <1>6, <2>1, <2>3, <2>5 DEF byte, Seen, SameLines, SameRequest
  <2>7. QED BY <2>1, <2>2, <2>6 DEF byte, SameLines
<1>7. CASE IsUtf16(enc) /\ w.half # Unset
  <2>0. PICK read : read = AtOffset(w, n, Unset)
    OBVIOUS
  <2>1. UnitSize(enc) = 2 /\ p = w.offset - 1 /\ w.half = bytes[w.offset]
    BY <1>1, <1>7 DEF UnitSize, UnitStart
  <2>2. read \in Windows /\ SameLines(w, read) /\ read.offset = w.offset + 1 /\ read.half = Unset
    <3>1. w \in Windows /\ Unset \in Halves
      BY <1>1, <1>2, <1>4
    <3>2. read \in Windows /\ SameLines(w, read) /\ read.offset = n /\ read.half = Unset
      BY <2>0, <3>1, Moved
    <3>3. QED BY <1>5, <3>2
  <2>4. FollowsUnits(read, bytes, p)
    BY <1>1, <2>2, FollowsAlike
  <2>5. UnitAt(bytes, p, enc) = Unit(<<w.half, byte>>, 1, enc)
    <3>1. p + 2 <= Len(bytes) /\ p + 1 = w.offset /\ p + 1 + 1 = w.offset + 1
      BY <1>1, <2>1
    <3>2. UnitAt(bytes, p, enc) = Unit(bytes, p + 1, enc)
      BY <1>7, <3>1 DEF UnitAt
    <3>3. QED BY <2>1, <3>1, <3>2 DEF Unit, byte
  <2>6. TakeByte(w, byte) = TakeUnit(read, Unit(<<w.half, byte>>, 1, enc), p, read.offset)
    <3>1. read = [[w EXCEPT !.offset = @ + 1] EXCEPT !.half = Unset]
      BY <1>1, <1>5, <2>0, <2>1 DEF Windows, AtOffset
    <3>2. [w EXCEPT !.offset = @ + 1].offset = w.offset + 1
      BY <1>1, <1>5, <2>0, <2>1 DEF Windows, AtOffset
    <3>3. QED BY <1>7, <2>2, <3>1, <3>2 DEF TakeByte
  <2> HIDE DEF p
  <2>7. /\ ~read.finished /\ ~read.eof /\ 1 <= read.first /\ read.first <= read.last
        /\ read.encoding = enc /\ read.offset = p + UnitSize(enc) /\ read.offset <= Len(bytes)
    BY <1>1, <2>1, <2>2 DEF SameLines, SameRequest
  <2>8. LET o == TakeUnit(read, UnitAt(bytes, p, enc), p, read.offset)
        IN  Seen(o, bytes) /\ SameRequest(read, o) /\ o.offset = read.offset
    BY <1>3, <2>2, <2>4, <2>7, WholeUnitTaken
  <2>9. QED BY <2>2, <2>5, <2>6, <2>8 DEF byte, SameLines, SameRequest
<1>9. QED BY <1>6, <1>7, <1>8 DEF byte

\* Every line has an end.
LEMMA EveryLineEnds ==
  ASSUME NEW bytes \in Seq(Bytes), NEW enc \in TextEncodings,
         NEW n \in 1 .. LineCount(bytes, enc)
  PROVE  /\ LineCount(bytes, enc) \in Nat
         /\ LineEnd(bytes, enc, n) \in LineEnds(bytes, enc)
         /\ Upto(LineEnds(bytes, enc), LineEnd(bytes, enc, n)) = n
<1> DEFINE E == LineEnds(bytes, enc)
           reached == {p \in Nat : n <= Upto(E, p)}
<1>1. PICK size \in Nat : size = Len(bytes)
  BY LenProperties
<1>2. E \in SUBSET Nat /\ IsFiniteSet(E) /\ E \subseteq 1 .. size
  BY <1>1, EndsAreFinite
<1>3. LineCount(bytes, enc) \in Nat /\ LineCount(bytes, enc) = Upto(E, size)
  <2>1. \A e \in E : e <= size
    <3> HIDE DEF E
    <3>1. \A e \in E : e \in 1 .. size
      BY <1>2
    <3>2. QED BY <3>1
  <2>2. E = {e \in E : e <= size}
    BY <2>1, Zenon
  <2>3. QED BY <1>2, <2>2, FS_CardinalityType DEF LineCount, Upto
<1>4. \A p \in Nat : /\ Upto(E, p) \in Nat
                    /\ p > 0 => Upto(E, p) = Upto(E, p - 1) + (IF p \in E THEN 1 ELSE 0)
  BY <1>2, UptoStep
<1> HIDE DEF E
<1>5. PICK p \in reached : \A q \in reached : p <= q
  <2>1. size \in reached
    BY <1>3
  <2>2. reached \in SUBSET Nat
    OBVIOUS
  <2> HIDE DEF reached
  <2>3. QED BY <2>1, <2>2, LeastNumber
<1>6. p \in Nat /\ n <= Upto(E, p) /\ Upto(E, p) \in Nat
  <2>1. p \in Nat /\ n <= Upto(E, p)
    BY <1>5, Zenon
  <2> HIDE DEF reached
  <2>2. Upto(E, p) \in Nat
    BY <1>2, <2>1, UptoStep
  <2>3. QED BY <2>1, <2>2
<1>7. p # 0
  <2>1. SUFFICES ASSUME p = 0 PROVE FALSE
    OBVIOUS
  <2>2. {e \in E : e <= p} = {}
    <3>1. \A e \in E : ~(e <= 0)
      <4>1. \A e \in E : e \in 1 .. size
        BY <1>2
      <4>2. QED BY <4>1
    <3>2. QED BY <2>1, <3>1, Zenon
  <2>3. Upto(E, p) = 0
    BY <2>2, FS_EmptySet DEF Upto
  <2>4. QED BY <1>6, <2>3
<1>8. PICK q \in Nat : q = p - 1
  BY <1>6, <1>7
<1>9. ~(n <= Upto(E, q)) /\ Upto(E, q) \in Nat
  <2>1. ~(p <= q)
    BY <1>6, <1>8
  <2>2. n <= Upto(E, q) => q \in reached
    BY <1>8, Zenon
  <2> HIDE DEF reached
  <2>3. Upto(E, q) \in Nat
    BY <1>2, <1>8, UptoStep
  <2>4. QED BY <1>5, <2>1, <2>2, <2>3, Zenon
<1>10. p \in E /\ Upto(E, p) = n
  BY <1>4, <1>6, <1>7, <1>8, <1>9
<1>11. LineEnd(bytes, enc, n) = p
  BY <1>10, EndOfLine DEF E
<1>12. QED BY <1>3, <1>10, <1>11 DEF E

LEMMA LinesStart ==
  ASSUME NEW bytes \in Seq(Bytes), NEW enc \in TextEncodings,
         NEW n \in 1 .. LineCount(bytes, enc)
  PROVE  LineStart(bytes, enc, n) \in Nat /\ LineStart(bytes, enc, n) # Unset
<1>1. LineCount(bytes, enc) \in Nat
  BY EveryLineEnds
<1>2. CASE n = 1
  BY <1>2 DEF LineStart, Unset
<1>3. CASE n # 1
  <2>1. PICK m \in 1 .. LineCount(bytes, enc) : m = n - 1
    BY <1>1, <1>3
  <2>2. LineEnd(bytes, enc, m) \in LineEnds(bytes, enc)
    BY EveryLineEnds
  <2>3. LineEnd(bytes, enc, m) \in Nat
    BY <2>2, EndsAreFinite, LenProperties
  <2>4. LineStart(bytes, enc, n) = LineEnd(bytes, enc, m)
    BY <1>3, <2>1 DEF LineStart
  <2>5. QED BY <2>3, <2>4 DEF Unset
<1>4. QED BY <1>2, <1>3

-----------------------------------------------------------------------------
(* Chunks.                                                                 *)

LEMMA Chunk ==
  ASSUME NEW bytes \in Seq(Bytes), NEW from \in 0 .. Len(bytes),
         NEW to \in from .. Len(bytes)
  PROVE  LET chunk == SubSeq(bytes, from + 1, to)
         IN  /\ chunk \in Seq(Bytes) /\ Len(chunk) = to - from
             /\ \A n \in 1 .. (to - from) : chunk[n] = bytes[from + n]
<1>1. Len(bytes) \in Nat /\ from \in Nat /\ to \in Nat
  BY LenProperties
<1>2. PICK a \in Nat : a = from + 1
  BY <1>1
<1>3. \A i \in a .. to : bytes[i] \in Bytes
  <2>1. \A i \in a .. to : i \in 1 .. Len(bytes)
    BY <1>1, <1>2
  <2>2. QED BY <2>1, ElementOfSeq
<1>4. /\ SubSeq(bytes, a, to) \in Seq(Bytes)
      /\ Len(SubSeq(bytes, a, to)) = IF a <= to THEN to - a + 1 ELSE 0
      /\ \A i \in 1 .. to - a + 1 : SubSeq(bytes, a, to)[i] = bytes[a + i - 1]
  BY <1>1, <1>2, <1>3, SubSeqProperties
<1>5. Len(SubSeq(bytes, a, to)) = to - from
  BY <1>1, <1>2, <1>4
<1>6. ASSUME NEW n \in 1 .. (to - from) PROVE SubSeq(bytes, a, to)[n] = bytes[from + n]
  <2>1. n \in 1 .. to - a + 1 /\ a + n - 1 = from + n
    BY <1>1, <1>2
  <2>2. QED BY <1>4, <2>1
<1>7. QED BY <1>2, <1>4, <1>5, <1>6

\* A window stays one over its file however much of it is looked at next.
LEMMA ChunkTaken ==
  ASSUME NEW bytes \in Seq(Bytes), NEW w, Seen(w, bytes),
         NEW to \in w.offset .. Len(bytes)
  PROVE  LET v == StepWindow(w, SubSeq(bytes, w.offset + 1, to))
         IN  /\ Seen(v, bytes) /\ SameRequest(w, v)
             /\ v.finished \/ v.offset = to
             /\ v.offset <= to
             /\ w.finished => v = w
<1> DEFINE chunk == SubSeq(bytes, w.offset + 1, to)
<1>1. w.offset \in Nat /\ w.offset \in 0 .. Len(bytes) /\ to \in Nat /\ Len(bytes) \in Nat
  BY LenProperties DEF Seen
<1>2. /\ chunk \in Seq(Bytes) /\ Len(chunk) = to - w.offset
      /\ \A n \in 1 .. (to - w.offset) : chunk[n] = bytes[w.offset + n]
  BY <1>1, Chunk
<1> HIDE DEF chunk
<1>3. PICK size \in Nat : size = Len(chunk) /\ to = w.offset + size
  BY <1>1, <1>2
<1>4. PICK after :
        /\ after[0] = w
        /\ \A n \in 1 .. size : after[n] = Taken(after[n - 1], chunk[n])
        /\ StepWindow(w, chunk) = after[size]
  <2>1. chunk \in Seq(Bytes)
    BY <1>2
  <2>2. \E after :
          /\ after[0] = w
          /\ \A n \in 1 .. Len(chunk) : after[n] = Taken(after[n - 1], chunk[n])
          /\ StepWindow(w, chunk) = after[Len(chunk)]
    BY <2>1, WindowRun
  <2>3. QED BY <1>3, <2>2
<1> DEFINE Good(n) == /\ Seen(after[n], bytes) /\ SameRequest(w, after[n])
                      /\ after[n].finished \/ after[n].offset = w.offset + n
                      /\ after[n].offset <= w.offset + n
                      /\ w.finished => after[n] = w
           bad == {n \in 0 .. size : ~Good(n)}
<1>5. Good(0)
  <2>1. w.offset + 0 = w.offset /\ w.offset <= w.offset
    BY <1>1
  <2>2. QED BY <1>4, <2>1 DEF SameRequest
<1>6. ASSUME NEW n \in 1 .. size, Good(n - 1) PROVE Good(n)
  <2>1. PICK u : u = after[n - 1]
    OBVIOUS
  <2>2. after[n] = Taken(u, chunk[n])
    BY <1>4, <2>1
  <2>3. /\ Seen(u, bytes) /\ SameRequest(w, u)
        /\ u.finished \/ u.offset = w.offset + (n - 1)
        /\ u.offset <= w.offset + (n - 1)
        /\ w.finished => u = w
    BY <1>6, <2>1
  <2>4. CASE u.finished
    <3>1. after[n] = u
      BY <2>2, <2>4 DEF Taken
    <3>2. u.offset <= w.offset + n
      <4>1. PICK offset \in Nat : offset = u.offset
        BY <1>1, <2>3 DEF Seen
      <4>2. QED BY <1>1, <2>3, <4>1
    <3>3. QED BY <2>3, <2>4, <3>1, <3>2
  <2>5. CASE ~u.finished
    <3>1. u.offset < Len(bytes) /\ chunk[n] = bytes[u.offset + 1]
          /\ u.offset + 1 = w.offset + n
      <4>1. u.offset = w.offset + (n - 1) /\ n \in 1 .. (to - w.offset)
        BY <1>1, <1>3, <2>3, <2>5
      <4>2. u.offset + 1 = w.offset + n
        BY <1>1, <4>1
      <4>3. QED BY <1>1, <1>2, <4>1, <4>2
    <3>2. after[n] = TakeByte(u, bytes[u.offset + 1])
      BY <2>2, <2>5, <3>1 DEF Taken
    <3>3. LET v == TakeByte(u, bytes[u.offset + 1])
          IN  Seen(v, bytes) /\ SameRequest(u, v) /\ v.offset = u.offset + 1
      BY <2>3, <2>5, <3>1, ByteTaken
    <3>4. ~w.finished
      BY <2>3, <2>5
    <3>5. w.offset + n <= w.offset + n
      BY <1>1
    <3>6. QED BY <2>3, <3>1, <3>2, <3>3, <3>4, <3>5 DEF SameRequest
  <2>6. QED BY <2>4, <2>5
<1>7. bad = {}
  <2>1. SUFFICES ASSUME bad # {} PROVE FALSE
    OBVIOUS
  <2>2. PICK n \in bad : \A m \in bad : n <= m
    <3>1. bad \in SUBSET Nat
      OBVIOUS
    <3> HIDE DEF bad
    <3>2. QED BY <2>1, <3>1, LeastNumber
  <2> HIDE DEF Good
  <2>3. n \in 0 .. size /\ ~Good(n)
    OBVIOUS
  <2>4. n # 0
    BY <1>5, <2>3
  <2>5. n \in 1 .. size /\ n - 1 \in 0 .. size /\ ~(n <= n - 1)
    BY <2>3, <2>4
  <2>6. Good(n - 1)
    BY <2>2, <2>5
  <2>7. QED BY <1>6, <2>3, <2>5, <2>6
<1>8. Good(size)
  <2> HIDE DEF Good
  <2>1. QED BY <1>7
<1>9. QED BY <1>3, <1>4, <1>8 DEF chunk

-----------------------------------------------------------------------------
(* A new request, a request that starts from a checkpoint, and the end of  *)
(* the file.                                                               *)

LEMMA WindowBegins ==
  ASSUME NEW bytes \in Seq(Bytes), NEW enc \in TextEncodings,
         NEW first \in Nat \ {0}, NEW count \in Nat \ {0}
  PROVE  LET w == NewWindow(first, count, enc)
         IN  /\ Seen(w, bytes) /\ ~w.finished /\ w.offset = 0 /\ w.encoding = enc
             /\ w.first = first /\ w.last = first + count - 1
<1>1. PICK last \in Nat : last = first + count - 1 /\ first <= last
  OBVIOUS
<1>2. PICK w : w = NewWindow(first, count, enc)
  OBVIOUS
<1>3. /\ w \in Windows
      /\ w.first = first /\ w.last = last /\ w.encoding = enc /\ w.offset = 0
      /\ w.line = 0 /\ ~w.active /\ ~w.cr /\ w.half = Unset /\ w.from = Unset
      /\ ~w.finished /\ ~w.eof
  BY <1>1, <1>2 DEF NewWindow, Windows, Halves, Unset
<1>4. Len(bytes) \in Nat /\ 0 % UnitSize(enc) = 0
  BY LenProperties, UnitSizes
<1>5. FollowsUnits(w, bytes, 0)
  BY <1>1, <1>3, <1>4 DEF FollowsUnits, StartSeen, Begun
<1>6. UnitStart(w) = 0
  BY <1>3 DEF UnitStart
<1>7. Seen(w, bytes)
  BY <1>1, <1>3, <1>4, <1>5, <1>6 DEF Seen
<1>8. QED BY <1>1, <1>2, <1>3, <1>7

\* A checkpoint serves every later line.
LEMMA CheckpointServes ==
  ASSUME NEW bytes \in Seq(Bytes), NEW w, Seen(w, bytes), ~w.finished,
         NEW first \in Nat \ {0}, NEW count \in Nat \ {0}, w.line < first
  PROVE  LET v == Retarget(w, first, count)
         IN  /\ Seen(v, bytes) /\ ~v.finished /\ v.offset = w.offset /\ v.encoding = w.encoding
             /\ v.first = first /\ v.last = first + count - 1
<1>1. PICK last \in Nat : last = first + count - 1 /\ first <= last
  OBVIOUS
<1>2. PICK v : v = Retarget(w, first, count)
  OBVIOUS
<1>3. /\ w \in Windows /\ w.line \in Nat /\ w.offset \in 0 .. Len(bytes) /\ ~w.eof
      /\ FollowsUnits(w, bytes, UnitStart(w))
      /\ w.half # Unset =>
           IsUtf16(w.encoding) /\ 0 < w.offset /\ w.half = bytes[w.offset]
  BY DEF Seen, Windows
<1>4. /\ v \in Windows
      /\ v.first = first /\ v.last = last /\ v.encoding = w.encoding
      /\ v.offset = w.offset /\ v.line = w.line /\ v.half = w.half /\ v.from = Unset
      /\ (v.active <=> w.active) /\ (v.cr <=> w.cr)
      /\ ~v.finished /\ ~v.eof
  <2>1. PICK a : a = [w EXCEPT !.first = first]
    OBVIOUS
  <2>2. PICK b : b = [a EXCEPT !.last = last]
    OBVIOUS
  <2>3. v = [b EXCEPT !.from = Unset]
    BY <1>1, <1>2, <2>1, <2>2 DEF Retarget
  <2>4. /\ a \in Windows /\ a.first = first /\ a.encoding = w.encoding
        /\ a.offset = w.offset /\ a.line = w.line /\ a.half = w.half
        /\ (a.active <=> w.active) /\ (a.cr <=> w.cr)
        /\ (a.finished <=> w.finished) /\ (a.eof <=> w.eof)
    BY <1>3, <2>1 DEF Windows
  <2>5. /\ b \in Windows /\ b.first = first /\ b.last = last /\ b.encoding = w.encoding
        /\ b.offset = w.offset /\ b.line = w.line /\ b.half = w.half
        /\ (b.active <=> w.active) /\ (b.cr <=> w.cr)
        /\ (b.finished <=> w.finished) /\ (b.eof <=> w.eof)
    BY <2>2, <2>4 DEF Windows
  <2>6. Unset \in Int
    BY DEF Unset
  <2>7. v \in Windows
    BY <2>3, <2>5, <2>6, WindowPut
  <2>8. QED BY <1>3, <2>3, <2>5, <2>7 DEF Windows
<1>5. UnitStart(v) = UnitStart(w)
  BY <1>4 DEF UnitStart
<1>6. FollowsUnits(v, bytes, UnitStart(w))
  BY <1>1, <1>3, <1>4 DEF FollowsUnits, StartSeen
<1>7. Seen(v, bytes)
  BY <1>1, <1>3, <1>4, <1>5, <1>6 DEF Seen
<1>8. QED BY <1>1, <1>2, <1>4, <1>7

\* A window that has the answer to its request.
Answers(w, bytes) ==
  LET lines == LineCount(bytes, w.encoding)
  IN  /\ w.finished
      /\ w.from = IF w.first <= lines THEN LineStart(bytes, w.encoding, w.first) ELSE Unset
      /\ w.first <= lines =>
           w.to = LineEnd(bytes, w.encoding, IF w.last <= lines THEN w.last ELSE lines)

LEMMA EndAnswers ==
  ASSUME NEW bytes \in Seq(Bytes), NEW w \in Windows, w.finished, w.first <= w.last,
         FoundEnd(w, bytes)
  PROVE  Answers(w, bytes)
<1>1. LineCount(bytes, w.encoding) \in Nat /\ w.first \in Nat /\ w.last \in Nat
  BY EndsAreFinite, FS_CardinalityType DEF Windows, LineCount
<1>2. QED BY <1>1 DEF FoundEnd, StartSeen, Answers

\* All lines have begun when the last unit has.
LEMMA LinesOfAll ==
  ASSUME NEW bytes \in Seq(Bytes), NEW enc \in TextEncodings
  PROVE  /\ LineCount(bytes, enc) \in Nat
         /\ Begun(bytes, enc, Len(bytes)) = LineCount(bytes, enc)
         /\ \A p \in 0 .. Len(bytes) : Begun(bytes, enc, p) <= LineCount(bytes, enc)
         /\ Len(bytes) > 0 => /\ 1 + Upto(LineEnds(bytes, enc), Len(bytes) - 1) = LineCount(bytes, enc)
                              /\ LineEnd(bytes, enc, LineCount(bytes, enc)) = Len(bytes)
<1> DEFINE E == LineEnds(bytes, enc)
<1>1. PICK size \in Nat : size = Len(bytes)
  BY LenProperties
<1>2. E \in SUBSET Nat /\ IsFiniteSet(E) /\ E \subseteq 1 .. size
  BY <1>1, EndsAreFinite
<1>3. LineCount(bytes, enc) \in Nat /\ LineCount(bytes, enc) = Upto(E, size)
  <2>1. \A e \in E : e <= size
    <3> HIDE DEF E
    <3>1. \A e \in E : e \in 1 .. size
      BY <1>2
    <3>2. QED BY <3>1
  <2>2. E = {e \in E : e <= size}
    BY <2>1, Zenon
  <2>3. QED BY <1>2, <2>2, FS_CardinalityType DEF LineCount, Upto
<1>4. size > 0 => /\ 1 + Upto(E, size - 1) = LineCount(bytes, enc)
                  /\ Upto(E, size - 1) \in Nat
                  /\ LineEnd(bytes, enc, LineCount(bytes, enc)) = size
  <2>1. SUFFICES ASSUME size > 0
                 PROVE  /\ 1 + Upto(E, size - 1) = LineCount(bytes, enc)
                        /\ Upto(E, size - 1) \in Nat
                        /\ LineEnd(bytes, enc, LineCount(bytes, enc)) = size
    OBVIOUS
  <2>2. size \in E
    BY <1>1, <2>1, EndsAreFinite
  <2>3. LineEnd(bytes, enc, Upto(E, size)) = size
    BY <2>2, EndOfLine
  <2> HIDE DEF E
  <2>4. PICK q \in Nat : q = size - 1 /\ Upto(E, q) \in Nat
    <3>1. PICK q \in Nat : q = size - 1
      BY <2>1
    <3>2. Upto(E, q) \in Nat
      BY <1>2, UptoStep
    <3>3. QED BY <3>1, <3>2
  <2>5. Upto(E, size) = Upto(E, size - 1) + 1
    BY <1>2, <2>1, <2>2, UptoStep
  <2>6. QED BY <1>3, <2>3, <2>4, <2>5
<1>5. size = 0 => LineCount(bytes, enc) = 0
  <2>1. SUFFICES ASSUME size = 0 PROVE LineCount(bytes, enc) = 0
    OBVIOUS
  <2>2. E = {}
    BY <1>2, <2>1
  <2>3. QED BY <2>2, FS_EmptySet DEF LineCount
<1>6. ASSUME NEW p \in 0 .. size
      PROVE  Begun(bytes, enc, p) <= LineCount(bytes, enc)
  <2>1. CASE p = 0
    BY <1>3, <2>1 DEF Begun
  <2>2. CASE p # 0
    <3>1. PICK q \in Nat : q = p - 1 /\ q <= size - 1 /\ size - 1 \in Int /\ size > 0
      BY <2>2
    <3>2. Upto(E, q) \in Nat /\ Upto(E, q) <= Upto(E, size - 1)
      <4> HIDE DEF E
      <4>1. QED BY <1>2, <3>1, UptoGrows
    <3>3. Begun(bytes, enc, p) = 1 + Upto(E, q)
      BY <2>2, <3>1 DEF Begun
    <3> HIDE DEF E
    <3>4. QED BY <1>4, <3>1, <3>2, <3>3
  <2>3. QED BY <2>1, <2>2
<1>7. Begun(bytes, enc, size) = LineCount(bytes, enc)
  BY <1>4, <1>5 DEF Begun
<1>8. QED BY <1>1, <1>3, <1>4, <1>6, <1>7

\* A window that stops at the end of the file has seen every line begin.
LEMMA FileEndAnswers ==
  ASSUME NEW bytes \in Seq(Bytes), NEW w \in Windows,
         1 <= w.first, w.first <= w.last,
         w.line = LineCount(bytes, w.encoding), StartSeen(w, bytes), w.line <= w.last
  PROVE  Answers(ResolvedAt(w, Len(bytes)), bytes)
<1> DEFINE enc == w.encoding
           o == ResolvedAt(w, Len(bytes))
<1>1. enc \in TextEncodings /\ Len(bytes) \in Nat /\ w.first \in Nat /\ w.last \in Nat
  BY LenProperties DEF Windows
<1>2. /\ LineCount(bytes, enc) \in Nat
      /\ Len(bytes) > 0 => LineEnd(bytes, enc, LineCount(bytes, enc)) = Len(bytes)
      /\ Len(bytes) = 0 => LineCount(bytes, enc) = 0
  BY <1>1, LinesOfAll DEF Begun
<1>3. /\ o.finished /\ o.first = w.first /\ o.last = w.last /\ o.encoding = enc
      /\ o.from = w.from /\ o.to = Len(bytes)
  <2>1. PICK size \in Int : size = Len(bytes)
    BY <1>1
  <2>2. LET v == ResolvedAt(w, size)
        IN  /\ SameRequest(w, v) /\ v.from = w.from /\ v.to = size /\ v.finished
    BY <2>1, WindowResolved
  <2>3. QED BY <2>1, <2>2 DEF SameRequest
<1>4. w.from = IF w.first <= LineCount(bytes, enc) THEN LineStart(bytes, enc, w.first) ELSE Unset
  BY DEF StartSeen
<1>5. w.first <= LineCount(bytes, enc) =>
        LineEnd(bytes, enc, IF w.last <= LineCount(bytes, enc) THEN w.last
                                                  ELSE LineCount(bytes, enc)) = Len(bytes)
  BY <1>1, <1>2
<1> HIDE DEF o, enc
<1>6. Answers(o, bytes)
  BY <1>3, <1>4, <1>5 DEF Answers
<1>7. QED BY <1>6 DEF o

LEMMA WindowFinished ==
  ASSUME NEW bytes \in Seq(Bytes), NEW w, Seen(w, bytes),
         w.finished \/ w.offset = Len(bytes)
  PROVE  Answers(FinishWindow(w), bytes) /\ SameRequest(w, FinishWindow(w))
<1> DEFINE enc == w.encoding
           p == UnitStart(w)
<1>0. PICK ended : ended = [w EXCEPT !.eof = TRUE]
  OBVIOUS
<1>1. /\ w \in Windows /\ 1 <= w.first /\ w.first <= w.last
      /\ w.offset \in Nat /\ w.offset \in 0 .. Len(bytes) /\ Len(bytes) \in Nat
      /\ enc \in TextEncodings
  BY LenProperties DEF Seen, Windows
<1>2. /\ ended \in Windows /\ SameRequest(w, ended) /\ ended.line = w.line
      /\ ended.from = w.from /\ ended.to = w.to /\ ended.half = w.half
      /\ ended.offset = w.offset
      /\ (ended.cr <=> w.cr) /\ (ended.active <=> w.active)
      /\ (ended.finished <=> w.finished)
  <2>1. ended \in Windows
    BY <1>0, <1>1, WindowPut
  <2>2. /\ ended.first = w.first /\ ended.last = w.last /\ ended.encoding = w.encoding
        /\ ended.line = w.line
        /\ ended.from = w.from /\ ended.to = w.to /\ ended.half = w.half
        /\ ended.offset = w.offset
        /\ (ended.cr <=> w.cr) /\ (ended.active <=> w.active)
        /\ (ended.finished <=> w.finished)
    BY <1>0, <1>1 DEF Windows
  <2>3. QED BY <2>1, <2>2 DEF SameRequest
<1>3. CASE w.finished
  <2>1. FinishWindow(w) = ended
    BY <1>0, <1>2, <1>3 DEF FinishWindow
  <2>2. FoundEnd(w, bytes)
    BY <1>3 DEF Seen
  <2>3. FoundEnd(ended, bytes)
    BY <1>2, <2>2 DEF FoundEnd, StartSeen, SameRequest
  <2>4. Answers(ended, bytes)
    BY <1>1, <1>2, <1>3, <2>3, EndAnswers DEF SameRequest
  <2>5. QED BY <1>2, <2>1, <2>4
<1>4. CASE ~w.finished /\ w.half = Unset
  <2>1. FinishWindow(w) = ResolvedAt(ended, Len(bytes))
    BY <1>0, <1>2, <1>4 DEF FinishWindow
  <2>2. FollowsUnits(w, bytes, Len(bytes)) /\ ~ended.finished
    BY <1>2, <1>4 DEF Seen, UnitStart
  <2>3. w.line = LineCount(bytes, enc) /\ StartSeen(w, bytes) /\ w.line <= w.last
    BY <1>1, <2>2, LinesOfAll DEF FollowsUnits
  <2>4. StartSeen(ended, bytes)
    BY <1>2, <2>3 DEF StartSeen, SameRequest
  <2>5. /\ ended \in Windows /\ 1 <= ended.first /\ ended.first <= ended.last
        /\ ended.line = LineCount(bytes, ended.encoding) /\ ended.line <= ended.last
    BY <1>1, <1>2, <2>3 DEF SameRequest
  <2>6. Answers(ResolvedAt(ended, Len(bytes)), bytes)
    BY <2>4, <2>5, FileEndAnswers
  <2>7. SameRequest(ended, ResolvedAt(ended, Len(bytes)))
    BY <1>1, <2>5, WindowResolved
  <2>8. QED BY <1>2, <2>1, <2>6, <2>7 DEF SameRequest
<1>5. CASE ~w.finished /\ w.half # Unset
  <2>0. PICK whole : whole = [ended EXCEPT !.half = Unset]
    OBVIOUS
  <2>1. /\ whole \in Windows
        /\ SameRequest(w, whole) /\ whole.line = w.line /\ whole.from = w.from
        /\ (whole.cr <=> w.cr) /\ (whole.active <=> w.active) /\ ~whole.finished
        /\ whole.offset = w.offset
    <3>1. Unset \in Halves
      BY DEF Halves
    <3>2. whole \in Windows
      BY <1>2, <2>0, <3>1, WindowPut
    <3>3. /\ whole.first = ended.first /\ whole.last = ended.last
          /\ whole.encoding = ended.encoding /\ whole.line = ended.line
          /\ whole.from = ended.from /\ whole.offset = ended.offset
          /\ (whole.cr <=> ended.cr) /\ (whole.active <=> ended.active)
          /\ (whole.finished <=> ended.finished)
      BY <1>2, <2>0 DEF Windows
    <3>4. QED BY <1>2, <1>5, <3>2, <3>3 DEF SameRequest
  <2>2. /\ p = Len(bytes) - 1 /\ p \in 0 .. (Len(bytes) - 1)
        /\ IsUtf16(enc) /\ FollowsUnits(w, bytes, p)
    BY <1>1, <1>5 DEF Seen, UnitStart
  <2>3. FollowsUnits(whole, bytes, p)
    BY <2>1, <2>2 DEF FollowsUnits, StartSeen, SameRequest
  <2>4. UnitAt(bytes, p, enc) = 65535
    BY <1>1, <2>2 DEF UnitAt
  <2>5. PICK o : o = TakeUnit(whole, 65535, p, w.offset)
    OBVIOUS
  <2> HIDE DEF p
  <2>6. /\ o \in Windows /\ SameRequest(whole, o) /\ o.offset = whole.offset
        /\ o.finished => FoundEnd(o, bytes)
        /\ ~o.finished =>
             /\ o.line = 1 + Upto(LineEnds(bytes, whole.encoding), p)
             /\ StartSeen(o, bytes)
             /\ o.line <= o.last
    <3>1. 65535 = UnitAt(bytes, p, whole.encoding) /\ 65535 \in Nat /\ 65535 # LF
          /\ 1 <= whole.first /\ whole.first <= whole.last /\ w.offset \in Nat
      BY <1>1, <2>1, <2>4 DEF SameRequest, LF
    <3>2. QED BY <2>1, <2>2, <2>3, <2>5, <3>1, UnitTaken
  <2>7. SameRequest(w, o) /\ o.offset = Len(bytes)
    BY <1>5, <2>1, <2>6 DEF SameRequest
  <2>8. FinishWindow(w) = IF o.finished THEN o ELSE ResolvedAt(o, Len(bytes))
    <3>1. p = w.offset - 1 /\ w.offset = Len(bytes)
      BY <1>5, <2>2
    <3>2. QED BY <1>0, <1>5, <2>0, <2>5, <3>1 DEF FinishWindow
  <2>9. CASE o.finished
    <3>1. Answers(o, bytes)
      BY <1>1, <2>6, <2>7, <2>9, EndAnswers DEF SameRequest
    <3>2. QED BY <2>7, <2>8, <2>9, <3>1
  <2>10. CASE ~o.finished
    <3>1. o.line = LineCount(bytes, o.encoding)
      <4>1. 1 + Upto(LineEnds(bytes, enc), Len(bytes) - 1) = LineCount(bytes, enc)
        BY <1>1, <2>2, LinesOfAll
      <4>2. QED BY <2>1, <2>2, <2>6, <2>10, <4>1 DEF SameRequest
    <3>2. 1 <= o.first /\ o.first <= o.last
      BY <1>1, <2>7 DEF SameRequest
    <3>3. Answers(ResolvedAt(o, Len(bytes)), bytes)
      BY <2>6, <2>10, <3>1, <3>2, FileEndAnswers
    <3>4. SameRequest(o, ResolvedAt(o, Len(bytes)))
      BY <1>1, <2>6, WindowResolved
    <3>5. QED BY <2>7, <2>8, <2>10, <3>3, <3>4 DEF SameRequest
  <2>11. QED BY <2>9, <2>10
<1>6. QED BY <1>3, <1>4, <1>5

\* The first byte of a line is known as soon as the line has begun.
LEMMA StartKnown ==
  ASSUME NEW bytes \in Seq(Bytes), NEW w, Seen(w, bytes), w.from # Unset
  PROVE  w.first <= LineCount(bytes, w.encoding)
         /\ w.from = LineStart(bytes, w.encoding, w.first)
<1>1. /\ w \in Windows /\ w.first \in Nat /\ w.line \in Nat /\ w.last \in Nat
      /\ w.encoding \in TextEncodings /\ LineCount(bytes, w.encoding) \in Nat
  BY LinesOfAll DEF Seen, Windows
<1>2. StartSeen(w, bytes) /\ w.line <= LineCount(bytes, w.encoding)
  <2>1. CASE w.finished
    BY <1>1, <2>1 DEF Seen, FoundEnd
  <2>2. CASE ~w.finished
    <3>1. /\ UnitStart(w) \in 0 .. Len(bytes) /\ StartSeen(w, bytes)
          /\ w.line = Begun(bytes, w.encoding, UnitStart(w))
      BY <2>2 DEF Seen, FollowsUnits
    <3>2. QED BY <1>1, <3>1, LinesOfAll
  <2>3. QED BY <2>1, <2>2
<1>3. QED BY <1>1, <1>2 DEF StartSeen

-----------------------------------------------------------------------------
(* A reader's session.                                                     *)

\* What read_lines and read_position rely on: a checkpoint is a window over the
\* session's bytes that waits for its line, so every later request may resume
\* from it, and the window at work is such a window for the request.
LinesInv ==
  /\ lineFile.bytes \in Seq(Bytes) /\ lineFile.encoding \in TextEncodings
  /\ \A s \in DOMAIN checkpoints :
       /\ Seen(checkpoints[s], lineFile.bytes) /\ ~checkpoints[s].finished
       /\ checkpoints[s].encoding = lineFile.encoding
  /\ lineRequest.first \in Nat \ {0} /\ lineRequest.count \in Nat \ {0}
  /\ Answering =>
       /\ Seen(lineScan, lineFile.bytes)
       /\ lineScan.encoding = lineFile.encoding
       /\ lineScan.first = lineRequest.first
       /\ lineScan.last = lineRequest.first + lineRequest.count - 1
       /\ lineAnswer = Unanswered
  /\ CheckpointsServeAllLines

LEMMA LinesInitially == ASSUME ReaderLinesInit PROVE LinesInv
<1>1. lineFile \in [bytes : Seq(0 .. 255),
                    encoding : {"utf8", "utf8bom", "utf16le", "utf16be"}]
  BY LinesAssumption DEF ReaderLinesInit
<1>2. lineFile.bytes \in Seq(Bytes) /\ lineFile.encoding \in TextEncodings
  BY <1>1 DEF Bytes, TextEncodings
<1>3. \A s \in DOMAIN checkpoints : FALSE
  BY DEF ReaderLinesInit
<1>4. ~Answering /\ lineAnswer.kind = "none"
  BY DEF ReaderLinesInit, Answering, Unanswered, Says
<1>5. lineRequest.first \in Nat \ {0} /\ lineRequest.count \in Nat \ {0}
  BY DEF ReaderLinesInit
<1>6. QED BY <1>2, <1>3, <1>4, <1>5 DEF LinesInv, CheckpointsServeAllLines

\* No checkpoint is refused, and none answers at once.
LEMMA LinesAsked ==
  ASSUME LinesInv, NEW kind, NEW first \in Nat \ {0}, NEW count \in Nat \ {0},
         AskLines(kind, first, count)
  PROVE  LinesInv'
<1>1. /\ lineFile' = lineFile /\ checkpoints' = checkpoints
      /\ lineRequest' = [kind |-> kind, first |-> first, count |-> count]
  BY DEF AskLines
<1>2. /\ lineFile.bytes \in Seq(Bytes) /\ lineFile.encoding \in TextEncodings
      /\ \A s \in DOMAIN checkpoints :
           /\ Seen(checkpoints[s], lineFile.bytes) /\ ~checkpoints[s].finished
           /\ checkpoints[s].encoding = lineFile.encoding
  BY DEF LinesInv
<1>3. lineRequest'.first = first /\ lineRequest'.count = count
  BY <1>1
<1>4. CASE /\ lineScan' = NewWindow(first, count, lineFile.encoding)
           /\ lineAnswer' = Unanswered
  <2>1. LET w == NewWindow(first, count, lineFile.encoding)
        IN  /\ Seen(w, lineFile.bytes) /\ w.encoding = lineFile.encoding
            /\ w.first = first /\ w.last = first + count - 1
    <3>1. PICK bytes \in Seq(Bytes) : bytes = lineFile.bytes
      BY <1>2
    <3>2. PICK enc \in TextEncodings : enc = lineFile.encoding
      BY <1>2
    <3>3. PICK w : w = NewWindow(first, count, enc)
      OBVIOUS
    <3>4. Seen(w, bytes)
      BY <3>3, WindowBegins
    <3>5. w.encoding = enc
      BY <3>3 DEF NewWindow
    <3>6. w.first = first /\ w.last = first + count - 1
      BY <3>3 DEF NewWindow
    <3>7. QED BY <3>1, <3>2, <3>3, <3>4, <3>5, <3>6
  <2>2. lineAnswer'.kind = "none"
    BY <1>4 DEF Unanswered, Says
  <2>3. /\ Seen(lineScan', lineFile.bytes) /\ lineScan'.encoding = lineFile.encoding
        /\ lineScan'.first = first /\ lineScan'.last = first + count - 1
    BY <1>4, <2>1
  <2>4. CheckpointsServeAllLines'
    BY <2>2 DEF CheckpointsServeAllLines
  <2>5. QED BY <1>1, <1>2, <1>3, <1>4, <2>3, <2>4 DEF LinesInv
<1>5. ASSUME NEW w \in Furthest(first),
             IF CanRetarget(w, first)
             THEN /\ lineScan' = Retarget(w, first, count)
                  /\ lineAnswer' = Unanswered
             ELSE /\ lineScan' = NoCursor /\ lineAnswer' = Says("invalid", <<>>)
      PROVE  LinesInv'
  <2>1. PICK s \in DOMAIN checkpoints : w = checkpoints[s]
    BY DEF Furthest
  <2>2. Seen(w, lineFile.bytes) /\ ~w.finished /\ w.encoding = lineFile.encoding
    BY <1>2, <2>1
  <2>3. w.line < first /\ ~w.eof /\ w.line \in Nat
    BY <2>2 DEF Furthest, Usable, Seen, Windows
  <2>4. CanRetarget(w, first)
    BY <2>2, <2>3 DEF CanRetarget
  <2>5. lineScan' = Retarget(w, first, count) /\ lineAnswer' = Unanswered
    BY <1>5, <2>4
  <2>6. LET v == Retarget(w, first, count)
        IN  /\ Seen(v, lineFile.bytes) /\ v.encoding = w.encoding
            /\ v.first = first /\ v.last = first + count - 1
    <3>1. PICK bytes \in Seq(Bytes) : bytes = lineFile.bytes
      BY <1>2
    <3>2. Seen(w, bytes) /\ ~w.finished /\ w.line < first
      BY <2>2, <2>3, <3>1
    <3>3. LET v == Retarget(w, first, count)
          IN  /\ Seen(v, bytes) /\ v.encoding = w.encoding
              /\ v.first = first /\ v.last = first + count - 1
      BY <3>2, CheckpointServes
    <3>4. QED BY <3>1, <3>3
  <2>7. lineAnswer'.kind = "none"
    BY <2>5 DEF Unanswered, Says
  <2>8. /\ Seen(lineScan', lineFile.bytes) /\ lineScan'.encoding = lineFile.encoding
        /\ lineScan'.first = first /\ lineScan'.last = first + count - 1
    BY <2>2, <2>5, <2>6
  <2>9. CheckpointsServeAllLines'
    BY <2>7 DEF CheckpointsServeAllLines
  <2>10. QED BY <1>1, <1>2, <1>3, <2>5, <2>8, <2>9 DEF LinesInv
<1>6. QED BY <1>4, <1>5 DEF AskLines

\* The next chunk of the session's bytes.
LEMMA LinesLookedAt == ASSUME LinesInv, LookOn PROVE LinesInv'
<1> DEFINE bytes == lineFile.bytes
           to == UpTo(lineScan.offset + LineScanStep)
<1>0. PICK w : w = StepWindow(lineScan, NextChunk(lineScan))
  OBVIOUS
<1>1. /\ lineFile' = lineFile /\ lineRequest' = lineRequest /\ lineAnswer' = lineAnswer
      /\ lineScan' = w
      /\ checkpoints' = IF Keeps(w)
                        THEN [s \in DOMAIN checkpoints \cup {Slot(w)} |->
                                IF s = Slot(w) THEN w ELSE checkpoints[s]]
                        ELSE checkpoints
  BY <1>0 DEF LookOn
<1>2. /\ bytes \in Seq(Bytes) /\ lineFile.encoding \in TextEncodings
      /\ \A s \in DOMAIN checkpoints :
           /\ Seen(checkpoints[s], bytes) /\ ~checkpoints[s].finished
           /\ checkpoints[s].encoding = lineFile.encoding
      /\ lineRequest.first \in Nat \ {0} /\ lineRequest.count \in Nat \ {0}
  BY DEF LinesInv
<1>3. /\ Seen(lineScan, bytes) /\ lineScan.encoding = lineFile.encoding
      /\ lineScan.first = lineRequest.first
      /\ lineScan.last = lineRequest.first + lineRequest.count - 1
      /\ lineAnswer = Unanswered /\ lineScan.offset < Len(bytes)
  BY DEF LookOn, Looking, LinesInv, FileLength
<1>4. to \in lineScan.offset .. Len(bytes)
  <2>1. lineScan.offset \in 0 .. Len(bytes) /\ Len(bytes) \in Nat /\ LineScanStep \in Nat
    BY <1>2, <1>3, LinesAssumption, LenProperties DEF Seen
  <2>2. QED BY <1>3, <2>1 DEF UpTo, FileLength
<1>5. NextChunk(lineScan) = SubSeq(bytes, lineScan.offset + 1, to)
  BY DEF NextChunk
<1> HIDE DEF bytes, to
<1>6. Seen(w, bytes) /\ SameRequest(lineScan, w)
  <2>1. w = StepWindow(lineScan, SubSeq(bytes, lineScan.offset + 1, to))
    BY <1>0, <1>5
  <2>2. QED BY <1>2, <1>3, <1>4, <2>1, ChunkTaken
<1>7. /\ w.encoding = lineFile.encoding /\ w.first = lineRequest.first
      /\ w.last = lineRequest.first + lineRequest.count - 1
  BY <1>3, <1>6 DEF SameRequest
<1>8. ASSUME NEW s \in DOMAIN checkpoints'
      PROVE  /\ Seen(checkpoints'[s], bytes) /\ ~checkpoints'[s].finished
             /\ checkpoints'[s].encoding = lineFile.encoding
  <2>1. CASE Keeps(w)
    <3>1. ~w.finished
      BY <2>1 DEF Keeps, HasEnough
    <3>2. checkpoints'[s] = w \/ (s \in DOMAIN checkpoints /\ checkpoints'[s] = checkpoints[s])
      BY <1>1, <1>8, <2>1
    <3>3. QED BY <1>2, <1>6, <1>7, <3>1, <3>2
  <2>2. CASE ~Keeps(w)
    BY <1>1, <1>2, <1>8, <2>2
  <2>3. QED BY <2>1, <2>2
<1>9. CheckpointsServeAllLines'
  <2>1. lineAnswer'.kind = "none"
    BY <1>1, <1>3 DEF Unanswered, Says
  <2>2. QED BY <2>1 DEF CheckpointsServeAllLines
<1>10. QED BY <1>1, <1>2, <1>3, <1>6, <1>7, <1>8, <1>9 DEF LinesInv, bytes

\* What is said of a request when its window has enough, or the file has ended.
LEMMA AnswersAreDemanded ==
  ASSUME LinesInv, AnswerLines
  PROVE  lineAnswer' = CASE Demanded = <<>> -> Says("missing", <<>>)
                        [] Demanded # <<>> /\ lineRequest.kind = "position" ->
                             Says("found", <<Demanded[1]>>)
                        [] OTHER -> Says("found", Demanded)
<1> DEFINE bytes == lineFile.bytes
           enc == lineFile.encoding
           first == lineRequest.first
           lines == LineCount(bytes, enc)
           last == lineRequest.first + lineRequest.count - 1
           start == LineStart(bytes, enc, first)
           end == LineEnd(bytes, enc, IF last <= lines THEN last ELSE lines)
<1>1. /\ bytes \in Seq(Bytes) /\ enc \in TextEncodings
      /\ first \in Nat \ {0} /\ lineRequest.count \in Nat \ {0}
      /\ Seen(lineScan, bytes) /\ lineScan.encoding = enc
      /\ lineScan.first = first /\ lineScan.last = last
  BY DEF LinesInv, AnswerLines
<1>2. lines \in Nat
  BY <1>1, LinesOfAll
<1>3. first <= lines => start # Unset
  BY <1>1, <1>2, LinesStart
<1>4. Demanded = IF first > lines THEN <<>> ELSE <<start, end>>
  BY DEF Demanded, TrueWindow
<1>5. PICK w : /\ w = IF HasEnough(lineScan) THEN lineScan ELSE FinishWindow(lineScan)
               /\ lineAnswer' = Answer(w)
  BY DEF AnswerLines
<1>6. \/ lineRequest.kind = "position" /\ w.from # Unset /\ first <= lines /\ w.from = start
      \/ /\ w.from = IF first <= lines THEN start ELSE Unset
         /\ first <= lines => w.to = end
  <2>1. CASE HasEnough(lineScan) /\ lineScan.finished
    <3>1. FoundEnd(lineScan, bytes) /\ lineScan \in Windows /\ lineScan.first <= lineScan.last
      BY <1>1, <2>1 DEF Seen
    <3>2. Answers(lineScan, bytes)
      BY <1>1, <2>1, <3>1, EndAnswers
    <3>3. w = lineScan
      BY <1>5, <2>1
    <3>4. QED BY <1>1, <3>2, <3>3 DEF Answers
  <2>2. CASE HasEnough(lineScan) /\ ~lineScan.finished
    <3>1. lineRequest.kind = "position" /\ lineScan.from # Unset /\ w = lineScan
      BY <1>5, <2>2 DEF HasEnough
    <3>2. QED BY <1>1, <3>1, StartKnown
  <2>3. CASE ~HasEnough(lineScan)
    <3>1. lineScan.offset = Len(bytes)
      <4>1. ~(lineScan.offset < Len(bytes))
        BY <2>3 DEF AnswerLines, Looking, FileLength
      <4>2. lineScan.offset \in 0 .. Len(bytes) /\ Len(bytes) \in Nat
        BY <1>1, LenProperties DEF Seen
      <4>3. QED BY <4>1, <4>2
    <3>2. w = FinishWindow(lineScan)
      BY <1>5, <2>3
    <3>3. Answers(w, bytes) /\ SameRequest(lineScan, w)
      BY <1>1, <3>1, <3>2, WindowFinished
    <3>4. w.first = first /\ w.last = last /\ w.encoding = enc
      BY <1>1, <3>3 DEF SameRequest
    <3>5. QED BY <3>3, <3>4 DEF Answers
  <2>4. QED BY <2>1, <2>2, <2>3
<1> HIDE DEF start, end, lines, first, last, enc, bytes
<1>7. <<start, end>> # <<>> /\ <<start, end>>[1] = start
  OBVIOUS
<1>8. CASE first > lines
  <2>1. w.from = Unset /\ Demanded = <<>>
    BY <1>1, <1>2, <1>4, <1>6, <1>8
  <2>2. QED BY <1>5, <2>1 DEF Answer
<1>9. CASE first <= lines
  <2>1. Demanded = <<start, end>> /\ w.from = start /\ w.from # Unset
    BY <1>1, <1>2, <1>3, <1>4, <1>6, <1>9
  <2>2. lineRequest.kind # "position" => w.to = end
    BY <1>6, <1>9
  <2>3. CASE lineRequest.kind = "position"
    BY <1>5, <1>7, <2>1, <2>3 DEF Answer
  <2>4. CASE lineRequest.kind # "position"
    BY <1>5, <1>7, <2>1, <2>2, <2>4 DEF Answer
  <2>5. QED BY <2>3, <2>4
<1>10. QED BY <1>1, <1>2, <1>8, <1>9

LEMMA LinesAnswered == ASSUME LinesInv, AnswerLines PROVE LinesInv'
<1>1. /\ lineFile' = lineFile /\ lineRequest' = lineRequest
      /\ checkpoints' = checkpoints /\ ~Answering'
  BY DEF AnswerLines, Answering
<1>2. Demanded' = Demanded
  BY <1>1 DEF Demanded
<1>3. CheckpointsServeAllLines'
  BY <1>1, <1>2, AnswersAreDemanded DEF CheckpointsServeAllLines
<1>4. QED BY <1>1, <1>3 DEF LinesInv

LEMMA LinesCanceled == ASSUME LinesInv, CancelLines PROVE LinesInv'
<1>1. /\ lineFile' = lineFile /\ lineRequest' = lineRequest
      /\ checkpoints' = checkpoints /\ ~Answering' /\ lineAnswer'.kind = "canceled"
  BY DEF CancelLines, Answering, Says
<1>2. CheckpointsServeAllLines'
  BY <1>1 DEF CheckpointsServeAllLines
<1>3. QED BY <1>1, <1>2 DEF LinesInv

LEMMA LinesStep == ASSUME LinesInv, [ReaderLinesNext]_linesVars PROVE LinesInv'
<1>1. ASSUME NEW first \in 1 .. MaxLine, NEW count \in 1 .. 2, AskLines("lines", first, count)
      PROVE  LinesInv'
  <2>1. first \in Nat \ {0} /\ count \in Nat \ {0}
    BY LinesAssumption
  <2>2. QED BY <1>1, <2>1, LinesAsked
<1>2. ASSUME NEW first \in 1 .. MaxLine, AskLines("position", first, 1)
      PROVE  LinesInv'
  <2>1. first \in Nat \ {0} /\ 1 \in Nat \ {0}
    BY LinesAssumption
  <2>2. QED BY <1>2, <2>1, LinesAsked
<1>3. CASE LookOn
  BY <1>3, LinesLookedAt
<1>4. CASE AnswerLines
  BY <1>4, LinesAnswered
<1>5. CASE CancelLines
  BY <1>5, LinesCanceled
<1>6. CASE UNCHANGED linesVars
  <2>1. /\ lineFile' = lineFile /\ checkpoints' = checkpoints /\ lineScan' = lineScan
        /\ lineRequest' = lineRequest /\ lineAnswer' = lineAnswer
    BY <1>6 DEF linesVars
  <2>2. CheckpointsServeAllLines'
    BY <2>1 DEF LinesInv, CheckpointsServeAllLines, Answering, Demanded
  <2>3. QED BY <2>1, <2>2 DEF LinesInv, Answering
<1>7. QED BY <1>1, <1>2, <1>3, <1>4, <1>5, <1>6 DEF ReaderLinesNext

\* A request for lines, or for a position, of a reader's session is answered with
\* the bytes of its lines, whatever was asked before it, wherever the chunks of a
\* scan end and whichever of the earlier requests were canceled: read_lines and
\* read_position never find a checkpoint that they cannot resume from.
THEOREM SessionsServeAllLines == ReaderLinesSpec => []CheckpointsServeAllLines
<1>1. LinesInv => CheckpointsServeAllLines
  BY DEF LinesInv
<1>2. QED BY <1>1, LinesInitially, LinesStep, PTL DEF ReaderLinesSpec

-----------------------------------------------------------------------------
(* Where a window's lines lie.                                             *)

LEMMA LineEndsBy ==
  ASSUME NEW bytes \in Seq(Bytes), NEW enc \in TextEncodings,
         NEW n \in 1 .. LineCount(bytes, enc), NEW q \in Int
  PROVE  /\ LineEnd(bytes, enc, n) \in Nat /\ LineEnd(bytes, enc, n) <= Len(bytes)
         /\ LineEnd(bytes, enc, n) <= q <=> n <= Upto(LineEnds(bytes, enc), q)
<1> DEFINE E == LineEnds(bytes, enc)
<1>1. PICK e : e = LineEnd(bytes, enc, n)
  OBVIOUS
<1>2. LineCount(bytes, enc) \in Nat /\ e \in E /\ Upto(E, e) = n
  BY <1>1, EveryLineEnds
<1>3. E \in SUBSET Nat /\ IsFiniteSet(E) /\ e \in 1 .. Len(bytes) /\ Len(bytes) \in Nat
  BY <1>2, EndsAreFinite, LenProperties
<1> HIDE DEF E
<1>4. Upto(E, q) \in Nat
  <2>1. q <= q
    OBVIOUS
  <2>2. QED BY <1>3, <2>1, UptoGrows
<1>5. e <= q => n <= Upto(E, q)
  <2>1. e \in Int
    BY <1>3
  <2>2. QED BY <1>2, <1>3, <2>1, UptoGrows
<1>6. n <= Upto(E, q) => e <= q
  <2>1. SUFFICES ASSUME ~(e <= q) PROVE Upto(E, q) < n
    BY <1>2, <1>4
  <2>2. PICK d \in Nat : d = e - 1 /\ q <= d
    BY <1>3, <2>1
  <2>3. Upto(E, q) <= Upto(E, d) /\ Upto(E, d) \in Nat
    BY <1>3, <2>2, UptoGrows
  <2>4. Upto(E, e) = Upto(E, d) + 1
    <3>1. e \in Nat /\ e > 0 /\ d = e - 1
      BY <1>3, <2>2
    <3>2. Upto(E, e) = Upto(E, e - 1) + (IF e \in E THEN 1 ELSE 0)
      BY <1>3, <3>1, UptoStep
    <3>3. QED BY <1>2, <3>1, <3>2
  <2>5. QED BY <1>2, <1>4, <2>3, <2>4
<1>7. QED BY <1>1, <1>3, <1>5, <1>6 DEF E

\* What has not begun begins, and ends, behind what was looked at.
LEMMA BegunBefore ==
  ASSUME NEW bytes \in Seq(Bytes), NEW enc \in TextEncodings,
         NEW n \in 1 .. LineCount(bytes, enc), NEW p \in 0 .. Len(bytes)
  PROVE  /\ LineStart(bytes, enc, n) \in Nat /\ LineStart(bytes, enc, n) <= Len(bytes)
         /\ Begun(bytes, enc, p) \in Nat
         /\ Begun(bytes, enc, p) <= n => p <= LineEnd(bytes, enc, n)
         /\ Begun(bytes, enc, p) < n => p <= LineStart(bytes, enc, n)
         /\ n <= Begun(bytes, enc, p) => LineStart(bytes, enc, n) <= p
         /\ LineStart(bytes, enc, n) <= LineEnd(bytes, enc, n)
<1> DEFINE E == LineEnds(bytes, enc)
<1>1. LineCount(bytes, enc) \in Nat /\ Len(bytes) \in Nat /\ p \in Nat
  BY LinesOfAll, LenProperties
<1>2. E \in SUBSET Nat /\ IsFiniteSet(E)
  BY EndsAreFinite, LenProperties
<1>3. PICK q \in Int : q = p - 1
  BY <1>1
<1>4. Upto(E, q) \in Nat
  <2>1. q <= q
    OBVIOUS
  <2> HIDE DEF E
  <2>2. QED BY <1>2, <2>1, UptoGrows
<1>5. Begun(bytes, enc, p) = IF p = 0 THEN 0 ELSE 1 + Upto(E, q)
  BY <1>3 DEF Begun
<1>6. PICK e : e = LineEnd(bytes, enc, n)
  OBVIOUS
<1>7. e \in Nat /\ (e <= q <=> n <= Upto(E, q)) /\ e <= Len(bytes)
  BY <1>6, LineEndsBy
<1> HIDE DEF E
<1>8. Begun(bytes, enc, p) \in Nat /\ (Begun(bytes, enc, p) <= n => p <= e)
  BY <1>1, <1>3, <1>4, <1>5, <1>7
<1>9. CASE n = 1
  <2>1. LineStart(bytes, enc, n) = 0
    BY <1>9 DEF LineStart
  <2>2. Begun(bytes, enc, p) < 1 => p <= 0
    BY <1>4, <1>5
  <2>3. QED BY <1>1, <1>6, <1>7, <1>8, <1>9, <2>1, <2>2
<1>10. CASE n # 1
  <2>1. PICK m \in 1 .. LineCount(bytes, enc) : m = n - 1
    BY <1>1, <1>10
  <2>2. PICK s : s = LineEnd(bytes, enc, m)
    OBVIOUS
  <2>3. s \in Nat /\ s <= Len(bytes) /\ (s <= q <=> m <= Upto(E, q))
        /\ (s <= e <=> m <= Upto(E, e))
    <3>1. e \in Int
      BY <1>7
    <3>2. QED BY <2>2, <3>1, <1>7, LineEndsBy DEF E
  <2>4. s = LineStart(bytes, enc, n)
    BY <1>10, <2>1, <2>2 DEF LineStart
  <2>5. s <= e
    <3>1. Upto(E, e) = n
      BY <1>6, EveryLineEnds DEF E
    <3>2. QED BY <1>1, <2>1, <2>3, <3>1
  <2>6. Begun(bytes, enc, p) < n => p <= s
    BY <1>1, <1>3, <1>4, <1>5, <2>1, <2>3
  <2>7. n <= Begun(bytes, enc, p) => s <= p
    BY <1>1, <1>3, <1>4, <1>5, <2>1, <2>3
  <2>8. QED BY <1>6, <1>8, <2>3, <2>4, <2>5, <2>6, <2>7
<1>11. QED BY <1>9, <1>10

\* What a window has found is in what it was shown.
LEMMA WindowPlaces ==
  ASSUME NEW bytes \in Seq(Bytes), NEW w, Seen(w, bytes)
  PROVE  /\ w.offset \in Nat /\ w.offset <= Len(bytes)
         /\ w.from # Unset =>
              w.from \in Nat /\ w.from <= w.offset /\ w.first <= LineCount(bytes, w.encoding)
         /\ w.finished =>
              /\ w.from # Unset /\ w.to \in Nat /\ w.from <= w.to /\ w.to <= w.offset
              /\ w.last <= LineCount(bytes, w.encoding)
              /\ w.to = LineEnd(bytes, w.encoding, w.last)
<1> DEFINE enc == w.encoding
<1>1. /\ w \in Windows /\ enc \in TextEncodings /\ w.offset \in 0 .. Len(bytes)
      /\ Len(bytes) \in Nat /\ w.first \in Nat /\ w.last \in Nat /\ w.line \in Nat
      /\ 1 <= w.first /\ w.first <= w.last /\ LineCount(bytes, enc) \in Nat
  BY LenProperties, LinesOfAll DEF Seen, Windows
<1>2. CASE w.finished
  <2>1. /\ w.line = w.last /\ w.from = LineStart(bytes, enc, w.first)
        /\ w.to = LineEnd(bytes, enc, w.last) /\ w.last <= LineCount(bytes, enc)
        /\ w.to <= w.offset
    BY <1>1, <1>2 DEF Seen, FoundEnd, StartSeen
  <2>2. PICK first \in 1 .. LineCount(bytes, enc) : first = w.first
    BY <1>1, <2>1
  <2>3. PICK last \in 1 .. LineCount(bytes, enc) : last = w.last
    BY <1>1, <2>1
  <2>4. w.from # Unset /\ w.from \in Nat
    BY <1>1, <2>1, <2>2, LinesStart
  <2>5. w.to \in Nat
    BY <2>1, <2>3, LineEndsBy, <1>1
  <2>6. w.from <= w.to
    <3>1. 0 \in 0 .. Len(bytes)
      BY <1>1
    <3>2. PICK e : e = LineEnd(bytes, enc, first)
      OBVIOUS
    <3>3. LineStart(bytes, enc, first) <= e
      BY <3>1, <3>2, BegunBefore, <1>1
    <3>4. e \in Nat /\ (e <= w.to <=> first <= Upto(LineEnds(bytes, enc), w.to))
      BY <1>1, <2>5, <3>2, LineEndsBy
    <3>5. Upto(LineEnds(bytes, enc), w.to) = last
      BY <1>1, <2>1, <2>3, EveryLineEnds
    <3>6. QED BY <1>1, <2>1, <2>2, <2>3, <2>4, <2>5, <3>3, <3>4, <3>5
  <2>7. QED BY <1>1, <1>2, <2>1, <2>2, <2>4, <2>5, <2>6
<1>3. CASE ~w.finished
  <2>1. /\ UnitStart(w) \in 0 .. Len(bytes) /\ w.line = Begun(bytes, enc, UnitStart(w))
        /\ StartSeen(w, bytes)
    BY <1>3 DEF Seen, FollowsUnits
  <2>2. UnitStart(w) <= w.offset
    BY <1>1 DEF UnitStart
  <2>3. ASSUME w.from # Unset
        PROVE  w.from \in Nat /\ w.from <= w.offset /\ w.first <= LineCount(bytes, w.encoding)
    <3>1. w.first <= w.line /\ w.from = LineStart(bytes, enc, w.first)
      BY <2>1, <2>3 DEF StartSeen
    <3>2. w.line <= LineCount(bytes, enc)
      BY <1>1, <2>1, LinesOfAll
    <3>3. PICK first \in 1 .. LineCount(bytes, enc) : first = w.first
      BY <1>1, <3>1, <3>2
    <3>4. LineStart(bytes, enc, first) \in Nat /\ LineStart(bytes, enc, first) <= UnitStart(w)
      BY <1>1, <2>1, <3>1, <3>3, BegunBefore
    <3>5. QED BY <1>1, <2>1, <2>2, <3>1, <3>3, <3>4
  <2>4. QED BY <1>1, <1>3, <2>3
<1>4. QED BY <1>2, <1>3

\* What a window finds later lies no further back than the unit it is in.
LEMMA LaterPlaces ==
  ASSUME NEW bytes \in Seq(Bytes), NEW w, Seen(w, bytes), ~w.finished
  PROVE  /\ w.from = Unset /\ w.first <= LineCount(bytes, w.encoding) =>
              w.offset <= LineStart(bytes, w.encoding, w.first) + 1
         /\ \A n \in 1 .. LineCount(bytes, w.encoding) :
              w.line <= n => w.offset <= LineEnd(bytes, w.encoding, n) + 1
         /\ w.line <= w.last /\ w.line <= LineCount(bytes, w.encoding)
<1> DEFINE enc == w.encoding
<1>1. /\ enc \in TextEncodings /\ w.offset \in 0 .. Len(bytes)
      /\ Len(bytes) \in Nat /\ w.first \in Nat /\ w.line \in Nat
      /\ 1 <= w.first /\ LineCount(bytes, enc) \in Nat
  BY LenProperties, LinesOfAll DEF Seen, Windows
<1>2. PICK p \in 0 .. Len(bytes) : p = UnitStart(w)
  BY DEF Seen, FollowsUnits
<1>3. w.line = Begun(bytes, enc, p) /\ StartSeen(w, bytes) /\ w.line <= w.last
  BY <1>2 DEF Seen, FollowsUnits
<1>4. w.offset <= p + 1
  BY <1>1, <1>2 DEF UnitStart
<1>5. ASSUME w.from = Unset, w.first <= LineCount(bytes, enc)
      PROVE  w.offset <= LineStart(bytes, enc, w.first) + 1
  <2>1. PICK first \in 1 .. LineCount(bytes, enc) : first = w.first
    BY <1>1, <1>5
  <2>2. LineStart(bytes, enc, first) # Unset
    BY <1>1, LinesStart
  <2>3. ~(w.first <= w.line)
    BY <1>3, <1>5, <2>1, <2>2 DEF StartSeen
  <2>4. p <= LineStart(bytes, enc, first) /\ LineStart(bytes, enc, first) \in Nat
    BY <1>1, <1>3, <2>1, <2>3, BegunBefore
  <2>5. QED BY <1>1, <1>4, <2>1, <2>4
<1>6. ASSUME NEW n \in 1 .. LineCount(bytes, enc), w.line <= n
      PROVE  w.offset <= LineEnd(bytes, enc, n) + 1
  <2>1. p <= LineEnd(bytes, enc, n)
    BY <1>1, <1>3, <1>6, BegunBefore
  <2>2. 0 \in Int
    OBVIOUS
  <2>3. LineEnd(bytes, enc, n) \in Nat
    BY <1>1, <2>2, LineEndsBy
  <2>4. QED BY <1>1, <1>4, <2>1, <2>3
<1>7. w.line <= LineCount(bytes, enc)
  BY <1>1, <1>3, LinesOfAll
<1>8. QED BY <1>3, <1>5, <1>6, <1>7

\* The first byte that a window has found stays where it is.
LEMMA StartStays ==
  ASSUME NEW bytes \in Seq(Bytes), NEW w, Seen(w, bytes), NEW v, Seen(v, bytes),
         SameRequest(w, v), w.from # Unset, ~w.finished,
         v.finished \/ w.offset < v.offset
  PROVE  v.from = w.from
<1> DEFINE enc == w.encoding
<1>1. /\ enc \in TextEncodings /\ w.first <= LineCount(bytes, enc)
      /\ w.from = LineStart(bytes, enc, w.first)
      /\ w.first \in Nat /\ 1 <= w.first /\ LineCount(bytes, enc) \in Nat
      /\ w.offset \in Nat /\ v.offset \in Nat
      /\ v.encoding = enc /\ v.first = w.first
  BY StartKnown, LinesOfAll DEF Seen, Windows, SameRequest
<1>2. CASE v.finished
  <2>1. v.from # Unset
    BY <1>2, WindowPlaces
  <2>2. QED BY <1>1, <2>1, StartKnown
<1>3. CASE ~v.finished
  <2>1. SUFFICES ASSUME v.from = Unset PROVE FALSE
    BY <1>1, StartKnown
  <2>2. PICK p \in 0 .. Len(bytes) : p = UnitStart(w)
    BY DEF Seen, FollowsUnits
  <2>3. PICK q \in 0 .. Len(bytes) : q = UnitStart(v)
    BY <1>3 DEF Seen, FollowsUnits
  <2>4. p <= q
    BY <1>1, <1>3, <2>2, <2>3 DEF UnitStart
  <2>5. w.first <= Begun(bytes, enc, p)
    BY <1>1, <2>2 DEF Seen, FollowsUnits, StartSeen
  <2>6. ~(w.first <= Begun(bytes, enc, q))
    BY <1>1, <1>3, <2>1, <2>3 DEF Seen, FollowsUnits, StartSeen
  <2>7. PICK first \in 1 .. LineCount(bytes, enc) : first = w.first
    BY <1>1
  <2>8. LineStart(bytes, enc, first) <= p
    BY <1>1, <2>5, <2>7, BegunBefore
  <2>9. /\ q <= LineStart(bytes, enc, first) /\ LineStart(bytes, enc, first) \in Nat
    <3>1. Begun(bytes, enc, q) \in Nat
      BY <1>1, <2>7, BegunBefore
    <3>2. Begun(bytes, enc, q) < first
      BY <1>1, <2>6, <2>7, <3>1
    <3>3. QED BY <1>1, <3>2, <2>7, BegunBefore
  <2>10. p = q
    BY <2>2, <2>3, <2>4, <2>8, <2>9
  <2>11. QED BY <2>5, <2>6, <2>10
<1>4. QED BY <1>2, <1>3

-----------------------------------------------------------------------------
(* Encodings that cut a file alike.                                        *)

SameText(enc, other) == enc = other \/ (~IsUtf16(enc) /\ ~IsUtf16(other))

LineEndIn(ends, n) == CHOOSE e \in ends : Cardinality({f \in ends : f <= e}) = n

LEMMA SameLineEnds ==
  ASSUME NEW bytes \in Seq(Bytes), NEW enc \in TextEncodings, NEW other \in TextEncodings,
         SameText(enc, other)
  PROVE  LineEnds(bytes, enc) = LineEnds(bytes, other)
<1>1. SUFFICES ASSUME ~IsUtf16(enc), ~IsUtf16(other)
               PROVE  LineEnds(bytes, enc) = LineEnds(bytes, other)
  BY DEF SameText
<1>2. UnitSize(enc) = 1 /\ UnitSize(other) = 1
  BY <1>1 DEF UnitSize
<1>3. \A k \in Int : UnitAt(bytes, k, enc) = UnitAt(bytes, k, other)
  BY <1>1 DEF UnitAt
<1>4. ASSUME NEW p \in 1 .. Len(bytes)
      PROVE  p \in LineEnds(bytes, enc) <=> p \in LineEnds(bytes, other)
  <2>0. Len(bytes) \in Nat
    BY LenProperties
  <2>1. CASE p = Len(bytes)
    BY <2>0, <2>1, EndsAreFinite
  <2>2. CASE p # Len(bytes)
    <3>1. p \in 1 .. (Len(bytes) - 1) /\ p - 1 \in Int /\ p \in Int
      BY <2>0, <2>2
    <3>2. p \in LineEnds(bytes, enc) <=>
            LET before == UnitAt(bytes, p - UnitSize(enc), enc)
            IN  /\ p % UnitSize(enc) = 0
                /\ before = LF \/ (before = CR /\ UnitAt(bytes, p, enc) # LF)
      BY <3>1, EndsOfUnits
    <3>3. p \in LineEnds(bytes, other) <=>
            LET before == UnitAt(bytes, p - UnitSize(other), other)
            IN  /\ p % UnitSize(other) = 0
                /\ before = LF \/ (before = CR /\ UnitAt(bytes, p, other) # LF)
      BY <3>1, EndsOfUnits
    <3>4. UnitAt(bytes, p, enc) = UnitAt(bytes, p, other)
          /\ UnitAt(bytes, p - 1, enc) = UnitAt(bytes, p - 1, other)
      BY <1>3, <3>1
    <3>5. QED BY <1>2, <3>2, <3>3, <3>4
  <2>3. QED BY <2>1, <2>2
<1>5. LineEnds(bytes, enc) \subseteq 1 .. Len(bytes)
      /\ LineEnds(bytes, other) \subseteq 1 .. Len(bytes)
  BY EndsAreFinite
<1>6. QED BY <1>4, <1>5

LEMMA SameTrueWindow ==
  ASSUME NEW bytes \in Seq(Bytes), NEW enc \in TextEncodings, NEW other \in TextEncodings,
         SameText(enc, other), NEW first, NEW count
  PROVE  TrueWindow(bytes, enc, first, count) = TrueWindow(bytes, other, first, count)
<1>1. LineEnds(bytes, enc) = LineEnds(bytes, other)
  BY SameLineEnds
<1>2. LineCount(bytes, enc) = LineCount(bytes, other)
  BY <1>1 DEF LineCount
<1>3. ASSUME NEW n PROVE LineEnd(bytes, enc, n) = LineEnd(bytes, other, n)
  <2>1. LineEnd(bytes, enc, n) = LineEndIn(LineEnds(bytes, enc), n)
    BY DEF LineEnd, LineEndIn
  <2>2. LineEnd(bytes, other, n) = LineEndIn(LineEnds(bytes, other), n)
    BY DEF LineEnd, LineEndIn
  <2>3. QED BY <1>1, <2>1, <2>2
<1>4. ASSUME NEW n PROVE LineStart(bytes, enc, n) = LineStart(bytes, other, n)
  BY <1>3 DEF LineStart
<1>5. QED BY <1>2, <1>3, <1>4 DEF TrueWindow

\* An answer is the true one.
LEMMA AnswersAreTrue ==
  ASSUME NEW bytes \in Seq(Bytes), NEW w, w.encoding \in TextEncodings, Answers(w, bytes),
         NEW count \in Nat \ {0}, w.first \in Nat \ {0}, w.last = w.first + count - 1
  PROVE  /\ w.from = Unset => TrueWindow(bytes, w.encoding, w.first, count) = <<>>
         /\ w.from # Unset =>
              /\ TrueWindow(bytes, w.encoding, w.first, count) = <<w.from, w.to>>
              /\ w.first <= LineCount(bytes, w.encoding)
              /\ w.from \in Nat /\ w.to \in Nat /\ w.from <= Len(bytes) /\ w.to <= Len(bytes)
<1> DEFINE lines == LineCount(bytes, w.encoding)
           last == IF w.last <= lines THEN w.last ELSE lines
<1>1. lines \in Nat /\ Len(bytes) \in Nat
  BY LinesOfAll, LenProperties
<1>2. w.first <= lines => last \in 1 .. lines
  BY <1>1
<1>3. /\ w.from = IF w.first <= lines THEN LineStart(bytes, w.encoding, w.first) ELSE Unset
      /\ w.first <= lines => w.to = LineEnd(bytes, w.encoding, last)
  BY DEF Answers
<1>4. TrueWindow(bytes, w.encoding, w.first, count) =
        IF w.first > lines THEN <<>>
        ELSE <<LineStart(bytes, w.encoding, w.first), LineEnd(bytes, w.encoding, last)>>
  BY DEF TrueWindow
<1>5. CASE w.first <= lines
  <2>1. PICK first \in 1 .. lines : first = w.first
    BY <1>1, <1>5
  <2>2. LineStart(bytes, w.encoding, first) # Unset
    BY <2>1, LinesStart
  <2>3. 0 \in 0 .. Len(bytes) /\ 0 \in Int
    BY <1>1
  <2>4. LineStart(bytes, w.encoding, first) \in Nat /\ LineStart(bytes, w.encoding, first) <= Len(bytes)
    BY <2>3, BegunBefore
  <2>5. LineEnd(bytes, w.encoding, last) \in Nat /\ LineEnd(bytes, w.encoding, last) <= Len(bytes)
    <3>1. PICK n \in 1 .. LineCount(bytes, w.encoding) : n = last
      BY <1>2, <1>5
    <3>2. QED BY <2>3, <3>1, LineEndsBy
  <2>6. QED BY <1>1, <1>3, <1>4, <1>5, <2>1, <2>2, <2>4, <2>5
<1>6. CASE ~(w.first <= lines)
  <2>1. QED BY <1>1, <1>3, <1>4, <1>6
<1>7. QED BY <1>5, <1>6

LEMMA FinishedStays ==
  ASSUME NEW w, w.finished, NEW bytes \in Seq(Bytes)
  PROVE  StepWindow(w, bytes) = w
<1>1. PICK size \in Nat : size = Len(bytes)
  BY LenProperties
<1>2. PICK after :
        /\ after[0] = w
        /\ \A n \in 1 .. size : after[n] = Taken(after[n - 1], bytes[n])
        /\ StepWindow(w, bytes) = after[size]
  BY <1>1, WindowRun
<1> DEFINE bad == {n \in 0 .. size : after[n] # w}
<1>3. bad = {}
  <2>1. SUFFICES ASSUME bad # {} PROVE FALSE
    OBVIOUS
  <2>2. PICK n \in bad : \A m \in bad : n <= m
    <3>1. bad \in SUBSET Nat
      OBVIOUS
    <3> HIDE DEF bad
    <3>2. QED BY <2>1, <3>1, LeastNumber
  <2>3. n \in 1 .. size /\ n - 1 \in 0 .. size /\ ~(n <= n - 1) /\ after[n] # w
    BY <1>2
  <2>4. after[n - 1] = w
    BY <2>2, <2>3
  <2>5. after[n] = Taken(w, bytes[n])
    BY <1>2, <2>3, <2>4
  <2>6. QED BY <2>3, <2>5 DEF Taken
<1>4. QED BY <1>2, <1>3

-----------------------------------------------------------------------------
(* A named file: what is retained.                                         *)

IsReading(r) ==
  r = [phase |-> r.phase, window |-> r.window, history |-> r.history,
       selected |-> r.selected, backing |-> r.backing, bytesRead |-> r.bytesRead,
       calls |-> r.calls, eof |-> r.eof, fits |-> r.fits, stop |-> r.stop]

\* Two readings that differ in what they retain at most.
SameProgress(r, o) ==
  /\ o.phase = r.phase /\ o.window = r.window /\ o.history = r.history
  /\ o.bytesRead = r.bytesRead /\ o.calls = r.calls /\ o.eof = r.eof /\ o.stop = r.stop

Backing(w) == IF w.from > Context THEN w.from - Context ELSE 0

\* What is to be retained of what was read ends here.
Held(r) == Lesser(r.bytesRead, WantedEnd(r))

\* Nothing before the lines, then everything from their context on; what does
\* not fit is more than the lines may have with their context.
Kept(r) ==
  /\ Len(r.selected) <= Capacity
  /\ r.window.from = Unset => r.backing = Unset /\ r.selected = <<>> /\ r.fits
  /\ r.window.from # Unset =>
       /\ r.backing = Backing(r.window)
       /\ r.fits => r.selected = SubSeq(named, Backing(r.window) + 1, Held(r))
       /\ ~r.fits => Held(r) - Backing(r.window) > Capacity

LEMMA SliceJoined ==
  ASSUME NEW bytes \in Seq(Bytes), NEW a \in Nat, NEW b \in Nat, NEW c \in Nat,
         a <= b, b <= c, c <= Len(bytes)
  PROVE  SubSeq(bytes, a + 1, b) \o SubSeq(bytes, b + 1, c) = SubSeq(bytes, a + 1, c)
<1>1. Len(bytes) \in Nat
  BY LenProperties
<1>2. PICK m \in 1 .. Len(bytes) + 1 : m = a + 1
  BY <1>1
<1>3. b \in m - 1 .. Len(bytes) /\ c \in b .. Len(bytes)
  BY <1>1, <1>2
<1>4. QED BY <1>2, <1>3, ConcatAdjacentSubSeq

LEMMA SliceOfSlice ==
  ASSUME NEW bytes \in Seq(Bytes), NEW base \in Nat, NEW end \in Nat,
         NEW a \in Nat, NEW b \in Nat,
         base <= a, a < b, b <= end, end <= Len(bytes)
  PROVE  SubSeq(SubSeq(bytes, base + 1, end), a - base + 1, b - base) = SubSeq(bytes, a + 1, b)
<1>1. Len(bytes) \in Nat
  BY LenProperties
<1>2. PICK i \in 1 .. Len(bytes) : i = base + 1
  BY <1>1
<1>3. end \in 1 .. Len(bytes)
  BY <1>1
<1>4. PICK m \in 1 .. end - i + 1 : m = a - base + 1
  BY <1>2
<1>5. PICK n \in 1 .. end - i + 1 : n = b - base
  BY <1>2
<1>6. SubSeq(SubSeq(bytes, i, end), m, n) = SubSeq(bytes, i + m - 1, i + n - 1)
  BY <1>2, <1>3, <1>4, <1>5, SubSeqOfSubSeq
<1>7. i + m - 1 = a + 1 /\ i + n - 1 = b
  BY <1>2, <1>4, <1>5
<1>8. QED BY <1>2, <1>4, <1>5, <1>6, <1>7

Unfit(r) == [r EXCEPT !.fits = FALSE]
Appended(r, more) == [r EXCEPT !.selected = @ \o more]

LEMMA ReadingSettled ==
  ASSUME NEW r, IsReading(r)
  PROVE  LET o == Settled(r)
         IN  /\ IsReading(o) /\ SameProgress(r, o) /\ o.backing = Beginning(r)
             /\ o.selected = r.selected /\ o.fits = r.fits
<1>1. PICK b : b = Beginning(r)
  OBVIOUS
<1>2. PICK o : o = [r EXCEPT !.backing = b]
  OBVIOUS
<1>3. o = [phase |-> r.phase, window |-> r.window, history |-> r.history,
           selected |-> r.selected, backing |-> b, bytesRead |-> r.bytesRead,
           calls |-> r.calls, eof |-> r.eof, fits |-> r.fits, stop |-> r.stop]
  BY <1>2 DEF IsReading
<1>4. /\ IsReading(o) /\ SameProgress(r, o) /\ o.backing = b
      /\ o.selected = r.selected /\ o.fits = r.fits
  BY <1>3 DEF IsReading, SameProgress
<1>5. o = Settled(r)
  BY <1>1, <1>2 DEF Settled
<1>6. QED BY <1>1, <1>4, <1>5

LEMMA ReadingUnfit ==
  ASSUME NEW r, IsReading(r)
  PROVE  LET o == Unfit(r)
         IN  /\ IsReading(o) /\ SameProgress(r, o) /\ o.backing = r.backing
             /\ o.selected = r.selected /\ o.fits = FALSE
<1>1. PICK o : o = [r EXCEPT !.fits = FALSE]
  OBVIOUS
<1>2. o = [phase |-> r.phase, window |-> r.window, history |-> r.history,
           selected |-> r.selected, backing |-> r.backing, bytesRead |-> r.bytesRead,
           calls |-> r.calls, eof |-> r.eof, fits |-> FALSE, stop |-> r.stop]
  BY <1>1 DEF IsReading
<1>3. /\ IsReading(o) /\ SameProgress(r, o) /\ o.backing = r.backing
      /\ o.selected = r.selected /\ o.fits = FALSE
  BY <1>2 DEF IsReading, SameProgress
<1>4. QED BY <1>1, <1>3 DEF Unfit

LEMMA ReadingAppended ==
  ASSUME NEW r, IsReading(r), NEW more
  PROVE  LET o == Appended(r, more)
         IN  /\ IsReading(o) /\ SameProgress(r, o) /\ o.backing = r.backing
             /\ o.selected = r.selected \o more /\ o.fits = r.fits
<1>1. PICK all : all = r.selected \o more
  OBVIOUS
<1>2. PICK o : o = [r EXCEPT !.selected = all]
  OBVIOUS
<1>3. o = [phase |-> r.phase, window |-> r.window, history |-> r.history,
           selected |-> all, backing |-> r.backing, bytesRead |-> r.bytesRead,
           calls |-> r.calls, eof |-> r.eof, fits |-> r.fits, stop |-> r.stop]
  BY <1>2 DEF IsReading
<1>4. /\ IsReading(o) /\ SameProgress(r, o) /\ o.backing = r.backing
      /\ o.selected = all /\ o.fits = r.fits
  BY <1>3 DEF IsReading, SameProgress
<1>5. o = Appended(r, more)
  BY <1>1, <1>2 DEF Appended
<1>6. QED BY <1>1, <1>4, <1>5

\* What retain does of bytes it has from "from" to "to", with so much room left.
RetainedAs(r, base, bytes, from, to, room) ==
  LET o == Retained(r, base, bytes)
  IN  /\ to <= from => o = Settled(r)
      /\ base <= from /\ from < to /\ to - from > room => o = Unfit(Settled(r))
      /\ base <= from /\ from < to /\ ~(to - from > room) =>
           o = Appended(Settled(r), SubSeq(bytes, from - base + 1, to - base))

LEMMA RetainedCases ==
  ASSUME NEW r, r.window.from # Unset, NEW base \in Int, NEW bytes,
         NEW from \in Int, from = NewBytes(r, base, bytes),
         NEW to \in Int, to = Lesser(base + Len(bytes), WantedEnd(r)),
         NEW room \in Int, room = Capacity - Len(r.selected)
  PROVE  RetainedAs(r, base, bytes, from, to, room)
<1>1. CASE to <= from
  <2>1. Retained(r, base, bytes) = Settled(r)
    BY <1>1 DEF Retained
  <2>2. QED BY <1>1, <2>1 DEF RetainedAs
<1>2. CASE base <= from /\ from < to /\ to - from > room
  <2>1. Retained(r, base, bytes) = Unfit(Settled(r))
    BY <1>2 DEF Retained, Unfit
  <2>2. QED BY <1>2, <2>1 DEF RetainedAs
<1>3. CASE base <= from /\ from < to /\ ~(to - from > room)
  <2>1. Retained(r, base, bytes) = Appended(Settled(r), SubSeq(bytes, from - base + 1, to - base))
    BY <1>3 DEF Retained, Appended
  <2>2. QED BY <1>3, <2>1 DEF RetainedAs
<1>4. QED BY <1>1, <1>2, <1>3 DEF RetainedAs

LEMMA KeptInWhole ==
  ASSUME NEW r, NEW o, SameProgress(r, o), r.window.from # Unset,
         o.backing = Backing(r.window), o.fits,
         o.selected = SubSeq(named, Backing(r.window) + 1, Held(r)),
         Len(o.selected) <= Capacity
  PROVE  Kept(o)
<1>1. o.window = r.window /\ Held(o) = Held(r)
  BY DEF SameProgress, Held, WantedEnd
<1>2. QED BY <1>1 DEF Kept

LEMMA KeptInPart ==
  ASSUME NEW r, NEW o, SameProgress(r, o), r.window.from # Unset,
         o.backing = Backing(r.window), ~o.fits,
         Held(r) - Backing(r.window) > Capacity,
         Len(o.selected) <= Capacity
  PROVE  Kept(o)
<1>1. o.window = r.window /\ Held(o) = Held(r)
  BY DEF SameProgress, Held, WantedEnd
<1>2. QED BY <1>1 DEF Kept

LEMMA ProgressIsSame ==
  ASSUME NEW r, NEW o, NEW s, SameProgress(r, o), SameProgress(o, s)
  PROVE  SameProgress(r, s)
BY DEF SameProgress

LEMMA SliceExtended ==
  ASSUME NEW bytes \in Seq(Bytes), NEW back \in Nat, NEW kept \in Nat, NEW held \in Nat,
         NEW base \in Nat, NEW end \in Nat,
         back <= kept, base <= kept, kept < held, held <= end, end <= Len(bytes)
  PROVE  SubSeq(bytes, back + 1, kept)
           \o SubSeq(SubSeq(bytes, base + 1, end), kept - base + 1, held - base)
           = SubSeq(bytes, back + 1, held)
<1>1. SubSeq(SubSeq(bytes, base + 1, end), kept - base + 1, held - base)
        = SubSeq(bytes, kept + 1, held)
  BY SliceOfSlice
<1>2. kept <= held /\ held <= Len(bytes)
  BY LenProperties
<1>3. SubSeq(bytes, back + 1, kept) \o SubSeq(bytes, kept + 1, held)
        = SubSeq(bytes, back + 1, held)
  BY <1>2, SliceJoined
<1>4. QED BY <1>1, <1>3

\* From bytes that reach back to what is held already, or with nothing to add,
\* retain keeps everything up to the end of what is wanted.
LEMMA RetainedKeeps ==
  ASSUME named \in Seq(Bytes), Capacity \in Nat,
         NEW r, IsReading(r), r.bytesRead \in Nat, r.bytesRead <= Len(named), r.fits,
         NEW base \in Nat, base <= r.bytesRead,
         NEW bytes, bytes = SubSeq(named, base + 1, r.bytesRead),
         r.window.from = Unset => r.backing = Unset /\ r.selected = <<>>,
         NEW kept \in Nat,
         r.window.from # Unset =>
           /\ r.window.from \in Nat /\ WantedEnd(r) \in Nat
           /\ r.backing \in {Unset, Backing(r.window)}
           /\ Backing(r.window) <= kept /\ kept <= Held(r)
           /\ r.selected = SubSeq(named, Backing(r.window) + 1, kept)
           /\ kept - Backing(r.window) <= Capacity
           /\ base <= kept \/ Held(r) <= kept
  PROVE  LET o == Retained(r, base, bytes)
         IN  IsReading(o) /\ SameProgress(r, o) /\ Kept(o)
<1>0. Len(named) \in Nat
  BY LenProperties
<1>1. PICK o : o = Retained(r, base, bytes)
  OBVIOUS
<1>2. CASE r.window.from = Unset
  <2>1. o = r
    BY <1>1, <1>2 DEF Retained
  <2>2. Len(r.selected) = 0
    BY <1>2, EmptySeq
  <2>3. Kept(r)
    BY <1>2, <2>2 DEF Kept
  <2>4. QED BY <1>1, <2>1, <2>3 DEF SameProgress
<1>3. CASE r.window.from # Unset
  <2>1. PICK back \in Nat : back = Backing(r.window)
    BY <1>3, SMTT(30) DEF Backing, Context
  <2>2. PICK held \in Nat : held = Held(r)
    BY <1>3 DEF Held, Lesser
  <2>3. /\ held <= r.bytesRead /\ held <= Len(named)
        /\ back <= kept /\ kept <= held /\ r.selected = SubSeq(named, back + 1, kept)
        /\ kept - back <= Capacity /\ (base <= kept \/ held <= kept)
    <3>1. held <= r.bytesRead
      BY <1>3, <2>2 DEF Held, Lesser
    <3>2. QED BY <1>0, <1>3, <2>1, <2>2, <3>1, SMTT(30)
  <2>4. Beginning(r) = back
    <3>1. back # Unset
      BY DEF Unset
    <3>2. QED BY <1>3, <2>1, <3>1 DEF Beginning, Backing
  <2>5. Len(r.selected) = kept - back
    <3>1. back \in 0 .. Len(named) /\ kept \in back .. Len(named)
      BY <1>0, <2>3
    <3>2. QED BY <2>3, <3>1, Chunk
  <2>6. kept = NewBytes(r, base, bytes)
    BY <2>4, <2>5 DEF NewBytes
  <2>7. held = Lesser(base + Len(bytes), WantedEnd(r))
    <3>1. base \in 0 .. Len(named) /\ r.bytesRead \in base .. Len(named)
      BY <1>0
    <3>2. Len(bytes) = r.bytesRead - base
      BY <3>1, Chunk
    <3>3. base + Len(bytes) = r.bytesRead
      BY <3>2
    <3>4. QED BY <2>2, <3>3 DEF Held
  <2>8. PICK room \in Int : room = Capacity - Len(r.selected)
    BY <2>5
  <2>9. kept \in Int /\ held \in Int /\ base \in Int
    OBVIOUS
  <2>10. /\ held <= kept => o = Settled(r)
         /\ base <= kept /\ kept < held /\ held - kept > room => o = Unfit(Settled(r))
         /\ base <= kept /\ kept < held /\ ~(held - kept > room) =>
              o = Appended(Settled(r), SubSeq(bytes, kept - base + 1, held - base))
    <3>1. RetainedAs(r, base, bytes, kept, held, room)
      BY <1>3, <2>6, <2>7, <2>8, <2>9, RetainedCases
    <3>2. QED BY <1>1, <3>1 DEF RetainedAs
  <2>11. PICK begun : begun = Settled(r)
    OBVIOUS
  <2>12. /\ IsReading(begun) /\ SameProgress(r, begun) /\ begun.backing = back
         /\ begun.selected = r.selected /\ begun.fits = r.fits
    BY <2>4, <2>11, ReadingSettled
  <2>13. CASE held <= kept
    <3>1. o = begun
      BY <2>10, <2>11, <2>13
    <3>2. held = kept
      BY <2>3, <2>13
    <3>3. Len(begun.selected) <= Capacity
      BY <2>3, <2>5, <2>12
    <3>4. begun.selected = SubSeq(named, Backing(r.window) + 1, Held(r))
      BY <2>1, <2>2, <2>3, <2>12, <3>2
    <3>5. Kept(begun)
      BY <1>3, <2>1, <2>12, <3>3, <3>4, KeptInWhole
    <3>6. QED BY <1>1, <2>12, <3>1, <3>5
  <2>14. CASE kept < held /\ held - kept > room
    <3>1. o = Unfit(begun)
      BY <2>3, <2>10, <2>11, <2>14
    <3>2. IsReading(o) /\ SameProgress(begun, o) /\ o.backing = back
          /\ o.selected = r.selected /\ o.fits = FALSE
      BY <2>12, <3>1, ReadingUnfit
    <3>3. SameProgress(r, o)
      BY <2>12, <3>2, ProgressIsSame
    <3>4. Held(r) - Backing(r.window) > Capacity
      BY <2>1, <2>2, <2>3, <2>5, <2>8, <2>14
    <3>5. Len(o.selected) <= Capacity
      BY <2>3, <2>5, <3>2
    <3>6. Kept(o)
      BY <1>3, <2>1, <3>2, <3>3, <3>4, <3>5, KeptInPart
    <3>7. QED BY <1>1, <3>2, <3>3, <3>6
  <2>15. CASE kept < held /\ ~(held - kept > room)
    <3>1. base <= kept
      BY <2>3, <2>15
    <3>2. PICK more : more = SubSeq(bytes, kept - base + 1, held - base)
      OBVIOUS
    <3>3. o = Appended(begun, more)
      BY <2>10, <2>11, <2>15, <3>1, <3>2
    <3>4. IsReading(o) /\ SameProgress(begun, o) /\ o.backing = back
          /\ o.selected = r.selected \o more /\ o.fits = r.fits
      BY <2>12, <3>3, ReadingAppended
    <3>5. SameProgress(r, o)
      BY <2>12, <3>4, ProgressIsSame
    <3>6. PICK end \in Nat : end = r.bytesRead
      OBVIOUS
    <3>7. o.selected = SubSeq(named, back + 1, held)
      <4>1. held <= end /\ end <= Len(named) /\ bytes = SubSeq(named, base + 1, end)
        BY <2>3, <3>6
      <4>2. SubSeq(named, back + 1, kept)
              \o SubSeq(SubSeq(named, base + 1, end), kept - base + 1, held - base)
              = SubSeq(named, back + 1, held)
        BY <2>3, <2>15, <3>1, <4>1, SliceExtended
      <4>3. QED BY <2>3, <3>2, <3>4, <4>1, <4>2
    <3>8. Len(o.selected) = held - back
      <4>1. back \in 0 .. Len(named) /\ held \in back .. Len(named)
        BY <1>0, <2>3
      <4>2. QED BY <3>7, <4>1, Chunk
    <3>9. Len(o.selected) <= Capacity
      BY <2>5, <2>8, <2>15, <3>8
    <3>10. Kept(o)
      BY <1>3, <2>1, <2>2, <3>4, <3>5, <3>7, <3>9, KeptInWhole
    <3>11. QED BY <1>1, <3>4, <3>5, <3>10
  <2>16. QED BY <2>13, <2>14, <2>15
<1>4. QED BY <1>2, <1>3

-----------------------------------------------------------------------------
(* A named file: where scan stops.                                         *)

\* What parse lets through.
Wished ==
  /\ named \in Seq(Bytes)
  /\ wish \in [first : Nat \ {0}, count : Nat \ {0}, maxBytes : Nat \ {0}, maxScan : Nat,
               encoding : {"auto", "utf8", "utf16le", "utf16be"}]

TrueEncoding == EncodingFor(SubSeq(named, 1, Lesser(PrefixBytes, Len(named))))

\* What the window of a reading is to find.
TrueLines(r) == TrueWindow(named, r.window.encoding, wish.first, wish.count)

\* NamedLinesAreWhole, of any reading.
Whole(r) ==
  /\ r.stop # "invalid"
  /\ Len(r.selected) <= Capacity
  /\ r.stop = "resolved" =>
       /\ <<r.window.from, r.window.to>> = Truth
       /\ Truth[2] - Truth[1] <= wish.maxBytes
       /\ [start |-> r.backing, bytes |-> r.selected] = Surrounded(Truth[1], Truth[2])
  /\ r.stop = "missing" => r.eof /\ Truth = <<>>
  /\ r.stop = "output-byte-limit" => Truth # <<>> /\ Truth[2] - Truth[1] > wish.maxBytes

\* What holds of a reading that is about to be judged.
Judged(r) ==
  /\ IsReading(r) /\ r.stop = "pending" /\ Kept(r)
  /\ r.bytesRead \in Nat /\ r.bytesRead <= Len(named)
  /\ r.eof => r.bytesRead = Len(named)
  /\ Located(r.window) =>
       /\ r.window.from \in Nat /\ r.window.to \in Nat /\ r.window.to <= r.bytesRead
       /\ TrueLines(r) = <<r.window.from, r.window.to>>
  /\ NotThere(r.window) => r.eof /\ TrueLines(r) = <<>>
  /\ ~r.fits =>
       /\ r.bytesRead > 1 /\ TrueLines(r) # <<>>
       /\ TrueLines(r)[2] - TrueLines(r)[1] > wish.maxBytes
  /\ r.window.encoding \in TextEncodings
  /\ SameText(r.window.encoding, TrueEncoding) \/ (r.bytesRead <= 1 /\ ~r.eof)

LEMMA EncodingsKnown ==
  ASSUME Wished, NEW prefix
  PROVE  EncodingFor(prefix) \in TextEncodings
<1>1. DetectEncoding(prefix) \in TextEncodings
  BY DEF DetectEncoding, TextEncodings
<1>2. wish.encoding \in {"auto", "utf8", "utf16le", "utf16be"}
  BY DEF Wished
<1>3. QED BY <1>1, <1>2 DEF EncodingFor, TextEncodings

LEMMA TruthKnown ==
  ASSUME Wished, NEW r, r.window.encoding \in TextEncodings,
         SameText(r.window.encoding, TrueEncoding)
  PROVE  Truth = TrueLines(r)
<1>1. TrueEncoding \in TextEncodings
  BY EncodingsKnown DEF TrueEncoding
<1>2. TrueWindow(named, r.window.encoding, wish.first, wish.count)
        = TrueWindow(named, TrueEncoding, wish.first, wish.count)
  BY <1>1, SameTrueWindow DEF Wished
<1>3. QED BY <1>2 DEF Truth, TrueLines, TrueEncoding

LEMMA StopCases ==
  ASSUME NEW r, r.stop = "pending", wish.maxBytes \in Nat,
         Located(r.window) => r.window.from \in Nat /\ r.window.to \in Nat
  PROVE  /\ StopOf(r) # "invalid"
         /\ StopOf(r) = "resolved" =>
              /\ r.fits /\ Located(r.window) /\ HasContext(r)
              /\ r.window.to - r.window.from <= wish.maxBytes
         /\ StopOf(r) = "missing" => NotThere(r.window)
         /\ StopOf(r) = "output-byte-limit" =>
              ~r.fits \/ (Located(r.window) /\ r.window.to - r.window.from > wish.maxBytes)
         /\ StopOf(r) = "pending" =>
              /\ r.fits /\ ~NotThere(r.window)
              /\ r.bytesRead # wish.maxScan /\ r.calls # MaxReadCalls
              /\ Located(r.window) /\ r.window.to - r.window.from <= wish.maxBytes => ~HasContext(r)
              /\ Located(r.window) => ~(r.window.to - r.window.from > wish.maxBytes)
<1> DEFINE late == Located(r.window) /\ r.window.to - r.window.from > wish.maxBytes
           short == Located(r.window) /\ r.window.to - r.window.from <= wish.maxBytes
           there == Located(r.window)
           absent == NotThere(r.window)
           last == IF r.bytesRead = wish.maxScan THEN "scan-byte-limit"
                   ELSE IF r.calls = MaxReadCalls THEN "read-call-limit" ELSE "pending"
<1>1. StopOf(r) = CASE r.stop = "invalid" -> "invalid"
                    [] r.stop # "invalid" /\ ~r.fits -> "output-byte-limit"
                    [] r.stop # "invalid" /\ r.fits /\ late -> "output-byte-limit"
                    [] r.stop # "invalid" /\ r.fits /\ short /\ HasContext(r) -> "resolved"
                    [] r.stop # "invalid" /\ r.fits /\ absent -> "missing"
                    [] OTHER -> last
  BY DEF StopOf
<1>2. absent => ~there
  BY DEF NotThere, Located
<1>3. there => (late <=> ~short)
  <2>1. there => r.window.from \in Nat /\ r.window.to \in Nat
    OBVIOUS
  <2>2. QED BY <2>1
<1>4. late \/ short => there
  OBVIOUS
<1>5. last = "pending" => r.bytesRead # wish.maxScan /\ r.calls # MaxReadCalls
  OBVIOUS
<1>6. last \in {"scan-byte-limit", "read-call-limit", "pending"}
  OBVIOUS
<1> HIDE DEF last, late, short, there, absent
<1>7. /\ StopOf(r) # "invalid"
      /\ StopOf(r) = "resolved" => r.fits /\ short /\ HasContext(r)
      /\ StopOf(r) = "missing" => absent
      /\ StopOf(r) = "output-byte-limit" => ~r.fits \/ late
      /\ StopOf(r) = "pending" =>
           /\ r.fits /\ ~absent /\ last = "pending" /\ ~late
           /\ short => ~HasContext(r)
  BY <1>1, <1>2, <1>3, <1>4, <1>6
<1>8. QED BY <1>5, <1>7 DEF late, short, there, absent

EndedAs(r, stop) == [r EXCEPT !.stop = stop]

LEMMA ReadingStopped ==
  ASSUME NEW r, IsReading(r), NEW stop
  PROVE  LET o == EndedAs(r, stop)
         IN  /\ IsReading(o) /\ o.stop = stop
             /\ o.phase = r.phase /\ o.window = r.window /\ o.history = r.history
             /\ o.selected = r.selected /\ o.backing = r.backing /\ o.fits = r.fits
             /\ o.bytesRead = r.bytesRead /\ o.calls = r.calls /\ o.eof = r.eof
<1>1. PICK o : o = [r EXCEPT !.stop = stop]
  OBVIOUS
<1>2. o = [phase |-> r.phase, window |-> r.window, history |-> r.history,
           selected |-> r.selected, backing |-> r.backing, bytesRead |-> r.bytesRead,
           calls |-> r.calls, eof |-> r.eof, fits |-> r.fits, stop |-> stop]
  BY <1>1 DEF IsReading
<1>3. /\ IsReading(o) /\ o.stop = stop
      /\ o.phase = r.phase /\ o.window = r.window /\ o.history = r.history
      /\ o.selected = r.selected /\ o.backing = r.backing /\ o.fits = r.fits
      /\ o.bytesRead = r.bytesRead /\ o.calls = r.calls /\ o.eof = r.eof
  BY <1>2 DEF IsReading
<1>4. QED BY <1>1, <1>3 DEF EndedAs

\* What is published is what the bytes of the file say.
LEMMA JudgedWhole ==
  ASSUME Wished, NEW r, Judged(r)
  PROVE  Whole(EndedAs(r, StopOf(r)))
<1>1. PICK o : o = EndedAs(r, StopOf(r))
  OBVIOUS
<1>2. /\ o.stop = StopOf(r) /\ o.window = r.window /\ o.selected = r.selected
      /\ o.backing = r.backing /\ o.eof = r.eof
  BY <1>1, ReadingStopped DEF Judged
<1>3. /\ wish.maxBytes \in Nat /\ wish.maxBytes > 0 /\ Len(named) \in Nat
  BY LenProperties DEF Wished
<1>4. /\ r.stop = "pending" /\ Kept(r) /\ r.window.encoding \in TextEncodings
      /\ r.bytesRead \in Nat /\ r.bytesRead <= Len(named)
      /\ r.eof => r.bytesRead = Len(named)
      /\ SameText(r.window.encoding, TrueEncoding) \/ (r.bytesRead <= 1 /\ ~r.eof)
  BY DEF Judged
<1>5. ASSUME Located(r.window)
      PROVE  /\ r.window.from \in Nat /\ r.window.to \in Nat /\ r.window.to <= r.bytesRead
             /\ TrueLines(r) = <<r.window.from, r.window.to>>
             /\ r.window.from # Unset
  BY <1>5 DEF Judged, Located
<1>6. PICK stop : stop = StopOf(r)
  OBVIOUS
<1>7. /\ stop # "invalid"
      /\ stop = "resolved" =>
           /\ r.fits /\ Located(r.window) /\ HasContext(r)
           /\ r.window.to - r.window.from <= wish.maxBytes
      /\ stop = "missing" => NotThere(r.window)
      /\ stop = "output-byte-limit" =>
           ~r.fits \/ (Located(r.window) /\ r.window.to - r.window.from > wish.maxBytes)
  BY <1>3, <1>4, <1>5, <1>6, StopCases
<1>8. ASSUME stop = "resolved"
      PROVE  /\ <<r.window.from, r.window.to>> = Truth
             /\ Truth[2] - Truth[1] <= wish.maxBytes
             /\ [start |-> r.backing, bytes |-> r.selected] = Surrounded(Truth[1], Truth[2])
  <2>1. /\ r.fits /\ Located(r.window) /\ HasContext(r)
        /\ r.window.to - r.window.from <= wish.maxBytes
    BY <1>7, <1>8
  <2>2. PICK from \in Nat : from = r.window.from
    BY <1>5, <2>1
  <2>3. PICK to \in Nat : to = r.window.to
    BY <1>5, <2>1
  <2>4. r.eof \/ r.bytesRead >= to + Context
    BY <2>1, <2>3 DEF HasContext
  <2>5. SameText(r.window.encoding, TrueEncoding)
    BY <1>4, <2>4 DEF Context
  <2>6. Truth = <<from, to>>
    BY <1>4, <1>5, <2>1, <2>2, <2>3, <2>5, TruthKnown
  <2>7. Held(r) = Lesser(to + Context, Len(named))
    <3>1. WantedEnd(r) = to + Context
      BY <2>1, <2>3 DEF WantedEnd
    <3>2. QED BY <1>3, <1>4, <2>4, <3>1 DEF Held, Lesser, Context
  <2>8. r.backing = Backing(r.window) /\ r.selected = SubSeq(named, Backing(r.window) + 1, Held(r))
    BY <1>4, <1>5, <2>1 DEF Kept
  <2>9. [start |-> r.backing, bytes |-> r.selected] = Surrounded(from, to)
    BY <2>2, <2>7, <2>8 DEF Surrounded, Backing
  <2>10. QED BY <2>1, <2>2, <2>3, <2>6, <2>9
<1>9. ASSUME stop = "missing"
      PROVE  r.eof /\ Truth = <<>>
  <2>1. NotThere(r.window)
    BY <1>7, <1>9
  <2>2. r.eof /\ TrueLines(r) = <<>>
    BY <2>1 DEF Judged
  <2>3. QED BY <1>4, <2>2, TruthKnown
<1>10. ASSUME stop = "output-byte-limit"
       PROVE  Truth # <<>> /\ Truth[2] - Truth[1] > wish.maxBytes
  <2>1. r.bytesRead > 1 /\ TrueLines(r) # <<>>
        /\ TrueLines(r)[2] - TrueLines(r)[1] > wish.maxBytes
    <3>1. CASE ~r.fits
      BY <3>1 DEF Judged
    <3>2. CASE Located(r.window) /\ r.window.to - r.window.from > wish.maxBytes
      <4>1. PICK from \in Nat : from = r.window.from
        BY <1>5, <3>2
      <4>2. PICK to \in Nat : to = r.window.to
        BY <1>5, <3>2
      <4>3. TrueLines(r) = <<from, to>> /\ to <= r.bytesRead /\ to - from > wish.maxBytes
        BY <1>5, <3>2, <4>1, <4>2
      <4>4. QED BY <1>3, <1>4, <4>3
    <3>3. QED BY <1>7, <1>10, <3>1, <3>2
  <2>2. SameText(r.window.encoding, TrueEncoding)
    BY <1>4, <2>1
  <2>3. QED BY <1>4, <2>1, <2>2, TruthKnown
<1>11. Len(r.selected) <= Capacity
  BY <1>4 DEF Kept
<1>12. Whole(o)
  BY <1>2, <1>6, <1>7, <1>8, <1>9, <1>10, <1>11 DEF Whole
<1>13. QED BY <1>1, <1>12

\* The first byte of the history of a file that is read up to "read".
Older(read) == IF read > HistoryBytes THEN read - HistoryBytes ELSE 0

\* The window has looked through what was read, or has found its lines in it,
\* the history holds the last bytes of it, and its encoding is that of the file
\* unless a limit stops the scan before anything can be found.
Looked(r) ==
  /\ IsReading(r) /\ r.phase = "lines" /\ r.stop = "pending" /\ Kept(r)
  /\ r.bytesRead \in Nat /\ r.bytesRead <= Len(named)
  /\ Seen(r.window, named)
  /\ r.window.first = wish.first /\ r.window.last = wish.first + wish.count - 1
  /\ r.window.offset <= r.bytesRead
  /\ r.window.finished \/ r.window.offset = r.bytesRead
  /\ r.history = SubSeq(named, Older(r.bytesRead) + 1, r.bytesRead)
  /\ r.eof => r.bytesRead = Len(named) /\ r.fits
  /\ \/ SameText(r.window.encoding, TrueEncoding)
     \/ /\ r.bytesRead <= 1 /\ ~r.eof
        /\ r.bytesRead = wish.maxScan \/ r.calls = MaxReadCalls

LEMMA SeenTypes ==
  ASSUME NEW bytes \in Seq(Bytes), NEW w, Seen(w, bytes)
  PROVE  /\ w.first \in Nat /\ w.last \in Nat /\ w.line \in Nat /\ w.offset \in Nat
         /\ w.offset <= Len(bytes) /\ 1 <= w.first /\ w.first <= w.last
         /\ w.encoding \in TextEncodings /\ w.from \in Int
         /\ LineCount(bytes, w.encoding) \in Nat
BY LenProperties, LinesOfAll DEF Seen, Windows

LEMMA WishTypes ==
  ASSUME Wished
  PROVE  /\ wish.first \in Nat /\ wish.first >= 1 /\ wish.count \in Nat /\ wish.count >= 1
         /\ wish.maxBytes \in Nat /\ wish.maxBytes >= 1 /\ wish.maxScan \in Nat
         /\ Capacity = wish.maxBytes + 8 /\ Capacity \in Nat
         /\ named \in Seq(Bytes) /\ Len(named) \in Nat
<1>1. named \in Seq(Bytes) /\ Len(named) \in Nat
  BY LenProperties DEF Wished
<1>2. /\ wish.first \in Nat \ {0} /\ wish.count \in Nat \ {0}
      /\ wish.maxBytes \in Nat \ {0} /\ wish.maxScan \in Nat
  BY DEF Wished
<1>3. QED BY <1>1, <1>2 DEF Capacity, Context

\* The true lines begin where a window begins them.
LEMMA TrueStart ==
  ASSUME Wished, NEW r, Seen(r.window, named), r.window.first = wish.first,
         r.window.last = wish.first + wish.count - 1, r.window.from # Unset
  PROVE  \E last \in 1 .. LineCount(named, r.window.encoding) :
           /\ r.window.line <= LineCount(named, r.window.encoding) /\ r.window.line <= r.window.last
                => r.window.line <= last
           /\ r.window.last <= LineCount(named, r.window.encoding) => last = r.window.last
           /\ LineEnd(named, r.window.encoding, last) \in Nat
           /\ TrueLines(r) = <<r.window.from, LineEnd(named, r.window.encoding, last)>>
<1>1. PICK enc : enc = r.window.encoding
  OBVIOUS
<1>2. PICK lines \in Nat : lines = LineCount(named, enc)
  BY <1>1, LinesOfAll DEF Wished, Seen, Windows
<1>3. /\ wish.first \in Nat /\ wish.first >= 1 /\ wish.count \in Nat /\ wish.count >= 1
      /\ r.window.line \in Nat /\ enc \in TextEncodings
  BY <1>1, SeenTypes, WishTypes
<1>4. wish.first <= lines /\ r.window.from = LineStart(named, enc, wish.first)
  BY <1>1, <1>2, StartKnown DEF Wished
<1>5. PICK last \in 1 .. lines :
        last = IF wish.first + wish.count - 1 <= lines THEN wish.first + wish.count - 1 ELSE lines
  BY <1>2, <1>3, <1>4
<1>6. TrueLines(r) = <<r.window.from, LineEnd(named, enc, last)>>
  BY <1>1, <1>2, <1>3, <1>4, <1>5 DEF TrueLines, TrueWindow
<1>7. LineEnd(named, enc, last) \in Nat
  <2>1. 0 \in Int /\ last \in 1 .. LineCount(named, enc)
    BY <1>2, <1>5
  <2>2. QED BY <1>3, <2>1, LineEndsBy DEF Wished
<1>8. /\ r.window.line <= lines /\ r.window.line <= r.window.last => r.window.line <= last
      /\ r.window.last <= lines => last = r.window.last
  BY <1>2, <1>3, <1>5
<1>9. QED BY <1>1, <1>2, <1>6, <1>7, <1>8

LEMMA LookedJudged ==
  ASSUME Wished, NEW r, Looked(r), ~r.eof
  PROVE  Judged(r)
<1>1. PICK w : w = r.window
  OBVIOUS
<1>2. PICK enc : enc = w.encoding
  OBVIOUS
<1>3. /\ IsReading(r) /\ r.stop = "pending" /\ Kept(r) /\ named \in Seq(Bytes)
      /\ r.bytesRead \in Nat /\ r.bytesRead <= Len(named)
      /\ Seen(w, named) /\ w.first = wish.first /\ w.last = wish.first + wish.count - 1
      /\ w.offset \in Nat /\ w.offset <= r.bytesRead
      /\ w.finished \/ w.offset = r.bytesRead
      /\ SameText(enc, TrueEncoding) \/ (r.bytesRead <= 1 /\ ~r.eof)
      /\ enc \in TextEncodings /\ Len(named) \in Nat
      /\ w.first \in Nat /\ w.last \in Nat /\ w.first <= w.last
      /\ wish.maxBytes \in Nat /\ Capacity = wish.maxBytes + 8
  <2>1. /\ IsReading(r) /\ r.stop = "pending" /\ Kept(r)
        /\ r.bytesRead \in Nat /\ r.bytesRead <= Len(named)
        /\ Seen(w, named) /\ w.first = wish.first /\ w.last = wish.first + wish.count - 1
        /\ w.offset <= r.bytesRead
        /\ w.finished \/ w.offset = r.bytesRead
        /\ SameText(enc, TrueEncoding) \/ (r.bytesRead <= 1 /\ ~r.eof)
    BY <1>1, <1>2 DEF Looked
  <2>2. QED BY <1>2, <2>1, SeenTypes, WishTypes
<1>4. /\ w.from # Unset => w.from \in Nat /\ w.from <= w.offset
      /\ w.finished =>
           /\ w.from # Unset /\ w.to \in Nat /\ w.from <= w.to /\ w.to <= w.offset
           /\ w.last <= LineCount(named, enc) /\ w.to = LineEnd(named, enc, w.last)
  BY <1>2, <1>3, WindowPlaces
<1>5. w.to \in Nat => w.to # Unset
  BY DEF Unset
<1>6. ASSUME w.from # Unset
      PROVE  \E last \in 1 .. LineCount(named, enc) :
               /\ w.line <= LineCount(named, enc) /\ w.line <= w.last => w.line <= last
               /\ w.last <= LineCount(named, enc) => last = w.last
               /\ LineEnd(named, enc, last) \in Nat
               /\ TrueLines(r) = <<w.from, LineEnd(named, enc, last)>>
  BY <1>1, <1>2, <1>3, <1>6, TrueStart
<1>7. ASSUME w.finished
      PROVE  /\ w.from \in Nat /\ w.to \in Nat /\ w.to <= r.bytesRead
             /\ TrueLines(r) = <<w.from, w.to>> /\ ~NotThere(w)
  <2>1. TrueLines(r) = <<w.from, w.to>>
    BY <1>4, <1>6, <1>7
  <2>2. QED BY <1>3, <1>4, <1>5, <1>7, <2>1 DEF NotThere
<1>8. ASSUME ~r.fits
      PROVE  /\ r.bytesRead > 1 /\ TrueLines(r) # <<>>
             /\ TrueLines(r)[2] - TrueLines(r)[1] > wish.maxBytes
  <2>1. w.from # Unset /\ Held(r) - Backing(w) > wish.maxBytes + 8
    BY <1>1, <1>3, <1>8 DEF Kept
  <2>2. PICK from \in Nat : from = w.from
    BY <1>4, <2>1
  <2>3. PICK last \in 1 .. LineCount(named, enc) :
               /\ w.line <= LineCount(named, enc) /\ w.line <= w.last => w.line <= last
               /\ w.last <= LineCount(named, enc) => last = w.last
               /\ LineEnd(named, enc, last) \in Nat
               /\ TrueLines(r) = <<w.from, LineEnd(named, enc, last)>>
    BY <1>6, <2>1
  <2>4. PICK to \in Nat : to = LineEnd(named, enc, last)
    BY <2>3
  <2>5. PICK back \in Nat : back = Backing(w) /\ back + 4 >= from
    BY <2>2 DEF Backing, Context
  <2>6. Held(r) \in Nat /\ Held(r) <= r.bytesRead /\ Held(r) <= to + 4
    <3>1. CASE w.finished
      <4>1. w.to = to
        BY <1>4, <2>3, <2>4, <3>1
      <4>2. WantedEnd(r) = to + 4
        BY <1>1, <1>4, <1>5, <2>1, <3>1, <4>1 DEF WantedEnd, Located, Context
      <4>3. QED BY <1>3, <4>2 DEF Held, Lesser
    <3>2. CASE ~w.finished
      <4>1. WantedEnd(r) = w.offset
        BY <1>1, <3>2 DEF WantedEnd, Located
      <4>2. Held(r) = r.bytesRead /\ r.bytesRead = w.offset
        BY <1>3, <3>2, <4>1 DEF Held, Lesser
      <4>3. w.line <= last
        <5>1. w.line <= w.last /\ w.line <= LineCount(named, enc)
          BY <1>2, <1>3, <3>2, LaterPlaces
        <5>2. QED BY <2>3, <5>1
      <4>4. w.offset <= to + 1
        <5>1. \A n \in 1 .. LineCount(named, enc) :
                w.line <= n => w.offset <= LineEnd(named, enc, n) + 1
          BY <1>2, <1>3, <3>2, LaterPlaces
        <5>2. QED BY <2>4, <4>3, <5>1
      <4>5. QED BY <1>3, <4>2, <4>4
    <3>3. QED BY <3>1, <3>2
  <2>7. to - from > wish.maxBytes /\ r.bytesRead > 1
    <3>1. PICK held \in Nat : held = Held(r)
      BY <2>6
    <3>2. held - back > wish.maxBytes + 8 /\ held <= r.bytesRead /\ held <= to + 4
      BY <2>1, <2>5, <2>6, <3>1
    <3>3. PICK max \in Nat : max = wish.maxBytes
      BY <1>3
    <3>4. PICK read \in Nat : read = r.bytesRead
      BY <1>3
    <3>5. held - back > max + 8 /\ held <= read /\ held <= to + 4 /\ back + 4 >= from
      BY <2>5, <3>2, <3>3, <3>4
    <3>6. to - from > max /\ read > 1
      BY <3>5
    <3>7. QED BY <3>3, <3>4, <3>6
  <2>8. TrueLines(r) = <<from, to>>
    BY <2>2, <2>3, <2>4
  <2>9. QED BY <2>7, <2>8
<1>9. QED
  <2>1. Located(w) => w.finished
    BY DEF Located
  <2>2. NotThere(w) => w.finished
    BY DEF NotThere
  <2>3. QED BY <1>1, <1>2, <1>3, <1>7, <1>8, <2>1, <2>2 DEF Judged

\* Lines end in order.
LEMMA LinesInOrder ==
  ASSUME NEW bytes \in Seq(Bytes), NEW enc \in TextEncodings,
         NEW first \in 1 .. LineCount(bytes, enc), NEW last \in first .. LineCount(bytes, enc)
  PROVE  LineStart(bytes, enc, first) <= LineEnd(bytes, enc, last)
<1>1. LineCount(bytes, enc) \in Nat /\ Len(bytes) \in Nat
  BY LinesOfAll, LenProperties
<1>2. PICK n \in 1 .. LineCount(bytes, enc) : n = last
  BY <1>1
<1>3. PICK to \in Nat : to = LineEnd(bytes, enc, last)
  <2>1. 0 \in Int
    OBVIOUS
  <2>2. QED BY <1>2, <2>1, LineEndsBy
<1>4. Upto(LineEnds(bytes, enc), to) = last
  BY <1>2, <1>3, EveryLineEnds
<1>5. LineEnd(bytes, enc, first) \in Nat /\ LineEnd(bytes, enc, first) <= to
  <2>1. PICK e : e = LineEnd(bytes, enc, first)
    OBVIOUS
  <2>2. e \in Nat /\ (e <= to <=> first <= Upto(LineEnds(bytes, enc), to))
    BY <1>3, <2>1, LineEndsBy
  <2>3. QED BY <1>1, <1>4, <2>1, <2>2
<1>6. LineStart(bytes, enc, first) \in Nat
      /\ LineStart(bytes, enc, first) <= LineEnd(bytes, enc, first)
  <2>1. 0 \in 0 .. Len(bytes)
    BY <1>1
  <2>2. QED BY <2>1, BegunBefore
<1>7. QED BY <1>3, <1>5, <1>6

\* What the end of the file adds to what a window has found.
LEMMA FinishedPlaces ==
  ASSUME NEW bytes \in Seq(Bytes), NEW w, Seen(w, bytes),
         w.finished \/ w.offset = Len(bytes)
  PROVE  LET v == FinishWindow(w)
         IN  /\ v.from # Unset =>
                  /\ v.from \in Nat /\ v.to \in Nat
                  /\ v.from <= v.to /\ v.to <= Len(bytes)
                  /\ w.from = Unset => Len(bytes) <= v.from + 1
                  /\ w.finished => v.to = w.to
                  /\ ~w.finished => Len(bytes) <= v.to + 1
             /\ w.from # Unset => v.from = w.from
<1>1. PICK v : v = FinishWindow(w)
  OBVIOUS
<1>2. PICK enc \in TextEncodings : enc = w.encoding
  BY SeenTypes
<1>3. PICK lines \in Nat : lines = LineCount(bytes, enc)
  BY LinesOfAll
<1>4. PICK size \in Nat : size = Len(bytes)
  BY LenProperties
<1>5. /\ Answers(v, bytes) /\ v.first = w.first /\ v.last = w.last /\ v.encoding = enc
  BY <1>1, <1>2, WindowFinished DEF SameRequest
<1>6. /\ w.first \in Nat /\ w.last \in Nat /\ 1 <= w.first /\ w.first <= w.last
      /\ w.line \in Nat /\ w.offset \in Nat
  BY SeenTypes
<1>7. /\ v.from = IF w.first <= lines THEN LineStart(bytes, enc, w.first) ELSE Unset
      /\ w.first <= lines =>
           v.to = LineEnd(bytes, enc, IF w.last <= lines THEN w.last ELSE lines)
  BY <1>3, <1>5 DEF Answers
<1>8. w.from # Unset => v.from = w.from
  BY <1>2, <1>3, <1>7, StartKnown
<1>9. ASSUME v.from # Unset
      PROVE  /\ v.from \in Nat /\ v.to \in Nat
             /\ v.from <= v.to /\ v.to <= size
             /\ w.from = Unset => size <= v.from + 1
             /\ w.finished => v.to = w.to
             /\ ~w.finished => size <= v.to + 1
  <2>1. PICK first \in 1 .. lines : first = w.first
    BY <1>3, <1>6, <1>7, <1>9
  <2>2. PICK last \in 1 .. lines : last = IF w.last <= lines THEN w.last ELSE lines
    BY <1>3, <1>6, <2>1
  <2>3. v.from = LineStart(bytes, enc, first) /\ v.to = LineEnd(bytes, enc, last)
    BY <1>7, <2>1, <2>2
  <2>4. first <= last
    BY <1>3, <1>6, <2>1, <2>2
  <2>5. 0 \in Int /\ 0 \in 0 .. Len(bytes) /\ last \in 1 .. LineCount(bytes, enc)
        /\ first \in 1 .. LineCount(bytes, enc) /\ last \in first .. LineCount(bytes, enc)
    BY <1>3, <1>4, <2>1, <2>2, <2>4
  <2>6. v.to \in Nat /\ v.to <= size
    BY <1>4, <2>3, <2>5, LineEndsBy
  <2>7. v.from \in Nat
    BY <2>3, <2>5, BegunBefore
  <2>8. v.from <= v.to
    BY <2>3, <2>5, LinesInOrder
  <2>9. w.finished => v.to = w.to
    <3>1. w.finished => w.last <= lines /\ w.to = LineEnd(bytes, enc, w.last)
      BY <1>2, <1>3, WindowPlaces
    <3>2. QED BY <2>2, <2>3, <3>1
  <2>10. ~w.finished => size <= v.to + 1
    <3>1. SUFFICES ASSUME ~w.finished PROVE size <= v.to + 1
      OBVIOUS
    <3>2. /\ w.line <= w.last /\ w.line <= lines
          /\ \A n \in 1 .. lines : w.line <= n => w.offset <= LineEnd(bytes, enc, n) + 1
      BY <1>2, <1>3, <3>1, LaterPlaces
    <3>3. w.line <= last
      BY <2>2, <3>2
    <3>4. QED BY <1>4, <2>3, <3>1, <3>2, <3>3
  <2>11. w.from = Unset => size <= v.from + 1
    <3>1. SUFFICES ASSUME w.from = Unset PROVE size <= v.from + 1
      OBVIOUS
    <3>2. ~w.finished
      BY <3>1, WindowPlaces
    <3>3. w.first <= lines
      BY <1>3, <2>1
    <3>4. w.offset <= LineStart(bytes, enc, w.first) + 1
      BY <1>2, <1>3, <3>1, <3>2, <3>3, LaterPlaces
    <3>5. QED BY <1>4, <2>1, <2>3, <3>2, <3>4
  <2>12. QED BY <2>6, <2>7, <2>8, <2>9, <2>10, <2>11
<1>10. QED BY <1>1, <1>4, <1>8, <1>9

Windowed(r, w) == [r EXCEPT !.window = w]

LEMMA ReadingWindowed ==
  ASSUME NEW r, IsReading(r), NEW w
  PROVE  LET o == Windowed(r, w)
         IN  /\ IsReading(o) /\ o.window = w
             /\ o.phase = r.phase /\ o.history = r.history /\ o.stop = r.stop
             /\ o.selected = r.selected /\ o.backing = r.backing /\ (o.fits <=> r.fits)
             /\ o.bytesRead = r.bytesRead /\ o.calls = r.calls /\ o.eof = r.eof
<1>1. PICK o : o = [r EXCEPT !.window = w]
  OBVIOUS
<1>2. o = [phase |-> r.phase, window |-> w, history |-> r.history,
           selected |-> r.selected, backing |-> r.backing, bytesRead |-> r.bytesRead,
           calls |-> r.calls, eof |-> r.eof, fits |-> r.fits, stop |-> r.stop]
  BY <1>1 DEF IsReading
<1>3. /\ IsReading(o) /\ o.window = w
      /\ o.phase = r.phase /\ o.history = r.history /\ o.stop = r.stop
      /\ o.selected = r.selected /\ o.backing = r.backing /\ (o.fits <=> r.fits)
      /\ o.bytesRead = r.bytesRead /\ o.calls = r.calls /\ o.eof = r.eof
  BY <1>2 DEF IsReading
<1>4. QED BY <1>1, <1>3 DEF Windowed

\* The history is as long as it can be.
LEMMA HistoryLength ==
  ASSUME NEW bytes \in Seq(Bytes), NEW read \in Nat, read <= Len(bytes)
  PROVE  /\ Older(read) \in Nat /\ Older(read) <= read
         /\ Len(SubSeq(bytes, Older(read) + 1, read)) = read - Older(read)
<1>1. Older(read) \in Nat /\ Older(read) <= read /\ Len(bytes) \in Nat
  BY LenProperties DEF Older, HistoryBytes
<1>2. Older(read) \in 0 .. Len(bytes) /\ read \in Older(read) .. Len(bytes)
  BY <1>1
<1>3. PICK older : older = Older(read)
  OBVIOUS
<1>4. Len(SubSeq(bytes, older + 1, read)) = read - older
  BY <1>2, <1>3, Chunk
<1>5. QED BY <1>1, <1>3, <1>4

\* At the end of the file the history reaches back to what is still needed.
LEMMA EndRetained ==
  ASSUME Wished, NEW r, Looked(r), r.eof
  PROVE  LET v == FinishWindow(r.window)
             o == Ended(r)
         IN  IsReading(o) /\ SameProgress(Windowed(r, v), o) /\ Kept(o)
<1>1. PICK w : w = r.window
  OBVIOUS
<1>2. PICK v : v = FinishWindow(w)
  OBVIOUS
<1>3. PICK s : s = Windowed(r, v)
  OBVIOUS
<1>4. PICK read \in Nat : read = r.bytesRead
  BY DEF Looked
<1>5. PICK base \in Nat : base = Older(read)
  BY DEF Older, HistoryBytes
<1>6. /\ IsReading(r) /\ Kept(r) /\ r.fits /\ Seen(w, named)
      /\ read = Len(named) /\ w.offset <= read
      /\ (w.finished \/ w.offset = Len(named))
      /\ r.history = SubSeq(named, base + 1, read)
      /\ named \in Seq(Bytes) /\ Capacity \in Nat
  BY <1>1, <1>4, <1>5, WishTypes DEF Looked
<1>7. base <= read /\ read - Len(r.history) = base
  <2>1. Len(r.history) = read - base /\ base <= read
    BY <1>5, <1>6, HistoryLength
  <2>2. QED BY <2>1
<1>8. Ended(r) = Retained(s, base, r.history)
  BY <1>1, <1>2, <1>3, <1>4, <1>7 DEF Ended, Windowed
<1>9. /\ IsReading(s) /\ s.window = v /\ s.fits /\ s.bytesRead = read
      /\ s.selected = r.selected /\ s.backing = r.backing
  <2>1. IsReading(r)
    BY <1>6
  <2>2. LET o == Windowed(r, v)
        IN  /\ IsReading(o) /\ o.window = v /\ o.bytesRead = r.bytesRead
            /\ (o.fits <=> r.fits)
            /\ o.selected = r.selected /\ o.backing = r.backing
    BY <2>1, ReadingWindowed
  <2>3. QED BY <1>3, <1>4, <1>6, <2>2
<1>10. /\ v.from # Unset =>
             /\ v.from \in Nat /\ v.to \in Nat
             /\ v.from <= v.to /\ v.to <= read
             /\ w.from = Unset => read <= v.from + 1
             /\ w.finished => v.to = w.to
             /\ ~w.finished => read <= v.to + 1
       /\ w.from # Unset => v.from = w.from
  BY <1>2, <1>6, FinishedPlaces
<1>11. /\ w.offset \in Nat
       /\ w.from # Unset => w.from \in Nat /\ w.from <= w.offset
       /\ w.finished => w.from # Unset /\ w.to \in Nat /\ w.from <= w.to /\ w.to <= w.offset
  BY <1>6, WindowPlaces
<1>12. v.finished
  BY <1>2, <1>6, WindowFinished DEF Answers
<1>13. ASSUME v.from # Unset
       PROVE  WantedEnd(s) = v.to + 4 /\ Held(s) = Lesser(read, v.to + 4)
  <2>1. v.to # Unset
    BY <1>10, <1>13 DEF Unset
  <2>2. WantedEnd(s) = v.to + 4
    BY <1>9, <1>12, <1>13, <2>1 DEF WantedEnd, Located, Context
  <2>3. QED BY <1>9, <2>2 DEF Held
<1>14. \E kept \in Nat :
         v.from # Unset =>
           /\ Backing(v) <= kept /\ kept <= Held(s)
           /\ r.selected = SubSeq(named, Backing(v) + 1, kept)
           /\ kept - Backing(v) <= Capacity
           /\ base <= kept \/ Held(s) <= kept
           /\ r.backing \in {Unset, Backing(v)}
  <2>1. SUFFICES ASSUME v.from # Unset
                 PROVE  \E kept \in Nat :
                          /\ Backing(v) <= kept /\ kept <= Held(s)
                          /\ r.selected = SubSeq(named, Backing(v) + 1, kept)
                          /\ kept - Backing(v) <= Capacity
                          /\ base <= kept \/ Held(s) <= kept
                          /\ r.backing \in {Unset, Backing(v)}
    OBVIOUS
  <2>2. PICK from \in Nat : from = v.from
    BY <1>10, <2>1
  <2>3. PICK to \in Nat : to = v.to
    BY <1>10, <2>1
  <2>4. PICK back \in Nat : back = Backing(v) /\ back <= from /\ back + 4 >= from
    BY <2>2 DEF Backing, Context
  <2>5. PICK end \in Nat : end = Held(s) /\ end <= read /\ end <= to + 4 /\ back <= end
                           /\ (end = read \/ end = to + 4)
    <3>1. Held(s) = Lesser(read, to + 4) /\ from <= to /\ to <= read
      BY <1>10, <1>13, <2>1, <2>2, <2>3
    <3>2. QED BY <2>4, <3>1 DEF Lesser
  <2>6. CASE w.from = Unset
    <3>1. r.selected = <<>> /\ r.backing = Unset
      BY <1>1, <1>6, <2>6 DEF Kept
    <3>2. read <= from + 1
      BY <1>10, <2>1, <2>2, <2>6
    <3>3. base <= back
      BY <1>5, <2>4, <3>2 DEF Older, HistoryBytes
    <3>4. SubSeq(named, back + 1, back) = <<>>
      <4>1. PICK n : n = back + 1
        OBVIOUS
      <4>2. n > back /\ n \in Int
        BY <4>1
      <4>3. SubSeq(named, n, back) = <<>>
        BY <1>6, <4>2, SubSeqEmpty
      <4>4. QED BY <4>1, <4>3
    <3>5. /\ Backing(v) <= back /\ back <= Held(s)
          /\ r.selected = SubSeq(named, Backing(v) + 1, back)
          /\ back - Backing(v) <= Capacity /\ base <= back
          /\ r.backing \in {Unset, Backing(v)}
      BY <1>6, <2>4, <2>5, <3>1, <3>3, <3>4
    <3>6. QED BY <3>5, Zenon
  <2>7. CASE w.from # Unset
    <3>1. w.from = from /\ Backing(w) = back
      BY <1>10, <2>2, <2>4, <2>7 DEF Backing
    <3>2. PICK kept : kept = Held(r)
      OBVIOUS
    <3>3. /\ r.backing = back /\ r.selected = SubSeq(named, back + 1, kept)
          /\ Len(r.selected) <= Capacity
      BY <1>1, <1>6, <2>7, <3>1, <3>2 DEF Kept
    <3>4. kept = end
      <4>1. CASE w.finished
        <5>1. w.to = to /\ w.to # Unset
          BY <1>10, <1>11, <2>1, <2>3, <4>1 DEF Unset
        <5>2. WantedEnd(r) = to + 4
          BY <1>1, <2>7, <4>1, <5>1 DEF WantedEnd, Located, Context
        <5>3. QED BY <1>4, <1>13, <2>1, <2>3, <2>5, <3>2, <5>2 DEF Held
      <4>2. CASE ~w.finished
        <5>1. WantedEnd(r) = read
          BY <1>1, <1>6, <4>2 DEF WantedEnd, Located
        <5>2. kept = read
          BY <1>4, <3>2, <5>1 DEF Held, Lesser
        <5>3. read <= to + 1
          BY <1>10, <2>1, <2>3, <4>2
        <5>4. QED BY <2>5, <5>2, <5>3
      <4>3. QED BY <4>1, <4>2
    <3>5. Len(r.selected) = end - back
      <4>1. back \in 0 .. Len(named) /\ end \in back .. Len(named)
        BY <1>6, <2>5
      <4>2. QED BY <3>3, <3>4, <4>1, Chunk
    <3>6. /\ Backing(v) <= end /\ end <= Held(s)
          /\ r.selected = SubSeq(named, Backing(v) + 1, end)
          /\ end - Backing(v) <= Capacity /\ Held(s) <= end
          /\ r.backing \in {Unset, Backing(v)}
      BY <1>6, <2>4, <2>5, <3>3, <3>4, <3>5
    <3>7. QED BY <3>6, Zenon
  <2>8. QED BY <2>6, <2>7
<1>15. PICK kept \in Nat :
         v.from # Unset =>
           /\ Backing(v) <= kept /\ kept <= Held(s)
           /\ r.selected = SubSeq(named, Backing(v) + 1, kept)
           /\ kept - Backing(v) <= Capacity
           /\ base <= kept \/ Held(s) <= kept
           /\ r.backing \in {Unset, Backing(v)}
  BY <1>14
<1>16. LET o == Retained(s, base, r.history)
       IN  IsReading(o) /\ SameProgress(s, o) /\ Kept(o)
  <2>1. /\ IsReading(s) /\ s.bytesRead \in Nat /\ s.bytesRead <= Len(named) /\ s.fits
        /\ base <= s.bytesRead /\ r.history = SubSeq(named, base + 1, s.bytesRead)
        /\ named \in Seq(Bytes) /\ Capacity \in Nat
    BY <1>6, <1>7, <1>9
  <2>2. s.window.from = Unset => s.backing = Unset /\ s.selected = <<>>
    <3>1. v.from = Unset => w.from = Unset
      BY <1>10
    <3>2. QED BY <1>1, <1>6, <1>9, <3>1 DEF Kept
  <2>3. s.window.from # Unset =>
           /\ s.window.from \in Nat /\ WantedEnd(s) \in Nat
           /\ s.backing \in {Unset, Backing(s.window)}
           /\ Backing(s.window) <= kept /\ kept <= Held(s)
           /\ s.selected = SubSeq(named, Backing(s.window) + 1, kept)
           /\ kept - Backing(s.window) <= Capacity
           /\ base <= kept \/ Held(s) <= kept
    BY <1>9, <1>10, <1>13, <1>15
  <2>4. QED BY <2>1, <2>2, <2>3, RetainedKeeps
<1>17. QED BY <1>1, <1>2, <1>3, <1>8, <1>16

LEMMA EndedJudged ==
  ASSUME Wished, NEW r, Looked(r), r.eof
  PROVE  LET o == Ended(r)
         IN  Judged(o) /\ o.eof /\ o.window.finished
<1>1. PICK w : w = r.window
  OBVIOUS
<1>2. PICK v : v = FinishWindow(w)
  OBVIOUS
<1>3. PICK s : s = Windowed(r, v)
  OBVIOUS
<1>4. PICK o : o = Ended(r)
  OBVIOUS
<1>5. PICK read \in Nat : read = Len(named)
  BY WishTypes
<1>6. /\ IsReading(r) /\ r.stop = "pending" /\ r.bytesRead = read
      /\ Seen(w, named) /\ w.first = wish.first /\ w.last = wish.first + wish.count - 1
      /\ w.offset <= read
      /\ (w.finished \/ w.offset = Len(named))
      /\ SameText(w.encoding, TrueEncoding)
  BY <1>1, <1>5 DEF Looked
<1>7. IsReading(o) /\ SameProgress(s, o) /\ Kept(o)
  BY <1>1, <1>2, <1>3, <1>4, EndRetained
<1>8. s.window = v /\ s.bytesRead = read /\ s.eof = r.eof /\ s.stop = "pending"
  <2>1. /\ Windowed(r, v).window = v /\ Windowed(r, v).bytesRead = r.bytesRead
        /\ Windowed(r, v).eof = r.eof /\ Windowed(r, v).stop = r.stop
    <3>1. IsReading(r)
      BY <1>6
    <3>2. QED BY <3>1, ReadingWindowed
  <2>2. s.window = v /\ s.bytesRead = r.bytesRead /\ s.eof = r.eof /\ s.stop = r.stop
    BY <1>3, <2>1, Zenon
  <2>3. QED BY <1>6, <2>2
<1>9. o.window = v /\ o.bytesRead = read /\ o.eof /\ o.stop = "pending"
  BY <1>7, <1>8 DEF SameProgress
<1>10. /\ Answers(v, named) /\ v.first = w.first /\ v.last = w.last
       /\ v.encoding = w.encoding /\ v.finished
  BY <1>2, <1>6, WindowFinished DEF SameRequest, Wished, Answers
<1>11. /\ v.from # Unset =>
             /\ v.from \in Nat /\ v.to \in Nat /\ v.from <= v.to /\ v.to <= read
  BY <1>2, <1>5, <1>6, FinishedPlaces DEF Wished
<1>12. /\ v.from = Unset => TrueLines(o) = <<>>
       /\ v.from # Unset => TrueLines(o) = <<v.from, v.to>>
  <2>1. /\ v.encoding \in TextEncodings /\ named \in Seq(Bytes)
        /\ wish.count \in Nat \ {0} /\ v.first \in Nat \ {0}
        /\ v.last = v.first + wish.count - 1 /\ v.first = wish.first
    BY <1>6, <1>10, SeenTypes DEF Wished
  <2>2. /\ v.from = Unset =>
             TrueWindow(named, v.encoding, v.first, wish.count) = <<>>
        /\ v.from # Unset =>
             TrueWindow(named, v.encoding, v.first, wish.count) = <<v.from, v.to>>
    BY <1>10, <2>1, AnswersAreTrue
  <2>3. QED BY <1>9, <2>1, <2>2 DEF TrueLines
<1>13. Located(v) => v.from # Unset
  BY DEF Located
<1>14. NotThere(v) => v.from = Unset
  BY <1>11 DEF NotThere, Unset
<1>15. ASSUME ~o.fits
       PROVE  /\ read > 1 /\ TrueLines(o) # <<>>
              /\ TrueLines(o)[2] - TrueLines(o)[1] > wish.maxBytes
  <2>1. v.from # Unset /\ Held(o) - Backing(v) > Capacity
    BY <1>7, <1>9, <1>15 DEF Kept
  <2>2. PICK from \in Nat : from = v.from
    BY <1>11, <2>1
  <2>3. PICK to \in Nat : to = v.to
    BY <1>11, <2>1
  <2>4. PICK back \in Nat : back = Backing(v) /\ back + 4 >= from
    BY <2>2 DEF Backing, Context
  <2>5. WantedEnd(o) = to + 4
    <3>1. v.to # Unset
      BY <2>3 DEF Unset
    <3>2. QED BY <1>9, <1>10, <2>1, <2>3, <3>1 DEF WantedEnd, Located, Context
  <2>6. PICK held \in Nat : held = Held(o) /\ held <= to + 4 /\ held <= read
    BY <1>9, <2>5 DEF Held, Lesser
  <2>7. PICK max \in Nat : max = wish.maxBytes
    BY WishTypes
  <2>8. held - back > max + 8
    BY <2>1, <2>4, <2>6, <2>7, WishTypes
  <2>9. to - from > max /\ read > 1
    BY <2>4, <2>6, <2>8
  <2>10. TrueLines(o) = <<from, to>>
    BY <1>12, <2>1, <2>2, <2>3
  <2>11. QED BY <2>7, <2>9, <2>10
<1>16. v.encoding \in TextEncodings /\ SameText(v.encoding, TrueEncoding)
  BY <1>6, <1>10, SeenTypes DEF Wished
<1>17. Judged(o)
  <2>1. Located(v) =>
          /\ v.from \in Nat /\ v.to \in Nat /\ v.to <= read /\ TrueLines(o) = <<v.from, v.to>>
    BY <1>11, <1>12, <1>13
  <2>2. NotThere(v) => TrueLines(o) = <<>>
    BY <1>12, <1>14
  <2>3. read \in Nat /\ read <= Len(named)
    BY <1>5
  <2>4. QED BY <1>5, <1>7, <1>9, <1>15, <1>16, <2>1, <2>2, <2>3 DEF Judged
<1>18. QED BY <1>4, <1>9, <1>10, <1>17

\* The loop of scan either stops, and rightly, or goes on looking.
LEMMA LoopTop ==
  ASSUME Wished, NEW r, Looked(r)
  PROVE  LET o == AtLoopTop(r)
         IN  /\ Whole(o)
             /\ o.stop = "pending" =>
                  Looked(o) /\ ~o.eof /\ o.fits /\ SameText(o.window.encoding, TrueEncoding)
<1>1. PICK e : e = Ended(r)
  OBVIOUS
<1>2. PICK o : o = EndedAs(e, StopOf(e))
  OBVIOUS
<1>3. AtLoopTop(r) = o
  BY <1>1, <1>2 DEF AtLoopTop, EndedAs
<1>4. Judged(e) /\ (r.eof => e.eof /\ e.window.finished) /\ (~r.eof => e = r)
  <2>1. CASE r.eof
    BY <1>1, <2>1, EndedJudged
  <2>2. CASE ~r.eof
    <3>1. e = r
      BY <1>1, <2>2 DEF Ended
    <3>2. QED BY <2>2, <3>1, LookedJudged
  <2>3. QED BY <2>1, <2>2
<1>5. Whole(o)
  BY <1>2, <1>4, JudgedWhole
<1>6. ASSUME StopOf(e) = "pending"
      PROVE  ~r.eof /\ r.fits /\ r.bytesRead # wish.maxScan /\ r.calls # MaxReadCalls
  <2>1. Located(e.window) => e.window.from \in Nat /\ e.window.to \in Nat
    BY <1>4 DEF Judged
  <2>2. /\ e.fits /\ ~NotThere(e.window)
        /\ e.bytesRead # wish.maxScan /\ e.calls # MaxReadCalls
        /\ Located(e.window) /\ e.window.to - e.window.from <= wish.maxBytes => ~HasContext(e)
        /\ Located(e.window) => ~(e.window.to - e.window.from > wish.maxBytes)
    <3>1. e.stop = "pending" /\ wish.maxBytes \in Nat
      BY <1>4, WishTypes DEF Judged
    <3>2. QED BY <1>6, <2>1, <3>1, StopCases
  <2>3. ~e.eof
    <3>1. SUFFICES ASSUME e.eof PROVE FALSE
      OBVIOUS
    <3>2. Located(e.window)
      <4>1. e.window.finished
        BY <1>4, <3>1
      <4>2. QED BY <2>2, <4>1 DEF Located, NotThere
    <3>3. HasContext(e)
      BY <3>1 DEF HasContext
    <3>4. e.window.to - e.window.from <= wish.maxBytes
      BY <2>1, <2>2, <3>2, WishTypes
    <3>5. QED BY <2>2, <3>2, <3>3, <3>4
  <2>4. QED BY <1>4, <2>2, <2>3
<1>7. o.stop = StopOf(e)
  BY <1>2, <1>4, ReadingStopped DEF Judged
<1>8. ASSUME StopOf(e) = "pending"
      PROVE  Looked(o) /\ ~o.eof /\ o.fits /\ SameText(o.window.encoding, TrueEncoding)
  <2>1. o = EndedAs(r, "pending") /\ ~r.eof /\ r.fits
    BY <1>2, <1>4, <1>6, <1>8
  <2>2. IsReading(r) /\ r.stop = "pending"
    BY DEF Looked
  <2>3. o = r
    BY <2>1, <2>2 DEF EndedAs, IsReading
  <2>4. SameText(r.window.encoding, TrueEncoding)
    BY <1>6, <1>8 DEF Looked
  <2>5. QED BY <2>1, <2>3, <2>4
<1>9. QED BY <1>3, <1>5, <1>7, <1>8

\* The file, further on.
Further(r, w, read) == [r EXCEPT !.window = w, !.bytesRead = read]
Remembered(r, history) == [r EXCEPT !.history = history]

LEMMA ReadingFurther ==
  ASSUME NEW r, IsReading(r), NEW w, NEW read
  PROVE  LET o == Further(r, w, read)
         IN  /\ IsReading(o) /\ o.window = w /\ o.bytesRead = read
             /\ o.phase = r.phase /\ o.history = r.history /\ o.stop = r.stop
             /\ o.selected = r.selected /\ o.backing = r.backing /\ (o.fits <=> r.fits)
             /\ o.calls = r.calls /\ o.eof = r.eof
<1>1. PICK o : o = [r EXCEPT !.window = w, !.bytesRead = read]
  OBVIOUS
<1>2. o = [phase |-> r.phase, window |-> w, history |-> r.history,
           selected |-> r.selected, backing |-> r.backing, bytesRead |-> read,
           calls |-> r.calls, eof |-> r.eof, fits |-> r.fits, stop |-> r.stop]
  BY <1>1 DEF IsReading
<1>3. /\ IsReading(o) /\ o.window = w /\ o.bytesRead = read
      /\ o.phase = r.phase /\ o.history = r.history /\ o.stop = r.stop
      /\ o.selected = r.selected /\ o.backing = r.backing /\ (o.fits <=> r.fits)
      /\ o.calls = r.calls /\ o.eof = r.eof
  BY <1>2 DEF IsReading
<1>4. QED BY <1>1, <1>3 DEF Further

LEMMA ReadingRemembered ==
  ASSUME NEW r, IsReading(r), NEW history
  PROVE  LET o == Remembered(r, history)
         IN  /\ IsReading(o) /\ o.history = history
             /\ o.phase = r.phase /\ o.window = r.window /\ o.stop = r.stop
             /\ o.selected = r.selected /\ o.backing = r.backing /\ o.fits = r.fits
             /\ o.bytesRead = r.bytesRead /\ o.calls = r.calls /\ o.eof = r.eof
<1>1. PICK o : o = [r EXCEPT !.history = history]
  OBVIOUS
<1>2. o = [phase |-> r.phase, window |-> r.window, history |-> history,
           selected |-> r.selected, backing |-> r.backing, bytesRead |-> r.bytesRead,
           calls |-> r.calls, eof |-> r.eof, fits |-> r.fits, stop |-> r.stop]
  BY <1>1 DEF IsReading
<1>3. /\ IsReading(o) /\ o.history = history
      /\ o.phase = r.phase /\ o.window = r.window /\ o.stop = r.stop
      /\ o.selected = r.selected /\ o.backing = r.backing /\ o.fits = r.fits
      /\ o.bytesRead = r.bytesRead /\ o.calls = r.calls /\ o.eof = r.eof
  BY <1>2 DEF IsReading
<1>4. QED BY <1>1, <1>3 DEF Remembered

\* The rolling history: the last bytes of what was read.
LEMMA HistoryRolls ==
  ASSUME NEW bytes \in Seq(Bytes), NEW read \in Nat, NEW end \in Nat,
         read < end, end <= Len(bytes)
  PROVE  HistoryAfter(SubSeq(bytes, Older(read) + 1, end)) = SubSeq(bytes, Older(end) + 1, end)
<1>1. PICK base \in Nat : base = Older(read)
  BY DEF Older, HistoryBytes
<1>2. PICK older \in Nat : older = Older(end)
  BY DEF Older, HistoryBytes
<1>3. base <= read /\ base <= older /\ older < end /\ Len(bytes) \in Nat
      /\ (end - base <= 8 => older = base) /\ (end - base > 8 => older = end - 8)
  BY <1>1, <1>2, LenProperties DEF Older, HistoryBytes
<1>4. PICK buffer : buffer = SubSeq(bytes, base + 1, end)
  OBVIOUS
<1>5. Len(buffer) = end - base
  <2>1. base \in 0 .. Len(bytes) /\ end \in base .. Len(bytes)
    BY <1>3
  <2>2. QED BY <1>4, <2>1, Chunk
<1>6. CASE end - base <= 8
  <2>1. HistoryAfter(buffer) = buffer
    BY <1>5, <1>6 DEF HistoryAfter, LastOf, HistoryBytes
  <2>2. QED BY <1>1, <1>2, <1>3, <1>4, <1>6, <2>1
<1>7. CASE end - base > 8
  <2>1. HistoryAfter(buffer) = SubSeq(buffer, (end - base - 8) + 1, end - base)
    BY <1>5, <1>7 DEF HistoryAfter, LastOf, HistoryBytes, Rest
  <2>2. older - base + 1 = (end - base - 8) + 1
    BY <1>3, <1>7
  <2>3. SubSeq(SubSeq(bytes, base + 1, end), older - base + 1, end - base)
          = SubSeq(bytes, older + 1, end)
    <3>1. end <= end
      OBVIOUS
    <3>2. QED BY <1>3, <3>1, SliceOfSlice
  <2>4. QED BY <1>1, <1>2, <1>4, <2>1, <2>2, <2>3
<1>8. QED BY <1>3, <1>6, <1>7

\* A piece of the file behind what a window was shown.
LEMMA PieceTaken ==
  ASSUME NEW bytes \in Seq(Bytes), NEW w, Seen(w, bytes), NEW read \in Nat, NEW end \in Nat,
         w.offset <= read, w.finished \/ w.offset = read, read < end, end <= Len(bytes)
  PROVE  LET v == StepWindow(w, SubSeq(bytes, read + 1, end))
         IN  /\ Seen(v, bytes) /\ SameRequest(w, v)
             /\ v.offset <= end /\ (v.finished \/ v.offset = end)
             /\ w.finished => v = w
             /\ w.from # Unset => v.from = w.from
             /\ w.from = Unset /\ v.from # Unset => read <= v.from + 1
             /\ ~w.finished /\ v.finished => read <= v.to + 1
<1>1. PICK v : v = StepWindow(w, SubSeq(bytes, read + 1, end))
  OBVIOUS
<1>2. PICK enc : enc = w.encoding
  OBVIOUS
<1>3. w.offset \in Nat /\ Len(bytes) \in Nat
  BY SeenTypes, LenProperties
<1>4. CASE w.finished
  <2>1. SubSeq(bytes, read + 1, end) \in Seq(Bytes)
    <3>1. read \in 0 .. Len(bytes) /\ end \in read .. Len(bytes)
      BY <1>3
    <3>2. QED BY <3>1, Chunk
  <2>2. v = w
    BY <1>1, <1>4, <2>1, FinishedStays
  <2>3. w.from # Unset
    BY <1>4, WindowPlaces
  <2>4. w.offset <= end
    BY <1>3
  <2>5. QED BY <1>1, <1>4, <2>2, <2>3, <2>4 DEF SameRequest
<1>5. CASE ~w.finished
  <2>1. w.offset = read /\ end \in w.offset .. Len(bytes)
    BY <1>3, <1>5
  <2>2. /\ Seen(v, bytes) /\ SameRequest(w, v)
        /\ v.offset <= end /\ (v.finished \/ v.offset = end)
    BY <1>1, <2>1, ChunkTaken
  <2>3. w.from # Unset => v.from = w.from
    BY <1>5, <2>1, <2>2, StartStays
  <2>4. /\ v.encoding = enc /\ v.first = w.first /\ v.last = w.last
    BY <1>2, <2>2 DEF SameRequest
  <2>5. w.from = Unset /\ v.from # Unset => read <= v.from + 1
    <3>1. SUFFICES ASSUME w.from = Unset, v.from # Unset PROVE read <= v.from + 1
      OBVIOUS
    <3>2. w.first <= LineCount(bytes, enc) /\ v.from = LineStart(bytes, enc, w.first)
      BY <2>2, <2>4, <3>1, StartKnown
    <3>3. w.offset <= LineStart(bytes, enc, w.first) + 1
      BY <1>2, <1>5, <3>1, <3>2, LaterPlaces
    <3>4. QED BY <2>1, <3>2, <3>3
  <2>6. v.finished => read <= v.to + 1
    <3>1. SUFFICES ASSUME v.finished PROVE read <= v.to + 1
      OBVIOUS
    <3>2. w.last <= LineCount(bytes, enc) /\ v.to = LineEnd(bytes, enc, w.last)
      BY <2>2, <2>4, <3>1, WindowPlaces
    <3>3. PICK last \in 1 .. LineCount(bytes, enc) : last = w.last
      BY <1>2, <3>2, SeenTypes
    <3>4. w.line <= last /\ (\A n \in 1 .. LineCount(bytes, enc) :
                               w.line <= n => w.offset <= LineEnd(bytes, enc, n) + 1)
      BY <1>2, <1>5, <3>3, LaterPlaces
    <3>5. w.offset <= LineEnd(bytes, enc, last) + 1
      BY <3>4
    <3>6. QED BY <2>1, <3>2, <3>3, <3>5
  <2>7. QED BY <1>1, <1>5, <2>2, <2>3, <2>5, <2>6
<1>6. QED BY <1>4, <1>5

\* retain, after a piece: the buffer reaches back to what is held.
LEMMA PieceRetained ==
  ASSUME Wished, NEW r, Looked(r), ~r.eof, r.fits,
         NEW end \in Nat, r.bytesRead < end, end <= Len(named)
  PROVE  LET v == StepWindow(r.window, SubSeq(named, r.bytesRead + 1, end))
             s == Further(r, v, end)
             o == Retained(s, Older(r.bytesRead), SubSeq(named, Older(r.bytesRead) + 1, end))
         IN  IsReading(o) /\ SameProgress(s, o) /\ Kept(o)
<1>1. PICK w : w = r.window
  OBVIOUS
<1>2. PICK read \in Nat : read = r.bytesRead
  BY DEF Looked
<1>3. PICK v : v = StepWindow(w, SubSeq(named, read + 1, end))
  OBVIOUS
<1>4. PICK s : s = Further(r, v, end)
  OBVIOUS
<1>5. PICK base \in Nat : base = Older(read)
  BY DEF Older, HistoryBytes
<1>6. /\ IsReading(r) /\ Kept(r) /\ Seen(w, named)
      /\ w.offset <= read
      /\ (w.finished \/ w.offset = read)
      /\ named \in Seq(Bytes) /\ Capacity \in Nat /\ read < end
  BY <1>1, <1>2, WishTypes DEF Looked
<1>7. /\ Seen(v, named)
      /\ v.offset <= end /\ (v.finished \/ v.offset = end)
      /\ w.finished => v = w
      /\ w.from # Unset => v.from = w.from
      /\ w.from = Unset /\ v.from # Unset => read <= v.from + 1
      /\ ~w.finished /\ v.finished => read <= v.to + 1
  BY <1>3, <1>6, PieceTaken
<1>8. /\ IsReading(s) /\ s.window = v /\ s.fits /\ s.bytesRead = end
      /\ s.selected = r.selected /\ s.backing = r.backing
  <2>1. IsReading(r)
    BY <1>6
  <2>2. LET o == Further(r, v, end)
        IN  /\ IsReading(o) /\ o.window = v /\ o.bytesRead = end /\ (o.fits <=> r.fits)
            /\ o.selected = r.selected /\ o.backing = r.backing
    BY <2>1, ReadingFurther
  <2>3. QED BY <1>4, <2>2
<1>9. /\ w.offset \in Nat
      /\ w.from # Unset => w.from \in Nat /\ w.from <= w.offset
      /\ w.finished => w.from # Unset /\ w.to \in Nat /\ w.from <= w.to /\ w.to <= w.offset
  BY <1>6, WindowPlaces
<1>10. /\ v.offset \in Nat
       /\ v.from # Unset => v.from \in Nat /\ v.from <= v.offset
       /\ v.finished => v.from # Unset /\ v.to \in Nat /\ v.from <= v.to /\ v.to <= v.offset
  BY <1>6, <1>7, WindowPlaces
<1>11. /\ v.finished => WantedEnd(s) = v.to + 4
       /\ ~v.finished => WantedEnd(s) = end
  <2>1. v.finished => v.to # Unset
    BY <1>10 DEF Unset
  <2>2. v.finished => Located(v)
    BY <1>10, <2>1 DEF Located
  <2>3. ~v.finished => ~Located(v)
    BY DEF Located
  <2>4. QED BY <1>7, <1>8, <2>2, <2>3 DEF WantedEnd, Context
<1>12. \E kept \in Nat :
         v.from # Unset =>
           /\ Backing(v) <= kept /\ kept <= Held(s)
           /\ r.selected = SubSeq(named, Backing(v) + 1, kept)
           /\ kept - Backing(v) <= Capacity
           /\ base <= kept \/ Held(s) <= kept
           /\ r.backing \in {Unset, Backing(v)}
  <2>1. SUFFICES ASSUME v.from # Unset
                 PROVE  \E kept \in Nat :
                          /\ Backing(v) <= kept /\ kept <= Held(s)
                          /\ r.selected = SubSeq(named, Backing(v) + 1, kept)
                          /\ kept - Backing(v) <= Capacity
                          /\ base <= kept \/ Held(s) <= kept
                          /\ r.backing \in {Unset, Backing(v)}
    OBVIOUS
  <2>2. PICK from \in Nat : from = v.from
    BY <1>10, <2>1
  <2>3. PICK back \in Nat : back = Backing(v) /\ back <= from /\ back + 4 >= from
    BY <2>2 DEF Backing, Context
  <2>4. PICK wanted \in Nat :
          /\ wanted = WantedEnd(s) /\ from <= wanted
          /\ v.finished => wanted = v.to + 4
          /\ ~v.finished => wanted = end
    <3>1. CASE v.finished
      <4>1. PICK to \in Nat : to = v.to /\ from <= to
        BY <1>10, <2>2, <3>1
      <4>2. WantedEnd(s) = to + 4
        BY <1>11, <3>1, <4>1
      <4>3. QED BY <3>1, <4>1, <4>2
    <3>2. CASE ~v.finished
      <4>1. WantedEnd(s) = end /\ from <= end
        BY <1>7, <1>10, <1>11, <2>1, <2>2, <3>2
      <4>2. QED BY <3>2, <4>1
    <3>3. QED BY <3>1, <3>2
  <2>5. PICK held \in Nat : held = Held(s) /\ held <= end /\ held <= wanted /\ back <= held
                            /\ (held = end \/ held = wanted)
    <3>1. from <= end
      BY <1>7, <1>10, <2>1, <2>2
    <3>2. Held(s) = Lesser(end, wanted)
      BY <1>8, <2>4 DEF Held
    <3>3. QED BY <2>3, <2>4, <3>1, <3>2 DEF Lesser
  <2>6. CASE w.from = Unset
    <3>1. r.selected = <<>> /\ r.backing = Unset
      BY <1>1, <1>6, <2>6 DEF Kept
    <3>2. read <= from + 1
      BY <1>7, <2>1, <2>2, <2>6
    <3>3. base <= back
      BY <1>5, <2>3, <3>2 DEF Older, HistoryBytes
    <3>4. SubSeq(named, back + 1, back) = <<>>
      <4>1. PICK n : n = back + 1
        OBVIOUS
      <4>2. n > back /\ n \in Int
        BY <4>1
      <4>3. SubSeq(named, n, back) = <<>>
        BY <1>6, <4>2, SubSeqEmpty
      <4>4. QED BY <4>1, <4>3
    <3>5. /\ Backing(v) <= back /\ back <= Held(s)
          /\ r.selected = SubSeq(named, Backing(v) + 1, back)
          /\ back - Backing(v) <= Capacity /\ base <= back
          /\ r.backing \in {Unset, Backing(v)}
      BY <1>6, <2>3, <2>5, <3>1, <3>3, <3>4
    <3>6. QED BY <3>5, Zenon
  <2>7. CASE w.from # Unset
    <3>1. w.from = from /\ Backing(w) = back
      BY <1>7, <2>2, <2>3, <2>7 DEF Backing
    <3>2. PICK kept \in Nat :
            /\ kept = Held(r) /\ kept <= read /\ back <= kept
            /\ ~w.finished => kept = read
            /\ w.finished => kept = read \/ kept = wanted
            /\ w.finished => kept <= wanted
      <4>1. CASE w.finished
        <5>1. PICK to \in Nat : to = w.to /\ from <= to
          BY <1>9, <3>1, <4>1
        <5>2. w.to # Unset
          BY <5>1 DEF Unset
        <5>3. WantedEnd(r) = to + 4 /\ wanted = to + 4
          BY <1>1, <1>7, <2>4, <2>7, <4>1, <5>1, <5>2 DEF WantedEnd, Located, Context
        <5>4. Held(r) = Lesser(read, to + 4)
          BY <1>2, <5>3 DEF Held
        <5>5. from <= read
          BY <1>6, <1>9, <3>1, <2>7
        <5>6. QED BY <2>3, <4>1, <5>1, <5>3, <5>4, <5>5, SMTT(30) DEF Lesser
      <4>2. CASE ~w.finished
        <5>1. WantedEnd(r) = read
          BY <1>1, <1>6, <4>2 DEF WantedEnd, Located
        <5>2. Held(r) = read
          BY <1>2, <5>1 DEF Held, Lesser
        <5>3. from <= read
          BY <1>6, <1>9, <3>1, <2>7
        <5>4. QED BY <2>3, <4>2, <5>2, <5>3
      <4>3. QED BY <4>1, <4>2
    <3>3. /\ r.backing = back /\ r.selected = SubSeq(named, back + 1, kept)
          /\ Len(r.selected) <= Capacity
      BY <1>1, <1>6, <2>7, <3>1, <3>2 DEF Kept
    <3>4. kept <= wanted
      <4>1. CASE w.finished
        BY <3>2, <4>1
      <4>2. CASE ~w.finished /\ v.finished
        <5>1. PICK to \in Nat : to = v.to
          BY <1>10, <4>2
        <5>2. read <= to + 1 /\ wanted = to + 4
          BY <1>7, <2>4, <4>2, <5>1
        <5>3. QED BY <3>2, <5>2
      <4>3. CASE ~w.finished /\ ~v.finished
        BY <1>6, <2>4, <3>2, <4>3
      <4>4. QED BY <4>1, <4>2, <4>3
    <3>5. kept <= held
      BY <1>6, <2>5, <3>2, <3>4
    <3>6. base <= kept \/ held <= kept
      <4>1. base <= read
        BY <1>5 DEF Older, HistoryBytes
      <4>2. QED BY <2>5, <3>2, <4>1
    <3>7. Len(r.selected) = kept - back
      <4>1. back \in 0 .. Len(named) /\ kept \in back .. Len(named)
        BY <1>6, <3>2, LenProperties
      <4>2. QED BY <1>6, <3>3, <4>1, Chunk
    <3>8. /\ Backing(v) <= kept /\ kept <= Held(s)
          /\ r.selected = SubSeq(named, Backing(v) + 1, kept)
          /\ kept - Backing(v) <= Capacity /\ (base <= kept \/ Held(s) <= kept)
          /\ r.backing \in {Unset, Backing(v)}
      BY <2>3, <2>5, <3>2, <3>3, <3>5, <3>6, <3>7
    <3>9. QED BY <3>8, Zenon
  <2>8. QED BY <2>6, <2>7
<1>13. PICK kept \in Nat :
         v.from # Unset =>
           /\ Backing(v) <= kept /\ kept <= Held(s)
           /\ r.selected = SubSeq(named, Backing(v) + 1, kept)
           /\ kept - Backing(v) <= Capacity
           /\ base <= kept \/ Held(s) <= kept
           /\ r.backing \in {Unset, Backing(v)}
  BY <1>12
<1>14. LET o == Retained(s, base, SubSeq(named, base + 1, end))
       IN  IsReading(o) /\ SameProgress(s, o) /\ Kept(o)
  <2>1. base <= end
    BY <1>5, <1>6 DEF Older, HistoryBytes
  <2>2. PICK bytes : bytes = SubSeq(named, base + 1, s.bytesRead)
    OBVIOUS
  <2>3. /\ IsReading(s) /\ s.bytesRead \in Nat /\ s.bytesRead <= Len(named) /\ s.fits
        /\ base <= s.bytesRead /\ bytes = SubSeq(named, base + 1, s.bytesRead)
        /\ named \in Seq(Bytes) /\ Capacity \in Nat
    BY <1>6, <1>8, <2>1, <2>2
  <2>4. s.window.from = Unset => s.backing = Unset /\ s.selected = <<>>
    <3>1. v.from = Unset => w.from = Unset
      BY <1>7
    <3>2. QED BY <1>1, <1>6, <1>8, <3>1 DEF Kept
  <2>5. s.window.from # Unset =>
           /\ s.window.from \in Nat /\ WantedEnd(s) \in Nat
           /\ s.backing \in {Unset, Backing(s.window)}
           /\ Backing(s.window) <= kept /\ kept <= Held(s)
           /\ s.selected = SubSeq(named, Backing(s.window) + 1, kept)
           /\ kept - Backing(s.window) <= Capacity
           /\ base <= kept \/ Held(s) <= kept
    <3>1. WantedEnd(s) \in Nat
      BY <1>10, <1>11
    <3>2. QED BY <1>8, <1>10, <1>13, <3>1
  <2>6. LET o == Retained(s, base, bytes)
        IN  IsReading(o) /\ SameProgress(s, o) /\ Kept(o)
    BY <2>3, <2>4, <2>5, RetainedKeeps
  <2>7. QED BY <1>8, <2>2, <2>6
<1>15. QED BY <1>1, <1>2, <1>3, <1>4, <1>5, <1>14

\* After a piece of the file, wherever it was cut, the scan has looked at it.
LEMMA PieceLooked ==
  ASSUME Wished, NEW r, Looked(r), ~r.eof, r.fits,
         SameText(r.window.encoding, TrueEncoding),
         NEW end \in Nat, r.bytesRead < end, end <= Len(named)
  PROVE  \E s : /\ Looked(s)
                /\ AfterLinesRead(r, SubSeq(named, r.bytesRead + 1, end)) = AtLoopTop(s)
<1>1. PICK w : w = r.window
  OBVIOUS
<1>2. PICK read \in Nat : read = r.bytesRead
  BY DEF Looked
<1>3. PICK piece : piece = SubSeq(named, read + 1, end)
  OBVIOUS
<1>4. PICK v : v = StepWindow(w, piece)
  OBVIOUS
<1>5. PICK seen : seen = Further(r, v, end)
  OBVIOUS
<1>6. PICK base \in Nat : base = Older(read)
  BY DEF Older, HistoryBytes
<1>7. PICK buffer : buffer = SubSeq(named, base + 1, end)
  OBVIOUS
<1>8. PICK kept : kept = Retained(seen, base, buffer)
  OBVIOUS
<1>9. PICK s : s = Remembered(kept, HistoryAfter(buffer))
  OBVIOUS
<1>10. /\ IsReading(r) /\ r.phase = "lines" /\ r.stop = "pending" /\ Seen(w, named)
       /\ w.first = wish.first /\ w.last = wish.first + wish.count - 1
       /\ w.offset <= read
       /\ (w.finished \/ w.offset = read)
       /\ r.history = SubSeq(named, base + 1, read)
       /\ named \in Seq(Bytes) /\ read < end
  BY <1>1, <1>2, <1>6, WishTypes DEF Looked
<1>11. base <= read /\ Len(r.history) = read - base
  <2>1. read <= Len(named)
    BY <1>10, LenProperties
  <2>2. /\ Older(read) <= read
        /\ Len(SubSeq(named, Older(read) + 1, read)) = read - Older(read)
    BY <1>10, <2>1, HistoryLength
  <2>3. QED BY <1>6, <1>10, <2>2
<1>12. r.history \o piece = buffer
  <2>1. read <= end
    BY <1>10
  <2>2. SubSeq(named, base + 1, read) \o SubSeq(named, read + 1, end) = SubSeq(named, base + 1, end)
    BY <1>10, <1>11, <2>1, SliceJoined
  <2>3. QED BY <1>3, <1>7, <1>10, <2>2
<1>13. r.bytesRead + Len(piece) = end /\ r.bytesRead - Len(r.history) = base
  <2>1. read \in 0 .. Len(named) /\ end \in read .. Len(named)
    BY <1>10, LenProperties
  <2>2. Len(piece) = end - read
    BY <1>3, <1>10, <2>1, Chunk
  <2>3. QED BY <1>2, <1>11, <2>2
<1>14. AfterLinesRead(r, piece) = AtLoopTop(s)
  BY <1>1, <1>4, <1>5, <1>8, <1>9, <1>12, <1>13 DEF AfterLinesRead, Further, Remembered
<1>15. IsReading(kept) /\ SameProgress(seen, kept) /\ Kept(kept)
  BY <1>1, <1>2, <1>3, <1>4, <1>5, <1>6, <1>7, <1>8, PieceRetained
<1>16. /\ Seen(v, named) /\ SameRequest(w, v)
       /\ v.offset <= end /\ (v.finished \/ v.offset = end)
  BY <1>3, <1>4, <1>10, PieceTaken
<1>17. /\ seen.window = v /\ seen.bytesRead = end /\ seen.phase = "lines"
       /\ seen.stop = "pending" /\ seen.eof = r.eof
  <2>1. IsReading(r) /\ r.phase = "lines" /\ r.stop = "pending"
    BY <1>10
  <2>2. QED BY <1>5, <2>1, ReadingFurther
<1>18. /\ kept.window = v /\ kept.bytesRead = end /\ kept.phase = "lines"
       /\ kept.stop = "pending" /\ ~kept.eof
  BY <1>15, <1>17 DEF SameProgress
<1>19. /\ IsReading(s) /\ s.history = HistoryAfter(buffer)
       /\ s.phase = "lines" /\ s.window = v /\ s.stop = "pending" /\ s.bytesRead = end
       /\ s.selected = kept.selected /\ s.backing = kept.backing
       /\ (s.fits <=> kept.fits) /\ ~s.eof
  <2>1. /\ IsReading(s) /\ s.history = HistoryAfter(buffer)
        /\ s.phase = kept.phase /\ s.window = kept.window /\ s.stop = kept.stop
        /\ s.selected = kept.selected /\ s.backing = kept.backing /\ s.fits = kept.fits
        /\ s.bytesRead = kept.bytesRead /\ s.eof = kept.eof
    BY <1>9, <1>15, ReadingRemembered
  <2>2. QED BY <1>18, <2>1
<1>20. Kept(s)
  <2>1. s.window = kept.window /\ Held(s) = Held(kept)
    BY <1>18, <1>19 DEF Held, WantedEnd
  <2>2. QED BY <1>15, <1>19, <2>1 DEF Kept
<1>21. s.history = SubSeq(named, Older(end) + 1, end)
  BY <1>6, <1>7, <1>10, <1>19, HistoryRolls
<1>22. /\ v.first = wish.first /\ v.last = wish.first + wish.count - 1
       /\ SameText(v.encoding, TrueEncoding)
  BY <1>1, <1>10, <1>16 DEF SameRequest
<1>23. Looked(s)
  BY <1>16, <1>19, <1>20, <1>21, <1>22 DEF Looked
<1>24. QED BY <1>2, <1>3, <1>14, <1>23

-----------------------------------------------------------------------------
(* A named file: its first bytes.                                          *)

\* What is known while the encoding is not.
Gathered(r) ==
  /\ IsReading(r) /\ r.phase = "prefix" /\ r.stop = "pending" /\ r.fits
  /\ r.bytesRead \in Nat /\ r.bytesRead <= Len(named) /\ r.bytesRead <= PrefixBytes
  /\ r.history = SubSeq(named, 1, r.bytesRead)
  /\ r.selected = <<>> /\ r.backing = Unset
  /\ r.eof => r.bytesRead = Len(named)

\* Two bytes cut the file as three do.
LEMMA TwoBytesSuffice ==
  ASSUME Wished, Len(named) >= 3
  PROVE  SameText(EncodingFor(SubSeq(named, 1, 2)), EncodingFor(SubSeq(named, 1, 3)))
<1>1. PICK p : p = SubSeq(named, 1, 2)
  OBVIOUS
<1>2. PICK q : q = SubSeq(named, 1, 3)
  OBVIOUS
<1>3. named \in Seq(Bytes) /\ Len(named) \in Nat
  BY WishTypes
<1>4. /\ p \in Seq(Bytes) /\ Len(p) = 2
      /\ q \in Seq(Bytes) /\ Len(q) = 3
      /\ p[1] = named[1] /\ q[1] = named[1]
  <2>1. PICK zero \in 0 .. Len(named) : zero = 0
    BY <1>3
  <2>2. PICK two \in zero .. Len(named) : two = 2
    BY <1>3, <2>1
  <2>3. PICK three \in zero .. Len(named) : three = 3
    BY <1>3, <2>1
  <2>4. /\ SubSeq(named, zero + 1, two) \in Seq(Bytes)
        /\ Len(SubSeq(named, zero + 1, two)) = two - zero
        /\ \A n \in 1 .. (two - zero) : SubSeq(named, zero + 1, two)[n] = named[zero + n]
    BY <1>3, <2>1, <2>2, Chunk
  <2>5. /\ SubSeq(named, zero + 1, three) \in Seq(Bytes)
        /\ Len(SubSeq(named, zero + 1, three)) = three - zero
        /\ \A n \in 1 .. (three - zero) : SubSeq(named, zero + 1, three)[n] = named[zero + n]
    BY <1>3, <2>1, <2>3, Chunk
  <2>6. zero + 1 = 1 /\ two - zero = 2 /\ three - zero = 3
    BY <2>1, <2>2, <2>3
  <2>7. QED BY <1>1, <1>2, <2>1, <2>2, <2>3, <2>4, <2>5, <2>6
<1>5. SubSeq(p, 1, 2) = p
  BY <1>4, SubSeqFull
<1>6. SubSeq(q, 1, 2) = p
  <2>1. PICK base \in Nat : base = 0
    OBVIOUS
  <2>2. PICK two \in Nat : two = 2
    OBVIOUS
  <2>3. PICK end \in Nat : end = 3
    OBVIOUS
  <2>4. base <= base /\ base < two /\ two <= end /\ end <= Len(named)
    BY <2>1, <2>2, <2>3
  <2>5. SubSeq(SubSeq(named, base + 1, end), base - base + 1, two - base) = SubSeq(named, base + 1, two)
    BY <1>3, <2>4, SliceOfSlice
  <2>6. base + 1 = 1 /\ base - base + 1 = 1 /\ two - base = 2
    BY <2>1, <2>2
  <2>7. QED BY <1>1, <1>2, <2>2, <2>3, <2>5, <2>6
<1>7. /\ StartsWith(p, Mark("utf16le")) <=> p = <<255, 254>>
      /\ StartsWith(p, Mark("utf16be")) <=> p = <<254, 255>>
      /\ StartsWith(q, Mark("utf16le")) <=> p = <<255, 254>>
      /\ StartsWith(q, Mark("utf16be")) <=> p = <<254, 255>>
  <2>1. ASSUME NEW a, NEW b
        PROVE  /\ StartsWith(p, <<a, b>>) <=> p = <<a, b>>
               /\ StartsWith(q, <<a, b>>) <=> p = <<a, b>>
    <3>1. PICK m : m = <<a, b>>
      OBVIOUS
    <3>2. Len(m) = 2
      BY <3>1
    <3>3. /\ StartsWith(p, m) <=> p = m
          /\ StartsWith(q, m) <=> p = m
      BY <1>4, <1>5, <1>6, <3>2 DEF StartsWith
    <3>4. QED BY <3>1, <3>3
  <2>2. Mark("utf16le") = <<255, 254>> /\ Mark("utf16be") = <<254, 255>>
    BY DEF Mark
  <2>3. QED BY <2>1, <2>2
<1>8. ~StartsWith(p, Mark("utf8bom"))
  <2>1. Len(Mark("utf8bom")) = 3
    BY DEF Mark
  <2>2. QED BY <1>4, <2>1 DEF StartsWith
<1>9. StartsWith(q, Mark("utf8bom")) => p # <<255, 254>> /\ p # <<254, 255>>
  <2>1. SUFFICES ASSUME StartsWith(q, Mark("utf8bom")) PROVE p # <<255, 254>> /\ p # <<254, 255>>
    OBVIOUS
  <2>2. SubSeq(q, 1, 3) = <<239, 187, 191>>
    <3>1. Mark("utf8bom") = <<239, 187, 191>> /\ Len(<<239, 187, 191>>) = 3
      BY DEF Mark
    <3>2. QED BY <2>1, <3>1 DEF StartsWith
  <2>3. SubSeq(q, 1, 3) = q
    BY <1>4, SubSeqFull
  <2>4. q[1] = 239
    <3>1. q = <<239, 187, 191>>
      BY <2>2, <2>3
    <3>2. <<239, 187, 191>>[1] = 239
      OBVIOUS
    <3>3. QED BY <3>1, <3>2
  <2>5. QED BY <1>4, <2>4
<1>10. SameText(DetectEncoding(p), DetectEncoding(q))
  BY <1>7, <1>8, <1>9 DEF DetectEncoding, SameText, IsUtf16
<1>11. wish.encoding \in {"auto", "utf8", "utf16le", "utf16be"}
  BY DEF Wished
<1>12. SameText(EncodingFor(p), EncodingFor(q))
  <2>1. CASE wish.encoding = "auto"
    BY <1>10, <2>1 DEF EncodingFor
  <2>2. CASE wish.encoding = "utf8"
    BY <2>2 DEF EncodingFor, SameText, IsUtf16
  <2>3. CASE wish.encoding \in {"utf16le", "utf16be"}
    BY <2>3 DEF EncodingFor, SameText
  <2>4. QED BY <1>11, <2>1, <2>2, <2>3
<1>13. QED BY <1>1, <1>2, <1>12

LEMMA PrefixLength ==
  ASSUME Wished, NEW r, Gathered(r)
  PROVE  Len(r.history) = r.bytesRead /\ r.history \in Seq(Bytes)
<1>1. PICK read \in Nat : read = r.bytesRead
  BY DEF Gathered
<1>2. PICK zero \in 0 .. Len(named) : zero = 0
  BY WishTypes
<1>3. read \in zero .. Len(named) /\ named \in Seq(Bytes)
  BY <1>1, <1>2, WishTypes DEF Gathered
<1>4. /\ SubSeq(named, zero + 1, read) \in Seq(Bytes)
      /\ Len(SubSeq(named, zero + 1, read)) = read - zero
  BY <1>2, <1>3, Chunk
<1>5. zero + 1 = 1 /\ read - zero = read
  BY <1>2
<1>6. r.history = SubSeq(named, 1, read)
  BY <1>1 DEF Gathered
<1>7. QED BY <1>1, <1>4, <1>5, <1>6

\* The first bytes settle the encoding, unless a limit stops the scan.
LEMMA PrefixEncoding ==
  ASSUME Wished, NEW r, Gathered(r), PrefixComplete(r)
  PROVE  \/ SameText(EncodingFor(r.history), TrueEncoding)
         \/ /\ r.bytesRead <= 1 /\ ~r.eof
            /\ r.bytesRead = wish.maxScan \/ r.calls = MaxReadCalls
<1>1. PICK read \in Nat : read = r.bytesRead
  BY DEF Gathered
<1>2. PICK size \in Nat : size = Len(named)
  BY WishTypes
<1>3. /\ read <= size /\ read <= 3 /\ r.history = SubSeq(named, 1, read)
      /\ Len(r.history) = read /\ (r.eof => read = size)
  BY <1>1, <1>2, PrefixLength DEF Gathered, PrefixBytes
<1>4. TrueEncoding = EncodingFor(SubSeq(named, 1, IF 3 < size THEN 3 ELSE size))
  BY <1>2 DEF TrueEncoding, Lesser, PrefixBytes
<1>5. CASE r.eof \/ read = 3 \/ read = size
  <2>1. (IF 3 < size THEN 3 ELSE size) = read
    BY <1>3, <1>5
  <2>2. QED BY <1>3, <1>4, <2>1 DEF SameText
<1>6. CASE ~(r.eof \/ read = 3 \/ read = size)
  <2>1. read = wish.maxScan \/ r.calls = MaxReadCalls
    BY <1>3, <1>6 DEF PrefixComplete, PrefixBytes
  <2>2. CASE read <= 1
    BY <1>1, <1>6, <2>1, <2>2
  <2>3. CASE ~(read <= 1)
    <3>1. read = 2 /\ size >= 3 /\ (IF 3 < size THEN 3 ELSE size) = 3
      BY <1>3, <1>6, <2>3
    <3>2. SameText(EncodingFor(SubSeq(named, 1, 2)), EncodingFor(SubSeq(named, 1, 3)))
      BY <1>2, <3>1, TwoBytesSuffice
    <3>3. QED BY <1>3, <1>4, <3>1, <3>2
  <2>4. QED BY <2>2, <2>3
<1>7. QED BY <1>5, <1>6

LookedThrough(r, w) == [r EXCEPT !.window = w, !.phase = "lines"]

LEMMA ReadingLooking ==
  ASSUME NEW r, IsReading(r), NEW w
  PROVE  LET o == LookedThrough(r, w)
         IN  /\ IsReading(o) /\ o.window = w /\ o.phase = "lines"
             /\ o.history = r.history /\ o.stop = r.stop /\ o.bytesRead = r.bytesRead
             /\ o.selected = r.selected /\ o.backing = r.backing /\ (o.fits <=> r.fits)
             /\ o.calls = r.calls /\ (o.eof <=> r.eof)
<1>1. PICK o : o = [r EXCEPT !.window = w, !.phase = "lines"]
  OBVIOUS
<1>2. o = [phase |-> "lines", window |-> w, history |-> r.history,
           selected |-> r.selected, backing |-> r.backing, bytesRead |-> r.bytesRead,
           calls |-> r.calls, eof |-> r.eof, fits |-> r.fits, stop |-> r.stop]
  BY <1>1 DEF IsReading
<1>3. /\ IsReading(o) /\ o.window = w /\ o.phase = "lines"
      /\ o.history = r.history /\ o.stop = r.stop /\ o.bytesRead = r.bytesRead
      /\ o.selected = r.selected /\ o.backing = r.backing /\ (o.fits <=> r.fits)
      /\ o.calls = r.calls /\ (o.eof <=> r.eof)
  BY <1>2 DEF IsReading
<1>4. QED BY <1>1, <1>3 DEF LookedThrough

\* The first bytes are looked through like any others.
LEMMA PrefixLooked ==
  ASSUME Wished, NEW r, Gathered(r), PrefixComplete(r)
  PROVE  \E s : Looked(s) /\ PrefixDone(r) = AtLoopTop(s)
<1>1. PICK read \in Nat : read = r.bytesRead
  BY DEF Gathered
<1>2. PICK zero \in Nat : zero = 0
  OBVIOUS
<1>3. PICK bytes : bytes = SubSeq(named, zero + 1, read)
  OBVIOUS
<1>4. PICK enc : enc = EncodingFor(bytes)
  OBVIOUS
<1>5. PICK w : w = NewWindow(wish.first, wish.count, enc)
  OBVIOUS
<1>6. PICK v : v = StepWindow(w, bytes)
  OBVIOUS
<1>7. PICK looked : looked = LookedThrough(r, v)
  OBVIOUS
<1>8. PICK s : s = Retained(looked, zero, bytes)
  OBVIOUS
<1>9. /\ IsReading(r) /\ r.stop = "pending" /\ r.fits /\ r.history = bytes
      /\ read <= Len(named) /\ read <= 3 /\ r.selected = <<>> /\ r.backing = Unset
      /\ (r.eof => read = Len(named)) /\ named \in Seq(Bytes) /\ Len(named) \in Nat
  BY <1>1, <1>2, <1>3, WishTypes DEF Gathered, PrefixBytes
<1>10. PrefixDone(r) = AtLoopTop(s)
  BY <1>2, <1>4, <1>5, <1>6, <1>7, <1>8, <1>9 DEF PrefixDone, LookedThrough
<1>11. /\ enc \in TextEncodings
       /\ \/ SameText(enc, TrueEncoding)
          \/ /\ read <= 1 /\ ~r.eof
             /\ read = wish.maxScan \/ r.calls = MaxReadCalls
  BY <1>1, <1>4, <1>9, EncodingsKnown, PrefixEncoding
<1>12. /\ Seen(w, named) /\ w.offset = zero /\ w.encoding = enc
       /\ w.first = wish.first /\ w.last = wish.first + wish.count - 1
  <2>1. PICK first \in Nat \ {0} : first = wish.first
    BY DEF Wished
  <2>2. PICK count \in Nat \ {0} : count = wish.count
    BY DEF Wished
  <2>3. named \in Seq(Bytes) /\ enc \in TextEncodings
    BY <1>9, <1>11
  <2>4. LET u == NewWindow(first, count, enc)
        IN  /\ Seen(u, named) /\ u.offset = 0 /\ u.encoding = enc
            /\ u.first = first /\ u.last = first + count - 1
    BY <2>3, WindowBegins
  <2>5. QED BY <1>2, <1>5, <2>1, <2>2, <2>4
<1>13. /\ Seen(v, named) /\ SameRequest(w, v)
       /\ v.offset <= read /\ (v.finished \/ v.offset = read)
  <2>1. read \in w.offset .. Len(named) /\ bytes = SubSeq(named, w.offset + 1, read)
    BY <1>2, <1>3, <1>9, <1>12
  <2>2. QED BY <1>6, <1>9, <1>12, <2>1, ChunkTaken
<1>14. /\ v.first = wish.first /\ v.last = wish.first + wish.count - 1 /\ v.encoding = enc
  BY <1>12, <1>13 DEF SameRequest
<1>15. /\ IsReading(looked) /\ looked.window = v /\ looked.phase = "lines"
       /\ looked.history = bytes /\ looked.stop = "pending" /\ looked.bytesRead = read
       /\ looked.selected = <<>> /\ looked.backing = Unset /\ looked.fits
       /\ looked.calls = r.calls /\ (looked.eof <=> r.eof)
  <2>1. /\ IsReading(looked) /\ looked.window = v /\ looked.phase = "lines"
        /\ looked.history = r.history /\ looked.stop = r.stop
        /\ looked.bytesRead = r.bytesRead
        /\ looked.selected = r.selected /\ looked.backing = r.backing
        /\ (looked.fits <=> r.fits) /\ looked.calls = r.calls /\ (looked.eof <=> r.eof)
    BY <1>7, <1>9, ReadingLooking
  <2>2. QED BY <1>1, <1>9, <2>1
<1>16. /\ v.offset \in Nat
       /\ v.from # Unset => v.from \in Nat /\ v.from <= v.offset
       /\ v.finished => v.from # Unset /\ v.to \in Nat /\ v.from <= v.to /\ v.to <= v.offset
  BY <1>9, <1>13, WindowPlaces
<1>17. v.from # Unset =>
         /\ WantedEnd(looked) \in Nat /\ Held(looked) \in Nat /\ Held(looked) <= read
         /\ Backing(v) \in Nat /\ Backing(v) <= Held(looked)
  <2>1. SUFFICES ASSUME v.from # Unset
                 PROVE  /\ WantedEnd(looked) \in Nat
                        /\ Held(looked) \in Nat /\ Held(looked) <= read
                        /\ Backing(v) \in Nat /\ Backing(v) <= Held(looked)
    OBVIOUS
  <2>2. PICK from \in Nat : from = v.from /\ from <= read
    BY <1>13, <1>16, <2>1
  <2>3. Backing(v) \in Nat /\ Backing(v) <= from
    BY <2>2 DEF Backing, Context
  <2>4. WantedEnd(looked) \in Nat /\ from <= WantedEnd(looked)
    <3>1. CASE v.finished
      <4>1. PICK to \in Nat : to = v.to /\ from <= to
        BY <1>16, <2>2, <3>1
      <4>2. to # Unset
        BY DEF Unset
      <4>3. WantedEnd(looked) = to + 4
        BY <1>15, <2>1, <3>1, <4>1, <4>2 DEF WantedEnd, Located, Context
      <4>4. QED BY <4>1, <4>3
    <3>2. CASE ~v.finished
      <4>1. WantedEnd(looked) = v.offset
        BY <1>15, <3>2 DEF WantedEnd, Located
      <4>2. QED BY <1>13, <2>2, <3>2, <4>1
    <3>3. QED BY <3>1, <3>2
  <2>5. Held(looked) = Lesser(read, WantedEnd(looked))
    BY <1>15 DEF Held
  <2>6. QED BY <2>2, <2>3, <2>4, <2>5 DEF Lesser
<1>18. IsReading(s) /\ SameProgress(looked, s) /\ Kept(s)
  <2>1. PICK kept \in Nat : v.from # Unset => kept = Backing(v)
    BY <1>17
  <2>2. v.from # Unset =>
           /\ v.from \in Nat /\ WantedEnd(looked) \in Nat
           /\ looked.backing \in {Unset, Backing(v)}
           /\ Backing(v) <= kept /\ kept <= Held(looked)
           /\ looked.selected = SubSeq(named, Backing(v) + 1, kept)
           /\ kept - Backing(v) <= Capacity
           /\ zero <= kept \/ Held(looked) <= kept
    <3>1. SUFFICES ASSUME v.from # Unset
                   PROVE  /\ v.from \in Nat /\ WantedEnd(looked) \in Nat
                          /\ looked.backing \in {Unset, Backing(v)}
                          /\ Backing(v) <= kept /\ kept <= Held(looked)
                          /\ looked.selected = SubSeq(named, Backing(v) + 1, kept)
                          /\ kept - Backing(v) <= Capacity
                          /\ zero <= kept \/ Held(looked) <= kept
      OBVIOUS
    <3>2. PICK back \in Nat : back = Backing(v) /\ kept = back
      BY <1>17, <2>1, <3>1
    <3>3. SubSeq(named, back + 1, back) = <<>>
      <4>1. PICK n : n = back + 1
        OBVIOUS
      <4>2. n > back /\ n \in Int
        BY <4>1
      <4>3. SubSeq(named, n, back) = <<>>
        BY <1>9, <4>2, SubSeqEmpty
      <4>4. QED BY <4>1, <4>3
    <3>4. kept - back <= Capacity /\ zero <= kept /\ back <= kept
      BY <1>2, <3>2, WishTypes
    <3>5. QED BY <1>15, <1>16, <1>17, <3>1, <3>2, <3>3, <3>4
  <2>3. /\ looked.window = v
        /\ IsReading(looked) /\ looked.bytesRead \in Nat /\ looked.bytesRead <= Len(named)
        /\ looked.fits /\ zero <= looked.bytesRead
        /\ bytes = SubSeq(named, zero + 1, looked.bytesRead)
        /\ looked.backing = Unset /\ looked.selected = <<>>
        /\ named \in Seq(Bytes) /\ Capacity \in Nat
    BY <1>2, <1>3, <1>9, <1>15, WishTypes
  <2>4. LET o == Retained(looked, zero, bytes)
        IN  IsReading(o) /\ SameProgress(looked, o) /\ Kept(o)
    BY <2>2, <2>3, RetainedKeeps
  <2>5. QED BY <1>8, <2>4
<1>19. /\ s.window = v /\ s.bytesRead = read /\ s.phase = "lines" /\ s.history = bytes
       /\ s.stop = "pending" /\ (s.eof <=> r.eof) /\ s.calls = r.calls
  BY <1>15, <1>18 DEF SameProgress
<1>20. s.fits
  <2>1. SUFFICES ASSUME ~s.fits PROVE FALSE
    OBVIOUS
  <2>2. v.from # Unset /\ Held(s) - Backing(v) > Capacity
    BY <1>18, <1>19, <2>1 DEF Kept
  <2>3. Held(s) = Held(looked)
    BY <1>15, <1>19 DEF Held, WantedEnd
  <2>4. PICK held \in Nat : held = Held(looked) /\ held <= 3
    BY <1>9, <1>17, <2>2
  <2>5. PICK back \in Nat : back = Backing(v)
    BY <1>17, <2>2
  <2>6. PICK capacity \in Nat : capacity = Capacity /\ capacity >= 9
    BY WishTypes
  <2>7. held - back > capacity
    BY <2>2, <2>3, <2>4, <2>5, <2>6
  <2>8. QED BY <2>4, <2>6, <2>7
<1>21. s.history = SubSeq(named, Older(read) + 1, read)
  <2>1. Older(read) = zero
    BY <1>2, <1>9 DEF Older, HistoryBytes
  <2>2. QED BY <1>3, <1>19, <2>1
<1>22. Looked(s)
  BY <1>9, <1>11, <1>13, <1>14, <1>18, <1>19, <1>20, <1>21 DEF Looked
<1>23. QED BY <1>10, <1>22

-----------------------------------------------------------------------------
(* A named file: every step.                                               *)

\* A reading that goes on.
Going(r) ==
  /\ r.stop = "pending" /\ ~r.eof
  /\ \/ Gathered(r)
     \/ Looked(r) /\ r.fits /\ SameText(r.window.encoding, TrueEncoding)

\* The file is looked through from its first byte to the last one read, without
\* a gap, and what was published is right.
LineReadingInv ==
  /\ Wished
  /\ Whole(reading)
  /\ Reading => Going(reading)

LEMMA LookedGoes ==
  ASSUME Wished, NEW r, Looked(r)
  PROVE  LET o == AtLoopTop(r) IN Whole(o) /\ (o.stop = "pending" => Going(o))
BY LoopTop DEF Going

LEMMA GatheredGoes ==
  ASSUME Wished, NEW r, Gathered(r)
  PROVE  LET o == AfterPrefixRead(r) IN Whole(o) /\ (o.stop = "pending" => Going(o))
<1>1. CASE PrefixComplete(r)
  <2>1. PICK s : Looked(s) /\ PrefixDone(r) = AtLoopTop(s)
    BY <1>1, PrefixLooked
  <2>2. AfterPrefixRead(r) = AtLoopTop(s)
    BY <1>1, <2>1 DEF AfterPrefixRead
  <2>3. QED BY <2>1, <2>2, LookedGoes
<1>2. CASE ~PrefixComplete(r)
  <2>1. AfterPrefixRead(r) = r
    BY <1>2 DEF AfterPrefixRead
  <2>2. ~r.eof
    BY <1>2 DEF PrefixComplete
  <2>3. r.stop = "pending" /\ Len(r.selected) = 0
    BY EmptySeq DEF Gathered
  <2>4. Whole(r)
    BY <2>3, WishTypes DEF Whole
  <2>5. QED BY <2>1, <2>2, <2>3, <2>4 DEF Going
<1>3. QED BY <1>1, <1>2

LEMMA ReadingCalled ==
  ASSUME IsReading(reading)
  PROVE  /\ IsReading(Called)
         /\ Called.phase = reading.phase /\ Called.window = reading.window
         /\ Called.history = reading.history /\ Called.stop = reading.stop
         /\ Called.bytesRead = reading.bytesRead
         /\ Called.selected = reading.selected /\ Called.backing = reading.backing
         /\ (Called.fits <=> reading.fits) /\ (Called.eof <=> reading.eof)
<1>1. PICK calls : calls = reading.calls + 1
  OBVIOUS
<1>2. PICK r : r = reading
  OBVIOUS
<1>3. PICK o : o = [r EXCEPT !.calls = calls]
  OBVIOUS
<1>4. o = [phase |-> r.phase, window |-> r.window, history |-> r.history,
           selected |-> r.selected, backing |-> r.backing, bytesRead |-> r.bytesRead,
           calls |-> calls, eof |-> r.eof, fits |-> r.fits, stop |-> r.stop]
  BY <1>2, <1>3 DEF IsReading
<1>5. /\ IsReading(o)
      /\ o.phase = r.phase /\ o.window = r.window
      /\ o.history = r.history /\ o.stop = r.stop /\ o.bytesRead = r.bytesRead
      /\ o.selected = r.selected /\ o.backing = r.backing
      /\ (o.fits <=> r.fits) /\ (o.eof <=> r.eof)
  BY <1>4 DEF IsReading
<1>6. o = Called
  BY <1>1, <1>2, <1>3 DEF Called
<1>7. QED BY <1>2, <1>5, <1>6

\* One more call changes nothing that was found.
LEMMA CalledGoes ==
  ASSUME Wished, Going(reading)
  PROVE  Going(Called)
<1>1. PICK r : r = reading
  OBVIOUS
<1>2. PICK o : o = Called
  OBVIOUS
<1>3. IsReading(r)
  BY <1>1 DEF Going, Gathered, Looked
<1>4. /\ IsReading(o)
      /\ o.phase = r.phase /\ o.window = r.window
      /\ o.history = r.history /\ o.stop = r.stop /\ o.bytesRead = r.bytesRead
      /\ o.selected = r.selected /\ o.backing = r.backing
      /\ (o.fits <=> r.fits) /\ (o.eof <=> r.eof)
  BY <1>1, <1>2, <1>3, ReadingCalled
<1>5. CASE Gathered(r)
  <2>1. Gathered(o)
    BY <1>4, <1>5 DEF Gathered
  <2>2. QED BY <1>1, <1>2, <1>4, <2>1 DEF Going
<1>6. CASE Looked(r) /\ r.fits /\ SameText(r.window.encoding, TrueEncoding)
  <2>1. ~r.eof
    BY <1>1 DEF Going
  <2>2. Kept(o)
    <3>1. Held(o) = Held(r) /\ Kept(r)
      BY <1>4, <1>6 DEF Held, WantedEnd, Looked
    <3>2. QED BY <1>4, <3>1 DEF Kept
  <2>3. Looked(o)
    BY <1>4, <1>6, <2>1, <2>2 DEF Looked
  <2>4. QED BY <1>1, <1>2, <1>4, <1>6, <2>3 DEF Going
<1>7. QED BY <1>1, <1>5, <1>6 DEF Going

Gathering(r, history, read) == [r EXCEPT !.history = history, !.bytesRead = read]
AtEnd(r) == [r EXCEPT !.eof = TRUE]

LEMMA ReadingGathering ==
  ASSUME NEW r, IsReading(r), NEW history, NEW read
  PROVE  LET o == Gathering(r, history, read)
         IN  /\ IsReading(o) /\ o.history = history /\ o.bytesRead = read
             /\ o.phase = r.phase /\ o.window = r.window /\ o.stop = r.stop
             /\ o.selected = r.selected /\ o.backing = r.backing
             /\ (o.fits <=> r.fits) /\ (o.eof <=> r.eof)
<1>1. PICK o : o = [r EXCEPT !.history = history, !.bytesRead = read]
  OBVIOUS
<1>2. o = [phase |-> r.phase, window |-> r.window, history |-> history,
           selected |-> r.selected, backing |-> r.backing, bytesRead |-> read,
           calls |-> r.calls, eof |-> r.eof, fits |-> r.fits, stop |-> r.stop]
  BY <1>1 DEF IsReading
<1>3. /\ IsReading(o) /\ o.history = history /\ o.bytesRead = read
      /\ o.phase = r.phase /\ o.window = r.window /\ o.stop = r.stop
      /\ o.selected = r.selected /\ o.backing = r.backing
      /\ (o.fits <=> r.fits) /\ (o.eof <=> r.eof)
  BY <1>2 DEF IsReading
<1>4. QED BY <1>1, <1>3 DEF Gathering

LEMMA ReadingAtEnd ==
  ASSUME NEW r, IsReading(r)
  PROVE  LET o == AtEnd(r)
         IN  /\ IsReading(o) /\ o.eof
             /\ o.phase = r.phase /\ o.window = r.window /\ o.stop = r.stop
             /\ o.history = r.history /\ o.bytesRead = r.bytesRead
             /\ o.selected = r.selected /\ o.backing = r.backing /\ (o.fits <=> r.fits)
<1>1. PICK o : o = [r EXCEPT !.eof = TRUE]
  OBVIOUS
<1>2. o = [phase |-> r.phase, window |-> r.window, history |-> r.history,
           selected |-> r.selected, backing |-> r.backing, bytesRead |-> r.bytesRead,
           calls |-> r.calls, eof |-> TRUE, fits |-> r.fits, stop |-> r.stop]
  BY <1>1 DEF IsReading
<1>3. /\ IsReading(o) /\ o.eof
      /\ o.phase = r.phase /\ o.window = r.window /\ o.stop = r.stop
      /\ o.history = r.history /\ o.bytesRead = r.bytesRead
      /\ o.selected = r.selected /\ o.backing = r.backing /\ (o.fits <=> r.fits)
  BY <1>2 DEF IsReading
<1>4. QED BY <1>1, <1>3 DEF AtEnd

\* Whatever is said of a reading is said of the next one.
LEMMA NextReading ==
  ASSUME NEW o, named' = named, wish' = wish, reading' = o,
         Wished, Whole(o), o.stop = "pending" => Going(o)
  PROVE  LineReadingInv'
<1>1. Wished'
  BY DEF Wished
<1>2. Whole(reading)'
  BY DEF Whole, Capacity, Truth, EncodingFor, Surrounded
<1>3. Going(o) => Going(reading)'
  BY DEF Going, Gathered, Looked, Kept, Capacity, Held, TrueEncoding, EncodingFor
<1>4. Reading' => o.stop = "pending"
  BY DEF Reading
<1>5. QED BY <1>1, <1>2, <1>3, <1>4 DEF LineReadingInv

\* A piece may be cut anywhere.
LEMMA PieceReceived ==
  ASSUME LineReadingInv, NEW n \in 1 .. ReadBytes, ReceivePiece(n)
  PROVE  LineReadingInv'
<1>1. PICK r : r = Called
  OBVIOUS
<1>2. PICK read \in Nat : read = reading.bytesRead
  BY DEF LineReadingInv, ReceivePiece, Going, Gathered, Looked
<1>3. PICK end \in Nat : end = read + n
  BY <1>2
<1>4. PICK piece : piece = SubSeq(named, read + 1, end)
  OBVIOUS
<1>5. /\ Wished /\ Going(reading) /\ named' = named /\ wish' = wish
      /\ n <= Wants(reading) /\ end <= Len(named) /\ read < end /\ n \in Nat
      /\ reading' = IF reading.phase = "prefix"
                    THEN AfterPrefixRead([r EXCEPT !.history = @ \o piece, !.bytesRead = @ + n])
                    ELSE AfterLinesRead(r, piece)
  BY <1>1, <1>2, <1>3, <1>4 DEF LineReadingInv, ReceivePiece
<1>6. Going(r) /\ IsReading(reading)
  BY <1>1, <1>5, CalledGoes DEF Going, Gathered, Looked
<1>7. r.phase = reading.phase /\ r.bytesRead = read /\ r.history = reading.history
  BY <1>1, <1>2, <1>6, ReadingCalled
<1>8. PICK o : o = reading'
  OBVIOUS
<1>9. CASE reading.phase = "prefix"
  <2>1. Gathered(r)
    BY <1>6, <1>7, <1>9 DEF Going, Looked
  <2>2. Len(r.history) = read
    BY <1>5, <1>7, <2>1, PrefixLength
  <2>3. end <= 3
    <3>1. Wants(reading) = Lesser(3, wish.maxScan) - read
      BY <1>7, <1>9, <2>2 DEF Wants, PrefixBytes
    <3>2. PICK max \in Nat : max = wish.maxScan
      BY <1>5, WishTypes
    <3>3. Lesser(3, max) <= 3 /\ Lesser(3, max) \in Nat
      BY DEF Lesser
    <3>4. QED BY <1>3, <1>5, <3>1, <3>2, <3>3
  <2>4. PICK history : history = r.history \o piece
    OBVIOUS
  <2>5. PICK s : s = Gathering(r, history, end)
    OBVIOUS
  <2>6. reading' = AfterPrefixRead(s)
    BY <1>3, <1>5, <1>7, <1>9, <2>4, <2>5 DEF Gathering
  <2>7. history = SubSeq(named, 1, end)
    <3>1. PICK zero \in Nat : zero = 0
      OBVIOUS
    <3>2. zero <= read /\ read <= end /\ named \in Seq(Bytes)
      BY <1>5, <3>1, WishTypes
    <3>3. SubSeq(named, zero + 1, read) \o SubSeq(named, read + 1, end)
            = SubSeq(named, zero + 1, end)
      BY <1>5, <3>2, SliceJoined
    <3>4. zero + 1 = 1
      BY <3>1
    <3>5. r.history = SubSeq(named, 1, read)
      BY <1>7, <2>1 DEF Gathered
    <3>6. QED BY <1>4, <2>4, <3>3, <3>4, <3>5
  <2>8. Gathered(s)
    <3>1. IsReading(r) /\ ~r.eof
      BY <1>6, <2>1 DEF Gathered, Going
    <3>2. /\ IsReading(s) /\ s.history = history /\ s.bytesRead = end
          /\ s.phase = r.phase /\ s.window = r.window /\ s.stop = r.stop
          /\ s.selected = r.selected /\ s.backing = r.backing
          /\ (s.fits <=> r.fits) /\ (s.eof <=> r.eof)
      BY <2>5, <3>1, ReadingGathering
    <3>3. QED BY <1>5, <2>1, <2>3, <2>7, <3>1, <3>2 DEF Gathered, PrefixBytes
  <2>9. Whole(o) /\ (o.stop = "pending" => Going(o))
    BY <1>5, <1>8, <2>6, <2>8, GatheredGoes
  <2>10. QED BY <1>5, <1>8, <2>9, NextReading
<1>10. CASE reading.phase # "prefix"
  <2>1. /\ Looked(r) /\ r.fits /\ SameText(r.window.encoding, TrueEncoding) /\ ~r.eof
    BY <1>6, <1>7, <1>10 DEF Going, Gathered
  <2>2. PICK s : Looked(s) /\ AfterLinesRead(r, piece) = AtLoopTop(s)
    <3>1. r.bytesRead < end /\ piece = SubSeq(named, r.bytesRead + 1, end)
      BY <1>4, <1>5, <1>7
    <3>2. QED BY <1>5, <2>1, <3>1, PieceLooked
  <2>3. reading' = AtLoopTop(s)
    BY <1>5, <1>10, <2>2
  <2>4. Whole(o) /\ (o.stop = "pending" => Going(o))
    BY <1>5, <1>8, <2>2, <2>3, LookedGoes
  <2>5. QED BY <1>5, <1>8, <2>4, NextReading
<1>11. QED BY <1>9, <1>10

LEMMA EndReceived ==
  ASSUME LineReadingInv, ReceiveEnd
  PROVE  LineReadingInv'
<1>1. PICK r : r = Called
  OBVIOUS
<1>2. /\ Wished /\ Going(reading) /\ named' = named /\ wish' = wish
      /\ reading.bytesRead = Len(named)
      /\ reading' = IF reading.phase = "prefix" THEN AfterPrefixRead(AtEnd(r))
                                                ELSE AtLoopTop(AtEnd(r))
  BY <1>1 DEF LineReadingInv, ReceiveEnd, AtEnd
<1>3. Going(r) /\ IsReading(reading) /\ IsReading(r)
  BY <1>1, <1>2, CalledGoes DEF Going, Gathered, Looked
<1>4. r.phase = reading.phase /\ r.bytesRead = Len(named)
  BY <1>1, <1>2, <1>3, ReadingCalled
<1>5. PICK s : s = AtEnd(r)
  OBVIOUS
<1>6. /\ IsReading(s) /\ s.eof
      /\ s.phase = r.phase /\ s.window = r.window /\ s.stop = r.stop
      /\ s.history = r.history /\ s.bytesRead = r.bytesRead
      /\ s.selected = r.selected /\ s.backing = r.backing /\ (s.fits <=> r.fits)
  BY <1>3, <1>5, ReadingAtEnd
<1>7. PICK o : o = reading'
  OBVIOUS
<1>8. CASE reading.phase = "prefix"
  <2>1. Gathered(r)
    BY <1>3, <1>4, <1>8 DEF Going, Looked
  <2>2. Gathered(s)
    BY <1>4, <1>6, <2>1 DEF Gathered
  <2>3. Whole(o) /\ (o.stop = "pending" => Going(o))
    BY <1>2, <1>5, <1>7, <1>8, <2>2, GatheredGoes
  <2>4. QED BY <1>2, <1>7, <2>3, NextReading
<1>9. CASE reading.phase # "prefix"
  <2>1. /\ Looked(r) /\ r.fits /\ SameText(r.window.encoding, TrueEncoding)
    BY <1>3, <1>4, <1>9 DEF Going, Gathered
  <2>2. Looked(s)
    <3>1. Kept(s)
      <4>1. Held(s) = Held(r) /\ Kept(r)
        BY <1>6, <2>1 DEF Held, WantedEnd, Looked
      <4>2. QED BY <1>6, <4>1 DEF Kept
    <3>2. QED BY <1>4, <1>6, <2>1, <3>1 DEF Looked
  <2>3. Whole(o) /\ (o.stop = "pending" => Going(o))
    BY <1>2, <1>5, <1>7, <1>9, <2>2, LookedGoes
  <2>4. QED BY <1>2, <1>7, <2>3, NextReading
<1>10. QED BY <1>8, <1>9

LEMMA ReadInterrupted ==
  ASSUME LineReadingInv, InterruptRead
  PROVE  LineReadingInv'
<1>1. PICK r : r = Called
  OBVIOUS
<1>2. /\ Wished /\ Going(reading) /\ named' = named /\ wish' = wish
      /\ reading' = IF reading.phase = "prefix" THEN AfterPrefixRead(r) ELSE AtLoopTop(r)
  BY <1>1 DEF LineReadingInv, InterruptRead
<1>3. Going(r) /\ IsReading(reading)
  BY <1>1, <1>2, CalledGoes DEF Going, Gathered, Looked
<1>4. r.phase = reading.phase
  BY <1>1, <1>3, ReadingCalled
<1>5. PICK o : o = reading'
  OBVIOUS
<1>6. CASE reading.phase = "prefix"
  <2>1. Gathered(r)
    BY <1>3, <1>4, <1>6 DEF Going, Looked
  <2>2. Whole(o) /\ (o.stop = "pending" => Going(o))
    BY <1>2, <1>5, <1>6, <2>1, GatheredGoes
  <2>3. QED BY <1>2, <1>5, <2>2, NextReading
<1>7. CASE reading.phase # "prefix"
  <2>1. Looked(r)
    BY <1>3, <1>4, <1>7 DEF Going, Gathered
  <2>2. Whole(o) /\ (o.stop = "pending" => Going(o))
    BY <1>2, <1>5, <1>7, <2>1, LookedGoes
  <2>3. QED BY <1>2, <1>5, <2>2, NextReading
<1>8. QED BY <1>6, <1>7

LEMMA ReadingAbandoned ==
  ASSUME LineReadingInv, AbandonReading
  PROVE  LineReadingInv'
<1>1. PICK r : r = reading
  OBVIOUS
<1>2. PICK o : o = [r EXCEPT !.stop = "failed", !.selected = <<>>]
  OBVIOUS
<1>3. /\ Wished /\ Going(r) /\ named' = named /\ wish' = wish /\ reading' = o
  BY <1>1, <1>2 DEF LineReadingInv, AbandonReading
<1>4. IsReading(r)
  BY <1>3 DEF Going, Gathered, Looked
<1>5. o = [phase |-> r.phase, window |-> r.window, history |-> r.history,
           selected |-> <<>>, backing |-> r.backing, bytesRead |-> r.bytesRead,
           calls |-> r.calls, eof |-> r.eof, fits |-> r.fits, stop |-> "failed"]
  BY <1>2, <1>4 DEF IsReading
<1>6. o.stop = "failed" /\ Len(o.selected) = 0
  BY <1>5, EmptySeq
<1>7. Whole(o)
  BY <1>3, <1>6, WishTypes DEF Whole
<1>8. QED BY <1>3, <1>6, <1>7, NextReading

LEMMA ReadingInitially ==
  ASSUME LineReadingInit
  PROVE  LineReadingInv
<1>1. Wished
  BY NamedAssumption DEF LineReadingInit, Wished, Bytes
<1>2. PICK r : r = NothingRead
  OBVIOUS
<1>3. /\ IsReading(r) /\ r.phase = "prefix" /\ r.stop = "pending" /\ r.fits /\ ~r.eof
      /\ r.bytesRead = 0 /\ r.history = <<>> /\ r.selected = <<>> /\ r.backing = Unset
  BY <1>2 DEF NothingRead, IsReading
<1>4. SubSeq(named, 1, 0) = <<>>
  BY <1>1, SubSeqEmpty DEF Wished
<1>5. Gathered(r)
  BY <1>1, <1>3, <1>4, WishTypes DEF Gathered, PrefixBytes
<1>6. reading = AfterPrefixRead(r)
  BY <1>2 DEF LineReadingInit
<1>7. Whole(reading) /\ (reading.stop = "pending" => Going(reading))
  BY <1>1, <1>5, <1>6, GatheredGoes
<1>8. QED BY <1>1, <1>7 DEF LineReadingInv, Reading

LEMMA ReadingStep ==
  ASSUME LineReadingInv, [LineReadingNext]_namedVars
  PROVE  LineReadingInv'
<1>1. CASE \E n \in 1 .. ReadBytes : ReceivePiece(n)
  BY <1>1, PieceReceived
<1>2. CASE ReceiveEnd
  BY <1>2, EndReceived
<1>3. CASE InterruptRead
  BY <1>3, ReadInterrupted
<1>4. CASE AbandonReading
  BY <1>4, ReadingAbandoned
<1>5. CASE UNCHANGED namedVars
  <2>1. PICK r : r = reading
    OBVIOUS
  <2>2. /\ Wished /\ Whole(r) /\ (r.stop = "pending" => Going(r))
        /\ named' = named /\ wish' = wish /\ reading' = r
    BY <1>5, <2>1 DEF LineReadingInv, Reading, namedVars
  <2>3. QED BY <2>2, NextReading
<1>6. QED BY <1>1, <1>2, <1>3, <1>4, <1>5 DEF LineReadingNext

\* Of every file, for every request and however the system cuts it into pieces,
\* interrupts them or ends the scan at a limit: lines are published whole and
\* with their context, missing is said of lines past the end only, too long of
\* lines that are, and the rolling history loses no byte that is still needed.
THEOREM ReadingsPublishWholeLines == LineReadingSpec => []NamedLinesAreWhole
<1>1. LineReadingInv => NamedLinesAreWhole
  BY DEF LineReadingInv, Whole, NamedLinesAreWhole
<1>2. QED BY <1>1, ReadingInitially, ReadingStep, PTL DEF LineReadingSpec

-----------------------------------------------------------------------------
(* A run: a place after another, each in a set of its own.                 *)

IsRun(f, N, s0, step) ==
  f = [n \in 0 .. N |-> IF n = 0 THEN s0 ELSE step[n][f[n - 1]]]

LEMMA RunExists ==
  ASSUME NEW N \in Nat, NEW S, NEW s0 \in S[0], NEW step,
         \A n \in 1 .. N : step[n] \in [S[n - 1] -> S[n]]
  PROVE  \E f : IsRun(f, N, s0, step) /\ \A n \in 0 .. N : f[n] \in S[n]
<1> DEFINE Runs(f, k) ==
             /\ f = [n \in 0 .. k |-> IF n = 0 THEN s0 ELSE step[n][f[n - 1]]]
             /\ \A n \in 0 .. k : f[n] \in S[n]
           bad == {k \in 0 .. N : ~ \E f : Runs(f, k)}
<1>1. SUFFICES ASSUME bad # {} PROVE FALSE
  <2>1. \E f : Runs(f, N) \/ N \in bad
    OBVIOUS
  <2>2. QED BY <2>1 DEF IsRun
<1>2. PICK k \in bad : \A j \in bad : k <= j
  <2>1. bad \in SUBSET Nat
    OBVIOUS
  <2> HIDE DEF bad
  <2>2. QED BY <1>1, <2>1, LeastNumber
<1>3. k \in 0 .. N /\ ~ \E f : Runs(f, k)
  OBVIOUS
<1>4. CASE k = 0
  <2>1. Runs([n \in 0 .. 0 |-> s0], 0)
    OBVIOUS
  <2>2. QED BY <1>3, <1>4, <2>1
<1>5. CASE k # 0
  <2>1. k - 1 \in 0 .. N /\ ~(k <= k - 1) /\ k \in 1 .. N
    BY <1>3, <1>5
  <2>2. PICK f : Runs(f, k - 1)
    BY <1>2, <2>1
  <2> DEFINE g == [n \in 0 .. k |-> IF n = 0 THEN s0 ELSE step[n][f[n - 1]]]
  <2>3. \A n \in 0 .. (k - 1) : g[n] = f[n]
    BY <1>3, <2>1, <2>2
  <2>4. ASSUME NEW n \in 0 .. k, n # 0 PROVE g[n - 1] = f[n - 1] /\ f[n - 1] \in S[n - 1]
    <3>1. n - 1 \in 0 .. (k - 1)
      BY <1>3, <2>4
    <3>2. QED BY <2>2, <2>3, <3>1
  <2>5. ASSUME NEW n \in 0 .. k PROVE g[n] \in S[n]
    <3>1. CASE n = 0
      BY <3>1
    <3>2. CASE n # 0
      <4>1. n \in 1 .. N /\ step[n] \in [S[n - 1] -> S[n]]
        BY <1>3, <3>2
      <4>2. f[n - 1] \in S[n - 1]
        BY <2>4, <3>2
      <4>3. g[n] = step[n][f[n - 1]]
        BY <3>2
      <4>4. QED BY <4>1, <4>2, <4>3
    <3>3. QED BY <3>1, <3>2
  <2>6. g = [n \in 0 .. k |-> IF n = 0 THEN s0 ELSE step[n][g[n - 1]]]
    <3>1. \A n \in 0 .. k : (IF n = 0 THEN s0 ELSE step[n][f[n - 1]])
                              = (IF n = 0 THEN s0 ELSE step[n][g[n - 1]])
      <4> HIDE DEF g
      <4>1. QED BY <2>4
    <3> DEFINE h == [n \in 0 .. k |-> IF n = 0 THEN s0 ELSE step[n][g[n - 1]]]
    <3>2. g = h
      BY <3>1
    <3>3. QED BY <3>2
  <2>7. Runs(g, k)
    <3> HIDE DEF g
    <3>1. QED BY <2>5, <2>6
  <2>8. QED BY <1>3, <2>7
<1>6. QED BY <1>4, <1>5

\* Two runs that take the same steps are one.
LEMMA RunsAlike ==
  ASSUME NEW N \in Nat, NEW f, NEW g, f[0] = g[0],
         \A n \in 1 .. N : f[n - 1] = g[n - 1] => f[n] = g[n]
  PROVE  f[N] = g[N]
<1> DEFINE apart == {n \in 0 .. N : f[n] # g[n]}
<1>1. SUFFICES ASSUME apart # {} PROVE FALSE
  <2>1. N \in 0 .. N
    OBVIOUS
  <2>2. QED BY <1>1, <2>1
<1>2. PICK n \in apart : \A m \in apart : n <= m
  <2>1. apart \in SUBSET Nat
    OBVIOUS
  <2> HIDE DEF apart
  <2>2. QED BY <1>1, <2>1, LeastNumber
<1>3. n \in 1 .. N /\ n - 1 \in 0 .. N /\ ~(n <= n - 1) /\ f[n] # g[n]
  <2>1. n \in 0 .. N /\ n # 0
    OBVIOUS
  <2>2. QED BY <2>1
<1>4. f[n - 1] = g[n - 1]
  BY <1>2, <1>3
<1>5. QED BY <1>3, <1>4

-----------------------------------------------------------------------------
(* A scanner of a capture, one byte after another.                         *)

Contents == Seq(Seq(Bytes))

Checkpoints == Seq([line : Nat, at : Nat])

IndexStates ==
  [chunks : Nat, offset : Nat, cr : {TRUE, FALSE}, opens : {TRUE, FALSE},
   starts : Seq(Nat), marks : Checkpoints, complete : {TRUE, FALSE},
   bound : Seq(Contents)]

MarkedLines(i) == {m.line : m \in {i.marks[k] : k \in DOMAIN i.marks}}

Marked(i) == MarkedLines(i) = {n \in DOMAIN i.starts : n = 1 \/ n % Stride = 0}

StartsKnown(i, bytes) ==
  /\ Len(i.starts) = Begun(bytes, "utf8", i.offset)
  /\ \A n \in 1 .. Len(i.starts) : i.starts[n] = LineStart(bytes, "utf8", n)

LEMMA IndexFields ==
  ASSUME NEW i \in IndexStates
  PROVE  /\ i.chunks \in Nat /\ i.offset \in Nat
         /\ i.starts \in Seq(Nat) /\ i.marks \in Checkpoints /\ i.bound \in Seq(Contents)
         /\ i = [chunks |-> i.chunks, offset |-> i.offset, cr |-> i.cr, opens |-> i.opens,
                 starts |-> i.starts, marks |-> i.marks, complete |-> i.complete,
                 bound |-> i.bound]
         /\ i.cr \in {TRUE, FALSE} /\ i.opens \in {TRUE, FALSE} /\ i.complete \in {TRUE, FALSE}
BY DEF IndexStates

\* A scanner that saw the bytes before its offset.
Scanned(i, bytes) ==
  /\ i \in IndexStates /\ i.offset \in 0 .. Len(bytes)
  /\ i.cr <=> (i.offset > 0 /\ bytes[i.offset] = CR)
  /\ i.opens <=> (i.offset = 0 \/ bytes[i.offset] \in {CR, LF})
  /\ StartsKnown(i, bytes)
  /\ Marked(i)

SameScan(s, i) ==
  /\ s.chunks = i.chunks /\ s.bound = i.bound /\ (s.complete <=> i.complete)

LEMMA LineRecorded ==
  ASSUME NEW i \in IndexStates, NEW at \in Nat, Marked(i)
  PROVE  LET r == RecordLine(i, at)
         IN  /\ r \in IndexStates /\ Marked(r) /\ SameScan(r, i)
             /\ r.offset = i.offset /\ (r.cr <=> i.cr) /\ ~r.opens
             /\ r.starts = Append(i.starts, at)
<1>1. i.starts \in Seq(Nat) /\ i.marks \in Seq([line : Nat, at : Nat])
  BY IndexFields DEF Checkpoints
<1>2. Len(i.starts) \in Nat /\ Len(i.marks) \in Nat /\ Stride \in Nat \ {0}
  BY <1>1, LenProperties, IndexAssumption
<1>3. PICK line : line = Len(i.starts) + 1
  OBVIOUS
<1>4. PICK m : m = [line |-> line, at |-> at]
  OBVIOUS
<1>5. m \in [line : Nat, at : Nat] /\ m.line = line /\ line \in Nat
  BY <1>2, <1>3, <1>4
<1>6. PICK marks : marks = IF line = 1 \/ line % Stride = 0 THEN Append(i.marks, m)
                                                           ELSE i.marks
  OBVIOUS
<1>7. PICK starts : starts = Append(i.starts, at)
  OBVIOUS
<1>8. /\ starts \in Seq(Nat) /\ Len(starts) = line /\ DOMAIN starts = DOMAIN i.starts \cup {line}
      /\ line \notin DOMAIN i.starts
  <2>1. starts \in Seq(Nat) /\ Len(starts) = line
    BY <1>1, <1>3, <1>7, AppendProperties
  <2>2. DOMAIN starts = 1 .. line /\ DOMAIN i.starts = 1 .. Len(i.starts)
    BY <1>1, <2>1, LenProperties
  <2>3. QED BY <1>2, <1>3, <2>1, <2>2
<1>9. marks \in Seq([line : Nat, at : Nat])
  BY <1>1, <1>5, <1>6, AppendProperties
<1>10. PICK r : r = RecordLine(i, at)
  OBVIOUS
<1>11. r = [chunks |-> i.chunks, offset |-> i.offset, cr |-> i.cr, opens |-> FALSE,
            starts |-> starts, marks |-> marks, complete |-> i.complete,
            bound |-> i.bound]
  BY <1>3, <1>4, <1>6, <1>7, <1>10 DEF RecordLine, Line, IndexStates
<1>12. /\ r \in IndexStates /\ r.starts = starts /\ r.marks = marks /\ SameScan(r, i)
       /\ r.offset = i.offset /\ (r.cr <=> i.cr) /\ ~r.opens
  <2>1. FALSE \in {TRUE, FALSE} /\ starts \in Seq(Nat) /\ marks \in Checkpoints
    BY <1>8, <1>9 DEF Checkpoints
  <2>2. /\ r \in IndexStates /\ r.chunks = i.chunks /\ r.offset = i.offset
        /\ (r.cr <=> i.cr) /\ (r.opens <=> FALSE) /\ r.starts = starts /\ r.marks = marks
        /\ (r.complete <=> i.complete) /\ r.bound = i.bound
    <3>1. /\ i.chunks \in Nat /\ i.offset \in Nat /\ i.bound \in Seq(Contents)
          /\ i.cr \in {TRUE, FALSE} /\ i.complete \in {TRUE, FALSE}
      BY IndexFields
    <3>2. QED BY <1>11, <2>1, <3>1 DEF IndexStates
  <2>3. QED BY <2>2 DEF SameScan
<1>13. MarkedLines(r) = MarkedLines(i) \cup
                          (IF line = 1 \/ line % Stride = 0 THEN {line} ELSE {})
  <2>1. CASE line = 1 \/ line % Stride = 0
    <3>1. marks = Append(i.marks, m)
      BY <1>6, <2>1
    <3>2. /\ Len(marks) = Len(i.marks) + 1 /\ marks[Len(i.marks) + 1] = m
          /\ \A k \in 1 .. Len(i.marks) : marks[k] = i.marks[k]
      BY <1>1, <1>5, <3>1, AppendProperties
    <3>3. DOMAIN marks = 1 .. (Len(i.marks) + 1) /\ DOMAIN i.marks = 1 .. Len(i.marks)
      BY <1>1, <1>9, <3>2, LenProperties
    <3>4. {marks[k] : k \in DOMAIN marks} = {i.marks[k] : k \in DOMAIN i.marks} \cup {m}
      BY <1>2, <3>2, <3>3
    <3>5. QED BY <1>5, <1>12, <2>1, <3>4 DEF MarkedLines
  <2>2. CASE ~(line = 1 \/ line % Stride = 0)
    BY <1>6, <1>12, <2>2 DEF MarkedLines
  <2>3. QED BY <2>1, <2>2
<1>14. {n \in DOMAIN starts : n = 1 \/ n % Stride = 0}
         = {n \in DOMAIN i.starts : n = 1 \/ n % Stride = 0} \cup
             (IF line = 1 \/ line % Stride = 0 THEN {line} ELSE {})
  BY <1>8
<1>15. Marked(r)
  BY <1>12, <1>13, <1>14 DEF Marked
<1>16. QED BY <1>7, <1>10, <1>12, <1>15

\* Of one-byte units: what the next byte means for the lines begun.
LEMMA NextBegun ==
  ASSUME NEW bytes \in Seq(Bytes), NEW p \in 0 .. (Len(bytes) - 1)
  PROVE  LET enc == "utf8"
             opens == p = 0 \/ (bytes[p] \in {CR, LF} /\ ~(bytes[p] = CR /\ bytes[p + 1] = LF))
         IN  /\ Begun(bytes, enc, p) \in Nat
             /\ opens => /\ Begun(bytes, enc, p + 1) = Begun(bytes, enc, p) + 1
                         /\ LineStart(bytes, enc, Begun(bytes, enc, p) + 1) = p
             /\ ~opens => Begun(bytes, enc, p + 1) = Begun(bytes, enc, p)
<1>1. Len(bytes) \in Nat /\ p \in Nat /\ p + 1 <= Len(bytes) /\ p % 1 = 0
  BY LenProperties
<1>2. "utf8" \in TextEncodings /\ ~IsUtf16("utf8") /\ UnitSize("utf8") = 1
  BY DEF TextEncodings, IsUtf16, UnitSize
<1>3. PICK u : u = Upto(LineEnds(bytes, "utf8"), p)
  OBVIOUS
<1>4. PICK before : before = UnitAt(bytes, p - 1, "utf8")
  OBVIOUS
<1>5. PICK unit : unit = UnitAt(bytes, p, "utf8")
  OBVIOUS
<1>6. unit = bytes[p + 1] /\ (p > 0 => before = bytes[p])
  <2>1. p - 1 + 1 = p
    BY <1>1
  <2>2. QED BY <1>2, <1>4, <1>5, <2>1 DEF UnitAt
<1>7. /\ u \in Nat
      /\ p > 0 => Begun(bytes, "utf8", p) > 0
      /\ p > 0 /\ (before = LF \/ (before = CR /\ unit # LF)) =>
           /\ u = Begun(bytes, "utf8", p)
           /\ LineEnd(bytes, "utf8", u) = p
      /\ p > 0 /\ ~(before = LF \/ (before = CR /\ unit # LF)) =>
           1 + u = Begun(bytes, "utf8", p)
      /\ Begun(bytes, "utf8", p + 1) = 1 + u
      /\ p = 0 => 1 + u = 1
  BY <1>1, <1>2, <1>3, <1>4, <1>5, LinesBegun
<1>8. PICK begun : begun = Begun(bytes, "utf8", p)
  OBVIOUS
<1>9. CASE p = 0
  <2>1. begun = 0 /\ u = 0
    BY <1>7, <1>8, <1>9 DEF Begun
  <2>2. LineStart(bytes, "utf8", begun + 1) = p
    <3>1. PICK m : m = begun + 1 /\ m = 1
      BY <2>1
    <3>2. QED BY <1>9, <3>1 DEF LineStart
  <2>3. QED BY <1>7, <1>8, <1>9, <2>1, <2>2
<1>10. CASE p > 0 /\ (before = LF \/ (before = CR /\ unit # LF))
  <2>1. u = begun /\ begun > 0 /\ LineEnd(bytes, "utf8", begun) = p
    BY <1>7, <1>8, <1>10
  <2>2. PICK m : m = begun + 1 /\ m # 1 /\ m - 1 = begun
    BY <1>7, <2>1
  <2>3. LineStart(bytes, "utf8", begun + 1) = p
    BY <2>1, <2>2 DEF LineStart
  <2>4. bytes[p] \in {CR, LF} /\ ~(bytes[p] = CR /\ bytes[p + 1] = LF)
    BY <1>6, <1>10 DEF CR, LF
  <2>5. QED BY <1>7, <1>8, <2>1, <2>3, <2>4
<1>11. CASE p > 0 /\ ~(before = LF \/ (before = CR /\ unit # LF))
  <2>1. ~(bytes[p] \in {CR, LF} /\ ~(bytes[p] = CR /\ bytes[p + 1] = LF))
    BY <1>6, <1>11
  <2>2. 1 + u = begun /\ begun \in Nat
    BY <1>7, <1>8, <1>11
  <2>3. QED BY <1>7, <1>8, <1>11, <2>1, <2>2
<1>12. QED BY <1>1, <1>9, <1>10, <1>11

LEMMA ByteScanned ==
  ASSUME NEW bytes \in Seq(Bytes), NEW i, Scanned(i, bytes), i.offset < Len(bytes)
  PROVE  LET s == ScanByte(i, bytes[i.offset + 1])
         IN  Scanned(s, bytes) /\ SameScan(s, i) /\ s.offset = i.offset + 1
<1>1. PICK p \in Nat : p = i.offset /\ p \in 0 .. (Len(bytes) - 1) /\ p + 1 \in 0 .. Len(bytes)
  BY LenProperties DEF Scanned
<1>2. PICK byte : byte = bytes[p + 1]
  OBVIOUS
<1>3. PICK next : next = [i EXCEPT !.offset = @ + 1, !.cr = FALSE]
  OBVIOUS
<1>4. next = [chunks |-> i.chunks, offset |-> p + 1, cr |-> FALSE, opens |-> i.opens,
              starts |-> i.starts, marks |-> i.marks, complete |-> i.complete,
              bound |-> i.bound]
  BY <1>1, <1>3 DEF Scanned, IndexStates
<1>5. /\ i \in IndexStates /\ i.starts \in Seq(Nat)
      /\ next \in IndexStates /\ next.offset = p + 1 /\ ~next.cr /\ (next.opens <=> i.opens)
      /\ next.starts = i.starts /\ next.marks = i.marks /\ SameScan(next, i)
  <2>1. i \in IndexStates /\ p + 1 \in Nat /\ FALSE \in {TRUE, FALSE}
    BY <1>1 DEF Scanned
  <2>2. /\ next \in IndexStates /\ next.chunks = i.chunks /\ next.offset = p + 1
        /\ (next.cr <=> FALSE) /\ (next.opens <=> i.opens) /\ next.starts = i.starts
        /\ next.marks = i.marks /\ (next.complete <=> i.complete) /\ next.bound = i.bound
    <3>1. /\ i.chunks \in Nat /\ i.starts \in Seq(Nat) /\ i.marks \in Checkpoints
          /\ i.bound \in Seq(Contents) /\ i.opens \in {TRUE, FALSE}
          /\ i.complete \in {TRUE, FALSE}
      BY <2>1, IndexFields
    <3>2. QED BY <1>4, <2>1, <3>1 DEF IndexStates
  <2>3. QED BY <2>1, <2>2, IndexFields DEF SameScan
<1>6. Marked(next)
  BY <1>5 DEF Scanned, Marked, MarkedLines
<1>7. PICK begun : begun = Begun(bytes, "utf8", p)
  OBVIOUS
<1>8. PICK opens \in {TRUE, FALSE} :
        opens <=> (p = 0 \/ (bytes[p] \in {CR, LF} /\ ~(bytes[p] = CR /\ byte = LF)))
  OBVIOUS
<1>9. /\ begun \in Nat
      /\ opens => /\ Begun(bytes, "utf8", p + 1) = begun + 1
                  /\ LineStart(bytes, "utf8", begun + 1) = p
      /\ ~opens => Begun(bytes, "utf8", p + 1) = begun
  BY <1>1, <1>2, <1>7, <1>8, NextBegun
<1>10. /\ i.cr <=> (p > 0 /\ bytes[p] = CR)
       /\ i.opens <=> (p = 0 \/ bytes[p] \in {CR, LF})
       /\ Len(i.starts) = begun
       /\ \A n \in 1 .. begun : i.starts[n] = LineStart(bytes, "utf8", n)
  BY <1>1, <1>7 DEF Scanned, StartsKnown
<1>11. PICK s : s = ScanByte(i, byte)
  OBVIOUS
<1>12. CASE i.cr /\ byte = LF
  <2>1. s = next
    BY <1>3, <1>11, <1>12 DEF ScanByte
  <2>2. ~opens /\ byte \in {CR, LF} /\ i.opens
    BY <1>8, <1>10, <1>12
  <2>3. StartsKnown(s, bytes)
    BY <1>5, <1>9, <1>10, <2>1, <2>2 DEF StartsKnown
  <2>4. byte # CR
    BY <1>12 DEF CR, LF
  <2>5. QED BY <1>1, <1>2, <1>5, <1>6, <1>11, <2>1, <2>2, <2>3, <2>4 DEF Scanned
<1>13. CASE ~(i.cr /\ byte = LF)
  <2>1. opens <=> i.opens
    BY <1>8, <1>10, <1>13
  <2>2. PICK r : r = Opens(next, byte, p)
    OBVIOUS
  <2>3. /\ r \in IndexStates /\ Marked(r) /\ SameScan(r, i) /\ r.offset = p + 1
        /\ StartsKnown(r, bytes)
    <3>1. CASE opens
      <4>1. r = RecordLine(next, p)
        BY <1>5, <2>1, <2>2, <3>1 DEF Opens
      <4>2. /\ r \in IndexStates /\ Marked(r) /\ SameScan(r, next) /\ r.offset = p + 1
            /\ r.starts = Append(i.starts, p)
        <5>1. next \in IndexStates /\ p \in Nat /\ Marked(next)
          BY <1>1, <1>5, <1>6
        <5>2. /\ r \in IndexStates /\ Marked(r) /\ SameScan(r, next)
              /\ r.offset = next.offset /\ r.starts = Append(next.starts, p)
          BY <4>1, <5>1, LineRecorded
        <5>3. QED BY <1>5, <5>2
      <4>3. /\ Len(r.starts) = begun + 1 /\ r.starts[begun + 1] = p
            /\ \A n \in 1 .. begun : r.starts[n] = i.starts[n]
        BY <1>1, <1>5, <1>10, <4>2, AppendProperties
      <4>4. \A n \in 1 .. (begun + 1) : r.starts[n] = LineStart(bytes, "utf8", n)
        <5>1. \A n \in 1 .. (begun + 1) : n = begun + 1 \/ n \in 1 .. begun
          BY <1>9
        <5>2. QED BY <1>9, <1>10, <3>1, <4>3, <5>1
      <4>5. StartsKnown(r, bytes)
        BY <1>9, <3>1, <4>2, <4>3, <4>4 DEF StartsKnown
      <4>6. SameScan(r, i)
        BY <1>5, <4>2 DEF SameScan
      <4>7. QED BY <4>2, <4>5, <4>6
    <3>2. CASE ~opens
      <4>1. r = next
        BY <1>5, <2>1, <2>2, <3>2 DEF Opens
      <4>2. QED BY <1>5, <1>6, <1>9, <1>10, <3>2, <4>1 DEF StartsKnown
    <3>3. QED BY <3>1, <3>2
  <2>4. s = [r EXCEPT !.opens = byte \in {CR, LF}, !.cr = byte = CR]
    <3>1. s = AfterByte(Opens(next, byte, p), byte)
      BY <1>1, <1>3, <1>11, <1>13 DEF ScanByte
    <3>2. QED BY <2>2, <3>1 DEF AfterByte
  <2>5. s = [chunks |-> r.chunks, offset |-> r.offset, cr |-> byte = CR,
             opens |-> byte \in {CR, LF}, starts |-> r.starts, marks |-> r.marks,
             complete |-> r.complete, bound |-> r.bound]
    BY <2>3, <2>4 DEF IndexStates
  <2>6. /\ s \in IndexStates /\ s.offset = p + 1 /\ (s.cr <=> byte = CR)
        /\ (s.opens <=> byte \in {CR, LF}) /\ s.starts = r.starts /\ s.marks = r.marks
        /\ SameScan(s, i)
    <3>1. /\ r.chunks \in Nat /\ r.offset \in Nat /\ r.starts \in Seq(Nat)
          /\ r.marks \in Checkpoints /\ r.bound \in Seq(Contents)
          /\ r.complete \in {TRUE, FALSE}
      BY <2>3, IndexFields
    <3>3. PICK isCr \in {TRUE, FALSE} : isCr <=> byte = CR
      OBVIOUS
    <3>4. PICK isEnd \in {TRUE, FALSE} : isEnd <=> byte \in {CR, LF}
      OBVIOUS
    <3>5. s = [chunks |-> r.chunks, offset |-> r.offset, cr |-> isCr,
               opens |-> isEnd, starts |-> r.starts, marks |-> r.marks,
               complete |-> r.complete, bound |-> r.bound]
      BY <2>5, <3>3, <3>4
    <3>2. /\ s \in IndexStates /\ s.chunks = r.chunks /\ s.offset = r.offset
          /\ (s.cr <=> byte = CR) /\ (s.opens <=> byte \in {CR, LF})
          /\ s.starts = r.starts /\ s.marks = r.marks /\ (s.complete <=> r.complete)
          /\ s.bound = r.bound
      <4>1. /\ s \in IndexStates /\ s.chunks = r.chunks /\ s.offset = r.offset
            /\ (s.cr <=> isCr) /\ (s.opens <=> isEnd)
            /\ s.starts = r.starts /\ s.marks = r.marks /\ (s.complete <=> r.complete)
            /\ s.bound = r.bound
        BY <3>1, <3>5 DEF IndexStates
      <4>2. QED BY <3>3, <3>4, <4>1
    <3>6. QED BY <2>3, <3>2 DEF SameScan
  <2>7. Marked(s) /\ StartsKnown(s, bytes)
    BY <2>3, <2>6 DEF Marked, MarkedLines, StartsKnown
  <2>8. QED BY <1>1, <1>2, <1>11, <2>6, <2>7 DEF Scanned
<1>14. QED BY <1>12, <1>13

LEMMA ChunkScanned ==
  ASSUME NEW bytes \in Seq(Bytes), NEW i, Scanned(i, bytes), NEW chunk \in Seq(Bytes),
         i.offset + Len(chunk) <= Len(bytes),
         \A n \in 1 .. Len(chunk) : chunk[n] = bytes[i.offset + n]
  PROVE  LET s == ScanChunk(i, chunk)
         IN  Scanned(s, bytes) /\ SameScan(s, i) /\ s.offset = i.offset + Len(chunk)
<1>1. PICK N \in Nat : N = Len(chunk)
  BY LenProperties
<1>2. PICK p \in Nat : p = i.offset
  BY DEF Scanned
<1>3. PICK S : S = [n \in 0 .. N |-> {s \in IndexStates :
                      Scanned(s, bytes) /\ SameScan(s, i) /\ s.offset = p + n}]
  OBVIOUS
<1>4. \A n \in 0 .. N : \A s : s \in S[n] <=>
        Scanned(s, bytes) /\ SameScan(s, i) /\ s.offset = p + n
  BY <1>3 DEF Scanned
<1>5. PICK step : step = [n \in 1 .. N |-> [s \in S[n - 1] |-> ScanByte(s, chunk[n])]]
  OBVIOUS
<1>6. ASSUME NEW n \in 1 .. N, NEW s \in S[n - 1]
      PROVE  step[n][s] = ScanByte(s, chunk[n]) /\ step[n][s] \in S[n]
  <2>1. step[n][s] = ScanByte(s, chunk[n])
    BY <1>5
  <2>2. n - 1 \in 0 .. N /\ n \in 0 .. N /\ n \in Nat
    BY <1>1
  <2>3. Scanned(s, bytes) /\ SameScan(s, i) /\ s.offset = p + (n - 1)
    BY <1>4, <2>2
  <2>4. p + (n - 1) < Len(bytes) /\ p + (n - 1) + 1 = p + n
    <3>1. PICK all \in Nat : all = Len(bytes)
      BY LenProperties
    <3>2. p + N <= all
      BY <1>1, <1>2, <3>1
    <3>3. QED BY <1>1, <1>2, <3>1, <3>2
  <2>5. chunk[n] = bytes[s.offset + 1]
    BY <1>1, <1>2, <2>3, <2>4
  <2>6. PICK t : t = ScanByte(s, chunk[n])
    OBVIOUS
  <2>7. Scanned(t, bytes) /\ SameScan(t, s) /\ t.offset = p + n
    BY <2>3, <2>4, <2>5, <2>6, ByteScanned
  <2>8. SameScan(t, i)
    BY <2>3, <2>7 DEF SameScan
  <2>9. QED BY <1>4, <2>1, <2>2, <2>6, <2>7, <2>8
<1>7. \A n \in 1 .. N : step[n] \in [S[n - 1] -> S[n]]
  BY <1>5, <1>6
<1>8. i \in S[0]
  <2>1. SameScan(i, i) /\ i.offset = p + 0 /\ 0 \in 0 .. N
    BY <1>1, <1>2 DEF SameScan
  <2>2. QED BY <1>4, <2>1
<1>9. PICK f : IsRun(f, N, i, step) /\ \A n \in 0 .. N : f[n] \in S[n]
  BY <1>1, <1>7, <1>8, RunExists
<1>10. f = [n \in 0 .. N |-> IF n = 0 THEN i ELSE ScanByte(f[n - 1], chunk[n])]
  <2>1. ASSUME NEW n \in 0 .. N, n # 0
        PROVE  step[n][f[n - 1]] = ScanByte(f[n - 1], chunk[n])
    <3>1. n \in 1 .. N /\ n - 1 \in 0 .. N
      BY <1>1, <2>1
    <3>2. QED BY <1>6, <1>9, <3>1
  <2>2. QED BY <1>9, <2>1 DEF IsRun
<1> DEFINE after == CHOOSE g :
             g = [n \in 0 .. Len(chunk) |->
                    IF n = 0 THEN i ELSE ScanByte(g[n - 1], chunk[n])]
<1>11. after = [n \in 0 .. N |-> IF n = 0 THEN i ELSE ScanByte(after[n - 1], chunk[n])]
  BY <1>1, <1>10
<1>12. ScanChunk(i, chunk) = after[N]
  BY <1>1 DEF ScanChunk
<1> HIDE DEF after
<1>13. f[N] = after[N]
  <2>1. f[0] = after[0]
    BY <1>1, <1>10, <1>11
  <2>2. ASSUME NEW n \in 1 .. N, f[n - 1] = after[n - 1] PROVE f[n] = after[n]
    <3>1. n \in 0 .. N /\ n # 0
      BY <1>1
    <3>2. f[n] = ScanByte(f[n - 1], chunk[n])
      BY <1>10, <3>1
    <3>3. after[n] = ScanByte(after[n - 1], chunk[n])
      BY <1>11, <3>1
    <3>4. QED BY <2>2, <3>2, <3>3
  <2>3. QED BY <1>1, <2>1, <2>2, RunsAlike
<1>14. N \in 0 .. N
  BY <1>1
<1>15. QED BY <1>1, <1>2, <1>4, <1>9, <1>12, <1>13, <1>14

-----------------------------------------------------------------------------
(* The bytes of a capture's chunks.                                        *)

LEMMA JoinedChunks ==
  ASSUME NEW chunks \in Contents
  PROVE  LET J == JoinedUpTo(chunks)
         IN  /\ J[0] = <<>>
             /\ \A n \in 1 .. Len(chunks) : J[n] = J[n - 1] \o chunks[n]
             /\ \A n \in 0 .. Len(chunks) : J[n] \in Seq(Bytes)
<1>1. PICK N \in Nat : N = Len(chunks)
  BY LenProperties DEF Contents
<1>2. \A n \in 1 .. N : chunks[n] \in Seq(Bytes)
  BY <1>1, ElementOfSeq DEF Contents
<1>3. <<>> \in Seq(Bytes)
  BY EmptySeq
<1>4. PICK S : S = [n \in 0 .. N |-> Seq(Bytes)]
  OBVIOUS
<1>5. PICK step : step = [n \in 1 .. N |-> [s \in Seq(Bytes) |-> s \o chunks[n]]]
  OBVIOUS
<1>6. ASSUME NEW n \in 1 .. N, NEW s \in Seq(Bytes)
      PROVE  step[n][s] = s \o chunks[n] /\ step[n][s] \in Seq(Bytes)
  BY <1>2, <1>5, ConcatProperties
<1>7. \A n \in 0 .. N : S[n] = Seq(Bytes)
  BY <1>4
<1>8. \A n \in 1 .. N : n - 1 \in 0 .. N /\ n \in 0 .. N
  BY <1>1
<1>9. \A n \in 1 .. N : step[n] \in [S[n - 1] -> S[n]]
  BY <1>5, <1>6, <1>7, <1>8
<1>10. <<>> \in S[0]
  <2>1. 0 \in 0 .. N
    BY <1>1
  <2>2. QED BY <1>3, <1>7, <2>1
<1>11. PICK f : IsRun(f, N, <<>>, step) /\ \A n \in 0 .. N : f[n] \in S[n]
  BY <1>1, <1>9, <1>10, RunExists
<1>12. f = [n \in 0 .. N |-> IF n = 0 THEN <<>> ELSE f[n - 1] \o chunks[n]]
  <2>1. ASSUME NEW n \in 0 .. N, n # 0
        PROVE  step[n][f[n - 1]] = f[n - 1] \o chunks[n]
    <3>1. n \in 1 .. N /\ n - 1 \in 0 .. N
      BY <1>1, <2>1
    <3>2. f[n - 1] \in Seq(Bytes)
      BY <1>7, <1>11, <3>1
    <3>3. QED BY <1>6, <3>1, <3>2
  <2>2. QED BY <1>11, <2>1 DEF IsRun
<1> DEFINE J == JoinedUpTo(chunks)
<1>13. J = [n \in 0 .. N |-> IF n = 0 THEN <<>> ELSE J[n - 1] \o chunks[n]]
  <2> DEFINE joined == CHOOSE g :
               g = [n \in 0 .. Len(chunks) |->
                      IF n = 0 THEN <<>> ELSE g[n - 1] \o chunks[n]]
  <2>1. joined = [n \in 0 .. N |-> IF n = 0 THEN <<>> ELSE joined[n - 1] \o chunks[n]]
    BY <1>1, <1>12
  <2>2. J = joined
    BY DEF JoinedUpTo
  <2> HIDE DEF joined, J
  <2>3. QED BY <2>1, <2>2
<1> HIDE DEF J
<1>14. J[0] = <<>>
  BY <1>1, <1>13
<1>15. \A n \in 1 .. N : J[n] = J[n - 1] \o chunks[n]
  <2>1. \A n \in 1 .. N : n \in 0 .. N /\ n # 0
    BY <1>1
  <2>2. QED BY <1>13, <2>1
<1>16. ASSUME NEW m \in 0 .. N PROVE J[m] \in Seq(Bytes)
  <2>1. m \in Nat
    BY <1>1
  <2>2. f[0] = J[0]
    BY <1>1, <1>12, <1>14
  <2>3. ASSUME NEW n \in 1 .. m, f[n - 1] = J[n - 1] PROVE f[n] = J[n]
    <3>1. n \in 1 .. N /\ n \in 0 .. N /\ n # 0
      BY <1>1, <1>16
    <3>2. f[n] = f[n - 1] \o chunks[n]
      BY <1>12, <3>1
    <3>3. QED BY <1>15, <2>3, <3>1, <3>2
  <2>4. f[m] = J[m]
    BY <2>1, <2>2, <2>3, RunsAlike
  <2>5. QED BY <1>7, <1>11, <2>4
<1>17. QED BY <1>1, <1>14, <1>15, <1>16 DEF J

Begins(s, t) ==
  Len(s) <= Len(t) /\ \A n \in 1 .. Len(s) : s[n] = t[n]

\* What came before a chunk begins the whole.
LEMMA ChunksBegin ==
  ASSUME NEW chunks \in Contents, NEW k \in 0 .. Len(chunks)
  PROVE  Begins(JoinedUpTo(chunks)[k], Joined(chunks))
<1> DEFINE J == JoinedUpTo(chunks)
<1>1. PICK N \in Nat : N = Len(chunks) /\ k \in 0 .. N
  BY LenProperties DEF Contents
<1>2. /\ \A n \in 1 .. N : J[n] = J[n - 1] \o chunks[n]
      /\ \A n \in 0 .. N : J[n] \in Seq(Bytes)
  BY <1>1, JoinedChunks
<1>3. Joined(chunks) = J[N]
  BY <1>1 DEF Joined
<1> HIDE DEF J
<1>4. \A n \in 1 .. N : chunks[n] \in Seq(Bytes)
  BY <1>1, ElementOfSeq DEF Contents
<1> DEFINE bad == {m \in k .. N : ~Begins(J[k], J[m])}
<1>5. SUFFICES ASSUME bad # {} PROVE FALSE
  <2>1. N \in k .. N
    BY <1>1
  <2>2. QED BY <1>3, <1>5, <2>1 DEF J
<1>6. PICK m \in bad : \A j \in bad : m <= j
  <2>1. bad \in SUBSET Nat
    BY <1>1
  <2> HIDE DEF bad
  <2>2. QED BY <1>5, <2>1, LeastNumber
<1>7. m \in k .. N /\ ~Begins(J[k], J[m])
  OBVIOUS
<1>8. m # k
  BY <1>7 DEF Begins
<1>9. m - 1 \in k .. N /\ ~(m <= m - 1) /\ m \in 1 .. N /\ m - 1 \in 0 .. N /\ m \in 0 .. N
  BY <1>1, <1>7, <1>8
<1>10. Begins(J[k], J[m - 1])
  BY <1>6, <1>9
<1>11. J[m - 1] \in Seq(Bytes) /\ J[k] \in Seq(Bytes) /\ J[m] = J[m - 1] \o chunks[m]
  BY <1>1, <1>2, <1>9
<1>12. PICK a : a = J[m - 1]
  OBVIOUS
<1>13. PICK b : b = chunks[m] /\ b \in Seq(Bytes)
  BY <1>4, <1>9
<1>14. Begins(a, a \o b)
  <2>1. PICK c : c = a \o b
    OBVIOUS
  <2>2. /\ Len(c) = Len(a) + Len(b) /\ Len(a) \in Nat /\ Len(b) \in Nat
        /\ \A n \in 1 .. Len(c) : n <= Len(a) => c[n] = a[n]
    BY <1>11, <1>12, <1>13, <2>1, ConcatProperties, LenProperties
  <2>3. Begins(a, c)
    BY <2>2 DEF Begins
  <2>4. QED BY <2>1, <2>3
<1>15. PICK c \in Seq(Bytes) : c = J[k]
  BY <1>11
<1>16. Begins(c, a) /\ Begins(a, J[m])
  BY <1>10, <1>11, <1>12, <1>13, <1>14, <1>15
<1>17. PICK d \in Seq(Bytes) : d = J[m]
  BY <1>2, <1>9
<1>18. Begins(c, d)
  <2>1. Len(c) \in Nat /\ Len(a) \in Nat /\ Len(d) \in Nat
    BY <1>11, <1>12, <1>15, <1>17, LenProperties
  <2>2. QED BY <1>16, <1>17, <2>1 DEF Begins
<1>19. QED BY <1>7, <1>15, <1>17, <1>18

-----------------------------------------------------------------------------
(* A scanner and the chunks of its capture.                                *)

LEMMA ScanKept ==
  ASSUME NEW bytes, NEW t, Scanned(t, bytes), NEW s \in IndexStates,
         s.offset = t.offset, s.cr <=> t.cr, s.opens <=> t.opens,
         s.starts = t.starts, s.marks = t.marks
  PROVE  Scanned(s, bytes)
<1>1. StartsKnown(s, bytes) /\ Marked(s)
  BY DEF Scanned, StartsKnown, Marked, MarkedLines
<1>2. QED BY <1>1 DEF Scanned

\* A scanner that saw a number of chunks, and all of them when it is complete.
Reached(i, chunks) ==
  /\ Scanned(i, Joined(chunks))
  /\ i.chunks \in 0 .. Len(chunks)
  /\ i.offset = Len(JoinedUpTo(chunks)[i.chunks])
  /\ i.complete => i.chunks = Len(chunks)

LEMMA JoinedAll ==
  ASSUME NEW chunks \in Contents
  PROVE  Joined(chunks) \in Seq(Bytes) /\ Len(chunks) \in Nat
<1>1. Len(chunks) \in Nat /\ Len(chunks) \in 0 .. Len(chunks)
  BY LenProperties DEF Contents
<1>2. QED BY <1>1, JoinedChunks DEF Joined

LEMMA IndexMoved ==
  ASSUME NEW t \in IndexStates, NEW n \in Nat, NEW s, s = [t EXCEPT !.chunks = n]
  PROVE  /\ s \in IndexStates /\ s.chunks = n /\ s.offset = t.offset /\ (s.cr <=> t.cr)
         /\ (s.opens <=> t.opens) /\ s.starts = t.starts /\ s.marks = t.marks
         /\ s.bound = t.bound /\ (s.complete <=> t.complete)
<1>1. s = [chunks |-> n, offset |-> t.offset, cr |-> t.cr, opens |-> t.opens,
           starts |-> t.starts, marks |-> t.marks, complete |-> t.complete,
           bound |-> t.bound]
  BY DEF IndexStates
<1>2. QED BY <1>1 DEF IndexStates

LEMMA ChunkReached ==
  ASSUME NEW chunks \in Contents, NEW i, Reached(i, chunks), i.chunks < Len(chunks)
  PROVE  LET s == ScanNextChunk(i, chunks)
         IN  /\ Reached(s, chunks) /\ s.chunks = i.chunks + 1
             /\ s.bound = i.bound /\ (s.complete <=> i.complete)
<1>1. PICK N \in Nat : N = Len(chunks)
  BY LenProperties DEF Contents
<1>2. PICK k \in Nat : k = i.chunks /\ k \in 0 .. N /\ k < N
  BY <1>1 DEF Reached
<1>0. PICK m : m = k + 1 /\ m \in 1 .. N /\ m \in 0 .. N /\ m - 1 = k /\ m \in Nat
  BY <1>1, <1>2
<1>3. PICK all : all = Joined(chunks) /\ all \in Seq(Bytes)
  BY JoinedAll
<1>4. PICK seen : seen = JoinedUpTo(chunks)[k] /\ seen \in Seq(Bytes)
  BY <1>1, <1>2, JoinedChunks
<1>5. PICK chunk : chunk = chunks[m] /\ chunk \in Seq(Bytes)
  BY <1>0, <1>1, ElementOfSeq DEF Contents
<1>6. PICK more : more = JoinedUpTo(chunks)[m] /\ more = seen \o chunk
  <2>1. JoinedUpTo(chunks)[m] = JoinedUpTo(chunks)[m - 1] \o chunks[m]
    BY <1>0, <1>1, JoinedChunks
  <2>2. QED BY <1>0, <1>4, <1>5, <2>1
<1>7. Begins(more, all)
  BY <1>0, <1>1, <1>3, <1>6, ChunksBegin
<1>8. PICK a \in Nat : a = Len(seen)
  BY <1>4, LenProperties
<1>9. PICK b \in Nat : b = Len(chunk)
  BY <1>5, LenProperties
<1>10. /\ Len(more) = a + b
       /\ \A n \in 1 .. (a + b) : more[n] = IF n <= a THEN seen[n] ELSE chunk[n - a]
  <2>1. /\ Len(seen \o chunk) = Len(seen) + Len(chunk)
        /\ \A n \in 1 .. (Len(seen) + Len(chunk)) :
             (seen \o chunk)[n] = IF n <= Len(seen) THEN seen[n] ELSE chunk[n - Len(seen)]
    BY <1>4, <1>5, ConcatProperties
  <2>2. QED BY <1>6, <1>8, <1>9, <2>1
<1>11. a + b <= Len(all) /\ \A n \in 1 .. b : chunk[n] = all[a + n]
  <2>1. \A n \in 1 .. b : a + n \in 1 .. (a + b) /\ ~(a + n <= a) /\ a + n - a = n
    OBVIOUS
  <2>2. ASSUME NEW n \in 1 .. b PROVE more[a + n] = chunk[n]
    <3>1. a + n \in 1 .. (a + b) /\ ~(a + n <= a) /\ a + n - a = n
      BY <2>1
    <3>2. more[a + n] = IF a + n <= a THEN seen[a + n] ELSE chunk[a + n - a]
      BY <1>10, <3>1
    <3>3. QED BY <3>1, <3>2
  <2>3. QED BY <1>7, <1>10, <2>1, <2>2 DEF Begins
<1>12. i.offset = a /\ Scanned(i, all)
  BY <1>2, <1>3, <1>4, <1>8 DEF Reached
<1>13. PICK t : t = ScanChunk(i, chunk)
  OBVIOUS
<1>14. Scanned(t, all) /\ SameScan(t, i) /\ t.offset = a + b
  BY <1>3, <1>5, <1>9, <1>11, <1>12, <1>13, ChunkScanned
<1>15. PICK s : s = ScanNextChunk(i, chunks)
  OBVIOUS
<1>16. s = [t EXCEPT !.chunks = m]
  <2>1. t.chunks = k
    BY <1>2, <1>14 DEF SameScan
  <2>2. s = [t EXCEPT !.chunks = @ + 1]
    BY <1>0, <1>2, <1>5, <1>13, <1>15 DEF ScanNextChunk
  <2>3. QED BY <1>0, <2>1, <2>2
<1>17. /\ s \in IndexStates /\ s.chunks = m /\ s.offset = t.offset /\ (s.cr <=> t.cr)
       /\ (s.opens <=> t.opens) /\ s.starts = t.starts /\ s.marks = t.marks
       /\ s.bound = t.bound /\ (s.complete <=> t.complete)
  <2>1. t \in IndexStates
    BY <1>14 DEF Scanned
  <2>2. QED BY <1>0, <1>16, <2>1, IndexMoved
<1>18. Scanned(s, all)
  BY <1>14, <1>17, ScanKept
<1>19. ~i.complete
  BY <1>1, <1>2 DEF Reached
<1>20. s.bound = i.bound /\ (s.complete <=> i.complete)
  BY <1>14, <1>17 DEF SameScan
<1>21. s.offset = Len(JoinedUpTo(chunks)[s.chunks])
  BY <1>6, <1>10, <1>14, <1>17
<1>22. Reached(s, chunks)
  BY <1>0, <1>1, <1>3, <1>17, <1>18, <1>19, <1>20, <1>21 DEF Reached
<1>23. QED BY <1>0, <1>2, <1>15, <1>17, <1>20, <1>22

LEMMA CompletedReached ==
  ASSUME NEW chunks \in Contents, NEW i, Reached(i, chunks)
  PROVE  LET s == Completed(i, chunks)
         IN  /\ Reached(s, chunks) /\ s.chunks = i.chunks /\ s.bound = i.bound
             /\ (s.complete <=> s.chunks = Len(chunks))
<1>1. PICK s : s = Completed(i, chunks)
  OBVIOUS
<1>2. PICK all \in {TRUE, FALSE} : all <=> i.chunks = Len(chunks)
  OBVIOUS
<1>3. i \in IndexStates
  BY DEF Reached, Scanned
<1>4. s = [i EXCEPT !.complete = all]
  BY <1>1, <1>2 DEF Completed
<1>5. /\ s \in IndexStates /\ s.chunks = i.chunks /\ s.offset = i.offset /\ (s.cr <=> i.cr)
      /\ (s.opens <=> i.opens) /\ s.starts = i.starts /\ s.marks = i.marks
      /\ s.bound = i.bound /\ (s.complete <=> all)
  BY <1>3, <1>4 DEF IndexStates
<1>6. Scanned(s, Joined(chunks))
  BY <1>5, ScanKept DEF Reached
<1>7. QED BY <1>1, <1>2, <1>5, <1>6 DEF Reached

\* A capture that is bound, too.
LEMMA BoundReached ==
  ASSUME NEW chunks \in Contents, NEW i, Reached(i, chunks)
  PROVE  LET s == Bound(i, <<chunks>>)
         IN  Reached(s, chunks) /\ s.chunks = i.chunks /\ s.bound = <<chunks>>
<1>1. PICK s : s = Bound(i, <<chunks>>)
  OBVIOUS
<1>2. PICK bound : bound = <<chunks>> /\ bound \in Seq(Contents)
  <2>1. <<chunks>> \in Seq(Contents)
    OBVIOUS
  <2>2. QED BY <2>1
<1>3. i \in IndexStates
  BY DEF Reached, Scanned
<1>4. s = [i EXCEPT !.bound = bound]
  BY <1>1, <1>2 DEF Bound
<1>5. /\ s \in IndexStates /\ s.chunks = i.chunks /\ s.offset = i.offset /\ (s.cr <=> i.cr)
      /\ (s.opens <=> i.opens) /\ s.starts = i.starts /\ s.marks = i.marks
      /\ s.bound = bound /\ (s.complete <=> i.complete)
  BY <1>2, <1>3, <1>4 DEF IndexStates
<1>6. Scanned(s, Joined(chunks))
  BY <1>5, ScanKept DEF Reached
<1>7. QED BY <1>1, <1>2, <1>5, <1>6 DEF Reached

LEMMA OneChunkReached ==
  ASSUME NEW chunks \in Contents, NEW i, Reached(i, chunks)
  PROVE  LET s == OneChunk(i, chunks)
         IN  /\ Reached(s, chunks) /\ s.bound = i.bound
             /\ s.chunks = Len(chunks) \/ s.chunks = i.chunks + 1
<1>1. PICK s : s = OneChunk(i, chunks)
  OBVIOUS
<1>2. Len(chunks) \in Nat /\ i.chunks \in 0 .. Len(chunks)
  BY LenProperties DEF Reached, Contents
<1>3. CASE i.complete \/ i.chunks = Len(chunks)
  BY <1>1, <1>3 DEF OneChunk, Reached
<1>4. CASE ~(i.complete \/ i.chunks = Len(chunks))
  <2>1. s = ScanNextChunk(i, chunks) /\ i.chunks < Len(chunks)
    BY <1>1, <1>2, <1>4 DEF OneChunk
  <2>2. QED BY <1>1, <2>1, ChunkReached
<1>5. QED BY <1>3, <1>4

\* A step within a budget of chunks: it is complete when it has seen them all.
LEMMA SteppedReached ==
  ASSUME NEW chunks \in Contents, NEW i, Reached(i, chunks), NEW budget \in Nat
  PROVE  LET s == Stepped(i, chunks, budget)
         IN  /\ Reached(s, chunks) /\ s.bound = i.bound
             /\ s.complete <=> s.chunks = Len(chunks)
             /\ s.complete \/ s.chunks >= i.chunks + budget
<1>1. PICK N \in Nat : N = Len(chunks)
  BY LenProperties DEF Contents
<1>2. PICK k \in Nat : k = i.chunks
  BY <1>1 DEF Reached
<1>3. PICK S : S = [n \in 0 .. budget |-> {s \in IndexStates :
                      /\ Reached(s, chunks) /\ s.bound = i.bound
                      /\ s.chunks = N \/ s.chunks >= k + n}]
  OBVIOUS
<1>4. \A n \in 0 .. budget : \A s : s \in S[n] <=>
        Reached(s, chunks) /\ s.bound = i.bound /\ (s.chunks = N \/ s.chunks >= k + n)
  BY <1>3 DEF Reached, Scanned
<1>5. PICK step : step = [n \in 1 .. budget |-> [s \in S[n - 1] |-> OneChunk(s, chunks)]]
  OBVIOUS
<1>6. ASSUME NEW n \in 1 .. budget, NEW s \in S[n - 1]
      PROVE  step[n][s] = OneChunk(s, chunks) /\ step[n][s] \in S[n]
  <2>1. step[n][s] = OneChunk(s, chunks)
    BY <1>5
  <2>2. n - 1 \in 0 .. budget /\ n \in 0 .. budget /\ n \in Nat
    OBVIOUS
  <2>3. Reached(s, chunks) /\ s.bound = i.bound /\ (s.chunks = N \/ s.chunks >= k + (n - 1))
    BY <1>4, <2>2
  <2>4. PICK t : t = OneChunk(s, chunks)
    OBVIOUS
  <2>5. Reached(t, chunks) /\ t.bound = s.bound /\ (t.chunks = N \/ t.chunks = s.chunks + 1)
    BY <1>1, <2>3, <2>4, OneChunkReached
  <2>6. s.chunks \in 0 .. N /\ t.chunks \in 0 .. N
    BY <1>1, <2>3, <2>5 DEF Reached
  <2>7. t.chunks = N \/ t.chunks >= k + n
    BY <1>1, <1>2, <2>2, <2>3, <2>5, <2>6
  <2>8. QED BY <1>4, <2>1, <2>2, <2>3, <2>4, <2>5, <2>7
<1>7. \A n \in 1 .. budget : step[n] \in [S[n - 1] -> S[n]]
  BY <1>5, <1>6
<1>8. i \in S[0]
  <2>1. 0 \in 0 .. budget /\ i.chunks >= k + 0
    BY <1>2
  <2>2. QED BY <1>4, <2>1
<1>9. PICK f : IsRun(f, budget, i, step) /\ \A n \in 0 .. budget : f[n] \in S[n]
  BY <1>7, <1>8, RunExists
<1>10. f = [n \in 0 .. budget |-> IF n = 0 THEN i ELSE OneChunk(f[n - 1], chunks)]
  <2>1. ASSUME NEW n \in 0 .. budget, n # 0
        PROVE  step[n][f[n - 1]] = OneChunk(f[n - 1], chunks)
    <3>1. n \in 1 .. budget /\ n - 1 \in 0 .. budget
      BY <2>1
    <3>2. QED BY <1>6, <1>9, <3>1
  <2>2. QED BY <1>9, <2>1 DEF IsRun
<1> DEFINE after == CHOOSE g :
             g = [n \in 0 .. budget |-> IF n = 0 THEN i ELSE OneChunk(g[n - 1], chunks)]
<1>11. after = [n \in 0 .. budget |-> IF n = 0 THEN i ELSE OneChunk(after[n - 1], chunks)]
  BY <1>10
<1>12. Stepped(i, chunks, budget) = Completed(after[budget], chunks)
  BY DEF Stepped
<1> HIDE DEF after
<1>13. f[budget] = after[budget]
  <2>1. f[0] = after[0]
    BY <1>10, <1>11
  <2>2. ASSUME NEW n \in 1 .. budget, f[n - 1] = after[n - 1] PROVE f[n] = after[n]
    <3>1. n \in 0 .. budget /\ n # 0
      OBVIOUS
    <3>2. f[n] = OneChunk(f[n - 1], chunks)
      BY <1>10, <3>1
    <3>3. after[n] = OneChunk(after[n - 1], chunks)
      BY <1>11, <3>1
    <3>4. QED BY <2>2, <3>2, <3>3
  <2>3. QED BY <2>1, <2>2, RunsAlike
<1>14. PICK last : last = f[budget]
  OBVIOUS
<1>15. /\ Reached(last, chunks) /\ last.bound = i.bound
       /\ last.chunks = N \/ last.chunks >= k + budget
  <2>1. budget \in 0 .. budget
    OBVIOUS
  <2>2. QED BY <1>4, <1>9, <1>14, <2>1
<1>16. PICK s : s = Stepped(i, chunks, budget)
  OBVIOUS
<1>17. /\ Reached(s, chunks) /\ s.chunks = last.chunks /\ s.bound = last.bound
       /\ (s.complete <=> s.chunks = N)
  BY <1>1, <1>12, <1>13, <1>14, <1>15, <1>16, CompletedReached
<1>18. QED BY <1>1, <1>2, <1>15, <1>16, <1>17

LEMMA OneChunkUntilReached ==
  ASSUME NEW chunks \in Contents, NEW i, Reached(i, chunks), NEW line \in Nat
  PROVE  LET s == OneChunkUntil(i, chunks, line)
         IN  /\ Reached(s, chunks) /\ s.bound = i.bound
             /\ \/ s.complete \/ Line(s) >= line
                \/ s.chunks >= i.chunks + 1
<1>1. PICK s : s = OneChunkUntil(i, chunks, line)
  OBVIOUS
<1>2. CASE Line(i) >= line \/ i.complete
  BY <1>1, <1>2 DEF OneChunkUntil
<1>3. CASE ~(Line(i) >= line \/ i.complete)
  <2>1. s = Stepped(i, chunks, 1)
    BY <1>1, <1>3 DEF OneChunkUntil
  <2>2. 1 \in Nat
    OBVIOUS
  <2>3. /\ Reached(Stepped(i, chunks, 1), chunks)
        /\ Stepped(i, chunks, 1).bound = i.bound
        /\ \/ Stepped(i, chunks, 1).complete
           \/ Stepped(i, chunks, 1).chunks >= i.chunks + 1
    BY <2>2, SteppedReached
  <2>4. /\ Reached(s, chunks) /\ s.bound = i.bound
        /\ s.complete \/ s.chunks >= i.chunks + 1
    BY <2>1, <2>3, Zenon
  <2>5. QED BY <1>1, <2>4
<1>4. QED BY <1>2, <1>3

\* With a budget for all chunks and one more, the line is found or absent.
LEMMA SteppedUntilReached ==
  ASSUME NEW chunks \in Contents, NEW i, Reached(i, chunks), NEW line \in Nat,
         NEW budget \in Nat
  PROVE  LET s == SteppedUntil(i, chunks, line, budget)
         IN  /\ Reached(s, chunks) /\ s.bound = i.bound
             /\ budget > Len(chunks) => s.complete \/ Line(s) >= line
<1>1. PICK N \in Nat : N = Len(chunks)
  BY LenProperties DEF Contents
<1>2. PICK k \in Nat : k = i.chunks
  BY <1>1 DEF Reached
<1> DEFINE Enough(s, n) == s.complete \/ Line(s) >= line \/ s.chunks >= k + n
<1>3. PICK S : S = [n \in 0 .. budget |-> {s \in IndexStates :
                      Reached(s, chunks) /\ s.bound = i.bound /\ Enough(s, n)}]
  OBVIOUS
<1>4. \A n \in 0 .. budget : \A s : s \in S[n] <=>
        Reached(s, chunks) /\ s.bound = i.bound /\ Enough(s, n)
  <2> HIDE DEF Enough
  <2>1. QED BY <1>3 DEF Reached, Scanned
<1>5. PICK step : step = [n \in 1 .. budget |->
                            [s \in S[n - 1] |-> OneChunkUntil(s, chunks, line)]]
  OBVIOUS
<1>6. ASSUME NEW n \in 1 .. budget, NEW s \in S[n - 1]
      PROVE  step[n][s] = OneChunkUntil(s, chunks, line) /\ step[n][s] \in S[n]
  <2>1. step[n][s] = OneChunkUntil(s, chunks, line)
    BY <1>5
  <2>2. n - 1 \in 0 .. budget /\ n \in 0 .. budget /\ n \in Nat
    OBVIOUS
  <2>3. Reached(s, chunks) /\ s.bound = i.bound /\ Enough(s, n - 1)
    <3> HIDE DEF Enough
    <3>1. QED BY <1>4, <2>2
  <2>4. PICK t : t = OneChunkUntil(s, chunks, line)
    OBVIOUS
  <2>5. /\ Reached(t, chunks) /\ t.bound = s.bound
        /\ t.complete \/ Line(t) >= line \/ t.chunks >= s.chunks + 1
    BY <2>3, <2>4, OneChunkUntilReached
  <2>6. s.chunks \in 0 .. N /\ t.chunks \in 0 .. N
    BY <1>1, <2>3, <2>5 DEF Reached
  <2>7. Enough(t, n)
    <3>1. CASE s.complete \/ Line(s) >= line
      <4>1. t = s
        BY <2>4, <3>1 DEF OneChunkUntil
      <4>2. QED BY <3>1, <4>1
    <3>2. CASE ~(s.complete \/ Line(s) >= line)
      <4>1. s.chunks >= k + (n - 1)
        BY <2>3, <3>2
      <4>2. t.chunks >= s.chunks + 1 => t.chunks >= k + n
        BY <1>1, <1>2, <2>2, <2>6, <4>1
      <4>3. QED BY <2>5, <4>2
    <3>3. QED BY <3>1, <3>2
  <2> HIDE DEF Enough
  <2>8. QED BY <1>4, <2>1, <2>2, <2>3, <2>4, <2>5, <2>7
<1>7. \A n \in 1 .. budget : step[n] \in [S[n - 1] -> S[n]]
  BY <1>5, <1>6
<1>8. i \in S[0]
  <2>1. 0 \in 0 .. budget /\ Enough(i, 0)
    BY <1>2
  <2> HIDE DEF Enough
  <2>2. QED BY <1>4, <2>1
<1>9. PICK f : IsRun(f, budget, i, step) /\ \A n \in 0 .. budget : f[n] \in S[n]
  BY <1>7, <1>8, RunExists
<1>10. f = [n \in 0 .. budget |->
              IF n = 0 THEN i ELSE OneChunkUntil(f[n - 1], chunks, line)]
  <2>1. ASSUME NEW n \in 0 .. budget, n # 0
        PROVE  step[n][f[n - 1]] = OneChunkUntil(f[n - 1], chunks, line)
    <3>1. n \in 1 .. budget /\ n - 1 \in 0 .. budget
      BY <2>1
    <3>2. QED BY <1>6, <1>9, <3>1
  <2>2. QED BY <1>9, <2>1 DEF IsRun
<1> DEFINE after == CHOOSE g :
             g = [n \in 0 .. budget |->
                    IF n = 0 THEN i ELSE OneChunkUntil(g[n - 1], chunks, line)]
<1>11. after = [n \in 0 .. budget |->
                  IF n = 0 THEN i ELSE OneChunkUntil(after[n - 1], chunks, line)]
  BY <1>10
<1>12. SteppedUntil(i, chunks, line, budget) = after[budget]
  BY DEF SteppedUntil
<1> HIDE DEF after
<1>13. f[budget] = after[budget]
  <2>1. f[0] = after[0]
    BY <1>10, <1>11
  <2>2. ASSUME NEW n \in 1 .. budget, f[n - 1] = after[n - 1] PROVE f[n] = after[n]
    <3>1. n \in 0 .. budget /\ n # 0
      OBVIOUS
    <3>2. f[n] = OneChunkUntil(f[n - 1], chunks, line)
      BY <1>10, <3>1
    <3>3. after[n] = OneChunkUntil(after[n - 1], chunks, line)
      BY <1>11, <3>1
    <3>4. QED BY <2>2, <3>2, <3>3
  <2>3. QED BY <2>1, <2>2, RunsAlike
<1>14. PICK s : s = SteppedUntil(i, chunks, line, budget)
  OBVIOUS
<1>15. Reached(s, chunks) /\ s.bound = i.bound /\ Enough(s, budget)
  <2>1. budget \in 0 .. budget /\ s = f[budget]
    BY <1>12, <1>13, <1>14
  <2> HIDE DEF Enough
  <2>2. QED BY <1>4, <1>9, <2>1
<1>16. s.chunks \in 0 .. N
  BY <1>1, <1>15 DEF Reached
<1>17. budget > N => s.complete \/ Line(s) >= line
  BY <1>1, <1>2, <1>15, <1>16
<1>18. QED BY <1>1, <1>14, <1>15, <1>17

-----------------------------------------------------------------------------
(* What a scanner knows, and what it answers.                              *)

LEMMA LineStarts ==
  ASSUME NEW bytes \in Seq(Bytes)
  PROVE  LET starts == TrueStarts(bytes)
             lines == LineCount(bytes, "utf8")
         IN  /\ lines \in Nat /\ Len(starts) = lines /\ DOMAIN starts = 1 .. lines
             /\ \A n \in 1 .. lines : starts[n] = LineStart(bytes, "utf8", n)
             /\ lines = 0 => starts = <<>>
<1>1. "utf8" \in TextEncodings
  BY DEF TextEncodings
<1>2. PICK lines \in Nat : lines = LineCount(bytes, "utf8")
  BY <1>1, LinesOfAll
<1>3. ASSUME NEW n \in 1 .. lines PROVE LineStart(bytes, "utf8", n) \in Nat
  BY <1>1, <1>2, LinesStart
<1>4. PICK starts : starts = TrueStarts(bytes)
  OBVIOUS
<1>5. starts = [n \in 1 .. lines |-> LineStart(bytes, "utf8", n)]
  BY <1>2, <1>4 DEF TrueStarts
<1>6. starts \in Seq(Nat) /\ Len(starts) = lines
  <2>1. starts \in [1 .. lines -> Nat]
    BY <1>3, <1>5
  <2>2. starts \in Seq(Nat)
    BY <2>1
  <2>3. DOMAIN starts = 1 .. lines
    BY <1>5
  <2>4. QED BY <2>2, <2>3, LenProperties
<1>7. lines = 0 => starts = <<>>
  BY <1>6, EmptySeq
<1>8. QED BY <1>2, <1>4, <1>5, <1>6, <1>7

\* Before a place lie the starts of the lines begun before it.
LEMMA StartsBefore ==
  ASSUME NEW bytes \in Seq(Bytes), NEW p \in Nat,
         NEW n \in 1 .. LineCount(bytes, "utf8")
  PROVE  /\ LineStart(bytes, "utf8", n) \in Nat /\ Begun(bytes, "utf8", p) \in Nat
         /\ LineStart(bytes, "utf8", n) < p <=> n <= Begun(bytes, "utf8", p)
<1>1. "utf8" \in TextEncodings
  BY DEF TextEncodings
<1>2. PICK lines \in Nat : lines = LineCount(bytes, "utf8")
  BY <1>1, LinesOfAll
<1>3. PICK q \in Int : q = p - 1
  OBVIOUS
<1>4. PICK u : u = Upto(LineEnds(bytes, "utf8"), q)
  OBVIOUS
<1>5. u \in Nat
  <2>1. LineEnds(bytes, "utf8") \in SUBSET Nat /\ IsFiniteSet(LineEnds(bytes, "utf8"))
    BY <1>1, EndsAreFinite, LenProperties
  <2>2. q <= q
    OBVIOUS
  <2>3. QED BY <1>4, <2>1, <2>2, UptoGrows
<1>6. PICK begun : begun = Begun(bytes, "utf8", p)
  OBVIOUS
<1>7. begun = IF p = 0 THEN 0 ELSE 1 + u
  BY <1>3, <1>4, <1>6 DEF Begun
<1>8. LineStart(bytes, "utf8", n) \in Nat
  BY <1>1, LinesStart
<1>9. LineStart(bytes, "utf8", n) < p <=> n <= begun
  <2>1. CASE n = 1
    <3>1. LineStart(bytes, "utf8", n) = 0
      BY <2>1 DEF LineStart
    <3>2. QED BY <1>5, <1>7, <2>1, <3>1
  <2>2. CASE n # 1
    <3>1. PICK m \in 1 .. lines : m = n - 1
      BY <1>2, <2>2
    <3>2. PICK e : e = LineEnd(bytes, "utf8", m)
      OBVIOUS
    <3>3. e \in Nat /\ (e <= q <=> m <= u)
      BY <1>1, <1>2, <1>4, <3>2, LineEndsBy
    <3>4. e = LineStart(bytes, "utf8", n)
      BY <2>2, <3>1, <3>2 DEF LineStart
    <3>5. n \in Nat /\ m \in Nat
      BY <1>2
    <3>6. e < p <=> n <= begun
      BY <1>3, <1>5, <1>7, <3>1, <3>3, <3>5
    <3>7. QED BY <3>4, <3>6
  <2>3. QED BY <2>1, <2>2
<1>10. QED BY <1>5, <1>6, <1>7, <1>8, <1>9

\* Nothing that was published before the end is taken back at the end.
LEMMA ScannerKnows ==
  ASSUME NEW chunks \in Contents, NEW i, Reached(i, chunks)
  PROVE  LET bytes == Joined(chunks)
             starts == TrueStarts(bytes)
         IN  /\ Line(i) \in Nat /\ Line(i) <= Len(starts) /\ DOMAIN i.starts = 1 .. Line(i)
             /\ DOMAIN i.starts = {n \in DOMAIN starts : starts[n] < i.offset}
             /\ \A n \in DOMAIN i.starts : i.starts[n] = starts[n]
             /\ i.complete => i.offset = Len(bytes) /\ Line(i) = Len(starts)
<1>1. PICK bytes : bytes = Joined(chunks) /\ bytes \in Seq(Bytes)
  BY JoinedAll
<1>2. PICK starts : starts = TrueStarts(bytes)
  OBVIOUS
<1>3. PICK lines \in Nat : lines = LineCount(bytes, "utf8")
  BY <1>1, LineStarts
<1>4. /\ Len(starts) = lines /\ DOMAIN starts = 1 .. lines
      /\ \A n \in 1 .. lines : starts[n] = LineStart(bytes, "utf8", n)
  BY <1>1, <1>2, <1>3, LineStarts
<1>5. i.offset \in 0 .. Len(bytes) /\ i.starts \in Seq(Nat) /\ StartsKnown(i, bytes)
  BY <1>1, IndexFields DEF Reached, Scanned
<1>6. PICK line \in Nat : line = Line(i) /\ DOMAIN i.starts = 1 .. line
  BY <1>5, LenProperties DEF Line
<1>7. /\ line = Begun(bytes, "utf8", i.offset)
      /\ \A n \in 1 .. line : i.starts[n] = LineStart(bytes, "utf8", n)
  BY <1>5, <1>6 DEF StartsKnown, Line
<1>8. line <= lines /\ Begun(bytes, "utf8", Len(bytes)) = lines
  BY <1>1, <1>3, <1>5, <1>7, LinesOfAll DEF TextEncodings
<1>9. i.offset \in Nat
  BY <1>1, <1>5, LenProperties
<1>10. ASSUME NEW n \in 1 .. lines PROVE starts[n] < i.offset <=> n \in 1 .. line
  <2>1. LineStart(bytes, "utf8", n) < i.offset <=> n <= line
    BY <1>1, <1>3, <1>7, <1>9, StartsBefore
  <2>2. n <= line <=> n \in 1 .. line
    BY <1>3, <1>6
  <2>3. QED BY <1>4, <2>1, <2>2
<1>11. 1 .. line = {n \in 1 .. lines : starts[n] < i.offset}
  <2>1. 1 .. line \subseteq 1 .. lines
    BY <1>3, <1>6, <1>8
  <2>2. QED BY <1>10, <2>1, Zenon
<1>12. \A n \in 1 .. line : i.starts[n] = starts[n]
  <2>1. \A n \in 1 .. line : n \in 1 .. lines
    BY <1>3, <1>6, <1>8
  <2>2. QED BY <1>4, <1>7, <2>1
<1>13. i.complete => i.offset = Len(bytes) /\ line = lines
  <2>1. SUFFICES ASSUME i.complete PROVE i.offset = Len(bytes) /\ line = lines
    OBVIOUS
  <2>2. i.offset = Len(JoinedUpTo(chunks)[Len(chunks)])
    BY <2>1 DEF Reached
  <2>3. i.offset = Len(bytes)
    BY <1>1, <2>2 DEF Joined
  <2>4. QED BY <1>7, <1>8, <2>3
<1>14. QED BY <1>1, <1>2, <1>4, <1>6, <1>8, <1>11, <1>12, <1>13

\* An answer that stands when the whole capture is known.
TrueAnswer(a, bytes, starts) ==
  /\ a.kind = "resolved" => a.line <= Len(starts) /\ a.at = starts[a.line]
  /\ a.kind = "absent" => a.line > Len(starts)
  /\ a.kind = "screen" =>
       a.line <= Len(starts) /\ a.at = LineEnd(bytes, "utf8", a.line)
  /\ a.kind = "line" => /\ a.line \in DOMAIN starts /\ starts[a.line] <= a.at
                        /\ \A n \in DOMAIN starts : n > a.line => a.at < starts[n]
  /\ a.kind = "out of bounds" => a.at > Len(bytes) \/ starts = <<>>
  /\ a.kind = "unavailable" => starts = <<>>

Answered(a, chunks) == TrueAnswer(a, Joined(chunks), TrueStarts(Joined(chunks)))

LEMMA JumpStands ==
  ASSUME NEW chunks \in Contents, NEW i, Reached(i, chunks), NEW line \in Nat \ {0}
  PROVE  Answered(Jump(i, line), chunks)
<1>1. PICK bytes : bytes = Joined(chunks)
  OBVIOUS
<1>2. PICK starts : starts = TrueStarts(bytes)
  OBVIOUS
<1>3. /\ Line(i) \in Nat /\ Line(i) <= Len(starts) /\ DOMAIN i.starts = 1 .. Line(i)
      /\ \A n \in DOMAIN i.starts : i.starts[n] = starts[n]
  BY <1>1, <1>2, ScannerKnows
<1>4. PICK a : a = Jump(i, line)
  OBVIOUS
<1>5. CASE line <= Line(i)
  <2>1. a.kind = "resolved" /\ a.line = line /\ a.at = i.starts[line]
    BY <1>4, <1>5 DEF Jump, Say
  <2>2. Len(starts) \in Nat
    BY <1>1, <1>2, JoinedAll, LineStarts
  <2>3. line <= Len(starts) /\ i.starts[line] = starts[line]
    BY <1>3, <1>5, <2>2
  <2>4. QED BY <1>1, <1>2, <1>4, <2>1, <2>3 DEF Answered, TrueAnswer
<1>6. CASE ~(line <= Line(i))
  <2>1. a.kind = "pending"
    BY <1>4, <1>6 DEF Jump, Say
  <2>2. QED BY <1>4, <2>1 DEF Answered, TrueAnswer
<1>7. QED BY <1>5, <1>6

LEMMA ResumedStands ==
  ASSUME NEW chunks \in Contents, NEW i, Reached(i, chunks), NEW line \in Nat \ {0}
  PROVE  Answered(Resumed(i, line), chunks)
<1>1. CASE i.complete /\ Line(i) < line
  <2>1. Line(i) = Len(TrueStarts(Joined(chunks)))
    BY <1>1, ScannerKnows
  <2>2. PICK a : a = Resumed(i, line)
    OBVIOUS
  <2>3. a.kind = "absent" /\ a.line = line
    BY <1>1, <2>2 DEF Resumed, Say
  <2>4. Line(i) \in Nat
    BY ScannerKnows
  <2>5. a.line > Len(TrueStarts(Joined(chunks)))
    BY <1>1, <2>1, <2>3, <2>4
  <2>6. QED BY <2>2, <2>3, <2>5 DEF Answered, TrueAnswer
<1>2. CASE ~(i.complete /\ Line(i) < line)
  BY <1>2, JumpStands DEF Resumed
<1>3. QED BY <1>1, <1>2

\* A screen ends where the next line starts, which the scanner has seen, or
\* with the capture, which it has seen to its end.
LEMMA ScreenStands ==
  ASSUME NEW chunks \in Contents, NEW i, Reached(i, chunks), NEW lines \in Nat \ {0},
         i.complete \/ Line(i) >= lines + 1
  PROVE  Answered(Screen(i, lines), chunks)
<1>1. PICK bytes : bytes = Joined(chunks) /\ bytes \in Seq(Bytes)
  BY JoinedAll
<1>2. PICK starts : starts = TrueStarts(bytes)
  OBVIOUS
<1>3. PICK count \in Nat : count = LineCount(bytes, "utf8")
  BY <1>1, LineStarts
<1>4. /\ Len(starts) = count /\ DOMAIN starts = 1 .. count /\ (count = 0 => starts = <<>>)
      /\ \A n \in 1 .. count : starts[n] = LineStart(bytes, "utf8", n)
  BY <1>1, <1>2, <1>3, LineStarts
<1>5. PICK line \in Nat : line = Line(i) /\ line <= count /\ DOMAIN i.starts = 1 .. line
  BY <1>1, <1>2, <1>4, ScannerKnows
<1>6. /\ \A n \in 1 .. line : i.starts[n] = starts[n]
      /\ i.complete => i.offset = Len(bytes) /\ line = count
  BY <1>1, <1>2, <1>4, <1>5, ScannerKnows
<1>7. PICK a : a = Screen(i, lines)
  OBVIOUS
<1>8. CASE line = 0
  <2>1. a.kind = "unavailable"
    BY <1>5, <1>7, <1>8 DEF Screen, Say
  <2>2. i.complete
    BY <1>5, <1>8
  <2>3. starts = <<>>
    BY <1>4, <1>6, <1>8, <2>2
  <2>4. QED BY <1>1, <1>2, <1>7, <2>1, <2>3 DEF Answered, TrueAnswer
<1>9. CASE line # 0
  <2>1. PICK last \in Nat : last = IF line < lines THEN line ELSE lines
    OBVIOUS
  <2>2. PICK end : end = ScreenEnd(i, last)
    OBVIOUS
  <2>3. a = Say("screen", last, end)
    BY <1>5, <1>7, <1>9, <2>1, <2>2 DEF Screen
  <2>4. a.kind = "screen" /\ a.line = last /\ a.at = end
    BY <2>3 DEF Say
  <2>5. last \in 1 .. count /\ last <= line
    BY <1>5, <1>9, <2>1
  <2>6. CASE last < line
    <3>1. PICK next : next = last + 1 /\ next \in 1 .. line /\ next \in 1 .. count
                      /\ next # 1 /\ next - 1 = last
      BY <1>5, <2>5, <2>6
    <3>2. end = i.starts[next]
      BY <1>5, <2>2, <2>6, <3>1 DEF ScreenEnd
    <3>3. i.starts[next] = LineStart(bytes, "utf8", next)
      BY <1>4, <1>6, <3>1
    <3>4. LineStart(bytes, "utf8", next) = LineEnd(bytes, "utf8", last)
      BY <3>1 DEF LineStart
    <3>5. QED BY <1>1, <1>2, <1>4, <1>7, <2>4, <2>5, <3>2, <3>3, <3>4 DEF Answered, TrueAnswer
  <2>7. CASE ~(last < line)
    <3>1. last = line /\ i.complete
      BY <1>5, <2>1, <2>5, <2>7
    <3>2. end = Len(bytes) /\ last = count
      BY <1>5, <1>6, <2>2, <3>1 DEF ScreenEnd
    <3>3. Len(bytes) > 0
      <4>1. SUFFICES ASSUME Len(bytes) = 0 PROVE FALSE
        BY <1>1, LenProperties
      <4>2. Begun(bytes, "utf8", 0) = count
        BY <1>1, <1>3, <4>1, LinesOfAll DEF TextEncodings
      <4>3. QED BY <1>5, <1>9, <3>2, <3>1, <4>2 DEF Begun
    <3>4. LineEnd(bytes, "utf8", count) = Len(bytes)
      BY <1>1, <1>3, <3>3, LinesOfAll DEF TextEncodings
    <3>5. QED BY <1>1, <1>2, <1>4, <1>7, <2>4, <2>5, <3>2, <3>4 DEF Answered, TrueAnswer
  <2>8. QED BY <2>6, <2>7
<1>10. QED BY <1>8, <1>9

\* The line of a byte is counted from the starts up to it.
LEMMA ByteStands ==
  ASSUME NEW chunks \in Contents, NEW i, Reached(i, chunks), i.complete, NEW at \in Nat
  PROVE  Answered(ByteToLine(i, at), chunks)
<1>1. PICK bytes : bytes = Joined(chunks) /\ bytes \in Seq(Bytes)
  BY JoinedAll
<1>2. PICK starts : starts = TrueStarts(bytes)
  OBVIOUS
<1>3. PICK count \in Nat : count = LineCount(bytes, "utf8")
  BY <1>1, LineStarts
<1>4. /\ Len(starts) = count /\ DOMAIN starts = 1 .. count /\ (count = 0 => starts = <<>>)
      /\ \A n \in 1 .. count : starts[n] = LineStart(bytes, "utf8", n)
  BY <1>1, <1>2, <1>3, LineStarts
<1>5. /\ Line(i) = count /\ i.offset = Len(bytes) /\ DOMAIN i.starts = 1 .. count
      /\ \A n \in 1 .. count : i.starts[n] = starts[n]
  BY <1>1, <1>2, <1>4, ScannerKnows
<1>6. PICK a : a = ByteToLine(i, at)
  OBVIOUS
<1>7. CASE at > i.offset \/ count = 0
  <2>1. a.kind = "out of bounds" /\ a.at = at
    BY <1>5, <1>6, <1>7 DEF ByteToLine, Say
  <2>2. QED BY <1>1, <1>2, <1>4, <1>5, <1>6, <1>7, <2>1 DEF Answered, TrueAnswer
<1>8. CASE ~(at > i.offset \/ count = 0)
  <2>1. PICK p \in Nat : p = at + 1
    OBVIOUS
  <2>2. PICK k : k = Begun(bytes, "utf8", p)
    OBVIOUS
  <2>3. \A n \in 1 .. count : /\ starts[n] \in Nat /\ k \in Nat
                              /\ starts[n] < p <=> n <= k
    BY <1>1, <1>3, <1>4, <2>2, StartsBefore
  <2>4. 1 \in 1 .. count
    BY <1>8
  <2>5. k \in Nat /\ k >= 1
    <3>1. starts[1] = 0
      BY <1>4, <2>4 DEF LineStart
    <3>2. QED BY <2>1, <2>3, <2>4, <3>1
  <2>6. PICK m \in 1 .. count : m = IF k <= count THEN k ELSE count
    BY <1>8, <2>5
  <2>7. \A n \in 1 .. count : (starts[n] <= at <=> n <= m) /\ (at < starts[n] <=> n > m)
    BY <2>1, <2>3, <2>5, <2>6
  <2>8. {n \in DOMAIN i.starts : i.starts[n] <= at} = 1 .. m
    <3>1. ASSUME NEW n PROVE n \in 1 .. m <=> n \in 1 .. count /\ i.starts[n] <= at
      <4>1. n \in 1 .. m <=> n \in 1 .. count /\ n <= m
        OBVIOUS
      <4>2. n \in 1 .. count => i.starts[n] = starts[n]
        BY <1>5
      <4>3. QED BY <2>7, <4>1, <4>2
    <3>2. QED BY <1>5, <3>1, Zenon
  <2>9. Cardinality(1 .. m) = m
    BY FS_Interval
  <2>10. a.kind = "line" /\ a.line = m /\ a.at = at
    <3>1. a = Say("line", m, at)
      BY <1>5, <1>6, <1>8, <2>8, <2>9 DEF ByteToLine
    <3>2. QED BY <3>1 DEF Say
  <2>11. /\ a.line \in DOMAIN starts /\ starts[a.line] <= a.at
         /\ \A n \in DOMAIN starts : n > a.line => a.at < starts[n]
    BY <1>4, <2>6, <2>7, <2>10
  <2>12. QED BY <1>1, <1>2, <1>6, <2>10, <2>11 DEF Answered, TrueAnswer
<1>9. QED BY <1>7, <1>8

-----------------------------------------------------------------------------
(* The index of a capture, and its calls.                                  *)

Served(i, a, chunks) ==
  i.bound = <<chunks>> /\ Reached(i, chunks) /\ Answered(a, chunks)

IndexServes(c, i, a) ==
  /\ c \in IndexedCaptures
  /\ i = NewIndex \/ \E n \in 1 .. 2 : Served(i, a, c[n])

IndexInv == IndexServes(captures, index, told)

LEMMA CapturesAreContents ==
  ASSUME NEW c \in IndexedCaptures, NEW n \in 1 .. 2
  PROVE  c[n] \in Contents
<1>1. c \in Contents \X Contents
  BY IndexAssumption DEF Contents, Bytes
<1>2. QED BY <1>1

LEMMA NothingScanned ==
  ASSUME NEW chunks \in Contents
  PROVE  Reached(NewIndex, chunks)
<1>1. PICK i : i = NewIndex
  OBVIOUS
<1>2. PICK none : none = <<>>
  OBVIOUS
<1>3. i = [chunks |-> 0, offset |-> 0, cr |-> FALSE, opens |-> TRUE, starts |-> none,
           marks |-> none, complete |-> FALSE, bound |-> none]
  BY <1>1, <1>2 DEF NewIndex
<1>4. none \in Seq(Nat) /\ none \in Checkpoints /\ none \in Seq(Contents) /\ Len(none) = 0
      /\ DOMAIN none = {}
  BY <1>2 DEF Checkpoints
<1>5. /\ i.chunks = 0 /\ i.offset = 0 /\ ~i.cr /\ i.opens /\ ~i.complete
      /\ i.starts = none /\ i.marks = none
  BY <1>3
<1>6. i \in IndexStates
  BY <1>3, <1>4 DEF IndexStates
<1>7. PICK bytes : bytes = Joined(chunks) /\ bytes \in Seq(Bytes)
  BY JoinedAll
<1>8. StartsKnown(i, bytes)
  <2>1. Begun(bytes, "utf8", 0) = 0
    BY DEF Begun
  <2>2. QED BY <1>4, <1>5, <2>1 DEF StartsKnown
<1>9. Marked(i)
  BY <1>4, <1>5 DEF Marked, MarkedLines
<1>10. 0 \in 0 .. Len(bytes) /\ 0 \in 0 .. Len(chunks)
  BY <1>7, JoinedAll, LenProperties
<1>11. Scanned(i, bytes)
  BY <1>5, <1>6, <1>8, <1>9, <1>10 DEF Scanned
<1>12. JoinedUpTo(chunks)[0] = <<>>
  BY JoinedChunks
<1>13. Len(JoinedUpTo(chunks)[0]) = 0
  BY <1>2, <1>4, <1>12
<1>14. QED BY <1>1, <1>5, <1>7, <1>10, <1>11, <1>13 DEF Reached

\* Of a capture that is accepted, and of no other, the index has seen a part.
LEMMA AcceptedReached ==
  ASSUME IndexInv, NEW n \in 1 .. 2, Accepts(index, captures[n])
  PROVE  LET s == Bound(index, <<captures[n]>>)
         IN  /\ captures[n] \in Contents
             /\ Reached(s, captures[n]) /\ s.bound = <<captures[n]>>
<1>1. PICK chunks \in Contents : chunks = captures[n]
  BY CapturesAreContents DEF IndexInv, IndexServes
<1>2. Reached(index, chunks)
  <2>1. CASE index = NewIndex
    BY <2>1, NothingScanned
  <2>2. CASE index # NewIndex
    <3>1. PICK m \in 1 .. 2 : index.bound = <<captures[m]>> /\ Reached(index, captures[m])
      BY <2>2 DEF IndexInv, IndexServes, Served
    <3>2. index.bound # <<>>
      BY <3>1
    <3>3. index.bound = <<chunks>>
      BY <1>1, <3>2 DEF Accepts
    <3>4. captures[m] = chunks
      BY <3>1, <3>3
    <3>5. QED BY <3>1, <3>4
  <2>3. QED BY <2>1, <2>2
<1>3. QED BY <1>1, <1>2, BoundReached

LEMMA IndexInitially == ASSUME IndexInit PROVE IndexInv
BY DEF IndexInit, IndexInv, IndexServes

\* An index that is served by the capture of a call is served.
LEMMA CallServed ==
  ASSUME IndexInv, NEW n \in 1 .. 2, captures' = captures, NEW i, NEW a,
         index' = i, told' = a, Served(i, a, captures[n])
  PROVE  IndexInv'
<1>1. captures \in IndexedCaptures
  BY DEF IndexInv, IndexServes
<1>2. IndexServes(captures, i, a)
  BY <1>1 DEF IndexServes
<1>3. QED BY <1>2 DEF IndexInv

\* A call that leaves the index alone, and answers truly.
LEMMA CallAnswered ==
  ASSUME IndexInv, captures' = captures, index' = index, NEW a, told' = a,
         \A chunks \in Contents : Reached(index, chunks) => Answered(a, chunks)
  PROVE  IndexInv'
<1>1. captures \in IndexedCaptures
  BY DEF IndexInv, IndexServes
<1>2. CASE index = NewIndex
  BY <1>1, <1>2 DEF IndexInv, IndexServes
<1>3. CASE index # NewIndex
  <2>1. PICK n \in 1 .. 2 : index.bound = <<captures[n]>> /\ Reached(index, captures[n])
    BY <1>3 DEF IndexInv, IndexServes, Served
  <2>2. PICK chunks \in Contents : chunks = captures[n]
    BY <1>1, CapturesAreContents
  <2>3. Served(index, a, captures[n])
    BY <2>1, <2>2 DEF Served
  <2>4. QED BY <2>3, CallServed
<1>4. QED BY <1>2, <1>3

LEMMA IndexRefuses ==
  ASSUME IndexInv, NEW capture, Refuse(capture)
  PROVE  IndexInv'
<1>1. PICK a : a = Say("mismatch", 0, 0)
  OBVIOUS
<1>2. a.kind = "mismatch"
  BY <1>1 DEF Say
<1>3. \A chunks \in Contents : Answered(a, chunks)
  BY <1>2 DEF Answered, TrueAnswer
<1>4. captures' = captures /\ index' = index /\ told' = a
  BY <1>1 DEF Refuse
<1>5. QED BY <1>3, <1>4, CallAnswered

LEMMA IndexJumps ==
  ASSUME IndexInv, NEW line \in 1 .. MaxScreen, JumpToLine(line)
  PROVE  IndexInv'
<1>1. PICK a : a = Jump(index, line)
  OBVIOUS
<1>2. line \in Nat \ {0}
  BY IndexAssumption
<1>3. \A chunks \in Contents : Reached(index, chunks) => Answered(a, chunks)
  BY <1>1, <1>2, JumpStands
<1>4. captures' = captures /\ index' = index /\ told' = a
  BY <1>1 DEF JumpToLine
<1>5. QED BY <1>3, <1>4, CallAnswered

LEMMA IndexSteps ==
  ASSUME IndexInv, NEW n \in 1 .. 2, NEW budget \in 0 .. MaxScreen,
         StepIndex(captures[n], budget)
  PROVE  IndexInv'
<1>1. PICK chunks : chunks = captures[n]
  OBVIOUS
<1>2. PICK b : b = Bound(index, <<chunks>>)
  OBVIOUS
<1>3. chunks \in Contents /\ Reached(b, chunks) /\ b.bound = <<chunks>>
  BY <1>1, <1>2, AcceptedReached DEF StepIndex
<1>4. PICK s : s = Stepped(b, chunks, budget)
  OBVIOUS
<1>5. Reached(s, chunks) /\ s.bound = <<chunks>>
  BY <1>3, <1>4, IndexAssumption, SteppedReached
<1>6. PICK a : a = Say("stepped", 0, 0)
  OBVIOUS
<1>7. a.kind = "stepped"
  BY <1>6 DEF Say
<1>8. Served(s, a, captures[n])
  BY <1>1, <1>5, <1>7 DEF Served, Answered, TrueAnswer
<1>9. captures' = captures /\ index' = s /\ told' = a
  BY <1>1, <1>2, <1>4, <1>6 DEF StepIndex
<1>10. QED BY <1>8, <1>9, CallServed

LEMMA IndexResumes ==
  ASSUME IndexInv, NEW n \in 1 .. 2, NEW line \in 1 .. MaxScreen,
         NEW budget \in 0 .. MaxScreen, ResumeUntilLine(captures[n], line, budget)
  PROVE  IndexInv'
<1>1. PICK chunks : chunks = captures[n]
  OBVIOUS
<1>2. PICK b : b = Bound(index, <<chunks>>)
  OBVIOUS
<1>3. chunks \in Contents /\ Reached(b, chunks) /\ b.bound = <<chunks>>
  BY <1>1, <1>2, AcceptedReached DEF ResumeUntilLine
<1>4. PICK s : s = SteppedUntil(b, chunks, line, budget)
  OBVIOUS
<1>5. line \in Nat \ {0} /\ line \in Nat /\ budget \in Nat
  BY IndexAssumption
<1>6. Reached(s, chunks) /\ s.bound = <<chunks>>
  BY <1>3, <1>4, <1>5, SteppedUntilReached
<1>7. PICK a : a = Resumed(s, line)
  OBVIOUS
<1>8. Served(s, a, captures[n])
  BY <1>1, <1>3, <1>5, <1>6, <1>7, ResumedStands DEF Served
<1>9. captures' = captures /\ index' = s /\ told' = a
  BY <1>1, <1>2, <1>4, <1>7 DEF ResumeUntilLine
<1>10. QED BY <1>8, <1>9, CallServed

LEMMA IndexScreens ==
  ASSUME IndexInv, NEW n \in 1 .. 2, NEW lines \in 1 .. MaxScreen,
         LocateFirstScreen(captures[n], lines)
  PROVE  IndexInv'
<1>1. PICK chunks : chunks = captures[n]
  OBVIOUS
<1>2. PICK b : b = Bound(index, <<chunks>>)
  OBVIOUS
<1>3. chunks \in Contents /\ Reached(b, chunks) /\ b.bound = <<chunks>>
  BY <1>1, <1>2, AcceptedReached DEF LocateFirstScreen
<1>4. Len(chunks) \in Nat /\ lines \in Nat \ {0}
  BY <1>3, IndexAssumption, JoinedAll
<1>5. PICK budget \in Nat : budget = Len(chunks) + 1 /\ budget > Len(chunks)
  BY <1>4
<1>6. PICK line \in Nat : line = lines + 1
  BY <1>4
<1>7. PICK s : s = SteppedUntil(b, chunks, line, budget)
  OBVIOUS
<1>8. Reached(s, chunks) /\ s.bound = <<chunks>> /\ (s.complete \/ Line(s) >= line)
  BY <1>3, <1>5, <1>7, SteppedUntilReached
<1>9. PICK a : a = Screen(s, lines)
  OBVIOUS
<1>10. Served(s, a, captures[n])
  BY <1>1, <1>3, <1>4, <1>6, <1>8, <1>9, ScreenStands DEF Served
<1>11. captures' = captures /\ index' = s /\ told' = a
  BY <1>1, <1>2, <1>5, <1>6, <1>7, <1>9 DEF LocateFirstScreen
<1>12. QED BY <1>10, <1>11, CallServed

\* As many steps as there are chunks find the end.
LEMMA IndexFinishes ==
  ASSUME IndexInv, NEW n \in 1 .. 2, NEW at \in 0 .. MaxScreen,
         FinishIndex(captures[n], at)
  PROVE  IndexInv'
<1>1. PICK chunks : chunks = captures[n]
  OBVIOUS
<1>2. PICK b : b = Bound(index, <<chunks>>)
  OBVIOUS
<1>3. chunks \in Contents /\ Reached(b, chunks) /\ b.bound = <<chunks>>
  BY <1>1, <1>2, AcceptedReached DEF FinishIndex
<1>4. PICK N \in Nat : N = Len(chunks)
  BY <1>3, JoinedAll
<1>5. PICK s : s = Stepped(b, chunks, N)
  OBVIOUS
<1>6. /\ Reached(s, chunks) /\ s.bound = <<chunks>>
      /\ s.complete <=> s.chunks = N
      /\ s.complete \/ s.chunks >= b.chunks + N
  BY <1>3, <1>4, <1>5, SteppedReached
<1>7. s.complete
  <2>1. b.chunks \in 0 .. N /\ s.chunks \in 0 .. N
    BY <1>3, <1>4, <1>6 DEF Reached
  <2>2. s.chunks >= b.chunks + N => s.chunks = N
    BY <2>1
  <2>3. QED BY <1>6, <2>2
<1>8. PICK a : a = ByteToLine(s, at)
  OBVIOUS
<1>9. Served(s, a, captures[n])
  BY <1>1, <1>3, <1>6, <1>7, <1>8, IndexAssumption, ByteStands DEF Served
<1>10. captures' = captures /\ index' = s /\ told' = a
  BY <1>1, <1>2, <1>4, <1>5, <1>8 DEF FinishIndex
<1>11. QED BY <1>9, <1>10, CallServed

LEMMA IndexGoesOn == ASSUME IndexInv, [IndexNext]_indexVars PROVE IndexInv'
<1>1. CASE UNCHANGED indexVars
  BY <1>1 DEF indexVars, IndexInv
<1>2. CASE IndexNext
  BY <1>2, IndexJumps, IndexRefuses, IndexSteps, IndexResumes, IndexScreens, IndexFinishes
     DEF IndexNext
<1>3. QED BY <1>1, <1>2

LEMMA ServedStands == ASSUME IndexInv PROVE PublishedLinesStand
<1>1. CASE index = NewIndex
  BY <1>1 DEF PublishedLinesStand, NewIndex
<1>2. CASE index # NewIndex
  <2>1. PICK n \in 1 .. 2 : Served(index, told, captures[n])
    BY <1>2 DEF IndexInv, IndexServes
  <2>2. PICK chunks \in Contents : chunks = captures[n]
    BY CapturesAreContents DEF IndexInv, IndexServes
  <2>3. index.bound = <<chunks>> /\ Reached(index, chunks) /\ Answered(told, chunks)
    BY <2>1, <2>2 DEF Served
  <2>4. PICK bytes : bytes = Joined(chunks)
    OBVIOUS
  <2>5. PICK starts : starts = TrueStarts(bytes)
    OBVIOUS
  <2>6. AnswerIsTrue(bytes, starts)
    BY <2>3, <2>4, <2>5 DEF Answered, TrueAnswer, AnswerIsTrue
  <2>7. /\ DOMAIN index.starts = {k \in DOMAIN starts : starts[k] < index.offset}
        /\ \A m \in DOMAIN index.starts : index.starts[m] = starts[m]
        /\ index.complete => index.offset = Len(bytes)
    BY <2>3, <2>4, <2>5, ScannerKnows
  <2>8. Marked(index)
    BY <2>3 DEF Reached, Scanned
  <2>9. Knows(bytes, starts)
    BY <2>6, <2>7, <2>8 DEF Knows, Marked, MarkedLines
  <2>10. index.bound # <<>> /\ index.bound[1] = chunks
    BY <2>3
  <2>11. QED BY <2>4, <2>5, <2>9, <2>10 DEF PublishedLinesStand, Agrees
<1>3. QED BY <1>1, <1>2

\* Of every capture, however it is cut into chunks and in whatever order the
\* calls come: the starts published are those of the lines begun by the bytes
\* that were scanned, and each answer given before the end (a line resolved or
\* absent, the end of the first screen, the line of a byte) is the one the
\* whole capture gives.
THEOREM PublishedLinesAlwaysStand == LineIndexSpec => []PublishedLinesStand
<1>1. IndexInv => PublishedLinesStand
  BY ServedStands
<1>2. QED BY <1>1, IndexInitially, IndexGoesOn, PTL DEF LineIndexSpec
===============================================================================
