------------------------------ MODULE HostProofs -----------------------------
(***************************************************************************)
(* What is proved of the components of the host and of the interface, for  *)
(* every value of the constants. They share no state, so each section      *)
(* below stands alone; the first holds what several of them need of        *)
(* sequences and numbers.                                                  *)
(***************************************************************************)
EXTENDS FramePacing, GlyphAtlas, UiSearch, MapNavigation, ReadingDesk,
        HandleTables, TLAPS, FiniteSetTheorems, SequenceTheorems, WellFoundedInduction

-----------------------------------------------------------------------------
(***************************************************************************)
(* The places of a sequence that hold something, counted, a sequence that  *)
(* loses an element, and the least of some numbers.                        *)
(***************************************************************************)

PlacesOf(s, T) == {i \in DOMAIN s : s[i] \in T}

LEMMA PlacesAreFinite ==
  ASSUME NEW S, NEW s \in Seq(S), NEW T
  PROVE  /\ PlacesOf(s, T) \subseteq 1 .. Len(s) /\ IsFiniteSet(PlacesOf(s, T))
         /\ Cardinality(PlacesOf(s, T)) \in Nat /\ Len(s) \in Nat
<1>1. Len(s) \in Nat /\ DOMAIN s = 1 .. Len(s)
  BY LenProperties
<1>2. PlacesOf(s, T) \subseteq 1 .. Len(s)
  BY <1>1 DEF PlacesOf
<1>3. IsFiniteSet(1 .. Len(s))
  BY <1>1, FS_Interval
<1>4. QED BY <1>1, <1>2, <1>3, FS_Subset, FS_CardinalityType

LEMMA PlacesAppend ==
  ASSUME NEW S, NEW s \in Seq(S), NEW f \in S, NEW T
  PROVE  /\ Append(s, f) \in Seq(S)
         /\ Cardinality(PlacesOf(Append(s, f), T))
              = Cardinality(PlacesOf(s, T)) + (IF f \in T THEN 1 ELSE 0)
<1>1. /\ Append(s, f) \in Seq(S) /\ Len(Append(s, f)) = Len(s) + 1
      /\ \A i \in 1 .. Len(s) : Append(s, f)[i] = s[i]
      /\ Append(s, f)[Len(s) + 1] = f
  BY AppendProperties
<1>2. PICK n \in Nat : n = Len(s)
  BY LenProperties
<1>3. DOMAIN s = 1 .. n /\ DOMAIN Append(s, f) = 1 .. (n + 1)
  BY <1>1, <1>2, LenProperties
<1>4. CASE f \in T
  <2>1. PlacesOf(Append(s, f), T) = PlacesOf(s, T) \cup {n + 1} /\ n + 1 \notin PlacesOf(s, T)
    BY <1>1, <1>2, <1>3, <1>4 DEF PlacesOf
  <2>2. QED BY <1>1, <1>4, <2>1, PlacesAreFinite, FS_AddElement
<1>5. CASE f \notin T
  <2>1. PlacesOf(Append(s, f), T) = PlacesOf(s, T)
    BY <1>1, <1>2, <1>3, <1>5 DEF PlacesOf
  <2>2. QED BY <1>1, <1>5, <2>1, PlacesAreFinite
<1>6. QED BY <1>4, <1>5

\* The frames after the one taken out move up by one place.
LEMMA Removed ==
  ASSUME NEW S, NEW s \in Seq(S), NEW k \in 1 .. Len(s)
  PROVE  /\ RemoveAt(s, k) \in Seq(S)
         /\ Len(RemoveAt(s, k)) = Len(s) - 1
         /\ \A i \in 1 .. (Len(s) - 1) :
              RemoveAt(s, k)[i] = IF i < k THEN s[i] ELSE s[i + 1]
<1>1. PICK n \in Nat : n = Len(s)
  BY LenProperties
<1>2. PICK a : a = k - 1
  OBVIOUS
<1>3. PICK b : b = k + 1
  OBVIOUS
<1>4. k \in 1 .. n /\ a \in Int /\ b \in Int /\ n \in Int
  BY <1>1, <1>2, <1>3
<1>5. /\ SubSeq(s, 1, a) \in Seq(S)
      /\ Len(SubSeq(s, 1, a)) = IF 1 <= a THEN a - 1 + 1 ELSE 0
      /\ \A i \in 1 .. a - 1 + 1 : SubSeq(s, 1, a)[i] = s[1 + i - 1]
  <2>1. \A i \in 1 .. a : s[i] \in S
    BY <1>1, <1>2, <1>4, ElementOfSeq
  <2>2. QED BY <1>4, <2>1, SubSeqProperties
<1>6. /\ SubSeq(s, b, n) \in Seq(S)
      /\ Len(SubSeq(s, b, n)) = IF b <= n THEN n - b + 1 ELSE 0
      /\ \A i \in 1 .. n - b + 1 : SubSeq(s, b, n)[i] = s[b + i - 1]
  <2>1. \A i \in b .. n : s[i] \in S
    BY <1>1, <1>3, <1>4, ElementOfSeq
  <2>2. QED BY <1>4, <2>1, SubSeqProperties
<1>7. PICK p \in Seq(S), q \in Seq(S) : p = SubSeq(s, 1, a) /\ q = SubSeq(s, b, n)
  BY <1>5, <1>6
<1>8. Len(p) = a /\ Len(q) = n - k
  BY <1>2, <1>3, <1>4, <1>5, <1>6, <1>7
<1>9. /\ RemoveAt(s, k) \in Seq(S)
      /\ Len(RemoveAt(s, k)) = Len(p) + Len(q)
      /\ \A i \in 1 .. Len(p) + Len(q) :
           RemoveAt(s, k)[i] = IF i <= Len(p) THEN p[i] ELSE q[i - Len(p)]
  <2>1. RemoveAt(s, k) = p \o q
    BY <1>1, <1>2, <1>3, <1>7 DEF RemoveAt
  <2>2. QED BY <2>1, ConcatProperties, ZenonT(40)
<1>10. ASSUME NEW i \in 1 .. (n - 1)
       PROVE  RemoveAt(s, k)[i] = IF i < k THEN s[i] ELSE s[i + 1]
  <2>1. RemoveAt(s, k)[i] = IF i <= a THEN p[i] ELSE q[i - a]
    <3>1. i \in 1 .. Len(p) + Len(q)
      BY <1>2, <1>4, <1>8
    <3>2. QED BY <1>8, <1>9, <3>1
  <2>2. CASE i < k
    <3>1. i <= a /\ i \in 1 .. a - 1 + 1 /\ 1 + i - 1 = i
      BY <1>2, <1>4, <2>2
    <3>2. QED BY <1>5, <1>7, <2>1, <2>2, <3>1
  <2>3. CASE ~(i < k)
    <3>1. ~(i <= a) /\ (i - a) \in 1 .. n - b + 1 /\ b + (i - a) - 1 = i + 1
      BY <1>2, <1>3, <1>4, <2>3
    <3>2. q[i - a] = s[i + 1]
      BY <1>6, <1>7, <3>1
    <3>3. QED BY <2>1, <2>3, <3>1, <3>2
  <2>4. QED BY <2>2, <2>3
<1>11. QED BY <1>1, <1>4, <1>2, <1>8, <1>9, <1>10

LEMMA PlacesRemoved ==
  ASSUME NEW S, NEW s \in Seq(S), NEW k \in 1 .. Len(s), NEW T
  PROVE  Cardinality(PlacesOf(RemoveAt(s, k), T))
           = Cardinality(PlacesOf(s, T)) - (IF s[k] \in T THEN 1 ELSE 0)
<1> DEFINE t == RemoveAt(s, k)
           rest == PlacesOf(s, T) \ {k}
           up == [i \in PlacesOf(t, T) |-> IF i < k THEN i ELSE i + 1]
<1>1. PICK n \in Nat : n = Len(s)
  BY LenProperties
<1>2. t \in Seq(S) /\ Len(t) = n - 1 /\ n >= 1 /\ k \in 1 .. n
  BY <1>1, Removed
<1>3. DOMAIN s = 1 .. n /\ DOMAIN t = 1 .. (n - 1)
  BY <1>1, <1>2, LenProperties
<1>4. \A i \in 1 .. (n - 1) : t[i] = IF i < k THEN s[i] ELSE s[i + 1]
  BY <1>1, Removed
<1> HIDE DEF t
<1>5. up \in [PlacesOf(t, T) -> rest]
  BY <1>2, <1>3, <1>4 DEF PlacesOf
<1>6. \A i, j \in PlacesOf(t, T) : up[i] = up[j] => i = j
  BY <1>2, <1>3 DEF PlacesOf
<1>7. \A j \in rest : \E i \in PlacesOf(t, T) : up[i] = j
  <2>1. ASSUME NEW j \in rest PROVE \E i \in PlacesOf(t, T) : up[i] = j
    <3>1. j \in 1 .. n /\ j # k /\ s[j] \in T
      BY <1>3 DEF PlacesOf
    <3>2. CASE j < k
      <4>1. j \in PlacesOf(t, T)
        BY <1>2, <1>3, <1>4, <3>1, <3>2 DEF PlacesOf
      <4>2. QED BY <3>2, <4>1
    <3>3. CASE j > k
      <4>1. PICK i \in 1 .. (n - 1) : i + 1 = j
        BY <1>2, <3>1, <3>3
      <4>2. ~(i < k) /\ t[i] = s[j]
        BY <1>2, <1>4, <3>3, <4>1
      <4>3. i \in PlacesOf(t, T)
        BY <1>3, <3>1, <4>2 DEF PlacesOf
      <4>4. QED BY <4>1, <4>2, <4>3
    <3>4. QED BY <1>2, <3>1, <3>2, <3>3
  <2>2. QED BY <2>1
<1>8. ExistsBijection(PlacesOf(t, T), rest)
  <2> HIDE DEF up, rest
  <2>1. up \in Bijection(PlacesOf(t, T), rest)
    BY <1>5, <1>6, <1>7 DEF Bijection, Injection, Surjection, IsInjective
  <2>2. QED BY <2>1 DEF ExistsBijection
<1>9. Cardinality(rest) = Cardinality(PlacesOf(t, T))
  BY <1>2, <1>8, PlacesAreFinite, FS_Bijection
<1>10. CASE s[k] \in T
  <2>1. k \in PlacesOf(s, T)
    BY <1>2, <1>3, <1>10 DEF PlacesOf
  <2>2. Cardinality(rest) = Cardinality(PlacesOf(s, T)) - 1
    BY <2>1, PlacesAreFinite, FS_RemoveElement
  <2>3. QED BY <1>9, <1>10, <2>2 DEF t
<1>11. CASE s[k] \notin T
  <2>1. rest = PlacesOf(s, T)
    BY <1>11 DEF PlacesOf
  <2>2. Cardinality(PlacesOf(s, T)) \in Nat
    BY PlacesAreFinite
  <2>3. Cardinality(PlacesOf(t, T)) = Cardinality(PlacesOf(s, T))
    BY <1>9, <2>1
  <2> HIDE DEF rest, up
  <2>4. QED BY <1>11, <2>2, <2>3 DEF t
<1>12. QED BY <1>10, <1>11

\* Of some numbers one is the least.
LEMMA LeastNumber ==
  ASSUME NEW S \in SUBSET Nat, S # {}
  PROVE  \E m \in S : \A n \in S : m <= n
<1> DEFINE less == {ss \in Nat \X Nat : ss[1] < ss[2]}
<1>1. IsWellFoundedOn(less, Nat)
  BY NatLessThanWellFounded, Zenon DEF OpToRel
<1>2. PICK m \in S : \A n \in S : <<n, m>> \notin less
  <2> HIDE DEF less
  <2>1. QED BY <1>1, WFMin
<1>3. ASSUME NEW n \in S, ~(m <= n) PROVE FALSE
  <2>1. <<n, m>> \in less
    BY <1>3
  <2>2. QED BY <1>2, <2>1
<1>4. QED BY <1>2, <1>3

-----------------------------------------------------------------------------
(***************************************************************************)
(* Frame pacing. The frames of an engine are counted by the cardinality of *)
(* their places in the queue; a generation of the binding that is still to *)
(* come has no leases.                                                     *)
(***************************************************************************)

Frame == [engine : 1 .. MaxEngines, reason : Reasons \cup {NoReason}, behind : {TRUE, FALSE}]

EngineRecord ==
  [id : 1 .. MaxEngines, owner : Nat, needsRender : {TRUE, FALSE},
   paused : {TRUE, FALSE}, invalidated : {TRUE, FALSE}]

BindingRecord ==
  [attached : {TRUE, FALSE}, generation : 1 .. MaxBindings, ownerLive : {TRUE, FALSE},
   leases : Nat]

PacingTypes ==
  /\ pending \in Reasons \cup {NoReason}
  /\ engine \in EngineRecord
  /\ inFlight \in [1 .. MaxEngines -> Nat]
  /\ frames \in Seq(Frame)
  /\ binding \in BindingRecord /\ hostOwner \in Nat
  /\ targets \in [1 .. MaxBindings -> Nat]

\* A generation that is still to come has no leases, nor has one that begins
\* without a view.
FreshGenerationsAreUnused ==
  /\ \A g \in 1 .. MaxBindings : g > binding.generation => targets[g] = 0
  /\ ~binding.attached => targets[binding.generation] = 0

PacingInv ==
  /\ PacingTypes
  /\ FramesAreCounted /\ PendingIsArmed /\ TargetsAreCounted
  /\ FreshGenerationsAreUnused

-----------------------------------------------------------------------------
(* The frames of an engine, counted.                                       *)

Of(s, e) == {i \in DOMAIN s : s[i].engine = e}

FramesOf(e) == {f \in Frame : f.engine = e}

LEMMA OfIsPlaces ==
  ASSUME NEW s \in Seq(Frame), NEW e
  PROVE  Of(s, e) = PlacesOf(s, FramesOf(e))
<1>1. \A i \in DOMAIN s : s[i] \in Frame
  BY LenProperties, ElementOfSeq
<1>2. QED BY <1>1 DEF Of, PlacesOf, FramesOf

LEMMA OfIsFinite ==
  ASSUME NEW s \in Seq(Frame), NEW e
  PROVE  /\ Of(s, e) \subseteq 1 .. Len(s) /\ IsFiniteSet(Of(s, e))
         /\ Cardinality(Of(s, e)) \in Nat /\ Len(s) \in Nat
BY OfIsPlaces, PlacesAreFinite

LEMMA OfAppend ==
  ASSUME NEW s \in Seq(Frame), NEW f \in Frame, NEW e
  PROVE  /\ Append(s, f) \in Seq(Frame)
         /\ Cardinality(Of(Append(s, f), e))
              = Cardinality(Of(s, e)) + (IF f.engine = e THEN 1 ELSE 0)
<1>1. f \in FramesOf(e) <=> f.engine = e
  BY DEF FramesOf
<1>2. /\ Append(s, f) \in Seq(Frame)
      /\ Cardinality(PlacesOf(Append(s, f), FramesOf(e)))
           = Cardinality(PlacesOf(s, FramesOf(e))) + (IF f \in FramesOf(e) THEN 1 ELSE 0)
  BY PlacesAppend
<1>3. QED BY <1>1, <1>2, OfIsPlaces

LEMMA OfRemoved ==
  ASSUME NEW s \in Seq(Frame), NEW k \in 1 .. Len(s), NEW e
  PROVE  Cardinality(Of(RemoveAt(s, k), e))
           = Cardinality(Of(s, e)) - (IF s[k].engine = e THEN 1 ELSE 0)
<1>1. s[k] \in FramesOf(e) <=> s[k].engine = e
  BY ElementOfSeq DEF FramesOf
<1>2. RemoveAt(s, k) \in Seq(Frame)
  BY Removed
<1>3. Cardinality(PlacesOf(RemoveAt(s, k), FramesOf(e)))
        = Cardinality(PlacesOf(s, FramesOf(e))) - (IF s[k] \in FramesOf(e) THEN 1 ELSE 0)
  BY PlacesRemoved
<1>4. QED BY <1>1, <1>2, <1>3, OfIsPlaces

LEMMA EngineRecords ==
  ASSUME NEW e \in EngineRecord, NEW o \in Nat, NEW r \in {TRUE, FALSE}
  PROVE  /\ [e EXCEPT !.needsRender = r] \in EngineRecord
         /\ [e EXCEPT !.paused = TRUE] \in EngineRecord
         /\ [e EXCEPT !.invalidated = TRUE] \in EngineRecord
         /\ [e EXCEPT !.owner = o] \in EngineRecord
         /\ Resumed(e) \in EngineRecord /\ Arms(e) \in EngineRecord
BY DEF EngineRecord, Resumed, Arms

LEMMA KeepsArmed ==
  ASSUME NEW e \in EngineRecord, NEW o \in Nat
  PROVE  /\ e.needsRender => [e EXCEPT !.paused = TRUE].needsRender
         /\ e.needsRender => [e EXCEPT !.invalidated = TRUE].needsRender
         /\ e.needsRender => [e EXCEPT !.owner = o].needsRender
         /\ e.needsRender => Resumed(e).needsRender
         /\ Arms(e).needsRender
BY DEF EngineRecord, Resumed, Arms

\* What concerns only the requests and the engine leaves the counts alone.
LEMMA EngineSteps ==
  ASSUME PacingInv, pending' \in Reasons \cup {NoReason}, engine' \in EngineRecord,
         PendingIsArmed',
         UNCHANGED <<inFlight, frames, binding, hostOwner, targets>>
  PROVE  PacingInv'
BY DEF PacingInv, PacingTypes, FramesAreCounted, TargetsAreCounted,
       FreshGenerationsAreUnused

\* What concerns only the binding leaves the requests and the frames alone.
LEMMA BindingSteps ==
  ASSUME PacingInv, binding' \in BindingRecord, hostOwner' \in Nat,
         targets' \in [1 .. MaxBindings -> Nat],
         TargetsAreCounted', FreshGenerationsAreUnused',
         UNCHANGED <<pending, engine, inFlight, frames>>
  PROVE  PacingInv'
BY DEF PacingInv, PacingTypes, FramesAreCounted, PendingIsArmed

-----------------------------------------------------------------------------
LEMMA PacingStarts == PacingInit => PacingInv
<1> SUFFICES ASSUME PacingInit PROVE PacingInv
  OBVIOUS
<1>1. 1 \in 1 .. MaxEngines /\ 1 \in 1 .. MaxBindings /\ MaxInFlight \in Nat
  BY PacingAssumption
<1>2. engine \in EngineRecord
  BY <1>1 DEF PacingInit, EngineRecord
<1>3. binding \in BindingRecord
  BY <1>1 DEF PacingInit, BindingRecord
<1>4. frames \in Seq(Frame)
  BY DEF PacingInit
<1>5. PacingTypes
  BY <1>2, <1>3, <1>4 DEF PacingInit, PacingTypes
<1>6. FramesAreCounted
  <2>1. \A e : {i \in DOMAIN frames : frames[i].engine = e} = {}
    BY DEF PacingInit
  <2>2. QED BY <1>1, <2>1, FS_EmptySet DEF PacingInit, FramesAreCounted
<1>7. PendingIsArmed /\ TargetsAreCounted /\ FreshGenerationsAreUnused
  BY <1>1 DEF PacingInit, PendingIsArmed, TargetsAreCounted, FreshGenerationsAreUnused
<1>8. QED BY <1>5, <1>6, <1>7 DEF PacingInv

LEMMA RequestSteps ==
  ASSUME PacingInv, NEW reason \in Reasons, RequestFrame(reason)
  PROVE  PacingInv'
<1>1. engine' \in EngineRecord /\ engine'.needsRender
  BY EngineRecords, KeepsArmed, 0 \in Nat DEF RequestFrame, PacingInv, PacingTypes
<1>2. QED BY <1>1, EngineSteps DEF RequestFrame, PendingIsArmed

LEMMA VisibilitySteps ==
  ASSUME PacingInv, SetVisibility \/ PauseOrResume \/ UpdateOwner \/ Invalidate
  PROVE  PacingInv'
<1>1. engine \in EngineRecord /\ hostOwner \in Nat
  BY DEF PacingInv, PacingTypes
<1>2. \/ engine' = [engine EXCEPT !.paused = TRUE] \/ engine' = Resumed(engine)
      \/ engine' = [engine EXCEPT !.owner = hostOwner]
      \/ engine' = [engine EXCEPT !.invalidated = TRUE]
  BY DEF SetVisibility, PauseOrResume, UpdateOwner, Invalidate
<1>3. engine' \in EngineRecord
  BY <1>1, <1>2, EngineRecords
<1>4. engine.needsRender => engine'.needsRender
  BY <1>1, <1>2, KeepsArmed
<1>5. UNCHANGED <<pending, inFlight, frames, binding, hostOwner, targets>>
  BY DEF SetVisibility, PauseOrResume, UpdateOwner, Invalidate
<1>6. PendingIsArmed'
  BY <1>4, <1>5 DEF PacingInv, PendingIsArmed
<1>7. QED BY <1>3, <1>5, <1>6, EngineSteps DEF PacingInv, PacingTypes

LEMMA BindEngineSteps ==
  ASSUME PacingInv, BindEngine
  PROVE  PacingInv'
<1>1. engine \in EngineRecord /\ hostOwner \in Nat /\ MaxEngines \in Nat
  BY PacingAssumption DEF PacingInv, PacingTypes
<1>2. engine.id + 1 \in 1 .. MaxEngines
  BY <1>1 DEF BindEngine, EngineRecord
<1>3. engine' \in EngineRecord /\ engine'.needsRender
  BY <1>1, <1>2 DEF BindEngine, NewEngine, EngineRecord
<1>4. QED BY <1>3, EngineSteps DEF BindEngine, PendingIsArmed, PacingInv, PacingTypes

LEMMA CameraSteps ==
  ASSUME PacingInv, UpdateCamera
  PROVE  PacingInv'
<1>1. PICK n \in Nat : n = Len(frames)
  BY LenProperties DEF PacingInv, PacingTypes
<1>2. DOMAIN frames = 1 .. n /\ frames \in Seq(Frame)
  BY <1>1, LenProperties DEF PacingInv, PacingTypes
<1>3. \A i \in 1 .. n : frames[i] \in Frame
  BY <1>1, <1>2, ElementOfSeq
<1>4. \A f \in Frame : [f EXCEPT !.behind = TRUE] \in Frame
                       /\ [f EXCEPT !.behind = TRUE].engine = f.engine
  BY DEF Frame
<1>5. DOMAIN frames' = 1 .. n /\ frames' = [i \in 1 .. n |-> [frames[i] EXCEPT !.behind = TRUE]]
  BY <1>2 DEF UpdateCamera
<1>6. frames' \in Seq(Frame)
  BY <1>3, <1>4, <1>5, SeqDef
<1>7. \A e : Of(frames', e) = Of(frames, e)
  BY <1>2, <1>3, <1>4, <1>5 DEF Of
<1>8. engine' \in EngineRecord /\ engine'.needsRender
  BY EngineRecords, KeepsArmed, 0 \in Nat DEF UpdateCamera, PacingInv, PacingTypes
<1>9. FramesAreCounted'
  BY <1>7 DEF UpdateCamera, PacingInv, FramesAreCounted, Of
<1>10. QED
  BY <1>6, <1>8, <1>9 DEF UpdateCamera, PacingInv, PacingTypes, PendingIsArmed,
     TargetsAreCounted, FreshGenerationsAreUnused, Reasons, Coalescable

LEMMA StartSteps ==
  ASSUME PacingInv, StartFrame
  PROVE  PacingInv'
<1> DEFINE f == [engine |-> engine.id, reason |-> pending, behind |-> FALSE]
<1>1. engine \in EngineRecord /\ frames \in Seq(Frame)
      /\ inFlight \in [1 .. MaxEngines -> Nat] /\ pending \in Reasons \cup {NoReason}
      /\ MaxInFlight \in Nat
  BY PacingAssumption DEF PacingInv, PacingTypes
<1>2. engine.id \in 1 .. MaxEngines
  BY <1>1 DEF EngineRecord
<1>3. f \in Frame /\ f.engine = engine.id
  BY <1>1, <1>2 DEF Frame
<1>4. frames' = Append(frames, f) /\ inFlight' = [inFlight EXCEPT ![engine.id] = @ + 1]
      /\ inFlight[engine.id] < MaxInFlight
  BY DEF StartFrame, Ready, Room
<1>5. engine' \in EngineRecord
  BY <1>1, EngineRecords, 0 \in Nat DEF StartFrame
<1> HIDE DEF f
<1>6. frames' \in Seq(Frame)
  BY <1>1, <1>3, <1>4, OfAppend
<1>7. ASSUME NEW e \in 1 .. MaxEngines
      PROVE  inFlight'[e] = Cardinality(Of(frames', e)) /\ inFlight'[e] <= MaxInFlight
  <2>1. inFlight[e] = Cardinality(Of(frames, e)) /\ inFlight[e] <= MaxInFlight
    BY DEF PacingInv, FramesAreCounted, Of
  <2>2. Cardinality(Of(frames', e))
          = Cardinality(Of(frames, e)) + (IF f.engine = e THEN 1 ELSE 0)
    BY <1>1, <1>3, <1>4, OfAppend
  <2>3. inFlight[e] \in Nat
    BY <1>1
  <2>4. QED BY <1>1, <1>2, <1>3, <1>4, <2>1, <2>2, <2>3
<1>8. FramesAreCounted'
  BY <1>7 DEF FramesAreCounted, Of
<1>9. inFlight' \in [1 .. MaxEngines -> Nat]
  BY <1>1, <1>2, <1>4
<1>10. QED
  BY <1>5, <1>6, <1>8, <1>9 DEF StartFrame, PacingInv, PacingTypes, PendingIsArmed,
     TargetsAreCounted, FreshGenerationsAreUnused

LEMMA EndSteps ==
  ASSUME PacingInv, NEW i \in DOMAIN frames, FrameEnds(i)
  PROVE  PacingInv'
<1> DEFINE x == frames[i].engine
<1>1. frames \in Seq(Frame) /\ inFlight \in [1 .. MaxEngines -> Nat] /\ MaxInFlight \in Nat
  BY PacingAssumption DEF PacingInv, PacingTypes
<1>2. i \in 1 .. Len(frames) /\ DOMAIN frames = 1 .. Len(frames)
  BY <1>1, LenProperties
<1>3. x \in 1 .. MaxEngines
  <2>1. frames[i] \in Frame
    BY <1>1, <1>2, ElementOfSeq
  <2>2. QED BY <2>1 DEF Frame
<1>4. \A e \in 1 .. MaxEngines : inFlight[e] = Cardinality(Of(frames, e))
                                 /\ inFlight[e] <= MaxInFlight
  BY DEF PacingInv, FramesAreCounted, Of
<1>5. inFlight[x] > 0
  <2>1. i \in Of(frames, x)
    BY DEF Of
  <2>2. Cardinality(Of(frames, x)) # 0
    BY <1>1, <2>1, OfIsFinite, FS_EmptySet
  <2>3. QED BY <1>1, <1>3, <1>4, <2>2
<1>6. inFlight' = [inFlight EXCEPT ![x] = @ - 1] /\ frames' = RemoveAt(frames, i)
  BY <1>3, <1>5 DEF FrameEnds, GivesBack
<1>7. ASSUME NEW e \in 1 .. MaxEngines
      PROVE  inFlight'[e] = Cardinality(Of(frames', e)) /\ inFlight'[e] <= MaxInFlight
  <2>1. Cardinality(Of(frames', e))
          = Cardinality(Of(frames, e)) - (IF x = e THEN 1 ELSE 0)
    BY <1>1, <1>2, <1>6, OfRemoved
  <2>2. inFlight[e] \in Nat
    BY <1>1
  <2> HIDE DEF x
  <2>3. QED BY <1>1, <1>3, <1>4, <1>5, <1>6, <2>1, <2>2
<1>8. FramesAreCounted'
  BY <1>7 DEF FramesAreCounted, Of
<1>9. frames' \in Seq(Frame)
  BY <1>1, <1>2, <1>6, Removed
<1>10. inFlight' \in [1 .. MaxEngines -> Nat]
  BY <1>1, <1>3, <1>5, <1>6
<1>11. QED
  BY <1>8, <1>9, <1>10 DEF FrameEnds, PacingInv, PacingTypes, PendingIsArmed,
     TargetsAreCounted, FreshGenerationsAreUnused

-----------------------------------------------------------------------------
(* The view binding: the leases counted are those of its generation.       *)

LEMMA LeaseTargetSteps ==
  ASSUME PacingInv, LeaseTarget
  PROVE  PacingInv'
<1>1. binding \in BindingRecord /\ hostOwner \in Nat
      /\ targets \in [1 .. MaxBindings -> Nat]
  BY DEF PacingInv, PacingTypes
<1>2. binding.generation \in 1 .. MaxBindings /\ binding.leases \in Nat /\ MaxBindings \in Nat
  BY <1>1, PacingAssumption DEF BindingRecord
<1>3. binding.attached
  BY DEF LeaseTarget, MayAcquire
<1>4. /\ binding' \in BindingRecord /\ binding'.leases = binding.leases + 1
      /\ binding'.generation = binding.generation /\ binding'.attached = binding.attached
  <2>1. PICK n \in Nat : n = binding.leases + 1
    BY <1>2
  <2>2. binding' = [binding EXCEPT !.leases = n]
    BY <2>1 DEF LeaseTarget
  <2>3. QED BY <1>1, <2>1, <2>2 DEF BindingRecord
<1>5. targets' = [targets EXCEPT ![binding.generation] = @ + 1]
  BY DEF LeaseTarget
<1>6. targets' \in [1 .. MaxBindings -> Nat]
  BY <1>1, <1>2, <1>5
<1>7. TargetsAreCounted'
  BY <1>1, <1>2, <1>3, <1>4, <1>5 DEF PacingInv, TargetsAreCounted
<1>8. FreshGenerationsAreUnused'
  BY <1>1, <1>2, <1>3, <1>4, <1>5 DEF PacingInv, FreshGenerationsAreUnused
<1>9. QED
  BY <1>1, <1>4, <1>6, <1>7, <1>8, BindingSteps DEF LeaseTarget

LEMMA ReleaseLeaseSteps ==
  ASSUME PacingInv, NEW g \in 1 .. MaxBindings, ReleaseLease(g)
  PROVE  PacingInv'
<1>1. binding \in BindingRecord /\ hostOwner \in Nat
      /\ targets \in [1 .. MaxBindings -> Nat] /\ targets[g] > 0
  BY DEF PacingInv, PacingTypes, ReleaseLease
<1>2. binding.generation \in 1 .. MaxBindings /\ binding.leases \in Nat /\ MaxBindings \in Nat
  BY <1>1, PacingAssumption DEF BindingRecord
<1>3. targets' = [targets EXCEPT ![g] = @ - 1]
  BY DEF ReleaseLease
<1>4. targets' \in [1 .. MaxBindings -> Nat]
  BY <1>1, <1>3
<1>5. FreshGenerationsAreUnused /\ TargetsAreCounted
  BY DEF PacingInv
<1>6. CASE g = binding.generation
  <2>1. binding.attached /\ binding.leases = targets[g]
    BY <1>1, <1>5, <1>6 DEF FreshGenerationsAreUnused, TargetsAreCounted
  <2>2. /\ binding' \in BindingRecord /\ binding'.leases = binding.leases - 1
        /\ binding'.generation = binding.generation /\ binding'.attached = binding.attached
    <3>1. PICK n \in Nat : n = binding.leases - 1
      BY <1>1, <1>2, <2>1
    <3>2. binding' = [binding EXCEPT !.leases = n]
      BY <1>1, <1>6, <2>1, <3>1 DEF ReleaseLease, Releases
    <3>3. QED BY <1>1, <3>1, <3>2 DEF BindingRecord
  <2>3. TargetsAreCounted'
    BY <1>1, <1>3, <1>6, <2>1, <2>2 DEF TargetsAreCounted
  <2>4. FreshGenerationsAreUnused'
    BY <1>1, <1>2, <1>3, <1>5, <1>6, <2>1, <2>2 DEF FreshGenerationsAreUnused
  <2>5. QED BY <1>1, <1>4, <2>2, <2>3, <2>4, BindingSteps DEF ReleaseLease
<1>7. CASE g # binding.generation
  <2>1. binding' = binding
    BY <1>7 DEF ReleaseLease, Releases
  <2>2. TargetsAreCounted'
    BY <1>1, <1>2, <1>3, <1>5, <1>7, <2>1 DEF TargetsAreCounted
  <2>3. FreshGenerationsAreUnused'
    BY <1>1, <1>2, <1>3, <1>5, <1>7, <2>1 DEF FreshGenerationsAreUnused
  <2>4. QED BY <1>1, <1>4, <2>1, <2>2, <2>3, BindingSteps DEF ReleaseLease
<1>8. QED BY <1>6, <1>7

LEMMA OwnerSteps ==
  ASSUME PacingInv, TakeOwner \/ ReturnOwner \/ Detach \/ Reattach
  PROVE  PacingInv'
<1>1. binding \in BindingRecord /\ hostOwner \in Nat
      /\ targets \in [1 .. MaxBindings -> Nat]
  BY DEF PacingInv, PacingTypes
<1>2. binding.generation \in 1 .. MaxBindings /\ binding.leases \in Nat /\ MaxBindings \in Nat
      /\ binding.generation \in Nat
  BY <1>1, PacingAssumption DEF BindingRecord
<1>3. FreshGenerationsAreUnused /\ TargetsAreCounted
  BY DEF PacingInv
<1>4. CASE TakeOwner \/ ReturnOwner
  <2>1. /\ binding' \in BindingRecord /\ binding'.leases = binding.leases
        /\ binding'.generation = binding.generation /\ binding'.attached = binding.attached
    BY <1>1, <1>4 DEF TakeOwner, ReturnOwner, BindingRecord
  <2>2. targets' = targets /\ hostOwner' \in Nat
    BY <1>2, <1>4 DEF TakeOwner, ReturnOwner
  <2>3. TargetsAreCounted' /\ FreshGenerationsAreUnused'
    BY <1>3, <2>1, <2>2 DEF TargetsAreCounted, FreshGenerationsAreUnused
  <2>4. UNCHANGED <<pending, engine, inFlight, frames>>
    BY <1>4 DEF TakeOwner, ReturnOwner
  <2>5. QED BY <1>1, <2>1, <2>2, <2>3, <2>4, BindingSteps
<1>5. CASE Detach \/ Reattach
  <2>1. binding.generation + 1 \in 1 .. MaxBindings
    BY <1>2, <1>5 DEF Detach, Reattach
  <2>2. /\ binding' \in BindingRecord /\ binding'.leases = 0
        /\ binding'.generation = binding.generation + 1
    <3>1. PICK n \in 1 .. MaxBindings : n = binding.generation + 1
      BY <2>1
    <3>2. PICK a \in {TRUE, FALSE} :
            binding' = [attached |-> a, generation |-> n, ownerLive |-> a, leases |-> 0]
      BY <1>5, <3>1 DEF Detach, Reattach
    <3>3. binding' \in BindingRecord
      BY <3>2, 0 \in Nat, Zenon DEF BindingRecord
    <3>4. QED BY <3>1, <3>2, <3>3
  <2>3. targets' = targets /\ hostOwner' \in Nat
    BY <1>1, <1>2, <1>5 DEF Detach, Reattach
  <2>4. targets[binding.generation + 1] = 0
    BY <1>2, <1>3, <2>1 DEF FreshGenerationsAreUnused
  <2>5. TargetsAreCounted' /\ FreshGenerationsAreUnused'
    BY <1>2, <1>3, <2>2, <2>3, <2>4 DEF TargetsAreCounted, FreshGenerationsAreUnused
  <2>6. UNCHANGED <<pending, engine, inFlight, frames>>
    BY <1>5 DEF Detach, Reattach
  <2>7. QED BY <1>1, <2>2, <2>3, <2>5, <2>6, BindingSteps
<1>6. QED BY <1>4, <1>5

-----------------------------------------------------------------------------
LEMMA PacingSteps == PacingInv /\ [PacingNext]_pacingVars => PacingInv'
<1> SUFFICES ASSUME PacingInv, [PacingNext]_pacingVars PROVE PacingInv'
  OBVIOUS
<1>1. CASE StartFrame
  BY <1>1, StartSteps
<1>2. CASE \E i \in DOMAIN frames : Present(i) \/ DropObsolete(i)
  BY <1>2, EndSteps DEF Present, DropObsolete
<1>3. CASE \E reason \in Reasons : RequestFrame(reason)
  BY <1>3, RequestSteps
<1>4. CASE UpdateCamera
  BY <1>4, CameraSteps
<1>5. CASE SetVisibility \/ PauseOrResume \/ UpdateOwner \/ Invalidate
  BY <1>5, VisibilitySteps
<1>6. CASE BindEngine
  BY <1>6, BindEngineSteps
<1>7. CASE LeaseTarget
  BY <1>7, LeaseTargetSteps
<1>8. CASE \E g \in 1 .. MaxBindings : ReleaseLease(g)
  BY <1>8, ReleaseLeaseSteps
<1>9. CASE TakeOwner \/ ReturnOwner \/ Detach \/ Reattach
  BY <1>9, OwnerSteps
<1>10. CASE UNCHANGED pacingVars
  BY <1>10 DEF pacingVars, PacingInv, PacingTypes, FramesAreCounted, PendingIsArmed,
     TargetsAreCounted, FreshGenerationsAreUnused
<1>11. QED
  BY <1>1, <1>2, <1>3, <1>4, <1>5, <1>6, <1>7, <1>8, <1>9, <1>10
  DEF PacingNext, FrameProgress

\* The in-flight count of every engine is the number of its frames that are
\* neither presented nor dropped and at most the configured bound, a pending
\* request has armed the engine, and the binding counts the leases of its own
\* generation (pacing.rs, scheduler.rs, view_binding.rs).
THEOREM PacingStaysCounted == PacingSpec => []PacingIsCounted
<1>1. PacingInv => PacingIsCounted
  BY DEF PacingInv, PacingIsCounted
<1>2. QED BY <1>1, PacingStarts, PacingSteps, PTL DEF PacingSpec

-----------------------------------------------------------------------------
(***************************************************************************)
(* The glyph atlas. A reference is never ahead of its slot, and names its  *)
(* glyph when it is not behind; pins are the places of a reference among   *)
(* the flights; a glyph stands on one of the shelves of its page, which    *)
(* lie below one another. Pages are found by number, so all this takes     *)
(* every raster to fit a page.                                             *)
(***************************************************************************)

Kinds == {Kind[k] : k \in Glyphs}
Slot == [corner : Nat \X Nat, width : Nat, height : Nat, generation : Nat, key : Glyphs,
         pins : Nat, used : Nat]
ShelfRecord == [y : Nat, height : Nat, x : Nat]
Page == [id : Nat, kind : Kinds, slots : Seq(Slot), shelves : Seq(ShelfRecord)]
Reference == [device : Nat, page : Nat, slot : Nat, generation : Nat, key : Glyphs]
Request == [key : Glyphs, priority : Priorities]

\* No raster is so large that the page is too small for it and its gutter.
GlyphsFit ==
  \A k \in Glyphs : Padded(Width[k]) <= PageSize /\ Padded(Height[k]) <= PageSize

AtlasTypeOK ==
  /\ device \in Nat /\ frame \in Nat /\ nextPage \in Nat
  /\ pages \in Seq(Page) /\ drawn \subseteq Reference /\ flights \in Seq(drawn)
  /\ index \subseteq Glyphs \X drawn

\* A page's number, less one, is its place.
PagesAreNumbered ==
  nextPage = Len(pages) + 1 /\ \A p \in DOMAIN pages : pages[p].id = p

\* A reference of this device names a slot that has its generation or a later one.
RefsAreBehind ==
  \A r \in drawn :
    /\ r.device <= device
    /\ r.device = device =>
         /\ r.page \in DOMAIN pages /\ r.slot \in DOMAIN pages[r.page].slots
         /\ r.generation <= pages[r.page].slots[r.slot].generation
         /\ r.generation = pages[r.page].slots[r.slot].generation =>
              r.key = pages[r.page].slots[r.slot].key

PinsAreCounted ==
  /\ \A r \in drawn : Validates(r) =>
       pages[r.page].slots[r.slot].pins = Cardinality(PlacesOf(flights, {r}))
  /\ \A i \in DOMAIN flights : flights[i].device = device => Validates(flights[i])

\* The shelves of a page lie below one another, and its glyphs stand on them.
IsStacked(shelves) ==
  \A i, j \in DOMAIN shelves : i < j => shelves[i].y + shelves[i].height <= shelves[j].y

StandsOn(s, shelf) ==
  /\ s.corner[2] = shelf.y + 1 /\ s.height + 2 <= shelf.height
  /\ s.corner[1] + s.width + 1 <= shelf.x

Apart(s, t) ==
  \/ s.corner[1] + s.width + 2 <= t.corner[1] \/ t.corner[1] + t.width + 2 <= s.corner[1]
  \/ s.corner[2] + s.height + 2 <= t.corner[2] \/ t.corner[2] + t.height + 2 <= s.corner[2]

IsPacked(slots, shelves) ==
  /\ IsStacked(shelves)
  /\ \A n \in DOMAIN slots : \E i \in DOMAIN shelves : StandsOn(slots[n], shelves[i])
  /\ \A m, n \in DOMAIN slots : m < n => Apart(slots[m], slots[n])

PagesArePacked == \A p \in DOMAIN pages : IsPacked(pages[p].slots, pages[p].shelves)

QueueInv ==
  /\ queue \in Seq(Request) /\ Len(queue) <= QueueCapacity
  /\ \A i, j \in DOMAIN queue : queue[i].key = queue[j].key => i = j

PlacesInv ==
  /\ AtlasTypeOK /\ PagesAreNumbered /\ RefsAreBehind /\ PinsAreCounted /\ PagesArePacked
  /\ IndexMatchesSlots

AtlasInv == PlacesInv /\ QueueInv

\* What was stale stays stale.
StaysStale == \A r \in drawn : ~Validates(r) => ~Validates(r)'

PlacesStep == PlacesInv' /\ StaysStale

-----------------------------------------------------------------------------
LEMMA AtlasConstants ==
  /\ PageSize \in Nat \ {0} /\ QueueCapacity \in Nat \ {0} /\ MinShelf \in Nat /\ Word \in Nat
  /\ Word > PageSize
  /\ \A k \in Glyphs : /\ Width[k] \in Nat \ {0} /\ Height[k] \in Nat \ {0}
                       /\ Padded(Width[k]) = Width[k] + 2 /\ Padded(Height[k]) = Height[k] + 2
BY AtlasAssumption DEF Padded

LEMMA EmptyPageHasRoom ==
  ASSUME GlyphsFit, NEW k \in Glyphs
  PROVE  HasRoom(<<>>, k) /\ ~WastedPage(k) /\ Shelf(<<>>, k) = {}
<1>1. Shelf(<<>>, k) = {}
  BY DEF Shelf
<1>2. PageSize % Word = PageSize
  BY AtlasConstants
<1>3. Below(<<>>) = PageSize
  BY <1>2, AtlasConstants DEF Below, Bottom
<1>4. HasRoom(<<>>, k)
  BY <1>3, AtlasConstants DEF HasRoom, GlyphsFit
<1>5. QED BY <1>1, <1>4 DEF WastedPage

LEMMA PageFacts ==
  ASSUME PlacesInv
  PROVE  /\ Len(pages) \in Nat /\ DOMAIN pages = 1 .. Len(pages)
         /\ \A p \in DOMAIN pages :
              /\ pages[p] \in Page /\ pages[p].id = p
              /\ pages[p].slots \in Seq(Slot) /\ Len(pages[p].slots) \in Nat
              /\ DOMAIN pages[p].slots = 1 .. Len(pages[p].slots)
              /\ \A n \in DOMAIN pages[p].slots : pages[p].slots[n] \in Slot
         /\ \A id : SlotsAt(id) = IF id \in DOMAIN pages THEN pages[id].slots ELSE <<>>
<1>1. pages \in Seq(Page) /\ Len(pages) \in Nat /\ DOMAIN pages = 1 .. Len(pages)
  BY LenProperties DEF PlacesInv, AtlasTypeOK
<1>2. ASSUME NEW p \in DOMAIN pages
      PROVE  /\ pages[p] \in Page /\ pages[p].id = p
             /\ pages[p].slots \in Seq(Slot) /\ Len(pages[p].slots) \in Nat
             /\ DOMAIN pages[p].slots = 1 .. Len(pages[p].slots)
             /\ \A n \in DOMAIN pages[p].slots : pages[p].slots[n] \in Slot
  <2>1. pages[p] \in Page
    BY <1>1, ElementOfSeq
  <2>2. pages[p].slots \in Seq(Slot)
    BY <2>1 DEF Page
  <2>3. /\ Len(pages[p].slots) \in Nat
        /\ DOMAIN pages[p].slots = 1 .. Len(pages[p].slots)
    BY <2>2, LenProperties
  <2>4. \A n \in DOMAIN pages[p].slots : pages[p].slots[n] \in Slot
    BY <2>2, <2>3, ElementOfSeq
  <2>5. QED BY <2>1, <2>2, <2>3, <2>4 DEF PlacesInv, PagesAreNumbered
<1>3. QED BY <1>1, <1>2 DEF SlotsAt

\* A reference validates while its slot has its generation.
LEMMA ValidatesIs ==
  ASSUME PlacesInv, NEW r \in drawn
  PROVE  /\ r \in Reference
         /\ Validates(r) <=> /\ r.device = device
                             /\ r.generation = pages[r.page].slots[r.slot].generation
         /\ Validates(r) => /\ r.page \in DOMAIN pages /\ r.slot \in DOMAIN pages[r.page].slots
                            /\ r.key = pages[r.page].slots[r.slot].key
<1>1. r \in Reference
  BY DEF PlacesInv, AtlasTypeOK
<1>2. ASSUME r.device = device
      PROVE  /\ r.page \in DOMAIN pages /\ r.slot \in DOMAIN pages[r.page].slots
             /\ r.generation = pages[r.page].slots[r.slot].generation =>
                  r.key = pages[r.page].slots[r.slot].key
  BY <1>2 DEF PlacesInv, RefsAreBehind
<1>3. Validates(r) => r.device = device
  BY DEF Validates
<1>4. ASSUME r.device = device
      PROVE  Validates(r) <=> r.generation = pages[r.page].slots[r.slot].generation
  BY <1>2, <1>4 DEF Validates, SlotsAt
<1>5. QED BY <1>1, <1>2, <1>3, <1>4

-----------------------------------------------------------------------------
(* One slot changes.                                                       *)

Replaced(p, n, t) == pages' = [pages EXCEPT ![p].slots[n] = t]

LEMMA SlotReplaced ==
  ASSUME PlacesInv, NEW p \in DOMAIN pages, NEW n \in DOMAIN pages[p].slots, NEW t \in Slot,
         Replaced(p, n, t)
  PROVE  /\ pages' \in Seq(Page) /\ Len(pages') = Len(pages) /\ DOMAIN pages' = DOMAIN pages
         /\ \A q \in DOMAIN pages :
              /\ pages'[q].id = pages[q].id /\ pages'[q].shelves = pages[q].shelves
              /\ DOMAIN pages'[q].slots = DOMAIN pages[q].slots
              /\ \A m \in DOMAIN pages[q].slots :
                   pages'[q].slots[m] = IF q = p /\ m = n THEN t ELSE pages[q].slots[m]
<1>1. /\ pages \in Seq(Page) /\ p \in 1 .. Len(pages) /\ pages[p] \in Page
      /\ pages[p].slots \in Seq(Slot) /\ n \in 1 .. Len(pages[p].slots)
      /\ DOMAIN pages = 1 .. Len(pages) /\ DOMAIN pages[p].slots = 1 .. Len(pages[p].slots)
  BY PageFacts DEF PlacesInv, AtlasTypeOK
<1>2. PICK ss : ss = [pages[p].slots EXCEPT ![n] = t]
  OBVIOUS
<1>3. /\ ss \in Seq(Slot) /\ Len(ss) = Len(pages[p].slots)
      /\ \A m \in 1 .. Len(pages[p].slots) : ss[m] = IF m = n THEN t ELSE pages[p].slots[m]
  BY <1>1, <1>2, ExceptSeq
<1>4. DOMAIN ss = DOMAIN pages[p].slots
  BY <1>1, <1>3, LenProperties
<1>5. PICK q : q = [pages[p] EXCEPT !.slots = ss]
  OBVIOUS
<1>6. /\ q \in Page /\ q.id = pages[p].id /\ q.shelves = pages[p].shelves /\ q.slots = ss
  BY <1>1, <1>3, <1>5 DEF Page
<1>7. pages' = [pages EXCEPT ![p] = q]
  BY <1>1, <1>2, <1>5 DEF Replaced
<1>8. /\ pages' \in Seq(Page) /\ Len(pages') = Len(pages)
      /\ \A i \in 1 .. Len(pages) : pages'[i] = IF i = p THEN q ELSE pages[i]
  BY <1>1, <1>6, <1>7, ExceptSeq
<1>9. DOMAIN pages' = DOMAIN pages
  BY <1>1, <1>8, LenProperties
<1>10. QED BY <1>1, <1>3, <1>4, <1>6, <1>8, <1>9

\* The new slot lies where the old one did.
LEMMA ReplacedStaysPacked ==
  ASSUME PlacesInv, NEW p \in DOMAIN pages, NEW n \in DOMAIN pages[p].slots, NEW t \in Slot,
         Replaced(p, n, t), t.corner = pages[p].slots[n].corner,
         t.width = pages[p].slots[n].width, t.height = pages[p].slots[n].height
  PROVE  PagesArePacked' /\ AllSlots' = AllSlots
<1>1. /\ DOMAIN pages' = DOMAIN pages
      /\ \A q \in DOMAIN pages :
           /\ pages'[q].shelves = pages[q].shelves
           /\ DOMAIN pages'[q].slots = DOMAIN pages[q].slots
           /\ \A m \in DOMAIN pages[q].slots :
                pages'[q].slots[m] = IF q = p /\ m = n THEN t ELSE pages[q].slots[m]
  BY SlotReplaced
<1>2. \A q \in DOMAIN pages : \A m \in DOMAIN pages[q].slots :
        /\ pages'[q].slots[m].corner = pages[q].slots[m].corner
        /\ pages'[q].slots[m].width = pages[q].slots[m].width
        /\ pages'[q].slots[m].height = pages[q].slots[m].height
  BY <1>1
<1>3. ASSUME NEW q \in DOMAIN pages
      PROVE  IsPacked(pages'[q].slots, pages'[q].shelves)
  <2>1. IsPacked(pages[q].slots, pages[q].shelves)
    BY DEF PlacesInv, PagesArePacked
  <2>2. \A m \in DOMAIN pages[q].slots : \E i \in DOMAIN pages[q].shelves :
          StandsOn(pages'[q].slots[m], pages[q].shelves[i])
    BY <1>2, <2>1 DEF IsPacked, StandsOn
  <2>3. \A l, m \in DOMAIN pages[q].slots : l < m => Apart(pages'[q].slots[l], pages'[q].slots[m])
    BY <1>2, <2>1 DEF IsPacked, Apart
  <2>4. QED BY <1>1, <2>1, <2>2, <2>3 DEF IsPacked
<1>4. AllSlots' = AllSlots
  BY <1>1 DEF AllSlots
<1>5. QED BY <1>1, <1>3, <1>4 DEF PagesArePacked

\* A slot that keeps its generation and its glyph keeps its references.
LEMMA SlotKept ==
  ASSUME PlacesInv, NEW p \in DOMAIN pages, NEW n \in DOMAIN pages[p].slots, NEW t \in Slot,
         Replaced(p, n, t), t.corner = pages[p].slots[n].corner,
         t.width = pages[p].slots[n].width, t.height = pages[p].slots[n].height,
         t.generation = pages[p].slots[n].generation, t.key = pages[p].slots[n].key,
         UNCHANGED <<device, nextPage, index, drawn>>, frame' \in Nat, flights' \in Seq(drawn)
  PROVE  /\ \A r \in drawn : Validates(r)' <=> Validates(r)
         /\ \A r \in drawn : Validates(r) =>
              pages'[r.page].slots[r.slot].pins =
                IF r.page = p /\ r.slot = n THEN t.pins ELSE pages[r.page].slots[r.slot].pins
         /\ PinsAreCounted' => PlacesStep
<1>1. /\ DOMAIN pages' = DOMAIN pages /\ Len(pages') = Len(pages) /\ pages' \in Seq(Page)
      /\ \A q \in DOMAIN pages :
           /\ pages'[q].id = pages[q].id
           /\ DOMAIN pages'[q].slots = DOMAIN pages[q].slots
           /\ \A m \in DOMAIN pages[q].slots :
                pages'[q].slots[m] = IF q = p /\ m = n THEN t ELSE pages[q].slots[m]
  BY SlotReplaced
<1>2. \A q \in DOMAIN pages : \A m \in DOMAIN pages[q].slots :
        /\ pages'[q].slots[m].generation = pages[q].slots[m].generation
        /\ pages'[q].slots[m].key = pages[q].slots[m].key
  BY <1>1
<1>3. ASSUME NEW r \in drawn PROVE Validates(r)' <=> Validates(r)
  <2>1. CASE r.page \in DOMAIN pages /\ r.slot \in DOMAIN pages[r.page].slots
    BY <1>1, <1>2, <2>1 DEF Validates, SlotsAt
  <2>2. CASE r.page \in DOMAIN pages /\ r.slot \notin DOMAIN pages[r.page].slots
    BY <1>1, <2>2 DEF Validates, SlotsAt
  <2>3. CASE r.page \notin DOMAIN pages
    BY <1>1, <2>3 DEF Validates, SlotsAt
  <2>4. QED BY <2>1, <2>2, <2>3
<1>4. ASSUME NEW r \in drawn, Validates(r)
      PROVE  pages'[r.page].slots[r.slot].pins =
               IF r.page = p /\ r.slot = n THEN t.pins ELSE pages[r.page].slots[r.slot].pins
  BY <1>1, <1>4, ValidatesIs
<1>5. RefsAreBehind'
  BY <1>1, <1>2 DEF PlacesInv, RefsAreBehind
<1>6. PagesAreNumbered' /\ AtlasTypeOK'
  BY <1>1 DEF PlacesInv, PagesAreNumbered, AtlasTypeOK
<1>7. PagesArePacked' /\ AllSlots' = AllSlots
  BY ReplacedStaysPacked
<1>8. IndexMatchesSlots'
  <2>1. \A e \in index : Validates(e[2])' /\ e[2].key = e[1]
    BY <1>3 DEF PlacesInv, IndexMatchesSlots, AtlasTypeOK
  <2>2. \A c \in AllSlots : pages'[c[1]].id = pages[c[1]].id
    BY <1>1 DEF AllSlots
  <2>3. QED BY <1>7, <2>1, <2>2 DEF PlacesInv, IndexMatchesSlots
<1>9. QED BY <1>3, <1>4, <1>5, <1>6, <1>7, <1>8 DEF PlacesStep, PlacesInv, StaysStale

LEMMA TouchStep ==
  ASSUME PlacesInv, NEW k \in Glyphs, Touch(k), UNCHANGED <<device, frame, flights>>
  PROVE  PlacesStep
<1>1. PICK r \in Resident(k) :
        pages' = IF r.slot \in DOMAIN SlotsAt(r.page)
                 THEN [pages EXCEPT ![r.page].slots[r.slot].used = frame] ELSE pages
  BY DEF Touch
<1>2. /\ r \in drawn /\ Validates(r) /\ r.page \in DOMAIN pages
      /\ r.slot \in DOMAIN pages[r.page].slots
  <2>1. r \in drawn /\ Validates(r)
    BY DEF Resident, PlacesInv, IndexMatchesSlots
  <2>2. QED BY <2>1, ValidatesIs
<1>3. pages' = [pages EXCEPT ![r.page].slots[r.slot].used = frame]
  BY <1>1, <1>2, PageFacts
<1>4. PICK s : s = pages[r.page].slots[r.slot]
  OBVIOUS
<1>5. s \in Slot /\ frame \in Nat
  BY <1>2, <1>4, PageFacts DEF PlacesInv, AtlasTypeOK
<1>6. PICK t : t = [s EXCEPT !.used = frame]
  OBVIOUS
<1>7. /\ t \in Slot /\ t.corner = s.corner /\ t.width = s.width /\ t.height = s.height
      /\ t.generation = s.generation /\ t.key = s.key /\ t.pins = s.pins
  BY <1>5, <1>6 DEF Slot
<1>8. Replaced(r.page, r.slot, t)
  BY <1>3, <1>4, <1>6, Zenon DEF Replaced
<1>9. UNCHANGED <<device, nextPage, index, drawn>> /\ frame' \in Nat /\ flights' \in Seq(drawn)
  BY <1>5 DEF Touch, PlacesInv, AtlasTypeOK
<1>10. /\ \A u \in drawn : Validates(u)' <=> Validates(u)
       /\ \A u \in drawn : Validates(u) =>
            pages'[u.page].slots[u.slot].pins =
              IF u.page = r.page /\ u.slot = r.slot THEN t.pins ELSE pages[u.page].slots[u.slot].pins
       /\ PinsAreCounted' => PlacesStep
  BY <1>2, <1>4, <1>7, <1>8, <1>9, SlotKept
<1>11. \A i \in DOMAIN flights : flights[i] \in drawn
  BY LenProperties DEF PlacesInv, AtlasTypeOK
<1>12. PinsAreCounted'
  BY <1>4, <1>7, <1>9, <1>10, <1>11 DEF PlacesInv, PinsAreCounted
<1>13. QED BY <1>10, <1>12

\* One reference validates for a slot.
LEMMA OneReference ==
  ASSUME PlacesInv, NEW r \in drawn, NEW u \in drawn, Validates(r), Validates(u),
         u.page = r.page, u.slot = r.slot
  PROVE  u = r
<1>1. r \in Reference /\ u \in Reference
  BY ValidatesIs
<1>2. u.device = r.device /\ u.generation = r.generation /\ u.key = r.key
  BY ValidatesIs
<1>3. QED BY <1>1, <1>2 DEF Reference

LEMMA FlightFacts ==
  ASSUME PlacesInv
  PROVE  /\ Len(flights) \in Nat /\ DOMAIN flights = 1 .. Len(flights)
         /\ \A i \in DOMAIN flights : flights[i] \in drawn
         /\ \A r : Cardinality(PlacesOf(flights, {r})) \in Nat
<1>1. flights \in Seq(drawn)
  BY DEF PlacesInv, AtlasTypeOK
<1>2. QED BY <1>1, LenProperties, PlacesAreFinite

LEMMA PinStep ==
  ASSUME PlacesInv, NEW r \in drawn, PinSlot(r)
  PROVE  PlacesStep
<1>1. /\ Validates(r) /\ flights' = Append(flights, r)
      /\ pages' = [pages EXCEPT ![r.page].slots[r.slot].pins = @ + 1]
      /\ UNCHANGED <<device, nextPage, index, drawn>> /\ frame' \in Nat
  BY DEF PinSlot, PlacesInv, AtlasTypeOK
<1>2. r.page \in DOMAIN pages /\ r.slot \in DOMAIN pages[r.page].slots
  BY <1>1, ValidatesIs
<1>3. PICK s : s = pages[r.page].slots[r.slot]
  OBVIOUS
<1>4. s \in Slot
  BY <1>2, <1>3, PageFacts
<1>5. PICK t : t = [s EXCEPT !.pins = s.pins + 1]
  OBVIOUS
<1>6. /\ t \in Slot /\ t.corner = s.corner /\ t.width = s.width /\ t.height = s.height
      /\ t.generation = s.generation /\ t.key = s.key /\ t.pins = s.pins + 1
  BY <1>4, <1>5 DEF Slot
<1>7. Replaced(r.page, r.slot, t)
  BY <1>1, <1>3, <1>5 DEF Replaced
<1>8. /\ flights \in Seq(drawn) /\ flights' \in Seq(drawn)
      /\ \A u : Cardinality(PlacesOf(flights', {u}))
                  = Cardinality(PlacesOf(flights, {u})) + (IF r \in {u} THEN 1 ELSE 0)
  BY <1>1, PlacesAppend DEF PlacesInv, AtlasTypeOK
<1>9. /\ \A u \in drawn : Validates(u)' <=> Validates(u)
      /\ \A u \in drawn : Validates(u) =>
           pages'[u.page].slots[u.slot].pins =
             IF u.page = r.page /\ u.slot = r.slot THEN t.pins ELSE pages[u.page].slots[u.slot].pins
      /\ PinsAreCounted' => PlacesStep
  BY <1>1, <1>2, <1>3, <1>6, <1>7, <1>8, SlotKept
<1>10. ASSUME NEW u \in drawn, Validates(u)
       PROVE  pages'[u.page].slots[u.slot].pins = Cardinality(PlacesOf(flights', {u}))
  <2>1. pages[u.page].slots[u.slot].pins = Cardinality(PlacesOf(flights, {u}))
    BY <1>10 DEF PlacesInv, PinsAreCounted
  <2>2. CASE u.page = r.page /\ u.slot = r.slot
    <3>1. u = r
      BY <1>1, <1>10, <2>2, OneReference
    <3>2. QED BY <1>3, <1>6, <1>8, <1>9, <1>10, <2>1, <2>2, <3>1
  <2>3. CASE ~(u.page = r.page /\ u.slot = r.slot)
    <3>1. u # r
      BY <2>3
    <3>2. Cardinality(PlacesOf(flights', {u})) = Cardinality(PlacesOf(flights, {u})) + 0
      BY <1>8, <3>1
    <3>3. Cardinality(PlacesOf(flights, {u})) \in Nat
      BY FlightFacts
    <3>4. Cardinality(PlacesOf(flights', {u})) = Cardinality(PlacesOf(flights, {u}))
      BY <3>2, <3>3
    <3>5. QED BY <1>9, <1>10, <2>1, <2>3, <3>4
  <2>4. QED BY <2>2, <2>3
<1>11. ASSUME NEW i \in DOMAIN flights', flights'[i].device = device
       PROVE  Validates(flights'[i])
  <2>1. flights'[i] = r \/ (i \in DOMAIN flights /\ flights'[i] = flights[i])
    <3>1. /\ Len(flights') = Len(flights) + 1 /\ DOMAIN flights' = 1 .. Len(flights')
          /\ flights'[Len(flights) + 1] = r
          /\ \A j \in 1 .. Len(flights) : flights'[j] = flights[j]
      BY <1>1, <1>8, AppendProperties, LenProperties
    <3>2. QED BY <1>11, <3>1, FlightFacts
  <2>2. QED BY <1>1, <1>11, <2>1 DEF PlacesInv, PinsAreCounted
<1>12. \A i \in DOMAIN flights' : flights'[i] \in drawn
  BY <1>8, LenProperties
<1>13. PinsAreCounted'
  BY <1>1, <1>9, <1>10, <1>11, <1>12 DEF PinsAreCounted
<1>14. QED BY <1>9, <1>13

LEMMA UnpinStep ==
  ASSUME PlacesInv, NEW i \in DOMAIN flights, UnpinSlot(i)
  PROVE  PlacesStep
<1>1. PICK r \in drawn : r = flights[i]
  BY FlightFacts
<1>2. /\ flights' = RemoveAt(flights, i)
      /\ pages' = IF Validates(r)
                  THEN [pages EXCEPT ![r.page].slots[r.slot].pins = IF @ > 0 THEN @ - 1 ELSE 0]
                  ELSE pages
      /\ UNCHANGED <<device, nextPage, index, drawn>> /\ frame' \in Nat
  BY <1>1 DEF UnpinSlot, PlacesInv, AtlasTypeOK
<1>3. /\ flights \in Seq(drawn) /\ flights' \in Seq(drawn) /\ Len(flights') = Len(flights) - 1
      /\ \A j \in 1 .. (Len(flights) - 1) :
           flights'[j] = IF j < i THEN flights[j] ELSE flights[j + 1]
      /\ \A u : Cardinality(PlacesOf(flights', {u}))
                  = Cardinality(PlacesOf(flights, {u})) - (IF r \in {u} THEN 1 ELSE 0)
  <2>1. flights \in Seq(drawn) /\ i \in 1 .. Len(flights)
    BY FlightFacts DEF PlacesInv, AtlasTypeOK
  <2>2. /\ flights' \in Seq(drawn) /\ Len(flights') = Len(flights) - 1
        /\ \A j \in 1 .. (Len(flights) - 1) :
             flights'[j] = IF j < i THEN flights[j] ELSE flights[j + 1]
    BY <1>2, <2>1, Removed
  <2>3. ASSUME NEW u
        PROVE  Cardinality(PlacesOf(flights', {u}))
                 = Cardinality(PlacesOf(flights, {u})) - (IF r \in {u} THEN 1 ELSE 0)
    BY <1>1, <1>2, <2>1, PlacesRemoved
  <2>4. QED BY <2>1, <2>2, <2>3
<1>4. \A j \in DOMAIN flights' : flights'[j] \in drawn
        /\ \E l \in DOMAIN flights : flights'[j] = flights[l]
  <2>1. DOMAIN flights' = 1 .. (Len(flights) - 1)
    BY <1>3, LenProperties
  <2>2. QED BY <1>3, <2>1, FlightFacts
<1>5. CASE Validates(r)
  <2>1. r.page \in DOMAIN pages /\ r.slot \in DOMAIN pages[r.page].slots
    BY <1>5, ValidatesIs
  <2>2. PICK s : s = pages[r.page].slots[r.slot]
    OBVIOUS
  <2>3. s \in Slot /\ s.pins = Cardinality(PlacesOf(flights, {r}))
    BY <1>5, <2>1, <2>2, PageFacts DEF PlacesInv, PinsAreCounted
  <2>4. s.pins >= 1
    <3>1. Cardinality(PlacesOf(flights', {r})) \in Nat
      BY <1>3, PlacesAreFinite
    <3>2. Cardinality(PlacesOf(flights', {r})) = Cardinality(PlacesOf(flights, {r})) - 1
      BY <1>3
    <3>3. Cardinality(PlacesOf(flights, {r})) \in Nat
      BY FlightFacts
    <3>4. QED BY <2>3, <3>1, <3>2, <3>3
  <2>5. PICK t : t = [s EXCEPT !.pins = s.pins - 1]
    OBVIOUS
  <2>6. /\ t \in Slot /\ t.corner = s.corner /\ t.width = s.width /\ t.height = s.height
        /\ t.generation = s.generation /\ t.key = s.key /\ t.pins = s.pins - 1
    BY <2>3, <2>4, <2>5 DEF Slot
  <2>7. Replaced(r.page, r.slot, t)
    <3>1. (IF s.pins > 0 THEN s.pins - 1 ELSE 0) = s.pins - 1
      BY <2>3, <2>4 DEF Slot
    <3>2. pages' = [pages EXCEPT ![r.page].slots[r.slot].pins = IF @ > 0 THEN @ - 1 ELSE 0]
      BY <1>2, <1>5
    <3>3. pages' = [pages EXCEPT ![r.page].slots[r.slot]
                                   = [s EXCEPT !.pins = IF s.pins > 0 THEN s.pins - 1 ELSE 0]]
      BY <2>2, <3>2
    <3>4. QED BY <2>5, <3>1, <3>3 DEF Replaced
  <2>8. /\ \A u \in drawn : Validates(u)' <=> Validates(u)
        /\ \A u \in drawn : Validates(u) =>
             pages'[u.page].slots[u.slot].pins =
               IF u.page = r.page /\ u.slot = r.slot THEN t.pins
               ELSE pages[u.page].slots[u.slot].pins
        /\ PinsAreCounted' => PlacesStep
    BY <1>2, <1>3, <2>1, <2>2, <2>6, <2>7, SlotKept
  <2>9. ASSUME NEW u \in drawn, Validates(u)
        PROVE  pages'[u.page].slots[u.slot].pins = Cardinality(PlacesOf(flights', {u}))
    <3>1. pages[u.page].slots[u.slot].pins = Cardinality(PlacesOf(flights, {u}))
      BY <2>9 DEF PlacesInv, PinsAreCounted
    <3>2. CASE u.page = r.page /\ u.slot = r.slot
      <4>1. u = r
        BY <1>5, <2>9, <3>2, OneReference
      <4>2. QED BY <1>3, <2>2, <2>6, <2>8, <2>9, <3>1, <3>2, <4>1
    <3>3. CASE ~(u.page = r.page /\ u.slot = r.slot)
      <4>1. u # r
        BY <3>3
      <4>2. Cardinality(PlacesOf(flights', {u})) = Cardinality(PlacesOf(flights, {u})) - 0
        BY <1>3, <4>1
      <4>3. Cardinality(PlacesOf(flights, {u})) \in Nat
        BY FlightFacts
      <4>4. Cardinality(PlacesOf(flights', {u})) = Cardinality(PlacesOf(flights, {u}))
        BY <4>2, <4>3
      <4>5. QED BY <2>8, <2>9, <3>1, <3>3, <4>4
    <3>4. QED BY <3>2, <3>3
  <2>10. PinsAreCounted'
    BY <1>2, <1>4, <2>8, <2>9 DEF PlacesInv, PinsAreCounted
  <2>11. QED BY <2>8, <2>10
<1>6. CASE ~Validates(r)
  <2>1. UNCHANGED <<pages, device, nextPage, index, drawn>>
    BY <1>2, <1>6
  <2>2. \A u : Validates(u)' <=> Validates(u)
    BY <2>1 DEF Validates, SlotsAt
  <2>3. ASSUME NEW u \in drawn, Validates(u)
        PROVE  pages'[u.page].slots[u.slot].pins = Cardinality(PlacesOf(flights', {u}))
    <3>1. r # u
      BY <1>6, <2>3
    <3>2. Cardinality(PlacesOf(flights', {u})) = Cardinality(PlacesOf(flights, {u})) - 0
      BY <1>3, <3>1
    <3>3. Cardinality(PlacesOf(flights, {u})) \in Nat
      BY FlightFacts
    <3>4. Cardinality(PlacesOf(flights', {u})) = Cardinality(PlacesOf(flights, {u}))
      BY <3>2, <3>3
    <3>5. QED BY <2>1, <2>3, <3>4 DEF PlacesInv, PinsAreCounted
  <2>4. PinsAreCounted'
    BY <1>4, <2>1, <2>2, <2>3 DEF PlacesInv, PinsAreCounted
  <2>5. AtlasTypeOK' /\ PagesAreNumbered' /\ RefsAreBehind' /\ PagesArePacked'
    BY <1>2, <1>3, <2>1 DEF PlacesInv, AtlasTypeOK, PagesAreNumbered, RefsAreBehind, PagesArePacked
  <2>6. IndexMatchesSlots'
    BY <2>1, <2>2 DEF PlacesInv, IndexMatchesSlots, AllSlots
  <2>7. QED BY <2>1, <2>2, <2>4, <2>5, <2>6 DEF PlacesStep, PlacesInv, StaysStale
<1>7. QED BY <1>5, <1>6

-----------------------------------------------------------------------------
(* A glyph gets a slot.                                                    *)

\* A place named by the index names it by the glyph that is there.
LEMMA IndexFacts ==
  ASSUME PlacesInv
  PROVE  /\ \A e \in index : /\ e = <<e[1], e[2]>> /\ e[1] \in Glyphs /\ e[2] \in drawn
                             /\ Validates(e[2]) /\ e[2].key = e[1]
                             /\ e[2].page \in DOMAIN pages /\ e[2].slot \in DOMAIN pages[e[2].page].slots
                             /\ pages[e[2].page].slots[e[2].slot].key = e[1]
         /\ \A k : Resident(k) = {} => \A e \in index : e[1] # k
         /\ \A c : c \in AllSlots <=> /\ c = <<c[1], c[2]>> /\ c[1] \in DOMAIN pages
                                      /\ c[2] \in DOMAIN pages[c[1]].slots
<1>1. ASSUME NEW e \in index
      PROVE  /\ e = <<e[1], e[2]>> /\ e[1] \in Glyphs /\ e[2] \in drawn
             /\ Validates(e[2]) /\ e[2].key = e[1]
             /\ e[2].page \in DOMAIN pages /\ e[2].slot \in DOMAIN pages[e[2].page].slots
             /\ pages[e[2].page].slots[e[2].slot].key = e[1]
  <2>1. e = <<e[1], e[2]>> /\ e[1] \in Glyphs /\ e[2] \in drawn
    BY DEF PlacesInv, AtlasTypeOK
  <2>2. Validates(e[2]) /\ e[2].key = e[1]
    BY DEF PlacesInv, IndexMatchesSlots
  <2>3. QED BY <2>1, <2>2, ValidatesIs
<1>2. ASSUME NEW k, Resident(k) = {}, NEW e \in index, e[1] = k PROVE FALSE
  <2>1. e = <<k, e[2]>> /\ e[2] \in drawn
    BY <1>1, <1>2
  <2>2. e[2] \in Resident(k)
    BY <2>1 DEF Resident
  <2>3. QED BY <1>2, <2>2
<1>3. ASSUME NEW c
      PROVE  c \in AllSlots <=> /\ c = <<c[1], c[2]>> /\ c[1] \in DOMAIN pages
                                /\ c[2] \in DOMAIN pages[c[1]].slots
  BY DEF AllSlots
<1>4. QED BY <1>1, <1>2, <1>3

LEMMA EvictStep ==
  ASSUME PlacesInv, GlyphsFit, NEW k \in Glyphs, Evict(k), Resident(k) = {},
         UNCHANGED <<device, frame, flights>>
  PROVE  PlacesStep
<1>1. PICK c \in Candidates(k) :
        LET s == pages[c[1]].slots[c[2]]
            r == Ref(k, pages[c[1]].id, c[2], NextGeneration(s.generation))
        IN /\ pages' = [pages EXCEPT ![c[1]].slots[c[2]] =
                          [@ EXCEPT !.generation = r.generation, !.key = k, !.used = frame]]
           /\ index' = Forgotten(s.key) \cup {<<k, r>>}
           /\ drawn' = drawn \cup {r}
           /\ nextPage' = IF WastedPage(k) THEN nextPage + 1 ELSE nextPage
  BY DEF Evict
<1>2. PICK p, n, s : p = c[1] /\ n = c[2] /\ s = pages[p].slots[n]
  OBVIOUS
<1>3. /\ p \in DOMAIN pages /\ n \in DOMAIN pages[p].slots /\ s \in Slot /\ s.pins = 0
      /\ pages[p].id = p /\ p \in Nat /\ n \in Nat /\ frame \in Nat /\ device \in Nat
      /\ device' = device /\ frame' = frame /\ flights' = flights
  <2>1. c \in AllSlots /\ Reusable(s, k)
    BY <1>2 DEF Candidates
  <2>2. p \in DOMAIN pages /\ n \in DOMAIN pages[p].slots /\ s.pins = 0
    BY <1>2, <2>1, IndexFacts DEF Reusable
  <2>3. QED BY <1>2, <2>2, PageFacts DEF PlacesInv, AtlasTypeOK
<1>4. PICK t : t = [s EXCEPT !.generation = s.generation + 1, !.key = k, !.used = frame]
  OBVIOUS
<1>5. /\ t \in Slot /\ t.corner = s.corner /\ t.width = s.width /\ t.height = s.height
      /\ t.generation = s.generation + 1 /\ t.key = k /\ t.pins = 0 /\ s.generation \in Nat
  <2>1. s.generation \in Nat /\ s.generation + 1 \in Nat
    BY <1>3 DEF Slot
  <2>2. PICK g : g = s.generation + 1
    OBVIOUS
  <2>3. t = [s EXCEPT !.generation = g, !.key = k, !.used = frame] /\ g \in Nat
    BY <1>4, <2>1, <2>2
  <2>4. /\ t \in Slot /\ t.corner = s.corner /\ t.width = s.width /\ t.height = s.height
        /\ t.generation = g /\ t.key = k /\ t.pins = s.pins
    BY <1>3, <2>3 DEF Slot
  <2>5. QED BY <1>3, <2>1, <2>2, <2>4
<1>6. PICK r : r = Ref(k, p, n, s.generation + 1)
  OBVIOUS
<1>7. /\ r \in Reference /\ r.device = device /\ r.page = p /\ r.slot = n /\ r.key = k
      /\ r.generation = s.generation + 1
  BY <1>3, <1>5, <1>6 DEF Ref, Reference
<1>8. r = Ref(k, pages[p].id, n, NextGeneration(s.generation))
  BY <1>3, <1>6 DEF NextGeneration
<1>9. Replaced(p, n, t)
  <2>1. pages' = [pages EXCEPT ![p].slots[n] =
                    [@ EXCEPT !.generation = r.generation, !.key = k, !.used = frame]]
    BY <1>1, <1>2, <1>8
  <2>2. QED BY <1>2, <1>4, <1>7, <2>1 DEF Replaced
<1>10. /\ index' = {e \in index : e[1] # s.key} \cup {<<k, r>>} /\ drawn' = drawn \cup {r}
       /\ nextPage' = nextPage
  <2>1. nextPage' = nextPage
    BY <1>1, EmptyPageHasRoom
  <2>2. QED BY <1>1, <1>2, <1>8, <2>1 DEF Forgotten
<1>11. /\ DOMAIN pages' = DOMAIN pages /\ Len(pages') = Len(pages) /\ pages' \in Seq(Page)
       /\ \A q \in DOMAIN pages :
            /\ pages'[q].id = pages[q].id
            /\ DOMAIN pages'[q].slots = DOMAIN pages[q].slots
            /\ \A m \in DOMAIN pages[q].slots :
                 pages'[q].slots[m] = IF q = p /\ m = n THEN t ELSE pages[q].slots[m]
  BY <1>3, <1>5, <1>9, SlotReplaced
<1>12. PagesArePacked' /\ AllSlots' = AllSlots
  BY <1>2, <1>3, <1>5, <1>9, ReplacedStaysPacked
<1>13. r \notin drawn
  <2> SUFFICES ASSUME r \in drawn PROVE FALSE
    OBVIOUS
  <2>1. r.generation <= s.generation
    BY <1>2, <1>7 DEF PlacesInv, RefsAreBehind
  <2>2. QED BY <1>5, <1>7, <2>1
<1>14. ASSUME NEW u \in drawn
       PROVE  Validates(u)' <=> Validates(u) /\ ~(u.page = p /\ u.slot = n)
  <2>1. CASE u.device # device
    BY <1>3, <2>1 DEF Validates
  <2>2. CASE u.device = device
    <3>1. /\ u.page \in DOMAIN pages /\ u.slot \in DOMAIN pages[u.page].slots
          /\ u.generation <= pages[u.page].slots[u.slot].generation /\ u.generation \in Nat
      BY <2>2, ValidatesIs DEF PlacesInv, RefsAreBehind, Reference
    <3>2. CASE u.page = p /\ u.slot = n
      <4>1. pages'[u.page].slots[u.slot].generation = s.generation + 1 /\ u.generation <= s.generation
        BY <1>2, <1>5, <1>11, <3>1, <3>2
      <4>2. u.generation # s.generation + 1
        BY <1>5, <3>1, <4>1
      <4>3. QED BY <1>11, <3>1, <3>2, <4>1, <4>2 DEF Validates, SlotsAt
    <3>3. CASE ~(u.page = p /\ u.slot = n)
      <4>1. pages'[u.page].slots[u.slot] = pages[u.page].slots[u.slot]
        BY <1>11, <3>1, <3>3
      <4>2. QED BY <1>3, <1>11, <3>1, <3>3, <4>1 DEF Validates, SlotsAt
    <3>4. QED BY <3>2, <3>3
  <2>3. QED BY <2>1, <2>2
<1>15. Validates(r)'
  BY <1>3, <1>5, <1>7, <1>11 DEF Validates, SlotsAt
<1>16. RefsAreBehind'
  <2>1. ASSUME NEW u \in drawn, u.device = device
        PROVE  /\ u.page \in DOMAIN pages' /\ u.slot \in DOMAIN pages'[u.page].slots
               /\ u.generation <= pages'[u.page].slots[u.slot].generation
               /\ u.generation = pages'[u.page].slots[u.slot].generation =>
                    u.key = pages'[u.page].slots[u.slot].key
    <3>1. /\ u.page \in DOMAIN pages /\ u.slot \in DOMAIN pages[u.page].slots
          /\ u.generation <= pages[u.page].slots[u.slot].generation /\ u.generation \in Nat
          /\ u.generation = pages[u.page].slots[u.slot].generation =>
               u.key = pages[u.page].slots[u.slot].key
      BY <2>1, ValidatesIs DEF PlacesInv, RefsAreBehind, Reference
    <3>2. CASE u.page = p /\ u.slot = n
      <4>1. pages'[u.page].slots[u.slot] = t /\ u.generation <= s.generation
        BY <1>2, <1>11, <3>1, <3>2
      <4>2. QED BY <1>5, <1>11, <3>1, <3>2, <4>1
    <3>3. CASE ~(u.page = p /\ u.slot = n)
      BY <1>11, <3>1, <3>3
    <3>4. QED BY <3>2, <3>3
  <2>2. \A u \in drawn : u.device <= device
    BY DEF PlacesInv, RefsAreBehind
  <2>3. /\ r.device <= device /\ r.page \in DOMAIN pages' /\ r.slot \in DOMAIN pages'[r.page].slots
        /\ r.generation <= pages'[r.page].slots[r.slot].generation
        /\ r.key = pages'[r.page].slots[r.slot].key
    BY <1>3, <1>5, <1>7, <1>11
  <2>4. QED BY <1>3, <1>10, <2>1, <2>2, <2>3 DEF RefsAreBehind
<1>17. PinsAreCounted'
  <2>1. Cardinality(PlacesOf(flights, {r})) = 0
    <3>1. PlacesOf(flights, {r}) = {}
      BY <1>13, FlightFacts DEF PlacesOf
    <3>2. QED BY <3>1, FS_EmptySet
  <2>2. ASSUME NEW u \in drawn, Validates(u)'
        PROVE  pages'[u.page].slots[u.slot].pins = Cardinality(PlacesOf(flights, {u}))
    BY <1>11, <1>14, <2>2, ValidatesIs DEF PlacesInv, PinsAreCounted
  <2>3. ASSUME NEW i \in DOMAIN flights, flights[i].device = device
        PROVE  Validates(flights[i])'
    <3>1. flights[i] \in drawn /\ Validates(flights[i])
      BY <2>3, FlightFacts DEF PlacesInv, PinsAreCounted
    <3>2. ASSUME flights[i].page = p, flights[i].slot = n PROVE FALSE
      <4>1. Cardinality(PlacesOf(flights, {flights[i]})) = 0
        BY <1>2, <1>3, <3>1, <3>2 DEF PlacesInv, PinsAreCounted
      <4>2. IsFiniteSet(PlacesOf(flights, {flights[i]}))
        BY PlacesAreFinite DEF PlacesInv, AtlasTypeOK
      <4>3. PlacesOf(flights, {flights[i]}) = {}
        BY <4>1, <4>2, FS_EmptySet
      <4>4. i \in PlacesOf(flights, {flights[i]})
        BY DEF PlacesOf
      <4>5. QED BY <4>3, <4>4
    <3>3. QED BY <1>14, <3>1, <3>2
  <2>4. pages'[r.page].slots[r.slot].pins = 0
    BY <1>3, <1>5, <1>7, <1>11
  <2>5. QED BY <1>3, <1>10, <2>1, <2>2, <2>3, <2>4 DEF PinsAreCounted
<1>18. AtlasTypeOK'
  <2>1. flights \in Seq(drawn) /\ drawn \subseteq drawn' /\ drawn' \subseteq Reference
    BY <1>7, <1>10 DEF PlacesInv, AtlasTypeOK
  <2>2. flights \in Seq(drawn')
    BY <2>1, SeqMonotonic
  <2>3. index' \subseteq Glyphs \X drawn'
    BY <1>10 DEF PlacesInv, AtlasTypeOK
  <2>4. QED BY <1>3, <1>10, <1>11, <2>1, <2>2, <2>3 DEF PlacesInv, AtlasTypeOK
<1>19. PagesAreNumbered'
  BY <1>10, <1>11 DEF PlacesInv, PagesAreNumbered
<1>20. IndexMatchesSlots'
  <2>1. ASSUME NEW e \in index, e[1] # s.key
        PROVE  Validates(e[2])' /\ e[2].key = e[1]
    <3>1. e[2] \in drawn /\ Validates(e[2]) /\ e[2].key = e[1]
          /\ pages[e[2].page].slots[e[2].slot].key = e[1]
      BY IndexFacts
    <3>2. ~(e[2].page = p /\ e[2].slot = n)
      BY <1>2, <2>1, <3>1
    <3>3. QED BY <1>14, <3>1, <3>2
  <2>2. \A e \in index' : Validates(e[2])' /\ e[2].key = e[1]
    BY <1>7, <1>10, <1>15, <2>1
  <2>3. \A e, f \in index' : e[1] = f[1] => e = f
    <3>1. \A e \in index : e[1] # k
      BY IndexFacts
    <3>2. \A e, f \in index : e[1] = f[1] => e = f
      BY DEF PlacesInv, IndexMatchesSlots
    <3>3. <<k, r>>[1] = k
      OBVIOUS
    <3>4. QED BY <1>10, <3>1, <3>2, <3>3
  <2>4. ASSUME NEW d \in AllSlots
        PROVE  \E e \in index' : e[2].page = pages'[d[1]].id /\ e[2].slot = d[2]
    <3>1. d[1] \in DOMAIN pages /\ d[2] \in DOMAIN pages[d[1]].slots /\ d = <<d[1], d[2]>>
          /\ pages'[d[1]].id = d[1] /\ pages[d[1]].id = d[1]
      BY <1>11, IndexFacts, PageFacts
    <3>2. CASE d[1] = p /\ d[2] = n
      <4>1. <<k, r>> \in index' /\ <<k, r>>[2] = r
        BY <1>10
      <4>2. QED BY <1>7, <3>1, <3>2, <4>1
    <3>3. CASE ~(d[1] = p /\ d[2] = n)
      <4>1. PICK e \in index : e[2].page = d[1] /\ e[2].slot = d[2]
        BY <3>1 DEF PlacesInv, IndexMatchesSlots
      <4>2. PICK g \in index : g[2].page = p /\ g[2].slot = n
        <5>1. <<p, n>> \in AllSlots /\ <<p, n>>[1] = p /\ <<p, n>>[2] = n
          BY <1>3 DEF AllSlots
        <5>2. QED BY <1>3, <5>1 DEF PlacesInv, IndexMatchesSlots
      <4>3. g[1] = s.key
        BY <1>2, <4>2, IndexFacts
      <4>4. e[1] # s.key
        BY <3>3, <4>1, <4>2, <4>3 DEF PlacesInv, IndexMatchesSlots
      <4>5. QED BY <1>10, <3>1, <4>1, <4>4
    <3>4. QED BY <3>2, <3>3
  <2>5. QED BY <1>12, <2>2, <2>3, <2>4 DEF IndexMatchesSlots
<1>21. StaysStale
  BY <1>14 DEF StaysStale
<1>22. QED BY <1>12, <1>16, <1>17, <1>18, <1>19, <1>20, <1>21 DEF PlacesStep, PlacesInv

-----------------------------------------------------------------------------
(* Shelves.                                                                *)

LEMMA LeastPlace ==
  ASSUME NEW S \in SUBSET Nat, S # {}
  PROVE  Min(S) \in S
<1>1. \E x \in S : \A y \in S : x <= y
  BY LeastNumber
<1>2. QED BY <1>1 DEF Min

LEMMA GreaterOfTwo ==
  ASSUME NEW a \in Nat, NEW b \in Nat
  PROVE  Max({a, b}) \in Nat /\ a <= Max({a, b})
<1>1. \E x \in {a, b} : \A y \in {a, b} : x >= y
  <2>1. CASE a >= b
    BY <2>1
  <2>2. CASE ~(a >= b)
    <3>1. b >= a
      BY <2>2
    <3>2. QED BY <3>1
  <2>3. QED BY <2>1, <2>2
<1>2. Max({a, b}) \in {a, b} /\ \A y \in {a, b} : Max({a, b}) >= y
  BY <1>1 DEF Max
<1>3. QED BY <1>2

LEMMA FreshSlotFacts ==
  ASSUME NEW shelves \in Seq(ShelfRecord), NEW k \in Glyphs, frame \in Nat,
         Corner(shelves, k) \in Nat \X Nat
  PROVE  LET s == FreshSlot(shelves, k) IN
           /\ s \in Slot /\ s.corner = Corner(shelves, k) /\ s.width = Width[k]
           /\ s.height = Height[k] /\ s.generation = 1 /\ s.key = k /\ s.pins = 0
BY AtlasConstants DEF FreshSlot, Slot

\* Where the new glyph stands, and that the shelves are the others' still.
LEMMA PackedFacts ==
  ASSUME NEW shelves \in Seq(ShelfRecord), IsStacked(shelves), NEW k \in Glyphs, frame \in Nat
  PROVE  /\ Packed(shelves, k) \in Seq(ShelfRecord) /\ IsStacked(Packed(shelves, k))
         /\ FreshSlot(shelves, k) \in Slot
         /\ \A j \in DOMAIN shelves :
              /\ j \in DOMAIN Packed(shelves, k) /\ Packed(shelves, k)[j].y = shelves[j].y
              /\ Packed(shelves, k)[j].height = shelves[j].height
              /\ shelves[j].x <= Packed(shelves, k)[j].x
         /\ \E i \in DOMAIN Packed(shelves, k) :
              /\ StandsOn(FreshSlot(shelves, k), Packed(shelves, k)[i])
              /\ i \in DOMAIN shelves => shelves[i].x + 1 = FreshSlot(shelves, k).corner[1]
<1>1. PICK n \in Nat : n = Len(shelves) /\ DOMAIN shelves = 1 .. n
  BY LenProperties
<1>2. \A j \in 1 .. n : /\ shelves[j] \in ShelfRecord /\ shelves[j].x \in Nat
                        /\ shelves[j].y \in Nat /\ shelves[j].height \in Nat
  <2>1. \A j \in 1 .. n : shelves[j] \in ShelfRecord
    BY <1>1, ElementOfSeq
  <2>2. \A f \in ShelfRecord : f.x \in Nat /\ f.y \in Nat /\ f.height \in Nat
    BY DEF ShelfRecord
  <2>3. QED BY <2>1, <2>2
<1>3. PICK w, h : w = Padded(Width[k]) /\ h = Padded(Height[k])
  OBVIOUS
<1>4. /\ w \in Nat /\ h \in Nat /\ w = Width[k] + 2 /\ h = Height[k] + 2 /\ Taken(k) = w
      /\ Width[k] \in Nat /\ Height[k] \in Nat
  BY <1>3, AtlasConstants DEF Taken
<1>5. CASE Shelf(shelves, k) # {}
  <2>1. PICK i : i = Min(Shelf(shelves, k))
    OBVIOUS
  <2>2. i \in Shelf(shelves, k)
    <3>1. Shelf(shelves, k) \subseteq Nat
      BY <1>1 DEF Shelf
    <3>2. QED BY <1>5, <2>1, <3>1, LeastPlace
  <2>3. i \in 1 .. n /\ shelves[i].height >= h
    BY <1>1, <1>3, <2>2 DEF Shelf
  <2>4. PICK f : f = [shelves[i] EXCEPT !.x = shelves[i].x + w]
    OBVIOUS
  <2>5. f \in ShelfRecord /\ f.y = shelves[i].y /\ f.height = shelves[i].height
        /\ f.x = shelves[i].x + w
    <3>1. shelves[i] \in ShelfRecord /\ shelves[i].x + w \in Nat
      BY <1>2, <1>4, <2>3
    <3>2. PICK z \in Nat : z = shelves[i].x + w
      BY <3>1
    <3>3. f = [shelves[i] EXCEPT !.x = z]
      BY <2>4, <3>2
    <3>4. f \in ShelfRecord /\ f.y = shelves[i].y /\ f.height = shelves[i].height /\ f.x = z
      BY <3>1, <3>3 DEF ShelfRecord
    <3>5. QED BY <3>2, <3>4
  <2>6. PICK q : q = Packed(shelves, k)
    OBVIOUS
  <2>7. q = [shelves EXCEPT ![i] = f]
    BY <1>4, <1>5, <2>1, <2>4, <2>6 DEF Packed
  <2>8. /\ q \in Seq(ShelfRecord) /\ Len(q) = n
        /\ \A j \in 1 .. n : q[j] = IF j = i THEN f ELSE shelves[j]
    BY <1>1, <2>3, <2>5, <2>7, ExceptSeq
  <2>9. DOMAIN q = 1 .. n
    BY <2>8, LenProperties
  <2>10. \A j \in 1 .. n : /\ q[j].y = shelves[j].y /\ q[j].height = shelves[j].height
                           /\ shelves[j].x <= q[j].x
    <3>1. ASSUME NEW j \in 1 .. n
          PROVE  /\ q[j].y = shelves[j].y /\ q[j].height = shelves[j].height
                 /\ shelves[j].x <= q[j].x
      <4>1. CASE j = i
        <5>1. q[j] = f /\ shelves[j].x \in Nat /\ shelves[j] = shelves[i]
          BY <1>2, <2>8, <4>1
        <5>2. QED BY <1>4, <2>5, <5>1
      <4>2. CASE j # i
        <5>1. q[j] = shelves[j] /\ shelves[j].x \in Nat
          BY <1>2, <2>8, <4>2
        <5>2. QED BY <5>1
      <4>3. QED BY <4>1, <4>2
    <3>2. QED BY <3>1
  <2>11. IsStacked(q)
    BY <1>1, <2>9, <2>10 DEF IsStacked
  <2>12. Corner(shelves, k) = <<shelves[i].x + 1, shelves[i].y + 1>>
    BY <1>5, <2>1 DEF Corner
  <2>13. PICK s : s = FreshSlot(shelves, k)
    OBVIOUS
  <2>14. /\ s \in Slot /\ s.corner = <<shelves[i].x + 1, shelves[i].y + 1>>
         /\ s.width = Width[k] /\ s.height = Height[k]
    <3>1. shelves[i].x + 1 \in Nat /\ shelves[i].y + 1 \in Nat
      BY <1>2, <2>3
    <3>2. Corner(shelves, k) \in Nat \X Nat
      BY <2>12, <3>1
    <3>3. QED BY <2>12, <2>13, <3>2, FreshSlotFacts
  <2>15. /\ s.corner[1] = shelves[i].x + 1 /\ s.corner[2] = shelves[i].y + 1
    BY <2>14
  <2>16. StandsOn(s, q[i])
    <3>1. /\ q[i].y = shelves[i].y /\ q[i].height = shelves[i].height
          /\ q[i].x = shelves[i].x + w
      BY <2>3, <2>5, <2>8
    <3>2. shelves[i].x \in Nat /\ shelves[i].y \in Nat /\ shelves[i].height \in Nat
      BY <1>2, <2>3
    <3>3. s.corner[2] = q[i].y + 1 /\ s.height + 2 <= q[i].height
      BY <1>4, <2>3, <2>14, <2>15, <3>1
    <3>4. s.corner[1] + s.width + 1 <= q[i].x
      <4>1. PICK x \in Nat, v \in Nat : x = shelves[i].x /\ v = Width[k]
        BY <1>4, <3>2
      <4>2. s.corner[1] = x + 1 /\ s.width = v /\ w = v + 2 /\ q[i].x = x + w
        BY <1>4, <2>14, <2>15, <3>1, <4>1
      <4>3. (x + 1) + v + 1 <= x + w
        BY <4>1, <4>2
      <4>4. QED BY <4>2, <4>3
    <3>5. QED BY <3>3, <3>4 DEF StandsOn
  <2>17. QED BY <1>1, <2>3, <2>6, <2>8, <2>9, <2>10, <2>11, <2>13, <2>14, <2>15, <2>16
<1>6. CASE Shelf(shelves, k) = {}
  <2>1. PICK b : b = Bottom(shelves)
    OBVIOUS
  <2>2. b \in Nat /\ \A j \in 1 .. n : shelves[j].y + shelves[j].height <= b
    <3>1. CASE n = 0
      <4>1. shelves = <<>>
        BY <1>1, <3>1, EmptySeq
      <4>2. QED BY <2>1, <3>1, <4>1 DEF Bottom
    <3>2. CASE n # 0
      <4>1. shelves # <<>> /\ n \in 1 .. n
        BY <1>1, <3>2, EmptySeq
      <4>2. b = shelves[n].y + shelves[n].height
        BY <1>1, <2>1, <4>1 DEF Bottom, Last
      <4>3. ASSUME NEW j \in 1 .. n PROVE shelves[j].y + shelves[j].height <= b
        <5>1. CASE j = n
          BY <1>2, <4>1, <4>2, <5>1
        <5>2. CASE j < n
          <6>1. shelves[j].y + shelves[j].height <= shelves[n].y
            BY <1>1, <4>1, <5>2 DEF IsStacked
          <6>2. /\ shelves[j].y \in Nat /\ shelves[j].height \in Nat
                /\ shelves[n].y \in Nat /\ shelves[n].height \in Nat
            BY <1>2, <4>1
          <6>3. PICK e \in Nat, g \in Nat, y \in Nat, c \in Nat :
                  /\ e = shelves[j].y /\ g = shelves[j].height
                  /\ y = shelves[n].y /\ c = shelves[n].height
            BY <6>2
          <6>4. e + g <= y /\ b = y + c
            BY <4>2, <6>1, <6>3
          <6>5. e + g <= b
            BY <6>4
          <6>6. QED BY <6>3, <6>5
        <5>3. QED BY <5>1, <5>2
      <4>4. QED BY <1>2, <4>1, <4>2, <4>3
    <3>3. QED BY <3>1, <3>2
  <2>3. PICK m : m = Max({h, MinShelf})
    OBVIOUS
  <2>4. m \in Nat /\ h <= m
    BY <1>4, <2>3, AtlasConstants, GreaterOfTwo
  <2>5. PICK f : f = [y |-> b, height |-> m, x |-> w]
    OBVIOUS
  <2>6. f \in ShelfRecord /\ f.y = b /\ f.height = m /\ f.x = w
    BY <1>4, <2>2, <2>4, <2>5 DEF ShelfRecord
  <2>7. PICK q : q = Packed(shelves, k)
    OBVIOUS
  <2>8. q = Append(shelves, f)
    BY <1>3, <1>4, <1>6, <2>1, <2>3, <2>5, <2>7 DEF Packed
  <2>9. /\ q \in Seq(ShelfRecord) /\ Len(q) = n + 1 /\ q[n + 1] = f
        /\ \A j \in 1 .. n : q[j] = shelves[j]
    BY <1>1, <2>6, <2>8, AppendProperties
  <2>10. DOMAIN q = 1 .. (n + 1)
    BY <2>9, LenProperties
  <2>11. \A j \in 1 .. n : /\ j \in DOMAIN q /\ q[j].y = shelves[j].y
                           /\ q[j].height = shelves[j].height /\ shelves[j].x <= q[j].x
    BY <1>2, <2>9, <2>10
  <2>12. IsStacked(q)
    <3> SUFFICES ASSUME NEW i \in 1 .. (n + 1), NEW j \in 1 .. (n + 1), i < j
                 PROVE  q[i].y + q[i].height <= q[j].y
      BY <2>10 DEF IsStacked
    <3>1. CASE j = n + 1
      BY <2>2, <2>6, <2>9, <3>1
    <3>2. CASE j # n + 1
      BY <1>1, <2>9, <3>2 DEF IsStacked
    <3>3. QED BY <3>1, <3>2
  <2>13. Corner(shelves, k) = <<1, b + 1>>
    BY <1>6, <2>1 DEF Corner
  <2>14. PICK s : s = FreshSlot(shelves, k)
    OBVIOUS
  <2>15. s \in Slot /\ s.corner = <<1, b + 1>> /\ s.width = Width[k] /\ s.height = Height[k]
    BY <2>2, <2>13, <2>14, FreshSlotFacts
  <2>16. s.corner[1] = 1 /\ s.corner[2] = b + 1
    BY <2>15
  <2>17. StandsOn(s, q[n + 1])
    BY <1>4, <2>2, <2>4, <2>6, <2>9, <2>15, <2>16 DEF StandsOn
  <2>18. n + 1 \in DOMAIN q /\ n + 1 \notin DOMAIN shelves
    BY <1>1, <2>10
  <2>19. QED BY <1>1, <2>7, <2>9, <2>11, <2>12, <2>14, <2>15, <2>17, <2>18
<1>7. QED BY <1>5, <1>6

LEMMA SlotNumbers ==
  ASSUME NEW s \in Slot
  PROVE  /\ s.corner[1] \in Nat /\ s.corner[2] \in Nat /\ s.width \in Nat /\ s.height \in Nat
         /\ s.generation \in Nat /\ s.pins \in Nat
BY DEF Slot

LEMMA PackedGrows ==
  ASSUME NEW slots \in Seq(Slot), NEW shelves \in Seq(ShelfRecord), IsPacked(slots, shelves),
         NEW k \in Glyphs, frame \in Nat
  PROVE  IsPacked(Append(slots, FreshSlot(shelves, k)), Packed(shelves, k))
<1>1. PICK q, s : q = Packed(shelves, k) /\ s = FreshSlot(shelves, k)
  OBVIOUS
<1>2. IsStacked(shelves)
  BY DEF IsPacked
<1>3. /\ q \in Seq(ShelfRecord) /\ IsStacked(q) /\ s \in Slot
      /\ \A j \in DOMAIN shelves :
           /\ j \in DOMAIN q /\ q[j].y = shelves[j].y /\ q[j].height = shelves[j].height
           /\ shelves[j].x <= q[j].x
  BY <1>1, <1>2, PackedFacts
<1>4. PICK i \in DOMAIN q : /\ StandsOn(s, q[i])
                            /\ i \in DOMAIN shelves => shelves[i].x + 1 = s.corner[1]
  BY <1>1, <1>2, PackedFacts
<1>5. PICK n \in Nat : n = Len(slots) /\ DOMAIN slots = 1 .. n
  BY LenProperties
<1>6. PICK ss : ss = Append(slots, s)
  OBVIOUS
<1>7. /\ DOMAIN ss = 1 .. (n + 1) /\ ss[n + 1] = s
      /\ \A m \in 1 .. n : ss[m] = slots[m] /\ slots[m] \in Slot
  <2>1. /\ ss \in Seq(Slot) /\ Len(ss) = n + 1 /\ ss[n + 1] = s
        /\ \A m \in 1 .. n : ss[m] = slots[m]
    BY <1>3, <1>5, <1>6, AppendProperties
  <2>2. QED BY <1>5, <2>1, LenProperties, ElementOfSeq
<1>8. \A j \in DOMAIN q : q[j].x \in Nat /\ q[j].y \in Nat /\ q[j].height \in Nat
  <2>1. \A j \in DOMAIN q : q[j] \in ShelfRecord
    BY <1>3, LenProperties, ElementOfSeq
  <2>2. \A f \in ShelfRecord : f.x \in Nat /\ f.y \in Nat /\ f.height \in Nat
    BY DEF ShelfRecord
  <2>3. QED BY <2>1, <2>2
<1>9. \A j \in DOMAIN shelves : shelves[j].x \in Nat
  <2>1. \A j \in DOMAIN shelves : shelves[j] \in ShelfRecord
    BY LenProperties, ElementOfSeq
  <2>2. QED BY <2>1 DEF ShelfRecord
<1>10. DOMAIN q \subseteq Nat
  BY <1>3, LenProperties
<1>11. ASSUME NEW m \in 1 .. n
       PROVE  \E j \in DOMAIN shelves : StandsOn(slots[m], shelves[j])
  BY <1>5 DEF IsPacked
<1>12. ASSUME NEW m \in 1 .. n PROVE Apart(slots[m], s)
  <2>1. PICK j \in DOMAIN shelves : StandsOn(slots[m], shelves[j])
    BY <1>11
  <2>2. PICK t : t = slots[m]
    OBVIOUS
  <2>3. /\ t.corner[1] \in Nat /\ t.corner[2] \in Nat /\ t.width \in Nat /\ t.height \in Nat
        /\ s.corner[1] \in Nat /\ s.corner[2] \in Nat /\ s.width \in Nat /\ s.height \in Nat
    BY <1>3, <1>7, <2>2, SlotNumbers
  <2>4. /\ t.corner[2] = q[j].y + 1 /\ t.height + 2 <= q[j].height
        /\ t.corner[1] + t.width + 1 <= shelves[j].x
    BY <1>3, <2>1, <2>2 DEF StandsOn
  <2>5. s.corner[2] = q[i].y + 1 /\ s.height + 2 <= q[i].height
    BY <1>4 DEF StandsOn
  <2>6. /\ j \in DOMAIN q /\ q[j].y \in Nat /\ q[j].height \in Nat /\ shelves[j].x \in Nat
        /\ q[i].y \in Nat /\ q[i].height \in Nat
    BY <1>3, <1>4, <1>8, <1>9
  <2>7. CASE i = j
    <3>1. t.corner[1] + t.width + 2 <= s.corner[1]
      <4>1. shelves[j].x + 1 = s.corner[1]
        BY <1>4, <2>7
      <4>2. PICK x \in Nat, y \in Nat, w \in Nat, z \in Nat :
              x = shelves[j].x /\ y = t.corner[1] /\ w = t.width /\ z = s.corner[1]
        BY <2>3, <2>6
      <4>3. y + w + 1 <= x /\ x + 1 = z
        BY <2>4, <4>1, <4>2
      <4>4. y + w + 2 <= z
        BY <4>3
      <4>5. QED BY <4>2, <4>4
    <3>2. QED BY <2>2, <3>1 DEF Apart
  <2>8. CASE j < i
    <3>1. q[j].y + q[j].height <= q[i].y
      BY <1>3, <2>6, <2>8 DEF IsStacked
    <3>2. t.corner[2] + t.height + 2 <= s.corner[2]
      <4>1. PICK y \in Nat, h \in Nat, z \in Nat : y = q[j].y /\ h = q[j].height /\ z = q[i].y
        BY <2>6
      <4>2. PICK c \in Nat, g \in Nat, d \in Nat :
              c = t.corner[2] /\ g = t.height /\ d = s.corner[2]
        BY <2>3
      <4>3. c = y + 1 /\ g + 2 <= h /\ y + h <= z /\ d = z + 1
        BY <2>4, <2>5, <3>1, <4>1, <4>2
      <4>4. c + g + 2 <= d
        BY <4>3
      <4>5. QED BY <4>2, <4>4
    <3>3. QED BY <2>2, <3>2 DEF Apart
  <2>9. CASE i < j
    <3>1. q[i].y + q[i].height <= q[j].y
      BY <1>3, <2>6, <2>9 DEF IsStacked
    <3>2. s.corner[2] + s.height + 2 <= t.corner[2]
      <4>1. PICK y \in Nat, h \in Nat, z \in Nat : y = q[i].y /\ h = q[i].height /\ z = q[j].y
        BY <2>6
      <4>2. PICK c \in Nat, g \in Nat, d \in Nat :
              c = s.corner[2] /\ g = s.height /\ d = t.corner[2]
        BY <2>3
      <4>3. c = y + 1 /\ g + 2 <= h /\ y + h <= z /\ d = z + 1
        BY <2>4, <2>5, <3>1, <4>1, <4>2
      <4>4. c + g + 2 <= d
        BY <4>3
      <4>5. QED BY <4>2, <4>4
    <3>3. QED BY <2>2, <3>2 DEF Apart
  <2>10. QED BY <1>10, <2>6, <2>7, <2>8, <2>9
<1>13. \A l, m \in 1 .. (n + 1) : l < m => Apart(ss[l], ss[m])
  <2> SUFFICES ASSUME NEW l \in 1 .. (n + 1), NEW m \in 1 .. (n + 1), l < m
               PROVE  Apart(ss[l], ss[m])
    OBVIOUS
  <2>1. CASE m = n + 1
    BY <1>7, <1>12, <2>1
  <2>2. CASE m # n + 1
    <3>1. l \in DOMAIN slots /\ m \in DOMAIN slots /\ ss[l] = slots[l] /\ ss[m] = slots[m]
      BY <1>5, <1>7, <2>2
    <3>2. QED BY <3>1 DEF IsPacked
  <2>3. QED BY <2>1, <2>2
<1>14. \A m \in 1 .. (n + 1) : \E j \in DOMAIN q : StandsOn(ss[m], q[j])
  <2> SUFFICES ASSUME NEW m \in 1 .. (n + 1) PROVE \E j \in DOMAIN q : StandsOn(ss[m], q[j])
    OBVIOUS
  <2>1. CASE m = n + 1
    BY <1>4, <1>7, <2>1
  <2>2. CASE m # n + 1
    <3>1. m \in 1 .. n
      BY <2>2
    <3>2. PICK j \in DOMAIN shelves : StandsOn(slots[m], shelves[j])
      BY <1>11, <3>1
    <3>3. slots[m].corner[1] \in Nat /\ slots[m].width \in Nat
      BY <1>7, <3>1, SlotNumbers
    <3>4. j \in DOMAIN q /\ shelves[j].x \in Nat /\ q[j].x \in Nat
      BY <1>3, <1>8, <1>9
    <3>5. StandsOn(slots[m], q[j])
      <4>1. q[j].y = shelves[j].y /\ q[j].height = shelves[j].height /\ shelves[j].x <= q[j].x
        BY <1>3
      <4>2. slots[m].corner[1] + slots[m].width + 1 <= q[j].x
        BY <3>2, <3>3, <3>4, <4>1, SMTT(30) DEF StandsOn
      <4>3. QED BY <3>2, <4>1, <4>2 DEF StandsOn
    <3>6. QED BY <1>7, <3>1, <3>4, <3>5
  <2>3. QED BY <2>1, <2>2
<1>15. QED BY <1>1, <1>3, <1>6, <1>7, <1>13, <1>14 DEF IsPacked

-----------------------------------------------------------------------------
(* A slot more.                                                            *)

SlotAt(c) == pages[c[1]].slots[c[2]]

LEMMA SlotAdded ==
  ASSUME PlacesInv, NEW k \in Glyphs, Resident(k) = {}, UNCHANGED <<device, frame, flights>>,
         NEW p \in Nat, NEW m \in Nat,
         pages' \in Seq(Page), PagesArePacked', nextPage' = Len(pages') + 1,
         \A q \in DOMAIN pages' : pages'[q].id = q,
         <<p, m>> \notin AllSlots, AllSlots' = AllSlots \cup {<<p, m>>},
         \A c \in AllSlots : SlotAt(c)' = SlotAt(c),
         pages'[p].slots[m].generation = 1, pages'[p].slots[m].key = k,
         pages'[p].slots[m].pins = 0,
         Inserted(k, Ref(k, p, m, 1))
  PROVE  PlacesStep
<1>1. PICK r : r = Ref(k, p, m, 1)
  OBVIOUS
<1>2. /\ r \in Reference /\ r.device = device /\ r.page = p /\ r.slot = m /\ r.generation = 1
      /\ r.key = k /\ device \in Nat
  BY <1>1 DEF Ref, Reference, PlacesInv, AtlasTypeOK
<1>3. index' = index \cup {<<k, r>>} /\ drawn' = drawn \cup {r}
  BY <1>1 DEF Inserted
<1>4. \A q, n : <<q, n>> \in AllSlots <=> q \in DOMAIN pages /\ n \in DOMAIN pages[q].slots
  BY DEF AllSlots
<1>5. \A q, n : <<q, n>> \in AllSlots' <=> q \in DOMAIN pages' /\ n \in DOMAIN pages'[q].slots
  BY DEF AllSlots
<1>6. \A q, n : <<q, n>> \in AllSlots => pages'[q].slots[n] = pages[q].slots[n]
  BY DEF SlotAt
<1>7. p \in DOMAIN pages' /\ m \in DOMAIN pages'[p].slots
  BY <1>5
<1>8. ASSUME NEW u \in drawn, u.device = device
      PROVE  <<u.page, u.slot>> \in AllSlots /\ u.page \in DOMAIN pages'
             /\ u.slot \in DOMAIN pages'[u.page].slots
             /\ pages'[u.page].slots[u.slot] = pages[u.page].slots[u.slot]
  <2>1. <<u.page, u.slot>> \in AllSlots
    BY <1>4, <1>8 DEF PlacesInv, RefsAreBehind
  <2>2. <<u.page, u.slot>> \in AllSlots'
    BY <2>1
  <2>3. QED BY <1>5, <1>6, <2>1, <2>2
<1>9. r \notin drawn
  <2> SUFFICES ASSUME r \in drawn PROVE FALSE
    OBVIOUS
  <2>1. <<p, m>> \in AllSlots
    BY <1>2, <1>8
  <2>2. QED BY <2>1
<1>10. ASSUME NEW u \in drawn PROVE Validates(u)' <=> Validates(u)
  <2>1. CASE u.device # device
    BY <2>1 DEF Validates
  <2>2. CASE u.device = device
    <3>1. u.page \in DOMAIN pages /\ u.slot \in DOMAIN pages[u.page].slots
      BY <2>2 DEF PlacesInv, RefsAreBehind
    <3>2. QED BY <1>8, <2>2, <3>1 DEF Validates, SlotsAt
  <2>3. QED BY <2>1, <2>2
<1>11. Validates(r)'
  BY <1>2, <1>7 DEF Validates, SlotsAt
<1>12. RefsAreBehind'
  <2>1. ASSUME NEW u \in drawn
        PROVE  /\ u.device <= device
               /\ u.device = device =>
                    /\ u.page \in DOMAIN pages' /\ u.slot \in DOMAIN pages'[u.page].slots
                    /\ u.generation <= pages'[u.page].slots[u.slot].generation
                    /\ u.generation = pages'[u.page].slots[u.slot].generation =>
                         u.key = pages'[u.page].slots[u.slot].key
    <3>1. /\ u.device <= device
          /\ u.device = device =>
               /\ u.generation <= pages[u.page].slots[u.slot].generation
               /\ u.generation = pages[u.page].slots[u.slot].generation =>
                    u.key = pages[u.page].slots[u.slot].key
      BY DEF PlacesInv, RefsAreBehind
    <3>2. QED BY <1>8, <3>1
  <2>2. /\ r.device <= device /\ r.generation <= pages'[r.page].slots[r.slot].generation
        /\ r.key = pages'[r.page].slots[r.slot].key
    BY <1>2
  <2>3. QED BY <1>2, <1>3, <1>7, <2>1, <2>2 DEF RefsAreBehind
<1>13. PinsAreCounted'
  <2>1. Cardinality(PlacesOf(flights, {r})) = 0
    <3>1. PlacesOf(flights, {r}) = {}
      BY <1>9, FlightFacts DEF PlacesOf
    <3>2. QED BY <3>1, FS_EmptySet
  <2>2. ASSUME NEW u \in drawn, Validates(u)'
        PROVE  pages'[u.page].slots[u.slot].pins = Cardinality(PlacesOf(flights, {u}))
    <3>1. Validates(u) /\ u.device = device
      BY <1>10, <2>2, ValidatesIs
    <3>2. QED BY <1>8, <3>1 DEF PlacesInv, PinsAreCounted
  <2>3. \A i \in DOMAIN flights : flights[i].device = device => Validates(flights[i])'
    BY <1>10, FlightFacts DEF PlacesInv, PinsAreCounted
  <2>4. QED BY <1>2, <1>3, <2>1, <2>2, <2>3 DEF PinsAreCounted
<1>14. AtlasTypeOK'
  <2>1. flights \in Seq(drawn) /\ drawn \subseteq drawn' /\ drawn' \subseteq Reference
    BY <1>2, <1>3 DEF PlacesInv, AtlasTypeOK
  <2>2. flights \in Seq(drawn')
    BY <2>1, SeqMonotonic
  <2>3. index' \subseteq Glyphs \X drawn'
    BY <1>3 DEF PlacesInv, AtlasTypeOK
  <2>4. nextPage' \in Nat
    BY LenProperties
  <2>5. QED BY <1>3, <2>1, <2>2, <2>3, <2>4 DEF PlacesInv, AtlasTypeOK
<1>15. PagesAreNumbered'
  BY DEF PagesAreNumbered
<1>16. IndexMatchesSlots'
  <2>1. \A e \in index' : Validates(e[2])' /\ e[2].key = e[1]
    BY <1>2, <1>3, <1>10, <1>11, IndexFacts
  <2>2. \A e, f \in index' : e[1] = f[1] => e = f
    <3>1. \A e \in index : e[1] # k
      BY IndexFacts
    <3>2. \A e, f \in index : e[1] = f[1] => e = f
      BY DEF PlacesInv, IndexMatchesSlots
    <3>3. <<k, r>>[1] = k
      OBVIOUS
    <3>4. QED BY <1>3, <3>1, <3>2, <3>3
  <2>3. ASSUME NEW c \in AllSlots'
        PROVE  \E e \in index' : e[2].page = pages'[c[1]].id /\ e[2].slot = c[2]
    <3>1. CASE c = <<p, m>>
      <4>1. c[1] = p /\ c[2] = m /\ <<k, r>>[2] = r
        BY <3>1
      <4>2. <<k, r>> \in index'
        BY <1>3
      <4>3. pages'[c[1]].id = p
        BY <1>7, <4>1
      <4>4. QED BY <1>2, <4>1, <4>2, <4>3
    <3>2. CASE c \in AllSlots
      <4>1. c = <<c[1], c[2]>> /\ c[1] \in DOMAIN pages /\ pages[c[1]].id = c[1]
        BY <3>2, IndexFacts, PageFacts
      <4>2. pages'[c[1]].id = c[1]
        BY <1>5, <4>1
      <4>3. PICK e \in index : e[2].page = c[1] /\ e[2].slot = c[2]
        BY <3>2, <4>1 DEF PlacesInv, IndexMatchesSlots
      <4>4. QED BY <1>3, <4>2, <4>3
    <3>3. QED BY <3>1, <3>2
  <2>4. QED BY <2>1, <2>2, <2>3 DEF IndexMatchesSlots
<1>17. StaysStale
  BY <1>10 DEF StaysStale
<1>18. QED BY <1>12, <1>13, <1>14, <1>15, <1>16, <1>17 DEF PlacesStep, PlacesInv

LEMMA CreateSlotStep ==
  ASSUME PlacesInv, NEW k \in Glyphs, CreateSlot(k), Roomy(k) # {}, Resident(k) = {},
         UNCHANGED <<device, frame, flights>>
  PROVE  PlacesStep
<1>1. PICK p \in DOMAIN pages : p = Min(Roomy(k))
  <2>1. Roomy(k) \subseteq DOMAIN pages /\ DOMAIN pages \subseteq Nat
    BY PageFacts DEF Roomy
  <2>2. Min(Roomy(k)) \in Roomy(k)
    BY <2>1, LeastPlace
  <2>3. QED BY <2>1, <2>2
<1>2. PICK page \in Page, m \in Nat :
        /\ page = pages[p] /\ page.id = p /\ m = Len(page.slots) + 1
        /\ page.slots \in Seq(Slot) /\ page.shelves \in Seq(ShelfRecord)
        /\ DOMAIN page.slots = 1 .. (m - 1) /\ IsPacked(page.slots, page.shelves)
  <2>1. /\ pages[p] \in Page /\ pages[p].id = p /\ pages[p].slots \in Seq(Slot)
        /\ Len(pages[p].slots) \in Nat /\ DOMAIN pages[p].slots = 1 .. Len(pages[p].slots)
    BY PageFacts
  <2>2. IsPacked(pages[p].slots, pages[p].shelves)
    BY DEF PlacesInv, PagesArePacked
  <2>3. pages[p].shelves \in Seq(ShelfRecord)
    BY <2>1 DEF Page
  <2>4. QED BY <2>1, <2>2, <2>3
<1>3. PICK t, ss, shelves : /\ t = FreshSlot(page.shelves, k) /\ ss = Append(page.slots, t)
                            /\ shelves = Packed(page.shelves, k)
  OBVIOUS
<1>4. frame \in Nat /\ p \in Nat /\ DOMAIN pages = 1 .. Len(pages) /\ pages \in Seq(Page)
  BY PageFacts DEF PlacesInv, AtlasTypeOK
<1>5. /\ t \in Slot /\ shelves \in Seq(ShelfRecord) /\ IsPacked(ss, shelves)
      /\ t.generation = 1 /\ t.key = k /\ t.pins = 0
  <2>1. t \in Slot /\ shelves \in Seq(ShelfRecord)
    BY <1>2, <1>3, <1>4, PackedFacts DEF IsPacked
  <2>2. IsPacked(ss, shelves)
    BY <1>2, <1>3, <1>4, PackedGrows
  <2>3. t.generation = 1 /\ t.key = k /\ t.pins = 0
    BY <1>3 DEF FreshSlot
  <2>4. QED BY <2>1, <2>2, <2>3
<1>6. /\ ss \in Seq(Slot) /\ DOMAIN ss = 1 .. m /\ ss[m] = t
      /\ \A n \in DOMAIN page.slots : ss[n] = page.slots[n]
  <2>1. /\ ss \in Seq(Slot) /\ Len(ss) = m /\ ss[m] = t
        /\ \A n \in 1 .. (m - 1) : ss[n] = page.slots[n]
    BY <1>2, <1>3, <1>5, AppendProperties
  <2>2. QED BY <1>2, <2>1, LenProperties
<1>7. PICK q : q = [page EXCEPT !.slots = ss, !.shelves = shelves]
  OBVIOUS
<1>8. q \in Page /\ q.id = p /\ q.slots = ss /\ q.shelves = shelves
  BY <1>2, <1>5, <1>6, <1>7 DEF Page
<1>9. pages' = [pages EXCEPT ![p] = q]
  <2>1. pages' = [pages EXCEPT ![p].slots = ss, ![p].shelves = shelves]
    BY <1>1, <1>2, <1>3 DEF CreateSlot
  <2>2. QED BY <1>2, <1>7, <2>1
<1>10. /\ pages' \in Seq(Page) /\ Len(pages') = Len(pages) /\ DOMAIN pages' = DOMAIN pages
       /\ \A i \in DOMAIN pages : pages'[i] = IF i = p THEN q ELSE pages[i]
  <2>1. /\ pages' \in Seq(Page) /\ Len(pages') = Len(pages)
        /\ \A i \in 1 .. Len(pages) : pages'[i] = IF i = p THEN q ELSE pages[i]
    BY <1>4, <1>8, <1>9, ExceptSeq
  <2>2. QED BY <1>4, <2>1, LenProperties
<1>11. PagesArePacked' /\ \A i \in DOMAIN pages' : pages'[i].id = i
  BY <1>5, <1>8, <1>10, PageFacts DEF PlacesInv, PagesArePacked
<1>12. nextPage' = Len(pages') + 1
  BY <1>10 DEF CreateSlot, PlacesInv, PagesAreNumbered
<1>13. \A i, n : <<i, n>> \in AllSlots <=> i \in DOMAIN pages /\ n \in DOMAIN pages[i].slots
  BY DEF AllSlots
<1>14. \A i, n : <<i, n>> \in AllSlots' <=> i \in DOMAIN pages' /\ n \in DOMAIN pages'[i].slots
  BY DEF AllSlots
<1>15. <<p, m>> \notin AllSlots
  BY <1>2, <1>13
<1>16. AllSlots' = AllSlots \cup {<<p, m>>}
  <2>1. ASSUME NEW i, NEW n
        PROVE  <<i, n>> \in AllSlots' <=> <<i, n>> \in AllSlots \/ (i = p /\ n = m)
    <3>1. CASE i = p
      <4>1. DOMAIN pages'[i].slots = DOMAIN pages[i].slots \cup {m}
        BY <1>2, <1>6, <1>8, <1>10, <3>1
      <4>2. QED BY <1>10, <1>13, <1>14, <3>1, <4>1
    <3>2. CASE i # p
      BY <1>10, <1>13, <1>14, <3>2
    <3>3. QED BY <3>1, <3>2
  <2>2. /\ \A c \in AllSlots : c = <<c[1], c[2]>>
        /\ \A c \in AllSlots' : c = <<c[1], c[2]>>
    BY DEF AllSlots
  <2>3. QED BY <2>1, <2>2
<1>17. \A c \in AllSlots : SlotAt(c)' = SlotAt(c)
  <2> SUFFICES ASSUME NEW c \in AllSlots PROVE pages'[c[1]].slots[c[2]] = pages[c[1]].slots[c[2]]
    BY DEF SlotAt
  <2>1. c[1] \in DOMAIN pages /\ c[2] \in DOMAIN pages[c[1]].slots
    BY IndexFacts
  <2>2. CASE c[1] = p
    <3>1. c[2] \in DOMAIN page.slots /\ page.slots[c[2]] = pages[p].slots[c[2]]
      BY <1>2, <2>1, <2>2
    <3>2. pages'[p].slots = ss
      BY <1>8, <1>10
    <3>3. QED BY <1>6, <2>2, <3>1, <3>2
  <2>3. CASE c[1] # p
    BY <1>10, <2>1, <2>3
  <2>4. QED BY <2>2, <2>3
<1>18. pages'[p].slots[m] = t
  BY <1>6, <1>8, <1>10
<1>19. Inserted(k, Ref(k, p, m, 1))
  BY <1>1, <1>2 DEF CreateSlot
<1>20. QED BY <1>4, <1>5, <1>10, <1>11, <1>12, <1>15, <1>16, <1>17, <1>18, <1>19, SlotAdded

LEMMA CreatePageStep ==
  ASSUME PlacesInv, NEW k \in Glyphs, CreatePage(k), Resident(k) = {},
         UNCHANGED <<device, frame, flights>>
  PROVE  PlacesStep
<1>1. PICK t, ss, shelves : /\ t = FreshSlot(<<>>, k) /\ ss = <<t>> /\ shelves = Packed(<<>>, k)
  OBVIOUS
<1>2. PICK n \in Nat : n = Len(pages) /\ DOMAIN pages = 1 .. n /\ nextPage = n + 1
  BY PageFacts DEF PlacesInv, PagesAreNumbered
<1>3. pages \in Seq(Page) /\ frame \in Nat
  BY DEF PlacesInv, AtlasTypeOK
<1>4. <<>> \in Seq(Slot) /\ <<>> \in Seq(ShelfRecord) /\ IsPacked(<<>>, <<>>)
  BY DEF IsPacked, IsStacked
<1>5. /\ t \in Slot /\ shelves \in Seq(ShelfRecord) /\ IsPacked(ss, shelves)
      /\ t.generation = 1 /\ t.key = k /\ t.pins = 0
  <2>1. t \in Slot /\ shelves \in Seq(ShelfRecord)
    BY <1>1, <1>3, <1>4, PackedFacts DEF IsPacked
  <2>2. ss = Append(<<>>, t)
    BY <1>1
  <2>3. IsPacked(ss, shelves)
    BY <1>1, <1>3, <1>4, <2>2, PackedGrows
  <2>4. t.generation = 1 /\ t.key = k /\ t.pins = 0
    BY <1>1 DEF FreshSlot
  <2>5. QED BY <2>1, <2>3, <2>4
<1>6. ss \in Seq(Slot) /\ DOMAIN ss = {1} /\ ss[1] = t
  BY <1>1, <1>5
<1>7. PICK q : q = [id |-> n + 1, kind |-> Kind[k], slots |-> ss, shelves |-> shelves]
  OBVIOUS
<1>8. q \in Page /\ q.id = n + 1 /\ q.slots = ss /\ q.shelves = shelves
  BY <1>2, <1>5, <1>6, <1>7 DEF Page, Kinds
<1>9. pages' = Append(pages, q) /\ nextPage' = n + 2
  BY <1>1, <1>2, <1>7 DEF CreatePage
<1>10. /\ pages' \in Seq(Page) /\ Len(pages') = n + 1 /\ DOMAIN pages' = 1 .. (n + 1)
       /\ pages'[n + 1] = q /\ \A i \in DOMAIN pages : pages'[i] = pages[i]
  <2>1. /\ pages' \in Seq(Page) /\ Len(pages') = n + 1 /\ pages'[n + 1] = q
        /\ \A i \in 1 .. n : pages'[i] = pages[i]
    BY <1>2, <1>3, <1>8, <1>9, AppendProperties
  <2>2. QED BY <1>2, <2>1, LenProperties
<1>11. PagesArePacked' /\ \A i \in DOMAIN pages' : pages'[i].id = i
  <2> SUFFICES ASSUME NEW i \in DOMAIN pages'
               PROVE  IsPacked(pages'[i].slots, pages'[i].shelves) /\ pages'[i].id = i
    BY DEF PagesArePacked
  <2>1. CASE i = n + 1
    BY <1>5, <1>8, <1>10, <2>1
  <2>2. CASE i # n + 1
    <3>1. i \in DOMAIN pages
      BY <1>2, <1>10, <2>2
    <3>2. QED BY <1>10, <3>1, PageFacts DEF PlacesInv, PagesArePacked
  <2>3. QED BY <2>1, <2>2
<1>12. nextPage' = Len(pages') + 1
  BY <1>9, <1>10
<1>13. \A i, l : <<i, l>> \in AllSlots <=> i \in DOMAIN pages /\ l \in DOMAIN pages[i].slots
  BY DEF AllSlots
<1>14. \A i, l : <<i, l>> \in AllSlots' <=> i \in DOMAIN pages' /\ l \in DOMAIN pages'[i].slots
  BY DEF AllSlots
<1>15. <<n + 1, 1>> \notin AllSlots
  BY <1>2, <1>13
<1>16. AllSlots' = AllSlots \cup {<<n + 1, 1>>}
  <2>1. ASSUME NEW i, NEW l
        PROVE  <<i, l>> \in AllSlots' <=> <<i, l>> \in AllSlots \/ (i = n + 1 /\ l = 1)
    <3>1. CASE i = n + 1
      BY <1>2, <1>6, <1>8, <1>10, <1>13, <1>14, <3>1
    <3>2. CASE i # n + 1
      BY <1>2, <1>10, <1>13, <1>14, <3>2
    <3>3. QED BY <3>1, <3>2
  <2>2. /\ \A c \in AllSlots : c = <<c[1], c[2]>>
        /\ \A c \in AllSlots' : c = <<c[1], c[2]>>
    BY DEF AllSlots
  <2>3. QED BY <2>1, <2>2
<1>17. \A c \in AllSlots : SlotAt(c)' = SlotAt(c)
  BY <1>10, IndexFacts DEF SlotAt
<1>18. pages'[n + 1].slots[1] = t
  BY <1>6, <1>8, <1>10
<1>19. Inserted(k, Ref(k, n + 1, 1, 1))
  BY <1>2 DEF CreatePage
<1>20. n + 1 \in Nat
  OBVIOUS
<1>21. QED BY <1>5, <1>10, <1>11, <1>12, <1>15, <1>16, <1>17, <1>18, <1>19, <1>20, SlotAdded

\* Nothing the atlas holds changes.
LEMMA PlacesStand ==
  ASSUME PlacesInv, UNCHANGED <<device, pages, nextPage, index, drawn, flights>>, frame' \in Nat
  PROVE  PlacesStep
<1>1. \A r : Validates(r)' <=> Validates(r)
  BY DEF Validates, SlotsAt
<1>2. AtlasTypeOK' /\ PagesAreNumbered' /\ RefsAreBehind' /\ PagesArePacked'
  BY DEF PlacesInv, AtlasTypeOK, PagesAreNumbered, RefsAreBehind, PagesArePacked
<1>3. PinsAreCounted' /\ StaysStale
  BY <1>1 DEF PlacesInv, PinsAreCounted, StaysStale
<1>4. IndexMatchesSlots'
  BY <1>1 DEF PlacesInv, IndexMatchesSlots, AllSlots
<1>5. QED BY <1>2, <1>3, <1>4 DEF PlacesStep, PlacesInv

LEMMA PlaceStep ==
  ASSUME PlacesInv, GlyphsFit, NEW k \in Glyphs, Place(k) \/ Refused(k),
         UNCHANGED <<device, frame, flights>>
  PROVE  PlacesStep
<1>1. CASE Refused(k)
  <2>1. UNCHANGED <<pages, nextPage, index, drawn>>
    BY <1>1, EmptyPageHasRoom DEF Refused
  <2>2. frame' \in Nat
    BY DEF PlacesInv, AtlasTypeOK
  <2>3. QED BY <2>1, <2>2, PlacesStand
<1>2. CASE Place(k)
  <2>1. CASE Resident(k) # {}
    BY <1>2, <2>1, TouchStep DEF Place
  <2>2. CASE Resident(k) = {} /\ Roomy(k) # {}
    BY <1>2, <2>2, CreateSlotStep DEF Place
  <2>3. CASE Resident(k) = {} /\ Roomy(k) = {} /\ Len(pages) < MaxPages /\ HasRoom(<<>>, k)
    BY <1>2, <2>3, CreatePageStep DEF Place
  <2>4. CASE Resident(k) = {} /\ Roomy(k) = {} /\ ~(Len(pages) < MaxPages /\ HasRoom(<<>>, k))
    BY <1>2, <2>4, EvictStep DEF Place
  <2>5. QED BY <2>1, <2>2, <2>3, <2>4
<1>3. QED BY <1>1, <1>2

LEMMA ResetStep ==
  ASSUME PlacesInv, ResetDevice
  PROVE  PlacesStep
<1>1. /\ device' = device + 1 /\ device \in Nat /\ pages' = <<>> /\ index' = {} /\ nextPage' = 1
      /\ UNCHANGED <<drawn, flights>> /\ frame' \in Nat
  BY DEF ResetDevice, PlacesInv, AtlasTypeOK
<1>2. ASSUME NEW r \in drawn PROVE r.device <= device' /\ r.device # device'
  <2>1. r.device \in Nat /\ r.device <= device
    BY DEF PlacesInv, AtlasTypeOK, RefsAreBehind, Reference
  <2>2. QED BY <1>1, <2>1
<1>3. ASSUME NEW r \in drawn PROVE ~Validates(r)'
  BY <1>2 DEF Validates
<1>4. AtlasTypeOK'
  BY <1>1 DEF PlacesInv, AtlasTypeOK
<1>5. PagesAreNumbered' /\ PagesArePacked' /\ AllSlots' = {}
  BY <1>1 DEF PagesAreNumbered, PagesArePacked, AllSlots
<1>6. RefsAreBehind'
  BY <1>1, <1>2 DEF RefsAreBehind
<1>7. PinsAreCounted'
  BY <1>1, <1>2, <1>3, FlightFacts DEF PinsAreCounted
<1>8. IndexMatchesSlots'
  BY <1>1, <1>5 DEF IndexMatchesSlots
<1>9. QED BY <1>3, <1>4, <1>5, <1>6, <1>7, <1>8 DEF PlacesStep, PlacesInv, StaysStale

-----------------------------------------------------------------------------
(* The queue of misses.                                                    *)

LEMMA QueueFacts ==
  ASSUME QueueInv
  PROVE  /\ queue \in Seq(Request) /\ Len(queue) \in Nat /\ DOMAIN queue = 1 .. Len(queue)
         /\ \A i \in DOMAIN queue : /\ queue[i] \in Request /\ queue[i].key \in Glyphs
                                    /\ queue[i].priority \in Priorities
<1>1. queue \in Seq(Request) /\ Len(queue) \in Nat /\ DOMAIN queue = 1 .. Len(queue)
  BY LenProperties DEF QueueInv
<1>2. \A i \in DOMAIN queue : queue[i] \in Request
  BY <1>1, ElementOfSeq
<1>3. QED BY <1>1, <1>2 DEF Request

\* A queue with one request less, and then with one for a glyph it has not.
LEMMA QueueLoses ==
  ASSUME QueueInv, NEW i \in DOMAIN queue
  PROVE  LET rest == RemoveAt(queue, i) IN
           /\ rest \in Seq(Request) /\ Len(rest) = Len(queue) - 1
           /\ \A a, b \in DOMAIN rest : rest[a].key = rest[b].key => a = b
           /\ \A a \in DOMAIN rest :
                rest[a].key # queue[i].key /\ \E b \in DOMAIN queue : rest[a] = queue[b]
<1> DEFINE rest == RemoveAt(queue, i)
<1>1. PICK n \in Nat : n = Len(queue) /\ DOMAIN queue = 1 .. n
  BY QueueFacts
<1>2. /\ rest \in Seq(Request) /\ Len(rest) = n - 1
      /\ \A a \in 1 .. (n - 1) : rest[a] = IF a < i THEN queue[a] ELSE queue[a + 1]
  <2>1. queue \in Seq(Request) /\ i \in 1 .. Len(queue)
    BY <1>1 DEF QueueInv
  <2>2. /\ rest \in Seq(Request) /\ Len(rest) = Len(queue) - 1
        /\ \A a \in 1 .. (Len(queue) - 1) : rest[a] = IF a < i THEN queue[a] ELSE queue[a + 1]
    BY <2>1, Removed
  <2> HIDE DEF rest
  <2>3. QED BY <1>1, <2>2
<1>3. DOMAIN rest = 1 .. (n - 1)
  BY <1>2, LenProperties
<1> HIDE DEF rest
<1>4. PICK up : up = [a \in 1 .. (n - 1) |-> IF a < i THEN a ELSE a + 1]
  OBVIOUS
<1>5. /\ \A a \in 1 .. (n - 1) : up[a] \in 1 .. n /\ up[a] # i /\ rest[a] = queue[up[a]]
      /\ \A a, b \in 1 .. (n - 1) : up[a] = up[b] => a = b
  BY <1>1, <1>2, <1>4
<1>6. \A a, b \in 1 .. n : queue[a].key = queue[b].key => a = b
  BY <1>1 DEF QueueInv
<1>7. \A a, b \in DOMAIN rest : rest[a].key = rest[b].key => a = b
  BY <1>3, <1>5, <1>6
<1>8. \A a \in DOMAIN rest :
        rest[a].key # queue[i].key /\ \E b \in DOMAIN queue : rest[a] = queue[b]
  <2>1. TAKE a \in DOMAIN rest
  <2>2. PICK b : b = up[a] /\ b \in 1 .. n /\ b # i /\ rest[a] = queue[b]
    BY <1>3, <1>5
  <2>3. rest[a].key # queue[i].key
    BY <1>1, <1>6, <2>2
  <2>4. QED BY <1>1, <2>2, <2>3
<1>9. QED BY <1>1, <1>2, <1>7, <1>8 DEF rest

LEMMA QueueGains ==
  ASSUME NEW q \in Seq(Request), Len(q) < QueueCapacity, NEW x \in Request,
         \A a, b \in DOMAIN q : q[a].key = q[b].key => a = b,
         \A a \in DOMAIN q : q[a].key # x.key,
         queue' = Append(q, x)
  PROVE  QueueInv'
<1>1. PICK n \in Nat : n = Len(q) /\ DOMAIN q = 1 .. n
  BY LenProperties
<1>2. /\ queue' \in Seq(Request) /\ Len(queue') = n + 1 /\ queue'[n + 1] = x
      /\ \A a \in 1 .. n : queue'[a] = q[a]
  BY <1>1, AppendProperties
<1>3. DOMAIN queue' = 1 .. (n + 1)
  BY <1>2, LenProperties
<1>4. ASSUME NEW a \in DOMAIN queue', NEW b \in DOMAIN queue', queue'[a].key = queue'[b].key
      PROVE  a = b
  <2>1. \A c \in DOMAIN queue' : c = n + 1 \/ (c \in DOMAIN q /\ queue'[c] = q[c])
    BY <1>1, <1>2, <1>3
  <2>2. QED BY <1>2, <1>4, <2>1
<1>5. Len(queue') <= QueueCapacity
  BY <1>1, <1>2, AtlasConstants
<1>6. QED BY <1>2, <1>4, <1>5 DEF QueueInv

LEMMA EnqueueStep ==
  ASSUME QueueInv, NEW k \in Glyphs, NEW p \in Priorities, Enqueue(k, p)
  PROVE  QueueInv'
<1>1. PICK x \in Request : x = [key |-> k, priority |-> p] /\ x.key = k
  <2>1. [key |-> k, priority |-> p] \in Request
    BY DEF Request
  <2>2. [key |-> k, priority |-> p].key = k
    OBVIOUS
  <2>3. QED BY <2>1, <2>2, Zenon
<1>2. PICK same : same = {i \in DOMAIN queue : queue[i].key = k}
  OBVIOUS
<1>3. PICK n \in Nat : n = Len(queue) /\ DOMAIN queue = 1 .. n
  BY QueueFacts
<1>4. \A i \in 1 .. n : queue[i] \in Request
  BY <1>3, QueueFacts
<1>5. IF same # {}
      THEN queue' = [i \in DOMAIN queue |->
             IF i \in same /\ queue[i].priority < p THEN x ELSE queue[i]]
      ELSE IF Len(queue) < QueueCapacity THEN queue' = Append(queue, x)
      ELSE \E i \in DOMAIN queue :
             queue' = IF queue[i].priority < p THEN Append(RemoveAt(queue, i), x) ELSE queue
  BY <1>1, <1>2 DEF Enqueue, SameKey
<1>6. CASE same # {}
  <2>1. queue' = [i \in 1 .. n |-> IF i \in same /\ queue[i].priority < p THEN x ELSE queue[i]]
    BY <1>3, <1>5, <1>6
  <2>2. \A i \in 1 .. n :
          /\ (IF i \in same /\ queue[i].priority < p THEN x ELSE queue[i]) \in Request
          /\ queue'[i].key = queue[i].key
    <3>1. ASSUME NEW i \in 1 .. n
          PROVE  /\ (IF i \in same /\ queue[i].priority < p THEN x ELSE queue[i]) \in Request
                 /\ queue'[i].key = queue[i].key
      BY <1>1, <1>2, <1>4, <2>1
    <3>2. QED BY <3>1
  <2>3. queue' \in Seq(Request) /\ Len(queue') = n /\ DOMAIN queue' = 1 .. n
    BY <2>1, <2>2
  <2>4. Len(queue') <= QueueCapacity
    BY <1>3, <2>3 DEF QueueInv
  <2>5. \A a, b \in DOMAIN queue' : queue'[a].key = queue'[b].key => a = b
    BY <1>3, <2>2, <2>3 DEF QueueInv
  <2>6. QED BY <2>3, <2>4, <2>5 DEF QueueInv
<1>7. CASE same = {}
  <2>1. \A a \in DOMAIN queue : queue[a].key # x.key
    BY <1>1, <1>2, <1>7
  <2>2. CASE Len(queue) < QueueCapacity
    BY <1>1, <1>5, <1>7, <2>1, <2>2, QueueGains DEF QueueInv
  <2>3. CASE ~(Len(queue) < QueueCapacity)
    <3>1. PICK i \in DOMAIN queue :
            queue' = IF queue[i].priority < p THEN Append(RemoveAt(queue, i), x) ELSE queue
      BY <1>5, <1>7, <2>3
    <3>2. CASE queue[i].priority < p
      <4>1. PICK rest \in Seq(Request) :
              /\ rest = RemoveAt(queue, i) /\ Len(rest) = Len(queue) - 1
              /\ \A a, b \in DOMAIN rest : rest[a].key = rest[b].key => a = b
              /\ \A a \in DOMAIN rest : \E b \in DOMAIN queue : rest[a] = queue[b]
        BY QueueLoses
      <4>2. \A a \in DOMAIN rest : rest[a].key # x.key
        BY <2>1, <4>1
      <4>3. Len(rest) < QueueCapacity
        BY <1>3, <4>1, AtlasConstants DEF QueueInv
      <4>4. queue' = Append(rest, x)
        BY <3>1, <3>2, <4>1
      <4>5. QED BY <1>1, <4>1, <4>2, <4>3, <4>4, QueueGains
    <3>3. CASE ~(queue[i].priority < p)
      BY <3>1, <3>3 DEF QueueInv
    <3>4. QED BY <3>2, <3>3
  <2>4. QED BY <2>2, <2>3
<1>8. QED BY <1>6, <1>7

LEMMA ProcessStep ==
  ASSUME AtlasInv, GlyphsFit, ProcessRequest
  PROVE  AtlasInv' /\ StaysStale
<1>1. PICK i \in DOMAIN queue :
        /\ \/ Place(queue[i].key) /\ queue' = RemoveAt(queue, i)
           \/ Refused(queue[i].key) /\ queue' = Append(RemoveAt(queue, i), queue[i])
           \/ queue' = RemoveAt(queue, i) /\ UNCHANGED <<pages, nextPage, index, drawn>>
        /\ UNCHANGED <<device, frame, flights>>
  BY DEF ProcessRequest
<1>2. queue[i] \in Request /\ queue[i].key \in Glyphs /\ Len(queue) \in Nat
  BY QueueFacts DEF AtlasInv
<1>3. PICK rest \in Seq(Request) :
        /\ rest = RemoveAt(queue, i) /\ Len(rest) = Len(queue) - 1
        /\ \A a, b \in DOMAIN rest : rest[a].key = rest[b].key => a = b
        /\ \A a \in DOMAIN rest : rest[a].key # queue[i].key
  BY QueueLoses DEF AtlasInv
<1>4. Len(rest) < QueueCapacity
  BY <1>2, <1>3, AtlasConstants DEF AtlasInv, QueueInv
<1>5. QueueInv'
  <2>1. CASE queue' = rest
    BY <1>2, <1>3, <1>4, <2>1, AtlasConstants DEF QueueInv
  <2>2. CASE queue' = Append(rest, queue[i])
    BY <1>2, <1>3, <1>4, <2>2, QueueGains
  <2>3. QED BY <1>1, <1>3, <2>1, <2>2
<1>6. PlacesStep
  <2>1. CASE Place(queue[i].key) \/ Refused(queue[i].key)
    BY <1>1, <1>2, <2>1, PlaceStep DEF AtlasInv
  <2>2. CASE UNCHANGED <<pages, nextPage, index, drawn>>
    <3>1. frame' \in Nat
      BY <1>1 DEF AtlasInv, PlacesInv, AtlasTypeOK
    <3>2. QED BY <1>1, <2>2, <3>1, PlacesStand DEF AtlasInv
  <2>3. QED BY <1>1, <2>1, <2>2
<1>7. QED BY <1>5, <1>6 DEF AtlasInv, PlacesStep

LEMMA AtlasStep ==
  ASSUME AtlasInv, GlyphsFit, [AtlasNext]_atlasVars
  PROVE  AtlasInv' /\ StaysStale
<1>1. frame \in Nat /\ frame + 1 \in Nat
  BY DEF AtlasInv, PlacesInv, AtlasTypeOK
<1>2. UNCHANGED queue => QueueInv'
  BY DEF AtlasInv, QueueInv
<1>3. ASSUME PlacesStep, QueueInv' PROVE AtlasInv' /\ StaysStale
  BY <1>3 DEF AtlasInv, PlacesStep
<1>4. CASE UNCHANGED atlasVars
  <2>1. UNCHANGED <<device, pages, nextPage, index, drawn, flights, queue, frame>>
    BY <1>4 DEF atlasVars, atlas
  <2>2. QED BY <1>1, <1>2, <1>3, <2>1, PlacesStand DEF AtlasInv
<1>5. ASSUME NEW k \in Glyphs, AllocateAndInsert(k) PROVE AtlasInv' /\ StaysStale
  <2>1. (Place(k) \/ Refused(k)) /\ UNCHANGED <<device, frame, flights, queue>>
    BY <1>5 DEF AllocateAndInsert
  <2>2. QED BY <1>2, <1>3, <2>1, PlaceStep DEF AtlasInv
<1>6. ASSUME NEW k \in Glyphs, NEW p \in Priorities, QueryMiss(k, p)
      PROVE  AtlasInv' /\ StaysStale
  <2>1. Enqueue(k, p) /\ UNCHANGED <<device, pages, nextPage, index, drawn, flights, frame>>
    BY <1>6 DEF QueryMiss, atlas
  <2>2. PlacesStep
    BY <1>1, <2>1, PlacesStand DEF AtlasInv
  <2>3. QueueInv'
    BY <2>1, EnqueueStep DEF AtlasInv
  <2>4. QED BY <1>3, <2>2, <2>3
<1>7. CASE ProcessRequest
  BY <1>7, ProcessStep
<1>8. CASE NextFrame
  <2>1. /\ UNCHANGED <<device, pages, nextPage, index, drawn, flights, queue>>
        /\ frame' \in Nat
    BY <1>1, <1>8 DEF NextFrame, atlas
  <2>2. QED BY <1>2, <1>3, <2>1, PlacesStand DEF AtlasInv
<1>9. CASE ResetDevice
  <2>1. PlacesStep
    BY <1>9, ResetStep DEF AtlasInv
  <2>2. QueueInv'
    <3>1. queue' = <<>>
      BY <1>9 DEF ResetDevice
    <3>2. QED BY <3>1, AtlasConstants DEF QueueInv
  <2>3. QED BY <1>3, <2>1, <2>2
<1>10. ASSUME NEW r \in drawn, PinSlot(r) PROVE AtlasInv' /\ StaysStale
  <2>1. PlacesStep
    BY <1>10, PinStep DEF AtlasInv
  <2>2. QED BY <1>2, <1>3, <1>10, <2>1 DEF PinSlot
<1>11. ASSUME NEW i \in DOMAIN flights, UnpinSlot(i) PROVE AtlasInv' /\ StaysStale
  <2>1. PlacesStep
    BY <1>11, UnpinStep DEF AtlasInv
  <2>2. QED BY <1>2, <1>3, <1>11, <2>1 DEF UnpinSlot
<1>12. QED BY <1>4, <1>5, <1>6, <1>7, <1>8, <1>9, <1>10, <1>11 DEF AtlasNext

LEMMA AtlasStart == AtlasInit => AtlasInv
<1> SUFFICES ASSUME AtlasInit PROVE AtlasInv
  OBVIOUS
<1>1. /\ device = 1 /\ frame = 1 /\ pages = <<>> /\ nextPage = 1 /\ index = {}
      /\ queue = <<>> /\ drawn = {} /\ flights = <<>>
  BY DEF AtlasInit
<1>2. AtlasTypeOK
  BY <1>1 DEF AtlasTypeOK
<1>3. PagesAreNumbered /\ RefsAreBehind /\ PinsAreCounted /\ PagesArePacked
  BY <1>1 DEF PagesAreNumbered, RefsAreBehind, PinsAreCounted, PagesArePacked
<1>4. IndexMatchesSlots
  BY <1>1 DEF IndexMatchesSlots, AllSlots
<1>5. QueueInv
  BY <1>1, AtlasConstants DEF QueueInv
<1>6. QED BY <1>2, <1>3, <1>4, <1>5 DEF AtlasInv, PlacesInv

LEMMA AtlasInvIsEnough == AtlasInv => AtlasIsConsistent
<1> SUFFICES ASSUME AtlasInv PROVE AtlasIsConsistent
  OBVIOUS
<1>1. PlacesInv /\ QueueInv /\ IndexMatchesSlots
  BY DEF AtlasInv, PlacesInv
<1>2. MissesAreQueuedOnce
  <2>1. ASSUME NEW k \in Glyphs PROVE Cardinality(Queued(k)) <= 1
    <3>1. CASE Queued(k) = {}
      BY <3>1, FS_EmptySet
    <3>2. CASE Queued(k) # {}
      <4>1. PICK i : i \in Queued(k)
        BY <3>2
      <4>2. Queued(k) = {i}
        BY <1>1, <4>1 DEF Queued, QueueInv
      <4>3. Cardinality({i}) = 1
        BY FS_Singleton, ZenonT(30)
      <4>4. QED BY <4>2, <4>3
    <3>3. QED BY <3>1, <3>2
  <2>2. QED BY <1>1, <2>1 DEF MissesAreQueuedOnce, QueueInv
<1>3. GuttersAreKept
  <2> SUFFICES ASSUME NEW c \in AllSlots, NEW d \in AllSlots, c[1] = d[1], c[2] < d[2]
               PROVE  Apart(pages[c[1]].slots[c[2]], pages[d[1]].slots[d[2]])
    BY DEF GuttersAreKept, Apart
  <2>1. c[1] \in DOMAIN pages /\ {c[2], d[2]} \subseteq DOMAIN pages[c[1]].slots
    BY <1>1, IndexFacts
  <2>2. QED BY <1>1, <2>1 DEF PlacesInv, PagesArePacked, IsPacked
<1>4. PinnedSlotsStay
  <2> SUFFICES ASSUME NEW i \in DOMAIN flights, flights[i].device = device
               PROVE  /\ Validates(flights[i])
                      /\ SlotsAt(flights[i].page)[flights[i].slot].pins
                           = Cardinality({j \in DOMAIN flights : flights[j] = flights[i]})
    BY DEF PinnedSlotsStay
  <2>1. flights[i] \in drawn /\ Validates(flights[i])
    BY <1>1, FlightFacts DEF PlacesInv, PinsAreCounted
  <2>2. SlotsAt(flights[i].page) = pages[flights[i].page].slots
    BY <1>1, <2>1, ValidatesIs DEF SlotsAt
  <2>3. PlacesOf(flights, {flights[i]}) = {j \in DOMAIN flights : flights[j] = flights[i]}
    BY DEF PlacesOf
  <2>4. QED BY <1>1, <2>1, <2>2, <2>3 DEF PlacesInv, PinsAreCounted
<1>5. QED BY <1>1, <1>2, <1>3, <1>4 DEF AtlasIsConsistent

\* Whatever is drawn, evicted and reset, while every raster fits a page, the
\* atlas keeps its index, its queue, its gutters and its pins (glyph_atlas.rs).
THEOREM AtlasStaysConsistent ==
  ASSUME GlyphsFit
  PROVE  AtlasSpec => []AtlasIsConsistent
<1>1. AtlasInv /\ [AtlasNext]_atlasVars => AtlasInv'
  BY AtlasStep
<1>2. QED BY <1>1, AtlasStart, AtlasInvIsEnough, PTL DEF AtlasSpec

\* Draw data that kept a reference past its slot's reuse never comes to sample
\* it again (glyph_atlas.rs:19-21).
THEOREM StaleNeverValidates ==
  ASSUME GlyphsFit
  PROVE  AtlasSpec => StaleRefsStayStale
<1>1. AtlasInv /\ [AtlasNext]_atlasVars => AtlasInv'
  BY AtlasStep
<1>2. AtlasInv /\ [AtlasNext]_atlasVars => [StaysStale]_atlasVars
  BY AtlasStep
<1>3. AtlasSpec => []AtlasInv
  BY <1>1, AtlasStart, PTL DEF AtlasSpec
<1>4. AtlasSpec => [][StaysStale]_atlasVars
  BY <1>2, <1>3, PTL DEF AtlasSpec
<1>5. [][StaysStale]_atlasVars => StaleRefsStayStale
  BY PTL DEF StaleRefsStayStale, StaysStale
<1>6. QED BY <1>4, <1>5

-----------------------------------------------------------------------------
(***************************************************************************)
(* Search as the interface sees it. The request under way is always the    *)
(* last one dispatched, and what is shown came from a request.             *)
(***************************************************************************)

\* What the interface shows: some hits under a text, at most one of them selected.
RowsAreRows(r) ==
  /\ r = [query |-> r.query, generation |-> r.generation, hits |-> r.hits,
          selected |-> r.selected]
  /\ r.generation \in Nat /\ r.hits \in Seq(Hits) /\ r.selected \in 0..Len(r.hits)

SearchTypes ==
  /\ dispatched \in Seq(Queries)
  /\ searchActive \in 0..Len(dispatched)
  /\ cancelled \in [Dispatches -> Nat] /\ failed \subseteq Dispatches
  /\ RowsAreRows(rows) /\ rows.generation <= Len(dispatched)

\* The request under way is the last one, and the draft is its text.
ActiveIsLast ==
  searchActive # 0 => searchActive = Len(dispatched) /\ input = dispatched[searchActive]

SearchInv ==
  /\ SearchTypes /\ ActiveIsLast
  /\ RowsAreLabelled /\ RequestsEnd /\ WaitingHasARequest /\ OpenedIsVisible

SearchStep == SearchInv' /\ RowsGoForward

\* Cancelling what is under way ends it.
LEMMA CancelEnds ==
  ASSUME SearchInv
  PROVE  /\ CancelActive \in [Dispatches -> Nat]
         /\ \A g \in Dispatches : /\ CancelActive[g] <= 1
                                  /\ CancelActive[g] = 1 \/ g \in failed
<1>1. SearchTypes /\ RequestsEnd
  BY DEF SearchInv
<1>2. CASE searchActive = 0
  BY <1>1, <1>2 DEF CancelActive, RequestsEnd, SearchTypes, Dispatches
<1>3. CASE searchActive # 0
  <2>1. searchActive \in Dispatches /\ cancelled[searchActive] = 0
    BY <1>1, <1>3 DEF RequestsEnd, SearchTypes, Dispatches
  <2>2. CancelActive = [cancelled EXCEPT ![searchActive] = @ + 1]
    BY <1>3 DEF CancelActive
  <2>3. CancelActive \in [Dispatches -> Nat] /\ CancelActive[searchActive] = 1
    BY <1>1, <2>1, <2>2 DEF SearchTypes
  <2>4. \A g \in Dispatches : g # searchActive => CancelActive[g] = cancelled[g]
    BY <1>1, <2>2 DEF SearchTypes
  <2>5. QED BY <1>1, <2>3, <2>4 DEF RequestsEnd
<1>4. QED BY <1>2, <1>3

\* Where nothing that is shown changes, rows do not go back.
LEMMA RowsStand == ASSUME SearchInv, UNCHANGED rows PROVE RowsGoForward
BY DEF SearchInv, SearchTypes, RowsAreRows, RowsGoForward

LEMMA ClearStep ==
  ASSUME SearchInv, ClearQuery \/ RefuseQuery
  PROVE  SearchStep
<1>1. /\ cancelled' = CancelActive /\ searchActive' = 0 /\ searching' = FALSE
      /\ UNCHANGED <<dispatched, failed, resolved, opened>>
      /\ rows' = NoRows \/ rows' = rows
  BY DEF ClearQuery, RefuseQuery, ActiveAfterRefusal
<1>2. UNCHANGED Dispatches
  BY <1>1 DEF Dispatches
<1>3. SearchTypes'
  <2>1. cancelled' \in [Dispatches' -> Nat] /\ failed' \subseteq Dispatches'
    BY <1>1, <1>2, CancelEnds DEF SearchInv, SearchTypes
  <2>2. RowsAreRows(NoRows) /\ NoRows.generation = 0
    BY DEF RowsAreRows, NoRows
  <2>3. RowsAreRows(rows') /\ rows'.generation <= Len(dispatched)
    BY <1>1, <2>2 DEF SearchInv, SearchTypes
  <2>4. QED BY <1>1, <2>1, <2>3 DEF SearchInv, SearchTypes
<1>4. RequestsEnd'
  BY <1>1, <1>2, CancelEnds DEF RequestsEnd, Dispatches
<1>5. ActiveIsLast' /\ RowsAreLabelled' /\ WaitingHasARequest' /\ OpenedIsVisible'
  BY <1>1 DEF SearchInv, ActiveIsLast, RowsAreLabelled, WaitingHasARequest, OpenedIsVisible,
              NoRows
<1>6. RowsGoForward
  BY <1>1, RowsStand DEF RowsGoForward, NoRows
<1>7. QED BY <1>3, <1>4, <1>5, <1>6 DEF SearchStep, SearchInv

LEMMA DispatchStep ==
  ASSUME SearchInv, NEW q \in Queries, DispatchQuery(q)
  PROVE  SearchStep
<1> DEFINE n == Len(dispatched)
<1>1. SearchTypes /\ RequestsEnd
  BY DEF SearchInv
<1>2. /\ dispatched' = Append(dispatched, q) /\ cancelled' = Append(CancelActive, 0)
      /\ searchActive' = n + 1 /\ searching' = TRUE /\ input' = q
      /\ UNCHANGED <<rows, failed, resolved, opened>>
  BY DEF DispatchQuery
<1>3. /\ dispatched \in Seq(Queries) /\ n \in Nat /\ Dispatches = 1..n
      /\ dispatched' \in Seq(Queries) /\ Len(dispatched') = n + 1 /\ dispatched'[n + 1] = q
      /\ \A g \in 1..n : dispatched'[g] = dispatched[g]
  BY <1>1, <1>2 DEF SearchTypes, Dispatches
<1>4. /\ CancelActive \in [1..n -> Nat]
      /\ \A g \in 1..n : CancelActive[g] <= 1 /\ (CancelActive[g] = 1 \/ g \in failed)
  BY <1>3, CancelEnds
<1>5. CancelActive \in Seq(Nat) /\ Len(CancelActive) = n
  <2>1. CancelActive \in Seq(Nat)
    BY <1>3, <1>4
  <2>2. DOMAIN CancelActive = 1..n
    BY <1>4
  <2>3. QED BY <1>3, <2>1, <2>2
<1>6. /\ cancelled' \in [1..(n + 1) -> Nat] /\ cancelled'[n + 1] = 0
      /\ \A g \in 1..n : cancelled'[g] = CancelActive[g]
  <2>1. cancelled' \in Seq(Nat) /\ Len(cancelled') = n + 1
    BY <1>2, <1>3, <1>5
  <2>2. DOMAIN cancelled' = 1..(n + 1)
    BY <1>3, <2>1
  <2>3. cancelled'[n + 1] = 0 /\ \A g \in 1..n : cancelled'[g] = CancelActive[g]
    BY <1>2, <1>3, <1>5
  <2>4. QED BY <1>3, <2>1, <2>2, <2>3
<1>7. Dispatches' = 1..(n + 1)
  BY <1>3 DEF Dispatches
<1>8. SearchTypes'
  <2>1. RowsAreRows(rows') /\ rows'.generation <= Len(dispatched')
    BY <1>1, <1>2, <1>3 DEF SearchTypes, RowsAreRows
  <2>2. failed' \subseteq Dispatches' /\ searchActive' \in 0..Len(dispatched')
    BY <1>1, <1>2, <1>3, <1>7 DEF SearchTypes
  <2>3. QED BY <1>1, <1>2, <1>3, <1>6, <1>7, <2>1, <2>2 DEF SearchTypes
<1>9. RequestsEnd'
  <2> SUFFICES ASSUME NEW g \in 1..(n + 1)
               PROVE  IF g = n + 1 THEN g \notin failed /\ cancelled'[g] = 0
                      ELSE cancelled'[g] <= 1 /\ (cancelled'[g] = 1 \/ g \in failed)
    BY <1>2, <1>7 DEF RequestsEnd
  <2>1. CASE g = n + 1
    BY <1>1, <1>3, <1>6, <2>1 DEF SearchTypes
  <2>2. CASE g # n + 1
    <3>1. g \in 1..n
      BY <1>3, <2>2
    <3>2. QED BY <1>4, <1>6, <2>2, <3>1
  <2>3. QED BY <2>1, <2>2
<1>10. ActiveIsLast' /\ RowsAreLabelled' /\ WaitingHasARequest' /\ OpenedIsVisible'
  <2>1. ActiveIsLast'
    BY <1>2, <1>3 DEF ActiveIsLast
  <2>2. rows.generation \in 0..n /\ (rows.generation # 0 => rows.generation \in 1..n)
    BY <1>1, <1>3 DEF SearchTypes, RowsAreRows
  <2>3. RowsAreLabelled'
    BY <1>2, <1>3, <2>2 DEF SearchInv, RowsAreLabelled
  <2>4. WaitingHasARequest'
    BY <1>2, <1>3, <2>2 DEF WaitingHasARequest
  <2>5. OpenedIsVisible'
    BY <1>2 DEF SearchInv, OpenedIsVisible
  <2>6. QED BY <2>1, <2>3, <2>4, <2>5
<1>11. QED BY <1>2, <1>8, <1>9, <1>10, RowsStand DEF SearchStep, SearchInv

\* The row of a report is one of its rows, and the one of the selected hit if it
\* has that.
LEMMA RowIsFound ==
  ASSUME NEW n \in Nat, NEW hits \in [1..n -> Hits]
  PROVE  /\ RowOf(hits) \in 0..n
         /\ \A h \in SelectedHit : (\E i \in 1..n : hits[i] = h) => hits[RowOf(hits)] = h
<1> DEFINE same == {i \in 1..n : hits[i] \in SelectedHit}
<1>1. CASE same # {}
  <2>1. \E i \in DOMAIN hits : hits[i] \in SelectedHit
    BY <1>1
  <2>2. RowOf(hits) \in DOMAIN hits /\ hits[RowOf(hits)] \in SelectedHit
    BY <2>1 DEF RowOf
  <2>3. \A h \in SelectedHit : hits[RowOf(hits)] = h
    BY <2>2 DEF SelectedHit
  <2>4. QED BY <2>2, <2>3
<1>2. CASE same = {}
  <2>1. ~ \E i \in DOMAIN hits : hits[i] \in SelectedHit
    BY <1>2
  <2>2. RowOf(hits) = IF hits = <<>> THEN 0 ELSE 1
    BY <2>1 DEF RowOf
  <2>3. hits # <<>> => n # 0
    OBVIOUS
  <2>4. RowOf(hits) \in 0..n
    BY <2>2, <2>3
  <2>5. QED BY <1>2, <2>4
<1>3. QED BY <1>1, <1>2

LEMMA ReceiveStep ==
  ASSUME SearchInv, NEW g \in Dispatches, NEW hits \in Reports, ReceiveResults(g, hits)
  PROVE  SearchStep
<1>1. /\ SearchTypes /\ ActiveIsLast /\ RequestsEnd /\ WaitingHasARequest /\ RowsAreLabelled
      /\ OpenedIsVisible
      /\ UNCHANGED <<input, dispatched, failed, resolved, opened>> /\ UNCHANGED Dispatches
  BY DEF SearchInv, ReceiveResults, Dispatches
<1>2. g \in 1..Len(dispatched) /\ g # 0 /\ Len(dispatched) \in Nat
  BY <1>1 DEF Dispatches, SearchTypes
<1>3. CASE ~IsCurrent(g)
  <2>1. UNCHANGED <<searchActive, searching, rows, cancelled>>
    BY <1>3 DEF ReceiveResults
  <2>2. SearchInv'
    BY <1>1, <2>1 DEF SearchInv, SearchTypes, ActiveIsLast, RequestsEnd, WaitingHasARequest,
                      RowsAreLabelled, OpenedIsVisible
  <2>3. QED BY <2>1, <2>2, RowsStand DEF SearchStep
<1>4. CASE IsCurrent(g) /\ Len(hits) > MaxRows
  <2>1. /\ searchActive = g /\ searchActive' = 0 /\ searching' = FALSE
        /\ cancelled' = [cancelled EXCEPT ![g] = @ + 1] /\ UNCHANGED rows
    BY <1>4 DEF ReceiveResults, IsCurrent
  <2>2. /\ cancelled' \in [Dispatches -> Nat] /\ cancelled'[g] = cancelled[g] + 1
        /\ \A f \in Dispatches : f # g => cancelled'[f] = cancelled[f]
    BY <1>1, <2>1 DEF SearchTypes
  <2>3. SearchTypes'
    BY <1>1, <2>1, <2>2 DEF SearchTypes
  <2>4. RequestsEnd'
    <3> SUFFICES ASSUME NEW f \in Dispatches
                 PROVE  cancelled'[f] <= 1 /\ (cancelled'[f] = 1 \/ f \in failed)
      BY <1>1, <2>1 DEF RequestsEnd, Dispatches
    <3>1. CASE f = g
      BY <1>1, <2>1, <2>2, <3>1 DEF RequestsEnd
    <3>2. CASE f # g
      BY <1>1, <2>1, <2>2, <3>2 DEF RequestsEnd
    <3>3. QED BY <3>1, <3>2
  <2>5. ActiveIsLast' /\ WaitingHasARequest' /\ RowsAreLabelled' /\ OpenedIsVisible'
    BY <1>1, <2>1 DEF ActiveIsLast, WaitingHasARequest, RowsAreLabelled, OpenedIsVisible
  <2>6. QED BY <2>1, <2>3, <2>4, <2>5, RowsStand DEF SearchStep, SearchInv
<1>5. CASE IsCurrent(g) /\ ~(Len(hits) > MaxRows)
  <2>1. /\ searchActive = g /\ searching' = FALSE /\ UNCHANGED <<searchActive, cancelled>>
        /\ rows' = [query |-> input, generation |-> g, hits |-> hits, selected |-> RowOf(hits)]
    BY <1>5 DEF ReceiveResults, IsCurrent
  <2>2. PICK n \in 0..(MaxRows + 1) : hits \in [1..n -> Hits]
    BY DEF Reports
  <2>3. n \in Nat /\ hits \in Seq(Hits) /\ Len(hits) = n
    <3>1. n \in Nat
      BY <2>2, SearchAssumption
    <3>2. hits \in Seq(Hits)
      BY <2>2, <3>1
    <3>3. DOMAIN hits = 1..n
      BY <2>2
    <3>4. QED BY <3>1, <3>2, <3>3
  <2>4. /\ RowOf(hits) \in 0..n
        /\ \A h \in SelectedHit : (\E i \in 1..n : hits[i] = h) => hits[RowOf(hits)] = h
    BY <2>2, <2>3, RowIsFound
  <2>5. SearchTypes'
    <3>1. RowsAreRows(rows')
      BY <1>2, <2>1, <2>3, <2>4 DEF RowsAreRows
    <3>2. rows'.generation <= Len(dispatched)
      BY <1>2, <2>1
    <3>3. QED BY <1>1, <2>1, <3>1, <3>2 DEF SearchTypes
  <2>6. g = Len(dispatched) /\ input = dispatched[g]
    BY <1>1, <1>2, <2>1 DEF ActiveIsLast
  <2>7. ActiveIsLast' /\ WaitingHasARequest' /\ RowsAreLabelled' /\ OpenedIsVisible'
    BY <1>1, <1>2, <2>1, <2>6 DEF ActiveIsLast, WaitingHasARequest, RowsAreLabelled,
                                   OpenedIsVisible
  <2>8. RequestsEnd'
    BY <1>1, <2>1 DEF RequestsEnd
  <2>9. RowsGoForward
    <3>1. rows.generation <= g
      BY <1>1, <1>2, <2>6 DEF SearchTypes, RowsAreRows
    <3>2. DOMAIN hits = 1..n
      BY <2>2
    <3>3. /\ rows'.generation = g /\ rows'.hits = hits /\ rows'.selected = RowOf(hits)
      BY <2>1
    <3>4. QED BY <2>4, <3>1, <3>2, <3>3 DEF RowsGoForward
  <2>10. QED BY <2>5, <2>7, <2>8, <2>9 DEF SearchStep, SearchInv
<1>6. QED BY <1>3, <1>4, <1>5

LEMMA FailureStep ==
  ASSUME SearchInv, NEW g \in Dispatches, ReceiveFailure(g)
  PROVE  SearchStep
<1>1. /\ SearchTypes /\ ActiveIsLast /\ RequestsEnd /\ WaitingHasARequest /\ RowsAreLabelled
      /\ OpenedIsVisible /\ failed' = failed \cup {g}
      /\ UNCHANGED <<input, rows, dispatched, cancelled, resolved, opened>>
      /\ UNCHANGED Dispatches
  BY DEF SearchInv, ReceiveFailure, Dispatches
<1>2. \/ searchActive = g /\ searchActive' = 0 /\ searching' = FALSE
      \/ searchActive # g /\ UNCHANGED <<searchActive, searching>>
  BY DEF ReceiveFailure, IsCurrent
<1>3. SearchTypes'
  BY <1>1, <1>2 DEF SearchTypes
<1>4. RequestsEnd'
  <2> SUFFICES ASSUME NEW f \in Dispatches
               PROVE  IF f = searchActive' THEN f \notin failed' /\ cancelled[f] = 0
                      ELSE cancelled[f] <= 1 /\ (cancelled[f] = 1 \/ f \in failed')
    BY <1>1 DEF RequestsEnd
  <2>1. f # 0
    BY DEF Dispatches
  <2>2. IF f = searchActive THEN f \notin failed /\ cancelled[f] = 0
        ELSE cancelled[f] <= 1 /\ (cancelled[f] = 1 \/ f \in failed)
    BY <1>1 DEF RequestsEnd
  <2>3. QED BY <1>1, <1>2, <2>1, <2>2
<1>5. ActiveIsLast' /\ WaitingHasARequest' /\ RowsAreLabelled' /\ OpenedIsVisible'
  BY <1>1, <1>2 DEF ActiveIsLast, WaitingHasARequest, RowsAreLabelled, OpenedIsVisible
<1>6. QED BY <1>1, <1>3, <1>4, <1>5, RowsStand DEF SearchStep, SearchInv

\* Selecting another row shows the same rows.
LEMMA SelectStep ==
  ASSUME SearchInv, NEW step \in {-1, 1}, SelectResult(step)
  PROVE  SearchStep
<1> DEFINE row == rows.selected + step
           now == IF row < 1 THEN 1 ELSE IF row > Len(rows.hits) THEN Len(rows.hits) ELSE row
<1>1. /\ SearchTypes /\ rows.hits # <<>> /\ rows' = [rows EXCEPT !.selected = now]
      /\ UNCHANGED <<input, searchActive, searching, dispatched, cancelled, failed, resolved,
                     opened>>
  BY DEF SearchInv, SelectResult
<1>2. rows' = [query |-> rows.query, generation |-> rows.generation, hits |-> rows.hits,
               selected |-> now]
  BY <1>1 DEF SearchTypes, RowsAreRows
<1>3. now \in 0..Len(rows.hits)
  <2>1. Len(rows.hits) \in Nat /\ Len(rows.hits) # 0 /\ rows.selected \in Nat
    BY <1>1 DEF SearchTypes, RowsAreRows
  <2>2. QED BY <2>1
<1> HIDE DEF now
<1>4. /\ rows'.query = rows.query /\ rows'.generation = rows.generation
      /\ rows'.hits = rows.hits /\ rows'.selected = now
  BY <1>2
<1>5. SearchTypes'
  BY <1>1, <1>2, <1>3, <1>4 DEF SearchTypes, RowsAreRows, Dispatches
<1>6. ActiveIsLast' /\ RowsAreLabelled' /\ RequestsEnd' /\ WaitingHasARequest' /\ OpenedIsVisible'
  BY <1>1, <1>4 DEF SearchInv, ActiveIsLast, WaitingHasARequest, RowsAreLabelled,
                    OpenedIsVisible, RequestsEnd, Dispatches
<1>7. RowsGoForward
  BY <1>1, <1>4 DEF RowsGoForward, SearchTypes, RowsAreRows
<1>8. QED BY <1>5, <1>6, <1>7 DEF SearchStep, SearchInv

LEMMA CapturedStep ==
  ASSUME SearchInv,
         \/ \E g \in Dispatches, h \in Hits : ResolveHit(g, h)
         \/ \E target \in resolved : ActivateCaptured(target)
         \/ UNCHANGED searchVars
  PROVE  SearchStep
<1>1. /\ UNCHANGED <<input, searchActive, searching, rows, dispatched, cancelled, failed>>
      /\ \/ UNCHANGED opened
         \/ opened'.source = opened'.rows
  BY DEF ResolveHit, ActivateCaptured, Stands, searchVars
<1>2. SearchInv'
  BY <1>1 DEF SearchInv, SearchTypes, ActiveIsLast, RowsAreLabelled, RequestsEnd,
              WaitingHasARequest, OpenedIsVisible, Dispatches
<1>3. QED BY <1>1, <1>2, RowsStand DEF SearchStep

LEMMA SearchSteps ==
  ASSUME SearchInv, [SearchNext]_searchVars
  PROVE  SearchStep
BY ClearStep, DispatchStep, ReceiveStep, FailureStep, SelectStep, CapturedStep, Zenon
DEF SearchNext

LEMMA SearchStart == ASSUME SearchInit PROVE SearchInv
<1>1. /\ input = NoText /\ searchActive = 0 /\ searching = FALSE /\ rows = NoRows
      /\ dispatched = <<>> /\ cancelled = <<>> /\ failed = {} /\ resolved = {}
      /\ opened = [source |-> 0, rows |-> 0]
  BY DEF SearchInit
<1>2. Dispatches = {} /\ Len(dispatched) = 0
  BY <1>1 DEF Dispatches
<1>3. SearchTypes
  <2>1. RowsAreRows(NoRows) /\ NoRows.generation = 0
    BY DEF RowsAreRows, NoRows
  <2>2. cancelled \in [Dispatches -> Nat]
    BY <1>1, <1>2
  <2>3. QED BY <1>1, <1>2, <2>1, <2>2 DEF SearchTypes
<1>4. ActiveIsLast /\ RowsAreLabelled /\ RequestsEnd /\ WaitingHasARequest /\ OpenedIsVisible
  BY <1>1, <1>2 DEF ActiveIsLast, RowsAreLabelled, RequestsEnd, WaitingHasARequest,
                    OpenedIsVisible, NoRows
<1>5. QED BY <1>3, <1>4 DEF SearchInv

\* The request under way is the last one dispatched, with the draft as its text
\* (reducer.rs, the search events).
THEOREM SearchInvariant == SearchSpec => []SearchInv
<1>1. SearchInit => SearchInv
  BY SearchStart
<1>2. SearchInv /\ [SearchNext]_searchVars => SearchInv'
  BY SearchSteps DEF SearchStep
<1>3. QED BY <1>1, <1>2, PTL DEF SearchSpec

\* Every step leaves the search coherent: rows under their own text, one end for
\* every request, and no older rows (reducer.rs, search_navigation.rs).
THEOREM SearchStaysCoherent == SearchSpec => SearchIsCoherent
<1>1. SearchInv /\ [SearchNext]_searchVars
        => [/\ RowsAreLabelled' /\ RequestsEnd' /\ WaitingHasARequest' /\ OpenedIsVisible'
            /\ RowsGoForward]_searchVars
  BY SearchSteps DEF SearchStep, SearchInv
<1>2. QED BY <1>1, SearchInvariant, PTL DEF SearchSpec, SearchIsCoherent

-----------------------------------------------------------------------------
(***************************************************************************)
(* Map navigation. A flight is to the current entry, and back and forward  *)
(* walk one trail that never exceeds its bound.                            *)
(***************************************************************************)

FlightIsOfEntry ==
  Flying =>
    /\ flight = [start |-> flight.start, target |-> flight.target, elapsed |-> flight.elapsed]
    /\ flight.start \in Nat /\ flight.target \in Nat
    /\ flight.elapsed \in 0..1 /\ flight.target = currentEntry /\ ~reducedMotion

NavigationInv ==
  /\ pastEntries \in Seq(Nat) /\ future \in Seq(Nat)
  /\ currentEntry \in Nat \cup {Nowhere}
  /\ FlightIsOfEntry
  /\ HistoryIsBounded

NavigationStep == NavigationInv' /\ TrailIsWalked /\ ScreenDoesNotJump

\* Grouping does not matter.
Joined(s, t) == s \o t

LEMMA ConcatRegroups ==
  \A u, v, w \in Seq(Int) : Joined(Joined(u, v), w) = Joined(u, Joined(v, w))
<1> SUFFICES ASSUME NEW u \in Seq(Int), NEW v \in Seq(Int), NEW w \in Seq(Int)
             PROVE  Joined(Joined(u, v), w) = Joined(u, Joined(v, w))
  OBVIOUS
<1>1. (u \o v) \o w = u \o (v \o w)
  BY ConcatAssociative, SMT
<1>2. QED BY <1>1, Zenon DEF Joined

TrailOf(p, c, f) == p \o <<c>> \o f

\* Seq(Int) holds the pieces of a trail, also when one is nowhere.
LEMMA TrailPieces ==
  ASSUME NEW p \in Seq(Int), NEW c \in Int, NEW f \in Seq(Int)
  PROVE  /\ <<c>> \in Seq(Int) /\ Len(<<c>>) = 1
         /\ p \o <<c>> \in Seq(Int) /\ Len(p \o <<c>>) = Len(p) + 1
         /\ <<c>> \o f \in Seq(Int) /\ Len(<<c>> \o f) = Len(f) + 1
         /\ Append(p, c) = p \o <<c>>
         /\ Len(p) \in Nat /\ Len(f) \in Nat
<1>1. <<c>> \in Seq(Int) /\ Len(<<c>>) = 1
  OBVIOUS
<1>2. p \o <<c>> \in Seq(Int) /\ Len(p \o <<c>>) = Len(p) + Len(<<c>>)
  BY <1>1, ConcatProperties, Zenon
<1>3. <<c>> \o f \in Seq(Int) /\ Len(<<c>> \o f) = Len(<<c>>) + Len(f)
  BY <1>1, ConcatProperties, Zenon
<1>4. Append(p, c) = p \o <<c>>
  BY AppendIsConcat, Zenon
<1>5. Len(p) \in Nat /\ Len(f) \in Nat
  OBVIOUS
<1>6. QED BY <1>1, <1>2, <1>3, <1>4, <1>5

\* Going back: the entry behind becomes the current one.
LEMMA TrailStepsBack ==
  ASSUME NEW p \in Seq(Int), p # <<>>, NEW c \in Int, NEW f \in Seq(Int)
  PROVE  /\ SubSeq(p, 1, Len(p) - 1) \in Seq(Int) /\ Len(SubSeq(p, 1, Len(p) - 1)) = Len(p) - 1
         /\ TrailOf(SubSeq(p, 1, Len(p) - 1), p[Len(p)], <<c>> \o f) = TrailOf(p, c, f)
<1> PICK q, e : q = SubSeq(p, 1, Len(p) - 1) /\ e = p[Len(p)]
  OBVIOUS
<1>1. Len(p) \in Nat \ {0} /\ e \in Int /\ \A i \in 1..(Len(p) - 1) : p[i] \in Int
  OBVIOUS
<1>2. q \in Seq(Int) /\ Len(q) = Len(p) - 1
  <2>1. /\ q \in Seq(Int)
        /\ Len(q) = IF 1 <= Len(p) - 1 THEN Len(p) - 1 - 1 + 1 ELSE 0
    BY <1>1, SubSeqProperties
  <2>2. PICK n \in Nat \ {0} : n = Len(p)
    BY <1>1
  <2>3. Len(q) = n - 1
    BY <2>1, <2>2
  <2>4. QED BY <2>1, <2>2, <2>3
<1>3. p = q \o <<e>>
  <2>1. 1 \in 1..Len(p) /\ Len(p) \in 1..Len(p)
    BY <1>1
  <2>2. SubSeq(p, 1, Len(p)) = SubSeq(p, 1, Len(p) - 1) \o <<p[Len(p)]>>
    BY <2>1, SubSeqRecursiveSecond, Zenon
  <2>3. SubSeq(p, 1, Len(p)) = p
    BY SubSeqFull, Zenon
  <2>4. QED BY <2>2, <2>3
<1>4. /\ <<c>> \in Seq(Int) /\ q \o <<e>> \in Seq(Int)
  BY <1>1, <1>2, TrailPieces
<1>5. ((q \o <<e>>) \o <<c>>) \o f = (q \o <<e>>) \o (<<c>> \o f)
  <2>1. PICK u, v : u = q \o <<e>> /\ v = <<c>>
    OBVIOUS
  <2>2. u \in Seq(Int) /\ v \in Seq(Int)
    BY <1>4, <2>1
  <2>3. (u \o v) \o f = u \o (v \o f)
    BY <2>2, ConcatRegroups, Zenon DEF Joined
  <2>4. QED BY <2>1, <2>3
<1>6. QED BY <1>2, <1>3, <1>5 DEF TrailOf

\* Going forward: the entry ahead does.
LEMMA TrailStepsForward ==
  ASSUME NEW p \in Seq(Int), NEW c \in Int, NEW f \in Seq(Int), f # <<>>
  PROVE  /\ Tail(f) \in Seq(Int) /\ Len(Tail(f)) = Len(f) - 1 /\ Head(f) \in Int
         /\ TrailOf(Append(p, c), Head(f), Tail(f)) = TrailOf(p, c, f)
<1> PICK h, g : h = Head(f) /\ g = Tail(f)
  OBVIOUS
<1>1. Len(f) \in Nat \ {0} /\ h = f[1]
  OBVIOUS
<1>2. h \in Int /\ g \in Seq(Int) /\ Len(g) = Len(f) - 1
  BY HeadTailProperties, Zenon
<1>3. f = <<h>> \o g
  <2>1. 1 \in 1..Len(f) /\ Len(f) \in 1..Len(f)
    BY <1>1
  <2>2. SubSeq(f, 1, Len(f)) = <<f[1]>> \o SubSeq(f, 1 + 1, Len(f))
    BY <2>1, SubSeqRecursiveFirst, Zenon
  <2>3. SubSeq(f, 1, Len(f)) = f /\ g = SubSeq(f, 2, Len(f))
    BY SubSeqFull, TailIsSubSeq, Zenon
  <2>4. 1 + 1 = 2
    OBVIOUS
  <2>5. QED BY <1>1, <2>2, <2>3, <2>4, Zenon
<1>4. <<h>> \in Seq(Int) /\ p \o <<c>> \in Seq(Int) /\ Append(p, c) = p \o <<c>>
  BY <1>2, TrailPieces
<1>5. ((p \o <<c>>) \o <<h>>) \o g = (p \o <<c>>) \o (<<h>> \o g)
  <2>1. PICK u, v : u = p \o <<c>> /\ v = <<h>>
    OBVIOUS
  <2>2. u \in Seq(Int) /\ v \in Seq(Int)
    BY <1>4, <2>1
  <2>3. (u \o v) \o g = u \o (v \o g)
    BY <1>2, <2>2, ConcatRegroups, ZenonT(60) DEF Joined
  <2>4. QED BY <2>1, <2>3
<1>6. QED BY <1>2, <1>3, <1>4, <1>5, Zenon DEF TrailOf

\* A new branch keeps what is behind and where one was, less the oldest entry
\* when the history is full.
LEMMA TrailBranches ==
  ASSUME NEW p \in Seq(Int), NEW c \in Int, NEW f \in Seq(Int), NEW x \in Int
  PROVE  /\ TrailOf(Append(p, c), x, <<>>)
              = SubSeq(TrailOf(p, c, f), 1, Len(p) + 1) \o <<x>>
         /\ p # <<>> => TrailOf(Append(Tail(p), c), x, <<>>)
                          = SubSeq(TrailOf(p, c, f), 2, Len(p) + 1) \o <<x>>
<1> PICK pc : pc = p \o <<c>>
  OBVIOUS
<1>1. /\ pc \in Seq(Int) /\ Len(pc) = Len(p) + 1 /\ Len(p) \in Nat
      /\ Append(p, c) = pc /\ TrailOf(p, c, f) = pc \o f
  BY TrailPieces DEF TrailOf
<1>2. ASSUME NEW q \in Seq(Int) PROVE TrailOf(q, x, <<>>) = q \o <<x>>
  <2>1. q \o <<x>> \in Seq(Int)
    BY TrailPieces
  <2>2. (q \o <<x>>) \o <<>> = q \o <<x>>
    BY <2>1, ConcatEmptySeq, Zenon
  <2>3. QED BY <2>2 DEF TrailOf
<1>3. SubSeq(pc \o f, 1, Len(p) + 1) = pc
  <2>1. 1 \in 1..Len(pc) /\ Len(pc) \in 1..Len(pc)
    BY <1>1
  <2>2. SubSeq(pc \o f, 1, Len(pc)) = SubSeq(pc, 1, Len(pc))
    BY <1>1, <2>1, SubSeqOfConcat1, Zenon
  <2>3. SubSeq(pc, 1, Len(pc)) = pc
    BY <1>1, SubSeqFull, Zenon
  <2>4. QED BY <1>1, <2>2, <2>3
<1>4. ASSUME p # <<>>
      PROVE  SubSeq(pc \o f, 2, Len(p) + 1) = Append(Tail(p), c) /\ Append(Tail(p), c) \in Seq(Int)
  <2>1. Len(p) # 0 /\ pc # <<>>
    <3>1. Len(p) # 0
      BY <1>4
    <3>2. QED BY <1>1, <3>1
  <2>2. 2 \in 1..Len(pc) /\ Len(pc) \in 1..Len(pc)
    BY <1>1, <2>1
  <2>3. SubSeq(pc \o f, 2, Len(pc)) = SubSeq(pc, 2, Len(pc))
    BY <1>1, <2>2, SubSeqOfConcat1, Zenon
  <2>4. Tail(pc) = SubSeq(pc, 2, Len(pc))
    BY <1>1, <2>1, TailIsSubSeq, Zenon
  <2>5. Tail(Append(p, c)) = Append(Tail(p), c)
    BY <1>4, HeadTailAppend
  <2>6. Append(Tail(p), c) \in Seq(Int)
    <3>1. Tail(p) \in Seq(Int)
      BY <1>4, HeadTailProperties, Zenon
    <3>2. QED BY <3>1, AppendProperties, Zenon
  <2>7. QED BY <1>1, <2>3, <2>4, <2>5, <2>6
<1>5. QED BY <1>1, <1>2, <1>3, <1>4

-----------------------------------------------------------------------------
(* Flights.                                                                 *)

LEMMA ShownIsAPlace ==
  ASSUME NavigationInv, currentEntry # Nowhere
  PROVE  Shown \in Nat /\ (Flying => CameraOf(flight) \in Nat)
<1>1. ASSUME Flying PROVE CameraOf(flight) \in Nat
  <2>1. flight.start \in Nat /\ flight.target \in Nat /\ flight.elapsed \in 0..1
    BY <1>1 DEF NavigationInv, FlightIsOfEntry
  <2>2. CASE flight.elapsed = 0
    BY <2>1, <2>2 DEF CameraOf, Duration
  <2>3. CASE flight.elapsed = 1
    <3>1. CameraOf(flight) = (flight.start + flight.target) \div 2
      BY <2>3 DEF CameraOf, Duration
    <3>2. QED BY <2>1, <3>1
  <2>4. QED BY <2>1, <2>2, <2>3
<1>2. QED BY <1>1 DEF Shown, NavigationInv

\* A flight starts where the screen is, and none is needed from where one is.
LEMMA FlightStarts ==
  ASSUME NavigationInv, NEW e \in Nat, Interrupts,
         flight' = Fly(StartFor(e), e), currentEntry' = e, UNCHANGED reducedMotion
  PROVE  FlightIsOfEntry' /\ ScreenDoesNotJump
<1>1. StartFor(e) \in Nat /\ (currentEntry # Nowhere => StartFor(e) = Shown)
  BY ShownIsAPlace DEF StartFor
<1>2. CASE reducedMotion \/ StartFor(e) = e
  <2>1. flight' = NoFlight
    BY <1>2 DEF Fly
  <2>2. FlightIsOfEntry'
    BY <2>1 DEF FlightIsOfEntry, Flying
  <2>3. Shown' = e
    BY <2>1 DEF Shown, Flying
  <2>4. QED BY <1>1, <1>2, <2>2, <2>3 DEF ScreenDoesNotJump
<1>3. CASE ~(reducedMotion \/ StartFor(e) = e)
  <2>1. flight' = [start |-> StartFor(e), target |-> e, elapsed |-> 0]
    BY <1>3 DEF Fly
  <2>2. flight'.start = StartFor(e) /\ flight'.target = e /\ flight'.elapsed = 0
    BY <2>1
  <2>3. Flying'
    BY <1>1, <2>2 DEF Flying, NoFlight, Nowhere
  <2>4. FlightIsOfEntry'
    BY <1>1, <1>3, <2>1, <2>2 DEF FlightIsOfEntry
  <2>5. Shown' = StartFor(e)
    <3>1. CameraOf(flight') = flight'.start
      BY <2>2 DEF CameraOf, Duration
    <3>2. QED BY <2>2, <2>3, <3>1 DEF Shown
  <2>6. QED BY <1>1, <2>4, <2>5 DEF ScreenDoesNotJump
<1>4. QED BY <1>2, <1>3

\* An interruption that fails ends the flight; what is shown is then its end.
LEMMA FlightIsDropped ==
  ASSUME NavigationInv, ~Interrupts, flight' = NoFlight,
         UNCHANGED <<currentEntry, reducedMotion>>
  PROVE  /\ FlightIsOfEntry' /\ ScreenDoesNotJump /\ TrailIsWalked
         /\ Flying /\ currentEntry # Nowhere
<1>1. Flying /\ ~HasCamera(flight) /\ flight.target = currentEntry
  BY DEF Interrupts, NavigationInv, FlightIsOfEntry
<1>2. ~Flying'
  BY DEF Flying
<1>3. flight.target \in Nat
  BY <1>1 DEF NavigationInv, FlightIsOfEntry
<1>4. QED BY <1>1, <1>2, <1>3 DEF FlightIsOfEntry, ScreenDoesNotJump, TrailIsWalked, Nowhere

\* What a flight has to do with the bounds of the history.
LEMMA BoundsOfHistory ==
  ASSUME FlightIsOfEntry', Len(pastEntries') + Len(future') <= MaxHistory,
         currentEntry' # Nowhere \/ (pastEntries' = <<>> /\ future' = <<>>)
  PROVE  HistoryIsBounded'
BY DEF HistoryIsBounded, FlightIsOfEntry, Duration

-----------------------------------------------------------------------------
(* Steps.                                                                   *)

LEMMA HistoryFacts ==
  ASSUME NavigationInv
  PROVE  /\ pastEntries \in Seq(Int) /\ future \in Seq(Int) /\ currentEntry \in Int
         /\ Len(pastEntries) \in Nat /\ Len(future) \in Nat /\ MaxHistory \in Nat \ {0}
         /\ Len(pastEntries) + Len(future) <= MaxHistory
         /\ currentEntry = Nowhere => pastEntries = <<>> /\ future = <<>>
         /\ Trail = TrailOf(pastEntries, currentEntry, future)
<1>1. pastEntries \in Seq(Int) /\ future \in Seq(Int) /\ currentEntry \in Int
  <2>1. Seq(Nat) \subseteq Seq(Int)
    BY SeqMonotonic
  <2>2. QED BY <2>1 DEF NavigationInv, Nowhere
<1>2. Len(pastEntries) \in Nat /\ Len(future) \in Nat
  BY DEF NavigationInv
<1>3. Trail = TrailOf(pastEntries, currentEntry, future)
  BY DEF Trail, TrailOf
<1>4. QED BY <1>1, <1>2, <1>3, NavigationAssumption DEF NavigationInv, HistoryIsBounded

LEMMA PushStep ==
  ASSUME NavigationInv, NEW e \in Endpoints, PushSemanticEndpoint(e)
  PROVE  NavigationStep
<1>1. e \in Nat
  BY NavigationAssumption
<1>2. CASE ~Interrupts
  <2>1. flight' = NoFlight /\ UNCHANGED <<pastEntries, currentEntry, future, reducedMotion>>
    BY <1>2 DEF PushSemanticEndpoint
  <2>2. FlightIsOfEntry' /\ ScreenDoesNotJump /\ TrailIsWalked /\ currentEntry # Nowhere
    BY <1>2, <2>1, FlightIsDropped
  <2>3. HistoryIsBounded'
    BY <2>1, <2>2, HistoryFacts, BoundsOfHistory
  <2>4. QED BY <2>1, <2>2, <2>3 DEF NavigationStep, NavigationInv
<1>3. CASE Interrupts
  <2>1. /\ flight' = Fly(StartFor(e), e) /\ currentEntry' = e /\ future' = <<>>
        /\ pastEntries' = IF currentEntry = Nowhere THEN pastEntries
                          ELSE Behind(pastEntries, currentEntry)
        /\ UNCHANGED reducedMotion
    BY <1>3 DEF PushSemanticEndpoint, FutureAfterPush
  <2>2. FlightIsOfEntry' /\ ScreenDoesNotJump
    BY <1>1, <1>3, <2>1, FlightStarts
  <2>3. Trail' = TrailOf(pastEntries', e, <<>>)
    BY <2>1 DEF Trail, TrailOf
  <2>4. CASE currentEntry = Nowhere
    <3>1. pastEntries = <<>> /\ pastEntries' = <<>>
      BY <2>1, <2>4, HistoryFacts
    <3>2. TrailOf(<<>>, e, <<>>) = <<e>>
      BY <1>1 DEF TrailOf
    <3>3. TrailIsWalked
      BY <2>1, <2>3, <3>1, <3>2 DEF TrailIsWalked
    <3>4. HistoryIsBounded'
      <4>1. Len(<<>>) = 0
        OBVIOUS
      <4>2. Len(pastEntries') = 0 /\ Len(future') = 0
        BY <2>1, <3>1, <4>1, Zenon
      <4>3. QED BY <1>1, <2>1, <2>2, <4>2, BoundsOfHistory, NavigationAssumption DEF Nowhere
    <3>5. pastEntries' \in Seq(Nat) /\ future' \in Seq(Nat)
      <4>1. <<>> \in Seq(Nat)
        OBVIOUS
      <4>2. QED BY <2>1, <3>1, <4>1, Zenon
    <3>6. QED BY <1>1, <2>1, <2>2, <3>3, <3>4, <3>5 DEF NavigationStep, NavigationInv
  <2>5. CASE currentEntry # Nowhere /\ Len(pastEntries) >= MaxHistory
    <3>1. pastEntries' = Append(Tail(pastEntries), currentEntry) /\ pastEntries # <<>>
      BY <2>1, <2>5, HistoryFacts DEF Behind
    <3>2. Trail' = SubSeq(Trail, 2, Len(pastEntries) + 1) \o <<e>>
      <4>1. Trail' = TrailOf(Append(Tail(pastEntries), currentEntry), e, <<>>)
        BY <2>3, <3>1
      <4>2. Trail = TrailOf(pastEntries, currentEntry, future)
        BY HistoryFacts
      <4>3. TrailOf(Append(Tail(pastEntries), currentEntry), e, <<>>)
              = SubSeq(TrailOf(pastEntries, currentEntry, future), 2, Len(pastEntries) + 1) \o <<e>>
        <5>1. /\ pastEntries \in Seq(Int) /\ future \in Seq(Int) /\ currentEntry \in Int
              /\ e \in Int /\ pastEntries # <<>>
          BY <1>1, <3>1, HistoryFacts
        <5>2. QED BY <5>1, TrailBranches, ZenonT(30)
      <4>4. QED BY <4>1, <4>2, <4>3, Zenon
    <3>3. TrailIsWalked
      BY <2>1, <3>2 DEF TrailIsWalked
    <3>4. /\ Tail(pastEntries) \in Seq(Nat) /\ Len(Tail(pastEntries)) = Len(pastEntries) - 1
          /\ currentEntry \in Nat
      BY <2>5, <3>1, HeadTailProperties DEF NavigationInv
    <3>5. pastEntries' \in Seq(Nat) /\ Len(pastEntries') = Len(Tail(pastEntries)) + 1
      BY <3>1, <3>4, AppendProperties
    <3>6. HistoryIsBounded'
      <4>1. Len(pastEntries') = Len(pastEntries) /\ Len(future') = 0
        BY <2>1, <3>4, <3>5, HistoryFacts
      <4>2. QED BY <1>1, <2>1, <2>2, <4>1, BoundsOfHistory, HistoryFacts DEF Nowhere
    <3>7. QED BY <1>1, <2>1, <2>2, <3>3, <3>5, <3>6 DEF NavigationStep, NavigationInv
  <2>6. CASE currentEntry # Nowhere /\ ~(Len(pastEntries) >= MaxHistory)
    <3>1. pastEntries' = Append(pastEntries, currentEntry)
      BY <2>1, <2>6 DEF Behind
    <3>2. Trail' = SubSeq(Trail, 1, Len(pastEntries) + 1) \o <<e>>
      <4>1. Trail' = TrailOf(Append(pastEntries, currentEntry), e, <<>>)
        BY <2>3, <3>1
      <4>2. Trail = TrailOf(pastEntries, currentEntry, future)
        BY HistoryFacts
      <4>3. TrailOf(Append(pastEntries, currentEntry), e, <<>>)
              = SubSeq(TrailOf(pastEntries, currentEntry, future), 1, Len(pastEntries) + 1) \o <<e>>
        <5>1. /\ pastEntries \in Seq(Int) /\ future \in Seq(Int) /\ currentEntry \in Int
              /\ e \in Int
          BY <1>1, HistoryFacts
        <5>2. QED BY <5>1, TrailBranches, ZenonT(30)
      <4>4. QED BY <4>1, <4>2, <4>3, Zenon
    <3>3. TrailIsWalked
      BY <2>1, <3>2 DEF TrailIsWalked
    <3>4. currentEntry \in Nat
      BY <2>6 DEF NavigationInv
    <3>5. pastEntries' \in Seq(Nat) /\ Len(pastEntries') = Len(pastEntries) + 1
      BY <3>1, <3>4, AppendProperties DEF NavigationInv
    <3>6. HistoryIsBounded'
      <4>1. Len(pastEntries') <= MaxHistory /\ Len(future') = 0 /\ Len(pastEntries') \in Nat
        BY <2>1, <2>6, <3>5, HistoryFacts
      <4>2. QED BY <1>1, <2>1, <2>2, <4>1, BoundsOfHistory, HistoryFacts DEF Nowhere
    <3>7. QED BY <1>1, <2>1, <2>2, <3>3, <3>5, <3>6 DEF NavigationStep, NavigationInv
  <2>7. QED BY <2>4, <2>5, <2>6
<1>4. QED BY <1>2, <1>3

LEMMA BackStep ==
  ASSUME NavigationInv, NavigateBack
  PROVE  NavigationStep
<1> PICK e, q : e = pastEntries[Len(pastEntries)]
                /\ q = SubSeq(pastEntries, 1, Len(pastEntries) - 1)
  OBVIOUS
<1>1. pastEntries # <<>> /\ pastEntries' = q /\ UNCHANGED reducedMotion
  BY DEF NavigateBack
<1>2. currentEntry # Nowhere /\ Len(pastEntries) # 0 /\ e \in Nat /\ currentEntry \in Nat
  <2>1. currentEntry # Nowhere
    BY <1>1, HistoryFacts
  <2>2. Len(pastEntries) # 0
    BY <1>1 DEF NavigationInv
  <2>3. e \in Nat
    BY <2>2 DEF NavigationInv
  <2>4. QED BY <2>1, <2>2, <2>3 DEF NavigationInv
<1>3. /\ q \in Seq(Int) /\ Len(q) = Len(pastEntries) - 1
      /\ TrailOf(q, e, <<currentEntry>> \o future) = Trail
  BY <1>1, HistoryFacts, TrailStepsBack
<1>4. q \in Seq(Nat)
  <2>1. \A i \in 1..(Len(pastEntries) - 1) : pastEntries[i] \in Nat
    BY <1>2 DEF NavigationInv
  <2>2. QED BY <2>1, HistoryFacts, SubSeqProperties
<1>5. CASE ~Interrupts
  <2>1. flight' = NoFlight /\ UNCHANGED <<currentEntry, future>>
    BY <1>5 DEF NavigateBack
  <2>2. FlightIsOfEntry' /\ ScreenDoesNotJump /\ TrailIsWalked
    BY <1>1, <1>5, <2>1, FlightIsDropped
  <2>3. HistoryIsBounded'
    BY <1>1, <1>2, <1>3, <2>1, <2>2, HistoryFacts, BoundsOfHistory
  <2>4. QED BY <1>1, <1>4, <2>1, <2>2, <2>3 DEF NavigationStep, NavigationInv
<1>6. CASE Interrupts
  <2>1. /\ flight' = Fly(StartFor(e), e) /\ currentEntry' = e
        /\ future' = Ahead(currentEntry, future)
    BY <1>2, <1>6 DEF NavigateBack
  <2>2. FlightIsOfEntry' /\ ScreenDoesNotJump
    BY <1>1, <1>2, <1>6, <2>1, FlightStarts
  <2>3. future' = <<currentEntry>> \o future
    <3>1. ~(Len(future) >= MaxHistory)
      BY <1>2, HistoryFacts
    <3>2. QED BY <2>1, <3>1, Zenon DEF Ahead
  <2>4. Len(future') = Len(future) + 1
    BY <2>3, HistoryFacts, TrailPieces
  <2>5. future' \in Seq(Nat)
    <3>1. <<currentEntry>> \in Seq(Nat) /\ future \in Seq(Nat)
      BY <1>2 DEF NavigationInv
    <3>2. QED BY <2>3, <3>1, ConcatProperties
  <2>6. Trail' = Trail
    BY <1>1, <1>3, <2>1, <2>3 DEF Trail, TrailOf
  <2>7. TrailIsWalked
    <3>1. Len(pastEntries') - Len(pastEntries) = -1
      BY <1>1, <1>3, HistoryFacts
    <3>2. QED BY <2>6, <3>1 DEF TrailIsWalked
  <2>8. HistoryIsBounded'
    <3>1. Len(pastEntries') + Len(future') <= MaxHistory
      <4>1. /\ Len(pastEntries') = Len(pastEntries) - 1 /\ Len(future') = Len(future) + 1
            /\ Len(pastEntries) \in Nat /\ Len(future) \in Nat
            /\ Len(pastEntries) + Len(future) <= MaxHistory
        BY <1>1, <1>3, <2>4, HistoryFacts
      <4>2. QED BY <4>1
    <3>2. QED BY <1>2, <2>1, <2>2, <3>1, BoundsOfHistory DEF Nowhere
  <2>9. QED BY <1>1, <1>2, <1>4, <2>1, <2>2, <2>5, <2>7, <2>8 DEF NavigationStep, NavigationInv
<1>7. QED BY <1>5, <1>6

LEMMA ForwardStep ==
  ASSUME NavigationInv, NavigateForward
  PROVE  NavigationStep
<1> PICK e, g : e = Head(future) /\ g = Tail(future)
  OBVIOUS
<1>1. future # <<>> /\ future' = g /\ UNCHANGED reducedMotion
  BY DEF NavigateForward
<1>2. /\ currentEntry # Nowhere /\ currentEntry \in Nat /\ e \in Nat /\ g \in Seq(Nat)
      /\ Len(future) # 0
  <2>1. currentEntry # Nowhere
    BY <1>1, HistoryFacts
  <2>2. e \in Nat /\ g \in Seq(Nat)
    BY <1>1, HeadTailProperties DEF NavigationInv
  <2>3. Len(future) # 0
    BY <1>1 DEF NavigationInv
  <2>4. QED BY <2>1, <2>2, <2>3 DEF NavigationInv
<1>3. /\ Len(g) = Len(future) - 1
      /\ TrailOf(Append(pastEntries, currentEntry), e, g) = Trail
  BY <1>1, HistoryFacts, TrailStepsForward
<1>4. CASE ~Interrupts
  <2>1. flight' = NoFlight /\ UNCHANGED <<currentEntry, pastEntries>>
    BY <1>4 DEF NavigateForward
  <2>2. FlightIsOfEntry' /\ ScreenDoesNotJump /\ TrailIsWalked
    BY <1>1, <1>4, <2>1, FlightIsDropped
  <2>3. HistoryIsBounded'
    BY <1>1, <1>2, <1>3, <2>1, <2>2, HistoryFacts, BoundsOfHistory
  <2>4. QED BY <1>1, <1>2, <2>1, <2>2, <2>3 DEF NavigationStep, NavigationInv
<1>5. CASE Interrupts
  <2>1. /\ flight' = Fly(StartFor(e), e) /\ currentEntry' = e
        /\ pastEntries' = Behind(pastEntries, currentEntry)
    BY <1>2, <1>5 DEF NavigateForward
  <2>2. FlightIsOfEntry' /\ ScreenDoesNotJump
    BY <1>1, <1>2, <1>5, <2>1, FlightStarts
  <2>3. pastEntries' = Append(pastEntries, currentEntry)
    BY <1>2, <2>1, HistoryFacts DEF Behind
  <2>4. pastEntries' \in Seq(Nat) /\ Len(pastEntries') = Len(pastEntries) + 1
    BY <1>2, <2>3, AppendProperties DEF NavigationInv
  <2>5. Trail' = Trail
    BY <1>1, <1>3, <2>1, <2>3 DEF Trail, TrailOf
  <2>6. TrailIsWalked
    <3>1. Len(pastEntries') - Len(pastEntries) = 1
      BY <2>4, HistoryFacts
    <3>2. QED BY <2>5, <3>1 DEF TrailIsWalked
  <2>7. HistoryIsBounded'
    <3>1. Len(pastEntries') + Len(future') <= MaxHistory
      BY <1>1, <1>3, <2>4, HistoryFacts
    <3>2. QED BY <1>2, <2>1, <2>2, <3>1, BoundsOfHistory DEF Nowhere
  <2>8. QED BY <1>1, <1>2, <2>1, <2>2, <2>4, <2>6, <2>7 DEF NavigationStep, NavigationInv
<1>6. QED BY <1>4, <1>5

\* A step that leaves the trail.
LEMMA TrailStands ==
  ASSUME NavigationInv, UNCHANGED <<pastEntries, future>>, FlightIsOfEntry',
         currentEntry' \in Nat \cup {Nowhere}, currentEntry' = Nowhere => currentEntry = Nowhere
  PROVE  NavigationInv' /\ Len(pastEntries') - Len(pastEntries) \in {-1, 0, 1}
<1>1. HistoryIsBounded'
  BY HistoryFacts, BoundsOfHistory
<1>2. Len(pastEntries') - Len(pastEntries) = 0
  BY HistoryFacts
<1>3. QED BY <1>1, <1>2 DEF NavigationInv

LEMMA FlightStep ==
  ASSUME NavigationInv, NEW dt \in 0..(2 * Duration), StepFlight(dt)
  PROVE  NavigationStep
<1> PICK elapsed : elapsed = Advanced(flight, dt)
  OBVIOUS
<1>1. /\ Flying /\ UNCHANGED <<pastEntries, currentEntry, future, reducedMotion>>
      /\ flight' = IF elapsed = Duration THEN NoFlight
                                         ELSE [flight EXCEPT !.elapsed = elapsed]
  BY DEF StepFlight
<1>2. /\ flight = [start |-> flight.start, target |-> flight.target, elapsed |-> flight.elapsed]
      /\ flight.start \in Nat /\ flight.target \in Nat
      /\ flight.elapsed \in 0..1 /\ flight.target = currentEntry /\ ~reducedMotion
  BY <1>1 DEF NavigationInv, FlightIsOfEntry
<1>3. elapsed \in {flight.elapsed, flight.elapsed + 1}
  BY <1>2 DEF Advanced, Duration
<1>4. UNCHANGED Trail
  BY <1>1 DEF Trail
<1>5. CASE elapsed = Duration
  <2>1. flight' = NoFlight /\ flight.elapsed = 1
    BY <1>1, <1>2, <1>3, <1>5 DEF Duration
  <2>2. FlightIsOfEntry' /\ ScreenDoesNotJump
    BY <1>1, <1>2, <2>1 DEF FlightIsOfEntry, Flying, ScreenDoesNotJump
  <2>3. NavigationInv' /\ Len(pastEntries') - Len(pastEntries) \in {-1, 0, 1}
    BY <1>1, <2>2, TrailStands DEF NavigationInv
  <2>4. QED BY <1>4, <2>2, <2>3 DEF NavigationStep, TrailIsWalked
<1>6. CASE elapsed # Duration
  <2>1. /\ flight' = [flight EXCEPT !.elapsed = elapsed]
        /\ elapsed \in 0..1 /\ (elapsed = flight.elapsed \/ (flight.elapsed = 0 /\ elapsed = 1))
    BY <1>1, <1>2, <1>3, <1>6 DEF Duration
  <2>2. flight' = [start |-> flight.start, target |-> flight.target, elapsed |-> elapsed]
    BY <1>2, <2>1
  <2>3. FlightIsOfEntry'
    BY <1>1, <1>2, <2>1, <2>2 DEF FlightIsOfEntry
  <2>4. ScreenDoesNotJump
    <3>1. CASE elapsed = flight.elapsed
      <4>1. flight' = flight
        BY <1>2, <2>2, <3>1
      <4>2. Shown' = Shown
        BY <1>1, <4>1 DEF Shown, Flying
      <4>3. QED BY <4>2 DEF ScreenDoesNotJump
    <3>2. CASE flight.elapsed = 0 /\ elapsed = 1
      BY <1>1, <2>1, <3>2 DEF ScreenDoesNotJump
    <3>3. QED BY <2>1, <3>1, <3>2
  <2>5. NavigationInv' /\ Len(pastEntries') - Len(pastEntries) \in {-1, 0, 1}
    BY <1>1, <2>3, TrailStands DEF NavigationInv
  <2>6. QED BY <1>4, <2>4, <2>5 DEF NavigationStep, TrailIsWalked
<1>7. QED BY <1>5, <1>6

LEMMA InterruptStep ==
  ASSUME NavigationInv, InterruptFlight
  PROVE  NavigationStep
<1>1. /\ Flying /\ flight' = NoFlight /\ ~Flying'
      /\ currentEntry' = IF HasCamera(flight) THEN CameraOf(flight) ELSE currentEntry
      /\ UNCHANGED <<pastEntries, future, reducedMotion>>
  BY DEF InterruptFlight, Flying
<1>2. currentEntry \in Nat /\ currentEntry # Nowhere /\ flight.target = currentEntry
  BY <1>1 DEF NavigationInv, FlightIsOfEntry, Nowhere
<1>3. currentEntry' \in Nat
  BY <1>1, <1>2, ShownIsAPlace
<1>4. FlightIsOfEntry'
  BY <1>1 DEF FlightIsOfEntry
<1>5. NavigationInv'
  BY <1>1, <1>3, <1>4, TrailStands DEF Nowhere
<1>6. Shown = CameraOf(flight) /\ Shown' = currentEntry'
  BY <1>1 DEF Shown
<1>7. TrailIsWalked
  BY <1>1, <1>6 DEF TrailIsWalked
<1>8. ScreenDoesNotJump
  BY <1>1, <1>2, <1>6 DEF ScreenDoesNotJump
<1>9. QED BY <1>5, <1>7, <1>8 DEF NavigationStep

LEMMA PreferenceStep ==
  ASSUME NavigationInv, SetMotionPreference
  PROVE  NavigationStep
<1>1. /\ reducedMotion' = ~reducedMotion /\ UNCHANGED <<pastEntries, future>>
      /\ currentEntry' = IF reducedMotion' /\ Flying THEN flight.target ELSE currentEntry
      /\ flight' = IF reducedMotion' THEN NoFlight ELSE flight
  BY DEF SetMotionPreference
<1>2. Flying => flight.target = currentEntry /\ ~reducedMotion
  BY DEF NavigationInv, FlightIsOfEntry
<1>3. UNCHANGED currentEntry
  BY <1>1, <1>2
<1>4. flight' = NoFlight
  BY <1>1, <1>2 DEF Flying
<1>5. FlightIsOfEntry'
  BY <1>4 DEF FlightIsOfEntry, Flying
<1>6. NavigationInv' /\ Len(pastEntries') - Len(pastEntries) \in {-1, 0, 1} /\ UNCHANGED Trail
  BY <1>1, <1>3, <1>5, TrailStands DEF NavigationInv, Trail
<1>7. ScreenDoesNotJump
  <2>1. CASE Flying
    BY <1>1, <1>2, <1>3, <1>4, <2>1 DEF ScreenDoesNotJump
  <2>2. CASE ~Flying
    BY <1>3, <1>4, <2>2 DEF ScreenDoesNotJump, Shown, Flying
  <2>3. QED BY <2>1, <2>2
<1>8. QED BY <1>6, <1>7 DEF NavigationStep, TrailIsWalked

LEMMA NavigationSteps ==
  ASSUME NavigationInv, NavigationNext
  PROVE  NavigationStep
BY PushStep, BackStep, ForwardStep, InterruptStep, PreferenceStep, FlightStep, Zenon
DEF NavigationNext

\* A flight is always to the current entry, and the two histories stay within
\* their bound (navigation.rs, begin_flight and interrupt_flight).
THEOREM NavigationInvariant == NavigationSpec => []NavigationInv
<1>1. NavigationInit => NavigationInv
  BY NavigationAssumption
  DEF NavigationInit, NavigationInv, FlightIsOfEntry, Flying, HistoryIsBounded
<1>2. NavigationInv /\ [NavigationNext]_navigationVars => NavigationInv'
  <2>1. ASSUME NavigationInv, UNCHANGED navigationVars PROVE NavigationInv'
    BY <2>1 DEF navigationVars, NavigationInv, FlightIsOfEntry, Flying, HistoryIsBounded
  <2>2. QED BY <2>1, NavigationSteps DEF NavigationStep
<1>3. QED BY <1>1, <1>2, PTL DEF NavigationSpec

\* Going back and forth walks one trail, and the screen does not jump
\* (fcb-map/src/navigation.rs).
THEOREM NavigationAlwaysStands == NavigationSpec => NavigationStands
<1>1. NavigationInv /\ [NavigationNext]_navigationVars
        => [HistoryIsBounded' /\ TrailIsWalked /\ ScreenDoesNotJump]_navigationVars
  BY NavigationSteps DEF NavigationStep, NavigationInv
<1>2. QED BY <1>1, NavigationInvariant, PTL DEF NavigationSpec, NavigationStands

-----------------------------------------------------------------------------
(***************************************************************************)
(* The reading desk. Every location a pane, a visit or a mark points at    *)
(* has its capture, and numbers of panes, marks and identities only go up; *)
(* from that each command leaves a desk that can be saved and restored.    *)
(***************************************************************************)

LEMMA GreatestNumber ==
  ASSUME NEW S \in SUBSET Nat, S # {}, NEW b \in Nat, \A n \in S : n <= b
  PROVE  Greatest(S) \in S /\ \A n \in S : n <= Greatest(S)
<1> DEFINE bounds == {m \in Nat : \A n \in S : n <= m}
<1>1. PICK m \in bounds : \A k \in bounds : m <= k
  <2>1. bounds \in SUBSET Nat /\ bounds # {}
    OBVIOUS
  <2> HIDE DEF bounds
  <2>2. QED BY <2>1, LeastNumber
<1>2. m \in S
  <2>1. SUFFICES ASSUME m \notin S PROVE FALSE
    OBVIOUS
  <2>2. \A n \in S : n <= m - 1 /\ m >= 1
    BY <1>1, <2>1
  <2>3. m - 1 \in bounds
    <3>1. PICK n \in S : m >= 1
      BY <2>2
    <3>2. m - 1 \in Nat
      BY <1>1, <3>1
    <3>3. QED BY <2>2, <3>2
  <2>4. QED BY <1>1, <2>3
<1>3. \E x \in S : \A n \in S : n <= x
  BY <1>1, <1>2
<1>4. QED BY <1>3 DEF Greatest

-----------------------------------------------------------------------------
LEMMA PlacesInside ==
  ASSUME NEW S, NEW s \in Seq(S)
  PROVE  /\ Len(s) \in Nat /\ DOMAIN s = 1 .. Len(s) /\ IsFiniteSet(DOMAIN s)
         /\ Cardinality(DOMAIN s) = Len(s)
         /\ \A i \in DOMAIN s : s[i] \in S
         /\ Elements(s) \subseteq S
         /\ s = <<>> <=> Len(s) = 0
<1>1. Len(s) \in Nat /\ DOMAIN s = 1 .. Len(s)
  BY LenProperties
<1>2. IsFiniteSet(1 .. Len(s)) /\ Cardinality(1 .. Len(s)) = Len(s)
  BY <1>1, FS_Interval
<1>3. \A i \in 1 .. Len(s) : s[i] \in S
  BY ElementOfSeq
<1>4. s = <<>> <=> Len(s) = 0
  BY EmptySeq, <1>1
<1>5. QED BY <1>1, <1>2, <1>3, <1>4 DEF Elements

LEMMA ElementsAppend ==
  ASSUME NEW S, NEW s \in Seq(S), NEW e \in S
  PROVE  /\ Append(s, e) \in Seq(S) /\ Len(Append(s, e)) = Len(s) + 1
         /\ DOMAIN Append(s, e) = 1 .. (Len(s) + 1)
         /\ \A i \in 1 .. Len(s) : Append(s, e)[i] = s[i]
         /\ Append(s, e)[Len(s) + 1] = e
         /\ Elements(Append(s, e)) = Elements(s) \cup {e}
         /\ Append(s, e) # <<>>
<1> DEFINE t == Append(s, e)
           n == Len(s)
<1>1. /\ t \in Seq(S) /\ Len(t) = n + 1 /\ n \in Nat
      /\ DOMAIN s = 1 .. n /\ DOMAIN t = 1 .. (n + 1)
      /\ t[n + 1] = e /\ \A i \in 1 .. n : t[i] = s[i]
  BY AppendProperties, LenProperties
<1>2. n + 1 \in 1 .. (n + 1) /\ \A i \in 1 .. n : i \in 1 .. (n + 1)
  BY <1>1
<1>3. \A i \in 1 .. (n + 1) : i \in 1 .. n \/ i = n + 1
  BY <1>1
<1>4. t # <<>>
  BY <1>1, <1>2
<1> HIDE DEF t, n
<1>5. Elements(t) = Elements(s) \cup {e}
  BY <1>1, <1>2, <1>3 DEF Elements
<1>6. QED BY <1>1, <1>4, <1>5 DEF t, n

\* What is kept are the elements at the places that are kept, each once.
LEMMA KeptIs ==
  ASSUME NEW S, NEW s \in Seq(S), NEW T \in SUBSET DOMAIN s
  PROVE  /\ Kept(s, T) \in Seq(S) /\ Len(Kept(s, T)) = Cardinality(T)
         /\ Len(Kept(s, T)) <= Len(s)
         /\ DOMAIN Kept(s, T) = 1 .. Cardinality(T)
         /\ \E f \in [1 .. Cardinality(T) -> T] :
              /\ \A n, m \in 1 .. Cardinality(T) : f[n] = f[m] => n = m
              /\ \A n \in 1 .. Cardinality(T) : Kept(s, T)[n] = s[f[n]]
         /\ Elements(Kept(s, T)) = {s[i] : i \in T}
<1> DEFINE upTo(i) == {j \in T : j <= i}
           rank == [i \in T |-> Cardinality(upTo(i))]
           c == Cardinality(T)
<1>1. /\ T \subseteq Nat /\ IsFiniteSet(T) /\ c \in Nat /\ c <= Len(s)
      /\ \A i \in T : s[i] \in S
  <2>1. IsFiniteSet(T) /\ c <= Cardinality(DOMAIN s)
    BY PlacesInside, FS_Subset
  <2>2. QED BY <2>1, PlacesInside, FS_CardinalityType
<1>2. \A i \in T : /\ upTo(i) \subseteq T /\ IsFiniteSet(upTo(i))
                   /\ Cardinality(upTo(i)) \in 1 .. c
  <2> SUFFICES ASSUME NEW i \in T
               PROVE  /\ upTo(i) \subseteq T /\ IsFiniteSet(upTo(i))
                      /\ Cardinality(upTo(i)) \in 1 .. c
    OBVIOUS
  <2>1. upTo(i) \subseteq T /\ i \in upTo(i)
    BY <1>1
  <2> HIDE DEF upTo
  <2>2. IsFiniteSet(upTo(i)) /\ Cardinality(upTo(i)) <= c /\ Cardinality(upTo(i)) \in Nat
    BY <1>1, <2>1, FS_Subset, FS_CardinalityType
  <2>3. Cardinality(upTo(i)) # 0
    BY <2>1, <2>2, FS_EmptySet
  <2>4. QED BY <1>1, <2>1, <2>2, <2>3
<1>3. \A i, j \in T : Cardinality(upTo(i)) = Cardinality(upTo(j)) => i = j
  <2>1. ASSUME NEW i \in T, NEW j \in T, i < j, Cardinality(upTo(i)) = Cardinality(upTo(j))
        PROVE  FALSE
    <3>1. upTo(i) \subseteq upTo(j) /\ j \in upTo(j) /\ j \notin upTo(i)
      BY <1>1, <2>1
    <3>2. IsFiniteSet(upTo(j))
      BY <1>2
    <3> HIDE DEF upTo
    <3>3. upTo(i) = upTo(j)
      BY <2>1, <3>1, <3>2, FS_Subset
    <3>4. QED BY <3>1, <3>3
  <2> HIDE DEF upTo
  <2>2. ASSUME NEW i \in T, NEW j \in T, Cardinality(upTo(i)) = Cardinality(upTo(j)), i # j
        PROVE  FALSE
    <3>1. i < j \/ j < i
      BY <1>1, <2>2
    <3>2. QED BY <2>1, <2>2, <3>1
  <2>3. QED BY <2>2
<1>4. \A n \in 1 .. c : \E i \in T : Cardinality(upTo(i)) = n
  <2>1. rank \in [T -> 1 .. c]
    BY <1>2
  <2>2. \A i, j \in T : rank[i] = rank[j] => i = j
    BY <1>3
  <2>3. rank \in Injection(T, 1 .. c)
    <3> HIDE DEF rank
    <3>1. QED BY <2>1, <2>2 DEF Injection, IsInjective
  <2>4. IsFiniteSet(1 .. c) /\ Cardinality(1 .. c) = c
    BY <1>1, FS_Interval
  <2>5. rank \in Surjection(T, 1 .. c)
    <3> HIDE DEF rank
    <3>1. QED BY <2>3, <2>4, FS_Injection
  <2>6. QED BY <2>5 DEF Surjection
<1> DEFINE place(n) == CHOOSE i \in T : Cardinality(upTo(i)) = n
           f == [n \in 1 .. c |-> place(n)]
<1>5. \A n \in 1 .. c : place(n) \in T /\ Cardinality(upTo(place(n))) = n
  <2> HIDE DEF upTo
  <2>1. QED BY <1>4
<1>6. \A i \in T : place(Cardinality(upTo(i))) = i
  <2> HIDE DEF upTo
  <2>1. QED BY <1>3
<1>7. Kept(s, T) = [n \in 1 .. c |-> s[place(n)]]
  BY DEF Kept
<1> HIDE DEF upTo, place
<1>8. Kept(s, T) \in [1 .. c -> S]
  BY <1>1, <1>5, <1>7
<1>9. Kept(s, T) \in Seq(S) /\ Len(Kept(s, T)) = c /\ DOMAIN Kept(s, T) = 1 .. c
  <2>1. Kept(s, T) \in Seq(S)
    BY <1>1, <1>8, SeqDef
  <2>2. DOMAIN Kept(s, T) = 1 .. c
    BY <1>8
  <2>3. Len(Kept(s, T)) = c
    BY <1>1, <2>1, <2>2, LenProperties
  <2>4. QED BY <2>1, <2>2, <2>3
<1>10. f \in [1 .. c -> T] /\ \A n \in 1 .. c : f[n] = place(n)
  BY <1>5
<1>11. \A n, m \in 1 .. c : f[n] = f[m] => n = m
  BY <1>5, <1>10
<1>12. \A n \in 1 .. c : Kept(s, T)[n] = s[f[n]]
  BY <1>7, <1>10
<1>13. Elements(Kept(s, T)) = {s[i] : i \in T}
  <2>1. \A n \in 1 .. c : Kept(s, T)[n] = s[place(n)] /\ place(n) \in T
    BY <1>5, <1>7
  <2>2. \A i \in T : Cardinality(upTo(i)) \in 1 .. c /\ Kept(s, T)[Cardinality(upTo(i))] = s[i]
    BY <1>2, <1>6, <1>7
  <2>3. QED BY <1>9, <2>1, <2>2 DEF Elements
<1> HIDE DEF f, c
<1>14. /\ Kept(s, T) \in Seq(S) /\ Len(Kept(s, T)) = Cardinality(T)
       /\ DOMAIN Kept(s, T) = 1 .. Cardinality(T)
       /\ Elements(Kept(s, T)) = {s[i] : i \in T}
  BY <1>9, <1>13 DEF c
<1>15. Len(Kept(s, T)) <= Len(s)
  BY <1>1, <1>9
<1>16. /\ f \in [1 .. Cardinality(T) -> T]
       /\ \A n, m \in 1 .. Cardinality(T) : f[n] = f[m] => n = m
       /\ \A n \in 1 .. Cardinality(T) : Kept(s, T)[n] = s[f[n]]
  BY <1>10, <1>11, <1>12 DEF c
<1>17. QED BY <1>14, <1>15, <1>16

-----------------------------------------------------------------------------
(***************************************************************************)
(* What holds of each part of a desk, and what the parts refer to.         *)
(***************************************************************************)

DeskPane ==
  [id : Nat \ {0}, file : Nat \ {0}, revision : Nat \ {0}, place : Places, pinned : BOOLEAN]
Location == [file : Nat \ {0}, revision : Nat \ {0}, place : Places, pane : Nat]
Mark == [id : Nat \ {0}, updates : Nat, location : Location]

\* A number names one of them, and the next number none.
Numbered(things, next) ==
  /\ next \in Nat \ {0}
  /\ \A x \in things : x.id < next
  /\ \A x, y \in things : x.id = y.id => x = y

PanesStand ==
  /\ deskPanes \in Seq(DeskPane) /\ Len(deskPanes) <= MaxDeskPanes
  /\ Numbered(Elements(deskPanes), nextPaneId)
  /\ IF deskPanes = <<>> THEN activeReader = 0 ELSE activeReader \in PaneIds

TrailStandsAt(trail, position) ==
  /\ trail \in Seq(Location) /\ Len(trail) <= MaxVisits
  /\ IF trail = <<>> THEN position = 0 ELSE position \in DOMAIN trail

MarksStand ==
  /\ marks \in Seq(Mark) /\ Len(marks) <= MaxMarks
  /\ Numbered(Elements(marks), nextMark)
  /\ \A i, j \in DOMAIN marks : marks[i].id = marks[j].id => i = j

Exact(kept) ==
  /\ kept \in Seq(Capture) /\ Len(kept) <= MaxSources
  /\ \A i, j \in DOMAIN kept : Keeps(kept[i], kept[j]) => i = j

\* All numbers of identities that were ever retained are below the high water.
NumberedWithin(kept, water) == \A s \in Elements(kept) : s.file <= water /\ s.revision <= water

SourcesStand ==
  /\ Exact(sources)
  /\ retainedTop \in Nat /\ highWater \in Nat /\ retainedTop <= highWater
  /\ NumberedWithin(sources, retainedTop)

\* What panes, visits and marks point at.
Held(open, trail, notes) ==
  Elements(open) \cup Elements(trail) \cup {m.location : m \in Elements(notes)}

Provided(kept, refs) == \A t \in refs : \E s \in Elements(kept) : Keeps(s, t)

DeskInv ==
  /\ PanesStand /\ TrailStandsAt(visits, cursor) /\ MarksStand /\ SourcesStand
  /\ Provided(sources, Held(deskPanes, visits, marks))
  /\ \A s \in Elements(sources) : Referenced(s, deskPanes, visits, marks)
  /\ CursorIsWhatIsShown

LEMMA DeskConstants ==
  /\ MaxDeskPanes \in Nat \ {0} /\ MaxSources \in Nat \ {0} /\ MaxVisits \in Nat \ {0}
  /\ MaxMarks \in Nat /\ Offered \subseteq Capture
BY DeskAssumption

LEMMA InvRestores == DeskInv => EveryDeskRestores
<1> SUFFICES ASSUME DeskInv PROVE EveryDeskRestores
  OBVIOUS
<1>1. /\ Len(sources) <= MaxSources /\ Len(deskPanes) <= MaxDeskPanes
      /\ Len(visits) <= MaxVisits /\ Len(marks) <= MaxMarks
      /\ \A i, j \in DOMAIN sources : Keeps(sources[i], sources[j]) => i = j
      /\ IF visits = <<>> THEN cursor = 0 ELSE cursor \in DOMAIN visits
  BY DEF DeskInv, PanesStand, TrailStandsAt, MarksStand, SourcesStand, Exact
<1>2. IF deskPanes = <<>> THEN activeReader = 0
      ELSE \E p \in Elements(deskPanes) : p.id = activeReader
  BY DEF DeskInv, PanesStand, PaneIds
<1>3. \A t \in Elements(deskPanes) \cup Elements(visits) \cup {m.location : m \in Elements(marks)} :
        \E s \in Elements(sources) : Keeps(s, t)
  BY DEF DeskInv, Provided, Held
<1>4. \A s \in Elements(sources) : Referenced(s, deskPanes, visits, marks)
  BY DEF DeskInv
<1>5. QED BY <1>1, <1>2, <1>3, <1>4 DEF EveryDeskRestores, CheckpointValid

LEMMA DeskStart == DeskInit => DeskInv
<1> SUFFICES ASSUME DeskInit PROVE DeskInv
  OBVIOUS
<1>1. \A S : <<>> \in Seq(S) /\ Len(<<>>) = 0 /\ DOMAIN <<>> = {}
  BY EmptySeq
<1>2. Elements(<<>>) = {}
  BY <1>1 DEF Elements
<1>3. PanesStand
  BY <1>1, <1>2, DeskConstants DEF DeskInit, PanesStand, Numbered
<1>4. TrailStandsAt(visits, cursor)
  BY <1>1, DeskConstants DEF DeskInit, TrailStandsAt
<1>5. MarksStand
  BY <1>1, <1>2, DeskConstants DEF DeskInit, MarksStand, Numbered
<1>6. SourcesStand
  BY <1>1, <1>2, DeskConstants DEF DeskInit, SourcesStand, Exact, NumberedWithin
<1>7. QED BY <1>2, <1>3, <1>4, <1>5, <1>6
          DEF DeskInit, DeskInv, Provided, Held, CursorIsWhatIsShown

\* A pane is found by its number.
LEMMA PaneIsFound ==
  ASSUME PanesStand, NEW p \in Elements(deskPanes)
  PROVE  /\ p.id \in PaneIds /\ PaneOf(p.id) = p /\ p \in DeskPane
         /\ LocationOf(p.id)
              = [file |-> p.file, revision |-> p.revision, place |-> p.place, pane |-> p.id]
         /\ LocationOf(p.id) \in Location
<1>1. p \in DeskPane
  BY PlacesInside DEF PanesStand
<1>2. PaneOf(p.id) = p
  BY DEF PanesStand, Numbered, PaneOf
<1>3. LocationOf(p.id)
        = [file |-> p.file, revision |-> p.revision, place |-> p.place, pane |-> p.id]
  BY <1>2 DEF LocationOf
<1>4. QED BY <1>1, <1>2, <1>3 DEF PaneIds, DeskPane, Location

\* An exact desk has one capture for a location, so its text stays.
LEMMA TextStays ==
  ASSUME NEW kept, Exact(kept), NEW more, Exact(more), NEW staged, Exact(staged),
         Elements(kept) \subseteq Elements(staged), Elements(more) \subseteq Elements(staged),
         NEW t, NEW u, Identity(t) = Identity(u), t.place = u.place,
         \E s \in Elements(kept) : Keeps(s, t), \E s \in Elements(more) : Keeps(s, t)
  PROVE  SelectedIn(kept, t) = SelectedIn(more, u)
<1>1. \A x, y \in Elements(staged) : Keeps(x, y) => x = y
  BY DEF Exact, Elements
<1>2. PICK s \in Elements(kept) : Keeps(s, t)
  OBVIOUS
<1>3. s \in Elements(more) /\ s \in Elements(staged)
  BY <1>1, <1>2 DEF Keeps
<1>4. \A x \in Elements(kept) : Keeps(x, t) => x = s
  BY <1>1, <1>2, <1>3 DEF Keeps
<1>5. \A x \in Elements(more) : Keeps(x, u) => x = s
  BY <1>1, <1>2, <1>3 DEF Keeps
<1>6. (CHOOSE x \in Elements(kept) : Keeps(x, t)) = s
  BY <1>2, <1>4
<1>7. (CHOOSE x \in Elements(more) : Keeps(x, u)) = s
  BY <1>2, <1>3, <1>5 DEF Keeps
<1>8. QED BY <1>6, <1>7 DEF SelectedIn

-----------------------------------------------------------------------------
(***************************************************************************)
(* The parts of a command: what it publishes, the pane a location is       *)
(* opened in, the visit it records.                                        *)
(***************************************************************************)

\* Of exact captures that provide for the new desk, those that are left do too,
\* and no identity among them was missed by the high water.
LEMMA PublishStep ==
  ASSUME SourcesStand, NEW staged, Exact(staged),
         highWater' \in Nat, highWater <= highWater', NumberedWithin(staged, highWater'),
         Provided(staged, Held(deskPanes', visits', marks')),
         Publish(staged)
  PROVE  /\ SourcesStand'
         /\ Provided(sources', Held(deskPanes', visits', marks'))
         /\ \A s \in Elements(sources') : Referenced(s, deskPanes', visits', marks')
         /\ Elements(sources') \subseteq Elements(staged)
         /\ retainedTop' <= highWater'
<1> DEFINE T == {i \in DOMAIN staged : Referenced(staged[i], deskPanes', visits', marks')}
           tops == {retainedTop} \cup {Top(s) : s \in Elements(sources')}
<1>1. staged \in Seq(Capture) /\ T \in SUBSET DOMAIN staged
  BY DEF Exact
<1>2. sources' = Kept(staged, T) /\ retainedTop' = Greatest(tops)
  BY DEF Publish
<1> HIDE DEF T
<1>3. /\ sources' \in Seq(Capture) /\ Len(sources') = Cardinality(T)
      /\ Len(sources') <= Len(staged) /\ DOMAIN sources' = 1 .. Cardinality(T)
      /\ Elements(sources') = {staged[i] : i \in T}
  BY <1>1, <1>2, KeptIs
<1>4. PICK f \in [1 .. Cardinality(T) -> T] :
        /\ \A n, m \in 1 .. Cardinality(T) : f[n] = f[m] => n = m
        /\ \A n \in 1 .. Cardinality(T) : sources'[n] = staged[f[n]]
  BY <1>1, <1>2, KeptIs
<1>5. Exact(sources')
  <2>1. Len(sources') <= MaxSources
    BY <1>1, <1>3, PlacesInside, DeskConstants DEF Exact
  <2>2. ASSUME NEW i \in DOMAIN sources', NEW j \in DOMAIN sources', Keeps(sources'[i], sources'[j])
        PROVE  i = j
    <3>1. /\ f[i] \in DOMAIN staged /\ f[j] \in DOMAIN staged
          /\ sources'[i] = staged[f[i]] /\ sources'[j] = staged[f[j]]
      BY <1>1, <1>3, <1>4
    <3>2. f[i] = f[j]
      BY <2>2, <3>1 DEF Exact
    <3>3. QED BY <1>3, <1>4, <3>2
  <2>3. QED BY <1>3, <2>1, <2>2 DEF Exact
<1>6. Elements(sources') = {s \in Elements(staged) : Referenced(s, deskPanes', visits', marks')}
  BY <1>3 DEF T, Elements
<1>7. Provided(sources', Held(deskPanes', visits', marks'))
  <2>1. ASSUME NEW t \in Held(deskPanes', visits', marks'), NEW s \in Elements(staged), Keeps(s, t)
        PROVE  Referenced(s, deskPanes', visits', marks')
    BY <2>1 DEF Held, Referenced
  <2>2. QED BY <1>6, <2>1 DEF Provided
<1>8. /\ retainedTop' \in tops /\ \A n \in tops : n <= retainedTop'
      /\ tops \in SUBSET Nat /\ \A n \in tops : n <= highWater'
  <2>1. retainedTop \in Nat /\ retainedTop <= highWater'
    BY DEF SourcesStand
  <2>2. \A s \in Elements(sources') : Top(s) \in Nat /\ Top(s) <= highWater'
    <3>1. \A s \in Elements(sources') : s \in Capture
      BY <1>3, PlacesInside
    <3>2. \A s \in Elements(sources') : s.file <= highWater' /\ s.revision <= highWater'
      BY <1>6 DEF NumberedWithin
    <3>3. QED BY <3>1, <3>2 DEF Top, Capture
  <2>3. tops \in SUBSET Nat /\ tops # {} /\ \A n \in tops : n <= highWater'
    BY <2>1, <2>2
  <2> HIDE DEF tops
  <2>4. QED BY <1>2, <2>3, GreatestNumber
<1>9. NumberedWithin(sources', retainedTop')
  <2>1. ASSUME NEW s \in Elements(sources')
        PROVE  s.file <= retainedTop' /\ s.revision <= retainedTop'
    <3>1. s \in Capture /\ Top(s) <= retainedTop' /\ Top(s) \in Nat /\ retainedTop' \in Nat
      BY <1>3, <1>8, PlacesInside
    <3>2. s.file <= Top(s) /\ s.revision <= Top(s) /\ s.file \in Nat /\ s.revision \in Nat
      BY <3>1 DEF Capture, Top
    <3>3. QED BY <3>1, <3>2
  <2>2. QED BY <2>1 DEF NumberedWithin
<1>10. retainedTop' \in Nat /\ retainedTop' <= highWater'
  BY <1>8
<1>11. SourcesStand'
  BY <1>5, <1>9, <1>10 DEF SourcesStand
<1>12. QED BY <1>6, <1>7, <1>10, <1>11

\* A pane is preferred that is free, or that shows the capture already.
LEMMA PreferredIs ==
  ASSUME PanesStand, NEW at \in Location, Preferred(at) # 0
  PROVE  \E p \in Elements(deskPanes) : p.id = Preferred(at) /\ (~p.pinned \/ Keeps(p, at))
<1>1. CASE Hinted(at) # {}
  BY <1>1 DEF Hinted, Preferred
<1>2. CASE Hinted(at) = {} /\ activeReader # 0 /\ ~PaneOf(activeReader).pinned
  <2>1. Preferred(at) = activeReader
    BY <1>2 DEF Preferred
  <2>2. PICK p \in Elements(deskPanes) : p.id = activeReader
    BY <1>2 DEF PanesStand, PaneIds
  <2>3. PaneOf(activeReader) = p
    BY <2>2, PaneIsFound
  <2>4. QED BY <1>2, <2>1, <2>2, <2>3
<1>3. CASE Hinted(at) = {} /\ ~(activeReader # 0 /\ ~PaneOf(activeReader).pinned)
  <2> DEFINE free == {i \in DOMAIN deskPanes : ~deskPanes[i].pinned}
  <2>1. Preferred(at) = FirstFree /\ free # {}
    BY <1>3 DEF Preferred, FirstFree
  <2>2. free \in SUBSET Nat
    BY PlacesInside DEF PanesStand
  <2>3. \E i \in free : \A j \in free : i <= j
    <3> HIDE DEF free
    <3>1. QED BY <2>1, <2>2, LeastNumber
  <2>4. PICK i \in free : FirstFree = deskPanes[i].id
    BY <2>1, <2>3 DEF FirstFree
  <2>5. QED BY <2>1, <2>4 DEF Elements
<1>4. QED BY <1>1, <1>2, <1>3

\* A new pane takes the next number and is the active one.
LEMMA PaneAdded ==
  ASSUME PanesStand, NEW p \in DeskPane, p.id = nextPaneId,
         Len(deskPanes) < MaxDeskPanes, deskPanes' = Append(deskPanes, p),
         activeReader' = nextPaneId, nextPaneId' = nextPaneId + 1
  PROVE  /\ PanesStand' /\ activeReader' \in Nat
         /\ Elements(deskPanes') = Elements(deskPanes) \cup {p}
         /\ \A q \in Elements(deskPanes') : q.id = activeReader' => q = p
         /\ \A r \in Elements(deskPanes), q \in Elements(deskPanes') :
              r.id = q.id /\ r.pinned => Keeps(r, q)
<1> DEFINE n == Len(deskPanes)
<1>1. /\ n \in Nat /\ deskPanes \in Seq(DeskPane) /\ Elements(deskPanes) \subseteq DeskPane
      /\ nextPaneId \in Nat \ {0}
  BY PlacesInside DEF PanesStand, Numbered
<1>2. /\ deskPanes' \in Seq(DeskPane) /\ Len(deskPanes') = n + 1
      /\ Elements(deskPanes') = Elements(deskPanes) \cup {p} /\ deskPanes' # <<>>
  BY <1>1, ElementsAppend
<1>3. \A q \in Elements(deskPanes) : q.id < nextPaneId /\ q.id \in Nat
  BY <1>1 DEF PanesStand, Numbered, DeskPane
<1>4. \A q \in Elements(deskPanes) : q.id # nextPaneId /\ q.id < nextPaneId'
  BY <1>1, <1>3
<1>5. Numbered(Elements(deskPanes'), nextPaneId')
  <2>1. p.id < nextPaneId' /\ nextPaneId' \in Nat \ {0}
    BY <1>1
  <2>2. QED BY <1>2, <1>4, <2>1 DEF Numbered, PanesStand
<1>6. activeReader' \in PaneIds'
  BY <1>2 DEF PaneIds
<1>7. PanesStand'
  BY <1>1, <1>2, <1>5, <1>6, DeskConstants DEF PanesStand
<1>8. \A q \in Elements(deskPanes') : q.id = activeReader' => q = p
  BY <1>2, <1>4
<1>9. \A r \in Elements(deskPanes), q \in Elements(deskPanes') :
        r.id = q.id /\ r.pinned => Keeps(r, q)
  BY <1>2, <1>4 DEF PanesStand, Numbered, Keeps
<1>10. QED BY <1>1, <1>2, <1>7, <1>8, <1>9

\* The pane that is opened shows the location; a pinned one keeps its capture.
LEMMA OpenStep ==
  ASSUME PanesStand, NEW at \in Location, OpenLocation(at, Preferred(at))
  PROVE  /\ PanesStand'
         /\ Opened(at) \in Location /\ Keeps(Opened(at), at) /\ Opened(at).place = at.place
         /\ Opened(at).pane = activeReader'
         /\ \A q \in Elements(deskPanes') : q \in Elements(deskPanes) \/ Keeps(q, at)
         /\ \A q \in Elements(deskPanes') : q.id = activeReader' =>
              q.file = at.file /\ q.revision = at.revision /\ q.place = at.place
         /\ \A p \in Elements(deskPanes), q \in Elements(deskPanes') :
              p.id = q.id /\ p.pinned => Keeps(p, q)
<1> DEFINE id == Preferred(at)
           n == Len(deskPanes)
<1>1. /\ n \in Nat /\ DOMAIN deskPanes = 1 .. n /\ deskPanes \in Seq(DeskPane)
      /\ \A i \in 1 .. n : deskPanes[i] \in DeskPane
      /\ Elements(deskPanes) \subseteq DeskPane /\ (deskPanes = <<>> <=> n = 0)
  BY PlacesInside DEF PanesStand
<1>2. at.file \in Nat \ {0} /\ at.revision \in Nat \ {0} /\ at.place \in Places
  BY DEF Location
<1>3. CASE id # 0
  <2> DEFINE moved(p) == [p EXCEPT !.file = at.file, !.revision = at.revision, !.place = at.place]
             new(i) == IF deskPanes[i].id = id THEN moved(deskPanes[i]) ELSE deskPanes[i]
  <2>1. /\ activeReader' = id /\ nextPaneId' = nextPaneId
        /\ deskPanes' = [i \in 1 .. n |-> new(i)]
    BY <1>1, <1>3 DEF OpenLocation
  <2>2. PICK p \in Elements(deskPanes) : p.id = id /\ (~p.pinned \/ Keeps(p, at))
    BY <1>3, PreferredIs
  <2>3. \A i \in 1 .. n :
          /\ new(i) \in DeskPane /\ new(i).id = deskPanes[i].id
          /\ deskPanes[i].id # id => new(i) = deskPanes[i]
          /\ deskPanes[i].id = id =>
               /\ deskPanes[i] = p
               /\ new(i).file = at.file /\ new(i).revision = at.revision
               /\ new(i).place = at.place /\ new(i).pinned = p.pinned
               /\ new(i) = moved(p)
    <3> SUFFICES ASSUME NEW i \in 1 .. n
          PROVE  /\ new(i) \in DeskPane /\ new(i).id = deskPanes[i].id
                 /\ deskPanes[i].id # id => new(i) = deskPanes[i]
                 /\ deskPanes[i].id = id =>
                      /\ deskPanes[i] = p
                      /\ new(i).file = at.file /\ new(i).revision = at.revision
                      /\ new(i).place = at.place /\ new(i).pinned = p.pinned
                      /\ new(i) = moved(p)
      OBVIOUS
    <3>1. deskPanes[i] \in DeskPane /\ deskPanes[i] \in Elements(deskPanes)
      BY <1>1 DEF Elements
    <3>2. deskPanes[i].id = id => deskPanes[i] = p
      BY <2>2, <3>1 DEF PanesStand, Numbered
    <3>3. /\ moved(deskPanes[i]) \in DeskPane /\ moved(deskPanes[i]).id = deskPanes[i].id
          /\ moved(deskPanes[i]).file = at.file /\ moved(deskPanes[i]).revision = at.revision
          /\ moved(deskPanes[i]).place = at.place
          /\ moved(deskPanes[i]).pinned = deskPanes[i].pinned
      BY <1>2, <3>1 DEF DeskPane
    <3> HIDE DEF moved, id
    <3>4. QED BY <3>1, <3>2, <3>3
  <2> HIDE DEF new, moved, id
  <2>4. Elements(deskPanes') = {new(i) : i \in 1 .. n} /\ \A i \in 1 .. n : deskPanes'[i] = new(i)
    BY <2>1 DEF Elements
  <2>5. deskPanes' \in Seq(DeskPane) /\ Len(deskPanes') = n /\ DOMAIN deskPanes' = 1 .. n
    <3>1. deskPanes' \in [1 .. n -> DeskPane]
      BY <2>1, <2>3
    <3>2. QED BY <1>1, <3>1, SeqDef, LenProperties
  <2>6. Numbered(Elements(deskPanes'), nextPaneId')
    <3>1. \A i \in 1 .. n : deskPanes[i].id < nextPaneId
      BY <1>1 DEF PanesStand, Numbered, Elements
    <3>2. \A i, j \in 1 .. n : deskPanes[i].id = deskPanes[j].id => deskPanes[i] = deskPanes[j]
      BY <1>1 DEF PanesStand, Numbered, Elements
    <3>3. \A i, j \in 1 .. n : new(i).id = new(j).id => new(i) = new(j)
      BY <2>3, <3>2
    <3>4. nextPaneId' \in Nat \ {0} /\ \A i \in 1 .. n : new(i).id < nextPaneId'
      BY <2>1, <2>3, <3>1 DEF PanesStand, Numbered
    <3>5. QED BY <2>4, <3>3, <3>4 DEF Numbered
  <2>7. activeReader' \in PaneIds'
    <3>1. PICK i \in 1 .. n : deskPanes[i] = p
      BY <1>1 DEF Elements
    <3>2. new(i).id = id /\ new(i) \in Elements(deskPanes')
      BY <2>2, <2>3, <2>4, <3>1
    <3>3. QED BY <2>1, <3>2 DEF PaneIds
  <2>8. PanesStand'
    <3>1. deskPanes' # <<>>
      <4>1. n # 0
        BY <1>1, <2>2 DEF Elements
      <4>2. QED BY <2>5, <4>1, PlacesInside
    <3>2. n <= MaxDeskPanes
      BY DEF PanesStand
    <3>3. QED BY <2>5, <2>6, <2>7, <3>1, <3>2 DEF PanesStand
  <2>9. \A q \in Elements(deskPanes') : q \in Elements(deskPanes) \/ Keeps(q, at)
    <3>1. \A i \in 1 .. n : new(i) \in Elements(deskPanes) \/ Keeps(new(i), at)
      <4>1. \A i \in 1 .. n : deskPanes[i] \in Elements(deskPanes)
        BY <1>1 DEF Elements
      <4>2. QED BY <2>3, <4>1 DEF Keeps, Identity
    <3>2. QED BY <2>4, <3>1
  <2>10. \A q \in Elements(deskPanes') : q.id = activeReader' =>
           q.file = at.file /\ q.revision = at.revision /\ q.place = at.place
    BY <2>1, <2>3, <2>4
  <2>11. ASSUME NEW r \in Elements(deskPanes), NEW q \in Elements(deskPanes'),
                r.id = q.id, r.pinned
         PROVE  Keeps(r, q)
    <3>1. PICK i \in 1 .. n : q = new(i)
      BY <2>4
    <3>2. r = deskPanes[i]
      BY <1>1, <2>3, <2>11, <3>1 DEF PanesStand, Numbered, Elements
    <3>3. QED BY <2>2, <2>3, <2>11, <3>1, <3>2 DEF Keeps, Identity
  <2>12. /\ Opened(at) \in Location /\ Keeps(Opened(at), at) /\ Opened(at).place = at.place
         /\ Opened(at).pane = activeReader'
    <3>1. activeReader' \in Nat
      BY <1>1, <2>1, <2>2 DEF DeskPane
    <3>2. QED BY <3>1 DEF Opened, Location, Keeps, Identity
  <2>13. QED BY <2>8, <2>9, <2>10, <2>11, <2>12
<1>4. CASE id = 0
  <2> DEFINE p == [id |-> nextPaneId, file |-> at.file, revision |-> at.revision,
                   place |-> at.place, pinned |-> FALSE]
  <2>1. /\ activeReader' = nextPaneId /\ nextPaneId' = nextPaneId + 1
        /\ n < MaxDeskPanes /\ deskPanes' = Append(deskPanes, p)
    BY <1>4 DEF OpenLocation
  <2>2. nextPaneId \in Nat \ {0} /\ p \in DeskPane /\ p.id = nextPaneId
    BY <1>2 DEF PanesStand, Numbered, DeskPane
  <2>3. p.file = at.file /\ p.revision = at.revision /\ p.place = at.place
    OBVIOUS
  <2> HIDE DEF p
  <2>4. /\ PanesStand' /\ activeReader' \in Nat
        /\ Elements(deskPanes') = Elements(deskPanes) \cup {p}
        /\ \A q \in Elements(deskPanes') : q.id = activeReader' => q = p
        /\ \A r \in Elements(deskPanes), q \in Elements(deskPanes') :
             r.id = q.id /\ r.pinned => Keeps(r, q)
    BY <2>1, <2>2, PaneAdded
  <2>5. /\ Opened(at) \in Location /\ Keeps(Opened(at), at) /\ Opened(at).place = at.place
        /\ Opened(at).pane = activeReader'
    BY <2>4 DEF Opened, Location, Keeps, Identity
  <2>6. \A q \in Elements(deskPanes') : q \in Elements(deskPanes) \/ Keeps(q, at)
    BY <2>3, <2>4 DEF Keeps, Identity
  <2>7. QED BY <2>3, <2>4, <2>5, <2>6
<1>5. QED BY <1>3, <1>4

\* A visit that is recorded is where the history stands; it goes no further.
LEMMA RecordStep ==
  ASSUME NEW at \in Location, NEW trail, NEW position, TrailStandsAt(trail, position),
         Record(at, trail, position)
  PROVE  /\ TrailStandsAt(visits', cursor')
         /\ cursor' # 0 /\ visits'[cursor'] = at
         /\ Elements(visits') \subseteq Elements(trail) \cup {at}
<1> DEFINE n == Len(trail)
<1>1. /\ trail \in Seq(Location) /\ n \in Nat /\ n <= MaxVisits /\ DOMAIN trail = 1 .. n
      /\ \A i \in 1 .. n : trail[i] \in Location
      /\ (trail = <<>> <=> n = 0)
  BY PlacesInside DEF TrailStandsAt
<1>2. position \in 0 .. n
  BY <1>1 DEF TrailStandsAt
<1>3. CASE position # 0 /\ trail[position] = at
  <2>1. visits' = trail /\ cursor' = position
    BY <1>3 DEF Record
  <2>2. QED BY <1>3, <2>1
<1>4. CASE ~(position # 0 /\ trail[position] = at)
  <2> DEFINE behind == SubSeq(trail, 1, position)
             kept == IF Len(behind) = MaxVisits THEN Tail(behind) ELSE behind
  <2>1. visits' = Append(kept, at) /\ cursor' = Len(kept) + 1
    BY <1>4 DEF Record
  <2>2. /\ behind \in Seq(Location) /\ Len(behind) = position
        /\ \A i \in 1 .. position : behind[i] = trail[i]
    <3>1. position \in Int /\ \A i \in 1 .. position : trail[i] \in Location
      BY <1>1, <1>2
    <3>2. /\ behind \in Seq(Location)
          /\ Len(behind) = IF 1 <= position THEN position - 1 + 1 ELSE 0
          /\ \A i \in 1 .. position - 1 + 1 : behind[i] = trail[1 + i - 1]
      BY <3>1, SubSeqProperties
    <3>3. (IF 1 <= position THEN position - 1 + 1 ELSE 0) = position /\ position - 1 + 1 = position
      BY <1>2
    <3>4. \A i \in 1 .. position : 1 + i - 1 = i
      BY <1>2
    <3> HIDE DEF behind
    <3>5. QED BY <3>2, <3>3, <3>4
  <2> HIDE DEF behind
  <2>3. Elements(behind) \subseteq Elements(trail)
    <3>1. DOMAIN behind = 1 .. position /\ \A i \in 1 .. position : i \in 1 .. n
      BY <1>1, <1>2, <2>2, LenProperties
    <3>2. QED BY <1>1, <2>2, <3>1 DEF Elements
  <2>4. kept \in Seq(Location) /\ Len(kept) < MaxVisits /\ Elements(kept) \subseteq Elements(trail)
    <3>1. CASE Len(behind) = MaxVisits
      <4>1. behind # <<>>
        BY <2>2, <3>1, PlacesInside, DeskConstants
      <4>2. /\ Tail(behind) \in Seq(Location) /\ Len(Tail(behind)) = Len(behind) - 1
            /\ \A i \in 1 .. Len(Tail(behind)) : Tail(behind)[i] = behind[i + 1]
        BY <2>2, <4>1, HeadTailProperties
      <4>3. /\ DOMAIN Tail(behind) = 1 .. (MaxVisits - 1) /\ DOMAIN behind = 1 .. MaxVisits
            /\ Len(Tail(behind)) = MaxVisits - 1
        BY <2>2, <3>1, <4>2, LenProperties
      <4>4. \A i \in 1 .. (MaxVisits - 1) : i + 1 \in 1 .. MaxVisits
        BY DeskConstants
      <4>5. Elements(Tail(behind)) \subseteq Elements(behind)
        BY <4>2, <4>3, <4>4 DEF Elements
      <4>6. QED BY <2>3, <3>1, <4>2, <4>3, <4>5, DeskConstants
    <3>2. CASE Len(behind) # MaxVisits
      <4>1. Len(behind) < MaxVisits
        BY <1>1, <1>2, <2>2, <3>2, DeskConstants
      <4>2. QED BY <2>2, <2>3, <3>2, <4>1
    <3>3. QED BY <3>1, <3>2
  <2> HIDE DEF kept
  <2>5. /\ visits' \in Seq(Location) /\ Len(visits') = Len(kept) + 1
        /\ DOMAIN visits' = 1 .. (Len(kept) + 1)
        /\ visits'[Len(kept) + 1] = at
        /\ Elements(visits') = Elements(kept) \cup {at}
        /\ visits' # <<>>
    BY <2>1, <2>4, ElementsAppend
  <2>6. Len(kept) \in Nat
    BY <2>4, LenProperties
  <2>7. Len(visits') <= MaxVisits /\ cursor' \in DOMAIN visits' /\ cursor' # 0
    BY <2>1, <2>4, <2>5, <2>6, DeskConstants
  <2>8. QED BY <2>1, <2>4, <2>5, <2>7 DEF TrailStandsAt
<1>5. QED BY <1>3, <1>4

-----------------------------------------------------------------------------
(***************************************************************************)
(* A command at a whole: what it does to panes, visits and marks keeps the *)
(* parts, what it publishes provides for them, and pins and notes stand.   *)
(***************************************************************************)

DeskStep == DeskInv' /\ IdentitiesStand /\ PinsAndNotesStand

PinsStand ==
  \A p \in Elements(deskPanes), q \in Elements(deskPanes') :
    p.id = q.id /\ p.pinned => Keeps(p, q)

\* No mark of this number is told to point elsewhere.
NotesStay ==
  \A m \in Elements(marks), n \in Elements(marks') : m.id = n.id => m.location = n.location

CursorShown(open, trail, position) ==
  position # 0 =>
    \A p \in Elements(open) : p.id = trail[position].pane =>
      trail[position] = [file |-> p.file, revision |-> p.revision, place |-> p.place, pane |-> p.id]

LEMMA CursorIs ==
  ASSUME PanesStand
  PROVE  CursorIsWhatIsShown <=> CursorShown(deskPanes, visits, cursor)
<1>1. ASSUME CursorIsWhatIsShown PROVE CursorShown(deskPanes, visits, cursor)
  BY <1>1, PaneIsFound DEF CursorIsWhatIsShown, CursorShown
<1>2. ASSUME CursorShown(deskPanes, visits, cursor) PROVE CursorIsWhatIsShown
  <2> SUFFICES ASSUME cursor # 0, visits[cursor].pane \in PaneIds
               PROVE  visits[cursor] = LocationOf(visits[cursor].pane)
    BY DEF CursorIsWhatIsShown
  <2>1. PICK p \in Elements(deskPanes) : p.id = visits[cursor].pane
    BY DEF PaneIds
  <2>2. QED BY <1>2, <2>1, PaneIsFound DEF CursorShown
<1>3. QED BY <1>1, <1>2

\* The captures a command works on have all there are, and what is offered
\* to it; the notes that stay have their text in them.
LEMMA CommandStep ==
  ASSUME DeskInv, PanesStand', TrailStandsAt(visits', cursor'), MarksStand',
         CursorShown(deskPanes', visits', cursor'),
         NEW staged, Exact(staged), Elements(sources) \subseteq Elements(staged),
         Elements(staged) \subseteq Elements(sources) \cup Offered,
         highWater' \in Nat, highWater <= highWater', NumberedWithin(staged, highWater'),
         Provided(staged, Held(deskPanes', visits', marks')),
         Publish(staged),
         PinsStand,
         \A m \in Elements(marks), n \in Elements(marks') : m.id = n.id =>
           SelectedIn(sources, m.location) = SelectedIn(staged, n.location)
  PROVE  DeskStep
<1>1. /\ SourcesStand'
      /\ Provided(sources', Held(deskPanes', visits', marks'))
      /\ \A s \in Elements(sources') : Referenced(s, deskPanes', visits', marks')
      /\ Elements(sources') \subseteq Elements(staged)
      /\ retainedTop' <= highWater'
  BY PublishStep DEF DeskInv
<1>2. CursorIsWhatIsShown'
  <2>1. (PanesStand => (CursorIsWhatIsShown <=> CursorShown(deskPanes, visits, cursor)))'
    BY CursorIs, PTL
  <2>2. QED BY <2>1
<1>3. DeskInv'
  BY <1>1, <1>2 DEF DeskInv
<1>4. IdentitiesStand
  BY <1>1 DEF IdentitiesStand
<1>5. PinsAndNotesStand
  <2>1. ASSUME NEW m \in Elements(marks), NEW n \in Elements(marks'), m.id = n.id
        PROVE  SelectedIn(sources, m.location) = SelectedIn(sources', n.location)
    <3>1. \E s \in Elements(sources') : Keeps(s, n.location)
      BY <1>1 DEF Provided, Held
    <3>2. \E s \in Elements(staged) : Keeps(s, n.location)
      BY <1>1, <3>1
    <3>3. Exact(sources')
      BY <1>1 DEF SourcesStand
    <3>4. SelectedIn(staged, n.location) = SelectedIn(sources', n.location)
      BY <1>1, <3>1, <3>2, <3>3, TextStays
    <3>5. QED BY <2>1, <3>4
  <2>2. QED BY <2>1 DEF PinsAndNotesStand, PinsStand
<1>6. QED BY <1>3, <1>4, <1>5 DEF DeskStep

\* A command that works on the captures there are, and leaves the notes where
\* they are.
LEMMA PlainStep ==
  ASSUME DeskInv, PanesStand', TrailStandsAt(visits', cursor'), MarksStand',
         CursorShown(deskPanes', visits', cursor'), UNCHANGED highWater,
         Provided(sources, Held(deskPanes', visits', marks')),
         Publish(sources), PinsStand, NotesStay
  PROVE  DeskStep
<1>1. /\ Exact(sources) /\ highWater \in Nat /\ NumberedWithin(sources, highWater)
  <2>1. \A s \in Elements(sources) : s.file \in Nat /\ s.revision \in Nat
    <3>1. \A s \in Elements(sources) : s \in Capture
      BY PlacesInside DEF DeskInv, SourcesStand, Exact
    <3>2. QED BY <3>1 DEF Capture
  <2>2. retainedTop \in Nat /\ highWater \in Nat /\ retainedTop <= highWater
    BY DEF DeskInv, SourcesStand
  <2>3. Exact(sources) /\ NumberedWithin(sources, retainedTop)
    BY DEF DeskInv, SourcesStand
  <2>4. QED BY <2>1, <2>2, <2>3 DEF NumberedWithin
<1>2. \A m \in Elements(marks), n \in Elements(marks') : m.id = n.id =>
        SelectedIn(sources, m.location) = SelectedIn(sources, n.location)
  BY DEF NotesStay
<1>3. QED BY <1>1, <1>2, CommandStep DEF DeskInv

-----------------------------------------------------------------------------
(***************************************************************************)
(* One lemma for each command.                                             *)
(***************************************************************************)

LEMMA InvParts ==
  ASSUME DeskInv
  PROVE  /\ PanesStand /\ TrailStandsAt(visits, cursor) /\ MarksStand /\ SourcesStand
         /\ Provided(sources, Held(deskPanes, visits, marks))
         /\ CursorShown(deskPanes, visits, cursor)
         /\ sources \in Seq(Capture) /\ deskPanes \in Seq(DeskPane)
         /\ visits \in Seq(Location) /\ marks \in Seq(Mark)
BY CursorIs DEF DeskInv, PanesStand, TrailStandsAt, MarksStand, SourcesStand, Exact

\* Panes that are the same, or only shown in another order of attention.
LEMMA PanesRest ==
  ASSUME PanesStand, UNCHANGED <<deskPanes, nextPaneId>>,
         activeReader' \in PaneIds \/ UNCHANGED activeReader
  PROVE  PanesStand' /\ PinsStand
<1>1. PaneIds' = PaneIds
  BY DEF PaneIds
<1>2. PaneIds = {} <=> deskPanes = <<>>
  <2>1. deskPanes = <<>> => PaneIds = {}
    BY DEF PaneIds, Elements
  <2>2. deskPanes # <<>> => activeReader \in PaneIds
    BY DEF PanesStand
  <2>3. QED BY <2>1, <2>2
<1>3. PanesStand'
  BY <1>1, <1>2 DEF PanesStand
<1>4. PinsStand
  BY DEF PanesStand, Numbered, PinsStand, Keeps
<1>5. QED BY <1>3, <1>4

LEMMA MarksRest ==
  ASSUME MarksStand, UNCHANGED <<marks, nextMark>>
  PROVE  MarksStand' /\ NotesStay
BY DEF MarksStand, Numbered, NotesStay

\* Provided for what was there, and for one location of a capture there is.
LEMMA ProvidedFor ==
  ASSUME NEW kept, NEW refs, Provided(kept, refs), NEW new,
         \A t \in new : t \in refs \/ (\E u \in refs : Keeps(u, t))
  PROVE  Provided(kept, new)
<1>1. ASSUME NEW t \in new, NEW u \in refs, Keeps(u, t)
      PROVE  \E s \in Elements(kept) : Keeps(s, t)
  BY <1>1 DEF Provided, Keeps
<1>2. QED BY <1>1 DEF Provided

LEMMA FocusStep ==
  ASSUME DeskInv, NEW id \in PaneIds, Focus(id)
  PROVE  DeskStep
<1>1. PICK p \in Elements(deskPanes) : p.id = id
  BY DEF PaneIds
<1>2. LocationOf(id) = [file |-> p.file, revision |-> p.revision, place |-> p.place, pane |-> id]
      /\ LocationOf(id) \in Location
  BY <1>1, PaneIsFound, InvParts
<1>3. /\ TrailStandsAt(visits', cursor')
      /\ visits'[cursor'] = LocationOf(id)
      /\ Elements(visits') \subseteq Elements(visits) \cup {LocationOf(id)}
  BY <1>2, RecordStep, InvParts DEF Focus
<1>4. PanesStand' /\ PinsStand /\ MarksStand' /\ NotesStay
  BY PanesRest, MarksRest, InvParts DEF Focus
<1>5. CursorShown(deskPanes', visits', cursor')
  <2>1. \A q \in Elements(deskPanes') : q.id = id => q = p
    BY <1>1, InvParts DEF PanesStand, Numbered, Focus
  <2>2. QED BY <1>2, <1>3, <2>1 DEF CursorShown
<1>6. Provided(sources, Held(deskPanes', visits', marks'))
  <2>1. ASSUME NEW t \in Held(deskPanes', visits', marks')
        PROVE  \/ t \in Held(deskPanes, visits, marks)
               \/ \E u \in Held(deskPanes, visits, marks) : Keeps(u, t)
    <3>1. Keeps(p, LocationOf(id)) /\ p \in Held(deskPanes, visits, marks)
      BY <1>2 DEF Keeps, Identity, Held
    <3>2. t \in Held(deskPanes, visits, marks) \/ t = LocationOf(id)
      BY <1>3 DEF Held, Focus
    <3>3. QED BY <3>1, <3>2
  <2>2. QED BY <2>1, ProvidedFor, InvParts
<1>7. QED BY <1>3, <1>4, <1>5, <1>6, PlainStep DEF Focus

\* A location of a capture there is, opened and recorded.
LEMMA OpenAndRecord ==
  ASSUME DeskInv, NEW at \in Location, OpenLocation(at, Preferred(at)),
         NEW staged, Provided(staged, Held(deskPanes, visits, marks)),
         \E s \in Elements(staged) : Keeps(s, at),
         UNCHANGED marks,
         \/ Record(Opened(at), visits, cursor)
         \/ /\ cursor' \in DOMAIN visits /\ visits[cursor'] = at
            /\ visits' = [visits EXCEPT ![cursor'] = Opened(@)]
  PROVE  /\ PanesStand' /\ PinsStand
         /\ TrailStandsAt(visits', cursor') /\ CursorShown(deskPanes', visits', cursor')
         /\ Provided(staged, Held(deskPanes', visits', marks'))
<1>1. /\ PanesStand' /\ PinsStand
      /\ Opened(at) \in Location /\ Keeps(Opened(at), at) /\ Opened(at).place = at.place
      /\ Opened(at).pane = activeReader'
      /\ \A q \in Elements(deskPanes') : q \in Elements(deskPanes) \/ Keeps(q, at)
      /\ \A q \in Elements(deskPanes') : q.id = activeReader' =>
           q.file = at.file /\ q.revision = at.revision /\ q.place = at.place
  BY OpenStep, InvParts DEF PinsStand
<1>2. /\ TrailStandsAt(visits', cursor')
      /\ visits'[cursor'] = Opened(at)
      /\ Elements(visits') \subseteq Elements(visits) \cup {Opened(at)}
  <2>1. CASE Record(Opened(at), visits, cursor)
    BY <1>1, <2>1, RecordStep, InvParts
  <2>2. CASE /\ cursor' \in DOMAIN visits /\ visits[cursor'] = at
             /\ visits' = [visits EXCEPT ![cursor'] = Opened(@)]
    <3> DEFINE n == Len(visits)
    <3>1. /\ n \in Nat /\ DOMAIN visits = 1 .. n /\ visits \in Seq(Location)
          /\ n <= MaxVisits /\ \A i \in 1 .. n : visits[i] \in Location
      BY PlacesInside, InvParts DEF TrailStandsAt
    <3> HIDE DEF n
    <3>2. /\ visits'[cursor'] = Opened(at) /\ DOMAIN visits' = 1 .. n
          /\ \A i \in 1 .. n : visits'[i] = IF i = cursor' THEN Opened(at) ELSE visits[i]
      BY <2>2, <3>1
    <3>3. visits' \in [1 .. n -> Location]
      BY <1>1, <2>2, <3>1
    <3>4. visits' \in Seq(Location) /\ Len(visits') = n
      BY <3>1, <3>2, <3>3, SeqDef, LenProperties
    <3>5. visits' # <<>>
      BY <2>2, <3>1, <3>2
    <3>6. TrailStandsAt(visits', cursor')
      BY <2>2, <3>1, <3>2, <3>4, <3>5 DEF TrailStandsAt
    <3>7. Elements(visits') \subseteq Elements(visits) \cup {Opened(at)}
      BY <3>1, <3>2 DEF Elements
    <3>8. QED BY <3>2, <3>6, <3>7
  <2>3. QED BY <2>1, <2>2
<1>3. CursorShown(deskPanes', visits', cursor')
  <2>1. Opened(at) = [file |-> at.file, revision |-> at.revision, place |-> at.place,
                      pane |-> activeReader']
    BY DEF Opened, Location
  <2>2. QED BY <1>1, <1>2, <2>1 DEF CursorShown
<1>4. Provided(staged, Held(deskPanes', visits', marks'))
  <2> DEFINE refs == Held(deskPanes, visits, marks) \cup {at}
  <2>1. Provided(staged, refs)
    BY DEF Provided
  <2>2. ASSUME NEW t \in Held(deskPanes', visits', marks')
        PROVE  t \in refs \/ \E u \in refs : Keeps(u, t)
    <3>1. t \in Held(deskPanes, visits, marks) \/ Keeps(t, at)
      BY <1>1, <1>2 DEF Held
    <3>2. QED BY <3>1 DEF Keeps
  <2> HIDE DEF refs
  <2>3. QED BY <2>1, <2>2, ProvidedFor
<1>5. QED BY <1>1, <1>2, <1>3, <1>4

LEMMA ActiveIsNumber == PanesStand => activeReader \in Nat
<1> SUFFICES ASSUME PanesStand PROVE activeReader \in Nat
  OBVIOUS
<1>1. ASSUME activeReader \in PaneIds PROVE activeReader \in Nat
  <2>1. PICK p \in Elements(deskPanes) : p.id = activeReader
    BY <1>1 DEF PaneIds
  <2>2. p \in DeskPane
    BY PaneIsFound
  <2>3. QED BY <2>1, <2>2 DEF DeskPane
<1>2. QED BY <1>1 DEF PanesStand

\* A capture that is seen raises the high water to its own numbers.
LEMMA RaisedIs ==
  ASSUME SourcesStand, NEW c \in Offered
  PROVE  /\ Raised(c) \in Nat /\ highWater <= Raised(c)
         /\ c.file <= Raised(c) /\ c.revision <= Raised(c)
<1>1. c \in Capture /\ highWater \in Nat
  BY DeskConstants DEF SourcesStand
<1>2. /\ Top(c) \in Nat /\ c.file <= Top(c) /\ c.revision <= Top(c)
      /\ c.file \in Nat /\ c.revision \in Nat
  BY <1>1 DEF Capture, Top
<1>3. \E b \in Nat : \A n \in {highWater, Top(c)} : n <= b
  <2>1. CASE highWater <= Top(c)
    BY <1>1, <1>2, <2>1
  <2>2. CASE ~(highWater <= Top(c))
    <3>1. Top(c) <= highWater
      BY <1>1, <1>2, <2>2
    <3>2. QED BY <1>1, <3>1
  <2>3. QED BY <2>1, <2>2
<1>4. /\ Greatest({highWater, Top(c)}) \in {highWater, Top(c)}
      /\ \A n \in {highWater, Top(c)} : n <= Greatest({highWater, Top(c)})
  <2>1. {highWater, Top(c)} \in SUBSET Nat /\ {highWater, Top(c)} # {}
    BY <1>1, <1>2
  <2>2. QED BY <1>3, <2>1, GreatestNumber
<1>5. Raised(c) \in Nat /\ highWater <= Raised(c) /\ Top(c) <= Raised(c)
  BY <1>1, <1>2, <1>4 DEF Raised
<1>6. QED BY <1>2, <1>5

\* The captures of a desk lie below its high water.
LEMMA SourcesBelow ==
  ASSUME SourcesStand
  PROVE  NumberedWithin(sources, highWater) /\ highWater \in Nat /\ Exact(sources)
         /\ \A s \in Elements(sources) : s \in Capture /\ s.file \in Nat /\ s.revision \in Nat
<1>1. \A s \in Elements(sources) : s \in Capture
  BY PlacesInside DEF SourcesStand, Exact
<1>2. \A s \in Elements(sources) : s.file \in Nat /\ s.revision \in Nat
  BY <1>1 DEF Capture
<1>3. /\ retainedTop \in Nat /\ highWater \in Nat /\ retainedTop <= highWater
      /\ Exact(sources) /\ NumberedWithin(sources, retainedTop)
  BY DEF SourcesStand
<1>4. QED BY <1>1, <1>2, <1>3 DEF NumberedWithin

LEMMA OpenFailsStep ==
  ASSUME DeskInv, NEW c \in Offered, OpenFails(c)
  PROVE  DeskStep
<1>1. highWater' \in Nat /\ highWater <= highWater'
  BY RaisedIs, InvParts DEF OpenFails
<1>2. PanesStand' /\ PinsStand /\ MarksStand' /\ NotesStay
  BY PanesRest, MarksRest, InvParts DEF OpenFails
<1>3. UNCHANGED <<deskPanes, visits, cursor, marks, sources, retainedTop>>
  BY DEF OpenFails
<1>4. SourcesStand' /\ retainedTop <= highWater'
  BY <1>1, <1>3 DEF DeskInv, SourcesStand
<1>5. DeskInv'
  BY <1>2, <1>3, <1>4 DEF DeskInv, CursorIsWhatIsShown, PaneIds, LocationOf, PaneOf
<1>6. IdentitiesStand
  BY <1>3, <1>4 DEF IdentitiesStand
<1>7. PinsAndNotesStand
  BY <1>2, <1>3 DEF PinsAndNotesStand, PinsStand, NotesStay
<1>8. QED BY <1>5, <1>6, <1>7 DEF DeskStep

LEMMA OpenCaptureStep ==
  ASSUME DeskInv, NEW c \in Offered, NEW place \in Places, OpenCapture(c, place)
  PROVE  DeskStep
<1> DEFINE at == [file |-> c.file, revision |-> c.revision, place |-> place,
                  pane |-> activeReader]
           staged == IF c \in Elements(sources) THEN sources ELSE Append(sources, c)
<1>1. /\ AdmitsCapture(c)
      /\ OpenLocation(at, Preferred(at)) /\ Record(Opened(at), visits, cursor)
      /\ UNCHANGED <<marks, nextMark>>
      /\ Publish(staged) /\ highWater' = Raised(c)
  BY DEF OpenCapture
<1>2. c \in Capture /\ at \in Location /\ Keeps(c, at)
  <2>1. c \in Capture /\ activeReader \in Nat
    BY DeskConstants, ActiveIsNumber, InvParts
  <2>2. QED BY <2>1 DEF Capture, Location, Keeps, Identity
<1> HIDE DEF at
<1>3. /\ highWater' \in Nat /\ highWater <= highWater'
      /\ c.file <= highWater' /\ c.revision <= highWater'
  BY <1>1, RaisedIs, InvParts
<1>4. /\ Exact(staged) /\ Elements(sources) \subseteq Elements(staged) /\ c \in Elements(staged)
      /\ Elements(staged) \subseteq Elements(sources) \cup {c}
  <2>1. CASE c \in Elements(sources)
    BY <2>1, SourcesBelow, InvParts
  <2>2. CASE c \notin Elements(sources)
    <3> DEFINE n == Len(sources)
    <3>1. staged = Append(sources, c)
      BY <2>2
    <3>2. /\ staged \in Seq(Capture) /\ Len(staged) = n + 1
          /\ DOMAIN staged = 1 .. (n + 1) /\ \A i \in 1 .. n : staged[i] = sources[i]
          /\ staged[n + 1] = c
          /\ Elements(staged) = Elements(sources) \cup {c}
      BY <1>2, <3>1, ElementsAppend, InvParts
    <3>3. n < MaxSources /\ \A s \in Elements(sources) : ~Keeps(s, c)
      BY <1>1, <2>2 DEF AdmitsCapture
    <3>4. n \in Nat /\ DOMAIN sources = 1 .. n
          /\ \A i, j \in DOMAIN sources : Keeps(sources[i], sources[j]) => i = j
      BY PlacesInside, InvParts DEF SourcesStand, Exact
    <3>5. Len(staged) <= MaxSources
      BY <3>2, <3>3, <3>4, DeskConstants
    <3>6. \A i \in 1 .. n : ~Keeps(sources[i], c) /\ ~Keeps(c, sources[i])
      BY <3>3, <3>4 DEF Elements, Keeps
    <3> HIDE DEF staged, n
    <3>7. ASSUME NEW i \in 1 .. (n + 1), NEW j \in 1 .. (n + 1), Keeps(staged[i], staged[j])
          PROVE  i = j
      <4>1. (i \in 1 .. n \/ i = n + 1) /\ (j \in 1 .. n \/ j = n + 1)
        BY <3>4
      <4>2. QED BY <3>2, <3>4, <3>6, <3>7, <4>1
    <3>8. QED BY <3>2, <3>5, <3>7 DEF Exact
  <2>3. QED BY <2>1, <2>2
<1> HIDE DEF staged
<1>5. NumberedWithin(staged, highWater')
  <2>1. ASSUME NEW s \in Elements(sources) PROVE s.file <= highWater' /\ s.revision <= highWater'
    <3>1. /\ s.file <= highWater /\ s.revision <= highWater
          /\ s.file \in Nat /\ s.revision \in Nat /\ highWater \in Nat
      BY SourcesBelow, InvParts DEF NumberedWithin
    <3>2. QED BY <1>3, <3>1
  <2>2. QED BY <1>3, <1>4, <2>1 DEF NumberedWithin
<1>6. Provided(staged, Held(deskPanes, visits, marks))
  BY <1>4, InvParts DEF Provided
<1>7. /\ PanesStand' /\ PinsStand
      /\ TrailStandsAt(visits', cursor') /\ CursorShown(deskPanes', visits', cursor')
      /\ Provided(staged, Held(deskPanes', visits', marks'))
  BY <1>1, <1>2, <1>4, <1>6, OpenAndRecord
<1>8. MarksStand' /\ NotesStay
  BY <1>1, MarksRest, InvParts
<1>9. ASSUME NEW m \in Elements(marks), NEW n \in Elements(marks'), m.id = n.id
      PROVE  SelectedIn(sources, m.location) = SelectedIn(staged, n.location)
  <2>1. m.location = n.location
    BY <1>8, <1>9 DEF NotesStay
  <2>2. \E s \in Elements(sources) : Keeps(s, m.location)
    BY InvParts DEF Provided, Held
  <2>3. \E s \in Elements(staged) : Keeps(s, m.location)
    BY <1>4, <2>2
  <2>4. Exact(sources)
    BY SourcesBelow, InvParts
  <2>5. QED BY <1>4, <2>1, <2>2, <2>3, <2>4, TextStays
<1>10. QED BY <1>1, <1>3, <1>4, <1>5, <1>7, <1>8, <1>9, CommandStep

\* The location of a pane, at a place in it.
LEMMA PaneLocation ==
  ASSUME DeskInv, NEW id \in PaneIds, NEW place \in Places
  PROVE  /\ LocationOf(id) \in Location /\ LocationOf(id).pane = id
         /\ [LocationOf(id) EXCEPT !.place = place] \in Location
         /\ \E s \in Elements(sources) : Keeps(s, LocationOf(id))
         /\ \E s \in Elements(sources) : Keeps(s, [LocationOf(id) EXCEPT !.place = place])
         /\ \E p \in Elements(deskPanes) :
              /\ p.id = id /\ p \in DeskPane
              /\ LocationOf(id) = [file |-> p.file, revision |-> p.revision,
                                   place |-> p.place, pane |-> id]
<1>1. PICK p \in Elements(deskPanes) : p.id = id
  BY DEF PaneIds
<1>2. /\ LocationOf(id)
           = [file |-> p.file, revision |-> p.revision, place |-> p.place, pane |-> id]
      /\ LocationOf(id) \in Location /\ p \in DeskPane
  BY <1>1, PaneIsFound, InvParts
<1>3. \E s \in Elements(sources) : Keeps(s, p)
  BY InvParts DEF Provided, Held
<1>4. Identity(LocationOf(id)) = Identity(p)
      /\ Identity([LocationOf(id) EXCEPT !.place = place]) = Identity(p)
  BY <1>2 DEF Identity
<1>5. [LocationOf(id) EXCEPT !.place = place] \in Location /\ LocationOf(id).pane = id
  BY <1>2 DEF Location
<1>6. QED BY <1>1, <1>2, <1>3, <1>4, <1>5 DEF Keeps

LEMMA NavigateStep ==
  ASSUME DeskInv, NEW id \in PaneIds, NEW place \in Places, Navigate(id, place)
  PROVE  DeskStep
<1> DEFINE at == [LocationOf(id) EXCEPT !.place = place]
<1>1. /\ OpenLocation(at, Preferred(at)) /\ Record(Opened(at), visits, cursor)
      /\ UNCHANGED <<marks, nextMark, highWater>> /\ Publish(sources)
  BY DEF Navigate
<1>2. at \in Location /\ \E s \in Elements(sources) : Keeps(s, at)
  BY PaneLocation
<1> HIDE DEF at
<1>3. /\ PanesStand' /\ PinsStand
      /\ TrailStandsAt(visits', cursor') /\ CursorShown(deskPanes', visits', cursor')
      /\ Provided(sources, Held(deskPanes', visits', marks'))
  BY <1>1, <1>2, OpenAndRecord, InvParts
<1>4. QED BY <1>1, <1>3, MarksRest, InvParts, PlainStep

LEMMA RecallStep ==
  ASSUME DeskInv, NEW i \in DOMAIN marks, RecallMark(i)
  PROVE  DeskStep
<1> DEFINE at == marks[i].location
<1>1. /\ OpenLocation(at, Preferred(at)) /\ Record(Opened(at), visits, cursor)
      /\ UNCHANGED <<marks, nextMark, highWater>> /\ Publish(sources)
  BY DEF RecallMark
<1>2. at \in Location /\ \E s \in Elements(sources) : Keeps(s, at)
  <2>1. marks[i] \in Mark /\ marks[i] \in Elements(marks)
    BY PlacesInside, InvParts DEF Elements
  <2>2. QED BY <2>1, InvParts DEF Mark, Provided, Held
<1> HIDE DEF at
<1>3. /\ PanesStand' /\ PinsStand
      /\ TrailStandsAt(visits', cursor') /\ CursorShown(deskPanes', visits', cursor')
      /\ Provided(sources, Held(deskPanes', visits', marks'))
  BY <1>1, <1>2, OpenAndRecord, InvParts
<1>4. QED BY <1>1, <1>3, MarksRest, InvParts, PlainStep

LEMMA RevisitStep ==
  ASSUME DeskInv, NEW target, Revisit(target)
  PROVE  DeskStep
<1> DEFINE at == visits[target]
<1>1. /\ target \in DOMAIN visits
      /\ OpenLocation(at, Preferred(at))
      /\ visits' = [visits EXCEPT ![target] = Opened(@)] /\ cursor' = target
      /\ UNCHANGED <<marks, nextMark, highWater>> /\ Publish(sources)
  BY DEF Revisit
<1>2. at \in Location /\ \E s \in Elements(sources) : Keeps(s, at)
  <2>1. visits[target] \in Location /\ visits[target] \in Elements(visits)
    BY <1>1, PlacesInside, InvParts DEF Elements
  <2>2. QED BY <2>1, InvParts DEF Provided, Held
<1>3. /\ PanesStand' /\ PinsStand
      /\ TrailStandsAt(visits', cursor') /\ CursorShown(deskPanes', visits', cursor')
      /\ Provided(sources, Held(deskPanes', visits', marks'))
  BY <1>1, <1>2, OpenAndRecord, InvParts
<1>4. QED BY <1>1, <1>3, MarksRest, InvParts, PlainStep

\* A visit is replaced where the history stands.
LEMMA VisitReplaced ==
  ASSUME TrailStandsAt(visits, cursor), NEW k \in DOMAIN visits, NEW at \in Location,
         visits' = [visits EXCEPT ![k] = at], cursor' = k
  PROVE  /\ TrailStandsAt(visits', cursor') /\ visits'[cursor'] = at
         /\ Elements(visits') \subseteq Elements(visits) \cup {at}
<1> DEFINE n == Len(visits)
<1>1. /\ n \in Nat /\ DOMAIN visits = 1 .. n /\ visits \in Seq(Location)
      /\ n <= MaxVisits /\ \A i \in 1 .. n : visits[i] \in Location
  BY PlacesInside DEF TrailStandsAt
<1> HIDE DEF n
<1>2. /\ visits'[cursor'] = at /\ DOMAIN visits' = 1 .. n
      /\ \A i \in 1 .. n : visits'[i] = IF i = cursor' THEN at ELSE visits[i]
  BY <1>1
<1>3. visits' \in [1 .. n -> Location]
  BY <1>1
<1>4. visits' \in Seq(Location) /\ Len(visits') = n
  BY <1>1, <1>2, <1>3, SeqDef, LenProperties
<1>5. visits' # <<>>
  BY <1>1, <1>2
<1>6. TrailStandsAt(visits', cursor')
  BY <1>1, <1>2, <1>4, <1>5 DEF TrailStandsAt
<1>7. Elements(visits') \subseteq Elements(visits) \cup {at}
  BY <1>1, <1>2 DEF Elements
<1>8. QED BY <1>2, <1>6, <1>7

\* Panes change without changing what they show.
LEMMA PanesChange ==
  ASSUME PanesStand, NEW new \in [Elements(deskPanes) -> DeskPane],
         deskPanes' = [i \in DOMAIN deskPanes |-> new[deskPanes[i]]],
         \A p \in Elements(deskPanes) :
           new[p].id = p.id /\ Keeps(p, new[p]),
         UNCHANGED <<nextPaneId, activeReader>>
  PROVE  /\ PanesStand' /\ PinsStand
         /\ Elements(deskPanes') = {new[p] : p \in Elements(deskPanes)}
<1> DEFINE n == Len(deskPanes)
<1>1. /\ n \in Nat /\ DOMAIN deskPanes = 1 .. n /\ deskPanes \in Seq(DeskPane)
      /\ (deskPanes = <<>> <=> n = 0) /\ n <= MaxDeskPanes
  BY PlacesInside DEF PanesStand
<1> HIDE DEF n
<1>2. DOMAIN deskPanes' = 1 .. n /\ \A i \in 1 .. n : deskPanes'[i] = new[deskPanes[i]]
  BY <1>1
<1>3. Elements(deskPanes') = {new[p] : p \in Elements(deskPanes)}
  BY <1>1, <1>2 DEF Elements
<1>4. deskPanes' \in Seq(DeskPane) /\ Len(deskPanes') = n
  <2>1. \A i \in 1 .. n : deskPanes'[i] \in DeskPane
    BY <1>1, <1>2 DEF Elements
  <2>2. deskPanes' \in [1 .. n -> DeskPane]
    BY <1>1, <2>1
  <2>3. QED BY <1>1, <1>2, <2>2, SeqDef, LenProperties
<1>5. deskPanes' = <<>> <=> n = 0
  BY <1>1, <1>4, EmptySeq
<1>6. Numbered(Elements(deskPanes'), nextPaneId')
  <2>1. /\ nextPaneId \in Nat \ {0}
        /\ \A p \in Elements(deskPanes) : p.id < nextPaneId
        /\ \A p, q \in Elements(deskPanes) : p.id = q.id => p = q
    BY DEF PanesStand, Numbered
  <2>2. ASSUME NEW x \in Elements(deskPanes') PROVE x.id < nextPaneId
    <3>1. PICK p \in Elements(deskPanes) : x = new[p]
      BY <1>3
    <3>2. x.id = p.id
      BY <3>1
    <3>3. QED BY <2>1, <3>2
  <2>3. ASSUME NEW x \in Elements(deskPanes'), NEW y \in Elements(deskPanes'), x.id = y.id
        PROVE  x = y
    <3>1. PICK p \in Elements(deskPanes) : x = new[p]
      BY <1>3
    <3>2. PICK q \in Elements(deskPanes) : y = new[q]
      BY <1>3
    <3>3. x.id = p.id /\ y.id = q.id
      BY <3>1, <3>2
    <3>4. p = q
      BY <2>1, <2>3, <3>3
    <3>5. QED BY <3>1, <3>2, <3>4
  <2>4. nextPaneId' = nextPaneId
    OBVIOUS
  <2>5. QED BY <2>1, <2>2, <2>3, <2>4 DEF Numbered
<1>7. PaneIds' = PaneIds
  <2>1. PaneIds' = {q.id : q \in Elements(deskPanes')}
    BY DEF PaneIds
  <2>2. PaneIds' = {new[p].id : p \in Elements(deskPanes)}
    BY <1>3, <2>1
  <2>3. QED BY <2>2 DEF PaneIds
<1>8. PanesStand'
  BY <1>1, <1>4, <1>5, <1>6, <1>7 DEF PanesStand
<1>9. PinsStand
  BY <1>3 DEF PanesStand, Numbered, PinsStand
<1>10. QED BY <1>3, <1>8, <1>9

LEMMA ScrollStep ==
  ASSUME DeskInv, NEW id \in PaneIds, NEW place \in Places, Scroll(id, place)
  PROVE  DeskStep
<1> DEFINE change(p) == IF p.id = id THEN [p EXCEPT !.place = place] ELSE p
           new == [p \in Elements(deskPanes) |-> change(p)]
           at == [LocationOf(id) EXCEPT !.place = place]
<1>1. /\ deskPanes' = [i \in DOMAIN deskPanes |-> new[deskPanes[i]]]
      /\ visits' = IF Follows(id) THEN [visits EXCEPT ![cursor] = at] ELSE visits
      /\ UNCHANGED <<activeReader, nextPaneId, cursor, marks, nextMark, highWater>>
      /\ Publish(sources)
  BY DEF Scroll, Moved, Elements
<1>2. \A p \in Elements(deskPanes) :
        /\ new[p] \in DeskPane /\ new[p].id = p.id /\ Keeps(p, new[p])
        /\ p.id = id => new[p].place = place
        /\ p.id # id => new[p] = p
  <2>1. \A p \in Elements(deskPanes) : p \in DeskPane
    BY PlacesInside, InvParts
  <2>2. ASSUME NEW p \in DeskPane
        PROVE  /\ [p EXCEPT !.place = place] \in DeskPane
               /\ [p EXCEPT !.place = place].id = p.id
               /\ [p EXCEPT !.place = place].place = place
               /\ Keeps(p, [p EXCEPT !.place = place])
    BY DEF DeskPane, Keeps, Identity
  <2>3. \A p \in Elements(deskPanes) : Keeps(p, p)
    BY DEF Keeps
  <2>4. QED BY <2>1, <2>2, <2>3
<1>a. new \in [Elements(deskPanes) -> DeskPane]
  BY <1>2
<1> HIDE DEF new, change
<1>3. /\ PanesStand' /\ PinsStand
      /\ Elements(deskPanes') = {new[p] : p \in Elements(deskPanes)}
  BY <1>1, <1>2, <1>a, PanesChange, InvParts
<1>4. /\ at \in Location /\ \E s \in Elements(sources) : Keeps(s, at)
      /\ LocationOf(id) \in Location
  BY PaneLocation
<1>5. PICK p \in Elements(deskPanes) :
        p.id = id /\ LocationOf(id) = [file |-> p.file, revision |-> p.revision,
                                       place |-> p.place, pane |-> id]
  BY PaneLocation
<1>6. at = [file |-> p.file, revision |-> p.revision, place |-> place, pane |-> id]
  BY <1>5
<1>7. \A q \in Elements(deskPanes') : q.id = id =>
        q.file = p.file /\ q.revision = p.revision /\ q.place = place
  <2>1. \A q \in Elements(deskPanes) : q.id = id => q = p
    BY <1>5, InvParts DEF PanesStand, Numbered
  <2>2. new[p].place = place /\ new[p].file = p.file /\ new[p].revision = p.revision
    BY <1>2, <1>5 DEF Keeps, Identity
  <2>3. QED BY <1>2, <1>3, <2>1, <2>2
<1> HIDE DEF at
<1>8. TrailStandsAt(visits', cursor') /\ Elements(visits') \subseteq Elements(visits) \cup {at}
      /\ CursorShown(deskPanes', visits', cursor')
  <2>1. CASE Follows(id)
    <3>1. cursor \in DOMAIN visits /\ cursor # 0
      BY <2>1, InvParts DEF Follows, TrailStandsAt
    <3>2. /\ TrailStandsAt(visits', cursor') /\ visits'[cursor'] = at
          /\ Elements(visits') \subseteq Elements(visits) \cup {at}
      BY <1>1, <1>4, <2>1, <3>1, VisitReplaced, InvParts
    <3>3. CursorShown(deskPanes', visits', cursor')
      BY <1>6, <1>7, <3>2 DEF CursorShown
    <3>4. QED BY <3>2, <3>3
  <2>2. CASE ~Follows(id)
    <3>1. visits' = visits /\ cursor' = cursor
      BY <1>1, <2>2
    <3>2. ASSUME cursor # 0, NEW q \in Elements(deskPanes'), q.id = visits[cursor].pane
          PROVE  q \in Elements(deskPanes)
      BY <1>2, <1>3, <2>2, <3>2 DEF Follows
    <3>3. CursorShown(deskPanes', visits', cursor')
      BY <3>1, <3>2, InvParts DEF CursorShown
    <3>4. QED BY <3>1, <3>3, InvParts
  <2>3. QED BY <2>1, <2>2
<1>9. Provided(sources, Held(deskPanes', visits', marks'))
  <2> DEFINE refs == Held(deskPanes, visits, marks) \cup {at}
  <2>1. Provided(sources, refs)
    BY <1>4, InvParts DEF Provided
  <2>2. ASSUME NEW t \in Held(deskPanes', visits', marks')
        PROVE  t \in refs \/ \E u \in refs : Keeps(u, t)
    <3>1. CASE t \in Elements(deskPanes')
      BY <1>2, <1>3, <3>1 DEF Held
    <3>2. CASE t \notin Elements(deskPanes')
      BY <1>1, <1>8, <3>2 DEF Held
    <3>3. QED BY <3>1, <3>2
  <2> HIDE DEF refs
  <2>3. QED BY <2>1, <2>2, ProvidedFor
<1>10. QED BY <1>1, <1>3, <1>8, <1>9, MarksRest, InvParts, PlainStep

LEMMA PinReaderStep ==
  ASSUME DeskInv, NEW id \in PaneIds, PinReader(id)
  PROVE  DeskStep
<1> DEFINE change(p) == IF p.id = id THEN [p EXCEPT !.pinned = ~@] ELSE p
           new == [p \in Elements(deskPanes) |-> change(p)]
<1>1. /\ deskPanes' = [i \in DOMAIN deskPanes |-> new[deskPanes[i]]]
      /\ UNCHANGED <<activeReader, nextPaneId, visits, cursor, marks, nextMark, highWater>>
      /\ Publish(sources)
  BY DEF PinReader, Elements
<1>2. \A p \in Elements(deskPanes) :
        new[p] \in DeskPane /\ new[p].id = p.id /\ Keeps(p, new[p]) /\ new[p].place = p.place
  <2>1. \A p \in Elements(deskPanes) : p \in DeskPane
    BY PlacesInside, InvParts
  <2>2. ASSUME NEW p \in DeskPane
        PROVE  /\ change(p) \in DeskPane /\ change(p).id = p.id
               /\ Keeps(p, change(p)) /\ change(p).place = p.place
    BY DEF DeskPane, Keeps, Identity
  <2>3. QED BY <2>1, <2>2
<1>a. new \in [Elements(deskPanes) -> DeskPane]
  BY <1>2
<1> HIDE DEF new, change
<1>3. /\ PanesStand' /\ PinsStand
      /\ Elements(deskPanes') = {new[p] : p \in Elements(deskPanes)}
  BY <1>1, <1>2, <1>a, PanesChange, InvParts
<1>4. CursorShown(deskPanes', visits', cursor')
  <2>1. ASSUME NEW p \in Elements(deskPanes)
        PROVE  /\ new[p].id = p.id /\ new[p].file = p.file
               /\ new[p].revision = p.revision /\ new[p].place = p.place
    BY <1>2 DEF Keeps, Identity
  <2>2. CursorShown(deskPanes, visits, cursor)
    BY InvParts
  <2>3. QED BY <1>1, <1>3, <2>1, <2>2 DEF CursorShown
<1>5. Provided(sources, Held(deskPanes', visits', marks'))
  <2>1. ASSUME NEW t \in Held(deskPanes', visits', marks')
        PROVE  \/ t \in Held(deskPanes, visits, marks)
               \/ \E u \in Held(deskPanes, visits, marks) : Keeps(u, t)
    BY <1>1, <1>2, <1>3 DEF Held
  <2>2. QED BY <2>1, ProvidedFor, InvParts
<1>6. QED BY <1>1, <1>3, <1>4, <1>5, MarksRest, InvParts, PlainStep

LEMMA DuplicateStep ==
  ASSUME DeskInv, NEW id \in PaneIds, Duplicate(id)
  PROVE  DeskStep
<1> DEFINE copy == [PaneOf(id) EXCEPT !.id = nextPaneId, !.pinned = TRUE]
           at == Opened(LocationOf(id))
<1>1. /\ Len(deskPanes) < MaxDeskPanes /\ deskPanes' = Append(deskPanes, copy)
      /\ activeReader' = nextPaneId /\ nextPaneId' = nextPaneId + 1
      /\ Record(at, visits, cursor)
      /\ UNCHANGED <<marks, nextMark, highWater>> /\ Publish(sources)
  BY DEF Duplicate
<1>2. PICK p \in Elements(deskPanes) : p.id = id
  BY DEF PaneIds
<1>3. /\ PaneOf(id) = p /\ p \in DeskPane
      /\ LocationOf(id) = [file |-> p.file, revision |-> p.revision, place |-> p.place, pane |-> id]
  BY <1>2, PaneIsFound, InvParts
<1>4. /\ copy \in DeskPane /\ copy.id = nextPaneId /\ copy.place = p.place
      /\ copy.file = p.file /\ copy.revision = p.revision
  BY <1>3, InvParts DEF DeskPane, PanesStand, Numbered
<1> HIDE DEF copy
<1>5. /\ PanesStand' /\ activeReader' \in Nat
      /\ Elements(deskPanes') = Elements(deskPanes) \cup {copy}
      /\ \A q \in Elements(deskPanes') : q.id = activeReader' => q = copy
      /\ PinsStand
  BY <1>1, <1>4, PaneAdded, InvParts DEF PinsStand
<1>6. /\ at = [file |-> p.file, revision |-> p.revision, place |-> p.place, pane |-> activeReader']
      /\ at \in Location /\ Keeps(p, at) /\ Keeps(p, copy)
  BY <1>3, <1>4, <1>5 DEF Opened, Location, DeskPane, Keeps, Identity
<1> HIDE DEF at
<1>7. /\ TrailStandsAt(visits', cursor') /\ visits'[cursor'] = at
      /\ Elements(visits') \subseteq Elements(visits) \cup {at}
  BY <1>1, <1>6, RecordStep, InvParts
<1>8. CursorShown(deskPanes', visits', cursor')
  BY <1>4, <1>5, <1>6, <1>7 DEF CursorShown
<1>9. Provided(sources, Held(deskPanes', visits', marks'))
  <2>1. ASSUME NEW t \in Held(deskPanes', visits', marks')
        PROVE  \/ t \in Held(deskPanes, visits, marks)
               \/ \E u \in Held(deskPanes, visits, marks) : Keeps(u, t)
    <3>1. p \in Held(deskPanes, visits, marks)
      BY DEF Held
    <3>2. t \in Held(deskPanes, visits, marks) \/ t = copy \/ t = at
      BY <1>1, <1>5, <1>7 DEF Held
    <3>3. QED BY <1>6, <3>1, <3>2
  <2>2. QED BY <2>1, ProvidedFor, InvParts
<1>10. QED BY <1>1, <1>5, <1>7, <1>8, <1>9, MarksRest, InvParts, PlainStep

LEMMA CloseStep ==
  ASSUME DeskInv, NEW id \in PaneIds, CloseReader(id)
  PROVE  DeskStep
<1> DEFINE T == {i \in DOMAIN deskPanes : deskPanes[i].id # id}
<1>1. /\ deskPanes' = Kept(deskPanes, T)
      /\ activeReader' = IF activeReader # id THEN activeReader
                         ELSE IF deskPanes' = <<>> THEN 0 ELSE deskPanes'[Len(deskPanes')].id
      /\ UNCHANGED <<nextPaneId, visits, cursor, marks, nextMark, highWater>>
      /\ Publish(sources)
  BY DEF CloseReader
<1>2. /\ deskPanes' \in Seq(DeskPane) /\ Len(deskPanes') <= Len(deskPanes)
      /\ Elements(deskPanes') = {deskPanes[i] : i \in T}
  <2>1. deskPanes \in Seq(DeskPane) /\ T \in SUBSET DOMAIN deskPanes
    BY InvParts
  <2> HIDE DEF T
  <2>2. QED BY <1>1, <2>1, KeptIs
<1>3. Elements(deskPanes') = {p \in Elements(deskPanes) : p.id # id}
  BY <1>2 DEF Elements
<1> HIDE DEF T
<1>4. Numbered(Elements(deskPanes'), nextPaneId')
  BY <1>1, <1>3, InvParts DEF PanesStand, Numbered
<1>5. Len(deskPanes') <= MaxDeskPanes
  <2>1. Len(deskPanes) \in Nat /\ Len(deskPanes') \in Nat /\ Len(deskPanes) <= MaxDeskPanes
    BY <1>2, PlacesInside, InvParts DEF PanesStand
  <2>2. QED BY <1>2, <2>1, DeskConstants
<1>6. activeReader \in PaneIds
  <2>1. deskPanes # <<>>
    BY DEF PaneIds, Elements
  <2>2. QED BY <2>1, InvParts DEF PanesStand
<1>7. IF deskPanes' = <<>> THEN activeReader' = 0 ELSE activeReader' \in PaneIds'
  <2>1. PaneIds' = PaneIds \ {id}
    BY <1>3 DEF PaneIds
  <2>2. CASE activeReader # id
    <3>1. activeReader' \in PaneIds'
      BY <1>1, <1>6, <2>1, <2>2
    <3>2. deskPanes' # <<>>
      BY <3>1 DEF PaneIds, Elements
    <3>3. QED BY <3>1, <3>2
  <2>3. CASE activeReader = id /\ deskPanes' = <<>>
    BY <1>1, <2>3
  <2>4. CASE activeReader = id /\ deskPanes' # <<>>
    <3>1. Len(deskPanes') \in DOMAIN deskPanes'
      BY <1>2, <2>4, PlacesInside
    <3>2. deskPanes'[Len(deskPanes')] \in Elements(deskPanes')
      BY <3>1 DEF Elements
    <3>3. activeReader' = deskPanes'[Len(deskPanes')].id
      BY <1>1, <2>4
    <3>4. QED BY <2>4, <3>2, <3>3 DEF PaneIds
  <2>5. QED BY <2>2, <2>3, <2>4
<1>8. PanesStand'
  BY <1>2, <1>4, <1>5, <1>7 DEF PanesStand
<1>9. PinsStand
  BY <1>3, InvParts DEF PanesStand, Numbered, PinsStand, Keeps
<1>10. CursorShown(deskPanes', visits', cursor')
  BY <1>1, <1>3, InvParts DEF CursorShown
<1>11. Provided(sources, Held(deskPanes', visits', marks'))
  BY <1>1, <1>3, InvParts DEF Provided, Held
<1>12. TrailStandsAt(visits', cursor')
  BY <1>1, InvParts
<1>13. QED BY <1>1, <1>8, <1>9, <1>10, <1>11, <1>12, MarksRest, InvParts, PlainStep

\* The pane that Escape closes is one there is.
LEMMA EscapesArePanes == DeskInv => Escapes \subseteq PaneIds
<1> SUFFICES ASSUME DeskInv, NEW id \in Escapes PROVE id \in PaneIds
  OBVIOUS
<1>1. CASE activeReader # 0 /\ ~PaneOf(activeReader).pinned
  BY <1>1, InvParts DEF Escapes, PanesStand
<1>2. CASE ~(activeReader # 0 /\ ~PaneOf(activeReader).pinned)
  <2>1. PICK i \in DOMAIN deskPanes : id = deskPanes[i].id
    BY <1>2 DEF Escapes
  <2>2. QED BY <2>1 DEF PaneIds, Elements
<1>3. QED BY <1>1, <1>2

\* Commands that touch marks alone leave the rest of the desk as it is.
LEMMA OnlyMarks ==
  ASSUME DeskInv,
         UNCHANGED <<deskPanes, activeReader, nextPaneId, visits, cursor, highWater>>
  PROVE  /\ PanesStand' /\ PinsStand /\ TrailStandsAt(visits', cursor')
         /\ CursorShown(deskPanes', visits', cursor')
<1>1. PanesStand' /\ PinsStand
  BY PanesRest, InvParts
<1>2. QED BY <1>1, InvParts

LEMMA AddMarkStep ==
  ASSUME DeskInv, NEW id \in PaneIds, AddMark(id)
  PROVE  DeskStep
<1> DEFINE mark == [id |-> nextMark, updates |-> 1, location |-> LocationOf(id)]
           n == Len(marks)
<1>1. /\ n < MaxMarks /\ marks' = Append(marks, mark) /\ nextMark' = nextMark + 1
      /\ UNCHANGED <<deskPanes, activeReader, nextPaneId, visits, cursor, highWater>>
      /\ Publish(sources)
  BY DEF AddMark
<1>2. /\ n \in Nat /\ DOMAIN marks = 1 .. n /\ Elements(marks) \subseteq Mark
      /\ nextMark \in Nat \ {0} /\ \A m \in Elements(marks) : m.id < nextMark
      /\ \A m, k \in Elements(marks) : m.id = k.id => m = k
      /\ \A i, j \in 1 .. n : marks[i].id = marks[j].id => i = j
  BY PlacesInside, InvParts DEF MarksStand, Numbered
<1>3. LocationOf(id) \in Location /\ \E s \in Elements(sources) : Keeps(s, LocationOf(id))
  <2>1. PICK place \in Places : TRUE
    <3>1. PICK p \in Elements(deskPanes) : p.id = id
      BY DEF PaneIds
    <3>2. p \in DeskPane
      BY <3>1, PaneIsFound, InvParts
    <3>3. QED BY <3>2 DEF DeskPane
  <2>2. QED BY <2>1, PaneLocation
<1>4. mark \in Mark /\ mark.id = nextMark /\ mark.location = LocationOf(id)
  BY <1>2, <1>3 DEF Mark
<1> HIDE DEF mark, n
<1>5. /\ marks' \in Seq(Mark) /\ Len(marks') = n + 1 /\ DOMAIN marks' = 1 .. (n + 1)
      /\ \A i \in 1 .. n : marks'[i] = marks[i]
      /\ marks'[n + 1] = mark
      /\ Elements(marks') = Elements(marks) \cup {mark}
  BY <1>1, <1>4, ElementsAppend, InvParts DEF n
<1>6. \A m \in Elements(marks) : m.id # nextMark /\ m.id < nextMark'
  <2>1. \A m \in Elements(marks) : m.id \in Nat
    BY <1>2 DEF Mark
  <2>2. QED BY <1>1, <1>2, <2>1
<1>7. MarksStand'
  <2>1. Numbered(Elements(marks'), nextMark')
    <3>1. mark.id < nextMark' /\ nextMark' \in Nat \ {0}
      BY <1>1, <1>2, <1>4
    <3>2. QED BY <1>2, <1>4, <1>5, <1>6, <3>1 DEF Numbered
  <2>2. ASSUME NEW i \in 1 .. (n + 1), NEW j \in 1 .. (n + 1), marks'[i].id = marks'[j].id
        PROVE  i = j
    <3>1. (i \in 1 .. n \/ i = n + 1) /\ (j \in 1 .. n \/ j = n + 1)
      BY <1>2
    <3>2. \A k \in 1 .. n : marks[k].id # nextMark
      BY <1>2, <1>6 DEF Elements
    <3>3. QED BY <1>2, <1>4, <1>5, <2>2, <3>1, <3>2
  <2>3. Len(marks') <= MaxMarks
    BY <1>1, <1>2, <1>5, DeskConstants DEF n
  <2>4. QED BY <1>5, <2>1, <2>2, <2>3 DEF MarksStand
<1>8. NotesStay
  BY <1>2, <1>4, <1>5, <1>6 DEF NotesStay
<1>9. Provided(sources, Held(deskPanes', visits', marks'))
  <2>1. ASSUME NEW t \in Held(deskPanes', visits', marks')
        PROVE  t \in Held(deskPanes, visits, marks) \/ t = LocationOf(id)
    BY <1>1, <1>4, <1>5 DEF Held
  <2>2. QED BY <1>3, <2>1, InvParts DEF Provided
<1>10. QED BY <1>1, <1>7, <1>8, <1>9, OnlyMarks, PlainStep

\* A mark is replaced by one of its number.
LEMMA MarkReplaced ==
  ASSUME MarksStand, NEW i \in DOMAIN marks, NEW new \in Mark, new.id = marks[i].id,
         marks' = [marks EXCEPT ![i] = new], UNCHANGED nextMark
  PROVE  /\ MarksStand'
         /\ Elements(marks') \subseteq Elements(marks) \cup {new}
         /\ \A m \in Elements(marks), k \in Elements(marks') :
              m.id = k.id => m = k \/ (m = marks[i] /\ k = new)
<1> DEFINE n == Len(marks)
<1>1. /\ n \in Nat /\ DOMAIN marks = 1 .. n /\ marks \in Seq(Mark) /\ n <= MaxMarks
      /\ \A j \in 1 .. n : marks[j] \in Mark
      /\ \A j \in 1 .. n : marks[j].id < nextMark
      /\ nextMark \in Nat \ {0}
      /\ \A j, k \in 1 .. n : marks[j].id = marks[k].id => j = k
  BY PlacesInside DEF MarksStand, Numbered, Elements
<1> HIDE DEF n
<1>2. /\ DOMAIN marks' = 1 .. n
      /\ \A j \in 1 .. n : marks'[j] = IF j = i THEN new ELSE marks[j]
  BY <1>1
<1>3. marks' \in Seq(Mark) /\ Len(marks') = n
  <2>1. marks' \in [1 .. n -> Mark]
    BY <1>1
  <2>2. QED BY <1>1, <1>2, <2>1, SeqDef, LenProperties
<1>4. \A j \in 1 .. n : marks'[j].id = marks[j].id
  BY <1>2
<1>5. \A j, k \in 1 .. n : marks'[j].id = marks'[k].id => j = k
  BY <1>1, <1>4
<1>6. Numbered(Elements(marks'), nextMark')
  BY <1>1, <1>2, <1>4, <1>5 DEF Numbered, Elements
<1>7. MarksStand'
  BY <1>1, <1>2, <1>3, <1>5, <1>6 DEF MarksStand
<1>8. Elements(marks') \subseteq Elements(marks) \cup {new}
  BY <1>1, <1>2 DEF Elements
<1>9. ASSUME NEW m \in Elements(marks), NEW k \in Elements(marks'), m.id = k.id
      PROVE  m = k \/ (m = marks[i] /\ k = new)
  <2>1. PICK a \in 1 .. n, b \in 1 .. n : m = marks[a] /\ k = marks'[b]
    BY <1>1, <1>2 DEF Elements
  <2>2. a = b
    BY <1>1, <1>4, <1>9, <2>1
  <2>3. QED BY <1>2, <2>1, <2>2
<1>10. QED BY <1>7, <1>8, <1>9

LEMMA EditMarkStep ==
  ASSUME DeskInv, NEW i \in DOMAIN marks, EditMark(i)
  PROVE  DeskStep
<1> DEFINE new == [marks[i] EXCEPT !.updates = @ + 1]
<1>1. /\ marks' = [marks EXCEPT ![i] = new]
      /\ UNCHANGED <<deskPanes, activeReader, nextPaneId, visits, cursor, nextMark, highWater>>
      /\ Publish(sources)
  BY DEF EditMark
<1>2. /\ new \in Mark /\ new.id = marks[i].id /\ new.location = marks[i].location
      /\ marks[i] \in Elements(marks)
  <2>1. marks[i] \in Mark /\ marks[i] \in Elements(marks)
    BY PlacesInside, InvParts DEF Elements
  <2>2. QED BY <2>1 DEF Mark
<1> HIDE DEF new
<1>3. /\ MarksStand' /\ Elements(marks') \subseteq Elements(marks) \cup {new}
      /\ \A m \in Elements(marks), k \in Elements(marks') :
           m.id = k.id => m = k \/ (m = marks[i] /\ k = new)
  BY <1>1, <1>2, MarkReplaced, InvParts
<1>4. NotesStay
  BY <1>2, <1>3 DEF NotesStay
<1>5. Provided(sources, Held(deskPanes', visits', marks'))
  <2>1. Held(deskPanes', visits', marks') \subseteq Held(deskPanes, visits, marks)
    <3>1. UNCHANGED <<deskPanes, visits>>
      BY <1>1
    <3>2. \A m \in Elements(marks') : \E k \in Elements(marks) : m.location = k.location
      BY <1>2, <1>3
    <3>3. QED BY <3>1, <3>2 DEF Held
  <2>2. QED BY <2>1, InvParts DEF Provided
<1>6. QED BY <1>1, <1>3, <1>4, <1>5, OnlyMarks, PlainStep

\* A note is told to point elsewhere, where the same text is.
LEMMA ReattachStep ==
  ASSUME DeskInv, NEW i \in DOMAIN marks, NEW id \in PaneIds, ReattachMark(i, id)
  PROVE  DeskStep
<1> DEFINE new == [marks[i] EXCEPT !.updates = @ + 1, !.location = LocationOf(id)]
<1>1. /\ Corresponds(marks[i], LocationOf(id))
      /\ marks' = [marks EXCEPT ![i] = new]
      /\ UNCHANGED <<deskPanes, activeReader, nextPaneId, visits, cursor, nextMark, highWater>>
      /\ Publish(sources)
  BY DEF ReattachMark
<1>2. LocationOf(id) \in Location /\ \E s \in Elements(sources) : Keeps(s, LocationOf(id))
  <2>1. PICK place \in Places : TRUE
    <3>1. PICK p \in Elements(deskPanes) : p.id = id
      BY DEF PaneIds
    <3>2. p \in DeskPane
      BY <3>1, PaneIsFound, InvParts
    <3>3. QED BY <3>2 DEF DeskPane
  <2>2. QED BY <2>1, PaneLocation
<1>3. new \in Mark /\ new.id = marks[i].id /\ new.location = LocationOf(id)
  <2>1. marks[i] \in Mark
    BY PlacesInside, InvParts
  <2> DEFINE old == [marks[i] EXCEPT !.updates = @ + 1]
             at == LocationOf(id)
  <2>2. old \in Mark /\ old.id = marks[i].id /\ at \in Location
    BY <1>2, <2>1 DEF Mark
  <2>3. new = [old EXCEPT !.location = at]
    BY <2>1 DEF Mark
  <2> HIDE DEF old, at, new
  <2>4. new \in Mark
    BY <2>2, <2>3 DEF Mark
  <2>5. new.id = old.id /\ new.location = at
    BY <2>2, <2>3 DEF Mark
  <2>6. QED BY <2>2, <2>4, <2>5 DEF at
<1> HIDE DEF new
<1>4. /\ MarksStand' /\ Elements(marks') \subseteq Elements(marks) \cup {new}
      /\ \A m \in Elements(marks), k \in Elements(marks') :
           m.id = k.id => m = k \/ (m = marks[i] /\ k = new)
  BY <1>1, <1>3, MarkReplaced, InvParts
<1>5. ASSUME NEW m \in Elements(marks), NEW k \in Elements(marks'), m.id = k.id
      PROVE  SelectedIn(sources, m.location) = SelectedIn(sources, k.location)
  BY <1>1, <1>3, <1>4, <1>5 DEF Corresponds
<1>6. Provided(sources, Held(deskPanes', visits', marks'))
  <2>1. Held(deskPanes', visits', marks')
          \subseteq Held(deskPanes, visits, marks) \cup {LocationOf(id)}
    BY <1>1, <1>3, <1>4 DEF Held
  <2>2. QED BY <1>2, <2>1, InvParts DEF Provided
<1>7. Exact(sources) /\ highWater' \in Nat /\ highWater <= highWater' /\ NumberedWithin(sources, highWater')
  BY <1>1, SourcesBelow, InvParts
<1>8. QED BY <1>1, <1>4, <1>5, <1>6, <1>7, OnlyMarks, CommandStep

LEMMA ForgetStep ==
  ASSUME DeskInv, NEW i \in DOMAIN marks, ForgetMark(i)
  PROVE  DeskStep
<1> DEFINE T == DOMAIN marks \ {i}
<1>1. /\ marks' = Kept(marks, T)
      /\ UNCHANGED <<deskPanes, activeReader, nextPaneId, visits, cursor, nextMark, highWater>>
      /\ Publish(sources)
  BY DEF ForgetMark
<1>2. marks \in Seq(Mark) /\ T \in SUBSET DOMAIN marks
  BY InvParts
<1> HIDE DEF T
<1>3. /\ marks' \in Seq(Mark) /\ Len(marks') <= Len(marks)
      /\ DOMAIN marks' = 1 .. Cardinality(T)
      /\ Elements(marks') = {marks[j] : j \in T}
  BY <1>1, <1>2, KeptIs
<1>4. PICK f \in [1 .. Cardinality(T) -> T] :
        /\ \A n, m \in 1 .. Cardinality(T) : f[n] = f[m] => n = m
        /\ \A n \in 1 .. Cardinality(T) : marks'[n] = marks[f[n]]
  BY <1>1, <1>2, KeptIs
<1>5. Elements(marks') \subseteq Elements(marks)
  BY <1>2, <1>3 DEF Elements
<1>6. MarksStand'
  <2>1. Len(marks') <= MaxMarks
    <3>1. Len(marks) \in Nat /\ Len(marks') \in Nat /\ Len(marks) <= MaxMarks
      BY <1>2, <1>3, PlacesInside, InvParts DEF MarksStand
    <3>2. QED BY <1>3, <3>1, DeskConstants
  <2>2. Numbered(Elements(marks'), nextMark')
    BY <1>1, <1>5, InvParts DEF MarksStand, Numbered
  <2>3. ASSUME NEW a \in DOMAIN marks', NEW b \in DOMAIN marks', marks'[a].id = marks'[b].id
        PROVE  a = b
    <3>1. /\ f[a] \in DOMAIN marks /\ f[b] \in DOMAIN marks
          /\ marks'[a] = marks[f[a]] /\ marks'[b] = marks[f[b]]
      BY <1>2, <1>3, <1>4
    <3>2. f[a] = f[b]
      BY <2>3, <3>1, InvParts DEF MarksStand
    <3>3. QED BY <1>3, <1>4, <3>2
  <2>4. QED BY <1>3, <2>1, <2>2, <2>3 DEF MarksStand
<1>7. NotesStay
  BY <1>5, InvParts DEF MarksStand, Numbered, NotesStay
<1>8. Provided(sources, Held(deskPanes', visits', marks'))
  BY <1>1, <1>5, InvParts DEF Provided, Held
<1>9. QED BY <1>1, <1>6, <1>7, <1>8, OnlyMarks, PlainStep

LEMMA ClearHistoryStep ==
  ASSUME DeskInv, ClearHistory
  PROVE  DeskStep
<1>1. /\ UNCHANGED <<deskPanes, activeReader, nextPaneId, marks, nextMark, highWater>>
      /\ Publish(sources)
  BY DEF ClearHistory
<1>2. PanesStand' /\ PinsStand /\ MarksStand' /\ NotesStay
  BY <1>1, PanesRest, MarksRest, InvParts
<1>3. TrailStandsAt(<<>>, 0)
  <2>1. \A S : <<>> \in Seq(S) /\ Len(<<>>) = 0
    BY EmptySeq
  <2>2. QED BY <2>1, DeskConstants DEF TrailStandsAt
<1>4. Elements(<<>>) = {}
  BY DEF Elements
<1>5. CASE activeReader = 0
  <2>1. visits' = <<>> /\ cursor' = 0
    BY <1>5 DEF ClearHistory
  <2>2. TrailStandsAt(visits', cursor') /\ CursorShown(deskPanes', visits', cursor')
    BY <1>3, <2>1 DEF CursorShown
  <2>3. Provided(sources, Held(deskPanes', visits', marks'))
    BY <1>1, <1>4, <2>1, InvParts DEF Provided, Held
  <2>4. QED BY <1>1, <1>2, <2>2, <2>3, PlainStep
<1>6. CASE activeReader # 0
  <2> DEFINE id == activeReader
  <2>1. Record(LocationOf(id), <<>>, 0)
    BY <1>6 DEF ClearHistory
  <2>2. PICK p \in Elements(deskPanes) : p.id = id
    BY <1>6, InvParts DEF PanesStand, PaneIds
  <2>3. LocationOf(id) = [file |-> p.file, revision |-> p.revision, place |-> p.place, pane |-> id]
        /\ LocationOf(id) \in Location
    BY <2>2, PaneIsFound, InvParts
  <2>4. /\ TrailStandsAt(visits', cursor')
        /\ visits'[cursor'] = LocationOf(id)
        /\ Elements(visits') \subseteq {LocationOf(id)}
    BY <1>3, <1>4, <2>1, <2>3, RecordStep
  <2>5. CursorShown(deskPanes', visits', cursor')
    <3>1. \A q \in Elements(deskPanes') : q.id = id => q = p
      BY <1>1, <2>2, InvParts DEF PanesStand, Numbered
    <3>2. QED BY <2>3, <2>4, <3>1 DEF CursorShown
  <2>6. Provided(sources, Held(deskPanes', visits', marks'))
    <3>1. ASSUME NEW t \in Held(deskPanes', visits', marks')
          PROVE  \/ t \in Held(deskPanes, visits, marks)
                 \/ \E u \in Held(deskPanes, visits, marks) : Keeps(u, t)
      <4>1. Keeps(p, LocationOf(id)) /\ p \in Held(deskPanes, visits, marks)
        BY <2>3 DEF Keeps, Identity, Held
      <4>2. t \in Held(deskPanes, visits, marks) \/ t = LocationOf(id)
        BY <1>1, <2>4 DEF Held
      <4>3. QED BY <4>1, <4>2
    <3>2. QED BY <3>1, ProvidedFor, InvParts
  <2>7. QED BY <1>1, <1>2, <2>4, <2>5, <2>6, PlainStep
<1>7. QED BY <1>5, <1>6

-----------------------------------------------------------------------------
(***************************************************************************)
(* A restore brings everything under new numbers.                          *)
(***************************************************************************)

\* A capture comes back as the same bytes, under identities not seen before.
LEMMA NewSourceIs ==
  ASSUME SourcesStand, NEW k \in DOMAIN sources
  PROVE  /\ NewSource(sources[k]) \in Capture
         /\ NewSource(sources[k]).revision = highWater + k
         /\ NewSource(sources[k]).file > highWater
         /\ NewSource(sources[k]).file <= highWater + Len(sources)
<1> DEFINE n == Len(sources)
           s == sources[k]
           same == {j \in DOMAIN sources : sources[j].file = s.file}
           leads(i) == /\ sources[i].file = s.file
                       /\ \A j \in DOMAIN sources : sources[j].file = s.file => i <= j
           file == CHOOSE i \in DOMAIN sources : leads(i)
           at == CHOOSE i \in DOMAIN sources : sources[i] = s
<1>1. /\ n \in Nat /\ DOMAIN sources = 1 .. n /\ highWater \in Nat /\ s \in Capture
      /\ \A i, j \in DOMAIN sources : Keeps(sources[i], sources[j]) => i = j
  BY PlacesInside DEF SourcesStand, Exact
<1>2. at = k
  <2>1. at \in DOMAIN sources /\ sources[at] = s
    OBVIOUS
  <2> HIDE DEF at
  <2>2. QED BY <1>1, <2>1 DEF Keeps
<1>3. file \in 1 .. n
  <2>1. same \in SUBSET Nat /\ same # {}
    BY <1>1
  <2>2. \E i \in same : \A j \in same : i <= j
    <3> HIDE DEF same
    <3>1. QED BY <2>1, LeastNumber
  <2>3. \E i \in DOMAIN sources : leads(i)
    BY <2>2
  <2> HIDE DEF leads
  <2>4. QED BY <1>1, <2>3
<1>4. NewSource(s) = [file |-> FirstFresh + file - 1, revision |-> FirstFresh + at - 1,
                      bytes |-> s.bytes]
  BY DEF NewSource
<1> HIDE DEF file, at
<1>5. /\ FirstFresh + file - 1 = highWater + file /\ FirstFresh + at - 1 = highWater + k
      /\ highWater + file \in Nat \ {0} /\ highWater + k \in Nat \ {0}
      /\ highWater + file > highWater /\ highWater + file <= highWater + n
  BY <1>1, <1>2, <1>3 DEF FirstFresh
<1>6. s.bytes \in {c.bytes : c \in Offered}
  BY <1>1 DEF Capture
<1> HIDE DEF s, n
<1>7. NewSource(s) \in Capture
  BY <1>4, <1>5, <1>6 DEF Capture
<1>8. NewSource(s).revision = highWater + k /\ NewSource(s).file = highWater + file
  BY <1>4, <1>5
<1>9. QED BY <1>5, <1>7, <1>8 DEF s, n

\* So do all of them together: exact, fresh, and below the new high water.
LEMMA StagedIs ==
  ASSUME SourcesStand, NEW staged, staged = [i \in DOMAIN sources |-> NewSource(sources[i])]
  PROVE  /\ Exact(staged) /\ NumberedWithin(staged, highWater + Len(sources))
         /\ \A s \in Elements(sources) : NewSource(s) \in Elements(staged)
         /\ \A s \in Elements(staged) : s.file > highWater /\ s.revision > highWater
<1> DEFINE n == Len(sources)
<1>1. /\ n \in Nat /\ DOMAIN sources = 1 .. n /\ highWater \in Nat /\ n <= MaxSources
  BY PlacesInside DEF SourcesStand, Exact
<1> HIDE DEF n
<1>2. DOMAIN staged = 1 .. n /\ \A i \in 1 .. n : staged[i] = NewSource(sources[i])
  BY <1>1
<1>3. \A i \in 1 .. n :
        /\ staged[i] \in Capture /\ staged[i].revision = highWater + i
        /\ staged[i].file > highWater /\ staged[i].file <= highWater + n
  BY <1>1, <1>2, NewSourceIs DEF n
<1>4. staged \in Seq(Capture) /\ Len(staged) = n
  <2>1. staged \in [1 .. n -> Capture]
    BY <1>1, <1>2, <1>3
  <2>2. QED BY <1>1, <1>2, <2>1, SeqDef, LenProperties
<1>5. \A i, j \in 1 .. n : Keeps(staged[i], staged[j]) => i = j
  <2>1. \A i, j \in 1 .. n : highWater + i = highWater + j => i = j
    BY <1>1
  <2>2. QED BY <1>3, <2>1 DEF Keeps, Identity
<1>6. \A i \in 1 .. n : highWater + i > highWater /\ highWater + i <= highWater + n
  BY <1>1
<1>7. QED BY <1>1, <1>2, <1>3, <1>4, <1>5, <1>6 DEF Exact, NumberedWithin, Elements, n

\* What a capture is kept for follows it to its new identity.
LEMMA RenamedIs ==
  ASSUME SourcesStand, NEW s \in Elements(sources),
         NEW t \in DeskPane \cup Location, Keeps(s, t)
  PROVE  /\ NewSource(s) \in Capture
         /\ Renamed(t) = [t EXCEPT !.file = NewSource(s).file, !.revision = NewSource(s).revision]
         /\ Keeps(NewSource(s), Renamed(t))
         /\ t \in DeskPane => Renamed(t) \in DeskPane /\ Renamed(t).place = t.place
         /\ t \in Location => Renamed(t) \in Location /\ Renamed(t).place = t.place
<1>1. NewSource(s) \in Capture
  BY NewSourceIs DEF Elements
<1>2. (CHOOSE x \in Elements(sources) : Keeps(x, t)) = s
  <2>1. \A x, y \in Elements(sources) : Keeps(x, y) => x = y
    BY DEF SourcesStand, Exact, Elements
  <2>2. QED BY <2>1 DEF Keeps
<1> DEFINE r == NewSource(s)
<1>3. Renamed(t) = [t EXCEPT !.file = r.file, !.revision = r.revision]
  BY <1>2 DEF Renamed
<1> HIDE DEF r
<1>4. r.file \in Nat \ {0} /\ r.revision \in Nat \ {0}
  BY <1>1 DEF Capture, r
<1>5. CASE t \in DeskPane
  <2>1. /\ Renamed(t) \in DeskPane /\ Renamed(t).place = t.place
        /\ Renamed(t).file = r.file /\ Renamed(t).revision = r.revision
    BY <1>3, <1>4, <1>5 DEF DeskPane
  <2>2. t \in Location => Renamed(t) \in Location /\ Renamed(t).place = t.place
    BY <1>3, <1>4 DEF Location
  <2>3. Keeps(r, Renamed(t))
    BY <2>1 DEF Keeps, Identity
  <2>4. QED BY <1>1, <1>3, <2>1, <2>2, <2>3 DEF r
<1>6. CASE t \notin DeskPane
  <2>1. /\ Renamed(t) \in Location /\ Renamed(t).place = t.place
        /\ Renamed(t).file = r.file /\ Renamed(t).revision = r.revision
    BY <1>3, <1>4, <1>6 DEF Location
  <2>2. Keeps(r, Renamed(t))
    BY <2>1 DEF Keeps, Identity
  <2>3. QED BY <1>1, <1>3, <1>6, <2>1, <2>2 DEF r
<1>7. QED BY <1>5, <1>6

\* The panes there are get new numbers, each its own; others get none.
LEMMA NewPaneIs ==
  ASSUME PanesStand
  PROVE  /\ \A id \in PaneIds : /\ NewPane(id) \in Nat /\ NewPane(id) >= nextPaneId
                                /\ NewPane(id) < nextPaneId + Len(deskPanes)
         /\ \A id : id \notin PaneIds => NewPane(id) = 0
         /\ \A a, b \in PaneIds : NewPane(a) = NewPane(b) => a = b
<1> DEFINE n == Len(deskPanes)
           at(id) == CHOOSE i \in DOMAIN deskPanes : deskPanes[i].id = id
<1>1. n \in Nat /\ DOMAIN deskPanes = 1 .. n /\ nextPaneId \in Nat \ {0}
  BY PlacesInside DEF PanesStand, Numbered
<1>2. ASSUME NEW id \in PaneIds
      PROVE  /\ at(id) \in 1 .. n /\ deskPanes[at(id)].id = id
             /\ NewPane(id) = nextPaneId - 1 + at(id)
  <2>1. \E i \in DOMAIN deskPanes : deskPanes[i].id = id
    BY DEF PaneIds, Elements
  <2>2. NewPane(id) = nextPaneId - 1 + at(id)
    BY DEF NewPane
  <2>3. at(id) \in DOMAIN deskPanes /\ deskPanes[at(id)].id = id
    BY <2>1
  <2>4. QED BY <1>1, <2>2, <2>3
<1> HIDE DEF at, n
<1>3. ASSUME NEW id \in PaneIds
      PROVE  /\ NewPane(id) \in Nat /\ NewPane(id) >= nextPaneId
             /\ NewPane(id) < nextPaneId + n
  BY <1>1, <1>2
<1>4. ASSUME NEW a \in PaneIds, NEW b \in PaneIds, NewPane(a) = NewPane(b)
      PROVE  a = b
  <2>1. at(a) \in Nat /\ at(b) \in Nat /\ nextPaneId - 1 + at(a) = nextPaneId - 1 + at(b)
    BY <1>1, <1>2, <1>4
  <2>2. at(a) = at(b)
    BY <1>1, <2>1
  <2>3. QED BY <1>2, <2>2
<1>5. \A id : id \notin PaneIds => NewPane(id) = 0
  BY DEF NewPane
<1>6. QED BY <1>3, <1>4, <1>5 DEF n

\* A location moves with its capture and its pane.
LEMMA MovingIs ==
  ASSUME SourcesStand, PanesStand, NEW s \in Elements(sources), NEW at \in Location, Keeps(s, at)
  PROVE  /\ Moving(at) \in Location /\ Keeps(NewSource(s), Moving(at))
         /\ Moving(at) = [file |-> NewSource(s).file, revision |-> NewSource(s).revision,
                          place |-> at.place, pane |-> NewPane(at.pane)]
<1>1. /\ Renamed(at) = [at EXCEPT !.file = NewSource(s).file, !.revision = NewSource(s).revision]
      /\ Renamed(at) \in Location /\ NewSource(s) \in Capture
  BY RenamedIs
<1>2. NewPane(at.pane) \in Nat
  BY NewPaneIs
<1>3. NewSource(s).file \in Nat \ {0} /\ NewSource(s).revision \in Nat \ {0}
  BY <1>1 DEF Capture
<1> DEFINE f == NewSource(s).file
           v == NewSource(s).revision
           p == NewPane(at.pane)
           r == Renamed(at)
<1>4. r.file = f /\ r.revision = v /\ r.place = at.place
  <2>1. r = [at EXCEPT !.file = f, !.revision = v]
    BY <1>1
  <2> HIDE DEF r, f, v
  <2>2. QED BY <2>1 DEF Location
<1>5. Moving(at) = [r EXCEPT !.pane = p] /\ r \in Location /\ p \in Nat
  BY <1>1, <1>2 DEF Moving
<1> HIDE DEF r, f, v, p
<1>6. /\ Moving(at) \in Location /\ Moving(at).pane = p
      /\ Moving(at).file = f /\ Moving(at).revision = v /\ Moving(at).place = at.place
  <2> DEFINE moved == [r EXCEPT !.pane = p]
  <2>1. /\ moved \in Location /\ moved.pane = p /\ moved.file = r.file
        /\ moved.revision = r.revision /\ moved.place = r.place
    BY <1>5 DEF Location
  <2> HIDE DEF moved
  <2>2. Moving(at) = moved
    BY <1>5 DEF moved
  <2>3. QED BY <1>4, <2>1, <2>2
<1>7. Moving(at) = [file |-> f, revision |-> v, place |-> at.place, pane |-> p]
  <2>1. \A l \in Location :
          l = [file |-> l.file, revision |-> l.revision, place |-> l.place, pane |-> l.pane]
    BY DEF Location
  <2>2. QED BY <1>6, <2>1
<1>8. Keeps(NewSource(s), Moving(at))
  BY <1>6 DEF Keeps, Identity, f, v
<1>9. QED BY <1>6, <1>7, <1>8 DEF f, v, p

\* A checkpoint of the desk is restored: everything is as it was, under numbers
\* that nothing had before.
LEMMA RestoreStep ==
  ASSUME DeskInv, RestoreCheckpoint
  PROVE  DeskStep
<1> DEFINE staged == [i \in DOMAIN sources |-> NewSource(sources[i])]
           new(p) == [Renamed(p) EXCEPT !.id = NewPane(p.id)]
           mark(i) == [marks[i] EXCEPT !.id = nextMark + i - 1, !.location = Moving(@)]
           np == Len(deskPanes)
           nv == Len(visits)
           nm == Len(marks)
<1>1. /\ highWater' = FirstFresh + Len(sources) - 1
      /\ deskPanes' = [i \in DOMAIN deskPanes |-> new(deskPanes[i])]
      /\ activeReader' = NewPane(activeReader)
      /\ nextPaneId' = nextPaneId + np
      /\ visits' = [i \in DOMAIN visits |-> Moving(visits[i])]
      /\ marks' = [i \in DOMAIN marks |-> mark(i)]
      /\ nextMark' = nextMark + nm
      /\ cursor' = cursor
      /\ Publish(staged)
  BY DEF RestoreCheckpoint
<1>2. /\ PanesStand /\ TrailStandsAt(visits, cursor) /\ MarksStand /\ SourcesStand
      /\ CursorShown(deskPanes, visits, cursor)
      /\ deskPanes \in Seq(DeskPane) /\ visits \in Seq(Location) /\ marks \in Seq(Mark)
  BY InvParts
<1>3. /\ np \in Nat /\ DOMAIN deskPanes = 1 .. np /\ Elements(deskPanes) \subseteq DeskPane
      /\ \A i \in 1 .. np : deskPanes[i] \in DeskPane /\ deskPanes[i] \in Elements(deskPanes)
      /\ nv \in Nat /\ DOMAIN visits = 1 .. nv
      /\ \A i \in 1 .. nv : visits[i] \in Location /\ visits[i] \in Elements(visits)
      /\ nm \in Nat /\ DOMAIN marks = 1 .. nm
      /\ \A i \in 1 .. nm : marks[i] \in Mark /\ marks[i] \in Elements(marks)
      /\ (deskPanes = <<>> <=> np = 0) /\ (visits = <<>> <=> nv = 0)
  BY <1>2, PlacesInside DEF Elements
<1>4. \A t \in Elements(deskPanes) \cup Elements(visits) \cup {m.location : m \in Elements(marks)} :
        \E s \in Elements(sources) : Keeps(s, t)
  BY InvParts DEF Provided, Held
<1>5. /\ Exact(staged) /\ NumberedWithin(staged, highWater + Len(sources))
      /\ \A s \in Elements(sources) : NewSource(s) \in Elements(staged)
      /\ \A s \in Elements(staged) : s.file > highWater /\ s.revision > highWater
  <2> HIDE DEF staged
  <2>1. staged = [i \in DOMAIN sources |-> NewSource(sources[i])]
    BY DEF staged
  <2>2. QED BY <1>2, <2>1, StagedIs
<1> HIDE DEF staged
<1>6. /\ highWater \in Nat /\ highWater' \in Nat /\ highWater <= highWater'
      /\ highWater' = highWater + Len(sources)
      /\ retainedTop \in Nat /\ retainedTop <= highWater
  <2>1. Len(sources) \in Nat
    BY <1>2, PlacesInside DEF SourcesStand, Exact
  <2>2. highWater \in Nat /\ retainedTop \in Nat /\ retainedTop <= highWater
    BY <1>2 DEF SourcesStand
  <2>3. highWater' = highWater + 1 + Len(sources) - 1
    BY <1>1 DEF FirstFresh
  <2>4. QED BY <2>1, <2>2, <2>3
<1>7. /\ \A id \in PaneIds : NewPane(id) \in Nat /\ NewPane(id) >= nextPaneId
                             /\ NewPane(id) < nextPaneId + np
      /\ \A id : id \notin PaneIds => NewPane(id) = 0
      /\ \A a, b \in PaneIds : NewPane(a) = NewPane(b) => a = b
      /\ nextPaneId \in Nat \ {0}
  BY <1>2, NewPaneIs DEF PanesStand, Numbered
<1>8. ASSUME NEW p \in Elements(deskPanes)
      PROVE  /\ p \in DeskPane /\ p.id \in PaneIds
             /\ new(p) \in DeskPane /\ new(p).id = NewPane(p.id) /\ new(p).place = p.place
             /\ \E s \in Elements(sources) : Keeps(s, p) /\ Keeps(NewSource(s), new(p))
  <2>1. PICK s \in Elements(sources) : Keeps(s, p)
    BY <1>4
  <2>2. p \in DeskPane /\ p.id \in PaneIds
    BY <1>3 DEF PaneIds
  <2>3. Renamed(p) \in DeskPane /\ Renamed(p).place = p.place /\ Keeps(NewSource(s), Renamed(p))
    BY <1>2, <2>1, <2>2, RenamedIs
  <2>4. NewPane(p.id) \in Nat \ {0}
    BY <1>7, <2>2
  <2>5. \A q \in DeskPane, id \in Nat \ {0} :
          /\ [q EXCEPT !.id = id] \in DeskPane /\ [q EXCEPT !.id = id].id = id
          /\ [q EXCEPT !.id = id].place = q.place
          /\ Identity([q EXCEPT !.id = id]) = Identity(q)
    BY DEF DeskPane, Identity
  <2>6. /\ new(p) \in DeskPane /\ new(p).id = NewPane(p.id) /\ new(p).place = p.place
        /\ Identity(new(p)) = Identity(Renamed(p))
    BY <2>3, <2>4, <2>5
  <2>7. Keeps(NewSource(s), new(p))
    BY <2>3, <2>6 DEF Keeps
  <2>8. QED BY <2>1, <2>2, <2>6, <2>7
<1>9. ASSUME NEW i \in 1 .. nm
      PROVE  /\ mark(i) \in Mark /\ mark(i).id = nextMark + i - 1
             /\ mark(i).location = Moving(marks[i].location)
             /\ marks[i].location \in Location
  <2>1. marks[i] \in Mark /\ marks[i].location \in Location
    BY <1>3 DEF Mark
  <2>2. PICK s \in Elements(sources) : Keeps(s, marks[i].location)
    BY <1>3, <1>4
  <2>3. Moving(marks[i].location) \in Location
    BY <1>2, <2>1, <2>2, MovingIs
  <2>4. nextMark + i - 1 \in Nat \ {0}
    BY <1>2, <1>3 DEF MarksStand, Numbered
  <2>6. mark(i) = [[marks[i] EXCEPT !.id = nextMark + i - 1]
                     EXCEPT !.location = Moving(marks[i].location)]
    BY <2>1 DEF Mark
  <2> HIDE DEF mark
  <2> DEFINE id == nextMark + i - 1
             at == Moving(marks[i].location)
  <2>7. mark(i) = [[marks[i] EXCEPT !.id = id] EXCEPT !.location = at] /\ id \in Nat \ {0}
        /\ at \in Location
    BY <2>3, <2>4, <2>6
  <2> HIDE DEF id, at
  <2>8. mark(i) \in Mark /\ mark(i).id = id /\ mark(i).location = at
    <3>1. [[marks[i] EXCEPT !.id = id] EXCEPT !.location = at] \in Mark
      BY <2>1, <2>7 DEF Mark
    <3>2. [[marks[i] EXCEPT !.id = id] EXCEPT !.location = at].id = id
      BY <2>1, <2>7 DEF Mark
    <3>3. [[marks[i] EXCEPT !.id = id] EXCEPT !.location = at].location = at
      BY <2>1, <2>7 DEF Mark
    <3>4. QED BY <2>7, <3>1, <3>2, <3>3
  <2>9. QED BY <2>1, <2>8 DEF id, at
<1> HIDE DEF new, mark, np, nv, nm
<1>10. Elements(deskPanes') = {new(p) : p \in Elements(deskPanes)}
  BY <1>1 DEF Elements
<1>11. PanesStand'
  <2>1. deskPanes' \in Seq(DeskPane) /\ Len(deskPanes') = np /\ (deskPanes' = <<>> <=> np = 0)
    <3>1. deskPanes' \in [1 .. np -> DeskPane]
      BY <1>1, <1>3, <1>8
    <3>2. deskPanes' \in Seq(DeskPane) /\ Len(deskPanes') = np
      BY <1>3, <3>1, SeqDef, LenProperties
    <3>3. QED BY <3>2, EmptySeq
  <2>2. np <= MaxDeskPanes
    BY <1>2 DEF PanesStand, np
  <2>3. Numbered(Elements(deskPanes'), nextPaneId')
    <3>1. nextPaneId' \in Nat \ {0} /\ nextPaneId' = nextPaneId + np
      BY <1>1, <1>3, <1>7
    <3>2. \A p \in Elements(deskPanes) : new(p).id < nextPaneId'
      BY <1>7, <1>8, <3>1
    <3>3. \A p, q \in Elements(deskPanes) : new(p).id = new(q).id => p = q
      BY <1>2, <1>7, <1>8 DEF PanesStand, Numbered
    <3>4. QED BY <1>10, <3>1, <3>2, <3>3 DEF Numbered
  <2>4. IF np = 0 THEN activeReader' = 0 ELSE activeReader' \in PaneIds'
    <3>1. CASE np = 0
      <4>1. activeReader = 0 /\ PaneIds = {}
        BY <1>2, <1>3, <3>1 DEF PanesStand, PaneIds, Elements
      <4>2. QED BY <1>1, <1>7, <3>1, <4>1
    <3>2. CASE np # 0
      <4>1. PICK p \in Elements(deskPanes) : p.id = activeReader
        BY <1>2, <1>3, <3>2 DEF PanesStand, PaneIds
      <4>2. new(p).id = activeReader' /\ new(p) \in Elements(deskPanes')
        BY <1>1, <1>8, <1>10, <4>1
      <4>3. QED BY <3>2, <4>2 DEF PaneIds
    <3>3. QED BY <3>1, <3>2
  <2>5. QED BY <2>1, <2>2, <2>3, <2>4 DEF PanesStand
<1>12. ASSUME NEW i \in 1 .. nv
       PROVE  Moving(visits[i]) \in Location
              /\ \E s \in Elements(staged) : Keeps(s, Moving(visits[i]))
  <2>1. PICK s \in Elements(sources) : Keeps(s, visits[i])
    BY <1>3, <1>4
  <2>2. QED BY <1>2, <1>3, <1>5, <2>1, MovingIs
<1>13. TrailStandsAt(visits', cursor')
  <2>1. visits' \in [1 .. nv -> Location]
    BY <1>1, <1>3, <1>12
  <2>2. visits' \in Seq(Location) /\ Len(visits') = nv /\ DOMAIN visits' = 1 .. nv
    BY <1>3, <2>1, SeqDef, LenProperties
  <2>3. visits' = <<>> <=> nv = 0
    BY <2>2, EmptySeq
  <2>4. nv <= MaxVisits
    BY <1>2 DEF TrailStandsAt, nv
  <2>5. QED BY <1>1, <1>2, <1>3, <2>2, <2>3, <2>4 DEF TrailStandsAt
<1>14. /\ DOMAIN marks' = 1 .. nm /\ \A i \in 1 .. nm : marks'[i] = mark(i)
       /\ Elements(marks') = {mark(i) : i \in 1 .. nm}
  BY <1>1, <1>3 DEF Elements
<1>15. MarksStand'
  <2>1. marks' \in Seq(Mark) /\ Len(marks') = nm
    <3>1. marks' \in [1 .. nm -> Mark]
      BY <1>1, <1>3, <1>9
    <3>2. QED BY <1>3, <3>1, SeqDef, LenProperties
  <2>2. nm <= MaxMarks
    BY <1>2 DEF MarksStand, nm
  <2>3. nextMark \in Nat \ {0} /\ nextMark' = nextMark + nm
    BY <1>1, <1>2 DEF MarksStand, Numbered
  <2>4. /\ nextMark' \in Nat \ {0}
        /\ \A i \in 1 .. nm : nextMark + i - 1 < nextMark'
        /\ \A i, j \in 1 .. nm : nextMark + i - 1 = nextMark + j - 1 => i = j
    BY <1>3, <2>3
  <2>5. \A i, j \in 1 .. nm : mark(i).id = mark(j).id => i = j
    BY <1>9, <2>4
  <2>6. Numbered(Elements(marks'), nextMark')
    BY <1>9, <1>14, <2>4, <2>5 DEF Numbered
  <2>7. QED BY <1>14, <2>1, <2>2, <2>5, <2>6 DEF MarksStand
<1>16. CursorShown(deskPanes', visits', cursor')
  <2> SUFFICES ASSUME cursor # 0, NEW p \in Elements(deskPanes),
                      new(p).id = visits'[cursor].pane
               PROVE  visits'[cursor] = [file |-> new(p).file, revision |-> new(p).revision,
                                         place |-> new(p).place, pane |-> new(p).id]
    BY <1>1, <1>10 DEF CursorShown
  <2>1. cursor \in 1 .. nv /\ visits'[cursor] = Moving(visits[cursor])
        /\ visits[cursor] \in Location /\ visits[cursor] \in Elements(visits)
    BY <1>1, <1>2, <1>3 DEF TrailStandsAt
  <2>2. PICK s \in Elements(sources) : Keeps(s, p) /\ Keeps(NewSource(s), new(p))
    BY <1>8
  <2>3. PICK r \in Elements(sources) : Keeps(r, visits[cursor])
    BY <1>4, <2>1
  <2>4. Moving(visits[cursor])
          = [file |-> NewSource(r).file, revision |-> NewSource(r).revision,
             place |-> visits[cursor].place, pane |-> NewPane(visits[cursor].pane)]
    BY <1>2, <2>1, <2>3, MovingIs
  <2>5. visits[cursor].pane = p.id
    <3>1. NewPane(visits[cursor].pane) = NewPane(p.id) /\ NewPane(p.id) # 0 /\ p.id \in PaneIds
      BY <1>7, <1>8, <2>1, <2>4
    <3>2. visits[cursor].pane \in PaneIds
      BY <1>7, <3>1
    <3>3. QED BY <1>7, <3>1, <3>2
  <2>6. visits[cursor] = [file |-> p.file, revision |-> p.revision, place |-> p.place,
                          pane |-> p.id]
    BY <1>2, <2>5 DEF CursorShown
  <2>7. Identity(p) = Identity(visits[cursor])
    BY <2>6 DEF Identity
  <2>8. r = s
    <3>1. \A x, y \in Elements(sources) : Keeps(x, y) => x = y
      BY <1>2 DEF SourcesStand, Exact, Elements
    <3>2. QED BY <2>2, <2>3, <2>7, <3>1 DEF Keeps
  <2>9. /\ new(p).file = NewSource(s).file /\ new(p).revision = NewSource(s).revision
        /\ new(p).place = visits[cursor].place /\ new(p).id = NewPane(visits[cursor].pane)
    BY <1>8, <2>2, <2>5, <2>6 DEF Keeps, Identity
  <2>10. QED BY <2>1, <2>4, <2>8, <2>9
<1>17. Provided(staged, Held(deskPanes', visits', marks'))
  <2>1. ASSUME NEW p \in Elements(deskPanes)
        PROVE  \E s \in Elements(staged) : Keeps(s, new(p))
    BY <1>5, <1>8
  <2>2. ASSUME NEW t \in Elements(visits')
        PROVE  \E s \in Elements(staged) : Keeps(s, t)
    BY <1>1, <1>3, <1>12 DEF Elements
  <2>3. ASSUME NEW i \in 1 .. nm
        PROVE  \E s \in Elements(staged) : Keeps(s, mark(i).location)
    <3>1. PICK s \in Elements(sources) : Keeps(s, marks[i].location)
      BY <1>3, <1>4
    <3>2. Keeps(NewSource(s), Moving(marks[i].location))
      BY <1>2, <1>9, <3>1, MovingIs
    <3>3. QED BY <1>5, <1>9, <3>2
  <2>4. QED BY <1>10, <1>14, <2>1, <2>2, <2>3 DEF Provided, Held
<1>18. /\ SourcesStand'
       /\ Provided(sources', Held(deskPanes', visits', marks'))
       /\ \A s \in Elements(sources') : Referenced(s, deskPanes', visits', marks')
       /\ Elements(sources') \subseteq Elements(staged)
       /\ retainedTop' <= highWater'
  <2>1. NumberedWithin(staged, highWater')
    BY <1>5, <1>6
  <2>2. QED BY <1>1, <1>2, <1>5, <1>6, <1>17, <2>1, PublishStep
<1>19. CursorIsWhatIsShown'
  <2>1. (PanesStand => (CursorIsWhatIsShown <=> CursorShown(deskPanes, visits, cursor)))'
    BY CursorIs, PTL
  <2>2. QED BY <1>11, <1>16, <2>1
<1>20. DeskInv'
  BY <1>11, <1>13, <1>15, <1>18, <1>19 DEF DeskInv
<1>21. IdentitiesStand
  <2>1. ASSUME NEW s \in Elements(sources')
        PROVE  s.file > retainedTop /\ s.revision > retainedTop
    <3>1. s \in Capture /\ s.file > highWater /\ s.revision > highWater
      BY <1>5, <1>18, PlacesInside DEF Exact
    <3>2. s.file \in Nat /\ s.revision \in Nat
      BY <3>1 DEF Capture
    <3>3. QED BY <1>6, <3>1, <3>2
  <2>2. QED BY <1>18, <2>1 DEF IdentitiesStand
<1>22. PinsAndNotesStand
  <2>1. ASSUME NEW p \in Elements(deskPanes), NEW q \in Elements(deskPanes'), p.id = q.id
        PROVE  FALSE
    <3>1. PICK r \in Elements(deskPanes) : q = new(r)
      BY <1>10
    <3>2. q.id >= nextPaneId /\ p.id < nextPaneId /\ p.id \in Nat /\ q.id \in Nat
      BY <1>2, <1>7, <1>8, <2>1, <3>1 DEF PanesStand, Numbered
    <3>3. QED BY <1>7, <2>1, <3>2
  <2>2. ASSUME NEW m \in Elements(marks), NEW k \in Elements(marks'), m.id = k.id
        PROVE  FALSE
    <3>1. PICK i \in 1 .. nm : k = mark(i)
      BY <1>14
    <3>2. m.id < nextMark /\ nextMark \in Nat /\ m \in Mark
      BY <1>2, PlacesInside DEF MarksStand, Numbered
    <3>3. k.id = nextMark + i - 1
      BY <1>9, <3>1
    <3>4. m.id \in Nat
      BY <3>2 DEF Mark
    <3>5. QED BY <1>3, <2>2, <3>2, <3>3, <3>4
  <2>3. QED BY <2>1, <2>2 DEF PinsAndNotesStand
<1>23. QED BY <1>20, <1>21, <1>22 DEF DeskStep

-----------------------------------------------------------------------------
\* Whatever the next command is.
LEMMA DeskSteps ==
  ASSUME DeskInv, DeskNext
  PROVE  DeskStep
<1>1. ASSUME NEW c \in Offered, OpenFails(c) PROVE DeskStep
  BY <1>1, OpenFailsStep
<1>2. ASSUME NEW c \in Offered, NEW place \in Places, OpenCapture(c, place) PROVE DeskStep
  BY <1>2, OpenCaptureStep
<1>3. ASSUME NEW id \in PaneIds, Focus(id) PROVE DeskStep
  BY <1>3, FocusStep
<1>4. ASSUME NEW id \in PaneIds, PinReader(id) PROVE DeskStep
  BY <1>4, PinReaderStep
<1>5. ASSUME NEW id \in PaneIds, Duplicate(id) PROVE DeskStep
  BY <1>5, DuplicateStep
<1>6. ASSUME NEW id \in PaneIds, CloseReader(id) PROVE DeskStep
  BY <1>6, CloseStep
<1>7. ASSUME NEW id \in PaneIds, AddMark(id) PROVE DeskStep
  BY <1>7, AddMarkStep
<1>8. ASSUME NEW id \in PaneIds, NEW place \in Places, Navigate(id, place) PROVE DeskStep
  BY <1>8, NavigateStep
<1>9. ASSUME NEW id \in PaneIds, NEW place \in Places, Scroll(id, place) PROVE DeskStep
  BY <1>9, ScrollStep
<1>10. ASSUME NEW id \in Escapes, CloseReader(id) PROVE DeskStep
  BY <1>6, <1>10, EscapesArePanes
<1>11. ASSUME NEW target, Revisit(target) PROVE DeskStep
  BY <1>11, RevisitStep
<1>12. ASSUME NEW i \in DOMAIN marks, EditMark(i) PROVE DeskStep
  BY <1>12, EditMarkStep
<1>13. ASSUME NEW i \in DOMAIN marks, RecallMark(i) PROVE DeskStep
  BY <1>13, RecallStep
<1>14. ASSUME NEW i \in DOMAIN marks, ForgetMark(i) PROVE DeskStep
  BY <1>14, ForgetStep
<1>15. ASSUME NEW i \in DOMAIN marks, NEW id \in PaneIds, ReattachMark(i, id) PROVE DeskStep
  BY <1>15, ReattachStep
<1>16. ASSUME ClearHistory PROVE DeskStep
  BY <1>16, ClearHistoryStep
<1>17. ASSUME RestoreCheckpoint PROVE DeskStep
  BY <1>17, RestoreStep
<1>18. QED
  BY <1>1, <1>2, <1>3, <1>4, <1>5, <1>6, <1>7, <1>8, <1>9, <1>10, <1>11, <1>12, <1>13, <1>14,
     <1>15, <1>16, <1>17 DEF DeskNext

\* Every command of ReadingDesk (desk.rs: publish, and each command before it)
\* leaves a desk whose checkpoint restore accepts, with the history where its
\* pane is. No restored capture takes a number that one had before, a pinned
\* pane keeps its capture, and a note the text it was put at, whatever the limits
\* of DeskLimits are.
THEOREM DeskAlwaysStands == DeskSpec => DeskStands
<1> DEFINE stands == EveryDeskRestores' /\ CursorIsWhatIsShown' /\ IdentitiesStand
                    /\ PinsAndNotesStand
<1>1. DeskInv /\ [DeskNext]_deskVars => DeskInv'
  <2>1. ASSUME DeskInv, UNCHANGED deskVars PROVE DeskInv'
    <3>1. UNCHANGED <<deskPanes, activeReader, nextPaneId, sources, visits, cursor, marks,
                      nextMark, highWater, retainedTop>>
      BY <2>1 DEF deskVars
    <3>2. PanesStand' /\ MarksStand'
      BY <2>1, <3>1, PanesRest, MarksRest, InvParts
    <3>3. SourcesStand'
      BY <2>1, <3>1 DEF DeskInv, SourcesStand
    <3>4. QED
      BY <2>1, <3>1, <3>2, <3>3 DEF DeskInv, CursorIsWhatIsShown, PaneIds, LocationOf, PaneOf
  <2>2. QED BY <2>1, DeskSteps DEF DeskStep
<1>2. DeskInv /\ DeskInv' /\ [DeskNext]_deskVars => [stands]_deskVars
  <2>1. ASSUME DeskInv, DeskInv', DeskNext PROVE stands
    <3>1. IdentitiesStand /\ PinsAndNotesStand
      BY <2>1, DeskSteps DEF DeskStep
    <3>2. (DeskInv => EveryDeskRestores)'
      BY InvRestores, PTL
    <3>3. CursorIsWhatIsShown'
      BY <2>1 DEF DeskInv
    <3>4. QED BY <2>1, <3>1, <3>2, <3>3
  <2>2. QED BY <2>1
<1>3. QED BY <1>1, <1>2, DeskStart, PTL DEF DeskSpec, DeskStands

-----------------------------------------------------------------------------
(***************************************************************************)
(* Handle tables implement the registry of handles, for every number of    *)
(* tables, slots and generations.                                          *)
(***************************************************************************)

(* A table that was not made is untouched; so is a slot at generation 0.    *)
UntouchedTables ==
  \A t \in Domains, s \in Slots : t >= nextDomain => state[t][s] = "untouched"

UntouchedSlots ==
  \A t \in Domains, s \in Slots : state[t][s] = "untouched" <=> generation[t][s] = 0

(* A spent handle is of a generation its slot has passed or is leaving.     *)
SpentAreBehind ==
  \A h \in spentHandles :
    \/ h.generation < generation[h.domain][h.slot]
    \/ /\ h.generation = generation[h.domain][h.slot]
       /\ state[h.domain][h.slot] \in {"vacant", "retired"}

HandleInv ==
  /\ HandleTypeOK /\ FreeSlotsAreUsable
  /\ UntouchedTables /\ UntouchedSlots /\ SpentAreBehind

USE DEF Slots, Domains, States

(* The tables are made with nothing in them.                                *)
LEMMA InitInv == HandleInit => HandleInv
<1>1. (CHOOSE o \in Owners : TRUE) \in Owners /\ (CHOOSE v \in Resources : TRUE) \in Resources
  BY HandleAssumption
<1> QED
  BY <1>1, HandleAssumption
  DEF HandleInit, HandleInv, HandleTypeOK, FreeSlotsAreUsable, UntouchedTables,
      UntouchedSlots, SpentAreBehind, HandleSet

(* Taking a slot that is vacant or untouched, within its generations, keeps *)
(* everything but the free list, which insert settles itself.               *)
LEMMA OccupyInv ==
  ASSUME HandleInv, NEW t \in Tables, NEW s \in Slots, NEW v \in Resources,
         state[t][s] \in {"vacant", "untouched"}, generation[t][s] < MaxGeneration,
         freeSlots' = [freeSlots EXCEPT ![t] = @ \ {s}],
         Occupy(t, s, v)
  PROVE  HandleInv'
<1> USE DEF HandleInv
<1> t \in Domains /\ t < nextDomain
  BY HandleAssumption DEF Tables, HandleTypeOK
<1> DEFINE g == generation[t][s] + 1
<1>0. /\ g \in 1..MaxGeneration
      /\ state' = [state EXCEPT ![t] = [@ EXCEPT ![s] = "occupied"]]
      /\ generation' = [generation EXCEPT ![t] = [@ EXCEPT ![s] = g]]
      /\ value' = [value EXCEPT ![t] = [@ EXCEPT ![s] = v]]
      /\ UNCHANGED <<nextDomain, ownerOf, spentHandles>>
  BY HandleAssumption DEF Occupy, TakenGeneration, HandleTypeOK
<1> HIDE DEF g
<1>1. HandleTypeOK'
  <2>1. state' \in [Domains -> [Slots -> States]]
    BY <1>0 DEF HandleTypeOK
  <2>2. generation' \in [Domains -> [Slots -> 0..MaxGeneration]]
    BY <1>0, HandleAssumption, SMTT(30) DEF HandleTypeOK
  <2>3. value' \in [Domains -> [Slots -> Resources]]
    BY <1>0 DEF HandleTypeOK
  <2> QED BY <1>0, <2>1, <2>2, <2>3 DEF HandleTypeOK
<1>2. FreeSlotsAreUsable'
  <2> SUFFICES ASSUME NEW r \in Domains
               PROVE  /\ freeSlots'[r] = {x \in Slots : state'[r][x] = "vacant"}
                      /\ \A x \in freeSlots'[r] : generation'[r][x] < MaxGeneration
    BY DEF FreeSlotsAreUsable
  <2>1. CASE r = t
    <3>1. \A x \in Slots : state'[t][x] = IF x = s THEN "occupied" ELSE state[t][x]
      BY <1>0 DEF HandleTypeOK
    <3>2. \A x \in Slots \ {s} : generation'[t][x] = generation[t][x]
      BY <1>0 DEF HandleTypeOK
    <3>3. freeSlots'[t] = freeSlots[t] \ {s}
      BY DEF HandleTypeOK
    <3> QED BY <2>1, <3>1, <3>2, <3>3 DEF HandleTypeOK, FreeSlotsAreUsable
  <2>2. CASE r # t
    BY <1>0, <2>2 DEF HandleTypeOK, FreeSlotsAreUsable
  <2> QED BY <2>1, <2>2
<1>3. UntouchedTables' /\ UntouchedSlots'
  BY <1>0 DEF HandleTypeOK, UntouchedTables, UntouchedSlots
<1>4. SpentAreBehind'
  <2> SUFFICES ASSUME NEW h \in spentHandles
               PROVE  \/ h.generation < generation'[h.domain][h.slot]
                      \/ /\ h.generation = generation'[h.domain][h.slot]
                         /\ state'[h.domain][h.slot] \in {"vacant", "retired"}
    BY DEF SpentAreBehind, Occupy
  <2>a. h \in HandleSet
    BY DEF HandleTypeOK
  <2>0. h.domain \in Domains /\ h.slot \in Slots /\ h.generation \in Int
    BY <2>a, HandleAssumption DEF HandleSet
  <2>1. CASE h.domain = t /\ h.slot = s
    <3>a. generation'[t][s] = g /\ generation[t][s] \in Int
      BY <1>0, HandleAssumption DEF HandleTypeOK
    <3>1. generation'[t][s] = generation[t][s] + 1 /\ generation[t][s] \in Int
      BY <3>a DEF g
    <3> QED BY <2>0, <2>1, <3>1 DEF SpentAreBehind
  <2>2. CASE ~(h.domain = t /\ h.slot = s)
    <3>1. /\ generation'[h.domain][h.slot] = generation[h.domain][h.slot]
          /\ state'[h.domain][h.slot] = state[h.domain][h.slot]
      BY <1>0, <2>0, <2>2 DEF HandleTypeOK
    <3> QED BY <3>1 DEF SpentAreBehind
  <2> QED BY <2>1, <2>2
<1> QED BY <1>1, <1>2, <1>3, <1>4

(* Every operation keeps the invariant.                                     *)
LEMMA StepInv == HandleInv /\ [HandleNext]_handleVars => HandleInv'
<1> SUFFICES ASSUME HandleInv, [HandleNext]_handleVars PROVE HandleInv'
  OBVIOUS
<1> USE DEF HandleInv
<1>1. ASSUME NEW o \in Owners, NewTable(o) PROVE HandleInv'
  BY <1>1, HandleAssumption, SMTT(60)
  DEF NewTable, slotVars, HandleTypeOK, FreeSlotsAreUsable, UntouchedTables, UntouchedSlots,
      SpentAreBehind
<1>2. ASSUME NEW t \in Tables, NEW s \in Slots, NEW v \in Resources, InsertFree(t, s, v)
      PROVE HandleInv'
  <2> t \in Domains
    BY HandleAssumption DEF Tables, HandleTypeOK
  <2>1. state[t][s] = "vacant" /\ generation[t][s] < MaxGeneration
    BY <1>2 DEF InsertFree, FreeSlotsAreUsable
  <2>2. Occupy(t, s, v)
    BY <1>2, <2>1, HandleAssumption DEF InsertFree, TakenGeneration, HandleTypeOK
  <2> QED BY <1>2, <2>1, <2>2, OccupyInv DEF InsertFree
<1>3. ASSUME NEW t \in Tables, NEW s \in Slots, NEW v \in Resources, InsertNew(t, s, v)
      PROVE HandleInv'
  <2> t \in Domains
    BY HandleAssumption DEF Tables, HandleTypeOK
  <2>1. state[t][s] = "untouched" /\ generation[t][s] < MaxGeneration
    BY <1>3, HandleAssumption DEF InsertNew, UntouchedSlots
  <2>2. freeSlots' = [freeSlots EXCEPT ![t] = @ \ {s}]
    BY <1>3 DEF InsertNew, HandleTypeOK
  <2> QED BY <1>3, <2>1, <2>2, OccupyInv DEF InsertNew
<1>4. ASSUME NEW t \in Tables, NEW h \in HandleSet, RemoveValue(t, h) PROVE HandleInv'
  <2> t \in Domains /\ t < nextDomain /\ h.slot \in Slots /\ h.generation \in 1..MaxGeneration
      /\ h.domain = t /\ state[t][h.slot] = "occupied" /\ generation[t][h.slot] = h.generation
    BY <1>4, HandleAssumption DEF Tables, HandleTypeOK, HandleSet, RemoveValue, Resolves
  <2> DEFINE w == IF ReusableAfter(h.generation) THEN "vacant" ELSE "retired"
             fs == IF ReusableAfter(h.generation) THEN freeSlots[t] \cup {h.slot}
                   ELSE freeSlots[t]
  <2>0. /\ state' = [state EXCEPT ![t] = [@ EXCEPT ![h.slot] = w]]
        /\ freeSlots' = [freeSlots EXCEPT ![t] = fs]
        /\ spentHandles' = spentHandles \cup {h}
        /\ UNCHANGED <<nextDomain, ownerOf, generation, value>>
    BY <1>4 DEF RemoveValue, HandleTypeOK
  <2>a. /\ w \in {"vacant", "retired"} /\ fs \subseteq Slots
        /\ w = "vacant" => fs = freeSlots[t] \cup {h.slot} /\ generation[t][h.slot] < MaxGeneration
        /\ w = "retired" => fs = freeSlots[t]
    <3>1. /\ freeSlots[t] \in SUBSET Slots /\ h.slot \in Slots
          /\ generation[t][h.slot] = h.generation
      BY DEF HandleTypeOK
    <3>2. CASE ReusableAfter(h.generation)
      <4>1. w = "vacant" /\ fs = freeSlots[t] \cup {h.slot}
        BY <3>2
      <4>2. h.generation < MaxGeneration
        BY <3>2, HandleAssumption DEF ReusableAfter
      <4> HIDE DEF w, fs
      <4>3. QED BY <3>1, <4>1, <4>2
    <3>3. CASE ~ReusableAfter(h.generation)
      <4>1. w = "retired" /\ fs = freeSlots[t]
        BY <3>3
      <4> HIDE DEF w, fs
      <4>2. QED BY <3>1, <4>1
    <3>4. QED BY <3>2, <3>3
  <2> HIDE DEF w, fs
  <2>1. HandleTypeOK'
    <3>1. state' \in [Domains -> [Slots -> States]]
      BY <2>0, <2>a DEF HandleTypeOK
    <3>2. freeSlots' \in [Domains -> SUBSET Slots]
      BY <2>0, <2>a DEF HandleTypeOK
    <3> QED BY <2>0, <3>1, <3>2 DEF HandleTypeOK
  <2>2. FreeSlotsAreUsable'
    <3> SUFFICES ASSUME NEW r \in Domains
                 PROVE  /\ freeSlots'[r] = {x \in Slots : state'[r][x] = "vacant"}
                        /\ \A x \in freeSlots'[r] : generation'[r][x] < MaxGeneration
      BY DEF FreeSlotsAreUsable
    <3>1. CASE r = t
      <4>1. w = "vacant" \/ w = "retired"
        BY <2>a
      <4>2. \A x \in Slots : state'[t][x] = IF x = h.slot THEN w ELSE state[t][x]
        BY <2>0 DEF HandleTypeOK
      <4>3. freeSlots'[t] = fs
        BY <2>0 DEF HandleTypeOK
      <4> QED BY <2>0, <2>a, <3>1, <4>1, <4>2, <4>3 DEF FreeSlotsAreUsable
    <3>2. CASE r # t
      BY <2>0, <3>2 DEF HandleTypeOK, FreeSlotsAreUsable
    <3> QED BY <3>1, <3>2
  <2>3. UntouchedTables' /\ UntouchedSlots'
    BY <2>0, <2>a DEF HandleTypeOK, UntouchedTables, UntouchedSlots
  <2>4. SpentAreBehind'
    <3> SUFFICES ASSUME NEW k \in spentHandles \cup {h}
                 PROVE  \/ k.generation < generation'[k.domain][k.slot]
                        \/ /\ k.generation = generation'[k.domain][k.slot]
                           /\ state'[k.domain][k.slot] \in {"vacant", "retired"}
      BY <1>4 DEF SpentAreBehind, RemoveValue
    <3>a. k \in HandleSet
      BY DEF HandleTypeOK
    <3>0. k.domain \in Domains /\ k.slot \in Slots /\ k.generation \in Int
      BY <3>a, HandleAssumption DEF HandleSet
    <3>1. CASE k.domain = t /\ k.slot = h.slot
      <4>1. state'[t][h.slot] = w /\ generation'[t][h.slot] = h.generation
        BY <2>0 DEF HandleTypeOK
      <4>2. k = h \/ k.generation < h.generation
        BY <3>1 DEF SpentAreBehind
      <4> QED BY <2>a, <3>1, <4>1, <4>2
    <3>2. CASE ~(k.domain = t /\ k.slot = h.slot)
      <4>1. /\ generation'[k.domain][k.slot] = generation[k.domain][k.slot]
            /\ state'[k.domain][k.slot] = state[k.domain][k.slot]
        BY <2>0, <3>0, <3>2 DEF HandleTypeOK
      <4>2. k \in spentHandles
        BY <3>2
      <4> QED BY <4>1, <4>2 DEF SpentAreBehind
    <3> QED BY <3>1, <3>2
  <2> QED BY <2>1, <2>2, <2>3, <2>4
<1>5. ASSUME NEW t \in Tables, NEW h \in HandleSet, NEW v \in Resources, Update(t, h, v)
      PROVE HandleInv'
  <2> t \in Domains /\ h.slot \in Slots
    BY HandleAssumption DEF Tables, HandleTypeOK, HandleSet
  <2> QED
    BY <1>5 DEF Update, HandleTypeOK, FreeSlotsAreUsable, UntouchedTables, UntouchedSlots,
                SpentAreBehind
<1>6. CASE UNCHANGED handleVars
  BY <1>6 DEF handleVars, slotVars, HandleTypeOK, FreeSlotsAreUsable, UntouchedTables,
              UntouchedSlots, SpentAreBehind
<1> QED BY <1>1, <1>2, <1>3, <1>4, <1>5, <1>6 DEF HandleNext

(* The strengthened invariant holds throughout.                             *)
THEOREM HandleInvariant == HandleSpec => []HandleInv
BY InitInv, StepInv, PTL DEF HandleSpec

(* Every vacant slot is on the free list and within its generations, so an  *)
(* insert that pops one succeeds (handles.rs, SlotTable::insert).           *)
THEOREM FreeSlotsUsable == HandleSpec => []FreeSlotsAreUsable
<1>1. HandleInv => FreeSlotsAreUsable
  BY DEF HandleInv
<1> QED BY <1>1, HandleInvariant, PTL

LEMMA SpentDoNotResolve == HandleInv => SpentHandlesStaySpent
<1> SUFFICES ASSUME HandleInv, NEW h \in spentHandles, NEW t \in Domains, Resolves(t, h)
             PROVE  FALSE
  BY DEF SpentHandlesStaySpent
<1>1. h \in HandleSet
  BY DEF HandleInv, HandleTypeOK
<1>2. h.generation \in Nat /\ generation[h.domain][h.slot] = h.generation
      /\ state[h.domain][h.slot] = "occupied"
  BY <1>1, HandleAssumption DEF Resolves, HandleSet
<1> QED BY <1>2 DEF HandleInv, SpentAreBehind

(* A handle whose value was removed resolves nowhere again (handles.rs,     *)
(* SlotTable::remove).                                                      *)
THEOREM SpentStaySpent == HandleSpec => []SpentHandlesStaySpent
BY SpentDoNotResolve, HandleInvariant, PTL

-----------------------------------------------------------------------------
(* The tables implement the registry.                                       *)

(* A pair is bound when its slot holds the value at the handle's generation, *)
(* and a set of pairs is known by the pairs in it.                          *)
Holds(h, v) == Resolves(h.domain, h) /\ value[h.domain][h.slot] = v

PairsAreHeld ==
  /\ Bound \subseteq HandleSet \X Resources
  /\ \A h \in HandleSet, v \in Resources : <<h, v>> \in Bound <=> Holds(h, v)

LEMMA BoundPairs ==
  ASSUME HandleInv
  PROVE  PairsAreHeld
<1>1. ASSUME NEW p \in Occupied
      PROVE  <<HandleAt(p[1], p[2]), value[p[1]][p[2]]>> \in HandleSet \X Resources
  <2>1. /\ p[1] \in Domains /\ p[2] \in Slots /\ state[p[1]][p[2]] = "occupied"
        /\ generation[p[1]][p[2]] \in 1..MaxGeneration
    <3>1. p[1] \in Domains /\ p[2] \in Slots /\ state[p[1]][p[2]] = "occupied"
      BY DEF Occupied
    <3>2. PICK g : g = generation[p[1]][p[2]]
      OBVIOUS
    <3>3. g \in 0..MaxGeneration
      BY <3>1, <3>2 DEF HandleInv, HandleTypeOK
    <3>4. g # 0
      BY <3>1, <3>2 DEF HandleInv, UntouchedSlots
    <3>5. g \in 1..MaxGeneration
      BY <3>3, <3>4, HandleAssumption
    <3>6. QED BY <3>1, <3>2, <3>5
  <2>2. ownerOf[p[1]] \in Owners /\ value[p[1]][p[2]] \in Resources
    BY <2>1 DEF HandleInv, HandleTypeOK
  <2>3. HandleAt(p[1], p[2]) \in HandleSet
    BY <2>1, <2>2 DEF HandleAt, HandleSet
  <2> QED BY <2>2, <2>3
<1>2. Bound \subseteq HandleSet \X Resources
  BY <1>1 DEF Bound
<1>3. ASSUME NEW h \in HandleSet, NEW v \in Resources
      PROVE  <<h, v>> \in Bound <=> Holds(h, v)
  <2>1. h.domain \in Domains /\ h.slot \in Slots
    BY DEF HandleSet
  <2>2. Resolves(h.domain, h) =>
          <<h.domain, h.slot>> \in Occupied /\ h = HandleAt(h.domain, h.slot)
    BY <2>1 DEF Resolves, Occupied, HandleAt, HandleSet
  <2>3. ASSUME NEW p \in Occupied, h = HandleAt(p[1], p[2])
        PROVE  Resolves(h.domain, h) /\ h.domain = p[1] /\ h.slot = p[2]
    BY <2>3 DEF Resolves, Occupied, HandleAt
  <2> QED BY <2>2, <2>3 DEF Bound, Holds
<1> QED BY <1>2, <1>3 DEF PairsAreHeld

LEMMA BoundPairsNext ==
  ASSUME HandleInv'
  PROVE  PairsAreHeld'
<1>1. ASSUME NEW p \in Occupied'
      PROVE  <<HandleAt(p[1], p[2])', value'[p[1]][p[2]]>> \in HandleSet \X Resources
  <2>1. /\ p[1] \in Domains /\ p[2] \in Slots /\ state'[p[1]][p[2]] = "occupied"
        /\ generation'[p[1]][p[2]] \in 1..MaxGeneration
    <3>1. p[1] \in Domains /\ p[2] \in Slots /\ state'[p[1]][p[2]] = "occupied"
      BY DEF Occupied
    <3>2. PICK g : g = generation'[p[1]][p[2]]
      OBVIOUS
    <3>3. g \in 0..MaxGeneration
      BY <3>1, <3>2 DEF HandleInv, HandleTypeOK
    <3>4. g # 0
      BY <3>1, <3>2 DEF HandleInv, UntouchedSlots
    <3>5. g \in 1..MaxGeneration
      BY <3>3, <3>4, HandleAssumption
    <3>6. QED BY <3>1, <3>2, <3>5
  <2>2. ownerOf'[p[1]] \in Owners /\ value'[p[1]][p[2]] \in Resources
    BY <2>1 DEF HandleInv, HandleTypeOK
  <2>3. HandleAt(p[1], p[2])' \in HandleSet
    BY <2>1, <2>2 DEF HandleAt, HandleSet
  <2> QED BY <2>2, <2>3
<1>2. Bound' \subseteq HandleSet \X Resources
  BY <1>1 DEF Bound
<1>3. ASSUME NEW h \in HandleSet, NEW v \in Resources
      PROVE  <<h, v>> \in Bound' <=> Holds(h, v)'
  <2>1. h.domain \in Domains /\ h.slot \in Slots
    BY DEF HandleSet
  <2>2. Resolves(h.domain, h)' =>
          <<h.domain, h.slot>> \in Occupied' /\ h = HandleAt(h.domain, h.slot)'
    BY <2>1 DEF Resolves, Occupied, HandleAt, HandleSet
  <2>3. ASSUME NEW p \in Occupied', h = HandleAt(p[1], p[2])'
        PROVE  Resolves(h.domain, h)' /\ h.domain = p[1] /\ h.slot = p[2]
    BY <2>3 DEF Resolves, Occupied, HandleAt
  <2> QED BY <2>2, <2>3 DEF Bound, Holds
<1> QED BY <1>2, <1>3 DEF PairsAreHeld

LEMMA SamePairs ==
  ASSUME NEW H, NEW R, NEW S \in SUBSET (H \X R), NEW T \in SUBSET (H \X R),
         \A h \in H, v \in R : <<h, v>> \in S <=> <<h, v>> \in T
  PROVE  S = T
OBVIOUS

LEMMA InitRefines == HandleInit => Registry!Empty
<1> SUFFICES ASSUME HandleInit PROVE Occupied = {} /\ spentHandles = {}
  BY DEF Registry!Empty, Bound
<1> QED BY DEF HandleInit, Occupied

(* What a step leaves alone of the slots leaves the bound pairs alone.      *)
LEMMA SameBound ==
  ASSUME UNCHANGED <<state, generation, value>>,
         \A p \in Occupied : ownerOf'[p[1]] = ownerOf[p[1]]
  PROVE  Bound' = Bound
<1>1. Occupied' = Occupied
  BY DEF Occupied
<1>2. \A p \in Occupied : HandleAt(p[1], p[2])' = HandleAt(p[1], p[2])
  BY DEF HandleAt
<1> QED BY <1>1, <1>2 DEF Bound

(* Taking a slot binds a handle that never was one.                         *)
LEMMA OccupyRefines ==
  ASSUME HandleInv, PairsAreHeld, PairsAreHeld', NEW t \in Tables, NEW s \in Slots, NEW v \in Resources,
         state[t][s] \in {"vacant", "untouched"}, generation[t][s] < MaxGeneration,
         Occupy(t, s, v)
  PROVE  Registry!Bind
<1> USE DEF HandleInv
<1>t. t \in Domains
  BY HandleAssumption DEF Tables, HandleTypeOK
<1> DEFINE h == [owner |-> ownerOf[t], domain |-> t, slot |-> s, generation |-> generation[t][s] + 1]
<1>1. h \in HandleSet
  BY <1>t, HandleAssumption, SMTT(30) DEF HandleSet, HandleTypeOK
<1>2. h.owner = ownerOf[t] /\ h.domain = t /\ h.slot = s /\ h.generation = generation[t][s] + 1
  OBVIOUS
<1>3. h \notin spentHandles
  <2>1. generation[t][s] \in Int /\ state[t][s] \in {"vacant", "untouched"}
    BY <1>t, HandleAssumption DEF HandleTypeOK
  <2>2. ASSUME h \in spentHandles PROVE FALSE
    <3> HIDE DEF h
    <3>1. \/ h.generation < generation[t][s]
          \/ h.generation = generation[t][s]
      BY <1>2, <2>2 DEF SpentAreBehind
    <3> QED BY <1>2, <2>1, <3>1
  <2> QED BY <2>2
<1>4. \A p \in Bound : p[1] # h
  <2>1. ASSUME NEW p \in Bound PROVE p = <<p[1], p[2]>> /\ p[1] \in HandleSet /\ p[2] \in Resources
    BY <2>1 DEF PairsAreHeld
  <2>2. \A u \in Resources : ~Holds(h, u)
    <3> HIDE DEF h
    <3>1. generation[t][s] \in Int /\ state[t][s] # "occupied"
      BY <1>t, HandleAssumption DEF HandleTypeOK
    <3> QED BY <1>2, <3>1 DEF Holds, Resolves
  <2>3. \A u \in Resources : <<h, u>> \notin Bound
    <3> HIDE DEF h
    <3> QED BY <1>1, <2>2 DEF PairsAreHeld
  <2> HIDE DEF h
  <2> QED BY <2>1, <2>3
<1>5. \A k \in HandleSet, u \in Resources :
        Holds(k, u)'
          <=> Holds(k, u) \/ (k = h /\ u = v)
  <2> SUFFICES ASSUME NEW k \in HandleSet, NEW u \in Resources
               PROVE  Holds(k, u)'
                        <=> \/ Holds(k, u)
                            \/ (k = h /\ u = v)
    OBVIOUS
  <2>0. k.domain \in Domains /\ k.slot \in Slots
    BY DEF HandleSet
  <2>1. CASE k.domain = t /\ k.slot = s
    <3>1. /\ state'[t][s] = "occupied" /\ generation'[t][s] = generation[t][s] + 1
          /\ value'[t][s] = v /\ ownerOf' = ownerOf
      BY <1>t DEF Occupy, TakenGeneration, HandleTypeOK
    <3>2. (k.owner = ownerOf[t] /\ k.generation = generation[t][s] + 1) <=> k = h
      BY <2>1 DEF HandleSet
    <3> QED BY <1>t, <2>1, <3>1, <3>2 DEF Resolves, Holds
  <2>2. CASE ~(k.domain = t /\ k.slot = s)
    <3>1. /\ state'[k.domain][k.slot] = state[k.domain][k.slot]
          /\ generation'[k.domain][k.slot] = generation[k.domain][k.slot]
          /\ value'[k.domain][k.slot] = value[k.domain][k.slot] /\ ownerOf' = ownerOf
      BY <1>t, <2>0, <2>2 DEF Occupy, HandleTypeOK
    <3> QED BY <1>2, <2>2, <3>1 DEF Resolves, Holds
  <2> QED BY <2>1, <2>2
<1> HIDE DEF h
<1>6. Bound' = Bound \cup {<<h, v>>}
  <2>1. Bound \cup {<<h, v>>} \subseteq HandleSet \X Resources
    BY <1>1 DEF PairsAreHeld
  <2>2. \A k \in HandleSet, u \in Resources :
          <<k, u>> \in Bound' <=> <<k, u>> \in Bound \cup {<<h, v>>}
    BY <1>5 DEF PairsAreHeld
  <2> QED BY <2>1, <2>2, SamePairs DEF PairsAreHeld
<1> QED BY <1>1, <1>3, <1>4, <1>6 DEF Registry!Bind, Occupy

(* Storing through a handle changes what it is bound to, removing ends it.  *)
LEMMA UpdateRefines ==
  ASSUME HandleInv, PairsAreHeld, PairsAreHeld', NEW t \in Tables, NEW h \in HandleSet, NEW v \in Resources, Update(t, h, v)
  PROVE  Registry!Rebind
<1> USE DEF HandleInv
<1>1. t \in Domains /\ h.slot \in Slots /\ h.domain = t /\ Resolves(h.domain, h)
  BY HandleAssumption DEF Tables, HandleTypeOK, HandleSet, Update, Resolves
<1> DEFINE p == <<h, value[t][h.slot]>>
<1>2. p \in Bound /\ p[1] = h
  <2>1. value[t][h.slot] \in Resources
    BY <1>1 DEF HandleTypeOK
  <2>2. Holds(h, value[t][h.slot])
    BY <1>1 DEF Holds
  <2> QED BY <2>1, <2>2 DEF PairsAreHeld
<1>3. \A k \in HandleSet, u \in Resources :
        Holds(k, u)'
          <=> \/ Holds(k, u) /\ <<k, u>> # p
              \/ (k = h /\ u = v)
  <2> SUFFICES ASSUME NEW k \in HandleSet, NEW u \in Resources
               PROVE  Holds(k, u)'
                        <=> \/ Holds(k, u) /\ <<k, u>> # p
                            \/ (k = h /\ u = v)
    OBVIOUS
  <2>0. k.domain \in Domains /\ k.slot \in Slots
    BY DEF HandleSet
  <2>1. Resolves(k.domain, k)' <=> Resolves(k.domain, k)
    BY DEF Update, Resolves
  <2>2. CASE k.domain = t /\ k.slot = h.slot
    <3>1. value'[t][h.slot] = v
      BY <1>1 DEF Update, HandleTypeOK
    <3>2. Resolves(k.domain, k) => k = h
      BY <1>1, <2>2 DEF Resolves, HandleSet
    <3> QED BY <1>1, <2>1, <2>2, <3>1, <3>2 DEF Holds
  <2>3. CASE ~(k.domain = t /\ k.slot = h.slot)
    <3>1. value'[k.domain][k.slot] = value[k.domain][k.slot]
      BY <1>1, <2>0, <2>3 DEF Update, HandleTypeOK
    <3>2. k # h
      BY <1>1, <2>3
    <3> QED BY <2>1, <3>1, <3>2 DEF Holds
  <2> QED BY <2>2, <2>3
<1> HIDE DEF p
<1>4. Bound' = (Bound \ {p}) \cup {<<p[1], v>>}
  <2>1. (Bound \ {p}) \cup {<<h, v>>} \subseteq HandleSet \X Resources
    BY DEF PairsAreHeld
  <2>2. \A k \in HandleSet, u \in Resources :
          <<k, u>> \in Bound' <=> <<k, u>> \in (Bound \ {p}) \cup {<<h, v>>}
    BY <1>3 DEF PairsAreHeld
  <2> QED BY <1>2, <2>1, <2>2, SamePairs DEF PairsAreHeld
<1> QED BY <1>2, <1>4 DEF Registry!Rebind, Update

LEMMA RemoveRefines ==
  ASSUME HandleInv, PairsAreHeld, PairsAreHeld', NEW t \in Tables, NEW h \in HandleSet, RemoveValue(t, h)
  PROVE  Registry!Release
<1> USE DEF HandleInv
<1>1. t \in Domains /\ h.slot \in Slots /\ h.domain = t /\ Resolves(h.domain, h)
  BY HandleAssumption DEF Tables, HandleTypeOK, HandleSet, RemoveValue, Resolves
<1> DEFINE p == <<h, value[t][h.slot]>>
<1>2. p \in Bound /\ p[1] = h
  <2>1. value[t][h.slot] \in Resources
    BY <1>1 DEF HandleTypeOK
  <2>2. Holds(h, value[t][h.slot])
    BY <1>1 DEF Holds
  <2> QED BY <2>1, <2>2 DEF PairsAreHeld
<1> DEFINE w == IF ReusableAfter(h.generation) THEN "vacant" ELSE "retired"
<1>w. state' = [state EXCEPT ![t] = [@ EXCEPT ![h.slot] = w]] /\ w # "occupied"
  BY DEF RemoveValue
<1> HIDE DEF w
<1>3. \A k \in HandleSet, u \in Resources :
        Holds(k, u)'
          <=> Holds(k, u) /\ <<k, u>> # p
  <2> SUFFICES ASSUME NEW k \in HandleSet, NEW u \in Resources
               PROVE  Holds(k, u)'
                        <=> Holds(k, u) /\ <<k, u>> # p
    OBVIOUS
  <2>0. k.domain \in Domains /\ k.slot \in Slots
    BY DEF HandleSet
  <2>2. CASE k.domain = t /\ k.slot = h.slot
    <3>1. state'[t][h.slot] # "occupied"
      BY <1>1, <1>w DEF HandleTypeOK
    <3>2. Resolves(k.domain, k) => k = h
      BY <1>1, <2>2 DEF Resolves, HandleSet
    <3> QED BY <1>1, <2>2, <3>1, <3>2 DEF Resolves, Holds
  <2>3. CASE ~(k.domain = t /\ k.slot = h.slot)
    <3>1. state'[k.domain][k.slot] = state[k.domain][k.slot]
      BY <1>1, <1>w, <2>0, <2>3 DEF HandleTypeOK
    <3>2. k # h /\ UNCHANGED <<ownerOf, generation, value>>
      BY <1>1, <2>3 DEF RemoveValue
    <3> QED BY <3>1, <3>2 DEF Resolves, Holds
  <2> QED BY <2>2, <2>3
<1> HIDE DEF p
<1>4. Bound' = Bound \ {p}
  <2>1. Bound \ {p} \subseteq HandleSet \X Resources
    BY DEF PairsAreHeld
  <2>2. \A k \in HandleSet, u \in Resources :
          <<k, u>> \in Bound' <=> <<k, u>> \in Bound \ {p}
    BY <1>3 DEF PairsAreHeld
  <2> QED BY <2>1, <2>2, SamePairs DEF PairsAreHeld
<1> QED BY <1>2, <1>4 DEF Registry!Release, RemoveValue

LEMMA StepRefines ==
  HandleInv /\ [HandleNext]_handleVars => [Registry!RegistryNext]_(Registry!registry)
<1> SUFFICES ASSUME HandleInv, [HandleNext]_handleVars
             PROVE  Registry!RegistryNext \/ (Bound' = Bound /\ spentHandles' = spentHandles)
  BY DEF Registry!registry
<1>0. PairsAreHeld /\ PairsAreHeld'
  BY StepInv, BoundPairs, BoundPairsNext
<1>1. ASSUME NEW o \in Owners, NewTable(o) PROVE Bound' = Bound /\ spentHandles' = spentHandles
  <2>1. ASSUME NEW p \in Occupied PROVE ownerOf'[p[1]] = ownerOf[p[1]]
    <3>1. p[1] # nextDomain /\ p[1] \in Domains
      BY <2>1 DEF Occupied, HandleInv, UntouchedTables, HandleTypeOK
    <3> QED BY <1>1, <3>1 DEF NewTable, HandleInv, HandleTypeOK
  <2> QED BY <1>1, <2>1, SameBound DEF NewTable, slotVars
<1>2. ASSUME NEW t \in Tables, NEW s \in Slots, NEW v \in Resources, InsertFree(t, s, v)
      PROVE Registry!Bind
  <2> t \in Domains
    BY HandleAssumption DEF Tables, HandleInv, HandleTypeOK
  <2>1. state[t][s] = "vacant" /\ generation[t][s] < MaxGeneration
    BY <1>2 DEF InsertFree, HandleInv, FreeSlotsAreUsable
  <2>2. Occupy(t, s, v)
    BY <1>2, <2>1, HandleAssumption DEF InsertFree, TakenGeneration, HandleInv, HandleTypeOK
  <2> QED BY <2>1, <2>2, <1>0, OccupyRefines
<1>3. ASSUME NEW t \in Tables, NEW s \in Slots, NEW v \in Resources, InsertNew(t, s, v)
      PROVE Registry!Bind
  <2> t \in Domains
    BY HandleAssumption DEF Tables, HandleInv, HandleTypeOK
  <2>1. state[t][s] = "untouched" /\ generation[t][s] < MaxGeneration
    BY <1>3, HandleAssumption DEF InsertNew, HandleInv, UntouchedSlots
  <2> QED BY <1>3, <2>1, <1>0, OccupyRefines DEF InsertNew
<1>4. CASE UNCHANGED handleVars
  BY <1>4, SameBound DEF handleVars, slotVars
<1> QED
  BY <1>1, <1>2, <1>3, <1>4, <1>0, UpdateRefines, RemoveRefines DEF HandleNext, Registry!RegistryNext

(* Handle tables keep the promise of the registry: a handle is given out    *)
(* once and, once its value is taken back, means nothing (handles.rs:1-8).  *)
THEOREM TablesImplementRegistry == HandleSpec => ImplementsRegistry
BY InitRefines, StepRefines, HandleInvariant, PTL
DEF HandleSpec, ImplementsRegistry, Registry!RegistrySpec

\* Slots of SlotTable can be used again, handles cannot.
THEOREM SpentOnce == HandleSpec => []HandlesAreSpentOnce
<1>1. FreeSlotsAreUsable /\ SpentHandlesStaySpent => HandlesAreSpentOnce
  BY DEF HandlesAreSpentOnce
<1>2. QED BY <1>1, FreeSlotsUsable, SpentStaySpent, PTL

=============================================================================
