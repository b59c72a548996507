---------------------------- MODULE SearchProofs ----------------------------
(***************************************************************************)
(* What is proved of the search for bytes.  The table a cursor falls back  *)
(* through is the longest border of every prefix of the needle; a cursor   *)
(* that is suspended anywhere stands where the longest prefix of the       *)
(* needle ends; the scans that are built on it miss and invent no hit; and *)
(* a search of a reader that is neither ended nor stopped can go on.       *)
(***************************************************************************)
EXTENDS TextScan, ReaderSearch, LineProofs

-----------------------------------------------------------------------------
(* A needle in a text, and in itself.                                      *)

\* The first m of the needle end at p.
Fits(needle, text, p, m) == \A i \in 1 .. m : needle[i] = text[p - m + i]

LEMMA ShorterFits ==
  ASSUME NEW needle, NEW text, NEW p \in Nat, NEW k \in Nat, NEW j \in 0 .. k,
         Fits(needle, text, p, k)
  PROVE  Fits(needle, text, p, j) <=> Fits(needle, needle, k, j)
<1>1. ASSUME NEW i \in 1 .. j PROVE needle[k - j + i] = text[p - j + i]
  <2>1. k - j + i \in 1 .. k /\ p - k + (k - j + i) = p - j + i
    OBVIOUS
  <2>2. needle[k - j + i] = text[p - k + (k - j + i)]
    BY <2>1 DEF Fits
  <2>3. QED BY <2>1, <2>2
<1>2. QED BY <1>1 DEF Fits

LEMMA OneMoreFits ==
  ASSUME NEW needle, NEW text, NEW p \in Nat, NEW j \in Nat
  PROVE  Fits(needle, text, p + 1, j + 1) <=>
           Fits(needle, text, p, j) /\ needle[j + 1] = text[p + 1]
<1>1. \A i \in 1 .. j : p + 1 - (j + 1) + i = p - j + i
  OBVIOUS
<1>2. p + 1 - (j + 1) + (j + 1) = p + 1 /\ j + 1 \in 1 .. (j + 1)
  OBVIOUS
<1>3. \A i \in 1 .. (j + 1) : i \in 1 .. j \/ i = j + 1
  OBVIOUS
<1>4. 1 .. j \subseteq 1 .. (j + 1)
  OBVIOUS
<1>5. ASSUME Fits(needle, text, p + 1, j + 1)
      PROVE  Fits(needle, text, p, j) /\ needle[j + 1] = text[p + 1]
  BY <1>1, <1>2, <1>4, <1>5 DEF Fits
<1>6. ASSUME Fits(needle, text, p, j), needle[j + 1] = text[p + 1],
             NEW i \in 1 .. (j + 1)
      PROVE  needle[i] = text[p + 1 - (j + 1) + i]
  <2>1. CASE i \in 1 .. j
    BY <1>1, <1>6, <2>1 DEF Fits
  <2>2. CASE i = j + 1
    BY <1>2, <1>6, <2>2
  <2>3. QED BY <1>3, <2>1, <2>2
<1>7. QED BY <1>5, <1>6 DEF Fits

\* The longest border of the first n.
IsFailure(needle, n, k) ==
  /\ k \in 0 .. (n - 1)
  /\ Fits(needle, needle, n, k)
  /\ \A j \in (k + 1) .. (n - 1) : ~Fits(needle, needle, n, j)

\* Where falling back from m ends.
Stops(needle, m, b, r) ==
  /\ r \in 0 .. m
  /\ Fits(needle, needle, m, r)
  /\ r = 0 \/ needle[r + 1] = b
  /\ \A j \in (r + 1) .. m : Fits(needle, needle, m, j) => needle[j + 1] # b

\* Through a table that is right so far, it stops at the longest border that
\* the next byte goes on with.
LEMMA FallbackStops ==
  ASSUME NEW needle, NEW table, NEW matched \in Nat, NEW b,
         \A n \in 1 .. matched : IsFailure(needle, n, table[n])
  PROVE  Stops(needle, matched, b, Fallback(needle, table, matched, b))
<1> DEFINE Falls(f, k) ==
             f = [m \in 0 .. k |->
                    IF m = 0 \/ needle[m + 1] = b THEN m ELSE f[table[m]]]
           bad == {k \in 0 .. matched : ~ \E f : Falls(f, k)}
<1>1. \A m \in 1 .. matched : table[m] \in 0 .. (m - 1)
  BY DEF IsFailure
<1>2. bad = {}
  <2>1. SUFFICES ASSUME bad # {} PROVE FALSE
    OBVIOUS
  <2>2. PICK k \in bad : \A j \in bad : k <= j
    <3>1. bad \in SUBSET Nat
      OBVIOUS
    <3> HIDE DEF bad
    <3>2. QED BY <2>1, <3>1, LeastNumber
  <2>3. k \in 0 .. matched /\ ~ \E f : Falls(f, k)
    OBVIOUS
  <2>4. CASE k = 0
    <3>1. Falls([m \in 0 .. 0 |-> m], 0)
      OBVIOUS
    <3>2. QED BY <2>3, <2>4, <3>1
  <2>5. CASE k # 0
    <3>1. k - 1 \in 0 .. matched /\ ~(k <= k - 1)
      BY <2>3, <2>5
    <3>2. PICK f : Falls(f, k - 1)
      BY <2>2, <3>1
    <3> DEFINE g == [m \in 0 .. k |->
                       IF m = 0 \/ needle[m + 1] = b THEN m ELSE f[table[m]]]
    <3>3. \A m \in 0 .. (k - 1) : g[m] = f[m]
      BY <2>3, <3>1, <3>2
    <3>4. ASSUME NEW m \in 0 .. k, m # 0 PROVE g[table[m]] = f[table[m]]
      <4>1. m \in 1 .. matched
        BY <2>3, <3>4
      <4>2. table[m] \in 0 .. (m - 1)
        BY <1>1, <4>1
      <4>3. table[m] \in 0 .. (k - 1)
        BY <2>3, <4>2
      <4> HIDE DEF g
      <4>4. QED BY <3>3, <4>3
    <3>5. Falls(g, k)
      BY <3>4
    <3>6. QED BY <2>3, <3>5
  <2>6. QED BY <2>4, <2>5
<1> DEFINE to == CHOOSE f : Falls(f, matched)
<1>3. Falls(to, matched)
  <2>1. PICK f : Falls(f, matched)
    <3>1. matched \in 0 .. matched
      OBVIOUS
    <3>2. QED BY <1>2, <3>1
  <2>2. QED BY <2>1
<1>4. Fallback(needle, table, matched, b) = to[matched]
  BY DEF Fallback
<1> HIDE DEF to, bad
<1> DEFINE wrong == {m \in 0 .. matched : ~Stops(needle, m, b, to[m])}
<1>5. wrong = {}
  <2>1. SUFFICES ASSUME wrong # {} PROVE FALSE
    OBVIOUS
  <2>2. PICK m \in wrong : \A n \in wrong : m <= n
    <3>1. wrong \in SUBSET Nat
      OBVIOUS
    <3> HIDE DEF wrong
    <3>2. QED BY <2>1, <3>1, LeastNumber
  <2>3. m \in 0 .. matched /\ ~Stops(needle, m, b, to[m])
    OBVIOUS
  <2>4. to[m] = IF m = 0 \/ needle[m + 1] = b THEN m ELSE to[table[m]]
    BY <1>3, <2>3
  <2>5. CASE m = 0 \/ needle[m + 1] = b
    <3>1. Fits(needle, needle, m, m)
      BY <2>3 DEF Fits
    <3>2. Stops(needle, m, b, m)
      BY <2>3, <2>5, <3>1 DEF Stops
    <3>3. QED BY <2>3, <2>4, <2>5, <3>2
  <2>6. CASE ~(m = 0 \/ needle[m + 1] = b)
    <3> DEFINE t == table[m]
    <3>1. m \in 1 .. matched /\ IsFailure(needle, m, t)
      BY <2>3, <2>6
    <3>2. t \in 0 .. (m - 1) /\ Fits(needle, needle, m, t)
      BY <3>1 DEF IsFailure
    <3> HIDE DEF t
    <3>3. Stops(needle, t, b, to[t])
      <4>1. t \in 0 .. matched /\ ~(m <= t)
        BY <2>3, <3>2
      <4>2. QED BY <2>2, <4>1
    <3>4. PICK r : r = to[t]
      OBVIOUS
    <3>5. r \in 0 .. t /\ Fits(needle, needle, t, r) /\ (r = 0 \/ needle[r + 1] = b)
      BY <3>3, <3>4 DEF Stops
    <3>6. Fits(needle, needle, m, r)
      BY <2>3, <3>2, <3>5, ShorterFits
    <3>7. ASSUME NEW j \in (r + 1) .. m, Fits(needle, needle, m, j)
          PROVE  needle[j + 1] # b
      <4>1. CASE j = m
        BY <2>6, <4>1
      <4>2. CASE j # m
        <5>1. j \in 0 .. (m - 1)
          BY <2>3, <3>2, <3>5, <4>2
        <5>2. j <= t
          BY <3>1, <3>2, <3>7, <5>1 DEF IsFailure
        <5>3. j \in 0 .. t /\ j \in (r + 1) .. t
          BY <3>2, <3>5, <5>1, <5>2
        <5>4. Fits(needle, needle, t, j)
          BY <2>3, <3>2, <3>7, <5>3, ShorterFits
        <5>5. QED BY <3>3, <3>4, <5>3, <5>4 DEF Stops
      <4>3. QED BY <4>1, <4>2
    <3>8. r \in 0 .. m
      BY <2>3, <3>2, <3>5
    <3>9. Stops(needle, m, b, r)
      BY <3>5, <3>6, <3>7, <3>8 DEF Stops
    <3>10. QED BY <2>3, <2>4, <2>6, <3>4, <3>9 DEF t
  <2>7. QED BY <2>5, <2>6
<1>6. matched \in 0 .. matched
  OBVIOUS
<1>7. QED BY <1>4, <1>5, <1>6

\* The longest prefix that ends at b behind the first m.
Grows(needle, m, b, r) ==
  /\ r \in 0 .. (m + 1)
  /\ r > 0 => Fits(needle, needle, m, r - 1) /\ needle[r] = b
  /\ \A j \in (r + 1) .. (m + 1) : ~(Fits(needle, needle, m, j - 1) /\ needle[j] = b)

LEMMA MatchingGrows ==
  ASSUME NEW needle, NEW table, NEW matched \in Nat, NEW b,
         \A n \in 1 .. matched : IsFailure(needle, n, table[n])
  PROVE  Grows(needle, matched, b, Matching(needle, table, matched, b))
<1>1. PICK m : m = Fallback(needle, table, matched, b)
  OBVIOUS
<1>2. Stops(needle, matched, b, m)
  BY <1>1, FallbackStops
<1>3. m \in 0 .. matched
  BY <1>2 DEF Stops
<1>4. ASSUME NEW j \in (m + 2) .. (matched + 1)
      PROVE  ~(Fits(needle, needle, matched, j - 1) /\ needle[j] = b)
  <2>1. j - 1 \in (m + 1) .. matched /\ (j - 1) + 1 = j
    BY <1>3
  <2>2. QED BY <1>2, <2>1 DEF Stops
<1>5. CASE needle[m + 1] = b
  <2>1. Matching(needle, table, matched, b) = m + 1
    BY <1>1, <1>5 DEF Matching
  <2>2. m + 1 \in 0 .. (matched + 1) /\ (m + 1) - 1 = m /\ (m + 1) + 1 = m + 2
    BY <1>3
  <2>3. Fits(needle, needle, matched, m)
    BY <1>2 DEF Stops
  <2>4. QED BY <1>4, <1>5, <2>1, <2>2, <2>3 DEF Grows
<1>6. CASE needle[m + 1] # b
  <2>1. Matching(needle, table, matched, b) = 0 /\ m = 0
    BY <1>1, <1>2, <1>6 DEF Matching, Stops
  <2>2. ASSUME NEW j \in (0 + 1) .. (matched + 1)
        PROVE  ~(Fits(needle, needle, matched, j - 1) /\ needle[j] = b)
    <3>1. j = 1 \/ j \in (m + 2) .. (matched + 1)
      BY <2>1
    <3>2. QED BY <1>4, <1>6, <2>1, <3>1
  <2>3. 0 \in 0 .. (matched + 1)
    OBVIOUS
  <2>4. QED BY <2>1, <2>2, <2>3 DEF Grows
<1>7. QED BY <1>5, <1>6

LEMMA GrowsAlike ==
  ASSUME NEW needle, NEW m \in Nat, NEW b, NEW r, NEW s,
         Grows(needle, m, b, r), Grows(needle, m, b, s)
  PROVE  r = s
<1>1. r \in 0 .. (m + 1) /\ s \in 0 .. (m + 1)
  BY DEF Grows
<1>2. CASE r < s
  <2>1. s \in (r + 1) .. (m + 1) /\ s > 0
    BY <1>1, <1>2
  <2>2. QED BY <2>1 DEF Grows
<1>3. CASE s < r
  <2>1. r \in (s + 1) .. (m + 1) /\ r > 0
    BY <1>1, <1>3
  <2>2. QED BY <2>1 DEF Grows
<1>4. QED BY <1>1, <1>2, <1>3

\* The border of one more is a border of the border before it, and one more.
LEMMA NextFailure ==
  ASSUME NEW needle, NEW table, NEW n \in Nat, n > 1,
         \A k \in 1 .. (n - 1) : IsFailure(needle, k, table[k])
  PROVE  /\ \A k \in 1 .. table[n - 1] : IsFailure(needle, k, table[k])
         /\ table[n - 1] \in Nat
         /\ IsFailure(needle, n, Matching(needle, table, table[n - 1], needle[n]))
<1> DEFINE f == table[n - 1]
           r == Matching(needle, table, f, needle[n])
<1>1. IsFailure(needle, n - 1, f)
  OBVIOUS
<1>2. f \in 0 .. (n - 2) /\ Fits(needle, needle, n - 1, f)
      /\ \A j \in (f + 1) .. (n - 2) : ~Fits(needle, needle, n - 1, j)
  <2>1. (n - 1) - 1 = n - 2
    OBVIOUS
  <2>2. QED BY <1>1, <2>1 DEF IsFailure
<1> HIDE DEF f
<1>3. \A k \in 1 .. f : IsFailure(needle, k, table[k])
  BY <1>2
<1>4. Grows(needle, f, needle[n], r)
  BY <1>2, <1>3, MatchingGrows
<1> HIDE DEF r
<1>5. r \in 0 .. (f + 1)
  BY <1>4 DEF Grows
<1>6. r \in 0 .. (n - 1)
  BY <1>2, <1>5
<1>7. \A j \in 1 .. (n - 1) :
        Fits(needle, needle, n, j) <=>
          Fits(needle, needle, n - 1, j - 1) /\ needle[j] = needle[n]
  <2>1. ASSUME NEW j \in 1 .. (n - 1)
        PROVE  Fits(needle, needle, n, j) <=>
                 Fits(needle, needle, n - 1, j - 1) /\ needle[j] = needle[n]
    <3>1. n - 1 \in Nat /\ j - 1 \in Nat /\ (n - 1) + 1 = n /\ (j - 1) + 1 = j
      OBVIOUS
    <3>2. Fits(needle, needle, (n - 1) + 1, (j - 1) + 1) <=>
            Fits(needle, needle, n - 1, j - 1) /\ needle[(j - 1) + 1] = needle[(n - 1) + 1]
      <4> HIDE DEF r
      <4>1. \A p \in Nat, i \in Nat : Fits(needle, needle, p + 1, i + 1) <=>
              Fits(needle, needle, p, i) /\ needle[i + 1] = needle[p + 1]
        BY OneMoreFits
      <4>2. QED BY <3>1, <4>1
    <3>3. QED BY <3>1, <3>2
  <2>2. QED BY <2>1
<1>8. Fits(needle, needle, n, r)
  <2>1. CASE r = 0
    BY <2>1 DEF Fits
  <2>2. CASE r > 0
    <3>1. Fits(needle, needle, f, r - 1) /\ needle[r] = needle[n]
      BY <1>4, <2>2 DEF Grows
    <3>2. r - 1 \in 0 .. f /\ n - 1 \in Nat /\ f \in Nat
      BY <1>2, <1>5, <2>2
    <3>3. Fits(needle, needle, n - 1, r - 1)
      BY <1>2, <3>1, <3>2, ShorterFits
    <3>4. r \in 1 .. (n - 1)
      BY <1>6, <2>2
    <3>5. QED BY <1>7, <3>1, <3>3, <3>4
  <2>3. QED BY <1>5, <2>1, <2>2
<1>9. ASSUME NEW j \in (r + 1) .. (n - 1), Fits(needle, needle, n, j) PROVE FALSE
  <2>1. j \in 1 .. (n - 1)
    BY <1>6
  <2>2. Fits(needle, needle, n - 1, j - 1) /\ needle[j] = needle[n]
    BY <1>7, <1>9, <2>1
  <2>3. j - 1 <= f
    <3>1. SUFFICES ASSUME ~(j - 1 <= f) PROVE FALSE
      OBVIOUS
    <3>2. j - 1 \in (f + 1) .. (n - 2)
      BY <1>2, <2>1, <3>1
    <3>3. QED BY <1>2, <2>2, <3>2
  <2>4. j - 1 \in 0 .. f /\ n - 1 \in Nat /\ f \in Nat
    BY <1>2, <2>1, <2>3
  <2>5. Fits(needle, needle, f, j - 1)
    BY <1>2, <2>2, <2>4, ShorterFits
  <2>6. j \in (r + 1) .. (f + 1)
    BY <1>2, <1>5, <2>1, <2>3
  <2>7. QED BY <1>4, <2>2, <2>5, <2>6 DEF Grows
<1>10. IsFailure(needle, n, r)
  BY <1>6, <1>8, <1>9 DEF IsFailure
<1>11. QED BY <1>2, <1>3, <1>10 DEF f, r

\* The loop that makes the table, and falls back through the part it has made,
\* makes the right one: every place names the longest border that ends there, for
\* every needle.
THEOREM FailureIsRight ==
  ASSUME NEW needle, NEW L \in Nat, Len(needle) = L
  PROVE  \A n \in 1 .. L : IsFailure(needle, n, Failure(needle)[n])
<1> DEFINE Tables(f, k) ==
             f = [n \in 1 .. k |->
                    IF n = 1 THEN 0 ELSE Matching(needle, f, f[n - 1], needle[n])]
           Right(f, k) == \A n \in 1 .. k : IsFailure(needle, n, f[n])
           bad == {k \in 0 .. L : ~ \E f : Tables(f, k) /\ Right(f, k)}
<1>1. IsFailure(needle, 1, 0)
  BY DEF IsFailure, Fits
<1>2. ASSUME NEW f, NEW k \in Nat, Right(f, k)
      PROVE  /\ \A n \in 2 .. (k + 1) :
                  /\ f[n - 1] \in Nat /\ f[n - 1] <= k
                  /\ IsFailure(needle, n, Matching(needle, f, f[n - 1], needle[n]))
  <2>1. ASSUME NEW n \in 2 .. (k + 1)
        PROVE  /\ f[n - 1] \in Nat /\ f[n - 1] <= k
               /\ IsFailure(needle, n, Matching(needle, f, f[n - 1], needle[n]))
    <3>1. n \in Nat /\ n > 1 /\ n - 1 \in 1 .. k
      OBVIOUS
    <3>2. \A j \in 1 .. (n - 1) : IsFailure(needle, j, f[j])
      BY <1>2
    <3>3. IsFailure(needle, n, Matching(needle, f, f[n - 1], needle[n]))
      BY <3>1, <3>2, NextFailure
    <3>4. f[n - 1] \in 0 .. ((n - 1) - 1)
      BY <1>2, <3>1 DEF IsFailure
    <3>5. QED BY <3>1, <3>3, <3>4
  <2>2. QED BY <2>1
<1>3. bad = {}
  <2>1. SUFFICES ASSUME bad # {} PROVE FALSE
    OBVIOUS
  <2>2. PICK k \in bad : \A j \in bad : k <= j
    <3>1. bad \in SUBSET Nat
      OBVIOUS
    <3> HIDE DEF bad
    <3>2. QED BY <2>1, <3>1, LeastNumber
  <2>3. k \in 0 .. L /\ ~ \E f : Tables(f, k) /\ Right(f, k)
    OBVIOUS
  <2>4. CASE k = 0
    <3>1. Tables([n \in 1 .. 0 |-> 0], 0) /\ Right([n \in 1 .. 0 |-> 0], 0)
      OBVIOUS
    <3>2. QED BY <2>3, <2>4, <3>1
  <2>5. CASE k # 0
    <3>1. k - 1 \in 0 .. L /\ ~(k <= k - 1)
      BY <2>3, <2>5
    <3>2. PICK f : Tables(f, k - 1) /\ Right(f, k - 1)
      BY <2>2, <3>1
    <3> DEFINE g == [n \in 1 .. k |->
                 IF n = 1 THEN 0 ELSE Matching(needle, f, f[n - 1], needle[n])]
    <3>3. \A n \in 1 .. (k - 1) : g[n] = f[n]
      BY <2>3, <3>1, <3>2
    <3>4. \A n \in 2 .. k :
            /\ f[n - 1] \in Nat /\ f[n - 1] <= k - 1
            /\ IsFailure(needle, n, Matching(needle, f, f[n - 1], needle[n]))
      <4>1. k - 1 \in Nat /\ (k - 1) + 1 = k
        BY <2>3, <3>1
      <4>2. Right(f, k - 1)
        BY <3>2
      <4> HIDE DEF Right
      <4>3. QED BY <1>2, <4>1, <4>2
    <3>5. Right(g, k)
      <4>1. ASSUME NEW n \in 1 .. k PROVE IsFailure(needle, n, g[n])
        <5>1. CASE n = 1
          BY <1>1, <5>1
        <5>2. CASE n # 1
          <6>1. n \in 2 .. k
            BY <2>3, <5>2
          <6>2. g[n] = Matching(needle, f, f[n - 1], needle[n])
            BY <5>2
          <6> HIDE DEF g
          <6>3. QED BY <3>4, <6>1, <6>2
        <5>3. QED BY <5>1, <5>2
      <4>2. QED BY <4>1
    <3> HIDE DEF Right
    <3>6. ASSUME NEW n \in 1 .. k, n # 1
          PROVE  Matching(needle, f, f[n - 1], needle[n])
                   = Matching(needle, g, g[n - 1], needle[n])
      <4>1. n \in 2 .. k /\ n - 1 \in 1 .. (k - 1)
        BY <2>3, <3>6
      <4>2. PICK m : m = f[n - 1]
        OBVIOUS
      <4>3. m \in Nat /\ m <= k - 1
        BY <3>4, <4>1, <4>2
      <4>4. g[n - 1] = m
        <5> HIDE DEF g
        <5>1. QED BY <3>3, <4>1, <4>2
      <4>5. \A j \in 1 .. m : IsFailure(needle, j, f[j])
        BY <2>3, <3>2, <4>3 DEF Right
      <4>6. \A j \in 1 .. m : IsFailure(needle, j, g[j])
        <5> HIDE DEF g
        <5>1. QED BY <2>3, <3>5, <4>3 DEF Right
      <4> HIDE DEF g
      <4>7. Grows(needle, m, needle[n], Matching(needle, f, m, needle[n]))
        BY <4>3, <4>5, MatchingGrows
      <4>8. Grows(needle, m, needle[n], Matching(needle, g, m, needle[n]))
        BY <4>3, <4>6, MatchingGrows
      <4>9. QED BY <4>2, <4>3, <4>4, <4>7, <4>8, GrowsAlike
    <3>7. Tables(g, k)
      BY <3>6
    <3> HIDE DEF g
    <3>8. QED BY <2>3, <3>5, <3>7
  <2>6. QED BY <2>4, <2>5
<1> DEFINE table == CHOOSE f : Tables(f, L)
<1>4. Tables(table, L)
  <2>1. PICK f : Tables(f, L)
    <3>1. L \in 0 .. L
      OBVIOUS
    <3>2. QED BY <1>3, <3>1
  <2>2. QED BY <2>1
<1>5. Failure(needle) = table
  BY DEF Failure
<1> HIDE DEF table, bad
<1> DEFINE wrong == {n \in 1 .. L : ~IsFailure(needle, n, table[n])}
<1>6. wrong = {}
  <2>1. SUFFICES ASSUME wrong # {} PROVE FALSE
    OBVIOUS
  <2>2. PICK n \in wrong : \A m \in wrong : n <= m
    <3>1. wrong \in SUBSET Nat
      OBVIOUS
    <3> HIDE DEF wrong
    <3>2. QED BY <2>1, <3>1, LeastNumber
  <2>3. n \in 1 .. L /\ ~IsFailure(needle, n, table[n])
    OBVIOUS
  <2>4. table[n] = IF n = 1 THEN 0
                   ELSE Matching(needle, table, table[n - 1], needle[n])
    BY <1>4, <2>3
  <2>5. CASE n = 1
    BY <1>1, <2>3, <2>4, <2>5
  <2>6. CASE n # 1
    <3>1. n \in 2 .. ((n - 1) + 1) /\ n - 1 \in Nat
      BY <2>3, <2>6
    <3>2. Right(table, n - 1)
      <4>1. ASSUME NEW j \in 1 .. (n - 1) PROVE IsFailure(needle, j, table[j])
        <5>1. j \in 1 .. L /\ ~(n <= j)
          BY <2>3
        <5>2. QED BY <2>2, <5>1
      <4>2. QED BY <4>1
    <3> HIDE DEF Right
    <3>3. QED BY <1>2, <2>3, <2>4, <2>6, <3>1, <3>2
  <2>7. QED BY <2>5, <2>6
<1>7. QED BY <1>5, <1>6

-----------------------------------------------------------------------------
(* The cursor.                                                             *)

\* The longest proper prefix of the needle that ends at p, and begins no sooner
\* than the text does that may match.
Follows(needle, text, low, p, m) ==
  /\ m \in 0 .. (Len(needle) - 1)
  /\ m <= p - low
  /\ Fits(needle, text, p, m)
  /\ \A j \in (m + 1) .. (Len(needle) - 1) : j <= p - low => ~Fits(needle, text, p, j)

EndsAt(needle, text, low, p) ==
  Len(needle) <= p - low /\ Fits(needle, text, p, Len(needle))

LEMMA ByteFollows ==
  ASSUME NEW needle, NEW L \in Nat, L > 0, Len(needle) = L,
         NEW text, NEW low \in Nat, NEW p \in Nat, low <= p,
         NEW m, Follows(needle, text, low, p, m),
         NEW r, r = Matching(needle, Failure(needle), m, text[p + 1])
  PROVE  /\ r \in 0 .. L
         /\ r = L <=> EndsAt(needle, text, low, p + 1)
         /\ Follows(needle, text, low, p + 1, Carried(needle, Failure(needle), r))
<1> DEFINE b == text[p + 1]
           table == Failure(needle)
<1>1. m \in 0 .. (L - 1) /\ m <= p - low /\ Fits(needle, text, p, m)
      /\ \A j \in (m + 1) .. (L - 1) : j <= p - low => ~Fits(needle, text, p, j)
  BY DEF Follows
<1>2. \A n \in 1 .. L : IsFailure(needle, n, table[n])
  BY FailureIsRight
<1> HIDE DEF table
<1>3. Grows(needle, m, b, r)
  <2>1. m \in Nat /\ \A n \in 1 .. m : IsFailure(needle, n, table[n])
    BY <1>1, <1>2
  <2>2. r = Matching(needle, table, m, b)
    BY DEF table
  <2> HIDE DEF b
  <2>3. QED BY <2>1, <2>2, MatchingGrows
<1>4. r \in 0 .. L /\ r <= p + 1 - low /\ r <= m + 1
  BY <1>1, <1>3 DEF Grows
<1>5. ASSUME NEW j \in 1 .. L
      PROVE  Fits(needle, text, p + 1, j) <=> Fits(needle, text, p, j - 1) /\ needle[j] = b
  <2>1. j - 1 \in Nat /\ (j - 1) + 1 = j
    OBVIOUS
  <2>2. \A x \in Nat, i \in Nat : Fits(needle, text, x + 1, i + 1) <=>
          Fits(needle, text, x, i) /\ needle[i + 1] = text[x + 1]
    BY OneMoreFits
  <2>3. Fits(needle, text, p + 1, (j - 1) + 1) <=>
          Fits(needle, text, p, j - 1) /\ needle[(j - 1) + 1] = b
    BY <2>1, <2>2
  <2>4. QED BY <2>1, <2>3
<1>6. Fits(needle, text, p + 1, r)
  <2>1. CASE r = 0
    BY <2>1 DEF Fits
  <2>2. CASE r > 0
    <3>1. Fits(needle, needle, m, r - 1) /\ needle[r] = b
      BY <1>3, <2>2 DEF Grows
    <3>2. r - 1 \in 0 .. m /\ m \in Nat /\ r \in 1 .. L
      BY <1>1, <1>4, <2>2
    <3>3. Fits(needle, text, p, r - 1)
      BY <1>1, <3>1, <3>2, ShorterFits
    <3>4. QED BY <1>5, <3>1, <3>2, <3>3
  <2>3. QED BY <1>4, <2>1, <2>2
<1>7. ASSUME NEW j \in (r + 1) .. L, j <= p + 1 - low, Fits(needle, text, p + 1, j)
      PROVE  FALSE
  <2>1. j \in 1 .. L
    BY <1>4
  <2>2. Fits(needle, text, p, j - 1) /\ needle[j] = b
    BY <1>5, <1>7, <2>1
  <2>3. j - 1 <= m
    <3>1. SUFFICES ASSUME ~(j - 1 <= m) PROVE FALSE
      OBVIOUS
    <3>2. j - 1 \in (m + 1) .. (L - 1) /\ j - 1 <= p - low
      BY <1>1, <1>7, <2>1, <3>1
    <3>3. QED BY <1>1, <2>2, <3>2
  <2>4. j - 1 \in 0 .. m /\ m \in Nat
    BY <1>1, <2>1, <2>3
  <2>5. Fits(needle, needle, m, j - 1)
    BY <1>1, <2>2, <2>4, ShorterFits
  <2>6. j \in (r + 1) .. (m + 1)
    BY <1>1, <1>4, <2>1, <2>3
  <2>7. QED BY <1>3, <2>2, <2>5, <2>6 DEF Grows
<1>8. r = L <=> EndsAt(needle, text, low, p + 1)
  <2>1. CASE r = L
    BY <1>4, <1>6, <2>1 DEF EndsAt
  <2>2. CASE r # L
    <3>1. L \in (r + 1) .. L
      BY <1>4, <2>2
    <3>2. QED BY <1>7, <2>2, <3>1 DEF EndsAt
  <2>3. QED BY <2>1, <2>2
<1>9. CASE r = L
  <2>1. PICK k : k = table[L]
    OBVIOUS
  <2>2. k \in 0 .. (L - 1) /\ Fits(needle, needle, L, k)
        /\ \A j \in (k + 1) .. (L - 1) : ~Fits(needle, needle, L, j)
    BY <1>2, <2>1 DEF IsFailure
  <2>3. Carried(needle, table, r) = k
    BY <1>9, <2>1 DEF Carried
  <2>4. Fits(needle, text, p + 1, L) /\ p + 1 \in Nat
    BY <1>6, <1>9
  <2>5. \A j \in 0 .. L : Fits(needle, text, p + 1, j) <=> Fits(needle, needle, L, j)
    BY <2>4, ShorterFits
  <2>6. k \in 0 .. L /\ k <= p + 1 - low
    BY <1>4, <1>9, <2>2
  <2>7. \A j \in (k + 1) .. (L - 1) : j \in 0 .. L
    BY <2>2
  <2>8. Follows(needle, text, low, p + 1, k)
    BY <2>2, <2>5, <2>6, <2>7 DEF Follows
  <2>9. QED BY <1>4, <1>8, <2>3, <2>8 DEF table
<1>10. CASE r # L
  <2>1. Carried(needle, table, r) = r
    BY <1>10 DEF Carried
  <2>2. \A j \in (r + 1) .. (L - 1) : j \in (r + 1) .. L
    BY <1>4
  <2>3. r \in 0 .. (L - 1)
    BY <1>4, <1>10
  <2>4. Follows(needle, text, low, p + 1, r)
    BY <1>4, <1>6, <1>7, <2>2, <2>3 DEF Follows
  <2>5. QED BY <1>4, <1>8, <2>1, <2>4 DEF table
<1>11. QED BY <1>9, <1>10

Batches == [cursor : [matched : Nat, scanned : Nat], consumed : Nat, hits : Seq(Nat)]

\* A batch lists the hits behind p, as they are counted from the first of E.
Listed(h, E, p, q) ==
  /\ h \in Seq(Nat)
  /\ Len(h) = Upto(E, q) - Upto(E, p)
  /\ \A k \in DOMAIN h : h[k] \in E /\ p < h[k] /\ h[k] <= q
                         /\ Upto(E, h[k]) = Upto(E, p) + k

LEMMA OneMoreListed ==
  ASSUME NEW E \in SUBSET Nat, IsFiniteSet(E), NEW p \in Nat, NEW q \in Nat, p <= q,
         NEW h, Listed(h, E, p, q)
  PROVE  Listed(IF q + 1 \in E THEN Append(h, q + 1) ELSE h, E, p, q + 1)
<1>1. h \in Seq(Nat) /\ Len(h) \in Nat /\ DOMAIN h = 1 .. Len(h)
  BY LenProperties DEF Listed
<1>2. Upto(E, p) \in Nat /\ Upto(E, q) \in Nat
  BY UptoStep
<1>3. Upto(E, q + 1) = Upto(E, q) + (IF q + 1 \in E THEN 1 ELSE 0)
  <2>1. q + 1 \in Nat /\ q + 1 > 0 /\ (q + 1) - 1 = q
    OBVIOUS
  <2>2. \A x \in Nat : x > 0 => Upto(E, x) = Upto(E, x - 1) + (IF x \in E THEN 1 ELSE 0)
    BY UptoStep
  <2>3. Upto(E, q + 1) = Upto(E, (q + 1) - 1) + (IF q + 1 \in E THEN 1 ELSE 0)
    BY <2>1, <2>2
  <2>4. QED BY <2>1, <2>3
<1>4. CASE q + 1 \notin E
  BY <1>1, <1>2, <1>3, <1>4 DEF Listed
<1>5. CASE q + 1 \in E
  <2>1. PICK g : g = Append(h, q + 1)
    OBVIOUS
  <2>2. g \in Seq(Nat) /\ Len(g) = Len(h) + 1 /\ g[Len(h) + 1] = q + 1
        /\ \A k \in 1 .. Len(h) : g[k] = h[k]
    BY <1>1, <2>1, AppendProperties
  <2>3. Len(g) = Upto(E, q + 1) - Upto(E, p)
    BY <1>1, <1>2, <1>3, <1>5, <2>2 DEF Listed
  <2>4. ASSUME NEW k \in DOMAIN g
        PROVE  g[k] \in E /\ p < g[k] /\ g[k] <= q + 1 /\ Upto(E, g[k]) = Upto(E, p) + k
    <3>1. k \in 1 .. (Len(h) + 1)
      BY <2>2, LenProperties
    <3>2. CASE k = Len(h) + 1
      <4>1. g[k] = q + 1
        BY <2>2, <3>2
      <4>2. k = Len(g)
        BY <2>2, <3>2
      <4>3. Upto(E, q + 1) = Upto(E, p) + k
        BY <1>1, <1>2, <1>3, <1>5, <2>2, <2>3, <4>2
      <4>4. p < q + 1
        OBVIOUS
      <4>5. QED BY <1>5, <4>1, <4>3, <4>4
    <3>3. CASE k # Len(h) + 1
      <4>1. k \in DOMAIN h
        BY <1>1, <3>1, <3>3
      <4>2. g[k] = h[k] /\ h[k] \in E /\ p < h[k] /\ h[k] <= q
            /\ Upto(E, h[k]) = Upto(E, p) + k
        BY <1>1, <2>2, <4>1 DEF Listed
      <4>3. h[k] \in Nat
        BY <4>2
      <4>4. QED BY <4>2, <4>3
    <3>4. QED BY <3>2, <3>3
  <2>5. QED BY <1>5, <2>1, <2>2, <2>3, <2>4 DEF Listed
<1>6. QED BY <1>4, <1>5

\* A batch that took n bytes from p on, or stopped before at its last hit.
GoodBatch(s, needle, text, low, p, E, n, limit) ==
  /\ s \in Batches
  /\ s.consumed \in 0 .. n
  /\ s.cursor.scanned = p + s.consumed
  /\ Follows(needle, text, low, p + s.consumed, s.cursor.matched)
  /\ Listed(s.hits, E, p, p + s.consumed)
  /\ Len(s.hits) <= limit
  /\ s.consumed < n => Len(s.hits) = limit

LEMMA BytesTaken ==
  ASSUME NEW needle, Len(needle) \in Nat, Len(needle) > 0,
         NEW text, NEW low \in Nat, NEW p \in Nat, low <= p,
         NEW E \in SUBSET Nat, IsFiniteSet(E), NEW n \in Nat, NEW limit \in Nat,
         p + n + 1 \in E <=> EndsAt(needle, text, low, p + n + 1),
         NEW s, GoodBatch(s, needle, text, low, p, E, n, limit)
  PROVE  GoodBatch(StepByte(needle, Failure(needle), s, text[p + n + 1], limit),
                   needle, text, low, p, E, n + 1, limit)
<1>1. s \in Batches /\ s.hits \in Seq(Nat) /\ Len(s.hits) \in Nat
      /\ s.consumed \in 0 .. n /\ Len(s.hits) <= limit
  BY LenProperties DEF GoodBatch, Batches
<1>2. CASE Len(s.hits) = limit
  <2>1. StepByte(needle, Failure(needle), s, text[p + n + 1], limit) = s
    BY <1>2 DEF StepByte
  <2>2. s.consumed \in 0 .. (n + 1)
    BY <1>1
  <2>3. QED BY <1>2, <2>1, <2>2 DEF GoodBatch
<1>3. CASE Len(s.hits) # limit
  <2>1. s.consumed = n /\ s.cursor.scanned = p + n
        /\ Follows(needle, text, low, p + n, s.cursor.matched)
        /\ Listed(s.hits, E, p, p + n)
    BY <1>1, <1>3 DEF GoodBatch
  <2>2. PICK r : r = Matching(needle, Failure(needle), s.cursor.matched, text[p + n + 1])
    OBVIOUS
  <2>3. PICK q : q = p + n
    OBVIOUS
  <2>4. q \in Nat /\ low <= q /\ p <= q /\ q + 1 = p + n + 1 /\ q + 1 = p + (n + 1)
    BY <2>3
  <2>5. /\ r \in 0 .. Len(needle)
        /\ r = Len(needle) <=> EndsAt(needle, text, low, q + 1)
        /\ Follows(needle, text, low, q + 1, Carried(needle, Failure(needle), r))
    <3>1. Follows(needle, text, low, q, s.cursor.matched)
          /\ r = Matching(needle, Failure(needle), s.cursor.matched, text[q + 1])
      BY <2>1, <2>2, <2>3, <2>4
    <3>2. QED BY <2>4, <3>1, ByteFollows
  <2>6. Listed(IF q + 1 \in E THEN Append(s.hits, q + 1) ELSE s.hits, E, p, q + 1)
    BY <2>1, <2>3, <2>4, OneMoreListed
  <2>7. PICK h : h = IF r = Len(needle) THEN Append(s.hits, q + 1) ELSE s.hits
    OBVIOUS
  <2>8. Listed(h, E, p, q + 1)
    BY <2>4, <2>5, <2>6, <2>7
  <2>9. PICK m : m = Carried(needle, Failure(needle), r)
    OBVIOUS
  <2>10. PICK t : t = [cursor |-> [matched |-> m, scanned |-> q + 1],
                       consumed |-> n + 1, hits |-> h]
    OBVIOUS
  <2>11. StepByte(needle, Failure(needle), s, text[p + n + 1], limit) = t
    <3>1. s.cursor.scanned + 1 = q + 1 /\ s.consumed + 1 = n + 1
      BY <2>1, <2>3, <2>4
    <3>2. QED BY <1>3, <2>2, <2>7, <2>9, <2>10, <3>1, Zenon DEF StepByte
  <2>12. Len(h) <= limit
    <3>1. Len(h) <= Len(s.hits) + 1
      <4>1. Len(Append(s.hits, q + 1)) = Len(s.hits) + 1
        BY <1>1, <2>4, AppendProperties
      <4>2. QED BY <1>1, <2>7, <4>1
    <3>2. Len(h) \in Nat
      BY <2>8, LenProperties DEF Listed
    <3>3. QED BY <1>1, <1>3, <3>1, <3>2
  <2>13. Follows(needle, text, low, q + 1, m) /\ m \in Nat
    BY <2>5, <2>9 DEF Follows
  <2>14. t \in Batches
    BY <2>4, <2>8, <2>10, <2>13 DEF Batches, Listed
  <2>15. t.consumed = n + 1 /\ t.cursor.scanned = q + 1 /\ t.cursor.matched = m /\ t.hits = h
    BY <2>10
  <2>16. n + 1 \in 0 .. (n + 1) /\ ~(n + 1 < n + 1)
    OBVIOUS
  <2>17. GoodBatch(t, needle, text, low, p, E, n + 1, limit)
    BY <2>4, <2>8, <2>12, <2>13, <2>14, <2>15, <2>16 DEF GoodBatch
  <2>18. QED BY <2>11, <2>17
<1>4. QED BY <1>2, <1>3

\* A cursor that stands where the longest prefix of the needle ends is stopped by a
\* limit of bytes or of hits in such a place, has consumed nothing behind it, and
\* reports the ends there are up to it and no other.
THEOREM CursorSteps ==
  ASSUME NEW needle, Len(needle) \in Nat, Len(needle) > 0,
         NEW text, NEW low \in Nat, NEW p \in Nat, low <= p,
         NEW bytes, Len(bytes) \in Nat,
         \A n \in 1 .. Len(bytes) : bytes[n] = text[p + n],
         NEW E \in SUBSET Nat, IsFiniteSet(E),
         \A n \in 1 .. Len(bytes) : p + n \in E <=> EndsAt(needle, text, low, p + n),
         NEW m, Follows(needle, text, low, p, m),
         NEW work \in Nat, NEW limit \in Nat
  PROVE  GoodBatch(CursorStep(needle, [matched |-> m, scanned |-> p], bytes, work, limit),
                   needle, text, low, p, E,
                   IF work < Len(bytes) THEN work ELSE Len(bytes), limit)
<1> DEFINE size == IF work < Len(bytes) THEN work ELSE Len(bytes)
           table == Failure(needle)
           cursor == [matched |-> m, scanned |-> p]
           first == [cursor |-> cursor, consumed |-> 0, hits |-> <<>>]
           Good(n) == {s \in Batches : GoodBatch(s, needle, text, low, p, E, n, limit)}
           good == [n \in 0 .. size |-> Good(n)]
           step == [n \in 1 .. size |-> [s \in good[n - 1] |->
                      StepByte(needle, table, s, bytes[n], limit)]]
           Steps(f) == f = [n \in 0 .. size |->
             IF n = 0 THEN first ELSE StepByte(needle, table, f[n - 1], bytes[n], limit)]
<1>1. size \in Nat /\ \A n \in 1 .. size : n \in 1 .. Len(bytes)
  OBVIOUS
<1>2. first \in Good(0)
  <2>1. m \in Nat
    BY DEF Follows
  <2>2. first \in Batches
    BY <2>1 DEF Batches
  <2>3. Listed(<<>>, E, p, p)
    <3>1. Upto(E, p) \in Nat
      BY UptoStep
    <3>2. <<>> \in Seq(Nat) /\ Len(<<>>) = 0
      OBVIOUS
    <3>3. DOMAIN <<>> = {}
      OBVIOUS
    <3>4. QED BY <3>1, <3>2, <3>3 DEF Listed
  <2>4. p + 0 = p /\ Len(<<>>) = 0
    OBVIOUS
  <2>5. QED BY <2>2, <2>3, <2>4 DEF GoodBatch
<1>3. ASSUME NEW n \in 1 .. size, NEW s \in Good(n - 1)
      PROVE  StepByte(needle, table, s, bytes[n], limit) \in Good(n)
  <2>1. n - 1 \in Nat /\ p + (n - 1) + 1 = p + n /\ (n - 1) + 1 = n /\ n \in 1 .. Len(bytes)
    BY <1>1
  <2>2. PICK k : k = n - 1
    OBVIOUS
  <2>3. k \in Nat /\ p + k + 1 = p + n /\ k + 1 = n
    BY <2>1, <2>2
  <2>4. GoodBatch(s, needle, text, low, p, E, k, limit)
    BY <2>2
  <2>5. p + k + 1 \in E <=> EndsAt(needle, text, low, p + k + 1)
    BY <2>1, <2>3
  <2>6. bytes[n] = text[p + k + 1]
    BY <2>1, <2>3
  <2>7. GoodBatch(StepByte(needle, table, s, text[p + k + 1], limit),
                  needle, text, low, p, E, k + 1, limit)
    BY <2>3, <2>4, <2>5, BytesTaken
  <2>8. GoodBatch(StepByte(needle, table, s, bytes[n], limit),
                  needle, text, low, p, E, n, limit)
    BY <2>3, <2>6, <2>7
  <2>9. QED BY <2>8 DEF GoodBatch
<1> HIDE DEF Good, size, first, table
<1>4. first \in good[0]
  BY <1>1, <1>2
<1>5. \A n \in 1 .. size : n - 1 \in 0 .. size /\ n \in 0 .. size
  BY <1>1
<1>6. \A n \in 1 .. size : good[n - 1] = Good(n - 1) /\ good[n] = Good(n)
  BY <1>5
<1>7. \A n \in 1 .. size : step[n] \in [good[n - 1] -> good[n]]
  <2>1. ASSUME NEW n \in 1 .. size PROVE step[n] \in [good[n - 1] -> good[n]]
    <3>1. \A s \in good[n - 1] : StepByte(needle, table, s, bytes[n], limit) \in good[n]
      BY <1>3, <1>6
    <3>2. QED BY <3>1
  <2>2. QED BY <2>1
<1>8. PICK f : IsRun(f, size, first, step) /\ \A n \in 0 .. size : f[n] \in good[n]
  <2> HIDE DEF good, step
  <2>1. QED BY <1>1, <1>4, <1>7, RunExists
<1>9. ASSUME NEW n \in 1 .. size
      PROVE  f[n] = StepByte(needle, table, f[n - 1], bytes[n], limit)
  <2>1. n - 1 \in 0 .. size /\ n \in 0 .. size /\ n # 0
    BY <1>5
  <2>2. f[n] = step[n][f[n - 1]]
    BY <1>8, <2>1 DEF IsRun
  <2>3. f[n - 1] \in good[n - 1]
    BY <1>8, <2>1
  <2> HIDE DEF good
  <2>4. QED BY <2>2, <2>3
<1>10. f[0] = first /\ f = [n \in 0 .. size |-> f[n]]
  BY <1>1, <1>8 DEF IsRun
<1>11. Steps(f)
  <2>1. \A n \in 0 .. size : f[n] = IF n = 0 THEN first
                                   ELSE StepByte(needle, table, f[n - 1], bytes[n], limit)
    <3>1. \A n \in 0 .. size : n = 0 \/ n \in 1 .. size
      BY <1>1
    <3>2. QED BY <1>9, <1>10, <3>1
  <2>2. QED BY <1>10, <2>1
<1> DEFINE after == CHOOSE g : Steps(g)
<1>12. Steps(after)
  BY <1>11
<1>13. CursorStep(needle, cursor, bytes, work, limit) = after[size]
  BY DEF CursorStep, size, first, table
<1> HIDE DEF after
<1>14. after[size] = f[size]
  <2>1. after[0] = f[0]
    BY <1>1, <1>10, <1>12
  <2>2. \A n \in 1 .. size : after[n] = StepByte(needle, table, after[n - 1], bytes[n], limit)
    <3>1. ASSUME NEW n \in 1 .. size
          PROVE  after[n] = StepByte(needle, table, after[n - 1], bytes[n], limit)
      <4>1. n \in 0 .. size /\ n # 0
        BY <1>1, <1>5
      <4>2. QED BY <1>12, <4>1
    <3>2. QED BY <3>1
  <2>3. \A n \in 1 .. size : after[n - 1] = f[n - 1] => after[n] = f[n]
    BY <1>9, <2>2
  <2>4. QED BY <1>1, <2>1, <2>3, RunsAlike
<1>15. f[size] \in Good(size)
  BY <1>1, <1>8
<1>16. after[size] \in Good(size)
  BY <1>14, <1>15
<1>17. GoodBatch(after[size], needle, text, low, p, E, size, limit)
  BY <1>16 DEF Good
<1>18. QED BY <1>13, <1>17 DEF size

-----------------------------------------------------------------------------
(* The n-th of a set of numbers.                                           *)

LEMMA UptoNext ==
  ASSUME NEW E \in SUBSET Nat, IsFiniteSet(E), NEW e \in E
  PROVE  Upto(E, e - 1) \in Nat /\ Upto(E, e) = Upto(E, e - 1) + 1
<1>1. CASE e > 0
  <2>1. Upto(E, e) = Upto(E, e - 1) + 1
    BY <1>1, UptoStep
  <2>2. e - 1 \in Nat
    BY <1>1
  <2>3. Upto(E, e - 1) \in Nat
    BY <2>2, UptoStep
  <2>4. QED BY <2>1, <2>3
<1>2. CASE e = 0
  <2>1. \A x \in E : x <= 0 <=> x = 0
    OBVIOUS
  <2>2. {x \in E : x <= 0} = {0}
    BY <1>2, <2>1
  <2>3. \A x \in E : ~(x <= 0 - 1)
    OBVIOUS
  <2>4. {x \in E : x <= 0 - 1} = {}
    BY <2>3
  <2>5. Upto(E, 0) = 1 /\ Upto(E, 0 - 1) = 0
    BY <2>2, <2>4, FS_Singleton, FS_EmptySet DEF Upto
  <2>6. QED BY <1>2, <2>5
<1>3. QED BY <1>1, <1>2

LEMMA UptoOrders ==
  ASSUME NEW E \in SUBSET Nat, IsFiniteSet(E), NEW e \in E, NEW p \in Nat
  PROVE  e <= p <=> Upto(E, e) <= Upto(E, p)
<1>1. Upto(E, e - 1) \in Nat /\ Upto(E, e) = Upto(E, e - 1) + 1
  BY UptoNext
<1>2. CASE e <= p
  <2>1. Upto(E, e) <= Upto(E, p)
    BY <1>2, UptoGrows
  <2>2. QED BY <1>2, <2>1
<1>3. CASE ~(e <= p)
  <2>1. p <= e - 1 /\ e - 1 \in Int /\ p \in Int
    BY <1>3
  <2>2. Upto(E, p) \in Nat /\ Upto(E, p) <= Upto(E, e - 1)
    BY <2>1, UptoGrows
  <2>3. QED BY <1>1, <1>3, <2>2
<1>4. QED BY <1>2, <1>3

LEMMA NthIsOne ==
  ASSUME NEW E \in SUBSET Nat, IsFiniteSet(E), NEW d \in E, NEW e \in E,
         Upto(E, d) = Upto(E, e)
  PROVE  d = e
<1>1. Upto(E, d) \in Nat /\ d \in Nat /\ e \in Nat
  BY UptoStep
<1>2. d <= e <=> Upto(E, d) <= Upto(E, e)
  BY <1>1, UptoOrders
<1>3. e <= d <=> Upto(E, e) <= Upto(E, d)
  BY <1>1, UptoOrders
<1>4. QED BY <1>1, <1>2, <1>3

LEMMA NthExists ==
  ASSUME NEW N \in Nat, NEW E \in SUBSET (1 .. N)
  PROVE  /\ IsFiniteSet(E) /\ Cardinality(E) \in Nat /\ Cardinality(E) = Upto(E, N)
         /\ \A k \in 1 .. Cardinality(E) : \E e \in E : Upto(E, e) = k
<1>1. IsFiniteSet(E) /\ E \in SUBSET Nat
  <2>1. IsFiniteSet(1 .. N)
    BY FS_Interval
  <2>2. IsFiniteSet(E)
    BY <2>1, FS_Subset
  <2>3. \A e \in E : e \in Nat
    OBVIOUS
  <2>4. QED BY <2>2, <2>3
<1>2. Cardinality(E) = Upto(E, N)
  <2>1. \A e \in E : e <= N
    OBVIOUS
  <2>2. {e \in E : e <= N} = E
    BY <2>1
  <2>3. QED BY <2>2 DEF Upto
<1>3. ASSUME NEW k \in 1 .. Cardinality(E) PROVE \E e \in E : Upto(E, e) = k
  <2> DEFINE past == {n \in Nat : k <= Upto(E, n)}
  <2>1. Upto(E, N) \in Nat
    BY <1>1, UptoStep
  <2>2. N \in past
    BY <1>2, <1>3, <2>1
  <2>3. PICK e \in past : \A n \in past : e <= n
    <3>1. past \in SUBSET Nat /\ past # {}
      BY <2>2
    <3> HIDE DEF past
    <3>2. QED BY <3>1, LeastNumber
  <2>4. e \in Nat /\ k <= Upto(E, e)
    OBVIOUS
  <2>5. CASE e = 0
    <3>0. \A x \in E : ~(x <= 0)
      OBVIOUS
    <3>1. {x \in E : x <= 0} = {}
      BY <3>0
    <3>2. Upto(E, 0) = 0
      BY <3>1, FS_EmptySet DEF Upto
    <3>3. k \in Nat /\ k >= 1
      BY <1>2, <2>1
    <3>4. QED BY <2>4, <2>5, <3>2, <3>3
  <2>6. CASE e > 0
    <3>1. e - 1 \in Nat /\ ~(e <= e - 1)
      BY <2>4, <2>6
    <3>2. e - 1 \notin past
      BY <2>3, <3>1
    <3>3. ~(k <= Upto(E, e - 1)) /\ Upto(E, e - 1) \in Nat
      BY <1>1, <3>1, <3>2, UptoStep
    <3>4. Upto(E, e) = Upto(E, e - 1) + (IF e \in E THEN 1 ELSE 0)
      BY <1>1, <2>4, <2>6, UptoStep
    <3>5. k \in Nat
      BY <1>2, <2>1
    <3>6. e \in E /\ Upto(E, e) = k
      BY <2>4, <3>3, <3>4, <3>5
    <3>7. QED BY <3>6
  <2>7. QED BY <2>4, <2>5, <2>6
<1>4. QED BY <1>1, <1>2, <1>3, UptoStep

-----------------------------------------------------------------------------
(* Places and the ends of what stands there.                               *)

EndsIn(needle, text, boundaries) ==
  {e \in 1 .. Len(text) :
     /\ Len(needle) <= e
     /\ Fits(needle, text, e, Len(needle))
     /\ \A c \in boundaries : c <= e - Len(needle) \/ e <= c}

PlacesIn(needle, text, boundaries) ==
  {i \in 1 .. (Len(text) - Len(needle) + 1) :
     /\ \A k \in 1 .. Len(needle) : text[i + k - 1] = needle[k]
     /\ ~ \E c \in boundaries : i - 1 < c /\ c < i + Len(needle) - 1}

LEMMA PlacesEnd ==
  ASSUME NEW needle, NEW text, NEW boundaries \in SUBSET Nat,
         Len(needle) \in Nat, Len(needle) > 0, Len(text) \in Nat, NEW i \in Int
  PROVE  /\ i \in PlacesIn(needle, text, boundaries) <=>
              i + Len(needle) - 1 \in EndsIn(needle, text, boundaries)
         /\ i \in PlacesIn(needle, text, boundaries) =>
              i \in 1 .. Len(text) /\ i + Len(needle) - 1 \in 1 .. Len(text)
<1> DEFINE L == Len(needle)
           e == i + L - 1
<1>1. i \in 1 .. (Len(text) - L + 1) <=> e \in 1 .. Len(text) /\ L <= e
  OBVIOUS
<1>2. (\A k \in 1 .. L : text[i + k - 1] = needle[k]) <=> Fits(needle, text, e, L)
  <2>1. \A k \in 1 .. L : e - L + k = i + k - 1
    OBVIOUS
  <2>2. QED BY <2>1 DEF Fits
<1>3. (~ \E c \in boundaries : i - 1 < c /\ c < e) <=>
        (\A c \in boundaries : c <= e - L \/ e <= c)
  <2>1. \A c \in boundaries : c \in Nat
    OBVIOUS
  <2>2. e - L = i - 1
    OBVIOUS
  <2>3. \A c \in boundaries : (i - 1 < c /\ c < e) <=> ~(c <= e - L \/ e <= c)
    BY <2>1, <2>2
  <2>4. QED BY <2>3
<1>4. i \in PlacesIn(needle, text, boundaries) <=> e \in EndsIn(needle, text, boundaries)
  <2> HIDE DEF e
  <2>1. i + L - 1 = e
    BY DEF e
  <2>2. QED BY <1>1, <1>2, <1>3, <2>1 DEF PlacesIn, EndsIn
<1>5. i \in PlacesIn(needle, text, boundaries) =>
        i \in 1 .. Len(text) /\ e \in 1 .. Len(text)
  BY <1>1 DEF PlacesIn
<1>6. QED BY <1>4, <1>5

LEMMA PlacesBefore ==
  ASSUME NEW needle, NEW text, NEW boundaries \in SUBSET Nat,
         Len(needle) \in Nat, Len(needle) > 0, Len(text) \in Nat, NEW i \in Int
  PROVE  LET places == PlacesIn(needle, text, boundaries)
             ends == EndsIn(needle, text, boundaries)
         IN  /\ Cardinality(places) = Cardinality(ends)
             /\ Cardinality({j \in places : j < i}) = Upto(ends, i + Len(needle) - 2)
<1> DEFINE L == Len(needle)
           places == PlacesIn(needle, text, boundaries)
           ends == EndsIn(needle, text, boundaries)
           Ahead(S) == {e \in ends : e - L + 1 \in S}
<1>0. ends \subseteq 1 .. Len(text)
  BY DEF EndsIn
<1>1. \A j \in Int : j \in places <=> j + L - 1 \in ends
  BY PlacesEnd
<1>2. places \subseteq Int
  BY DEF PlacesIn
<1> HIDE DEF places, ends
<1>3. ASSUME NEW S \in SUBSET places PROVE Cardinality(S) = Cardinality(Ahead(S))
  <2> DEFINE f == [e \in Ahead(S) |-> e - L + 1]
  <2>1. \A j \in S : j \in Int
    BY <1>2
  <2>2. \A e \in Ahead(S) : e \in Int /\ f[e] = e - L + 1 /\ f[e] \in S
    BY <1>0
  <2>3. ASSUME NEW j \in S PROVE \E e \in Ahead(S) : f[e] = j
    <3>1. j \in Int /\ j + L - 1 \in ends
      BY <1>1, <2>1
    <3>2. (j + L - 1) - L + 1 = j
      <4>1. L \in Int
        OBVIOUS
      <4> HIDE DEF L, Ahead
      <4>2. QED BY <3>1, <4>1
    <3>3. j + L - 1 \in Ahead(S)
      BY <3>1, <3>2
    <3>4. f[j + L - 1] = j
      BY <3>2, <3>3
    <3>5. QED BY <3>3, <3>4
  <2>4. \A d, e \in Ahead(S) : f[d] = f[e] => d = e
    <3>1. ASSUME NEW d \in Ahead(S), NEW e \in Ahead(S), f[d] = f[e] PROVE d = e
      <4>1. d \in Int /\ e \in Int /\ f[d] = d - L + 1 /\ f[e] = e - L + 1
        BY <2>2
      <4> HIDE DEF f, Ahead
      <4>2. d - L + 1 = e - L + 1
        BY <3>1, <4>1
      <4>3. L \in Int
        OBVIOUS
      <4> HIDE DEF L
      <4>4. QED BY <4>1, <4>2, <4>3
    <3>2. QED BY <3>1
  <2>5. f \in [Ahead(S) -> S]
    BY <2>2
  <2>6. f \in Bijection(Ahead(S), S)
    <3> HIDE DEF f, Ahead
    <3>1. f \in Injection(Ahead(S), S)
      BY <2>4, <2>5 DEF Injection, IsInjective
    <3>2. f \in Surjection(Ahead(S), S)
      BY <2>3, <2>5 DEF Surjection
    <3>3. QED BY <3>1, <3>2 DEF Bijection
  <2>7. IsFiniteSet(Ahead(S))
    <3>1. IsFiniteSet(1 .. Len(text))
      BY FS_Interval
    <3>2. Ahead(S) \subseteq 1 .. Len(text)
      BY <1>0
    <3>3. QED BY <3>1, <3>2, FS_Subset
  <2>8. ExistsBijection(Ahead(S), S)
    BY <2>6 DEF ExistsBijection
  <2> HIDE DEF Ahead
  <2>9. QED BY <2>7, <2>8, FS_Bijection
<1>4. Ahead(places) = ends
  <2>1. ASSUME NEW e \in ends PROVE e - L + 1 \in places
    <3>1. e \in Int /\ e - L + 1 \in Int /\ (e - L + 1) + L - 1 = e
      BY <1>0
    <3>2. QED BY <1>1, <3>1
  <2>2. QED BY <2>1
<1>5. Ahead({j \in places : j < i}) = {e \in ends : e <= i + L - 2}
  <2>1. ASSUME NEW e \in ends
        PROVE  e - L + 1 \in {j \in places : j < i} <=> e <= i + L - 2
    <3>1. e \in Int /\ e - L + 1 \in Int
      BY <1>0
    <3>2. e - L + 1 < i <=> e <= i + L - 2
      BY <3>1
    <3>3. e - L + 1 \in places
      BY <1>4
    <3>4. QED BY <3>2, <3>3
  <2>2. QED BY <2>1
<1>6. {j \in places : j < i} \in SUBSET places /\ places \in SUBSET places
  OBVIOUS
<1> HIDE DEF Ahead
<1>7. Cardinality({j \in places : j < i}) = Cardinality({e \in ends : e <= i + L - 2})
  BY <1>3, <1>5, <1>6
<1>8. Cardinality(places) = Cardinality(ends)
  BY <1>3, <1>4, <1>6
<1>9. QED BY <1>7, <1>8 DEF Upto, places, ends

\* The k-th hit, of a needle of L.
IsHit(E, L, k, hit) ==
  \E e \in E : Upto(E, e) = k /\ hit = [from |-> e - L, to |-> e]

Hits == [from : Nat, to : Nat]

LEMMA HitIsOne ==
  ASSUME NEW E \in SUBSET Nat, IsFiniteSet(E), NEW L, NEW k, NEW g, NEW h,
         IsHit(E, L, k, g), IsHit(E, L, k, h)
  PROVE  g = h
<1>1. PICK d \in E : Upto(E, d) = k /\ g = [from |-> d - L, to |-> d]
  BY DEF IsHit
<1>2. PICK e \in E : Upto(E, e) = k /\ h = [from |-> e - L, to |-> e]
  BY DEF IsHit
<1>3. d = e
  BY <1>1, <1>2, NthIsOne
<1>4. QED BY <1>1, <1>2, <1>3

\* The reference of a raw scan lists them.
LEMMA HitsAreEnds ==
  ASSUME query.mode = "raw", scanned \in Seq(0 .. 255), cuts \in SUBSET Nat,
         Len(Needle) \in Nat, Len(Needle) > 0, DOMAIN Needle = 1 .. Len(Needle)
  PROVE  LET E == EndsIn(Needle, scanned, cuts)
         IN  /\ RefHits = [k \in 1 .. Cardinality(E) |-> RefHits[k]]
             /\ \A k \in 1 .. Cardinality(E) : IsHit(E, Len(Needle), k, RefHits[k])
<1> DEFINE L == Len(Needle)
           E == EndsIn(Needle, scanned, cuts)
           N == Len(scanned)
           units == [i \in DOMAIN scanned |->
                       [unit |-> scanned[i], from |-> i - 1, to |-> i]]
           HitAt(i) == [from |-> units[i].from, to |-> units[i + L - 1].to]
           places == {i \in 1 .. (Len(units) - L + 1) :
                        /\ \A k \in DOMAIN Needle : units[i + k - 1].unit = Needle[k]
                        /\ ~ \E c \in cuts : HitAt(i).from < c /\ c < HitAt(i).to}
           Place(k) == CHOOSE i \in places : Cardinality({j \in places : j < i}) = k - 1
           hits == [k \in 1 .. Cardinality(places) |-> HitAt(Place(k))]
           P == PlacesIn(Needle, scanned, cuts)
<1>1. N \in Nat /\ DOMAIN scanned = 1 .. N /\ Len(units) = N
  BY LenProperties
<1>2. RefHits = hits
  <2>1. RefUnits = units
    BY DEF RefUnits
  <2>2. query.mode # "exact"
    OBVIOUS
  <2>3. RefHits = HitsAmong(RefUnits, Needle)
    BY <2>2 DEF RefHits
  <2> HIDE DEF units
  <2>4. QED BY <2>1, <2>3 DEF HitsAmong
<1>3. ASSUME NEW i \in 1 .. (N - L + 1)
      PROVE  /\ HitAt(i) = [from |-> i - 1, to |-> i + L - 1]
             /\ \A k \in 1 .. L : units[i + k - 1].unit = scanned[i + k - 1]
  <2>1. i \in 1 .. N /\ i + L - 1 \in 1 .. N /\ \A k \in 1 .. L : i + k - 1 \in 1 .. N
    BY <1>1
  <2>2. QED BY <1>1, <2>1
<1>4. places = P
  <2>1. ASSUME NEW i \in 1 .. (N - L + 1)
        PROVE  i \in places <=> i \in P
    <3>1. HitAt(i).from = i - 1 /\ HitAt(i).to = i + L - 1
      BY <1>3
    <3>2. (\A k \in DOMAIN Needle : units[i + k - 1].unit = Needle[k])
            <=> (\A k \in 1 .. L : scanned[i + k - 1] = Needle[k])
      BY <1>3
    <3> HIDE DEF units, HitAt
    <3>3. QED BY <1>1, <3>1, <3>2 DEF PlacesIn
  <2>2. places \subseteq 1 .. (N - L + 1) /\ P \subseteq 1 .. (N - L + 1)
    BY <1>1 DEF PlacesIn
  <2> HIDE DEF places, P
  <2>3. QED BY <2>1, <2>2
<1>5. E \subseteq 1 .. N
  BY DEF EndsIn
<1>6. E \in SUBSET Nat /\ IsFiniteSet(E) /\ Cardinality(E) \in Nat
      /\ \A k \in 1 .. Cardinality(E) : \E e \in E : Upto(E, e) = k
  BY <1>1, <1>5, NthExists
<1>7. Cardinality(P) = Cardinality(E)
      /\ \A i \in Int : Cardinality({j \in P : j < i}) = Upto(E, i + L - 2)
  <2>1. ASSUME NEW i \in Int
        PROVE  /\ Cardinality(P) = Cardinality(E)
               /\ Cardinality({j \in P : j < i}) = Upto(E, i + L - 2)
    <3> HIDE DEF places, units, HitAt, Place, hits
    <3>1. QED BY <1>1, PlacesBefore
  <2>2. 0 \in Int
    OBVIOUS
  <2> HIDE DEF P, E
  <2>3. QED BY <2>1, <2>2
<1>8. \A i \in Int : (i \in P <=> i + L - 1 \in E)
                     /\ (i \in P => i \in 1 .. N /\ i + L - 1 \in 1 .. N)
  BY <1>1, PlacesEnd
<1>9. P \subseteq 1 .. (N - L + 1)
  BY DEF PlacesIn
<1> HIDE DEF units, HitAt, places, P, E
<1>10. ASSUME NEW k \in 1 .. Cardinality(E) PROVE IsHit(E, L, k, HitAt(Place(k)))
  <2>1. PICK e \in E : Upto(E, e) = k
    BY <1>6
  <2>2. Upto(E, e - 1) = k - 1 /\ e \in Int /\ k \in Int
    <3>1. Upto(E, e - 1) \in Nat /\ Upto(E, e) = Upto(E, e - 1) + 1
      BY <1>6, UptoNext
    <3>2. QED BY <1>6, <2>1, <3>1
  <2>3. \E i \in places : Cardinality({j \in places : j < i}) = k - 1
    <3>1. PICK i : i = e - L + 1
      OBVIOUS
    <3>2. i \in Int /\ i + L - 1 = e /\ i + L - 2 = e - 1
      BY <2>2, <3>1
    <3>3. i \in P /\ Cardinality({j \in P : j < i}) = k - 1
      BY <1>7, <1>8, <2>2, <3>2
    <3>4. QED BY <1>4, <3>3
  <2>4. PICK i : i = Place(k)
    OBVIOUS
  <2>5. i \in P /\ Cardinality({j \in P : j < i}) = k - 1
    BY <1>4, <2>3, <2>4
  <2>6. i \in Int /\ i \in 1 .. (N - L + 1)
    BY <1>9, <2>5
  <2>7. PICK d : d = i + L - 1
    OBVIOUS
  <2>8. d \in E /\ i + L - 2 = d - 1 /\ d - L = i - 1 /\ d \in Int
    BY <1>8, <2>5, <2>6, <2>7
  <2>9. Upto(E, d) = k
    <3>1. Upto(E, d - 1) \in Nat /\ Upto(E, d) = Upto(E, d - 1) + 1
      BY <1>6, <2>8, UptoNext
    <3>2. Upto(E, d - 1) = k - 1
      BY <1>7, <2>5, <2>6, <2>8
    <3>3. QED BY <2>2, <3>1, <3>2
  <2>10. HitAt(Place(k)) = [from |-> d - L, to |-> d]
    BY <1>3, <2>4, <2>6, <2>7, <2>8
  <2>11. QED BY <2>8, <2>9, <2>10 DEF IsHit
<1>11. hits = [k \in 1 .. Cardinality(E) |-> hits[k]]
       /\ \A k \in 1 .. Cardinality(E) : hits[k] = HitAt(Place(k))
  BY <1>4, <1>7
<1> HIDE DEF hits
<1>12. QED BY <1>2, <1>10, <1>11 DEF E

\* The first hits, in order.
Firsts(ms, E, L) ==
  /\ ms \in Seq(Hits)
  /\ \A k \in 1 .. Len(ms) : IsHit(E, L, k, ms[k])

LEMMA FirstsAreFew ==
  ASSUME NEW N \in Nat, NEW E \in SUBSET (1 .. N), NEW L, NEW ms, Firsts(ms, E, L)
  PROVE  Len(ms) \in Nat /\ Len(ms) <= Cardinality(E)
<1>1. Len(ms) \in Nat
  BY LenProperties DEF Firsts
<1>2. IsFiniteSet(E) /\ Cardinality(E) \in Nat /\ E \in SUBSET Nat /\ Cardinality(E) = Upto(E, N)
  <2>1. E \in SUBSET Nat
    OBVIOUS
  <2>2. QED BY <2>1, NthExists
<1>3. CASE Len(ms) > 0
  <2>1. Len(ms) \in 1 .. Len(ms)
    BY <1>1, <1>3
  <2>2. PICK e \in E : Upto(E, e) = Len(ms)
    BY <2>1 DEF Firsts, IsHit
  <2>3. e <= N
    OBVIOUS
  <2>4. QED BY <1>1, <1>2, <2>2, <2>3, UptoOrders
<1>4. QED BY <1>1, <1>2, <1>3

LEMMA FirstsOfHits ==
  ASSUME NEW N \in Nat, NEW E \in SUBSET (1 .. N), NEW L, NEW ms, Firsts(ms, E, L),
         NEW hits, hits = [k \in 1 .. Cardinality(E) |-> hits[k]],
         \A k \in 1 .. Cardinality(E) : IsHit(E, L, k, hits[k])
  PROVE  /\ Len(hits) = Cardinality(E)
         /\ ms = SubSeq(hits, 1, Len(ms))
<1>1. Len(ms) \in Nat /\ Len(ms) <= Cardinality(E)
  BY FirstsAreFew
<1>2. IsFiniteSet(E) /\ Cardinality(E) \in Nat /\ E \in SUBSET Nat
  <2>1. E \in SUBSET Nat
    OBVIOUS
  <2>2. QED BY <2>1, NthExists
<1>3. Len(hits) = Cardinality(E)
  BY <1>2
<1>4. \A k \in 1 .. Len(ms) : ms[k] = hits[k]
  <2>1. ASSUME NEW k \in 1 .. Len(ms) PROVE ms[k] = hits[k]
    <3>1. k \in 1 .. Cardinality(E)
      BY <1>1, <1>2
    <3>2. IsHit(E, L, k, ms[k]) /\ IsHit(E, L, k, hits[k])
      BY <3>1 DEF Firsts
    <3>3. QED BY <1>2, <3>2, HitIsOne
  <2>2. QED BY <2>1
<1>5. SubSeq(hits, 1, Len(ms)) = [k \in 1 .. Len(ms) |-> hits[k]]
  <2>1. SubSeq(hits, 1, Len(ms)) = [k \in 1 .. (1 + Len(ms) - 1) |-> hits[1 + k - 1]]
    BY <1>1
  <2>2. 1 + Len(ms) - 1 = Len(ms) /\ \A k \in 1 .. Len(ms) : 1 + k - 1 = k
    BY <1>1
  <2>3. QED BY <2>1, <2>2
<1>6. ms = [k \in 1 .. Len(ms) |-> ms[k]]
  BY LenProperties DEF Firsts
<1>7. QED BY <1>3, <1>4, <1>5, <1>6

-----------------------------------------------------------------------------
(* A raw scan.                                                             *)

RawCoverages == {"running", "exhaustive", "truncated", "budget", "canceled"}

\* Nothing is decoded.
RawScans ==
  [staging : {<<>>}, encoding : {"unknown"}, at : {At(0, 0, 0, 0)}, spans : {<<>>},
   ends : {<<>>}, cursor : [matched : Nat, scanned : Nat], ring : {<<>>},
   matches : Seq(Hits), coverage : RawCoverages]

\* What n hits make of a scan: they are all there, or there is one too many.
AdmittedSo(t, s, E, L, n, top) ==
  /\ t \in RawScans
  /\ t.cursor = s.cursor
  /\ Firsts(t.matches, E, L)
  /\ \A k \in 1 .. Len(t.matches) : t.matches[k].to <= top
  /\ Len(t.matches) <= query.maxMatches
  /\ \/ t.coverage = "running" /\ Len(t.matches) = Len(s.matches) + n
     \/ /\ t.coverage = "truncated"
        /\ Len(t.matches) = query.maxMatches
        /\ \E h : IsHit(E, L, query.maxMatches + 1, h)

LEMMA OneHitAdmitted ==
  ASSUME NEW E, NEW L, NEW n \in Nat, NEW top \in Nat,
         NEW s, s \in RawScans, NEW t, AdmittedSo(t, s, E, L, n, top),
         NEW hit \in Hits, hit.to <= top, IsHit(E, L, Len(s.matches) + n + 1, hit),
         query.maxMatches \in Nat
  PROVE  AdmittedSo(AdmitOne(t, hit), s, E, L, n + 1, top)
<1>1. t \in RawScans /\ t.matches \in Seq(Hits) /\ Len(t.matches) \in Nat
      /\ t.coverage \in RawCoverages /\ t.ends = <<>> /\ Len(s.matches) \in Nat
  BY LenProperties DEF AdmittedSo, RawScans
<1>2. CASE t.coverage # "running"
  <2>1. AdmitOne(t, hit) = t
    BY <1>2 DEF AdmitOne, Running
  <2>2. QED BY <1>2, <2>1 DEF AdmittedSo
<1>3. CASE t.coverage = "running"
  <2>1. Len(t.matches) = Len(s.matches) + n
    BY <1>3 DEF AdmittedSo
  <2>2. AdmitOne(t, hit) = Admitted(t, hit)
    BY <1>3 DEF AdmitOne, Running
  <2>3. hit.from # Unmapped /\ hit.to # Unmapped
    BY DEF Hits, Unmapped
  <2>4. ~OutOfScope(t, hit)
    <3>1. DOMAIN t.ends = {}
      BY <1>1
    <3>2. QED BY <3>1 DEF CrossesChunk, OutOfScope
  <2>5. CASE Len(t.matches) = query.maxMatches
    <3>1. PICK u : u = [t EXCEPT !.coverage = "truncated"]
      OBVIOUS
    <3>2. AdmitOne(t, hit) = u
      BY <2>2, <2>3, <2>4, <2>5, <3>1 DEF Admitted
    <3>3. u \in RawScans /\ u.cursor = t.cursor /\ u.matches = t.matches
          /\ u.coverage = "truncated"
      BY <1>1, <3>1 DEF RawScans, RawCoverages
    <3>4. IsHit(E, L, query.maxMatches + 1, hit)
      BY <2>1, <2>5
    <3>5. QED BY <2>5, <3>2, <3>3, <3>4 DEF AdmittedSo
  <2>6. CASE Len(t.matches) # query.maxMatches
    <3>1. PICK ms : ms = Append(t.matches, hit)
      OBVIOUS
    <3>2. PICK u : u = [t EXCEPT !.matches = ms]
      OBVIOUS
    <3>3. AdmitOne(t, hit) = u
      BY <2>2, <2>3, <2>4, <2>6, <3>1, <3>2 DEF Admitted
    <3>4. ms \in Seq(Hits) /\ Len(ms) = Len(t.matches) + 1
          /\ ms[Len(t.matches) + 1] = hit
          /\ \A k \in 1 .. Len(t.matches) : ms[k] = t.matches[k]
      BY <1>1, <3>1, AppendProperties
    <3>5. u \in RawScans /\ u.cursor = t.cursor /\ u.matches = ms /\ u.coverage = "running"
      BY <1>1, <1>3, <3>2, <3>4 DEF RawScans
    <3>6. ASSUME NEW k \in 1 .. Len(ms) PROVE IsHit(E, L, k, ms[k]) /\ ms[k].to <= top
      <4>1. CASE k = Len(t.matches) + 1
        BY <2>1, <3>4, <4>1
      <4>2. CASE k # Len(t.matches) + 1
        <5>1. k \in 1 .. Len(t.matches)
          BY <1>1, <3>4, <4>2
        <5>2. QED BY <3>4, <5>1 DEF AdmittedSo, Firsts
      <4>3. QED BY <4>1, <4>2
    <3>7. Len(ms) <= query.maxMatches
      BY <1>1, <2>6, <3>4 DEF AdmittedSo
    <3>8. Len(ms) = Len(s.matches) + (n + 1)
      <4>1. PICK a : a = Len(s.matches)
        OBVIOUS
      <4>2. a \in Nat /\ Len(ms) = a + n + 1
        BY <1>1, <2>1, <3>4, <4>1
      <4>3. Len(ms) = a + (n + 1)
        BY <4>2
      <4>4. QED BY <4>1, <4>3
    <3>9. Firsts(ms, E, L)
      BY <3>4, <3>6 DEF Firsts
    <3>10. u.cursor = s.cursor
      BY <3>5 DEF AdmittedSo
    <3>11. QED BY <3>3, <3>5, <3>6, <3>7, <3>8, <3>9, <3>10 DEF AdmittedSo
  <2>7. QED BY <2>5, <2>6
<1>4. QED BY <1>2, <1>3

LEMMA HitsAdmitted ==
  ASSUME NEW E, NEW L, NEW top \in Nat, NEW s, AdmittedSo(s, s, E, L, 0, top),
         NEW hits, Len(hits) \in Nat, query.maxMatches \in Nat,
         \A n \in 1 .. Len(hits) :
           /\ hits[n] \in Hits
           /\ hits[n].to <= top
           /\ IsHit(E, L, Len(s.matches) + n, hits[n])
  PROVE  AdmittedSo(AdmitAll(s, hits), s, E, L, Len(hits), top)
<1> DEFINE N == Len(hits)
           Good(n) == {t \in RawScans : AdmittedSo(t, s, E, L, n, top)}
           good == [n \in 0 .. N |-> Good(n)]
           step == [n \in 1 .. N |-> [t \in good[n - 1] |-> AdmitOne(t, hits[n])]]
           Admits(f) == f = [n \in 0 .. N |-> IF n = 0 THEN s ELSE AdmitOne(f[n - 1], hits[n])]
<1>1. N \in Nat /\ s \in RawScans /\ Len(s.matches) \in Nat
  BY LenProperties DEF AdmittedSo, RawScans
<1>2. s \in Good(0)
  BY <1>1
<1>3. ASSUME NEW n \in 1 .. N, NEW t \in Good(n - 1)
      PROVE  AdmitOne(t, hits[n]) \in Good(n)
  <2>1. PICK k : k = n - 1
    OBVIOUS
  <2>2. k \in Nat /\ k + 1 = n /\ Len(s.matches) + k + 1 = Len(s.matches) + n
    BY <1>1, <2>1
  <2>3. AdmittedSo(t, s, E, L, k, top)
    BY <2>1
  <2>4. AdmittedSo(AdmitOne(t, hits[n]), s, E, L, k + 1, top)
    BY <1>1, <2>2, <2>3, OneHitAdmitted
  <2>5. AdmittedSo(AdmitOne(t, hits[n]), s, E, L, n, top)
    BY <2>2, <2>4
  <2>6. QED BY <2>5 DEF AdmittedSo
<1> HIDE DEF Good, N
<1>4. s \in good[0]
  BY <1>1, <1>2
<1>5. \A n \in 1 .. N : n - 1 \in 0 .. N /\ n \in 0 .. N /\ n # 0
  BY <1>1
<1>6. \A n \in 1 .. N : good[n - 1] = Good(n - 1) /\ good[n] = Good(n)
  BY <1>5
<1>7. \A n \in 1 .. N : step[n] \in [good[n - 1] -> good[n]]
  <2>1. ASSUME NEW n \in 1 .. N PROVE step[n] \in [good[n - 1] -> good[n]]
    <3>1. \A t \in good[n - 1] : AdmitOne(t, hits[n]) \in good[n]
      BY <1>3, <1>6
    <3>2. QED BY <3>1
  <2>2. QED BY <2>1
<1>8. PICK f : IsRun(f, N, s, step) /\ \A n \in 0 .. N : f[n] \in good[n]
  <2> HIDE DEF good, step
  <2>1. QED BY <1>1, <1>4, <1>7, RunExists
<1>9. ASSUME NEW n \in 1 .. N
      PROVE  f[n] = AdmitOne(f[n - 1], hits[n])
  <2>1. n - 1 \in 0 .. N /\ n \in 0 .. N /\ n # 0
    BY <1>5
  <2>2. f[n] = step[n][f[n - 1]]
    BY <1>8, <2>1 DEF IsRun
  <2>3. f[n - 1] \in good[n - 1]
    BY <1>8, <2>1
  <2> HIDE DEF good
  <2>4. QED BY <2>2, <2>3
<1>10. f[0] = s /\ f = [n \in 0 .. N |-> f[n]]
  BY <1>1, <1>8 DEF IsRun
<1>11. Admits(f)
  <2>1. \A n \in 0 .. N : f[n] = IF n = 0 THEN s ELSE AdmitOne(f[n - 1], hits[n])
    <3>1. \A n \in 0 .. N : n = 0 \/ n \in 1 .. N
      BY <1>1
    <3>2. QED BY <1>9, <1>10, <3>1
  <2>2. QED BY <1>10, <2>1
<1> DEFINE after == CHOOSE g : Admits(g)
<1>12. Admits(after)
  BY <1>11
<1>13. AdmitAll(s, hits) = after[N]
  BY DEF AdmitAll, N
<1> HIDE DEF after
<1>14. after[N] = f[N]
  <2>1. after[0] = f[0]
    BY <1>1, <1>10, <1>12
  <2>2. \A n \in 1 .. N : after[n] = AdmitOne(after[n - 1], hits[n])
    <3>1. ASSUME NEW n \in 1 .. N PROVE after[n] = AdmitOne(after[n - 1], hits[n])
      <4>1. n \in 0 .. N /\ n # 0
        BY <1>5
      <4>2. QED BY <1>12, <4>1
    <3>2. QED BY <3>1
  <2>3. \A n \in 1 .. N : after[n - 1] = f[n - 1] => after[n] = f[n]
    BY <1>9, <2>2
  <2>4. QED BY <1>1, <2>1, <2>3, RunsAlike
<1>15. f[N] \in Good(N)
  BY <1>1, <1>8
<1>16. AdmittedSo(after[N], s, E, L, N, top)
  BY <1>14, <1>15 DEF Good
<1>17. QED BY <1>13, <1>16 DEF N

-----------------------------------------------------------------------------
(* The invariant of a raw scan.                                            *)

Ends == EndsIn(Needle, scanned, cuts)

RawTypes ==
  /\ scanned \in Seq(0 .. 255)
  /\ Needle \in Seq(0 .. 255) \ {<<>>}
  /\ query.crossChunk \in BOOLEAN
  /\ query.maxMatches \in Nat
  /\ query.maxBytes \in Nat
  /\ fed \in Nat /\ chunkLeft \in Nat
  /\ fed + chunkLeft <= Len(scanned)
  /\ fed <= query.maxBytes
  /\ cuts \in SUBSET Nat
  /\ scan \in RawScans
  /\ scan.cursor.scanned = fed

\* Where matches may not cross chunks, the end of this one is a boundary.
RawBoundaries ==
  /\ query.crossChunk => cuts = {}
  /\ ~query.crossChunk /\ fed + chunkLeft > 0 => fed + chunkLeft \in cuts

\* The cursor looks back to the last boundary, and no further.
RawFollows ==
  \E low \in 0 .. fed :
    /\ low > 0 => low \in cuts
    /\ query.crossChunk => low = 0
    /\ \A c \in cuts : c <= low \/ c = fed + chunkLeft
    /\ Follows(Needle, scanned, low, fed, scan.cursor.matched)

RawFinds ==
  /\ Firsts(scan.matches, Ends, Len(Needle))
  /\ \A k \in 1 .. Len(scan.matches) : scan.matches[k].to <= fed
  /\ Len(scan.matches) <= query.maxMatches

RawCovers ==
  /\ scan.coverage = "running" => Len(scan.matches) = Upto(Ends, fed)
  /\ scan.coverage = "exhaustive" => Len(scan.matches) = Cardinality(Ends)
  /\ scan.coverage = "budget" => Len(scan.matches) = Upto(Ends, query.maxBytes)
  /\ scan.coverage = "truncated" /\ query.maxMatches > 0 =>
       /\ Len(scan.matches) = query.maxMatches
       /\ query.maxMatches < Cardinality(Ends)

RawInv ==
  query.mode = "raw" =>
    RawTypes /\ RawBoundaries /\ RawFinds /\ RawCovers /\ (Running(scan) => RawFollows)

LEMMA NeedleTypes ==
  ASSUME Needle \in Seq(0 .. 255) \ {<<>>}
  PROVE  Len(Needle) \in Nat /\ Len(Needle) > 0 /\ DOMAIN Needle = 1 .. Len(Needle)
BY EmptySeq, LenProperties

LEMMA EndsKnown ==
  ASSUME NEW needle, NEW text \in Seq(0 .. 255), NEW boundaries
  PROVE  LET E == EndsIn(needle, text, boundaries)
         IN  /\ Len(text) \in Nat
             /\ E \in SUBSET (1 .. Len(text)) /\ E \in SUBSET Nat
             /\ IsFiniteSet(E)
             /\ Cardinality(E) \in Nat /\ Cardinality(E) = Upto(E, Len(text))
             /\ \A p \in Nat : Upto(E, p) \in Nat
<1> DEFINE E == EndsIn(needle, text, boundaries)
<1>1. Len(text) \in Nat
  BY LenProperties
<1>2. E \in SUBSET (1 .. Len(text))
  BY DEF EndsIn
<1> HIDE DEF E
<1>3. E \in SUBSET Nat
  BY <1>1, <1>2
<1>4. IsFiniteSet(E) /\ Cardinality(E) \in Nat /\ Cardinality(E) = Upto(E, Len(text))
  BY <1>1, <1>2, NthExists
<1>5. \A p \in Nat : Upto(E, p) \in Nat
  BY <1>3, <1>4, UptoStep
<1>6. QED BY <1>1, <1>2, <1>3, <1>4, <1>5 DEF E

\* What ends in the chunk ends whether or not chunks end after it.
LEMMA ChunkEnds ==
  ASSUME RawTypes, NEW low \in 0 .. fed, low > 0 => low \in cuts,
         \A c \in cuts : c <= low \/ c = fed + chunkLeft,
         NEW n \in 1 .. chunkLeft
  PROVE  fed + n \in Ends <=> EndsAt(Needle, scanned, low, fed + n)
<1> DEFINE L == Len(Needle)
           e == fed + n
<1>1. L \in Nat /\ L > 0 /\ fed \in Nat /\ chunkLeft \in Nat /\ low \in Nat
      /\ Len(scanned) \in Nat /\ fed + chunkLeft <= Len(scanned) /\ cuts \in SUBSET Nat
  BY NeedleTypes, LenProperties DEF RawTypes
<1>2. e \in 1 .. Len(scanned) /\ low < e /\ e <= fed + chunkLeft
  BY <1>1
<1>3. ASSUME EndsAt(Needle, scanned, low, e), NEW c \in cuts
      PROVE  c <= e - L \/ e <= c
  <2>1. L <= e - low
    BY <1>3 DEF EndsAt
  <2>2. c <= low \/ e <= c
    BY <1>2
  <2>3. QED BY <1>1, <1>2, <2>1, <2>2
<1>4. ASSUME e \in Ends PROVE L <= e - low
  <2>1. L <= e /\ \A c \in cuts : c <= e - L \/ e <= c
    BY <1>4 DEF Ends, EndsIn
  <2>2. low = 0 \/ low <= e - L
    BY <1>1, <1>2, <2>1
  <2>3. QED BY <1>1, <1>2, <2>1, <2>2
<1>5. ASSUME EndsAt(Needle, scanned, low, e) PROVE L <= e /\ Fits(Needle, scanned, e, L)
  BY <1>1, <1>2, <1>5 DEF EndsAt
<1>6. ASSUME e \in Ends PROVE Fits(Needle, scanned, e, L)
  BY <1>6 DEF Ends, EndsIn
<1> HIDE DEF e
<1>7. QED BY <1>2, <1>3, <1>4, <1>5, <1>6 DEF EndsAt, Ends, EndsIn, e

\* A raw scan judged so says what the reference does.
LEMMA RawReports ==
  ASSUME query.mode = "raw", RawTypes, RawFinds, RawCovers
  PROVE  ScanIsExact
<1> DEFINE L == Len(Needle)
<1>1. Len(scanned) \in Nat /\ Ends \in SUBSET (1 .. Len(scanned)) /\ Ends \in SUBSET Nat
      /\ IsFiniteSet(Ends) /\ Cardinality(Ends) \in Nat
      /\ \A p \in Nat : Upto(Ends, p) \in Nat
  BY EndsKnown DEF RawTypes, Ends
<1>2. /\ RefHits = [k \in 1 .. Cardinality(Ends) |-> RefHits[k]]
      /\ \A k \in 1 .. Cardinality(Ends) : IsHit(Ends, L, k, RefHits[k])
  BY HitsAreEnds, NeedleTypes DEF RawTypes, Ends
<1>3. PICK ms : ms = scan.matches
  OBVIOUS
<1>4. Firsts(ms, Ends, L) /\ Len(ms) \in Nat /\ Len(ms) <= Cardinality(Ends)
  BY <1>1, <1>3, FirstsAreFew DEF RawFinds
<1>5. PICK hits : hits = RefHits
  OBVIOUS
<1>6. hits = [k \in 1 .. Cardinality(Ends) |-> hits[k]]
      /\ \A k \in 1 .. Cardinality(Ends) : IsHit(Ends, L, k, hits[k])
  BY <1>2, <1>5
<1>7. Len(hits) = Cardinality(Ends) /\ ms = SubSeq(hits, 1, Len(ms))
  BY <1>1, <1>4, <1>6, FirstsOfHits
<1>8. scan.coverage \in RawCoverages
  BY DEF RawTypes, RawScans
<1>9. CASE scan.coverage = "exhaustive"
  <2>1. Len(ms) = Len(hits)
    BY <1>3, <1>7, <1>9 DEF RawCovers
  <2>2. SubSeq(hits, 1, Len(hits)) = hits
    <3>1. PICK n : n = Len(hits)
      OBVIOUS
    <3>2. n \in Nat /\ n = Cardinality(Ends)
      BY <1>1, <1>7, <3>1
    <3>3. SubSeq(hits, 1, n) = [k \in 1 .. (1 + n - 1) |-> hits[1 + k - 1]]
      BY <3>2
    <3>4. 1 + n - 1 = n /\ \A k \in 1 .. n : 1 + k - 1 = k
      BY <3>2
    <3>5. SubSeq(hits, 1, n) = [k \in 1 .. n |-> hits[k]]
      BY <3>3, <3>4
    <3>6. hits = [k \in 1 .. n |-> hits[k]]
      BY <1>6, <3>2
    <3>7. QED BY <3>1, <3>5, <3>6
  <2>3. ms = hits
    BY <1>7, <2>1, <2>2
  <2>4. QED BY <1>3, <1>5, <1>9, <2>3 DEF ScanIsExact, Reported
<1>10. CASE scan.coverage = "truncated" /\ query.maxMatches > 0
  <2>1. Len(ms) = query.maxMatches /\ Len(hits) > query.maxMatches
    BY <1>1, <1>3, <1>7, <1>10 DEF RawCovers, RawTypes
  <2>2. QED BY <1>3, <1>5, <1>7, <1>10, <2>1 DEF ScanIsExact, Reported
<1>11. CASE scan.coverage = "budget"
  <2> DEFINE m == Upto(Ends, query.maxBytes)
             within == {k \in DOMAIN hits : hits[k].to <= query.maxBytes}
  <2>1. query.maxBytes \in Nat /\ m \in Nat /\ Len(ms) = m
    BY <1>1, <1>3, <1>11 DEF RawCovers, RawTypes
  <2>2. m <= Cardinality(Ends)
    BY <1>4, <2>1
  <2>3. ASSUME NEW k \in 1 .. Cardinality(Ends)
        PROVE  hits[k].to <= query.maxBytes <=> k <= m
    <3>1. PICK e \in Ends : Upto(Ends, e) = k /\ hits[k] = [from |-> e - L, to |-> e]
      BY <1>6 DEF IsHit
    <3>2. e <= query.maxBytes <=> Upto(Ends, e) <= Upto(Ends, query.maxBytes)
      BY <1>1, <2>1, UptoOrders
    <3>3. hits[k].to = e
      BY <3>1
    <3>4. QED BY <3>1, <3>2, <3>3
  <2>4. within = 1 .. m
    <3>1. DOMAIN hits = 1 .. Cardinality(Ends)
      BY <1>6
    <3>2. \A k \in 1 .. m : k \in 1 .. Cardinality(Ends) /\ k <= m
      BY <1>1, <2>1, <2>2
    <3>3. \A k \in 1 .. Cardinality(Ends) : k <= m => k \in 1 .. m
      BY <2>1
    <3> HIDE DEF m
    <3>4. QED BY <2>3, <3>1, <3>2, <3>3
  <2>5. Cardinality(within) = m
    <3>1. PICK n : n = m
      OBVIOUS
    <3>2. Cardinality(1 .. n) = IF 1 > n THEN 0 ELSE n - 1 + 1
      <4>1. 1 \in Int /\ n \in Int
        BY <2>1, <3>1
      <4>2. \A a, b \in Int : Cardinality(a .. b) = IF a > b THEN 0 ELSE b - a + 1
        BY FS_Interval
      <4>3. QED BY <4>1, <4>2
    <3>3. Cardinality(1 .. n) = n
      <4>1. n \in Nat
        BY <2>1, <3>1
      <4>2. QED BY <3>2, <4>1
    <3> HIDE DEF m, within
    <3>4. QED BY <2>4, <3>1, <3>3
  <2>6. ms = SubSeq(hits, 1, Cardinality(within))
    BY <1>7, <2>1, <2>5
  <2>7. QED BY <1>3, <1>5, <1>11, <2>6 DEF ScanIsExact, Reported
<1>12. CASE scan.coverage \in {"running", "canceled"}
            \/ (scan.coverage = "truncated" /\ ~(query.maxMatches > 0))
  <2>1. Len(ms) <= Len(hits) /\ ms = SubSeq(hits, 1, Len(ms))
    BY <1>4, <1>7
  <2>2. Reported(hits) <=> Len(ms) <= Len(hits) /\ ms = SubSeq(hits, 1, Len(ms))
    BY <1>3, <1>12 DEF Reported
  <2>3. QED BY <1>5, <2>1, <2>2 DEF ScanIsExact
<1>13. QED BY <1>8, <1>9, <1>10, <1>11, <1>12 DEF RawCoverages

LEMMA RawInitially ==
  ASSUME ScanInit
  PROVE  RawInv
<1> SUFFICES ASSUME query.mode = "raw"
             PROVE  RawTypes /\ RawBoundaries /\ RawFinds /\ RawCovers /\ RawFollows
  BY DEF RawInv
<1> DEFINE L == Len(Needle)
<1>1. PICK q \in TextQueries, c \in BOOLEAN, m \in MatchLimits, b \in ByteLimits :
        query = [chars |-> q.chars, mode |-> q.mode, needle |-> NeedleOf(q), crossChunk |-> c,
                 maxMatches |-> m, maxBytes |-> LeastOf(b, Len(scanned))]
  BY DEF ScanInit
<1>2. q.mode = "raw" /\ Needle = NeedleOf(q) /\ query.crossChunk = c
      /\ query.maxMatches = m /\ query.maxBytes = LeastOf(b, Len(scanned))
  BY <1>1 DEF Needle
<1>3. Needle \in Seq(0 .. 255) \ {<<>>} /\ m \in Nat /\ b \in Nat
  BY <1>2, ScanAssumption
<1>4. scanned \in Seq(0 .. 255) /\ Len(scanned) \in Nat
  BY ScanAssumption, LenProperties DEF ScanInit
<1>5. query.maxBytes \in Nat
  BY <1>2, <1>3, <1>4 DEF LeastOf
<1>6. fed = 0 /\ chunkLeft = 0 /\ cuts = {}
  BY DEF ScanInit
<1>7. PICK v : v = scan.coverage
  OBVIOUS
<1>8. v = IF query.maxMatches = 0 /\ Len(scanned) > 0 THEN "truncated" ELSE "running"
  BY <1>7 DEF ScanInit
<1>9. scan = [staging |-> <<>>, encoding |-> "unknown", at |-> At(0, 0, 0, 0),
              spans |-> <<>>, ends |-> <<>>, cursor |-> [matched |-> 0, scanned |-> 0],
              ring |-> <<>>, matches |-> <<>>, coverage |-> v]
  BY <1>7 DEF ScanInit, NewCursor
<1>10. scan \in RawScans /\ scan.cursor.scanned = 0 /\ scan.cursor.matched = 0
       /\ scan.matches = <<>>
  <2>1. v \in RawCoverages
    BY <1>8 DEF RawCoverages
  <2>2. <<>> \in Seq(Hits)
    OBVIOUS
  <2>3. QED BY <1>9, <2>1, <2>2 DEF RawScans
<1>11. RawTypes
  BY <1>2, <1>3, <1>4, <1>5, <1>6, <1>10 DEF RawTypes
<1>12. RawBoundaries
  BY <1>6 DEF RawBoundaries
<1>13. Len(scan.matches) = 0
  BY <1>10
<1>14. RawFinds
  <2>1. 1 .. Len(scan.matches) = {}
    BY <1>13
  <2>2. scan.matches \in Seq(Hits)
    BY <1>10
  <2>3. QED BY <1>2, <1>3, <1>13, <2>1, <2>2 DEF RawFinds, Firsts
<1>15. RawCovers
  <2>1. \A x \in Ends : ~(x <= 0)
    BY <1>4 DEF Ends, EndsIn
  <2>2. {x \in Ends : x <= 0} = {}
    BY <2>1
  <2>3. Upto(Ends, 0) = 0
    BY <2>2, FS_EmptySet DEF Upto
  <2>4. v = "running" \/ (v = "truncated" /\ query.maxMatches = 0)
    BY <1>8
  <2>5. QED BY <1>6, <1>7, <1>13, <2>3, <2>4 DEF RawCovers
<1>16. RawFollows
  <2>1. L \in Nat /\ L > 0
    BY <1>3, NeedleTypes
  <2>2. Follows(Needle, scanned, 0, 0, 0)
    BY <2>1 DEF Follows, Fits
  <2>3. 0 \in 0 .. fed
    BY <1>6
  <2>4. QED BY <1>6, <1>10, <2>2, <2>3 DEF RawFollows
<1>17. QED BY <1>11, <1>12, <1>14, <1>15, <1>16

\* A boundary further on takes away no end before it.
LEMMA CutsFurtherOn ==
  ASSUME NEW needle, NEW text \in Seq(0 .. 255), NEW boundaries \in SUBSET Nat,
         NEW d \in Nat
  PROVE  LET E == EndsIn(needle, text, boundaries)
             F == EndsIn(needle, text, boundaries \cup {d})
         IN  \A p \in Nat : p <= d => (p \in E <=> p \in F) /\ Upto(F, p) = Upto(E, p)
<1> DEFINE E == EndsIn(needle, text, boundaries)
           F == EndsIn(needle, text, boundaries \cup {d})
<1>1. Len(text) \in Nat
  BY LenProperties
<1>2. ASSUME NEW p \in Nat, p <= d PROVE p \in E <=> p \in F
  BY <1>2 DEF EndsIn
<1>3. E \subseteq Nat /\ F \subseteq Nat
  BY <1>1 DEF EndsIn
<1> HIDE DEF E, F
<1>4. ASSUME NEW p \in Nat, p <= d PROVE Upto(F, p) = Upto(E, p)
  <2>1. \A x \in Nat : x <= p => (x \in E <=> x \in F)
    BY <1>2, <1>4
  <2>2. {x \in F : x <= p} = {x \in E : x <= p}
    BY <1>3, <2>1
  <2>3. QED BY <2>2 DEF Upto
<1>5. QED BY <1>2, <1>4 DEF E, F

LEMMA ChunkBegins ==
  ASSUME query.mode = "raw", RawInv, NEW n \in Nat, BeginChunk(n)
  PROVE  RawInv'
<1> DEFINE L == Len(Needle)
<1>1. RawTypes /\ RawBoundaries /\ RawFinds /\ RawCovers /\ RawFollows
      /\ scan.coverage = "running" /\ chunkLeft = 0 /\ chunkLeft' = n
      /\ fed + n <= Len(scanned)
      /\ scanned' = scanned /\ query' = query /\ fed' = fed
  BY DEF RawInv, BeginChunk, Scanning, Running
<1>2. fed \in Nat /\ cuts \in SUBSET Nat /\ scan \in RawScans /\ fed + n \in Nat
      /\ fed + 0 = fed /\ query.crossChunk \in BOOLEAN
  BY <1>1 DEF RawTypes
<1>3. Needle' = Needle /\ query'.mode = "raw" /\ L \in Nat /\ L > 0
  BY <1>1, NeedleTypes DEF Needle, RawTypes
<1>4. PICK low \in 0 .. fed :
        /\ low > 0 => low \in cuts
        /\ query.crossChunk => low = 0
        /\ \A c \in cuts : c <= low \/ c = fed + chunkLeft
        /\ Follows(Needle, scanned, low, fed, scan.cursor.matched)
  BY <1>1 DEF RawFollows
<1>5. CASE query.crossChunk
  <2>1. scan' = scan /\ cuts' = cuts /\ cuts = {} /\ low = 0
    BY <1>1, <1>4, <1>5 DEF BeginChunk, RawBoundaries
  <2>2. Ends' = Ends
    BY <1>1, <1>3, <2>1 DEF Ends
  <2>3. RawTypes'
    BY <1>1, <1>3, <2>1 DEF RawTypes
  <2>4. RawBoundaries'
    BY <1>1, <1>5, <2>1 DEF RawBoundaries
  <2>5. RawFinds'
    BY <1>1, <1>3, <2>1, <2>2 DEF RawFinds
  <2>6. RawCovers'
    BY <1>1, <2>1, <2>2 DEF RawCovers
  <2>7. RawFollows'
    BY <1>1, <1>3, <1>4, <2>1 DEF RawFollows
  <2>8. QED BY <2>3, <2>4, <2>5, <2>6, <2>7 DEF RawInv
<1>6. CASE ~query.crossChunk
  <2>1. PICK t : t = Broken(scan.cursor)
    OBVIOUS
  <2>2. scan' = [scan EXCEPT !.cursor = t] /\ cuts' = cuts \cup {fed + n}
    BY <1>1, <1>6, <2>1 DEF BeginChunk
  <2>3. t \in [matched : Nat, scanned : Nat] /\ t.matched = 0
        /\ t.scanned = scan.cursor.scanned
    BY <1>2, <2>1 DEF RawScans, Broken
  <2>4. scan' \in RawScans /\ scan'.cursor = t /\ scan'.matches = scan.matches
        /\ scan'.coverage = "running"
    BY <1>1, <1>2, <2>2, <2>3 DEF RawScans
  <2>5. cuts' \in SUBSET Nat
    BY <1>2, <2>2
  <2>6. RawTypes'
    BY <1>1, <1>2, <1>3, <2>3, <2>4, <2>5 DEF RawTypes
  <2>7. RawBoundaries'
    BY <1>1, <1>6, <2>2 DEF RawBoundaries
  <2>8. Ends \in SUBSET Nat /\ IsFiniteSet(Ends)
        /\ Ends = EndsIn(Needle, scanned, cuts)
        /\ Ends' = EndsIn(Needle, scanned, cuts \cup {fed + n})
    <3>1. Ends \in SUBSET Nat /\ IsFiniteSet(Ends)
      BY <1>1, EndsKnown DEF RawTypes, Ends
    <3>2. QED BY <1>1, <1>3, <2>2, <3>1 DEF Ends
  <2>9. \A p \in Nat : p <= fed + n =>
          (p \in Ends <=> p \in Ends') /\ Upto(Ends', p) = Upto(Ends, p)
    <3>1. scanned \in Seq(0 .. 255)
      BY <1>1 DEF RawTypes
    <3>2. PICK d : d = fed + n
      OBVIOUS
    <3>3. d \in Nat
      BY <1>2, <3>2
    <3>4. \A p \in Nat : p <= d =>
            (p \in EndsIn(Needle, scanned, cuts) <=> p \in EndsIn(Needle, scanned, cuts \cup {d}))
            /\ Upto(EndsIn(Needle, scanned, cuts \cup {d}), p)
                 = Upto(EndsIn(Needle, scanned, cuts), p)
      BY <1>2, <3>1, <3>3, CutsFurtherOn
    <3>5. QED BY <2>8, <3>2, <3>4
  <2>10. fed <= fed + n
    BY <1>2
  <2>11. PICK ms : ms = scan.matches
    OBVIOUS
  <2>12. Firsts(ms, Ends, L) /\ \A k \in 1 .. Len(ms) : ms[k].to <= fed
    BY <1>1, <2>11 DEF RawFinds
  <2>13. ASSUME NEW k \in 1 .. Len(ms) PROVE IsHit(Ends', L, k, ms[k])
    <3>1. PICK e \in Ends : Upto(Ends, e) = k /\ ms[k] = [from |-> e - L, to |-> e]
      BY <2>12 DEF Firsts, IsHit
    <3>2. ms[k].to = e
      BY <3>1
    <3>3. e \in Nat /\ e <= fed + n
      BY <1>2, <2>8, <2>12, <3>2
    <3>4. e \in Ends' /\ Upto(Ends', e) = k
      BY <2>9, <3>1, <3>3
    <3>5. QED BY <3>1, <3>4 DEF IsHit
  <2>14. Firsts(ms, Ends', L)
    BY <2>12, <2>13 DEF Firsts
  <2>15. RawFinds'
    <3>1. Len(Needle') = L
      BY <1>3
    <3>2. Firsts(ms, Ends', Len(Needle'))
      BY <2>14, <3>1
    <3>3. Len(ms) <= query.maxMatches
      BY <1>1, <2>11 DEF RawFinds
    <3>4. scan'.matches = ms
      BY <2>4, <2>11
    <3>5. QED BY <1>1, <2>12, <3>2, <3>3, <3>4 DEF RawFinds
  <2>16. RawCovers'
    <3>1. Len(scan.matches) = Upto(Ends, fed)
      BY <1>1 DEF RawCovers
    <3>2. Upto(Ends', fed) = Upto(Ends, fed)
      BY <1>2, <2>9, <2>10
    <3>3. QED BY <1>1, <2>4, <3>1, <3>2 DEF RawCovers
  <2>17. RawFollows'
    <3>1. Follows(Needle, scanned, fed, fed, 0)
      BY <1>2, <1>3 DEF Follows, Fits
    <3>2. fed > 0 => fed \in cuts'
      BY <1>1, <1>2, <1>6, <2>2 DEF RawBoundaries
    <3>3. \A c \in cuts' : c <= fed \/ c = fed + n
      BY <1>1, <1>2, <1>4, <2>2
    <3>4. fed \in 0 .. fed
      BY <1>2
    <3>5. scan'.cursor.matched = 0
      BY <2>3, <2>4
    <3>6. QED BY <1>1, <1>3, <1>6, <3>1, <3>2, <3>3, <3>4, <3>5 DEF RawFollows
  <2>18. QED BY <2>6, <2>7, <2>15, <2>16, <2>17 DEF RawInv
<1>7. QED BY <1>2, <1>5, <1>6

\* One batch of the cursor, from where the scan stands.
LEMMA BatchTaken ==
  ASSUME query.mode = "raw", RawInv, Running(scan), chunkLeft > 0, NEW limit \in Nat,
         NEW low \in 0 .. fed, low > 0 => low \in cuts,
         \A c \in cuts : c <= low \/ c = fed + chunkLeft,
         Follows(Needle, scanned, low, fed, scan.cursor.matched)
  PROVE  LET size == IF query.maxBytes - fed < chunkLeft THEN query.maxBytes - fed
                     ELSE chunkLeft
             batch == CursorStep(Needle, scan.cursor,
                                 SubSeq(scanned, fed + 1, fed + chunkLeft),
                                 query.maxBytes - fed, limit)
         IN  GoodBatch(batch, Needle, scanned, low, fed, Ends, size, limit)
<1>1. RawTypes
  BY DEF RawInv
<1>2. /\ fed \in Nat /\ chunkLeft \in Nat /\ fed + chunkLeft <= Len(scanned)
      /\ Len(scanned) \in Nat /\ scanned \in Seq(0 .. 255)
      /\ query.maxBytes \in Nat /\ fed <= query.maxBytes /\ scan \in RawScans
      /\ Len(Needle) \in Nat /\ Len(Needle) > 0
      /\ scan.cursor.scanned = fed /\ low \in Nat /\ low <= fed
  BY <1>1, NeedleTypes, LenProperties DEF RawTypes
<1>3. PICK work : work = query.maxBytes - fed
  OBVIOUS
<1>4. PICK bytes : bytes = SubSeq(scanned, fed + 1, fed + chunkLeft)
  OBVIOUS
<1>5. PICK m : m = scan.cursor.matched
  OBVIOUS
<1>6. work \in Nat
  BY <1>2, <1>3
<1>7. Len(bytes) = chunkLeft /\ \A n \in 1 .. Len(bytes) : bytes[n] = scanned[fed + n]
  <2>1. PICK f \in Nat, k \in Nat, N \in Nat :
          f = fed /\ k = chunkLeft /\ N = Len(scanned) /\ f + k <= N
    BY <1>2
  <2>2. PICK a \in Nat : a = f + 1
    OBVIOUS
  <2>3. PICK b \in Nat : b = f + k
    OBVIOUS
  <2>4. bytes = SubSeq(scanned, a, b)
    BY <1>4, <2>1, <2>2, <2>3
  <2>5. \A i \in a .. b : scanned[i] \in 0 .. 255
    <3>1. ASSUME NEW i \in a .. b PROVE i \in 1 .. N
      BY <2>1, <2>2, <2>3
    <3>2. QED BY <1>2, <2>1, <3>1, ElementOfSeq
  <2>6. /\ Len(bytes) = IF a <= b THEN b - a + 1 ELSE 0
        /\ \A n \in 1 .. (b - a + 1) : bytes[n] = scanned[a + n - 1]
    BY <2>4, <2>5, SubSeqProperties
  <2>7. (IF a <= b THEN b - a + 1 ELSE 0) = k /\ b - a + 1 = k
    BY <2>2, <2>3
  <2>8. Len(bytes) = k
    BY <2>6, <2>7
  <2>9. ASSUME NEW n \in 1 .. k PROVE bytes[n] = scanned[f + n]
    <3>1. n \in 1 .. (b - a + 1) /\ a + n - 1 = f + n
      BY <2>2, <2>7
    <3>2. bytes[n] = scanned[a + n - 1]
      BY <2>6, <3>1
    <3>3. QED BY <3>1, <3>2
  <2>10. QED BY <2>1, <2>8, <2>9
<1>8. scan.cursor = [matched |-> m, scanned |-> fed]
  BY <1>2, <1>5 DEF RawScans
<1>9. Ends \in SUBSET Nat /\ IsFiniteSet(Ends)
  BY <1>2, EndsKnown DEF Ends
<1>10. \A n \in 1 .. Len(bytes) : fed + n \in Ends <=> EndsAt(Needle, scanned, low, fed + n)
  BY <1>1, <1>7, ChunkEnds
<1>11. Follows(Needle, scanned, low, fed, m)
  BY <1>5
<1>12. GoodBatch(CursorStep(Needle, [matched |-> m, scanned |-> fed], bytes, work, limit),
                 Needle, scanned, low, fed, Ends,
                 IF work < Len(bytes) THEN work ELSE Len(bytes), limit)
  <2>1. Len(bytes) \in Nat /\ \A n \in 1 .. Len(bytes) : bytes[n] = scanned[fed + n]
    BY <1>2, <1>7
  <2>2. QED BY <1>2, <1>6, <1>9, <1>10, <1>11, <2>1, CursorSteps
<1>13. QED BY <1>3, <1>4, <1>7, <1>8, <1>12

LEMMA BatchBounds ==
  ASSUME NEW s, NEW needle, NEW text, NEW low, NEW p \in Nat, NEW E, NEW n \in Nat,
         NEW limit, GoodBatch(s, needle, text, low, p, E, n, limit)
  PROVE  /\ s.consumed \in 0 .. n
         /\ s.cursor \in [matched : Nat, scanned : Nat]
         /\ s.cursor.scanned = p + s.consumed
         /\ Len(s.hits) \in Nat
BY LenProperties DEF GoodBatch, Batches

LEMMA RawSteps ==
  ASSUME query.mode = "raw", RawInv, StepRaw
  PROVE  RawInv'
<1> DEFINE L == Len(Needle)
           limit == query.maxMatches - Len(scan.matches) + 1
           size == IF query.maxBytes - fed < chunkLeft THEN query.maxBytes - fed ELSE chunkLeft
<1>1. RawTypes /\ RawBoundaries /\ RawFinds /\ RawCovers /\ RawFollows
      /\ scan.coverage = "running" /\ Running(scan) /\ chunkLeft > 0
      /\ scanned' = scanned /\ query' = query /\ cuts' = cuts
  BY DEF RawInv, StepRaw, Scanning, Running
<1>2. /\ fed \in Nat /\ chunkLeft \in Nat /\ fed + chunkLeft <= Len(scanned)
      /\ Len(scanned) \in Nat /\ scanned \in Seq(0 .. 255)
      /\ query.maxBytes \in Nat /\ fed <= query.maxBytes /\ scan \in RawScans
      /\ query.maxMatches \in Nat /\ L \in Nat /\ L > 0
  BY <1>1, NeedleTypes, LenProperties DEF RawTypes
<1>3. PICK ms : ms = scan.matches
  OBVIOUS
<1>4. Firsts(ms, Ends, L) /\ Len(ms) \in Nat /\ Len(ms) <= query.maxMatches
      /\ ms \in Seq(Hits) /\ (\A k \in 1 .. Len(ms) : ms[k].to <= fed)
      /\ Len(ms) = Upto(Ends, fed)
  BY <1>1, <1>3, LenProperties DEF RawFinds, RawCovers, Firsts
<1>5. limit \in Nat /\ size \in Nat /\ size <= chunkLeft /\ size <= query.maxBytes - fed
  <2>1. PICK most \in Nat, count \in Nat :
          most = query.maxMatches /\ count = Len(ms) /\ count <= most
    BY <1>2, <1>4
  <2>2. limit = most - count + 1
    BY <1>3, <2>1
  <2>3. PICK all \in Nat, f \in Nat, k \in Nat :
          all = query.maxBytes /\ f = fed /\ k = chunkLeft /\ f <= all
    BY <1>2
  <2>4. size = IF all - f < k THEN all - f ELSE k
    BY <2>3
  <2> HIDE DEF limit, size
  <2>5. limit \in Nat
    BY <2>1, <2>2
  <2>6. size \in Nat /\ size <= k /\ size <= all - f
    BY <2>3, <2>4
  <2>7. QED BY <2>3, <2>5, <2>6
<1>6. Ends \in SUBSET Nat /\ IsFiniteSet(Ends) /\ Ends \in SUBSET (1 .. Len(scanned))
      /\ Cardinality(Ends) = Upto(Ends, Len(scanned)) /\ Cardinality(Ends) \in Nat
      /\ \A p \in Nat : Upto(Ends, p) \in Nat
  BY <1>2, EndsKnown DEF Ends
<1>7. Ends' = Ends /\ Needle' = Needle
  BY <1>1 DEF Ends, Needle
<1>8. PICK low \in 0 .. fed :
        /\ low > 0 => low \in cuts
        /\ query.crossChunk => low = 0
        /\ \A c \in cuts : c <= low \/ c = fed + chunkLeft
        /\ Follows(Needle, scanned, low, fed, scan.cursor.matched)
  BY <1>1 DEF RawFollows
<1>9. PICK batch : batch = CursorStep(Needle, scan.cursor,
                                      SubSeq(scanned, fed + 1, fed + chunkLeft),
                                      query.maxBytes - fed, limit)
  OBVIOUS
<1>10. GoodBatch(batch, Needle, scanned, low, fed, Ends, size, limit)
  BY <1>1, <1>5, <1>8, <1>9, BatchTaken
<1>11. PICK hits : hits = [i \in DOMAIN batch.hits |->
                             [from |-> batch.hits[i] - L, to |-> batch.hits[i]]]
  OBVIOUS
<1>12. /\ scan' = IF fed = query.maxBytes THEN Exhausted(scan)
                  ELSE AdmitAll([scan EXCEPT !.cursor = batch.cursor], hits)
       /\ fed' = fed + batch.consumed
       /\ chunkLeft' = chunkLeft - batch.consumed
  BY <1>9, <1>11 DEF StepRaw
<1> HIDE DEF limit, size, L
<1>13. /\ batch.consumed \in 0 .. size
       /\ batch.cursor \in [matched : Nat, scanned : Nat]
       /\ batch.cursor.scanned = fed + batch.consumed
       /\ Len(batch.hits) \in Nat
  BY <1>2, <1>5, <1>10, BatchBounds
<1>14. /\ fed' \in Nat /\ chunkLeft' \in Nat /\ fed' + chunkLeft' = fed + chunkLeft
       /\ fed <= fed' /\ fed' <= query.maxBytes
  <2>1. PICK took : took = batch.consumed
    OBVIOUS
  <2>2. took \in 0 .. size
    BY <1>13, <2>1
  <2>3. took \in Nat /\ took <= chunkLeft /\ took <= query.maxBytes - fed
    BY <1>2, <1>5, <2>2
  <2>4. fed' = fed + took /\ chunkLeft' = chunkLeft - took
    BY <1>12, <2>1
  <2>5. QED BY <1>2, <2>3, <2>4
<1>15. RawBoundaries'
  BY <1>1, <1>14 DEF RawBoundaries
<1>16. CASE fed = query.maxBytes
  <2>1. scan' = [scan EXCEPT !.coverage = "budget"]
    BY <1>1, <1>12, <1>16 DEF Exhausted
  <2>2. fed' = fed
    BY <1>2, <1>14, <1>16
  <2>3. scan' \in RawScans /\ scan'.cursor = scan.cursor /\ scan'.matches = ms
        /\ scan'.coverage = "budget"
    BY <1>2, <1>3, <2>1 DEF RawScans, RawCoverages
  <2>4. scan'.cursor.scanned = fed'
    BY <1>1, <2>2, <2>3 DEF RawTypes
  <2>5. RawTypes'
    <3>1. fed' + chunkLeft' <= Len(scanned)
      BY <1>2, <1>14
    <3>2. QED BY <1>1, <1>7, <1>14, <2>3, <2>4, <3>1 DEF RawTypes
  <2>6. RawFinds'
    BY <1>1, <1>4, <1>7, <2>2, <2>3 DEF RawFinds, L
  <2>7. RawCovers'
    BY <1>1, <1>4, <1>7, <1>16, <2>3 DEF RawCovers
  <2>8. ~Running(scan)'
    BY <2>3 DEF Running
  <2>9. QED BY <1>15, <2>5, <2>6, <2>7, <2>8 DEF RawInv
<1>17. CASE fed # query.maxBytes
  <2>1. PICK s : s = [scan EXCEPT !.cursor = batch.cursor]
    OBVIOUS
  <2>2. s \in RawScans /\ s.cursor = batch.cursor /\ s.matches = ms
        /\ s.coverage = "running"
    BY <1>1, <1>2, <1>3, <1>13, <2>1 DEF RawScans
  <2>3. scan' = AdmitAll(s, hits)
    BY <1>12, <1>17, <2>1
  <2>4. PICK top : top = fed'
    OBVIOUS
  <2>5. top \in Nat /\ fed <= top /\ top = fed + batch.consumed
    BY <1>12, <1>14, <2>4
  <2>6. AdmittedSo(s, s, Ends, L, 0, top)
    <3>1. \A k \in 1 .. Len(ms) : ms[k].to <= top
      <4>1. \A k \in 1 .. Len(ms) : ms[k] \in Hits /\ ms[k].to \in Nat
        <5>1. \A k \in 1 .. Len(ms) : ms[k] \in Hits
          BY <1>4, ElementOfSeq
        <5>2. \A h \in Hits : h.to \in Nat
          BY DEF Hits
        <5>3. QED BY <5>1, <5>2
      <4>2. QED BY <1>2, <1>4, <2>5, <4>1
    <3>2. Len(s.matches) = Len(s.matches) + 0
      BY <1>4, <2>2
    <3>3. QED BY <1>4, <2>2, <3>1, <3>2 DEF AdmittedSo
  <2>7. Listed(batch.hits, Ends, fed, top)
    BY <1>10, <2>5 DEF GoodBatch
  <2>8. batch.hits \in Seq(Nat) /\ DOMAIN batch.hits = 1 .. Len(batch.hits)
        /\ Len(batch.hits) = Upto(Ends, top) - Upto(Ends, fed)
    BY <2>7, LenProperties DEF Listed
  <2>9. Len(hits) = Len(batch.hits)
        /\ \A k \in 1 .. Len(hits) :
             hits[k] = [from |-> batch.hits[k] - L, to |-> batch.hits[k]]
    BY <1>11, <1>13, <2>8
  <2>10. ASSUME NEW k \in 1 .. Len(hits)
         PROVE  hits[k] \in Hits /\ hits[k].to <= top
                /\ IsHit(Ends, L, Len(s.matches) + k, hits[k])
    <3>1. PICK e : e = batch.hits[k]
      OBVIOUS
    <3>2. e \in Ends /\ e <= top /\ Upto(Ends, e) = Upto(Ends, fed) + k
      BY <2>7, <2>8, <2>9, <3>1 DEF Listed
    <3>3. hits[k] = [from |-> e - L, to |-> e]
      BY <2>9, <3>1
    <3>4. e \in Nat /\ L <= e
      BY <1>6, <3>2 DEF Ends, EndsIn, L
    <3>5. e - L \in Nat
      BY <1>2, <3>4
    <3>6. hits[k] \in Hits /\ hits[k].to = e
      BY <3>3, <3>4, <3>5 DEF Hits
    <3>7. Upto(Ends, e) = Len(s.matches) + k
      BY <1>4, <2>2, <3>2
    <3>8. QED BY <3>2, <3>3, <3>6, <3>7 DEF IsHit
  <2>11. Len(hits) \in Nat
    BY <1>13, <2>9
  <2>12. AdmittedSo(scan', s, Ends, L, Len(hits), top)
    BY <1>2, <2>3, <2>5, <2>6, <2>10, <2>11, HitsAdmitted
  <2>13. scan' \in RawScans /\ scan'.cursor = batch.cursor
         /\ Firsts(scan'.matches, Ends, L)
         /\ (\A k \in 1 .. Len(scan'.matches) : scan'.matches[k].to <= top)
         /\ Len(scan'.matches) <= query.maxMatches
    BY <2>2, <2>12 DEF AdmittedSo
  <2>14. RawTypes'
    <3>1. fed' + chunkLeft' <= Len(scanned)
      BY <1>2, <1>14
    <3>2. scan'.cursor.scanned = fed'
      BY <1>12, <1>13, <2>13
    <3>3. QED BY <1>1, <1>7, <1>14, <2>13, <3>1, <3>2 DEF RawTypes
  <2>15. RawFinds'
    BY <1>1, <1>7, <2>4, <2>13 DEF RawFinds, L
  <2>16. RawCovers'
    <3>1. CASE scan'.coverage = "running"
      <4>1. Len(scan'.matches) = Len(ms) + Len(hits)
        BY <2>2, <2>12, <3>1 DEF AdmittedSo
      <4>2. Upto(Ends, fed) \in Nat /\ Upto(Ends, top) \in Nat
        BY <1>2, <1>6, <2>5
      <4>3. Len(scan'.matches) = Upto(Ends, top)
        <5>1. PICK a, b : a = Upto(Ends, fed) /\ b = Upto(Ends, top)
          OBVIOUS
        <5>2. a \in Nat /\ b \in Nat /\ a + (b - a) = b
          BY <4>2, <5>1
        <5>3. QED BY <1>4, <2>8, <2>9, <4>1, <5>1, <5>2
      <4>4. QED BY <1>7, <2>4, <3>1, <4>3 DEF RawCovers
    <3>2. CASE scan'.coverage # "running"
      <4>1. scan'.coverage = "truncated" /\ Len(scan'.matches) = query.maxMatches
        BY <2>12, <3>2 DEF AdmittedSo
      <4>2. PICK h : IsHit(Ends, L, query.maxMatches + 1, h)
        BY <2>12, <3>2 DEF AdmittedSo
      <4>3. PICK e \in Ends : Upto(Ends, e) = query.maxMatches + 1
        BY <4>2 DEF IsHit
      <4>4. e <= Len(scanned) /\ Len(scanned) \in Nat
        BY <1>2, <1>6
      <4>5. Upto(Ends, e) <= Upto(Ends, Len(scanned))
        BY <1>6, <4>4, UptoOrders
      <4>6. query.maxMatches < Cardinality(Ends)
        <5>1. PICK n : n = Cardinality(Ends)
          OBVIOUS
        <5>2. n \in Nat /\ query.maxMatches + 1 <= n
          BY <1>6, <4>3, <4>5, <5>1
        <5>3. query.maxMatches < n
          BY <1>2, <5>2
        <5>4. QED BY <5>1, <5>3
      <4>7. QED BY <1>1, <1>7, <4>1, <4>6 DEF RawCovers
    <3>3. QED BY <3>1, <3>2
  <2>17. RawFollows'
    <3>1. low \in 0 .. fed'
      BY <1>2, <1>14
    <3>2. Follows(Needle, scanned, low, fed', scan'.cursor.matched)
      BY <1>10, <1>12, <2>13 DEF GoodBatch
    <3>3. QED BY <1>1, <1>7, <1>8, <1>14, <3>1, <3>2 DEF RawFollows
  <2>18. QED BY <1>15, <2>14, <2>15, <2>16, <2>17 DEF RawInv
<1>18. QED BY <1>16, <1>17

LEMMA RawStopsWell ==
  ASSUME query.mode = "raw", RawInv, EndScan \/ CancelScan
  PROVE  RawInv'
<1>1. RawTypes /\ RawBoundaries /\ RawFinds /\ RawCovers
      /\ scan.coverage = "running" /\ Running(scan)
      /\ scanned' = scanned /\ query' = query /\ fed' = fed
      /\ chunkLeft' = chunkLeft /\ cuts' = cuts
  BY DEF RawInv, EndScan, CancelScan, Scanning, Running
<1>2. PICK v : /\ v = IF EndScan THEN "exhaustive" ELSE "canceled"
               /\ scan' = [scan EXCEPT !.coverage = v]
  <2>1. EndScan => scan' = [scan EXCEPT !.coverage = "exhaustive"]
    BY <1>1 DEF EndScan
  <2>2. ~EndScan => scan' = [scan EXCEPT !.coverage = "canceled"]
    BY DEF CancelScan
  <2> HIDE DEF EndScan
  <2>3. QED BY <2>1, <2>2
<1>3. scan \in RawScans
  BY <1>1 DEF RawTypes
<1>4. /\ scan' \in RawScans /\ scan'.cursor = scan.cursor /\ scan'.matches = scan.matches
      /\ scan'.coverage = v
  BY <1>2, <1>3 DEF RawScans, RawCoverages
<1>5. Ends' = Ends /\ Needle' = Needle
  BY <1>1 DEF Ends, Needle
<1>6. RawTypes'
  BY <1>1, <1>4, <1>5 DEF RawTypes
<1>7. RawBoundaries'
  BY <1>1 DEF RawBoundaries
<1>8. RawFinds'
  BY <1>1, <1>4, <1>5 DEF RawFinds
<1>9. RawCovers'
  <2>1. CASE EndScan
    <3>1. fed = Len(scanned) /\ v = "exhaustive"
      BY <1>2, <2>1 DEF EndScan
    <3>2. Cardinality(Ends) = Upto(Ends, Len(scanned))
      BY <1>1, EndsKnown DEF RawTypes, Ends
    <3>3. Len(scan.matches) = Cardinality(Ends)
      BY <1>1, <3>1, <3>2 DEF RawCovers
    <3>4. QED BY <1>4, <1>5, <3>1, <3>3 DEF RawCovers
  <2>2. CASE ~EndScan
    BY <1>2, <1>4, <2>2 DEF RawCovers
  <2>3. QED BY <2>1, <2>2
<1>10. ~Running(scan)'
  BY <1>2, <1>4 DEF Running
<1>11. QED BY <1>6, <1>7, <1>8, <1>9, <1>10 DEF RawInv

LEMMA RawKept ==
  ASSUME RawInv, [ScanNext]_scanVars
  PROVE  RawInv'
<1> SUFFICES ASSUME query'.mode = "raw"
             PROVE  RawInv'
  BY DEF RawInv
<1>1. query' = query
  BY DEF ScanNext, BeginChunk, FillWindow, StepRaw, EndScan, CancelScan, scanVars
<1>2. query.mode = "raw"
  BY <1>1
<1>3. ASSUME NEW n \in ChunkSizes, BeginChunk(n)
      PROVE  RawInv'
  BY <1>2, <1>3, ScanAssumption, ChunkBegins
<1>4. ~FillWindow
  BY <1>2 DEF FillWindow
<1>5. CASE StepRaw
  BY <1>2, <1>5, RawSteps
<1>6. CASE EndScan
  BY <1>2, <1>6, RawStopsWell
<1>7. CASE CancelScan
  BY <1>2, <1>7, RawStopsWell
<1>8. CASE UNCHANGED scanVars
  <2>1. scanned' = scanned /\ fed' = fed /\ chunkLeft' = chunkLeft /\ cuts' = cuts
        /\ scan' = scan
    BY <1>8 DEF scanVars
  <2>2. RawTypes /\ RawBoundaries /\ RawFinds /\ RawCovers /\ (Running(scan) => RawFollows)
    BY <1>2 DEF RawInv
  <2>3. Ends' = Ends /\ Needle' = Needle
    BY <1>1, <2>1 DEF Ends, Needle
  <2>4. RawTypes' /\ RawBoundaries'
    BY <1>1, <2>1, <2>2, <2>3 DEF RawTypes, RawBoundaries
  <2>5. RawFinds' /\ RawCovers'
    BY <1>1, <2>1, <2>2, <2>3 DEF RawFinds, RawCovers
  <2>6. (Running(scan) => RawFollows)'
    BY <1>1, <2>1, <2>2, <2>3 DEF RawFollows
  <2>7. QED BY <2>4, <2>5, <2>6 DEF RawInv
<1>9. QED BY <1>3, <1>4, <1>5, <1>6, <1>7, <1>8 DEF ScanNext

\* A search for bytes reports just what stands in the file, whatever the file,
\* the needle and the limits, however chunks cut it and wherever a batch, a
\* budget or a cancellation stops the cursor: the table carries it from byte to
\* byte, over the ends of batches and of chunks, and over nothing else.
THEOREM RawScansAreExact == ScanSpec => []RawScanIsExact
<1>1. ScanInit => RawInv
  BY RawInitially
<1>2. RawInv /\ [ScanNext]_scanVars => RawInv'
  BY RawKept
<1>3. RawInv => RawScanIsExact
  BY RawReports DEF RawInv, RawScanIsExact
<1>4. QED BY <1>1, <1>2, <1>3, PTL DEF ScanSpec

-----------------------------------------------------------------------------
(* A search of a reader: it is never at a loss.                            *)

LEMMA PrefixIsNumber ==
  ASSUME NEW bytes, Len(bytes) \in Nat, NEW enc
  PROVE  CompletePrefix(bytes, enc) \in Nat
<1> DEFINE L == Len(bytes)
<1>1. ASSUME NEW from \in Nat PROVE NextValid(bytes, from) \in Nat
  <2> DEFINE rest == Rest(bytes, from)
             n == Needed(rest[1])
  <2>1. n \in Nat
    BY DEF Needed
  <2>2. Utf8Token(rest).len.raw \in {1, n}
    BY DEF Utf8Token, Token, Replaced, At
  <2>3. Utf8Token(rest).len.raw \in Nat
    BY <2>1, <2>2
  <2> HIDE DEF rest
  <2>4. QED BY <2>3 DEF NextValid, rest
<1> DEFINE good == [n \in 0 .. L |-> Nat]
           step == [n \in 1 .. L |-> [x \in Nat |-> NextValid(bytes, x)]]
           Runs(f) == f = [n \in 0 .. L |-> IF n = 0 THEN 0 ELSE NextValid(bytes, f[n - 1])]
<1>2. \A n \in 1 .. L : n - 1 \in 0 .. L /\ n \in 0 .. L /\ n # 0
  OBVIOUS
<1>3. PICK f : IsRun(f, L, 0, step) /\ \A n \in 0 .. L : f[n] \in good[n]
  <2>1. 0 \in good[0]
    OBVIOUS
  <2>2. \A n \in 1 .. L : step[n] \in [good[n - 1] -> good[n]]
    <3>1. ASSUME NEW n \in 1 .. L PROVE step[n] \in [good[n - 1] -> good[n]]
      <4>1. good[n - 1] = Nat /\ good[n] = Nat
        BY <1>2
      <4>2. step[n] = [x \in Nat |-> NextValid(bytes, x)]
        OBVIOUS
      <4> HIDE DEF good, step
      <4>3. QED BY <1>1, <4>1, <4>2
    <3>2. QED BY <3>1
  <2> HIDE DEF good, step
  <2>3. QED BY <2>1, <2>2, RunExists
<1>4. Runs(f)
  <2>1. f = [n \in 0 .. L |-> f[n]] /\ f[0] = 0
    BY <1>3 DEF IsRun
  <2>2. ASSUME NEW n \in 1 .. L PROVE f[n] = NextValid(bytes, f[n - 1])
    <3>1. f[n] = step[n][f[n - 1]]
      BY <1>2, <1>3 DEF IsRun
    <3>2. f[n - 1] \in Nat
      BY <1>2, <1>3
    <3>3. QED BY <3>1, <3>2
  <2>3. \A n \in 0 .. L : n = 0 \/ n \in 1 .. L
    OBVIOUS
  <2> HIDE DEF good, step
  <2>4. QED BY <2>1, <2>2, <2>3
<1> DEFINE after == CHOOSE g : Runs(g)
<1>5. Runs(after)
  BY <1>4
<1>6. ValidUpTo(bytes) = after[L]
  BY DEF ValidUpTo
<1> HIDE DEF after, good, step
<1>7. after[L] = f[L]
  <2>1. after[0] = 0 /\ f[0] = 0
    BY <1>4, <1>5
  <2>2. \A n \in 1 .. L : after[n] = NextValid(bytes, after[n - 1])
                          /\ f[n] = NextValid(bytes, f[n - 1])
    BY <1>2, <1>4, <1>5
  <2>3. \A n \in 1 .. L : after[n - 1] = f[n - 1] => after[n] = f[n]
    BY <2>2
  <2> HIDE DEF Runs
  <2>4. QED BY <2>1, <2>3, RunsAlike
<1>8. ValidUpTo(bytes) \in Nat
  <2>1. f[L] \in good[L]
    BY <1>3
  <2>2. QED BY <1>6, <1>7, <2>1 DEF good
<1>9. L - (L % 2) - (IF Utf16HeldBack(bytes, enc) >= 2 THEN 2 ELSE 0) \in Nat
  <2>1. PICK odd : odd = L % 2
    OBVIOUS
  <2>2. odd \in {0, 1} /\ L - odd \in Nat
    BY <2>1
  <2>3. Utf16HeldBack(bytes, enc) >= 2 => L - odd >= 2
    BY <2>1, <2>2 DEF Utf16HeldBack
  <2>4. QED BY <2>1, <2>2, <2>3
<1>10. QED BY <1>8, <1>9 DEF CompletePrefix, Utf8Prefix

LEMMA TakenIsNumber ==
  ASSUME NEW needle, NEW cursor, NEW bytes, Len(bytes) \in Nat,
         NEW work \in Nat, NEW limit
  PROVE  LET batch == CursorStep(needle, cursor, bytes, work, limit)
         IN  batch.consumed \in Nat
<1> DEFINE size == IF work < Len(bytes) THEN work ELSE Len(bytes)
           table == Failure(needle)
           first == [cursor |-> cursor, consumed |-> 0, hits |-> <<>>]
           Steps(f, k) == f = [n \in 0 .. k |->
             IF n = 0 THEN first ELSE StepByte(needle, table, f[n - 1], bytes[n], limit)]
           Good(f, k) == \A n \in 0 .. k : f[n].consumed \in Nat
           bad == {k \in 0 .. size : ~ \E f : Steps(f, k)}
<1>1. size \in Nat
  OBVIOUS
<1>2. \E f : Steps(f, 0)
  <2> DEFINE f == [n \in 0 .. 0 |-> first]
  <2>1. f = [n \in 0 .. 0 |-> IF n = 0 THEN first
                              ELSE StepByte(needle, table, f[n - 1], bytes[n], limit)]
    OBVIOUS
  <2>2. QED BY <2>1
<1>3. ASSUME NEW k \in Nat, NEW f, Steps(f, k)
      PROVE  \E g : Steps(g, k + 1)
  <2> DEFINE g == [n \in 0 .. (k + 1) |->
                     IF n <= k THEN f[n]
                     ELSE StepByte(needle, table, f[k], bytes[k + 1], limit)]
  <2>1. \A n \in 0 .. k : f[n] = IF n = 0 THEN first
                                 ELSE StepByte(needle, table, f[n - 1], bytes[n], limit)
    BY <1>3
  <2>2. \A n \in 0 .. (k + 1) : n = 0 \/ n - 1 \in 0 .. k
    OBVIOUS
  <2>3. \A n \in 0 .. (k + 1) : n \in 0 .. k \/ n = k + 1
    OBVIOUS
  <2>4. \A n \in 0 .. k : g[n] = f[n]
    OBVIOUS
  <2>5. g[k + 1] = StepByte(needle, table, f[k], bytes[k + 1], limit)
    OBVIOUS
  <2>6. g = [n \in 0 .. (k + 1) |-> g[n]]
    OBVIOUS
  <2>7. 0 \in 0 .. k /\ k \in 0 .. k /\ (k + 1) - 1 = k /\ k + 1 # 0
    OBVIOUS
  <2> HIDE DEF g, first, table
  <2>8. ASSUME NEW n \in 0 .. (k + 1)
        PROVE  g[n] = IF n = 0 THEN first
                      ELSE StepByte(needle, table, g[n - 1], bytes[n], limit)
    <3>1. CASE n = k + 1
      BY <2>4, <2>5, <2>7, <3>1
    <3>2. CASE n \in 0 .. k
      <4>1. n = 0 \/ n - 1 \in 0 .. k
        BY <2>2
      <4>2. QED BY <2>1, <2>4, <3>2, <4>1
    <3>3. QED BY <2>3, <3>1, <3>2
  <2>9. QED BY <2>6, <2>8
<1>4. \E f : Steps(f, size)
  <2> SUFFICES ASSUME size \in bad PROVE FALSE
    BY <1>1
  <2>1. PICK k \in bad : \A n \in bad : k <= n
    <3>1. bad \in SUBSET Nat /\ bad # {}
      OBVIOUS
    <3> HIDE DEF bad
    <3>2. QED BY <3>1, LeastNumber
  <2>2. k \in 0 .. size /\ ~ \E f : Steps(f, k)
    OBVIOUS
  <2> HIDE DEF Steps
  <2>3. k # 0
    BY <1>2, <2>2
  <2>4. k - 1 \in Nat /\ k - 1 \in 0 .. size /\ ~(k <= k - 1) /\ (k - 1) + 1 = k
    BY <2>2, <2>3
  <2>5. PICK f : Steps(f, k - 1)
    BY <2>1, <2>4
  <2>6. \E g : Steps(g, (k - 1) + 1)
    BY <1>3, <2>4, <2>5
  <2>7. QED BY <2>2, <2>4, <2>6
<1> DEFINE after == CHOOSE g : Steps(g, size)
<1>5. Steps(after, size)
  BY <1>4
<1>6. CursorStep(needle, cursor, bytes, work, limit) = after[size]
  BY DEF CursorStep
<1> HIDE DEF after, first, table
<1>7. after[0].consumed = 0
  BY <1>1, <1>5 DEF first
<1>8. ASSUME NEW n \in 1 .. size, after[n - 1].consumed \in Nat
      PROVE  after[n].consumed \in Nat
  <2>1. after[n] = StepByte(needle, table, after[n - 1], bytes[n], limit)
    <3>1. n \in 0 .. size /\ n # 0
      BY <1>1
    <3>2. QED BY <1>5, <3>1
  <2>2. PICK s : s = after[n - 1]
    OBVIOUS
  <2>3. s.consumed + 1 \in Nat
    BY <1>8, <2>2
  <2>4. after[n].consumed = s.consumed \/ after[n].consumed = s.consumed + 1
    BY <2>1, <2>2 DEF StepByte
  <2>5. QED BY <1>8, <2>2, <2>3, <2>4
<1> HIDE DEF Steps
<1>9. \A n \in 0 .. size : after[n].consumed \in Nat
  <2> DEFINE wrong == {n \in 0 .. size : after[n].consumed \notin Nat}
  <2> SUFFICES ASSUME wrong # {} PROVE FALSE
    OBVIOUS
  <2>1. PICK n \in wrong : \A j \in wrong : n <= j
    <3>1. wrong \in SUBSET Nat
      BY <1>1
    <3> HIDE DEF wrong
    <3>2. QED BY <3>1, LeastNumber
  <2>2. n \in 0 .. size /\ after[n].consumed \notin Nat
    OBVIOUS
  <2>3. n # 0
    BY <1>7, <2>2
  <2>4. n \in 1 .. size /\ n - 1 \in 0 .. size /\ ~(n <= n - 1)
    BY <1>1, <2>2, <2>3
  <2>5. n - 1 \notin wrong
    BY <2>1, <2>4
  <2>6. QED BY <1>8, <2>2, <2>4, <2>5
<1>10. QED BY <1>1, <1>6, <1>9

IsReader(r) ==
  r = [buffer |-> r.buffer, base |-> r.base, ready |-> r.ready, consumed |-> r.consumed,
       eof |-> r.eof, encoding |-> r.encoding, decided |-> r.decided, header |-> r.header,
       cursor |-> r.cursor, hits |-> r.hits, seen |-> r.seen,
       unsupportedAt |-> r.unsupportedAt, bytesRead |-> r.bytesRead, calls |-> r.calls,
       state |-> r.state]

\* All but what was found.
SameInput(r, s) ==
  /\ IsReader(r)
  /\ r.buffer = s.buffer /\ r.base = s.base /\ r.ready = s.ready /\ r.consumed = s.consumed
  /\ r.eof = s.eof /\ r.encoding = s.encoding /\ r.decided = s.decided
  /\ r.header = s.header /\ r.cursor = s.cursor
  /\ r.bytesRead = s.bytesRead /\ r.calls = s.calls

LEMMA OneAccepted ==
  ASSUME NEW s, IsReader(s), NEW to
  PROVE  SameInput(AcceptOne(s, to), s)
<1> DEFINE from == to - Len(Wanted(s))
           t == [s EXCEPT !.seen = @ + 1]
           hit == [occurrence |-> t.seen, from |-> from, to |-> to]
           cut == [t EXCEPT !.state = "truncated"]
           more == [t EXCEPT !.hits = Append(@, hit)]
<1>1. AcceptOne(s, to) \in {s, cut, more}
  BY DEF AcceptOne
<1>2. SameInput(s, s)
  BY DEF SameInput
<1> HIDE DEF hit
<1>3. SameInput(t, s)
  BY DEF IsReader, SameInput
<1>4. SameInput(cut, s)
  <2> HIDE DEF t
  <2>1. SameInput(cut, t)
    BY <1>3 DEF IsReader, SameInput
  <2>2. QED BY <1>3, <2>1 DEF SameInput
<1>5. SameInput(more, s)
  <2> HIDE DEF t
  <2>1. SameInput(more, t)
    <3>1. PICK h : h = Append(t.hits, hit)
      OBVIOUS
    <3>2. more = [t EXCEPT !.hits = h]
      BY <3>1
    <3> HIDE DEF more
    <3>3. QED BY <1>3, <3>2 DEF IsReader, SameInput
  <2>2. QED BY <1>3, <2>1 DEF SameInput
<1> HIDE DEF cut, more
<1>6. QED BY <1>1, <1>2, <1>4, <1>5

AcceptedRun(f, s, ends, N) ==
  f = [n \in 0 .. N |-> IF n = 0 THEN s ELSE AcceptOne(f[n - 1], ends[n])]

LEMMA AcceptedRuns ==
  ASSUME NEW s, NEW ends, NEW N \in Nat
  PROVE  \E f : AcceptedRun(f, s, ends, N)
<1> DEFINE Steps(f, k) ==
             f = [n \in 0 .. k |-> IF n = 0 THEN s ELSE AcceptOne(f[n - 1], ends[n])]
           bad == {k \in 0 .. N : ~ \E f : Steps(f, k)}
<1>1. \E f : Steps(f, 0)
  <2> DEFINE f == [n \in 0 .. 0 |-> s]
  <2>1. f = [n \in 0 .. 0 |-> IF n = 0 THEN s ELSE AcceptOne(f[n - 1], ends[n])]
    OBVIOUS
  <2>2. QED BY <2>1
<1>2. ASSUME NEW k \in Nat, NEW f, Steps(f, k)
      PROVE  \E g : Steps(g, k + 1)
  <2> DEFINE g == [n \in 0 .. (k + 1) |->
                     IF n <= k THEN f[n] ELSE AcceptOne(f[k], ends[k + 1])]
  <2>1. \A n \in 0 .. k : f[n] = IF n = 0 THEN s ELSE AcceptOne(f[n - 1], ends[n])
    BY <1>2
  <2>2. \A n \in 0 .. (k + 1) : n = 0 \/ n - 1 \in 0 .. k
    OBVIOUS
  <2>3. \A n \in 0 .. (k + 1) : n \in 0 .. k \/ n = k + 1
    OBVIOUS
  <2>4. \A n \in 0 .. k : g[n] = f[n]
    OBVIOUS
  <2>5. g[k + 1] = AcceptOne(f[k], ends[k + 1])
    OBVIOUS
  <2>6. g = [n \in 0 .. (k + 1) |-> g[n]]
    OBVIOUS
  <2>7. 0 \in 0 .. k /\ k \in 0 .. k /\ (k + 1) - 1 = k /\ k + 1 # 0
    OBVIOUS
  <2> HIDE DEF g
  <2>8. ASSUME NEW n \in 0 .. (k + 1)
        PROVE  g[n] = IF n = 0 THEN s ELSE AcceptOne(g[n - 1], ends[n])
    <3>1. CASE n = k + 1
      BY <2>4, <2>5, <2>7, <3>1
    <3>2. CASE n \in 0 .. k
      <4>1. n = 0 \/ n - 1 \in 0 .. k
        BY <2>2
      <4>2. QED BY <2>1, <2>4, <3>2, <4>1
    <3>3. QED BY <2>3, <3>1, <3>2
  <2>9. QED BY <2>6, <2>8
<1> SUFFICES ASSUME N \in bad PROVE FALSE
  BY DEF AcceptedRun
<1>3. PICK k \in bad : \A n \in bad : k <= n
  <2>1. bad \in SUBSET Nat /\ bad # {}
    OBVIOUS
  <2> HIDE DEF bad
  <2>2. QED BY <2>1, LeastNumber
<1>4. k \in 0 .. N /\ ~ \E f : Steps(f, k)
  OBVIOUS
<1> HIDE DEF Steps
<1>5. k # 0
  BY <1>1, <1>4
<1>6. k - 1 \in Nat /\ k - 1 \in 0 .. N /\ ~(k <= k - 1) /\ (k - 1) + 1 = k
  BY <1>4, <1>5
<1>7. PICK f : Steps(f, k - 1)
  BY <1>3, <1>6
<1>8. \E g : Steps(g, (k - 1) + 1)
  BY <1>2, <1>6, <1>7
<1>9. QED BY <1>4, <1>6, <1>8

LEMMA AcceptedKeeps ==
  ASSUME NEW s, IsReader(s), NEW ends, Len(ends) \in Nat
  PROVE  SameInput(Accepted(s, ends), s)
<1> DEFINE N == Len(ends)
           after == CHOOSE f : AcceptedRun(f, s, ends, N)
           wrong == {n \in 0 .. N : ~SameInput(after[n], s)}
<1>1. AcceptedRun(after, s, ends, N)
  BY AcceptedRuns
<1>2. Accepted(s, ends) = after[N]
  BY DEF Accepted, AcceptedRun
<1> HIDE DEF after
<1>3. after[0] = s /\ \A n \in 1 .. N : after[n] = AcceptOne(after[n - 1], ends[n])
  <2>1. 0 \in 0 .. N /\ \A n \in 1 .. N : n \in 0 .. N /\ n # 0
    OBVIOUS
  <2>2. QED BY <1>1, <2>1 DEF AcceptedRun
<1>4. SameInput(s, s)
  BY DEF SameInput
<1>5. wrong = {}
  <2> SUFFICES ASSUME wrong # {} PROVE FALSE
    OBVIOUS
  <2>1. PICK n \in wrong : \A j \in wrong : n <= j
    <3>1. wrong \in SUBSET Nat
      OBVIOUS
    <3> HIDE DEF wrong
    <3>2. QED BY <3>1, LeastNumber
  <2>2. n \in 0 .. N /\ ~SameInput(after[n], s)
    OBVIOUS
  <2>3. n # 0
    BY <1>3, <1>4, <2>2
  <2>4. n \in 1 .. N /\ n - 1 \in 0 .. N /\ ~(n <= n - 1)
    BY <2>2, <2>3
  <2>5. SameInput(after[n - 1], s)
    BY <2>1, <2>4
  <2>6. SameInput(after[n], after[n - 1])
    BY <1>3, <2>4, <2>5, OneAccepted DEF SameInput
  <2>7. SameInput(after[n], s)
    BY <2>5, <2>6 DEF SameInput
  <2>8. QED BY <2>2, <2>7
<1>6. N \in 0 .. N
  OBVIOUS
<1>7. QED BY <1>2, <1>5, <1>6

InputTypes ==
  /\ input.bytes \in Seq(0 .. 255) /\ input.length \in Nat
  /\ request.maxMatches \in Nat /\ request.maxBytes \in Nat /\ request.maxCalls \in Nat

ReaderTypes(s) ==
  /\ IsReader(s)
  /\ s.buffer \in Seq(0 .. 255)
  /\ s.bytesRead \in Nat /\ s.bytesRead <= input.length /\ s.bytesRead <= request.maxBytes
  /\ s.calls \in Nat

\* What the bytes are searched for, and what was found, while they are read.
SameSearch(s, r) ==
  /\ IsReader(s)
  /\ s.base = r.base /\ s.ready = r.ready /\ s.consumed = r.consumed
  /\ s.encoding = r.encoding /\ s.decided = r.decided /\ s.header = r.header
  /\ s.cursor = r.cursor /\ s.hits = r.hits /\ s.seen = r.seen /\ s.state = r.state

\* No byte came, or n of them.
NothingCame(s, r) ==
  /\ s.buffer = r.buffer /\ s.bytesRead = r.bytesRead
  /\ s.eof = r.eof \/ Len(input.bytes) - r.bytesRead <= 0

BytesCame(s, r, n) ==
  /\ r.ready = 0
  /\ n <= Len(input.bytes) - r.bytesRead
  /\ n <= input.length - r.bytesRead /\ n <= request.maxBytes - r.bytesRead
  /\ s.buffer = r.buffer \o SubSeq(input.bytes, r.bytesRead + 1, r.bytesRead + n)
  /\ s.bytesRead = r.bytesRead + n
  /\ s.eof = r.eof

LEMMA ReadsBring ==
  ASSUME InputTypes, NEW r, ReaderTypes(r), NEW budget \in StepBudgets,
         NEW s \in Reads(r, budget)
  PROVE  /\ r.ready # 0 => s = r
         /\ SameSearch(s, r) /\ s.calls \in Nat
         /\ NothingCame(s, r) \/ \E n \in Nat : n > 0 /\ BytesCame(s, r, n)
<1> DEFINE left == Len(input.bytes) - r.bytesRead
           calls == CallsLeft(r, budget)
           sizes == 1 .. Smaller(Room(r, budget), left)
           Final(t) == IF left <= 0 THEN {[t EXCEPT !.eof = TRUE, !.calls = @ + 1]}
                       ELSE {Received(t, n) : n \in sizes}
<1>1. SameSearch(r, r) /\ NothingCame(r, r) /\ r.calls \in Nat
  BY DEF ReaderTypes, SameSearch, NothingCame
<1>2. CASE ~MayRead(r)
  <2>1. s = r
    BY <1>2 DEF Reads
  <2>2. QED BY <1>1, <2>1
<1>3. CASE MayRead(r)
  <2>1. r.ready = 0 /\ r.bytesRead \in Nat /\ r.calls \in Nat /\ input.length \in Nat
        /\ request.maxBytes \in Nat /\ Len(input.bytes) \in Nat /\ left \in Int
        /\ request.maxCalls \in Nat /\ r.calls < request.maxCalls /\ IsReader(r)
    BY <1>3, LenProperties DEF MayRead, InputTypes, ReaderTypes
  <2>2. calls \in Nat
    BY <2>1, ReadAssumption DEF CallsLeft, Smaller
  <2>3. \A n \in Nat : /\ SameSearch(Interrupted(r, n), r)
                       /\ Interrupted(r, n).calls \in Nat
                       /\ Interrupted(r, n).buffer = r.buffer
                       /\ Interrupted(r, n).bytesRead = r.bytesRead
                       /\ Interrupted(r, n).eof = r.eof
    <3>1. ASSUME NEW n \in Nat
          PROVE  /\ SameSearch(Interrupted(r, n), r)
                 /\ Interrupted(r, n).calls \in Nat
                 /\ Interrupted(r, n).buffer = r.buffer
                 /\ Interrupted(r, n).bytesRead = r.bytesRead
                 /\ Interrupted(r, n).eof = r.eof
      <4>1. PICK k : k = r.calls + n
        OBVIOUS
      <4>2. Interrupted(r, n) = [r EXCEPT !.calls = k] /\ k \in Nat
        BY <2>1, <4>1 DEF Interrupted
      <4>3. PICK t : t = [r EXCEPT !.calls = k]
        OBVIOUS
      <4>4. SameSearch(t, r) /\ t.calls = k /\ t.buffer = r.buffer
            /\ t.bytesRead = r.bytesRead /\ t.eof = r.eof
        BY <2>1, <4>3 DEF SameSearch, IsReader
      <4>5. QED BY <4>2, <4>3, <4>4
    <3>2. QED BY <3>1
  <2>4. s = Interrupted(r, calls) \/ \E n \in 0 .. (calls - 1) : s \in Final(Interrupted(r, n))
    BY <1>3 DEF Reads
  <2>5. CASE s = Interrupted(r, calls)
    BY <2>1, <2>2, <2>3, <2>5 DEF NothingCame
  <2>6. CASE \E n \in 0 .. (calls - 1) : s \in Final(Interrupted(r, n))
    <3>1. PICK k \in 0 .. (calls - 1) : s \in Final(Interrupted(r, k))
      BY <2>6
    <3>2. PICK t : t = Interrupted(r, k)
      OBVIOUS
    <3>3. SameSearch(t, r) /\ t.calls \in Nat /\ t.calls + 1 \in Nat /\ t.buffer = r.buffer
          /\ t.bytesRead = r.bytesRead /\ t.eof = r.eof
      <4>1. k \in Nat
        BY <2>2
      <4>2. SameSearch(t, r) /\ t.calls \in Nat /\ t.buffer = r.buffer
            /\ t.bytesRead = r.bytesRead /\ t.eof = r.eof
        BY <2>3, <3>2, <4>1
      <4>3. QED BY <4>2
    <3>4. CASE left <= 0
      <4>1. s = [t EXCEPT !.eof = TRUE, !.calls = @ + 1]
        BY <3>1, <3>2, <3>4
      <4>2. SameSearch(s, r) /\ s.calls = t.calls + 1 /\ s.buffer = t.buffer
            /\ s.bytesRead = t.bytesRead
        BY <3>3, <4>1 DEF SameSearch, IsReader
      <4>3. NothingCame(s, r)
        BY <3>3, <3>4, <4>2 DEF NothingCame
      <4>4. QED BY <2>1, <3>3, <4>2, <4>3
    <3>5. CASE ~(left <= 0)
      <4>1. PICK n \in sizes : s = Received(t, n)
        BY <3>1, <3>2, <3>5
      <4>2. PICK room : room = Room(r, budget)
        OBVIOUS
      <4>3. room \in Int /\ room <= input.length - r.bytesRead
            /\ room <= request.maxBytes - r.bytesRead
        <5>1. PICK a, b : a = BufferSize - Len(r.buffer) /\ b = budget.bytes
          OBVIOUS
        <5>2. a \in Int /\ b \in Nat
          BY <5>1, ReadAssumption, LenProperties DEF ReaderTypes
        <5>3. PICK o, m, d : o = input.length /\ m = request.maxBytes /\ d = r.bytesRead
          OBVIOUS
        <5>4. PICK x, y : x = Smaller(a, b) /\ y = Smaller(o, m) - d
          OBVIOUS
        <5>5. room = Smaller(x, y)
          BY <4>2, <5>1, <5>3, <5>4 DEF Room
        <5>6. o \in Nat /\ m \in Nat /\ d \in Nat
          BY <2>1, <5>3
        <5>7. x \in Int
          BY <5>2, <5>4 DEF Smaller
        <5>8. y \in Int /\ y <= o - d /\ y <= m - d
          BY <5>4, <5>6 DEF Smaller
        <5>9. room \in Int /\ room <= y
          BY <5>5, <5>7, <5>8 DEF Smaller
        <5>10. room <= o - d /\ room <= m - d
          BY <5>6, <5>8, <5>9
        <5>11. QED BY <5>3, <5>9, <5>10
      <4>4. n \in Nat /\ n > 0 /\ n <= left /\ n <= room
        <5>1. n \in 1 .. Smaller(room, left)
          BY <4>1, <4>2
        <5>2. QED BY <2>1, <4>3, <5>1 DEF Smaller
      <4>5. n <= input.length - r.bytesRead /\ n <= request.maxBytes - r.bytesRead
        BY <2>1, <4>3, <4>4
      <4>6. PICK more : more = t.buffer \o SubSeq(input.bytes, t.bytesRead + 1, t.bytesRead + n)
        OBVIOUS
      <4>7. s = [t EXCEPT !.buffer = more, !.bytesRead = @ + n, !.calls = @ + 1]
        BY <4>1, <4>6 DEF Received
      <4>8. SameSearch(s, r) /\ s.calls = t.calls + 1 /\ s.buffer = more
            /\ s.bytesRead = t.bytesRead + n /\ s.eof = t.eof
        BY <3>3, <4>7 DEF SameSearch, IsReader
      <4>9. BytesCame(s, r, n)
        BY <2>1, <3>3, <4>6, <4>8, <4>4, <4>5 DEF BytesCame
      <4>10. QED BY <2>1, <3>3, <4>8, <4>9, <4>4
    <3>6. QED BY <3>4, <3>5
  <2>7. QED BY <2>4, <2>5, <2>6
<1>4. QED BY <1>2, <1>3

\* A search that pauses where nothing is ready has a call to make.
LEMMA PauseMayRead ==
  ASSUME InputTypes, NEW s, ReaderTypes(s), s.ready = 0, Pending(SettledReader(s)),
         FinalInput(s) => s.buffer = <<>>
  PROVE  SettledReader(s) = s /\ MayRead(s)
<1> DEFINE empty == s.buffer = <<>>
           state == CASE empty /\ s.bytesRead = input.length -> "complete"
                      [] empty /\ s.bytesRead # input.length /\ s.eof -> "short"
                      [] ~(empty /\ (s.bytesRead = input.length \/ s.eof)) ->
                           CASE s.bytesRead >= request.maxBytes -> "bytelimit"
                             [] s.bytesRead < request.maxBytes /\ OutOfCalls(s) -> "calllimit"
                             [] OTHER -> "pending"
<1>1. s.bytesRead \in Nat /\ input.length \in Nat /\ request.maxBytes \in Nat
      /\ s.calls \in Nat /\ request.maxCalls \in Nat /\ s.bytesRead <= input.length
  BY DEF InputTypes, ReaderTypes
<1>2. Pending(s)
  BY DEF SettledReader, Pending
<1>3. SettledReader(s) = [s EXCEPT !.state = state]
  BY <1>2 DEF SettledReader
<1>4. SettledReader(s).state = state
  <2> HIDE DEF state
  <2>1. QED BY <1>3 DEF ReaderTypes, IsReader
<1>5. state = "pending"
  BY <1>4 DEF Pending
<1>6. SettledReader(s) = s
  BY <1>2, <1>3, <1>5 DEF ReaderTypes, IsReader, Pending
<1>7. ~(empty /\ (s.bytesRead = input.length \/ s.eof)) /\ s.bytesRead < request.maxBytes
      /\ ~OutOfCalls(s)
  <2>1. CASE empty /\ s.bytesRead = input.length
    BY <1>5, <2>1
  <2>2. CASE empty /\ s.bytesRead # input.length /\ s.eof
    BY <1>5, <2>2
  <2>3. CASE ~(empty /\ (s.bytesRead = input.length \/ s.eof))
    <3>1. state = CASE s.bytesRead >= request.maxBytes -> "bytelimit"
                    [] s.bytesRead < request.maxBytes /\ OutOfCalls(s) -> "calllimit"
                    [] OTHER -> "pending"
      BY <2>3
    <3>2. QED BY <1>1, <1>5, <2>3, <3>1
  <2>4. QED BY <2>1, <2>2, <2>3
<1>8. ~FinalInput(s)
  BY <1>7 DEF FinalInput
<1>9. MayRead(s)
  BY <1>1, <1>7, <1>8 DEF MayRead, FinalInput, OutOfCalls, Smaller
<1>10. QED BY <1>6, <1>9

\* A search of what was prepared, which came to nothing else than more or less to
\* search.
Waiting(s) ==
  /\ s.consumed \in Nat /\ s.ready \in Nat
  /\ s.ready = 0 => s.consumed = 0
  /\ s.ready > 0 => s.consumed < s.ready
  /\ s.ready > 0 /\ FinalInput(s) => s.ready = Len(s.buffer)

LEMMA PreparedWaits ==
  ASSUME NEW s, ReaderTypes(s), s.ready = 0, s.consumed = 0
  PROVE  LET p == Prepared(s)
         IN  /\ IsReader(p)
             /\ Pending(p) =>
                  /\ ReaderTypes(p) /\ Waiting(p)
                  /\ p.ready = 0 /\ FinalInput(p) => p.buffer = <<>>
<1> DEFINE known == Decided(s)
           n == Ready(known)
           t == [known EXCEPT !.ready = n]
           bad == [t EXCEPT !.unsupportedAt =
                     FirstMalformed(Build(SubSeq(t.buffer, 1, t.ready), t.encoding,
                                          At(t.base, 0, 0, 0))),
                     !.hits = <<>>, !.seen = 0, !.state = "unsupported"]
<1>1. IsReader(known) /\ known.buffer = s.buffer /\ known.consumed = s.consumed
      /\ known.eof = s.eof /\ known.bytesRead = s.bytesRead /\ known.calls = s.calls
      /\ known.state = s.state
  <2>1. PICK e, h : known \in {s, [s EXCEPT !.encoding = e, !.decided = TRUE, !.header = h]}
    BY Zenon DEF Decided
  <2> HIDE DEF known
  <2>2. QED BY <2>1 DEF ReaderTypes, IsReader
<1> HIDE DEF known
<1>2. FinalInput(known) <=> FinalInput(s)
  BY <1>1 DEF FinalInput
<1>3. n \in Nat /\ (FinalInput(known) => n = Len(s.buffer))
  <2>1. Len(known.buffer) \in Nat
    BY <1>1, LenProperties DEF ReaderTypes
  <2>2. CompletePrefix(known.buffer, known.encoding) \in Nat
    BY <2>1, PrefixIsNumber
  <2>3. QED BY <1>1, <2>1, <2>2 DEF Ready
<1> HIDE DEF n
<1>4. IsReader(t) /\ t.buffer = s.buffer /\ t.consumed = 0 /\ t.ready = n
      /\ t.eof = s.eof /\ t.bytesRead = s.bytesRead /\ t.calls = s.calls
      /\ t.state = s.state
  BY <1>1 DEF IsReader
<1> HIDE DEF t
<1>5. IsReader(bad) /\ bad.state = "unsupported"
  <2>1. PICK u : u = FirstMalformed(Build(SubSeq(t.buffer, 1, t.ready), t.encoding,
                                          At(t.base, 0, 0, 0)))
    OBVIOUS
  <2>2. bad = [t EXCEPT !.unsupportedAt = u, !.hits = <<>>, !.seen = 0,
                        !.state = "unsupported"]
    BY <2>1
  <2> HIDE DEF bad
  <2>3. QED BY <1>4, <2>2 DEF IsReader
<1> HIDE DEF bad
<1>6. CASE Undecided(s)
  <2>1. Prepared(s) = s
    BY <1>6 DEF Prepared
  <2>2. ~FinalInput(s)
    BY <1>6 DEF Undecided
  <2>3. QED BY <2>1, <2>2 DEF Waiting, ReaderTypes
<1>7. CASE ~Undecided(s)
  <2>1. Prepared(s) \in {bad, t}
    BY <1>7, Zenon DEF Prepared, bad, t, n, known
  <2>2. Pending(Prepared(s)) => Prepared(s) = t
    BY <1>5, <2>1 DEF Pending
  <2>3. FinalInput(t) <=> FinalInput(s)
    BY <1>4 DEF FinalInput
  <2>4. s.buffer \in Seq(0 .. 255)
    BY DEF ReaderTypes
  <2>5. n = 0 /\ FinalInput(t) => t.buffer = <<>>
    BY <1>2, <1>3, <1>4, <2>3, <2>4, EmptySeq
  <2>6. ReaderTypes(t)
    BY <1>4 DEF ReaderTypes
  <2>7. Waiting(t)
    BY <1>2, <1>3, <1>4, <2>3 DEF Waiting
  <2>8. IsReader(Prepared(s))
    BY <1>4, <1>5, <2>1
  <2>9. QED BY <1>4, <2>2, <2>5, <2>6, <2>7, <2>8
<1>8. QED BY <1>6, <1>7

LEMMA CutHasLength ==
  ASSUME NEW s, NEW m \in Int, NEW n \in Int
  PROVE  Len(SubSeq(s, m, n)) \in Nat
<1> DEFINE S == {s[i] : i \in m .. n}
<1>1. \A i \in m .. n : s[i] \in S
  OBVIOUS
<1> HIDE DEF S
<1>2. SubSeq(s, m, n) \in Seq(S)
  BY <1>1, SubSeqProperties
<1>3. QED BY <1>2, LenProperties

LEMMA RestIsBytes ==
  ASSUME NEW s \in Seq(0 .. 255), NEW n \in Nat
  PROVE  Rest(s, n) \in Seq(0 .. 255) /\ (n = Len(s) => Rest(s, n) = <<>>)
<1>1. Len(s) \in Nat /\ n + 1 \in Nat
  BY LenProperties
<1>2. \A i \in (n + 1) .. Len(s) : i \in 1 .. Len(s)
  BY <1>1
<1>3. \A i \in (n + 1) .. Len(s) : s[i] \in 0 .. 255
  BY <1>2, ElementOfSeq
<1>4. SubSeq(s, n + 1, Len(s)) \in Seq(0 .. 255)
  BY <1>1, <1>3, SubSeqProperties
<1>5. n = Len(s) => SubSeq(s, n + 1, Len(s)) = <<>>
  BY <1>1, SubSeqEmpty
<1>6. QED BY <1>4, <1>5 DEF Rest

LEMMA SearchedWaits ==
  ASSUME NEW s, ReaderTypes(s), Waiting(s), s.ready = 0 /\ FinalInput(s) => s.buffer = <<>>,
         NEW budget \in StepBudgets
  PROVE  LET u == Searched(s, budget)
         IN  /\ ReaderTypes(u) /\ Waiting(u)
             /\ u.ready = 0 /\ FinalInput(u) => u.buffer = <<>>
<1> DEFINE bytes == SubSeq(s.buffer, s.consumed + 1, s.ready)
<1>1. IsReader(s) /\ s.buffer \in Seq(0 .. 255) /\ s.consumed \in Nat /\ s.ready \in Nat
      /\ Len(s.buffer) \in Nat /\ budget.bytes \in Nat
  BY ReadAssumption, LenProperties DEF ReaderTypes, Waiting
<1>2. CASE s.ready = s.consumed
  BY <1>2 DEF Searched
<1>3. CASE s.ready # s.consumed
  <2>1. PICK batch : batch = CursorStep(Wanted(s), s.cursor, bytes, budget.bytes, budget.hits)
    OBVIOUS
  <2>2. batch.consumed \in Nat
    <3>1. Len(bytes) \in Nat
      <4>1. s.consumed + 1 \in Int /\ s.ready \in Int
        BY <1>1
      <4>2. QED BY <4>1, CutHasLength
    <3>2. QED BY <1>1, <2>1, <3>1, TakenIsNumber
  <2>3. PICK t : t = [s EXCEPT !.cursor = batch.cursor, !.consumed = @ + batch.consumed]
    OBVIOUS
  <2>4. IsReader(t) /\ t.buffer = s.buffer /\ t.ready = s.ready
        /\ t.consumed = s.consumed + batch.consumed /\ t.eof = s.eof
        /\ t.bytesRead = s.bytesRead /\ t.calls = s.calls
    BY <1>1, <2>3 DEF IsReader
  <2>5. PICK a : a = Accepted(t, batch.hits)
    OBVIOUS
  <2>6. SameInput(a, t)
    <3>1. Len(batch.hits) \in Nat
      BY <1>1, <2>1
    <3>2. QED BY <2>4, <2>5, <3>1, AcceptedKeeps
  <2>7. IsReader(a) /\ a.buffer = s.buffer /\ a.ready = s.ready
        /\ a.consumed = s.consumed + batch.consumed /\ a.consumed \in Nat /\ a.eof = s.eof
        /\ a.bytesRead = s.bytesRead /\ a.calls = s.calls
    BY <1>1, <2>2, <2>4, <2>6 DEF SameInput
  <2>8. Searched(s, budget) = Compacted(a)
    BY <1>3, <2>1, <2>3, <2>5 DEF Searched
  <2>9. FinalInput(a) <=> FinalInput(s)
    BY <2>7 DEF FinalInput
  <2>10. CASE a.consumed < a.ready
    <3>1. Compacted(a) = a
      BY <2>10 DEF Compacted
    <3>2. a.ready > 0
      BY <1>1, <2>7, <2>10
    <3>3. Waiting(a)
      BY <1>1, <2>7, <2>9, <2>10, <3>2 DEF Waiting
    <3>4. ReaderTypes(a)
      BY <2>7 DEF ReaderTypes
    <3>5. QED BY <2>8, <3>1, <3>2, <3>3, <3>4
  <2>11. CASE ~(a.consumed < a.ready)
    <3>1. PICK rest : rest = Rest(a.buffer, a.ready)
      OBVIOUS
    <3>2. PICK u : u = [a EXCEPT !.buffer = rest, !.base = @ + a.ready,
                                 !.ready = 0, !.consumed = 0]
      OBVIOUS
    <3>3. Compacted(a) = u
      BY <2>11, <3>1, <3>2 DEF Compacted
    <3>4. IsReader(u) /\ u.buffer = rest /\ u.ready = 0 /\ u.consumed = 0
          /\ u.eof = s.eof /\ u.bytesRead = s.bytesRead /\ u.calls = s.calls
      BY <2>7, <3>2 DEF IsReader
    <3>5. rest \in Seq(0 .. 255) /\ (s.ready = Len(s.buffer) => rest = <<>>)
      <4>1. rest = Rest(s.buffer, s.ready)
        BY <2>7, <3>1
      <4>2. QED BY <1>1, <4>1, RestIsBytes
    <3>6. FinalInput(u) <=> FinalInput(s)
      BY <3>4 DEF FinalInput
    <3>7. s.ready > 0
      BY <1>1, <1>3 DEF Waiting
    <3>8. FinalInput(u) => u.buffer = <<>>
      BY <3>4, <3>5, <3>6, <3>7 DEF Waiting
    <3>9. ReaderTypes(u) /\ Waiting(u)
      BY <3>4, <3>5 DEF ReaderTypes, Waiting
    <3>10. QED BY <2>8, <3>3, <3>8, <3>9
  <2>12. QED BY <2>10, <2>11
<1>4. QED BY <1>2, <1>3

\* A search is at a call or at bytes of which it knows how far they are ready.
Proceeds ==
  /\ InputTypes
  /\ IsReader(reader)
  /\ Pending(reader) =>
       /\ ReaderTypes(reader) /\ Waiting(reader)
       /\ AsksForSomething /\ reader.ready = 0 => MayRead(reader)

LEMMA SettledIsReader ==
  ASSUME NEW s, IsReader(s)
  PROVE  IsReader(SettledReader(s))
<1>1. PICK state : SettledReader(s) \in {s, [s EXCEPT !.state = state]}
  BY Zenon DEF SettledReader
<1>2. QED BY <1>1 DEF IsReader

LEMMA SettledProceeds ==
  ASSUME InputTypes, NEW s, ReaderTypes(s), Waiting(s),
         s.ready = 0 /\ FinalInput(s) => s.buffer = <<>>
  PROVE  LET v == SettledReader(s)
         IN  /\ IsReader(v)
             /\ Pending(v) => /\ ReaderTypes(v) /\ Waiting(v)
                              /\ v.ready = 0 => MayRead(v)
<1>1. IsReader(SettledReader(s))
  BY SettledIsReader DEF ReaderTypes
<1>2. CASE s.ready = 0
  <2>1. Pending(SettledReader(s)) => SettledReader(s) = s /\ MayRead(s)
    BY <1>2, PauseMayRead
  <2>2. QED BY <1>1, <2>1
<1>3. CASE s.ready # 0
  <2>1. SettledReader(s) = s
    BY <1>3 DEF SettledReader
  <2>2. QED BY <1>1, <1>3, <2>1
<1>4. QED BY <1>2, <1>3

LEMMA ReadsWait ==
  ASSUME InputTypes, NEW r, ReaderTypes(r), Waiting(r), Pending(r),
         NEW budget \in StepBudgets, NEW s \in Reads(r, budget)
  PROVE  /\ ReaderTypes(s) /\ Pending(s)
         /\ IF s.ready = 0 THEN s.consumed = 0 ELSE Waiting(s)
<1>1. /\ r.ready # 0 => s = r
      /\ SameSearch(s, r) /\ s.calls \in Nat
      /\ NothingCame(s, r) \/ \E n \in Nat : n > 0 /\ BytesCame(s, r, n)
  BY ReadsBring
<1>2. Pending(s)
  BY <1>1 DEF Pending, SameSearch
<1>3. IF s.ready = 0 THEN s.consumed = 0 ELSE Waiting(s)
  BY <1>1 DEF SameSearch, Waiting
<1>4. CASE NothingCame(s, r)
  <2>1. ReaderTypes(s)
    BY <1>1, <1>4 DEF NothingCame, SameSearch, ReaderTypes
  <2>2. QED BY <1>2, <1>3, <2>1
<1>5. CASE \E n \in Nat : n > 0 /\ BytesCame(s, r, n)
  <2>1. PICK n \in Nat : n > 0 /\ BytesCame(s, r, n)
    BY <1>5
  <2>2. r.bytesRead \in Nat /\ Len(input.bytes) \in Nat /\ input.length \in Nat
        /\ request.maxBytes \in Nat
    BY LenProperties DEF ReaderTypes, InputTypes
  <2>3. PICK more : more = SubSeq(input.bytes, r.bytesRead + 1, r.bytesRead + n)
    OBVIOUS
  <2>4. more \in Seq(0 .. 255)
    <3>1. \A i \in (r.bytesRead + 1) .. (r.bytesRead + n) : i \in 1 .. Len(input.bytes)
      BY <2>1, <2>2 DEF BytesCame
    <3>2. \A i \in (r.bytesRead + 1) .. (r.bytesRead + n) : input.bytes[i] \in 0 .. 255
      BY <3>1, ElementOfSeq DEF InputTypes
    <3>3. r.bytesRead + 1 \in Int /\ r.bytesRead + n \in Int
      BY <2>2
    <3>4. QED BY <2>3, <3>2, <3>3, SubSeqProperties
  <2>5. s.buffer \in Seq(0 .. 255)
    <3>1. s.buffer = r.buffer \o more
      BY <2>1, <2>3 DEF BytesCame
    <3>2. QED BY <2>4, <3>1, ConcatProperties DEF ReaderTypes
  <2>6. PICK k : k = r.bytesRead
    OBVIOUS
  <2>7. /\ k + n \in Nat /\ k + n <= input.length /\ k + n <= request.maxBytes
        /\ k + n <= Len(input.bytes)
    <3>1. PICK l : l = Len(input.bytes)
      OBVIOUS
    <3>2. PICK o : o = input.length
      OBVIOUS
    <3>3. PICK m : m = request.maxBytes
      OBVIOUS
    <3>4. k \in Nat /\ n \in Nat /\ l \in Nat /\ o \in Nat /\ m \in Nat
      BY <2>1, <2>2, <2>6, <3>1, <3>2, <3>3
    <3>5. n <= l - k /\ n <= o - k /\ n <= m - k
      BY <2>1, <2>6, <3>1, <3>2, <3>3 DEF BytesCame
    <3>6. k + n \in Nat /\ k + n <= l /\ k + n <= o /\ k + n <= m
      BY <3>4, <3>5
    <3>7. QED BY <3>1, <3>2, <3>3, <3>6
  <2>8. s.bytesRead = k + n
    BY <2>1, <2>6 DEF BytesCame
  <2>9. ReaderTypes(s)
    BY <1>1, <2>5, <2>7, <2>8 DEF SameSearch, ReaderTypes
  <2>10. QED BY <1>2, <1>3, <2>9
<1>6. QED BY <1>1, <1>4, <1>5

LEMMA StepProceeds ==
  ASSUME Proceeds, NEW budget \in StepBudgets, StepReader(budget)
  PROVE  Proceeds'
<1>1. /\ InputTypes /\ Pending(reader) /\ ReaderTypes(reader) /\ Waiting(reader)
      /\ input' = input /\ request' = request
  BY DEF Proceeds, StepReader
<1>2. PICK s \in Reads(reader, budget) :
        reader' \in {AfterStep(s, budget), Stopped(s), Stopped(AfterStep(s, budget))}
  BY DEF StepReader
<1>3. /\ ReaderTypes(s) /\ Pending(s)
      /\ IF s.ready = 0 THEN s.consumed = 0 ELSE Waiting(s)
  BY <1>1, ReadsWait
<1>4. PICK p : p = IF s.ready = 0 THEN Prepared(s) ELSE s
  OBVIOUS
<1>5. /\ IsReader(p)
      /\ Pending(p) => /\ ReaderTypes(p) /\ Waiting(p)
                       /\ p.ready = 0 /\ FinalInput(p) => p.buffer = <<>>
  BY <1>3, <1>4, PreparedWaits DEF ReaderTypes
<1>6. PICK v : v = AfterStep(s, budget)
  OBVIOUS
<1>7. IsReader(v) /\ (Pending(v) => /\ ReaderTypes(v) /\ Waiting(v)
                                    /\ v.ready = 0 => MayRead(v))
  <2>1. v = IF Pending(p) THEN SettledReader(Searched(p, budget)) ELSE p
    BY <1>4, <1>6 DEF AfterStep
  <2>2. CASE ~Pending(p)
    BY <1>5, <2>1, <2>2
  <2>3. CASE Pending(p)
    <3>1. PICK u : u = Searched(p, budget)
      OBVIOUS
    <3>2. ReaderTypes(u) /\ Waiting(u) /\ (u.ready = 0 /\ FinalInput(u) => u.buffer = <<>>)
      BY <1>5, <2>3, <3>1, SearchedWaits
    <3>3. v = SettledReader(u)
      BY <2>1, <2>3, <3>1
    <3>4. QED BY <1>1, <3>2, <3>3, SettledProceeds
  <2>4. QED BY <2>2, <2>3
<1>8. \A r : IsReader(r) => IsReader(Stopped(r)) /\ ~Pending(Stopped(r))
  BY DEF IsReader, Stopped, Pending
<1>9. IsReader(s)
  BY <1>3 DEF ReaderTypes
<1>10. CASE reader' = v
  BY <1>1, <1>7, <1>10
     DEF Proceeds, InputTypes, ReaderTypes, Waiting, FinalInput, MayRead, Pending
<1>11. CASE reader' \in {Stopped(s), Stopped(v)}
  BY <1>1, <1>7, <1>8, <1>9, <1>11 DEF Proceeds, InputTypes, Pending
<1>12. QED BY <1>2, <1>6, <1>10, <1>11

LEMMA NewReaderWaits ==
  ASSUME InputTypes
  PROVE  /\ ReaderTypes(NewReader) /\ Waiting(NewReader) /\ Pending(NewReader)
         /\ NewReader.ready = 0 /\ NewReader.consumed = 0
         /\ AsksForSomething /\ input.length # 0 => MayRead(NewReader)
<1>1. PICK r : r = NewReader
  OBVIOUS
<1>2. /\ IsReader(r) /\ r.buffer = <<>> /\ r.ready = 0 /\ r.consumed = 0 /\ r.eof = FALSE
      /\ r.bytesRead = 0 /\ r.calls = 0 /\ r.state = "pending"
  BY <1>1 DEF NewReader, IsReader
<1>3. ReaderTypes(r)
  BY <1>2 DEF ReaderTypes, InputTypes
<1>4. Waiting(r) /\ Pending(r)
  BY <1>2 DEF Waiting, Pending
<1>5. AsksForSomething /\ input.length # 0 => MayRead(r)
  BY <1>2 DEF AsksForSomething, MayRead, InputTypes, Smaller
<1>6. QED BY <1>1, <1>2, <1>3, <1>4, <1>5

LEMMA ProceedsInitially ==
  ASSUME ReaderInit
  PROVE  Proceeds
<1>1. InputTypes
  BY ReadAssumption DEF ReaderInit, InputTypes
<1>2. PICK r : r = NewReader
  OBVIOUS
<1>3. /\ ReaderTypes(r) /\ Waiting(r) /\ r.ready = 0 /\ r.consumed = 0
      /\ AsksForSomething /\ input.length # 0 => MayRead(r)
  BY <1>1, <1>2, NewReaderWaits
<1>4. CASE input.length # 0
  <2>1. reader = r
    BY <1>2, <1>4 DEF ReaderInit
  <2>2. QED BY <1>1, <1>3, <1>4, <2>1 DEF Proceeds, ReaderTypes
<1>5. CASE input.length = 0
  <2>1. PICK p : p = Prepared(r)
    OBVIOUS
  <2>2. /\ IsReader(p)
        /\ Pending(p) => /\ ReaderTypes(p) /\ Waiting(p)
                         /\ p.ready = 0 /\ FinalInput(p) => p.buffer = <<>>
    BY <1>3, <2>1, PreparedWaits
  <2>3. reader = SettledReader(p)
    BY <1>2, <1>5, <2>1 DEF ReaderInit
  <2>4. CASE Pending(p)
    BY <1>1, <2>2, <2>3, <2>4, SettledProceeds DEF Proceeds
  <2>5. CASE ~Pending(p)
    <3>1. reader = p
      BY <2>3, <2>5 DEF SettledReader
    <3>2. QED BY <1>1, <2>2, <2>5, <3>1 DEF Proceeds
  <2>6. QED BY <2>4, <2>5
<1>6. QED BY <1>4, <1>5

LEMMA ProceedsKept ==
  ASSUME Proceeds, [ReaderNext]_readerVars
  PROVE  Proceeds'
<1>1. ASSUME NEW budget \in StepBudgets, StepReader(budget)
      PROVE  Proceeds'
  BY <1>1, StepProceeds
<1>2. ASSUME NEW budget \in StepBudgets, ReaderFails(budget)
      PROVE  Proceeds'
  <2>1. PICK n \in 1 .. CallsLeft(reader, budget) :
          reader' = [Interrupted(reader, n) EXCEPT !.state = "failed"]
    BY <1>2 DEF ReaderFails
  <2>2. IsReader(reader') /\ ~Pending(reader')
    BY <2>1 DEF Proceeds, Interrupted, IsReader, Pending
  <2>3. QED BY <1>2, <2>2 DEF ReaderFails, Proceeds, InputTypes, Pending
<1>3. ASSUME StopReader
      PROVE  Proceeds'
  <2>1. IsReader(reader') /\ ~Pending(reader')
    BY <1>3 DEF StopReader, Stopped, Proceeds, IsReader, Pending
  <2>2. QED BY <1>3, <2>1 DEF StopReader, Proceeds, InputTypes, Pending
<1>4. CASE UNCHANGED readerVars
  BY <1>4 DEF readerVars, Proceeds, InputTypes, ReaderTypes, Waiting, FinalInput,
              MayRead, Pending, AsksForSomething
<1>5. QED BY <1>1, <1>2, <1>3, <1>4 DEF ReaderNext

\* A search that its host has not ended, and that was asked for something, has at
\* every moment a call left to make or bytes left to search: the batches empty the
\* buffer, what is held back of it waits for more bytes only while more may come,
\* and set_terminal ends a search that may not call again.  However the file
\* comes, whatever is read of it, and whatever the limits are.
THEOREM ReadersAreNeverStuck == ReaderSpec => []AskedIsNeverStuck
<1>1. ReaderInit => Proceeds
  BY ProceedsInitially
<1>2. Proceeds /\ [ReaderNext]_readerVars => Proceeds'
  BY ProceedsKept
<1>3. Proceeds => AskedIsNeverStuck
  <2>1. ASSUME Proceeds, AsksForSomething, Pending(reader)
        PROVE  MayRead(reader) \/ reader.consumed < reader.ready
    <3>1. CASE reader.ready = 0
      BY <2>1, <3>1 DEF Proceeds
    <3>2. CASE reader.ready # 0
      BY <2>1, <3>2 DEF Proceeds, Waiting
    <3>3. QED BY <3>1, <3>2
  <2>2. QED BY <2>1 DEF AskedIsNeverStuck, NeverStuck
<1>4. QED BY <1>1, <1>2, <1>3, PTL DEF ReaderSpec

-----------------------------------------------------------------------------
(* A search of a reader for bytes.                                         *)

\* The bytes looked for, and the places one ends at.
Sought == [i \in DOMAIN request.chars |-> request.chars[i][1]]

Occurrences == EndsIn(Sought, input.bytes, {})

RawRequest ==
  /\ InputTypes
  /\ request.mode = "raw"
  /\ request.chars \in Seq({<<b>> : b \in 0 .. 255}) \ {<<>>}

LEMMA FlatIsSame ==
  ASSUME NEW chars \in Seq({<<b>> : b \in 0 .. 255})
  PROVE  /\ Flatten(chars) = [i \in DOMAIN chars |-> chars[i][1]]
         /\ Flatten(chars) \in Seq(0 .. 255) /\ Len(Flatten(chars)) = Len(chars)
<1> DEFINE L == Len(chars)
           q(n) == [i \in 1 .. n |-> chars[i][1]]
           good == [n \in 0 .. L |-> {q(n)}]
           step == [n \in 1 .. L |-> [x \in good[n - 1] |-> x \o chars[n]]]
           Joins(f) == f = [n \in 0 .. L |-> IF n = 0 THEN <<>> ELSE f[n - 1] \o chars[n]]
<1>1. L \in Nat /\ DOMAIN chars = 1 .. L
  BY LenProperties
<1>2. ASSUME NEW n \in 1 .. L PROVE chars[n] = <<chars[n][1]>> /\ chars[n][1] \in 0 .. 255
  <2>1. chars[n] \in {<<b>> : b \in 0 .. 255}
    BY ElementOfSeq
  <2>2. PICK b \in 0 .. 255 : chars[n] = <<b>>
    BY <2>1
  <2>3. QED BY <2>2
<1>3. ASSUME NEW n \in 0 .. L PROVE q(n) \in Seq(0 .. 255) /\ Len(q(n)) = n
  <2>1. \A i \in 1 .. n : i \in 1 .. L
    BY <1>1
  <2>2. \A i \in 1 .. n : chars[i][1] \in 0 .. 255
    BY <1>2, <2>1
  <2>3. QED BY <1>1, <2>2
<1>4. ASSUME NEW n \in 1 .. L PROVE q(n - 1) \o chars[n] = q(n)
  <2>1. n - 1 \in 0 .. L /\ n \in 0 .. L /\ (n - 1) + 1 = n
    BY <1>1
  <2>2. q(n - 1) \in Seq(0 .. 255) /\ Len(q(n - 1)) = n - 1
        /\ q(n) \in Seq(0 .. 255) /\ Len(q(n)) = n
    BY <1>3, <2>1
  <2>3. PICK b \in 0 .. 255 : b = chars[n][1]
    BY <1>2
  <2>4. chars[n] = <<b>>
    BY <1>2, <2>3
  <2>5. q(n - 1) \o <<b>> = Append(q(n - 1), b)
    BY <2>2, AppendIsConcat
  <2>6. \A i \in 1 .. n : i # n => i \in 1 .. (n - 1)
    BY <1>1
  <2>7. \A i \in 1 .. n : Append(q(n - 1), b)[i] = q(n)[i]
    BY <2>1, <2>2, <2>3, <2>6, AppendProperties
  <2>8. Append(q(n - 1), b) \in Seq(0 .. 255) /\ Len(Append(q(n - 1), b)) = n
    BY <2>1, <2>2, AppendProperties
  <2> HIDE DEF q
  <2>9. QED BY <2>2, <2>4, <2>5, <2>7, <2>8, SeqEqual
<1>5. q(0) = <<>>
  OBVIOUS
<1>6. \A n \in 1 .. L : n - 1 \in 0 .. L /\ n \in 0 .. L /\ n # 0
  BY <1>1
<1>7. PICK f : IsRun(f, L, <<>>, step) /\ \A n \in 0 .. L : f[n] \in good[n]
  <2>1. <<>> \in good[0]
    BY <1>1, <1>5
  <2>2. \A n \in 1 .. L : step[n] \in [good[n - 1] -> good[n]]
    <3>1. ASSUME NEW n \in 1 .. L PROVE step[n] \in [good[n - 1] -> good[n]]
      <4>1. good[n - 1] = {q(n - 1)} /\ good[n] = {q(n)}
        BY <1>6
      <4>2. step[n] = [x \in good[n - 1] |-> x \o chars[n]]
        OBVIOUS
      <4> HIDE DEF good, step, q
      <4>3. QED BY <1>4, <4>1, <4>2
    <3>2. QED BY <3>1
  <2> HIDE DEF good, step
  <2>3. QED BY <1>1, <2>1, <2>2, RunExists
<1>8. \A n \in 0 .. L : f[n] = q(n)
  BY <1>7
<1>9. Joins(f)
  <2>1. f = [n \in 0 .. L |-> f[n]]
    BY <1>7 DEF IsRun
  <2> HIDE DEF q, good, step
  <2>2. ASSUME NEW n \in 0 .. L
        PROVE  f[n] = IF n = 0 THEN <<>> ELSE f[n - 1] \o chars[n]
    <3>1. n = 0 \/ (n \in 1 .. L /\ n - 1 \in 0 .. L /\ n # 0)
      BY <1>1
    <3>2. QED BY <1>4, <1>5, <1>8, <3>1
  <2>3. QED BY <2>1, <2>2
<1> DEFINE joined == CHOOSE g : Joins(g)
<1>10. Joins(joined)
  BY <1>9
<1>11. Flatten(chars) = joined[L]
  BY DEF Flatten
<1> HIDE DEF joined, q, good, step
<1>12. joined[L] = f[L]
  <2>1. 0 \in 0 .. L /\ joined[0] = <<>> /\ f[0] = <<>>
    BY <1>1, <1>9, <1>10
  <2>2. ASSUME NEW n \in 1 .. L, joined[n - 1] = f[n - 1] PROVE joined[n] = f[n]
    <3>1. joined[n] = joined[n - 1] \o chars[n]
      BY <1>6, <1>10
    <3>2. f[n] = f[n - 1] \o chars[n]
      BY <1>6, <1>9
    <3>3. QED BY <2>2, <3>1, <3>2
  <2> HIDE DEF Joins
  <2>3. QED BY <1>1, <2>1, <2>2, RunsAlike
<1>13. L \in 0 .. L
  BY <1>1
<1>14. Flatten(chars) = q(L)
  BY <1>8, <1>11, <1>12, <1>13
<1>15. QED BY <1>1, <1>3, <1>13, <1>14 DEF q

LEMMA RawWanted ==
  ASSUME RawRequest, NEW s, s.encoding = "unknown"
  PROVE  Wanted(s) = Sought /\ ~IsText
<1>1. request.chars \in Seq({<<b>> : b \in 0 .. 255})
  BY DEF RawRequest
<1>2. [i \in DOMAIN request.chars |-> Encoded(request.chars[i], s.encoding)] = request.chars
  <2>1. \A c : Encoded(c, "unknown") = c
    <3>1. ~IsUtf16("unknown")
      BY DEF IsUtf16
    <3>2. ASSUME NEW c PROVE Encoded(c, "unknown") = c
      BY <3>1, Zenon DEF Encoded
    <3>3. QED BY <3>2
  <2>2. request.chars = [i \in DOMAIN request.chars |-> request.chars[i]]
    BY <1>1, LenProperties
  <2>3. QED BY <2>1, <2>2
<1>3. Wanted(s) = Flatten(request.chars)
  BY <1>2 DEF Wanted
<1>4. QED BY <1>1, <1>3, FlatIsSame DEF Sought, RawRequest, IsText

LEMMA SoughtIsBytes ==
  ASSUME RawRequest
  PROVE  /\ Sought \in Seq(0 .. 255) /\ Len(Sought) = Len(request.chars)
         /\ Len(Sought) \in Nat /\ Len(Sought) > 0 /\ DOMAIN Sought = 1 .. Len(Sought)
<1>1. request.chars \in Seq({<<b>> : b \in 0 .. 255}) /\ request.chars # <<>>
  BY DEF RawRequest
<1>2. Sought = Flatten(request.chars) /\ Sought \in Seq(0 .. 255)
      /\ Len(Sought) = Len(request.chars)
  BY <1>1, FlatIsSame DEF Sought
<1>3. Len(request.chars) \in Nat \ {0}
  BY <1>1, EmptySeq
<1>4. QED BY <1>2, <1>3, LenProperties

\* The k-th place found, of a needle of L.
IsFound(E, L, k, hit) ==
  \E e \in E : Upto(E, e) = k /\ hit = [occurrence |-> k, from |-> e - L, to |-> e]

\* The k-th of the places.
NthPlace(places, k) == CHOOSE i \in places : Cardinality({j \in places : j < i}) = k - 1

LEMMA PlaceOfHit ==
  ASSUME NEW needle, NEW text, Len(needle) \in Nat, Len(needle) > 0, Len(text) \in Nat,
         NEW k \in 1 .. Cardinality(EndsIn(needle, text, {}))
  PROVE  LET E == EndsIn(needle, text, {})
             i == NthPlace(PlacesIn(needle, text, {}), k)
         IN  /\ i \in 1 .. (Len(text) - Len(needle) + 1)
             /\ i + Len(needle) - 1 \in E /\ Upto(E, i + Len(needle) - 1) = k
<1> DEFINE L == Len(needle)
           N == Len(text)
           P == PlacesIn(needle, text, {})
           E == EndsIn(needle, text, {})
<1>1. L \in Nat /\ N \in Nat
  OBVIOUS
<1>2. E \subseteq 1 .. N
  BY DEF EndsIn
<1>3. E \in SUBSET Nat /\ IsFiniteSet(E) /\ Cardinality(E) \in Nat
      /\ \A n \in 1 .. Cardinality(E) : \E e \in E : Upto(E, e) = n
  BY <1>1, <1>2, NthExists
<1>4. \A i \in Int : Cardinality({j \in P : j < i}) = Upto(E, i + L - 2)
  BY PlacesBefore
<1>5. \A i \in Int : i \in P <=> i + L - 1 \in E
  BY PlacesEnd
<1>6. P \subseteq 1 .. (N - L + 1)
  BY DEF PlacesIn
<1>7. k \in 1 .. Cardinality(E)
  OBVIOUS
<1> HIDE DEF P, E
<1>8. PICK e \in E : Upto(E, e) = k
  BY <1>3, <1>7
<1>9. Upto(E, e - 1) = k - 1 /\ e \in Int /\ k \in Int
  <2>1. Upto(E, e - 1) \in Nat /\ Upto(E, e) = Upto(E, e - 1) + 1
    BY <1>3, UptoNext
  <2>2. QED BY <1>3, <1>8, <2>1
<1>10. \E i \in P : Cardinality({j \in P : j < i}) = k - 1
  <2>1. PICK i : i = e - L + 1
    OBVIOUS
  <2>2. i \in Int /\ i + L - 1 = e /\ i + L - 2 = e - 1
    BY <1>1, <1>9, <2>1
  <2>3. i \in P
    BY <1>5, <1>8, <2>2
  <2>4. Cardinality({j \in P : j < i}) = k - 1
    BY <1>4, <1>9, <2>2
  <2>5. QED BY <2>3, <2>4
<1>11. PICK i : i = NthPlace(P, k)
  OBVIOUS
<1>12. i \in P /\ Cardinality({j \in P : j < i}) = k - 1
  BY <1>10, <1>11 DEF NthPlace
<1>13. i \in 1 .. (N - L + 1) /\ i \in Int
  BY <1>6, <1>12
<1>14. PICK d : d = i + L - 1
  OBVIOUS
<1>15. d \in E /\ i + L - 2 = d - 1
  BY <1>1, <1>5, <1>12, <1>13, <1>14
<1>16. Upto(E, d) = k
  <2>1. Upto(E, d - 1) \in Nat /\ Upto(E, d) = Upto(E, d - 1) + 1
    BY <1>3, <1>15, UptoNext
  <2>2. Upto(E, d - 1) = k - 1
    BY <1>4, <1>12, <1>13, <1>15
  <2>3. QED BY <1>9, <2>1, <2>2
<1>17. QED BY <1>11, <1>13, <1>14, <1>15, <1>16 DEF P, E

\* What stands in the bytes that were read is what stands there in all of them.
LEMMA EndsRead ==
  ASSUME RawRequest, NEW b \in Nat, b <= Len(input.bytes)
  PROVE  LET E == EndsIn(Sought, SubSeq(input.bytes, 1, b), {})
         IN  /\ E = {e \in Occurrences : e <= b}
             /\ Cardinality(E) = Upto(Occurrences, b)
             /\ \A e \in E : Upto(E, e) = Upto(Occurrences, e)
<1> DEFINE text == SubSeq(input.bytes, 1, b)
           E == EndsIn(Sought, text, {})
<1>1. input.bytes \in Seq(0 .. 255) /\ Len(input.bytes) \in Nat
  BY LenProperties DEF RawRequest, InputTypes
<1>2. Len(text) = b /\ \A i \in 1 .. b : text[i] = input.bytes[i]
  <2>1. \A i \in 1 .. b : i \in 1 .. Len(input.bytes)
    BY <1>1
  <2>2. \A i \in 1 .. b : input.bytes[i] \in 0 .. 255
    BY <1>1, <2>1, ElementOfSeq
  <2>3. /\ Len(text) = IF 1 <= b THEN b - 1 + 1 ELSE 0
        /\ \A i \in 1 .. b - 1 + 1 : text[i] = input.bytes[1 + i - 1]
    BY <2>2, SubSeqProperties
  <2>4. b - 1 + 1 = b /\ \A i \in 1 .. b : 1 + i - 1 = i
    OBVIOUS
  <2> HIDE DEF text
  <2>5. QED BY <2>3, <2>4
<1>3. Len(Sought) \in Nat
  BY SoughtIsBytes
<1>4. E = {e \in Occurrences : e <= b}
  <2>1. ASSUME NEW e \in 1 .. Len(input.bytes)
        PROVE  e \in E <=> e \in Occurrences /\ e <= b
    <3>1. e \in E <=> e \in 1 .. b /\ Len(Sought) <= e /\ Fits(Sought, text, e, Len(Sought))
      BY <1>2 DEF EndsIn
    <3>2. e \in Occurrences <=> Len(Sought) <= e /\ Fits(Sought, input.bytes, e, Len(Sought))
      BY DEF Occurrences, EndsIn
    <3>3. e \in 1 .. b <=> e <= b
      OBVIOUS
    <3>4. e <= b /\ Len(Sought) <= e =>
            (Fits(Sought, text, e, Len(Sought)) <=> Fits(Sought, input.bytes, e, Len(Sought)))
      <4>1. ASSUME e <= b, Len(Sought) <= e
            PROVE \A i \in 1 .. Len(Sought) : text[e - Len(Sought) + i] = input.bytes[e - Len(Sought) + i]
        <5>1. \A i \in 1 .. Len(Sought) : e - Len(Sought) + i \in 1 .. b
          BY <1>3, <4>1
        <5> HIDE DEF text
        <5>2. QED BY <1>2, <5>1
      <4> HIDE DEF text
      <4>2. QED BY <4>1 DEF Fits
    <3> HIDE DEF E
    <3>5. QED BY <3>1, <3>2, <3>3, <3>4
  <2>2. E \subseteq 1 .. Len(input.bytes)
    <3>1. \A e \in 1 .. b : e \in 1 .. Len(input.bytes)
      BY <1>1
    <3>2. QED BY <1>2, <3>1 DEF EndsIn
  <2>3. Occurrences \subseteq 1 .. Len(input.bytes)
    BY DEF Occurrences, EndsIn
  <2> HIDE DEF E
  <2>4. QED BY <2>1, <2>2, <2>3
<1> HIDE DEF E
<1>5. Cardinality(E) = Upto(Occurrences, b)
  BY <1>4 DEF Upto
<1>6. ASSUME NEW e \in E PROVE Upto(E, e) = Upto(Occurrences, e)
  <2>1. \A d \in Occurrences : d <= e => d <= b
    <3>1. e <= b /\ e \in Int /\ \A d \in Occurrences : d \in Int
      BY <1>4 DEF Occurrences, EndsIn
    <3>2. QED BY <3>1
  <2>2. {d \in E : d <= e} = {d \in Occurrences : d <= e}
    BY <1>4, <2>1
  <2>3. QED BY <2>2 DEF Upto
<1>7. QED BY <1>4, <1>5, <1>6 DEF E

\* The reference hits, of a query of n characters.
HitsOf(chars, n) ==
  LET Stands(i) == \A k \in 1 .. n : chars[i + k - 1].valid
                                     /\ chars[i + k - 1].text = request.chars[k]
      places == {i \in 1 .. (Len(chars) - n + 1) : Stands(i)}
      Place(k) == CHOOSE i \in places : Cardinality({j \in places : j < i}) = k - 1
  IN  [k \in 1 .. Cardinality(places) |->
         [occurrence |-> k, from |-> chars[Place(k)].from.raw,
          to |-> chars[Place(k) + n - 1].to.raw]]

\* The reference of a search for bytes lists them.
LEMMA ReadHitsAreEnds ==
  ASSUME RawRequest, reader.bytesRead \in Nat, reader.bytesRead <= Len(input.bytes)
  PROVE  LET E == EndsIn(Sought, SubSeq(input.bytes, 1, reader.bytesRead), {})
             chars == ReadChars
             hits == ReadHits(chars)
         IN  /\ \A i \in DOMAIN chars : chars[i].valid
             /\ hits = [k \in 1 .. Cardinality(E) |-> hits[k]]
             /\ \A k \in 1 .. Cardinality(E) : IsFound(E, Len(Sought), k, hits[k])
<1> DEFINE b == reader.bytesRead
           L == Len(Sought)
           bytes == SubSeq(input.bytes, 1, b)
           E == EndsIn(Sought, bytes, {})
           P == PlacesIn(Sought, bytes, {})
           Char(i) == [text |-> <<bytes[i]>>, valid |-> TRUE,
                       from |-> At(i - 1, 0, 0, 0), to |-> At(i, 0, 0, 0)]
<1>1. PICK chars : chars = ReadChars
  OBVIOUS
<1>2. chars = [i \in DOMAIN bytes |-> Char(i)]
  BY <1>1 DEF ReadChars, IsText, RawRequest
<1>3. Len(bytes) \in Nat /\ DOMAIN bytes = 1 .. Len(bytes)
  <2>1. input.bytes \in Seq(0 .. 255) /\ Len(input.bytes) \in Nat
    BY LenProperties DEF RawRequest, InputTypes
  <2>2. \A i \in 1 .. b : i \in 1 .. Len(input.bytes)
    BY <2>1
  <2>3. \A i \in 1 .. b : input.bytes[i] \in 0 .. 255
    BY <2>1, <2>2, ElementOfSeq
  <2>4. bytes \in Seq(0 .. 255)
    BY <2>3, SubSeqProperties
  <2> HIDE DEF bytes
  <2>5. QED BY <2>4, LenProperties
<1>4. L \in Nat /\ L > 0 /\ L = Len(request.chars)
  BY SoughtIsBytes
<1>5. \A k \in 1 .. L : request.chars[k] = <<Sought[k]>>
  <2>1. ASSUME NEW k \in 1 .. L PROVE request.chars[k] = <<Sought[k]>>
    <3>1. request.chars \in Seq({<<c>> : c \in 0 .. 255})
      BY DEF RawRequest
    <3>2. k \in 1 .. Len(request.chars) /\ k \in DOMAIN request.chars
      BY <1>4, <3>1, LenProperties
    <3>3. request.chars[k] \in {<<c>> : c \in 0 .. 255}
      BY <3>1, <3>2, ElementOfSeq
    <3>4. PICK c \in 0 .. 255 : request.chars[k] = <<c>>
      BY <3>3
    <3>5. Sought[k] = request.chars[k][1]
      BY <3>2 DEF Sought
    <3>6. QED BY <3>4, <3>5
  <2>2. QED BY <2>1
<1> HIDE DEF bytes, L
<1>6. Len(chars) = Len(bytes) /\ DOMAIN chars = 1 .. Len(bytes)
  BY <1>2, <1>3
<1>7. ASSUME NEW i \in 1 .. Len(bytes)
      PROVE  /\ chars[i].valid = TRUE /\ chars[i].text = <<bytes[i]>>
             /\ chars[i].from.raw = i - 1 /\ chars[i].to.raw = i
  <2>1. chars[i] = Char(i)
    BY <1>2, <1>3
  <2>2. QED BY <2>1 DEF At
<1> HIDE DEF Char
<1> DEFINE Stands(i) == \A k \in 1 .. L : chars[i + k - 1].valid
                                           /\ chars[i + k - 1].text = request.chars[k]
           places == {i \in 1 .. (Len(chars) - L + 1) : Stands(i)}
           Place(k) == CHOOSE i \in places : Cardinality({j \in places : j < i}) = k - 1
           Hit(k) == [occurrence |-> k, from |-> chars[Place(k)].from.raw,
                      to |-> chars[Place(k) + L - 1].to.raw]
<1>8. ReadHits(chars) = [k \in 1 .. Cardinality(places) |-> Hit(k)]
  <2>1. ReadHits(chars) = HitsOf(chars, Len(request.chars))
    BY Zenon DEF ReadHits, HitsOf
  <2>2. HitsOf(chars, L) = [k \in 1 .. Cardinality(places) |-> Hit(k)]
    BY Zenon DEF HitsOf, Hit, Place, places, Stands
  <2>3. QED BY <1>4, <2>1, <2>2
<1>9. places = P
  <2>1. ASSUME NEW i \in 1 .. (Len(bytes) - L + 1)
        PROVE  Stands(i) <=> \A k \in 1 .. L : bytes[i + k - 1] = Sought[k]
    <3>1. ASSUME NEW k \in 1 .. L
          PROVE  (chars[i + k - 1].valid /\ chars[i + k - 1].text = request.chars[k])
                   <=> bytes[i + k - 1] = Sought[k]
      <4>1. i + k - 1 \in 1 .. Len(bytes)
        BY <1>3, <1>4
      <4>2. PICK p : p = i + k - 1
        OBVIOUS
      <4>3. chars[p].valid = TRUE /\ chars[p].text = <<bytes[p]>>
        BY <1>7, <4>1, <4>2
      <4>4. request.chars[k] = <<Sought[k]>>
        BY <1>5
      <4>5. QED BY <4>2, <4>3, <4>4
    <3>2. QED BY <3>1
  <2>2. P = {i \in 1 .. (Len(bytes) - L + 1) : \A k \in 1 .. L : bytes[i + k - 1] = Sought[k]}
    BY DEF PlacesIn, L
  <2>3. places = {i \in 1 .. (Len(bytes) - L + 1) : Stands(i)}
    BY <1>6
  <2> HIDE DEF Stands, places, P
  <2>4. QED BY <2>1, <2>2, <2>3
<1> HIDE DEF places, P, E
<1>10. Cardinality(P) = Cardinality(E)
  <2>1. 0 \in Int
    OBVIOUS
  <2>2. QED BY <1>3, <1>4, <2>1, PlacesBefore DEF P, E, L
<1>11. ASSUME NEW k \in 1 .. Cardinality(E) PROVE IsFound(E, L, k, Hit(k))
  <2>1. PICK i : i = Place(k)
    OBVIOUS
  <2>2. i \in 1 .. (Len(bytes) - L + 1) /\ i + L - 1 \in E /\ Upto(E, i + L - 1) = k
    <3>1. PICK j : j = NthPlace(P, k)
      OBVIOUS
    <3>2. j \in 1 .. (Len(bytes) - L + 1) /\ j + L - 1 \in E /\ Upto(E, j + L - 1) = k
      <4>1. k \in 1 .. Cardinality(EndsIn(Sought, bytes, {}))
        BY DEF E
      <4> HIDE DEF Place
      <4>2. QED BY <1>3, <1>4, <3>1, <4>1, PlaceOfHit DEF P, E, L
    <3>3. i = j
      BY <1>9, <2>1, <3>1 DEF NthPlace
    <3>4. QED BY <3>2, <3>3
  <2>3. PICK e : e = i + L - 1
    OBVIOUS
  <2>4. i \in 1 .. Len(bytes) /\ e \in 1 .. Len(bytes) /\ e - L = i - 1
    BY <1>3, <1>4, <2>2, <2>3
  <2>5. chars[i].from.raw = i - 1 /\ chars[e].to.raw = e
    BY <1>7, <2>4
  <2>6. Hit(k) = [occurrence |-> k, from |-> e - L, to |-> e]
    BY <2>1, <2>3, <2>4, <2>5
  <2>7. QED BY <2>2, <2>3, <2>6 DEF IsFound
<1> HIDE DEF Hit
<1>12. QED BY <1>1, <1>6, <1>7, <1>8, <1>9, <1>10, <1>11 DEF E, L, bytes

\* What a search for bytes reports.
Finds == [occurrence : Nat, from : Nat, to : Nat]

\* The first places found, in order.
FoundFirst(hits) ==
  /\ hits \in Seq(Finds)
  /\ \A k \in 1 .. Len(hits) : IsFound(Occurrences, Len(Sought), k, hits[k])

\* What n ends make of a search: they are all there, or there was one too many.
AcceptedSo(t, s, n) ==
  /\ SameInput(t, s)
  /\ FoundFirst(t.hits)
  /\ \/ /\ t.state = "pending" /\ t.seen = s.seen + n
        /\ Len(t.hits) = s.seen + n /\ s.seen + n <= request.maxMatches
     \/ /\ t.state = "truncated" /\ Len(t.hits) = request.maxMatches
        /\ t.seen = request.maxMatches + 1 /\ request.maxMatches + 1 <= s.seen + n

LEMMA OneFound ==
  ASSUME RawRequest, NEW s, s.encoding = "unknown", s.seen \in Nat,
         NEW n \in Nat, NEW t, AcceptedSo(t, s, n),
         NEW e \in Occurrences, Upto(Occurrences, e) = s.seen + n + 1
  PROVE  AcceptedSo(AcceptOne(t, e), s, n + 1)
<1> DEFINE L == Len(Sought)
<1>1. request.maxMatches \in Nat /\ L \in Nat
  BY SoughtIsBytes DEF RawRequest, InputTypes
<1>2. SameInput(t, s) /\ IsReader(t) /\ t.encoding = "unknown" /\ FoundFirst(t.hits)
      /\ t.hits \in Seq(Finds) /\ Len(t.hits) \in Nat
  BY LenProperties DEF AcceptedSo, SameInput, FoundFirst
<1>3. Wanted(t) = Sought /\ ~IsText
  BY <1>2, RawWanted
<1>4. SameInput(AcceptOne(t, e), s)
  <2>1. SameInput(AcceptOne(t, e), t)
    BY <1>2, OneAccepted
  <2>2. QED BY <1>2, <2>1 DEF SameInput
<1>5. PICK from : from = e - L
  OBVIOUS
<1>6. PICK seen : seen = t.seen + 1
  OBVIOUS
<1>7. PICK hit : hit = [occurrence |-> seen, from |-> from, to |-> e]
  OBVIOUS
<1>8. IsPlace(t, from)
  BY <1>3 DEF IsPlace
<1>9. CASE t.state = "pending"
  <2>1. t.seen = s.seen + n /\ Len(t.hits) = s.seen + n /\ s.seen + n <= request.maxMatches
    BY <1>9 DEF AcceptedSo
  <2>2. PICK k : k = s.seen + n
    OBVIOUS
  <2>3. k \in Nat /\ k + 1 = s.seen + n + 1 /\ k + 1 = s.seen + (n + 1)
        /\ seen = k + 1 /\ t.seen = k
        /\ Len(t.hits) = k /\ k <= request.maxMatches
    BY <1>6, <2>1, <2>2
  <2>4. Pending(t)
    BY <1>9 DEF Pending
  <2>5. PICK u : u = [t EXCEPT !.seen = seen]
    OBVIOUS
  <2>6. IsReader(u) /\ u.seen = seen /\ u.hits = t.hits /\ u.state = "pending"
        /\ u = [t EXCEPT !.seen = @ + 1]
    BY <1>2, <1>6, <1>9, <2>5 DEF IsReader
  <2>7. CASE Len(t.hits) = request.maxMatches
    <3>1. PICK v : v = [u EXCEPT !.state = "truncated"]
      OBVIOUS
    <3>2. AcceptOne(t, e) = v
      <4>1. AcceptOne(t, e) = [[t EXCEPT !.seen = @ + 1] EXCEPT !.state = "truncated"]
        BY <1>3, <1>5, <1>8, <2>4, <2>7, Zenon DEF AcceptOne, L
      <4>2. QED BY <2>6, <3>1, <4>1
    <3>3. v.state = "truncated" /\ v.hits = t.hits /\ v.seen = seen
      BY <2>6, <3>1 DEF IsReader
    <3>4. v.seen = request.maxMatches + 1 /\ request.maxMatches + 1 <= s.seen + (n + 1)
      <4>1. request.maxMatches = k
        BY <2>3, <2>7
      <4>2. PICK l : l = k + 1
        OBVIOUS
      <4>3. l \in Nat /\ l <= l /\ v.seen = l /\ s.seen + (n + 1) = l
            /\ request.maxMatches + 1 = l
        BY <2>3, <3>3, <4>1, <4>2
      <4>4. QED BY <4>3
    <3>5. QED BY <1>2, <1>4, <2>7, <3>2, <3>3, <3>4 DEF AcceptedSo
  <2>8. CASE Len(t.hits) # request.maxMatches
    <3>1. PICK hs : hs = Append(t.hits, hit)
      OBVIOUS
    <3>2. PICK v : v = [u EXCEPT !.hits = hs]
      OBVIOUS
    <3>3. AcceptOne(t, e) = v
      <4>1. AcceptOne(t, e) =
              [[t EXCEPT !.seen = @ + 1] EXCEPT !.hits =
                 Append(@, [occurrence |-> [t EXCEPT !.seen = @ + 1].seen, from |-> from,
                            to |-> e])]
        BY <1>3, <1>5, <1>8, <2>4, <2>8, Zenon DEF AcceptOne, L
      <4>2. QED BY <1>7, <2>6, <3>1, <3>2, <4>1
    <3>4. v.state = "pending" /\ v.hits = hs /\ v.seen = seen
      BY <2>6, <3>2 DEF IsReader
    <3>5. hit \in Finds
      <4>1. L <= e /\ e \in Nat
        BY DEF Occurrences, EndsIn, L
      <4>2. from \in Nat
        BY <1>1, <1>5, <4>1
      <4>3. QED BY <1>7, <2>3, <4>1, <4>2 DEF Finds
    <3>6. /\ hs \in Seq(Finds) /\ Len(hs) = k + 1 /\ hs[k + 1] = hit
          /\ \A i \in 1 .. k : hs[i] = t.hits[i]
      BY <1>2, <2>3, <3>1, <3>5, AppendProperties
    <3>7. IsFound(Occurrences, L, k + 1, hit)
      BY <1>5, <1>7, <2>3 DEF IsFound
    <3>8. FoundFirst(hs)
      <4>1. ASSUME NEW i \in 1 .. Len(hs) PROVE IsFound(Occurrences, L, i, hs[i])
        <5>1. CASE i = k + 1
          BY <3>6, <3>7, <5>1
        <5>2. CASE i # k + 1
          <6>1. i \in 1 .. k
            BY <2>3, <3>6, <5>2
          <6>2. QED BY <1>2, <2>3, <3>6, <6>1 DEF FoundFirst
        <5>3. QED BY <5>1, <5>2
      <4>2. QED BY <3>6, <4>1 DEF FoundFirst
    <3>9. k + 1 <= request.maxMatches
      BY <1>1, <2>3, <2>8
    <3>10. QED BY <1>4, <2>3, <3>3, <3>4, <3>6, <3>8, <3>9 DEF AcceptedSo
  <2>9. QED BY <2>7, <2>8
<1>10. CASE t.state # "pending"
  <2>1. AcceptOne(t, e) = t
    BY <1>10, Zenon DEF AcceptOne, Pending
  <2>2. PICK k, m : k = s.seen + n /\ m = request.maxMatches
    OBVIOUS
  <2>3. s.seen + (n + 1) = k + 1 /\ k \in Nat /\ m \in Nat
    BY <1>1, <2>2
  <2>4. /\ t.state = "truncated" /\ Len(t.hits) = request.maxMatches
        /\ t.seen = request.maxMatches + 1 /\ m + 1 <= k
    BY <1>10, <2>2 DEF AcceptedSo
  <2>5. m + 1 <= k + 1
    BY <2>3, <2>4
  <2>6. request.maxMatches + 1 <= s.seen + (n + 1)
    BY <2>2, <2>3, <2>5
  <2>7. QED BY <1>2, <2>1, <2>4, <2>6 DEF AcceptedSo
<1>11. QED BY <1>9, <1>10

LEMMA AllFound ==
  ASSUME RawRequest, NEW s, s.encoding = "unknown", s.seen \in Nat, AcceptedSo(s, s, 0),
         NEW ends, Len(ends) \in Nat,
         \A n \in 1 .. Len(ends) : /\ ends[n] \in Occurrences
                                   /\ Upto(Occurrences, ends[n]) = s.seen + n
  PROVE  AcceptedSo(Accepted(s, ends), s, Len(ends))
<1> DEFINE N == Len(ends)
           after == CHOOSE f : AcceptedRun(f, s, ends, N)
           wrong == {n \in 0 .. N : ~AcceptedSo(after[n], s, n)}
<1>1. AcceptedRun(after, s, ends, N)
  BY AcceptedRuns
<1>2. Accepted(s, ends) = after[N]
  BY DEF Accepted, AcceptedRun
<1> HIDE DEF after
<1>3. after[0] = s /\ \A n \in 1 .. N : after[n] = AcceptOne(after[n - 1], ends[n])
  <2>1. 0 \in 0 .. N /\ \A n \in 1 .. N : n \in 0 .. N /\ n # 0
    OBVIOUS
  <2>2. QED BY <1>1, <2>1 DEF AcceptedRun
<1>4. wrong = {}
  <2> SUFFICES ASSUME wrong # {} PROVE FALSE
    OBVIOUS
  <2>1. PICK n \in wrong : \A j \in wrong : n <= j
    <3>1. wrong \in SUBSET Nat
      OBVIOUS
    <3> HIDE DEF wrong
    <3>2. QED BY <3>1, LeastNumber
  <2>2. n \in 0 .. N /\ ~AcceptedSo(after[n], s, n)
    OBVIOUS
  <2>3. n # 0
    BY <1>3, <2>2
  <2>4. PICK k : k = n - 1
    OBVIOUS
  <2>5. n \in 1 .. N /\ k \in 0 .. N /\ k \in Nat /\ k + 1 = n /\ ~(n <= k)
    BY <2>2, <2>3, <2>4
  <2>6. AcceptedSo(after[k], s, k)
    BY <2>1, <2>5
  <2>7. ends[n] \in Occurrences /\ Upto(Occurrences, ends[n]) = s.seen + k + 1
    <3>1. PICK c : c = s.seen
      OBVIOUS
    <3>2. c + n = c + k + 1
      <4>1. c \in Nat
        BY <3>1
      <4>2. k \in Nat /\ n = k + 1
        BY <2>5
      <4> HIDE DEF wrong, N
      <4>3. c + (k + 1) = c + k + 1
        BY <4>1, <4>2
      <4>4. QED BY <4>2, <4>3
    <3>3. QED BY <2>5, <3>1, <3>2
  <2>8. AcceptedSo(AcceptOne(after[k], ends[n]), s, k + 1)
    BY <2>5, <2>6, <2>7, OneFound
  <2>9. QED BY <1>3, <2>2, <2>4, <2>5, <2>8
<1>5. N \in 0 .. N
  OBVIOUS
<1>6. QED BY <1>2, <1>4, <1>5

\* What was found stands in what was read.
RawKnown(r) ==
  /\ IsReader(r)
  /\ r.encoding = "unknown" /\ r.decided = TRUE
  /\ r.bytesRead \in Nat /\ r.bytesRead <= Len(input.bytes)
  /\ FoundFirst(r.hits) /\ Len(r.hits) <= Upto(Occurrences, r.bytesRead)

\* The buffer ends where the reading does, and the cursor stands at what of it was
\* consumed, with all reported that ends before.
RawAt(r) ==
  /\ r.buffer \in Seq(0 .. 255) /\ r.base \in Nat /\ r.consumed \in 0 .. Len(r.buffer)
  /\ r.base + Len(r.buffer) = r.bytesRead
  /\ \A i \in 1 .. Len(r.buffer) : r.buffer[i] = input.bytes[r.base + i]
  /\ r.eof => r.bytesRead = Len(input.bytes)
  /\ r.cursor = [matched |-> r.cursor.matched, scanned |-> r.base + r.consumed]
  /\ Follows(Sought, input.bytes, 0, r.base + r.consumed, r.cursor.matched)
  /\ r.seen = Len(r.hits) /\ r.seen = Upto(Occurrences, r.base + r.consumed)
  /\ r.seen <= request.maxMatches

\* What each end of a search says of it.
RawEnded(r) ==
  /\ r.state = "complete" => r.bytesRead = input.length
  /\ r.state = "short" => r.bytesRead = Len(input.bytes)
  /\ r.state \in {"complete", "short", "bytelimit", "calllimit"} =>
       Len(r.hits) = Upto(Occurrences, r.bytesRead)
  /\ r.state = "truncated" =>
       /\ Len(r.hits) = request.maxMatches /\ r.seen = request.maxMatches + 1
       /\ r.seen <= Upto(Occurrences, r.bytesRead)
  /\ r.state # "unsupported"

\* All that is in the buffer is ready: bytes are complete as they come.
RawRead(r) ==
  /\ RawKnown(r)
  /\ RawEnded(r)
  /\ Pending(r) => RawAt(r) /\ r.ready = Len(r.buffer)

LEMMA OccurrencesKnown ==
  ASSUME RawRequest
  PROVE  /\ Occurrences \in SUBSET Nat /\ IsFiniteSet(Occurrences)
         /\ Len(input.bytes) \in Nat /\ Occurrences \in SUBSET (1 .. Len(input.bytes))
         /\ \A p \in Nat : Upto(Occurrences, p) \in Nat
         /\ \A p \in Nat, q \in Nat : p <= q => Upto(Occurrences, p) <= Upto(Occurrences, q)
         /\ Upto(Occurrences, 0) = 0
<1>1. Len(input.bytes) \in Nat
  BY LenProperties DEF RawRequest, InputTypes
<1>2. Occurrences \in SUBSET (1 .. Len(input.bytes))
  BY DEF Occurrences, EndsIn
<1>3. Occurrences \in SUBSET Nat /\ IsFiniteSet(Occurrences)
  BY <1>1, <1>2, NthExists
<1>4. \A p \in Nat : Upto(Occurrences, p) \in Nat
  BY <1>3, UptoStep
<1>5. \A p \in Nat, q \in Nat : p <= q => Upto(Occurrences, p) <= Upto(Occurrences, q)
  <2>1. ASSUME NEW p \in Nat, NEW q \in Nat, p <= q
        PROVE  Upto(Occurrences, p) <= Upto(Occurrences, q)
    <3>1. p \in Int /\ q \in Int
      OBVIOUS
    <3>2. QED BY <1>3, <2>1, <3>1, UptoGrows
  <2>2. QED BY <2>1
<1>6. Upto(Occurrences, 0) = 0
  <2>1. \A e \in Occurrences : ~(e <= 0)
    BY <1>2
  <2>2. {e \in Occurrences : e <= 0} = {}
    BY <2>1
  <2>3. QED BY <2>2, FS_EmptySet DEF Upto
<1>7. QED BY <1>1, <1>2, <1>3, <1>4, <1>5, <1>6

LEMMA RawReadsOn ==
  ASSUME RawRequest, NEW r, ReaderTypes(r), Pending(r), RawRead(r),
         NEW budget \in StepBudgets, NEW s \in Reads(r, budget)
  PROVE  /\ RawKnown(s) /\ RawAt(s) /\ Pending(s)
         /\ (s.ready = 0 /\ s.consumed = 0) \/ s.ready = Len(s.buffer)
<1>1. InputTypes /\ RawKnown(r) /\ RawAt(r) /\ r.ready = Len(r.buffer)
  BY DEF RawRequest, RawRead
<1>2. /\ r.ready # 0 => s = r
      /\ SameSearch(s, r)
      /\ NothingCame(s, r) \/ \E n \in Nat : n > 0 /\ BytesCame(s, r, n)
  BY <1>1, ReadsBring
<1>3. Pending(s)
  BY <1>2 DEF SameSearch, Pending
<1>4. r.bytesRead \in Nat /\ Len(input.bytes) \in Nat /\ r.bytesRead <= Len(input.bytes)
      /\ Len(r.buffer) \in Nat /\ r.base \in Nat /\ r.buffer \in Seq(0 .. 255)
      /\ r.consumed \in 0 .. Len(r.buffer) /\ r.base + Len(r.buffer) = r.bytesRead
  BY <1>1, OccurrencesKnown, LenProperties DEF RawKnown, RawAt
<1>5. CASE NothingCame(s, r)
  <2>1. s.buffer = r.buffer /\ s.bytesRead = r.bytesRead
        /\ (s.eof = r.eof \/ r.bytesRead = Len(input.bytes))
    BY <1>4, <1>5 DEF NothingCame
  <2>2. RawKnown(s)
    BY <1>1, <1>2, <2>1 DEF RawKnown, SameSearch
  <2>3. RawAt(s)
    BY <1>1, <1>2, <2>1, Zenon DEF RawAt, SameSearch
  <2>4. s.ready = Len(s.buffer)
    BY <1>1, <1>2, <2>1 DEF SameSearch
  <2>5. QED BY <1>3, <2>2, <2>3, <2>4
<1>6. CASE \E n \in Nat : n > 0 /\ BytesCame(s, r, n)
  <2>1. PICK n \in Nat : n > 0 /\ BytesCame(s, r, n)
    BY <1>6
  <2>2. r.ready = 0 /\ n <= Len(input.bytes) - r.bytesRead /\ s.bytesRead = r.bytesRead + n
        /\ s.eof = r.eof
    BY <2>1 DEF BytesCame
  <2>3. PICK more : more = SubSeq(input.bytes, r.bytesRead + 1, r.bytesRead + n)
    OBVIOUS
  <2>4. PICK p, l : p = r.bytesRead /\ l = Len(input.bytes)
    OBVIOUS
  <2>5. p \in Nat /\ l \in Nat /\ n <= l - p /\ s.bytesRead = p + n
    BY <1>4, <2>2, <2>4
  <2>6. p + n \in Nat /\ p + n <= l /\ p <= p + n /\ (p + n) - (p + 1) + 1 = n /\ p # l
        /\ p + 1 \in Nat /\ p + 1 <= p + n + 1
        /\ (\A i \in 1 .. n : (p + 1) + i - 1 = p + i)
        /\ (\A i \in (p + 1) .. (p + n) : i \in 1 .. l)
    BY <2>1, <2>5
  <2>7. more \in Seq(0 .. 255) /\ Len(more) = n
        /\ \A i \in 1 .. n : more[i] = input.bytes[p + i]
    <3>0. input.bytes \in Seq(0 .. 255) /\ \A i \in (p + 1) .. (p + n) : i \in 1 .. Len(input.bytes)
      BY <1>1, <2>4, <2>6 DEF InputTypes
    <3>1. \A i \in (p + 1) .. (p + n) : input.bytes[i] \in 0 .. 255
      BY <3>0, ElementOfSeq
    <3>2. more = SubSeq(input.bytes, p + 1, p + n)
      BY <2>3, <2>4
    <3>3. /\ more \in Seq(0 .. 255)
          /\ Len(more) = IF p + 1 <= p + n THEN (p + n) - (p + 1) + 1 ELSE 0
          /\ \A i \in 1 .. ((p + n) - (p + 1) + 1) : more[i] = input.bytes[(p + 1) + i - 1]
      <4>1. PICK a, b : a = p + 1 /\ b = p + n
        OBVIOUS
      <4>2. a \in Int /\ b \in Int /\ \A i \in a .. b : input.bytes[i] \in 0 .. 255
        BY <2>5, <3>1, <4>1
      <4>3. /\ SubSeq(input.bytes, a, b) \in Seq(0 .. 255)
            /\ Len(SubSeq(input.bytes, a, b)) = IF a <= b THEN b - a + 1 ELSE 0
            /\ \A i \in 1 .. (b - a + 1) : SubSeq(input.bytes, a, b)[i] = input.bytes[a + i - 1]
        BY <4>2, SubSeqProperties
      <4>4. QED BY <3>2, <4>1, <4>3
    <3>4. p + 1 <= p + n
      BY <2>1, <2>5
    <3>5. QED BY <2>6, <3>3, <3>4
  <2>8. r.buffer = <<>> /\ Len(r.buffer) = 0 /\ r.consumed = 0 /\ r.base = p
    <3>1. Len(r.buffer) = 0
      BY <1>1, <2>2
    <3>2. r.buffer = <<>>
      BY <1>4, <3>1, EmptySeq
    <3>3. PICK a, c : a = r.base /\ c = r.consumed
      OBVIOUS
    <3>4. a \in Nat /\ c \in 0 .. 0 /\ a + 0 = p
      BY <1>4, <2>4, <3>1, <3>3
    <3>5. QED BY <3>1, <3>2, <3>3, <3>4
  <2>9. s.buffer = more
    <3>1. s.buffer = r.buffer \o more
      BY <2>1, <2>3 DEF BytesCame
    <3>2. QED BY <2>7, <2>8, <3>1, ConcatProperties
  <2>10. s.base = p /\ s.consumed = 0 /\ s.ready = 0
    BY <1>2, <2>2, <2>8 DEF SameSearch
  <2>11. ~r.eof
    BY <1>1, <2>4, <2>6 DEF RawAt
  <2>12. RawKnown(s)
    <3>1. Len(s.hits) <= Upto(Occurrences, s.bytesRead)
      <4>1. PICK a, b, c : a = Upto(Occurrences, p) /\ b = Upto(Occurrences, p + n)
                           /\ c = Len(r.hits)
        OBVIOUS
      <4>2. a \in Nat /\ b \in Nat /\ a <= b
        BY <2>5, <2>6, <4>1, OccurrencesKnown
      <4>3. c \in Nat /\ c <= a
        BY <1>1, <2>4, <4>1, LenProperties DEF RawKnown, FoundFirst
      <4>4. c <= b
        BY <4>2, <4>3
      <4>5. QED BY <1>2, <2>5, <4>1, <4>4 DEF SameSearch
    <3>2. s.bytesRead \in Nat /\ s.bytesRead <= Len(input.bytes)
      BY <2>4, <2>5, <2>6
    <3>3. QED BY <1>1, <1>2, <3>1, <3>2 DEF RawKnown, SameSearch
  <2>13. RawAt(s)
    <3>1. /\ s.buffer \in Seq(0 .. 255) /\ s.base \in Nat /\ s.consumed \in 0 .. Len(s.buffer)
          /\ s.base + Len(s.buffer) = s.bytesRead
          /\ \A i \in 1 .. Len(s.buffer) : s.buffer[i] = input.bytes[s.base + i]
          /\ s.eof => s.bytesRead = Len(input.bytes)
      <4>1. s.eof = FALSE \/ ~s.eof
        BY <2>2, <2>11
      <4>2. Len(s.buffer) = n
        BY <2>7, <2>9
      <4>3. 0 \in 0 .. n /\ p + n = p + n
        OBVIOUS
      <4>4. s.base + Len(s.buffer) = s.bytesRead /\ s.consumed \in 0 .. Len(s.buffer)
            /\ s.base \in Nat
        BY <2>5, <2>10, <4>2, <4>3
      <4>5. \A i \in 1 .. Len(s.buffer) : s.buffer[i] = input.bytes[s.base + i]
        BY <2>7, <2>9, <2>10, <4>2
      <4>6. QED BY <2>7, <2>9, <4>1, <4>4, <4>5
    <3>2. s.base = r.base /\ s.consumed = r.consumed /\ s.cursor = r.cursor
          /\ s.seen = r.seen /\ s.hits = r.hits
      BY <1>2 DEF SameSearch
    <3>3. QED BY <1>1, <3>1, <3>2, Zenon DEF RawAt
  <2>14. QED BY <1>3, <2>10, <2>12, <2>13
<1>7. QED BY <1>2, <1>5, <1>6

LEMMA RawBatch ==
  ASSUME RawRequest, NEW s, RawKnown(s), RawAt(s), s.ready = Len(s.buffer),
         NEW budget \in StepBudgets
  PROVE  LET p == s.base + s.consumed
             bytes == SubSeq(s.buffer, s.consumed + 1, s.ready)
             batch == CursorStep(Wanted(s), s.cursor, bytes, budget.bytes, budget.hits)
         IN  /\ batch.consumed \in 0 .. (Len(s.buffer) - s.consumed)
             /\ batch.cursor = [matched |-> batch.cursor.matched,
                                scanned |-> p + batch.consumed]
             /\ Follows(Sought, input.bytes, 0, p + batch.consumed, batch.cursor.matched)
             /\ Listed(batch.hits, Occurrences, p, p + batch.consumed)
<1> DEFINE L == Len(Sought)
<1>1. PICK p : p = s.base + s.consumed
  OBVIOUS
<1>2. PICK c, n : c = s.consumed /\ n = Len(s.buffer)
  OBVIOUS
<1>3. PICK bytes : bytes = SubSeq(s.buffer, s.consumed + 1, s.ready)
  OBVIOUS
<1>4. s.buffer \in Seq(0 .. 255) /\ n \in Nat /\ c \in 0 .. n /\ s.base \in Nat
      /\ budget.bytes \in Nat /\ budget.hits \in Nat /\ L \in Nat /\ L > 0
      /\ s.base + n = s.bytesRead /\ s.bytesRead <= Len(input.bytes)
      /\ Len(input.bytes) \in Nat /\ p = s.base + c
  BY <1>1, <1>2, ReadAssumption, SoughtIsBytes, OccurrencesKnown, LenProperties
     DEF RawAt, RawKnown
<1>5. p \in Nat /\ p + (n - c) = s.base + n /\ n - c \in Nat
      /\ n - (c + 1) + 1 = n - c
  BY <1>4
<1>6. Len(bytes) = n - c /\ \A i \in 1 .. Len(bytes) : bytes[i] = input.bytes[p + i]
  <2>1. PICK a : a = c + 1
    OBVIOUS
  <2>2. /\ a \in Int /\ n \in Int /\ n - a + 1 = n - c
        /\ (IF a <= n THEN n - a + 1 ELSE 0) = n - c
        /\ \A i \in a .. n : i \in 1 .. Len(s.buffer)
        /\ \A i \in 1 .. (n - c) : a + i - 1 = c + i /\ c + i \in 1 .. Len(s.buffer)
                                   /\ s.base + (c + i) = p + i
    <3>1. PICK b : b = s.base
      OBVIOUS
    <3>2. b \in Nat /\ n \in Nat /\ c \in 0 .. n /\ p = b + c /\ a = c + 1
          /\ Len(s.buffer) = n
      BY <1>2, <1>4, <2>1, <3>1
    <3>3. /\ a \in Int /\ n \in Int /\ n - a + 1 = n - c
          /\ (IF a <= n THEN n - a + 1 ELSE 0) = n - c
          /\ \A i \in a .. n : i \in 1 .. n
          /\ \A i \in 1 .. (n - c) : a + i - 1 = c + i /\ c + i \in 1 .. n
                                     /\ b + (c + i) = p + i
      BY <3>2
    <3>4. QED BY <3>1, <3>2, <3>3
  <2>3. \A i \in a .. n : s.buffer[i] \in 0 .. 255
    BY <1>4, <2>2, ElementOfSeq
  <2>4. bytes = SubSeq(s.buffer, a, n)
    BY <1>2, <1>3, <2>1
  <2>5. /\ Len(bytes) = IF a <= n THEN n - a + 1 ELSE 0
        /\ \A i \in 1 .. (n - a + 1) : bytes[i] = s.buffer[a + i - 1]
    BY <2>2, <2>3, <2>4, SubSeqProperties
  <2>6. Len(bytes) = n - c /\ \A i \in 1 .. (n - c) : bytes[i] = s.buffer[c + i]
    BY <2>2, <2>5
  <2>7. \A i \in 1 .. (n - c) : s.buffer[c + i] = input.bytes[p + i]
    <3>1. \A i \in 1 .. Len(s.buffer) : s.buffer[i] = input.bytes[s.base + i]
      BY DEF RawAt
    <3>2. ASSUME NEW i \in 1 .. (n - c) PROVE s.buffer[c + i] = input.bytes[p + i]
      <4>1. c + i \in 1 .. Len(s.buffer) /\ s.base + (c + i) = p + i
        BY <2>2
      <4>2. QED BY <3>1, <4>1
    <3>3. QED BY <3>2
  <2>8. QED BY <2>6, <2>7
<1>7. PICK m : m = s.cursor.matched
  OBVIOUS
<1>8. s.cursor = [matched |-> m, scanned |-> p] /\ Follows(Sought, input.bytes, 0, p, m)
  BY <1>1, <1>7 DEF RawAt
<1>9. \A i \in 1 .. Len(bytes) : p + i \in Occurrences <=> EndsAt(Sought, input.bytes, 0, p + i)
  <2>1. ASSUME NEW i \in 1 .. Len(bytes)
        PROVE  p + i \in Occurrences <=> EndsAt(Sought, input.bytes, 0, p + i)
    <3>1. PICK e : e = p + i
      OBVIOUS
    <3>2. e \in 1 .. Len(input.bytes) /\ e - 0 = e
      <4>1. PICK l, b : l = Len(input.bytes) /\ b = s.bytesRead
        OBVIOUS
      <4>2. i \in 1 .. (n - c) /\ p \in Nat /\ n - c \in Nat /\ p + (n - c) = b
            /\ b <= l /\ l \in Nat
        BY <1>4, <1>5, <1>6, <4>1
      <4>3. e \in 1 .. l /\ e - 0 = e
        BY <3>1, <4>2
      <4>4. QED BY <4>1, <4>3
    <3>3. e \in Occurrences <=> L <= e /\ Fits(Sought, input.bytes, e, L)
      BY <3>2 DEF Occurrences, EndsIn, L
    <3>4. EndsAt(Sought, input.bytes, 0, e) <=> L <= e /\ Fits(Sought, input.bytes, e, L)
      BY <3>2 DEF EndsAt, L
    <3>5. QED BY <3>1, <3>3, <3>4
  <2>2. QED BY <2>1
<1>10. PICK batch : batch = CursorStep(Sought, s.cursor, bytes, budget.bytes, budget.hits)
  OBVIOUS
<1>11. PICK size : size = IF budget.bytes < Len(bytes) THEN budget.bytes ELSE Len(bytes)
  OBVIOUS
<1>12. GoodBatch(batch, Sought, input.bytes, 0, p, Occurrences, size, budget.hits)
  <2>1. Occurrences \in SUBSET Nat /\ IsFiniteSet(Occurrences)
    BY OccurrencesKnown
  <2>2. Len(bytes) \in Nat /\ 0 \in Nat /\ 0 <= p
    BY <1>5, <1>6
  <2>3. Len(Sought) \in Nat /\ Len(Sought) > 0 /\ p \in Nat /\ budget.bytes \in Nat
        /\ budget.hits \in Nat
    BY <1>4, <1>5
  <2>4. batch = CursorStep(Sought, [matched |-> m, scanned |-> p], bytes, budget.bytes,
                           budget.hits)
    BY <1>8, <1>10
  <2>5. \A i \in 1 .. Len(bytes) : bytes[i] = input.bytes[p + i]
    BY <1>6
  <2>6. Follows(Sought, input.bytes, 0, p, m)
    BY <1>8
  <2> HIDE DEF L
  <2>7. GoodBatch(CursorStep(Sought, [matched |-> m, scanned |-> p], bytes, budget.bytes,
                             budget.hits), Sought, input.bytes, 0, p, Occurrences,
                  IF budget.bytes < Len(bytes) THEN budget.bytes ELSE Len(bytes), budget.hits)
    BY <1>9, <2>1, <2>2, <2>3, <2>5, <2>6, CursorSteps
  <2>8. QED BY <1>11, <2>4, <2>7
<1>13. size \in Nat /\ size <= n - c
  BY <1>4, <1>5, <1>6, <1>11
<1>14. /\ batch.consumed \in 0 .. size
       /\ batch.cursor \in [matched : Nat, scanned : Nat]
       /\ batch.cursor.scanned = p + batch.consumed
  BY <1>5, <1>12, <1>13, BatchBounds
<1>15. batch.consumed \in 0 .. (n - c)
  <2>1. PICK k, d : k = batch.consumed /\ d = n - c
    OBVIOUS
  <2>2. k \in 0 .. size /\ size \in Nat /\ size <= d /\ d \in Nat
    BY <1>5, <1>13, <1>14, <2>1
  <2>3. k \in 0 .. d
    BY <2>2
  <2>4. QED BY <2>1, <2>3
<1>16. batch.cursor = [matched |-> batch.cursor.matched, scanned |-> p + batch.consumed]
  BY <1>14
<1>17. Wanted(s) = Sought
  BY RawWanted DEF RawKnown
<1>18. QED
  BY <1>1, <1>2, <1>3, <1>10, <1>12, <1>15, <1>16, <1>17 DEF GoodBatch

LEMMA RawSearched ==
  ASSUME RawRequest, NEW s, RawRead(s), Pending(s), NEW budget \in StepBudgets
  PROVE  RawRead(Searched(s, budget))
<1> DEFINE bytes == SubSeq(s.buffer, s.consumed + 1, s.ready)
<1>1. RawKnown(s) /\ RawAt(s) /\ s.ready = Len(s.buffer) /\ IsReader(s)
      /\ s.encoding = "unknown" /\ s.decided = TRUE /\ s.state = "pending"
  BY DEF RawRead, RawKnown, Pending
<1>2. CASE s.ready = s.consumed
  <2>1. Searched(s, budget) = s
    BY <1>2 DEF Searched
  <2>2. QED BY <2>1
<1>3. CASE s.ready # s.consumed
  <2>1. PICK batch : batch = CursorStep(Wanted(s), s.cursor, bytes, budget.bytes, budget.hits)
    OBVIOUS
  <2>2. PICK p, n, d : p = s.base + s.consumed /\ n = Len(s.buffer) /\ d = batch.consumed
    OBVIOUS
  <2>3. /\ d \in 0 .. (n - s.consumed)
        /\ batch.cursor = [matched |-> batch.cursor.matched, scanned |-> p + d]
        /\ Follows(Sought, input.bytes, 0, p + d, batch.cursor.matched)
        /\ Listed(batch.hits, Occurrences, p, p + d)
    BY <1>1, <2>1, <2>2, RawBatch
  <2>4. PICK b, c : b = s.base /\ c = s.consumed
    OBVIOUS
  <2>5. /\ b \in Nat /\ n \in Nat /\ c \in 0 .. n /\ d \in 0 .. (n - c) /\ p = b + c
        /\ b + n = s.bytesRead /\ s.bytesRead \in Nat /\ s.ready = n
    BY <1>1, <2>2, <2>3, <2>4, LenProperties DEF RawAt, RawKnown
  <2>6. /\ p \in Nat /\ p + d \in Nat /\ p + d = b + (c + d) /\ c + d \in 0 .. n
        /\ p + d <= b + n
    BY <2>5
  <2>7. PICK t : t = [s EXCEPT !.cursor = batch.cursor, !.consumed = @ + d]
    OBVIOUS
  <2>8. /\ IsReader(t) /\ t.buffer = s.buffer /\ t.base = b /\ t.ready = n
        /\ t.consumed = c + d /\ t.eof = s.eof /\ t.encoding = "unknown"
        /\ t.decided = TRUE /\ t.cursor = batch.cursor
        /\ t.hits = s.hits /\ t.seen = s.seen /\ t.bytesRead = s.bytesRead
        /\ t.state = "pending"
    BY <1>1, <2>4, <2>5, <2>7 DEF IsReader
  <2>9. /\ Upto(Occurrences, p) \in Nat /\ Upto(Occurrences, p + d) \in Nat
        /\ Upto(Occurrences, p + d) <= Upto(Occurrences, b + n)
        /\ Upto(Occurrences, b + n) \in Nat
    BY <2>5, <2>6, OccurrencesKnown
  <2>10. /\ t.seen = Upto(Occurrences, p) /\ t.seen \in Nat /\ Len(t.hits) = t.seen
         /\ t.seen <= request.maxMatches /\ FoundFirst(t.hits)
    BY <1>1, <2>2, <2>8, <2>9 DEF RawAt, RawKnown
  <2>11. PICK ends : ends = batch.hits
    OBVIOUS
  <2>12. /\ Len(ends) = Upto(Occurrences, p + d) - Upto(Occurrences, p)
         /\ Len(ends) \in Nat /\ DOMAIN ends = 1 .. Len(ends)
         /\ \A k \in 1 .. Len(ends) : /\ ends[k] \in Occurrences
                                      /\ Upto(Occurrences, ends[k]) = t.seen + k
    BY <2>3, <2>10, <2>11, LenProperties DEF Listed
  <2>13. AcceptedSo(t, t, 0)
    <3>1. t.seen + 0 = t.seen
      BY <2>10
    <3>2. SameInput(t, t)
      BY <2>8 DEF SameInput
    <3>3. QED BY <2>8, <2>10, <3>1, <3>2 DEF AcceptedSo
  <2>14. PICK a : a = Accepted(t, ends)
    OBVIOUS
  <2>15. AcceptedSo(a, t, Len(ends))
    BY <2>8, <2>10, <2>12, <2>13, <2>14, AllFound
  <2>16. t.seen + Len(ends) = Upto(Occurrences, p + d)
    <3>1. PICK x, y : x = Upto(Occurrences, p) /\ y = Upto(Occurrences, p + d)
      OBVIOUS
    <3>2. x \in Nat /\ y \in Nat /\ x + (y - x) = y
      BY <2>9, <3>1
    <3>3. QED BY <2>10, <2>12, <3>1, <3>2
  <2>17. /\ IsReader(a) /\ a.buffer = s.buffer /\ a.base = b /\ a.ready = n
         /\ a.consumed = c + d /\ a.eof = s.eof /\ a.encoding = "unknown"
         /\ a.decided = TRUE /\ a.cursor = batch.cursor /\ a.bytesRead = b + n
         /\ FoundFirst(a.hits)
    BY <2>5, <2>8, <2>15 DEF AcceptedSo, SameInput
  <2>18. \/ /\ a.state = "pending" /\ a.seen = Upto(Occurrences, p + d)
            /\ Len(a.hits) = Upto(Occurrences, p + d)
            /\ Upto(Occurrences, p + d) <= request.maxMatches
         \/ /\ a.state = "truncated" /\ Len(a.hits) = request.maxMatches
            /\ a.seen = request.maxMatches + 1
            /\ request.maxMatches + 1 <= Upto(Occurrences, p + d)
    BY <2>15, <2>16 DEF AcceptedSo
  <2>19. Len(a.hits) <= Upto(Occurrences, b + n)
         /\ (a.state = "truncated" => a.seen <= Upto(Occurrences, b + n))
    <3>1. PICK x, y, m : x = Upto(Occurrences, p + d) /\ y = Upto(Occurrences, b + n)
                         /\ m = request.maxMatches
      OBVIOUS
    <3>2. x \in Nat /\ y \in Nat /\ x <= y /\ m \in Nat
      BY <2>9, <3>1 DEF RawRequest, InputTypes
    <3>3. (Len(a.hits) = x /\ a.state = "pending")
          \/ (Len(a.hits) = m /\ a.seen = m + 1 /\ m + 1 <= x)
      BY <2>18, <3>1
    <3>4. m + 1 <= x => m <= y /\ m + 1 <= y
      BY <3>2
    <3>5. QED BY <3>1, <3>2, <3>3, <3>4
  <2>20. Searched(s, budget) = Compacted(a)
    BY <1>3, <2>1, <2>2, <2>7, <2>11, <2>14 DEF Searched
  <2>21. RawKnown(a)
    BY <1>1, <2>5, <2>17, <2>19 DEF RawKnown
  <2>22. RawEnded(a)
    BY <2>17, <2>18, <2>19 DEF RawEnded
  <2>23. a.state = "pending" => RawAt(a)
    <3>1. ASSUME a.state = "pending" PROVE RawAt(a)
      <4>1. a.seen = Len(a.hits) /\ a.seen = Upto(Occurrences, p + d)
            /\ a.seen <= request.maxMatches
        BY <2>18, <3>1
      <4>2. /\ a.consumed \in 0 .. Len(a.buffer) /\ a.base + a.consumed = p + d
            /\ a.base + Len(a.buffer) = a.bytesRead
        BY <2>2, <2>6, <2>17
      <4>3. a.cursor = [matched |-> a.cursor.matched, scanned |-> a.base + a.consumed]
            /\ Follows(Sought, input.bytes, 0, a.base + a.consumed, a.cursor.matched)
        BY <2>3, <2>17, <4>2
      <4>4. a.buffer \in Seq(0 .. 255) /\ a.base \in Nat
            /\ (\A i \in 1 .. Len(a.buffer) : a.buffer[i] = input.bytes[a.base + i])
            /\ (a.eof => a.bytesRead = Len(input.bytes))
        <5>1. a.buffer = s.buffer /\ a.base = s.base /\ a.eof = s.eof
              /\ a.bytesRead = s.bytesRead
          BY <2>4, <2>5, <2>17
        <5>2. s.buffer \in Seq(0 .. 255) /\ s.base \in Nat
              /\ (\A i \in 1 .. Len(s.buffer) : s.buffer[i] = input.bytes[s.base + i])
              /\ (s.eof => s.bytesRead = Len(input.bytes))
          BY <1>1, Zenon DEF RawAt
        <5>3. QED BY <5>1, <5>2, Zenon
      <4>5. QED BY <4>1, <4>2, <4>3, <4>4 DEF RawAt
    <3>2. QED BY <3>1
  <2>24. CASE a.consumed < a.ready
    <3>1. Compacted(a) = a
      BY <2>24 DEF Compacted
    <3>2. a.ready = Len(a.buffer)
      BY <2>2, <2>17
    <3>3. QED BY <2>20, <2>21, <2>22, <2>23, <3>1, <3>2 DEF RawRead, Pending
  <2>25. CASE ~(a.consumed < a.ready)
    <3>1. PICK rest : rest = Rest(a.buffer, a.ready)
      OBVIOUS
    <3>2. PICK u : u = [a EXCEPT !.buffer = rest, !.base = @ + a.ready,
                                 !.ready = 0, !.consumed = 0]
      OBVIOUS
    <3>3. Compacted(a) = u
      BY <2>25, <3>1, <3>2 DEF Compacted
    <3>4. /\ IsReader(u) /\ u.buffer = rest /\ u.base = b + n /\ u.ready = 0
          /\ u.consumed = 0 /\ u.eof = a.eof /\ u.encoding = a.encoding
          /\ u.decided = a.decided /\ u.cursor = a.cursor /\ u.hits = a.hits
          /\ u.seen = a.seen /\ u.bytesRead = a.bytesRead /\ u.state = a.state
      BY <2>17, <3>2 DEF IsReader
    <3>5. rest = <<>>
      <4>1. s.buffer \in Seq(0 .. 255) /\ a.ready = Len(s.buffer) /\ a.ready \in Nat
        BY <1>1, <2>2, <2>5, <2>17 DEF RawAt
      <4>2. QED BY <2>17, <3>1, <4>1, RestIsBytes
    <3>6. c + d = n
      <4>1. PICK k : k = c + d
        OBVIOUS
      <4>2. k \in 0 .. n /\ ~(k < n) /\ n \in Nat
        BY <2>5, <2>6, <2>17, <2>25, <4>1
      <4>3. k = n
        BY <4>2
      <4>4. QED BY <4>1, <4>3
    <3>7. RawKnown(u)
      BY <2>21, <3>4 DEF RawKnown
    <3>8. RawEnded(u)
      BY <2>22, <3>4 DEF RawEnded
    <3>9. u.state = "pending" => RawAt(u)
      <4>1. ASSUME u.state = "pending" PROVE RawAt(u)
        <5>1. RawAt(a)
          BY <2>23, <3>4, <4>1
        <5>2. u.base + u.consumed = a.base + a.consumed /\ u.base \in Nat
              /\ u.base + 0 = u.bytesRead
          BY <2>5, <2>17, <3>4, <3>6
        <5>3. u.buffer = <<>> /\ Len(u.buffer) = 0 /\ u.buffer \in Seq(0 .. 255)
          BY <3>4, <3>5, EmptySeq
        <5>4. u.consumed \in 0 .. Len(u.buffer)
              /\ (\A i \in 1 .. Len(u.buffer) : u.buffer[i] = input.bytes[u.base + i])
          BY <3>4, <5>3
        <5>5. u.eof => u.bytesRead = Len(input.bytes)
          BY <3>4, <5>1 DEF RawAt
        <5>6. u.cursor = [matched |-> u.cursor.matched, scanned |-> u.base + u.consumed]
              /\ Follows(Sought, input.bytes, 0, u.base + u.consumed, u.cursor.matched)
              /\ u.seen = Len(u.hits) /\ u.seen = Upto(Occurrences, u.base + u.consumed)
              /\ u.seen <= request.maxMatches
          BY <3>4, <5>1, <5>2 DEF RawAt
        <5>7. QED BY <5>2, <5>3, <5>4, <5>5, <5>6 DEF RawAt
      <4>2. QED BY <4>1
    <3>10. u.ready = Len(u.buffer)
      BY <3>4, <3>5, EmptySeq
    <3>11. QED BY <2>20, <3>3, <3>7, <3>8, <3>9, <3>10 DEF RawRead, Pending
  <2>26. QED BY <2>24, <2>25
<1>4. QED BY <1>2, <1>3

LEMMA RawSettled ==
  ASSUME RawRequest, NEW s, RawRead(s)
  PROVE  RawRead(SettledReader(s))
<1> DEFINE empty == s.buffer = <<>>
           state == CASE empty /\ s.bytesRead = input.length -> "complete"
                      [] empty /\ s.bytesRead # input.length /\ s.eof -> "short"
                      [] ~(empty /\ (s.bytesRead = input.length \/ s.eof)) ->
                           CASE s.bytesRead >= request.maxBytes -> "bytelimit"
                             [] s.bytesRead < request.maxBytes /\ OutOfCalls(s) -> "calllimit"
                             [] OTHER -> "pending"
<1>1. CASE ~(Pending(s) /\ s.ready = 0)
  <2>1. SettledReader(s) = s
    BY <1>1, Zenon DEF SettledReader
  <2>2. QED BY <2>1
<1>2. CASE Pending(s) /\ s.ready = 0
  <2>1. RawKnown(s) /\ RawEnded(s) /\ RawAt(s) /\ Len(s.buffer) = 0 /\ IsReader(s)
        /\ s.buffer \in Seq(0 .. 255)
    BY <1>2 DEF RawRead, RawKnown, RawAt
  <2>2. s.buffer = <<>>
    BY <2>1, EmptySeq
  <2>3. s.base + s.consumed = s.bytesRead
    <3>1. PICK b, c : b = s.base /\ c = s.consumed
      OBVIOUS
    <3>2. b \in Nat /\ c \in 0 .. 0 /\ b + 0 = s.bytesRead
      BY <2>1, <3>1 DEF RawAt
    <3>3. b + c = s.bytesRead
      BY <3>2
    <3>4. QED BY <3>1, <3>3
  <2>4. Len(s.hits) = Upto(Occurrences, s.bytesRead)
    BY <2>1, <2>3 DEF RawAt
  <2>5. PICK v : v = state
    OBVIOUS
  <2>6. PICK u : u = [s EXCEPT !.state = v]
    OBVIOUS
  <2>7. SettledReader(s) = u
    BY <1>2, <2>5, <2>6, Zenon DEF SettledReader
  <2>8. /\ v \in {"complete", "short", "bytelimit", "calllimit", "pending"}
        /\ v = "complete" => s.bytesRead = input.length
        /\ v = "short" => s.eof
    <3>1. CASE empty /\ s.bytesRead = input.length
      BY <2>5, <3>1
    <3>2. CASE empty /\ s.bytesRead # input.length /\ s.eof
      BY <2>5, <3>2
    <3>3. CASE ~(empty /\ (s.bytesRead = input.length \/ s.eof))
      <4>1. v = CASE s.bytesRead >= request.maxBytes -> "bytelimit"
                  [] s.bytesRead < request.maxBytes /\ OutOfCalls(s) -> "calllimit"
                  [] OTHER -> "pending"
        BY <2>5, <3>3
      <4>2. v \in {"bytelimit", "calllimit", "pending"}
        BY <4>1
      <4>3. QED BY <4>2
    <3>4. QED BY <3>1, <3>2, <3>3
  <2> HIDE DEF state
  <2>9. /\ IsReader(u) /\ u.buffer = s.buffer /\ u.base = s.base /\ u.ready = s.ready
        /\ u.consumed = s.consumed /\ u.eof = s.eof /\ u.encoding = s.encoding
        /\ u.decided = s.decided /\ u.cursor = s.cursor /\ u.hits = s.hits
        /\ u.seen = s.seen /\ u.bytesRead = s.bytesRead /\ u.state = v
    BY <2>1, <2>6 DEF IsReader
  <2>10. RawKnown(u)
    BY <2>1, <2>9 DEF RawKnown
  <2>11. RawAt(u)
    BY <2>1, <2>9, Zenon DEF RawAt
  <2>12. RawEnded(u)
    <3>1. v = "short" => s.bytesRead = Len(input.bytes)
      BY <2>1, <2>8 DEF RawAt
    <3>2. v # "truncated" /\ v # "unsupported"
      BY <2>8
    <3>3. QED BY <2>4, <2>8, <2>9, <3>1, <3>2 DEF RawEnded
  <2>13. u.ready = Len(u.buffer)
    BY <1>2, <2>1, <2>9
  <2>14. QED BY <2>7, <2>10, <2>11, <2>12, <2>13 DEF RawRead
<1>3. QED BY <1>1, <1>2

\* Nothing of a search for bytes is decoded: all that came is ready.
LEMMA RawPrepared ==
  ASSUME RawRequest, NEW s, RawKnown(s), RawAt(s), Pending(s)
  PROVE  RawRead(Prepared(s)) /\ Pending(Prepared(s))
<1>1. IsReader(s) /\ s.encoding = "unknown" /\ s.decided = TRUE /\ s.state = "pending"
  BY DEF RawKnown, Pending
<1>2. ~IsText
  BY <1>1, RawWanted
<1>3. ~Undecided(s) /\ Decided(s) = s /\ Ready(s) = Len(s.buffer)
  BY <1>1, <1>2, Zenon DEF Undecided, Decided, Ready
<1>4. PICK t : t = [s EXCEPT !.ready = Len(s.buffer)]
  OBVIOUS
<1>5. Prepared(s) = t
  BY <1>2, <1>3, <1>4, Zenon DEF Prepared
<1>6. /\ IsReader(t) /\ t.buffer = s.buffer /\ t.base = s.base /\ t.ready = Len(s.buffer)
      /\ t.consumed = s.consumed /\ t.eof = s.eof /\ t.encoding = s.encoding
      /\ t.decided = s.decided /\ t.cursor = s.cursor /\ t.hits = s.hits
      /\ t.seen = s.seen /\ t.bytesRead = s.bytesRead /\ t.state = "pending"
  BY <1>1, <1>4 DEF IsReader
<1>7. RawKnown(t)
  BY <1>6 DEF RawKnown
<1>8. RawAt(t)
  BY <1>6, Zenon DEF RawAt
<1>9. RawEnded(t)
  BY <1>6 DEF RawEnded
<1>10. QED BY <1>5, <1>6, <1>7, <1>8, <1>9 DEF RawRead, Pending

\* What a search that stops keeps.
LEMMA RawStopped ==
  ASSUME NEW s, RawKnown(s), NEW calls, NEW state \in {"canceled", "failed"}
  PROVE  RawRead([s EXCEPT !.calls = calls, !.state = state])
<1>1. PICK t : t = [s EXCEPT !.calls = calls, !.state = state]
  OBVIOUS
<1>2. /\ IsReader(t) /\ t.encoding = s.encoding /\ t.decided = s.decided
      /\ t.hits = s.hits /\ t.bytesRead = s.bytesRead /\ t.state = state
  BY <1>1 DEF RawKnown, IsReader
<1>3. RawKnown(t)
  BY <1>2 DEF RawKnown
<1>4. RawEnded(t) /\ ~Pending(t)
  BY <1>2 DEF RawEnded, Pending
<1>5. QED BY <1>1, <1>3, <1>4 DEF RawRead

LEMMA RawStepped ==
  ASSUME RawRequest, ReaderTypes(reader), RawRead(reader),
         NEW budget \in StepBudgets, StepReader(budget)
  PROVE  RawRead(reader')
<1>1. Pending(reader)
  BY DEF StepReader
<1>2. PICK s \in Reads(reader, budget) :
        reader' \in {AfterStep(s, budget), Stopped(s), Stopped(AfterStep(s, budget))}
  BY DEF StepReader
<1>3. /\ RawKnown(s) /\ RawAt(s) /\ Pending(s)
      /\ (s.ready = 0 /\ s.consumed = 0) \/ s.ready = Len(s.buffer)
  BY <1>1, RawReadsOn
<1>4. PICK p : p = IF s.ready = 0 THEN Prepared(s) ELSE s
  OBVIOUS
<1>5. RawRead(p) /\ Pending(p)
  <2>1. CASE s.ready = 0
    BY <1>3, <1>4, <2>1, RawPrepared
  <2>2. CASE s.ready # 0
    <3>1. RawEnded(s)
      BY <1>3 DEF RawEnded, Pending
    <3>2. QED BY <1>3, <1>4, <2>2, <3>1 DEF RawRead
  <2>3. QED BY <2>1, <2>2
<1>6. PICK v : v = AfterStep(s, budget)
  OBVIOUS
<1>7. v = SettledReader(Searched(p, budget))
  BY <1>4, <1>5, <1>6 DEF AfterStep
<1>8. RawRead(v)
  BY <1>5, <1>7, RawSearched, RawSettled
<1>9. \A r : RawKnown(r) => RawRead(Stopped(r))
  <2>1. ASSUME NEW r, RawKnown(r)
        PROVE  RawRead(Stopped(r))
    <3>1. Stopped(r) = [r EXCEPT !.calls = r.calls, !.state = "canceled"]
      BY <2>1 DEF Stopped, RawKnown, IsReader
    <3>2. RawRead([r EXCEPT !.calls = r.calls, !.state = "canceled"])
      <4>1. PICK calls, state : calls = r.calls /\ state = "canceled"
        OBVIOUS
      <4>2. state \in {"canceled", "failed"}
        BY <4>1
      <4>3. RawRead([r EXCEPT !.calls = calls, !.state = state])
        BY <2>1, <4>2, RawStopped
      <4>4. QED BY <4>1, <4>3, Zenon
    <3>3. QED BY <3>1, <3>2
  <2>2. QED BY <2>1
<1>10. QED BY <1>2, <1>3, <1>6, <1>8, <1>9 DEF RawRead

LEMMA RawReadInitially ==
  ASSUME ReaderInit, request.mode = "raw"
  PROVE  RawRequest /\ RawRead(reader)
<1>1. InputTypes
  BY ReadAssumption DEF ReaderInit, InputTypes
<1>2. RawRequest /\ request.encoding = "unknown"
  BY <1>1, ReadAssumption DEF ReaderInit, RawRequest
<1>3. PICK r : r = NewReader
  OBVIOUS
<1>4. /\ IsReader(r) /\ r.buffer = <<>> /\ r.base = 0 /\ r.ready = 0 /\ r.consumed = 0
      /\ r.eof = FALSE /\ r.encoding = "unknown" /\ r.decided = TRUE
      /\ r.cursor = [matched |-> 0, scanned |-> 0] /\ r.hits = <<>> /\ r.seen = 0
      /\ r.bytesRead = 0 /\ r.state = "pending"
  BY <1>2, <1>3 DEF NewReader, NewCursor, IsReader
<1>5. Len(r.hits) = 0 /\ r.hits \in Seq(Finds)
  BY <1>4, EmptySeq
<1>6. Upto(Occurrences, 0) = 0 /\ Len(input.bytes) \in Nat
  BY <1>2, OccurrencesKnown
<1>7. RawKnown(r)
  <2>1. FoundFirst(r.hits)
    BY <1>5 DEF FoundFirst
  <2>2. QED BY <1>4, <1>5, <1>6, <2>1 DEF RawKnown
<1>8. RawAt(r)
  <2>1. Len(r.buffer) = 0 /\ r.buffer \in Seq(0 .. 255)
    BY <1>4, EmptySeq
  <2>2. Follows(Sought, input.bytes, 0, 0, 0)
    <3>1. Len(Sought) \in Nat /\ Len(Sought) > 0
      BY <1>2, SoughtIsBytes
    <3>2. 0 \in 0 .. (Len(Sought) - 1) /\ 0 <= 0 - 0
      BY <3>1
    <3>3. Fits(Sought, input.bytes, 0, 0)
      BY DEF Fits
    <3>4. \A j \in (0 + 1) .. (Len(Sought) - 1) : ~(j <= 0 - 0)
      OBVIOUS
    <3>5. QED BY <3>2, <3>3, <3>4 DEF Follows
  <2>3. r.base + r.consumed = 0 /\ r.base + Len(r.buffer) = r.bytesRead
        /\ r.consumed \in 0 .. Len(r.buffer) /\ r.base \in Nat
    BY <1>4, <2>1
  <2>4. \A i \in 1 .. Len(r.buffer) : r.buffer[i] = input.bytes[r.base + i]
    BY <2>1
  <2>5. r.cursor.matched = 0 /\ 0 <= request.maxMatches
    BY <1>1, <1>4 DEF InputTypes
  <2>6. QED BY <1>4, <1>5, <1>6, <2>1, <2>2, <2>3, <2>4, <2>5 DEF RawAt
<1>9. r.ready = Len(r.buffer) /\ Pending(r)
  BY <1>4, EmptySeq DEF Pending
<1>10. RawRead(r)
  BY <1>4, <1>7, <1>8, <1>9 DEF RawRead, RawEnded
<1>11. reader \in {r, SettledReader(Prepared(r))}
  BY <1>3 DEF ReaderInit
<1>12. RawRead(SettledReader(Prepared(r)))
  BY <1>2, <1>7, <1>8, <1>9, RawPrepared, RawSettled
<1>13. QED BY <1>2, <1>10, <1>11, <1>12

\* The reference says what the invariant does.
LEMMA RawReadReports ==
  ASSUME RawRequest, RawRead(reader)
  PROVE  ReaderFindsAll
<1> DEFINE b == reader.bytesRead
           L == Len(Sought)
           E == EndsIn(Sought, SubSeq(input.bytes, 1, b), {})
<1>1. RawKnown(reader) /\ RawEnded(reader)
  BY DEF RawRead
<1>2. b \in Nat /\ b <= Len(input.bytes) /\ Len(input.bytes) \in Nat
      /\ reader.hits \in Seq(Finds) /\ Len(reader.hits) \in Nat
      /\ Len(reader.hits) <= Upto(Occurrences, b)
  BY <1>1, OccurrencesKnown, LenProperties DEF RawKnown, FoundFirst
<1>3. /\ E = {e \in Occurrences : e <= b}
      /\ Cardinality(E) = Upto(Occurrences, b)
      /\ \A e \in E : Upto(E, e) = Upto(Occurrences, e)
  BY <1>2, EndsRead
<1>4. PICK chars : chars = ReadChars
  OBVIOUS
<1>5. PICK hits : hits = ReadHits(chars)
  OBVIOUS
<1>6. /\ \A i \in DOMAIN chars : chars[i].valid
      /\ hits = [k \in 1 .. Cardinality(E) |-> hits[k]]
      /\ \A k \in 1 .. Cardinality(E) : IsFound(E, L, k, hits[k])
  BY <1>2, <1>4, <1>5, ReadHitsAreEnds
<1> HIDE DEF b, L, E
<1>7. Upto(Occurrences, b) \in Nat /\ Occurrences \in SUBSET Nat /\ IsFiniteSet(Occurrences)
  BY <1>2, OccurrencesKnown
<1>8. Len(hits) = Upto(Occurrences, b)
  <2>1. PICK n : n = Cardinality(E)
    OBVIOUS
  <2>2. n \in Nat /\ hits = [k \in 1 .. n |-> hits[k]]
    BY <1>3, <1>6, <1>7, <2>1
  <2>3. Len(hits) = n
    BY <2>2
  <2>4. QED BY <1>3, <2>1, <2>3
<1>9. ASSUME NEW k \in 1 .. Len(reader.hits)
      PROVE  reader.hits[k] = hits[k]
  <2>1. k \in 1 .. Cardinality(E)
    BY <1>2, <1>3, <1>7
  <2>2. PICK d \in E : Upto(E, d) = k /\ hits[k] = [occurrence |-> k, from |-> d - L, to |-> d]
    BY <1>6, <2>1 DEF IsFound
  <2>3. PICK e \in Occurrences : /\ Upto(Occurrences, e) = k
                                 /\ reader.hits[k] = [occurrence |-> k, from |-> e - L, to |-> e]
    BY <1>1 DEF RawKnown, FoundFirst, IsFound, L
  <2>4. d \in Occurrences /\ Upto(Occurrences, d) = k
    BY <1>3, <2>2
  <2>5. d = e
    BY <1>7, <2>3, <2>4, NthIsOne
  <2>6. QED BY <2>2, <2>3, <2>5
<1>10. PICK n : n = Len(reader.hits)
  OBVIOUS
<1>11. n \in Nat /\ n <= Len(hits)
  BY <1>2, <1>8, <1>10
<1>12. reader.hits = [k \in 1 .. n |-> hits[k]]
  <2>1. reader.hits = [k \in 1 .. Len(reader.hits) |-> reader.hits[k]]
    BY <1>2, LenProperties
  <2>2. QED BY <1>9, <1>10, <2>1
<1>13. reader.hits = SubSeq(hits, 1, n)
  <2>1. SubSeq(hits, 1, n) = [k \in 1 .. (1 + n - 1) |-> hits[1 + k - 1]]
    BY <1>11
  <2>2. 1 + n - 1 = n /\ \A k \in 1 .. n : 1 + k - 1 = k
    BY <1>11
  <2>3. SubSeq(hits, 1, n) = [k \in 1 .. n |-> hits[k]]
    BY <2>1, <2>2
  <2>4. QED BY <1>12, <2>3
<1>14. ASSUME n = Upto(Occurrences, b) PROVE reader.hits = hits
  <2>1. hits = [k \in 1 .. n |-> hits[k]]
    BY <1>3, <1>6, <1>14
  <2>2. QED BY <1>12, <2>1
<1>15. PICK bad : bad = {i \in DOMAIN chars : ~chars[i].valid}
  OBVIOUS
<1>16. bad = {}
  BY <1>6, <1>15
<1>17. PICK first : first = (Len(reader.hits) <= Len(hits)
                             /\ reader.hits = SubSeq(hits, 1, Len(reader.hits)))
  OBVIOUS
<1>18. first = TRUE
  BY <1>10, <1>11, <1>13, <1>17
<1>19. CASE reader.state \in {"complete", "short", "bytelimit", "calllimit"}
  <2>1. reader.hits = hits
    BY <1>1, <1>10, <1>14, <1>19 DEF RawEnded, b
  <2>2. reader.state = "complete" => reader.bytesRead = input.length
    BY <1>1 DEF RawEnded
  <2>3. reader.state = "short" => reader.bytesRead = Len(input.bytes)
    BY <1>1 DEF RawEnded
  <2>4. \A i \in bad : chars[i].from.raw >= reader.base
    BY <1>16
  <2>5. QED BY <1>4, <1>5, <1>15, <1>16, <1>19, <2>1, <2>2, <2>3, <2>4 DEF ReaderFindsAll
<1>20. CASE reader.state = "truncated"
  <2>1. Len(reader.hits) = request.maxMatches /\ reader.seen = request.maxMatches + 1
        /\ reader.seen <= Len(hits)
    BY <1>1, <1>8, <1>20 DEF RawEnded, b
  <2>2. QED BY <1>4, <1>5, <1>17, <1>18, <1>20, <2>1 DEF ReaderFindsAll
<1>21. CASE reader.state \notin {"complete", "short", "bytelimit", "calllimit", "truncated"}
  <2>1. reader.state # "unsupported"
    BY <1>1 DEF RawEnded
  <2>2. QED BY <1>4, <1>5, <1>17, <1>18, <1>21, <2>1 DEF ReaderFindsAll
<1>22. QED BY <1>19, <1>20, <1>21

\* What is kept of a search for bytes, at every moment of it.
RawReading ==
  /\ Proceeds
  /\ request.mode = "raw" => RawRequest /\ RawRead(reader)

LEMMA RawReadingKept ==
  ASSUME RawReading, Proceeds', [ReaderNext]_readerVars
  PROVE  RawReading'
<1> SUFFICES ASSUME request'.mode = "raw"
             PROVE  RawRequest' /\ RawRead(reader)'
  BY DEF RawReading
<1>1. input' = input /\ request' = request
  BY DEF ReaderNext, StepReader, ReaderFails, StopReader, readerVars
<1>2. RawRequest /\ RawRead(reader) /\ Proceeds
  BY <1>1 DEF RawReading
<1>3. RawRequest'
  BY <1>1, <1>2 DEF RawRequest, InputTypes
<1>4. ASSUME RawRead(reader') PROVE RawRead(reader)'
  <2>1. Sought' = Sought
    BY <1>1 DEF Sought
  <2>2. Occurrences' = Occurrences
    BY <1>1, <2>1 DEF Occurrences
  <2>3. RawKnown(reader)' <=> RawKnown(reader')
    BY <1>1, <2>1, <2>2 DEF RawKnown, FoundFirst
  <2>4. RawEnded(reader)' <=> RawEnded(reader')
    BY <1>1, <2>1, <2>2 DEF RawEnded
  <2>5. RawAt(reader)' <=> RawAt(reader')
    BY <1>1, <2>1, <2>2 DEF RawAt
  <2>6. QED BY <1>4, <2>3, <2>4, <2>5 DEF RawRead, Pending
<1>5. ASSUME NEW budget \in StepBudgets, StepReader(budget)
      PROVE  RawRead(reader')
  <2>1. ReaderTypes(reader)
    BY <1>2, <1>5 DEF Proceeds, StepReader
  <2>2. QED BY <1>2, <1>5, <2>1, RawStepped
<1>6. ASSUME NEW budget \in StepBudgets, ReaderFails(budget)
      PROVE  RawRead(reader')
  <2>1. PICK n \in 1 .. CallsLeft(reader, budget) :
          reader' = [Interrupted(reader, n) EXCEPT !.state = "failed"]
    BY <1>6 DEF ReaderFails
  <2>2. PICK calls, state : calls = reader.calls + n /\ state = "failed"
    OBVIOUS
  <2>3. reader' = [reader EXCEPT !.calls = calls, !.state = state]
    BY <2>1, <2>2 DEF Interrupted
  <2>4. RawKnown(reader) /\ state \in {"canceled", "failed"}
    BY <1>2, <2>2 DEF RawRead
  <2>5. QED BY <2>3, <2>4, RawStopped
<1>7. ASSUME StopReader
      PROVE  RawRead(reader')
  <2>1. PICK calls, state : calls = reader.calls /\ state = "canceled"
    OBVIOUS
  <2>2. RawKnown(reader) /\ state \in {"canceled", "failed"}
    BY <1>2, <2>1 DEF RawRead
  <2>3. reader' = [reader EXCEPT !.calls = calls, !.state = state]
    BY <1>7, <2>1, <2>2 DEF StopReader, Stopped, RawKnown, IsReader
  <2>4. QED BY <2>2, <2>3, RawStopped
<1>8. ASSUME UNCHANGED readerVars
      PROVE  RawRead(reader')
  <2>1. reader' = reader
    BY <1>8 DEF readerVars
  <2>2. QED BY <1>2, <2>1
<1>9. RawRead(reader')
  BY <1>5, <1>6, <1>7, <1>8 DEF ReaderNext
<1>10. QED BY <1>3, <1>4, <1>9

\* A search of a file for bytes, while it is read, reports just the first places the
\* bytes stand in what was read, in order and overlapping ones too: all of them when
\* it says that the file was read, ended short or met a limit of bytes or of calls,
\* as many as it may with one more seen when it says they are too many, and no wrong
\* one if its host stopped it or the reader failed.  However long the calls take,
\* whatever they return, and wherever they cut what is sought, whatever the limits
\* of the steps are.
THEOREM RawReadsAreExact == ReaderSpec => []RawReaderIsExact
<1>1. ReaderInit => RawReading
  BY ProceedsInitially, RawReadInitially DEF RawReading
<1>2. RawReading /\ [ReaderNext]_readerVars => RawReading'
  BY ProceedsKept, RawReadingKept DEF RawReading
<1>3. RawReading => RawReaderIsExact
  BY RawReadReports DEF RawReading, RawReaderIsExact
<1>4. QED BY <1>1, <1>2, <1>3, PTL DEF ReaderSpec

=============================================================================
