--------------------------- MODULE SessionProofs ----------------------------
(***************************************************************************)
(* Proofs about module Session, for any maps, states and numbers of loads  *)
(* and a cache of any size: the menu, the map and the cache follow the     *)
(* project in every session, and the panes, lists and highlights do in a   *)
(* tidy one.  A session is a record that every handler passes through a    *)
(* sequence of callbacks, so there is one lemma for each of them, which    *)
(* says which fields it changes, and that it leaves a tidy session tidy.   *)
(***************************************************************************)
EXTENDS Session, FiniteSetTheorems, WellFoundedInduction, TLAPS

-----------------------------------------------------------------------------
(* The cache of previews.                                                  *)

\* No element twice.
Distinct(s) == \A i, j \in 1..Len(s) : s[i] = s[j] => i = j

\* Sequences element by element, without a set they are from.
IsSequence(s) == \E X : s \in Seq(X)

\* How many previews have fallen out of the cache.
Gone(asked) == IF Len(asked) <= MaxCached THEN 0 ELSE Len(asked) - MaxCached

LatestOf(cache, asked) ==
  /\ Len(cache) = Len(asked) - Gone(asked)
  /\ \A i \in 1..Len(cache) : cache[i] = asked[i + Gone(asked)]

CacheOK(cache, asked) ==
  /\ IsSequence(cache) /\ IsSequence(asked)
  /\ Distinct(asked)
  /\ LatestOf(cache, asked)

LEMMA SequenceHas ==
  ASSUME NEW s, IsSequence(s)
  PROVE  Len(s) \in Nat /\ DOMAIN s = 1..Len(s)
BY DEF IsSequence

LEMMA AppendIs ==
  ASSUME NEW s, IsSequence(s), NEW x
  PROVE  /\ IsSequence(Append(s, x))
         /\ Len(Append(s, x)) = Len(s) + 1
         /\ \A i \in 1..Len(s) : Append(s, x)[i] = s[i]
         /\ Append(s, x)[Len(s) + 1] = x
<1>1. PICK X : s \in Seq(X)
  BY DEF IsSequence
<1>2. s \in Seq(X \union {x}) /\ x \in X \union {x}
  <2>1. s \in [1..Len(s) -> X] /\ Len(s) \in Nat
    BY <1>1
  <2>. QED
    BY <2>1
<1> HIDE <1>1
<1> DEFINE Y == X \union {x}
<1> HIDE DEF Y
<1>3. s \in Seq(Y) /\ x \in Y
  BY <1>2 DEF Y
<1>. QED
  BY <1>3 DEF IsSequence

LEMMA RemoveIs ==
  ASSUME NEW s, IsSequence(s), NEW n \in 1..Len(s)
  PROVE  /\ IsSequence(RemoveAt(s, n))
         /\ Len(RemoveAt(s, n)) = Len(s) - 1
         /\ \A i \in 1..Len(s) - 1 : RemoveAt(s, n)[i] = IF i < n THEN s[i] ELSE s[i + 1]
<1>1. PICK X : s \in Seq(X)
  BY DEF IsSequence
<1> DEFINE first == SubSeq(s, 1, n - 1)
           last == SubSeq(s, n + 1, Len(s))
<1>2. Len(s) \in Nat /\ n \in 1..Len(s)
  BY <1>1
<1>3. /\ first \in Seq(X) /\ Len(first) = n - 1
      /\ \A i \in 1..n - 1 : first[i] = s[i]
  BY <1>1, <1>2
<1>4. /\ last \in Seq(X) /\ Len(last) = Len(s) - n
      /\ \A i \in 1..Len(s) - n : last[i] = s[n + i]
  BY <1>1, <1>2
<1> HIDE DEF first, last
<1>5. first \o last \in Seq(X) /\ Len(first \o last) = Len(s) - 1
  BY <1>2, <1>3, <1>4
<1>6. ASSUME NEW i \in 1..Len(s) - 1
      PROVE  (first \o last)[i] = IF i < n THEN s[i] ELSE s[i + 1]
  <2>1. CASE i < n
    <3>1. i \in 1..n - 1
      BY <1>2, <2>1
    <3>2. (first \o last)[i] = first[i]
      BY <1>2, <1>3, <1>4, <3>1
    <3>. QED
      BY <1>3, <3>1, <3>2, <2>1
  <2>2. CASE ~(i < n)
    <3>1. i - (n - 1) \in 1..Len(s) - n /\ n + (i - (n - 1)) = i + 1
      BY <1>2, <2>2
    <3>2. (first \o last)[i] = last[i - (n - 1)]
      BY <1>2, <1>3, <1>4, <2>2
    <3>. QED
      BY <1>4, <3>1, <3>2, <2>2
  <2>. QED
    BY <2>1, <2>2
<1>7. RemoveAt(s, n) = first \o last
  BY DEF RemoveAt, first, last
<1>. QED
  BY <1>5, <1>6, <1>7 DEF IsSequence

\* The element is at one place, n: those behind it move up.
LEMMA MovedIs ==
  ASSUME NEW s, IsSequence(s), NEW x, NEW n \in 1..Len(s), \A i \in 1..Len(s) : s[i] = x <=> i = n
  PROVE  /\ IsSequence(MovedLast(s, x))
         /\ Len(MovedLast(s, x)) = Len(s)
         /\ \A i \in 1..Len(s) - 1 : MovedLast(s, x)[i] = IF i < n THEN s[i] ELSE s[i + 1]
         /\ MovedLast(s, x)[Len(s)] = x
<1> DEFINE rest == RemoveAt(s, n)
<1>1. MovedLast(s, x) = Append(rest, x)
  <2>1. Contains(s, x)
    BY DEF Contains
  <2>2. (CHOOSE i \in 1..Len(s) : s[i] = x) = n
    OBVIOUS
  <2>. QED
    BY <2>1, <2>2 DEF MovedLast
<1>2. Len(s) \in Nat
  BY SequenceHas
<1>3. /\ IsSequence(rest) /\ Len(rest) = Len(s) - 1
      /\ \A i \in 1..Len(s) - 1 : rest[i] = IF i < n THEN s[i] ELSE s[i + 1]
  BY RemoveIs
<1> HIDE DEF rest
<1>4. /\ IsSequence(Append(rest, x)) /\ Len(Append(rest, x)) = Len(rest) + 1
      /\ \A i \in 1..Len(rest) : Append(rest, x)[i] = rest[i]
      /\ Append(rest, x)[Len(rest) + 1] = x
  BY <1>3, AppendIs
<1>5. Len(rest) + 1 = Len(s)
  BY <1>2, <1>3
<1>. QED
  BY <1>1, <1>3, <1>4, <1>5

LEMMA AddedIs ==
  ASSUME NEW s, NEW x, \A i \in 1..Len(s) : s[i] # x
  PROVE  MovedLast(s, x) = Append(s, x)
BY DEF MovedLast, Contains

LEMMA AppendedDistinct ==
  ASSUME NEW s, IsSequence(s), Distinct(s), NEW x, \A i \in 1..Len(s) : s[i] # x
  PROVE  Distinct(Append(s, x))
<1>1. Len(s) \in Nat
  BY SequenceHas
<1> DEFINE t == Append(s, x)
<1>2. /\ Len(t) = Len(s) + 1
      /\ \A i \in 1..Len(s) : t[i] = s[i]
      /\ t[Len(s) + 1] = x
  BY AppendIs
<1> HIDE DEF t
<1>3. \A i \in 1..Len(t) : i = Len(s) + 1 \/ i \in 1..Len(s)
  BY <1>1, <1>2
<1>4. Distinct(t)
  BY <1>1, <1>2, <1>3 DEF Distinct
<1>. QED
  BY <1>4 DEF t

LEMMA MovedDistinct ==
  ASSUME NEW s, IsSequence(s), Distinct(s), NEW x, NEW n \in 1..Len(s), s[n] = x
  PROVE  Distinct(MovedLast(s, x))
<1> DEFINE t == MovedLast(s, x)
           From(i) == IF i = Len(s) THEN n ELSE IF i < n THEN i ELSE i + 1
<1>1. Len(s) \in Nat
  BY SequenceHas
<1>2. \A i \in 1..Len(s) : s[i] = x <=> i = n
  BY DEF Distinct
<1>3. /\ Len(t) = Len(s)
      /\ \A i \in 1..Len(s) - 1 : t[i] = IF i < n THEN s[i] ELSE s[i + 1]
      /\ t[Len(s)] = x
  BY <1>2, MovedIs
<1> HIDE DEF t
<1>4. \A i \in 1..Len(s) : From(i) \in 1..Len(s) /\ t[i] = s[From(i)]
  BY <1>1, <1>3
<1>5. \A i, j \in 1..Len(s) : From(i) = From(j) => i = j
  BY <1>1
<1> HIDE DEF From
<1>6. ASSUME NEW i \in 1..Len(t), NEW j \in 1..Len(t), t[i] = t[j] PROVE i = j
  <2>1. i \in 1..Len(s) /\ j \in 1..Len(s)
    BY <1>3
  <2>2. /\ From(i) \in 1..Len(s) /\ t[i] = s[From(i)]
        /\ From(j) \in 1..Len(s) /\ t[j] = s[From(j)]
    BY <1>4, <2>1
  <2>3. From(i) = From(j)
    BY <1>6, <2>2 DEF Distinct
  <2>. QED
    BY <1>5, <2>1, <2>3
<1>7. Distinct(t)
  BY <1>6 DEF Distinct
<1>. QED
  BY <1>7 DEF t

\* A preview that is found moves up in the cache as it does in the history.
LEMMA FoundIs ==
  ASSUME NEW cache, NEW asked, CacheOK(cache, asked), NEW x, NEW n \in 1..Len(cache), cache[n] = x
  PROVE  CacheOK(MovedLast(cache, x), MovedLast(asked, x))
<1> DEFINE g == Gone(asked)
<1>1. /\ Len(cache) \in Nat /\ Len(asked) \in Nat
      /\ IsSequence(cache) /\ IsSequence(asked) /\ Distinct(asked)
  BY SequenceHas DEF CacheOK
<1>2. g \in Nat /\ g <= Len(asked) /\ Len(cache) = Len(asked) - g
  BY <1>1, MaxCachedAssumption DEF Gone, CacheOK, LatestOf
<1>3. \A i \in 1..Len(cache) : cache[i] = asked[i + g]
  BY DEF CacheOK, LatestOf
<1> HIDE DEF g
<1>4. n + g \in 1..Len(asked) /\ asked[n + g] = x
  BY <1>1, <1>2, <1>3
<1>5. \A i \in 1..Len(asked) : asked[i] = x <=> i = n + g
  BY <1>1, <1>4 DEF Distinct
<1>6. \A i \in 1..Len(cache) : cache[i] = x <=> i = n
  <2> SUFFICES ASSUME NEW i \in 1..Len(cache) PROVE cache[i] = x <=> i = n
    OBVIOUS
  <2>1. i + g \in 1..Len(asked) /\ cache[i] = asked[i + g]
    BY <1>1, <1>2, <1>3
  <2>. QED
    BY <1>1, <1>2, <1>5, <2>1
<1> DEFINE c == MovedLast(cache, x)
           a == MovedLast(asked, x)
           m == n + g
<1>7. /\ IsSequence(c) /\ Len(c) = Len(cache)
      /\ \A i \in 1..Len(cache) - 1 : c[i] = IF i < n THEN cache[i] ELSE cache[i + 1]
      /\ c[Len(cache)] = x
  BY <1>1, <1>6, MovedIs
<1>8. m \in 1..Len(asked) /\ \A i \in 1..Len(asked) : asked[i] = x <=> i = m
  BY <1>4, <1>5
<1> HIDE DEF m
<1>9. /\ IsSequence(a) /\ Len(a) = Len(asked)
      /\ \A i \in 1..Len(asked) - 1 : a[i] = IF i < m THEN asked[i] ELSE asked[i + 1]
      /\ a[Len(asked)] = x
  BY <1>1, <1>8, MovedIs
<1>10. Distinct(a)
  BY <1>1, <1>4, MovedDistinct
<1> HIDE DEF c, a
<1>11. Gone(a) = g
  BY <1>9 DEF Gone, g
<1>8a. Len(c) = Len(cache)
  BY <1>7
<1>12. ASSUME NEW i \in 1..Len(c) PROVE c[i] = a[i + g]
  <2>1. CASE i = Len(cache)
    BY <2>1, <1>2, <1>7, <1>9, <1>1
  <2>2. CASE i # Len(cache)
    <3>1. i \in 1..Len(cache) - 1 /\ i + g \in 1..Len(asked) - 1
      BY <2>2, <1>1, <1>2, <1>8a
    <3>2. (i + g < m <=> i < n) /\ (i + g) + 1 = (i + 1) + g
      BY <3>1, <1>1, <1>2 DEF m
    <3>3. i \in 1..Len(cache) /\ i + 1 \in 1..Len(cache)
      BY <3>1, <1>1
    <3>4. cache[i] = asked[i + g] /\ cache[i + 1] = asked[(i + g) + 1]
      BY <3>2, <3>3, <1>3
    <3>. QED
      BY <1>7, <1>9, <3>1, <3>2, <3>4
  <2>. QED
    BY <2>1, <2>2
<1>13. CacheOK(c, a)
  BY <1>2, <1>7, <1>9, <1>10, <1>11, <1>12 DEF CacheOK, LatestOf
<1>. QED
  BY <1>13 DEF c, a

\* One that is not found is appended, and then the first one leaves if there are too many.
LEMMA BuiltIs ==
  ASSUME NEW cache, NEW asked, CacheOK(cache, asked), NEW x, \A i \in 1..Len(cache) : cache[i] # x
  PROVE  CacheOK(getPreviewData(cache, x), MovedLast(asked, x))
<1> DEFINE g == Gone(asked)
           full == Len(cache) = MaxCached
           longer == Append(cache, x)
           c == getPreviewData(cache, x)
           a == MovedLast(asked, x)
<1>1. /\ Len(cache) \in Nat /\ Len(asked) \in Nat
      /\ IsSequence(cache) /\ IsSequence(asked) /\ Distinct(asked)
  BY SequenceHas DEF CacheOK
<1>2. /\ g \in Nat /\ Len(cache) = Len(asked) - g /\ Len(cache) <= MaxCached
      /\ full => g = Len(asked) - MaxCached
      /\ ~full => g = 0
  BY <1>1, MaxCachedAssumption DEF Gone, CacheOK, LatestOf
<1>3. \A i \in 1..Len(cache) : cache[i] = asked[i + g]
  BY DEF CacheOK, LatestOf
<1> HIDE DEF g, full
<1>4. /\ IsSequence(longer) /\ Len(longer) = Len(cache) + 1
      /\ \A i \in 1..Len(cache) : longer[i] = cache[i]
      /\ longer[Len(cache) + 1] = x
  BY <1>1, AppendIs
<1>5. c = MovedLast(buildProvinceCache(longer, x), x)
  BY DEF getPreviewData, Contains
<1> HIDE DEF longer, c
<1> DEFINE drop == IF full THEN 1 ELSE 0
           built == buildProvinceCache(longer, x)
<1>6. /\ IsSequence(built) /\ Len(built) = Len(cache) + 1 - drop
      /\ \A i \in 1..Len(cache) - drop : built[i] = cache[i + drop]
      /\ built[Len(cache) + 1 - drop] = x
  <2>1. CASE full
    <3>1. Full(longer) /\ Len(cache) \in Nat \ {0} /\ drop = 1
      BY <2>1, <1>2, <1>4, MaxCachedAssumption DEF Full, full
    <3>2. longer[1] # x
      BY <3>1, <1>4
    <3>3. built = RemoveAt(longer, 1)
      BY <3>1, <3>2 DEF buildProvinceCache
    <3> HIDE DEF built
    <3>4. 1 \in 1..Len(longer)
      BY <3>1, <1>4
    <3> DEFINE one == 1
    <3>4a. one \in 1..Len(longer)
      BY <3>4
    <3> HIDE DEF one
    <3>5. /\ IsSequence(RemoveAt(longer, one)) /\ Len(RemoveAt(longer, one)) = Len(longer) - 1
          /\ \A i \in 1..Len(longer) - 1 : RemoveAt(longer, one)[i] = IF i < one THEN longer[i] ELSE longer[i + 1]
      BY <1>4, <3>4a, RemoveIs
    <3> USE DEF one
    <3>6. /\ IsSequence(built) /\ Len(built) = Len(cache)
          /\ \A i \in 1..Len(cache) : built[i] = longer[i + 1]
      BY <3>3, <3>5, <1>1, <1>4
    <3>7. \A i \in 1..Len(cache) - 1 : built[i] = cache[i + 1]
      BY <3>1, <3>6, <1>4
    <3>8. built[Len(cache)] = x
      BY <3>1, <3>6, <1>4
    <3>. QED
      BY <3>1, <3>6, <3>7, <3>8
  <2>2. CASE ~full
    <3>1. ~Full(longer) /\ drop = 0
      BY <2>2, <1>1, <1>2, <1>4, MaxCachedAssumption DEF Full, full
    <3>2. built = longer
      BY <3>1 DEF buildProvinceCache
    <3>. QED
      BY <1>1, <3>1, <3>2, <1>4
  <2>. QED
    BY <2>1, <2>2
<1> HIDE DEF built
<1>6a. drop \in {0, 1} /\ Len(cache) - drop \in Nat
  BY <1>1, <1>2, MaxCachedAssumption DEF full
<1> DEFINE k == Len(cache) + 1 - drop
<1>7. k \in 1..Len(built) /\ k = Len(built)
  BY <1>6, <1>6a
<1>8. \A i \in 1..Len(built) : built[i] = x <=> i = k
  <2> SUFFICES ASSUME NEW i \in 1..Len(built), i # k PROVE built[i] # x
    BY <1>6, <1>7
  <2>1. i \in 1..Len(cache) - drop /\ i + drop \in 1..Len(cache)
    BY <1>1, <1>6, <1>6a
  <2>. QED
    BY <2>1, <1>6
<1> HIDE DEF k, drop, full
<1>9. /\ IsSequence(MovedLast(built, x)) /\ Len(MovedLast(built, x)) = Len(built)
      /\ \A i \in 1..Len(built) - 1 : MovedLast(built, x)[i] = IF i < k THEN built[i] ELSE built[i + 1]
      /\ MovedLast(built, x)[Len(built)] = x
  <2>1. IsSequence(built) /\ k \in 1..Len(built)
    BY <1>6, <1>7
  <2>. QED
    BY <2>1, <1>8, MovedIs
<1>10. c = MovedLast(built, x)
  BY <1>5 DEF built
<1>11. /\ IsSequence(c) /\ Len(c) = Len(cache) + 1 - drop
       /\ \A i \in 1..Len(cache) - drop : c[i] = cache[i + drop]
       /\ c[Len(cache) + 1 - drop] = x
  <2>1. Len(c) = Len(built) /\ k = Len(cache) + 1 - drop
    BY <1>9, <1>10 DEF k
  <2>2. ASSUME NEW i \in 1..Len(cache) - drop PROVE c[i] = cache[i + drop]
    <3>1. i \in 1..Len(built) - 1 /\ i < k
      BY <1>1, <1>6, <1>6a, <2>1
    <3>. QED
      BY <1>6, <1>9, <1>10, <3>1
  <2>. QED
    BY <1>6, <1>9, <1>10, <2>1, <2>2
<1>11a. Len(c) = Len(cache) + 1 - drop
  BY <1>11
<1> HIDE <1>9, <1>10, <1>8, <1>6, <1>7, <1>5
<1>12. CASE \E n \in 1..Len(asked) : asked[n] = x
  <2>1. PICK n \in 1..Len(asked) : asked[n] = x
    BY <1>12
  <2>2. n <= g /\ full /\ drop = 1
    <3> USE DEF drop
    <3>1. ASSUME n > g PROVE FALSE
      <4>1. n - g \in 1..Len(cache) /\ (n - g) + g = n
        BY <1>1, <1>2, <3>1
      <4>. QED
        BY <1>3, <2>1, <4>1
    <3>. QED
      BY <3>1, <1>1, <1>2
  <2>3. \A i \in 1..Len(asked) : asked[i] = x <=> i = n
    BY <2>1, <1>1 DEF Distinct
  <2>4. /\ IsSequence(a) /\ Len(a) = Len(asked)
        /\ \A i \in 1..Len(asked) - 1 : a[i] = IF i < n THEN asked[i] ELSE asked[i + 1]
        /\ a[Len(asked)] = x
    BY <1>1, <2>3, MovedIs
  <2>5. Distinct(a)
    BY <1>1, <2>1, MovedDistinct
  <2> HIDE DEF a
  <2>6. Gone(a) = g
    BY <2>4 DEF Gone, g
  <2>7. ASSUME NEW i \in 1..Len(c) PROVE c[i] = a[i + g]
    <3>1. CASE i = Len(cache)
      BY <3>1, <2>2, <2>4, <1>1, <1>2, <1>11
    <3>2. CASE i # Len(cache)
      <4>1. i \in 1..Len(cache) - 1 /\ i + 1 \in 1..Len(cache) /\ i + g \in 1..Len(asked) - 1
        BY <3>2, <1>1, <1>2, <1>11, <2>2
      <4>2. c[i] = cache[i + 1] /\ cache[i + 1] = asked[(i + 1) + g] /\ (i + 1) + g = (i + g) + 1
        BY <4>1, <1>1, <1>2, <1>3, <1>11, <2>2
      <4>3. ~(i + g < n)
        BY <4>1, <2>2, <1>1, <1>2
      <4>. QED
        BY <4>1, <4>2, <4>3, <2>4
    <3>. QED
      BY <3>1, <3>2
  <2>8. CacheOK(c, a)
    BY <1>1, <1>2, <1>11, <2>2, <2>4, <2>5, <2>6, <2>7 DEF CacheOK, LatestOf
  <2>. QED
    BY <2>8 DEF c, a
<1>13. CASE \A n \in 1..Len(asked) : asked[n] # x
  <2>1. a = Append(asked, x)
    BY <1>13, AddedIs
  <2>2. Distinct(Append(asked, x))
    BY <1>1, <1>13, AppendedDistinct
  <2>3. /\ IsSequence(Append(asked, x)) /\ Len(Append(asked, x)) = Len(asked) + 1
        /\ \A i \in 1..Len(asked) : Append(asked, x)[i] = asked[i]
        /\ Append(asked, x)[Len(asked) + 1] = x
    BY <1>1, AppendIs
  <2>4. /\ IsSequence(a) /\ Len(a) = Len(asked) + 1 /\ Distinct(a)
        /\ \A i \in 1..Len(asked) : a[i] = asked[i]
        /\ a[Len(asked) + 1] = x
    BY <2>1, <2>2, <2>3
  <2> HIDE DEF a
  <2>5. Gone(a) = g + drop
    BY <1>1, <1>2, <2>4, MaxCachedAssumption DEF Gone, full, drop
  <2>6. ASSUME NEW i \in 1..Len(c) PROVE c[i] = a[i + (g + drop)]
    <3>1. CASE i = Len(cache) + 1 - drop
      BY <3>1, <2>4, <1>1, <1>2, <1>6a, <1>11
    <3>2. CASE i # Len(cache) + 1 - drop
      <4>1. i \in 1..Len(cache) - drop /\ i + drop \in 1..Len(cache) /\ (i + drop) + g \in 1..Len(asked)
        <5>1. Len(cache) \in Nat /\ g \in Nat /\ Len(asked) = Len(cache) + g /\ drop \in 0..1
          BY <1>1, <1>2, <1>6a
        <5>2. i \in 1..Len(cache) + 1 - drop
          BY <1>11a
        <5>. QED
          BY <5>1, <5>2, <3>2
      <4>2. c[i] = cache[i + drop] /\ cache[i + drop] = asked[(i + drop) + g]
            /\ (i + drop) + g = i + (g + drop)
        BY <4>1, <1>1, <1>2, <1>3, <1>6a, <1>11
      <4>. QED
        BY <4>1, <4>2, <2>4
    <3>. QED
      BY <3>1, <3>2
  <2>7. CacheOK(c, a)
    BY <1>1, <1>2, <1>6a, <1>11, <2>4, <2>5, <2>6 DEF CacheOK, LatestOf
  <2>. QED
    BY <2>7 DEF c, a
<1>. QED
  BY <1>12, <1>13

LEMMA PreviewKeepsCache ==
  ASSUME NEW cache, NEW asked, CacheOK(cache, asked), NEW x
  PROVE  CacheOK(getPreviewData(cache, x), MovedLast(asked, x))
<1>1. CASE \E n \in 1..Len(cache) : cache[n] = x
  BY <1>1, FoundIs DEF getPreviewData, Contains
<1>2. CASE \A n \in 1..Len(cache) : cache[n] # x
  BY <1>2, BuiltIs
<1>. QED
  BY <1>1, <1>2

LEMMA EmptyCacheOK == CacheOK(<<>>, <<>>)
BY MaxCachedAssumption DEF CacheOK, IsSequence, Distinct, LatestOf, Gone

-----------------------------------------------------------------------------
(* Numbers.                                                                *)

\* A set of numbers that is not empty has a least one.
LEMMA LeastExists ==
  ASSUME NEW S, S \subseteq Nat, S # {}
  PROVE  \E x \in S : \A y \in S : x <= y
<1> DEFINE Less == {ss \in Nat \X Nat : ss[1] < ss[2]}
<1>1. IsWellFoundedOn(Less, Nat)
  BY NatLessThanWellFounded, Zenon DEF OpToRel
<1> HIDE DEF Less
<1>2. PICK x \in S : \A y \in S : <<y, x>> \notin Less
  BY <1>1, WFMin
<1>3. ASSUME NEW y \in S PROVE x <= y
  <2>1. x \in Nat /\ y \in Nat
    OBVIOUS
  <2>2. y < x => <<y, x>> \in Less
    BY <2>1 DEF Less
  <2>. QED
    BY <1>2, <2>1, <2>2
<1>. QED
  BY <1>3

\* What holds of 0 and of the next number holds up to any number.
LEMMA FromZeroOn ==
  ASSUME NEW N \in Nat, NEW T, 0 \in T, \A n \in 0 .. N - 1 : n \in T => n + 1 \in T
  PROVE  0 .. N \subseteq T
<1> SUFFICES ASSUME (0 .. N) \ T # {} PROVE FALSE
  OBVIOUS
<1> DEFINE rest == (0 .. N) \ T
<1>0. rest \subseteq Nat /\ rest # {}
  OBVIOUS
<1> HIDE DEF rest
<1>1. PICK m \in rest : \A l \in rest : m <= l
  BY <1>0, LeastExists
<1> USE DEF rest
<1>2. m - 1 \in 0 .. N - 1 /\ ~(m <= m - 1)
  BY <1>1
<1>3. m - 1 \in T /\ (m - 1) + 1 = m
  BY <1>1, <1>2
<1>. QED
  BY <1>1, <1>2, <1>3

\* The least and the greatest of some provinces are among them.
LEMMA MinIs ==
  ASSUME NEW S, S \subseteq Nat, S # {}
  PROVE  Min(S) \in S
BY LeastExists DEF Min

LEMMA MaxIs ==
  ASSUME NEW S, S \subseteq Nat, S # {}, IsFiniteSet(S)
  PROVE  Max(S) \in S
<1>1. PICK n \in Nat : ExistsSurjection(1..n, S)
  BY FS_NatSurjection
<1>2. PICK f \in [1..n -> S] : \A y \in S : \E i \in 1..n : f[i] = y
  BY <1>1 DEF ExistsSurjection, Surjection
<1>2a. n \in Nat /\ \A i \in 1..n : f[i] \in Nat
  BY <1>1, <1>2
<1> HIDE <1>1
<1> DEFINE T == {m \in 0..n : \E b \in Nat : \A i \in 1..m : f[i] <= b}
<1>3. 0 \in T
  BY <1>2a
<1>4. ASSUME NEW m \in 0..n - 1, m \in T PROVE m + 1 \in T
  <2>1. PICK b \in Nat : \A i \in 1..m : f[i] <= b
    BY <1>4
  <2>2. m + 1 \in 1..n /\ f[m + 1] \in Nat
    BY <1>2a
  <2> DEFINE c == IF b <= f[m + 1] THEN f[m + 1] ELSE b
  <2>3. c \in Nat /\ b <= c /\ f[m + 1] <= c
    BY <2>2
  <2> HIDE DEF c
  <2>4. ASSUME NEW i \in 1..m + 1 PROVE f[i] <= c
    <3>1. CASE i = m + 1
      BY <3>1, <2>3
    <3>2. CASE i \in 1..m
      <4>1. f[i] \in Nat /\ f[i] <= b
        <5>1. i \in 1..n
          BY <3>2, <1>2a
        <5>. QED
          BY <5>1, <3>2, <2>1, <1>2a
      <4>. QED
        BY <4>1, <2>3
    <3>. QED
      BY <3>1, <3>2
  <2>. QED
    BY <1>2a, <2>3, <2>4
<1> HIDE DEF T
<1>5. n \in T
  <2>1. 0..n \subseteq T
    BY <1>2a, <1>3, <1>4, FromZeroOn
  <2>. QED
    BY <2>1, <1>2a
<1>6. PICK b \in Nat : \A y \in S : y <= b
  BY <1>2, <1>5 DEF T
<1> DEFINE bounds == {x \in Nat : \A y \in S : y <= x}
<1>7. bounds \subseteq Nat /\ bounds # {}
  BY <1>6
<1> HIDE DEF bounds
<1>8. PICK u \in bounds : \A x \in bounds : u <= x
  BY <1>7, LeastExists
<1>9. u \in Nat /\ \A y \in S : y <= u
  BY <1>8 DEF bounds
<1>10. u \in S
  <2> SUFFICES ASSUME u \notin S PROVE FALSE
    OBVIOUS
  <2>1. \A y \in S : y \in Nat /\ y <= u /\ y # u
    BY <1>9
  <2>2. \A y \in S : y <= u - 1 /\ 0 <= u - 1
    BY <1>9, <2>1
  <2>3. u - 1 \in Nat
    <3>1. PICK y \in S : TRUE
      OBVIOUS
    <3>. QED
      BY <1>9, <2>2, <3>1
  <2>4. u - 1 \in bounds
    BY <2>2, <2>3 DEF bounds
  <2>. QED
    BY <1>8, <1>9, <2>4
<1>11. \E x \in S : \A y \in S : x >= y
  BY <1>9, <1>10
<1>. QED
  BY <1>11 DEF Max

-----------------------------------------------------------------------------
(* Sessions.                                                               *)

Fields ==
  {"project", "selected", "selected_states", "drawn", "province", "merge_enabled",
   "merged_rows", "state", "state_rows", "cache", "asked", "broken", "misread"}

ProjectFields == {"open", "provinces", "states", "root", "state"}

IsSession(v) == v = [f \in Fields |-> v[f]]

\* From v to w nothing but these fields has changed.
Changes(v, w, fields) == IsSession(w) /\ \A f \in Fields \ fields : w[f] = v[f]

IsProject(p) ==
  /\ p = [f \in ProjectFields |-> p[f]]
  /\ p.provinces \subseteq Nat /\ IsFiniteSet(p.provinces)
  /\ p.states \subseteq 1..MaxStateID
  /\ p.root \in [p.provinces -> p.provinces]
  /\ p.state \in [p.provinces -> Nat]
  /\ ~p.open => p.provinces = {}

\* What holds of every session, tidy or not.
Sound(v) ==
  /\ IsSession(v)
  /\ IsProject(v.project)
  /\ IsFiniteSet(v.selected)
  /\ CacheOK(v.cache, v.asked)
  /\ v.province # Null => v.province.id \in v.drawn

\* What the province pane shows is there, and is what the selection says, unless it misread.
ProvinceSide(v) ==
  /\ v.selected \subseteq v.project.provinces /\ v.drawn \subseteq v.project.provinces
  /\ ~v.misread => \A p \in v.drawn : \E q \in v.selected : p \in getMergedProvinces(v, q)
  /\ v.province # Null => /\ Alive(v.province, v.project.provinces)
                          /\ v.merged_rows = getMergedProvinces(v, v.province.id)

\* What the state pane shows is there; without provinces there is nothing to show.
StateSide(v) ==
  /\ v.state # Null => /\ Alive(v.state, v.project.states)
                       /\ v.state_rows = ProvincesOf(v, v.state.id)
  /\ v.project.provinces = {} => v.project.states = {}

\* What holds of a tidy one besides.
Tidied(v) == ~v.broken /\ ProvinceSide(v) /\ StateSide(v)

\* The handlers that select leave the project alone, and what is tidy tidy.
Selects(v, w) ==
  /\ Sound(w)
  /\ w.project = v.project
  /\ Tidied(v) => Tidied(w)

LEMMA ChangesTrans ==
  ASSUME NEW u, NEW v, NEW w, NEW F, NEW G, Changes(u, v, F), Changes(v, w, G)
  PROVE  Changes(u, w, F \union G)
BY DEF Changes

\* The groups are those of the project.
LEMMA SameGroups ==
  ASSUME NEW v, NEW w, w.project = v.project
  PROVE  /\ \A id : getMergedProvinces(w, id) = getMergedProvinces(v, id)
         /\ \A s : ProvincesOf(w, s) = ProvincesOf(v, s)
BY DEF getMergedProvinces, isValidProvinceID, ProvincesOf

LEMMA GroupIs ==
  ASSUME NEW v, IsProject(v.project), NEW id
  PROVE  LET group == getMergedProvinces(v, id)
         IN /\ group \subseteq v.project.provinces /\ group \subseteq Nat /\ IsFiniteSet(group)
            /\ isValidProvinceID(v, id) => id \in group /\ Max(group) \in group
<1> DEFINE group == getMergedProvinces(v, id)
<1>1. /\ v.project.provinces \subseteq Nat /\ IsFiniteSet(v.project.provinces)
      /\ group \subseteq v.project.provinces
  BY DEF IsProject, getMergedProvinces
<1>2. isValidProvinceID(v, id) => id \in group
  BY DEF isValidProvinceID, getMergedProvinces
<1> HIDE DEF group
<1>3. IsFiniteSet(group) /\ group \subseteq Nat
  BY <1>1, FS_Subset
<1>4. group # {} => Max(group) \in group
  BY <1>3, MaxIs
<1>5. /\ group \subseteq v.project.provinces /\ group \subseteq Nat /\ IsFiniteSet(group)
      /\ isValidProvinceID(v, id) => id \in group /\ Max(group) \in group
  BY <1>1, <1>2, <1>3, <1>4
<1>. QED
  BY <1>5 DEF group

-----------------------------------------------------------------------------
(* The previews of a group.                                                *)

IsPreviewing(f, m, v, ids) ==
  f = [n \in 0..m |-> IF n = 0 THEN v ELSE Preview(f[n - 1], Nth(ids, n))]

LEMMA PreviewingExists ==
  ASSUME NEW v, NEW ids, NEW N \in Nat
  PROVE  \E f : IsPreviewing(f, N, v, ids)
<1> DEFINE T == {m \in 0 .. N : \E f : IsPreviewing(f, m, v, ids)}
           After(x, n) == Preview(x, Nth(ids, n))
<1>1. 0 \in T
  <2> DEFINE f == [n \in 0..0 |-> v]
  <2>1. IsPreviewing(f, 0, v, ids)
    BY DEF IsPreviewing
  <2>. QED
    BY <2>1
<1>2. ASSUME NEW m \in 0 .. N - 1, m \in T PROVE m + 1 \in T
  <2>1. PICK f : IsPreviewing(f, m, v, ids)
    BY <1>2
  <2> HIDE DEF After
  <2> DEFINE g == [n \in 0..m + 1 |-> IF n = m + 1 THEN After(f[m], n) ELSE f[n]]
  <2>2. \A n \in 0..m : f[n] = IF n = 0 THEN v ELSE After(f[n - 1], n)
    BY <2>1 DEF IsPreviewing, After
  <2>3. ASSUME NEW n \in 0..m + 1
        PROVE  g[n] = IF n = 0 THEN v ELSE After(g[n - 1], n)
    <3>1. CASE n = m + 1
      <4>1. g[m] = f[m] /\ n # 0 /\ n - 1 = m
        BY <3>1
      <4>2. g[n] = After(f[m], n)
        BY <3>1
      <4>. QED
        BY <4>1, <4>2
    <3>2. CASE n \in 0..m
      <4>1. g[n] = f[n] /\ (n # 0 => g[n - 1] = f[n - 1])
        BY <3>2
      <4>. QED
        BY <2>2, <3>2, <4>1
    <3>. QED
      BY <3>1, <3>2
  <2>4. DOMAIN g = 0..m + 1 /\ g = [n \in 0..m + 1 |-> g[n]]
    OBVIOUS
  <2> HIDE DEF g
  <2>5. IsPreviewing(g, m + 1, v, ids)
    BY <2>3, <2>4 DEF IsPreviewing, After
  <2>. QED
    BY <1>2, <2>5
<1> HIDE DEF T
<1>3. 0 .. N \subseteq T
  BY <1>1, <1>2, FromZeroOn
<1>. QED
  BY <1>3 DEF T

\* A preview changes the cache only, which goes on holding the latest ones.
Previewed(v, w) == Changes(v, w, {"cache", "asked"}) /\ CacheOK(w.cache, w.asked)

LEMMA PreviewIs ==
  ASSUME NEW v, IsSession(v), CacheOK(v.cache, v.asked), NEW id
  PROVE  Previewed(v, Preview(v, id))
<1> DEFINE w == Preview(v, id)
<1>1. w.cache = getPreviewData(v.cache, id) /\ w.asked = MovedLast(v.asked, id)
  BY DEF Preview, IsSession, Fields
<1>2. Changes(v, w, {"cache", "asked"})
  BY DEF Preview, IsSession, Fields, Changes
<1> HIDE DEF w
<1> DEFINE cache == v.cache
           asked == v.asked
<1>3. CacheOK(cache, asked)
  OBVIOUS
<1> HIDE DEF cache, asked
<1>4. CacheOK(getPreviewData(cache, id), MovedLast(asked, id))
  BY <1>3, PreviewKeepsCache
<1>5. CacheOK(w.cache, w.asked)
  BY <1>1, <1>4 DEF cache, asked
<1>. QED
  BY <1>2, <1>5 DEF Previewed, w

LEMMA PreviewsAre ==
  ASSUME NEW v, IsSession(v), CacheOK(v.cache, v.asked), NEW ids, IsFiniteSet(ids)
  PROVE  Previewed(v, PreviewsOf(v, ids))
<1> DEFINE N == Cardinality(ids)
           after == CHOOSE f : IsPreviewing(f, N, v, ids)
<1>1. N \in Nat
  BY FS_CardinalityType
<1>2. PreviewsOf(v, ids) = after[N]
  BY DEF PreviewsOf, IsPreviewing
<1> HIDE DEF N
<1>3. IsPreviewing(after, N, v, ids)
  BY <1>1, PreviewingExists
<1> HIDE DEF after
<1> DEFINE T == {n \in 0..N : Previewed(v, after[n])}
<1>4. 0 \in T
  <2>1. after[0] = v
    BY <1>1, <1>3 DEF IsPreviewing
  <2>2. Previewed(v, v)
    BY DEF Previewed, Changes
  <2>. QED
    BY <1>1, <2>1, <2>2
<1>5. ASSUME NEW n \in 0..N - 1, n \in T PROVE n + 1 \in T
  <2>1. /\ n + 1 \in 0..N /\ (n + 1) - 1 = n /\ n + 1 # 0
        /\ Previewed(v, after[n])
    BY <1>1, <1>5
  <2> DEFINE u == after[n]
             x == Nth(ids, n + 1)
  <2>2. after[n + 1] = Preview(u, x)
    BY <2>1, <1>3 DEF IsPreviewing
  <2>3. Previewed(v, u)
    BY <2>1
  <2> HIDE DEF u, x
  <2>4. IsSession(u) /\ CacheOK(u.cache, u.asked)
    BY <2>3 DEF Previewed, Changes
  <2>5. Previewed(u, Preview(u, x))
    BY <2>4, PreviewIs
  <2>6. Previewed(v, Preview(u, x))
    BY <2>3, <2>5 DEF Previewed, Changes
  <2>. QED
    BY <2>1, <2>2, <2>6
<1> HIDE DEF T
<1>6. N \in T
  <2>1. 0..N \subseteq T
    BY <1>1, <1>4, <1>5, FromZeroOn
  <2>. QED
    BY <1>1, <2>1
<1>. QED
  BY <1>2, <1>6 DEF T

-----------------------------------------------------------------------------
(* The panes.                                                              *)

LEMMA UpdateProvincePaneIs ==
  ASSUME NEW v, IsSession(v), NEW multi
  PROVE  LET w == UpdateProvincePane(v, multi)
         IN /\ Changes(v, w, {"merge_enabled", "merged_rows", "broken"})
            /\ v.province # Null => w.merged_rows = getMergedProvinces(v, v.province.id)
            /\ w.broken <=> v.broken \/ (v.province # Null /\ ~Alive(v.province, v.project.provinces))
BY DEF IsSession, Fields, Changes, UpdateProvincePane

LEMMA SetProvinceIs ==
  ASSUME NEW v, IsSession(v), NEW pointer, NEW multi
  PROVE  LET w == setProvince(v, pointer, multi)
         IN /\ Changes(v, w, {"province", "merge_enabled", "merged_rows", "broken"})
            /\ w.province = pointer
            /\ pointer # Null => w.merged_rows = getMergedProvinces(v, pointer.id)
            /\ w.broken <=> v.broken \/ (pointer # Null /\ ~Alive(pointer, v.project.provinces))
<1> DEFINE u == [v EXCEPT !.province = pointer]
           w == UpdateProvincePane(u, multi)
<1>1. Changes(v, u, {"province"}) /\ u.province = pointer /\ u.project = v.project /\ u.broken = v.broken
  BY DEF IsSession, Fields, Changes
<1>2. setProvince(v, pointer, multi) = w
  BY DEF setProvince
<1> HIDE DEF u
<1>3. IsSession(u) /\ getMergedProvinces(u, pointer.id) = getMergedProvinces(v, pointer.id)
  BY <1>1, SameGroups DEF Changes
<1>4. /\ Changes(u, w, {"merge_enabled", "merged_rows", "broken"})
      /\ u.province # Null => w.merged_rows = getMergedProvinces(u, u.province.id)
      /\ w.broken <=> u.broken \/ (u.province # Null /\ ~Alive(u.province, u.project.provinces))
  BY <1>3, UpdateProvincePaneIs
<1> HIDE DEF w
<1>5. Changes(v, w, {"province", "merge_enabled", "merged_rows", "broken"}) /\ w.province = pointer
  BY <1>1, <1>4 DEF Changes, Fields
<1>. QED
  BY <1>1, <1>2, <1>3, <1>4, <1>5

LEMMA UpdateStatePaneIs ==
  ASSUME NEW v, IsSession(v)
  PROVE  LET w == UpdateStatePane(v)
         IN /\ Changes(v, w, {"state_rows", "broken"})
            /\ v.state # Null => w.state_rows = ProvincesOf(v, v.state.id)
            /\ w.broken <=> v.broken \/ (v.state # Null /\ ~Alive(v.state, v.project.states))
BY DEF IsSession, Fields, Changes, UpdateStatePane

LEMMA SetStateIs ==
  ASSUME NEW v, IsSession(v), NEW pointer
  PROVE  LET w == setState(v, pointer)
         IN /\ Changes(v, w, {"state", "state_rows", "broken"})
            /\ w.state = pointer
            /\ pointer # Null => w.state_rows = ProvincesOf(v, pointer.id)
            /\ w.broken <=> v.broken \/ (pointer # Null /\ ~Alive(pointer, v.project.states))
<1> DEFINE u == [v EXCEPT !.state = pointer]
           w == UpdateStatePane(u)
<1>1. Changes(v, u, {"state"}) /\ u.state = pointer /\ u.project = v.project /\ u.broken = v.broken
  BY DEF IsSession, Fields, Changes
<1>2. setState(v, pointer) = w
  BY DEF setState
<1> HIDE DEF u
<1>3. IsSession(u) /\ ProvincesOf(u, pointer.id) = ProvincesOf(v, pointer.id)
  BY <1>1, SameGroups DEF Changes
<1>4. /\ Changes(u, w, {"state_rows", "broken"})
      /\ u.state # Null => w.state_rows = ProvincesOf(u, u.state.id)
      /\ w.broken <=> u.broken \/ (u.state # Null /\ ~Alive(u.state, u.project.states))
  BY <1>3, UpdateStatePaneIs
<1> HIDE DEF w
<1>5. Changes(v, w, {"state", "state_rows", "broken"}) /\ w.state = pointer
  BY <1>1, <1>4 DEF Changes, Fields
<1>. QED
  BY <1>1, <1>2, <1>3, <1>4, <1>5

-----------------------------------------------------------------------------
(* The province pane shows a group.                                        *)

Shown(v, id, multi) ==
  setProvince(PreviewsOf(SelectMerged(v, id), getMergedProvinces(v, id)),
              To(Max(getMergedProvinces(v, id))), multi)

LEMMA ShownIs ==
  ASSUME NEW v, Sound(v), NEW id, isValidProvinceID(v, id), NEW multi
  PROVE  LET group == getMergedProvinces(v, id)
             w == Shown(v, id, multi)
         IN /\ Changes(v, w, {"selected", "cache", "asked", "province", "merge_enabled",
                              "merged_rows", "broken"})
            /\ CacheOK(w.cache, w.asked)
            /\ v.selected \subseteq w.selected /\ w.selected \subseteq v.selected \union group
            /\ w.province = To(Max(group))
            /\ w.province # Null => w.merged_rows = getMergedProvinces(v, w.province.id)
            /\ w.broken <=> v.broken
<1> DEFINE group == getMergedProvinces(v, id)
           pointer == To(Max(group))
           t == SelectMerged(v, id)
           u == PreviewsOf(t, group)
           w == setProvince(u, pointer, multi)
<1>1. IsSession(v) /\ CacheOK(v.cache, v.asked) /\ IsProject(v.project)
  BY DEF Sound
<1>2. IsFiniteSet(group) /\ Max(group) \in v.project.provinces
  BY <1>1, GroupIs
<1>3. /\ Changes(v, t, {"selected"})
      /\ t.selected = v.selected \union {p \in group \ {id} : ~isProvinceSelected(v, p)}
  BY <1>1 DEF SelectMerged, IsSession, Fields, Changes
<1>4. pointer.id = Max(group) /\ pointer.load = loads
  BY DEF To
<1>5. Shown(v, id, multi) = w
  BY DEF Shown
<1> HIDE DEF group, t
<1>6. IsSession(t) /\ CacheOK(t.cache, t.asked)
  BY <1>1, <1>3 DEF Changes, Fields
<1>7. Previewed(t, u)
  BY <1>2, <1>6, PreviewsAre
<1> HIDE DEF u
<1>8. IsSession(u) /\ CacheOK(u.cache, u.asked) /\ Changes(t, u, {"cache", "asked"})
  BY <1>7 DEF Previewed, Changes
<1>9. /\ Changes(v, u, {"selected", "cache", "asked"})
      /\ u.selected = t.selected /\ u.project = v.project /\ u.broken = v.broken
  BY <1>3, <1>8 DEF Changes, Fields
<1> HIDE DEF pointer
<1>10. /\ Changes(u, w, {"province", "merge_enabled", "merged_rows", "broken"})
       /\ w.province = pointer
       /\ pointer # Null => w.merged_rows = getMergedProvinces(u, pointer.id)
       /\ w.broken <=> u.broken \/ (pointer # Null /\ ~Alive(pointer, u.project.provinces))
  BY <1>8, SetProvinceIs
<1> HIDE DEF w
<1>11. getMergedProvinces(u, pointer.id) = getMergedProvinces(v, pointer.id)
  BY <1>9, SameGroups
<1>12. /\ Changes(v, w, {"selected", "cache", "asked", "province", "merge_enabled",
                         "merged_rows", "broken"})
       /\ w.cache = u.cache /\ w.asked = u.asked /\ w.selected = u.selected
  BY <1>9, <1>10 DEF Changes, Fields
<1>13. Alive(pointer, u.project.provinces)
  BY <1>2, <1>4, <1>9 DEF Alive
<1>14. v.selected \subseteq w.selected /\ w.selected \subseteq v.selected \union group
  BY <1>3, <1>9, <1>12
<1>15. /\ CacheOK(w.cache, w.asked)
       /\ w.province # Null => w.merged_rows = getMergedProvinces(v, w.province.id)
       /\ w.broken <=> v.broken
  BY <1>8, <1>9, <1>10, <1>11, <1>12, <1>13
<1>. QED
  BY <1>5, <1>10, <1>12, <1>14, <1>15 DEF group, pointer

-----------------------------------------------------------------------------
(* The selection.                                                          *)

LEMMA StateSideStays ==
  ASSUME NEW v, NEW w, w.state = v.state, w.state_rows = v.state_rows,
         w.project.provinces = v.project.provinces, w.project.states = v.project.states,
         w.project.state = v.project.state, StateSide(v)
  PROVE  StateSide(w)
<1>1. ProvincesOf(w, w.state.id) = ProvincesOf(v, v.state.id)
  BY DEF ProvincesOf
<1>. QED
  BY <1>1 DEF StateSide

LEMMA ProvinceSideStays ==
  ASSUME NEW v, NEW w, w.province = v.province, w.merged_rows = v.merged_rows,
         w.selected = v.selected, w.drawn = v.drawn, w.misread = v.misread,
         w.project.provinces = v.project.provinces, w.project.root = v.project.root, ProvinceSide(v)
  PROVE  ProvinceSide(w)
<1>1. \A id : getMergedProvinces(w, id) = getMergedProvinces(v, id)
  BY DEF getMergedProvinces, isValidProvinceID
<1>. QED
  BY <1>1 DEF ProvinceSide

ProvinceFields ==
  {"selected", "cache", "asked", "province", "merge_enabled", "merged_rows", "broken", "drawn",
   "misread"}

\* Selecting a province puts the province side in order, whatever it was before.
LEMMA SelectProvinceIs ==
  ASSUME NEW v, Sound(v), NEW id, isValidProvinceID(v, id)
  PROVE  LET w == selectProvince(v, id)
         IN /\ Changes(v, w, ProvinceFields)
            /\ Sound(w)
            /\ ProvinceSide(w)
            /\ w.broken <=> v.broken
<1> DEFINE group == getMergedProvinces(v, id)
           multi == FALSE
           u == Shown(v, id, multi)
           w == selectProvince(v, id)
<1>1. w = [[u EXCEPT !.drawn = group] EXCEPT !.selected = {id}, !.misread = FALSE]
  BY DEF selectProvince, OnProvinceSet, Shown
<1> HIDE DEF multi
<1>2. /\ Changes(v, u, {"selected", "cache", "asked", "province", "merge_enabled",
                        "merged_rows", "broken"})
      /\ CacheOK(u.cache, u.asked)
      /\ u.province = To(Max(group))
      /\ u.province # Null => u.merged_rows = getMergedProvinces(v, u.province.id)
      /\ u.broken <=> v.broken
  BY ShownIs
<1>3. IsProject(v.project)
  BY DEF Sound
<1>4. group \subseteq v.project.provinces /\ Max(group) \in group
  BY <1>3, GroupIs
<1> HIDE DEF u, w
<1>5. Changes(u, w, {"drawn", "selected", "misread"}) /\ w.drawn = group /\ w.selected = {id}
  BY <1>1, <1>2 DEF Changes, IsSession, Fields
<1>6. Changes(v, w, ProvinceFields)
  BY <1>2, <1>5 DEF Changes, Fields, ProvinceFields
<1>7. /\ w.project = v.project /\ w.cache = u.cache /\ w.asked = u.asked /\ w.province = u.province
      /\ w.merged_rows = u.merged_rows /\ w.broken = u.broken
  BY <1>2, <1>5 DEF Changes, Fields
<1>8. w.province.id = Max(group) /\ w.province.load = loads
  BY <1>2, <1>7 DEF To
<1>9. \A q : getMergedProvinces(w, q) = getMergedProvinces(v, q)
  BY <1>7, SameGroups
<1>10. Sound(w)
  <2>1. IsFiniteSet(w.selected)
    BY <1>5, FS_Singleton
  <2>. QED
    BY <2>1, <1>2, <1>3, <1>4, <1>5, <1>7, <1>8 DEF Sound, Changes
<1>11. ProvinceSide(w)
  <2>1. w.selected \subseteq w.project.provinces /\ w.drawn \subseteq w.project.provinces
    BY <1>4, <1>5, <1>7 DEF isValidProvinceID
  <2>2. ASSUME NEW p \in w.drawn PROVE \E q \in w.selected : p \in getMergedProvinces(w, q)
    BY <1>5, <1>9
  <2>3. Alive(w.province, w.project.provinces)
    BY <1>4, <1>7, <1>8 DEF Alive
  <2>4. w.province # Null => w.merged_rows = getMergedProvinces(w, w.province.id)
    BY <1>2, <1>7, <1>9
  <2>. QED
    BY <2>1, <2>2, <2>3, <2>4 DEF ProvinceSide
<1>. QED
  BY <1>2, <1>6, <1>7, <1>10, <1>11 DEF w

LEMMA SelectProvinceTidies ==
  ASSUME NEW v, Sound(v), NEW id, isValidProvinceID(v, id), ~v.broken, StateSide(v)
  PROVE  Tidied(selectProvince(v, id))
<1> DEFINE w == selectProvince(v, id)
<1>1. Changes(v, w, ProvinceFields) /\ ProvinceSide(w) /\ (w.broken <=> v.broken)
  BY SelectProvinceIs
<1> HIDE DEF w
<1>2. w.state = v.state /\ w.state_rows = v.state_rows /\ w.project = v.project
  BY <1>1 DEF Changes, Fields, ProvinceFields
<1>3. StateSide(w)
  BY <1>2, StateSideStays
<1>4. Tidied(w)
  BY <1>1, <1>3 DEF Tidied
<1>. QED
  BY <1>4 DEF w

LEMMA SelectProvinceSelects ==
  ASSUME NEW v, Sound(v), NEW id
  PROVE  Selects(v, selectProvince(v, id))
<1> DEFINE w == selectProvince(v, id)
<1>1. CASE isValidProvinceID(v, id)
  <2>1. Changes(v, w, ProvinceFields) /\ Sound(w)
    BY <1>1, SelectProvinceIs
  <2>2. Tidied(v) => Tidied(w)
    BY <1>1, SelectProvinceTidies DEF Tidied
  <2> HIDE DEF w
  <2>3. w.project = v.project
    BY <2>1 DEF Changes, Fields, ProvinceFields
  <2>4. Selects(v, w)
    BY <2>1, <2>2, <2>3 DEF Selects
  <2>. QED
    BY <2>4 DEF w
<1>2. CASE ~isValidProvinceID(v, id)
  BY <1>2 DEF selectProvince, Selects
<1>. QED
  BY <1>1, <1>2

LEMMA AddProvinceSelects ==
  ASSUME NEW v, Sound(v), NEW id
  PROVE  Selects(v, addProvinceSelection(v, id))
<1>1. CASE isValidProvinceID(v, id)
  <2> DEFINE group == getMergedProvinces(v, id)
             multi == SelectMerged(v, id).selected # {}
             u == Shown(v, id, multi)
             w == addProvinceSelection(v, id)
  <2>1. w = [[u EXCEPT !.drawn = @ \union group] EXCEPT !.selected = @ \union {id}]
    BY <1>1 DEF addProvinceSelection, OnProvinceAdd, Shown
  <2> HIDE DEF multi
  <2>2. /\ Changes(v, u, {"selected", "cache", "asked", "province", "merge_enabled",
                          "merged_rows", "broken"})
        /\ CacheOK(u.cache, u.asked)
        /\ v.selected \subseteq u.selected /\ u.selected \subseteq v.selected \union group
        /\ u.province = To(Max(group))
        /\ u.province # Null => u.merged_rows = getMergedProvinces(v, u.province.id)
        /\ u.broken <=> v.broken
    BY <1>1, ShownIs
  <2>3. IsProject(v.project)
    BY DEF Sound
  <2>4. group \subseteq v.project.provinces /\ Max(group) \in group
    BY <1>1, <2>3, GroupIs
  <2> HIDE DEF u, w
  <2>5. /\ Changes(u, w, {"drawn", "selected"})
        /\ w.drawn = u.drawn \union group /\ w.selected = u.selected \union {id}
    BY <2>1, <2>2 DEF Changes, IsSession, Fields
  <2>6. /\ w.project = v.project /\ w.cache = u.cache /\ w.asked = u.asked
        /\ w.province = u.province /\ w.merged_rows = u.merged_rows /\ w.broken = u.broken
        /\ w.state = v.state /\ w.state_rows = v.state_rows /\ u.drawn = v.drawn
        /\ w.misread = v.misread
    BY <2>2, <2>5 DEF Changes, Fields
  <2>7. w.province.id = Max(group) /\ w.province.load = loads
    BY <2>2, <2>6 DEF To
  <2>8. \A q : getMergedProvinces(w, q) = getMergedProvinces(v, q)
    BY <2>6, SameGroups
  <2>9. Sound(w)
    <3>1. IsFiniteSet(v.selected) /\ IsFiniteSet(group)
      BY <2>3, GroupIs DEF Sound
    <3>2. IsFiniteSet((v.selected \union group) \union {id})
      BY <3>1, FS_Union, FS_Singleton
    <3>3. w.selected \subseteq (v.selected \union group) \union {id}
      BY <2>2, <2>5
    <3>4. IsFiniteSet(w.selected)
      BY <3>2, <3>3, FS_Subset
    <3>. QED
      BY <3>4, <2>2, <2>3, <2>4, <2>5, <2>6, <2>7 DEF Sound, Changes
  <2>10. ASSUME Tidied(v) PROVE Tidied(w)
    <3>1. ProvinceSide(v) /\ StateSide(v) /\ ~v.broken
      BY <2>10 DEF Tidied
    <3>2. w.selected \subseteq w.project.provinces /\ w.drawn \subseteq w.project.provinces
      BY <1>1, <2>2, <2>4, <2>5, <2>6, <3>1 DEF ProvinceSide, isValidProvinceID
    <3>3. ASSUME ~w.misread, NEW p \in w.drawn
          PROVE  \E q \in w.selected : p \in getMergedProvinces(w, q)
      <4>1. CASE p \in group
        BY <4>1, <2>5, <2>8
      <4>2. CASE p \in v.drawn
        BY <4>2, <2>2, <2>5, <2>6, <2>8, <3>1, <3>3 DEF ProvinceSide
      <4>. QED
        BY <2>5, <2>6, <3>3, <4>1, <4>2
    <3>4. Alive(w.province, w.project.provinces)
      BY <2>4, <2>6, <2>7 DEF Alive
    <3>5. w.province # Null => w.merged_rows = getMergedProvinces(w, w.province.id)
      BY <2>2, <2>6, <2>8
    <3>6. ProvinceSide(w)
      BY <3>2, <3>3, <3>4, <3>5 DEF ProvinceSide
    <3>7. StateSide(w)
      BY <2>6, <3>1, StateSideStays
    <3>. QED
      BY <2>2, <2>6, <3>1, <3>6, <3>7 DEF Tidied
  <2>11. Selects(v, w)
    BY <2>6, <2>9, <2>10 DEF Selects
  <2>. QED
    BY <2>11 DEF w
<1>2. CASE ~isValidProvinceID(v, id)
  BY <1>2 DEF addProvinceSelection, Selects
<1>. QED
  BY <1>1, <1>2

\* After a removal nothing of the group is highlighted or shown, and if the right province
\* is taken off the selection, that goes on covering what is.
LEMMA DeselectIs ==
  ASSUME NEW v, Sound(v), NEW id, NEW label
  PROVE  LET group == getMergedProvinces(v, id)
             w == Deselect(v, id, label)
         IN /\ Selects(v, w)
            /\ Changes(v, w, ProvinceFields)
            /\ w.selected = v.selected \ {label} /\ w.drawn = v.drawn \ group
            /\ w.misread <=> v.misread \/ label # id
            /\ w.province # Null => w.province = v.province /\ w.province.id \notin group
<1> DEFINE group == getMergedProvinces(v, id)
           pointer == Null
           multi == FALSE
           gone == group # {} /\ v.province # Null /\ ~Alive(v.province, v.project.provinces)
           u == IF v.province.id \in group THEN setProvince(v, pointer, multi) ELSE v
           w == Deselect(v, id, label)
<1>1. w = [[u EXCEPT !.drawn = @ \ group, !.broken = @ \/ gone]
             EXCEPT !.selected = @ \ {label}, !.misread = @ \/ label # id]
  <2>1. gone <=> (group # {} /\ v.province # Null) /\ ~Alive(v.province, v.project.provinces)
    OBVIOUS
  <2>. QED
    BY DEF Deselect, OnProvinceRemove
<1>2. IsSession(v) /\ IsProject(v.project) /\ CacheOK(v.cache, v.asked)
  BY DEF Sound
<1>3. /\ Changes(v, u, {"province", "merge_enabled", "merged_rows", "broken"})
      /\ u.province # Null => /\ u.province = v.province /\ u.province.id \notin group
                              /\ u.merged_rows = v.merged_rows
      /\ u.broken <=> v.broken
  <2>1. CASE v.province.id \in group
    <3> HIDE DEF multi, pointer
    <3> DEFINE x == setProvince(v, pointer, multi)
    <3>1. /\ Changes(v, x, {"province", "merge_enabled", "merged_rows", "broken"})
          /\ x.province = pointer
          /\ x.broken <=> v.broken \/ (pointer # Null /\ ~Alive(pointer, v.project.provinces))
      BY <1>2, SetProvinceIs
    <3>2. u = x
      BY <2>1
    <3> HIDE DEF x, u
    <3>. QED
      BY <3>1, <3>2 DEF pointer
  <2>2. CASE v.province.id \notin group
    <3>1. u = v
      BY <2>2
    <3> HIDE DEF u
    <3>. QED
      BY <1>2, <2>2, <3>1 DEF Changes
  <2>. QED
    BY <2>1, <2>2
<1> HIDE DEF u, w, gone
<1>4. /\ Changes(u, w, {"drawn", "broken", "selected", "misread"})
      /\ w.drawn = u.drawn \ group /\ w.selected = u.selected \ {label}
      /\ w.broken <=> u.broken \/ gone
      /\ w.misread <=> u.misread \/ label # id
  BY <1>1, <1>3 DEF Changes, IsSession, Fields
<1>5. Changes(v, w, ProvinceFields)
  BY <1>3, <1>4 DEF Changes, Fields, ProvinceFields
<1>6. /\ w.project = v.project /\ w.cache = v.cache /\ w.asked = v.asked
      /\ w.province = u.province /\ w.merged_rows = u.merged_rows
      /\ w.state = v.state /\ w.state_rows = v.state_rows
      /\ u.drawn = v.drawn /\ u.selected = v.selected /\ u.misread = v.misread
  BY <1>3, <1>4 DEF Changes, Fields
<1>7. \A q : getMergedProvinces(w, q) = getMergedProvinces(v, q)
  BY <1>6, SameGroups
<1>8. Sound(w)
  <2>1. IsFiniteSet(w.selected)
    BY <1>4, <1>6, FS_Subset DEF Sound
  <2>. QED
    BY <2>1, <1>2, <1>3, <1>4, <1>6 DEF Sound, Changes
<1>9. ASSUME Tidied(v) PROVE Tidied(w)
  <2>1. ProvinceSide(v) /\ StateSide(v) /\ ~v.broken
    BY <1>9 DEF Tidied
  <2>2. ~w.broken
    BY <2>1, <1>3, <1>4 DEF gone, ProvinceSide
  <2>3. ASSUME ~w.misread, NEW p \in w.drawn
        PROVE  \E q \in w.selected : p \in getMergedProvinces(w, q)
    <3>1. PICK q \in v.selected : p \in getMergedProvinces(v, q)
      BY <2>1, <2>3, <1>4, <1>6 DEF ProvinceSide
    <3>2. q # label
      BY <3>1, <2>3, <1>4
    <3>. QED
      BY <3>1, <3>2, <1>4, <1>6, <1>7
  <2>4. w.selected \subseteq w.project.provinces /\ w.drawn \subseteq w.project.provinces
    BY <2>1, <1>4, <1>6 DEF ProvinceSide
  <2>5. w.province # Null => /\ Alive(w.province, w.project.provinces)
                             /\ w.merged_rows = getMergedProvinces(w, w.province.id)
    BY <2>1, <1>3, <1>6, <1>7 DEF ProvinceSide
  <2>6. ProvinceSide(w)
    BY <2>3, <2>4, <2>5 DEF ProvinceSide
  <2>7. StateSide(w)
    BY <2>1, <1>6, StateSideStays
  <2>. QED
    BY <2>2, <2>6, <2>7 DEF Tidied
<1>10. Selects(v, w)
  BY <1>6, <1>8, <1>9 DEF Selects
<1>. QED
  BY <1>3, <1>4, <1>5, <1>6, <1>10 DEF w

\* After the selection is cleared neither pane shows anything.
LEMMA ClearProvinceIs ==
  ASSUME NEW v, Sound(v)
  PROVE  Selects(v, clearProvinceSelection(v))
<1> DEFINE pointer == Null
           multi == FALSE
           t == setProvince(v, pointer, multi)
           u == setState(t, pointer)
           w == clearProvinceSelection(v)
<1>1. w = [[u EXCEPT !.drawn = {}] EXCEPT !.selected = {}, !.misread = FALSE]
  BY DEF clearProvinceSelection, OnProvinceClear
<1>2. IsSession(v) /\ IsProject(v.project) /\ CacheOK(v.cache, v.asked)
  BY DEF Sound
<1> HIDE DEF multi, pointer
<1>3. /\ Changes(v, t, {"province", "merge_enabled", "merged_rows", "broken"})
      /\ t.province = pointer
      /\ t.broken <=> v.broken \/ (pointer # Null /\ ~Alive(pointer, v.project.provinces))
  BY <1>2, SetProvinceIs
<1> HIDE DEF t
<1>4. IsSession(t)
  BY <1>3 DEF Changes
<1>5. /\ Changes(t, u, {"state", "state_rows", "broken"})
      /\ u.state = pointer
      /\ u.broken <=> t.broken \/ (pointer # Null /\ ~Alive(pointer, t.project.states))
  BY <1>4, SetStateIs
<1> HIDE DEF u, w
<1>6. Changes(u, w, {"drawn", "selected", "misread"}) /\ w.drawn = {} /\ w.selected = {}
  BY <1>1, <1>5 DEF Changes, IsSession, Fields
<1>7. /\ w.project = v.project /\ w.cache = v.cache /\ w.asked = v.asked
      /\ w.province = Null /\ w.state = Null /\ w.broken = u.broken
  BY <1>3, <1>5, <1>6 DEF Changes, Fields, pointer
<1>8. w.broken <=> v.broken
  BY <1>3, <1>5, <1>7 DEF pointer
<1>9. Sound(w)
  <2>1. IsFiniteSet(w.selected)
    BY <1>6, FS_EmptySet
  <2>. QED
    BY <2>1, <1>2, <1>6, <1>7 DEF Sound, Changes
<1>10. Tidied(v) => Tidied(w)
  BY <1>6, <1>7, <1>8 DEF Tidied, ProvinceSide, StateSide
<1>11. Selects(v, w)
  BY <1>7, <1>9, <1>10 DEF Selects
<1>. QED
  BY <1>11 DEF w

-----------------------------------------------------------------------------
(* The state pane.                                                         *)

StateFields == {"state", "state_rows", "broken", "selected_states"}

\* A pointer to a state that is there, or none, puts the state side in order.
LEMMA StateSelectionIs ==
  ASSUME NEW v, Sound(v), NEW pointer, NEW chosen
  PROVE  LET w == [setState(v, pointer) EXCEPT !.selected_states = chosen]
         IN /\ Changes(v, w, StateFields)
            /\ Sound(w)
            /\ /\ ~v.broken /\ ProvinceSide(v)
               /\ v.project.provinces = {} => v.project.states = {}
               /\ pointer = Null \/ Alive(pointer, v.project.states)
               => Tidied(w)
<1> DEFINE u == setState(v, pointer)
           w == [u EXCEPT !.selected_states = chosen]
<1>1. IsSession(v) /\ IsProject(v.project) /\ CacheOK(v.cache, v.asked)
  BY DEF Sound
<1>2. /\ Changes(v, u, {"state", "state_rows", "broken"})
      /\ u.state = pointer
      /\ pointer # Null => u.state_rows = ProvincesOf(v, pointer.id)
      /\ u.broken <=> v.broken \/ (pointer # Null /\ ~Alive(pointer, v.project.states))
  BY <1>1, SetStateIs
<1> HIDE DEF u
<1>3. Changes(u, w, {"selected_states"})
  BY <1>2 DEF Changes, IsSession, Fields
<1> HIDE DEF w
<1>4. Changes(v, w, StateFields)
  BY <1>2, <1>3 DEF Changes, Fields, StateFields
<1>5. /\ w.project = v.project /\ w.cache = v.cache /\ w.asked = v.asked
      /\ w.province = v.province /\ w.merged_rows = v.merged_rows
      /\ w.selected = v.selected /\ w.drawn = v.drawn
      /\ w.state = pointer /\ w.state_rows = u.state_rows /\ w.broken = u.broken
      /\ w.misread = v.misread
  BY <1>2, <1>3 DEF Changes, Fields
<1>6. Sound(w)
  BY <1>1, <1>3, <1>5 DEF Sound, Changes
<1>7. ASSUME /\ ~v.broken /\ ProvinceSide(v)
             /\ v.project.provinces = {} => v.project.states = {}
             /\ pointer = Null \/ Alive(pointer, v.project.states)
      PROVE  Tidied(w)
  <2>1. ProvinceSide(w)
    BY <1>5, <1>7, ProvinceSideStays
  <2>2. ProvincesOf(w, pointer.id) = ProvincesOf(v, pointer.id)
    BY <1>5, SameGroups
  <2>3. StateSide(w)
    BY <1>2, <1>5, <1>7, <2>2 DEF StateSide
  <2>. QED
    BY <1>2, <1>5, <1>7, <2>1, <2>3 DEF Tidied
<1>. QED
  BY <1>4, <1>6, <1>7 DEF w, u

\* What a handler of the state pane makes of a session in which nothing but the state
\* side may be out of order.
Mends(v, w) ==
  /\ Changes(v, w, StateFields)
  /\ Sound(w)
  /\ /\ ~v.broken /\ ProvinceSide(v)
     /\ v.project.provinces = {} => v.project.states = {}
     => Tidied(w)

LEMMA MendingSelects ==
  ASSUME NEW v, NEW w, Mends(v, w)
  PROVE  Selects(v, w)
BY DEF Mends, Selects, Changes, Fields, StateFields, Tidied, StateSide

LEMMA StateSetIs ==
  ASSUME NEW v, Sound(v), NEW s, isValidStateID(v, s)
  PROVE  Mends(v, selectState(v, s)) /\ Mends(v, addStateSelection(v, s))
<1> DEFINE pointer == To(s)
           one == {s}
           more == OnStateSet(v, s).selected_states \union {s}
<1>1. /\ selectState(v, s) = [setState(v, pointer) EXCEPT !.selected_states = one]
      /\ addStateSelection(v, s) = [setState(v, pointer) EXCEPT !.selected_states = more]
  BY DEF selectState, addStateSelection, OnStateSet
<1>2. Alive(pointer, v.project.states)
  BY DEF Alive, To, isValidStateID
<1> HIDE DEF pointer, one, more
<1>3. Mends(v, [setState(v, pointer) EXCEPT !.selected_states = one])
  BY <1>2, StateSelectionIs DEF Mends
<1>4. Mends(v, [setState(v, pointer) EXCEPT !.selected_states = more])
  BY <1>2, StateSelectionIs DEF Mends
<1>. QED
  BY <1>1, <1>3, <1>4

LEMMA StateClearedIs ==
  ASSUME NEW v, Sound(v), NEW s
  PROVE  Mends(v, removeStateSelection(v, s)) /\ Mends(v, clearStateSelection(v))
<1> DEFINE pointer == Null
           none == {}
           less == OnStateCleared(v).selected_states \ {s}
<1>1. /\ clearStateSelection(v) = [setState(v, pointer) EXCEPT !.selected_states = none]
      /\ removeStateSelection(v, s) = [setState(v, pointer) EXCEPT !.selected_states = less]
  BY DEF clearStateSelection, removeStateSelection, OnStateCleared
<1>2. pointer = Null
  OBVIOUS
<1> HIDE DEF pointer, none, less
<1>3. Mends(v, [setState(v, pointer) EXCEPT !.selected_states = none])
  BY <1>2, StateSelectionIs DEF Mends
<1>4. Mends(v, [setState(v, pointer) EXCEPT !.selected_states = less])
  BY <1>2, StateSelectionIs DEF Mends
<1>. QED
  BY <1>1, <1>3, <1>4

LEMMA SelectsNothing ==
  ASSUME NEW v, Sound(v)
  PROVE  Selects(v, v)
BY DEF Selects

LEMMA SelectsTrans ==
  ASSUME NEW u, NEW v, NEW w, Selects(u, v), Selects(v, w)
  PROVE  Selects(u, w)
BY DEF Selects

\* A state is selected if there is one of that id.
LEMMA StateSelects ==
  ASSUME NEW v, Sound(v), NEW s
  PROVE  /\ Selects(v, selectState(v, s)) /\ Selects(v, addStateSelection(v, s))
         /\ Selects(v, removeStateSelection(v, s)) /\ Selects(v, clearStateSelection(v))
<1>1. Selects(v, selectState(v, s)) /\ Selects(v, addStateSelection(v, s))
  <2>1. CASE isValidStateID(v, s)
    BY <2>1, StateSetIs, MendingSelects
  <2>2. CASE ~isValidStateID(v, s)
    BY <2>2, SelectsNothing DEF selectState, addStateSelection
  <2>. QED
    BY <2>1, <2>2
<1>2. Selects(v, removeStateSelection(v, s)) /\ Selects(v, clearStateSelection(v))
  BY StateClearedIs, MendingSelects
<1>. QED
  BY <1>1, <1>2

LEMMA DeselectStateIs ==
  ASSUME NEW v, Sound(v), NEW id
  PROVE  Selects(v, DeselectStateOf(v, id)) /\ Changes(v, DeselectStateOf(v, id), StateFields)
<1> DEFINE w == DeselectStateOf(v, id)
           s == v.project.state[id]
<1>1. CASE w = v
  <2>1. Changes(v, v, StateFields)
    BY DEF Changes, Sound
  <2>. QED
    BY <1>1, <2>1, SelectsNothing
<1>2. CASE w = removeStateSelection(v, s)
  <2> HIDE DEF s
  <2>1. Mends(v, removeStateSelection(v, s))
    BY StateClearedIs
  <2>. QED
    BY <1>2, <2>1, MendingSelects DEF Mends
<1>3. w = v \/ w = removeStateSelection(v, s)
  BY DEF DeselectStateOf
<1>. QED
  BY <1>1, <1>2, <1>3

\* A handler that only uses what may be gone does no harm where it is not.
LEMMA BreaksNothing ==
  ASSUME NEW v, Sound(v), NEW w, Changes(v, w, {"broken"}), Tidied(v) => ~w.broken
  PROVE  Selects(v, w)
<1>1. /\ w.project = v.project /\ w.cache = v.cache /\ w.asked = v.asked
      /\ w.province = v.province /\ w.merged_rows = v.merged_rows
      /\ w.selected = v.selected /\ w.drawn = v.drawn /\ w.misread = v.misread
      /\ w.state = v.state /\ w.state_rows = v.state_rows
  BY DEF Changes, Fields
<1>2. Sound(w)
  BY <1>1 DEF Sound, Changes
<1>3. ASSUME Tidied(v) PROVE Tidied(w)
  <2>1. ProvinceSide(v) /\ StateSide(v)
    BY <1>3 DEF Tidied
  <2>2. ProvinceSide(w)
    BY <1>1, <2>1, ProvinceSideStays
  <2>3. StateSide(w)
    BY <1>1, <2>1, StateSideStays
  <2>. QED
    BY <1>3, <2>2, <2>3 DEF Tidied
<1>. QED
  BY <1>1, <1>2, <1>3 DEF Selects

LEMMA UsesSelectionIs ==
  ASSUME NEW v, Sound(v)
  PROVE  /\ Selects(v, UsesSelection(v))
         /\ Changes(v, UsesSelection(v), {"broken"})
<1> DEFINE w == UsesSelection(v)
<1>1. /\ Changes(v, w, {"broken"})
      /\ w.broken <=> v.broken \/ ~(v.selected \subseteq v.project.provinces)
  BY DEF UsesSelection, Sound, IsSession, Fields, Changes
<1> HIDE DEF w
<1>2. Tidied(v) => ~w.broken
  BY <1>1 DEF Tidied, ProvinceSide
<1>3. Selects(v, w)
  BY <1>1, <1>2, BreaksNothing
<1>. QED
  BY <1>1, <1>3 DEF w

\* So does a pane that shows again what it points to.
LEMMA RefreshSelects ==
  ASSUME NEW v, Sound(v), NEW multi
  PROVE  Selects(v, UpdateProvincePane(v, multi)) /\ Selects(v, UpdateStatePane(v))
<1>0. IsSession(v)
  BY DEF Sound
<1>1. ASSUME NEW w, w = UpdateProvincePane(v, multi) PROVE Selects(v, w)
  <2>1. /\ Changes(v, w, {"merge_enabled", "merged_rows", "broken"})
        /\ v.province # Null => w.merged_rows = getMergedProvinces(v, v.province.id)
        /\ w.broken <=> v.broken \/ (v.province # Null /\ ~Alive(v.province, v.project.provinces))
    BY <1>0, <1>1, UpdateProvincePaneIs
  <2>2. /\ w.project = v.project /\ w.cache = v.cache /\ w.asked = v.asked
        /\ w.province = v.province /\ w.selected = v.selected /\ w.drawn = v.drawn
        /\ w.state = v.state /\ w.state_rows = v.state_rows /\ w.misread = v.misread
    BY <2>1 DEF Changes, Fields
  <2>3. Sound(w)
    BY <2>1, <2>2 DEF Sound, Changes
  <2>4. ASSUME Tidied(v) PROVE Tidied(w)
    <3>1. ProvinceSide(v) /\ StateSide(v) /\ ~v.broken
      BY <2>4 DEF Tidied
    <3>2. \A q : getMergedProvinces(w, q) = getMergedProvinces(v, q)
      BY <2>2, SameGroups
    <3>3. ProvinceSide(w)
      BY <2>1, <2>2, <3>1, <3>2 DEF ProvinceSide
    <3>4. StateSide(w)
      BY <2>2, <3>1, StateSideStays
    <3>. QED
      BY <2>1, <3>1, <3>3, <3>4 DEF Tidied, ProvinceSide
  <2>. QED
    BY <2>2, <2>3, <2>4 DEF Selects
<1>2. ASSUME NEW w, w = UpdateStatePane(v) PROVE Selects(v, w)
  <2>1. /\ Changes(v, w, {"state_rows", "broken"})
        /\ v.state # Null => w.state_rows = ProvincesOf(v, v.state.id)
        /\ w.broken <=> v.broken \/ (v.state # Null /\ ~Alive(v.state, v.project.states))
    BY <1>0, <1>2, UpdateStatePaneIs
  <2>2. /\ w.project = v.project /\ w.cache = v.cache /\ w.asked = v.asked
        /\ w.province = v.province /\ w.merged_rows = v.merged_rows
        /\ w.selected = v.selected /\ w.drawn = v.drawn /\ w.state = v.state
        /\ w.misread = v.misread
    BY <2>1 DEF Changes, Fields
  <2>3. Sound(w)
    BY <2>1, <2>2 DEF Sound, Changes
  <2>4. ASSUME Tidied(v) PROVE Tidied(w)
    <3>1. ProvinceSide(v) /\ StateSide(v) /\ ~v.broken
      BY <2>4 DEF Tidied
    <3>2. ProvincesOf(w, v.state.id) = ProvincesOf(v, v.state.id)
      BY <2>2, SameGroups
    <3>3. StateSide(w)
      BY <2>1, <2>2, <3>1, <3>2 DEF StateSide
    <3>4. ProvinceSide(w)
      BY <2>2, <3>1, ProvinceSideStays
    <3>. QED
      BY <2>1, <3>1, <3>3, <3>4 DEF Tidied, StateSide
  <2>. QED
    BY <2>2, <2>3, <2>4 DEF Selects
<1>. QED
  BY <1>1, <1>2

-----------------------------------------------------------------------------
(* One province of a state after the other is added to the selection.      *)

IsAdding(f, m, v, ids) ==
  f = [n \in 0..m |-> IF n = 0 THEN v ELSE addProvinceSelection(f[n - 1], Nth(ids, n))]

LEMMA AddingExists ==
  ASSUME NEW v, NEW ids, NEW N \in Nat
  PROVE  \E f : IsAdding(f, N, v, ids)
<1> DEFINE T == {m \in 0 .. N : \E f : IsAdding(f, m, v, ids)}
           After(x, n) == addProvinceSelection(x, Nth(ids, n))
<1>1. 0 \in T
  <2> DEFINE f == [n \in 0..0 |-> v]
  <2>1. IsAdding(f, 0, v, ids)
    BY DEF IsAdding
  <2>. QED
    BY <2>1
<1>2. ASSUME NEW m \in 0 .. N - 1, m \in T PROVE m + 1 \in T
  <2>1. PICK f : IsAdding(f, m, v, ids)
    BY <1>2
  <2> HIDE DEF After
  <2> DEFINE g == [n \in 0..m + 1 |-> IF n = m + 1 THEN After(f[m], n) ELSE f[n]]
  <2>2. \A n \in 0..m : f[n] = IF n = 0 THEN v ELSE After(f[n - 1], n)
    BY <2>1 DEF IsAdding, After
  <2>3. ASSUME NEW n \in 0..m + 1
        PROVE  g[n] = IF n = 0 THEN v ELSE After(g[n - 1], n)
    <3>1. CASE n = m + 1
      <4>1. g[m] = f[m] /\ n # 0 /\ n - 1 = m
        BY <3>1
      <4>2. g[n] = After(f[m], n)
        BY <3>1
      <4>. QED
        BY <4>1, <4>2
    <3>2. CASE n \in 0..m
      <4>1. g[n] = f[n] /\ (n # 0 => g[n - 1] = f[n - 1])
        BY <3>2
      <4>. QED
        BY <2>2, <3>2, <4>1
    <3>. QED
      BY <3>1, <3>2
  <2>4. DOMAIN g = 0..m + 1 /\ g = [n \in 0..m + 1 |-> g[n]]
    OBVIOUS
  <2> HIDE DEF g
  <2>5. IsAdding(g, m + 1, v, ids)
    BY <2>3, <2>4 DEF IsAdding, After
  <2>. QED
    BY <1>2, <2>5
<1> HIDE DEF T
<1>3. 0 .. N \subseteq T
  BY <1>1, <1>2, FromZeroOn
<1>. QED
  BY <1>3 DEF T

LEMMA AddAllSelects ==
  ASSUME NEW v, Sound(v), NEW ids, IsFiniteSet(ids)
  PROVE  Selects(v, AddAll(v, ids))
<1> DEFINE N == Cardinality(ids)
           after == CHOOSE f : IsAdding(f, N, v, ids)
<1>1. N \in Nat
  BY FS_CardinalityType
<1>2. AddAll(v, ids) = after[N]
  BY DEF AddAll, IsAdding
<1> HIDE DEF N
<1>3. IsAdding(after, N, v, ids)
  BY <1>1, AddingExists
<1> HIDE DEF after
<1> DEFINE T == {n \in 0..N : Selects(v, after[n])}
<1>4. 0 \in T
  <2>1. after[0] = v
    BY <1>1, <1>3 DEF IsAdding
  <2>. QED
    BY <1>1, <2>1, SelectsNothing
<1>5. ASSUME NEW n \in 0..N - 1, n \in T PROVE n + 1 \in T
  <2>1. /\ n + 1 \in 0..N /\ (n + 1) - 1 = n /\ n + 1 # 0
        /\ Selects(v, after[n])
    BY <1>1, <1>5
  <2> DEFINE u == after[n]
             x == Nth(ids, n + 1)
  <2>2. after[n + 1] = addProvinceSelection(u, x)
    BY <2>1, <1>3 DEF IsAdding
  <2>3. Selects(v, u)
    BY <2>1
  <2> HIDE DEF u, x
  <2>4. Sound(u)
    BY <2>3 DEF Selects
  <2>5. Selects(u, addProvinceSelection(u, x))
    BY <2>4, AddProvinceSelects
  <2>6. Selects(v, addProvinceSelection(u, x))
    BY <2>3, <2>5, SelectsTrans
  <2>. QED
    BY <2>1, <2>2, <2>6
<1> HIDE DEF T
<1>6. N \in T
  <2>1. 0..N \subseteq T
    BY <1>1, <1>4, <1>5, FromZeroOn
  <2>. QED
    BY <1>1, <2>1
<1>. QED
  BY <1>2, <1>6 DEF T

-----------------------------------------------------------------------------
(* One group after the other is merged with the first.                     *)

\* Only the roots change, and stay provinces of the project.
Merges(v, w) ==
  /\ Changes(v, w, {"project"})
  /\ IsProject(w.project)
  /\ \A f \in ProjectFields \ {"root"} : w.project[f] = v.project[f]

LEMMA MergeIs ==
  ASSUME NEW v, IsSession(v), IsProject(v.project), NEW first, NEW id
  PROVE  Merges(v, MergeWith(first, v, id))
<1> DEFINE w == MergeWith(first, v, id)
           root == v.project.root
           roots == [p \in DOMAIN root |-> IF root[p] = root[first] THEN root[id] ELSE root[p]]
<1>1. CASE isValidProvinceID(v, id)
  <2>1. w = [v EXCEPT !.project.root = roots]
    BY <1>1 DEF MergeWith
  <2>2. root \in [v.project.provinces -> v.project.provinces] /\ id \in v.project.provinces
    BY <1>1 DEF IsProject, isValidProvinceID
  <2> HIDE DEF root
  <2>3. roots \in [v.project.provinces -> v.project.provinces]
    BY <2>2
  <2> HIDE DEF roots, w
  <2>4. Changes(v, w, {"project"}) /\ w.project = [v.project EXCEPT !.root = roots]
    BY <2>1 DEF Changes, IsSession, Fields
  <2>5. v.project = [f \in ProjectFields |-> v.project[f]]
    BY DEF IsProject
  <2>6. /\ w.project = [f \in ProjectFields |-> w.project[f]]
        /\ w.project.root = roots
        /\ \A f \in ProjectFields \ {"root"} : w.project[f] = v.project[f]
    BY <2>4, <2>5 DEF ProjectFields
  <2>7. /\ w.project.provinces = v.project.provinces /\ w.project.states = v.project.states
        /\ w.project.state = v.project.state /\ w.project.open = v.project.open
    BY <2>6 DEF ProjectFields
  <2>8. IsProject(w.project)
    BY <2>3, <2>6, <2>7 DEF IsProject
  <2>. QED
    BY <2>4, <2>6, <2>8 DEF Merges, w
<1>2. CASE ~isValidProvinceID(v, id)
  <2>1. w = v
    BY <1>2 DEF MergeWith
  <2>. QED
    BY <2>1 DEF Merges, Changes
<1>. QED
  BY <1>1, <1>2

IsMerging(f, m, first, v, ids) ==
  f = [n \in 0..m |-> IF n = 0 THEN v ELSE MergeWith(first, f[n - 1], Nth(ids, n))]

LEMMA MergingExists ==
  ASSUME NEW first, NEW v, NEW ids, NEW N \in Nat
  PROVE  \E f : IsMerging(f, N, first, v, ids)
<1> DEFINE T == {m \in 0 .. N : \E f : IsMerging(f, m, first, v, ids)}
           After(x, n) == MergeWith(first, x, Nth(ids, n))
<1>1. 0 \in T
  <2> DEFINE f == [n \in 0..0 |-> v]
  <2>1. IsMerging(f, 0, first, v, ids)
    BY DEF IsMerging
  <2>. QED
    BY <2>1
<1>2. ASSUME NEW m \in 0 .. N - 1, m \in T PROVE m + 1 \in T
  <2>1. PICK f : IsMerging(f, m, first, v, ids)
    BY <1>2
  <2> HIDE DEF After
  <2> DEFINE g == [n \in 0..m + 1 |-> IF n = m + 1 THEN After(f[m], n) ELSE f[n]]
  <2>2. \A n \in 0..m : f[n] = IF n = 0 THEN v ELSE After(f[n - 1], n)
    BY <2>1 DEF IsMerging, After
  <2>3. ASSUME NEW n \in 0..m + 1
        PROVE  g[n] = IF n = 0 THEN v ELSE After(g[n - 1], n)
    <3>1. CASE n = m + 1
      <4>1. g[m] = f[m] /\ n # 0 /\ n - 1 = m
        BY <3>1
      <4>2. g[n] = After(f[m], n)
        BY <3>1
      <4>. QED
        BY <4>1, <4>2
    <3>2. CASE n \in 0..m
      <4>1. g[n] = f[n] /\ (n # 0 => g[n - 1] = f[n - 1])
        BY <3>2
      <4>. QED
        BY <2>2, <3>2, <4>1
    <3>. QED
      BY <3>1, <3>2
  <2>4. DOMAIN g = 0..m + 1 /\ g = [n \in 0..m + 1 |-> g[n]]
    OBVIOUS
  <2> HIDE DEF g
  <2>5. IsMerging(g, m + 1, first, v, ids)
    BY <2>3, <2>4 DEF IsMerging, After
  <2>. QED
    BY <1>2, <2>5
<1> HIDE DEF T
<1>3. 0 .. N \subseteq T
  BY <1>1, <1>2, FromZeroOn
<1>. QED
  BY <1>3 DEF T

LEMMA MergeAllIs ==
  ASSUME NEW v, IsSession(v), IsProject(v.project), NEW first, NEW ids, IsFiniteSet(ids)
  PROVE  Merges(v, MergeAll(first, v, ids))
<1> DEFINE N == Cardinality(ids)
           after == CHOOSE f : IsMerging(f, N, first, v, ids)
<1>1. N \in Nat
  BY FS_CardinalityType
<1>2. MergeAll(first, v, ids) = after[N]
  BY DEF MergeAll, IsMerging
<1> HIDE DEF N
<1>3. IsMerging(after, N, first, v, ids)
  BY <1>1, MergingExists
<1> HIDE DEF after
<1> DEFINE T == {n \in 0..N : Merges(v, after[n])}
<1>4. 0 \in T
  <2>1. after[0] = v
    BY <1>1, <1>3 DEF IsMerging
  <2>2. Merges(v, v)
    BY DEF Merges, Changes
  <2>. QED
    BY <1>1, <2>1, <2>2
<1>5. ASSUME NEW n \in 0..N - 1, n \in T PROVE n + 1 \in T
  <2>1. /\ n + 1 \in 0..N /\ (n + 1) - 1 = n /\ n + 1 # 0
        /\ Merges(v, after[n])
    BY <1>1, <1>5
  <2> DEFINE u == after[n]
             x == Nth(ids, n + 1)
  <2>2. after[n + 1] = MergeWith(first, u, x)
    BY <2>1, <1>3 DEF IsMerging
  <2>3. Merges(v, u)
    BY <2>1
  <2> HIDE DEF u, x
  <2>4. IsSession(u) /\ IsProject(u.project)
    BY <2>3 DEF Merges, Changes
  <2>5. Merges(u, MergeWith(first, u, x))
    BY <2>4, MergeIs
  <2>6. Merges(v, MergeWith(first, u, x))
    BY <2>3, <2>5 DEF Merges, Changes
  <2>. QED
    BY <2>1, <2>2, <2>6
<1> HIDE DEF T
<1>6. N \in T
  <2>1. 0..N \subseteq T
    BY <1>1, <1>4, <1>5, FromZeroOn
  <2>. QED
    BY <1>1, <2>1
<1>. QED
  BY <1>2, <1>6 DEF T

-----------------------------------------------------------------------------
(* The handlers of an open project.                                        *)

\* The map the drawing area shows, and the menu.
WindowOK ==
  /\ enabled <=> session.project.open
  /\ session.project.provinces # {} => shown_map = loads

SessionInv == Sound(session) /\ WindowOK /\ (tidy => Tidied(session))

\* What a handler may make of the session.
Edits(w) ==
  /\ Sound(w)
  /\ w.project.open = session.project.open
  /\ w.project.provinces = session.project.provinces
  /\ Tidied(session) => Tidied(w)

LEMMA EditStep ==
  ASSUME SessionInv, NEW w, Edits(w), session' = w, Stays, UNCHANGED tidy
  PROVE  SessionInv'
<1>1. loads' = loads /\ enabled' = enabled /\ shown_map' = shown_map /\ tidy' = tidy
  BY DEF Stays
<1>2. Sound(session)'
  BY DEF Edits, Sound
<1>3. WindowOK'
  BY <1>1 DEF WindowOK, SessionInv, Edits
<1>4. (tidy => Tidied(session))'
  <2>1. Tidied(w) = Tidied(session)'
    BY <1>1 DEF Tidied, ProvinceSide, StateSide, Alive
  <2>. QED
    BY <1>1, <2>1 DEF SessionInv, Edits
<1>. QED
  BY <1>2, <1>3, <1>4 DEF SessionInv

LEMMA SelectingEdits ==
  ASSUME NEW w, Selects(session, w)
  PROVE  Edits(w)
BY DEF Selects, Edits

LEMMA OutsideStep == SessionInv /\ Outside /\ UNCHANGED tidy => SessionInv'
<1> SUFFICES ASSUME SessionInv, Outside, UNCHANGED tidy PROVE SessionInv'
  OBVIOUS
<1> DEFINE v == session
<1>1. Sound(v)
  BY DEF SessionInv
<1> HIDE DEF v
<1>2. Selects(v, clearProvinceSelection(v))
  BY <1>1, ClearProvinceIs
<1>3. Edits(clearProvinceSelection(session))
  BY <1>2, SelectingEdits DEF v
<1>. QED
  BY <1>3, EditStep DEF Outside, Handles

LEMMA ClickStep ==
  ASSUME SessionInv, UNCHANGED tidy, NEW id, Click(id)
  PROVE  SessionInv'
<1> DEFINE u == session
           v == selectProvince(u, id)
           s == u.project.state[id]
           w == IF isValidStateID(u, s) THEN selectState(v, s) ELSE clearStateSelection(v)
<1>1. session' = w /\ Stays
  BY DEF Click, Handles
<1>2. Sound(u)
  BY DEF SessionInv
<1> HIDE DEF u, s
<1>3. Selects(u, v)
  BY <1>2, SelectProvinceSelects
<1> HIDE DEF v
<1>4. Sound(v)
  BY <1>3 DEF Selects
<1>5. Selects(v, w)
  BY <1>4, StateSelects
<1> HIDE DEF w
<1>6. Selects(u, w)
  BY <1>3, <1>5, SelectsTrans
<1>7. Edits(w)
  BY <1>6, SelectingEdits DEF u
<1>. QED
  BY <1>1, <1>7, EditStep

LEMMA ShiftClickStep ==
  ASSUME SessionInv, UNCHANGED tidy, NEW id, ShiftClick(id)
  PROVE  SessionInv'
<1> DEFINE u == session
           v == IF id \in u.selected THEN removeProvinceSelection(u, id)
                ELSE addProvinceSelection(u, id)
           s == u.project.state[id]
           w == addStateSelection(v, s)
<1>1. session' = w /\ Stays
  BY DEF ShiftClick, Handles
<1>2. Sound(u)
  BY DEF SessionInv
<1> HIDE DEF u, s
<1>3. Selects(u, v)
  BY <1>2, AddProvinceSelects, DeselectIs DEF removeProvinceSelection
<1> HIDE DEF v
<1>4. Sound(v)
  BY <1>3 DEF Selects
<1>5. Selects(v, w)
  BY <1>4, StateSelects
<1> HIDE DEF w
<1>6. Selects(u, w)
  BY <1>3, <1>5, SelectsTrans
<1>7. Edits(w)
  BY <1>6, SelectingEdits DEF u
<1>. QED
  BY <1>1, <1>7, EditStep

LEMMA ClickRowStep ==
  ASSUME SessionInv, UNCHANGED tidy, NEW id, ClickRow(id)
  PROVE  SessionInv'
<1> DEFINE u == session
           w == selectProvince(u, id)
<1>1. session' = w /\ Stays
  BY DEF ClickRow, Handles
<1>2. Sound(u)
  BY DEF SessionInv
<1> HIDE DEF u
<1>3. Selects(u, w)
  BY <1>2, SelectProvinceSelects
<1> HIDE DEF w
<1>4. Edits(w)
  BY <1>3, SelectingEdits DEF u
<1>. QED
  BY <1>1, <1>4, EditStep

LEMMA SelectAllProvincesStep ==
  SessionInv /\ SelectAllProvinces /\ UNCHANGED tidy => SessionInv'
<1> SUFFICES ASSUME SessionInv, SelectAllProvinces, UNCHANGED tidy PROVE SessionInv'
  OBVIOUS
<1> DEFINE u == session
           t == clearProvinceSelection(u)
           ids == ProvincesOf(u, u.state.id)
           v == AddAll(t, ids)
           w == [v EXCEPT !.broken = @ \/ ~Alive(u.state, u.project.states)]
<1>1. session' = w /\ Stays /\ u.state # Null
  BY DEF SelectAllProvinces, Handles
<1>2. Sound(u)
  BY DEF SessionInv
<1> HIDE DEF u
<1>3. IsFiniteSet(ids)
  BY <1>2, FS_Subset DEF Sound, IsProject, ProvincesOf
<1> HIDE DEF ids
<1>4. Selects(u, t)
  BY <1>2, ClearProvinceIs
<1> HIDE DEF t
<1>5. Sound(t)
  BY <1>4 DEF Selects
<1>6. Selects(t, v)
  BY <1>3, <1>5, AddAllSelects
<1> HIDE DEF v
<1>7. Sound(v)
  BY <1>6 DEF Selects
<1>8. Changes(v, w, {"broken"}) /\ (w.broken <=> v.broken \/ ~Alive(u.state, u.project.states))
  BY <1>7 DEF Sound, IsSession, Fields, Changes
<1> HIDE DEF w
<1>9. Sound(w)
  BY <1>7, <1>8 DEF Sound, Changes, Fields
<1>10. Selects(u, v)
  BY <1>4, <1>6, SelectsTrans
<1>11. w.project = v.project
  BY <1>8 DEF Changes, Fields
<1>12. ASSUME Tidied(u) PROVE Tidied(w)
  <2>1. Tidied(v) /\ Alive(u.state, u.project.states)
    BY <1>1, <1>10, <1>12 DEF Selects, Tidied, StateSide
  <2>2. ~w.broken
    BY <1>8, <2>1 DEF Tidied
  <2>3. Selects(v, w)
    BY <1>7, <1>8, <2>2, BreaksNothing
  <2>. QED
    BY <2>1, <2>3 DEF Selects
<1>13. Edits(w)
  BY <1>9, <1>10, <1>11, <1>12 DEF Edits, Selects, u
<1>. QED
  BY <1>1, <1>13, EditStep

LEMMA RefreshStep == SessionInv /\ Refresh /\ UNCHANGED tidy => SessionInv'
<1> SUFFICES ASSUME SessionInv, Refresh, UNCHANGED tidy PROVE SessionInv'
  OBVIOUS
<1> DEFINE u == session
           multi == Cardinality(u.selected) > 1
           v == UpdateProvincePane(u, multi)
           w == UpdateStatePane(v)
<1>1. (session' = v \/ session' = w) /\ Stays
  BY DEF Refresh, Handles
<1>2. Sound(u)
  BY DEF SessionInv
<1> HIDE DEF u, multi
<1>3. Selects(u, v)
  BY <1>2, RefreshSelects
<1> HIDE DEF v
<1>4. Sound(v)
  BY <1>3 DEF Selects
<1>5. Selects(v, w)
  BY <1>4, RefreshSelects
<1> HIDE DEF w
<1>6. Selects(u, w)
  BY <1>3, <1>5, SelectsTrans
<1>7. Edits(w) /\ Edits(v)
  BY <1>3, <1>6, SelectingEdits DEF u
<1>. QED
  BY <1>1, <1>7, EditStep

\* The states of a project and who is in them change, and nothing else of it.
Restates(p, q, ids) ==
  /\ IsProject(q)
  /\ q.states = ids
  /\ q.provinces = p.provinces /\ q.root = p.root /\ q.open = p.open

LEMMA RestatedProject ==
  ASSUME NEW p, IsProject(p), NEW ids, ids \subseteq 1..MaxStateID,
         NEW f, f \in [p.provinces -> Nat]
  PROVE  Restates(p, [p EXCEPT !.states = ids, !.state = f], ids)
<1> DEFINE q == [p EXCEPT !.states = ids, !.state = f]
<1>1. p = [x \in ProjectFields |-> p[x]]
  BY DEF IsProject
<1>2. /\ q = [x \in ProjectFields |-> q[x]]
      /\ q.states = ids /\ q.state = f
      /\ q.provinces = p.provinces /\ q.root = p.root /\ q.open = p.open
  BY <1>1 DEF ProjectFields
<1> HIDE DEF q
<1>3. IsProject(q)
  BY <1>2 DEF IsProject
<1>. QED
  BY <1>2, <1>3 DEF q, Restates

LEMMA CreateStateStep == SessionInv /\ CreateState /\ UNCHANGED tidy => SessionInv'
<1> SUFFICES ASSUME SessionInv, CreateState, UNCHANGED tidy PROVE SessionInv'
  OBVIOUS
<1> DEFINE u == session
           v == UsesSelection(u)
<1>1. PICK s \in (1 .. MaxStateID) \ u.project.states :
        /\ Handles(selectState([v EXCEPT !.project.states = @ \union {s},
                                         !.project.state = [p \in DOMAIN @ |->
                                                              IF p \in v.selected THEN s ELSE @[p]]], s))
        /\ u.province # Null /\ Stays
  BY DEF CreateState
<1> DEFINE f == [p \in DOMAIN v.project.state |->
                   IF p \in v.selected THEN s ELSE v.project.state[p]]
           ids == v.project.states \union {s}
           w == [v EXCEPT !.project = [v.project EXCEPT !.states = ids, !.state = f]]
           x == selectState(w, s)
<1>2. Sound(u)
  BY DEF SessionInv
<1>3. Selects(u, v) /\ Changes(u, v, {"broken"})
  BY <1>2, UsesSelectionIs
<1>4. Sound(v) /\ v.project = u.project /\ v.province = u.province
  BY <1>3 DEF Selects, Changes, Fields
<1> HIDE DEF v
<1>5. IsSession(v) /\ IsProject(v.project)
  BY <1>4 DEF Sound
<1>6. session' = x /\ Stays /\ u.province # Null
  <2> DEFINE g(h) == [p \in DOMAIN h |-> IF p \in v.selected THEN s ELSE h[p]]
  <2>1. [v EXCEPT !.project.states = @ \union {s}, !.project.state = g(@)] = w
    BY <1>5 DEF IsSession, Fields, IsProject, ProjectFields
  <2>. QED
    BY <1>1, <2>1 DEF Handles
<1>7. f \in [v.project.provinces -> Nat] /\ ids \subseteq 1..MaxStateID
  BY <1>5, SessionAssumption DEF IsProject
<1> DEFINE q == [v.project EXCEPT !.states = ids, !.state = f]
<1> HIDE DEF f, ids
<1>8. /\ IsProject(q)
      /\ q.states = ids
      /\ q.provinces = v.project.provinces /\ q.root = v.project.root /\ q.open = v.project.open
  <2> DEFINE p == v.project
  <2>1. IsProject(p) /\ ids \subseteq 1..MaxStateID /\ f \in [p.provinces -> Nat]
    BY <1>5, <1>7
  <2>2. q = [p EXCEPT !.states = ids, !.state = f]
    OBVIOUS
  <2> HIDE DEF p, q
  <2>. QED
    <3>1. Restates(p, q, ids)
      BY <2>1, <2>2, RestatedProject
    <3>. QED
      BY <3>1 DEF p, Restates
<1> HIDE DEF q
<1>9. Changes(v, w, {"project"}) /\ w.project = q
  BY <1>5 DEF IsSession, Fields, Changes, q
<1> HIDE DEF w
<1>10. /\ w.cache = v.cache /\ w.asked = v.asked
       /\ w.province = v.province /\ w.merged_rows = v.merged_rows
       /\ w.selected = v.selected /\ w.drawn = v.drawn /\ w.broken = v.broken
       /\ w.misread = v.misread
  BY <1>9 DEF Changes, Fields
<1>11. Sound(w)
  BY <1>4, <1>8, <1>9, <1>10 DEF Sound, Changes
<1>12. isValidStateID(w, s)
  BY <1>8, <1>9 DEF isValidStateID, ids
<1>13. Mends(w, x)
  BY <1>11, <1>12, StateSetIs
<1> HIDE DEF x
<1>14. x.project = w.project
  BY <1>13 DEF Mends, Changes, Fields, StateFields
<1>15. ASSUME Tidied(u) PROVE Tidied(x)
  <2>1. Tidied(v)
    BY <1>3, <1>15 DEF Selects
  <2>2. ProvinceSide(v) /\ ~v.broken
    BY <2>1 DEF Tidied
  <2>3. ProvinceSide(w)
    BY <1>8, <1>9, <1>10, <2>2, ProvinceSideStays
  <2>4. w.project.provinces # {}
    BY <1>4, <1>6, <1>8, <1>9, <2>2 DEF ProvinceSide, Alive
  <2>. QED
    BY <1>10, <1>13, <2>2, <2>3, <2>4 DEF Mends
<1>16. Edits(x)
  BY <1>4, <1>8, <1>9, <1>13, <1>14, <1>15 DEF Edits, Mends
<1>. QED
  BY <1>6, <1>16, EditStep

LEMMA DeleteStateStep == SessionInv /\ DeleteState /\ UNCHANGED tidy => SessionInv'
<1> SUFFICES ASSUME SessionInv, DeleteState, UNCHANGED tidy PROVE SessionInv'
  OBVIOUS
<1> DEFINE u == session
           s == u.state.id
           f == [p \in DOMAIN u.project.state |->
                   IF u.project.state[p] = s THEN 0 ELSE u.project.state[p]]
           ids == u.project.states \ {s}
           q == [u.project EXCEPT !.states = ids, !.state = f]
           v == [u EXCEPT !.project = q, !.broken = ~Alive(u.state, u.project.states)]
<1>1. Sound(u) /\ IsSession(u) /\ IsProject(u.project)
  BY DEF SessionInv, Sound
<1>2. PICK garbage : session' = removeStateSelection(v, garbage) /\ Stays /\ u.state # Null
  <2> DEFINE g(h) == [p \in DOMAIN h |-> IF h[p] = s THEN 0 ELSE h[p]]
  <2>1. [u EXCEPT !.project.states = @ \ {s}, !.project.state = g(@),
                  !.broken = ~Alive(u.state, u.project.states)] = v
    BY <1>1 DEF IsSession, Fields, IsProject, ProjectFields
  <2>. QED
    BY <2>1 DEF DeleteState, Handles
<1> DEFINE x == removeStateSelection(v, garbage)
<1>3. f \in [u.project.provinces -> Nat] /\ ids \subseteq 1..MaxStateID
  BY <1>1 DEF IsProject
<1> HIDE DEF f
<1>4. /\ IsProject(q)
      /\ q.states = ids
      /\ q.provinces = u.project.provinces /\ q.root = u.project.root /\ q.open = u.project.open
  <2> DEFINE p == u.project
  <2>1. IsProject(p) /\ ids \subseteq 1..MaxStateID /\ f \in [p.provinces -> Nat]
    BY <1>1, <1>3
  <2>2. q = [p EXCEPT !.states = ids, !.state = f]
    OBVIOUS
  <2> HIDE DEF ids, u, p, q
  <2>3. Restates(p, q, ids)
    BY <2>1, <2>2, RestatedProject
  <2>. QED
    BY <2>3 DEF p, Restates
<1> HIDE DEF q
<1>5. /\ Changes(u, v, {"project", "broken"}) /\ v.project = q
      /\ v.broken <=> ~Alive(u.state, u.project.states)
  BY <1>1 DEF IsSession, Fields, Changes
<1> HIDE DEF v
<1>6. /\ v.cache = u.cache /\ v.asked = u.asked
      /\ v.province = u.province /\ v.merged_rows = u.merged_rows
      /\ v.selected = u.selected /\ v.drawn = u.drawn /\ v.misread = u.misread
  BY <1>5 DEF Changes, Fields
<1>7. Sound(v)
  BY <1>1, <1>4, <1>5, <1>6 DEF Sound, Changes
<1>8. Mends(v, x)
  BY <1>7, StateClearedIs
<1> HIDE DEF x
<1>9. x.project = v.project
  BY <1>8 DEF Mends, Changes, Fields, StateFields
<1>10. ASSUME Tidied(u) PROVE Tidied(x)
  <2>1. ProvinceSide(u) /\ StateSide(u)
    BY <1>10 DEF Tidied
  <2>2. ProvinceSide(v)
    BY <1>4, <1>5, <1>6, <2>1, ProvinceSideStays
  <2>3. ~v.broken
    BY <1>2, <1>5, <2>1 DEF StateSide
  <2>4. v.project.provinces = {} => v.project.states = {}
    BY <1>4, <1>5, <2>1 DEF StateSide
  <2>. QED
    BY <1>8, <2>2, <2>3, <2>4 DEF Mends
<1>11. Edits(x)
  BY <1>4, <1>5, <1>8, <1>9, <1>10 DEF Edits, Mends
<1>. QED
  BY <1>2, <1>11, EditStep DEF x

LEMMA MergeStep == SessionInv /\ Merge /\ UNCHANGED tidy => SessionInv'
<1> SUFFICES ASSUME SessionInv, Merge, UNCHANGED tidy PROVE SessionInv'
  OBVIOUS
<1> DEFINE u == session
           first == u.project.root[Min(u.selected)]
           ids == u.selected \ {first}
           v == MergeAll(first, u, ids)
           w == selectProvince(v, first)
<1>1. session' = w /\ Stays /\ isValidProvinceID(u, Min(u.selected))
  BY DEF Merge, Handles
<1>2. Sound(u) /\ IsSession(u) /\ IsProject(u.project) /\ IsFiniteSet(u.selected)
  BY DEF SessionInv, Sound
<1>3. first \in u.project.provinces
  BY <1>1, <1>2 DEF isValidProvinceID, IsProject
<1>4. IsFiniteSet(ids)
  BY <1>2, FS_Subset
<1> HIDE DEF u, first, ids
<1>5. Merges(u, v)
  BY <1>2, <1>4, MergeAllIs
<1> HIDE DEF v
<1>6. /\ v.cache = u.cache /\ v.asked = u.asked
      /\ v.province = u.province /\ v.selected = u.selected /\ v.drawn = u.drawn
      /\ v.state = u.state /\ v.state_rows = u.state_rows /\ v.broken = u.broken
      /\ v.project.open = u.project.open /\ v.project.provinces = u.project.provinces
      /\ v.project.states = u.project.states /\ v.project.state = u.project.state
  BY <1>5 DEF Merges, Changes, Fields, ProjectFields
<1>7. Sound(v)
  BY <1>2, <1>5, <1>6 DEF Sound, Merges, Changes
<1>8. isValidProvinceID(v, first)
  BY <1>3, <1>6 DEF isValidProvinceID
<1>9. Selects(v, w)
  BY <1>7, SelectProvinceSelects
<1>10. ASSUME Tidied(u) PROVE Tidied(w)
  <2>1. StateSide(u) /\ ~u.broken
    BY <1>10 DEF Tidied
  <2>2. StateSide(v)
    BY <1>6, <2>1, StateSideStays
  <2>. QED
    BY <1>6, <1>7, <1>8, <2>1, <2>2, SelectProvinceTidies
<1> HIDE DEF w
<1>11. Edits(w)
  BY <1>6, <1>9, <1>10 DEF Edits, Selects, u
<1>. QED
  BY <1>1, <1>11, EditStep

\* What the two buttons of a row have in common: the province leaves the selection.
Deselected(u, id, label) == UsesSelection(DeselectStateOf(Deselect(u, id, label), id))

LEMMA DeselectedIs ==
  ASSUME NEW u, Sound(u), NEW id, NEW label
  PROVE  LET v == Deselected(u, id, label)
         IN /\ Selects(u, v)
            /\ v.drawn = u.drawn \ getMergedProvinces(u, id)
            /\ v.province # Null => /\ v.province = u.province
                                    /\ v.province.id \notin getMergedProvinces(u, id)
<1> DEFINE group == getMergedProvinces(u, id)
           s == Deselect(u, id, label)
           t == DeselectStateOf(s, id)
           v == UsesSelection(t)
<1>1. /\ Selects(u, s)
      /\ Changes(u, s, ProvinceFields)
      /\ s.drawn = u.drawn \ group
      /\ s.province # Null => s.province = u.province /\ s.province.id \notin group
  BY DeselectIs
<1>2. Deselected(u, id, label) = v
  BY DEF Deselected
<1> HIDE DEF group, s
<1>3. Sound(s)
  BY <1>1 DEF Selects
<1>4. Selects(s, t) /\ Changes(s, t, StateFields)
  BY <1>3, DeselectStateIs
<1> HIDE DEF t
<1>5. Sound(t)
  BY <1>4 DEF Selects
<1>6. Selects(t, v) /\ Changes(t, v, {"broken"})
  BY <1>5, UsesSelectionIs
<1> HIDE DEF v
<1>7. Selects(u, v)
  BY <1>1, <1>4, <1>6, SelectsTrans
<1>8. v.drawn = s.drawn /\ v.province = s.province
  BY <1>1, <1>4, <1>6 DEF Changes, Fields, StateFields, ProvinceFields
<1>. QED
  BY <1>1, <1>2, <1>7, <1>8 DEF group

LEMMA TakeOutOfStateStep ==
  ASSUME SessionInv, UNCHANGED tidy, NEW id, TakeOutOfState(id)
  PROVE  SessionInv'
<1> DEFINE u == session
           v == Deselected(u, id, id)
<1>1. Sound(u) /\ IsProject(u.project)
  BY DEF SessionInv, Sound
<1>2. Stays /\ u.state # Null /\ id \in u.state_rows
  BY DEF TakeOutOfState
<1>3. CASE ~isValidProvinceID(u, id)
  <2> DEFINE w == [u EXCEPT !.state_rows = @ \ {id}]
  <2>1. session' = w
    BY <1>3 DEF TakeOutOfState, Handles
  <2> HIDE DEF u
  <2>2. Changes(u, w, {"state_rows"})
    BY <1>1 DEF Sound, IsSession, Fields, Changes
  <2> HIDE DEF w
  <2>3. Sound(w) /\ w.project = u.project
    BY <1>1, <2>2 DEF Sound, Changes, Fields
  <2>4. ~Tidied(u)
    BY <1>2, <1>3 DEF Tidied, StateSide, ProvincesOf, isValidProvinceID
  <2>5. Edits(w)
    BY <2>3, <2>4 DEF Edits, u
  <2>. QED
    BY <1>2, <2>1, <2>5, EditStep
<1>4. CASE isValidProvinceID(u, id)
  <2> DEFINE f == [v.project.state EXCEPT ![id] = 0]
             ids == v.project.states
             q == [v.project EXCEPT !.states = ids, !.state = f]
             w == [v EXCEPT !.project = q, !.state_rows = @ \ {id}]
  <2>1. session' = [v EXCEPT !.project.state[id] = 0, !.state_rows = @ \ {id}]
    BY <1>4 DEF TakeOutOfState, Handles, Deselected, removeProvinceSelection
  <2> HIDE DEF u
  <2>2. Selects(u, v)
    BY <1>1, DeselectedIs
  <2> HIDE DEF v
  <2>3. Sound(v) /\ IsSession(v) /\ IsProject(v.project) /\ v.project = u.project
    BY <2>2 DEF Selects, Sound
  <2>4. session' = w
    <3>1. q = [v.project EXCEPT !.state[id] = 0]
      BY <2>3 DEF IsProject, ProjectFields
    <3>. QED
      BY <2>1, <2>3, <3>1 DEF IsSession, Fields
  <2>5. f \in [v.project.provinces -> Nat] /\ ids \subseteq 1..MaxStateID
        /\ \A p \in v.project.provinces : f[p] = IF p = id THEN 0 ELSE v.project.state[p]
    BY <2>3 DEF IsProject
  <2> HIDE DEF f
  <2>6. Restates(v.project, q, ids)
    <3> DEFINE p == v.project
    <3>1. IsProject(p) /\ ids \subseteq 1..MaxStateID /\ f \in [p.provinces -> Nat]
      BY <2>3, <2>5
    <3>2. q = [p EXCEPT !.states = ids, !.state = f]
      OBVIOUS
    <3> HIDE DEF p, q, ids
    <3>3. Restates(p, q, ids)
      BY <3>1, <3>2, RestatedProject
    <3>. QED
      BY <3>3 DEF p
  <2>7. q.state = f
    BY <2>3 DEF IsProject, ProjectFields
  <2>8. /\ IsProject(q) /\ q.states = v.project.states
        /\ q.provinces = v.project.provinces /\ q.root = v.project.root /\ q.open = v.project.open
    BY <2>6 DEF Restates
  <2> HIDE DEF q
  <2>9. /\ Changes(v, w, {"project", "state_rows"}) /\ w.project = q
        /\ w.state_rows = v.state_rows \ {id}
    BY <2>3 DEF IsSession, Fields, Changes
  <2> HIDE DEF w
  <2>10. /\ w.cache = v.cache /\ w.asked = v.asked
         /\ w.province = v.province /\ w.merged_rows = v.merged_rows
         /\ w.selected = v.selected /\ w.drawn = v.drawn /\ w.broken = v.broken
         /\ w.state = v.state /\ w.misread = v.misread
    BY <2>9 DEF Changes, Fields
  <2>11. Sound(w)
    BY <2>3, <2>8, <2>9, <2>10 DEF Sound, Changes
  <2>12. ASSUME Tidied(u) PROVE Tidied(w)
    <3>1. Tidied(v)
      BY <2>2, <2>12 DEF Selects
    <3>2. ProvinceSide(v) /\ StateSide(v) /\ ~v.broken
      BY <3>1 DEF Tidied
    <3>3. ProvinceSide(w)
      BY <2>8, <2>9, <2>10, <3>2, ProvinceSideStays
    <3>4. ASSUME w.state # Null
          PROVE  Alive(w.state, w.project.states) /\ w.state_rows = ProvincesOf(w, w.state.id)
      <4>1. Alive(v.state, v.project.states) /\ v.state_rows = ProvincesOf(v, v.state.id)
        BY <2>10, <3>2, <3>4 DEF StateSide
      <4>2. v.state.id # 0
        BY <2>3, <4>1 DEF IsProject, Alive
      <4>3. ProvincesOf(w, v.state.id) = ProvincesOf(v, v.state.id) \ {id}
        BY <2>5, <2>7, <2>8, <2>9, <4>2 DEF ProvincesOf
      <4>. QED
        BY <2>8, <2>9, <2>10, <4>1, <4>3 DEF Alive
    <3>5. StateSide(w)
      BY <2>8, <2>9, <3>2, <3>4 DEF StateSide
    <3>. QED
      BY <2>10, <3>2, <3>3, <3>5 DEF Tidied
  <2>13. Edits(w)
    BY <2>3, <2>8, <2>9, <2>11, <2>12 DEF Edits, u
  <2>. QED
    BY <1>2, <2>4, <2>13, EditStep
<1>. QED
  BY <1>3, <1>4

LEMMA UnmergeStep ==
  ASSUME SessionInv, UNCHANGED tidy, NEW id, Unmerge(id)
  PROVE  SessionInv'
<1> DEFINE u == session
<1>1. Sound(u) /\ IsProject(u.project)
  BY DEF SessionInv, Sound
<1>2. Stays /\ id \in u.merged_rows
  BY DEF Unmerge
<1>3. CASE ~isValidProvinceID(u, id)
  <2> DEFINE w == [u EXCEPT !.merged_rows = @ \ {id}]
  <2>1. session' = w
    BY <1>3 DEF Unmerge, Handles
  <2> HIDE DEF u
  <2>2. Changes(u, w, {"merged_rows"})
    BY <1>1 DEF Sound, IsSession, Fields, Changes
  <2> HIDE DEF w
  <2>3. /\ w.project = u.project /\ w.cache = u.cache /\ w.asked = u.asked
        /\ w.province = u.province /\ w.selected = u.selected /\ w.drawn = u.drawn
        /\ w.state = u.state /\ w.state_rows = u.state_rows /\ w.broken = u.broken
        /\ w.misread = u.misread
    BY <2>2 DEF Changes, Fields
  <2>4. Sound(w)
    BY <1>1, <2>2, <2>3 DEF Sound, Changes
  <2>5. ASSUME Tidied(u) PROVE Tidied(w)
    <3>1. ProvinceSide(u) /\ StateSide(u) /\ ~u.broken
      BY <2>5 DEF Tidied
    <3>2. w.province = Null
      BY <1>2, <1>3, <2>3, <3>1 DEF ProvinceSide, getMergedProvinces, isValidProvinceID
    <3>3. \A q : getMergedProvinces(w, q) = getMergedProvinces(u, q)
      BY <2>3, SameGroups
    <3>4. ProvinceSide(w)
      BY <2>3, <3>1, <3>2, <3>3 DEF ProvinceSide
    <3>5. StateSide(w)
      BY <2>3, <3>1, StateSideStays
    <3>. QED
      BY <2>3, <3>1, <3>4, <3>5 DEF Tidied
  <2>6. Edits(w)
    BY <2>3, <2>4, <2>5 DEF Edits, u
  <2>. QED
    BY <1>2, <2>1, <2>6, EditStep
<1>4. CASE isValidProvinceID(u, id)
  <2>0. PICK label, other :
          session' = [Unmerged(Deselected(u, id, label), other)
                        EXCEPT !.merged_rows = @ \ {id}, !.misread = @ \/ other # id]
    BY <1>4 DEF Unmerge, Handles, Deselected
  <2> DEFINE v == Deselected(u, id, label)
             root == v.project.root
             others == getMergedProvinces(v, other) \ {other}
             roots == [p \in DOMAIN root |-> IF p = other THEN other
                                             ELSE IF p \in others /\ root[p] = other THEN Min(others)
                                             ELSE root[p]]
             q == [v.project EXCEPT !.root = roots]
             w == [[v EXCEPT !.project = q]
                     EXCEPT !.merged_rows = @ \ {id}, !.misread = @ \/ other # id]
             group == getMergedProvinces(u, id)
  <2>1. session' = [Unmerged(v, other) EXCEPT !.merged_rows = @ \ {id}, !.misread = @ \/ other # id]
    BY <2>0
  <2> HIDE DEF u
  <2>2. /\ Selects(u, v)
        /\ v.drawn = u.drawn \ group
        /\ v.province # Null => v.province = u.province /\ v.province.id \notin group
    BY <1>1, DeselectedIs
  <2> HIDE DEF v
  <2>3. Sound(v) /\ IsSession(v) /\ IsProject(v.project) /\ v.project = u.project
    BY <2>2 DEF Selects, Sound
  <2>4. session' = w
    <3> DEFINE g(h) == [p \in DOMAIN h |-> IF p = other THEN other
                                           ELSE IF p \in others /\ h[p] = other THEN Min(others)
                                           ELSE h[p]]
    <3>1. Unmerged(v, other) = [v EXCEPT !.project.root = g(@)]
      BY DEF Unmerged
    <3>2. g(root) = roots
      OBVIOUS
    <3> HIDE DEF g, roots
    <3>3. [v EXCEPT !.project.root = g(@)] = [v EXCEPT !.project = q]
      BY <2>3, <3>2 DEF IsSession, Fields, IsProject, ProjectFields
    <3>. QED
      BY <2>1, <3>1, <3>3
  <2>5. group = getMergedProvinces(v, id) /\ id \in v.project.provinces
    BY <1>4, <2>3, SameGroups DEF isValidProvinceID
  <2>6. /\ others \subseteq v.project.provinces /\ others \subseteq Nat
        /\ others # {} => Min(others) \in others
        /\ root \in [v.project.provinces -> v.project.provinces]
    <3>1. others \subseteq v.project.provinces /\ others \subseteq Nat
      BY <2>3, GroupIs
    <3> HIDE DEF others
    <3>2. others # {} => Min(others) \in others
      BY <3>1, MinIs
    <3>. QED
      BY <2>3, <3>1, <3>2 DEF IsProject
  <2>7. /\ roots \in [v.project.provinces -> v.project.provinces]
        /\ other = id => \A p \in v.project.provinces \ group : roots[p] = root[p]
    <3>1. \A p \in v.project.provinces : roots[p] \in v.project.provinces
      <4> HIDE DEF others, root
      <4>. QED
        BY <2>6
    <3>2. id \in group /\ (other = id => others \subseteq group)
      BY <1>4, <2>5, <1>1, GroupIs
    <3> HIDE DEF others, root
    <3>3. other = id => \A p \in v.project.provinces \ group : roots[p] = root[p]
      BY <2>6, <3>2
    <3>. QED
      BY <2>6, <3>1, <3>3
  <2> HIDE DEF roots
  <2>8. q.root = roots /\ q = [x \in ProjectFields |-> q[x]]
        /\ q.provinces = v.project.provinces /\ q.states = v.project.states
        /\ q.state = v.project.state /\ q.open = v.project.open
    BY <2>3 DEF IsProject, ProjectFields
  <2> HIDE DEF q
  <2>9. IsProject(q)
    BY <2>3, <2>7, <2>8 DEF IsProject
  <2>10. /\ Changes(v, w, {"project", "merged_rows", "misread"}) /\ w.project = q
         /\ w.misread <=> v.misread \/ other # id
    BY <2>3 DEF IsSession, Fields, Changes
  <2> HIDE DEF w
  <2>11. /\ w.cache = v.cache /\ w.asked = v.asked
         /\ w.province = v.province /\ w.selected = v.selected /\ w.drawn = v.drawn
         /\ w.broken = v.broken /\ w.state = v.state /\ w.state_rows = v.state_rows
    BY <2>10 DEF Changes, Fields
  <2>12. Sound(w)
    BY <2>3, <2>9, <2>10, <2>11 DEF Sound, Changes
  <2>13. ASSUME Tidied(u) PROVE Tidied(w)
    <3>1. Tidied(v)
      BY <2>2, <2>13 DEF Selects
    <3>2. ProvinceSide(v) /\ StateSide(v) /\ ~v.broken /\ ProvinceSide(u)
      BY <2>13, <3>1 DEF Tidied
    <3>3. w.province = Null
      <4>1. u.province # Null => u.province.id \in group
        BY <1>2, <3>2 DEF ProvinceSide, Alive, getMergedProvinces, isValidProvinceID
      <4>. QED
        BY <2>2, <2>11, <4>1
    <3>4. ASSUME ~w.misread, NEW p \in w.drawn
          PROVE  \E x \in w.selected : p \in getMergedProvinces(w, x)
      <4>0. ~v.misread /\ other = id
        BY <2>10, <3>4
      <4>1. p \in v.drawn /\ p \notin group
        BY <2>2, <2>11, <3>4
      <4>2. PICK x \in v.selected : p \in getMergedProvinces(v, x)
        BY <3>2, <4>0, <4>1 DEF ProvinceSide
      <4>3. /\ p \in v.project.provinces /\ x \in v.project.provinces
            /\ v.project.root[p] = v.project.root[x]
        BY <4>2 DEF getMergedProvinces, isValidProvinceID
      <4>4. x \notin group
        BY <2>5, <4>1, <4>3 DEF getMergedProvinces, isValidProvinceID
      <4>5. roots[p] = roots[x]
        BY <2>7, <4>0, <4>1, <4>3, <4>4
      <4>6. p \in getMergedProvinces(w, x)
        BY <2>8, <2>10, <4>3, <4>5 DEF getMergedProvinces, isValidProvinceID
      <4>. QED
        BY <2>11, <4>2, <4>6
    <3>5. ProvinceSide(w)
      BY <2>8, <2>10, <2>11, <3>2, <3>3, <3>4 DEF ProvinceSide
    <3>6. StateSide(w)
      BY <2>8, <2>10, <2>11, <3>2, StateSideStays
    <3>. QED
      BY <2>11, <3>2, <3>5, <3>6 DEF Tidied
  <2>14. Edits(w)
    BY <2>3, <2>8, <2>10, <2>12, <2>13 DEF Edits, u
  <2>. QED
    BY <1>2, <2>4, <2>14, EditStep
<1>. QED
  BY <1>3, <1>4

LEMMA EditKeeps == SessionInv /\ Edit /\ UNCHANGED tidy => SessionInv'
<1> SUFFICES ASSUME SessionInv, Edit, UNCHANGED tidy PROVE SessionInv'
  OBVIOUS
<1>1. CASE Outside
  BY <1>1, OutsideStep
<1>2. CASE \E id \in SavedMap \union ImportedMap :
             Click(id) \/ ShiftClick(id) \/ ClickRow(id) \/ TakeOutOfState(id) \/ Unmerge(id)
  BY <1>2, ClickStep, ShiftClickStep, ClickRowStep, TakeOutOfStateStep, UnmergeStep
<1>3. CASE CreateState
  BY <1>3, CreateStateStep
<1>4. CASE DeleteState
  BY <1>4, DeleteStateStep
<1>5. CASE SelectAllProvinces
  BY <1>5, SelectAllProvincesStep
<1>6. CASE Merge
  BY <1>6, MergeStep
<1>7. CASE Refresh
  BY <1>7, RefreshStep
<1>. QED
  BY <1>1, <1>2, <1>3, <1>4, <1>5, <1>6, <1>7 DEF Edit

-----------------------------------------------------------------------------
(* The life of the project.                                                *)

LEMMA LoadedIs ==
  ASSUME NEW provinces, provinces \subseteq Nat, IsFiniteSet(provinces)
  PROVE  /\ IsProject(Loaded(provinces))
         /\ Loaded(provinces).open /\ Loaded(provinces).provinces = provinces
         /\ Loaded(provinces).states = {}
BY SessionAssumption DEF IsProject, Loaded, ProjectFields

LEMMA NoProjectIs ==
  /\ IsProject(NoProject)
  /\ ~NoProject.open /\ NoProject.provinces = {} /\ NoProject.states = {}
BY FS_EmptySet, SessionAssumption DEF NoProject, Loaded, IsProject, ProjectFields

\* A tidy session without provinces shows nothing.
LEMMA NothingToShow ==
  ASSUME NEW v, Sound(v), Tidied(v), v.project.provinces = {}
  PROVE  v.selected = {} /\ v.drawn = {} /\ v.province = Null /\ v.state = Null
BY DEF Tidied, ProvinceSide, StateSide, Alive

\* The project is replaced by one, none of whose provinces or states is shown.
LEMMA ReplacedIs ==
  ASSUME NEW v, Sound(v), NEW p, IsProject(p)
  PROVE  LET w == [v EXCEPT !.project = p, !.cache = <<>>, !.asked = <<>>]
         IN /\ Sound(w)
            /\ Changes(v, w, {"project", "cache", "asked"})
            /\ w.project = p
<1> DEFINE w == [v EXCEPT !.project = p, !.cache = <<>>, !.asked = <<>>]
<1>1. Changes(v, w, {"project", "cache", "asked"}) /\ w.project = p /\ w.cache = <<>> /\ w.asked = <<>>
  BY DEF Sound, IsSession, Fields, Changes
<1> HIDE DEF w
<1>2. w.province = v.province /\ w.drawn = v.drawn /\ w.selected = v.selected
  BY <1>1 DEF Changes, Fields
<1>3. CacheOK(w.cache, w.asked)
  BY <1>1, EmptyCacheOK
<1>4. Sound(w)
  BY <1>1, <1>2, <1>3 DEF Sound, Changes
<1>. QED
  BY <1>1, <1>4 DEF w

\* Whatever is loaded into a tidy session that shows nothing leaves it tidy.
LEMMA LoadingStep ==
  ASSUME SessionInv, NEW p, IsProject(p), p.open, p.provinces # {} => shown_map' = loads',
         session' = [session EXCEPT !.project = p, !.cache = <<>>, !.asked = <<>>],
         enabled' = TRUE,
         tidy' => /\ tidy /\ session.project.provinces = {}
                  /\ p.states \subseteq session.project.states
  PROVE  SessionInv'
<1> DEFINE v == session
           w == [v EXCEPT !.project = p, !.cache = <<>>, !.asked = <<>>]
<1>1. Sound(v) /\ (tidy => Tidied(v)) /\ session' = w
  BY DEF SessionInv
<1>1a. tidy' => tidy /\ v.project.provinces = {} /\ p.states \subseteq v.project.states
  OBVIOUS
<1> HIDE DEF v
<1>2. Sound(w) /\ Changes(v, w, {"project", "cache", "asked"}) /\ w.project = p
  BY <1>1, ReplacedIs
<1> HIDE DEF w
<1>3. /\ w.province = v.province /\ w.state = v.state /\ w.selected = v.selected
      /\ w.drawn = v.drawn /\ w.broken = v.broken
  BY <1>2 DEF Changes, Fields
<1>4. Sound(session)'
  BY <1>1, <1>2 DEF Sound
<1>5. WindowOK'
  BY <1>1, <1>2 DEF WindowOK
<1>6. ASSUME tidy' PROVE Tidied(session)'
  <2>1. Tidied(v) /\ v.project.provinces = {} /\ v.project.states = {}
    BY <1>1, <1>1a, <1>6 DEF Tidied, StateSide
  <2>2. v.selected = {} /\ v.drawn = {} /\ v.province = Null /\ v.state = Null
    BY <1>1, <2>1, NothingToShow
  <2>3. ~w.broken
    BY <1>3, <2>1 DEF Tidied
  <2>4. w.project.states = {}
    BY <1>1a, <1>2, <1>6, <2>1
  <2>. QED
    BY <1>1, <1>3, <2>2, <2>3, <2>4 DEF Tidied, ProvinceSide, StateSide
<1>. QED
  BY <1>4, <1>5, <1>6 DEF SessionInv

LEMMA OpenStep == SessionInv /\ openProject /\ Tidily(~session.project.open) => SessionInv'
<1> SUFFICES ASSUME SessionInv, openProject, Tidily(~session.project.open) PROVE SessionInv'
  OBVIOUS
<1>1. PICK provinces \in {SavedMap, {}} : Become(provinces) /\ shown_map' = loads'
  BY DEF openProject
<1> DEFINE p == Loaded(provinces)
<1>2. provinces \subseteq Nat /\ IsFiniteSet(provinces)
  BY SessionAssumption, FS_EmptySet
<1>3. IsProject(p) /\ p.open /\ p.states = {}
  BY <1>2, LoadedIs
<1>4. /\ session' = [session EXCEPT !.project = p, !.cache = <<>>, !.asked = <<>>]
      /\ enabled' = TRUE
  BY <1>1 DEF Become
<1> HIDE DEF p
<1>5. tidy' => tidy /\ session.project.provinces = {}
  BY DEF Tidily, SessionInv, Sound, IsProject
<1>. QED
  BY <1>1, <1>3, <1>4, <1>5, LoadingStep

LEMMA NewStep == SessionInv /\ newProject /\ Tidily(~session.project.open) => SessionInv'
<1> SUFFICES ASSUME SessionInv, newProject, Tidily(~session.project.open) PROVE SessionInv'
  OBVIOUS
<1> DEFINE none == {}
           p == Loaded(none)
<1>1. none \subseteq Nat /\ IsFiniteSet(none) /\ none = {}
  BY FS_EmptySet
<1>2. /\ session' = [session EXCEPT !.project = p, !.cache = <<>>, !.asked = <<>>]
      /\ enabled' = TRUE
  BY DEF newProject, Become
<1> HIDE DEF none
<1>3. IsProject(p) /\ p.open /\ p.states = {} /\ p.provinces = {}
  BY <1>1, LoadedIs
<1> HIDE DEF p
<1>4. tidy' => tidy /\ session.project.provinces = {}
  BY DEF Tidily, SessionInv, Sound, IsProject
<1>. QED
  BY <1>2, <1>3, <1>4, LoadingStep

LEMMA ImportStep ==
  SessionInv /\ importMap /\ Tidily(session.project.provinces = {}) => SessionInv'
<1> SUFFICES ASSUME SessionInv, importMap, Tidily(session.project.provinces = {})
             PROVE  SessionInv'
  OBVIOUS
<1> DEFINE states == session.project.states
           q == Loaded(ImportedMap)
           p == [q EXCEPT !.states = states]
<1>1. IsProject(q) /\ q.open /\ states \subseteq 1..MaxStateID
  BY LoadedIs, SessionAssumption DEF SessionInv, Sound, IsProject
<1>2. /\ session' = [session EXCEPT !.project = p, !.cache = <<>>, !.asked = <<>>]
      /\ enabled' = TRUE /\ shown_map' = loads'
  BY DEF importMap, SessionInv, WindowOK
<1>3. tidy' => tidy /\ session.project.provinces = {}
  BY DEF Tidily
<1> HIDE DEF q
<1>4. IsProject(p) /\ p.open /\ p.states = states
  <2> HIDE DEF states
  <2>1. q = [x \in ProjectFields |-> q[x]]
    BY <1>1 DEF IsProject
  <2>2. /\ p = [x \in ProjectFields |-> p[x]] /\ p.states = states
        /\ p.provinces = q.provinces /\ p.root = q.root /\ p.state = q.state /\ p.open = q.open
    BY <2>1 DEF ProjectFields
  <2> HIDE DEF p
  <2>. QED
    BY <1>1, <2>2 DEF IsProject
<1> HIDE DEF p
<1>. QED
  BY <1>2, <1>3, <1>4, LoadingStep

LEMMA CloseStep == SessionInv /\ closeProject /\ Tidily(NothingSelected) => SessionInv'
<1> SUFFICES ASSUME SessionInv, closeProject, Tidily(NothingSelected) PROVE SessionInv'
  OBVIOUS
<1> DEFINE v == session
           pointer == Null
           multi == FALSE
           p == NoProject
           t == [v EXCEPT !.project = p]
           u == setProvince(t, pointer, multi)
           w == [u EXCEPT !.drawn = {}, !.cache = <<>>, !.asked = <<>>]
<1>1. session' = w /\ enabled' = FALSE
  BY DEF closeProject, Handles
<1>2. Sound(v) /\ IsSession(v) /\ (tidy => Tidied(v))
  BY DEF SessionInv, Sound
<1>3. tidy' => tidy /\ v.selected = {} /\ v.state = Null
  BY DEF Tidily, NothingSelected
<1>4. IsProject(p) /\ ~p.open /\ p.provinces = {} /\ p.states = {}
  BY NoProjectIs
<1> HIDE DEF v, pointer, multi, p
<1>5. Changes(v, t, {"project"}) /\ t.project = p
  BY <1>2 DEF IsSession, Fields, Changes
<1> HIDE DEF t
<1>6. IsSession(t)
  BY <1>5 DEF Changes
<1>7. /\ Changes(t, u, {"province", "merge_enabled", "merged_rows", "broken"})
      /\ u.province = pointer
      /\ u.broken <=> t.broken \/ (pointer # Null /\ ~Alive(pointer, t.project.provinces))
  BY <1>6, SetProvinceIs
<1> HIDE DEF u
<1>8. /\ Changes(u, w, {"drawn", "cache", "asked"})
      /\ w.drawn = {} /\ w.cache = <<>> /\ w.asked = <<>>
  BY <1>7 DEF Changes, IsSession, Fields
<1> HIDE DEF w
<1>9. /\ w.project = p /\ w.province = Null /\ w.selected = v.selected /\ w.state = v.state
      /\ w.broken <=> v.broken
  BY <1>5, <1>7, <1>8 DEF Changes, Fields, pointer
<1>10. CacheOK(w.cache, w.asked)
  BY <1>8, EmptyCacheOK
<1>11. Sound(w)
  BY <1>2, <1>4, <1>8, <1>9, <1>10 DEF Sound, Changes
<1>12. Sound(session)'
  BY <1>1, <1>11 DEF Sound
<1>13. WindowOK'
  BY <1>1, <1>4, <1>9 DEF WindowOK
<1>14. ASSUME tidy' PROVE Tidied(session)'
  <2>1. w.selected = {} /\ w.state = Null /\ ~w.broken
    BY <1>2, <1>3, <1>9, <1>14 DEF Tidied
  <2>. QED
    BY <1>1, <1>4, <1>8, <1>9, <2>1 DEF Tidied, ProvinceSide, StateSide
<1>. QED
  BY <1>12, <1>13, <1>14 DEF SessionInv

LEMMA EscapeStep == SessionInv /\ EscapeWithoutProject /\ Tidily(FALSE) => SessionInv'
<1> SUFFICES ASSUME SessionInv, EscapeWithoutProject, Tidily(FALSE) PROVE SessionInv'
  OBVIOUS
<1> DEFINE v == session
           w == [v EXCEPT !.broken = TRUE]
<1>1. session' = w /\ Stays /\ ~tidy'
  BY DEF EscapeWithoutProject, Tidily
<1>2. Sound(v)
  BY DEF SessionInv
<1> HIDE DEF v
<1>3. Changes(v, w, {"broken"})
  BY <1>2 DEF Sound, IsSession, Fields, Changes
<1> HIDE DEF w
<1>4. /\ w.project = v.project /\ w.cache = v.cache /\ w.asked = v.asked
      /\ w.province = v.province /\ w.drawn = v.drawn /\ w.selected = v.selected
  BY <1>3 DEF Changes, Fields
<1>5. Sound(w)
  BY <1>2, <1>3, <1>4 DEF Sound, Changes
<1>6. Sound(session)'
  BY <1>1, <1>5 DEF Sound
<1>7. WindowOK'
  BY <1>1, <1>4 DEF WindowOK, SessionInv, Stays, v
<1>. QED
  BY <1>1, <1>6, <1>7 DEF SessionInv

LEMMA SessionInit == Init => SessionInv
<1> SUFFICES ASSUME Init PROVE SessionInv
  OBVIOUS
<1> DEFINE v == session
<1>1. /\ IsSession(v) /\ v.project = NoProject /\ v.selected = {} /\ v.drawn = {}
      /\ v.province = Null /\ v.state = Null /\ v.cache = <<>> /\ v.asked = <<>> /\ ~v.broken
      /\ enabled = FALSE
  BY DEF Init, AtStart, IsSession, Fields
<1> HIDE DEF v
<1>2. Sound(v)
  BY <1>1, NoProjectIs, EmptyCacheOK, FS_EmptySet DEF Sound
<1>3. Tidied(v)
  BY <1>1, NoProjectIs DEF Tidied, ProvinceSide, StateSide
<1>. QED
  BY <1>1, <1>2, <1>3, NoProjectIs DEF SessionInv, WindowOK, v

LEMMA SessionNext == SessionInv /\ [Next]_vars => SessionInv'
<1> SUFFICES ASSUME SessionInv, [Next]_vars PROVE SessionInv'
  OBVIOUS
<1>1. CASE UNCHANGED vars
  BY <1>1 DEF vars, SessionInv, Sound, WindowOK, Tidied, ProvinceSide, StateSide, Alive
<1>2. CASE Next
  BY <1>2, OpenStep, NewStep, CloseStep, ImportStep, EscapeStep, EditKeeps DEF Next
<1>. QED
  BY <1>1, <1>2

LEMMA SessionAlways == Spec => []SessionInv
BY SessionInit, SessionNext, PTL DEF Spec

-----------------------------------------------------------------------------
(* The theorems.                                                           *)

\* The menu offers what an open project allows, the drawing area shows its map, and the
\* panes of a tidy session point to what exists, for any maps and any number of loads: no
\* handler uses what an earlier one freed, whatever the buttons of a state and of a merged
\* row read of what they have freed themselves.
THEOREM WindowAlwaysFollows == Spec => []WindowFollowsProject
<1>1. SessionInv => WindowFollowsProject
  BY DEF SessionInv, WindowOK, WindowFollowsProject, Tidied, ProvinceSide, StateSide
<1>. QED
  BY <1>1, SessionAlways, PTL

\* The province that is edited is highlighted, and what is highlighted in a tidy session
\* is selected, or merged with what is, until unmerging misreads the row it freed.
THEOREM SelectionAlwaysShown == Spec => []SelectionShown
<1>1. SessionInv => SelectionShown
  BY DEF SessionInv, SelectionShown, Sound, Tidied, ProvinceSide
<1>. QED
  BY <1>1, SessionAlways, PTL

\* The lists of the panes are those of the groups and states as they are.
THEOREM ListsAlwaysCurrent == Spec => []ListsAreCurrent
<1>1. SessionInv => ListsAreCurrent
  BY DEF SessionInv, ListsAreCurrent, Tidied, ProvinceSide, StateSide
<1>. QED
  BY <1>1, SessionAlways, PTL

\* The cache holds the previews that were asked for last, whatever its size and however
\* many there are.
THEOREM CacheAlwaysHoldsLatest == Spec => []CacheHoldsLatest
<1>1. SessionInv => CacheHoldsLatest
  <2> SUFFICES ASSUME SessionInv PROVE CacheHoldsLatest
    OBVIOUS
  <2> DEFINE cache == session.cache
             asked == session.asked
             n == Len(asked)
  <2>1. CacheOK(cache, asked)
    BY DEF SessionInv, Sound
  <2> HIDE DEF cache, asked
  <2>2. PICK X : cache \in Seq(X)
    BY <2>1 DEF CacheOK, IsSequence
  <2>3. PICK Y : asked \in Seq(Y)
    BY <2>1 DEF CacheOK, IsSequence
  <2>4. /\ Len(cache) \in Nat /\ cache = [i \in 1..Len(cache) |-> cache[i]]
        /\ n \in Nat /\ asked = [i \in 1..n |-> asked[i]]
    BY <2>2, <2>3
  <2>5. /\ Len(cache) = n - Gone(asked)
        /\ \A i \in 1..Len(cache) : cache[i] = asked[i + Gone(asked)]
    BY <2>1 DEF CacheOK, LatestOf
  <2>6. CASE n <= MaxCached
    <3>1. Gone(asked) = 0
      BY <2>6 DEF Gone
    <3>2. \A i \in 1..n : i + 0 = i
      BY <2>4
    <3>3. cache = asked
      BY <2>4, <2>5, <3>1, <3>2
    <3>. QED
      BY <2>6, <3>3 DEF CacheHoldsLatest, cache, asked
  <2>7. CASE ~(n <= MaxCached)
    <3> DEFINE m == n - MaxCached + 1
               s == SubSeq(asked, m, n)
    <3>1. Gone(asked) = n - MaxCached /\ Len(cache) = MaxCached /\ MaxCached \in Nat
      BY <2>4, <2>5, <2>7, MaxCachedAssumption DEF Gone
    <3>2. s = [i \in 1..(1 + n - m) |-> asked[i + m - 1]]
      BY <2>3, <2>4, <2>7, <3>1
    <3>3. 1 + n - m = MaxCached /\ \A i \in 1..MaxCached : i + m - 1 = i + (n - MaxCached)
      BY <2>4, <3>1
    <3>4. s = [i \in 1..MaxCached |-> asked[i + (n - MaxCached)]]
      BY <3>2, <3>3
    <3> HIDE DEF s
    <3>5. cache = s
      BY <2>4, <2>5, <3>1, <3>4
    <3>. QED
      BY <2>7, <3>5 DEF CacheHoldsLatest, cache, asked, s
  <2>. QED
    BY <2>6, <2>7
<1>. QED
  BY <1>1, SessionAlways, PTL
=============================================================================
