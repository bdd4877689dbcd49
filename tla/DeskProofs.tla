----------------------------- MODULE DeskProofs -----------------------------
(***************************************************************************)
(* Proofs about module Desk: what the files of the history and of the      *)
(* bookmarks hold.  What a filter does to a file of any length is shown    *)
(* with the least number principle instead of an induction.                *)
(***************************************************************************)
EXTENDS DeskProps, FiniteSetTheorems, SequenceTheorems, WellFoundedInduction, TLAPS

-----------------------------------------------------------------------------
(* Numbers.                                                                *)

(* A set of natural numbers has a least one.                               *)
LEMMA Least ==
  ASSUME NEW T, T \subseteq Nat, T # {}
  PROVE  \E n \in T : \A m \in T : n <= m
  <1>1. PICK n \in T : \A m \in T : ~ (<<m, n>> \in OpToRel(<, Nat))
    BY NatLessThanWellFounded, WFMin, Zenon
  <1>2. \A m \in T : ~ (m < n)
    BY <1>1 DEF OpToRel
  <1> QED BY <1>2

(* A set of numbers up to some number has a greatest one.                  *)
LEMMA Greatest ==
  ASSUME NEW n \in Nat, NEW T, T \subseteq 1 .. n, T # {}
  PROVE  \E x \in T : \A y \in T : y <= x
  <1> DEFINE D == {n - t : t \in T}
  <1>1. D \subseteq Nat /\ D # {}
    <2>1. \A t \in T : t \in 1 .. n
      OBVIOUS
    <2>2. \A t \in 1 .. n : n - t \in Nat
      OBVIOUS
    <2>3. \A t \in T : n - t \in Nat
      BY <2>1, <2>2
    <2> QED BY <2>3
  <1>2. PICK d \in D : \A e \in D : d <= e
    BY <1>1, Least
  <1>3. PICK x \in T : d = n - x
    BY <1>2
  <1>4. ASSUME NEW y \in T PROVE y <= x
    <2>1. n - y \in D
      OBVIOUS
    <2>2. n - x <= n - y
      BY <1>2, <1>3, <2>1
    <2> QED BY <2>2
  <1> QED BY <1>4

-----------------------------------------------------------------------------
(* The places of a subset of 1 .. n, in their order.                       *)

UpTo(K, i) == {j \in K : j <= i}

LEMMA UpToSets ==
  ASSUME NEW n \in Nat, NEW K, K \subseteq 1 .. n
  PROVE  /\ IsFiniteSet(K) /\ Cardinality(K) \in Nat
         /\ \A i \in Nat : IsFiniteSet(UpTo(K, i)) /\ Cardinality(UpTo(K, i)) \in 0 .. Cardinality(K)
         /\ Cardinality(UpTo(K, 0)) = 0
         /\ Cardinality(UpTo(K, n)) = Cardinality(K)
         /\ \A i \in Nat \ {0} : Cardinality(UpTo(K, i)) =
              IF i \in K THEN Cardinality(UpTo(K, i - 1)) + 1 ELSE Cardinality(UpTo(K, i - 1))
  <1>0. \A j \in K : j \in Nat /\ 0 < j /\ j <= n
    <2>1. \A j \in 1 .. n : j \in Nat /\ 0 < j /\ j <= n
      OBVIOUS
    <2> QED BY <2>1
  <1>1. IsFiniteSet(K)
    <2>1. IsFiniteSet(1 .. n)
      BY FS_Interval
    <2> QED BY <2>1, FS_Subset
  <1>2. Cardinality(K) \in Nat
    BY <1>1, FS_CardinalityType
  <1>3. ASSUME NEW i \in Nat
        PROVE  IsFiniteSet(UpTo(K, i)) /\ Cardinality(UpTo(K, i)) \in 0 .. Cardinality(K)
    <2>1. UpTo(K, i) \in SUBSET K
      BY DEF UpTo
    <2>2. IsFiniteSet(UpTo(K, i)) /\ Cardinality(UpTo(K, i)) <= Cardinality(K)
      BY <1>1, <2>1, FS_Subset
    <2>3. Cardinality(UpTo(K, i)) \in Nat
      BY <2>2, FS_CardinalityType
    <2> QED BY <1>2, <2>2, <2>3
  <1>4. Cardinality(UpTo(K, 0)) = 0
    <2>1. \A j \in K : ~(j <= 0)
      BY <1>0
    <2>2. UpTo(K, 0) = {}
      BY <2>1 DEF UpTo
    <2> QED BY <2>2, FS_EmptySet
  <1>5. UpTo(K, n) = K
    BY <1>0 DEF UpTo
  <1>6. ASSUME NEW i \in Nat \ {0}
        PROVE  Cardinality(UpTo(K, i)) =
                 IF i \in K THEN Cardinality(UpTo(K, i - 1)) + 1 ELSE Cardinality(UpTo(K, i - 1))
    <2>0. \A j \in K : j <= i <=> j <= i - 1 \/ j = i
      BY <1>0
    <2>1. CASE i \notin K
      <3>1. UpTo(K, i) = UpTo(K, i - 1)
        BY <2>0, <2>1 DEF UpTo
      <3> QED BY <2>1, <3>1
    <2>2. CASE i \in K
      <3>1. UpTo(K, i) = UpTo(K, i - 1) \cup {i}
        BY <2>0, <2>2 DEF UpTo
      <3>2. i \notin UpTo(K, i - 1)
        BY DEF UpTo
      <3>3. IsFiniteSet(UpTo(K, i - 1))
        BY <1>3
      <3> QED BY <2>2, <3>1, <3>2, <3>3, FS_AddElement
    <2> QED BY <2>1, <2>2
  <1> QED BY <1>1, <1>2, <1>3, <1>4, <1>5, <1>6

LEMMA PlaceIsOne ==
  ASSUME NEW n \in Nat, NEW K, K \subseteq 1 .. n, NEW k \in 1 .. Cardinality(K)
  PROVE  Place(K, k) \in K /\ Cardinality(UpTo(K, Place(K, k))) = k
  <1> DEFINE C(i) == Cardinality(UpTo(K, i))
             T == {i \in 1 .. n : k <= C(i)}
  <1>1. /\ C(0) = 0 /\ C(n) = Cardinality(K) /\ Cardinality(K) \in Nat
        /\ \A i \in Nat : C(i) \in Nat
        /\ \A i \in Nat \ {0} : C(i) = IF i \in K THEN C(i - 1) + 1 ELSE C(i - 1)
    <2>1. C(0) = 0 /\ C(n) = Cardinality(K) /\ Cardinality(K) \in Nat
      BY UpToSets
    <2>2. \A i \in Nat : C(i) \in 0 .. Cardinality(K)
      BY UpToSets
    <2>3. \A i \in Nat \ {0} : C(i) = IF i \in K THEN C(i - 1) + 1 ELSE C(i - 1)
      BY UpToSets
    <2> HIDE DEF C
    <2>4. \A i \in Nat : C(i) \in Nat
      BY <2>1, <2>2
    <2> QED BY <2>1, <2>3, <2>4
  <1>0. \A i \in K : i \in Nat
    OBVIOUS
  <1> HIDE DEF C
  <1>2. T \subseteq Nat /\ n \in T
    BY <1>1
  <1>3. PICK i \in T : \A j \in T : i <= j
    BY <1>2, Least
  <1>4. i \in 1 .. n /\ k <= C(i) /\ i - 1 \in Nat
    BY <1>3
  <1>5. C(i - 1) < k
    <2>1. CASE i = 1
      BY <1>1, <2>1
    <2>2. CASE i # 1
      <3>1. i - 1 \in 1 .. n /\ i - 1 \notin T
        BY <1>3, <1>4, <2>2
      <3> QED BY <1>1, <1>4, <3>1
    <2> QED BY <2>1, <2>2
  <1>6. i \in K /\ C(i) = k
    BY <1>1, <1>4, <1>5
  <1>7. \E p \in K : C(p) = k
    BY <1>6
  <1> QED BY <1>7 DEF C, Place, UpTo

LEMMA UpToGrows ==
  ASSUME NEW K, \A i \in K : i \in Nat, NEW p \in K, NEW q \in K, p <= q
  PROVE  UpTo(K, p) \in SUBSET UpTo(K, q)
  <1>1. ASSUME NEW j \in K, j <= p PROVE j <= q
    <2>1. j \in Nat /\ p \in Nat /\ q \in Nat
      OBVIOUS
    <2> QED BY <1>1, <2>1
  <1> QED BY <1>1 DEF UpTo

LEMMA PlacesInOrder ==
  ASSUME NEW n \in Nat, NEW K, K \subseteq 1 .. n,
         NEW a \in 1 .. Cardinality(K), NEW b \in 1 .. Cardinality(K), a < b
  PROVE  Place(K, a) < Place(K, b)
  <1>1. /\ Place(K, a) \in K /\ Cardinality(UpTo(K, Place(K, a))) = a
        /\ Place(K, b) \in K /\ Cardinality(UpTo(K, Place(K, b))) = b
    BY PlaceIsOne
  <1>0. \A i \in K : i \in Nat
    OBVIOUS
  <1>2. SUFFICES ASSUME Place(K, b) <= Place(K, a) PROVE FALSE
    <2> DEFINE x == Place(K, a)
               y == Place(K, b)
    <2>1. x \in Nat /\ y \in Nat
      BY <1>1, <1>0
    <2> HIDE DEF x, y
    <2>2. x < y \/ y <= x
      BY <2>1
    <2> QED BY <2>2 DEF x, y
  <1>3. UpTo(K, Place(K, b)) \in SUBSET UpTo(K, Place(K, a))
    BY <1>1, <1>2, <1>0, UpToGrows
  <1>4. IsFiniteSet(UpTo(K, Place(K, a)))
    <2>1. Place(K, a) \in Nat
      BY <1>1, <1>0
    <2> QED BY <2>1, UpToSets
  <1>5. b <= a
    BY <1>1, <1>3, <1>4, FS_Subset
  <1>6. Cardinality(K) \in Nat
    BY UpToSets
  <1> QED BY <1>5, <1>6

LEMMA PlacesAreAll ==
  ASSUME NEW n \in Nat, NEW K, K \subseteq 1 .. n, NEW i \in K
  PROVE  \E k \in 1 .. Cardinality(K) : Place(K, k) = i
  <1> DEFINE k == Cardinality(UpTo(K, i))
  <1>0. \A j \in K : j \in Nat
    OBVIOUS
  <1>1. k \in 1 .. Cardinality(K)
    <2>1. IsFiniteSet(UpTo(K, i)) /\ k \in 0 .. Cardinality(K) /\ Cardinality(K) \in Nat
      BY <1>0, UpToSets
    <2>2. i \in UpTo(K, i)
      BY DEF UpTo
    <2>3. k # 0
      BY <2>1, <2>2, FS_EmptySet
    <2> HIDE DEF k
    <2> QED BY <2>1, <2>3
  <1>2. Place(K, k) \in K /\ Cardinality(UpTo(K, Place(K, k))) = k
    BY <1>1, PlaceIsOne
  <1>3. ASSUME NEW p \in K, NEW q \in K, p < q
        PROVE  Cardinality(UpTo(K, p)) # Cardinality(UpTo(K, q))
    <2>1. UpTo(K, p) \in SUBSET UpTo(K, q)
      <3>1. p <= q
        BY <1>3, <1>0
      <3> QED BY <3>1, <1>0, UpToGrows
    <2>2. q \in UpTo(K, q) /\ q \notin UpTo(K, p)
      BY <1>3 DEF UpTo
    <2>3. IsFiniteSet(UpTo(K, q))
      <3>1. q \in Nat
        BY <1>0
      <3> QED BY <3>1, UpToSets
    <2> QED BY <2>1, <2>2, <2>3, FS_Subset
  <1>4. Place(K, k) = i
    <2>1. Place(K, k) < i \/ Place(K, k) = i \/ i < Place(K, k)
      <3> DEFINE x == Place(K, k)
      <3>1. x \in Nat /\ i \in Nat
        BY <1>2, <1>0
      <3> HIDE DEF x, k
      <3>2. x < i \/ x = i \/ i < x
        BY <3>1
      <3> QED BY <3>2 DEF x
    <2> QED BY <1>2, <1>3, <2>1
  <1> QED BY <1>1, <1>4

(* The lines that are kept, in the order in which they were.               *)
Keeps(lines, K, r) ==
  /\ \A a \in 1 .. Len(r) : \E i \in K : r[a] = lines[i]
  /\ \A i \in K : \E a \in 1 .. Len(r) : r[a] = lines[i]
  /\ \A a, b \in 1 .. Len(r) : a < b =>
       \E i, j \in K : i < j /\ r[a] = lines[i] /\ r[b] = lines[j]

LEMMA KeptLines ==
  ASSUME NEW S, NEW lines \in Seq(S), NEW K, K \subseteq DOMAIN lines
  PROVE  Kept(lines, K) \in Seq(S) /\ Keeps(lines, K, Kept(lines, K))
  <1> DEFINE n == Len(lines)
             c == Cardinality(K)
             r == Kept(lines, K)
  <1>1. n \in Nat /\ K \subseteq 1 .. n /\ \A i \in 1 .. n : lines[i] \in S
    BY LenProperties, ElementOfSeq
  <1>2. c \in Nat
    BY <1>1, UpToSets
  <1>3. \A k \in 1 .. c : Place(K, k) \in K
    BY <1>1, PlaceIsOne
  <1>4. r = [k \in 1 .. c |-> lines[Place(K, k)]]
    BY DEF Kept
  <1>5. \A k \in 1 .. c : lines[Place(K, k)] \in S
    BY <1>1, <1>3
  <1>6. \A i \in K : \E k \in 1 .. c : Place(K, k) = i
    BY <1>1, PlacesAreAll
  <1>7. \A a, b \in 1 .. c : a < b => Place(K, a) < Place(K, b)
    BY <1>1, PlacesInOrder
  <1> HIDE DEF n, c, r
  <1>8. r \in Seq(S) /\ Len(r) = c
    BY <1>2, <1>4, <1>5
  <1>9. \A k \in 1 .. c : r[k] = lines[Place(K, k)]
    BY <1>4
  <1> QED BY <1>3, <1>6, <1>7, <1>8, <1>9 DEF r, Keeps

-----------------------------------------------------------------------------
(* The history.                                                            *)

LatestIn(list, url) == CHOOSE i \in 1 .. Len(list) :
                         list[i] = url /\ \A j \in i + 1 .. Len(list) : list[j] # url
Ordered(list, lines) ==
  \A i, j \in 1 .. Len(lines) : i < j => LatestIn(list, lines[i]) < LatestIn(list, lines[j])

LEMMA LastOne ==
  ASSUME NEW S, NEW list \in Seq(S), NEW url \in ToSet(list)
  PROVE  LET i == LatestIn(list, url)
         IN  i \in 1 .. Len(list) /\ list[i] = url /\ \A j \in i + 1 .. Len(list) : list[j] # url
  <1> DEFINE n == Len(list)
             T == {i \in 1 .. n : list[i] = url}
  <1>1. n \in Nat
    BY LenProperties
  <1>2. T \subseteq 1 .. n /\ T # {}
    BY LenProperties DEF ToSet
  <1>3. PICK i \in T : \A j \in T : j <= i
    BY <1>1, <1>2, Greatest
  <1>4. ASSUME NEW j \in i + 1 .. n PROVE list[j] # url
    <2>1. i \in 1 .. n
      BY <1>3
    <2> HIDE DEF n
    <2>2. j \in 1 .. n /\ ~(j <= i)
      BY <1>1, <2>1
    <2> QED BY <1>3, <2>2
  <1>5. \E x \in 1 .. n : list[x] = url /\ \A j \in x + 1 .. n : list[j] # url
    BY <1>3, <1>4
  <1> QED BY <1>5 DEF LatestIn

LEMMA OnlyOneIsLast ==
  ASSUME NEW S, NEW list \in Seq(S), NEW i \in 1 .. Len(list),
         \A j \in i + 1 .. Len(list) : list[j] # list[i]
  PROVE  LatestIn(list, list[i]) = i
  <1> DEFINE n == Len(list)
             url == list[i]
             x == LatestIn(list, url)
  <1>1. n \in Nat
    BY LenProperties
  <1>2. url \in ToSet(list)
    BY LenProperties DEF ToSet
  <1>3. x \in 1 .. n /\ list[x] = url /\ \A j \in x + 1 .. n : list[j] # url
    BY <1>2, LastOne
  <1>4. i \in 1 .. n /\ \A j \in i + 1 .. n : list[j] # url
    OBVIOUS
  <1>5. list[i] = url
    OBVIOUS
  <1> HIDE DEF n, url, x
  <1>6. i \notin x + 1 .. n /\ x \notin i + 1 .. n
    BY <1>3, <1>4, <1>5
  <1>7. x = i
    BY <1>1, <1>3, <1>4, <1>6
  <1> QED BY <1>7 DEF x, url

(* Tuning to a station makes it the latest and leaves the others in order. *)
LEMMA LatestOfMore ==
  ASSUME NEW S, NEW list \in Seq(S), NEW url \in S
  PROVE  /\ LatestIn(Append(list, url), url) = Len(list) + 1
         /\ \A other \in ToSet(list) \ {url} :
              LatestIn(Append(list, url), other) = LatestIn(list, other)
  <1> DEFINE n == Len(list)
             more == Append(list, url)
  <1>1. n \in Nat /\ more \in Seq(S) /\ Len(more) = n + 1 /\ more[n + 1] = url
        /\ \A i \in 1 .. n : more[i] = list[i]
    BY LenProperties, AppendProperties
  <1>2. LatestIn(more, url) = n + 1
    <2> HIDE DEF n, more
    <2>1. n + 1 \in 1 .. Len(more)
      BY <1>1
    <2>2. \A j \in (n + 1) + 1 .. Len(more) : more[j] # more[n + 1]
      BY <1>1
    <2>3. LatestIn(more, more[n + 1]) = n + 1
      BY <1>1, <2>1, <2>2, OnlyOneIsLast
    <2> QED BY <1>1, <2>3
  <1>3. ASSUME NEW other \in ToSet(list) \ {url}
        PROVE  LatestIn(more, other) = LatestIn(list, other)
    <2> DEFINE i == LatestIn(list, other)
    <2>1. i \in 1 .. n /\ list[i] = other /\ \A j \in i + 1 .. n : list[j] # other
      BY LastOne
    <2>2. other # url
      OBVIOUS
    <2> HIDE DEF n, more, i
    <2>3. more[i] = other /\ i \in 1 .. Len(more)
      BY <1>1, <2>1
    <2>4. ASSUME NEW j \in i + 1 .. Len(more) PROVE more[j] # more[i]
      <3>1. CASE j = n + 1
        BY <1>1, <2>2, <2>3, <3>1
      <3>2. CASE j # n + 1
        <4>1. j \in i + 1 .. n /\ j \in 1 .. n
          BY <1>1, <2>1, <3>2
        <4> QED BY <1>1, <2>1, <2>3, <4>1
      <3> QED BY <3>1, <3>2
    <2>5. LatestIn(more, more[i]) = i
      BY <1>1, <2>3, <2>4, OnlyOneIsLast
    <2> QED BY <2>3, <2>5 DEF i
  <1> QED BY <1>2, <1>3

(* What histapp() makes of the lines of the file.                          *)
Appended(lines, url) == Append(Kept(lines, {i \in DOMAIN lines : lines[i] # url}), url)

Appends(lines, url, new) ==
  /\ Len(new) \in Nat \ {0} /\ new[Len(new)] = url
  /\ \A a \in 1 .. Len(new) - 1 : \E i \in 1 .. Len(lines) : new[a] = lines[i] /\ lines[i] # url
  /\ \A i \in 1 .. Len(lines) : lines[i] # url => \E a \in 1 .. Len(new) : new[a] = lines[i]
  /\ \A a, b \in 1 .. Len(new) - 1 : a < b =>
       \E i, j \in 1 .. Len(lines) : i < j /\ new[a] = lines[i] /\ new[b] = lines[j]

LEMMA AppendedLines ==
  ASSUME NEW S, NEW lines \in Seq(S), NEW url \in S
  PROVE  Appended(lines, url) \in Seq(S) /\ Appends(lines, url, Appended(lines, url))
  <1> DEFINE K == {i \in DOMAIN lines : lines[i] # url}
             r == Kept(lines, K)
             new == Appended(lines, url)
             n == Len(lines)
             m == Len(new)
  <1>1. K = {i \in 1 .. n : lines[i] # url} /\ K \subseteq DOMAIN lines
    BY LenProperties
  <1>2. /\ r \in Seq(S)
        /\ \A a \in 1 .. Len(r) : \E i \in K : r[a] = lines[i]
        /\ \A i \in K : \E a \in 1 .. Len(r) : r[a] = lines[i]
        /\ \A a, b \in 1 .. Len(r) : a < b => \E i, j \in K : i < j /\ r[a] = lines[i] /\ r[b] = lines[j]
    <2>1. r \in Seq(S) /\ Keeps(lines, K, r)
      BY <1>1, KeptLines
    <2> HIDE DEF r, K
    <2> QED BY <2>1 DEF Keeps
  <1>3. new = Append(r, url)
    BY DEF Appended
  <1> HIDE DEF K, r, new, n
  <1>4. /\ new \in Seq(S) /\ m = Len(r) + 1 /\ Len(r) \in Nat /\ new[Len(r) + 1] = url
        /\ \A a \in 1 .. Len(r) : new[a] = r[a]
    BY <1>2, <1>3, LenProperties, AppendProperties
  <1> HIDE DEF m
  <1>5. m \in Nat \ {0} /\ m - 1 = Len(r) /\ new[m] = url
    BY <1>4
  <1>6. \A a \in 1 .. m - 1 : \E i \in 1 .. n : new[a] = lines[i] /\ lines[i] # url
    BY <1>1, <1>2, <1>4, <1>5
  <1>7. ASSUME NEW i \in 1 .. n, lines[i] # url PROVE \E a \in 1 .. m : new[a] = lines[i]
    <2>1. PICK a \in 1 .. Len(r) : r[a] = lines[i]
      BY <1>1, <1>2, <1>7
    <2>2. a \in 1 .. m
      BY <1>4, <2>1
    <2> QED BY <1>4, <2>1, <2>2
  <1>8. \A a, b \in 1 .. m - 1 : a < b =>
          \E i, j \in 1 .. n : i < j /\ new[a] = lines[i] /\ new[b] = lines[j]
    <2> SUFFICES ASSUME NEW a \in 1 .. m - 1, NEW b \in 1 .. m - 1, a < b
                 PROVE  \E i, j \in 1 .. n : i < j /\ new[a] = lines[i] /\ new[b] = lines[j]
      OBVIOUS
    <2>1. a \in 1 .. Len(r) /\ b \in 1 .. Len(r)
      BY <1>5
    <2>2. PICK i \in K, j \in K : i < j /\ r[a] = lines[i] /\ r[b] = lines[j]
      BY <1>2, <2>1
    <2>3. new[a] = r[a] /\ new[b] = r[b]
      BY <1>4, <2>1
    <2>4. i \in 1 .. n /\ j \in 1 .. n
      BY <1>1
    <2> QED BY <2>2, <2>3, <2>4
  <1> QED BY <1>4, <1>5, <1>6, <1>7, <1>8 DEF Appends, new, n, m

LEMMA TunedInOrder ==
  ASSUME NEW S, NEW list \in Seq(S), NEW lines \in Seq(S), NEW url \in S,
         Ordered(list, lines), ToSet(lines) \subseteq ToSet(list)
  PROVE  /\ Ordered(Append(list, url), Appended(lines, url))
         /\ ToSet(Appended(lines, url)) = ToSet(lines) \cup {url}
         /\ ToSet(Append(list, url)) = ToSet(list) \cup {url}
  <1> DEFINE new == Appended(lines, url)
             more == Append(list, url)
             n == Len(lines)
             m == Len(new)
             l == Len(list)
  <1>1. /\ new \in Seq(S) /\ m \in Nat \ {0} /\ new[m] = url
        /\ \A a \in 1 .. m - 1 : \E i \in 1 .. n : new[a] = lines[i] /\ lines[i] # url
        /\ \A i \in 1 .. n : lines[i] # url => \E a \in 1 .. m : new[a] = lines[i]
        /\ \A a, b \in 1 .. m - 1 : a < b =>
             \E i, j \in 1 .. n : i < j /\ new[a] = lines[i] /\ new[b] = lines[j]
    <2>1. new \in Seq(S) /\ Appends(lines, url, new)
      BY AppendedLines
    <2> HIDE DEF new
    <2> QED BY <2>1 DEF Appends
  <1>2. /\ LatestIn(more, url) = l + 1
        /\ \A other \in ToSet(list) \ {url} : LatestIn(more, other) = LatestIn(list, other)
    BY LatestOfMore
  <1>3. l \in Nat /\ \A other \in ToSet(list) : LatestIn(list, other) \in 1 .. l
    BY LastOne, LenProperties
  <1>4. /\ ToSet(lines) = {lines[i] : i \in 1 .. n} /\ ToSet(new) = {new[i] : i \in 1 .. m}
        /\ \A i \in 1 .. n : lines[i] \in ToSet(list)
    BY <1>1, LenProperties DEF ToSet
  <1>5. \A i, j \in 1 .. n : i < j => LatestIn(list, lines[i]) < LatestIn(list, lines[j])
    BY DEF Ordered
  <1>6. ToSet(more) = ToSet(list) \cup {url}
    <2>1. /\ more \in Seq(S) /\ Len(more) = l + 1 /\ more[l + 1] = url
          /\ \A i \in 1 .. l : more[i] = list[i]
      BY AppendProperties
    <2>2. ToSet(list) = {list[i] : i \in 1 .. l} /\ ToSet(more) = {more[i] : i \in 1 .. l + 1}
      BY <2>1, LenProperties DEF ToSet
    <2> HIDE DEF l, more
    <2>3. 1 .. l + 1 = (1 .. l) \cup {l + 1}
      BY <1>3
    <2>4. ASSUME NEW x \in ToSet(more) PROVE x \in ToSet(list) \cup {url}
      <3>1. PICK i \in 1 .. l + 1 : x = more[i]
        BY <2>2
      <3>2. CASE i = l + 1
        BY <2>1, <3>1, <3>2
      <3>3. CASE i \in 1 .. l
        BY <2>1, <2>2, <3>1, <3>3
      <3> QED BY <2>3, <3>2, <3>3
    <2>5. url \in ToSet(more)
      <3>1. l + 1 \in 1 .. l + 1
        BY <2>3
      <3> QED BY <2>1, <2>2, <3>1
    <2>6. ASSUME NEW x \in ToSet(list) PROVE x \in ToSet(more)
      <3>1. PICK i \in 1 .. l : x = list[i]
        BY <2>2
      <3>2. i \in 1 .. l + 1
        BY <2>3
      <3> QED BY <2>1, <2>2, <3>1, <3>2
    <2> QED BY <2>4, <2>5, <2>6
  <1> HIDE DEF new, more, n, m, l
  <1>7. ASSUME NEW a \in 1 .. m, NEW b \in 1 .. m, a < b
        PROVE  LatestIn(more, new[a]) < LatestIn(more, new[b])
    <2>1. a \in 1 .. m - 1
      BY <1>1, <1>7
    <2>2. new[a] \in ToSet(list) \ {url}
      BY <1>1, <1>4, <2>1
    <2>3. LatestIn(more, new[a]) = LatestIn(list, new[a]) /\ LatestIn(list, new[a]) \in 1 .. l
      BY <1>2, <1>3, <2>2
    <2>4. CASE b = m
      BY <1>1, <1>2, <1>3, <2>3, <2>4
    <2>5. CASE b # m
      <3>1. b \in 1 .. m - 1
        BY <1>1, <2>5
      <3>2. new[b] \in ToSet(list) \ {url}
        BY <1>1, <1>4, <3>1
      <3>3. LatestIn(more, new[b]) = LatestIn(list, new[b])
        BY <1>2, <3>2
      <3>4. PICK i \in 1 .. n, j \in 1 .. n : i < j /\ new[a] = lines[i] /\ new[b] = lines[j]
        BY <1>1, <1>7, <2>1, <3>1
      <3> QED BY <1>5, <2>3, <3>3, <3>4
    <2> QED BY <2>4, <2>5
  <1>8. Ordered(more, new)
    BY <1>7 DEF Ordered, m
  <1>9. ToSet(new) = ToSet(lines) \cup {url}
    <2>1. ASSUME NEW x \in ToSet(new) PROVE x \in ToSet(lines) \cup {url}
      <3>1. PICK a \in 1 .. m : x = new[a]
        BY <1>4
      <3>2. a = m \/ a \in 1 .. m - 1
        BY <1>1
      <3> QED BY <1>1, <1>4, <3>1, <3>2
    <2>2. url \in ToSet(new)
      <3>1. m \in 1 .. m
        BY <1>1
      <3> QED BY <1>1, <1>4, <3>1
    <2>3. ASSUME NEW x \in ToSet(lines) PROVE x \in ToSet(new)
      <3>1. PICK i \in 1 .. n : x = lines[i]
        BY <1>4
      <3> QED BY <1>1, <1>4, <2>2, <3>1
    <2> QED BY <2>1, <2>2, <2>3
  <1> QED BY <1>6, <1>8, <1>9 DEF new, more

-----------------------------------------------------------------------------
(* The bookmarks.                                                          *)

(* The mark of a key in a file is that of a line of the key, if there is   *)
(* one.                                                                    *)
LEMMA MarkFound ==
  ASSUME NEW S, NEW file \in Seq(S), NEW k
  PROVE  \/ /\ \A i \in 1 .. Len(file) : file[i][1] # k
            /\ MarkIn(file, k) = NoStation
         \/ \E i \in 1 .. Len(file) : file[i][1] = k /\ MarkIn(file, k) = file[i][2]
  <1> DEFINE n == Len(file)
             L == {i \in DOMAIN file : file[i][1] = k}
  <1>1. n \in Nat /\ L = {i \in 1 .. n : file[i][1] = k}
    BY LenProperties
  <1>2. MarkIn(file, k) =
          IF L = {} THEN NoStation ELSE file[CHOOSE i \in L : \A j \in L : i <= j][2]
    BY DEF MarkIn
  <1> HIDE DEF n, L
  <1>3. CASE L = {}
    BY <1>1, <1>2, <1>3 DEF n
  <1>4. CASE L # {}
    <2> DEFINE first == CHOOSE i \in L : \A j \in L : i <= j
    <2>1. L \subseteq Nat
      BY <1>1
    <2>2. \E i \in L : \A j \in L : i <= j
      BY <1>4, <2>1, Least
    <2>3. first \in L
      BY <2>2
    <2> HIDE DEF first
    <2>4. first \in 1 .. n /\ file[first][1] = k
      BY <1>1, <2>3
    <2>5. MarkIn(file, k) = file[first][2]
      BY <1>2, <1>4 DEF first
    <2> QED BY <2>4, <2>5 DEF n
  <1> QED BY <1>3, <1>4

Written(file, map) ==
  /\ file \in Seq(ToSet(Marks) \X Stations)
  /\ OnePerKey(file)
  /\ \A i \in 1 .. Len(file) : file[i][2] = map[file[i][1]]

(* Every map from keys to stations is what is found in the lines that      *)
(* setmark() writes for it.                                                *)
LEMMA WrittenMarks ==
  ASSUME NEW map \in [ToSet(Marks) -> Stations \cup {NoStation}]
  PROVE  LET set == Kept(Marks, {i \in DOMAIN Marks : map[Marks[i]] # NoStation})
             file == [i \in 1 .. Len(set) |-> <<set[i], map[set[i]]>>]
         IN  Written(file, map) /\ \A k \in ToSet(Marks) : MarkIn(file, k) = map[k]
  <1> DEFINE M == ToSet(Marks)
             K == {i \in DOMAIN Marks : map[Marks[i]] # NoStation}
             set == Kept(Marks, K)
             n == Len(set)
             file == [i \in 1 .. n |-> <<set[i], map[set[i]]>>]
  <1>1. Marks \in Seq(M) /\ IsInjective(Marks) /\ DOMAIN Marks = 1 .. Len(Marks)
    BY MarksAssumption, LenProperties
  <1>2. M = {Marks[i] : i \in DOMAIN Marks}
    BY DEF ToSet
  <1>3. set \in Seq(M) /\ Keeps(Marks, K, set)
    <2>1. K \subseteq DOMAIN Marks
      OBVIOUS
    <2> HIDE DEF M, K
    <2> QED BY <1>1, <2>1, KeptLines
  <1>4. n \in Nat /\ \A i \in 1 .. n : set[i] \in M
    BY <1>3, LenProperties, ElementOfSeq
  <1> HIDE DEF M, set
  <1>5. ASSUME NEW i \in 1 .. n PROVE map[set[i]] \in Stations /\ set[i] \in M
    <2>1. PICK j \in K : set[i] = Marks[j]
      BY <1>3 DEF Keeps
    <2>2. map[Marks[j]] # NoStation
      OBVIOUS
    <2>3. map[set[i]] \in Stations \cup {NoStation}
      BY <1>4 DEF M
    <2> QED BY <1>4, <2>1, <2>2, <2>3
  <1>6. file \in Seq(M \X Stations) /\ Len(file) = n
        /\ \A i \in 1 .. n : file[i][1] = set[i] /\ file[i][2] = map[set[i]]
    <2>1. \A i \in 1 .. n : <<set[i], map[set[i]]>> \in M \X Stations
      BY <1>5
    <2> HIDE DEF n
    <2> QED BY <1>4, <2>1
  <1> HIDE DEF file, K, n
  <1>7. ASSUME NEW a \in 1 .. n, NEW b \in 1 .. n, a < b PROVE set[a] # set[b]
    <2>1. PICK i \in K, j \in K : i < j /\ set[a] = Marks[i] /\ set[b] = Marks[j]
      BY <1>3, <1>7 DEF Keeps, n
    <2>2. i \in 1 .. Len(Marks) /\ j \in 1 .. Len(Marks)
      BY <1>1 DEF K
    <2>3. i # j
      BY <2>1, <2>2
    <2> QED BY <1>1, <2>1, <2>2, <2>3 DEF IsInjective
  <1>8. Written(file, map)
    <2>1. ASSUME NEW a \in 1 .. n, NEW b \in 1 .. n, a # b PROVE set[a] # set[b]
      <3>1. a < b \/ b < a
        BY <1>4, <2>1
      <3> QED BY <1>7, <3>1
    <2>2. OnePerKey(file)
      BY <1>6, <2>1 DEF OnePerKey
    <2> QED BY <1>6, <2>2 DEF Written, M
  <1>9. ASSUME NEW k \in M PROVE MarkIn(file, k) = map[k]
    <2>1. CASE \E i \in 1 .. n : file[i][1] = k /\ MarkIn(file, k) = file[i][2]
      BY <1>6, <2>1
    <2>2. CASE (\A i \in 1 .. n : file[i][1] # k) /\ MarkIn(file, k) = NoStation
      <3>1. PICK j \in DOMAIN Marks : Marks[j] = k
        BY <1>2
      <3>2. SUFFICES ASSUME map[k] # NoStation PROVE FALSE
        BY <2>2
      <3>3. j \in K
        BY <3>1, <3>2 DEF K
      <3>4. PICK i \in 1 .. n : set[i] = Marks[j]
        BY <1>3, <3>3 DEF Keeps, n
      <3> QED BY <1>6, <2>2, <3>1, <3>4
    <2>3. file \in Seq(M \X Stations) /\ n = Len(file)
      BY <1>6
    <2> QED BY <2>1, <2>2, <2>3, MarkFound
  <1> QED BY <1>8, <1>9 DEF file, set, K, n, M

-----------------------------------------------------------------------------
(* The steps.                                                              *)

LEMMA TuneKeeps ==
  ASSUME DeskInv, at \in {"loop", "down"}, NEW url \in Stations, Tune(url)
  PROVE  DeskInv'
  <1>1. /\ at' = "history" /\ pending' = Appended(histfile, url) /\ histfile' = <<>>
        /\ station' = url /\ tuned' = Append(tuned, url)
        /\ UNCHANGED <<markfile, marked, crashed>>
    BY DEF Tune, Histapp, Appended
  <1>2. tuned \in Seq(Stations) /\ histfile \in Seq(Stations)
    BY DEF DeskInv, TypeOK
  <1>3. tuned' \in Seq(Stations) /\ pending' \in Seq(Stations) /\ histfile' \in Seq(Stations)
    BY <1>1, <1>2, AppendProperties, AppendedLines, EmptySeq
  <1>4. TypeOK'
    BY <1>1, <1>3 DEF DeskInv, TypeOK
  <1>5. HistoryInv'
    <2>1. Ordered(tuned, histfile) /\ ToSet(histfile) \subseteq ToSet(tuned)
      BY DEF DeskInv, HistoryInv, ByLatest, Latest, Ordered, LatestIn
    <2>2. /\ Ordered(tuned', pending')
          /\ ToSet(pending') = ToSet(histfile) \cup {url}
          /\ ToSet(tuned') = ToSet(tuned) \cup {url}
      BY <1>1, <1>2, <2>1, TunedInOrder
    <2>3. ByLatest(pending)'
      BY <2>2 DEF ByLatest, Latest, Ordered, LatestIn
    <2>4. ByLatest(histfile)' /\ ToSet(histfile') = {}
      BY <1>1 DEF ByLatest, ToSet
    <2>5. ~crashed => ToSet(tuned) = ToSet(histfile)
      BY DEF DeskInv, HistoryInv
    <2> QED BY <1>1, <2>1, <2>2, <2>3, <2>4, <2>5 DEF HistoryInv
  <1>6. MarksInv'
    BY <1>1 DEF DeskInv, MarksInv, OnePerKey, SetLast, MarkOf
  <1> QED BY <1>4, <1>5, <1>6 DEF DeskInv

LEMMA SetmarkKeeps ==
  ASSUME DeskInv, NEW k \in ToSet(Marks), Setmark(k)
  PROVE  DeskInv'
  <1> DEFINE map == [m \in ToSet(Marks) |-> IF m = k THEN station ELSE MarkOf(m)]
             set == Kept(Marks, {i \in DOMAIN Marks : map[Marks[i]] # NoStation})
             file == [i \in 1 .. Len(set) |-> <<set[i], map[set[i]]>>]
  <1>1. /\ at = "loop" /\ station \in Stations /\ at' = "marks" /\ markfile' = <<>>
        /\ marked' = [marked EXCEPT ![k] = station]
        /\ UNCHANGED <<station, histfile, tuned, crashed>>
    BY DEF Setmark, DeskInv, TypeOK
  <1>2. pending' = file
    BY DEF Setmark, Lines
  <1>3. ASSUME NEW m \in ToSet(Marks)
        PROVE  MarkOf(m) \in Stations \cup {NoStation}
               /\ (MarkOf(m) # NoStation => MarkOf(m) = marked[m])
    <2>1. markfile \in Seq(ToSet(Marks) \X Stations) /\ SetLast(markfile)
      BY DEF DeskInv, TypeOK, MarksInv
    <2>2. CASE MarkIn(markfile, m) = NoStation
      BY <2>2 DEF MarkOf
    <2>3. CASE \E i \in 1 .. Len(markfile) :
                 markfile[i][1] = m /\ MarkIn(markfile, m) = markfile[i][2]
      <3>1. PICK i \in 1 .. Len(markfile) :
              markfile[i][1] = m /\ MarkIn(markfile, m) = markfile[i][2]
        BY <2>3
      <3>2. markfile[i] \in ToSet(Marks) \X Stations
        BY <2>1, ElementOfSeq
      <3>3. markfile[i][2] \in Stations /\ markfile[i][2] = marked[m]
        BY <2>1, <3>1, <3>2 DEF SetLast
      <3> QED BY <3>1, <3>3 DEF MarkOf
    <2> QED BY <2>1, <2>2, <2>3, MarkFound
  <1>4. map \in [ToSet(Marks) -> Stations \cup {NoStation}]
    BY <1>1, <1>3
  <1>5. marked \in [ToSet(Marks) -> Stations \cup {NoStation}]
    BY DEF DeskInv, TypeOK
  <1>6. Written(file, map) /\ \A m \in ToSet(Marks) : MarkIn(file, m) = map[m]
    BY <1>4, WrittenMarks
  <1>7. \A m \in ToSet(Marks) : map[m] # NoStation => map[m] = marked'[m]
    BY <1>1, <1>3, <1>5
  <1>8. \A m \in ToSet(Marks) : ~crashed => map[m] = marked'[m]
    BY <1>1, <1>5 DEF DeskInv, MarksInv
  <1> HIDE DEF file, map
  <1>9. TypeOK'
    <2>1. markfile' \in Seq(ToSet(Marks) \X Stations)
      BY <1>1, EmptySeq
    <2>2. marked' \in [ToSet(Marks) -> Stations \cup {NoStation}]
      BY <1>1, <1>5
    <2>3. pending' \in Seq(ToSet(Marks) \X Stations)
      BY <1>2, <1>6 DEF Written
    <2> QED BY <1>1, <2>1, <2>2, <2>3 DEF DeskInv, TypeOK
  <1>10. HistoryInv'
    BY <1>1 DEF DeskInv, HistoryInv, ByLatest, Latest
  <1>11. MarksInv'
    <2>1. OnePerKey(markfile)' /\ SetLast(markfile)'
      BY <1>1 DEF OnePerKey, SetLast
    <2>2. OnePerKey(pending)'
      BY <1>2, <1>6 DEF Written, OnePerKey
    <2>3. SetLast(pending)'
      <3>1. ASSUME NEW i \in 1 .. Len(file) PROVE file[i][2] = marked'[file[i][1]]
        <4>1. file[i] \in ToSet(Marks) \X Stations
          BY <1>6, ElementOfSeq DEF Written
        <4>2. file[i][1] \in ToSet(Marks) /\ file[i][2] # NoStation
          BY <4>1, DeskAssumption
        <4>3. file[i][2] = map[file[i][1]]
          BY <1>6 DEF Written
        <4> QED BY <1>7, <4>2, <4>3
      <3> QED BY <1>2, <3>1 DEF SetLast
    <2>4. ~crashed' => \A m \in ToSet(Marks) : marked'[m] = MarkIn(pending, m)'
      BY <1>1, <1>2, <1>6, <1>8
    <2> QED BY <1>1, <2>1, <2>2, <2>3, <2>4 DEF MarksInv
  <1> QED BY <1>9, <1>10, <1>11 DEF DeskInv

LEMMA WriteKeeps == ASSUME DeskInv, Write PROVE DeskInv'
  <1>1. /\ at \in {"history", "marks"} /\ at' = "loop"
        /\ UNCHANGED <<station, tuned, marked, crashed>>
    BY DEF Write
  <1>2. CASE at = "history"
    <2>1. histfile' = pending /\ markfile' = markfile
      BY <1>2 DEF Write
    <2>2. TypeOK'
      BY <1>1, <1>2, <2>1 DEF DeskInv, TypeOK
    <2>3. HistoryInv'
      BY <1>1, <1>2, <2>1 DEF DeskInv, HistoryInv, ByLatest, Latest
    <2>4. MarksInv'
      BY <1>1, <1>2, <2>1 DEF DeskInv, MarksInv, OnePerKey, SetLast, MarkOf
    <2> QED BY <2>2, <2>3, <2>4 DEF DeskInv
  <1>3. CASE at = "marks"
    <2>1. histfile' = histfile /\ markfile' = pending
      BY <1>3 DEF Write
    <2>2. TypeOK'
      BY <1>1, <1>3, <2>1 DEF DeskInv, TypeOK
    <2>3. HistoryInv'
      BY <1>1, <1>3, <2>1 DEF DeskInv, HistoryInv, ByLatest, Latest
    <2>4. MarksInv'
      BY <1>1, <1>3, <2>1 DEF DeskInv, MarksInv, OnePerKey, SetLast, MarkOf
    <2> QED BY <2>2, <2>3, <2>4 DEF DeskInv
  <1> QED BY <1>1, <1>2, <1>3

(* The front of a file is as good as the whole.                            *)
LEMMA Fronts ==
  ASSUME NEW S, NEW lines \in Seq(S), NEW n \in 0 .. Len(lines)
  PROVE  LET front == SubSeq(lines, 1, n)
         IN  /\ front \in Seq(S) /\ Len(front) = n /\ Len(lines) \in Nat
             /\ \A i \in 1 .. n : i \in 1 .. Len(lines) /\ front[i] = lines[i]
  <1>1. Len(lines) \in Nat
    BY LenProperties
  <1>2. n \in Int /\ 1 - 1 <= n /\ n <= Len(lines)
    BY <1>1
  <1> QED BY <1>1, <1>2, SubSeqProperties

LEMMA CrashKeeps == ASSUME DeskInv, Crash PROVE DeskInv'
  <1>1. PICK n \in 0 .. Len(pending) :
          IF at = "history"
          THEN histfile' = SubSeq(pending, 1, n) /\ UNCHANGED markfile
          ELSE markfile' = SubSeq(pending, 1, n) /\ UNCHANGED histfile
    BY DEF Crash
  <1>2. /\ at \in {"history", "marks"} /\ at' = "down" /\ station' = NoStation
        /\ crashed' \in BOOLEAN /\ crashed' /\ UNCHANGED <<tuned, marked>>
    BY DEF Crash
  <1> DEFINE front == SubSeq(pending, 1, n)
  <1>3. CASE at = "history"
    <2>1. pending \in Seq(Stations)
      BY <1>3 DEF DeskInv, TypeOK
    <2>2. /\ front \in Seq(Stations) /\ Len(front) = n /\ Len(pending) \in Nat
          /\ \A i \in 1 .. n : i \in 1 .. Len(pending) /\ front[i] = pending[i]
      BY <2>1, Fronts
    <2>3. histfile' = front /\ markfile' = markfile
      BY <1>1, <1>3
    <2> HIDE DEF front
    <2>4. TypeOK'
      BY <1>2, <2>2, <2>3 DEF DeskInv, TypeOK
    <2>5. ByLatest(front) /\ ToSet(front) \subseteq ToSet(pending)
      <3>1. ByLatest(front)
        BY <1>3, <2>2 DEF DeskInv, HistoryInv, ByLatest
      <3>2. ToSet(front) = {front[i] : i \in 1 .. n} /\ ToSet(pending) = {pending[i] : i \in 1 .. Len(pending)}
        BY <2>1, <2>2, LenProperties DEF ToSet
      <3> QED BY <2>2, <3>1, <3>2
    <2>6. HistoryInv'
      <3>1. ByLatest(histfile)'
        BY <1>2, <2>3, <2>5 DEF ByLatest, Latest
      <3>2. ToSet(histfile') \subseteq ToSet(tuned')
        BY <1>2, <1>3, <2>3, <2>5 DEF DeskInv, HistoryInv
      <3> QED BY <1>2, <3>1, <3>2 DEF HistoryInv
    <2>7. MarksInv'
      BY <1>2, <1>3, <2>3 DEF DeskInv, MarksInv, OnePerKey, SetLast
    <2> QED BY <2>4, <2>6, <2>7 DEF DeskInv
  <1>4. CASE at = "marks"
    <2>1. pending \in Seq(ToSet(Marks) \X Stations)
      BY <1>4 DEF DeskInv, TypeOK
    <2>2. /\ front \in Seq(ToSet(Marks) \X Stations) /\ Len(front) = n
          /\ \A i \in 1 .. n : i \in 1 .. Len(pending) /\ front[i] = pending[i]
      BY <2>1, Fronts
    <2>3. markfile' = front /\ histfile' = histfile
      BY <1>1, <1>4
    <2> HIDE DEF front
    <2>4. TypeOK'
      BY <1>2, <2>2, <2>3 DEF DeskInv, TypeOK
    <2>5. OnePerKey(front) /\ SetLast(front)
      <3>1. OnePerKey(pending) /\ SetLast(pending)
        BY <1>4 DEF DeskInv, MarksInv
      <3>2. OnePerKey(front)
        BY <2>2, <3>1 DEF OnePerKey
      <3>3. SetLast(front)
        BY <2>2, <3>1 DEF SetLast
      <3> QED BY <3>2, <3>3
    <2>6. HistoryInv'
      <3>1. ByLatest(histfile) /\ ToSet(histfile) \subseteq ToSet(tuned)
        BY DEF DeskInv, HistoryInv
      <3>2. ByLatest(histfile)'
        BY <1>2, <2>3, <3>1 DEF ByLatest, Latest
      <3>3. ToSet(histfile') \subseteq ToSet(tuned')
        BY <1>2, <2>3, <3>1
      <3> QED BY <1>2, <3>2, <3>3 DEF HistoryInv
    <2>7. MarksInv'
      BY <1>2, <1>4, <2>3, <2>5 DEF DeskInv, MarksInv, OnePerKey, SetLast
    <2> QED BY <2>4, <2>6, <2>7 DEF DeskInv
  <1> QED BY <1>2, <1>3, <1>4

LEMMA DeskStep == DeskInv /\ [Next]_vars => DeskInv'
  <1> SUFFICES ASSUME DeskInv, [Next]_vars PROVE DeskInv'
    OBVIOUS
  <1>0. ASSUME UNCHANGED <<histfile, markfile, tuned, marked, crashed>>,
               station' \in Stations \cup {NoStation}, at \in {"loop", "down"}, at' \in {"loop", "down"}
        PROVE  DeskInv'
    <2>1. TypeOK'
      BY <1>0 DEF DeskInv, TypeOK
    <2>2. HistoryInv'
      <3>1. ByLatest(histfile)'
        BY <1>0 DEF DeskInv, HistoryInv, ByLatest, Latest
      <3> QED BY <1>0, <3>1 DEF DeskInv, HistoryInv
    <2>3. MarksInv'
      <3>1. OnePerKey(markfile)' /\ SetLast(markfile)'
        BY <1>0 DEF DeskInv, MarksInv, OnePerKey, SetLast
      <3>2. \A k : MarkOf(k)' = MarkOf(k)
        BY <1>0 DEF MarkOf, MarkIn
      <3> QED BY <1>0, <3>1, <3>2 DEF DeskInv, MarksInv
    <2> QED BY <2>1, <2>2, <2>3 DEF DeskInv
  <1>1. CASE UNCHANGED vars
    <2>0. UNCHANGED <<at, station, histfile, markfile, pending, tuned, marked, crashed>>
      BY <1>1 DEF vars
    <2>1. TypeOK'
      BY <2>0 DEF DeskInv, TypeOK
    <2>2. HistoryInv'
      <3>1. ByLatest(histfile) => ByLatest(histfile)'
        BY <2>0 DEF ByLatest, Latest
      <3>2. ByLatest(pending) => ByLatest(pending)'
        BY <2>0 DEF ByLatest, Latest
      <3> QED BY <2>0, <3>1, <3>2 DEF DeskInv, HistoryInv
    <2>3. MarksInv'
      <3>1. OnePerKey(markfile)' /\ SetLast(markfile)'
        BY <2>0 DEF DeskInv, MarksInv, OnePerKey, SetLast
      <3>2. at' = "marks" => OnePerKey(pending)' /\ SetLast(pending)'
        BY <2>0 DEF DeskInv, MarksInv, OnePerKey, SetLast
      <3>3. \A k : MarkOf(k)' = MarkOf(k) /\ MarkIn(pending, k)' = MarkIn(pending, k)
        BY <2>0 DEF MarkOf, MarkIn
      <3> QED BY <2>0, <3>1, <3>2, <3>3 DEF DeskInv, MarksInv
    <2> QED BY <2>1, <2>2, <2>3 DEF DeskInv
  <1>2. CASE Start
    <2>1. CASE histfile # <<>> /\ Tune(histfile[Len(histfile)])
      <3>1. histfile \in Seq(Stations)
        BY DEF DeskInv, TypeOK
      <3>2. Len(histfile) \in 1 .. Len(histfile)
        BY <2>1, <3>1
      <3>3. histfile[Len(histfile)] \in Stations
        BY <3>1, <3>2, ElementOfSeq
      <3> QED BY <1>2, <2>1, <3>3, TuneKeeps DEF Start
    <2>2. CASE at' = "loop" /\ UNCHANGED <<station, histfile, markfile, pending, tuned, marked, crashed>>
      BY <1>0, <1>2, <2>2 DEF Start, DeskInv, TypeOK
    <2> QED BY <1>2, <2>1, <2>2 DEF Start
  <1>3. CASE \E url \in Stations : Radio(url)
    BY <1>3, TuneKeeps DEF Radio
  <1>4. ASSUME NEW k \in ToSet(Marks), Getmark(k) PROVE DeskInv'
    <2>1. markfile \in Seq(ToSet(Marks) \X Stations)
      BY DEF DeskInv, TypeOK
    <2>2. PICK i \in 1 .. Len(markfile) : MarkIn(markfile, k) = markfile[i][2]
      BY <1>4, <2>1, MarkFound DEF Getmark, MarkOf
    <2>3. markfile[i] \in ToSet(Marks) \X Stations
      BY <2>1, ElementOfSeq
    <2>4. MarkOf(k) \in Stations
      BY <2>2, <2>3 DEF MarkOf
    <2> QED BY <1>4, <2>4, TuneKeeps DEF Getmark
  <1>5. CASE Quit
    BY <1>0, <1>5 DEF Quit
  <1> QED BY <1>1, <1>2, <1>3, <1>4, <1>5, SetmarkKeeps, WriteKeeps, CrashKeeps DEF Next

(* The history has each station that was tuned to once, in the order of    *)
(* last use, and every bookmark is the one set last for its key, whatever  *)
(* is tuned to and marked in any number of runs, and wherever the program  *)
(* is killed: that can only lose lines.                                    *)
THEOREM FilesAreHonest == Spec => []FilesHonest
  <1>1. Init => DeskInv
    <2> SUFFICES ASSUME Init PROVE DeskInv
      OBVIOUS
    <2>1. ToSet(<<>>) = {}
      BY DEF ToSet
    <2>2. \A k : MarkIn(<<>>, k) = NoStation
      BY DEF MarkIn
    <2>3. TypeOK
      <3>1. histfile \in Seq(Stations) /\ tuned \in Seq(Stations)
            /\ markfile \in Seq(ToSet(Marks) \X Stations)
        BY EmptySeq DEF Init
      <3>2. crashed \in BOOLEAN
        BY DEF Init
      <3> QED BY <3>1, <3>2 DEF Init, TypeOK
    <2> QED BY <2>1, <2>2, <2>3
            DEF Init, DeskInv, HistoryInv, MarksInv, ByLatest, OnePerKey, SetLast, MarkOf
  <1>2. DeskInv => FilesHonest
    BY DEF DeskInv, HistoryInv, MarksInv, FilesHonest
  <1> QED BY <1>1, <1>2, DeskStep, PTL DEF Spec
=============================================================================
