---------------------------- MODULE PromptProofs ----------------------------
(***************************************************************************)
(* Proofs about module Prompt, for lines of any length, any candidates, any*)
(* history and any number of keys: Enter returns what is on the terminal,  *)
(* and the Tab key offers every match before it repeats one.               *)
(***************************************************************************)
EXTENDS PromptProps, FiniteSetTheorems, SequenceTheorems, WellFoundedInduction, TLAPS

-----------------------------------------------------------------------------
(* Numbers.                                                                *)

(* A set of natural numbers has a least one.                               *)
LEMMA Least ==
  ASSUME NEW T, T \subseteq Nat, T # {}
  PROVE  \E n \in T : \A m \in T : n <= m
  <1>1. PICK n \in T : \A m \in T : ~ (<<m, n>> \in OpToRel(<, Nat))
    BY NatLessThanWellFounded, WFMin, Zenon
  <1>2. \A m \in T : ~ (m < n)
    BY <1>1 DEF OpToRel
  <1> QED BY <1>2

(* A set of numbers up to some number has a greatest one.                  *)
LEMMA Greatest ==
  ASSUME NEW n \in Nat, NEW T, T \subseteq 0 .. n, T # {}
  PROVE  \E x \in T : \A y \in T : y <= x
  <1> DEFINE D == {n - t : t \in T}
  <1>1. D \subseteq Nat /\ D # {}
    <2>1. \A t \in T : t \in 0 .. n
      OBVIOUS
    <2>2. \A t \in 0 .. n : n - t \in Nat
      OBVIOUS
    <2>3. \A t \in T : n - t \in Nat
      BY <2>1, <2>2
    <2> QED BY <2>3
  <1>2. PICK d \in D : \A e \in D : d <= e
    BY <1>1, Least
  <1>3. PICK x \in T : d = n - x
    BY <1>2
  <1>4. ASSUME NEW y \in T PROVE y <= x
    <2>1. n - y \in D
      OBVIOUS
    <2>2. n - x <= n - y
      BY <1>2, <1>3, <2>1
    <2> QED BY <2>2
  <1> QED BY <1>4

(* How many numbers of a set are up to i.                                  *)
UpTo(K, i) == {j \in K : j <= i}

LEMMA UpToSets ==
  ASSUME NEW n \in Nat, NEW K, K \subseteq 1 .. n
  PROVE  /\ Cardinality(K) \in Nat
         /\ \A i \in Nat : Cardinality(UpTo(K, i)) \in Nat
         /\ Cardinality(UpTo(K, 0)) = 0
         /\ Cardinality(UpTo(K, n)) = Cardinality(K)
         /\ \A i \in Nat \ {0} : Cardinality(UpTo(K, i)) =
              IF i \in K THEN Cardinality(UpTo(K, i - 1)) + 1
              ELSE Cardinality(UpTo(K, i - 1))
  <1>0. \A j \in K : j \in Nat /\ 0 < j /\ j <= n
    <2>1. \A j \in 1 .. n : j \in Nat /\ 0 < j /\ j <= n
      OBVIOUS
    <2> QED BY <2>1
  <1>1. IsFiniteSet(K)
    <2>1. IsFiniteSet(1 .. n)
      BY FS_Interval
    <2> QED BY <2>1, FS_Subset
  <1>2. Cardinality(K) \in Nat
    BY <1>1, FS_CardinalityType
  <1>3. ASSUME NEW i \in Nat
        PROVE  IsFiniteSet(UpTo(K, i)) /\ Cardinality(UpTo(K, i)) \in Nat
    <2>1. UpTo(K, i) \in SUBSET K
      BY DEF UpTo
    <2>2. IsFiniteSet(UpTo(K, i))
      BY <1>1, <2>1, FS_Subset
    <2> QED BY <2>2, FS_CardinalityType
  <1>4. Cardinality(UpTo(K, 0)) = 0
    <2>1. \A j \in K : ~(j <= 0)
      BY <1>0
    <2>2. UpTo(K, 0) = {}
      BY <2>1 DEF UpTo
    <2> QED BY <2>2, FS_EmptySet
  <1>5. UpTo(K, n) = K
    BY <1>0 DEF UpTo
  <1>6. ASSUME NEW i \in Nat \ {0}
        PROVE  Cardinality(UpTo(K, i)) =
                 IF i \in K THEN Cardinality(UpTo(K, i - 1)) + 1
                 ELSE Cardinality(UpTo(K, i - 1))
    <2>0. \A j \in K : j <= i <=> j <= i - 1 \/ j = i
      BY <1>0
    <2>1. CASE i \notin K
      <3>1. UpTo(K, i) = UpTo(K, i - 1)
        BY <2>0, <2>1 DEF UpTo
      <3> QED BY <2>1, <3>1
    <2>2. CASE i \in K
      <3>1. UpTo(K, i) = UpTo(K, i - 1) \cup {i}
        BY <2>0, <2>2 DEF UpTo
      <3>2. i \notin UpTo(K, i - 1)
        BY DEF UpTo
      <3>3. IsFiniteSet(UpTo(K, i - 1))
        BY <1>3
      <3> QED BY <2>2, <3>1, <3>2, <3>3, FS_AddElement
    <2> QED BY <2>1, <2>2
  <1> QED BY <1>2, <1>3, <1>4, <1>5, <1>6

LEMMA NthIsOne ==
  ASSUME NEW n \in Nat, NEW K, K \subseteq 1 .. n, NEW k \in 1 .. Cardinality(K)
  PROVE  Nth(K, k) \in K
  <1> DEFINE C(i) == Cardinality(UpTo(K, i))
             T == {i \in 1 .. n : k <= C(i)}
  <1>1. /\ C(0) = 0 /\ C(n) = Cardinality(K) /\ Cardinality(K) \in Nat
        /\ \A i \in Nat : C(i) \in Nat
        /\ \A i \in Nat \ {0} : C(i) = IF i \in K THEN C(i - 1) + 1 ELSE C(i - 1)
    BY UpToSets
  <1> HIDE DEF C
  <1>2. T \subseteq Nat /\ n \in T
    BY <1>1
  <1>3. PICK i \in T : \A j \in T : i <= j
    BY <1>2, Least
  <1>4. i \in 1 .. n /\ k <= C(i) /\ i - 1 \in Nat
    BY <1>3
  <1>5. C(i - 1) < k
    <2>1. CASE i = 1
      BY <1>1, <2>1
    <2>2. CASE i # 1
      <3>1. i - 1 \in 1 .. n /\ i - 1 \notin T
        BY <1>3, <1>4, <2>2
      <3> QED BY <1>1, <1>4, <3>1
    <2> QED BY <2>1, <2>2
  <1>6. i \in K /\ C(i) = k
    BY <1>1, <1>4, <1>5
  <1>7. \E p \in K : C(p) = k
    BY <1>6
  <1> QED BY <1>7 DEF C, Nth, UpTo

-----------------------------------------------------------------------------
(* Texts.                                                                  *)

LEMMA PartType ==
  ASSUME NEW S, NEW s \in Seq(S), NEW m \in Nat \ {0}, NEW n \in 0 .. Len(s)
  PROVE  /\ SubSeq(s, m, n) \in Seq(S)
         /\ Len(SubSeq(s, m, n)) = IF m <= n THEN n - m + 1 ELSE 0
         /\ \A i \in 1 .. n - m + 1 : SubSeq(s, m, n)[i] = s[m + i - 1]
  <1>1. Len(s) \in Nat /\ n \in Nat /\ \A i \in m .. n : i \in 1 .. Len(s)
    BY LenProperties
  <1>2. \A i \in m .. n : s[i] \in S
    BY <1>1, ElementOfSeq
  <1> QED BY <1>1, <1>2, SubSeqProperties

(* A text behind another.                                                  *)
LEMMA BothType ==
  \A s, t \in Seq(Chars) : s \o t \in Seq(Chars) /\ Len(s \o t) = Len(s) + Len(t)
  <1> SUFFICES ASSUME NEW s \in Seq(Chars), NEW t \in Seq(Chars)
               PROVE  s \o t \in Seq(Chars) /\ Len(s \o t) = Len(s) + Len(t)
    OBVIOUS
  <1> QED BY ConcatProperties

(* A character of a text is not what ends it.                              *)
LEMMA NoNUL == NUL \notin Chars
  BY DEF NUL, Chars, Letters, Up, Down, Slash, Comma, Space

ArrayType == [1 .. Size -> Chars \cup {NUL}]

LEMMA ArrayIsTyped ==
  ASSUME NEW text \in Seq(Chars)
  PROVE  Array(text) \in ArrayType
  <1>1. Len(text) \in Nat /\ \A i \in 1 .. Len(text) : text[i] \in Chars
    BY LenProperties, ElementOfSeq
  <1>2. \A i \in 1 .. Size : i <= Len(text) => i \in 1 .. Len(text)
    BY <1>1, SizeAssumption
  <1> QED BY <1>1, <1>2 DEF Array, ArrayType

(* The array up to its first end is a text.                                *)
LEMMA TextIsTyped ==
  ASSUME NEW array \in ArrayType
  PROVE  Text(array) \in Seq(Chars) /\ Len(Text(array)) \in 0 .. Size
  <1> DEFINE ends == {i \in 1 .. Size : array[i] = NUL}
             first == CHOOSE i \in ends : \A j \in ends : i <= j
             n == IF ends = {} THEN Size ELSE first - 1
  <1>0. Size \in Nat
    BY SizeAssumption
  <1>1. ends # {} => first \in 1 .. Size /\ \A j \in ends : first <= j
    <2>1. ends \subseteq Nat
      <3>1. \A i \in 1 .. Size : i \in Nat
        BY <1>0
      <3> QED BY <3>1
    <2>2. ends # {} => first \in ends /\ \A j \in ends : first <= j
      BY <2>1, Least
    <2> QED BY <2>2
  <1> HIDE DEF first
  <1>2. n \in 0 .. Size /\ \A i \in 1 .. n : i \in 1 .. Size /\ i \notin ends
    BY <1>0, <1>1
  <1>3. \A i \in 1 .. n : array[i] \in Chars
    BY <1>2 DEF ArrayType
  <1>4. Text(array) = SubSeq(array, 1, n)
    BY DEF Text, first
  <1> HIDE DEF n
  <1>5. n \in Int /\ 1 \in Int
    BY <1>0, <1>2
  <1>6. /\ SubSeq(array, 1, n) \in Seq(Chars)
        /\ Len(SubSeq(array, 1, n)) = IF 1 <= n THEN n - 1 + 1 ELSE 0
    BY <1>3, <1>5, SubSeqProperties
  <1> QED BY <1>0, <1>2, <1>4, <1>6

(* A text that leaves room for its end is the text of its array.           *)
LEMMA TextOfArray ==
  ASSUME NEW text \in Seq(Chars), Len(text) < Size
  PROVE  Text(Array(text)) = text
  <1> DEFINE l == Len(text)
             a == Array(text)
             ends == {i \in 1 .. Size : a[i] = NUL}
             first == CHOOSE i \in ends : \A j \in ends : i <= j
  <1>1. l \in Nat /\ Size \in Nat /\ \A i \in 1 .. l : text[i] \in Chars
    BY LenProperties, ElementOfSeq, SizeAssumption
  <1>2. \A i \in 1 .. Size : a[i] = IF i <= l THEN text[i] ELSE NUL
    BY DEF Array
  <1>3. Text(a) = SubSeq(a, 1, IF ends = {} THEN Size ELSE first - 1)
    BY DEF Text
  <1> HIDE DEF l, a
  <1>4. \A i \in 1 .. Size : i \in ends <=> i > l
    <2>1. \A i \in 1 .. Size : i <= l => i \in 1 .. l
      BY <1>1
    <2>2. \A i \in 1 .. l : text[i] # NUL
      BY <1>1, NoNUL
    <2> QED BY <1>1, <1>2, <2>1, <2>2
  <1>5. l + 1 \in ends /\ \A i \in ends : l + 1 <= i
    <2>1. l + 1 \in 1 .. Size
      BY <1>1 DEF l
    <2> QED BY <1>1, <1>4, <2>1
  <1>6. first = l + 1
    <2>1. \A i \in ends : i \in Int
      BY <1>1
    <2>2. first \in ends /\ \A j \in ends : first <= j
      BY <1>5
    <2>3. first <= l + 1 /\ l + 1 <= first /\ first \in Int
      BY <1>5, <2>1, <2>2
    <2> HIDE DEF first
    <2> QED BY <1>1, <2>3
  <1>7. Text(a) = SubSeq(a, 1, l)
    <2> DEFINE e == IF ends = {} THEN Size ELSE first - 1
    <2>1. Text(a) = SubSeq(a, 1, e)
      BY <1>3
    <2>2. e = l
      BY <1>1, <1>5, <1>6
    <2> HIDE DEF e, first
    <2> QED BY <2>1, <2>2
  <1>8. \A i \in 1 .. l : i \in 1 .. Size /\ a[i] = text[i]
    <2>1. \A i \in 1 .. l : i \in 1 .. Size /\ i <= l
      BY <1>1 DEF l
    <2> QED BY <1>2, <2>1
  <1>9. /\ SubSeq(a, 1, l) \in Seq(Chars)
        /\ Len(SubSeq(a, 1, l)) = IF 1 <= l THEN l - 1 + 1 ELSE 0
        /\ \A i \in 1 .. l - 1 + 1 : SubSeq(a, 1, l)[i] = a[1 + i - 1]
    <2>1. l \in Int /\ 1 \in Int /\ \A i \in 1 .. l : a[i] \in Chars
      BY <1>1, <1>8
    <2> QED BY <2>1, SubSeqProperties
  <1>10. Len(SubSeq(a, 1, l)) = l /\ \A i \in 1 .. l : SubSeq(a, 1, l)[i] = text[i]
    <2>1. \A i \in 1 .. l : 1 + i - 1 = i /\ i \in 1 .. l - 1 + 1
      BY <1>1
    <2>2. \A i \in 1 .. l : SubSeq(a, 1, l)[i] = a[i]
      BY <1>9, <2>1
    <2> QED BY <1>1, <1>8, <1>9, <2>2
  <1>11. SubSeq(a, 1, l) = text
    BY <1>9, <1>10, SeqEqual DEF l
  <1> QED BY <1>7, <1>11 DEF a

-----------------------------------------------------------------------------
(* What is completed, and what with.                                       *)

(* Where a chunk ends.                                                     *)
LEMMA ChunkEnds ==
  ASSUME NEW text \in Seq(Chars), NEW i \in 1 .. Len(text), text[i] # Slash
  PROVE  \E j \in i .. Len(text) :
           /\ \A k \in i .. j : text[k] # Slash
           /\ j = Len(text) \/ text[j + 1] = Slash
  <1> DEFINE l == Len(text)
             T == {j \in i .. l : j = l \/ text[j + 1] = Slash}
  <1>1. l \in Nat /\ i \in Nat
    BY LenProperties
  <1>2. T \subseteq Nat /\ l \in T
    BY <1>1
  <1>3. PICK j \in T : \A m \in T : j <= m
    BY <1>2, Least
  <1>4. ASSUME NEW k \in i .. j, text[k] = Slash PROVE FALSE
    <2>1. k # i /\ k \in Nat /\ j \in Nat /\ j <= l
      BY <1>1, <1>3, <1>4
    <2>2. k - 1 \in i .. l /\ k - 1 + 1 = k /\ ~ (j <= k - 1)
      BY <1>1, <1>4, <2>1
    <2>3. k - 1 \in T
      BY <1>4, <2>2
    <2> QED BY <1>3, <2>2, <2>3
  <1> QED BY <1>3, <1>4

LEMMA ChunksType ==
  ASSUME NEW text \in Seq(Chars)
  PROVE  Chunks(text) \in Seq(Seq(Chars))
  <1> DEFINE l == Len(text)
             starts == {i \in 1 .. l :
                          text[i] # Slash /\ (i = 1 \/ text[i - 1] = Slash)}
             end(i) == CHOOSE j \in i .. l :
                         /\ \A k \in i .. j : text[k] # Slash
                         /\ j = l \/ text[j + 1] = Slash
             n == Cardinality(starts)
             chunk(c) == SubSeq(text, Nth(starts, c), end(Nth(starts, c)))
  <1>1. l \in Nat /\ starts \subseteq 1 .. l
    BY LenProperties
  <1>2. n \in Nat
    BY <1>1, UpToSets
  <1>3. ASSUME NEW i \in starts PROVE SubSeq(text, i, end(i)) \in Seq(Chars)
    <2>1. i \in 1 .. l /\ text[i] # Slash
      OBVIOUS
    <2>2. end(i) \in i .. l
      BY <2>1, ChunkEnds
    <2> HIDE DEF end
    <2>3. end(i) \in 0 .. l /\ i \in Nat \ {0}
      BY <1>1, <2>1, <2>2
    <2> QED BY <2>3, PartType
  <1>4. ASSUME NEW c \in 1 .. n PROVE chunk(c) \in Seq(Chars)
    <2>1. Nth(starts, c) \in starts
      BY <1>1, NthIsOne
    <2> QED BY <1>3, <2>1
  <1>5. Chunks(text) = [c \in 1 .. n |-> chunk(c)]
    BY DEF Chunks
  <1> HIDE DEF n, chunk
  <1> QED BY <1>2, <1>4, <1>5

(* What is behind the last separator.                                      *)
LEMMA BehindType ==
  ASSUME NEW text \in Seq(Chars), NEW separator
  PROVE  /\ Behind(text, separator) \in Seq(Chars)
         /\ Len(Behind(text, separator)) \in 0 .. Len(text)
  <1> DEFINE l == Len(text)
             T == {i \in 0 .. l : i = 0 \/ text[i] = separator}
             b == CHOOSE i \in 0 .. l :
                    /\ i = 0 \/ text[i] = separator
                    /\ \A k \in i + 1 .. l : text[k] # separator
  <1>1. l \in Nat
    BY LenProperties
  <1>2. b \in 0 .. l
    <2>1. T \subseteq 0 .. l /\ 0 \in T
      BY <1>1
    <2>2. PICK i \in T : \A j \in T : j <= i
      BY <1>1, <2>1, Greatest
    <2>3. ASSUME NEW k \in i + 1 .. l, text[k] = separator PROVE FALSE
      <3>1. k \in T /\ ~ (k <= i)
        BY <1>1, <2>3
      <3> QED BY <2>2, <3>1
    <2>4. \E i_1 \in 0 .. l : /\ i_1 = 0 \/ text[i_1] = separator
                              /\ \A k \in i_1 + 1 .. l : text[k] # separator
      BY <2>3
    <2> QED BY <2>4
  <1>3. Behind(text, separator) = SubSeq(text, b + 1, l)
    BY DEF Behind
  <1> HIDE DEF b
  <1>4. b + 1 \in Nat \ {0} /\ l \in 0 .. l /\ b \in Nat
    BY <1>1, <1>2
  <1>5. /\ Behind(text, separator) \in Seq(Chars)
        /\ Len(Behind(text, separator)) = IF b + 1 <= l THEN l - (b + 1) + 1 ELSE 0
    BY <1>3, <1>4, PartType
  <1>6. Len(Behind(text, separator)) \in 0 .. l
    BY <1>1, <1>2, <1>4, <1>5
  <1> QED BY <1>5, <1>6

(* A text without the spaces around it.                                    *)
LEMMA TrimType ==
  ASSUME NEW text \in Seq(Chars)
  PROVE  Trim(text) \in Seq(Chars) /\ Len(Trim(text)) \in 0 .. Len(text)
  <1> DEFINE l == Len(text)
             word == {i \in 1 .. l : text[i] # Space}
             m == CHOOSE i \in word : \A j \in word : i <= j
             n == CHOOSE i \in word : \A j \in word : j <= i
  <1>1. l \in Nat
    BY LenProperties
  <1>2. CASE word = {}
    <2>1. Trim(text) = <<>>
      BY <1>2 DEF Trim
    <2> QED BY <1>1, <2>1, EmptySeq
  <1>3. CASE word # {}
    <2>1. word \subseteq Nat /\ word \subseteq 0 .. l /\ word \subseteq 1 .. l
      BY <1>1
    <2> HIDE DEF word
    <2>2. m \in word
      BY <1>3, <2>1, Least
    <2>3. n \in word
      BY <1>1, <1>3, <2>1, Greatest
    <2>4. Trim(text) = SubSeq(text, m, n)
      BY <1>3 DEF Trim, word
    <2> HIDE DEF m, n
    <2>5. m \in Nat \ {0} /\ n \in 0 .. l
      BY <1>1, <2>1, <2>2, <2>3
    <2>6. /\ Trim(text) \in Seq(Chars)
          /\ Len(Trim(text)) = IF m <= n THEN n - m + 1 ELSE 0
      BY <2>4, <2>5, PartType
    <2> QED BY <1>1, <2>5, <2>6
  <1> QED BY <1>2, <1>3

(* What is left of the line without the prefix.                            *)
LEMMA PlainType ==
  ASSUME line \in ArrayType
  PROVE  /\ Stripped \in ArrayType
         /\ Plain \in Seq(Chars)
         /\ Len(Plain) \in 0 .. Size
  <1>1. Stripped \in ArrayType
    <2> DEFINE p == Len(Prefix)
               left == Size + 2 * p - Len(Text(line))
    <2>1. CASE ~HasPrefix
      BY <2>1 DEF Stripped
    <2>2. CASE HasPrefix
      <3>1. Stripped = [i \in 1 .. Size |-> IF i <= p THEN line[p + i]
                                            ELSE IF i <= left THEN NUL ELSE line[i]]
        BY <2>2 DEF Stripped
      <3>2. p \in Nat /\ 2 * p <= Size /\ Size \in Nat
        BY TextsAssumption, SizeAssumption, LenProperties
      <3> HIDE DEF p, left
      <3>3. \A i \in 1 .. Size : i <= p => p + i \in 1 .. Size
        BY <3>2
      <3>4. \A i \in 1 .. Size : line[i] \in Chars \cup {NUL}
        BY DEF ArrayType
      <3>5. \A i \in 1 .. Size : (IF i <= p THEN line[p + i]
                                  ELSE IF i <= left THEN NUL ELSE line[i])
                                   \in Chars \cup {NUL}
        BY <3>3, <3>4
      <3> QED BY <3>1, <3>5 DEF ArrayType
    <2> QED BY <2>1, <2>2
  <1> QED BY <1>1, TextIsTyped DEF Plain

(* The candidates are texts.                                               *)
LEMMA CandidatesType == Candidates \in Seq(Seq(Chars))
  <1>1. Types \in Seq(Seq(Chars)) /\ Popular \in Seq(Seq(Chars)) /\ <<>> \in Seq(Seq(Chars))
    BY TextsAssumption, EmptySeq
  <1>2. First \in DOMAIN Names => Names[First] \in Seq(Seq(Chars))
    BY TextsAssumption
  <1>3. First \in DOMAIN Radios => Radios[First] \in Seq(Seq(Chars))
    BY TextsAssumption
  <1>4. CASE AtTags
    <2>1. Candidates = Popular
      BY <1>4 DEF Candidates
    <2> QED BY <1>1, <2>1
  <1>5. CASE ~AtTags
    <2>1. CASE Level = 1
      BY <1>1, <1>5, <2>1 DEF Candidates
    <2>2. CASE Level = 2
      BY <1>1, <1>2, <1>5, <2>2 DEF Candidates
    <2>3. CASE Level = 3
      BY <1>1, <1>3, <1>5, <2>3 DEF Candidates
    <2>4. CASE Level # 1 /\ Level # 2 /\ Level # 3
      BY <1>1, <1>5, <2>4 DEF Candidates
    <2> QED BY <2>1, <2>2, <2>3, <2>4
  <1> QED BY <1>4, <1>5

(* The match after another is the next one, or the first of all.           *)
LEMMA AfterIsNext ==
  ASSUME NEW n \in Nat, NEW found, found \subseteq 1 .. n, found # {}, NEW i \in Nat
  PROVE  /\ After(found, i) \in found
         /\ \A m \in found : m > i => After(found, i) > i /\ After(found, i) <= m
         /\ (\A m \in found : ~(m > i)) => \A m \in found : After(found, i) <= m
  <1> DEFINE later == {m \in found : m > i}
             rest == IF later = {} THEN found ELSE later
             a == CHOOSE m \in rest : \A k \in rest : m <= k
  <1>1. rest \subseteq Nat /\ rest # {}
    <2>1. \A m \in found : m \in 1 .. n
      OBVIOUS
    <2>2. found \subseteq Nat
      BY <2>1
    <2> QED BY <2>2
  <1>2. a \in rest /\ \A k \in rest : a <= k
    BY <1>1, Least
  <1>3. After(found, i) = a
    BY DEF After
  <1> HIDE DEF a
  <1> QED BY <1>2, <1>3

(* What nextmatch() returns is one of the candidates.                      *)
LEMMA NextIsListed ==
  ASSUME NEW list \in Seq(Seq(Chars)), NEW text, NEW fresh \in BOOLEAN, lastmatch \in Nat,
         NextMatch(list, text, fresh).found
  PROVE  LET next == NextMatch(list, text, fresh)
         IN next.match \in 1 .. Len(list) /\ list[next.match] \in Seq(Chars)
  <1> DEFINE wanted == IF fresh THEN text ELSE needle
             found == Matches(list, wanted)
             from == IF fresh THEN 0 ELSE lastmatch
             next == NextMatch(list, text, fresh)
  <1>1. Len(list) \in Nat /\ \A i \in 1 .. Len(list) : list[i] \in Seq(Chars)
    BY LenProperties, ElementOfSeq
  <1>2. found # {} /\ next.match = After(found, from)
    BY DEF NextMatch
  <1>3. found \subseteq 1 .. Len(list)
    BY DEF Matches
  <1>4. from \in Nat
    OBVIOUS
  <1> HIDE DEF found, next, from
  <1>5. After(found, from) \in found
    BY <1>1, <1>2, <1>3, <1>4, AfterIsNext
  <1> QED BY <1>1, <1>2, <1>3, <1>5 DEF next

(* The tags at the end of the line, and what is before them.               *)
LEMMA TagsType ==
  ASSUME line \in ArrayType
  PROVE  /\ Path \in Seq(Chars) /\ Tags \in Seq(Chars)
         /\ Len(Path) + Len(Tags) \in 0 .. Size
         /\ Len(Path) \in Nat /\ Len(Tags) \in Nat
  <1>1. Plain \in Seq(Chars) /\ Len(Plain) \in 0 .. Size /\ Size \in Nat
    BY PlainType, SizeAssumption
  <1>2. CASE kind = "tags"
    <2>1. Path = <<>> /\ Tags = Trim(Plain)
      BY <1>2 DEF Path, Tags
    <2>2. Trim(Plain) \in Seq(Chars) /\ Len(Trim(Plain)) \in 0 .. Len(Plain)
      BY <1>1, TrimType
    <2>3. Len(<<>>) = 0 /\ <<>> \in Seq(Chars)
      BY EmptySeq
    <2> QED BY <1>1, <2>1, <2>2, <2>3
  <1>3. CASE kind # "tags"
    <2> DEFINE l == Len(Plain)
               b == Behind(Plain, Slash)
               n == l - Len(b)
    <2>1. Path = SubSeq(Plain, 1, n) /\ Tags = Trim(b)
      BY <1>3 DEF Path, Tags
    <2>2. b \in Seq(Chars) /\ Len(b) \in 0 .. l
      BY <1>1, BehindType
    <2>3. Trim(b) \in Seq(Chars) /\ Len(Trim(b)) \in 0 .. Len(b)
      BY <2>2, TrimType
    <2>4. l \in Nat /\ n \in 0 .. l
      BY <1>1, <2>2
    <2> HIDE DEF n
    <2>5. /\ SubSeq(Plain, 1, n) \in Seq(Chars)
          /\ Len(SubSeq(Plain, 1, n)) = IF 1 <= n THEN n - 1 + 1 ELSE 0
      BY <1>1, <2>4, PartType
    <2>6. Len(Path) = n
      BY <2>1, <2>4, <2>5
    <2>7. Len(Tags) \in 0 .. Len(b)
      BY <2>1, <2>3
    <2> HIDE DEF b, l
    <2>8. n = l - Len(b)
      BY DEF n, l, b
    <2>9. Len(b) \in Nat /\ l \in 0 .. Size
      BY <1>1, <2>2, <2>4 DEF l
    <2>10. n + Len(Tags) \in 0 .. Size /\ Len(Tags) \in Nat /\ n \in Nat
      BY <1>1, <2>4, <2>7, <2>8, <2>9
    <2> QED BY <2>1, <2>3, <2>5, <2>6, <2>10
  <1> QED BY <1>2, <1>3

(* What is completed.                                                      *)
LEMMA WordType ==
  ASSUME line \in ArrayType
  PROVE  Word \in Seq(Chars) /\ (AtTags => Len(Word) \in 0 .. Len(Tags))
  <1>1. CASE AtTags
    BY <1>1, TagsType, BehindType DEF Word
  <1>2. CASE ~AtTags /\ (Ended \/ Chunks(Plain) = <<>>)
    <2>1. Word = <<>>
      BY <1>2 DEF Word
    <2> QED BY <1>2, <2>1, EmptySeq
  <1>3. CASE ~AtTags /\ ~(Ended \/ Chunks(Plain) = <<>>)
    <2> DEFINE chunks == Chunks(Plain)
    <2>1. chunks \in Seq(Seq(Chars)) /\ chunks # <<>>
      BY <1>3, PlainType, ChunksType
    <2>2. Word = Last(chunks)
      BY <1>3 DEF Word
    <2> HIDE DEF chunks
    <2>3. Len(chunks) \in Nat \ {0}
      BY <2>1, EmptySeq
    <2>4. chunks[Len(chunks)] \in Seq(Chars)
      BY <2>1, <2>3, ElementOfSeq
    <2> QED BY <1>3, <2>2, <2>4 DEF Last
  <1> QED BY <1>1, <1>2, <1>3

(* What is before the completion; before a tag, it fits into the array.    *)
LEMMA BeforeType ==
  ASSUME line \in ArrayType
  PROVE  Before \in Seq(Chars) /\ (AtTags => Len(Before) \in 0 .. Size)
  <1>0. Size \in Nat
    BY SizeAssumption
  <1>1. CASE AtTags
    <2> DEFINE n == Len(Tags) - Len(Word)
    <2>1. /\ Path \in Seq(Chars) /\ Tags \in Seq(Chars)
          /\ Len(Path) + Len(Tags) \in 0 .. Size
          /\ Len(Path) \in Nat /\ Len(Tags) \in Nat
      BY TagsType
    <2>2. n \in 0 .. Len(Tags)
      <3>1. Len(Word) \in 0 .. Len(Tags)
        BY <1>1, WordType
      <3> QED BY <2>1, <3>1
    <2>3. Before = Path \o SubSeq(Tags, 1, n)
      BY <1>1 DEF Before
    <2> HIDE DEF n
    <2>4. /\ SubSeq(Tags, 1, n) \in Seq(Chars)
          /\ Len(SubSeq(Tags, 1, n)) = IF 1 <= n THEN n - 1 + 1 ELSE 0
      BY <2>1, <2>2, PartType
    <2>5. Len(SubSeq(Tags, 1, n)) \in 0 .. Len(Tags)
      BY <2>1, <2>2, <2>4
    <2>6. Before \in Seq(Chars) /\ Len(Before) = Len(Path) + Len(SubSeq(Tags, 1, n))
      BY <2>1, <2>3, <2>4, BothType, Zenon
    <2>7. ASSUME NEW x \in Nat, NEW y \in Nat, NEW z \in 0 .. y, x + y \in 0 .. Size
          PROVE  x + z \in 0 .. Size
      BY <1>0, <2>7
    <2>8. Len(Before) \in 0 .. Size
      BY <2>1, <2>5, <2>6, <2>7, Zenon
    <2> QED BY <2>6, <2>8
  <1>2. CASE ~AtTags
    <2> DEFINE chunks == Chunks(Plain)
    <2>1. chunks \in Seq(Seq(Chars)) /\ Len(chunks) \in Nat
      BY PlainType, ChunksType, LenProperties
    <2>2. Level = Len(chunks) \/ Level = Len(chunks) + 1
      BY <2>1 DEF Level
    <2>3. Slash \in Chars
      BY DEF Chars
    <2>4. First = chunks[1]
      BY DEF First
    <2> HIDE DEF chunks
    <2>5. 1 \in 1 .. Len(chunks) => Append(First, Slash) \in Seq(Chars)
      <3>1. 1 \in 1 .. Len(chunks) => chunks[1] \in Seq(Chars)
        BY <2>1, ElementOfSeq
      <3> QED BY <2>3, <2>4, <3>1, AppendProperties
    <2>6. CASE Level = 2
      <3>1. Before = Append(First, Slash)
        BY <1>2, <2>6 DEF Before
      <3>2. 1 \in 1 .. Len(chunks)
        <4> DEFINE l == Len(chunks)
        <4>1. l \in Nat /\ (2 = l \/ 2 = l + 1)
          BY <2>1, <2>2, <2>6
        <4> HIDE DEF l
        <4>2. 1 \in 1 .. l
          BY <4>1
        <4> QED BY <4>2 DEF l
      <3> QED BY <1>2, <2>5, <3>1, <3>2
    <2>7. CASE Level = 3
      <3>1. Before = Append(First, Slash) \o Append(chunks[2], Slash)
        <4>1. Level # 2
          BY <2>7
        <4> QED BY <1>2, <2>7, <4>1 DEF Before, chunks
      <3>2. 1 \in 1 .. Len(chunks) /\ 2 \in 1 .. Len(chunks)
        <4> DEFINE l == Len(chunks)
        <4>1. l \in Nat /\ (3 = l \/ 3 = l + 1)
          BY <2>1, <2>2, <2>7
        <4> HIDE DEF l
        <4>2. 1 \in 1 .. l /\ 2 \in 1 .. l
          BY <4>1
        <4> QED BY <4>2 DEF l
      <3>3. chunks[2] \in Seq(Chars)
        BY <2>1, <3>2, ElementOfSeq
      <3>4. Append(chunks[2], Slash) \in Seq(Chars)
        BY <2>3, <3>3, AppendProperties
      <3>5. Append(First, Slash) \in Seq(Chars)
        BY <2>5, <3>2
      <3>6. Before \in Seq(Chars)
        BY <3>1, <3>4, <3>5, ConcatProperties
      <3> QED BY <1>2, <3>6
    <2>8. CASE Level # 2 /\ Level # 3
      <3>1. Before = <<>>
        BY <1>2, <2>8 DEF Before
      <3> QED BY <1>2, <3>1, EmptySeq
    <2> QED BY <2>6, <2>7, <2>8
  <1> QED BY <1>1, <1>2

(* What is printed fits into the array.                                    *)
LEMMA PrintedType ==
  ASSUME line \in ArrayType, NEW rest \in Seq(Chars)
  PROVE  Printed(rest) \in Seq(Chars) /\ Len(Printed(rest)) \in 0 .. Size
  <1> DEFINE all == Before \o rest
             room == IF ~AtTags THEN Size - 1
                     ELSE IF Len(Before) < Size - 2 THEN Size - 2 ELSE Len(Before)
             n == IF Len(all) < room THEN Len(all) ELSE room
  <1>1. Size \in Nat \ {0, 1}
    BY SizeAssumption
  <1>2. /\ Before \in Seq(Chars) /\ Len(Before) \in Nat /\ Len(rest) \in Nat
        /\ AtTags => Len(Before) \in 0 .. Size
    BY BeforeType, LenProperties
  <1>3. all \in Seq(Chars) /\ Len(all) \in Nat
    BY <1>2, ConcatProperties, LenProperties
  <1>4. Printed(rest) = SubSeq(all, 1, n)
    BY DEF Printed
  <1> HIDE DEF all
  <1>5. room \in 0 .. Size
    BY <1>1, <1>2
  <1> HIDE DEF room
  <1>6. n \in 0 .. Len(all) /\ n \in 0 .. Size
    BY <1>1, <1>3, <1>5
  <1> HIDE DEF n
  <1>7. /\ SubSeq(all, 1, n) \in Seq(Chars)
        /\ Len(SubSeq(all, 1, n)) = IF 1 <= n THEN n - 1 + 1 ELSE 0
    BY <1>3, <1>6, PartType
  <1> QED BY <1>1, <1>4, <1>6, <1>7

(* What a Tab makes of the line.                                           *)
LEMMA CompletedType ==
  ASSUME line \in ArrayType, lastmatch \in Nat, NEW fresh \in BOOLEAN
  PROVE  LET next == NextMatch(Candidates, Word, fresh)
         IN Completed(next) \in Seq(Chars) /\ Len(Completed(next)) \in 0 .. Size
  <1> DEFINE next == NextMatch(Candidates, Word, fresh)
  <1> SUFFICES Completed(next) \in Seq(Chars) /\ Len(Completed(next)) \in 0 .. Size
    OBVIOUS
  <1>1. CASE next.found
    <2>1. Candidates[next.match] \in Seq(Chars)
      BY <1>1, CandidatesType, NextIsListed
    <2>2. Suffix(next.many) \in Seq(Chars)
      <3>1. Slash \in Chars /\ Comma \in Chars
        BY DEF Chars
      <3>2. <<Slash>> \in Seq(Chars) /\ <<Comma>> \in Seq(Chars) /\ <<>> \in Seq(Chars)
        BY <3>1, EmptySeq
      <3> QED BY <3>2, Zenon DEF Suffix
    <2>3. Completed(next) = Printed(Candidates[next.match] \o Suffix(next.many))
      BY <1>1 DEF Completed
    <2>4. Candidates[next.match] \o Suffix(next.many) \in Seq(Chars)
      BY <2>1, <2>2, BothType, Zenon
    <2> HIDE DEF next
    <2>5. Printed(Candidates[next.match] \o Suffix(next.many)) \in Seq(Chars)
          /\ Len(Printed(Candidates[next.match] \o Suffix(next.many))) \in 0 .. Size
      BY <2>4, PrintedType, Zenon
    <2> QED BY <2>3, <2>5, Zenon
  <1>2. CASE ~next.found /\ ~AtTags /\ Level = 3 /\ Candidates # <<>>
    <2>1. Completed(next) = Printed(Word)
      BY <1>2 DEF Completed
    <2> HIDE DEF next
    <2> QED BY <2>1, WordType, PrintedType
  <1>3. CASE ~next.found /\ ~(~AtTags /\ Level = 3 /\ Candidates # <<>>)
    <2>1. Completed(next) = Seen
      BY <1>3, Zenon DEF Completed
    <2> HIDE DEF next
    <2>2. CASE ~AtTags
      <3>1. Seen = Plain
        BY <2>2 DEF Seen
      <3> QED BY <2>1, <3>1, PlainType
    <2>3. CASE AtTags
      <3>1. /\ Path \in Seq(Chars) /\ Tags \in Seq(Chars)
            /\ Len(Path) + Len(Tags) \in 0 .. Size
        BY TagsType
      <3>2. Seen = Path \o Tags
        BY <2>3 DEF Seen
      <3>3. Path \o Tags \in Seq(Chars) /\ Len(Path \o Tags) = Len(Path) + Len(Tags)
        BY <3>1, BothType, Zenon
      <3> QED BY <2>1, <3>1, <3>2, <3>3
    <2> QED BY <2>2, <2>3
  <1> QED BY <1>1, <1>2, <1>3

-----------------------------------------------------------------------------
(* The line.  What ^U left in the array are characters, too.               *)

LineOK ==
  /\ length \in 0 .. Size
  /\ shown \in Seq(Chars)
  /\ Len(shown) = length
  /\ line \in ArrayType
  /\ ~stale => line = Array(shown)

PromptOK ==
  /\ kind \in {"none", "radio", "tags", "stuck", "overrun", "eof"}
  /\ seq \in 0 .. 2
  /\ history \in Seq(Seq(Chars))
  /\ index \in Nat
  /\ changed \in BOOLEAN
  /\ stale \in BOOLEAN
  /\ lastmatch \in Nat
  /\ matches \in Nat

LineInv == LineOK /\ PromptOK

LEMMA NewLine ==
  ASSUME NEW text \in Seq(Chars), Len(text) \in 0 .. Size,
         line' = Array(text), length' = Len(text), shown' = text
  PROVE  LineOK'
  BY ArrayIsTyped DEF LineOK, ArrayType, Array

LEMMA ShorterLine ==
  ASSUME LineOK, NEW n \in 0 .. length, Shorten(n), stale' = stale
  PROVE  LineOK'
  <1> DEFINE m == length - n
             text == SubSeq(shown, 1, m)
  <1>1. length \in Nat /\ Size \in Nat /\ length <= Size /\ n \in Nat /\ n <= length
    BY SizeAssumption DEF LineOK
  <1>2. length' = m /\ m \in 0 .. length /\ shown' = text
    BY <1>1 DEF Shorten, LineOK
  <1>3. line' = [i \in 1 .. Size |-> IF i > m /\ i <= length THEN NUL ELSE line[i]]
    BY DEF Shorten
  <1> HIDE DEF m
  <1>4. /\ text \in Seq(Chars)
        /\ Len(text) = m
        /\ \A i \in 1 .. m : text[i] = shown[i]
    <2>1. m \in 0 .. Len(shown) /\ shown \in Seq(Chars) /\ 1 \in Nat \ {0} /\ m \in Nat
      BY <1>1, <1>2 DEF LineOK
    <2>2. /\ text \in Seq(Chars)
          /\ Len(text) = IF 1 <= m THEN m - 1 + 1 ELSE 0
          /\ \A i \in 1 .. m - 1 + 1 : text[i] = shown[1 + i - 1]
      BY <2>1, PartType
    <2>3. \A i \in 1 .. m : i \in 1 .. m - 1 + 1 /\ 1 + i - 1 = i
      BY <2>1
    <2>4. \A i \in 1 .. m : text[i] = shown[i]
      BY <2>2, <2>3
    <2> QED BY <2>1, <2>2, <2>4
  <1>5. line' \in ArrayType
    <2>1. \A i \in 1 .. Size : line[i] \in Chars \cup {NUL}
      BY DEF LineOK, ArrayType
    <2> QED BY <1>3, <2>1 DEF ArrayType
  <1>6. ASSUME ~stale PROVE line' = Array(text)
    <2>1. \A i \in 1 .. Size : line[i] = IF i <= length THEN shown[i] ELSE NUL
      BY <1>6 DEF LineOK, Array
    <2> HIDE DEF text
    <2>2. ASSUME NEW i \in 1 .. Size
          PROVE  (IF i > m /\ i <= length THEN NUL ELSE line[i]) =
                   (IF i <= Len(text) THEN text[i] ELSE NUL)
      <3>1. CASE i <= m
        <4>1. i \in 1 .. m /\ i <= length /\ ~(i > m)
          BY <1>1, <1>2, <3>1
        <4> QED BY <1>4, <2>1, <4>1, <3>1
      <3>2. CASE i > m
        <4>1. ~(i <= m)
          BY <1>1, <1>2, <3>2
        <4> QED BY <1>4, <2>1, <3>2, <4>1
      <3> QED BY <1>1, <1>2, <3>1, <3>2
    <2>3. [i \in 1 .. Size |-> IF i > m /\ i <= length THEN NUL ELSE line[i]] =
            [i \in 1 .. Size |-> IF i <= Len(text) THEN text[i] ELSE NUL]
      BY <2>2, Zenon
    <2> QED BY <1>3, <2>3 DEF Array
  <1>7. m \in 0 .. Size
    BY <1>1, <1>2
  <1> HIDE DEF text
  <1>8. line' \in ArrayType /\ (~stale' => line' = Array(text))
    BY <1>5, <1>6
  <1> QED BY <1>2, <1>4, <1>7, <1>8, Zenon DEF LineOK

LEMMA LongerLine ==
  ASSUME LineOK, NEW key \in Chars, length < Size,
         line' = [line EXCEPT ![length + 1] = key], length' = length + 1,
         shown' = Append(shown, key), stale' = stale
  PROVE  LineOK'
  <1>1. length \in Nat /\ Size \in Nat /\ length + 1 \in 1 .. Size
    BY SizeAssumption DEF LineOK
  <1>2. /\ shown' \in Seq(Chars)
        /\ Len(shown') = length + 1
        /\ \A i \in 1 .. length : shown'[i] = shown[i]
        /\ shown'[length + 1] = key
    <2>1. shown \in Seq(Chars) /\ Len(shown) = length
      BY DEF LineOK
    <2> QED BY <2>1, AppendProperties
  <1>3. line' = [i \in 1 .. Size |-> IF i = length + 1 THEN key ELSE line[i]]
    BY DEF LineOK, ArrayType
  <1>4. line' \in ArrayType
    BY <1>3 DEF LineOK, ArrayType
  <1>5. ASSUME ~stale PROVE line' = Array(shown')
    <2>1. \A i \in 1 .. Size : line[i] = IF i <= length THEN shown[i] ELSE NUL
      BY <1>5 DEF LineOK, Array
    <2>2. ASSUME NEW i \in 1 .. Size
          PROVE  (IF i = length + 1 THEN key ELSE line[i]) =
                   (IF i <= Len(shown') THEN shown'[i] ELSE NUL)
      <3>1. CASE i <= length
        <4>1. i \in 1 .. length /\ i # length + 1 /\ i <= length + 1
          BY <1>1, <3>1
        <4> QED BY <1>2, <2>1, <3>1, <4>1
      <3>2. CASE i = length + 1
        BY <1>1, <1>2, <3>2
      <3>3. CASE i > length + 1
        <4>1. ~(i <= length) /\ i # length + 1 /\ ~(i <= length + 1)
          BY <1>1, <3>3
        <4> QED BY <1>2, <2>1, <4>1
      <3> QED BY <1>1, <3>1, <3>2, <3>3
    <2>3. [i \in 1 .. Size |-> IF i = length + 1 THEN key ELSE line[i]] =
            [i \in 1 .. Size |-> IF i <= Len(shown') THEN shown'[i] ELSE NUL]
      BY <2>2, Zenon
    <2> QED BY <1>3, <2>3 DEF Array
  <1>6. line' \in ArrayType /\ (~stale' => line' = Array(shown'))
    BY <1>4, <1>5
  <1>7. length' \in 0 .. Size
    BY <1>1
  <1> QED BY <1>2, <1>6, <1>7 DEF LineOK

(* A text is cut to what leaves room for its end.                          *)
LEMMA FittingType ==
  ASSUME NEW text \in Seq(Chars)
  PROVE  Fitting(text) \in Seq(Chars) /\ Len(Fitting(text)) \in 0 .. Size
  <1>1. Size \in Nat \ {0, 1} /\ Len(text) \in Nat
    BY SizeAssumption, LenProperties
  <1>2. CASE Len(text) < Size
    BY <1>1, <1>2 DEF Fitting
  <1>3. CASE ~(Len(text) < Size)
    <2>1. Size - 1 \in 0 .. Len(text) /\ Size - 1 \in Nat /\ 1 \in Nat \ {0}
      BY <1>1, <1>3
    <2>2. /\ SubSeq(text, 1, Size - 1) \in Seq(Chars)
          /\ Len(SubSeq(text, 1, Size - 1)) = IF 1 <= Size - 1 THEN Size - 1 - 1 + 1 ELSE 0
      BY <2>1, PartType
    <2> QED BY <1>1, <1>3, <2>2 DEF Fitting
  <1> QED BY <1>2, <1>3

LEMMA UniqType ==
  ASSUME NEW texts \in Seq(Seq(Chars))
  PROVE  Uniq(texts) \in Seq(Seq(Chars))
  <1> DEFINE l == Len(texts)
             first == {i \in 1 .. l : \A j \in 1 .. i - 1 : texts[j] # texts[i]}
             n == Cardinality(first)
             entry(c) == texts[Nth(first, c)]
  <1>1. l \in Nat /\ first \subseteq 1 .. l
    BY LenProperties
  <1>2. n \in Nat
    BY <1>1, UpToSets
  <1>3. ASSUME NEW c \in 1 .. n PROVE entry(c) \in Seq(Chars)
    <2>1. Nth(first, c) \in first
      BY <1>1, NthIsOne
    <2>2. Nth(first, c) \in 1 .. l
      BY <2>1
    <2> QED BY <2>2, ElementOfSeq
  <1>4. Uniq(texts) = [c \in 1 .. n |-> entry(c)]
    BY DEF Uniq
  <1> HIDE DEF n, entry
  <1> QED BY <1>2, <1>3, <1>4

(* Each key leaves a line.                                                 *)
LEMMA InitLine == Init => LineInv
  <1> SUFFICES ASSUME Init PROVE LineInv
    OBVIOUS
  <1>1. <<>> \in Seq(Chars) /\ <<>> \in Seq(Seq(Chars)) /\ Len(<<>>) = 0
    BY EmptySeq
  <1>2. LineOK
    <2>1. length \in 0 .. Size
      BY SizeAssumption DEF Init
    <2>2. shown = <<>> /\ line = Array(<<>>) /\ length = 0
      BY DEF Init
    <2>3. Len(shown) = length /\ line \in ArrayType /\ line = Array(shown) /\ shown \in Seq(Chars)
      BY <1>1, <2>2, ArrayIsTyped
    <2> QED BY <2>1, <2>3 DEF LineOK
  <1>3. PromptOK
    <2>1. history \in Seq(Seq(Chars))
      BY <1>1, Zenon DEF Init
    <2>2. /\ kind = "none" /\ seq = 0 /\ index = 0 /\ changed = TRUE /\ stale = FALSE
          /\ lastmatch = 0 /\ matches = 0
      BY DEF Init
    <2>3. /\ kind \in {"none", "radio", "tags", "stuck", "overrun", "eof"} /\ seq \in 0 .. 2 /\ index \in Nat
          /\ lastmatch \in Nat /\ matches \in Nat
      BY <2>2
    <2>4. changed \in BOOLEAN /\ stale \in BOOLEAN
      BY <2>2, Zenon
    <2> QED BY <2>1, <2>3, <2>4, Zenon DEF PromptOK
  <1> QED BY <1>2, <1>3 DEF LineInv

LEMMA BeginLine ==
  ASSUME LineInv, NEW which \in {"radio", "tags"}, NEW text \in Seq(Chars),
         Len(text) \in 0 .. Size, NEW texts \in Seq(Seq(Chars)), Begin(which, text, texts)
  PROVE  LineInv'
  <1>1. LineOK'
    BY NewLine DEF Begin
  <1>2. Len(texts) + 1 \in Nat
    BY LenProperties
  <1>3. PromptOK'
    <2>1. /\ kind' \in {"none", "radio", "tags", "stuck", "overrun", "eof"} /\ seq' = 0 /\ changed' = TRUE
          /\ stale' = FALSE /\ lastmatch' = lastmatch /\ matches' = matches
      BY DEF Begin, search
    <2>2. history' = texts /\ index' = Len(texts) + 1
      BY DEF Begin
    <2>3. history' \in Seq(Seq(Chars)) /\ index' \in Nat
      BY <1>2, <2>2
    <2>4. seq' \in 0 .. 2
      BY <2>1
    <2>5. changed' \in BOOLEAN /\ stale' \in BOOLEAN
      BY <2>1, Zenon
    <2>6. lastmatch' \in Nat /\ matches' \in Nat
      BY <2>1, Zenon DEF LineInv, PromptOK
    <2> QED BY <2>1, <2>3, <2>4, <2>5, <2>6, Zenon DEF PromptOK
  <1> QED BY <1>1, <1>3 DEF LineInv

LEMMA BrowseLine ==
  ASSUME LineInv, NEW i \in Nat, Browse(i)
  PROVE  LineOK' /\ index' \in Nat /\ stale' \in BOOLEAN
  <1>1. CASE 0 < i /\ i <= Len(history)
    <2> DEFINE text == Fitting(history[i])
               last == IF length = Size THEN NUL ELSE line[Size]
    <2>1. text \in Seq(Chars) /\ Len(text) \in 0 .. Size
      <3>1. i \in 1 .. Len(history) /\ history \in Seq(Seq(Chars))
        <4>1. history \in Seq(Seq(Chars)) /\ Len(history) \in Nat
          BY LenProperties DEF LineInv, PromptOK
        <4> QED BY <1>1, <4>1
      <3>2. history[i] \in Seq(Chars)
        BY <3>1, ElementOfSeq
      <3> QED BY <3>2, FittingType
    <2>2. /\ line' = Fetched(text) /\ length' = Len(text) /\ shown' = text
          /\ stale' = (Fetched(text) # Array(text)) /\ index' = i
      BY <1>1 DEF Browse
    <2> HIDE DEF text
    <2>3. Fetched(text) \in ArrayType
      <3>1. Array(text) \in ArrayType
        BY <2>1, ArrayIsTyped
      <3>2. Fetched(text) = [Array(text) EXCEPT ![Size] = last]
        BY DEF Fetched
      <3>3. last \in Chars \cup {NUL}
        <4>1. Size \in 1 .. Size
          BY SizeAssumption
        <4>2. line[Size] \in Chars \cup {NUL}
          BY <4>1 DEF LineInv, LineOK, ArrayType
        <4> QED BY <4>2
      <3> HIDE DEF last
      <3> QED BY <3>1, <3>2, <3>3 DEF ArrayType
    <2>4. LineOK'
      <3>1. ~stale' => line' = Array(shown')
        BY <2>2
      <3>2. line' \in ArrayType
        BY <2>2, <2>3
      <3>3. length' \in 0 .. Size /\ shown' \in Seq(Chars) /\ Len(shown') = length'
        BY <2>1, <2>2
      <3> QED BY <3>1, <3>2, <3>3, Zenon DEF LineOK, ArrayType
    <2> QED BY <2>2, <2>4
  <1>2. CASE ~(0 < i /\ i <= Len(history))
    <2>1. Shorten(length) /\ stale' = stale /\ index' = i
      BY <1>2 DEF Browse
    <2>2. length \in 0 .. length
      BY SizeAssumption DEF LineInv, LineOK
    <2> QED BY <2>1, <2>2, ShorterLine DEF LineInv, PromptOK
  <1> QED BY <1>1, <1>2

LEMMA TypeLine ==
  ASSUME LineInv, NEW key \in Chars, Type(key)
  PROVE  LineInv'
  <1>0. seq \in 0 .. 2 /\ length \in 0 .. Size /\ Size \in Nat /\ index \in Nat
        /\ Len(history) \in Nat
    BY SizeAssumption, LenProperties DEF LineInv, LineOK, PromptOK
  <1>1. kind' = kind /\ history' = history /\ changed' = TRUE /\ UNCHANGED search
    BY DEF Type
  <1>2. CASE seq = 0 /\ length < Size
    <2>1. /\ line' = [line EXCEPT ![length + 1] = key]
          /\ length' = length + 1
          /\ shown' = Append(shown, key)
          /\ seq' = seq /\ index' = index /\ stale' = stale
      <3>1. seq # 1 /\ seq # 2 /\ length # Size
        BY <1>0, <1>2
      <3> QED BY <1>2, <3>1, Zenon DEF Type
    <2>2. LineOK'
      BY <1>2, <2>1, LongerLine DEF LineInv
    <2> QED BY <1>1, <2>1, <2>2 DEF LineInv, PromptOK, search
  <1>3. CASE seq = 0 /\ length = Size
    <2>1. UNCHANGED <<seq, index, line, length, shown, stale>>
      BY <1>0, <1>3 DEF Type
    <2> QED BY <1>1, <2>1 DEF LineInv, LineOK, PromptOK, search
  <1>4. CASE seq = 1
    <2>1. seq' = 2 /\ UNCHANGED <<index, line, length, shown, stale>>
      BY <1>4 DEF Type
    <2> QED BY <1>1, <2>1 DEF LineInv, LineOK, PromptOK, search
  <1>5. CASE seq = 2
    <2>1. seq' = 0
      BY <1>5 DEF Type
    <2>2. \/ \E i \in Nat : Browse(i)
          \/ UNCHANGED <<index, line, length, shown, stale>>
      <3>1. CASE key \in {Up, Down} /\ history # <<>>
        <4>1. Browse(Moved(key))
          <5>1. seq # 0 /\ seq # 1
            BY <1>5
          <5> QED BY <1>5, <3>1, <5>1, Zenon DEF Type
        <4>2. Moved(key) \in Nat
          BY <1>0 DEF Moved
        <4> QED BY <4>1, <4>2
      <3>2. CASE ~(key \in {Up, Down} /\ history # <<>>)
        <4>1. seq # 0 /\ seq # 1
          BY <1>5
        <4> QED BY <1>5, <3>2, <4>1, Zenon DEF Type
      <3> QED BY <3>1, <3>2
    <2>3. CASE \E i \in Nat : Browse(i)
      <3>1. LineOK' /\ index' \in Nat /\ stale' \in BOOLEAN
        BY <2>3, BrowseLine
      <3> QED BY <1>1, <2>1, <3>1 DEF LineInv, PromptOK, search
    <2>4. CASE UNCHANGED <<index, line, length, shown, stale>>
      BY <1>1, <2>1, <2>4 DEF LineInv, LineOK, PromptOK, search
    <2> QED BY <2>2, <2>3, <2>4
  <1>6. seq = 0 \/ seq = 1 \/ seq = 2
    BY <1>0
  <1>7. length < Size \/ length = Size
    BY <1>0
  <1> QED BY <1>2, <1>3, <1>4, <1>5, <1>6, <1>7

LEMMA DeleteAllLine ==
  ASSUME LineInv, DeleteAll
  PROVE  LineInv'
  <1>1. <<>> \in Seq(Chars) /\ Len(<<>>) = 0
    BY EmptySeq
  <1>2. ~stale' => ~stale /\ shown = <<>>
    <2>1. ~stale' => ~stale /\ ~(length > 0)
      BY DEF DeleteAll
    <2>2. shown \in Seq(Chars) /\ Len(shown) = length /\ length \in Nat
      BY SizeAssumption DEF LineInv, LineOK
    <2>3. ~(length > 0) => shown = <<>>
      BY <2>2, EmptySeq
    <2> QED BY <2>1, <2>3
  <1>3. LineOK'
    BY <1>1, <1>2, SizeAssumption DEF LineInv, LineOK, DeleteAll
  <1>4. PromptOK'
    BY DEF LineInv, PromptOK, DeleteAll, search
  <1> QED BY <1>3, <1>4 DEF LineInv

(* ^W ends: the characters of the last one's class are some, and not more  *)
(* than there are.                                                         *)
LEMMA RunType ==
  ASSUME LineInv, length > 0
  PROVE  Run \in 0 .. length
  <1> DEFINE T == {n \in 1 .. length : n = length \/ ~Alike(length - n, length)}
  <1>1. length \in Nat
    BY SizeAssumption DEF LineInv, LineOK
  <1>2. T \subseteq Nat /\ length \in T
    BY <1>1
  <1>3. PICK n \in T : \A m \in T : n <= m
    BY <1>2, Least
  <1>4. Alike(length, length)
    BY DEF Alike
  <1>5. ASSUME NEW i \in length - n + 1 .. length, ~Alike(i, length) PROVE FALSE
    <2>1. i # length
      BY <1>4, <1>5
    <2>2. n \in 1 .. length
      OBVIOUS
    <2> DEFINE m == length - i
    <2>3. m \in 1 .. length /\ length - m = i /\ ~(n <= m)
      BY <1>1, <2>1, <2>2
    <2> HIDE DEF m
    <2>4. m \in T
      BY <1>5, <2>3
    <2> QED BY <1>3, <2>3, <2>4
  <1>6. \E k \in 1 .. length :
          /\ \A i \in length - k + 1 .. length : Alike(i, length)
          /\ k = length \/ ~Alike(length - k, length)
    BY <1>3, <1>5
  <1>7. Run \in 1 .. length
    BY <1>6 DEF Run
  <1> QED BY <1>1, <1>7

LEMMA BackspaceLine ==
  ASSUME LineInv, Backspace
  PROVE  LineInv'
  <1>1. 1 \in 0 .. length
    BY SizeAssumption DEF LineInv, LineOK, Backspace
  <1>2. Shorten(1) /\ stale' = stale
    BY DEF Backspace
  <1>3. LineOK'
    BY <1>1, <1>2, ShorterLine DEF LineInv
  <1>4. PromptOK'
    BY DEF LineInv, PromptOK, Backspace, search
  <1> QED BY <1>3, <1>4 DEF LineInv

LEMMA DeleteWordLine ==
  ASSUME LineInv, DeleteWord
  PROVE  LineInv'
  <1>1. Run \in 0 .. length
    BY RunType DEF DeleteWord
  <1>2. Shorten(Run) /\ stale' = stale
    BY DEF DeleteWord
  <1>3. LineOK'
    BY <1>1, <1>2, ShorterLine DEF LineInv
  <1>4. PromptOK'
    BY DEF LineInv, PromptOK, DeleteWord, search
  <1> QED BY <1>3, <1>4 DEF LineInv

LEMMA EscapeLine ==
  ASSUME LineInv, Escape
  PROVE  LineInv'
  <1>1. LineOK'
    BY DEF LineInv, LineOK, Escape
  <1>2. seq' \in 0 .. 2 /\ changed' = TRUE
    BY DEF LineInv, PromptOK, Escape
  <1>3. PromptOK'
    BY <1>2 DEF LineInv, PromptOK, Escape, search
  <1> QED BY <1>1, <1>3 DEF LineInv

(* What ends a prompt otherwise than Enter leaves the line alone.          *)
LEMMA LostLine ==
  ASSUME LineInv, Stray \/ Overrun \/ InputEnds
  PROVE  LineInv'
  <1>1. /\ kind' \in {"stuck", "overrun", "eof"}
        /\ UNCHANGED <<line, length, shown, seq, history, index, changed, search, stale>>
    BY Zenon DEF Stray, Overrun, InputEnds
  <1>2. LineOK'
    BY <1>1 DEF LineInv, LineOK
  <1>3. PromptOK'
    BY <1>1 DEF LineInv, PromptOK, search
  <1> QED BY <1>2, <1>3 DEF LineInv

LEMMA EnterLine ==
  ASSUME Enter
  PROVE  LineInv'
  <1>1. <<>> \in Seq(Chars) /\ <<>> \in Seq(Seq(Chars)) /\ Len(<<>>) = 0
    BY EmptySeq
  <1>2. LineOK'
    <2>1. line' = Array(<<>>) /\ length' = Len(<<>>) /\ shown' = <<>>
      BY <1>1 DEF Enter
    <2>2. Len(<<>>) \in 0 .. Size
      BY <1>1, SizeAssumption
    <2> QED BY <1>1, <2>1, <2>2, NewLine
  <1>3. PromptOK'
    <2>1. history' \in Seq(Seq(Chars))
      BY <1>1, Zenon DEF Enter
    <2>2. /\ kind' = "none" /\ seq' = 0 /\ index' = 0 /\ changed' = TRUE /\ stale' = FALSE
          /\ lastmatch' = 0 /\ matches' = 0
      BY DEF Enter
    <2>3. /\ kind' \in {"none", "radio", "tags", "stuck", "overrun", "eof"} /\ seq' \in 0 .. 2 /\ index' \in Nat
          /\ lastmatch' \in Nat /\ matches' \in Nat
      BY <2>2
    <2>4. changed' \in BOOLEAN /\ stale' \in BOOLEAN
      BY <2>2, Zenon
    <2> QED BY <2>1, <2>3, <2>4, Zenon DEF PromptOK
  <1> QED BY <1>2, <1>3 DEF LineInv

-----------------------------------------------------------------------------
(* The Tab key.                                                            *)

LEMMA MatchesAreFinite ==
  ASSUME NEW list \in Seq(Seq(Chars)), NEW text
  PROVE  /\ Matches(list, text) \subseteq 1 .. Len(list)
         /\ Len(list) \in Nat
         /\ Cardinality(Matches(list, text)) \in Nat
         /\ Cardinality(Matches(list, text)) = 0 <=> Matches(list, text) = {}
  <1>1. Len(list) \in Nat
    BY LenProperties
  <1>2. Matches(list, text) \subseteq 1 .. Len(list)
    BY DEF Matches
  <1>3. IsFiniteSet(Matches(list, text))
    <2>1. IsFiniteSet(1 .. Len(list))
      BY <1>1, FS_Interval
    <2> QED BY <1>2, <2>1, FS_Subset
  <1>4. Cardinality(Matches(list, text)) \in Nat
    BY <1>3, FS_CardinalityType
  <1>5. Cardinality(Matches(list, text)) = 0 <=> Matches(list, text) = {}
    BY <1>3, FS_EmptySet
  <1> QED BY <1>1, <1>2, <1>4, <1>5

(* What nextmatch() leaves behind, when it is called with a list.          *)
LEMMA NextMatchType ==
  ASSUME NEW list \in Seq(Seq(Chars)), NEW text, NEW fresh \in BOOLEAN,
         lastmatch \in Nat, matches \in Nat
  PROVE  LET next == NextMatch(list, text, fresh)
         IN next.match \in Nat /\ next.many \in Nat
  <1> DEFINE next == NextMatch(list, text, fresh)
  <1>1. next.many \in Nat
    <2>1. CASE fresh
      <3>1. next.many = Cardinality(Matches(list, text))
        BY <2>1 DEF NextMatch
      <3> QED BY <3>1, MatchesAreFinite
    <2>2. CASE ~fresh
      BY <2>2 DEF NextMatch
    <2> QED BY <2>1, <2>2
  <1>2. next.match \in Nat
    <2>1. CASE next.found
      <3>1. next.match \in 1 .. Len(list) /\ Len(list) \in Nat
        BY <2>1, NextIsListed, LenProperties
      <3> QED BY <3>1
    <2>2. CASE ~next.found
      BY <2>2 DEF NextMatch
    <2> QED BY <2>1, <2>2
  <1> QED BY <1>1, <1>2

LEMMA TabLine ==
  ASSUME LineInv, Tab
  PROVE  LineInv'
  <1> DEFINE next == NextMatch(Candidates, Word, Fresh)
             bare == kind = "radio" /\ Chunks(Plain) = <<>>
             anew == kind = "radio" \/ next.found \/ Seen # Plain
  <1>1. line \in ArrayType /\ lastmatch \in Nat /\ matches \in Nat
        /\ changed \in BOOLEAN /\ stale \in BOOLEAN
    BY DEF LineInv, LineOK, PromptOK
  <1>2. Fresh \in BOOLEAN
    BY <1>1 DEF Fresh
  <1>3. kind' = kind /\ seq' = seq /\ history' = history /\ index' = index /\ changed' = FALSE
    BY DEF Tab
  <1>4. IF bare THEN line' = Stripped /\ stale' = (stale \/ HasPrefix)
                       /\ UNCHANGED <<length, shown>>
        ELSE IF anew THEN Replace(Completed(next))
        ELSE UNCHANGED <<line, length, shown, stale>>
    BY DEF Tab
  <1>5. IF Candidates = <<>> THEN UNCHANGED search
        ELSE lastmatch' = next.match /\ matches' = next.many
    BY DEF Tab
  <1>6. Completed(next) \in Seq(Chars) /\ Len(Completed(next)) \in 0 .. Size
    BY <1>1, <1>2, CompletedType
  <1>7. next.match \in Nat /\ next.many \in Nat
    BY <1>1, <1>2, CandidatesType, NextMatchType
  <1> HIDE DEF next
  <1>8. LineOK' /\ stale' \in BOOLEAN
    <2>1. CASE bare
      <3>1. ~HasPrefix => Stripped = line
        BY DEF Stripped
      <3>2. line' = Stripped /\ stale' = (stale \/ HasPrefix) /\ length' = length /\ shown' = shown
        BY <1>4, <2>1
      <3>3. Stripped \in ArrayType
        BY <1>1, PlainType
      <3>4. HasPrefix \in BOOLEAN
        BY Zenon DEF HasPrefix
      <3>5. stale' \in BOOLEAN /\ (~stale' => ~stale /\ line' = line)
        BY <1>1, <3>1, <3>2, <3>4, Zenon
      <3> QED BY <3>2, <3>3, <3>5 DEF LineInv, LineOK, ArrayType
    <2>2. CASE ~bare /\ anew
      <3>1. Replace(Completed(next))
        BY <1>4, <2>2
      <3> QED BY <1>6, <3>1, NewLine DEF Replace
    <2>3. CASE ~bare /\ ~anew
      <3>1. UNCHANGED <<line, length, shown, stale>>
        BY <1>4, <2>3
      <3> QED BY <1>1, <3>1 DEF LineInv, LineOK
    <2> HIDE DEF bare, anew
    <2> QED BY <2>1, <2>2, <2>3
  <1>9. lastmatch' \in Nat /\ matches' \in Nat
    BY <1>1, <1>5, <1>7 DEF search
  <1> QED BY <1>3, <1>8, <1>9 DEF LineInv, PromptOK

(* The keys of a prompt are characters.                                    *)
LEMMA KeysAreTyped ==
  ASSUME Editing, NEW key \in Keys[kind]
  PROVE  key \in Chars
  BY KeysAssumption DEF Editing

LEMMA LineStep == LineInv /\ [Next]_vars => LineInv'
  <1> SUFFICES ASSUME LineInv, [Next]_vars PROVE LineInv'
    OBVIOUS
  <1>1. CASE UNCHANGED vars
    <2>1. LineOK'
      BY <1>1 DEF LineInv, LineOK, vars
    <2>2. PromptOK'
      BY <1>1 DEF LineInv, PromptOK, vars
    <2> QED BY <2>1, <2>2 DEF LineInv
  <1>2. ASSUME NEW texts \in Histories, Radioprompt(texts) PROVE LineInv'
    <2>1. Uniq(texts) \in Seq(Seq(Chars))
      BY TextsAssumption, UniqType
    <2>2. <<>> \in Seq(Chars) /\ Len(<<>>) \in 0 .. Size
      BY EmptySeq, SizeAssumption
    <2>3. Begin("radio", <<>>, Uniq(texts))
      BY <1>2 DEF Radioprompt
    <2> QED BY <2>1, <2>2, <2>3, BeginLine
  <1>3. ASSUME NEW text \in Tagged, Tag(text) PROVE LineInv'
    <2>1. Fitting(text) \in Seq(Chars) /\ Len(Fitting(text)) \in 0 .. Size
      BY TextsAssumption, FittingType
    <2>2. <<>> \in Seq(Seq(Chars))
      BY EmptySeq
    <2>3. Begin("tags", Fitting(text), <<>>)
      BY <1>3 DEF Tag
    <2> QED BY <2>1, <2>2, <2>3, BeginLine
  <1>4. CASE Enter
    BY <1>4, EnterLine
  <1>5. CASE Key
    <2>1. CASE Backspace
      BY <2>1, BackspaceLine
    <2>2. CASE DeleteAll
      BY <2>2, DeleteAllLine
    <2>3. CASE DeleteWord
      BY <2>3, DeleteWordLine
    <2>4. CASE Escape
      BY <2>4, EscapeLine
    <2>5. CASE Tab
      BY <2>5, TabLine
    <2>6. CASE Stray \/ Overrun \/ InputEnds
      BY <2>6, LostLine
    <2>7. ASSUME Editing, NEW key \in Keys[kind], Type(key) PROVE LineInv'
      BY <2>7, KeysAreTyped, TypeLine
    <2> QED BY <1>5, <2>1, <2>2, <2>3, <2>4, <2>5, <2>6, <2>7 DEF Key
  <1> QED BY <1>1, <1>2, <1>3, <1>4, <1>5 DEF Next

(* The terminal shows a text of as many characters as the line counts, and *)
(* the array holds that text unless ^U left another in it, or Tab took the *)
(* prefix off.                                                             *)
THEOREM LineIsKept == Spec => []LineInv
  BY InitLine, LineStep, PTL DEF Spec

(* Enter returns the text the user sees, for lines, candidates and         *)
(* histories of any length, however often each key was pressed             *)
(* (readline.c, completion.c), unless ^U, a text of the history before     *)
(* what ^U left, or Tab at a bare prefix made the array stale.             *)
THEOREM TypedIsReturned == Spec => []WhatYouSee
  <1>1. LineInv => WhatYouSee
    BY TextOfArray DEF LineInv, LineOK, WhatYouSee
  <1> QED BY <1>1, LineIsKept, PTL

-----------------------------------------------------------------------------
(* Offers.  The matches of a list are offered in turn: those that were are *)
(* a stretch of the matches, that may go past the last to the first ones.  *)

Lap(F, s, l) == {m \in F : IF s <= l THEN s <= m /\ m <= l ELSE s <= m \/ m <= l}

(* The match after another is the first of all, or the next above it.      *)
LEMMA AfterInLap ==
  ASSUME NEW n \in Nat, NEW F \in SUBSET (1 .. n), NEW l \in F, NEW x, x = After(F, l)
  PROVE  /\ x \in F
         /\ \A m \in F : m \in Nat
         /\ \/ \A m \in F : x <= m /\ m <= l
            \/ x > l /\ \A m \in F : m <= l \/ x <= m
  <1>1. \A m \in F : m \in Nat
    <2>1. \A m \in 1 .. n : m \in Nat
      OBVIOUS
    <2> QED BY <2>1
  <1>2. /\ x \in F
        /\ \A m \in F : m > l => x > l /\ x <= m
        /\ (\A m \in F : ~(m > l)) => \A m \in F : x <= m
    <2>1. l \in Nat /\ F \subseteq 1 .. n /\ F # {}
      BY <1>1
    <2> QED BY <2>1, AfterIsNext
  <1>3. l \in Nat /\ x \in Nat
    BY <1>1, <1>2
  <1>4. CASE \A m \in F : ~(m > l)
    BY <1>1, <1>2, <1>3, <1>4
  <1>5. CASE \E m \in F : m > l
    <2>1. x > l
      BY <1>2, <1>5
    <2>2. \A m \in F : m <= l \/ x <= m
      BY <1>1, <1>2, <1>3
    <2> QED BY <1>1, <1>2, <2>1, <2>2
  <1> QED BY <1>4, <1>5

(* If it was offered, the lap is closed: all were.                         *)
LEMMA LapCloses ==
  ASSUME NEW n \in Nat, NEW F \in SUBSET (1 .. n), NEW s \in F, NEW l \in F,
         After(F, l) \in Lap(F, s, l)
  PROVE  Lap(F, s, l) = F
  <1> DEFINE x == After(F, l)
  <1>1. /\ x \in F
        /\ \A m \in F : m \in Nat
        /\ \/ \A m \in F : x <= m /\ m <= l
           \/ x > l /\ \A m \in F : m <= l \/ x <= m
    BY AfterInLap
  <1>2. IF s <= l THEN s <= x /\ x <= l ELSE s <= x \/ x <= l
    BY DEF Lap
  <1> HIDE DEF x
  <1>3. s \in Nat /\ l \in Nat /\ x \in Nat
    BY <1>1
  <1>4. \A m \in F : IF s <= l THEN s <= m /\ m <= l ELSE s <= m \/ m <= l
    BY <1>1, <1>2, <1>3
  <1> QED BY <1>4 DEF Lap

(* If it was not, the lap is longer by one.                                *)
LEMMA LapExtends ==
  ASSUME NEW n \in Nat, NEW F \in SUBSET (1 .. n), NEW s \in F, NEW l \in F,
         After(F, l) \notin Lap(F, s, l)
  PROVE  Lap(F, s, After(F, l)) = Lap(F, s, l) \cup {After(F, l)}
  <1> DEFINE x == After(F, l)
             P(m, e) == IF s <= e THEN s <= m /\ m <= e ELSE s <= m \/ m <= e
  <1>1. /\ x \in F
        /\ \A m \in F : m \in Nat
        /\ \/ \A m \in F : x <= m /\ m <= l
           \/ x > l /\ \A m \in F : m <= l \/ x <= m
    BY AfterInLap
  <1>2. ~P(x, l)
    BY <1>1 DEF Lap
  <1>3. Lap(F, s, x) = {m \in F : P(m, x)} /\ Lap(F, s, l) = {m \in F : P(m, l)}
    BY DEF Lap
  <1> HIDE DEF x
  <1>4. s \in Nat /\ l \in Nat /\ x \in Nat
    BY <1>1
  <1>5. \A m \in F : P(m, x) <=> P(m, l) \/ m = x
    BY <1>1, <1>2, <1>4
  <1> HIDE DEF P
  <1>6. {m \in F : P(m, x)} = {m \in F : P(m, l)} \cup {x}
    BY <1>1, <1>5
  <1> QED BY <1>3, <1>6 DEF x

(* One that begins behind the last match offered is the whole.             *)
LEMMA LapIsAll ==
  ASSUME NEW n \in Nat, NEW F \in SUBSET (1 .. n), NEW l \in F
  PROVE  After(F, l) \in F /\ Lap(F, After(F, l), l) = F
  <1> DEFINE x == After(F, l)
  <1>1. /\ x \in F
        /\ \A m \in F : m \in Nat
        /\ \/ \A m \in F : x <= m /\ m <= l
           \/ x > l /\ \A m \in F : m <= l \/ x <= m
    BY AfterInLap
  <1> HIDE DEF x
  <1>2. l \in Nat /\ x \in Nat
    BY <1>1
  <1>3. \A m \in F : IF x <= l THEN x <= m /\ m <= l ELSE x <= m \/ m <= l
    BY <1>1, <1>2
  <1>4. Lap(F, x, l) = F
    BY <1>3 DEF Lap
  <1> QED BY <1>1, <1>4 DEF x

(* What was offered is a lap of the matches of the list that was searched  *)
(* last, which ends with the one that was offered last.                    *)
SearchInv ==
  /\ listed \in Seq(Seq(Chars))
  /\ matches = 0 => offered = {}
  /\ offered # {} =>
       /\ lastmatch \in Matches(listed, needle)
       /\ \E s \in Matches(listed, needle) :
            offered = Lap(Matches(listed, needle), s, lastmatch)

LEMMA InitSearch == Init => SearchInv
  <1>1. <<>> \in Seq(Seq(Chars))
    BY EmptySeq
  <1>2. Init => listed \in Seq(Seq(Chars))
    BY <1>1, Zenon DEF Init
  <1>3. Init => offered = {}
    BY DEF Init
  <1> QED BY <1>2, <1>3 DEF SearchInv

LEMMA SameSearch ==
  ASSUME SearchInv, UNCHANGED search
  PROVE  SearchInv'
  <1>1. /\ needle' = needle /\ lastmatch' = lastmatch /\ matches' = matches
        /\ listed' = listed /\ offered' = offered
    BY DEF search
  <1> QED BY <1>1, Zenon DEF SearchInv, Matches

LEMMA NothingOffered ==
  ASSUME listed' \in Seq(Seq(Chars)), offered' = {}
  PROVE  SearchInv'
  BY DEF SearchInv

(* A first offer.                                                          *)
LEMMA OneOffered ==
  ASSUME listed' \in Seq(Seq(Chars)), matches' # 0, offered' = {lastmatch'},
         lastmatch' \in Matches(listed', needle')
  PROVE  SearchInv'
  <1> DEFINE F == Matches(listed', needle')
             l == lastmatch'
  <1>1. Lap(F, l, l) = {l}
    <2>1. F \subseteq 1 .. Len(listed') /\ Len(listed') \in Nat
      BY LenProperties DEF Matches
    <2>2. l \in F /\ \A m \in F : m \in Nat
      <3>1. \A m \in 1 .. Len(listed') : m \in Nat
        BY <2>1
      <3> QED BY <2>1, <3>1
    <2> HIDE DEF F, l
    <2>3. l <= l /\ \A m \in F : l <= m /\ m <= l <=> m = l
      BY <2>2
    <2>4. \A m \in F : m \in Lap(F, l, l) <=> m = l
      BY <2>3 DEF Lap
    <2>5. \A m \in Lap(F, l, l) : m \in F
      BY DEF Lap
    <2> QED BY <2>2, <2>4, <2>5
  <1>2. \E s \in F : offered' = Lap(F, s, l)
    BY <1>1
  <1> QED BY <1>2 DEF SearchInv, Matches

(* What is kept of a needle has all the matches the needle has.            *)
LEMMA KeptMatches ==
  ASSUME NEW list \in Seq(Seq(Chars)), NEW text \in Seq(Chars)
  PROVE  Matches(list, text) \subseteq Matches(list, Kept(text))
  <1> SUFFICES ASSUME NEW i \in Matches(list, text)
               PROVE  i \in Matches(list, Kept(text))
    OBVIOUS
  <1> DEFINE x == list[i]
             n == NeedleSize - 1
             kept == SubSeq(text, 1, n)
  <1>1. i \in 1 .. Len(list) /\ IsPrefix(text, x)
    BY DEF Matches
  <1>2. x \in Seq(Chars) /\ Len(x) \in Nat /\ Len(text) \in Nat
    <2>1. x \in Seq(Chars)
      BY <1>1, ElementOfSeq
    <2> HIDE DEF x
    <2> QED BY <2>1, LenProperties
  <1>3. CASE Len(text) < NeedleSize
    <2>1. Kept(text) = text
      BY <1>3 DEF Kept
    <2> QED BY <2>1
  <1>4. CASE ~(Len(text) < NeedleSize)
    <2> HIDE DEF x
    <2>1. Kept(text) = kept
      BY <1>4 DEF Kept
    <2>2. NeedleSize \in Nat \ {0}
      BY SizeAssumption
    <2>3. n \in 0 .. Len(text) /\ n \in Nat
      BY <1>2, <1>4, <2>2
    <2>4. /\ Len(text) <= Len(x)
          /\ SubSeq(text, 1, Len(text)) = SubSeq(x, 1, Len(text))
      BY <1>1 DEF IsPrefix, x
    <2>5. n \in 0 .. Len(x) /\ n <= Len(text)
      BY <1>2, <2>3, <2>4
    <2> HIDE DEF n
    <2>6. /\ kept \in Seq(Chars)
          /\ Len(kept) = IF 1 <= n THEN n - 1 + 1 ELSE 0
          /\ \A j \in 1 .. n - 1 + 1 : kept[j] = text[1 + j - 1]
      BY <2>3, PartType
    <2> HIDE DEF kept
    <2>7. Len(kept) = n
      BY <2>3, <2>6
    <2>8. SubSeq(kept, 1, n) = SubSeq(x, 1, n)
      <3>1. ASSUME NEW j \in 1 .. n PROVE kept[j] = x[j]
        <4>1. j \in 1 .. n - 1 + 1 /\ 1 + j - 1 = j /\ j \in 1 .. Len(text)
          BY <1>2, <2>3, <2>5
        <4>2. kept[j] = text[j]
          BY <2>6, <4>1
        <4>3. text[j] = x[j]
          <5> DEFINE l == Len(text)
          <5>1. /\ \A k \in 1 .. l - 1 + 1 : SubSeq(text, 1, l)[k] = text[1 + k - 1]
                /\ \A k \in 1 .. l - 1 + 1 : SubSeq(x, 1, l)[k] = x[1 + k - 1]
            <6>1. l \in 0 .. Len(text) /\ l \in 0 .. Len(x)
              BY <1>2, <2>4
            <6> HIDE DEF l
            <6> QED BY <1>2, <6>1, PartType
          <5>2. j \in 1 .. l - 1 + 1 /\ 1 + j - 1 = j
            BY <1>2, <4>1
          <5>3. SubSeq(text, 1, l) = SubSeq(x, 1, l)
            BY <2>4
          <5> HIDE DEF l
          <5> QED BY <5>1, <5>2, <5>3
        <4> QED BY <4>2, <4>3
      <3>2. /\ SubSeq(kept, 1, n) \in Seq(Chars)
            /\ Len(SubSeq(kept, 1, n)) = IF 1 <= n THEN n - 1 + 1 ELSE 0
            /\ \A j \in 1 .. n - 1 + 1 : SubSeq(kept, 1, n)[j] = kept[1 + j - 1]
        <4>1. n \in 0 .. Len(kept)
          BY <2>3, <2>7
        <4> QED BY <2>6, <4>1, PartType
      <3>3. /\ SubSeq(x, 1, n) \in Seq(Chars)
            /\ Len(SubSeq(x, 1, n)) = IF 1 <= n THEN n - 1 + 1 ELSE 0
            /\ \A j \in 1 .. n - 1 + 1 : SubSeq(x, 1, n)[j] = x[1 + j - 1]
        BY <1>2, <2>5, PartType
      <3>4. \A j \in 1 .. n : j \in 1 .. n - 1 + 1 /\ 1 + j - 1 = j
        BY <2>3
      <3>5. \A j \in 1 .. n : SubSeq(kept, 1, n)[j] = SubSeq(x, 1, n)[j]
        BY <3>1, <3>2, <3>3, <3>4
      <3>6. Len(SubSeq(kept, 1, n)) = n /\ Len(SubSeq(x, 1, n)) = n
        BY <2>3, <3>2, <3>3
      <3> QED BY <3>2, <3>3, <3>5, <3>6, SeqEqual
    <2>9. Len(kept) <= Len(x)
      BY <1>2, <2>4, <2>5, <2>7
    <2>10. IsPrefix(kept, x)
      BY <2>7, <2>8, <2>9 DEF IsPrefix
    <2> QED BY <1>1, <2>1, <2>10 DEF Matches, x
  <1> QED BY <1>3, <1>4

(* What a Tab does to the search, where there is a list.                   *)
LEMMA TabSearches ==
  ASSUME LineInv, Tab, Candidates # <<>>
  PROVE  LET wanted == IF Fresh THEN Word ELSE needle
             many == IF Fresh THEN Cardinality(Matches(Candidates, Word)) ELSE matches
             start == IF Fresh \/ listed # Candidates THEN {} ELSE offered
         IN /\ listed' = Candidates
            /\ needle' = IF Fresh THEN Kept(Word) ELSE needle
            /\ matches' = many
            /\ many = 0 => lastmatch' = lastmatch /\ offered' = start
            /\ many # 0 => /\ Matches(Candidates, wanted) # {}
                           /\ lastmatch' = After(Matches(Candidates, wanted),
                                                 IF Fresh THEN 0 ELSE lastmatch)
                           /\ offered' = start \cup {lastmatch'}
  <1> DEFINE wanted == IF Fresh THEN Word ELSE needle
             many == IF Fresh THEN Cardinality(Matches(Candidates, Word)) ELSE matches
             start == IF Fresh \/ listed # Candidates THEN {} ELSE offered
             next == NextMatch(Candidates, Word, Fresh)
  <1>1. Candidates \in Seq(Seq(Chars))
    BY CandidatesType
  <1>2. /\ ~NoneMatches
        /\ needle' = next.needle
        /\ lastmatch' = next.match
        /\ matches' = next.many
        /\ listed' = Candidates
        /\ offered' = start \cup (IF next.found THEN {next.match} ELSE {})
    BY DEF Tab
  <1>3. next.needle = (IF Fresh THEN Kept(Word) ELSE needle) /\ next.many = many
    BY DEF NextMatch
  <1>4. ASSUME many = 0 PROVE lastmatch' = lastmatch /\ offered' = start
    <2>1. ~next.found /\ next.match = lastmatch
      BY <1>3, <1>4 DEF NextMatch
    <2> QED BY <1>2, <2>1
  <1>5. ASSUME many # 0
        PROVE  /\ Matches(Candidates, wanted) # {}
               /\ lastmatch' = After(Matches(Candidates, wanted),
                                     IF Fresh THEN 0 ELSE lastmatch)
               /\ offered' = start \cup {lastmatch'}
    <2>1. Matches(Candidates, wanted) # {}
      <3>1. CASE Fresh
        BY <1>1, <1>5, <3>1, MatchesAreFinite
      <3>2. CASE ~Fresh
        <4>1. matches # 0 /\ matches \in Nat
          BY <1>5, <3>2 DEF LineInv, PromptOK
        <4>2. matches > 0
          BY <4>1
        <4> QED BY <1>2, <3>2, <4>2 DEF NoneMatches, GoesOn
      <3> QED BY <3>1, <3>2
    <2>2. /\ next.found
          /\ next.match = After(Matches(Candidates, wanted), IF Fresh THEN 0 ELSE lastmatch)
      BY <1>5, <2>1 DEF NextMatch
    <2> QED BY <1>2, <2>1, <2>2
  <1> QED BY <1>2, <1>3, <1>4, <1>5

LEMMA TabSearch ==
  ASSUME LineInv, SearchInv, Tab
  PROVE  SearchInv'
  <1> DEFINE list == Candidates
             fresh == Fresh
             wanted == IF fresh THEN Word ELSE needle
             many == IF fresh THEN Cardinality(Matches(list, Word)) ELSE matches
             start == IF fresh \/ listed # list THEN {} ELSE offered
             W == Matches(list, wanted)
             F == Matches(list, needle')
  <1>1. CASE list = <<>>
    <2>1. UNCHANGED search
      BY <1>1 DEF Tab
    <2> QED BY <2>1, SameSearch
  <1>2. CASE list # <<>>
    <2>1. /\ listed' = list /\ needle' = (IF fresh THEN Kept(Word) ELSE needle)
          /\ matches' = many
          /\ many = 0 => lastmatch' = lastmatch /\ offered' = start
          /\ many # 0 => /\ W # {}
                         /\ lastmatch' = After(W, IF fresh THEN 0 ELSE lastmatch)
                         /\ offered' = start \cup {lastmatch'}
      BY <1>2, TabSearches
    <2>2. list \in Seq(Seq(Chars)) /\ Word \in Seq(Chars)
      BY CandidatesType, WordType DEF LineInv, LineOK
    <2>3. Len(list) \in Nat /\ W \in SUBSET (1 .. Len(list)) /\ F \in SUBSET (1 .. Len(list))
      BY <2>2, MatchesAreFinite
    <2>4. lastmatch \in Nat
      BY DEF LineInv, PromptOK
    <2>5. W \subseteq F
      <3>1. CASE fresh
        BY <2>1, <2>2, <3>1, KeptMatches
      <3>2. CASE ~fresh
        BY <2>1, <3>2
      <3> QED BY <3>1, <3>2
    <2>6. fresh \/ listed # list => start = {}
      OBVIOUS
    <2>7. ~(fresh \/ listed # list) => start = offered /\ many = matches /\ W = F
                                       /\ F = Matches(listed, needle)
      BY <2>1
    <2>8. F = Matches(listed', needle')
      BY <2>1
    <2>9. ~fresh => (IF fresh THEN 0 ELSE lastmatch) = lastmatch
      OBVIOUS
    <2>10. (IF fresh THEN 0 ELSE lastmatch) \in Nat
      BY <2>4
    <2> HIDE DEF list, fresh, wanted, many, start, W, F
    <2>11. CASE many = 0
      <3>1. offered' = {}
        BY <2>1, <2>6, <2>7, <2>11 DEF SearchInv
      <3> QED BY <2>1, <2>2, <3>1, NothingOffered
    <2>12. CASE many # 0 /\ start = {}
      <3>1. lastmatch' \in F
        <4>1. W \subseteq 1 .. Len(list) /\ W # {}
          BY <2>1, <2>3, <2>12
        <4>2. After(W, IF fresh THEN 0 ELSE lastmatch) \in W
          BY <2>3, <2>10, <4>1, AfterIsNext
        <4> QED BY <2>1, <2>5, <2>12, <4>2
      <3>2. offered' = {lastmatch'}
        BY <2>1, <2>12
      <3> QED BY <2>1, <2>2, <2>8, <2>12, <3>1, <3>2, OneOffered
    <2>13. CASE many # 0 /\ start # {}
      <3>1. ~(fresh \/ listed # list)
        BY <2>6, <2>13
      <3>2. start = offered /\ offered # {} /\ W = F /\ F = Matches(listed, needle) /\ ~fresh
        BY <2>7, <2>13, <3>1
      <3>3. lastmatch \in F /\ \E s \in F : offered = Lap(F, s, lastmatch)
        BY <3>2 DEF SearchInv
      <3>4. PICK s \in F : offered = Lap(F, s, lastmatch)
        BY <3>3
      <3> DEFINE x == After(F, lastmatch)
      <3>5. /\ x \in F
            /\ x \in offered => offered = F
            /\ x \notin offered => Lap(F, s, x) = offered \cup {x}
        <4>1. x \in F
          BY <2>3, <3>3, LapIsAll
        <4>2. CASE x \in offered
          <5>1. Lap(F, s, lastmatch) = F
            BY <2>3, <3>3, <3>4, <4>2, LapCloses
          <5> QED BY <3>4, <4>1, <4>2, <5>1
        <4>3. CASE x \notin offered
          <5>1. Lap(F, s, x) = Lap(F, s, lastmatch) \cup {x}
            BY <2>3, <3>3, <3>4, <4>3, LapExtends
          <5> HIDE DEF x
          <5> QED BY <3>4, <4>1, <4>3, <5>1
        <4> HIDE DEF x
        <4> QED BY <4>2, <4>3
      <3>6. lastmatch' = x /\ offered' = offered \cup {x}
        BY <2>1, <2>9, <2>13, <3>2
      <3> HIDE DEF x
      <3>7. \E t \in F : offered' = Lap(F, t, x)
        <4>1. CASE x \notin offered
          BY <3>5, <3>6, <4>1
        <4>2. CASE x \in offered
          <5>1. After(F, x) \in F /\ Lap(F, After(F, x), x) = F
            BY <2>3, <3>5, LapIsAll
          <5>2. offered' = F
            BY <3>5, <3>6, <4>2
          <5> QED BY <5>1, <5>2
        <4> QED BY <4>1, <4>2
      <3>8. \E t \in Matches(listed', needle') :
              offered' = Lap(Matches(listed', needle'), t, lastmatch')
        BY <2>8, <3>6, <3>7
      <3>9. lastmatch' \in Matches(listed', needle')
        BY <2>8, <3>5, <3>6
      <3>10. listed' \in Seq(Seq(Chars)) /\ matches' # 0
        BY <2>1, <2>2, <2>13
      <3> QED BY <3>8, <3>9, <3>10 DEF SearchInv, Matches
    <2> QED BY <2>11, <2>12, <2>13
  <1> QED BY <1>1, <1>2


LEMMA SearchStep == LineInv /\ SearchInv /\ [Next]_vars => SearchInv'
  <1> SUFFICES ASSUME LineInv, SearchInv, [Next]_vars PROVE SearchInv'
    OBVIOUS
  <1>1. CASE UNCHANGED search
    BY <1>1, SameSearch
  <1>2. CASE UNCHANGED vars
    BY <1>1, <1>2 DEF vars, search
  <1>3. CASE \E texts \in Histories : Radioprompt(texts)
    BY <1>1, <1>3 DEF Radioprompt, Begin
  <1>4. CASE \E text \in Tagged : Tag(text)
    BY <1>1, <1>4 DEF Tag, Begin
  <1>5. CASE Enter
    <2>1. listed' = <<>> /\ offered' = {}
      BY <1>5 DEF Enter
    <2>2. <<>> \in Seq(Seq(Chars))
      BY EmptySeq
    <2> QED BY <2>1, <2>2, NothingOffered, Zenon
  <1>6. CASE Key
    <2>1. CASE Backspace \/ DeleteAll \/ DeleteWord \/ Escape
      BY <1>1, <2>1 DEF Backspace, DeleteAll, DeleteWord, Escape
    <2>2. CASE \E key \in Keys[kind] : Type(key)
      BY <1>1, <2>2 DEF Type
    <2>3. CASE Tab
      BY <2>3, TabSearch
    <2>4. CASE Stray \/ Overrun \/ InputEnds
      BY <1>1, <2>4, Zenon DEF Stray, Overrun, InputEnds
    <2> QED BY <1>6, <2>1, <2>2, <2>3, <2>4 DEF Key
  <1> QED BY <1>2, <1>3, <1>4, <1>5, <1>6 DEF Next

(* One step of TabCycles.                                                  *)
LEMMA TabGoesOn ==
  ASSUME LineInv, SearchInv, Tab, ~Fresh, Candidates = listed, lastmatch' \in offered
  PROVE  Matches(Candidates, needle) \subseteq offered
  <1> DEFINE list == Candidates
             F == Matches(list, needle)
  <1>1. list \in Seq(Seq(Chars))
    BY CandidatesType
  <1>2. CASE list = <<>>
    <2>1. Len(<<>>) = 0 /\ 1 .. 0 = {}
      BY EmptySeq
    <2>2. F = {}
      BY <1>2, <2>1 DEF Matches
    <2> QED BY <2>2
  <1>3. CASE list # <<>>
    <2>1. matches # 0
      BY DEF SearchInv
    <2>2. lastmatch' = After(F, lastmatch)
      BY <1>3, <2>1, TabSearches
    <2>3. Len(list) \in Nat /\ F \in SUBSET (1 .. Len(list))
      BY <1>1, MatchesAreFinite
    <2>4. lastmatch \in F /\ \E s \in F : offered = Lap(F, s, lastmatch)
      BY DEF SearchInv
    <2> HIDE DEF F, list
    <2>5. PICK s \in F : offered = Lap(F, s, lastmatch)
      BY <2>4
    <2>6. After(F, lastmatch) \in Lap(F, s, lastmatch) => Lap(F, s, lastmatch) = F
      BY <2>3, <2>4, LapCloses
    <2>7. offered = F
      BY <2>2, <2>5, <2>6
    <2> QED BY <2>7 DEF F, list
  <1> QED BY <1>2, <1>3

THEOREM SearchIsKept == Spec => []SearchInv
  BY InitSearch, LineIsKept, SearchStep, PTL DEF Spec

(* Pressing Tab again and again offers every match of a list, of any length*)
(* and with any number of matches, once before it offers one for the second*)
(* time (nextmatch() in completion.c and its static variables).            *)
THEOREM TabOffersAll == Spec => TabCycles
  <1>1. LineInv /\ SearchInv /\ [Next]_vars =>
          [~Fresh /\ Tab /\ Candidates = listed /\ lastmatch' \in offered =>
             Matches(Candidates, needle) \subseteq offered]_vars
    BY TabGoesOn
  <1> QED BY <1>1, LineIsKept, SearchIsKept, PTL DEF Spec, TabCycles
=============================================================================
