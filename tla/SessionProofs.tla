--------------------------- MODULE SessionProofs ----------------------------
(***************************************************************************)
(* Proofs about module Session: what set() does to an array of pairs, what *)
(* FlattenSeq() makes of sequences of parts, that the settings are the map *)
(* they stand for, that a reply is put together as it was sent, and that   *)
(* the key the server issued is the one that is stored. What would be      *)
(* proved by induction on the length of a sequence is proved by the least  *)
(* length at which it could fail (Least).                                  *)
(***************************************************************************)
EXTENDS SessionProps, SequenceTheorems, WellFoundedInduction, TLAPS

-----------------------------------------------------------------------------
(* Module Hash: set() implements the update of a map.                      *)

LEMMA PairOf ==
  ASSUME NEW K, NEW V, NEW h, IsHash(h, K, V), NEW x \in 1 .. Len(h)
  PROVE  h[x] \in K \X V /\ Key(h, x) \in K /\ h[x][2] \in V
  BY DEF IsHash, Key

(* haskey() returns the place of the key, the only one.                    *)
LEMMA Place ==
  ASSUME NEW K, NEW V, NEW h, IsHash(h, K, V), NEW k
  PROVE  /\ Holds(h, k) => /\ haskey(h, k) \in 1 .. Len(h)
                           /\ Key(h, haskey(h, k)) = k
         /\ ~Holds(h, k) => haskey(h, k) = 0
         /\ \A x \in 1 .. Len(h) : Key(h, x) = k => haskey(h, k) = x
  <1>1. ASSUME NEW x \in 1 .. Len(h), Key(h, x) = k
        PROVE  \A y \in 1 .. x - 1 : Key(h, y) # k
    <2> SUFFICES ASSUME NEW y \in 1 .. x - 1, Key(h, y) = k PROVE FALSE
      OBVIOUS
    <2>1. Len(h) \in Nat
      BY DEF IsHash
    <2>2. y \in 1 .. Len(h) /\ y # x
      BY <2>1
    <2> QED BY <1>1, <2>2 DEF IsHash
  <1>2. CASE Holds(h, k)
    <2>1. PICK x \in 1 .. Len(h) : Key(h, x) = k
      BY <1>2 DEF Holds
    <2>2. \E z \in 1 .. Len(h) :
            Key(h, z) = k /\ \A y \in 1 .. z - 1 : Key(h, y) # k
      BY <2>1, <1>1
    <2>3. haskey(h, k) \in 1 .. Len(h) /\ Key(h, haskey(h, k)) = k
      BY <1>2, <2>2 DEF haskey
    <2>4. \A z \in 1 .. Len(h) : Key(h, z) = k => haskey(h, k) = z
      BY <2>3 DEF IsHash
    <2> QED BY <1>2, <2>3, <2>4
  <1>3. CASE ~Holds(h, k)
    BY <1>3 DEF Holds, haskey
  <1> QED BY <1>2, <1>3

(* A key that has a pair has its value.                                    *)
LEMMA ValueAt ==
  ASSUME NEW K, NEW V, NEW h, IsHash(h, K, V), NEW none, NEW x \in 1 .. Len(h)
  PROVE  value(h, Key(h, x), none) = h[x][2]
  <1>1. haskey(h, Key(h, x)) = x
    BY Place
  <1>2. x > 0
    OBVIOUS
  <1> QED BY <1>1, <1>2 DEF value

(* unset() leaves a hash without the key, and every other pair.            *)
LEMMA Unset ==
  ASSUME NEW K, NEW V, NEW h, IsHash(h, K, V), NEW k \in K
  PROVE  /\ IsHash(unset(h, k), K, V)
         /\ ~Holds(unset(h, k), k)
         /\ \A x \in 1 .. Len(h) : Key(h, x) # k =>
              \E y \in 1 .. Len(unset(h, k)) : unset(h, k)[y] = h[x]
         /\ \A y \in 1 .. Len(unset(h, k)) :
              \E x \in 1 .. Len(h) : unset(h, k)[y] = h[x]
  <1> DEFINE u == unset(h, k)
             i == haskey(h, k)
             n == Len(h)
  <1>0. n \in Nat
    BY DEF IsHash
  <1>1. CASE i = 0
    <2>1. u = h
      BY <1>1 DEF unset
    <2>2. ~Holds(h, k)
      BY <1>1, Place
    <2> QED BY <2>1, <2>2 DEF Holds
  <1>2. CASE i # 0
    <2>1. i \in 1 .. n /\ Key(h, i) = k
      BY <1>2, Place
    <2>2. u = [x \in 1 .. n - 1 |-> IF x = i THEN h[n] ELSE h[x]]
      BY <1>2 DEF unset
    <2>3. n - 1 \in Nat /\ n \in 1 .. n
      BY <2>1, <1>0
    <2>4. \A x \in 1 .. n : h[x] \in K \X V
      BY PairOf
    <2> HIDE DEF u, i
    <2>5. \A x \in 1 .. n - 1 : (IF x = i THEN h[n] ELSE h[x]) \in K \X V
      BY <2>3, <2>4
    <2>6. u \in Seq(K \X V) /\ Len(u) = n - 1
      BY <2>2, <2>3, <2>5
    <2>7. \A y \in 1 .. n - 1 : u[y] = IF y = i THEN h[n] ELSE h[y]
      BY <2>2
    <2>8. \A x, y \in 1 .. n : Key(h, x) = Key(h, y) => x = y
      BY DEF IsHash
    <2>9. \A x, y \in 1 .. n - 1 : Key(u, x) = Key(u, y) => x = y
      BY <2>3, <2>7, <2>8, <1>0 DEF Key
    <2>10. IsHash(u, K, V)
      BY <2>6, <2>9 DEF IsHash
    <2>11. \A y \in 1 .. n - 1 : Key(u, y) # k
      BY <2>1, <2>3, <2>7, <2>8, <1>0 DEF Key
    <2>12. ~Holds(u, k)
      BY <2>6, <2>11 DEF Holds
    <2>13. \A x \in 1 .. n : Key(h, x) # k => \E y \in 1 .. n - 1 : u[y] = h[x]
      <3> SUFFICES ASSUME NEW x \in 1 .. n, Key(h, x) # k
                   PROVE  \E y \in 1 .. n - 1 : u[y] = h[x]
        OBVIOUS
      <3>1. x # i
        BY <2>1
      <3>2. CASE x = n
        <4>1. i \in 1 .. n - 1 /\ u[i] = h[x]
          BY <2>1, <2>7, <3>1, <3>2, <1>0
        <4> QED BY <4>1
      <3>3. CASE x # n
        <4>1. x \in 1 .. n - 1 /\ u[x] = h[x]
          BY <2>7, <3>1, <3>3, <1>0
        <4> QED BY <4>1
      <3> QED BY <3>2, <3>3
    <2>14. \A y \in 1 .. n - 1 : \E x \in 1 .. n : u[y] = h[x]
      BY <2>3, <2>7, <1>0
    <2> QED BY <2>6, <2>10, <2>12, <2>13, <2>14 DEF u
  <1> QED BY <1>1, <1>2

(* set() keeps the array a hash: no key ever has two pairs.                *)
THEOREM SetIsHash ==
  ASSUME NEW K, NEW V, NEW h, IsHash(h, K, V), NEW k \in K, NEW v \in V
  PROVE  IsHash(set(h, k, v), K, V)
  <1> DEFINE u == unset(h, k)
             s == set(h, k, v)
  <1>1. IsHash(u, K, V) /\ ~Holds(u, k)
    BY Unset
  <1>2. s = Append(u, <<k, v>>)
    BY DEF set
  <1>3. u \in Seq(K \X V) /\ Len(u) \in Nat /\ <<k, v>> \in K \X V
    BY <1>1 DEF IsHash
  <1> HIDE DEF u, s
  <1>4. s \in Seq(K \X V) /\ Len(s) = Len(u) + 1
    BY <1>2, <1>3
  <1>5. /\ \A x \in 1 .. Len(u) : s[x] = u[x]
        /\ s[Len(u) + 1] = <<k, v>>
    BY <1>2, <1>3
  <1>6. \A x \in 1 .. Len(u) : Key(u, x) # k
    BY <1>1 DEF Holds
  <1>7. \A x, y \in 1 .. Len(u) : Key(u, x) = Key(u, y) => x = y
    BY <1>1 DEF IsHash
  <1>8. \A x \in 1 .. Len(u) : Key(s, x) = Key(u, x) /\ Key(s, x) # k
    BY <1>5, <1>6 DEF Key
  <1>9. Key(s, Len(u) + 1) = k
    BY <1>5 DEF Key
  <1>10. \A x \in 1 .. Len(s) : x \in 1 .. Len(u) \/ x = Len(u) + 1
    BY <1>3, <1>4
  <1>11. \A x, y \in 1 .. Len(s) : Key(s, x) = Key(s, y) => x = y
    BY <1>7, <1>8, <1>9, <1>10
  <1> QED BY <1>4, <1>11 DEF IsHash, s

(* After set() the key has the new value ...                               *)
THEOREM SetSets ==
  ASSUME NEW K, NEW V, NEW h, IsHash(h, K, V), NEW k \in K, NEW v \in V, NEW none
  PROVE  value(set(h, k, v), k, none) = v
  <1> DEFINE u == unset(h, k)
             s == set(h, k, v)
  <1>1. IsHash(s, K, V) /\ IsHash(u, K, V)
    BY SetIsHash, Unset
  <1>2. u \in Seq(K \X V) /\ Len(u) \in Nat
    BY <1>1 DEF IsHash
  <1>3. s = Append(u, <<k, v>>)
    BY DEF set
  <1> HIDE DEF u, s
  <1>4. Len(s) = Len(u) + 1 /\ s[Len(s)] = <<k, v>>
    BY <1>2, <1>3
  <1>5. Len(s) \in 1 .. Len(s) /\ Key(s, Len(s)) = k
    BY <1>2, <1>4 DEF Key
  <1>6. value(s, Key(s, Len(s)), none) = s[Len(s)][2]
    BY <1>1, <1>5, ValueAt
  <1> QED BY <1>4, <1>5, <1>6 DEF s

(* ... and every other key has the value it had, or none, wherever its     *)
(* pair was moved to.                                                      *)
THEOREM SetKeepsOthers ==
  ASSUME NEW K, NEW V, NEW h, IsHash(h, K, V), NEW k \in K, NEW v \in V,
         NEW none, NEW other \in K, other # k
  PROVE  value(set(h, k, v), other, none) = value(h, other, none)
  <1> DEFINE u == unset(h, k)
             s == set(h, k, v)
  <1>1. IsHash(s, K, V) /\ IsHash(u, K, V)
    BY SetIsHash, Unset
  <1>2. u \in Seq(K \X V) /\ Len(u) \in Nat
    BY <1>1 DEF IsHash
  <1>3. s = Append(u, <<k, v>>)
    BY DEF set
  <1>4. /\ \A x \in 1 .. Len(h) : Key(h, x) # k => \E y \in 1 .. Len(u) : u[y] = h[x]
        /\ \A y \in 1 .. Len(u) : \E x \in 1 .. Len(h) : u[y] = h[x]
    BY Unset
  <1> HIDE DEF u, s
  <1>5. /\ Len(s) = Len(u) + 1
        /\ s[Len(s)] = <<k, v>>
        /\ \A y \in 1 .. Len(u) : y \in 1 .. Len(s) /\ s[y] = u[y]
    BY <1>2, <1>3
  <1>6. CASE Holds(h, other)
    <2>1. PICK x \in 1 .. Len(h) : Key(h, x) = other
      BY <1>6 DEF Holds
    <2>2. PICK y \in 1 .. Len(u) : u[y] = h[x]
      BY <1>4, <2>1
    <2>3. y \in 1 .. Len(s) /\ s[y] = h[x] /\ Key(s, y) = other
      BY <1>5, <2>1, <2>2 DEF Key
    <2>4. value(s, other, none) = s[y][2]
      BY <1>1, <2>3, ValueAt
    <2>5. value(h, other, none) = h[x][2]
      BY <2>1, ValueAt
    <2> QED BY <2>3, <2>4, <2>5 DEF s
  <1>7. CASE ~Holds(h, other)
    <2>1. ~Holds(s, other)
      <3> SUFFICES ASSUME NEW y \in 1 .. Len(s), Key(s, y) = other
                   PROVE  FALSE
        BY DEF Holds
      <3>1. y # Len(s)
        BY <1>5 DEF Key
      <3>2. y \in 1 .. Len(u) /\ s[y] = u[y]
        BY <1>2, <1>5, <3>1
      <3>3. PICK x \in 1 .. Len(h) : u[y] = h[x]
        BY <1>4, <3>2
      <3> QED BY <1>7, <3>2, <3>3 DEF Holds, Key
    <2>2. haskey(s, other) = 0 /\ haskey(h, other) = 0
      BY <1>1, <1>7, <2>1, Place
    <2> QED BY <2>2 DEF value, s
  <1> QED BY <1>6, <1>7

-----------------------------------------------------------------------------
(* Types.                                                                  *)

LEMMA LinesType ==
  ASSUME TypeOK
  PROVE  Len(rcfile) \in Nat /\ \A i \in 1 .. Len(rcfile) : rcfile[i] \in Names \X Strings
  <1> DEFINE S == Names \X Strings
  <1>1. rcfile \in Seq(S)
    BY SettingsAssumption DEF TypeOK, LinesOK
  <1> HIDE DEF S
  <1>2. Len(rcfile) \in Nat /\ \A i \in 1 .. Len(rcfile) : rcfile[i] \in S
    BY <1>1, LenProperties, ElementOfSeq
  <1> QED BY <1>2 DEF S

LEMMA AtLeastNone == \A n \in Nat : 0 \in 0 .. n
  OBVIOUS

LEMMA NoLine == ASSUME TypeOK PROVE 0 \in 0 .. Len(rcfile)
  <1>1. Len(rcfile) \in Nat
    BY LinesType
  <1> QED BY <1>1, AtLeastNone

LEMMA TroubleType ==
  ASSUME TypeOK, Trouble \/ UNCHANGED troubles
  PROVE  troubles' \in 0 .. MaxTroubles
  <1>1. troubles \in 0 .. MaxTroubles /\ MaxTroubles \in Nat
    BY FetchAssumption DEF TypeOK
  <1>2. CASE Trouble
    BY <1>1, <1>2 DEF Trouble
  <1>3. CASE UNCHANGED troubles
    BY <1>1, <1>3
  <1> QED BY <1>2, <1>3

(* fetch(), and the server that answers it.                                *)
LEMMA AnswerTypes ==
  ASSUME TypeOK, NEW text, Answer(text)
  PROVE  /\ phase' = "body" /\ hops' = hops
         /\ chunked' \in BOOLEAN /\ clean' \in BOOLEAN /\ troubles' \in 0 .. MaxTroubles
  <1>1. phase' = "body" /\ hops' = hops
    BY DEF Answer
  <1>2. chunked' \in BOOLEAN
    BY DEF Answer
  <1>3. clean' \in BOOLEAN
    BY DEF Answer
  <1>4. Trouble \/ UNCHANGED troubles
    BY DEF Answer
  <1> QED BY <1>1, <1>2, <1>3, <1>4, TroubleType

LEMMA FetchingTypes ==
  ASSUME TypeOK, Fetching
  PROVE  /\ phase' \in {"idle", "connect", "status", "body", "done", "crashed"}
         /\ hops' \in 0 .. MaxHops
         /\ chunked' \in BOOLEAN /\ clean' \in BOOLEAN /\ troubles' \in 0 .. MaxTroubles
  <1>1. CASE Connect
    <2>1. Trouble \/ UNCHANGED troubles
      BY <1>1 DEF Connect
    <2> QED BY <1>1, <2>1, TroubleType DEF Connect, TypeOK
  <1>2. CASE BadStatus
    <2>1. troubles' \in 0 .. MaxTroubles
      BY <1>2, TroubleType DEF BadStatus
    <2> QED BY <1>2, <2>1 DEF BadStatus, TypeOK
  <1>3. CASE Redirect
    <2>1. troubles' \in 0 .. MaxTroubles
      BY <1>3, TroubleType DEF Redirect
    <2>2. hops' \in 0 .. MaxHops
      <3>1. hops \in 0 .. MaxHops /\ MaxHops \in Nat /\ hops < MaxHops /\ hops' = hops + 1
        BY <1>3, FetchAssumption DEF Redirect, TypeOK
      <3> QED BY <3>1
    <2> QED BY <1>3, <2>1, <2>2 DEF Redirect, response, TypeOK
  <1>4. CASE ReadResponse
    BY <1>4 DEF ReadResponse, TypeOK
  <1>5. CASE ReadChunk
    <2>1. phase' \in {"idle", "connect", "status", "body", "done", "crashed"}
      BY <1>5 DEF ReadChunk, Terminated, TypeOK
    <2> QED BY <1>5, <2>1 DEF ReadChunk, TypeOK
  <1> QED BY <1>1, <1>2, <1>3, <1>4, <1>5 DEF Fetching

LEMMA RequestTypes ==
  ASSUME TypeOK, Request
  PROVE  /\ phase' = "connect" /\ hops' \in 0 .. MaxHops
         /\ chunked' \in BOOLEAN /\ clean' \in BOOLEAN /\ troubles' \in 0 .. MaxTroubles
  <1>1. ~clean'
    BY DEF Request
  <1>2. clean' \in BOOLEAN
    BY DEF Request
  <1>3. 0 \in 0 .. MaxHops
    BY FetchAssumption
  <1> QED BY <1>2, <1>3 DEF Request, TypeOK

LEMMA InitTypes == Init => TypeOK
  <1> SUFFICES ASSUME Init PROVE TypeOK
    OBVIOUS
  <1>1. 0 \in 0 .. MaxHops /\ 0 \in 0 .. MaxTroubles
    BY FetchAssumption
  <1>2. chunked \in BOOLEAN /\ clean \in BOOLEAN /\ issued \in BOOLEAN
    BY DEF Init, FetchInit
  <1>3. rcfile \in Settings /\ rcfile \in Seq(Names \X Strings)
    BY SettingsAssumption DEF Init
  <1>4. lines \in 0 .. Len(rcfile)
    BY <1>3 DEF Init
  <1> QED BY <1>1, <1>2, <1>3, <1>4 DEF Init, FetchInit, TypeOK, LinesOK

(* The program's own variables: one lemma for those of its steps that      *)
(* leave fetch() alone or end it, and one for those that begin a request.  *)
LEMMA OwnTypes ==
  ASSUME TypeOK,
         phase' = "idle" \/ phase' = phase, UNCHANGED <<hops, response>>,
         Trouble \/ UNCHANGED troubles,
         \/ pc' = pc
         \/ pc' \in {"down", "up", "settings", "reload", "restore", "token", "spit session",
                    "write session", "spit token", "write token"},
         UNCHANGED <<call, rcfile, issued>>, lines' = 0 \/ lines' = lines,
         session' = session \/ session' \in {"empty", "key"},
         token' = token \/ token' \in {"empty", "pending", "blank", "authorised"}
  PROVE  TypeOK'
  <1>1. troubles' \in 0 .. MaxTroubles
    BY TroubleType
  <1>2. lines \in 0 .. Len(rcfile) /\ 0 \in 0 .. Len(rcfile)
    BY NoLine DEF TypeOK, LinesOK
  <1>3. LinesOK'
    BY <1>2 DEF TypeOK, LinesOK
  <1>4. /\ phase' \in {"idle", "connect", "status", "body", "done", "crashed"}
        /\ hops' \in 0 .. MaxHops
    BY DEF TypeOK
  <1>5. chunked' \in BOOLEAN /\ clean' \in BOOLEAN /\ issued' \in BOOLEAN
    BY DEF TypeOK, response
  <1>6. pc' \in {"down", "up", "settings", "reload", "restore", "token", "exchange",
                 "create", "recreate", "spit session", "write session", "spit token",
                 "write token"}
    BY DEF TypeOK
  <1>7. /\ call' \in {"none", "auth.getToken", "auth.getSession"}
        /\ session' \in {"none", "empty", "key"}
        /\ token' \in {"none", "empty", "blank", "pending", "authorised", "used"}
    BY DEF TypeOK
  <1> QED BY <1>1, <1>3, <1>4, <1>5, <1>6, <1>7 DEF TypeOK

LEMMA AskTypes ==
  ASSUME TypeOK, NEW method \in {"auth.getToken", "auth.getSession"}, Ask(method),
         UNCHANGED files, pc' \in {"create", "exchange", "recreate"}
  PROVE  TypeOK'
  <1>1. UNCHANGED <<rcfile, lines, issued, session, token>> /\ call' = method
    BY DEF Ask, files
  <1>2. /\ phase' = "connect" /\ hops' \in 0 .. MaxHops
        /\ chunked' \in BOOLEAN /\ clean' \in BOOLEAN /\ troubles' \in 0 .. MaxTroubles
    BY RequestTypes DEF Ask
  <1> QED BY <1>1, <1>2 DEF TypeOK, LinesOK

LEMMA NextTypes == TypeOK /\ [Next]_vars => TypeOK'
  <1> SUFFICES ASSUME TypeOK, [Next]_vars PROVE TypeOK'
    OBVIOUS
  <1> USE DEF fetchVars, files
  <1>1. CASE UNCHANGED vars
    BY <1>1, OwnTypes DEF vars, response
  <1>2. CASE ServerAnswers
    <2>1. PICK text : Answer(text)
      BY <1>2 DEF ServerAnswers
    <2>2. /\ phase' = "body" /\ hops' = hops
          /\ chunked' \in BOOLEAN /\ clean' \in BOOLEAN /\ troubles' \in 0 .. MaxTroubles
      BY <2>1, AnswerTypes
    <2>3. /\ UNCHANGED <<pc, call, rcfile, lines, session>>
          /\ token' = "used" \/ token' = token
      BY <1>2 DEF ServerAnswers
    <2>4. issued' \in BOOLEAN
      BY <1>2 DEF ServerAnswers, TypeOK
    <2> QED BY <2>2, <2>3, <2>4 DEF TypeOK, LinesOK
  <1>3. CASE ServerFails
    <2>1. chunked' \in BOOLEAN
      BY <1>3 DEF ServerFails
    <2>2. clean' \in BOOLEAN
      BY <1>3 DEF ServerFails
    <2>3. troubles' \in 0 .. MaxTroubles
      BY <1>3, TroubleType DEF ServerFails
    <2> QED BY <1>3, <2>1, <2>2, <2>3 DEF ServerFails, TypeOK, LinesOK
  <1>4. CASE Carry
    BY <1>4, FetchingTypes DEF Carry, TypeOK, LinesOK
  <1>5. CASE SetLine
    <2>1. lines' \in 0 .. Len(rcfile)
      <3>1. lines \in 0 .. Len(rcfile) /\ lines < Len(rcfile) /\ lines' = lines + 1
        BY <1>5 DEF SetLine, TypeOK, LinesOK
      <3>2. Len(rcfile) \in Nat
        BY LinesType
      <3> QED BY <3>1, <3>2
    <2>2. pc' = "down" \/ pc' = pc
      BY <1>5 DEF SetLine, Set
    <2>3. UNCHANGED <<phase, hops, chunked, clean, troubles, call, rcfile, session, token, issued>>
      BY <1>5 DEF SetLine
    <2>4. LinesOK'
      BY <2>1, <2>3 DEF TypeOK, LinesOK
    <2>5. chunked' \in BOOLEAN /\ clean' \in BOOLEAN /\ issued' \in BOOLEAN
      BY <2>3 DEF TypeOK
    <2>6. /\ phase' \in {"idle", "connect", "status", "body", "done", "crashed"}
          /\ hops' \in 0 .. MaxHops /\ troubles' \in 0 .. MaxTroubles
      BY <2>3 DEF TypeOK
    <2>7. pc' \in {"down", "up", "settings", "reload", "restore", "token", "exchange",
                   "create", "recreate", "spit session", "write session", "spit token",
                   "write token"}
      BY <2>2 DEF TypeOK
    <2>8. /\ call' \in {"none", "auth.getToken", "auth.getSession"}
          /\ session' \in {"none", "empty", "key"}
          /\ token' \in {"none", "empty", "blank", "pending", "authorised", "used"}
      BY <2>3 DEF TypeOK
    <2> QED BY <2>4, <2>5, <2>6, <2>7, <2>8 DEF TypeOK
  <1>6. CASE Start
    BY <1>6, OwnTypes DEF Start
  <1>7. CASE Reload \/ SettingsRead
    BY <1>7, OwnTypes DEF Reload, SettingsRead, response
  <1>8. CASE RestoreSession
    BY <1>8, OwnTypes DEF RestoreSession, Set, response
  <1>9. CASE RestoreToken
    BY <1>9, AskTypes DEF RestoreToken
  <1>10. CASE Exchanged
    <2>1. CASE pc' = "recreate" /\ Ask("auth.getToken")
      BY <1>10, <2>1, AskTypes DEF Exchanged
    <2>2. CASE Finish /\ UNCHANGED call /\ pc' \in {"up", "down", "spit session"}
      BY <1>10, <2>2, OwnTypes DEF Exchanged, Finish
    <2> QED BY <1>10, <2>1, <2>2 DEF Exchanged, Set
  <1>11. CASE Created
    <2>1. CASE pc' = "exchange" /\ Ask("auth.getSession")
      BY <1>11, <2>1, AskTypes DEF Created
    <2>2. CASE Finish /\ UNCHANGED call /\ pc' \in {"up", "down", "spit token"}
      BY <1>11, <2>2, OwnTypes DEF Created, Finish
    <2> QED BY <1>11, <2>1, <2>2 DEF Created, Set
  <1>12. CASE SpitSession \/ SpitToken
    BY <1>12, OwnTypes DEF SpitSession, SpitToken, response
  <1>13. CASE WriteSession
    BY <1>13, OwnTypes DEF WriteSession, Set, response
  <1>14. CASE WriteToken
    BY <1>14, OwnTypes DEF WriteToken, response
  <1>15. CASE Quit \/ Authorise
    BY <1>15, OwnTypes DEF Quit, Authorise, response
  <1>16. CASE Crash
    BY <1>16, OwnTypes DEF Crash
  <1> QED BY <1>1, <1>2, <1>3, <1>4, <1>5, <1>6, <1>7, <1>8, <1>9, <1>10, <1>11, <1>12,
             <1>13, <1>14, <1>15, <1>16 DEF Next, Program

-----------------------------------------------------------------------------
(* The settings.                                                           *)

SettingsInv == IsHash(rc, Names, Strings) /\ Entries(rc) = last

(* What set() does to the map that the array stands for.                   *)
LEMMA MapOfSet ==
  ASSUME NEW K, NEW V, NEW none, NEW h, IsHash(h, K, V), NEW k \in K, NEW v \in V
  PROVE  \A other \in K :
           value(set(h, k, v), other, none) = IF other = k THEN v ELSE value(h, other, none)
  <1>1. value(set(h, k, v), k, none) = v
    BY SetSets
  <1>2. ASSUME NEW other \in K, other # k
        PROVE  value(set(h, k, v), other, none) = value(h, other, none)
    BY <1>2, SetKeepsOthers
  <1> QED BY <1>1, <1>2

LEMMA EntriesOfSet ==
  ASSUME NEW h, IsHash(h, Names, Strings), NEW k \in Names, NEW v \in Strings
  PROVE  Entries(set(h, k, v)) = [Entries(h) EXCEPT ![k] = v]
  <1> DEFINE N == Names
             S == Strings
             E == Empty
  <1>0. IsHash(h, N, S) /\ k \in N /\ v \in S
    OBVIOUS
  <1>1. \A K, V, none : \A x \in K, y \in V : IsHash(h, K, V) =>
          \A other \in K :
            value(set(h, x, y), other, none) = IF other = x THEN y ELSE value(h, other, none)
    BY MapOfSet
  <1> HIDE DEF N, S, E
  <1>2. \A other \in N :
          value(set(h, k, v), other, E) = IF other = k THEN v ELSE value(h, other, E)
    BY <1>0, <1>1
  <1> QED BY <1>2 DEF Entries, N, E

LEMMA NoEntries == IsHash(<<>>, Names, Strings) /\ Entries(<<>>) = Nothing
  <1>1. Len(<<>>) = 0 /\ <<>> \in Seq(Names \X Strings)
    OBVIOUS
  <1>2. \A k \in Names : ~Holds(<<>>, k)
    BY <1>1 DEF Holds
  <1>3. \A k \in Names : value(<<>>, k, Empty) = Empty
    BY <1>2 DEF value, haskey
  <1>4. Entries(<<>>) = [k \in Names |-> Empty]
    BY <1>3 DEF Entries
  <1>5. IsHash(<<>>, Names, Strings)
    BY <1>1 DEF IsHash
  <1> QED BY <1>4, <1>5 DEF Nothing

LEMMA OwnKeys == "username" \in Names /\ "session" \in Names
  BY DEF Names

LEMMA OwnTexts == "me" \in Strings /\ "key" \in Strings /\ Empty \in Strings
  BY StringsAssumption DEF Empty

(* A step that sets one of the settings, or comes to an end at it.         *)
LEMMA SetKeepsSettings ==
  ASSUME SettingsInv, NEW k \in Names, NEW v \in Strings, NEW next, Set(k, v, next)
  PROVE  SettingsInv'
  <1>1. CASE UNCHANGED <<rc, last>>
    BY <1>1 DEF SettingsInv
  <1>2. CASE rc' = set(rc, k, v) /\ last' = [last EXCEPT ![k] = v]
    <2>1. IsHash(set(rc, k, v), Names, Strings)
      BY SetIsHash DEF SettingsInv
    <2>2. Entries(set(rc, k, v)) = [last EXCEPT ![k] = v]
      BY EntriesOfSet DEF SettingsInv
    <2> QED BY <1>2, <2>1, <2>2 DEF SettingsInv
  <1> QED BY <1>1, <1>2 DEF Set

LEMMA SettingsStep == TypeOK /\ SettingsInv /\ [Next]_vars => SettingsInv'
  <1> SUFFICES ASSUME TypeOK, SettingsInv, [Next]_vars PROVE SettingsInv'
    OBVIOUS
  <1>0. ASSUME UNCHANGED <<rc, last>> PROVE SettingsInv'
    BY <1>0 DEF SettingsInv
  <1>1. CASE UNCHANGED vars
    BY <1>1, <1>0 DEF vars
  <1>2. CASE ServerAnswers \/ ServerFails \/ Authorise \/ Carry
    BY <1>2, <1>0 DEF ServerAnswers, ServerFails, Authorise, Carry
  <1>3. CASE Start
    BY <1>3, NoEntries DEF Start, SettingsInv
  <1>4. CASE SetLine
    <2> DEFINE pair == rcfile[lines + 1]
    <2>1. lines \in Nat /\ lines < Len(rcfile)
      <3>1. lines \in 0 .. Len(rcfile) /\ Len(rcfile) \in Nat
        BY LinesType DEF TypeOK, LinesOK
      <3>2. lines < Len(rcfile)
        BY <1>4 DEF SetLine
      <3> QED BY <3>1, <3>2
    <2>2. lines + 1 \in 1 .. Len(rcfile)
      BY <2>1, LinesType
    <2>3. pair \in Names \X Strings
      BY <2>2, LinesType
    <2>4. pair[1] \in Names /\ pair[2] \in Strings
      BY <2>3
    <2>5. Set(pair[1], pair[2], pc)
      BY <1>4 DEF SetLine
    <2> QED BY <2>4, <2>5, SetKeepsSettings
  <1>5. CASE RestoreSession
    <2>1. CASE UNCHANGED <<rc, last>>
      BY <2>1, <1>0
    <2>2. CASE Set("session", IF session = "key" THEN "key" ELSE Empty, "up")
      <3> DEFINE v == IF session = "key" THEN "key" ELSE Empty
      <3>1. "session" \in Names /\ v \in Strings
        BY OwnKeys, OwnTexts
      <3> HIDE DEF v
      <3>2. Set("session", v, "up")
        BY <2>2 DEF v
      <3> QED BY <3>1, <3>2, SetKeepsSettings
    <2> QED BY <1>5, <2>1, <2>2 DEF RestoreSession
  <1>6. CASE RestoreToken
    BY <1>6, <1>0 DEF RestoreToken, Ask
  <1>7. CASE Exchanged
    <2>1. CASE UNCHANGED <<rc, last>>
      BY <2>1, <1>0
    <2>2. CASE Set("username", "me", "spit session")
      <3>1. "username" \in Names /\ "me" \in Strings
        BY OwnKeys, OwnTexts
      <3> QED BY <2>2, <3>1, SetKeepsSettings
    <2> QED BY <1>7, <2>1, <2>2 DEF Exchanged, Ask
  <1>8. CASE Created
    <2>1. CASE UNCHANGED <<rc, last>>
      BY <2>1, <1>0
    <2>2. CASE Set("session", Empty, "up")
      <3>1. "session" \in Names /\ Empty \in Strings
        BY OwnKeys, OwnTexts
      <3> QED BY <2>2, <3>1, SetKeepsSettings
    <2> QED BY <1>8, <2>1, <2>2 DEF Created, Ask
  <1>9. CASE WriteSession
    <2>1. "session" \in Names /\ "key" \in Strings
      BY OwnKeys, OwnTexts
    <2>2. Set("session", "key", "up")
      BY <1>9 DEF WriteSession
    <2> QED BY <2>1, <2>2, SetKeepsSettings
  <1>10. CASE SettingsRead \/ SpitSession \/ SpitToken \/ WriteToken
    BY <1>10, <1>0 DEF SettingsRead, SpitSession, SpitToken, WriteToken
  <1>11. CASE Quit \/ Crash \/ Reload
    BY <1>11, <1>0 DEF Quit, Crash, Reload
  <1> QED BY <1>1, <1>2, <1>3, <1>4, <1>5, <1>6, <1>7, <1>8, <1>9, <1>10, <1>11
             DEF Next, Program

-----------------------------------------------------------------------------
(* Sequences.                                                              *)

(* A set of natural numbers has a least one.                               *)
LEMMA Least ==
  ASSUME NEW T, T \subseteq Nat, T # {}
  PROVE  \E n \in T : \A m \in T : n <= m
  <1>1. PICK n \in T : \A m \in T : ~ (<<m, n>> \in OpToRel(<, Nat))
    BY NatLessThanWellFounded, WFMin, Zenon
  <1>2. \A m \in T : ~ (m < n)
    BY <1>1 DEF OpToRel
  <1> QED BY <1>2

(* What FlattenSeq() computes, piece by piece, for the first n of them.    *)
Joins(f, s, n) == f = [i \in 1 .. n |-> IF i = 1 THEN s[i] ELSE f[i - 1] \o s[i]]

LEMMA JoinsExist ==
  ASSUME NEW s, NEW n \in Nat
  PROVE  \E f : Joins(f, s, n)
  <1> DEFINE T == {m \in Nat : ~ \E f : Joins(f, s, m)}
  <1> SUFFICES ASSUME T # {} PROVE FALSE
    OBVIOUS
  <1>1. PICK m \in T : \A k \in T : m <= k
    BY Least
  <1>2. m # 0
    <2> DEFINE f == [i \in 1 .. 0 |-> s]
    <2>1. f = [i \in 1 .. 0 |-> IF i = 1 THEN s[i] ELSE f[i - 1] \o s[i]]
      <3>1. 1 .. 0 = {}
        OBVIOUS
      <3> QED BY <3>1
    <2>2. Joins(f, s, 0)
      BY <2>1 DEF Joins
    <2> QED BY <2>2
  <1>3. m - 1 \in Nat /\ m - 1 \notin T
    BY <1>1, <1>2
  <1>4. PICK f : Joins(f, s, m - 1)
    BY <1>3
  <1> DEFINE g == [i \in 1 .. m |-> IF i = m THEN (IF i = 1 THEN s[i] ELSE f[i - 1] \o s[i]) ELSE f[i]]
  <1>5. \A i \in 1 .. m - 1 : f[i] = IF i = 1 THEN s[i] ELSE f[i - 1] \o s[i]
    BY <1>4 DEF Joins
  <1>6. ASSUME NEW i \in 1 .. m
        PROVE  g[i] = IF i = 1 THEN s[i] ELSE g[i - 1] \o s[i]
    <2>1. i # 1 => i - 1 \in 1 .. m /\ i - 1 # m
      BY <1>3
    <2>2. i # 1 => g[i - 1] = f[i - 1]
      BY <2>1
    <2>3. CASE i = m
      BY <2>2, <2>3
    <2>4. CASE i # m
      <3>1. i \in 1 .. m - 1 /\ g[i] = f[i]
        BY <1>3, <2>4
      <3> QED BY <1>5, <2>2, <3>1
    <2> QED BY <2>3, <2>4
  <1>7. g = [i \in 1 .. m |-> IF i = 1 THEN s[i] ELSE g[i - 1] \o s[i]]
    <2>1. g = [i \in 1 .. m |-> g[i]]
      OBVIOUS
    <2> HIDE DEF g
    <2> QED BY <1>6, <2>1, Zenon
  <1>8. Joins(g, s, m)
    <2> HIDE DEF g
    <2> QED BY <1>7 DEF Joins
  <1> QED BY <1>1, <1>8

LEMMA FlattenIsJoined ==
  ASSUME NEW s, Len(s) \in Nat \ {0}
  PROVE  \E f : Joins(f, s, Len(s)) /\ FlattenSeq(s) = f[Len(s)]
  <1> DEFINE h == CHOOSE f : Joins(f, s, Len(s))
  <1>1. Joins(h, s, Len(s))
    BY JoinsExist
  <1>2. FlattenSeq(s) = h[Len(s)]
    BY DEF FlattenSeq, Joins
  <1> QED BY <1>1, <1>2

LEMMA JoinedType ==
  ASSUME NEW S, NEW s \in Seq(Seq(S)), NEW f, Joins(f, s, Len(s))
  PROVE  \A i \in 1 .. Len(s) : f[i] \in Seq(S)
  <1> DEFINE T == {i \in 1 .. Len(s) : f[i] \notin Seq(S)}
  <1>1. Len(s) \in Nat /\ \A i \in 1 .. Len(s) : s[i] \in Seq(S)
    BY LenProperties, ElementOfSeq
  <1> SUFFICES ASSUME T # {} PROVE FALSE
    OBVIOUS
  <1>2. T \subseteq Nat
    BY <1>1
  <1>3. PICK i \in T : \A k \in T : i <= k
    BY <1>2, Least
  <1>4. f[i] = IF i = 1 THEN s[i] ELSE f[i - 1] \o s[i]
    BY <1>1 DEF Joins
  <1>5. i # 1 => i - 1 \in 1 .. Len(s) /\ i - 1 \notin T
    BY <1>1, <1>3
  <1>6. CASE i = 1
    BY <1>1, <1>4, <1>6
  <1>7. CASE i # 1
    <2>1. f[i - 1] \in Seq(S) /\ s[i] \in Seq(S)
      BY <1>1, <1>5, <1>7
    <2> QED BY <1>4, <1>7, <2>1, ConcatProperties
  <1> QED BY <1>6, <1>7

(* The characters of the whole are those of the pieces.                    *)
LEMMA FlattenType ==
  ASSUME NEW S, NEW s \in Seq(Seq(S))
  PROVE  FlattenSeq(s) \in Seq(S)
  <1>1. CASE s = <<>>
    <2>1. FlattenSeq(s) = <<>>
      BY <1>1 DEF FlattenSeq
    <2> QED BY <2>1, EmptySeq
  <1>2. CASE s # <<>>
    <2>1. Len(s) \in Nat \ {0}
      BY <1>2, EmptySeq
    <2>2. PICK f : Joins(f, s, Len(s)) /\ FlattenSeq(s) = f[Len(s)]
      BY <2>1, FlattenIsJoined
    <2> QED BY <2>1, <2>2, JoinedType
  <1> QED BY <1>1, <1>2

(* The first piece is in front of what the others are joined to.           *)
LEMMA FlattenFirst ==
  ASSUME NEW S, NEW s \in Seq(Seq(S)), s # <<>>
  PROVE  FlattenSeq(s) = s[1] \o FlattenSeq(Tail(s))
  <1> DEFINE r == Tail(s)
             n == Len(r)
  <1>1. /\ Len(s) \in Nat \ {0} /\ n \in Nat /\ Len(s) = n + 1
        /\ r \in Seq(Seq(S))
        /\ \A i \in 1 .. n : r[i] = s[i + 1]
        /\ \A i \in 1 .. Len(s) : s[i] \in Seq(S)
    BY EmptySeq, LenProperties, HeadTailProperties, ElementOfSeq
  <1>2. PICK f : Joins(f, s, Len(s)) /\ FlattenSeq(s) = f[Len(s)]
    BY <1>1, FlattenIsJoined
  <1> HIDE DEF r, n
  <1>3. f[1] = s[1] /\ \A i \in 1 .. n : f[i + 1] = f[i] \o s[i + 1]
    <2>1. \A i \in 1 .. n + 1 : f[i] = IF i = 1 THEN s[i] ELSE f[i - 1] \o s[i]
      BY <1>1, <1>2 DEF Joins
    <2>2. 1 \in 1 .. n + 1
      BY <1>1
    <2>3. ASSUME NEW i \in 1 .. n PROVE f[i + 1] = f[i] \o s[i + 1]
      <3> DEFINE j == i + 1
      <3>1. j \in 1 .. n + 1 /\ j # 1 /\ j - 1 = i
        BY <1>1
      <3> HIDE DEF j
      <3>2. f[j] = f[j - 1] \o s[j]
        BY <2>1, <3>1
      <3> QED BY <3>1, <3>2 DEF j
    <2> QED BY <2>1, <2>2, <2>3
  <1>4. CASE n = 0
    <2>1. FlattenSeq(r) = <<>>
      <3>1. r = <<>>
        BY <1>1, <1>4, EmptySeq DEF n
      <3> QED BY <3>1 DEF FlattenSeq
    <2>2. s[1] \o <<>> = s[1]
      <3>1. s[1] \in Seq(S)
        BY <1>1
      <3> QED BY <3>1, ConcatEmptySeq
    <2> QED BY <1>1, <1>2, <1>3, <1>4, <2>1, <2>2 DEF r
  <1>5. CASE n # 0
    <2>1. PICK g : Joins(g, r, n) /\ FlattenSeq(r) = g[n]
      BY <1>1, <1>5, FlattenIsJoined DEF n
    <2>2. /\ \A i \in 1 .. n : g[i] = IF i = 1 THEN r[i] ELSE g[i - 1] \o r[i]
          /\ \A i \in 1 .. n : g[i] \in Seq(S)
      <3>1. \A i \in 1 .. n : g[i] \in Seq(S)
        BY <1>1, <2>1, JoinedType DEF n
      <3> QED BY <2>1, <3>1 DEF Joins
    <2> DEFINE T == {i \in 1 .. n : f[i + 1] # s[1] \o g[i]}
    <2>3. ASSUME T # {} PROVE FALSE
      <3>1. T \subseteq Nat
        <4>1. T \subseteq 1 .. n
          OBVIOUS
        <4>2. 1 .. n \subseteq Nat
          BY <1>1
        <4> HIDE DEF T
        <4> QED BY <4>1, <4>2
      <3>2. PICK i \in T : \A k \in T : i <= k
        BY <2>3, <3>1, Least
      <3>3. i \in 1 .. n /\ i + 1 \in 1 .. Len(s) /\ r[i] = s[i + 1]
        BY <1>1
      <3>4. CASE i = 1
        BY <1>3, <2>2, <3>2, <3>3, <3>4
      <3>5. CASE i # 1
        <4>1. i - 1 \in 1 .. n /\ i - 1 + 1 = i /\ ~ (i <= i - 1)
          BY <1>1, <3>3, <3>5
        <4>2. f[i] = s[1] \o g[i - 1]
          <5>1. i - 1 \notin T
            BY <3>2, <4>1
          <5> QED BY <4>1, <5>1
        <4>3. f[i + 1] = (s[1] \o g[i - 1]) \o r[i]
          BY <1>3, <3>3, <4>2
        <4>4. s[1] \in Seq(S) /\ g[i - 1] \in Seq(S) /\ r[i] \in Seq(S)
          BY <1>1, <2>2, <3>3, <4>1
        <4>5. (s[1] \o g[i - 1]) \o r[i] = s[1] \o (g[i - 1] \o r[i])
          <5> DEFINE a == s[1]
                     b == g[i - 1]
                     c == r[i]
          <5>1. a \in Seq(S) /\ b \in Seq(S) /\ c \in Seq(S)
            BY <4>4
          <5> HIDE DEF a, b, c
          <5>2. (a \o b) \o c = a \o (b \o c)
            BY <5>1, ConcatAssociative
          <5> QED BY <5>2 DEF a, b, c
        <4>6. g[i] = g[i - 1] \o r[i]
          BY <2>2, <3>3, <3>5
        <4> QED BY <4>3, <4>5, <4>6, <3>2
      <3> QED BY <3>4, <3>5
    <2>4. f[n + 1] = s[1] \o g[n]
      <3>1. n \in 1 .. n
        BY <1>1, <1>5
      <3> QED BY <2>3, <3>1
    <2> QED BY <1>1, <1>2, <2>1, <2>4 DEF r
  <1> QED BY <1>4, <1>5

-----------------------------------------------------------------------------
(* Module Fetch: a response put together from its chunks.                  *)

(* The characters that frame the chunks.                                   *)
Frame == {"0", "1", "2", "3", "cr", "lf"}

(* Pieces that can be sent, and those that arrive as they were sent.       *)
Cut(pieces, S) ==
  /\ pieces \in Seq(Seq(S))
  /\ \A p \in 1 .. Len(pieces) : Len(pieces[p]) \in 1 .. 3
Whole(pieces, S) ==
  /\ Cut(pieces, S)
  /\ \A p \in 1 .. Len(pieces) : pieces[p][1] \notin Blanks

LEMMA DigitOf ==
  /\ Len(Digits) = 3 /\ DOMAIN Digits = 1 .. 3
  /\ \A n \in 1 .. 3 : Digits[n] \in Frame /\ Digits[n] \notin Blanks /\ Digits[n] # "0"
  /\ \A m, n \in 1 .. 3 : Digits[m] = Digits[n] => m = n
  /\ Len(crlf) = 2 /\ crlf[1] = "cr" /\ crlf[2] = "lf"
  <1>1. Len(Digits) = 3 /\ Digits[1] = "1" /\ Digits[2] = "2" /\ Digits[3] = "3" /\ DOMAIN Digits = 1 .. 3
    BY DEF Digits
  <1>2. \A n \in 1 .. 3 : n = 1 \/ n = 2 \/ n = 3
    OBVIOUS
  <1>3. \A n \in 1 .. 3 : Digits[n] \in Frame /\ Digits[n] \notin Blanks /\ Digits[n] # "0"
    BY <1>1, <1>2 DEF Frame, Blanks
  <1>4. \A m, n \in 1 .. 3 : Digits[m] = Digits[n] => m = n
    BY <1>1, <1>2
  <1>5. Len(crlf) = 2 /\ crlf[1] = "cr" /\ crlf[2] = "lf"
    BY DEF crlf
  <1> QED BY <1>1, <1>3, <1>4, <1>5

(* A sequence c is a with b behind it.                                     *)
IsConcat(c, a, b, S) ==
  /\ c \in Seq(S)
  /\ Len(a) \in Nat /\ Len(b) \in Nat /\ Len(c) = Len(a) + Len(b)
  /\ \A i \in 1 .. Len(a) : c[i] = a[i]
  /\ \A i \in 1 .. Len(b) : c[Len(a) + i] = b[i]

LEMMA Concat ==
  ASSUME NEW S, NEW a \in Seq(S), NEW b \in Seq(S)
  PROVE  IsConcat(a \o b, a, b, S)
  <1> DEFINE c == a \o b
  <1>1. /\ c \in Seq(S) /\ Len(c) = Len(a) + Len(b)
        /\ \A i \in 1 .. Len(a) + Len(b) : c[i] = IF i <= Len(a) THEN a[i] ELSE b[i - Len(a)]
    BY ConcatProperties
  <1>2. Len(a) \in Nat /\ Len(b) \in Nat
    BY LenProperties
  <1> HIDE DEF c
  <1>3. ASSUME NEW i \in 1 .. Len(a) PROVE c[i] = a[i]
    <2>1. i \in 1 .. Len(a) + Len(b) /\ i <= Len(a)
      BY <1>2
    <2> QED BY <1>1, <2>1
  <1>4. ASSUME NEW i \in 1 .. Len(b) PROVE c[Len(a) + i] = b[i]
    <2> DEFINE j == Len(a) + i
    <2>1. j \in 1 .. Len(a) + Len(b) /\ ~ (j <= Len(a)) /\ j - Len(a) = i
      BY <1>2
    <2> HIDE DEF j
    <2>2. c[j] = b[j - Len(a)]
      BY <1>1, <2>1
    <2> QED BY <2>1, <2>2 DEF j
  <1> QED BY <1>1, <1>2, <1>3, <1>4 DEF c, IsConcat

(* Where everything is in a chunk with w behind it.                        *)
LaidOut(all, piece, w, S) ==
  LET n == Len(piece)
  IN /\ all \in Seq(S)
     /\ Len(all) = n + 5 + Len(w)
     /\ all[1] = Digits[n] /\ all[2] = "cr" /\ all[3] = "lf"
     /\ \A i \in 1 .. n : all[3 + i] = piece[i]
     /\ \A i \in 1 .. Len(w) : all[n + 5 + i] = w[i]

LEMMA ChunkLayout ==
  ASSUME NEW S, Frame \subseteq S, NEW piece \in Seq(S), Len(piece) \in 1 .. 3, NEW w \in Seq(S)
  PROVE  Chunk(piece) \in Seq(S) /\ LaidOut(Chunk(piece) \o w, piece, w, S)
  <1> DEFINE n == Len(piece)
             a == <<Digits[n]>>
             b == a \o crlf
             c == b \o piece
             d == c \o crlf
             e == d \o w
  <1>1. n \in 1 .. 3 /\ Len(w) \in Nat
    BY LenProperties
  <1>2. a \in Seq(S) /\ Len(a) = 1 /\ a[1] = Digits[n]
    <2>1. Digits[n] \in S
      BY <1>1, DigitOf
    <2> HIDE DEF n
    <2> QED BY <2>1
  <1>3. crlf \in Seq(S) /\ Len(crlf) = 2 /\ crlf[1] = "cr" /\ crlf[2] = "lf"
    <2>1. "cr" \in S /\ "lf" \in S
      BY DEF Frame
    <2> QED BY <2>1, DigitOf DEF crlf
  <1> HIDE DEF a, n
  <1>4. /\ b \in Seq(S) /\ Len(b) = 3
        /\ b[1] = Digits[n] /\ b[2] = "cr" /\ b[3] = "lf"
    <2>1. IsConcat(b, a, crlf, S)
      BY <1>2, <1>3, Concat
    <2> HIDE DEF b
    <2>2. b[1 + 1] = crlf[1] /\ b[1 + 2] = crlf[2] /\ b[1] = a[1]
      <3>1. 1 \in 1 .. 2 /\ 2 \in 1 .. 2 /\ 1 \in 1 .. 1
        OBVIOUS
      <3> QED BY <1>2, <1>3, <2>1, <3>1 DEF IsConcat
    <2> QED BY <1>2, <1>3, <2>1, <2>2 DEF IsConcat
  <1> HIDE DEF b
  <1>5. /\ c \in Seq(S) /\ Len(c) = 3 + n
        /\ \A i \in 1 .. 3 : c[i] = b[i]
        /\ \A i \in 1 .. n : c[3 + i] = piece[i]
    <2>1. IsConcat(c, b, piece, S)
      BY <1>4, Concat
    <2> HIDE DEF c
    <2> QED BY <1>4, <2>1 DEF n, IsConcat
  <1> HIDE DEF c
  <1>6. /\ d \in Seq(S) /\ Len(d) = 5 + n
        /\ \A i \in 1 .. 3 + n : d[i] = c[i]
    <2>1. IsConcat(d, c, crlf, S)
      BY <1>3, <1>5, Concat
    <2> HIDE DEF d
    <2> QED BY <1>1, <1>3, <1>5, <2>1 DEF IsConcat
  <1> HIDE DEF d
  <1>7. /\ e \in Seq(S) /\ Len(e) = n + 5 + Len(w)
        /\ \A i \in 1 .. 5 + n : e[i] = d[i]
        /\ \A i \in 1 .. Len(w) : e[n + 5 + i] = w[i]
    <2>1. IsConcat(e, d, w, S)
      BY <1>6, Concat
    <2>2. Len(d) = n + 5
      BY <1>1, <1>6
    <2> HIDE DEF e
    <2> QED BY <1>1, <1>6, <2>1, <2>2 DEF IsConcat
  <1>8. /\ 1 \in 1 .. 3 /\ 2 \in 1 .. 3 /\ 3 \in 1 .. 3
        /\ \A i \in 1 .. 3 : i \in 1 .. 3 + n /\ i \in 1 .. 5 + n
        /\ \A i \in 1 .. n : 3 + i \in 1 .. 3 + n /\ 3 + i \in 1 .. 5 + n
    BY <1>1
  <1>9. \A i \in 1 .. 3 : e[i] = b[i]
    BY <1>5, <1>6, <1>7, <1>8
  <1>10. e[1] = Digits[n] /\ e[2] = "cr" /\ e[3] = "lf"
    BY <1>4, <1>8, <1>9
  <1>11. \A i \in 1 .. n : e[3 + i] = piece[i]
    BY <1>5, <1>6, <1>7, <1>8
  <1>12. d = Chunk(piece) /\ e = Chunk(piece) \o w
    BY DEF Chunk, a, b, c, d, n
  <1> HIDE DEF e
  <1>13. LaidOut(e, piece, w, S)
    BY <1>7, <1>10, <1>11 DEF LaidOut, n
  <1> QED BY <1>6, <1>12, <1>13

LEMMA SkipsTo ==
  ASSUME NEW w, Len(w) \in Nat, NEW k \in 1 .. Len(w), w[k] \notin Blanks,
         \A i \in 1 .. k - 1 : w[i] \in Blanks
  PROVE  SkipBlanks(w) = SubSeq(w, k, Len(w))
  <1> DEFINE solid == {i \in 1 .. Len(w) : w[i] \notin Blanks}
             first == CHOOSE i \in solid : \A j \in solid : i <= j
  <1>1. k \in solid /\ \A j \in solid : j \in Nat
    OBVIOUS
  <1>2. \A j \in solid : k <= j
    <2> SUFFICES ASSUME NEW j \in solid, ~ (k <= j) PROVE FALSE
      OBVIOUS
    <2>1. j \in 1 .. k - 1
      OBVIOUS
    <2> QED BY <2>1
  <1>3. first \in solid /\ \A j \in solid : first <= j
    BY <1>1, <1>2
  <1>4. first = k
    <2>1. first <= k /\ k <= first
      BY <1>1, <1>2, <1>3
    <2>2. first \in Nat /\ k \in Nat
      BY <1>1, <1>3
    <2> QED BY <2>1, <2>2
  <1> HIDE DEF first
  <1>5. SkipBlanks(w) = SubSeq(w, first, Len(w))
    BY <1>1 DEF SkipBlanks, first
  <1> QED BY <1>4, <1>5

LEMMA SkipsNone ==
  ASSUME NEW S, NEW w \in Seq(S), Len(w) # 0, w[1] \notin Blanks
  PROVE  SkipBlanks(w) = w
  <1>1. Len(w) \in Nat /\ 1 \in 1 .. Len(w) /\ \A i \in 1 .. 1 - 1 : w[i] \in Blanks
    BY LenProperties
  <1>2. SkipBlanks(w) = SubSeq(w, 1, Len(w))
    BY <1>1, SkipsTo
  <1> QED BY <1>2, SubSeqFull

(* What scanf() makes of the head of a chunk, and of the end.              *)
LEMMA ReadsChunk ==
  ASSUME NEW S, Frame \subseteq S, NEW piece \in Seq(S), Len(piece) \in 1 .. 3,
         piece[1] \notin Blanks, NEW w \in Seq(S)
  PROVE  LET all == Chunk(piece) \o w
             data == SkipBlanks(Tail(all))
             n == ChunkSize(all)
         IN /\ SkipBlanks(all) = all
            /\ n = Len(piece)
            /\ Len(data) \in Nat /\ Len(data) >= n
            /\ SubSeq(data, 1, n) = piece
            /\ SubSeq(data, n + 3, Len(data)) = w
  <1> DEFINE all == Chunk(piece) \o w
             t == Tail(all)
             data == SkipBlanks(t)
             n == Len(piece)
  <1>1. /\ all \in Seq(S) /\ n \in 1 .. 3 /\ Len(w) \in Nat
        /\ Len(all) = n + 5 + Len(w)
        /\ all[1] = Digits[n] /\ all[2] = "cr" /\ all[3] = "lf"
        /\ \A i \in 1 .. n : all[3 + i] = piece[i]
        /\ \A i \in 1 .. Len(w) : all[n + 5 + i] = w[i]
    <2>1. LaidOut(all, piece, w, S)
      BY ChunkLayout
    <2>2. n \in 1 .. 3 /\ Len(w) \in Nat
      BY LenProperties
    <2> HIDE DEF all
    <2> QED BY <2>1, <2>2 DEF LaidOut
  <1> HIDE DEF all, n
  <1>2. SkipBlanks(all) = all
    BY <1>1, DigitOf, SkipsNone
  <1>3. ChunkSize(all) = n
    <2>1. all # <<>>
      BY <1>1, EmptySeq
    <2>2. \A d \in 1 .. 3 : Digits[d] = all[1] <=> d = n
      BY <1>1, DigitOf
    <2>3. n \in DOMAIN Digits /\ DOMAIN Digits = 1 .. 3
      BY <1>1, DigitOf
    <2>4. (CHOOSE d \in DOMAIN Digits : Digits[d] = all[1]) = n
      BY <2>2, <2>3
    <2> QED BY <2>1, <2>2, <2>3, <2>4 DEF ChunkSize
  <1>4. /\ t \in Seq(S) /\ Len(t) = n + 4 + Len(w)
        /\ \A i \in 1 .. Len(t) : t[i] = all[i + 1]
    <2>1. all # <<>>
      BY <1>1, EmptySeq
    <2>2. t \in Seq(S) /\ Len(t) = Len(all) - 1 /\ \A i \in 1 .. Len(t) : t[i] = all[i + 1]
      BY <1>1, <2>1, HeadTailProperties
    <2> QED BY <1>1, <2>2
  <1> HIDE DEF t
  <1>5. data \in Seq(S) /\ Len(data) = n + 2 + Len(w) /\ \A i \in 1 .. Len(data) : data[i] = all[i + 3]
    <2>1. 1 \in 1 .. Len(t) /\ 2 \in 1 .. Len(t) /\ 3 \in 1 .. Len(t) /\ Len(t) \in Nat
      BY <1>1, <1>4
    <2>2. t[1] = "cr" /\ t[2] = "lf" /\ t[3] = piece[1]
      <3>1. t[1] = all[1 + 1] /\ t[2] = all[2 + 1] /\ t[3] = all[3 + 1] /\ 1 \in 1 .. n
        BY <1>1, <1>4, <2>1
      <3> QED BY <1>1, <3>1
    <2>3. \A i \in 1 .. 3 - 1 : t[i] \in Blanks
      <3>1. \A i \in 1 .. 3 - 1 : i = 1 \/ i = 2
        OBVIOUS
      <3> QED BY <2>2, <3>1 DEF Blanks
    <2>4. data = SubSeq(t, 3, Len(t))
      BY <2>1, <2>2, <2>3, SkipsTo
    <2> HIDE DEF data
    <2>5. \A i \in 3 .. Len(t) : t[i] \in S
      <3>1. \A i \in 3 .. Len(t) : i \in 1 .. Len(t)
        BY <2>1
      <3> QED BY <1>4, <3>1, ElementOfSeq
    <2>6. /\ data \in Seq(S)
          /\ Len(data) = IF 3 <= Len(t) THEN Len(t) - 3 + 1 ELSE 0
          /\ \A i \in 1 .. Len(t) - 3 + 1 : data[i] = t[3 + i - 1]
      BY <2>1, <2>4, <2>5, SubSeqProperties
    <2>7. ASSUME NEW i \in 1 .. Len(data) PROVE data[i] = all[i + 3]
      <3> DEFINE j == 3 + i - 1
      <3>1. j \in 1 .. Len(t) /\ j + 1 = i + 3 /\ i \in 1 .. Len(t) - 3 + 1
        BY <2>1, <2>6
      <3>2. data[i] = t[j]
        BY <2>6, <3>1
      <3> HIDE DEF j
      <3>3. t[j] = all[j + 1]
        BY <1>4, <3>1
      <3> QED BY <3>1, <3>2, <3>3
    <2> QED BY <1>1, <1>4, <2>6, <2>7
  <1> HIDE DEF data
  <1>6. SubSeq(data, 1, n) = piece
    <2> DEFINE front == SubSeq(data, 1, n)
    <2>1. \A i \in 1 .. n : i \in 1 .. Len(data) /\ data[i] \in S
      <3>1. \A i \in 1 .. n : i \in 1 .. Len(data)
        BY <1>1, <1>5
      <3> QED BY <1>5, <3>1, ElementOfSeq
    <2>2. /\ front \in Seq(S)
          /\ Len(front) = IF 1 <= n THEN n - 1 + 1 ELSE 0
          /\ \A i \in 1 .. n - 1 + 1 : front[i] = data[1 + i - 1]
      <3>1. 1 \in Int /\ n \in Int
        BY <1>1
      <3> QED BY <2>1, <3>1, SubSeqProperties
    <2> HIDE DEF front
    <2>3. ASSUME NEW i \in 1 .. n PROVE front[i] = piece[i]
      <3>1. front[i] = data[1 + i - 1] /\ 1 + i - 1 = i
        BY <1>1, <2>2
      <3>2. data[i] = all[i + 3] /\ all[3 + i] = piece[i] /\ i + 3 = 3 + i
        BY <1>1, <1>5, <2>1
      <3> QED BY <3>1, <3>2
    <2>4. Len(front) = n /\ Len(piece) = n
      BY <1>1, <2>2 DEF n
    <2> QED BY <2>2, <2>3, <2>4, SeqEqual DEF front
  <1>7. SubSeq(data, n + 3, Len(data)) = w
    <2> DEFINE back == SubSeq(data, n + 3, Len(data))
    <2>1. Len(data) \in Int /\ n + 3 \in Int /\ Len(data) = n + 2 + Len(w)
      BY <1>1, <1>5
    <2>2. \A i \in n + 3 .. Len(data) : data[i] \in S
      <3>1. \A i \in n + 3 .. Len(data) : i \in 1 .. Len(data)
        BY <1>1, <2>1
      <3> QED BY <1>5, <3>1, ElementOfSeq
    <2>3. /\ back \in Seq(S)
          /\ Len(back) = IF n + 3 <= Len(data) THEN Len(data) - (n + 3) + 1 ELSE 0
          /\ \A i \in 1 .. Len(data) - (n + 3) + 1 : back[i] = data[n + 3 + i - 1]
      BY <2>1, <2>2, SubSeqProperties
    <2> HIDE DEF back
    <2>4. Len(back) = Len(w)
      BY <1>1, <2>1, <2>3
    <2>5. ASSUME NEW i \in 1 .. Len(w) PROVE back[i] = w[i]
      <3> DEFINE j == n + 3 + i - 1
      <3>1. i \in 1 .. Len(data) - (n + 3) + 1 /\ j \in 1 .. Len(data) /\ j + 3 = n + 5 + i
        BY <1>1, <2>1
      <3>2. back[i] = data[j]
        BY <2>3, <3>1
      <3> HIDE DEF j
      <3>3. data[j] = all[j + 3]
        BY <1>5, <3>1
      <3> QED BY <1>1, <3>1, <3>2, <3>3
    <2> QED BY <2>3, <2>4, <2>5, SeqEqual DEF back
  <1>8. Len(data) \in Nat /\ Len(data) >= n
    BY <1>1, <1>5
  <1> QED BY <1>2, <1>3, <1>6, <1>7, <1>8 DEF all, n, data, t

Ending == <<"0">> \o crlf \o crlf
Chunked(pieces) == [p \in DOMAIN pieces |-> Chunk(pieces[p])]

LEMMA EndingType ==
  ASSUME NEW S, Frame \subseteq S
  PROVE  Ending \in Seq(S) /\ Len(Ending) = 5 /\ Ending[1] = "0"
  <1>1. crlf \in Seq(S) /\ Len(crlf) = 2 /\ <<"0">> \in Seq(S) /\ Len(<<"0">>) = 1 /\ <<"0">>[1] = "0"
    <2>1. "cr" \in S /\ "lf" \in S /\ "0" \in S
      BY DEF Frame
    <2> QED BY <2>1, DigitOf DEF crlf
  <1> DEFINE z == <<"0">>
             b == z \o crlf
  <1> HIDE DEF z
  <1>2. IsConcat(b, z, crlf, S)
    BY <1>1, Concat DEF z
  <1> HIDE DEF b
  <1>3. b \in Seq(S) /\ Len(b) = 3 /\ b[1] = "0"
    <2>1. 1 \in 1 .. 1
      OBVIOUS
    <2> QED BY <1>1, <1>2, <2>1 DEF IsConcat, z
  <1>4. IsConcat(b \o crlf, b, crlf, S)
    BY <1>1, <1>3, Concat
  <1> DEFINE e == b \o crlf
  <1> HIDE DEF e
  <1>5. e \in Seq(S) /\ Len(e) = 5 /\ e[1] = "0"
    <2>1. IsConcat(e, b, crlf, S) /\ 1 \in 1 .. 3
      BY <1>4 DEF e
    <2> QED BY <1>1, <1>3, <2>1 DEF IsConcat
  <1> QED BY <1>5 DEF Ending, e, b, z

(* The end is read as no chunk.                                            *)
LEMMA ReadsEnding == SkipBlanks(Ending) = Ending /\ ChunkSize(Ending) = 0
  <1>1. Ending \in Seq(Frame) /\ Len(Ending) = 5 /\ Ending[1] = "0"
    BY EndingType
  <1>2. "0" \notin Blanks
    BY DEF Blanks
  <1>3. SkipBlanks(Ending) = Ending
    BY <1>1, <1>2, SkipsNone
  <1>4. \A d \in DOMAIN Digits : Digits[d] # "0"
    BY DigitOf
  <1> QED BY <1>1, <1>3, <1>4 DEF ChunkSize

LEMMA ChunkedType ==
  ASSUME NEW S, Frame \subseteq S, NEW pieces, Cut(pieces, S)
  PROVE  /\ Chunked(pieces) \in Seq(Seq(S))
         /\ Len(Chunked(pieces)) = Len(pieces)
         /\ InChunks(pieces) = FlattenSeq(Chunked(pieces)) \o Ending
         /\ InChunks(pieces) \in Seq(S)
  <1> DEFINE n == Len(pieces)
  <1>1. n \in Nat /\ DOMAIN pieces = 1 .. n /\ \A p \in 1 .. n : pieces[p] \in Seq(S)
    BY LenProperties, ElementOfSeq DEF Cut
  <1>2. \A p \in 1 .. n : Chunk(pieces[p]) \in Seq(S)
    <2> SUFFICES ASSUME NEW p \in 1 .. n PROVE Chunk(pieces[p]) \in Seq(S)
      OBVIOUS
    <2>1. pieces[p] \in Seq(S) /\ Len(pieces[p]) \in 1 .. 3 /\ <<>> \in Seq(S)
      BY <1>1, EmptySeq DEF Cut
    <2> QED BY <2>1, ChunkLayout
  <1>3. Chunked(pieces) \in Seq(Seq(S)) /\ Len(Chunked(pieces)) = n
    BY <1>1, <1>2 DEF Chunked
  <1> DEFINE f == FlattenSeq(Chunked(pieces))
  <1>4. f \in Seq(S)
    BY <1>3, FlattenType
  <1> DEFINE z == <<"0">>
  <1> HIDE DEF f, z
  <1>5. z \in Seq(S) /\ crlf \in Seq(S)
    <2>1. "cr" \in S /\ "lf" \in S /\ "0" \in S
      BY DEF Frame
    <2> QED BY <2>1 DEF crlf, z
  <1>6. ((f \o z) \o crlf) \o crlf = f \o ((z \o crlf) \o crlf)
    <2>1. (f \o z) \o crlf = f \o (z \o crlf)
      BY <1>4, <1>5, ConcatAssociative
    <2>2. z \o crlf \in Seq(S)
      BY <1>5, ConcatProperties
    <2> DEFINE y == z \o crlf
    <2> HIDE DEF y
    <2>3. (f \o y) \o crlf = f \o (y \o crlf)
      BY <1>4, <1>5, <2>2, ConcatAssociative DEF y
    <2> QED BY <2>1, <2>3 DEF y
  <1>7. InChunks(pieces) = f \o Ending
    BY <1>6 DEF InChunks, Ending, f, z, Chunked
  <1>8. f \o Ending \in Seq(S)
    BY <1>4, EndingType, ConcatProperties
  <1> QED BY <1>3, <1>7, <1>8 DEF f

(* A whole response is its first chunk and the response of the others.     *)
LEMMA InChunksFirst ==
  ASSUME NEW S, Frame \subseteq S, NEW pieces, Whole(pieces, S), pieces # <<>>
  PROVE  /\ pieces[1] \in Seq(S) /\ Len(pieces[1]) \in 1 .. 3 /\ pieces[1][1] \notin Blanks
         /\ Whole(Tail(pieces), S)
         /\ InChunks(pieces) = Chunk(pieces[1]) \o InChunks(Tail(pieces))
  <1> DEFINE n == Len(pieces)
             r == Tail(pieces)
             c == Chunked(pieces)
  <1>1. /\ n \in Nat \ {0} /\ DOMAIN pieces = 1 .. n
        /\ r \in Seq(Seq(S)) /\ Len(r) = n - 1
        /\ \A p \in 1 .. Len(r) : r[p] = pieces[p + 1]
        /\ \A p \in 1 .. n : pieces[p] \in Seq(S)
    BY EmptySeq, LenProperties, HeadTailProperties, ElementOfSeq DEF Whole, Cut
  <1> HIDE DEF r
  <1>2. /\ 1 \in 1 .. n
        /\ \A p \in 1 .. Len(r) : p + 1 \in 1 .. n
    BY <1>1
  <1>3. pieces[1] \in Seq(S) /\ Len(pieces[1]) \in 1 .. 3 /\ pieces[1][1] \notin Blanks
    BY <1>1, <1>2 DEF Whole, Cut
  <1>4. Whole(r, S)
    BY <1>1, <1>2 DEF Whole, Cut
  <1>5. /\ c \in Seq(Seq(S)) /\ Len(c) = n
        /\ InChunks(pieces) = FlattenSeq(c) \o Ending
        /\ Chunked(r) \in Seq(Seq(S)) /\ Len(Chunked(r)) = Len(r)
        /\ InChunks(r) = FlattenSeq(Chunked(r)) \o Ending
    <2>1. Cut(pieces, S) /\ Cut(r, S)
      BY <1>4 DEF Whole
    <2> QED BY <2>1, ChunkedType
  <1>6. c[1] = Chunk(pieces[1])
    BY <1>1, <1>2 DEF Chunked
  <1>7. c # <<>>
    BY <1>1, <1>5, EmptySeq
  <1>8. Tail(c) = Chunked(r)
    <2>1. /\ Tail(c) \in Seq(Seq(S)) /\ Len(Tail(c)) = Len(r)
          /\ \A i \in 1 .. Len(Tail(c)) : Tail(c)[i] = c[i + 1]
      BY <1>1, <1>5, <1>7, HeadTailProperties
    <2>2. ASSUME NEW i \in 1 .. Len(r) PROVE Tail(c)[i] = Chunked(r)[i]
      <3>1. c[i + 1] = Chunk(pieces[i + 1])
        BY <1>1, <1>2 DEF Chunked
      <3>2. Chunked(r)[i] = Chunk(r[i])
        <4>1. DOMAIN r = 1 .. Len(r)
          BY <1>1, LenProperties
        <4> QED BY <4>1 DEF Chunked
      <3> QED BY <1>1, <2>1, <3>1, <3>2
    <2> HIDE DEF c
    <2> QED BY <1>5, <2>1, <2>2, SeqEqual
  <1>9. FlattenSeq(c) = Chunk(pieces[1]) \o FlattenSeq(Chunked(r))
    BY <1>5, <1>6, <1>7, <1>8, FlattenFirst
  <1> DEFINE h == Chunk(pieces[1])
             f == FlattenSeq(Chunked(r))
  <1>10. h \in Seq(S) /\ f \in Seq(S) /\ Ending \in Seq(S)
    <2>1. <<>> \in Seq(S)
      BY EmptySeq
    <2> QED BY <1>3, <1>5, <2>1, ChunkLayout, FlattenType, EndingType
  <1> HIDE DEF h, f, c
  <1>11. (h \o f) \o Ending = h \o (f \o Ending)
    BY <1>10, ConcatAssociative
  <1>12. InChunks(pieces) = h \o InChunks(r)
    BY <1>5, <1>9, <1>11 DEF h, f
  <1> QED BY <1>3, <1>4, <1>12 DEF h, r

(* Parts of a sequence.                                                    *)
LEMMA PartType ==
  ASSUME NEW S, NEW s \in Seq(S), NEW m \in Nat \ {0}, NEW n \in 0 .. Len(s)
  PROVE  SubSeq(s, m, n) \in Seq(S) /\ Len(SubSeq(s, m, n)) <= Len(s)
  <1>1. Len(s) \in Nat /\ n \in Nat /\ \A i \in m .. n : i \in 1 .. Len(s)
    BY LenProperties
  <1>2. \A i \in m .. n : s[i] \in S
    BY <1>1, ElementOfSeq
  <1>3. SubSeq(s, m, n) \in Seq(S) /\ Len(SubSeq(s, m, n)) = IF m <= n THEN n - m + 1 ELSE 0
    BY <1>1, <1>2, SubSeqProperties
  <1> QED BY <1>1, <1>3

LEMMA SkipType ==
  ASSUME NEW S, NEW s \in Seq(S)
  PROVE  SkipBlanks(s) \in Seq(S)
  <1> DEFINE solid == {i \in 1 .. Len(s) : s[i] \notin Blanks}
  <1>1. CASE solid = {}
    BY <1>1, EmptySeq DEF SkipBlanks
  <1>2. CASE solid # {}
    <2>1. Len(s) \in Nat /\ solid \subseteq Nat
      <3>1. Len(s) \in Nat
        BY LenProperties
      <3>2. 1 .. Len(s) \subseteq Nat /\ solid \subseteq 1 .. Len(s)
        BY <3>1
      <3> QED BY <3>1, <3>2
    <2> DEFINE k == CHOOSE i \in solid : \A j \in solid : i <= j
    <2>2. k \in solid
      BY <1>2, <2>1, Least
    <2>3. k \in Nat \ {0} /\ Len(s) \in 0 .. Len(s)
      <3>1. k \in 1 .. Len(s)
        BY <2>2
      <3> HIDE DEF k
      <3> QED BY <2>1, <3>1
    <2>4. SkipBlanks(s) = SubSeq(s, k, Len(s))
      BY <1>2 DEF SkipBlanks
    <2> HIDE DEF k
    <2> QED BY <2>3, <2>4, PartType
  <1> QED BY <1>1, <1>2

LEMMA SplitsAreCut ==
  ASSUME NEW S, NEW text \in Seq(S), Len(text) <= 3, NEW pieces \in Splits(text)
  PROVE  Cut(pieces, S) /\ FlattenSeq(pieces) = text
  <1>1. ASSUME NEW part \in Parts(text)
        PROVE  part \in Seq(S) /\ Len(part) \in 1 .. 3
    <2>1. PICK i \in 0 .. Len(text), j \in 0 .. Len(text) : part = SubSeq(text, 1 + i, j) /\ part # <<>>
      BY <1>1 DEF Parts
    <2>2. Len(text) \in Nat
      BY LenProperties
    <2>3. 1 + i \in Nat \ {0}
      BY <2>2
    <2>4. part \in Seq(S) /\ Len(part) <= Len(text)
      BY <2>1, <2>3, PartType
    <2>5. Len(part) \in Nat \ {0}
      BY <2>1, <2>4, EmptySeq
    <2>6. Len(part) \in 1 .. 3
      <3> DEFINE l == Len(part)
                 m == Len(text)
      <3>1. l \in Nat \ {0} /\ m \in Nat /\ l <= m /\ m <= 3
        BY <2>2, <2>4, <2>5
      <3> HIDE DEF l, m
      <3>2. l \in 1 .. 3
        BY <3>1
      <3> QED BY <3>2 DEF l
    <2> QED BY <2>4, <2>6
  <1>2. PICK n \in 1 .. Len(text) : pieces \in [1 .. n -> Parts(text)]
    BY DEF Splits
  <1>3. FlattenSeq(pieces) = text
    BY DEF Splits
  <1>4. n \in Nat
    <2>1. Len(text) \in Nat
      BY LenProperties
    <2> QED BY <2>1
  <1>5. pieces \in Seq(Parts(text)) /\ Len(pieces) = n
    BY <1>2, <1>4
  <1>6. pieces \in Seq(Seq(S))
    <2>1. Parts(text) \subseteq Seq(S)
      BY <1>1
    <2> QED BY <1>5, <2>1, SeqMonotonic
  <1>7. \A p \in 1 .. n : pieces[p] \in Parts(text)
    BY <1>2
  <1> QED BY <1>1, <1>3, <1>5, <1>6, <1>7 DEF Cut

LEMMA PrefixOfConcat ==
  ASSUME NEW S, NEW a \in Seq(S), NEW b \in Seq(S)
  PROVE  IsPrefix(a, a \o b)
  <1> DEFINE c == a \o b
             n == Len(a)
  <1>1. IsConcat(c, a, b, S)
    BY Concat
  <1> HIDE DEF c
  <1>2. n \in Nat /\ n <= Len(c) /\ \A i \in 1 .. n : i \in 1 .. Len(c) /\ a[i] = c[i]
    BY <1>1 DEF IsConcat
  <1>3. /\ SubSeq(a, 1, n) \in Seq(S) /\ Len(SubSeq(a, 1, n)) = n
        /\ \A i \in 1 .. n : SubSeq(a, 1, n)[i] = a[i]
    <2>1. SubSeq(a, 1, n) = a
      BY SubSeqFull
    <2> QED BY <2>1
  <1>4. /\ SubSeq(c, 1, n) \in Seq(S) /\ Len(SubSeq(c, 1, n)) = n
        /\ \A i \in 1 .. n : SubSeq(c, 1, n)[i] = c[i]
    <2>1. c \in Seq(S) /\ \A i \in 1 .. n : c[i] \in S
      BY <1>1, <1>2, ElementOfSeq DEF IsConcat
    <2> DEFINE f == SubSeq(c, 1, n)
    <2>2. /\ f \in Seq(S)
          /\ Len(f) = IF 1 <= n THEN n - 1 + 1 ELSE 0
          /\ \A i \in 1 .. n - 1 + 1 : f[i] = c[1 + i - 1]
      <3>1. 1 \in Int /\ n \in Int
        BY <1>2
      <3> HIDE DEF n
      <3> QED BY <2>1, <3>1, SubSeqProperties
    <2> HIDE DEF f
    <2>3. Len(f) = n
      BY <1>2, <2>2
    <2>4. ASSUME NEW i \in 1 .. n PROVE f[i] = c[i]
      <3>1. i \in 1 .. n - 1 + 1 /\ 1 + i - 1 = i
        BY <1>2
      <3>2. f[i] = c[1 + i - 1]
        BY <2>2, <3>1
      <3> QED BY <3>1, <3>2
    <2> QED BY <2>2, <2>3, <2>4 DEF f
  <1>5. SubSeq(a, 1, n) = SubSeq(c, 1, n)
    BY <1>2, <1>3, <1>4, SeqEqual
  <1> QED BY <1>2, <1>5 DEF IsPrefix, c

-----------------------------------------------------------------------------
(* The characters there are.                                               *)
Chars == Frame \cup {"token", "key", "error", "page", "NULL", " ", "}"}

(* What is still to come of a response that arrives as it was sent.        *)
Coming(pieces) ==
  Whole(pieces, Chars) /\ wire = InChunks(pieces) /\ content \o FlattenSeq(pieces) = body

ReplyInv ==
  /\ body \in Seq(Chars)
  /\ phase \in {"connect", "status"} => ~clean
  /\ Reassembled
  /\ clean /\ phase = "body" =>
       /\ body # <<>>
       /\ chunked => \E pieces : Coming(pieces)
       /\ ~chunked => content = <<>> /\ wire = body

(* The key is in no text before the server issues it.                      *)
Letters == IF issued THEN Chars ELSE Chars \ {"key"}
TextInv == content \in Seq(Letters) /\ wire \in Seq(Letters)

LEMMA FrameIsText == Frame \subseteq Chars /\ Frame \subseteq Letters /\ Letters \subseteq Chars
  <1>1. "key" \notin Frame
    BY DEF Frame
  <1> QED BY <1>1 DEF Letters, Chars

LEMMA ReadChunkTypes ==
  ASSUME TextInv, ReadChunk, UNCHANGED issued
  PROVE  TextInv'
  <1> DEFINE S == Letters
             sized == SkipBlanks(wire)
             n == ChunkSize(sized)
             data == SkipBlanks(Tail(sized))
  <1>0. S' = S
    BY DEF Letters
  <1>1. wire \in Seq(S) /\ content \in Seq(S)
    BY DEF TextInv
  <1> HIDE DEF S
  <1>2. sized \in Seq(S)
    BY <1>1, SkipType
  <1>3. CASE UNCHANGED <<wire, content>>
    BY <1>0, <1>1, <1>3 DEF TextInv, S
  <1>4. CASE /\ n # 0 /\ ~ (Len(data) < n)
             /\ content' = content \o SubSeq(data, 1, n)
             /\ wire' = SubSeq(data, n + 3, Len(data))
    <2>1. sized # <<>> /\ n \in 1 .. 3
      <3>1. \A d \in DOMAIN Digits : d \in 1 .. 3
        BY DigitOf
      <3> QED BY <1>4, <3>1 DEF ChunkSize
    <2>2. data \in Seq(S)
      <3>1. Tail(sized) \in Seq(S)
        BY <1>2, <2>1, HeadTailProperties
      <3> QED BY <3>1, SkipType
    <2> HIDE DEF n, data
    <2>3. Len(data) \in Nat /\ n \in 0 .. Len(data) /\ Len(data) \in 0 .. Len(data) /\ n + 3 \in Nat \ {0}
      <3>1. Len(data) \in Nat
        BY <2>2, LenProperties
      <3> QED BY <1>4, <2>1, <3>1
    <2>4. SubSeq(data, 1, n) \in Seq(S) /\ SubSeq(data, n + 3, Len(data)) \in Seq(S)
      BY <2>2, <2>3, PartType
    <2>5. content' \in Seq(S) /\ wire' \in Seq(S)
      BY <1>1, <1>4, <2>4, ConcatProperties
    <2> QED BY <1>0, <2>5 DEF TextInv, S
  <1> QED BY <1>3, <1>4 DEF ReadChunk

LEMMA ShortTexts ==
  ASSUME NEW S, NEW a \in S, NEW b \in S, NEW c \in S
  PROVE  /\ <<a, b, c>> \in Seq(S) /\ Len(<<a, b, c>>) = 3
         /\ <<a>> \in Seq(S) /\ Len(<<a>>) = 1
  OBVIOUS

LEMMA LengthIsShort ==
  ASSUME NEW s, Len(s) = 1 \/ Len(s) = 3
  PROVE  Len(s) \in 1 .. 3 /\ s # <<>>
  <1>1. s # <<>>
    BY EmptySeq
  <1> DEFINE l == Len(s)
  <1>2. l = 1 \/ l = 3
    OBVIOUS
  <1> HIDE DEF l
  <1>3. l \in 1 .. 3
    BY <1>2
  <1> QED BY <1>1, <1>3 DEF l

LEMMA TextOf ==
  ASSUME NEW S, NEW r \in S \cap {"token", "key", "error", "page"}, " " \in S, "}" \in S
  PROVE  Text(r) \in Seq(S) /\ Len(Text(r)) \in 1 .. 3 /\ Text(r) # <<>>
  <1>1. CASE r = "page"
    <2>1. Text(r) = <<r>>
      BY <1>1 DEF Text
    <2>2. Text(r) \in Seq(S) /\ Len(Text(r)) = 1
      BY <2>1, ShortTexts
    <2> QED BY <2>2, LengthIsShort
  <1>2. CASE r # "page"
    <2>1. Text(r) = <<r, " ", "}">>
      BY <1>2 DEF Text
    <2>2. Text(r) \in Seq(S) /\ Len(Text(r)) = 3
      BY <2>1, ShortTexts
    <2> QED BY <2>2, LengthIsShort
  <1> QED BY <1>1, <1>2

(* The reply of the server, whole or broken.                               *)
LEMMA AnswerTexts ==
  ASSUME NEW S, Frame \subseteq S, NEW text \in Seq(S), Len(text) \in 1 .. 3, Answer(text)
  PROVE  content' \in Seq(S) /\ wire' \in Seq(S)
  <1>0. Len(text) <= 3
    <2> DEFINE l == Len(text)
    <2>1. l \in 1 .. 3
      OBVIOUS
    <2> HIDE DEF l
    <2>2. l <= 3
      BY <2>1
    <2> QED BY <2>2 DEF l
  <1>1. content' \in Seq(S)
    BY EmptySeq DEF Answer
  <1>2. ASSUME NEW s \in Seq(S), NEW n \in 0 .. Len(s) - 1
        PROVE  SubSeq(s, 1, n) \in Seq(S)
    <2>1. n \in 0 .. Len(s) /\ 1 \in Nat \ {0}
      BY LenProperties
    <2> QED BY <2>1, PartType
  <1>3. ASSUME NEW pieces \in Splits(text) PROVE InChunks(pieces) \in Seq(S)
    BY <1>0, SplitsAreCut, ChunkedType
  <1>4. CASE wire' = text
    BY <1>1, <1>4
  <1>5. CASE \E n \in 0 .. Len(text) - 1 : wire' = SubSeq(text, 1, n)
    BY <1>1, <1>2, <1>5
  <1>6. CASE \E pieces \in Splits(text) :
               \/ wire' = InChunks(pieces)
               \/ \E n \in 0 .. Len(InChunks(pieces)) - 1 : wire' = SubSeq(InChunks(pieces), 1, n)
    BY <1>1, <1>2, <1>3, <1>6
  <1>7. \/ wire' = text
        \/ \E n \in 0 .. Len(text) - 1 : wire' = SubSeq(text, 1, n)
        \/ \E pieces \in Splits(text) :
             \/ wire' = InChunks(pieces)
             \/ \E n \in 0 .. Len(InChunks(pieces)) - 1 : wire' = SubSeq(InChunks(pieces), 1, n)
    BY DEF Answer
  <1> QED BY <1>1, <1>4, <1>5, <1>6, <1>7

LEMMA AnswerComes ==
  ASSUME NEW text \in Seq(Chars), Len(text) \in 1 .. 3, text # <<>>, Answer(text)
  PROVE  ReplyInv'
  <1>0. Len(text) <= 3
    <2> DEFINE l == Len(text)
    <2>1. l \in 1 .. 3
      OBVIOUS
    <2> HIDE DEF l
    <2>2. l <= 3
      BY <2>1
    <2> QED BY <2>2 DEF l
  <1>1. body' = text /\ phase' = "body" /\ content' = <<>>
    BY DEF Answer
  <1>2. <<>> \o text = text
    BY ConcatEmptySeq
  <1>3. IsPrefix(<<>>, text)
    <2>1. IsPrefix(<<>>, <<>> \o text)
      BY EmptySeq, PrefixOfConcat
    <2> QED BY <1>2, <2>1
  <1>4. Reassembled'
    BY <1>1, <1>3 DEF Reassembled
  <1>5. clean' /\ ~chunked' => wire' = text
    BY DEF Answer
  <1>6. ASSUME clean', chunked' PROVE (\E pieces : Coming(pieces))'
    <2>1. PICK pieces \in Splits(text) : ~BlankLed(pieces) /\ wire' = InChunks(pieces)
      BY <1>6 DEF Answer
    <2>2. Cut(pieces, Chars) /\ FlattenSeq(pieces) = text
      BY <1>0, SplitsAreCut
    <2>3. Whole(pieces, Chars)
      <3>1. DOMAIN pieces = 1 .. Len(pieces)
        BY <2>2, LenProperties DEF Cut
      <3> QED BY <2>1, <2>2, <3>1 DEF Whole, BlankLed
    <2>4. content' \o FlattenSeq(pieces) = body'
      BY <1>1, <1>2, <2>2
    <2> QED BY <2>1, <2>3, <2>4 DEF Coming
  <1> QED BY <1>1, <1>4, <1>5, <1>6 DEF ReplyInv

(* One turn of read_response_chunked().                                    *)
LEMMA ReadChunkComes ==
  ASSUME TextInv, ReplyInv, ReadChunk, clean, UNCHANGED issued
  PROVE  ReplyInv'
  <1> DEFINE sized == SkipBlanks(wire)
             n == ChunkSize(sized)
             data == SkipBlanks(Tail(sized))
  <1>1. /\ phase = "body" /\ chunked /\ body \in Seq(Chars) /\ body # <<>>
        /\ UNCHANGED <<chunked, body, clean>>
    BY DEF ReadChunk, ReplyInv
  <1>2. PICK pieces : Coming(pieces)
    BY <1>1 DEF ReplyInv
  <1>3. /\ pieces \in Seq(Seq(Chars)) /\ Whole(pieces, Chars)
        /\ wire = InChunks(pieces) /\ content \o FlattenSeq(pieces) = body
    BY <1>2 DEF Coming, Whole, Cut
  <1>4. content \in Seq(Chars)
    <2>1. content \in Seq(Letters) /\ Letters \subseteq Chars
      BY FrameIsText DEF TextInv
    <2> QED BY <2>1, SeqMonotonic
  <1>5. CASE pieces = <<>>
    <2>1. wire = Ending
      <3>1. Cut(pieces, Chars)
        BY <1>3 DEF Whole
      <3>2. wire = FlattenSeq(Chunked(pieces)) \o Ending
        BY <1>3, <3>1, ChunkedType, FrameIsText
      <3>3. Chunked(pieces) = <<>>
        <4>1. Chunked(pieces) \in Seq(Seq(Chars)) /\ Len(Chunked(pieces)) = 0
          BY <1>5, <3>1, ChunkedType, FrameIsText, EmptySeq
        <4> QED BY <4>1, EmptySeq
      <3>4. FlattenSeq(Chunked(pieces)) = <<>>
        BY <3>3 DEF FlattenSeq
      <3>5. Ending \in Seq(Chars)
        BY EndingType, FrameIsText
      <3> QED BY <3>2, <3>4, <3>5, ConcatEmptySeq
    <2>2. n = 0
      BY <2>1, ReadsEnding
    <2>3. FlattenSeq(pieces) = <<>>
      BY <1>5 DEF FlattenSeq
    <2>4. content = body
      BY <1>3, <1>4, <2>3, ConcatEmptySeq
    <2>5. Terminated /\ UNCHANGED <<wire, content>>
      BY <2>2 DEF ReadChunk
    <2>6. phase' = "done" /\ content' = body'
      BY <1>1, <2>4, <2>5 DEF Terminated
    <2>7. IsPrefix(content', body')
      <3>1. body \o <<>> = body /\ <<>> \in Seq(Chars)
        BY <1>1, ConcatEmptySeq, EmptySeq
      <3>2. IsPrefix(body, body \o <<>>)
        BY <1>1, <3>1, PrefixOfConcat
      <3> QED BY <1>1, <2>6, <3>1, <3>2
    <2> QED BY <1>1, <2>6, <2>7 DEF ReplyInv, Reassembled
  <1>6. CASE pieces # <<>>
    <2> DEFINE p == pieces[1]
               r == Tail(pieces)
    <2>1. /\ p \in Seq(Chars) /\ Len(p) \in 1 .. 3 /\ p[1] \notin Blanks
          /\ Whole(r, Chars)
          /\ wire = Chunk(p) \o InChunks(r)
      BY <1>3, <1>6, InChunksFirst, FrameIsText
    <2>2. InChunks(r) \in Seq(Chars)
      <3>1. Cut(r, Chars)
        BY <2>1 DEF Whole
      <3> QED BY <3>1, ChunkedType, FrameIsText
    <2> HIDE DEF p, r
    <2>3. /\ n = Len(p) /\ Len(data) \in Nat /\ Len(data) >= n
          /\ SubSeq(data, 1, n) = p /\ SubSeq(data, n + 3, Len(data)) = InChunks(r)
      <3> DEFINE w == InChunks(r)
                 all == Chunk(p) \o w
                 rest == SkipBlanks(Tail(all))
                 k == ChunkSize(all)
      <3>1. w \in Seq(Chars) /\ Frame \subseteq Chars
        BY <2>2, FrameIsText
      <3> HIDE DEF w
      <3>2. /\ SkipBlanks(all) = all
            /\ k = Len(p)
            /\ Len(rest) \in Nat /\ Len(rest) >= k
            /\ SubSeq(rest, 1, k) = p
            /\ SubSeq(rest, k + 3, Len(rest)) = w
        BY <2>1, <3>1, ReadsChunk
      <3>3. sized = all /\ data = rest /\ n = k
        BY <2>1, <3>2 DEF w
      <3> HIDE DEF all, rest, k, sized, data, n
      <3> QED BY <3>2, <3>3 DEF w
    <2>4. n # 0 /\ ~ (Len(data) < n)
      <3>1. n \in 1 .. 3
        BY <2>1, <2>3
      <3> HIDE DEF n, data
      <3> QED BY <2>3, <3>1
    <2>5. content' = content \o p /\ wire' = InChunks(r) /\ phase' = "body"
      BY <1>1, <2>3, <2>4 DEF ReadChunk
    <2>6. FlattenSeq(pieces) = p \o FlattenSeq(r) /\ FlattenSeq(r) \in Seq(Chars)
      <3>1. r \in Seq(Seq(Chars))
        BY <2>1 DEF Whole, Cut
      <3> QED BY <1>3, <1>6, <3>1, FlattenFirst, FlattenType DEF p, r
    <2>7. content' \in Seq(Chars) /\ content' \o FlattenSeq(r) = body'
      <3> DEFINE f == FlattenSeq(r)
      <3>1. f \in Seq(Chars)
        BY <2>6
      <3> HIDE DEF f
      <3>2. (content \o p) \o f = content \o (p \o f)
        BY <1>4, <2>1, <3>1, ConcatAssociative
      <3>3. content \o p \in Seq(Chars)
        BY <1>4, <2>1, ConcatProperties
      <3> QED BY <1>1, <1>3, <2>5, <2>6, <3>2, <3>3 DEF f
    <2>8. IsPrefix(content', body')
      BY <2>6, <2>7, PrefixOfConcat
    <2>9. (\E some : Coming(some))'
      BY <2>1, <2>5, <2>7 DEF Coming
    <2> QED BY <1>1, <2>5, <2>8, <2>9 DEF ReplyInv, Reassembled
  <1> QED BY <1>5, <1>6

(* The steps that leave the response alone, and those that ask for one.    *)
Silent == UNCHANGED <<response, issued>> /\ phase' \in {phase, "idle"}
Asks == Request /\ UNCHANGED issued

LEMMA StepsOfText ==
  ASSUME [Next]_vars
  PROVE  Silent \/ Asks \/ ServerAnswers \/ ServerFails \/ Carry
  <1> USE DEF fetchVars, response, files
  <1>1. CASE UNCHANGED vars
    BY <1>1 DEF vars, Silent
  <1>2. CASE Start \/ Reload \/ SetLine \/ SettingsRead \/ RestoreSession
    BY <1>2 DEF Start, Reload, SetLine, SettingsRead, RestoreSession, Silent
  <1>3. CASE RestoreToken
    BY <1>3 DEF RestoreToken, Ask, Asks
  <1>4. CASE Exchanged
    BY <1>4 DEF Exchanged, Ask, Finish, Asks, Silent
  <1>5. CASE Created
    BY <1>5 DEF Created, Ask, Finish, Asks, Silent
  <1>6. CASE SpitSession \/ WriteSession \/ SpitToken \/ WriteToken
    BY <1>6 DEF SpitSession, WriteSession, SpitToken, WriteToken, Silent
  <1>7. CASE Quit \/ Crash \/ Authorise
    BY <1>7 DEF Quit, Crash, Authorise, Silent
  <1> QED BY <1>1, <1>2, <1>3, <1>4, <1>5, <1>6, <1>7 DEF Next, Program

LEMMA ServerText ==
  ASSUME ServerAnswers
  PROVE  \E r \in {"token", "key", "error"} :
           Answer(Text(r)) /\ (r = "key" => issued') /\ (issued => issued')
  <1>1. CASE Answer(Text("token")) /\ UNCHANGED <<token, issued>>
    BY <1>1
  <1>2. CASE Answer(Text("key")) /\ issued' = TRUE
    BY <1>2
  <1>3. CASE Answer(Text("error")) /\ UNCHANGED <<token, issued>>
    BY <1>3
  <1> QED BY <1>1, <1>2, <1>3 DEF ServerAnswers

LEMMA NullIsText == NULL \in Seq(Letters)
  <1>1. "NULL" \in Letters
    BY DEF Letters, Chars
  <1> QED BY <1>1, ShortTexts DEF NULL

LEMMA TextStep == TextInv /\ [Next]_vars => TextInv'
  <1> SUFFICES ASSUME TextInv, [Next]_vars PROVE TextInv'
    OBVIOUS
  <1>1. CASE UNCHANGED <<content, wire, issued>>
    BY <1>1 DEF TextInv, Letters
  <1>2. CASE ServerAnswers
    <2>1. PICK r \in {"token", "key", "error"} :
            Answer(Text(r)) /\ (r = "key" => issued') /\ (issued => issued')
      BY <1>2, ServerText
    <2> DEFINE S == Letters'
    <2>2. r \in S /\ " " \in S /\ "}" \in S /\ Frame \subseteq S
      <3>1. "key" \notin Frame
        BY DEF Frame
      <3> QED BY <2>1, <3>1 DEF Letters, Chars
    <2> HIDE DEF S
    <2>3. Text(r) \in Seq(S) /\ Len(Text(r)) \in 1 .. 3
      BY <2>2, TextOf
    <2>4. content' \in Seq(S) /\ wire' \in Seq(S)
      BY <2>1, <2>2, <2>3, AnswerTexts
    <2> QED BY <2>4 DEF TextInv, S
  <1>3. CASE ServerFails
    <2>1. PICK r \in {"error", "page"} : wire' = Text(r)
      BY <1>3 DEF ServerFails
    <2> DEFINE S == Letters
    <2>2. r \in S /\ " " \in S /\ "}" \in S
      BY DEF Letters, Chars
    <2>3. S' = S /\ content' = <<>>
      BY <1>3 DEF ServerFails, Letters
    <2> HIDE DEF S
    <2>4. Text(r) \in Seq(S) /\ <<>> \in Seq(S)
      BY <2>2, TextOf, EmptySeq
    <2> QED BY <2>1, <2>3, <2>4 DEF TextInv, S
  <1>4. CASE Carry
    <2>1. UNCHANGED issued
      BY <1>4 DEF Carry
    <2>2. Letters' = Letters
      BY <2>1 DEF Letters
    <2>3. CASE Connect \/ BadStatus
      <3>1. UNCHANGED wire /\ (content' = NULL \/ content' = content)
        BY <2>3 DEF Connect, BadStatus
      <3> QED BY <2>2, <3>1, NullIsText DEF TextInv
    <2>4. CASE Redirect
      BY <1>1, <2>1, <2>4 DEF Redirect, response
    <2>5. CASE ReadResponse
      <3>1. <<>> \in Seq(Letters)
        BY EmptySeq
      <3> QED BY <2>2, <2>5, <3>1 DEF ReadResponse, TextInv
    <2>6. CASE ReadChunk
      BY <2>1, <2>6, ReadChunkTypes
    <2> QED BY <1>4, <2>3, <2>4, <2>5, <2>6 DEF Carry, Fetching
  <1>5. CASE Silent \/ Asks
    BY <1>1, <1>5 DEF Silent, Asks, Request, response
  <1> QED BY <1>2, <1>3, <1>4, <1>5, StepsOfText

LEMMA ReplyStep == TextInv /\ ReplyInv /\ [Next]_vars => ReplyInv'
  <1> SUFFICES ASSUME TextInv, ReplyInv, [Next]_vars PROVE ReplyInv'
    OBVIOUS
  <1>1. CASE Silent
    <2>1. UNCHANGED <<chunked, wire, content, body, clean>> /\ phase' \in {phase, "idle"}
      BY <1>1 DEF Silent, response
    <2>2. Reassembled'
      BY <2>1 DEF ReplyInv, Reassembled
    <2>3. (\E pieces : Coming(pieces)) => (\E pieces : Coming(pieces))'
      BY <2>1 DEF Coming
    <2> QED BY <2>1, <2>2, <2>3 DEF ReplyInv
  <1>2. ASSUME ~clean', UNCHANGED body PROVE ReplyInv'
    BY <1>2 DEF ReplyInv, Reassembled
  <1>3. CASE Asks
    BY <1>2, <1>3 DEF Asks, Request
  <1>4. CASE ServerAnswers
    <2>1. PICK r \in {"token", "key", "error"} : Answer(Text(r))
      BY <1>4, ServerText
    <2>2. r \in Chars /\ " " \in Chars /\ "}" \in Chars
      BY DEF Chars
    <2>3. Text(r) \in Seq(Chars) /\ Len(Text(r)) \in 1 .. 3 /\ Text(r) # <<>>
      BY <2>2, TextOf
    <2> QED BY <2>1, <2>3, AnswerComes
  <1>5. CASE ServerFails
    <2>1. PICK r \in {"error", "page"} : wire' = Text(r) /\ body' = Text(r)
      BY <1>5 DEF ServerFails
    <2>2. r \in Chars /\ " " \in Chars /\ "}" \in Chars
      BY DEF Chars
    <2>3. Text(r) \in Seq(Chars) /\ Text(r) # <<>>
      BY <2>2, TextOf
    <2>4. IsPrefix(<<>>, body')
      <3>1. <<>> \o body' = body' /\ <<>> \in Seq(Chars) /\ body' \in Seq(Chars)
        BY <2>1, <2>3, ConcatEmptySeq, EmptySeq
      <3>2. IsPrefix(<<>>, <<>> \o body')
        BY <3>1, PrefixOfConcat
      <3> QED BY <3>1, <3>2
    <2>5. phase' = "body" /\ ~chunked' /\ content' = <<>>
      BY <1>5 DEF ServerFails
    <2> QED BY <2>1, <2>3, <2>4, <2>5 DEF ReplyInv, Reassembled
  <1>6. CASE Carry
    <2>1. UNCHANGED <<issued, body, clean>>
      BY <1>6 DEF Carry, Fetching, Connect, BadStatus, Redirect, ReadResponse, ReadChunk, response
    <2>2. CASE ~clean
      BY <1>2, <2>1, <2>2
    <2>3. CASE clean /\ ReadResponse
      <3>1. phase' = "done" /\ content' = body'
        BY <2>1, <2>3 DEF ReadResponse, ReplyInv
      <3>2. body' \in Seq(Chars)
        BY <2>1 DEF ReplyInv
      <3>3. IsPrefix(body', body')
        <4>1. body' \o <<>> = body' /\ <<>> \in Seq(Chars)
          BY <3>2, ConcatEmptySeq, EmptySeq
        <4>2. IsPrefix(body', body' \o <<>>)
          BY <3>2, <4>1, PrefixOfConcat
        <4> QED BY <4>1, <4>2
      <3> QED BY <3>1, <3>2, <3>3 DEF ReplyInv, Reassembled
    <2>4. CASE clean /\ ReadChunk
      BY <2>1, <2>4, ReadChunkComes
    <2>5. ~ (clean /\ (Connect \/ BadStatus \/ Redirect))
      BY DEF ReplyInv, Connect, BadStatus, Redirect
    <2> QED BY <1>6, <2>2, <2>3, <2>4, <2>5 DEF Carry, Fetching
  <1> QED BY <1>1, <1>3, <1>4, <1>5, <1>6, StepsOfText

-----------------------------------------------------------------------------
(* What the files hold: a key is the server's, and while one is asked for  *)
(* there is none.                                                          *)
StoreInv ==
  /\ session = "key" => issued
  /\ pc \in {"token", "exchange", "create", "recreate", "spit session", "spit token",
             "write token"} => session = "none"
  /\ pc \in {"spit session", "write session"} => issued

LEMMA ParsedKey ==
  ASSUME TextInv, Parsed(content) = "key"
  PROVE  issued
  <1> DEFINE replies == {r \in {"token", "key", "error"} :
               \E i, j \in DOMAIN content :
                 /\ i < j /\ content[i] = r /\ content[j] = "}"
                 /\ \A k \in DOMAIN content \ {i, j} : content[k] \in Blanks}
  <1>1. "key" \in replies
    <2>1. replies # {} /\ (CHOOSE r \in replies : TRUE) = "key"
      BY DEF Parsed
    <2>2. \A T : T # {} => (CHOOSE r \in T : TRUE) \in T
      OBVIOUS
    <2> HIDE DEF replies
    <2> QED BY <2>1, <2>2
  <1>2. PICK i \in DOMAIN content : content[i] = "key"
    BY <1>1
  <1>3. content[i] \in Letters
    <2>1. content \in Seq(Letters) /\ DOMAIN content = 1 .. Len(content)
      BY LenProperties DEF TextInv
    <2> QED BY <2>1, ElementOfSeq
  <1> QED BY <1>2, <1>3 DEF Letters

LEMMA StoreStep == TextInv /\ StoreInv /\ [Next]_vars => StoreInv'
  <1> SUFFICES ASSUME TextInv, StoreInv, [Next]_vars PROVE StoreInv'
    OBVIOUS
  <1> USE DEF StoreInv, files
  <1>1. CASE UNCHANGED vars
    BY <1>1 DEF vars
  <1>2. CASE ServerAnswers
    <2>1. issued => issued'
      BY <1>2, ServerText
    <2>2. UNCHANGED <<pc, session>>
      BY <1>2 DEF ServerAnswers
    <2> QED BY <2>1, <2>2
  <1>3. CASE ServerFails \/ Authorise \/ Carry \/ Quit \/ Crash
    BY <1>3 DEF ServerFails, Authorise, Carry, Quit, Crash
  <1>4. CASE Start \/ Reload \/ SettingsRead
    BY <1>4 DEF Start, Reload, SettingsRead
  <1>5. CASE SetLine
    BY <1>5 DEF SetLine, Set
  <1>6. CASE RestoreSession
    BY <1>6 DEF RestoreSession, Set
  <1>7. CASE RestoreToken
    BY <1>7 DEF RestoreToken, Ask
  <1>8. CASE Exchanged
    <2>1. UNCHANGED <<issued, session>> /\ session = "none"
      BY <1>8 DEF Exchanged, Finish, Ask
    <2>2. pc' \in {"up", "down", "recreate"} \/ (Parsed(content) = "key" /\ pc' = "spit session")
      BY <1>8 DEF Exchanged, Set
    <2> QED BY <2>1, <2>2, ParsedKey
  <1>9. CASE Created
    <2>1. UNCHANGED <<issued, session>> /\ session = "none"
      BY <1>9 DEF Created, Finish, Ask
    <2>2. pc' \in {"up", "down", "exchange", "spit token"}
      BY <1>9 DEF Created, Set
    <2> QED BY <2>1, <2>2
  <1>10. CASE SpitSession \/ SpitToken \/ WriteToken
    BY <1>10 DEF SpitSession, SpitToken, WriteToken
  <1>11. CASE WriteSession
    BY <1>11 DEF WriteSession, Set
  <1> QED BY <1>1, <1>2, <1>3, <1>4, <1>5, <1>6, <1>7, <1>8, <1>9, <1>10, <1>11
             DEF Next, Program
-----------------------------------------------------------------------------
(* All of it.                                                              *)
SessionInv == TypeOK /\ SettingsInv /\ TextInv /\ ReplyInv /\ StoreInv

LEMMA SessionInvariant == Spec => []SessionInv
  <1>1. Init => SessionInv
    <2> SUFFICES ASSUME Init PROVE SessionInv
      OBVIOUS
    <2>1. TypeOK /\ SettingsInv
      BY InitTypes, NoEntries DEF Init, SettingsInv
    <2>2. TextInv
      BY NullIsText, EmptySeq DEF Init, FetchInit, TextInv
    <2>3. ReplyInv
      BY EmptySeq DEF Init, FetchInit, ReplyInv, Reassembled
    <2>4. StoreInv
      BY DEF Init, StoreInv
    <2> QED BY <2>1, <2>2, <2>3, <2>4 DEF SessionInv
  <1>2. SessionInv /\ [Next]_vars => SessionInv'
    BY NextTypes, SettingsStep, TextStep, ReplyStep, StoreStep DEF SessionInv
  <1> QED BY <1>1, <1>2, PTL DEF Spec

(* Run after run, the settings hold one pair for each key that was set and *)
(* give for it what was set last: by the configuration file, by an earlier *)
(* run's session, or by the server's reply.                                *)
THEOREM SettingsAreHonest == Spec => []RcHonest
  <1>1. SessionInv => RcHonest
    BY DEF SessionInv, SettingsInv, RcHonest
  <1> QED BY <1>1, SessionInvariant, PTL

(* A response that arrives whole is put together as it was sent, in chunks *)
(* or not, whatever redirects, failures and crashes there were before.     *)
THEOREM RepliesReassembled == Spec => []Reassembled
  <1>1. SessionInv => Reassembled
    BY DEF SessionInv, ReplyInv
  <1> QED BY <1>1, SessionInvariant, PTL

(* A key that was stored is the server's, stays in its file, and is what   *)
(* later runs use.                                                         *)
THEOREM StoredKeyIsKept == Spec => KeyKept
  <1> DEFINE Kept ==
        /\ session = "key" => session' = "key"
        /\ session' = "key" => issued
        /\ session = "key" /\ pc = "restore" /\ pc' = "up" => last'["session"] = "key"
  <1>1. SessionInv /\ [Next]_vars => [Kept]_vars
    <2> SUFFICES ASSUME SessionInv, Next PROVE Kept
      OBVIOUS
    <2> USE DEF files
    <2>1. StoreInv /\ SettingsInv
      BY DEF SessionInv
    <2>2. last = [k \in Names |-> value(rc, k, Empty)]
      BY <2>1 DEF SettingsInv, Entries
    <2>3. CASE UNCHANGED session /\ ~ (pc = "restore" /\ pc' = "up")
      BY <2>1, <2>3 DEF StoreInv
    <2>4. CASE RestoreSession
      <3>1. UNCHANGED session
        BY <2>4 DEF RestoreSession
      <3>2. ASSUME session = "key", pc' = "up" PROVE last'["session"] = "key"
        <4>1. Set("session", "key", "up")
          BY <2>4, <3>2 DEF RestoreSession
        <4>2. last' = [last EXCEPT !["session"] = "key"]
          BY <3>2, <4>1 DEF Set
        <4> QED BY <2>2, <4>2, OwnKeys
      <3> QED BY <2>1, <3>1, <3>2 DEF StoreInv
    <2>5. CASE SpitSession \/ WriteSession
      BY <2>1, <2>5 DEF SpitSession, WriteSession, StoreInv
    <2>6. CASE Start \/ SetLine \/ SettingsRead \/ RestoreToken \/ SpitToken \/ WriteToken \/ Quit
      BY <2>3, <2>6 DEF Start, SetLine, SettingsRead, RestoreToken, SpitToken, WriteToken, Quit, Set
    <2>7. CASE Exchanged \/ Created
      BY <2>3, <2>7 DEF Exchanged, Created
    <2>8. CASE Carry \/ ServerAnswers \/ ServerFails
      BY <2>3, <2>8 DEF Carry, ServerAnswers, ServerFails
    <2>9. CASE Crash \/ Authorise \/ Reload
      BY <2>3, <2>9 DEF Crash, Authorise, Reload
    <2> QED BY <2>4, <2>5, <2>6, <2>7, <2>8, <2>9 DEF Next, Program
  <1> HIDE DEF Kept
  <1>2. Spec => [][Kept]_vars
    BY <1>1, SessionInvariant, PTL DEF Spec
  <1> QED BY <1>2 DEF KeyKept, Kept
=============================================================================
