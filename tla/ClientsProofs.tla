--------------------------- MODULE ClientsProofs ----------------------------
(***************************************************************************)
(* Proofs about module Clients: that select() is given the descriptors     *)
(* that are open, that the commands of a client are carried out in the     *)
(* order in which it sent them, and that each answer goes to its asker.    *)
(***************************************************************************)
EXTENDS ClientsProps, SequenceTheorems, FiniteSetTheorems, TLAPS

(* A handle that is appended is on the list, and nothing else changes.     *)
LEMMA RegisterAdds ==
  ASSUME NEW S, NEW l \in Seq(S), NEW h \in S, IsInjective(l), h \notin Elements(l)
  PROVE  /\ Register(l, h) \in Seq(S)
         /\ IsInjective(Register(l, h))
         /\ Elements(Register(l, h)) = Elements(l) \cup {h}
  BY DEF Register, IsInjective, Elements

(* The front of a queue is taken off it.                                   *)
LEMMA TailTakes ==
  ASSUME NEW S, NEW q \in Seq(S), q # <<>>, IsInjective(q)
  PROVE  /\ Tail(q) \in Seq(S) /\ Head(q) \in S
         /\ IsInjective(Tail(q))
         /\ Head(q) \in Elements(q)
         /\ Elements(Tail(q)) = Elements(q) \ {Head(q)}
  <1>1. Len(q) > 0 /\ Head(q) = q[1] /\ Head(q) \in S /\ Tail(q) \in Seq(S)
    OBVIOUS
  <1>2. Len(Tail(q)) = Len(q) - 1 /\ \A i \in 1 .. Len(q) - 1 : Tail(q)[i] = q[i + 1]
    OBVIOUS
  <1>3. IsInjective(Tail(q))
    BY <1>1, <1>2 DEF IsInjective
  <1>4. ASSUME NEW x \in Elements(Tail(q)) PROVE x \in Elements(q) \ {Head(q)}
    <2>1. PICK i \in 1 .. Len(q) - 1 : x = q[i + 1]
      BY <1>1, <1>2, <1>4 DEF Elements
    <2> QED BY <1>1, <2>1 DEF IsInjective, Elements
  <1>5. ASSUME NEW x \in Elements(q) \ {Head(q)} PROVE x \in Elements(Tail(q))
    <2>1. PICK i \in 1 .. Len(q) : x = q[i]
      BY <1>5 DEF Elements
    <2>2. i - 1 \in 1 .. Len(q) - 1 /\ Tail(q)[i - 1] = x
      BY <1>1, <1>2, <1>5, <2>1
    <2>3. DOMAIN Tail(q) = 1 .. Len(q) - 1
      BY <1>1, <1>2
    <2> QED BY <2>2, <2>3 DEF Elements
  <1>6. Head(q) \in Elements(q)
    BY <1>1 DEF Elements
  <1> QED BY <1>1, <1>3, <1>4, <1>5, <1>6

(* remove_handle() takes one handle off the list, and nothing else.        *)
LEMMA RemoveHandleRemoves ==
  ASSUME NEW S, NEW l \in Seq(S), NEW h, IsInjective(l)
  PROVE  /\ RemoveHandle(l, h) \in Seq(S)
         /\ IsInjective(RemoveHandle(l, h))
         /\ Elements(RemoveHandle(l, h)) = Elements(l) \ {h}
  <1> DEFINE r == [i \in 1 .. Len(l) - 1 |-> IF l[i] = h THEN l[Len(l)] ELSE l[i]]
  <1>1. CASE h \notin Elements(l)
    BY <1>1 DEF RemoveHandle, Elements
  <1>2. CASE h \in Elements(l)
    <2>1. PICK k \in 1 .. Len(l) : l[k] = h
      BY <1>2 DEF Elements
    <2>2. \A i \in 1 .. Len(l) : l[i] = h => i = k
      BY <2>1 DEF IsInjective
    <2>3. RemoveHandle(l, h) = r /\ DOMAIN r = 1 .. Len(l) - 1
      BY <1>2 DEF RemoveHandle
    <2>4. \A i \in 1 .. Len(l) - 1 : r[i] = IF i = k THEN l[Len(l)] ELSE l[i]
      BY <2>1, <2>2
    <2>5. r \in Seq(S)
      BY <2>1
    <2>6. IsInjective(r)
      BY <2>1, <2>3, <2>4 DEF IsInjective
    <2>7. Elements(r) = Elements(l) \ {h}
      <3>1. ASSUME NEW x \in Elements(r) PROVE x \in Elements(l) \ {h}
        BY <2>1, <2>2, <2>3, <2>4, <3>1 DEF Elements
      <3>2. ASSUME NEW x \in Elements(l) \ {h} PROVE x \in Elements(r)
        <4>1. PICK i \in 1 .. Len(l) : l[i] = x
          BY <3>2 DEF Elements
        <4>2. CASE i = Len(l)
          BY <2>1, <2>3, <2>4, <3>2, <4>1, <4>2 DEF Elements
        <4>3. CASE i # Len(l)
          BY <2>1, <2>3, <2>4, <3>2, <4>1, <4>3 DEF Elements
        <4> QED BY <4>2, <4>3
      <3> QED BY <3>1, <3>2
    <2> QED BY <2>3, <2>5, <2>6, <2>7
  <1> QED BY <1>1, <1>2

(* Nothing is connected at first.                                          *)
LEMMA InitSelects == Init => SelectInv
  <1> SUFFICES ASSUME Init PROVE SelectInv
    OBVIOUS
  <1>1. list \in Seq(Handles) /\ Len(list) \in {1, 2} /\ IsInjective(list)
    <2>1. CASE list = <<"listen">>
      BY <2>1 DEF Handles, IsInjective
    <2>2. CASE list = <<"listen", "keyboard">>
      BY <2>2 DEF Handles, IsInjective
    <2> QED BY <2>1, <2>2 DEF Init
  <1>2. Elements(list) \subseteq {"listen", "keyboard"} /\ "listen" \in Elements(list)
    BY DEF Init, Elements
  <1>3. Elements(list) \cap Sockets = {}
    BY <1>2, NoneAssumption
  <1>4. stream \in Stream /\ stream.fd = None
    BY DEF Init, NoStream, Stream
  <1>5. sock \in [Sockets -> Seq(Tokens)]
    BY DEF Init
  <1>6. queue \in Seq(Sockets) /\ IsInjective(queue) /\ Elements(queue) = {}
    BY DEF Init, IsInjective, Elements
  <1> QED BY <1>1, <1>2, <1>3, <1>4, <1>5, <1>6 DEF Init, SelectInv, SelectWorks

(* Main: a client is accepted,                                             *)
LEMMA AcceptSelects == ASSUME SelectInv, Accept PROVE SelectInv'
  <1> DEFINE c == Head(queue)
  <1>1. queue # <<>>
    BY NoneAssumption DEF Accept, Selects, Picks, Readable
  <1>2. /\ queue' \in Seq(Sockets) /\ IsInjective(queue') /\ c \in Sockets
        /\ c \in Elements(queue) /\ Elements(queue') = Elements(queue) \ {c}
    BY <1>1, TailTakes DEF Accept, SelectInv
  <1>3. list' = Register(list, c) /\ list' \in Seq(Handles)
    BY <1>2 DEF Accept, Register, SelectInv, Handles
  <1>4. open' = open \cup {c} /\ c \notin open \cup away
    BY <1>2 DEF Accept, SelectInv
  <1>5. ASSUME ~mixed
        PROVE  IsInjective(list') /\ Elements(list') = Elements(list) \cup {c}
    <2>1. c \notin Elements(list) /\ c \in Handles
      BY <1>2, <1>4, <1>5 DEF SelectInv, SelectWorks, Handles
    <2> QED BY <1>3, <1>5, <2>1, RegisterAdds DEF SelectInv, SelectWorks
  <1>6. SelectWorks'
    BY <1>2, <1>4, <1>5 DEF Accept, history, SelectInv, SelectWorks
  <1> QED BY <1>2, <1>3, <1>4, <1>6 DEF Accept, history, SelectInv

(* ... the socket of a client is ready,                                    *)
LEMMA ClientSelects ==
  ASSUME SelectInv, NEW c \in Sockets, Client(c)
  PROVE  SelectInv'
  <1>1. pc = "select" /\ ~Fails /\ c \in Elements(list)
    BY DEF Client, Selects, Elements
  <1>2. c \in open
    BY <1>1 DEF Fails
  <1>3. stream' \in Stream /\ stream'.fd \in open /\ (stream.fd = None => stream'.fd = c)
    <2>1. stream' = Opened(c)
      BY DEF Client
    <2>2. CASE stream.fd = None
      <3>1. stream' = [fd |-> c, buf |-> <<>>, eof |-> FALSE]
        BY <2>1, <2>2 DEF Opened, NoStream
      <3>2. <<>> \in Seq(Tokens)
        OBVIOUS
      <3>3. stream' \in Stream
        BY <3>1, <3>2 DEF Stream
      <3> QED BY <1>2, <3>1, <3>3
    <2>3. CASE stream.fd # None
      BY <2>1, <2>3 DEF Opened, SelectInv
    <2> QED BY <2>2, <2>3
  <1>4. \/ pc' = "select" /\ ready' = ready
        \/ pc' = "fgets" /\ ready' = c
    <2>1. CASE stream'.eof
      BY <1>1, <2>1 DEF Client
    <2>2. CASE ~stream'.eof
      BY <2>2 DEF Client
    <2> QED BY <2>1, <2>2
  <1>5. ~mixed' => ~mixed /\ stream'.fd = c
    BY DEF Client
  <1>6. UNCHANGED <<list, open, sock, queue, away>>
    BY DEF Client, clients
  <1> QED BY <1>2, <1>3, <1>4, <1>5, <1>6 DEF SelectInv, SelectWorks

(* ... fgets() reads,                                                      *)
LEMMA FillSelects == ASSUME SelectInv, Fill PROVE SelectInv'
  <1>1. stream.fd \in Sockets /\ sock[stream.fd] \in Seq(Tokens)
    BY DEF Fill, SelectInv
  <1>2. stream.buf \o sock[stream.fd] \in Seq(Tokens)
    BY <1>1 DEF SelectInv, Stream
  <1>3. stream' \in Stream /\ stream'.fd = stream.fd
    BY <1>2 DEF Fill, SelectInv, Stream
  <1>4. sock' \in [Sockets -> Seq(Tokens)]
    BY <1>1 DEF Fill, SelectInv
  <1> QED BY <1>3, <1>4 DEF Fill, history, SelectInv, SelectWorks

(* ... a client is disconnected,                                           *)
LEMMA DisconnectSelects ==
  ASSUME SelectInv, pc = "fgets", Disconnect, Return
  PROVE  SelectInv'
  <1>1. ready \in Sockets /\ stream.fd \in Sockets
    BY DEF SelectInv
  <1>2. list' \in Seq(Handles)
    BY <1>1 DEF Disconnect, RemoveHandle, Elements, SelectInv
  <1>3. SelectWorks'
    <2>1. ASSUME ~mixed
          PROVE  /\ IsInjective(list') /\ Elements(list') = Elements(list) \ {ready}
                 /\ open' = open \ {ready}
      BY <2>1, RemoveHandleRemoves DEF Disconnect, SelectInv, SelectWorks
    <2> QED BY <1>1, <2>1, NoneAssumption DEF Return, SelectInv, SelectWorks
  <1>4. stream' \in Stream /\ stream'.fd = None
    BY DEF Disconnect, NoStream, Stream
  <1>5. sock' \in [Sockets -> Seq(Tokens)]
    BY DEF Disconnect, SelectInv
  <1> QED BY <1>2, <1>3, <1>4, <1>5 DEF Disconnect, Return, SelectInv

(* ... or a command is executed.                                           *)
LEMMA ExecuteSelects ==
  ASSUME SelectInv, pc = "fgets", NEW cmd, NEW rest \in Seq(Tokens),
         NEW eof \in BOOLEAN, Execute(cmd, rest, eof), Return
  PROVE  SelectInv'
  <1>1. CASE cmd = "detach"
    BY <1>1, DisconnectSelects DEF Execute
  <1>2. CASE cmd # "detach"
    <2>1. stream' \in Stream /\ stream'.fd = stream.fd
      BY <1>2 DEF Execute, SelectInv, Stream
    <2> QED BY <1>2, <2>1 DEF Execute, Return, SelectInv, SelectWorks
  <1> QED BY <1>1, <1>2

LEMMA HandleSelects == ASSUME SelectInv, Handle PROVE SelectInv'
  <1>1. CASE Line
    <2>1. Rest \in Seq(Tokens)
      BY DEF Rest, SelectInv, Stream
    <2> QED BY <1>1, <2>1, ExecuteSelects DEF Line
  <1>2. CASE LastLine
    <2>1. <<>> \in Seq(Tokens)
      OBVIOUS
    <2> QED BY <1>2, <2>1, ExecuteSelects DEF LastLine, AtEnd
  <1>3. CASE HungUp
    BY <1>3, DisconnectSelects DEF HungUp, AtEnd
  <1> QED BY <1>1, <1>2, <1>3, FillSelects DEF Handle

(* The clients: one connects, sends or goes away.                          *)
LEMMA RemoteSelects ==
  ASSUME SelectInv, NEW c \in Sockets, Remote(c)
  PROVE  SelectInv'
  <1>1. CASE Connect(c)
    <2>1. c \in away /\ c \notin Elements(queue)
      BY <1>1 DEF Connect, SelectInv
    <2>2. /\ queue' \in Seq(Sockets) /\ IsInjective(queue')
          /\ Elements(queue') = Elements(queue) \cup {c}
      BY <1>1, <2>1, RegisterAdds DEF Connect, Register, SelectInv
    <2> QED BY <1>1, <2>1, <2>2 DEF Connect, main, SelectInv, SelectWorks
  <1>2. ASSUME NEW tokens \in Seq(Tokens), Sends(c, tokens) PROVE SelectInv'
    <2>1. sock' \in [Sockets -> Seq(Tokens)]
      BY <1>2 DEF Sends, SelectInv
    <2> QED BY <1>2, <2>1 DEF Sends, main, history, SelectInv, SelectWorks
  <1>3. CASE EndLine(c)
    <2>1. <<"newline">> \in Seq(Tokens)
      BY DEF Tokens
    <2> QED BY <1>2, <1>3, <2>1 DEF EndLine
  <1>4. ASSUME NEW cmd \in Cmds, Send(c, cmd) PROVE SelectInv'
    <2>1. <<cmd, "newline">> \in Seq(Tokens) /\ <<cmd>> \in Seq(Tokens)
      BY DEF Tokens
    <2> QED BY <1>2, <1>4, <2>1 DEF Send
  <1>5. CASE HangUp(c) \/ Reset(c)
    BY <1>5 DEF HangUp, Reset, main, history, SelectInv, SelectWorks
  <1> QED BY <1>1, <1>3, <1>4, <1>5 DEF Remote

(* One step of anything.                                                   *)
LEMMA NextSelects == SelectInv /\ [Next]_vars => SelectInv'
  <1> SUFFICES ASSUME SelectInv, [Next]_vars PROVE SelectInv'
    OBVIOUS
  <1>1. CASE UNCHANGED vars
    BY <1>1 DEF vars, SelectInv, SelectWorks
  <1>2. CASE Idle
    BY <1>1, <1>2 DEF Idle
  <1>3. CASE Keyboard
    BY <1>3 DEF Keyboard, main, clients, history, SelectInv, SelectWorks
  <1>4. CASE PressKey
    BY <1>4 DEF PressKey, main, clients, history, SelectInv, SelectWorks
  <1> QED BY <1>1, <1>2, <1>3, <1>4, AcceptSelects, ClientSelects, HandleSelects,
             RemoteSelects DEF Next, Input

(* For any number of clients and commands, lines in parts or whole: select *)
(* waits for the sockets that are open and for the listening socket, each  *)
(* once, however clients connect, detach and hang up, as long as the       *)
(* stream was never that of another client than the one that was ready.    *)
THEOREM SelectAlwaysWorks == Spec => []SelectWorks
  <1>1. Spec => []SelectInv
    BY InitSelects, NextSelects, PTL DEF Spec
  <1>2. SelectInv => SelectWorks
    BY DEF SelectInv
  <1> QED BY <1>1, <1>2, PTL

-----------------------------------------------------------------------------
(* Lines and the commands in them.                                         *)

LEMMA Associative ==
  \A S : \A a, b, c \in Seq(S) : (a \o b) \o c = a \o (b \o c)
  BY ConcatAssociative

(* Half of a number of tokens, rounded up, is the number of commands.      *)
LEMMA Halves ==
  ASSUME NEW n \in Nat
  PROVE  /\ (n + 1) \div 2 \in Nat
         /\ n % 2 = 0 => (n + 2) \div 2 = (n + 1) \div 2 + 1 /\ n + 1 = 2 * ((n + 2) \div 2) - 1
         /\ n % 2 = 1 => (n + 2) \div 2 = (n + 1) \div 2
         /\ (n + 3) \div 2 = (n + 1) \div 2 + 1
         /\ n % 2 \in {0, 1} /\ (n + 2) % 2 = n % 2
         /\ n % 2 = 0 <=> (n + 1) % 2 = 1
         /\ \A i \in 1 .. (n + 1) \div 2 : 2 * i - 1 \in 1 .. n /\ (2 * i - 1) % 2 = 1
  OBVIOUS

LEMMA CmdIsToken == Cmds \subseteq Tokens /\ "newline" \notin Cmds /\ "newline" \in Tokens
  BY CmdsAssumption DEF Tokens

(* The last of what is left comes after what was done.                     *)
LEMMA LastMoves ==
  \A a, b \in Seq(Cmds), x \in Cmds : Append(a \o b, x) = a \o Append(b, x)
  <1> SUFFICES ASSUME NEW a \in Seq(Cmds), NEW b \in Seq(Cmds), NEW x \in Cmds
               PROVE  Append(a \o b, x) = a \o Append(b, x)
    OBVIOUS
  <1>1. <<x>> \in Seq(Cmds)
    OBVIOUS
  <1> DEFINE one == <<x>>
  <1>2. one \in Seq(Cmds) /\ Append(b, x) = b \o one /\ Append(a \o b, x) = (a \o b) \o one
    BY <1>1, AppendIsConcat, ConcatProperties
  <1> HIDE DEF one
  <1>3. a \o (b \o one) = (a \o b) \o one
    BY <1>2, ConcatAssociative
  <1> QED BY <1>2, <1>3

LEMMA ConcatHead ==
  ASSUME NEW S, NEW a \in Seq(S), NEW b \in Seq(S), a # <<>>
  PROVE  /\ Len(a \o b) = Len(a) + Len(b)
         /\ (a \o b)[1] = Head(a) /\ Head(a) \in S
         /\ 1 \in DOMAIN (a \o b)
  <1>1. Len(a) \in Nat \ {0} /\ Len(b) \in Nat
    BY EmptySeq
  <1>2. \A k \in Nat \ {0}, m \in Nat : 1 \in 1 .. k + m /\ 1 <= k
    OBVIOUS
  <1>3. 1 \in 1 .. Len(a) + Len(b) /\ 1 <= Len(a)
    BY <1>1, <1>2
  <1>4. (a \o b)[1] = a[1]
    BY <1>3, ConcatProperties
  <1>5. DOMAIN (a \o b) = 1 .. Len(a) + Len(b) /\ Len(a \o b) = Len(a) + Len(b)
    BY ConcatProperties, LenProperties
  <1>6. Head(a) = a[1] /\ Head(a) \in S
    BY HeadTailProperties
  <1> QED BY <1>3, <1>4, <1>5, <1>6

(* The front of a sequence is taken off.                                   *)
LEMMA FromThird ==
  ASSUME NEW S, NEW t \in Seq(S), Len(t) > 1
  PROVE  /\ SubSeq(t, 3, Len(t)) \in Seq(S)
         /\ Len(SubSeq(t, 3, Len(t))) = Len(t) - 2
         /\ Len(SubSeq(t, 3, Len(t))) \in Nat
         /\ \A i \in 1 .. Len(SubSeq(t, 3, Len(t))) : SubSeq(t, 3, Len(t))[i] = t[i + 2]
  <1> DEFINE u == SubSeq(t, 3, Len(t))
  <1>1. Len(t) \in Nat /\ \A i \in 3 .. Len(t) : t[i] \in S
    OBVIOUS
  <1>2. /\ u \in Seq(S) /\ Len(u) = IF 3 <= Len(t) THEN Len(t) - 3 + 1 ELSE 0
        /\ \A i \in 1 .. Len(t) - 3 + 1 : u[i] = t[3 + i - 1]
    BY <1>1, SubSeqProperties
  <1> HIDE DEF u
  <1>3. Len(u) = Len(t) - 2 /\ Len(u) \in Nat
    <2>1. \A k \in Nat : k > 1 => (IF 3 <= k THEN k - 3 + 1 ELSE 0) = k - 2 /\ k - 2 \in Nat
      OBVIOUS
    <2> QED BY <1>1, <1>2, <2>1
  <1>4. ASSUME NEW i \in 1 .. Len(u) PROVE u[i] = t[i + 2]
    <2>1. i \in 1 .. Len(t) - 3 + 1 /\ 3 + i - 1 = i + 2
      BY <1>1, <1>3
    <2> QED BY <1>2, <2>1
  <1> QED BY <1>2, <1>3, <1>4 DEF u

(* The front of a sequence is taken off, and another follows.              *)
LEMMA RestOfConcat ==
  ASSUME NEW S, NEW a \in Seq(S), NEW b \in Seq(S), Len(a) > 1
  PROVE  /\ SubSeq(a, 3, Len(a)) \in Seq(S)
         /\ SubSeq(a, 3, Len(a)) \o b = SubSeq(a \o b, 3, Len(a \o b))
  <1> DEFINE r == SubSeq(a, 3, Len(a))
             ab == a \o b
             q == SubSeq(ab, 3, Len(ab))
  <1>1. /\ ab \in Seq(S) /\ Len(ab) = Len(a) + Len(b)
        /\ \A i \in 1 .. Len(a) + Len(b) : ab[i] = IF i <= Len(a) THEN a[i] ELSE b[i - Len(a)]
    BY ConcatProperties
  <1>2. Len(a) \in Nat /\ Len(b) \in Nat
    OBVIOUS
  <1>4. r \in Seq(S) /\ Len(r) = Len(a) - 2 /\ \A i \in 1 .. Len(r) : r[i] = a[i + 2]
    BY FromThird
  <1> HIDE DEF ab
  <1>6. Len(ab) \in Nat /\ Len(ab) > 1
    BY <1>1, <1>2
  <1>7. q \in Seq(S) /\ Len(q) = Len(ab) - 2 /\ \A i \in 1 .. Len(q) : q[i] = ab[i + 2]
    BY <1>1, <1>6, FromThird
  <1> DEFINE rb == r \o b
  <1> HIDE DEF r, q
  <1>8. /\ rb \in Seq(S) /\ Len(rb) = Len(r) + Len(b)
        /\ \A i \in 1 .. Len(r) + Len(b) : rb[i] = IF i <= Len(r) THEN r[i] ELSE b[i - Len(r)]
    BY <1>4, ConcatProperties
  <1> HIDE DEF rb
  <1>9. Len(rb) = Len(q)
    BY <1>1, <1>2, <1>4, <1>7, <1>8
  <1>10. ASSUME NEW i \in 1 .. Len(rb) PROVE rb[i] = q[i]
    <2>1. i \in 1 .. Len(q) /\ i + 2 \in 1 .. Len(a) + Len(b) /\ i \in 1 .. Len(r) + Len(b)
      BY <1>1, <1>2, <1>4, <1>8, <1>9
    <2>2. q[i] = IF i + 2 <= Len(a) THEN a[i + 2] ELSE b[i + 2 - Len(a)]
      BY <1>1, <1>7, <2>1
    <2>3. CASE i <= Len(r)
      <3>1. i \in 1 .. Len(r) /\ i + 2 <= Len(a)
        BY <1>2, <1>4, <2>1, <2>3
      <3>2. r[i] = a[i + 2]
        BY <1>4, <2>1, <3>1
      <3> QED BY <1>8, <2>1, <2>2, <2>3, <3>1, <3>2
    <2>4. CASE ~(i <= Len(r))
      <3>1. i - Len(r) = i + 2 - Len(a) /\ ~(i + 2 <= Len(a))
        BY <1>2, <1>4, <2>1, <2>4
      <3> QED BY <1>8, <2>1, <2>2, <2>4, <3>1
    <2> QED BY <2>3, <2>4
  <1>11. rb = q
    BY <1>7, <1>8, <1>9, <1>10, SeqEqual
  <1> QED BY <1>4, <1>11 DEF r, rb, ab, q

(* The commands of what was sent.                                          *)
LEMMA CommandsType ==
  ASSUME NEW t \in Seq(Tokens), Lines(t)
  PROVE  /\ Commands(t) \in Seq(Cmds)
         /\ Len(Commands(t)) = (Len(t) + 1) \div 2
         /\ \A i \in 1 .. (Len(t) + 1) \div 2 : Commands(t)[i] = t[2 * i - 1]
  <1> DEFINE n == (Len(t) + 1) \div 2
  <1>1. n \in Nat /\ \A i \in 1 .. n : 2 * i - 1 \in 1 .. Len(t) /\ (2 * i - 1) % 2 = 1
    BY Halves
  <1>2. ASSUME NEW i \in 1 .. n PROVE t[2 * i - 1] \in Cmds
    BY <1>1 DEF Lines, Tokens
  <1> HIDE DEF n
  <1>3. [i \in 1 .. n |-> t[2 * i - 1]] \in Seq(Cmds)
    BY <1>1, <1>2
  <1>4. Commands(t) = [i \in 1 .. n |-> t[2 * i - 1]]
    BY DEF Commands, n
  <1>5. Len(Commands(t)) = n
    BY <1>1, <1>4
  <1> QED BY <1>3, <1>4, <1>5 DEF n

(* The first of what is left moves to the end of what was done.            *)
LEMMA FirstMoves ==
  \A S : \A a, b \in Seq(S), x \in S : a \o (<<x>> \o b) = Append(a, x) \o b
  <1> SUFFICES ASSUME NEW S, NEW a \in Seq(S), NEW b \in Seq(S), NEW x \in S
               PROVE  a \o (<<x>> \o b) = Append(a, x) \o b
    OBVIOUS
  <1>1. <<x>> \in Seq(S)
    OBVIOUS
  <1> DEFINE one == <<x>>
  <1>2. one \in Seq(S) /\ Append(a, x) = a \o one
    BY <1>1, AppendIsConcat
  <1> HIDE DEF one
  <1>3. a \o (one \o b) = (a \o one) \o b
    BY <1>2, ConcatAssociative
  <1> QED BY <1>2, <1>3 DEF one

LEMMA NoCommands == Lines(<<>>) /\ Commands(<<>>) = <<>>
  <1>1. Lines(<<>>)
    BY DEF Lines
  <1>2. Commands(<<>>) \in Seq(Cmds) /\ Len(Commands(<<>>)) = (0 + 1) \div 2
    BY <1>1, CommandsType, EmptySeq
  <1>3. (0 + 1) \div 2 = 0
    OBVIOUS
  <1> QED BY <1>1, <1>2, <1>3, EmptySeq

(* A command begins a line,                                                *)
LEMMA CommandSent ==
  ASSUME NEW t \in Seq(Tokens), Lines(t), Len(t) % 2 = 0, NEW cmd \in Cmds
  PROVE  /\ t \o <<cmd>> \in Seq(Tokens) /\ Len(t \o <<cmd>>) % 2 = 1
         /\ Lines(t \o <<cmd>>)
         /\ Commands(t \o <<cmd>>) = Append(Commands(t), cmd)
  <1> DEFINE u == t \o <<cmd>>
             n == (Len(t) + 1) \div 2
  <1>1. /\ u \in Seq(Tokens) /\ Len(u) = Len(t) + 1
        /\ \A i \in 1 .. Len(t) : u[i] = t[i]
        /\ u[Len(t) + 1] = cmd
    BY CmdIsToken
  <1>2. Len(u) % 2 = 1
    BY <1>1
  <1>3. Lines(u)
    BY <1>1, <1>2, CmdIsToken DEF Lines
  <1>4. n \in Nat /\ (Len(u) + 1) \div 2 = n + 1 /\ Len(u) = 2 * (n + 1) - 1
    BY <1>1, Halves
  <1>5. /\ Commands(t) \in Seq(Cmds) /\ Len(Commands(t)) = n
        /\ \A i \in 1 .. n : Commands(t)[i] = t[2 * i - 1]
    BY CommandsType
  <1>6. /\ Commands(u) \in Seq(Cmds) /\ Len(Commands(u)) = n + 1
        /\ \A i \in 1 .. n + 1 : Commands(u)[i] = u[2 * i - 1]
    BY <1>1, <1>3, <1>4, CommandsType
  <1> HIDE DEF u, n
  <1>7. /\ Append(Commands(t), cmd) \in Seq(Cmds) /\ Len(Append(Commands(t), cmd)) = n + 1
        /\ \A i \in 1 .. n : Append(Commands(t), cmd)[i] = Commands(t)[i]
        /\ Append(Commands(t), cmd)[n + 1] = cmd
    BY <1>5, AppendProperties
  <1>8. ASSUME NEW i \in 1 .. n + 1 PROVE Commands(u)[i] = Append(Commands(t), cmd)[i]
    <2>1. CASE i = n + 1
      <3>1. Commands(u)[i] = u[Len(t) + 1]
        BY <1>1, <1>4, <1>6, <2>1
      <3> QED BY <1>1, <1>7, <2>1, <3>1
    <2>2. CASE i # n + 1
      <3>1. i \in 1 .. n /\ 2 * i - 1 \in 1 .. Len(t)
        BY <1>1, <1>4, <2>2
      <3>2. Commands(u)[i] = t[2 * i - 1]
        BY <1>1, <1>6, <3>1
      <3> QED BY <1>5, <1>7, <3>1, <3>2
    <2> QED BY <2>1, <2>2
  <1>9. Commands(u) = Append(Commands(t), cmd)
    BY <1>6, <1>7, <1>8, SeqEqual
  <1> QED BY <1>1, <1>2, <1>3, <1>9 DEF u

(* ... its end ends it,                                                    *)
LEMMA NewlineSent ==
  ASSUME NEW t \in Seq(Tokens), Lines(t), Len(t) % 2 = 1
  PROVE  /\ t \o <<"newline">> \in Seq(Tokens)
         /\ Lines(t \o <<"newline">>)
         /\ Commands(t \o <<"newline">>) = Commands(t)
  <1> DEFINE u == t \o <<"newline">>
             n == (Len(t) + 1) \div 2
  <1>1. /\ u \in Seq(Tokens) /\ Len(u) = Len(t) + 1
        /\ \A i \in 1 .. Len(t) : u[i] = t[i]
        /\ u[Len(t) + 1] = "newline"
    BY CmdIsToken
  <1>2. Len(u) % 2 = 0
    BY <1>1
  <1>3. Lines(u)
    BY <1>1, <1>2 DEF Lines
  <1>4. n \in Nat /\ (Len(u) + 1) \div 2 = n
        /\ \A i \in 1 .. n : 2 * i - 1 \in 1 .. Len(t)
    BY <1>1, Halves
  <1>5. /\ Commands(t) \in Seq(Cmds) /\ Len(Commands(t)) = n
        /\ \A i \in 1 .. n : Commands(t)[i] = t[2 * i - 1]
    BY CommandsType
  <1>6. /\ Commands(u) \in Seq(Cmds) /\ Len(Commands(u)) = n
        /\ \A i \in 1 .. n : Commands(u)[i] = u[2 * i - 1]
    BY <1>1, <1>3, <1>4, CommandsType
  <1> HIDE DEF u, n
  <1>7. \A i \in 1 .. n : Commands(u)[i] = Commands(t)[i]
    BY <1>1, <1>4, <1>5, <1>6
  <1>8. Commands(u) = Commands(t)
    BY <1>5, <1>6, <1>7, SeqEqual
  <1> QED BY <1>1, <1>3, <1>8 DEF u

(* ... and fgets() takes the first line.                                   *)
LEMMA LineTaken ==
  ASSUME NEW t \in Seq(Tokens), Lines(t), Len(t) > 1
  PROVE  /\ SubSeq(t, 3, Len(t)) \in Seq(Tokens)
         /\ Lines(SubSeq(t, 3, Len(t)))
         /\ t[1] \in Cmds
         /\ Commands(t) = <<t[1]>> \o Commands(SubSeq(t, 3, Len(t)))
  <1> DEFINE u == SubSeq(t, 3, Len(t))
             n == (Len(u) + 1) \div 2
  <1>1. /\ u \in Seq(Tokens) /\ Len(u) = Len(t) - 2 /\ Len(u) \in Nat
        /\ \A i \in 1 .. Len(u) : u[i] = t[i + 2]
    BY FromThird
  <1>2. t[1] \in Cmds
    BY DEF Lines, Tokens
  <1>3. Lines(u)
    <2> HIDE DEF u
    <2>1. ASSUME NEW i \in 1 .. Len(u) PROVE u[i] = "newline" <=> i % 2 = 0
      <3>1. i + 2 \in 1 .. Len(t) /\ (i + 2) % 2 = i % 2
        BY <1>1
      <3> QED BY <1>1, <3>1 DEF Lines
    <2>2. DOMAIN u = 1 .. Len(u)
      BY <1>1
    <2> QED BY <2>1, <2>2 DEF Lines
  <1>4. n \in Nat /\ (Len(t) + 1) \div 2 = n + 1
        /\ \A i \in 1 .. n : 2 * i - 1 \in 1 .. Len(u)
    <2> HIDE DEF u
    <2>1. Len(t) = Len(u) + 2
      BY <1>1
    <2>2. (Len(u) + 3) \div 2 = n + 1
      BY <1>1, Halves
    <2>3. (Len(t) + 1) \div 2 = n + 1
      BY <1>1, <2>1, <2>2
    <2> QED BY <1>1, <2>3, Halves
  <1>5. /\ Commands(u) \in Seq(Cmds) /\ Len(Commands(u)) = n
        /\ \A i \in 1 .. n : Commands(u)[i] = u[2 * i - 1]
    BY <1>1, <1>3, CommandsType
  <1>6. /\ Commands(t) \in Seq(Cmds) /\ Len(Commands(t)) = n + 1
        /\ \A i \in 1 .. n + 1 : Commands(t)[i] = t[2 * i - 1]
    BY <1>4, CommandsType
  <1> DEFINE v == <<t[1]>> \o Commands(u)
  <1>7. /\ v \in Seq(Cmds) /\ Len(v) = n + 1
        /\ v[1] = t[1] /\ \A i \in 2 .. n + 1 : v[i] = Commands(u)[i - 1]
    <2> HIDE DEF u, n
    <2>1. <<t[1]>> \in Seq(Cmds) /\ Len(<<t[1]>>) = 1 /\ <<t[1]>>[1] = t[1]
      BY <1>2
    <2>2. /\ v \in Seq(Cmds) /\ Len(v) = 1 + n
          /\ \A i \in 1 .. 1 + n : v[i] = IF i <= 1 THEN <<t[1]>>[i] ELSE Commands(u)[i - 1]
      BY <1>5, <2>1, ConcatProperties
    <2> HIDE DEF v
    <2> QED BY <1>4, <2>1, <2>2
  <1> HIDE DEF u, n, v
  <1>8. ASSUME NEW i \in 1 .. n + 1 PROVE Commands(t)[i] = v[i]
    <2>1. CASE i = 1
      BY <1>6, <1>7, <2>1
    <2>2. CASE i # 1
      <3>1. i \in 2 .. n + 1 /\ i - 1 \in 1 .. n
        BY <1>4, <2>2
      <3>2. 2 * (i - 1) - 1 \in 1 .. Len(u) /\ 2 * (i - 1) - 1 + 2 = 2 * i - 1
        BY <1>4, <3>1
      <3>3. v[i] = u[2 * (i - 1) - 1]
        BY <1>5, <1>7, <3>1
      <3> QED BY <1>1, <1>6, <3>2, <3>3
    <2> QED BY <2>1, <2>2
  <1>9. Commands(t) = v
    BY <1>6, <1>7, <1>8, SeqEqual
  <1> QED BY <1>1, <1>2, <1>3, <1>9 DEF u, v

(* A line without an end is a command.                                     *)
LEMMA LastTaken ==
  ASSUME NEW t \in Seq(Tokens), Lines(t), Len(t) = 1
  PROVE  t[1] \in Cmds /\ Commands(t) = <<t[1]>>
  <1>1. t[1] \in Cmds
    BY DEF Lines, Tokens
  <1>2. Commands(t) \in Seq(Cmds) /\ Len(Commands(t)) = 1 /\ Commands(t)[1] = t[1]
    BY CommandsType
  <1> QED BY <1>1, <1>2

-----------------------------------------------------------------------------
(* What the clients sent is executed in their order.                       *)

LEMMA OrderTypes ==
  ASSUME OrderInv
  PROVE  /\ hung \subseteq Sockets /\ reset \subseteq Sockets /\ keys \in BOOLEAN
         /\ mixed \in BOOLEAN /\ together \in BOOLEAN
         /\ sent \in [Sockets -> Seq(Cmds)] /\ ran \in [Sockets -> Seq(Cmds)]
         /\ got \in [Sockets -> Nat]
  BY DEF OrderInv, InOrder, TypeOK

LEMMA DataType ==
  ASSUME SelectInv, NEW c \in Sockets
  PROVE  Data(c) \in Seq(Tokens)
  <1>1. stream.buf \in Seq(Tokens) /\ <<>> \in Seq(Tokens) /\ sock[c] \in Seq(Tokens)
    BY DEF SelectInv, Stream
  <1> QED BY <1>1 DEF Data

(* Nobody has sent anything at first.                                      *)
LEMMA InitOrder == Init => OrderInv
  <1> SUFFICES ASSUME Init PROVE OrderInv
    OBVIOUS
  <1>1. SelectInv
    BY InitSelects
  <1>2. \A c \in Sockets : ~Connected(c)
    BY DEF Init, Connected, Elements
  <1>3. TypeOK
    BY <1>1, EmptySeq DEF Init, SelectInv, TypeOK
  <1> QED BY <1>1, <1>2, <1>3 DEF Init, OrderInv, InOrder

LEMMA AccountKept ==
  ASSUME NEW c, Data(c)' = Data(c), sent'[c] = sent[c], ran'[c] = ran[c], Accounted(c)
  PROVE  Accounted(c)'
  <1>1. Lines(Data(c)') /\ Commands(Data(c)') = Commands(Data(c))
    BY DEF Accounted
  <1>2. sent'[c] = ran'[c] \o Commands(Data(c)')
    BY <1>1 DEF Accounted
  <1> QED BY <1>1, <1>2 DEF Accounted, Lines, Commands

(* A step that neither reads nor sends leaves the order alone.             *)
LEMMA OrderKept ==
  ASSUME OrderInv, SelectInv',
         UNCHANGED <<sock, sent, ran, got>>, stream' = stream,
         hung' \subseteq Sockets, reset' \subseteq Sockets, keys' \in BOOLEAN,
         mixed' \in BOOLEAN, together' \in BOOLEAN,
         away' \subseteq away,
         \A c \in Sockets : Connected(c)' => Connected(c) \/ c \in away
  PROVE  OrderInv'
  <1>1. TypeOK'
    BY OrderTypes DEF SelectInv, TypeOK
  <1>2. ASSUME NEW c \in Sockets, Connected(c)' PROVE Accounted(c)'
    <2>1. CASE Connected(c)
      <3>1. Accounted(c)
        BY <2>1 DEF OrderInv, InOrder
      <3> QED BY <3>1 DEF Accounted, Data
    <2>2. CASE c \in away
      <3>1. sent[c] = <<>> /\ ran[c] = <<>> /\ sock[c] = <<>>
        BY <2>2 DEF OrderInv
      <3>2. stream.fd # c
        BY <2>2, NoneAssumption DEF OrderInv, SelectInv
      <3>3. Data(c)' = <<>> \o <<>>
        BY <3>1, <3>2 DEF Data
      <3>4. Data(c)' = <<>> /\ sent'[c] = <<>> /\ ran'[c] = <<>>
        BY <3>1, <3>3
      <3>5. Lines(Data(c)') /\ Commands(Data(c)') = <<>>
        BY <3>4, NoCommands
      <3>6. <<>> \o <<>> = <<>>
        OBVIOUS
      <3> QED BY <3>4, <3>5, <3>6 DEF Accounted, Lines, Commands
    <2> QED BY <1>2, <2>1, <2>2
  <1> QED BY <1>1, <1>2 DEF OrderInv, InOrder

(* Main: a client is accepted,                                             *)
LEMMA AcceptOrder == ASSUME OrderInv, Accept PROVE OrderInv'
  <1>1. SelectInv'
    BY AcceptSelects DEF OrderInv
  <1>2. queue # <<>> /\ queue \in Seq(Sockets) /\ IsInjective(queue)
    BY NoneAssumption DEF Accept, Selects, Picks, Readable, OrderInv, SelectInv
  <1>3. \A c \in Sockets : Connected(c)' => Connected(c)
    BY <1>2, TailTakes DEF Accept, Connected
  <1> QED BY <1>1, <1>3, OrderKept, OrderTypes DEF Accept, history

(* ... the socket of a client is ready, and the stream is opened on it or  *)
(* stays where it is,                                                      *)
LEMMA ClientOrder ==
  ASSUME OrderInv, NEW c \in Sockets, Client(c)
  PROVE  OrderInv'
  <1>1. SelectInv /\ SelectInv'
    BY ClientSelects DEF OrderInv
  <1>2. UNCHANGED <<list, open, away, queue, sock, hung, reset, sent, keys, ran, got,
                    together>>
    BY DEF Client, clients
  <1>3. mixed' \in BOOLEAN
    BY DEF Client
  <1>4. CASE stream.fd # None
    <2>1. stream' = stream
      BY <1>4 DEF Client, Opened
    <2>2. \A d \in Sockets : Connected(d)' => Connected(d)
      BY <1>2 DEF Connected
    <2> QED BY <1>1, <1>2, <1>3, <2>1, <2>2, OrderKept, OrderTypes
  <1>5. CASE stream.fd = None
    <2>1. stream' = [fd |-> c, buf |-> <<>>, eof |-> FALSE]
      BY <1>5 DEF Client, Opened, NoStream
    <2>2. \A d \in Sockets : Data(d)' = Data(d)
      BY <1>2, <1>5, <2>1, NoneAssumption DEF Data
    <2>3. \A d \in Sockets : Connected(d)' => Accounted(d)'
      BY <1>2, <2>2, AccountKept DEF Connected, OrderInv, InOrder
    <2>4. TypeOK'
      BY <1>1, <1>2, <1>3, OrderTypes DEF SelectInv, TypeOK
    <2> QED BY <1>1, <1>2, <2>3, <2>4 DEF OrderInv, InOrder
  <1> QED BY <1>4, <1>5

(* ... fgets() reads,                                                      *)
LEMMA FillOrder == ASSUME OrderInv, Fill PROVE OrderInv'
  <1>1. SelectInv /\ SelectInv'
    BY FillSelects DEF OrderInv
  <1>2. stream.fd \in Sockets /\ stream.buf \in Seq(Tokens) /\ sock[stream.fd] \in Seq(Tokens)
    BY <1>1 DEF Fill, SelectInv, Stream
  <1>3. /\ stream'.fd = stream.fd /\ stream'.buf = stream.buf \o sock[stream.fd]
        /\ sock' = [sock EXCEPT ![stream.fd] = <<>>]
    BY <1>1 DEF Fill, SelectInv, Stream
  <1>4. ASSUME NEW c \in Sockets PROVE Data(c)' = Data(c)
    <2>1. CASE c = stream.fd
      <3>1. Data(c)' = (stream.buf \o sock[c]) \o <<>> /\ Data(c) = stream.buf \o sock[c]
        BY <1>1, <1>2, <1>3, <2>1 DEF Data, SelectInv
      <3> QED BY <1>2, <2>1, <3>1, ConcatEmptySeq, ConcatProperties
    <2>2. CASE c # stream.fd
      BY <1>1, <1>3, <2>2 DEF Data, SelectInv
    <2> QED BY <2>1, <2>2
  <1>5. UNCHANGED <<open, away, queue, hung, reset, keys, sent, ran, got, mixed, together>>
    BY DEF Fill, history
  <1>6. \A c \in Sockets : Connected(c)' => Accounted(c)'
    BY <1>4, <1>5, AccountKept DEF Connected, OrderInv, InOrder
  <1>7. TypeOK'
    BY <1>1, <1>5, OrderTypes DEF SelectInv, TypeOK
  <1>8. \A c \in away' : sent'[c] = <<>> /\ ran'[c] = <<>> /\ sock'[c] = <<>>
    BY <1>1, <1>3, <1>5 DEF OrderInv, SelectInv
  <1> QED BY <1>1, <1>6, <1>7, <1>8 DEF OrderInv, InOrder

(* ... a client is disconnected, which is the end of its account and does  *)
(* not touch that of another,                                              *)
LEMMA DisconnectOthers ==
  ASSUME SelectInv, pc = "fgets", Disconnect, Return, NEW fd, fd = stream.fd
  PROVE  /\ fd \in Sockets /\ fd \in open /\ ~Connected(fd)'
         /\ \A c \in Sockets \ {fd} :
              Data(c)' = Data(c) /\ (Connected(c)' <=> Connected(c))
  <1>1. fd \in Sockets /\ fd \in open /\ fd \notin Elements(queue)
    BY NoneAssumption DEF SelectInv
  <1>2. stream'.fd = None /\ open' = open \ {fd} /\ queue' = queue
    BY DEF Disconnect, Return, NoStream
  <1>3. ASSUME NEW c \in Sockets, c # fd PROVE Data(c)' = Data(c)
    BY <1>2, <1>3, NoneAssumption DEF Data, Disconnect, SelectInv
  <1>4. \A c \in Sockets : Connected(c)' <=> c \in open' \/ c \in Elements(queue)
    BY <1>2 DEF Connected
  <1> QED BY <1>1, <1>2, <1>3, <1>4 DEF Connected

(* ... or a command is executed.                                           *)
LEMMA ExecuteOrder ==
  ASSUME OrderInv, pc = "fgets", NEW cmd \in Cmds, NEW rest \in Seq(Tokens),
         NEW eof \in BOOLEAN, Execute(cmd, rest, eof), Return,
         NEW fd, fd = stream.fd, Lines(rest \o sock[fd]),
         Commands(Data(fd)) = <<cmd>> \o Commands(rest \o sock[fd])
  PROVE  OrderInv'
  <1>1. SelectInv /\ SelectInv'
    BY ExecuteSelects DEF OrderInv
  <1>2. /\ fd \in Sockets /\ fd \in open /\ ready \in Sockets
        /\ sock[fd] \in Seq(Tokens) /\ Connected(fd)
    BY <1>1, NoneAssumption DEF SelectInv, Connected
  <1>3. UNCHANGED <<away, queue, hung, reset, keys, sent, mixed, together>>
    BY DEF Return
  <1>4. ran' = [ran EXCEPT ![fd] = Append(@, cmd)] /\ ran \in [Sockets -> Seq(Cmds)]
    BY OrderTypes DEF Execute
  <1>5. ran' \in [Sockets -> Seq(Cmds)]
    BY <1>2, <1>4
  <1>6. got' \in [Sockets -> Nat]
    <2>1. CASE Answered(cmd)
      BY <1>2, <2>1, OrderTypes DEF Execute
    <2>2. CASE ~Answered(cmd)
      BY <2>2, OrderTypes DEF Execute
    <2> QED BY <2>1, <2>2
  <1>7. TypeOK'
    BY <1>1, <1>3, <1>5, <1>6, OrderTypes DEF SelectInv, TypeOK
  <1>8. ASSUME NEW c \in Sockets, c # fd
        PROVE  Data(c)' = Data(c) /\ (Connected(c)' <=> Connected(c)) /\ ran'[c] = ran[c]
    <2>1. CASE cmd = "detach"
      BY <1>1, <1>4, <1>8, <2>1, DisconnectOthers DEF Execute
    <2>2. CASE cmd # "detach"
      <3>1. UNCHANGED <<list, open, sock>> /\ stream'.fd = fd
        BY <1>1, <2>2 DEF Execute, SelectInv, Stream
      <3> QED BY <1>3, <1>4, <1>8, <3>1 DEF Data, Connected
    <2> QED BY <2>1, <2>2
  <1>9. ASSUME Connected(fd)' PROVE Accounted(fd)'
    <2>1. cmd # "detach"
      BY <1>1, <1>9, DisconnectOthers DEF Execute
    <2>2. sock' = sock /\ stream'.fd = fd /\ stream'.buf = rest
      BY <1>1, <2>1 DEF Execute, SelectInv, Stream
    <2>3. Data(fd)' = rest \o sock[fd]
      BY <2>2 DEF Data
    <2>4. sent[fd] = ran[fd] \o Commands(Data(fd))
      BY <1>2 DEF OrderInv, InOrder, Accounted
    <2>5. ran'[fd] = Append(ran[fd], cmd) /\ ran[fd] \in Seq(Cmds)
      BY <1>2, <1>4
    <2>6. rest \o sock[fd] \in Seq(Tokens)
      BY <1>2
    <2>7. Commands(rest \o sock[fd]) \in Seq(Cmds)
      BY <2>6, CommandsType
    <2>8. ran[fd] \o (<<cmd>> \o Commands(rest \o sock[fd]))
          = Append(ran[fd], cmd) \o Commands(rest \o sock[fd])
      <3> DEFINE a == ran[fd]
                 b == Commands(rest \o sock[fd])
      <3>1. a \in Seq(Cmds) /\ b \in Seq(Cmds)
        BY <2>5, <2>7
      <3> HIDE DEF a, b
      <3>2. a \o (<<cmd>> \o b) = Append(a, cmd) \o b
        BY <3>1, FirstMoves
      <3> QED BY <3>2 DEF a, b
    <2>10. sent'[fd] = ran'[fd] \o Commands(rest \o sock[fd])
      BY <1>3, <2>4, <2>5, <2>8
    <2>11. Lines(Data(fd)') /\ sent'[fd] = ran'[fd] \o Commands(Data(fd)')
      BY <2>3, <2>10
    <2> QED BY <2>11 DEF Accounted, Lines, Commands
  <1>10. ASSUME NEW c \in Sockets, Connected(c)' PROVE Accounted(c)'
    <2>1. CASE c = fd
      <3>1. Connected(fd)' => Accounted(fd)'
        BY <1>9
      <3> QED BY <1>10, <2>1, <3>1
    <2>2. CASE c # fd
      BY <1>3, <1>8, <1>10, <2>2, AccountKept DEF OrderInv, InOrder
    <2> QED BY <2>1, <2>2
  <1>11. \A c \in away' : sent'[c] = <<>> /\ ran'[c] = <<>> /\ sock'[c] = <<>>
    <2>1. \A c \in away : c # fd /\ c \in Sockets
      BY <1>1, <1>2 DEF SelectInv
    <2>2. \A c \in Sockets \ {fd} : sock'[c] = sock[c]
      <3>1. CASE cmd = "detach"
        BY <1>1, <3>1 DEF Execute, Disconnect, SelectInv
      <3>2. CASE cmd # "detach"
        BY <3>2 DEF Execute
      <3> QED BY <3>1, <3>2
    <2> QED BY <1>3, <1>4, <2>1, <2>2 DEF OrderInv
  <1> QED BY <1>1, <1>7, <1>10, <1>11 DEF OrderInv, InOrder

LEMMA LineOrder == ASSUME OrderInv, Line PROVE OrderInv'
  <1>1. PICK fd : fd = stream.fd
    OBVIOUS
  <1> DEFINE t == Data(fd)
  <1>2. /\ fd \in Sockets /\ fd \in open /\ stream.buf \in Seq(Tokens)
        /\ sock[fd] \in Seq(Tokens) /\ t = stream.buf \o sock[fd] /\ pc = "fgets"
    BY <1>1, NoneAssumption DEF Line, OrderInv, SelectInv, Stream, Data
  <1>3. t \in Seq(Tokens) /\ Lines(t)
    <2>1. Connected(fd) /\ SelectInv
      BY <1>2 DEF Connected, OrderInv
    <2> QED BY <1>2, <2>1, DataType DEF OrderInv, InOrder, Accounted
  <1> HIDE DEF t
  <1>4. Len(stream.buf) > 1 /\ Len(stream.buf) \in Nat /\ Len(sock[fd]) \in Nat
    BY <1>2 DEF Line, HasLine
  <1>5. Len(t) = Len(stream.buf) + Len(sock[fd]) /\ t[1] = Head(stream.buf)
    <2> DEFINE a == stream.buf
               b == sock[fd]
    <2>1. Len(<<>>) = 0 /\ ~(0 > 1)
      BY EmptySeq
    <2>2. a \in Seq(Tokens) /\ b \in Seq(Tokens) /\ a # <<>> /\ t = a \o b
      BY <1>2, <1>4, <2>1
    <2> HIDE DEF a, b
    <2>3. Len(a \o b) = Len(a) + Len(b) /\ (a \o b)[1] = Head(a)
      BY <2>2, ConcatHead
    <2> QED BY <2>2, <2>3 DEF a, b
  <1>6. Rest \in Seq(Tokens) /\ Rest \o sock[fd] = SubSeq(t, 3, Len(t))
    BY <1>2, <1>4, RestOfConcat DEF Rest
  <1>7. Len(t) > 1
    <2>1. \A k, m \in Nat : k > 1 => k + m > 1
      OBVIOUS
    <2> QED BY <1>4, <1>5, <2>1
  <1>8. /\ t[1] \in Cmds /\ Lines(SubSeq(t, 3, Len(t)))
        /\ Commands(t) = <<t[1]>> \o Commands(SubSeq(t, 3, Len(t)))
    BY <1>3, <1>7, LineTaken
  <1> QED BY <1>1, <1>2, <1>5, <1>6, <1>8, ExecuteOrder DEF Line, t

LEMMA LastLineOrder == ASSUME OrderInv, LastLine PROVE OrderInv'
  <1>1. PICK fd : fd = stream.fd
    OBVIOUS
  <1> DEFINE t == Data(fd)
  <1>2. /\ fd \in Sockets /\ fd \in open /\ stream.buf \in Seq(Tokens) /\ pc = "fgets"
        /\ sock[fd] = <<>> /\ t = stream.buf \o <<>> /\ Len(stream.buf) = 1
    <2>1. /\ fd \in Sockets /\ fd \in open /\ stream.buf \in Seq(Tokens) /\ pc = "fgets"
          /\ sock[fd] = <<>> /\ stream.buf # <<>> /\ ~(Len(stream.buf) > 1)
      BY <1>1, NoneAssumption DEF LastLine, AtEnd, HasLine, OrderInv, SelectInv, Stream
    <2>2. t = stream.buf \o <<>>
      BY <1>1, <2>1 DEF Data
    <2>3. Len(stream.buf) \in Nat \ {0}
      BY <2>1, EmptySeq
    <2>4. Len(stream.buf) = 1
      <3>1. \A k \in Nat \ {0} : ~(k > 1) => k = 1
        OBVIOUS
      <3> QED BY <2>1, <2>3, <3>1
    <2> QED BY <2>1, <2>2, <2>4
  <1>3. t = stream.buf /\ Lines(t)
    BY <1>2, ConcatEmptySeq DEF OrderInv, InOrder, Connected, Accounted
  <1> HIDE DEF t
  <1>4. t[1] = Head(stream.buf) /\ t[1] \in Cmds /\ Commands(t) = <<t[1]>>
    BY <1>2, <1>3, LastTaken
  <1>5. <<>> \in Seq(Tokens) /\ <<>> \o sock[fd] = <<>>
    BY <1>2
  <1>6. Lines(<<>> \o sock[fd]) /\ Commands(<<>> \o sock[fd]) = <<>>
    BY <1>5, NoCommands
  <1>7. Commands(t) = <<t[1]>> \o Commands(<<>> \o sock[fd])
    BY <1>4, <1>6
  <1> QED BY <1>1, <1>2, <1>3, <1>4, <1>5, <1>6, <1>7, ExecuteOrder DEF LastLine, t

LEMMA HungUpOrder == ASSUME OrderInv, HungUp PROVE OrderInv'
  <1>1. PICK fd : fd = stream.fd
    OBVIOUS
  <1>2. SelectInv /\ SelectInv'
    BY DisconnectSelects DEF HungUp, AtEnd, OrderInv
  <1>3. /\ fd \in Sockets /\ fd \in open /\ ~Connected(fd)'
        /\ \A c \in Sockets \ {fd} :
             Data(c)' = Data(c) /\ (Connected(c)' <=> Connected(c))
    BY <1>1, <1>2, DisconnectOthers DEF HungUp, AtEnd
  <1>4. UNCHANGED <<away, queue, hung, reset, keys, sent, mixed, together, ran, got>>
    BY DEF HungUp, Return
  <1>5. TypeOK'
    BY <1>2, <1>4, OrderTypes DEF SelectInv, TypeOK
  <1>6. \A c \in Sockets : Connected(c)' => Accounted(c)'
    BY <1>3, <1>4, AccountKept DEF OrderInv, InOrder
  <1>7. \A c \in away' : sent'[c] = <<>> /\ ran'[c] = <<>> /\ sock'[c] = <<>>
    BY <1>1, <1>2, <1>3, <1>4 DEF HungUp, Disconnect, OrderInv, SelectInv
  <1> QED BY <1>2, <1>5, <1>6, <1>7 DEF OrderInv, InOrder

(* The clients: one sends something,                                       *)
LEMMA SendsOrder ==
  ASSUME OrderInv, NEW c \in Sockets, NEW tokens \in Seq(Tokens), Sends(c, tokens),
         SelectInv', sent' \in [Sockets -> Seq(Cmds)],
         \A d \in Sockets \ {c} : sent'[d] = sent[d],
         Lines(Data(c) \o tokens),
         sent'[c] = ran[c] \o Commands(Data(c) \o tokens)
  PROVE  OrderInv'
  <1>1. SelectInv /\ c \in Sockets \ away
    BY DEF OrderInv, SelectInv, Sends, Connected
  <1>2. UNCHANGED <<stream, open, away, queue, hung, reset, keys, ran, got, mixed, together>>
        /\ sock' = [sock EXCEPT ![c] = @ \o tokens]
    BY DEF Sends, main, history
  <1>3. Data(c)' = Data(c) \o tokens
    <2>1. /\ stream.buf \in Seq(Tokens) /\ <<>> \in Seq(Tokens) /\ sock[c] \in Seq(Tokens)
          /\ tokens \in Seq(Tokens)
      BY <1>1 DEF SelectInv, Stream
    <2>2. sock'[c] = sock[c] \o tokens
      BY <1>1, <1>2 DEF SelectInv
    <2> DEFINE buf == IF stream.fd = c THEN stream.buf ELSE <<>>
               s == sock[c]
    <2>3. buf \in Seq(Tokens) /\ s \in Seq(Tokens)
      BY <2>1
    <2>4. Data(c) = buf \o s /\ Data(c)' = buf \o (s \o tokens)
      BY <1>2, <2>2 DEF Data
    <2> HIDE DEF buf, s
    <2>5. (buf \o s) \o tokens = buf \o (s \o tokens)
      BY <2>3, Associative
    <2> QED BY <2>4, <2>5
  <1>4. Accounted(c)'
    <2>1. Lines(Data(c)') /\ sent'[c] = ran'[c] \o Commands(Data(c)')
      BY <1>2, <1>3
    <2> QED BY <2>1 DEF Accounted, Lines, Commands
  <1>5. ASSUME NEW d \in Sockets, d # c PROVE Data(d)' = Data(d) /\ sock'[d] = sock[d]
    BY <1>1, <1>2, <1>5 DEF Data, SelectInv
  <1>6. ASSUME NEW d \in Sockets, Connected(d)' PROVE Accounted(d)'
    <2>1. CASE d = c
      BY <1>4, <2>1
    <2>2. CASE d # c
      BY <1>2, <1>5, <1>6, <2>2, AccountKept DEF Connected, OrderInv, InOrder
    <2> QED BY <2>1, <2>2
  <1>7. TypeOK'
    BY <1>2, OrderTypes DEF SelectInv, TypeOK
  <1>8. \A d \in away' : sent'[d] = <<>> /\ ran'[d] = <<>> /\ sock'[d] = <<>>
    <2>1. \A d \in away : d \in Sockets /\ d # c
      BY <1>1 DEF SelectInv
    <2> QED BY <1>2, <1>5, <2>1 DEF OrderInv
  <1> QED BY <1>6, <1>7, <1>8 DEF OrderInv, InOrder

(* ... a command when the last one has its end, which comes with it or not,*)
LEMMA SendOrder ==
  ASSUME OrderInv, NEW c \in Sockets, NEW cmd \in Cmds, Send(c, cmd), SelectInv'
  PROVE  OrderInv'
  <1> DEFINE t == Data(c)
  <1>1. SelectInv /\ Connected(c)
    BY DEF OrderInv, Send, Sends
  <1>2. t \in Seq(Tokens) /\ Lines(t) /\ sent[c] = ran[c] \o Commands(t)
    BY <1>1, DataType DEF OrderInv, InOrder, Accounted
  <1>3. t = <<>> \/ t[Len(t)] = "newline"
    BY DEF Send, Begun
  <1> HIDE DEF t
  <1>4. Len(t) % 2 = 0
    <2>1. CASE t = <<>>
      BY <2>1, EmptySeq
    <2>2. CASE t # <<>>
      <3>1. Len(t) \in DOMAIN t
        BY <1>2, <2>2
      <3> QED BY <1>2, <1>3, <2>2, <3>1 DEF Lines
    <2> QED BY <2>1, <2>2
  <1> DEFINE u == t \o <<cmd>>
  <1>5. u \in Seq(Tokens) /\ Len(u) % 2 = 1 /\ Lines(u) /\ Commands(u) = Append(Commands(t), cmd)
    BY <1>2, <1>4, CommandSent
  <1>6. <<cmd>> \in Seq(Tokens) /\ <<"newline">> \in Seq(Tokens)
        /\ <<cmd, "newline">> \in Seq(Tokens) /\ <<cmd, "newline">> = <<cmd>> \o <<"newline">>
    BY CmdIsToken
  <1>7. t \o <<cmd, "newline">> = u \o <<"newline">>
    <2> DEFINE a == <<cmd>>
               b == <<"newline">>
    <2>1. a \in Seq(Tokens) /\ b \in Seq(Tokens) /\ <<cmd, "newline">> = a \o b
      BY <1>6
    <2>2. u = t \o a
      OBVIOUS
    <2> HIDE DEF a, b, u
    <2>3. t \o (a \o b) = (t \o a) \o b
      <3>1. t \in Seq(Tokens) /\ a \in Seq(Tokens) /\ b \in Seq(Tokens)
        BY <1>2, <2>1
      <3> QED BY <3>1, ConcatAssociative
    <2> QED BY <2>1, <2>2, <2>3 DEF b
  <1> HIDE DEF u
  <1>8. Lines(u \o <<"newline">>) /\ Commands(u \o <<"newline">>) = Commands(u)
    BY <1>5, NewlineSent
  <1>9. /\ sent' = [sent EXCEPT ![c] = Append(@, cmd)] /\ sent \in [Sockets -> Seq(Cmds)]
        /\ ran[c] \in Seq(Cmds) /\ Commands(t) \in Seq(Cmds)
    BY <1>2, OrderTypes, CommandsType DEF Send
  <1>10. sent' \in [Sockets -> Seq(Cmds)] /\ sent'[c] = Append(sent[c], cmd)
         /\ \A d \in Sockets \ {c} : sent'[d] = sent[d]
    BY <1>9
  <1>11. sent'[c] = ran[c] \o Commands(u)
    <2>1. Append(ran[c] \o Commands(t), cmd) = ran[c] \o Append(Commands(t), cmd)
      <3> DEFINE a == ran[c]
                 b == Commands(t)
      <3>1. a \in Seq(Cmds) /\ b \in Seq(Cmds)
        BY <1>9
      <3> HIDE DEF a, b
      <3>2. \A x \in Cmds : Append(a \o b, x) = a \o Append(b, x)
        BY <3>1, LastMoves
      <3> QED BY <3>2 DEF a, b
    <2> QED BY <1>2, <1>5, <1>10, <2>1, Zenon
  <1>12. CASE Sends(c, <<cmd>>)
    BY <1>5, <1>6, <1>10, <1>11, <1>12, SendsOrder DEF t, u
  <1>13. CASE Sends(c, <<cmd, "newline">>)
    <2>1. Lines(t \o <<cmd, "newline">>) /\ sent'[c] = ran[c] \o Commands(t \o <<cmd, "newline">>)
      BY <1>7, <1>8, <1>11
    <2> QED BY <1>6, <1>10, <1>13, <2>1, SendsOrder DEF t
  <1> QED BY <1>12, <1>13 DEF Send

(* ... or the end of a line that it has begun.                             *)
LEMMA EndLineOrder ==
  ASSUME OrderInv, NEW c \in Sockets, EndLine(c), SelectInv'
  PROVE  OrderInv'
  <1> DEFINE t == Data(c)
  <1>1. SelectInv /\ Connected(c)
    BY DEF OrderInv, EndLine, Sends
  <1>2. t \in Seq(Tokens) /\ Lines(t) /\ sent[c] = ran[c] \o Commands(t)
    BY <1>1, DataType DEF OrderInv, InOrder, Accounted
  <1>3. t # <<>> /\ t[Len(t)] # "newline"
    BY DEF EndLine, Begun
  <1> HIDE DEF t
  <1>4. Len(t) % 2 = 1
    <2>1. Len(t) \in DOMAIN t /\ Len(t) \in Nat
      BY <1>2, <1>3
    <2>2. Len(t) % 2 # 0
      BY <1>2, <1>3, <2>1 DEF Lines
    <2> QED BY <2>1, <2>2
  <1>5. Lines(t \o <<"newline">>) /\ Commands(t \o <<"newline">>) = Commands(t)
    BY <1>2, <1>4, NewlineSent
  <1>6. <<"newline">> \in Seq(Tokens)
    BY CmdIsToken
  <1>7. sent' = sent
    BY DEF EndLine
  <1>8. sent'[c] = ran[c] \o Commands(t \o <<"newline">>)
    BY <1>2, <1>5, <1>7
  <1> QED BY <1>5, <1>6, <1>7, <1>8, SendsOrder, OrderTypes DEF EndLine, t

(* One step of anything.                                                   *)
LEMMA NextOrder == OrderInv /\ [Next]_vars => OrderInv'
  <1> SUFFICES ASSUME OrderInv, [Next]_vars PROVE OrderInv'
    OBVIOUS
  <1>1. SelectInv'
    BY NextSelects DEF OrderInv
  <1>2. CASE UNCHANGED vars
    <2>1. \A c \in Sockets : Connected(c)' => Connected(c)
      BY <1>2 DEF Connected, vars
    <2> QED BY <1>1, <1>2, <2>1, OrderKept, OrderTypes DEF vars
  <1>3. CASE Idle
    BY <1>2, <1>3 DEF Idle
  <1>4. CASE Keyboard \/ PressKey
    <2>1. /\ UNCHANGED <<stream, open, away, queue, sock, hung, reset, sent, history>>
          /\ UNCHANGED <<ran, got, mixed, together>> /\ keys' \in BOOLEAN
      BY <1>4 DEF Keyboard, PressKey, main, clients, history
    <2>2. \A c \in Sockets : Connected(c)' => Connected(c)
      BY <2>1 DEF Connected
    <2> QED BY <1>1, <2>1, <2>2, OrderKept, OrderTypes
  <1>5. ASSUME NEW c \in Sockets, Connect(c) PROVE OrderInv'
    <2>1. /\ UNCHANGED <<stream, open, sock, hung, reset, keys, sent, ran, got, mixed>>
          /\ together' \in BOOLEAN /\ away' \subseteq away /\ queue' = Append(queue, c) /\ c \in away
          /\ queue \in Seq(Sockets)
      BY <1>5, OrderTypes DEF Connect, main, OrderInv, SelectInv
    <2>2. \A d \in Sockets : Connected(d)' => Connected(d) \/ d \in away
      BY <2>1 DEF Connected, Elements
    <2> QED BY <1>1, <2>1, <2>2, OrderKept, OrderTypes
  <1>6. ASSUME NEW c \in Sockets, HangUp(c) \/ Reset(c) PROVE OrderInv'
    <2>1. /\ UNCHANGED <<stream, open, away, queue, sock, keys, sent, ran, got, mixed, together>>
          /\ hung' \subseteq Sockets /\ reset' \subseteq Sockets
      BY <1>6, OrderTypes DEF HangUp, Reset, main, history
    <2>2. \A d \in Sockets : Connected(d)' => Connected(d)
      BY <2>1 DEF Connected
    <2> QED BY <1>1, <2>1, <2>2, OrderKept, OrderTypes
  <1> QED BY <1>1, <1>2, <1>3, <1>4, <1>5, <1>6, AcceptOrder, ClientOrder, FillOrder,
             LineOrder, LastLineOrder, HungUpOrder, SendOrder, EndLineOrder
          DEF Next, Input, Handle, Remote

LEMMA OrderInvariant == Spec => []OrderInv
  BY InitOrder, NextOrder, PTL DEF Spec

(* For any number of clients, commands and partial lines: while a client   *)
(* is connected, what it has sent is what was executed, followed by what   *)
(* waits in the stream and in its socket, also when the stream of one      *)
(* client is read because another was ready.                               *)
THEOREM NothingOvertaken == Spec => []InOrder
  <1>1. OrderInv => InOrder
    BY DEF OrderInv
  <1> QED BY <1>1, OrderInvariant, PTL

-----------------------------------------------------------------------------
(* Who is disconnected, and when.                                          *)

(* What a step of main executes, from which client.                        *)
LEMMA Executed ==
  ASSUME OrderInv, Line \/ LastLine
  PROVE  \E cmd, rest, eof : cmd \in Cmds /\ Execute(cmd, rest, eof) /\ Return /\ pc = "fgets"
  <1>1. PICK fd : fd = stream.fd
    OBVIOUS
  <1>2. /\ fd \in Sockets /\ fd \in open /\ stream.buf \in Seq(Tokens)
        /\ sock[fd] \in Seq(Tokens) /\ Data(fd) = stream.buf \o sock[fd]
        /\ pc = "fgets" /\ SelectInv /\ stream.buf # <<>>
    <2>1. pc = "fgets" /\ SelectInv
      BY DEF Line, LastLine, AtEnd, OrderInv
    <2>2. stream.buf # <<>>
      <3>1. Len(<<>>) = 0 /\ ~(0 > 1)
        BY EmptySeq
      <3> QED BY <3>1 DEF Line, LastLine, HasLine
    <2> QED BY <1>1, <2>1, <2>2, NoneAssumption DEF SelectInv, Stream, Data
  <1>3. Data(fd) \in Seq(Tokens) /\ Lines(Data(fd))
    BY <1>2, DataType DEF OrderInv, InOrder, Connected, Accounted
  <1>4. /\ Data(fd)[1] = Head(stream.buf) /\ Head(stream.buf) \in Tokens
        /\ 1 \in DOMAIN Data(fd)
    <2> DEFINE a == stream.buf
               b == sock[fd]
    <2>1. a \in Seq(Tokens) /\ b \in Seq(Tokens) /\ a # <<>> /\ Data(fd) = a \o b
      BY <1>2
    <2> HIDE DEF a, b
    <2>2. (a \o b)[1] = Head(a) /\ Head(a) \in Tokens /\ 1 \in DOMAIN (a \o b)
      BY <2>1, ConcatHead
    <2> QED BY <2>1, <2>2 DEF a
  <1>6. Head(stream.buf) \in Cmds
    BY <1>3, <1>4 DEF Lines, Tokens
  <1> QED BY <1>2, <1>6 DEF Line, LastLine

(* A step that takes no client away drops nothing.                         *)
LEMMA NobodyLeaves ==
  ASSUME NothingDropped,
         \A c \in Sockets \ away' : (c \notin away /\ ~Connected(c)) \/ Connected(c)',
         \A c \in Sockets \ away : ~Connected(c) => sent'[c] = sent[c] /\ ran'[c] = ran[c],
         reset \subseteq reset'
  PROVE  NothingDropped'
  BY DEF NothingDropped, LastLost

LEMMA AppendedLast ==
  ASSUME NEW S, NEW a \in Seq(S), NEW x \in S
  PROVE  x \in Elements(Append(a, x))
  <1>1. Len(a) + 1 \in DOMAIN Append(a, x) /\ Append(a, x)[Len(a) + 1] = x
    BY AppendProperties
  <1> QED BY <1>1 DEF Elements

LEMMA OneLeft ==
  ASSUME NEW S, NEW t \in Seq(S), t # <<>>, ~(Len(t) > 1)
  PROVE  Len(t) = 1
  <1>1. Len(t) \in Nat \ {0}
    BY EmptySeq
  <1>2. \A k \in Nat \ {0} : ~(k > 1) => k = 1
    OBVIOUS
  <1> QED BY <1>1, <1>2

LEMMA NextDrops == ASSUME OrderInv, NothingDropped, [Next]_vars PROVE NothingDropped'
  <1>1. SelectInv /\ ran \in [Sockets -> Seq(Cmds)]
    BY OrderTypes DEF OrderInv
  <1>2. ASSUME UNCHANGED <<open, away, queue, sent, ran>>, reset \subseteq reset'
        PROVE  NothingDropped'
    BY <1>2 DEF NothingDropped, LastLost, Connected
  <1>3. CASE UNCHANGED vars \/ Idle \/ Keyboard \/ PressKey \/ Fill
    BY <1>2, <1>3 DEF vars, Idle, Keyboard, PressKey, Fill, main, clients, history
  <1>4. CASE Accept
    <2>1. queue # <<>> /\ queue \in Seq(Sockets) /\ IsInjective(queue)
      BY <1>1, <1>4, NoneAssumption DEF Accept, Selects, Picks, Readable, SelectInv
    <2>2. \A c \in Sockets : Connected(c) => Connected(c)'
      BY <1>4, <2>1, TailTakes DEF Accept, Connected
    <2> QED BY <1>4, <2>2, NobodyLeaves DEF Accept, history
  <1>5. ASSUME NEW c \in Sockets, Client(c) PROVE NothingDropped'
    BY <1>2, <1>5 DEF Client, clients
  <1>6. CASE Line \/ LastLine
    <2>1. PICK cmd, rest, eof :
            cmd \in Cmds /\ Execute(cmd, rest, eof) /\ Return /\ pc = "fgets"
      BY <1>6, Executed
    <2>2. PICK fd : fd = stream.fd
      OBVIOUS
    <2>3. /\ fd \in Sockets /\ fd \in open /\ UNCHANGED <<away, queue, reset, sent>>
          /\ ran' = [ran EXCEPT ![fd] = Append(@, cmd)]
      BY <1>1, <2>1, <2>2, NoneAssumption DEF SelectInv, Return, Execute
    <2>4. CASE cmd # "detach"
      <3>1. open' = open
        BY <2>1, <2>4 DEF Execute
      <3> QED BY <2>3, <3>1, NobodyLeaves DEF Connected
    <2>5. CASE cmd = "detach"
      <3>1. \A c \in Sockets \ {fd} : Connected(c)' <=> Connected(c)
        BY <1>1, <2>1, <2>2, <2>5, DisconnectOthers DEF Execute
      <3>2. "detach" \in Elements(ran'[fd])
        BY <1>1, <2>1, <2>3, <2>5, AppendedLast
      <3> QED BY <1>1, <2>3, <3>1, <3>2 DEF NothingDropped, LastLost
    <2> QED BY <2>4, <2>5
  <1>7. CASE HungUp
    <2>1. PICK fd : fd = stream.fd
      OBVIOUS
    <2>2. /\ fd \in Sockets /\ fd \in open /\ UNCHANGED <<away, reset, sent, ran>>
          /\ \A c \in Sockets \ {fd} : Connected(c)' <=> Connected(c)
      BY <1>1, <1>7, <2>1, DisconnectOthers DEF HungUp, AtEnd, Return
    <2>3. /\ Data(fd) = stream.buf \o <<>> /\ stream.buf \in Seq(Tokens)
          /\ ~(Len(stream.buf) > 1) /\ (stream.buf = <<>> \/ fd \in reset)
      BY <1>1, <1>7, <2>1 DEF HungUp, AtEnd, HasLine, Data, SelectInv, Stream
    <2>4. Data(fd) = stream.buf /\ Lines(Data(fd)) /\ sent[fd] = ran[fd] \o Commands(Data(fd))
      BY <2>2, <2>3, ConcatEmptySeq DEF OrderInv, InOrder, Connected, Accounted
    <2>5. CASE stream.buf = <<>>
      <3>1. sent[fd] = ran[fd] \o <<>>
        BY <2>4, <2>5, NoCommands
      <3>2. ran[fd] \o <<>> = ran[fd]
        BY <1>1, <2>2, ConcatEmptySeq
      <3> QED BY <2>2, <3>1, <3>2 DEF NothingDropped, LastLost
    <2>6. CASE stream.buf # <<>>
      <3>1. Len(stream.buf) = 1
        BY <2>3, <2>6, OneLeft
      <3>2. PICK cmd \in Cmds : Commands(Data(fd)) = <<cmd>>
        BY <2>3, <2>4, <3>1, LastTaken
      <3>3. sent[fd] = Append(ran[fd], cmd)
        <4>1. ran[fd] \in Seq(Cmds)
          BY <1>1, <2>2
        <4>2. Append(ran[fd], cmd) = ran[fd] \o <<cmd>>
          BY <4>1, AppendIsConcat
        <4> QED BY <2>4, <3>2, <4>2
      <3> QED BY <2>2, <2>3, <2>6, <3>3 DEF NothingDropped, LastLost
    <2> QED BY <2>5, <2>6
  <1>8. ASSUME NEW c \in Sockets, Remote(c) PROVE NothingDropped'
    <2>1. CASE Connect(c)
      <3>1. /\ away' = away \ {c} /\ UNCHANGED <<open, reset, sent, ran>>
            /\ queue' = Append(queue, c) /\ queue \in Seq(Sockets)
        BY <1>1, <2>1 DEF Connect, main, SelectInv
      <3>2. Elements(queue') = Elements(queue) \cup {c}
        BY <1>1, <2>1, <3>1, RegisterAdds DEF Connect, Register, SelectInv
      <3> QED BY <3>1, <3>2, NobodyLeaves DEF Connected
    <2>2. CASE HangUp(c) \/ Reset(c)
      BY <1>2, <2>2 DEF HangUp, Reset, main, history
    <2>3. CASE EndLine(c)
      BY <1>2, <2>3 DEF EndLine, Sends, main, history
    <2>4. ASSUME NEW cmd \in Cmds, Send(c, cmd) PROVE NothingDropped'
      <3>1. Connected(c) /\ UNCHANGED <<open, away, queue, reset, ran>>
            /\ \A d \in Sockets \ {c} : sent'[d] = sent[d]
        BY <2>4, OrderTypes DEF Send, Sends, main, history
      <3> QED BY <3>1, NobodyLeaves DEF Connected
    <2> QED BY <1>8, <2>1, <2>2, <2>3, <2>4 DEF Remote
  <1> QED BY <1>3, <1>4, <1>5, <1>6, <1>7, <1>8 DEF Next, Input, Handle

(* For any number of clients: one is disconnected only after its last      *)
(* command, or because it asked for it, however many clients share the     *)
(* stream.                                                                 *)
THEOREM NothingIsDropped == Spec => []NothingDropped
  <1>1. Init => NothingDropped
    BY DEF Init, NothingDropped
  <1>2. OrderInv /\ NothingDropped /\ [Next]_vars => NothingDropped'
    BY NextDrops
  <1> QED BY <1>1, <1>2, OrderInvariant, PTL DEF Spec

-----------------------------------------------------------------------------
(* Answers.                                                                *)

(* One more command is one more question, or none.                         *)
LEMMA AskedMore ==
  ASSUME NEW s \in Seq(Cmds), NEW cmd \in Cmds
  PROVE  /\ Asked(s) \in Nat
         /\ Asked(Append(s, cmd)) = IF cmd = "ask" THEN Asked(s) + 1 ELSE Asked(s)
  <1> DEFINE asks == {i \in DOMAIN s : s[i] = "ask"}
             t == Append(s, cmd)
             more == {i \in DOMAIN t : t[i] = "ask"}
  <1>1. /\ DOMAIN s = 1 .. Len(s) /\ DOMAIN t = 1 .. Len(s) + 1 /\ Len(s) \in Nat
        /\ \A i \in 1 .. Len(s) : t[i] = s[i]
        /\ t[Len(s) + 1] = cmd
    BY AppendProperties, LenProperties
  <1>2. IsFiniteSet(asks)
    <2>1. IsFiniteSet(1 .. Len(s))
      BY <1>1, FS_Interval
    <2> QED BY <1>1, <2>1, FS_Subset
  <1>3. Cardinality(asks) \in Nat
    BY <1>2, FS_CardinalityType
  <1>4. Len(s) + 1 \notin asks
    BY <1>1
  <1>5. CASE cmd = "ask"
    <2>1. more = asks \cup {Len(s) + 1}
      BY <1>1, <1>5
    <2>2. Cardinality(more) = Cardinality(asks) + 1
      BY <1>2, <1>4, <2>1, FS_AddElement
    <2> QED BY <1>3, <1>5, <2>2 DEF Asked
  <1>6. CASE cmd # "ask"
    <2>1. more = asks
      BY <1>1, <1>6
    <2> QED BY <1>3, <1>6, <2>1 DEF Asked
  <1> QED BY <1>5, <1>6

(* As long as no client was taken for another.                             *)
LEMMA NextAnswers ==
  ASSUME OrderInv, AnswersOwn, [Next]_vars
  PROVE  AnswersOwn'
  <1>1. SelectInv /\ ran \in [Sockets -> Seq(Cmds)] /\ got \in [Sockets -> Nat]
    BY OrderTypes DEF OrderInv
  <1>2. ASSUME UNCHANGED <<ran, got>>, mixed => mixed', hung \subseteq hung'
        PROVE  AnswersOwn'
    BY <1>2 DEF AnswersOwn, EachItsOwn
  <1>3. CASE UNCHANGED vars \/ Idle \/ Keyboard \/ PressKey \/ Fill \/ Accept \/ HungUp
    <2>1. UNCHANGED <<ran, got, mixed, hung>>
      BY <1>3 DEF vars, Idle, Keyboard, PressKey, Fill, Accept, HungUp, Return, main, clients, history
    <2> QED BY <1>2, <2>1
  <1>4. ASSUME NEW c \in Sockets, Client(c) \/ Remote(c) PROVE AnswersOwn'
    BY <1>2, <1>4 DEF Client, clients, Remote, Connect, EndLine, Send, Sends, HangUp, Reset, history
  <1>5. CASE Line \/ LastLine
    <2>1. PICK cmd, rest, eof :
            cmd \in Cmds /\ Execute(cmd, rest, eof) /\ Return /\ pc = "fgets"
      BY <1>5, Executed
    <2>2. UNCHANGED <<mixed, hung>>
      BY <2>1 DEF Return
    <2>3. SUFFICES ASSUME ~mixed, NEW c \in Sockets \ hung
                   PROVE  got'[c] = Asked(ran'[c])
      BY <2>2 DEF AnswersOwn, EachItsOwn
    <2>4. ready = stream.fd /\ ready \in Sockets
      BY <1>1, <2>1, <2>3 DEF SelectInv
    <2>5. got[c] = Asked(ran[c]) /\ ran[c] \in Seq(Cmds) /\ got[c] \in Nat
      BY <1>1, <2>3 DEF AnswersOwn, EachItsOwn
    <2>6. ran' = [ran EXCEPT ![ready] = Append(@, cmd)]
      BY <2>1, <2>4 DEF Execute
    <2>7. CASE c # ready
      <3>1. ran'[c] = ran[c] /\ got'[c] = got[c]
        BY <1>1, <2>1, <2>6, <2>7 DEF Execute
      <3> QED BY <2>5, <3>1
    <2>8. CASE c = ready
      <3>1. ran'[c] = Append(ran[c], cmd)
        BY <1>1, <2>4, <2>6, <2>8
      <3>2. Answered(cmd) <=> cmd = "ask"
        BY <2>3, <2>8 DEF Answered
      <3>3. got'[c] = IF cmd = "ask" THEN got[c] + 1 ELSE got[c]
        BY <1>1, <2>1, <2>4, <2>8, <3>2 DEF Execute
      <3> QED BY <2>1, <2>5, <3>1, <3>3, AskedMore
    <2> QED BY <2>7, <2>8
  <1> QED BY <1>3, <1>4, <1>5 DEF Next, Input, Handle

(* What a step of main does to who is connected: nobody comes.             *)
LEMMA NobodyComes ==
  ASSUME OrderInv, Input \/ Handle, NEW c \in Sockets, Connected(c)'
  PROVE  Connected(c)
  <1>1. SelectInv
    BY DEF OrderInv
  <1>2. CASE Idle \/ Keyboard \/ Fill \/ \E d \in Sockets : Client(d)
    BY <1>2 DEF Idle, vars, Keyboard, main, clients, Fill, Client, Connected
  <1>3. CASE Accept
    <2>1. queue # <<>> /\ queue \in Seq(Sockets) /\ IsInjective(queue)
      BY <1>1, <1>3, NoneAssumption DEF Accept, Selects, Picks, Readable, SelectInv
    <2> QED BY <1>3, <2>1, TailTakes DEF Accept, Connected
  <1>4. CASE Line \/ LastLine \/ HungUp
    <2>1. open' \subseteq open /\ queue' = queue
      BY <1>4 DEF Line, LastLine, HungUp, Execute, Disconnect, Return
    <2> QED BY <2>1 DEF Connected
  <1> QED BY <1>2, <1>3, <1>4 DEF Input, Handle

(* Clients that come one at a time are alone with the stream: it is closed,*)
(* or that of the only client, when the socket of that one is ready.       *)
LEMMA NextAlone == ASSUME OrderInv, Alone, [Next]_vars PROVE Alone'
  <1>1. SelectInv
    BY DEF OrderInv
  <1>2. ASSUME together' = together, mixed' = mixed,
               \A c \in Sockets : Connected(c)' => Connected(c)
        PROVE  Alone'
    BY <1>2 DEF Alone
  <1>3. CASE UNCHANGED vars \/ PressKey
    BY <1>2, <1>3 DEF vars, PressKey, main, clients, history, Connected
  <1>4. ASSUME NEW c \in Sockets, Client(c) PROVE Alone'
    <2>1. \A d \in Sockets : Connected(d)' => Connected(d)
      BY <1>4, NobodyComes DEF Input
    <2>2. c \in open
      BY <1>4 DEF Client, Selects, Fails, Elements
    <2>3. ASSUME ~together PROVE stream'.fd = c
      <3>1. CASE stream.fd = None
        BY <1>4, <3>1 DEF Client, Opened, NoStream
      <3>2. CASE stream.fd # None
        <4>1. stream.fd \in open /\ stream.fd \in Sockets
          BY <1>1, <3>2 DEF SelectInv
        <4>2. stream.fd = c
          BY <2>2, <2>3, <4>1 DEF Alone, Connected
        <4> QED BY <1>4, <3>2, <4>2 DEF Client, Opened
      <3> QED BY <3>1, <3>2
    <2> QED BY <1>4, <2>1, <2>3 DEF Client, Alone
  <1>5. CASE Idle \/ Keyboard \/ Accept \/ Handle
    <2>1. together' = together /\ mixed' = mixed
      BY <1>5 DEF Idle, vars, Keyboard, Accept, Handle, Fill, Line, LastLine, HungUp,
                  Return, history
    <2> QED BY <1>2, <1>5, <2>1, NobodyComes DEF Input
  <1>6. ASSUME NEW c \in Sockets, Connect(c) PROVE Alone'
    <2>1. /\ mixed' = mixed /\ open' = open /\ queue' = Append(queue, c)
          /\ queue \in Seq(Sockets)
          /\ together' = (together \/ \E d \in Sockets : Connected(d))
      BY <1>1, <1>6 DEF Connect, main, SelectInv
    <2>2. \A d \in Sockets : Connected(d)' => Connected(d) \/ d = c
      BY <2>1 DEF Connected, Elements
    <2> QED BY <2>1, <2>2 DEF Alone
  <1>7. ASSUME NEW c \in Sockets, HangUp(c) \/ Reset(c) \/ EndLine(c)
               \/ \E cmd \in Cmds : Send(c, cmd)
        PROVE  Alone'
    <2>1. UNCHANGED <<open, queue, together, mixed>>
      BY <1>7 DEF HangUp, Reset, EndLine, Send, Sends, main, history
    <2> QED BY <1>2, <2>1 DEF Connected
  <1> QED BY <1>3, <1>4, <1>5, <1>6, <1>7 DEF Next, Input, Remote

(* For any number of clients that come one after the other: who has not    *)
(* hung up has received the answers to all its commands and no other, and  *)
(* nothing that one leaves behind reaches the next.                        *)
THEOREM AnswersAlwaysReachAsker == Spec => []AnswersReachAsker
  <1>1. Init => AnswersInv
    <2>1. Asked(<<>>) = 0
      BY FS_EmptySet DEF Asked
    <2> QED BY <2>1 DEF Init, AnswersInv, Alone, AnswersOwn, EachItsOwn, Connected, Elements
  <1>2. OrderInv /\ AnswersInv /\ [Next]_vars => AnswersInv'
    BY NextAnswers, NextAlone DEF AnswersInv
  <1>3. AnswersInv => AnswersReachAsker
    BY DEF AnswersInv, Alone, AnswersOwn, AnswersReachAsker
  <1> QED BY <1>1, <1>2, <1>3, OrderInvariant, PTL DEF Spec
=============================================================================
