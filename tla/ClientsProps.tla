---------------------------- MODULE ClientsProps ----------------------------
(***************************************************************************)
(* What the network interface of module Clients must never do, and what it *)
(* must get done.                                                          *)
(***************************************************************************)
EXTENDS Clients, SequencesExt

(* Every variable holds a value of its type.                               *)
TypeOK ==
  /\ pc \in {"select", "fgets"}
  /\ ready \in Sockets \cup {None}
  /\ list \in Seq(Handles)
  /\ stream \in Stream
  /\ open \subseteq Sockets
  /\ away \subseteq Sockets
  /\ queue \in Seq(Sockets)
  /\ sock \in [Sockets -> Seq(Tokens)]
  /\ hung \subseteq Sockets
  /\ reset \subseteq Sockets
  /\ keys \in BOOLEAN
  /\ sent \in [Sockets -> Seq(Cmds)]
  /\ ran \in [Sockets -> Seq(Cmds)]
  /\ got \in [Sockets -> Nat]
  /\ mixed \in BOOLEAN
  /\ together \in BOOLEAN

(* What is sent are lines, each a command and its end; the last may still  *)
(* be without one.                                                         *)
Lines(tokens) == \A i \in DOMAIN tokens : tokens[i] = "newline" <=> i % 2 = 0
Commands(tokens) == [i \in 1 .. (Len(tokens) + 1) \div 2 |-> tokens[2 * i - 1]]
Asked(cmds) == Cardinality({i \in DOMAIN cmds : cmds[i] = "ask"})

(* While a client is connected, what it has sent is what was executed,     *)
(* followed by what waits in the stream and in its socket: no command is   *)
(* lost, repeated, cut or overtaken, whoever else is connected.            *)
Accounted(c) == Lines(Data(c)) /\ sent[c] = ran[c] \o Commands(Data(c))
InOrder == TypeOK /\ \A c \in Sockets : Connected(c) => Accounted(c)

(* A client was disconnected only after its last command, or when it had   *)
(* detached.  Of a connection that was reset one command may be lost, the  *)
(* last.                                                                   *)
LastLost(c) == c \in reset /\ \E cmd \in Cmds : sent[c] = Append(ran[c], cmd)
NothingDropped ==
  \A c \in Sockets \ away :
    \/ Connected(c)
    \/ sent[c] = ran[c] \/ LastLost(c)
    \/ "detach" \in Elements(ran[c])

(* Clients that come one after the other, each when main has disconnected  *)
(* the one before, receive the answers to their own commands, and all of   *)
(* them: nothing is left of a client in the one stream and in the list.    *)
(* Of two that are connected at a time one may get the answers of the      *)
(* other: without its condition the claim is false.                        *)
EachItsOwn == \A c \in Sockets \ hung : got[c] = Asked(ran[c])
AnswersReachAsker == ~together => EachItsOwn

(* What it rests on: there is one client at most, so that it is the one    *)
(* whose stream it is, and the answers go astray in no other way.          *)
Alone ==
  ~together => /\ ~mixed
               /\ \A c, d \in Sockets : Connected(c) /\ Connected(d) => c = d
AnswersOwn == ~mixed => EachItsOwn
AnswersInv == Alone /\ AnswersOwn

(* select() can work: the inputs are the sockets that are open and the     *)
(* listening socket, each once, as long as no client was taken for another.*)
SelectWorks ==
  ~mixed => /\ IsInjective(list)
            /\ Elements(list) \cap Sockets = open
            /\ "listen" \in Elements(list)

(* What SelectWorks rests on: connections are on their way, waiting or open *)
(* and never two of these, the stream is that of an open socket, and the   *)
(* one that is read from is the one that was ready.                        *)
SelectInv ==
  /\ pc \in {"select", "fgets"}
  /\ ready \in Sockets \cup {None}
  /\ list \in Seq(Handles)
  /\ stream \in Stream
  /\ sock \in [Sockets -> Seq(Tokens)]
  /\ queue \in Seq(Sockets) /\ IsInjective(queue)
  /\ open \subseteq Sockets /\ away \subseteq Sockets
  /\ open \cap away = {} /\ Elements(queue) \cap (open \cup away) = {}
  /\ stream.fd \in open \cup {None}
  /\ pc = "fgets" => /\ ready \in Sockets /\ stream.fd \in Sockets
                     /\ ~mixed => stream.fd = ready
  /\ SelectWorks

(* What InOrder and the two after it rest on: SelectInv, and a client that *)
(* has yet to connect has sent nothing.                                    *)
OrderInv ==
  /\ SelectInv
  /\ InOrder
  /\ \A c \in away : sent[c] = <<>> /\ ran[c] = <<>> /\ sock[c] = <<>>

(* What makes the interface useless for good: a client hung up within a    *)
(* line, or one of two went away when the other was ready.                 *)
Lost == stream.eof \/ Fails

(* Every key is noticed, once the clients go away.                         *)
KeyServed == keys ~> ~keys \/ Lost

(* A client that has gone away is taken off the list.                      *)
HangUpNoticed == \A c \in Sockets : c \in hung /\ c \in open ~> c \notin open \/ Lost

(* A client that detaches is disconnected, without further ado.            *)
Detached ==
  \A c \in Sockets :
    c \in open /\ "detach" \in Elements(sent[c]) /\ ~Begun(c) ~> c \notin open
=============================================================================
