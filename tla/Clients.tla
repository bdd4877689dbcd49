------------------------------ MODULE Clients ------------------------------
(***************************************************************************)
(* The network interface of shell-fm: select.c with the list of inputs,    *)
(* and accept_client() and handle_client() of sckif.c with the one stream  *)
(* all clients share.                                                      *)
(*                                                                         *)
(* handle_client() is called with the socket that is ready, but reads from *)
(* a static stream, which is opened on the first socket it sees and closed *)
(* only at the end of a client.  fgets() takes in all that the socket has, *)
(* returns one line and keeps the rest, of which select() knows nothing;   *)
(* it blocks while a line has no end.                                      *)
(*                                                                         *)
(* A descriptor is named by its client.  Its number is not given out again *)
(* in this model.  A line fits into the BUFSIZE bytes of handle_client();  *)
(* of a longer one, each part would be a command.  What the commands do is *)
(* the matter of modules Player and Scrobbler; here they differ by whether *)
(* they are answered and whether they detach the client.                   *)
(***************************************************************************)
EXTENDS Integers, Sequences, FiniteSets

CONSTANTS
  Sockets,      \* the clients, each of which connects once
  None,         \* NULL
  Cmds,         \* the commands they send: one that is not answered ("quiet"),
                \* one that is ("ask"), and "detach"
  MaxLines,     \* bound: commands sent by one client
  Ragged,       \* TRUE iff a line may arrive in two parts
  Fragile       \* the clients whose connection may be reset

ASSUME NoneAssumption == {None, "listen", "keyboard"} \cap Sockets = {}
ASSUME CmdsAssumption == Cmds \subseteq {"quiet", "ask", "detach"}
ASSUME LinesAssumption == MaxLines \in Nat
ASSUME RaggedAssumption == Ragged \in BOOLEAN
ASSUME FragileAssumption == Fragile \subseteq Sockets

Tokens == Cmds \cup {"newline"}
Handles == Sockets \cup {"listen", "keyboard"}
Stream == [fd : Sockets \cup {None}, buf : Seq(Tokens), eof : BOOLEAN]
NoStream == [fd |-> None, buf |-> <<>>, eof |-> FALSE]

VARIABLES
  pc,           \* main: "select" or "fgets"
  ready,        \* the argument client_socket of handle_client()
  list,         \* input_list
  stream,       \* the static FILE * of handle_client()
  open,         \* the client sockets that main has open
  away,         \* the clients that have not connected yet
  queue,        \* the kernel: connections to be accepted
  sock,         \* the kernel: what has arrived and was not read
  hung,         \* the clients that have hung up
  reset,        \* those of them whose connection was reset
  keys,         \* a key was pressed
  sent,         \* history: the commands of each client
  ran,          \* history: those read from its socket and executed
  got,          \* history: the number of answers it received
  mixed,        \* history: the socket of one client was ready and that of
                \* another was read
  together      \* history: a client connected while another was connected

main == <<pc, ready, list, stream, open>>
clients == <<away, queue, sock, hung, reset, sent>>
history == <<ran, got, mixed, together>>
vars == <<pc, ready, list, stream, open, away, queue, sock, hung, reset, keys,
          sent, ran, got, mixed, together>>

Elements(s) == {s[i] : i \in DOMAIN s}

(* Two listening sockets behave like one; a daemon has no keyboard.        *)
Init ==
  /\ pc = "select"
  /\ ready = None
  /\ list \in {<<"listen">>, <<"listen", "keyboard">>}
  /\ stream = NoStream
  /\ open = {}
  /\ away = Sockets
  /\ queue = <<>>
  /\ sock = [c \in Sockets |-> <<>>]
  /\ hung = {}
  /\ reset = {}
  /\ keys = FALSE
  /\ sent = [c \in Sockets |-> <<>>]
  /\ ran = [c \in Sockets |-> <<>>]
  /\ got = [c \in Sockets |-> 0]
  /\ mixed = FALSE
  /\ together = FALSE

-----------------------------------------------------------------------------
(* The list of inputs.  A name that ends in _ is a version of the operator *)
(* below it with a plausible slip; none is part of the model, each shows   *)
(* that a property would notice the slip.                                  *)

Register(l, h) == Append(l, h)

(* remove_handle() moves the last handle to the place of the removed one.  *)
RemoveHandleLast_(l, h) == SubSeq(l, 1, Len(l) - 1)
RemoveHandle(l, h) ==
  IF h \in Elements(l)
  THEN [i \in 1 .. Len(l) - 1 |-> IF l[i] = h THEN l[Len(l)] ELSE l[i]]
  ELSE l

Readable_(h) == IF h = "keyboard" THEN keys
                ELSE IF h = "listen" THEN queue # <<>> ELSE sock[h] # <<>>
Readable(h) == IF h = "keyboard" THEN keys
               ELSE IF h = "listen" THEN queue # <<>>
               ELSE sock[h] # <<>> \/ h \in hung

(* select() fails as long as one of the descriptors is closed.             *)
Fails == \E h \in Elements(list) : h \in Sockets \ open

(* select_input(): the ready handle that was registered last.              *)
Picks_(i) == /\ i < Len(list)
             /\ Readable(list[i])
             /\ \A k \in i + 1 .. Len(list) - 1 : ~Readable(list[k])
Picks(i) ==
  Readable(list[i]) /\ \A k \in i + 1 .. Len(list) : ~Readable(list[k])
Selects(h) ==
  /\ pc = "select"
  /\ ~Fails
  /\ \E i \in DOMAIN list : list[i] = h /\ Picks(i)

(* The select times out, or fails, or accept() does; the main loop comes   *)
(* round again.                                                            *)
Idle ==
  /\ pc = "select"
  /\ Fails \/ Selects("listen") \/ \A i \in DOMAIN list : ~Picks(i)
  /\ UNCHANGED vars

Keyboard ==
  /\ Selects("keyboard")
  /\ keys' = FALSE
  /\ UNCHANGED <<main, clients, history>>

Accept ==
  /\ Selects("listen")
  /\ queue' = Tail(queue)
  /\ list' = Register(list, Head(queue))
  /\ open' = open \cup {Head(queue)}
  /\ UNCHANGED <<pc, ready, stream, away, sock, hung, reset, keys, sent,
                 history>>

-----------------------------------------------------------------------------
(* handle_client().                                                        *)

Opened(c) == IF stream.fd = None THEN [NoStream EXCEPT !.fd = c] ELSE stream

(* At the end of its file the stream is left alone, for any client.        *)
Client(c) ==
  /\ Selects(c)
  /\ stream' = Opened(c)
  /\ IF stream'.eof THEN UNCHANGED <<pc, ready>> ELSE pc' = "fgets" /\ ready' = c
  /\ mixed' = (mixed \/ stream'.fd # c)
  /\ UNCHANGED <<list, open, clients, keys, ran, got, together>>

HasLine == Len(stream.buf) > 1

(* fgets() has no whole line and reads what the socket has.                *)
Fill ==
  /\ pc = "fgets"
  /\ ~HasLine
  /\ sock[stream.fd] # <<>>
  /\ stream' = [stream EXCEPT !.buf = @ \o sock[stream.fd]]
  /\ sock' = [sock EXCEPT ![stream.fd] = <<>>]
  /\ UNCHANGED <<pc, ready, list, open, away, queue, hung, reset, keys,
                 sent, history>>

(* fshutdown() closes the stream; the handle removed is that of the socket *)
(* that was ready.                                                         *)
Disconnect_ ==
  /\ open' = open \ {stream.fd}
  /\ sock' = [sock EXCEPT ![stream.fd] = <<>>]
  /\ stream' = [stream EXCEPT !.buf = SubSeq(@, 3, Len(@))]
  /\ list' = RemoveHandle(list, ready)
Disconnect ==
  /\ open' = open \ {stream.fd}
  /\ sock' = [sock EXCEPT ![stream.fd] = <<>>]
  /\ stream' = NoStream
  /\ list' = RemoveHandle(list, ready)

(* execcmd() and the answer, which goes to the socket that was ready.      *)
Answered(cmd) == cmd = "ask" /\ ready \notin hung
Execute(cmd, rest, eof) ==
  /\ ran' = [ran EXCEPT ![stream.fd] = Append(@, cmd)]
  /\ got' = IF Answered(cmd) THEN [got EXCEPT ![ready] = @ + 1] ELSE got
  /\ IF cmd = "detach"
     THEN Disconnect
     ELSE /\ stream' = [stream EXCEPT !.buf = rest, !.eof = eof]
          /\ UNCHANGED <<list, open, sock>>
Return ==
  /\ pc' = "select"
  /\ ready' = None
  /\ UNCHANGED <<away, queue, hung, reset, keys, sent, mixed, together>>

Rest_ == <<>>
Rest == SubSeq(stream.buf, 3, Len(stream.buf))

(* fgets() returns a line.                                                 *)
Line ==
  /\ pc = "fgets"
  /\ HasLine
  /\ Execute(Head(stream.buf), Rest, FALSE)
  /\ Return

AtEnd_ == pc = "fgets" /\ ~HasLine /\ stream.fd \in hung
AtEnd ==
  /\ pc = "fgets"
  /\ ~HasLine
  /\ sock[stream.fd] = <<>>
  /\ stream.fd \in hung

(* The client has hung up within a line: fgets() returns what it has.      *)
LastLine ==
  /\ AtEnd
  /\ stream.buf # <<>>
  /\ stream.fd \notin reset
  /\ Execute(Head(stream.buf), <<>>, TRUE)
  /\ Return

(* The client has hung up: fgets() returns NULL.  It does so as well, and   *)
(* drops a line that it has begun, when the connection was reset, so that  *)
(* the branch of ferror() is never taken.                                  *)
HungUp ==
  /\ AtEnd
  /\ stream.buf = <<>> \/ stream.fd \in reset
  /\ Disconnect
  /\ Return
  /\ UNCHANGED <<ran, got>>

-----------------------------------------------------------------------------
(* The clients and the keyboard.                                           *)

Connected(c) == c \in open \/ c \in Elements(queue)
Sends(c, tokens) ==
  /\ Connected(c)
  /\ c \notin hung
  /\ sock' = [sock EXCEPT ![c] = @ \o tokens]
  /\ UNCHANGED <<main, away, queue, hung, reset, keys, history>>

Connect(c) ==
  /\ c \in away
  /\ away' = away \ {c}
  /\ queue' = Append(queue, c)
  /\ together' = (together \/ \E d \in Sockets : Connected(d))
  /\ UNCHANGED <<main, sock, hung, reset, keys, sent, ran, got, mixed>>

(* The end of the last line of c is still to come.                         *)
Data(c) == (IF stream.fd = c THEN stream.buf ELSE <<>>) \o sock[c]
Begun(c) == Data(c) # <<>> /\ Data(c)[Len(Data(c))] # "newline"

Send(c, cmd) ==
  /\ Len(sent[c]) < MaxLines
  /\ ~Begun(c)
  /\ sent' = [sent EXCEPT ![c] = Append(@, cmd)]
  /\ Sends(c, <<cmd, "newline">>) \/ (Ragged /\ Sends(c, <<cmd>>))

EndLine(c) ==
  /\ Begun(c)
  /\ Sends(c, <<"newline">>)
  /\ UNCHANGED sent

HangUp(c) ==
  /\ c \notin away \cup hung
  /\ hung' = hung \cup {c}
  /\ UNCHANGED <<main, away, queue, sock, reset, keys, sent, history>>

(* The connection breaks, or the client went away and the answer to it was *)
(* refused.                                                                *)
Reset(c) ==
  /\ Connected(c)
  /\ c \in Fragile \ reset
  /\ hung' = hung \cup {c}
  /\ reset' = reset \cup {c}
  /\ UNCHANGED <<main, away, queue, sock, keys, sent, history>>

PressKey ==
  /\ "keyboard" \in Elements(list)
  /\ keys' = TRUE
  /\ UNCHANGED <<main, clients, history>>

-----------------------------------------------------------------------------
Input == Idle \/ Keyboard \/ Accept \/ \E c \in Sockets : Client(c)
Handle == Fill \/ Line \/ LastLine \/ HungUp
Remote(c) == \/ Connect(c) \/ EndLine(c) \/ HangUp(c) \/ Reset(c)
             \/ \E cmd \in Cmds : Send(c, cmd)

Next == Input \/ Handle \/ PressKey \/ \E c \in Sockets : Remote(c)

Spec == Init /\ [][Next]_vars

(* Main is scheduled.                                                      *)
FairSpec == Spec /\ WF_vars(Input \/ Handle)

(* And every client goes away some time.                                   *)
LeavingSpec == FairSpec /\ \A c \in Sockets : WF_vars(HangUp(c))
=============================================================================
