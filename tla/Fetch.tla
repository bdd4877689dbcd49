------------------------------- MODULE Fetch --------------------------------
(***************************************************************************)
(* fetch() of http.c: a request, the redirects it is sent through, and the *)
(* body of the response, read to its end or put together from chunks.      *)
(* Nothing tells whether the connection broke before the end.              *)
(*                                                                         *)
(* The wire is a sequence of characters, of which only the digits of a     *)
(* chunk's size, the blanks and the letters of the body are told apart; a  *)
(* body has few letters, so a size is one digit.                           *)
(***************************************************************************)
EXTENDS Integers, Sequences, SequencesExt

CONSTANTS
  MaxHops,      \* bound: redirects in a row; the code has none
  MaxTroubles   \* bound: times something goes wrong

ASSUME FetchAssumption == MaxHops \in Nat /\ MaxTroubles \in Nat

VARIABLES
  phase,        \* "idle", "connect", "status", "body", "done" or "crashed"
  hops,         \* redirects followed
  chunked,      \* the response has chunks
  wire,         \* what is still to be read of the response
  content,      \* what fetch() has put together, or NULL
  body,         \* history: the body the server sent
  clean,        \* history: it arrived whole and no chunk began with a blank
  troubles      \* counts what went wrong

response == <<chunked, wire, content, body, clean>>
fetchVars == <<phase, hops, chunked, wire, content, body, clean, troubles>>

NULL == <<"NULL">>
Blanks == {" ", "cr", "lf"}
Digits == <<"1", "2", "3">>
crlf == <<"cr", "lf">>

FetchInit ==
  /\ phase = "idle"
  /\ hops = 0
  /\ chunked = FALSE
  /\ wire = <<>>
  /\ content = NULL
  /\ body = <<>>
  /\ clean = TRUE
  /\ troubles = 0

Trouble == troubles < MaxTroubles /\ troubles' = troubles + 1

-----------------------------------------------------------------------------
(* What the server does with a body: it sends it as it is, or in chunks,   *)
(* none of which is empty.  The connection may break.                      *)
Parts(text) == {SubSeq(text, 1 + i, j) : i, j \in 0 .. Len(text)} \ {<<>>}
Splits(text) ==
  {pieces \in UNION {[1 .. n -> Parts(text)] : n \in 1 .. Len(text)} :
     FlattenSeq(pieces) = text}
Chunk(piece) == <<Digits[Len(piece)]>> \o crlf \o piece \o crlf
InChunks(pieces) ==
  FlattenSeq([p \in DOMAIN pieces |-> Chunk(pieces[p])]) \o <<"0">> \o crlf \o crlf
BlankLed(pieces) == \E p \in DOMAIN pieces : pieces[p][1] \in Blanks

Answer(text) ==
  /\ phase' = "body"
  /\ body' = text
  /\ content' = <<>>
  /\ UNCHANGED hops
  /\ \/ /\ chunked' = FALSE
        /\ \/ wire' = text /\ clean' = TRUE /\ UNCHANGED troubles
           \/ /\ Trouble
              /\ clean' = FALSE
              /\ \E n \in 0 .. Len(text) - 1 : wire' = SubSeq(text, 1, n)
     \/ /\ chunked' = TRUE
        /\ \E pieces \in Splits(text) :
             LET sent == InChunks(pieces)
             IN \/ /\ ~BlankLed(pieces)
                   /\ wire' = sent
                   /\ clean' = TRUE
                   /\ UNCHANGED troubles
                \/ /\ BlankLed(pieces)
                   /\ Trouble
                   /\ wire' = sent
                   /\ clean' = FALSE
                \/ /\ Trouble
                   /\ clean' = FALSE
                   /\ \E n \in 0 .. Len(sent) - 1 : wire' = SubSeq(sent, 1, n)

-----------------------------------------------------------------------------
(* The steps of fetch().  A name that ends in _ is a version of the        *)
(* operator below it with a plausible slip; none is part of the model.     *)

Request ==
  /\ phase \in {"idle", "done"}
  /\ phase' = "connect"
  /\ hops' = 0
  /\ clean' = FALSE
  /\ UNCHANGED <<chunked, wire, content, body, troubles>>

(* ropen(): no such host, no connection, or no tunnel.                     *)
Connect ==
  /\ phase = "connect"
  /\ \/ phase' = "status" /\ UNCHANGED <<content, troubles>>
     \/ Trouble /\ phase' = "done" /\ content' = NULL
  /\ UNCHANGED <<hops, chunked, wire, body, clean>>

(* A status other than 200, 301 and 302 is refused; a redirect is followed *)
(* by a call of fetch() with the new URL, in which it writes behind the    *)
(* host name, so that a URL of nothing else ends the program.              *)
BadStatus ==
  /\ phase = "status"
  /\ Trouble
  /\ phase' = "done"
  /\ content' = NULL
  /\ UNCHANGED <<hops, chunked, wire, body, clean>>
Redirect ==
  /\ phase = "status"
  /\ hops < MaxHops
  /\ Trouble
  /\ phase' \in {"connect", "crashed"}
  /\ hops' = hops + 1
  /\ UNCHANGED response

(* read_response()                                                         *)
ReadResponse ==
  /\ phase = "body"
  /\ ~chunked
  /\ content' = wire
  /\ wire' = <<>>
  /\ phase' = "done"
  /\ UNCHANGED <<hops, chunked, body, clean, troubles>>

(* read_response_chunked(), one turn of its loop.  fscanf("%x\r\n") skips  *)
(* the blanks before the number and all that follow it, those of the chunk *)
(* included; a chunk that is cut short is dropped; without any chunk there *)
(* is no content to terminate.                                             *)
SkipBlanks(w) ==
  LET solid == {i \in 1 .. Len(w) : w[i] \notin Blanks}
  IN IF solid = {} THEN <<>>
     ELSE SubSeq(w, CHOOSE i \in solid : \A j \in solid : i <= j, Len(w))
ChunkSize(w) ==
  IF w # <<>> /\ \E d \in DOMAIN Digits : Digits[d] = w[1]
  THEN CHOOSE d \in DOMAIN Digits : Digits[d] = w[1]
  ELSE 0
Terminated == phase' = IF content = <<>> THEN "crashed" ELSE "done"
ReadChunk_ ==
  /\ phase = "body"
  /\ chunked
  /\ LET sized == SkipBlanks(wire)
         n == ChunkSize(sized)
         data == SkipBlanks(Tail(sized))
     IN IF n = 0 THEN Terminated /\ UNCHANGED <<wire, content>>
        ELSE IF Len(data) < n THEN phase' = "done" /\ UNCHANGED <<wire, content>>
        ELSE /\ content' = SubSeq(data, 1, n)
             /\ wire' = SubSeq(data, n + 3, Len(data))
             /\ UNCHANGED phase
  /\ UNCHANGED <<hops, chunked, body, clean, troubles>>
ReadChunk ==
  /\ phase = "body"
  /\ chunked
  /\ LET sized == SkipBlanks(wire)
         n == ChunkSize(sized)
         data == SkipBlanks(Tail(sized))
     IN IF n = 0 THEN Terminated /\ UNCHANGED <<wire, content>>
        ELSE IF Len(data) < n THEN phase' = "done" /\ UNCHANGED <<wire, content>>
        ELSE /\ content' = content \o SubSeq(data, 1, n)
             /\ wire' = SubSeq(data, n + 3, Len(data))
             /\ UNCHANGED phase
  /\ UNCHANGED <<hops, chunked, body, clean, troubles>>

Fetching == Connect \/ BadStatus \/ Redirect \/ ReadResponse \/ ReadChunk
=============================================================================
