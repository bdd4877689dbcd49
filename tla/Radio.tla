------------------------------- MODULE Radio -------------------------------
(***************************************************************************)
(* What shell-fm promises its listener, without processes, signals or      *)
(* flags.  The server hands out tracks numbered in the order it serves     *)
(* them.  At most one of them is audible at a time, none is heard twice or *)
(* out of order, and after the listener asked for silence no track starts  *)
(* until a station is chosen again.                                        *)
(***************************************************************************)
EXTENDS Naturals

CONSTANT Numbers    \* the numbers of the tracks the server may serve, from 1

VARIABLES
  now,      \* the numbers of the audible tracks, {} in silence
  last,     \* the number of the last track that started, 0 before the first
  wanted    \* TRUE iff the listener's latest request asks for music

vars == <<now, last, wanted>>

Init ==
  /\ now = {}
  /\ last = 0
  /\ wanted = FALSE

(* A station is chosen, or playback is to stop.                            *)
Request ==
  /\ wanted' \in BOOLEAN
  /\ UNCHANGED <<now, last>>

Begin(n) ==
  /\ now = {}
  /\ wanted
  /\ n > last
  /\ now' = {n}
  /\ last' = n
  /\ UNCHANGED wanted

End ==
  /\ now # {}
  /\ now' = {}
  /\ UNCHANGED <<last, wanted>>

Next == Request \/ End \/ \E n \in Numbers : Begin(n)

Spec == Init /\ [][Next]_vars
=============================================================================
