------------------------------- MODULE Ledger -------------------------------
(***************************************************************************)
(* What the scrobbler promises the listener's profile: it grows at its end *)
(* only, by tracks that were played and are not in it, oldest first.       *)
(***************************************************************************)
EXTENDS Naturals, Sequences

VARIABLES
  played,    \* the tracks worth scrobbling, numbered in the order they play
  log        \* the profile

vars == <<played, log>>

Newest == IF log = <<>> THEN 0 ELSE log[Len(log)]

Init == played = {} /\ log = <<>>

Played(t) ==
  /\ \A u \in played : u < t
  /\ played' = played \cup {t}
  /\ UNCHANGED log

Scrobbled(s) ==
  /\ \A i \in DOMAIN s : s[i] \in played /\ s[i] > Newest
  /\ \A i \in DOMAIN s : \A j \in 1 .. i - 1 : s[j] < s[i]
  /\ log' = log \o s
  /\ UNCHANGED played

(* The tracks by which the profile grows in a step.                        *)
Growth == SubSeq(log', Len(log) + 1, Len(log'))

Next == (\E t \in played' : Played(t)) \/ Scrobbled(Growth)

Spec == Init /\ [][Next]_vars
=============================================================================
