--------------------------- MODULE PlayClockProps ---------------------------
(***************************************************************************)
(* What the play time means: the time for which the track was heard, but   *)
(* for the ticks by which main is late, unless a pause went unmeasured     *)
(* (odd): one that ^Z overwrote, one begun by ^Z between two tracks or     *)
(* without stopsig() in place, and one after which the process ended       *)
(* before main had the report that it continued.                           *)
(***************************************************************************)
EXTENDS PlayClock

(* Every variable holds a value of its type.                               *)
TypeOK ==
  /\ now \in 1 .. MaxTime
  /\ main \in {"up", "suspended"}
  /\ armed \in BOOLEAN
  /\ process \in {"none", "running", "stopped", "dead"}
  /\ continued \in BOOLEAN
  /\ duration \in Durations \cup {0}
  /\ change_time \in 0 .. now
  /\ pausetime \in 0 .. now
  /\ pauselength \in Nat
  /\ remain \in Int
  /\ verdict \in {"none", "enqueued", "short"}
  /\ ran \in Nat
  /\ slack \in Nat
  /\ lag \in Nat
  /\ odd \in BOOLEAN

(* The ticks main will take for played: without the pause that goes on.    *)
Counted == now - change_time - pauselength -
             (IF process # "dead" /\ pausetime # 0 THEN now - pausetime ELSE 0)

(* Pauses are measured: what main takes for played is what was heard, less *)
(* the ticks before it knew of a continuation and with those before it     *)
(* knew of the end.                                                        *)
CountInv ==
  /\ continued => process = "running"
  /\ process # "none" /\ ~odd =>
       /\ change_time # 0
       /\ Counted = ran - slack + lag
       /\ slack <= ran
       /\ process # "dead" => lag = 0
       /\ process = "stopped" => pausetime # 0
       /\ continued => pausetime # 0
ClockInv == TypeOK /\ CountInv

(* A track goes to the scrobbler if it was heard for more than the minimum *)
(* or for 240 seconds, and does not if it was heard for less, give or take *)
(* what main was late: pauses do not count, and the unsigned arithmetic    *)
(* does not wrap.  That 240 seconds suffice is main.c:360 and the rule of  *)
(* the protocol; the manual's text on "minimum" does not have it and says  *)
(* MinimumKept instead.                                                    *)
ScrobbledIsHeard ==
  [][ReapEnded /\ ~odd /\ duration >= Least =>
       /\ verdict' = "enqueued" => ran + lag >= Enough \/ ran + lag > Threshold
       /\ verdict' = "short" => ran - slack < Enough /\ ran - slack <= Threshold]_vars

(* The remaining time displayed is the duration less what was heard.       *)
RemainHonest ==
  [][Display /\ process = "running" /\ ~odd =>
       remain' = duration - (ran - slack)]_vars

(* What the manual says of "minimum": a track that was played for less     *)
(* than this part of its duration is not scrobbled.  The code breaks this  *)
(* for every track that is long enough.                                    *)
MinimumKept ==
  [][ReapEnded /\ ~odd /\ verdict' = "enqueued" =>
       100 * (ran + lag) >= Percent * duration]_vars

(* The same as ScrobbledIsHeard without the exceptions.                    *)
NeverUnheard ==
  [][ReapEnded /\ verdict' = "enqueued" =>
       ran + lag >= Enough \/ ran + lag > Threshold]_vars
=============================================================================
