--------------------------- MODULE ScrobblerProps ---------------------------
(***************************************************************************)
(* What the scrobbler of module Scrobbler must never do, and what it must  *)
(* get done.                                                               *)
(***************************************************************************)
EXTENDS Scrobbler

(* Every variable holds a value of its type.                               *)
TypeOK ==
  /\ pc \in {"reap", "ended", "input", "leaving", "exited"}
  /\ playnext \in BOOLEAN
  /\ track \in 0 .. MaxTracks
  /\ playing \in {"none", "on", "over"}
  /\ rtp \in BOOLEAN
  /\ delayquit \in BOOLEAN
  /\ queue \in Seq(Tracks)
  /\ subfork \in {-1, 0} \cup Tracks
  /\ jobs \in [Tracks -> Job]
  /\ log \in Seq(Tracks)
  /\ played \subseteq Tracks
  /\ behind \subseteq Tracks
  /\ silent \subseteq Tracks

Increasing(s) == \A i \in DOMAIN s : \A j \in 1 .. i - 1 : s[j] < s[i]

(* No track is in the profile twice, and they are in the order in which    *)
(* they were played, however often a submission had to be repeated.        *)
ScrobbledOnce == Increasing(log)

(* There is one submission at a time, and main knows it.                   *)
OneSubmission == \A j \in Active : subfork = j

IsFront(s, list) == Len(s) <= Len(list) /\ \A i \in 1 .. Len(s) : list[i] = s[i]

(* What a submission posts is still the front of the queue when it ends:   *)
(* a repetition begins with the same tracks.                               *)
InFlightIsPrefix ==
  \A j \in Tracks : pc # "exited" /\ jobs[j].phase \in Busy \cup {"dead"} =>
    IsFront(jobs[j].load, queue)

(* The only tracks lost are those that were enqueued while a submission    *)
(* was running and those of a submission that was killed or not answered:  *)
(* no refusal, failed fork or repetition costs a track.                    *)
LostOnlyBehind ==
  pc # "exited" =>
    played \subseteq Elements(log) \cup Elements(queue) \cup behind \cup silent

(* The same without the exceptions.                                        *)
NothingLost == pc # "exited" => played \subseteq Elements(log) \cup Elements(queue)

(* A submission is given up only when it has died.                         *)
GivenUpWhenDead ==
  [][subfork > 0 /\ subfork' = 0 => jobs[subfork].phase = "dead"]_vars

(* Tracks not scrobbled before the user quits are kept for the next time.  *)
KeptForNextTime == pc = "exited" => played \subseteq Elements(log)

(* A submission does not block the ones after it for ever.                 *)
SlotIsFreed == subfork > 0 ~> subfork <= 0 \/ pc = "exited"

(* Quitting comes to an end.                                               *)
QuitEnds == pc = "leaving" ~> pc = "exited"

(* The profile grows as module Ledger says.                                *)
Profile == INSTANCE Ledger
ImplementsLedger == Profile!Spec

-----------------------------------------------------------------------------
(* The invariant behind the ledger: the profile and the queue are in one   *)
(* ascending order, but for a submission that was accepted and is about to *)
(* be taken out of the queue (or about to be given up, when main leaves).  *)
Fresh == \A i \in DOMAIN queue : queue[i] > Profile!Newest
Settling(j) == \/ jobs[j].phase = "accepted"
               \/ jobs[j].phase = "dead" /\ (jobs[j].code = 0 \/ pc = "leaving")

LoopInv ==
  /\ pc = "ended" => playnext
  /\ pc = "input" => ~playnext
  /\ playing # "none" \/ playnext => track # 0
OrderInv ==
  /\ Increasing(log)
  /\ Increasing(queue)
  /\ Fresh \/ \E j \in Tracks : Settling(j)
PlayedInv ==
  /\ Elements(log) \cup Elements(queue) \subseteq played
  /\ \A t \in played : t <= track /\ (playing # "none" \/ playnext => t < track)
JobInv ==
  /\ \A j \in Tracks : jobs[j].phase # "none" => subfork = j
  /\ \A j \in Tracks : jobs[j].stirred = "no"
  /\ pc = "exited" => queue = <<>> /\ Active = {}
  /\ InFlightIsPrefix

(* What the queue holds is in the running submission or came behind it, and*)
(* a submission that counts as a success was accepted or never answered.   *)
LostInv ==
  /\ LostOnlyBehind
  /\ subfork > 0 => Elements(queue) \subseteq Elements(jobs[subfork].load) \cup behind
  /\ \A j \in Tracks :
       LET load == Elements(jobs[j].load)
       IN  /\ jobs[j].phase = "accepted" => load \subseteq Elements(log)
           /\ jobs[j].phase = "unheard" => load \subseteq silent
           /\ jobs[j].phase = "dead" /\ jobs[j].code = 0 =>
                load \subseteq Elements(log) \cup silent

LedgerInv == TypeOK /\ LoopInv /\ OrderInv /\ PlayedInv /\ JobInv /\ LostInv
=============================================================================
