---------------------------- MODULE PlayerProofs ----------------------------
(***************************************************************************)
(* Proofs about the player, for any number of stations, artists and tracks,*)
(* any set of commands, any faults, at a terminal or as a daemon: first    *)
(* that there is one process at a time, the order of the tracks, stop and  *)
(* the refinement; then what playfork, the np-file, the flags and the      *)
(* delayed station mean at every place of the loop, and the safety         *)
(* properties that follow from it.                                         *)
(***************************************************************************)
EXTENDS PlayerProps, SequenceTheorems, TLAPS

USE BoundsAssumption, NoStationAssumption, RequestsAssumption
USE DEF BoundsAssumption, NoStationAssumption, RequestsAssumption

-----------------------------------------------------------------------------
(* The helpers of the model keep to their types.                           *)

(* A getPlaylist reply is a sequence of tracks within the server's bound,  *)
(* numbered on from the last one served.                                   *)
LEMMA BatchesType ==
  ASSUME TypeOK, NEW st \in Stations \cup {NoStation}, NEW b \in Batches(st)
  PROVE  /\ b \in Seq(Track)
         /\ Len(b) \in Nat
         /\ served + Len(b) \in 0 .. MaxTracks
         /\ \A i \in 1 .. Len(b) : b[i].no = served + i
<1>1. PICK k \in BatchSizes(st) :
        b \in {[i \in 1 .. k |-> Number(i, st, by[i])] : by \in [1 .. k -> Artists]}
  BY DEF Batches
<1>2. PICK by \in [1 .. k -> Artists] : b = [i \in 1 .. k |-> Number(i, st, by[i])]
  BY <1>1
<1>3. /\ k \in Nat
      /\ served \in Nat
      /\ served + k <= MaxTracks
      /\ st = NoStation => k = 0
  BY <1>1 DEF TypeOK, BatchSizes
<1>4. ASSUME NEW i \in 1 .. k PROVE Number(i, st, by[i]) \in Track
  <2>1. st \in Stations
    BY <1>3, <1>4
  <2>2. served + i \in Pids
    BY <1>3 DEF Pids
  <2> QED BY <2>1, <2>2, <1>2 DEF Number, Track
<1>5. b \in [1 .. k -> Track]
  BY <1>2, <1>4
<1>6. b \in Seq(Track) /\ Len(b) = k
  BY <1>5, <1>3
<1>7. \A i \in 1 .. k : b[i].no = served + i
  BY <1>2 DEF Number
<1> QED BY <1>3, <1>6, <1>7

LEMMA ShiftType ==
  ASSUME NEW list \in Seq(Track) PROVE Shift(list) \in Seq(Track)
BY HeadTailProperties DEF Shift

LEMMA HeadType ==
  ASSUME NEW list \in Seq(Track), list # <<>> PROVE Head(list) \in Track
BY HeadTailProperties

(* A signal leaves a process a process.                                    *)
LEMMA AfterType ==
  ASSUME NEW c \in Child, NEW sig PROVE After(c, sig) \in Child
BY DEF After, Child

LEMMA KillType ==
  ASSUME TypeOK, NEW sig, Kill(sig)
  PROVE  /\ proc' \in [Pids -> Child]
         /\ wild' \subseteq {"group", "everyone", "reaped"}
<1>1. CASE Hits
  <2>1. playfork \in Pids /\ proc[playfork] \in Child
    BY <1>1 DEF Hits, TypeOK
  <2>2. proc' = [proc EXCEPT ![playfork] = After(proc[playfork], sig)]
    BY <1>1 DEF Kill
  <2>3. After(proc[playfork], sig) \in Child
    BY <2>1, AfterType
  <2> QED BY <2>1, <2>2, <2>3 DEF Kill, Misses, TypeOK
<1>2. CASE ~Hits
  BY <1>2 DEF Kill, Misses, TypeOK
<1> QED BY <1>1, <1>2

LEMMA ExitType ==
  ASSUME TypeOK, Exit, UnlinkNp \/ UNCHANGED npfile
  PROVE  TypeOK'
<1> USE DEF TypeOK
<1>1. proc' \in [Pids -> Child]
  <2>1. CASE Hits
    <3>1. playfork \in Pids /\ proc[playfork] \in Child
      BY <2>1 DEF Hits
    <3>2. Released(After(proc[playfork], "USR1")) \in Child
      BY <3>1, AfterType DEF Released, Child
    <3> QED BY <2>1, <3>1, <3>2 DEF Exit, LastSignal
  <2>2. CASE ~Hits
    BY <2>2 DEF Exit, LastSignal
  <2> QED BY <2>1, <2>2
<1>2. wild' \subseteq {"group", "everyone", "reaped"}
  BY DEF Exit, Misses
<1> QED BY <1>1, <1>2, EmptySeq DEF Exit, UnlinkNp, Labels, server

-----------------------------------------------------------------------------
(* Type correctness.                                                       *)

LEMMA TypeInit == Init => TypeOK
<1> SUFFICES ASSUME Init PROVE TypeOK
  OBVIOUS
<1> USE DEF Init
<1>1. proc \in [Pids -> Child]
  BY DEF NoChild, Child
<1>2. /\ pc \in Labels
      /\ call \in Url \cup {NoUrl}
  BY DEF Labels
<1>3. /\ error \in BOOLEAN
      /\ playnext \in BOOLEAN
      /\ delayquit \in BOOLEAN
      /\ pausetime \in BOOLEAN
      /\ wanted \in BOOLEAN
      /\ lastKilled \in BOOLEAN
  OBVIOUS
<1>4. /\ playlist \in Seq(Track)
      /\ track \in Track \cup {NoTrack}
      /\ current \in Stations \cup {NoStation}
      /\ nextstation \in Url \cup {NoUrl}
  BY EmptySeq
<1>5. /\ npfile \in 0 .. MaxTracks
      /\ served \in 0 .. MaxTracks
      /\ heard \in 0 .. MaxTracks
      /\ playfork \in {-1, 0} \cup Pids
  OBVIOUS
<1> QED BY <1>1, <1>2, <1>3, <1>4, <1>5 DEF TypeOK

LEMMA TypeReap == TypeOK /\ Reap => TypeOK'
<1> SUFFICES ASSUME TypeOK, Reap PROVE TypeOK'
  OBVIOUS
<1> USE DEF TypeOK, Labels, loop, child, radio, server, ghost
<1>1. CASE ReapContinued
  <2>1. playfork \in Pids /\ proc[playfork] \in Child
    BY <1>1 DEF ReapContinued, Hits
  <2>2. proc' \in [Pids -> Child]
    BY <1>1, <2>1 DEF ReapContinued, Child
  <2>3. /\ pausetime' \in BOOLEAN
        /\ UNCHANGED <<loop, playfork, radio, track, flags, error, delayquit,
                       npfile, banlist, server, ghost>>
    BY <1>1 DEF ReapContinued
  <2> QED BY <2>2, <2>3
<1>2. CASE ReapDead
  <2>1. proc' \in [Pids -> Child]
    BY <1>2 DEF ReapDead, Hits, NoChild, Child
  <2> QED BY <1>2, <2>1 DEF ReapDead, UnlinkNp
<1>3. CASE Reaped
  BY <1>3 DEF Reaped
<1>4. CASE QuitDelayed
  BY <1>4, ExitType DEF QuitDelayed, Quit
<1>5. CASE EndStopped
  BY <1>5, EmptySeq DEF EndStopped, FreeList
<1>6. CASE EndNext
  BY <1>6, ShiftType DEF EndNext
<1> QED BY <1>1, <1>2, <1>3, <1>4, <1>5, <1>6 DEF Reap

LEMMA PushType ==
  ASSUME NEW a \in Seq(Track), NEW b \in Seq(Track) PROVE Push(a, b) \in Seq(Track)
BY DEF Push

LEMMA FreeListType == ASSUME NEW list PROVE FreeList(list) \in Seq(Track)
BY EmptySeq DEF FreeList

(* What a return from station() leaves to be shown.                        *)
LEMMA ReturnType ==
  ASSUME TypeOK, NEW ok \in BOOLEAN, NEW next \in Url \cup {NoUrl},
         NEW f \in SUBSET {"STOPPED", "CHANGED", "INTERRUPTED"},
         Return(ok, f, next)
  PROVE  /\ pc' \in Labels
         /\ call' \in Url \cup {NoUrl}
         /\ flags' \subseteq {"STOPPED", "CHANGED", "INTERRUPTED"}
         /\ nextstation' \in Url \cup {NoUrl}
BY DEF Return, Labels

LEMMA AbortType ==
  ASSUME TypeOK, Abort, tuned' \in Stations \cup {NoStation}, delayquit' \in BOOLEAN
  PROVE  TypeOK'
BY DEF Abort, TypeOK, Labels, child, ghost

LEMMA CalledStation ==
  ASSUME TypeOK, ~Empty(call) PROVE call.name \in Stations
BY DEF TypeOK, Empty, Url, NoUrl

LEMMA TypeStation == TypeOK /\ Station => TypeOK'
<1> SUFFICES ASSUME TypeOK, Station PROVE TypeOK'
  OBVIOUS
<1> USE DEF TypeOK, child, server, ghost
<1>1. CASE StationDelayed
  <2> DEFINE next == IF Empty(call) \/ SameAsCurrent(call) THEN NoUrl ELSE call
  <2>1. next \in Url \cup {NoUrl} /\ Return(FALSE, flags, next)
    BY <1>1 DEF StationDelayed
  <2>2. /\ pc' \in Labels
        /\ call' \in Url \cup {NoUrl}
        /\ flags' \subseteq {"STOPPED", "CHANGED", "INTERRUPTED"}
        /\ nextstation' \in Url \cup {NoUrl}
    BY <2>1, ReturnType
  <2>3. wanted' \in BOOLEAN /\ delayquit' \in BOOLEAN
    BY <1>1 DEF StationDelayed
  <2> QED BY <1>1, <2>2, <2>3 DEF StationDelayed
<1>2. CASE StationSame
  <2>1. /\ pc' \in Labels
        /\ call' \in Url \cup {NoUrl}
        /\ flags' \subseteq {"STOPPED", "CHANGED", "INTERRUPTED"}
        /\ nextstation' \in Url \cup {NoUrl}
    BY <1>2, ReturnType DEF StationSame
  <2>2. delayquit' \in BOOLEAN
    BY <1>2 DEF StationSame
  <2> QED BY <1>2, <2>1, <2>2 DEF StationSame
<1>3. CASE StationRefused
  <2>1. /\ pc' \in Labels
        /\ call' \in Url \cup {NoUrl}
        /\ flags' \subseteq {"STOPPED", "CHANGED", "INTERRUPTED"}
        /\ nextstation' \in Url \cup {NoUrl}
    BY <1>3, ReturnType DEF StationRefused
  <2>2. delayquit' \in BOOLEAN
    BY <1>3 DEF StationRefused
  <2>3. playlist' \in Seq(Track)
    BY <1>3, FreeListType DEF StationRefused
  <2>4. tuned' \in Stations \cup {NoStation}
    BY <1>3, CalledStation DEF StationRefused
  <2> QED BY <1>3, <2>1, <2>2, <2>3, <2>4 DEF StationRefused
<1>4. CASE StationTuned
  <2>1. /\ pc' \in Labels
        /\ call' \in Url \cup {NoUrl}
        /\ flags' \subseteq {"STOPPED", "CHANGED", "INTERRUPTED"}
        /\ nextstation' \in Url \cup {NoUrl}
    BY <1>4, ReturnType DEF StationTuned
  <2>2. delayquit' \in BOOLEAN /\ wanted' \in BOOLEAN
    BY <1>4 DEF StationTuned
  <2>3. call.name \in Stations
    BY <1>4, CalledStation DEF StationTuned
  <2>4. PICK b \in Batches(call.name) :
          /\ playlist' = Push(FreeList(playlist), b)
          /\ served' = served + Len(b)
    BY <1>4 DEF StationTuned
  <2>5. playlist' \in Seq(Track) /\ served' \in 0 .. MaxTracks
    BY <2>3, <2>4, BatchesType, FreeListType, PushType
  <2>6. /\ proc' \in [Pids -> Child]
        /\ wild' \subseteq {"group", "everyone", "reaped"}
    BY <1>4, KillType DEF StationTuned
  <2> QED BY <1>4, <2>1, <2>2, <2>3, <2>5, <2>6 DEF StationTuned
<1>5. CASE StationAborts
  <2>1. tuned' \in Stations \cup {NoStation}
    BY <1>5, CalledStation DEF StationAborts
  <2>2. delayquit' \in BOOLEAN
    BY <1>5 DEF StationAborts
  <2> QED BY <1>5, <2>1, <2>2, AbortType DEF StationAborts
<1> QED BY <1>1, <1>2, <1>3, <1>4, <1>5 DEF Station

LEMMA RateBanType ==
  ASSUME TypeOK, RateBan
  PROVE  /\ flags' \subseteq {"STOPPED", "CHANGED", "INTERRUPTED"}
         /\ proc' \in [Pids -> Child]
         /\ wild' \subseteq {"group", "everyone", "reaped"}
BY KillType DEF RateBan, TypeOK

LEMMA TypeChangeBlock == TypeOK /\ ChangeBlock => TypeOK'
<1> SUFFICES ASSUME TypeOK, ChangeBlock PROVE TypeOK'
  OBVIOUS
<1> USE DEF TypeOK, Labels, child, radio, server, ghost
<1>1. CASE Change
  <2>1. playnext' \in BOOLEAN
    BY <1>1 DEF Change
  <2>2. flags' \subseteq {"STOPPED", "CHANGED", "INTERRUPTED"}
    BY <1>1 DEF Change
  <2>3. pc' \in Labels /\ call' \in Url \cup {NoUrl}
    BY <1>1 DEF Change
  <2> QED BY <1>1, <2>1, <2>2, <2>3 DEF Change
<1>2. CASE Refill
  <2>1. /\ playlist' \in Batches(tuned)
        /\ served' = served + Len(playlist')
    BY <1>2 DEF Refill
  <2>2. playlist' \in Seq(Track) /\ served' \in 0 .. MaxTracks
    BY <2>1, BatchesType
  <2>3. /\ playnext' \in BOOLEAN
        /\ flags' \subseteq {"STOPPED", "CHANGED", "INTERRUPTED"}
        /\ pc' \in Labels
    BY <1>2 DEF Refill
  <2> QED BY <1>2, <2>2, <2>3 DEF Refill
<1>3. CASE RefillAborts
  <2>1. Abort /\ tuned' = tuned /\ delayquit' = delayquit
    BY <1>3 DEF RefillAborts
  <2> QED BY <2>1, AbortType
<1>4. CASE RefillNot
  BY <1>4 DEF RefillNot
<1>5. CASE StartNot
  BY <1>5 DEF StartNot
<1>6. CASE Start
  <2>1. Head(playlist) \in Track /\ playlist # <<>>
    BY <1>6, HeadType DEF Start, MayStart
  <2>2. Head(playlist).no \in Pids /\ Head(playlist).no \in 0 .. MaxTracks
    BY <2>1 DEF Track, Pids
  <2>3. proc' \in [Pids -> Child]
    BY <1>6, <2>2 DEF Start, FreshChild, NoChild, Child
  <2>4. playfork' \in {-1, 0} \cup Pids /\ heard' \in 0 .. MaxTracks
    BY <1>6, <2>2 DEF Start
  <2>5. track' \in Track \cup {NoTrack} /\ npfile' \in 0 .. MaxTracks
    BY <1>6, <2>1, <2>2 DEF Start, Display
  <2> QED BY <1>6, <2>3, <2>4, <2>5 DEF Start
<1>7. CASE BanCheck
  <2>1. /\ flags' \subseteq {"STOPPED", "CHANGED", "INTERRUPTED"}
        /\ proc' \in [Pids -> Child]
        /\ wild' \subseteq {"group", "everyone", "reaped"}
    BY <1>7, RateBanType DEF BanCheck
  <2>2. playnext' \in BOOLEAN
    BY <1>7 DEF BanCheck
  <2> QED BY <1>7, <2>1, <2>2 DEF BanCheck
<1> QED BY <1>1, <1>2, <1>3, <1>4, <1>5, <1>6, <1>7 DEF ChangeBlock

LEMMA TypeUser == TypeOK /\ User => TypeOK'
<1> SUFFICES ASSUME TypeOK, User PROVE TypeOK'
  OBVIOUS
<1> USE DEF TypeOK, Labels, Select, child, radio, server, ghost
<1>1. CASE Request
  BY <1>1 DEF Request
<1>2. CASE Skip
  BY <1>2, KillType DEF Skip
<1>3. CASE Ban
  BY <1>3, RateBanType DEF Ban
<1>4. CASE BanKey
  BY <1>4, KillType DEF BanKey
<1>5. CASE Stop
  <2>1. wanted' \in BOOLEAN
    BY <1>5 DEF Stop
  <2> QED BY <1>5, <2>1, KillType DEF Stop
<1>6. CASE Pause
  <2>1. pausetime' \in BOOLEAN
    BY <1>6 DEF Pause
  <2> QED BY <1>6, <2>1, KillType DEF Pause
<1>7. CASE QuitNow
  BY <1>7, ExitType DEF QuitNow, Quit
<1>8. CASE QuitLater
  BY <1>8 DEF QuitLater
<1>9. CASE Expand
  <2>1. PICK b \in Batches(tuned) :
          playlist' = Push(playlist, b) /\ served' = served + Len(b)
    BY <1>9 DEF Expand
  <2>2. playlist' \in Seq(Track) /\ served' \in 0 .. MaxTracks
    BY <2>1, BatchesType, PushType
  <2> QED BY <1>9, <2>2 DEF Expand
<1>10. CASE ExpandAborts
  <2>1. Abort /\ tuned' = tuned /\ delayquit' = delayquit
    BY <1>10 DEF ExpandAborts
  <2> QED BY <2>1, AbortType
<1>11. CASE AutoBan
  <2>1. track.by \in Artists
    BY <1>11 DEF AutoBan, Track
  <2>2. banlist' \subseteq Artists
    BY <1>11, <2>1 DEF AutoBan
  <2> QED BY <1>11, <2>2, RateBanType DEF AutoBan
<1>12. CASE Interrupt
  BY <1>12, ExitType DEF Interrupt
<1> QED BY <1>1, <1>2, <1>3, <1>4, <1>5, <1>6, <1>7, <1>8, <1>9, <1>10, <1>11,
           <1>12 DEF User

LEMMA TypePlayback == TypeOK /\ Playback => TypeOK'
<1> SUFFICES ASSUME TypeOK, NEW p \in Pids, Halt(p) \/ Finish(p) \/ Fail(p)
             PROVE  TypeOK'
  BY DEF Playback
<1> USE DEF TypeOK
<1>1. proc[p] \in Child
  OBVIOUS
<1>2. /\ proc' \in [Pids -> Child]
      /\ flags' \subseteq {"STOPPED", "CHANGED", "INTERRUPTED"}
      /\ error' \in BOOLEAN
      /\ ChildUnchanged
  <2>1. CASE Halt(p)
    BY <1>1, <2>1 DEF Halt, Child
  <2>2. CASE Finish(p)
    BY <1>1, <2>2 DEF Finish, Child
  <2>3. CASE Fail(p)
    BY <1>1, <2>3 DEF Fail, Child
  <2> QED BY <2>1, <2>2, <2>3
<1> QED BY <1>2 DEF ChildUnchanged, loop, radio, server, ghost

(* Every reachable state is well typed.                                    *)
THEOREM TypeCorrect == Spec => []TypeOK
<1>1. Init => TypeOK
  BY TypeInit
<1>2. TypeOK /\ [Next]_vars => TypeOK'
  <2> SUFFICES ASSUME TypeOK, [Next]_vars PROVE TypeOK'
    OBVIOUS
  <2>1. CASE Loop
    <3>1. CASE Timeout
      BY <3>1 DEF Timeout, TypeOK, Labels, child, radio, server, ghost
    <3> QED BY <2>1, <3>1, TypeReap, TypeStation, TypeChangeBlock DEF Loop
  <2>2. CASE User
    BY <2>2, TypeUser
  <2>3. CASE Playback
    BY <2>3, TypePlayback
  <2>4. CASE UNCHANGED vars
    BY <2>4 DEF TypeOK, vars
  <2> QED BY <2>1, <2>2, <2>3, <2>4 DEF Next, Gone
<1> QED BY <1>1, <1>2, PTL DEF Spec

-----------------------------------------------------------------------------
(* Processes.  Only three steps change the phase of a process: its start,  *)
(* its own steps, and the waitpid that reaps it.                           *)

SamePhases == \A p \in Pids : proc'[p].phase = proc[p].phase

LEMMA KillPhases == ASSUME TypeOK, NEW sig, Kill(sig) PROVE SamePhases
BY DEF Kill, Hits, After, SamePhases, TypeOK, Child

LEMMA ExitPhases == ASSUME TypeOK, Exit PROVE SamePhases
BY DEF Exit, Hits, After, LastSignal, Released, SamePhases, TypeOK, Child

LEMMA RateBanPhases == ASSUME TypeOK, RateBan PROVE SamePhases
BY KillPhases DEF RateBan, SamePhases

LEMMA ContinuedPhases == ASSUME TypeOK, ReapContinued PROVE SamePhases
BY DEF ReapContinued, Hits, SamePhases, TypeOK, Child

LEMMA StationPhases ==
  ASSUME TypeOK, Station PROVE SamePhases /\ playfork' = playfork /\ playnext' = playnext
<1>1. CASE StationDelayed \/ StationSame \/ StationRefused
  BY <1>1 DEF StationDelayed, StationSame, StationRefused, SamePhases, child
<1>2. CASE StationTuned
  BY <1>2, KillPhases DEF StationTuned, SamePhases
<1>3. CASE StationAborts
  BY <1>3 DEF StationAborts, Abort, SamePhases, child
<1> QED BY <1>1, <1>2, <1>3 DEF Station

LEMMA UserPhases ==
  ASSUME TypeOK, User PROVE SamePhases /\ playfork' = playfork /\ playnext' = playnext
<1>1. CASE Request \/ QuitLater \/ Expand
  BY <1>1 DEF Request, QuitLater, Expand, SamePhases, child
<1>2. CASE ExpandAborts
  BY <1>2 DEF ExpandAborts, Abort, SamePhases, child
<1>3. CASE Skip \/ BanKey \/ Stop \/ Pause
  BY <1>3, KillPhases DEF Skip, BanKey, Stop, Pause
<1>4. CASE Ban \/ AutoBan
  BY <1>4, RateBanPhases DEF Ban, AutoBan
<1>5. CASE QuitNow \/ Interrupt
  BY <1>5, ExitPhases DEF QuitNow, Quit, Interrupt, Exit
<1> QED BY <1>1, <1>2, <1>3, <1>4, <1>5 DEF User

LEMMA StrayReap ==
  ASSUME TypeOK, NoStrayChild, ReapInv, Reap PROVE NoStrayChild' /\ ReapInv'
<1> USE DEF NoStrayChild, ReapInv
<1>1. CASE ReapContinued
  <2>1. SamePhases /\ UNCHANGED <<pc, playfork, playnext>>
    BY <1>1, ContinuedPhases DEF ReapContinued, loop
  <2> QED BY <2>1 DEF SamePhases
<1>2. CASE ReapDead
  <2>1. playfork \in Pids /\ proc' = [proc EXCEPT ![playfork] = NoChild]
    BY <1>2 DEF ReapDead, Hits
  <2>2. \A p \in Pids : proc'[p].phase = "none"
    BY <2>1 DEF NoChild, TypeOK
  <2>3. playnext' /\ pc' \in {"reap", "quit"}
    BY <1>2 DEF ReapDead
  <2> QED BY <2>2, <2>3
<1>3. CASE Reaped
  BY <1>3 DEF Reaped, HasChange, child
<1>4. CASE QuitDelayed
  <2>1. SamePhases /\ pc' = "exited" /\ UNCHANGED <<playfork, playnext>>
    BY <1>4, ExitPhases DEF QuitDelayed, Quit, Exit
  <2> QED BY <2>1 DEF SamePhases
<1>5. CASE EndStopped
  BY <1>5 DEF EndStopped
<1>6. CASE EndNext
  BY <1>6 DEF EndNext
<1> QED BY <1>1, <1>2, <1>3, <1>4, <1>5, <1>6 DEF Reap

LEMMA StrayStation ==
  ASSUME TypeOK, NoStrayChild, ReapInv, Station PROVE NoStrayChild' /\ ReapInv'
<1>1. SamePhases /\ UNCHANGED <<playfork, playnext>>
  BY StationPhases
<1>2. pc' \in {"reap", "refill", "dead"} /\ ~playnext
  BY DEF Station, StationDelayed, StationSame, StationRefused, StationTuned,
         StationAborts, Abort, Return, Calling, ReapInv
<1> QED BY <1>1, <1>2 DEF NoStrayChild, ReapInv, SamePhases

LEMMA StrayChangeBlock ==
  ASSUME TypeOK, NoStrayChild, ReapInv, ChangeBlock
  PROVE  NoStrayChild' /\ ReapInv'
<1> USE DEF NoStrayChild, ReapInv
<1>1. CASE Change
  <2>1. UNCHANGED <<playfork, proc>> /\ pc' \in {"delayed", "refill"}
    BY <1>1 DEF Change, child
  <2>2. pc' = "delayed" => ~playnext'
    BY <1>1 DEF Change
  <2> QED BY <2>1, <2>2
<1>2. CASE Refill
  <2>1. UNCHANGED <<playfork, proc>> /\ pc' \in {"reap", "start"}
    BY <1>2 DEF Refill, child
  <2>2. pc' = "reap" => ~playnext'
    BY <1>2 DEF Refill
  <2> QED BY <2>1, <2>2
<1>3. CASE RefillAborts \/ RefillNot \/ StartNot
  <2>1. UNCHANGED <<playfork, proc>> /\ pc' \in {"dead", "start", "banned"}
    BY <1>3 DEF RefillAborts, Abort, RefillNot, StartNot, child
  <2> QED BY <2>1
<1>4. CASE Start
  <2>1. Head(playlist).no \in Pids
    BY <1>4, HeadType DEF Start, MayStart, TypeOK, Track
  <2>2. \A p \in Pids : proc[p].phase = "none"
    BY <1>4 DEF Start, MayStart, Pids
  <2>3. NoStrayChild'
    BY <1>4, <2>1, <2>2 DEF Start, child, TypeOK
  <2> QED BY <1>4, <2>3 DEF Start
<1>5. CASE BanCheck
  <2>1. SamePhases
    BY <1>5, RateBanPhases DEF BanCheck, SamePhases
  <2>2. playfork' = playfork /\ pc' = "select"
    BY <1>5 DEF BanCheck
  <2>3. ~playnext'
    BY <1>5 DEF BanCheck
  <2> QED BY <2>1, <2>2, <2>3 DEF SamePhases
<1> QED BY <1>1, <1>2, <1>3, <1>4, <1>5 DEF ChangeBlock

LEMMA StrayUser ==
  ASSUME TypeOK, NoStrayChild, ReapInv, User PROVE NoStrayChild' /\ ReapInv'
<1>1. SamePhases /\ UNCHANGED <<playfork, playnext>>
  BY UserPhases
<1>2. pc' \in {"exited", "dead"} \/ (pc = "select" /\ pc' \in {"reap", "station"})
  BY DEF User, Request, Skip, Ban, BanKey, Stop, Pause, QuitNow, Quit, QuitLater,
         Expand, ExpandAborts, AutoBan, Interrupt, Select, Abort, Exit
<1> QED BY <1>1, <1>2 DEF NoStrayChild, ReapInv, SamePhases

LEMMA StrayPlayback ==
  ASSUME TypeOK, NoStrayChild, ReapInv, Playback PROVE NoStrayChild' /\ ReapInv'
<1>1. PICK p \in Pids : Halt(p) \/ Finish(p) \/ Fail(p)
  BY DEF Playback
<1>2. proc[p].phase # "none" /\ UNCHANGED <<pc, playfork, playnext>>
  BY <1>1 DEF Halt, Finish, Fail, ChildUnchanged, loop
<1>3. \A q \in Pids : q # p => proc'[q] = proc[q]
  BY <1>1 DEF Halt, Finish, Fail, TypeOK
<1> QED BY <1>2, <1>3 DEF NoStrayChild, ReapInv

(* No process is left behind, and none is left when the loop says so.      *)
LEMMA ChildInvariant == Spec => [](NoStrayChild /\ ReapInv)
<1> DEFINE Inv == NoStrayChild /\ ReapInv
<1>1. Init => Inv
  <2> SUFFICES ASSUME Init PROVE Inv
    OBVIOUS
  <2>1. \A p \in Pids : proc[p].phase = "none"
    BY DEF Init, NoChild
  <2>2. pc \in {"reap", "station"}
    BY DEF Init
  <2>3. ~playnext
    BY DEF Init
  <2> QED BY <2>1, <2>2, <2>3 DEF NoStrayChild, ReapInv
<1>2. TypeOK /\ Inv /\ [Next]_vars => Inv'
  <2> SUFFICES ASSUME TypeOK, NoStrayChild, ReapInv, [Next]_vars PROVE Inv'
    OBVIOUS
  <2>1. CASE Loop
    <3>1. CASE Timeout
      BY <3>1 DEF Timeout, NoStrayChild, ReapInv, child
    <3> QED BY <2>1, <3>1, StrayReap, StrayStation, StrayChangeBlock DEF Loop
  <2>2. CASE User
    BY <2>2, StrayUser
  <2>3. CASE Playback
    BY <2>3, StrayPlayback
  <2>4. CASE UNCHANGED vars
    BY <2>4 DEF NoStrayChild, ReapInv, vars
  <2> QED BY <2>1, <2>2, <2>3, <2>4 DEF Next, Gone
<1> QED BY <1>1, <1>2, TypeCorrect, PTL DEF Spec

(* No playback process is ever left that the main process cannot signal.   *)
THEOREM AtMostOneChild == Spec => []NoStrayChild
BY ChildInvariant, PTL

-----------------------------------------------------------------------------
(* The order of the tracks.                                                *)

LEMMA PlaylistNumbers ==
  ASSUME TypeOK, NEW i \in 1 .. Len(playlist)
  PROVE  /\ Len(playlist) \in Nat
         /\ playlist[i].no \in Pids
         /\ playlist[i].no \in Int
<1>1. playlist \in Seq(Track) /\ Len(playlist) \in Nat
  BY LenProperties DEF TypeOK
<1>2. playlist[i] \in Track
  BY <1>1, ElementOfSeq
<1> QED BY <1>1, <1>2 DEF Track, Pids

(* Fresh tracks behind the playlist, or in the place of it.                *)
LEMMA PushUnheard ==
  ASSUME TypeOK, UnheardInv, NEW st \in Stations \cup {NoStation},
         NEW b \in Batches(st), NEW a \in {playlist, <<>>},
         playlist' = Push(a, b), served' = served + Len(b),
         UNCHANGED <<playfork, heard>>
  PROVE  UnheardInv'
<1> USE DEF TypeOK, UnheardInv, UpcomingInOrder
<1>1. /\ b \in Seq(Track)
      /\ Len(b) \in Nat
      /\ \A i \in 1 .. Len(b) : b[i].no = served + i
  BY BatchesType
<1>2. a \in Seq(Track) /\ Len(a) \in Nat
  BY EmptySeq, LenProperties
<1>3. \A i \in 1 .. Len(a) :
        /\ a[i].no \in heard .. served
        /\ playfork = 0 => a[i].no > heard
        /\ \A j \in 1 .. i - 1 : a[j].no < a[i].no
  <2>1. CASE a = <<>>
    BY <2>1
  <2>2. CASE a = playlist
    <3>1. \A i \in 1 .. Len(playlist) : playlist[i].no \in Int
      BY PlaylistNumbers
    <3> QED BY <2>2, <3>1
  <2> QED BY <2>1, <2>2
<1>4. /\ playlist' = a \o b
      /\ DOMAIN playlist' = 1 .. Len(a) + Len(b)
      /\ \A i \in 1 .. Len(a) : playlist'[i] = a[i]
      /\ \A i \in Len(a) + 1 .. Len(a) + Len(b) : playlist'[i] = b[i - Len(a)]
  BY <1>1, <1>2, ConcatProperties DEF Push
<1>5. served \in Nat /\ heard \in Nat /\ heard <= served /\ served <= served'
  BY <1>1
<1>6. \A i \in Len(a) + 1 .. Len(a) + Len(b) : playlist'[i].no = served + i - Len(a)
  BY <1>1, <1>2, <1>4, <1>5
<1>7. ASSUME NEW i \in 1 .. Len(a) + Len(b)
      PROVE  /\ playlist'[i].no \in heard .. served'
             /\ playfork = 0 => playlist'[i].no > heard
             /\ \A j \in 1 .. i - 1 : playlist'[j].no < playlist'[i].no
  <2>1. CASE i <= Len(a)
    BY <2>1, <1>2, <1>3, <1>4, <1>5
  <2>2. CASE i > Len(a)
    <3>0. i \in Len(a) + 1 .. Len(a) + Len(b)
      BY <2>2, <1>1, <1>2
    <3>1. playlist'[i].no = served + i - Len(a)
      BY <3>0, <1>6
    <3>2. \A j \in 1 .. i - 1 : playlist'[j].no < playlist'[i].no
      BY <2>2, <3>1, <1>1, <1>2, <1>3, <1>4, <1>5, <1>6
    <3>3. playlist'[i].no \in heard .. served' /\ playlist'[i].no > heard
      BY <2>2, <3>1, <1>1, <1>2, <1>5
    <3> QED BY <3>2, <3>3
  <2> QED BY <1>1, <1>2, <2>1, <2>2
<1>8. UpcomingInOrder'
  <2> SUFFICES ASSUME NEW i \in DOMAIN playlist'
               PROVE  /\ playlist'[i].no <= served'
                      /\ playlist'[i].no >= heard'
                      /\ \A j \in 1 .. i - 1 : playlist'[j].no < playlist'[i].no
    OBVIOUS
  <2>1. i \in 1 .. Len(a) + Len(b)
    BY <1>4
  <2>2. playlist'[i].no \in heard .. served' /\ heard' = heard
    BY <1>7, <2>1
  <2>3. playlist'[i].no <= served' /\ playlist'[i].no >= heard'
    BY <2>2, <1>5
  <2> QED BY <1>7, <2>1, <2>3
<1>9. playfork' = 0 => \A i \in DOMAIN playlist' : playlist'[i].no > heard'
  BY <1>4, <1>7
<1> QED BY <1>5, <1>8, <1>9

LEMMA EmptyUnheard ==
  ASSUME TypeOK, UnheardInv, playlist' = <<>>, UNCHANGED <<served, heard>>
  PROVE  UnheardInv'
BY DEF UnheardInv, UpcomingInOrder, TypeOK

LEMMA SameUnheard ==
  ASSUME TypeOK, UnheardInv, UNCHANGED <<playlist, served, heard, playfork>>
  PROVE  UnheardInv'
BY DEF UnheardInv, UpcomingInOrder, TypeOK

(* The shift at the end of a track leaves only tracks yet to be heard.     *)
LEMMA ShiftUnheard ==
  ASSUME TypeOK, UnheardInv, playlist' = Shift(playlist), UNCHANGED <<served, heard>>
  PROVE  UnheardInv'
<1>1. CASE playlist = <<>>
  BY <1>1, EmptyUnheard DEF Shift
<1>2. CASE playlist # <<>>
  <2>1. /\ playlist \in Seq(Track)
        /\ Len(playlist) \in Nat \ {0}
        /\ \A i \in 1 .. Len(playlist) : playlist[i].no \in Int
    BY <1>2, EmptySeq, LenProperties, PlaylistNumbers DEF TypeOK
  <2>2. playlist' = Tail(playlist)
    BY <1>2 DEF Shift
  <2>3. /\ DOMAIN playlist' = 1 .. Len(playlist) - 1
        /\ \A i \in 1 .. Len(playlist) - 1 : playlist'[i] = playlist[i + 1]
    BY <1>2, <2>1, <2>2, HeadTailProperties
  <2>4. heard \in Nat /\ served \in Nat /\ heard <= served
    BY DEF TypeOK, UnheardInv
  <2>5. ASSUME NEW i \in 1 .. Len(playlist) - 1
        PROVE  /\ playlist'[i].no <= served
               /\ playlist'[i].no > heard
               /\ playlist'[i].no >= heard
               /\ \A j \in 1 .. i - 1 : playlist'[j].no < playlist'[i].no
    <3>1. playlist[i + 1].no <= served /\ playlist[1].no < playlist[i + 1].no
      BY <2>1 DEF UnheardInv, UpcomingInOrder
    <3>2. playlist[1].no >= heard
      BY <2>1 DEF UnheardInv, UpcomingInOrder
    <3>3. \A j \in 1 .. i - 1 : playlist[j + 1].no < playlist[i + 1].no
      BY <2>1 DEF UnheardInv, UpcomingInOrder
    <3>4. \A j \in 1 .. i - 1 : playlist'[j].no < playlist'[i].no
      BY <3>3, <2>1, <2>3
    <3>5. playlist'[i] = playlist[i + 1] /\ playlist[i + 1].no \in Int
      BY <2>1, <2>3
    <3>6. playlist[1].no \in Int
      BY <2>1
    <3> QED BY <3>1, <3>2, <3>4, <3>5, <3>6, <2>4
  <2> QED BY <2>3, <2>4, <2>5 DEF UnheardInv, UpcomingInOrder
<1> QED BY <1>1, <1>2

LEMMA UnheardReap == ASSUME TypeOK, UnheardInv, Reap PROVE UnheardInv'
<1> USE DEF radio, child, server, ghost
<1>1. CASE ReapContinued \/ ReapDead \/ Reaped
  <2>1. UNCHANGED <<playlist, served, heard, playfork>>
    BY <1>1 DEF ReapContinued, ReapDead, Reaped
  <2> QED BY <2>1, SameUnheard
<1>2. CASE QuitDelayed
  BY <1>2, EmptyUnheard DEF QuitDelayed, Quit, Exit
<1>3. CASE EndStopped
  BY <1>3, EmptyUnheard DEF EndStopped, FreeList
<1>4. CASE EndNext
  BY <1>4, ShiftUnheard DEF EndNext
<1> QED BY <1>1, <1>2, <1>3, <1>4 DEF Reap

LEMMA UnheardStation == ASSUME TypeOK, UnheardInv, Station PROVE UnheardInv'
<1> USE DEF radio, child, server, ghost
<1>1. CASE StationDelayed \/ StationSame \/ StationAborts
  <2>1. UNCHANGED <<playlist, served, heard, playfork>>
    BY <1>1 DEF StationDelayed, StationSame, StationAborts, Abort
  <2> QED BY <2>1, SameUnheard
<1>2. CASE StationRefused
  BY <1>2, EmptyUnheard DEF StationRefused, FreeList
<1>3. CASE StationTuned
  <2>1. call.name \in Stations
    BY <1>3, CalledStation DEF StationTuned
  <2>2. PICK b \in Batches(call.name) :
          playlist' = Push(<<>>, b) /\ served' = served + Len(b)
    BY <1>3 DEF StationTuned, FreeList
  <2>3. UNCHANGED <<playfork, heard>>
    BY <1>3 DEF StationTuned
  <2> QED BY <2>1, <2>2, <2>3, PushUnheard
<1> QED BY <1>1, <1>2, <1>3 DEF Station

LEMMA UnheardChangeBlock == ASSUME TypeOK, UnheardInv, ChangeBlock PROVE UnheardInv'
<1> USE DEF radio, child, server, ghost
<1>1. CASE Change \/ RefillAborts \/ RefillNot \/ StartNot \/ BanCheck
  <2>1. UNCHANGED <<playlist, served, heard, playfork>>
    BY <1>1 DEF Change, RefillAborts, Abort, RefillNot, StartNot, BanCheck
  <2> QED BY <2>1, SameUnheard
<1>2. CASE Refill
  <2>1. playlist' \in Batches(tuned) /\ served' = served + Len(playlist')
    BY <1>2 DEF Refill
  <2>2. PICK b \in Batches(tuned) : b = playlist'
    BY <2>1
  <2>3. playlist' = Push(<<>>, b)
    BY <2>2, BatchesType, ConcatEmptySeq DEF Push, TypeOK
  <2>4. UNCHANGED <<playfork, heard>> /\ tuned \in Stations \cup {NoStation}
    BY <1>2 DEF Refill, TypeOK
  <2> QED BY <2>1, <2>2, <2>3, <2>4, PushUnheard
<1>3. CASE Start
  <2>1. /\ Len(playlist) \in Nat \ {0}
        /\ Head(playlist) = playlist[1]
        /\ \A i \in 1 .. Len(playlist) : playlist[i].no \in Int
    BY <1>3, EmptySeq, LenProperties, PlaylistNumbers DEF Start, MayStart, TypeOK
  <2>2. /\ playlist[1].no <= served
        /\ playlist[1].no > heard
        /\ playlist[1].no \in Pids
        /\ \A i \in 1 .. Len(playlist) : playlist[i].no >= playlist[1].no
    <3>1. playlist[1].no <= served /\ playlist[1].no > heard
      BY <2>1, <1>3 DEF UnheardInv, UpcomingInOrder, Start, MayStart
    <3>2. \A i \in 1 .. Len(playlist) : i # 1 => playlist[1].no < playlist[i].no
      BY <2>1 DEF UnheardInv, UpcomingInOrder
    <3>3. playlist[1].no \in Pids
      BY <2>1, PlaylistNumbers
    <3> QED BY <2>1, <3>1, <3>2, <3>3
  <2>3. UNCHANGED <<playlist, served>>
    BY <1>3 DEF Start
  <2>4. \/ heard' = playlist[1].no /\ playfork' = playlist[1].no
        \/ heard' = heard /\ playfork' \in {-1, playfork}
    BY <1>3, <2>1 DEF Start
  <2>5. \A i \in 1 .. Len(playlist) :
          \A j \in 1 .. i - 1 : playlist[j].no < playlist[i].no
    BY <2>1 DEF UnheardInv, UpcomingInOrder
  <2>6. DOMAIN playlist = 1 .. Len(playlist)
    BY LenProperties DEF TypeOK
  <2>7. \A i \in 1 .. Len(playlist) :
          playlist[i].no <= served /\ playlist[i].no > heard
    BY <2>1, <1>3 DEF UnheardInv, UpcomingInOrder, Start, MayStart
  <2>8. heard \in Nat /\ served \in Nat /\ heard' <= served
    BY <2>2, <2>4 DEF TypeOK, UnheardInv
  <2>9. \A i \in 1 .. Len(playlist) : playlist[i].no >= heard'
    BY <2>1, <2>2, <2>4, <2>7, <2>8
  <2>10. playfork' = 0 => heard' = heard
    BY <2>2, <2>4 DEF Pids
  <2> QED BY <2>3, <2>5, <2>6, <2>7, <2>8, <2>9, <2>10
          DEF UnheardInv, UpcomingInOrder
<1> QED BY <1>1, <1>2, <1>3 DEF ChangeBlock

LEMMA UnheardUser == ASSUME TypeOK, UnheardInv, User PROVE UnheardInv'
<1> USE DEF radio, child, server, ghost
<1>1. CASE Expand
  <2>1. PICK b \in Batches(tuned) :
          playlist' = Push(playlist, b) /\ served' = served + Len(b)
    BY <1>1 DEF Expand
  <2>2. UNCHANGED <<playfork, heard>> /\ tuned \in Stations \cup {NoStation}
    BY <1>1 DEF Expand, TypeOK
  <2> QED BY <2>1, <2>2, PushUnheard
<1>2. CASE QuitNow \/ Interrupt
  BY <1>2, EmptyUnheard DEF QuitNow, Quit, Interrupt, Exit
<1>3. CASE Request \/ Skip \/ Ban \/ BanKey \/ Stop \/ Pause \/ QuitLater
           \/ ExpandAborts \/ AutoBan
  <2>1. UNCHANGED <<playlist, served, heard, playfork>>
    BY <1>3 DEF Request, Skip, Ban, BanKey, Stop, Pause, QuitLater, ExpandAborts,
                AutoBan, Abort
  <2> QED BY <2>1, SameUnheard
<1> QED BY <1>1, <1>2, <1>3 DEF User

(* The invariant holds throughout.                                        *)
LEMMA UnheardInvariant == Spec => []UnheardInv
<1>1. Init => UnheardInv
  BY DEF Init, UnheardInv, UpcomingInOrder
<1>2. TypeOK /\ UnheardInv /\ [Next]_vars => UnheardInv'
  <2> SUFFICES ASSUME TypeOK, UnheardInv, [Next]_vars PROVE UnheardInv'
    OBVIOUS
  <2>1. CASE Timeout \/ Playback \/ UNCHANGED vars
    <3>1. UNCHANGED <<playlist, served, heard, playfork>>
      BY <2>1 DEF Timeout, Playback, Halt, Finish, Fail, ChildUnchanged, vars,
                  radio, child, server, ghost
    <3> QED BY <3>1, SameUnheard
  <2> QED BY <2>1, UnheardReap, UnheardStation, UnheardChangeBlock, UnheardUser
          DEF Next, Gone, Loop
<1> QED BY <1>1, <1>2, TypeCorrect, PTL DEF Spec

(* Tracks are heard in the order in which the server hands them out, each  *)
(* at most once: what is in the playlist is never older than what played.  *)
THEOREM TracksInOrder == Spec => []UpcomingInOrder
<1>1. UnheardInv => UpcomingInOrder
  BY DEF UnheardInv
<1> QED BY <1>1, UnheardInvariant, PTL

-----------------------------------------------------------------------------
(* Silence.  Once the user wants none, the flags and playfork between them *)
(* remember it until a station is asked for.                               *)

(* The states of the third disjunct of WantedInv: nothing plays, nothing   *)
(* is about to.                                                            *)
Idle == /\ playfork = 0
        /\ "CHANGED" \notin flags
        /\ ~playnext
        /\ pc \in {"reap", "select", "station", "exited", "dead"}
LastTrack == playfork # 0 /\ "STOPPED" \in flags

(* A ban leaves flags, or adds INTERRUPTED to them when a process runs.    *)
LEMMA RateBanFlags ==
  ASSUME RateBan
  PROVE  flags' = flags \/ (playfork # 0 /\ flags' = flags \cup {"INTERRUPTED"})
BY DEF RateBan

LEMMA WantedReap == ASSUME TypeOK, WantedInv, Reap PROVE WantedInv'
<1> USE DEF WantedInv, LastTrack, Idle, child, ghost
<1>1. CASE ReapContinued \/ ReapDead
  <2>1. playfork # 0 \/ wanted
    BY <1>1 DEF ReapContinued, ReapDead, Hits, Pids
  <2>2. UNCHANGED <<playfork, flags, wanted>>
    BY <1>1 DEF ReapContinued, ReapDead
  <2> QED BY <2>1, <2>2
<1>2. CASE Reaped
  <2>1. UNCHANGED <<playfork, flags, wanted, playnext>>
    BY <1>2 DEF Reaped
  <2>2. Idle => pc' = "select"
    BY <1>2 DEF Reaped, HasChange
  <2> QED BY <2>1, <2>2
<1>3. CASE QuitDelayed
  BY <1>3 DEF QuitDelayed, Quit, Exit
<1>4. CASE EndStopped
  <2>1. ~playnext'
    BY <1>4 DEF EndStopped
  <2>2. playfork' = 0 /\ "CHANGED" \notin flags' /\ pc' = "reap"
    BY <1>4 DEF EndStopped
  <2> QED BY <2>1, <2>2
<1>5. CASE EndNext
  BY <1>5 DEF EndNext
<1> QED BY <1>1, <1>2, <1>3, <1>4, <1>5 DEF Reap

LEMMA WantedStation == ASSUME TypeOK, WantedInv, Station PROVE WantedInv'
<1> USE DEF WantedInv, LastTrack, Idle, child, ghost, Return, Calling
<1>1. UNCHANGED <<playfork, playnext>>
  BY StationPhases
<1>2. CASE StationDelayed
  <2>1. wanted => wanted'
    BY <1>2 DEF StationDelayed
  <2>2. /\ Return(FALSE, flags, nextstation')
        /\ pc = "station" \/ wanted \/ LastTrack
    BY <1>2 DEF StationDelayed
  <2> QED BY <1>1, <2>1, <2>2
<1>3. CASE StationSame \/ StationRefused
  <2>1. wanted' = wanted
    BY <1>3 DEF StationSame, StationRefused
  <2>2. Return(FALSE, flags, nextstation) /\ Calling
    BY <1>3 DEF StationSame, StationRefused
  <2> QED BY <1>1, <2>1, <2>2
<1>4. CASE StationTuned
  <2>1. wanted' = (wanted \/ pc = "station")
    BY <1>4 DEF StationTuned
  <2>2. flags \subseteq flags' /\ pc \in {"station", "delayed"}
    BY <1>4 DEF StationTuned
  <2> QED BY <1>1, <2>1, <2>2
<1>5. CASE StationAborts
  BY <1>1, <1>5 DEF StationAborts, Abort
<1> QED BY <1>2, <1>3, <1>4, <1>5 DEF Station

LEMMA WantedChangeBlock == ASSUME TypeOK, WantedInv, ChangeBlock PROVE WantedInv'
<1> USE DEF WantedInv, LastTrack, Idle, child, ghost
<1>1. wanted \/ LastTrack
  BY DEF ChangeBlock, Change, Refill, RefillAborts, RefillNot, StartNot, Start,
         BanCheck, Abort, NeedsTracks
<1>2. UNCHANGED wanted
  BY DEF ChangeBlock, Change, Refill, RefillAborts, Abort, RefillNot, StartNot,
         Start, BanCheck
<1>3. CASE Start \/ Refill
  BY <1>1, <1>2, <1>3 DEF Start, MayStart, Refill, NeedsTracks
<1>4. CASE Change \/ RefillAborts \/ RefillNot \/ StartNot \/ BanCheck
  <2>1. playfork' = playfork /\ ("STOPPED" \in flags => "STOPPED" \in flags')
    BY <1>4, RateBanFlags
       DEF Change, RefillAborts, Abort, RefillNot, StartNot, BanCheck
  <2> QED BY <1>1, <1>2, <2>1
<1> QED BY <1>3, <1>4 DEF ChangeBlock

LEMMA WantedUser == ASSUME TypeOK, WantedInv, User PROVE WantedInv'
<1> USE DEF WantedInv, LastTrack, Idle, child, ghost
<1>1. UNCHANGED <<playfork, playnext>>
  BY UserPhases
<1>2. CASE Stop
  BY <1>1, <1>2 DEF Stop
<1>3. CASE ~Stop
  <2>1. wanted' = wanted
    BY <1>3 DEF User, Request, Skip, Ban, BanKey, Pause, QuitNow, Quit, QuitLater,
         Expand, ExpandAborts, AutoBan, Interrupt, Abort, Exit
  <2>2. flags' = flags \/ flags' = flags \cup {"INTERRUPTED"}
    BY <1>3, RateBanFlags
       DEF User, Request, Skip, Ban, BanKey, Pause, QuitNow, Quit, QuitLater,
         Expand, ExpandAborts, AutoBan, Interrupt, Abort, Exit
  <2>3. pc' \in {"reap", "station", "exited", "dead"}
    BY <1>3 DEF User, Request, Skip, Ban, BanKey, Pause, QuitNow, Quit, QuitLater,
         Expand, ExpandAborts, AutoBan, Interrupt, Abort, Exit, Select
  <2> QED BY <1>1, <2>1, <2>2, <2>3
<1> QED BY <1>2, <1>3

LEMMA WantedPlayback == ASSUME TypeOK, WantedInv, Playback PROVE WantedInv'
<1>1. /\ UNCHANGED <<playfork, playnext, pc, wanted>>
      /\ flags' = flags \/ flags' = flags \cup {"INTERRUPTED"}
  BY DEF Playback, Halt, Finish, Fail, ChildUnchanged, loop, ghost
<1> QED BY <1>1 DEF WantedInv

(* A stop is obeyed: when the user wants no music, the process that still  *)
(* runs is marked to be the last, or nothing runs and nothing will start   *)
(* before a station is asked for.                                          *)
THEOREM StopIsRemembered == Spec => []WantedInv
<1>1. Init => WantedInv
  <2> SUFFICES ASSUME Init PROVE WantedInv
    OBVIOUS
  <2>1. ~playnext
    BY DEF Init
  <2> QED BY <2>1 DEF Init, WantedInv
<1>2. TypeOK /\ WantedInv /\ [Next]_vars => WantedInv'
  <2> SUFFICES ASSUME TypeOK, WantedInv, [Next]_vars PROVE WantedInv'
    OBVIOUS
  <2>1. CASE Timeout
    BY <2>1 DEF Timeout, WantedInv, child, ghost
  <2>2. CASE UNCHANGED vars
    BY <2>2 DEF WantedInv, vars
  <2> QED BY <2>1, <2>2, WantedReap, WantedStation, WantedChangeBlock, WantedUser,
             WantedPlayback DEF Next, Gone, Loop
<1> QED BY <1>1, <1>2, TypeCorrect, PTL DEF Spec

-----------------------------------------------------------------------------
(* The player implements the radio.                                        *)

LEMMA SameAudible ==
  ASSUME SamePhases, heard' = heard, wanted' \in BOOLEAN
  PROVE  [Listener!Next]_(Listener!vars)
<1>1. Audible' = Audible
  BY DEF SamePhases, Audible, Alive
<1> QED BY <1>1 DEF Listener!Next, Listener!Request

(* Every step of the player is a step of the radio, or changes nothing the *)
(* listener notices.                                                       *)
LEMMA StepRefines ==
  ASSUME TypeOK, TypeOK', NoStrayChild, ReapInv, UnheardInv, WantedInv, [Next]_vars
  PROVE  [Listener!Next]_(Listener!vars)
<1>0. wanted' \in BOOLEAN
  BY DEF TypeOK
<1>1. CASE Start
  <2>1. CASE heard' = heard /\ proc' = proc
    BY <1>0, <2>1, SameAudible DEF SamePhases
  <2>2. CASE ~(heard' = heard /\ proc' = proc)
    <3> DEFINE n == Head(playlist).no
    <3>1. /\ playfork = 0
          /\ playlist # <<>>
          /\ proc' = [proc EXCEPT ![n] = FreshChild]
          /\ heard' = n
      BY <1>1, <2>2 DEF Start, MayStart, child
    <3>2. n \in Pids /\ n > heard
      <4>1. Head(playlist) = playlist[1] /\ 1 \in 1 .. Len(playlist)
        BY <3>1, EmptySeq, LenProperties DEF TypeOK
      <4> QED BY <3>1, <4>1, PlaylistNumbers DEF UnheardInv
    <3>3. Audible = {}
      BY <3>1 DEF NoStrayChild, Audible, Alive, Pids
    <3>4. Audible' = {n}
      <4>1. proc'[n].phase = "playing"
        BY <3>1, <3>2 DEF TypeOK, FreshChild, NoChild
      <4>2. \A q \in Pids : q # n => proc'[q] = proc[q]
        BY <3>1, <3>2 DEF TypeOK
      <4> QED BY <3>2, <3>3, <4>1, <4>2 DEF Audible, Alive
    <3>5. wanted
      BY <1>1, <3>1 DEF WantedInv, Start
    <3>6. UNCHANGED wanted
      BY <1>1 DEF Start
    <3> QED BY <3>1, <3>2, <3>3, <3>4, <3>5, <3>6 DEF Listener!Next, Listener!Begin
  <2> QED BY <2>1, <2>2
<1>2. CASE Playback
  <2>1. PICK p \in Pids : Halt(p) \/ Finish(p) \/ Fail(p)
    BY <1>2 DEF Playback
  <2>2. UNCHANGED <<heard, wanted>>
    BY <2>1 DEF Halt, Finish, Fail, ChildUnchanged, ghost
  <2>3. CASE Halt(p)
    <3>1. SamePhases
      BY <2>3 DEF Halt, SamePhases, TypeOK, Child
    <3> QED BY <1>0, <2>2, <3>1, SameAudible
  <2>4. CASE Finish(p)
    <3>1. Audible = {p}
      BY <2>4 DEF Finish, Audible, Alive, NoStrayChild
    <3>2. proc'[p].phase = "zombie" /\ \A q \in Pids : q # p => proc'[q] = proc[q]
      BY <2>4 DEF Finish, TypeOK, Child
    <3>3. Audible' = {}
      BY <3>1, <3>2 DEF Audible, Alive
    <3> QED BY <2>2, <3>1, <3>3 DEF Listener!Next, Listener!End
  <2>5. CASE Fail(p)
    <3>1. proc'[p].phase = "failing" /\ \A q \in Pids : q # p => proc'[q] = proc[q]
      BY <2>5 DEF Fail, TypeOK, Child
    <3>2. Audible' = Audible
      BY <2>5, <3>1 DEF Audible, Alive, Fail
    <3> QED BY <2>2, <3>2 DEF Listener!vars
  <2> QED BY <2>1, <2>3, <2>4, <2>5
<1>3. CASE ReapDead
  <2>1. playfork \in Pids /\ proc[playfork].phase = "zombie"
    BY <1>3 DEF ReapDead, Hits
  <2>2. /\ proc'[playfork].phase = "none"
        /\ \A q \in Pids : q # playfork => proc'[q] = proc[q]
    BY <1>3, <2>1 DEF ReapDead, NoChild, TypeOK
  <2>3. Audible' = Audible
    BY <2>1, <2>2 DEF Audible, Alive
  <2>4. UNCHANGED <<heard, wanted>>
    BY <1>3 DEF ReapDead
  <2> QED BY <2>3, <2>4 DEF Listener!vars
<1>4. CASE \/ Timeout \/ UNCHANGED vars \/ Reaped \/ EndStopped \/ EndNext
           \/ Change \/ Refill \/ RefillAborts \/ RefillNot \/ StartNot
  <2>1. proc' = proc /\ heard' = heard
    BY <1>4 DEF Timeout, vars, Reaped, EndStopped, EndNext, Change, Refill,
                RefillAborts, Abort, RefillNot, StartNot, child, ghost
  <2> QED BY <1>0, <2>1, SameAudible DEF SamePhases
<1>5. CASE ReapContinued
  <2>1. heard' = heard
    BY <1>5 DEF ReapContinued, ghost
  <2> QED BY <1>0, <1>5, <2>1, ContinuedPhases, SameAudible
<1>6. CASE QuitDelayed
  <2>1. heard' = heard
    BY <1>6 DEF QuitDelayed, Quit, Exit
  <2> QED BY <1>0, <1>6, <2>1, ExitPhases, SameAudible DEF QuitDelayed, Quit
<1>7. CASE BanCheck
  <2>1. heard' = heard
    BY <1>7 DEF BanCheck
  <2>2. SamePhases
    BY <1>7, RateBanPhases DEF BanCheck, SamePhases
  <2> QED BY <1>0, <2>1, <2>2, SameAudible
<1>8. CASE Station
  <2>1. heard' = heard
    BY <1>8 DEF Station, StationDelayed, StationSame, StationRefused,
                StationTuned, StationAborts, Abort, ghost
  <2> QED BY <1>0, <1>8, <2>1, StationPhases, SameAudible
<1>9. CASE User
  <2>1. heard' = heard
    BY <1>9 DEF User, Request, Skip, Ban, BanKey, Stop, Pause, QuitNow, Quit,
                QuitLater, Expand, ExpandAborts, AutoBan, Interrupt, Abort, Exit,
                ghost
  <2> QED BY <1>0, <1>9, <2>1, UserPhases, SameAudible
<1> QED BY <1>1, <1>2, <1>3, <1>4, <1>5, <1>6, <1>7, <1>8, <1>9
        DEF Next, Loop, Reap, ChangeBlock, Gone

(* The player is a radio: one track at a time, none twice or out of order, *)
(* and none after a stop until a station is asked for, whatever fails.     *)
THEOREM PlayerIsRadio == Spec => ImplementsRadio
<1>1. Init => Listener!Init
  <2> SUFFICES ASSUME Init PROVE Listener!Init
    OBVIOUS
  <2>1. Audible = {}
    BY DEF Init, Audible, Alive, NoChild
  <2>2. wanted = FALSE /\ heard = 0
    BY DEF Init
  <2> QED BY <2>1, <2>2 DEF Listener!Init
<1> QED BY <1>1, StepRefines, TypeCorrect, ChildInvariant, UnheardInvariant,
           StopIsRemembered, PTL DEF Spec, Listener!Spec, ImplementsRadio

-----------------------------------------------------------------------------
(* What a signal does to each process.  As playfork names the only one     *)
(* there is, every process gets every signal.                              *)

Signalled(c, sig) == IF c.phase # "none" THEN After(c, sig) ELSE c

LEMMA AfterFields ==
  ASSUME NEW c \in Child, NEW sig \in {"USR1", "STOP", "CONT"}
  PROVE  /\ After(c, sig).phase = c.phase
         /\ c.got \subseteq After(c, sig).got
         /\ After(c, sig).got \subseteq c.got \cup {sig}
         /\ sig = "USR1" => "USR1" \in After(c, sig).got
         /\ sig = "USR1" => After(c, sig).halt = c.halt
         /\ sig = "CONT" => After(c, sig).halt = "no"
         /\ "STOP" \notin After(c, sig).got
BY DEF After, Child

LEMMA KillEffect ==
  ASSUME TypeOK, NoStrayChild, NEW sig, Kill(sig), NEW p \in Pids
  PROVE  proc'[p] = Signalled(proc[p], sig)
<1>1. CASE Hits
  <2>1. playfork \in Pids
    BY <1>1 DEF Hits
  <2>2. proc' = [proc EXCEPT ![playfork] = After(proc[playfork], sig)]
    BY <1>1 DEF Kill
  <2>3. p # playfork => proc[p].phase = "none"
    BY DEF NoStrayChild
  <2> QED BY <1>1, <2>1, <2>2, <2>3 DEF Hits, Signalled, TypeOK
<1>2. CASE ~Hits
  <2>1. proc[p].phase = "none"
    BY <1>2 DEF NoStrayChild, Hits
  <2> QED BY <1>2, <2>1 DEF Kill, Signalled
<1> QED BY <1>1, <1>2

LEMMA RateBanEffect ==
  ASSUME TypeOK, NoStrayChild, RateBan, NEW p \in Pids
  PROVE  /\ proc'[p] = Signalled(proc[p], "USR1")
         /\ playfork # 0 => flags' = flags \cup {"INTERRUPTED"}
         /\ playfork = 0 => flags' = flags
<1>1. CASE playfork = 0
  <2>1. proc[p].phase = "none" /\ proc' = proc /\ flags' = flags
    BY <1>1 DEF NoStrayChild, RateBan, Pids
  <2> QED BY <1>1, <2>1 DEF Signalled
<1>2. CASE playfork # 0
  BY <1>2, KillEffect DEF RateBan
<1> QED BY <1>1, <1>2

LEMMA ExitEffect ==
  ASSUME TypeOK, NoStrayChild, Exit, NEW p \in Pids
  PROVE  proc'[p] = IF proc[p].phase # "none"
                    THEN Released(After(proc[p], "USR1")) ELSE proc[p]
<1>1. CASE Hits
  <2>1. playfork \in Pids
    BY <1>1 DEF Hits
  <2>2. proc' = [proc EXCEPT ![playfork] = Released(After(proc[playfork], "USR1"))]
    BY <1>1 DEF Exit, LastSignal
  <2>3. p # playfork => proc[p].phase = "none"
    BY DEF NoStrayChild
  <2> QED BY <1>1, <2>1, <2>2, <2>3 DEF Hits, TypeOK
<1>2. CASE ~Hits
  <2>1. proc[p].phase = "none"
    BY <1>2 DEF NoStrayChild, Hits
  <2> QED BY <1>2, <2>1 DEF Exit, LastSignal
<1> QED BY <1>1, <1>2

LEMMA ReleasedFields ==
  ASSUME NEW c \in Child
  PROVE  /\ Released(c).phase = c.phase
         /\ Released(c).got = c.got
         /\ Released(c).halt \in {c.halt, "no"}
         /\ ~Background => Released(c).halt = "no"
BY DEF Released, Child

-----------------------------------------------------------------------------
(* What playfork means.                                                    *)

LEMMA ForkStep ==
  ASSUME TypeOK, NoStrayChild, ReapInv, ForkInv, [Next]_vars
  PROVE  ForkInv'
<1> USE DEF ForkInv, Between, Unlooped, Hits, Running, loop, child, ghost
<1>1. CASE Reap
  <2>1. CASE ReapContinued
    BY <2>1, ContinuedPhases DEF ReapContinued, SamePhases
  <2>2. CASE ReapDead
    <3>1. proc'[playfork].phase = "none" /\ playfork \in Pids
      BY <2>2 DEF ReapDead, NoChild, TypeOK
    <3>2. playnext' /\ pc' \in {"reap", "quit"}
      BY <2>2 DEF ReapDead
    <3> QED BY <2>2, <3>1, <3>2 DEF ReapDead
  <2>3. CASE Reaped
    BY <2>3 DEF Reaped
  <2>4. CASE QuitDelayed
    BY <2>4 DEF QuitDelayed, Quit, Exit
  <2>5. CASE EndStopped
    <3>1. playfork' = 0 /\ ~playnext'
      BY <2>5 DEF EndStopped
    <3> QED BY <3>1 DEF Pids
  <2>6. CASE EndNext
    BY <2>6 DEF EndNext, Pids
  <2> QED BY <1>1, <2>1, <2>2, <2>3, <2>4, <2>5, <2>6 DEF Reap
<1>2. CASE Station
  <2>1. pc' \in {"reap", "refill", "dead"} /\ ~playnext
    BY <1>2 DEF Station, StationDelayed, StationSame, StationRefused, StationTuned,
           StationAborts, Abort, Return, Calling, ReapInv
  <2>2. heard' = heard
    BY <1>2 DEF Station, StationDelayed, StationSame, StationRefused, StationTuned,
           StationAborts, Abort
  <2>3. pc \notin {"exited", "dead"}
    BY <1>2 DEF Station, StationDelayed, StationSame, StationRefused, StationTuned,
           StationAborts, Calling
  <2> QED BY <1>2, <2>1, <2>2, <2>3, StationPhases DEF SamePhases
<1>3. CASE ChangeBlock
  <2>1. CASE Change \/ Refill \/ RefillAborts \/ RefillNot \/ StartNot
    <3>1. UNCHANGED <<playfork, proc, heard>> /\ pc \notin {"exited", "dead"}
      BY <2>1 DEF Change, Refill, RefillAborts, Abort, RefillNot, StartNot
    <3>2. ~Between /\ ~Between'
      BY <2>1 DEF Change, Refill, RefillAborts, Abort, RefillNot, StartNot
    <3> QED BY <3>1, <3>2
  <2>2. CASE Start
    <3>1. Head(playlist).no \in Pids
      BY <2>2, HeadType DEF Start, MayStart, TypeOK, Track
    <3>2. ~Between'
      BY <2>2 DEF Start
    <3>3. CASE playfork' = Head(playlist).no
      BY <2>2, <3>1, <3>2, <3>3 DEF Start, MayStart, FreshChild, NoChild, TypeOK, Pids
    <3>4. CASE playfork' = -1
      <4>1. "fork" \in ForkFaults
        BY <2>2, <3>1, <3>4 DEF Start, MayStart, Pids
      <4> QED BY <3>2, <3>4, <4>1 DEF Pids
    <3>5. CASE playfork' = 0
      BY <3>2, <3>5 DEF Pids
    <3> QED BY <2>2, <3>3, <3>4, <3>5 DEF Start, MayStart
  <2>3. CASE BanCheck
    <3>1. SamePhases
      BY <2>3, RateBanPhases DEF BanCheck, SamePhases
    <3>2. ~Between /\ ~Between'
      BY <2>3 DEF BanCheck
    <3> QED BY <2>3, <3>1, <3>2 DEF BanCheck, SamePhases
  <2> QED BY <1>3, <2>1, <2>2, <2>3 DEF ChangeBlock
<1>4. CASE User
  <2>1. SamePhases /\ UNCHANGED <<playfork, playnext>>
    BY <1>4, UserPhases
  <2>2. heard' = heard /\ pc \notin {"exited", "dead"}
    BY <1>4 DEF User, Request, Skip, Ban, BanKey, Stop, Pause, QuitNow, Quit,
           QuitLater, Expand, ExpandAborts, AutoBan, Interrupt, Select, Abort, Exit
  <2>3. pc' \in {"exited", "dead"} \/ ~playnext
    BY <1>4 DEF User, Request, Skip, Ban, BanKey, Stop, Pause, QuitNow, Quit,
           QuitLater, Expand, ExpandAborts, AutoBan, Interrupt, Select, Abort, Exit,
           ReapInv
  <2> QED BY <2>1, <2>2, <2>3 DEF SamePhases
<1>5. CASE Playback
  <2>1. PICK p \in Pids : Halt(p) \/ Finish(p) \/ Fail(p)
    BY <1>5 DEF Playback
  <2>2. /\ UNCHANGED <<pc, playfork, playnext, heard>>
        /\ proc[p].phase # "none"
        /\ proc'[p].phase # "none"
        /\ \A q \in Pids : q # p => proc'[q] = proc[q]
    BY <2>1 DEF Halt, Finish, Fail, ChildUnchanged, TypeOK, Child
  <2> QED BY <2>2
<1>6. CASE Timeout \/ UNCHANGED vars
  <2>1. /\ UNCHANGED <<playfork, proc, heard, playnext>>
        /\ pc' = pc \/ (pc = "select" /\ pc' = "reap" /\ ~playnext)
    BY <1>6 DEF Timeout, vars, ReapInv
  <2> QED BY <2>1
<1> QED BY <1>1, <1>2, <1>3, <1>4, <1>5, <1>6 DEF Next, Loop, Gone

LEMMA ForkInvariant == Spec => []ForkInv
<1>1. Init => ForkInv
  <2> SUFFICES ASSUME Init PROVE ForkInv
    OBVIOUS
  <2>1. playfork = 0 /\ ~playnext
    BY DEF Init
  <2> QED BY <2>1 DEF ForkInv, Between, Pids
<1> QED BY <1>1, ForkStep, TypeCorrect, ChildInvariant, PTL DEF Spec

-----------------------------------------------------------------------------
(* The steps that leave the processes alone, those that send SIGUSR1, and  *)
(* those that leave the program.                                           *)

Quiet == \/ Reaped \/ EndStopped \/ EndNext
         \/ StationDelayed \/ StationSame \/ StationRefused \/ StationAborts
         \/ Change \/ Refill \/ RefillAborts \/ RefillNot \/ StartNot
         \/ Request \/ QuitLater \/ Expand \/ ExpandAborts
         \/ Timeout \/ UNCHANGED vars
Ends == StationTuned \/ BanCheck \/ Skip \/ Ban \/ BanKey \/ Stop \/ AutoBan
Leaves == QuitDelayed \/ QuitNow \/ Interrupt

LEMMA StepKinds ==
  ASSUME [Next]_vars
  PROVE  \/ Quiet \/ Ends \/ Leaves \/ ReapContinued \/ ReapDead \/ Start \/ Pause
         \/ Playback
BY DEF Next, Loop, Gone, Reap, Station, ChangeBlock, User, Quiet, Ends, Leaves

LEMMA QuietEffect == ASSUME Quiet PROVE proc' = proc /\ pausetime' = pausetime
BY DEF Quiet, Reaped, EndStopped, EndNext, StationDelayed, StationSame,
       StationRefused, StationAborts, Change, Refill, RefillAborts, RefillNot,
       StartNot, Request, QuitLater, Expand, ExpandAborts, Abort, Timeout, vars, child

(* Each process is left alone by a step of Ends, or told to end.           *)
LEMMA EndsEffect ==
  ASSUME TypeOK, NoStrayChild, Ends, NEW p \in Pids
  PROVE  /\ proc'[p] \in {proc[p], Signalled(proc[p], "USR1")}
         /\ pausetime' = pausetime
<1>1. CASE StationTuned
  <2>1. CASE playfork = 0
    BY <1>1, <2>1 DEF StationTuned
  <2>2. CASE playfork # 0
    BY <1>1, <2>2, KillEffect DEF StationTuned
  <2> QED BY <1>1, <2>1, <2>2 DEF StationTuned
<1>2. CASE BanCheck
  BY <1>2, RateBanEffect DEF BanCheck
<1>3. CASE Ban \/ AutoBan
  BY <1>3, RateBanEffect DEF Ban, AutoBan
<1>4. CASE Skip \/ BanKey \/ Stop
  BY <1>4, KillEffect DEF Skip, BanKey, Stop
<1> QED BY <1>1, <1>2, <1>3, <1>4 DEF Ends

LEMMA LeavesEffect ==
  ASSUME TypeOK, NoStrayChild, Leaves, NEW p \in Pids
  PROVE  /\ proc'[p] = IF proc[p].phase # "none"
                       THEN Released(After(proc[p], "USR1")) ELSE proc[p]
         /\ pc' = "exited"
         /\ pausetime' = pausetime
BY ExitEffect DEF Leaves, QuitDelayed, QuitNow, Quit, Interrupt, Exit

LEMMA ReapDeadEffect ==
  ASSUME TypeOK, NoStrayChild, ReapDead, NEW p \in Pids
  PROVE  proc'[p].phase = "none" /\ (proc'[p] = NoChild \/ proc'[p] = proc[p])
BY DEF ReapDead, Hits, NoStrayChild, NoChild, TypeOK

LEMMA ContinuedEffect ==
  ASSUME TypeOK, NoStrayChild, ReapContinued, NEW p \in Pids
  PROVE  /\ proc'[p].phase = proc[p].phase
         /\ proc'[p].halt = proc[p].halt
         /\ proc'[p].got = proc[p].got \ (IF p = playfork THEN {"CONT"} ELSE {})
         /\ p # playfork => proc'[p] = proc[p]
         /\ "CONT" \in proc[playfork].got
         /\ playfork \in Pids
BY DEF ReapContinued, Hits, Continued, TypeOK, Child

LEMMA PlaybackEffect ==
  ASSUME TypeOK, NEW q \in Pids, Halt(q) \/ Finish(q) \/ Fail(q), NEW p \in Pids
  PROVE  /\ p # q => proc'[p] = proc[p]
         /\ proc[q].phase \in {"playing", "failing"}
         /\ proc'[q].phase \in {"playing", "failing", "zombie"}
         /\ proc'[q].halt = proc[q].halt \/ proc'[q].halt = "no"
              \/ (proc[q].halt = "pending" /\ proc'[q].halt = "yes")
         /\ proc'[q].got \in {proc[q].got, proc[q].got \ {"CONT"}}
         /\ proc[q].halt = "no" => proc'[q].halt = "no"
BY DEF Halt, Finish, Fail, TypeOK, Child

LEMMA StartEffect ==
  ASSUME TypeOK, NoStrayChild, Start, NEW p \in Pids
  PROVE  /\ proc[p].phase = "none"
         /\ proc'[p] = proc[p] \/ (proc'[p] = FreshChild /\ heard' = p /\ playfork' = p)
         /\ pausetime' = pausetime
<1>1. Head(playlist).no \in Pids
  BY HeadType DEF Start, MayStart, TypeOK, Track
<1>2. proc[p].phase = "none"
  BY DEF Start, MayStart, NoStrayChild, Pids
<1> QED BY <1>1, <1>2 DEF Start, child, TypeOK

-----------------------------------------------------------------------------
(* Pauses.  A process that the player does not take for paused runs, and   *)
(* has nothing to report.                                                  *)

LEMMA HaltStep ==
  ASSUME TypeOK, NoStrayChild, ReapInv, HaltInv, [Next]_vars
  PROVE  HaltInv'
<1> DEFINE Good(c, paused) ==
             /\ c.halt # "no" => paused
             /\ "CONT" \in c.got => c.halt = "no" /\ paused
             /\ c.phase = "none" => c = NoChild
<1>1. SUFFICES ASSUME NEW p \in Pids PROVE Good(proc'[p], pausetime')
  BY DEF HaltInv, PauseIsKnown
<1>2. /\ Good(proc[p], pausetime)
      /\ proc[p] \in Child
  BY DEF TypeOK, HaltInv, PauseIsKnown
<1>3. /\ NoChild.halt = "no" /\ NoChild.got = {} /\ NoChild.phase = "none"
      /\ FreshChild.halt = "no" /\ FreshChild.got = {} /\ FreshChild.phase = "playing"
  BY DEF NoChild, FreshChild
<1>4. ASSUME NEW c \in Child, NEW d, NEW paused,
             Good(c, paused), d.halt \in {c.halt, "no"}, d.phase = c.phase,
             "CONT" \in d.got => "CONT" \in c.got, c.phase # "none"
      PROVE  Good(d, paused)
  BY <1>4
<1>5. CASE Quiet
  BY <1>2, <1>5, QuietEffect
<1>6. CASE Ends
  <2>1. After(proc[p], "USR1").halt = proc[p].halt
    BY <1>2, AfterFields
  <2>2. "CONT" \in After(proc[p], "USR1").got => "CONT" \in proc[p].got
    BY <1>2, AfterFields
  <2>3. proc[p].phase # "none" => Good(After(proc[p], "USR1"), pausetime)
    BY <1>2, <1>4, <2>1, <2>2, AfterFields
  <2> QED BY <1>2, <1>6, <2>3, EndsEffect DEF Signalled
<1>7. CASE Leaves
  <2> DEFINE d == Released(After(proc[p], "USR1"))
  <2>1. After(proc[p], "USR1") \in Child
    BY <1>2, AfterType
  <2>2. d.phase = proc[p].phase /\ d.halt \in {proc[p].halt, "no"}
    BY <1>2, <2>1, AfterFields, ReleasedFields
  <2>3. "CONT" \in d.got => "CONT" \in proc[p].got
    BY <1>2, <2>1, AfterFields, ReleasedFields
  <2>4. proc[p].phase # "none" => Good(d, pausetime)
    BY <1>2, <1>4, <2>2, <2>3
  <2> QED BY <1>2, <1>7, <2>4, LeavesEffect
<1>8. CASE ReapContinued
  <2>1. ~pausetime' /\ "CONT" \in proc[playfork].got /\ playfork \in Pids
    BY <1>8, ContinuedEffect DEF ReapContinued
  <2>2. CASE p = playfork
    <3>1. proc'[p].halt = "no" /\ "CONT" \notin proc'[p].got /\ proc'[p].phase # "none"
      BY <1>2, <1>8, <2>1, <2>2, ContinuedEffect DEF ReapContinued, Hits
    <3> QED BY <3>1
  <2>3. CASE p # playfork
    <3>1. proc'[p] = NoChild
      BY <1>2, <1>8, <2>3, ContinuedEffect DEF NoStrayChild
    <3> QED BY <1>3, <3>1
  <2> QED BY <2>2, <2>3
<1>9. CASE ReapDead
  <2>1. proc'[p] = NoChild
    BY <1>2, <1>9, ReapDeadEffect
  <2> QED BY <1>3, <2>1
<1>10. CASE Start
  BY <1>2, <1>3, <1>10, StartEffect
<1>11. CASE Pause
  <2>1. CASE pausetime
    <3>1. After(proc[p], "CONT").halt = "no"
      BY <1>2, AfterFields
    <3>2. After(proc[p], "CONT").phase = proc[p].phase
      BY <1>2, AfterFields
    <3>3. proc'[p] = Signalled(proc[p], "CONT")
      BY <1>11, <2>1, KillEffect DEF Pause
    <3> QED BY <1>2, <1>11, <3>1, <3>2, <3>3 DEF Pause, Signalled
  <2>2. CASE ~pausetime
    <3>1. After(proc[p], "STOP").phase = proc[p].phase
      BY <1>2, AfterFields
    <3>2. "CONT" \notin After(proc[p], "STOP").got
      BY <1>2, <2>2, AfterFields
    <3>3. proc'[p] = Signalled(proc[p], "STOP")
      BY <1>11, <2>2, KillEffect DEF Pause
    <3> QED BY <1>2, <1>11, <3>1, <3>2, <3>3 DEF Pause, Signalled
  <2> QED BY <2>1, <2>2
<1>12. CASE Playback
  <2>1. PICK q \in Pids : Halt(q) \/ Finish(q) \/ Fail(q)
    BY <1>12 DEF Playback
  <2>2. pausetime' = pausetime
    BY <2>1 DEF Halt, Finish, Fail, ChildUnchanged
  <2>3. CASE p = q
    BY <1>2, <2>1, <2>2, <2>3, PlaybackEffect
  <2>4. CASE p # q
    BY <1>2, <2>1, <2>2, <2>4, PlaybackEffect
  <2> QED BY <2>3, <2>4
<1> QED BY <1>5, <1>6, <1>7, <1>8, <1>9, <1>10, <1>11, <1>12, StepKinds

LEMMA HaltInvariant == Spec => []HaltInv
<1>1. Init => HaltInv
  BY DEF Init, HaltInv, PauseIsKnown, NoChild
<1> QED BY <1>1, HaltStep, TypeCorrect, ChildInvariant, PTL DEF Spec

-----------------------------------------------------------------------------
(* The np-file.                                                            *)

LEMMA NpStep ==
  ASSUME TypeOK, NoStrayChild, ReapInv, NpInv, [Next]_vars
  PROVE  NpInv'
<1> SUFFICES ASSUME Running', ForkFaults = {}
             PROVE  npfile' = IF Between' THEN 0 ELSE playfork'
  BY DEF NpInv
<1> USE DEF Between, Unlooped, Running, loop, child, server, ghost
<1>1. CASE pc \in {"exited", "dead"}
  <2>1. pc' \in {"exited", "dead"}
    BY <1>1 DEF Next, Loop, Gone, Reap, Station, ChangeBlock, User, Playback, Running,
           ReapContinued, ReapDead, Reaped, QuitDelayed, EndStopped, EndNext,
           StationDelayed, StationSame, StationRefused, StationTuned, StationAborts,
           Calling, Change, Refill, RefillAborts, RefillNot, StartNot, Start, BanCheck,
           Timeout, Request, Skip, Ban, BanKey, Stop, Pause, QuitNow, QuitLater,
           Expand, ExpandAborts, AutoBan, Select, Interrupt, Exit, Halt, Finish, Fail,
           ChildUnchanged, vars
  <2> QED BY <2>1
<1>2. CASE pc \notin {"exited", "dead"}
  <2>0. npfile = IF Between THEN 0 ELSE playfork
    BY <1>2 DEF NpInv
  <2>1. CASE ReapContinued \/ Playback \/ UNCHANGED vars
    <3>1. UNCHANGED <<pc, playnext, npfile, playfork>>
      BY <2>1 DEF ReapContinued, Playback, Halt, Finish, Fail, ChildUnchanged, vars
    <3> QED BY <2>0, <3>1
  <2>2. CASE ReapDead
    <3>1. playnext' /\ pc' \in {"reap", "quit"} /\ npfile' = 0
      BY <2>2 DEF ReapDead, UnlinkNp
    <3> QED BY <3>1
  <2>3. CASE Reaped
    <3>1. UNCHANGED <<npfile, playfork, playnext>>
      BY <2>3 DEF Reaped
    <3>2. pc = "reap" /\ pc' = IF playnext THEN "ended"
                               ELSE IF HasChange THEN "change" ELSE "select"
      BY <2>3 DEF Reaped
    <3> QED BY <2>0, <3>1, <3>2
  <2>4. CASE EndStopped \/ EndNext
    <3>1. npfile' = npfile /\ playfork' = 0 /\ Between
      BY <2>4 DEF EndStopped, EndNext, ReapInv
    <3> QED BY <2>0, <3>1
  <2>5. CASE Station \/ Change \/ Refill \/ RefillAborts \/ RefillNot \/ StartNot
             \/ BanCheck \/ Timeout
    <3>1. UNCHANGED <<npfile, playfork>>
      BY <2>5 DEF Station, StationDelayed, StationSame, StationRefused, StationTuned,
             StationAborts, Abort, Change, Refill, RefillAborts, RefillNot, StartNot,
             BanCheck, Timeout
    <3>2. ~Between
      BY <2>5 DEF Station, StationDelayed, StationSame, StationRefused, StationTuned,
             StationAborts, Calling, Change, Refill, RefillAborts, RefillNot, StartNot,
             BanCheck, Timeout
    <3>3. ~Between'
      BY <2>5, StationPhases
         DEF Station, StationDelayed, StationSame, StationRefused, StationTuned,
             StationAborts, Calling, Abort, Change, Refill, RefillAborts, RefillNot,
             StartNot, BanCheck, Timeout, ReapInv
    <3> QED BY <2>0, <3>1, <3>2, <3>3
  <2>6. CASE Start
    <3>1. npfile' = playfork' /\ pc' = "banned"
      BY <2>6 DEF Start
    <3> QED BY <3>1
  <2>7. CASE User
    <3>1. UNCHANGED <<playfork, playnext>>
      BY <2>7, UserPhases
    <3>2. pc \notin {"exited", "dead", "select"} => pc' = "exited"
      BY <2>7 DEF User, Request, Skip, Ban, BanKey, Stop, Pause, QuitNow, QuitLater,
             Expand, ExpandAborts, AutoBan, Select, Interrupt, Exit
    <3>3. ~QuitNow => npfile' = npfile
      BY <2>7 DEF User, Request, Skip, Ban, BanKey, Stop, Pause, QuitLater,
             Expand, ExpandAborts, Abort, AutoBan, Interrupt
    <3>4. QuitNow => pc' = "exited"
      BY DEF QuitNow, Quit, Exit
    <3> QED BY <1>2, <2>0, <3>1, <3>2, <3>3, <3>4 DEF ReapInv
  <2>8. CASE QuitDelayed
    BY <2>8 DEF QuitDelayed, Quit, Exit
  <2> QED BY <2>1, <2>2, <2>3, <2>4, <2>5, <2>6, <2>7, <2>8
          DEF Next, Loop, Gone, Reap, ChangeBlock
<1> QED BY <1>1, <1>2

LEMMA NpInvariant == Spec => []NpInv
<1>1. Init => NpInv
  BY DEF Init, NpInv
<1> QED BY <1>1, NpStep, TypeCorrect, ChildInvariant, PTL DEF Spec

(* While the user can look, the np-file names the track that plays, and is *)
(* absent when none does, unless fork() or pipe() fail.                    *)
THEOREM NpFileIsHonest == Spec => []NpFileHonest
<1>1. ReapInv /\ NpInv => NpFileHonest
  BY DEF ReapInv, NpInv, NpFileHonest, Between, Unlooped, Running
<1> QED BY <1>1, NpInvariant, ChildInvariant, PTL

(* A pause and the continuation it ends with are never mistaken for each   *)
(* other: a process that stands still is one the player takes for paused.  *)
THEOREM PauseIsAlwaysKnown == Spec => []PauseIsKnown
<1>1. HaltInv => PauseIsKnown
  BY DEF HaltInv
<1> QED BY <1>1, HaltInvariant, PTL

-----------------------------------------------------------------------------
(* Leaving the program.                                                    *)

LEMMA ExitedOnly ==
  ASSUME [Next]_vars, pc \in {"exited", "dead"}
  PROVE  Playback \/ UNCHANGED vars
BY DEF Next, Loop, Gone, Reap, Station, ChangeBlock, User, Running,
       ReapContinued, ReapDead, Reaped, QuitDelayed, EndStopped, EndNext,
       StationDelayed, StationSame, StationRefused, StationTuned, StationAborts,
       Calling, Change, Refill, RefillAborts, RefillNot, StartNot, Start, BanCheck,
       Timeout, Request, Skip, Ban, BanKey, Stop, Pause, QuitNow, QuitLater,
       Expand, ExpandAborts, AutoBan, Select, Interrupt

LEMMA EnterExited ==
  ASSUME [Next]_vars, pc # "exited", pc' = "exited" PROVE Leaves
<1>1. ~Quiet /\ ~Ends
  BY DEF Quiet, Ends, Reaped, EndStopped, EndNext, StationDelayed, StationSame,
         StationRefused, StationTuned, StationAborts, Abort, Return, Change, Refill,
         RefillAborts, RefillNot, StartNot, BanCheck, Timeout, Request, Skip, Ban,
         BanKey, Stop, QuitLater, Expand, ExpandAborts, AutoBan, Select, vars
<1>2. ~ReapContinued /\ ~ReapDead /\ ~Start /\ ~Pause /\ ~Playback
  BY DEF ReapContinued, ReapDead, Start, Pause, Select, Playback, Halt, Finish,
         Fail, ChildUnchanged, loop
<1> QED BY <1>1, <1>2, StepKinds

(* Whoever quits has told the playback process to end, and outside a       *)
(* daemon the process is awake to hear it.                                 *)
THEOREM NobodyLeftBehind == Spec => []NoneLeftBehind
<1>1. Init => NoneLeftBehind
  BY DEF Init, NoneLeftBehind
<1>2. TypeOK /\ NoStrayChild /\ NoneLeftBehind /\ [Next]_vars => NoneLeftBehind'
  <2> SUFFICES ASSUME TypeOK, NoStrayChild, NoneLeftBehind, [Next]_vars,
                      pc' = "exited", NEW p \in Pids, Alive(p)'
               PROVE  /\ "USR1" \in proc'[p].got
                      /\ proc'[p].halt = "no" \/ Background
    BY DEF NoneLeftBehind, Audible
  <2>0. proc[p] \in Child
    BY DEF TypeOK
  <2>1. CASE pc = "exited"
    <3>0. Alive(p) => "USR1" \in proc[p].got /\ (proc[p].halt = "no" \/ Background)
      BY <2>1 DEF NoneLeftBehind, Audible
    <3>1. CASE UNCHANGED vars
      BY <3>0, <3>1 DEF vars, Alive
    <3>2. CASE Playback
      <4>1. PICK q \in Pids : Halt(q) \/ Finish(q) \/ Fail(q)
        BY <3>2 DEF Playback
      <4>2. CASE p = q
        <5>1. Alive(p)
          BY <4>1, <4>2, PlaybackEffect DEF Alive
        <5>2. "USR1" \in proc'[p].got /\ (proc[p].halt = "no" => proc'[p].halt = "no")
          BY <3>0, <4>1, <4>2, <5>1, PlaybackEffect
        <5> QED BY <3>0, <5>1, <5>2
      <4>3. CASE p # q
        BY <3>0, <4>1, <4>3, PlaybackEffect DEF Alive
      <4> QED BY <4>2, <4>3
    <3> QED BY <2>1, <3>1, <3>2, ExitedOnly
  <2>2. CASE pc # "exited"
    <3>1. Leaves
      BY <2>2, EnterExited
    <3>2. proc[p].phase # "none"
      BY <3>1, LeavesEffect DEF Alive
    <3>3. proc'[p] = Released(After(proc[p], "USR1"))
      BY <3>1, <3>2, LeavesEffect
    <3>4. After(proc[p], "USR1") \in Child /\ "USR1" \in After(proc[p], "USR1").got
      BY <2>0, AfterType, AfterFields
    <3> QED BY <3>3, <3>4, ReleasedFields
  <2> QED BY <2>1, <2>2
<1> QED BY <1>1, <1>2, TypeCorrect, ChildInvariant, PTL DEF Spec

-----------------------------------------------------------------------------
(* Banned artists.                                                         *)

LEMMA BanStep ==
  ASSUME TypeOK, NoStrayChild, ReapInv, BanInv, [Next]_vars
  PROVE  BanInv'
<1> SUFFICES ASSUME NEW p \in Pids, Alive(p)', pc' # "banned", track'.by \in banlist'
             PROVE  "USR1" \in proc'[p].got
  BY DEF BanInv, Audible
<1> USE DEF Alive
<1>0. /\ proc[p] \in Child
      /\ Alive(p) /\ pc # "banned" /\ track.by \in banlist => "USR1" \in proc[p].got
  BY DEF TypeOK, BanInv, Audible
<1>1. CASE Quiet
  <2>1. pc # "banned"
    BY <1>1 DEF Quiet, Reaped, EndStopped, EndNext, StationDelayed, StationSame,
           StationRefused, StationAborts, Calling, Change, Refill, RefillAborts,
           RefillNot, StartNot, Request, QuitLater, Expand, ExpandAborts, Timeout,
           Select, vars
  <2>2. CASE EndStopped
    BY <1>1, <2>2, QuietEffect DEF EndStopped, ReapInv
  <2>3. CASE ~EndStopped
    <3>1. UNCHANGED <<track, banlist>>
      BY <1>1, <2>3
         DEF Quiet, Reaped, EndNext, StationDelayed, StationSame, StationRefused,
             StationAborts, Change, Refill, RefillAborts, RefillNot, StartNot,
             Request, QuitLater, Expand, ExpandAborts, Abort, Timeout, vars
    <3> QED BY <1>0, <1>1, <2>1, <3>1, QuietEffect
  <2> QED BY <2>2, <2>3
<1>2. CASE Ends
  <2>1. proc[p].phase = proc'[p].phase
    BY <1>0, <1>2, EndsEffect, AfterFields DEF Signalled
  <2>2. "USR1" \in proc[p].got => "USR1" \in proc'[p].got
    BY <1>0, <1>2, EndsEffect, AfterFields DEF Signalled
  <2>3. "USR1" \in Signalled(proc[p], "USR1").got
    BY <1>0, <2>1, AfterFields DEF Signalled
  <2>4. CASE AutoBan
    BY <2>3, <2>4, RateBanEffect DEF AutoBan
  <2>5. CASE BanCheck
    BY <2>3, <2>5, RateBanEffect DEF BanCheck, IsBanned
  <2>6. CASE StationTuned \/ Skip \/ Ban \/ BanKey \/ Stop
    <3>1. UNCHANGED <<track, banlist>> /\ pc # "banned"
      BY <2>6 DEF StationTuned, Skip, Ban, BanKey, Stop, Select, Calling
    <3> QED BY <1>0, <2>1, <2>2, <3>1
  <2> QED BY <1>2, <2>4, <2>5, <2>6 DEF Ends
<1>3. CASE Leaves
  <2>1. proc'[p] = IF proc[p].phase # "none"
                   THEN Released(After(proc[p], "USR1")) ELSE proc[p]
    BY <1>3, LeavesEffect
  <2>2. After(proc[p], "USR1") \in Child /\ "USR1" \in After(proc[p], "USR1").got
    BY <1>0, AfterType, AfterFields
  <2> QED BY <2>1, <2>2, ReleasedFields
<1>4. CASE ReapContinued
  <2>1. UNCHANGED <<track, banlist, pc>>
    BY <1>4 DEF ReapContinued, loop
  <2> QED BY <1>0, <1>4, <2>1, ContinuedEffect DEF ReapContinued
<1>5. CASE ReapDead
  BY <1>5, ReapDeadEffect
<1>6. CASE Start
  BY <1>6 DEF Start
<1>7. CASE Pause
  <2>1. PICK sig \in {"CONT", "STOP"} : Kill(sig)
    BY <1>7 DEF Pause
  <2>2. proc'[p] = Signalled(proc[p], sig)
    BY <2>1, KillEffect
  <2>3. UNCHANGED <<track, banlist>> /\ pc # "banned"
    BY <1>7 DEF Pause, Select, radio
  <2> QED BY <1>0, <2>2, <2>3, AfterFields DEF Signalled
<1>8. CASE Playback
  <2>1. PICK q \in Pids : Halt(q) \/ Finish(q) \/ Fail(q)
    BY <1>8 DEF Playback
  <2>2. UNCHANGED <<track, banlist, pc>>
    BY <2>1 DEF Halt, Finish, Fail, ChildUnchanged, loop
  <2> QED BY <1>0, <2>1, <2>2, PlaybackEffect
<1> QED BY <1>1, <1>2, <1>3, <1>4, <1>5, <1>6, <1>7, <1>8, StepKinds

LEMMA BanInvariant == Spec => []BanInv
<1>1. Init => BanInv
  BY DEF Init, BanInv
<1> QED BY <1>1, BanStep, TypeCorrect, ChildInvariant, PTL DEF Spec

(* When the loop waits for input, a track by a banned artist has been told *)
(* to end, whichever came first, the ban or the track.                     *)
THEOREM AutobanIsEnforced == Spec => []AutobanEnforced
<1>1. BanInv => AutobanEnforced
  BY DEF BanInv, AutobanEnforced
<1> QED BY <1>1, BanInvariant, PTL

-----------------------------------------------------------------------------
(* Signals that hit something else than the playback process.              *)

Tolerated == IF "fork" \in ForkFaults THEN {"everyone"} ELSE {}

(* Outside the span in which playfork holds a reaped pid, only a failed    *)
(* fork and an idle player lead a signal astray.                           *)
LEMMA FewMisses ==
  ASSUME TypeOK, ForkInv, ~Between, Running
  PROVE  Misses \ {"group"} \subseteq Tolerated /\ (playfork # 0 => Misses \subseteq Tolerated)
BY DEF Misses, ForkInv, Hits, Tolerated, TypeOK

(* A daemon has no keyboard: nobody asks for a delayed quit, and every     *)
(* command looks at playfork before it signals.                            *)
DaemonInv == ~delayquit /\ pc # "quit" /\ NoWildSignal

LEMMA DaemonStep ==
  ASSUME Background, TypeOK, ReapInv, ForkInv, DaemonInv, [Next]_vars
  PROVE  DaemonInv'
<1>0. \A c \in KeyCommands : c \notin Commands
  BY CommandsAssumption DEF CommandsAssumption, NetCommands, KeyCommands
<1>1. ~delayquit'
  <2>1. ~QuitLater
    BY <1>0 DEF QuitLater, Select, KeyCommands
  <2>2. CASE delayquit' = delayquit
    BY <2>2 DEF DaemonInv
  <2>3. CASE Station
    <3>1. delayquit' = FALSE \/ delayquit' = delayquit
      BY <2>3 DEF Station, StationDelayed, StationSame, StationRefused, StationTuned,
             StationAborts
    <3> QED BY <2>2, <3>1
  <2>4. CASE ~Station
    <3>1. delayquit' = delayquit
      BY <2>1, <2>4 DEF Next, Loop, Gone, Reap, ChangeBlock, User, Playback,
         ReapContinued, ReapDead, Reaped, QuitDelayed, Quit, EndStopped, EndNext,
         Change, Refill, RefillAborts, RefillNot, StartNot, Start, BanCheck, Timeout,
         Request, Skip, Ban, BanKey, Stop, Pause, QuitNow, Expand, ExpandAborts,
         AutoBan, Interrupt, Exit, Halt, Finish, Fail, ChildUnchanged, vars
    <3> QED BY <2>2, <3>1
  <2> QED BY <2>3, <2>4
<1>2. pc' # "quit"
  BY DEF DaemonInv, Next, Loop, Gone, Reap, Station, ChangeBlock, User, Playback,
         ReapContinued, ReapDead, Reaped, QuitDelayed, Quit, EndStopped, EndNext,
         StationDelayed, StationSame, StationRefused, StationTuned, StationAborts,
         Abort, Return, Change, Refill, RefillAborts, RefillNot, StartNot, Start,
         BanCheck, Timeout, Request, Skip, Ban, BanKey, Stop, Pause, QuitNow,
         QuitLater, Expand, ExpandAborts, AutoBan, Select, Interrupt, Exit, Halt,
         Finish, Fail, ChildUnchanged, loop, vars
<1>3. wild' = wild \/ \E w \in SUBSET Tolerated : wild' = wild \cup w
  <2>1. CASE StationTuned \/ Ban \/ BanCheck \/ Skip \/ Stop \/ Pause
    <3>1. wild' = wild \/ (wild' = wild \cup Misses /\ playfork # 0)
      BY <2>1 DEF StationTuned, Ban, BanCheck, RateBan, Skip, Stop, Pause, Kill
    <3>2. Running /\ ~Between
      BY <2>1 DEF StationTuned, Ban, BanCheck, Skip, Stop, Pause, Select, Calling,
             Running, Between, Unlooped
    <3> QED BY <3>1, <3>2, FewMisses
  <2>2. CASE BanKey \/ AutoBan \/ Interrupt \/ QuitLater \/ QuitDelayed
    BY <1>0, <2>2 DEF BanKey, AutoBan, Interrupt, QuitLater, QuitDelayed, Select,
           KeyCommands, DaemonInv
  <2>3. CASE QuitNow
    <3>1. wild' = wild \cup (Misses \ {"group"}) /\ Running /\ ~Between
      BY <2>3 DEF QuitNow, Quit, Exit, Running, Between, Unlooped
    <3> QED BY <3>1, FewMisses
  <2>4. CASE Quiet \/ ReapContinued \/ ReapDead \/ Start \/ Playback
    BY <2>4 DEF Quiet, Reaped, EndStopped, EndNext, StationDelayed, StationSame,
           StationRefused, StationAborts, Change, Refill, RefillAborts, RefillNot,
           StartNot, Request, QuitLater, Expand, ExpandAborts, Abort, Timeout, vars,
           ReapContinued, ReapDead, Start, Playback, Halt, Finish, Fail,
           ChildUnchanged, ghost
  <2> QED BY <2>1, <2>2, <2>3, <2>4, StepKinds DEF Ends, Leaves
<1> QED BY <1>1, <1>2, <1>3 DEF DaemonInv, NoWildSignal, Tolerated

(* A daemon signals only its own playback process, as long as no fork()    *)
(* fails.  At a terminal the keys for a ban, a delayed quit and ^C do not  *)
(* look at playfork first.                                                 *)
THEOREM NothingElseSignalled == ASSUME Background PROVE Spec => []NoWildSignal
<1>1. Init => DaemonInv
  <2> SUFFICES ASSUME Init PROVE DaemonInv
    OBVIOUS
  <2>1. ~delayquit /\ pc # "quit" /\ wild = {}
    BY DEF Init
  <2> QED BY <2>1 DEF DaemonInv, NoWildSignal
<1>2. DaemonInv => NoWildSignal
  BY DEF DaemonInv
<1>3. TypeOK /\ ReapInv /\ ForkInv /\ DaemonInv /\ [Next]_vars => DaemonInv'
  BY DaemonStep
<1> QED BY <1>1, <1>2, <1>3, TypeCorrect, ChildInvariant, ForkInvariant, PTL DEF Spec

-----------------------------------------------------------------------------
(* The gap between two tracks.                                             *)

(* A process that is signalled by a step of Ends goes with INTERRUPTED, or *)
(* playback is given up.                                                   *)
LEMMA EndsFlags ==
  ASSUME TypeOK, NoStrayChild, Ends, NEW p \in Pids, proc[p].phase # "none"
  PROVE  /\ error' = error
         /\ flags \subseteq flags'
         /\ \/ "STOPPED" \in flags'
            \/ "INTERRUPTED" \in flags' /\ proc'[p] = Signalled(proc[p], "USR1")
            \/ proc'[p] = proc[p] /\ flags' = flags
<1>1. playfork # 0
  BY DEF NoStrayChild, Pids
<1>2. CASE StationTuned
  <2>1. proc'[p] = Signalled(proc[p], "USR1")
    BY <1>1, <1>2, KillEffect DEF StationTuned
  <2>2. flags \cup {"INTERRUPTED"} \subseteq flags' /\ error' = error
    BY <1>1, <1>2 DEF StationTuned, Return
  <2> QED BY <2>1, <2>2
<1>3. CASE BanCheck
  BY <1>1, <1>3, RateBanEffect DEF BanCheck
<1>4. CASE Ban \/ AutoBan
  BY <1>1, <1>4, RateBanEffect DEF Ban, AutoBan
<1>5. CASE Skip \/ BanKey
  BY <1>5, KillEffect DEF Skip, BanKey
<1>6. CASE Stop
  BY <1>6 DEF Stop
<1> QED BY <1>2, <1>3, <1>4, <1>5, <1>6 DEF Ends

(* Steps that leave the loop's own account of the last track alone.        *)
LEMMA GapLoop ==
  ASSUME TypeOK, NoStrayChild, ReapInv, GapInv, [Next]_vars, Running', Running
  PROVE  /\ playnext' /\ pc' # "banned" /\ ~GivenUp' =>
              ("INTERRUPTED" \in flags' <=> lastKilled')
         /\ playnext' /\ pc' \in {"change", "refill", "start"} => ~GivenUp' /\ playfork' = 0
<1> USE DEF GapInv, GivenUp, loop, child, ghost
<1>1. CASE ReapDead
  <2>1. playfork \in Pids /\ proc[playfork].phase # "none"
    BY <1>1 DEF ReapDead, Hits
  <2>2. /\ ~GivenUp => ("INTERRUPTED" \in flags <=> "USR1" \in proc[playfork].got)
    BY <2>1
  <2>3. lastKilled' = ("USR1" \in proc[playfork].got) /\ UNCHANGED <<flags, error>>
    BY <1>1 DEF ReapDead
  <2>4. pc' \in {"reap", "quit"}
    BY <1>1 DEF ReapDead
  <2> QED BY <2>2, <2>3, <2>4
<1>2. CASE Reaped \/ QuitDelayed \/ EndNext
  <2>1. CASE Reaped
    <3>1. UNCHANGED <<playnext, flags, error, lastKilled, playfork>> /\ pc = "reap"
      BY <2>1 DEF Reaped
    <3>2. playnext => pc' = "ended"
      BY <2>1 DEF Reaped
    <3> QED BY <3>1, <3>2
  <2>2. CASE QuitDelayed
    BY <2>2 DEF QuitDelayed, Quit, Exit, Running
  <2>3. CASE EndNext
    <3>1. UNCHANGED <<playnext, flags, error, lastKilled>> /\ playfork' = 0
      BY <2>3 DEF EndNext
    <3>2. ~GivenUp /\ pc = "ended" /\ playnext
      BY <2>3 DEF EndNext, ReapInv
    <3> QED BY <3>1, <3>2
  <2> QED BY <1>2, <2>1, <2>2, <2>3
<1>3. CASE \/ ReapContinued \/ EndStopped \/ Station \/ BanCheck \/ Timeout \/ User
  <2>1. CASE EndStopped \/ BanCheck
    <3>1. ~playnext'
      BY <2>1 DEF EndStopped, BanCheck
    <3> QED BY <3>1
  <2>2. CASE ReapContinued
    <3>1. ~playnext
      BY <2>2 DEF ReapContinued, ReapInv, Hits
    <3>2. playnext' = playnext
      BY <2>2 DEF ReapContinued
    <3> QED BY <3>1, <3>2
  <2>3. CASE Station \/ Timeout \/ User
    <3>1. playnext' = playnext
      BY <2>3, StationPhases, UserPhases DEF Timeout
    <3>2. ~playnext \/ ~Running'
      BY <2>3 DEF Station, StationDelayed, StationSame, StationRefused, StationTuned,
         StationAborts, Calling, Timeout, User, Request, Skip, Ban, BanKey, Stop,
         Pause, QuitNow, QuitLater, Expand, ExpandAborts, AutoBan, Select, Interrupt,
         Exit, Running, ReapInv
    <3> QED BY <3>1, <3>2
  <2> QED BY <1>3, <2>1, <2>2, <2>3
<1>4. CASE Change \/ RefillNot
  <2>1. UNCHANGED <<error, lastKilled, playfork>>
    BY <1>4 DEF Change, RefillNot
  <2>2. ~playnext' \/ UNCHANGED <<playnext, flags>>
    BY <1>4 DEF Change, RefillNot
  <2>3. pc \in {"change", "refill"}
    BY <1>4 DEF Change, RefillNot
  <2> QED BY <2>1, <2>2, <2>3
<1>5. CASE Refill \/ RefillAborts
  <2>1. RefillAborts => ~Running'
    BY DEF RefillAborts, Abort, Running
  <2>2. Refill => ~playnext' \/ UNCHANGED <<playnext, flags>>
    BY DEF Refill
  <2>3. Refill => UNCHANGED <<error, lastKilled, playfork>> /\ pc = "refill"
    BY DEF Refill
  <2> QED BY <1>5, <2>1, <2>2, <2>3
<1>6. CASE StartNot \/ Start
  <2>1. pc' = "banned"
    BY <1>6 DEF StartNot, Start
  <2> QED BY <2>1
<1>7. CASE Playback
  <2>1. PICK q \in Pids : Halt(q) \/ Finish(q) \/ Fail(q)
    BY <1>7 DEF Playback
  <2>2. UNCHANGED <<pc, playnext, playfork, lastKilled>>
    BY <2>1 DEF Halt, Finish, Fail, ChildUnchanged
  <2>3. proc[q].phase # "none" /\ playfork # 0
    BY <2>1, PlaybackEffect DEF NoStrayChild, Pids
  <2>4. UNCHANGED <<flags, error>> \/ error'
    BY <2>1 DEF Halt, Finish, Fail
  <2> QED BY <2>2, <2>3, <2>4
<1>8. CASE UNCHANGED vars
  <2>1. UNCHANGED <<pc, playnext, flags, error, lastKilled, playfork>>
    BY <1>8 DEF vars
  <2> QED BY <2>1
<1> QED BY <1>1, <1>2, <1>3, <1>4, <1>5, <1>6, <1>7, <1>8
        DEF Next, Loop, Gone, Reap, ChangeBlock

LEMMA GapChild ==
  ASSUME TypeOK, NoStrayChild, ReapInv, GapInv, [Next]_vars, Running', Running,
         NEW p \in Pids, proc'[p].phase # "none", ~GivenUp'
  PROVE  "INTERRUPTED" \in flags' <=> "USR1" \in proc'[p].got
<1> USE DEF GivenUp
<1>0. /\ proc[p] \in Child
      /\ proc[p].phase # "none" /\ ~GivenUp =>
           ("INTERRUPTED" \in flags <=> "USR1" \in proc[p].got)
  BY DEF TypeOK, GapInv
<1>1. CASE Quiet
  <2>1. proc[p].phase # "none" /\ proc'[p] = proc[p] /\ playfork # 0
    BY <1>1, QuietEffect DEF NoStrayChild, Pids
  <2>2. ~EndStopped
    BY <2>1 DEF EndStopped, ReapInv
  <2>3. error' = error
    BY <1>1, <2>2
       DEF Quiet, Reaped, EndNext, StationDelayed, StationSame, StationRefused,
           StationAborts, Change, Refill, RefillAborts, RefillNot, StartNot,
           Request, QuitLater, Expand, ExpandAborts, Abort, Timeout, vars
  <2>4. flags \ {"CHANGED"} \subseteq flags' /\ flags' \subseteq flags \cup {"STOPPED"}
    BY <1>1, <2>1, <2>2
       DEF Quiet, Reaped, EndNext, StationDelayed, StationSame, StationRefused,
           StationAborts, Return, Change, Refill, RefillAborts, RefillNot, StartNot,
           Request, QuitLater, Expand, ExpandAborts, Abort, Timeout, vars
  <2> QED BY <1>0, <2>1, <2>3, <2>4
<1>2. CASE Ends
  <2>1. proc[p].phase # "none"
    BY <1>0, <1>2, EndsEffect, AfterFields DEF Signalled
  <2>2. "USR1" \in Signalled(proc[p], "USR1").got
    BY <1>0, <2>1, AfterFields DEF Signalled
  <2> QED BY <1>0, <1>2, <2>1, <2>2, EndsFlags
<1>3. CASE Leaves
  BY <1>3, LeavesEffect DEF Running
<1>4. CASE ReapContinued
  <2>1. UNCHANGED <<flags, error>>
    BY <1>4 DEF ReapContinued
  <2> QED BY <1>0, <1>4, <2>1, ContinuedEffect
<1>5. CASE ReapDead
  BY <1>5, ReapDeadEffect
<1>6. CASE Start
  <2>1. proc'[p] = FreshChild
    BY <1>6, StartEffect
  <2>2. "INTERRUPTED" \notin flags'
    BY <1>6 DEF Start, ClearedByStart
  <2> QED BY <2>1, <2>2 DEF FreshChild, NoChild
<1>7. CASE Pause
  <2>1. PICK sig \in {"CONT", "STOP"} : Kill(sig)
    BY <1>7 DEF Pause
  <2>2. proc'[p] = Signalled(proc[p], sig)
    BY <2>1, KillEffect
  <2>3. UNCHANGED <<flags, error>>
    BY <1>7 DEF Pause
  <2> QED BY <1>0, <2>2, <2>3, AfterFields DEF Signalled
<1>8. CASE Playback
  <2>1. PICK q \in Pids : Halt(q) \/ Finish(q) \/ Fail(q)
    BY <1>8 DEF Playback
  <2>2. UNCHANGED <<flags, error>>
    BY <2>1 DEF Halt, Finish, Fail
  <2> QED BY <1>0, <2>1, <2>2, PlaybackEffect
<1> QED BY <1>1, <1>2, <1>3, <1>4, <1>5, <1>6, <1>7, <1>8, StepKinds

LEMMA GapInvariant == Spec => []GapInv
<1>1. Init => GapInv
  <2> SUFFICES ASSUME Init PROVE GapInv
    OBVIOUS
  <2>1. ~playnext /\ \A p \in Pids : proc[p].phase = "none"
    BY DEF Init, NoChild
  <2> QED BY <2>1 DEF GapInv
<1>2. TypeOK /\ NoStrayChild /\ ReapInv /\ GapInv /\ [Next]_vars => GapInv'
  <2> SUFFICES ASSUME TypeOK, NoStrayChild, ReapInv, GapInv, [Next]_vars, Running'
               PROVE  GapInv'
    BY DEF GapInv
  <2>1. Running
    BY ExitedOnly DEF Running, Playback, Halt, Finish, Fail, ChildUnchanged, loop, vars
  <2> QED BY <2>1, GapLoop, GapChild DEF GapInv
<1> QED BY <1>1, <1>2, TypeCorrect, ChildInvariant, PTL DEF Spec

(* A gap is waited between two tracks exactly when the first of them ended *)
(* by itself.                                                              *)
THEOREM GapIsHonest == Spec => []GapHonest
<1>1. GapInv => GapHonest
  BY DEF GapInv, GapHonest, Running
<1> QED BY <1>1, GapInvariant, PTL

-----------------------------------------------------------------------------
(* Delayed stations.                                                       *)

LEMMA DelayStep ==
  ASSUME TypeOK, NoStrayChild, ReapInv, DelayInv, [Next]_vars
  PROVE  DelayInv'
<1> USE DEF DelayInv, loop, child, radio
<1>1. CASE Reap
  <2>1. CASE ReapContinued \/ ReapDead \/ QuitDelayed
    <3>1. UNCHANGED <<playfork, flags, nextstation>>
      BY <2>1 DEF ReapContinued, ReapDead, QuitDelayed, Quit, Exit
    <3>2. pc' \in {"reap", "quit", "exited"}
      BY <2>1 DEF ReapContinued, ReapDead, QuitDelayed, Quit, Exit
    <3> QED BY <3>1, <3>2
  <2>2. CASE Reaped
    <3>1. UNCHANGED <<playfork, flags, nextstation>>
      BY <2>2 DEF Reaped
    <3>2. pc' \in {"ended", "select"} \/ (pc' = "change" /\ "CHANGED" \in flags)
      BY <2>2 DEF Reaped, HasChange
    <3> QED BY <3>1, <3>2
  <2>3. CASE EndStopped \/ EndNext
    <3>1. playfork' = 0 /\ nextstation' = nextstation /\ pc' \in {"reap", "change"}
      BY <2>3 DEF EndStopped, EndNext
    <3> QED BY <3>1
  <2> QED BY <1>1, <2>1, <2>2, <2>3 DEF Reap
<1>2. CASE Station
  <2>1. playfork' = playfork
    BY <1>2, StationPhases
  <2>2. CASE StationDelayed
    <3>1. DelayChange /\ playfork # 0 /\ Return(FALSE, flags, nextstation')
      BY <2>2 DEF StationDelayed, Delays, Return
    <3>2. pc \in {"station", "delayed"}
      BY <2>2 DEF StationDelayed, Calling
    <3> QED BY <2>1, <3>1, <3>2 DEF Return
  <2>3. CASE StationSame \/ StationRefused
    <3>1. Return(FALSE, flags, nextstation) /\ pc \in {"station", "delayed"}
      BY <2>3 DEF StationSame, StationRefused, Calling
    <3>2. CASE pc = "station"
      BY <2>1, <3>1, <3>2 DEF Return
    <3>3. CASE pc = "delayed"
      BY <2>1, <3>1, <3>3 DEF Return
    <3> QED BY <3>1, <3>2, <3>3
  <2>4. CASE StationTuned
    <3>1. DelayChange => playfork = 0
      BY <2>4 DEF StationTuned, Delays
    <3>2. /\ pc = "station" => nextstation' = nextstation /\ pc' = "reap"
          /\ pc = "delayed" => nextstation' = NoUrl /\ pc' = "refill"
          /\ pc \in {"station", "delayed"}
      BY <2>4 DEF StationTuned, Calling, Return
    <3> QED BY <2>1, <3>1, <3>2
  <2>5. CASE StationAborts
    BY <2>5 DEF StationAborts, Abort
  <2> QED BY <1>2, <2>2, <2>3, <2>4, <2>5 DEF Station
<1>3. CASE ChangeBlock
  <2>1. CASE Change
    <3>1. UNCHANGED <<playfork, nextstation>> /\ pc = "change" /\ flags' \subseteq flags
      BY <2>1 DEF Change
    <3>2. \/ pc' = "delayed" /\ nextstation # NoUrl
          \/ pc' = "refill" /\ nextstation = NoUrl
      BY <2>1 DEF Change, TakesDelayed
    <3> QED BY <3>1, <3>2
  <2>2. CASE Refill \/ RefillAborts \/ RefillNot \/ StartNot \/ BanCheck
    <3>1. UNCHANGED <<playfork, nextstation>> /\ pc' \in {"reap", "start", "banned", "select", "dead"}
      BY <2>2 DEF Refill, RefillAborts, Abort, RefillNot, StartNot, BanCheck
    <3>2. flags' \subseteq flags \cup {"INTERRUPTED"}
      BY <2>2, RateBanFlags
         DEF Refill, RefillAborts, Abort, RefillNot, StartNot, BanCheck
    <3>3. pc' = "start" => pc = "refill"
      BY <2>2 DEF Refill, RefillAborts, Abort, RefillNot, StartNot, BanCheck
    <3> QED BY <3>1, <3>2, <3>3
  <2>3. CASE Start
    <3>1. nextstation' = nextstation /\ pc' = "banned"
      BY <2>3 DEF Start
    <3>2. ~Background => "CHANGED" \notin flags'
      BY <2>3 DEF Start, ClearedByStart
    <3> QED BY <3>1, <3>2
  <2> QED BY <1>3, <2>1, <2>2, <2>3 DEF ChangeBlock
<1>4. CASE User
  <2>1. playfork' = playfork
    BY <1>4, UserPhases
  <2>2. nextstation' = nextstation /\ pc' \in {"reap", "station", "exited", "dead"}
    BY <1>4 DEF User, Request, Skip, Ban, BanKey, Stop, Pause, QuitNow, Quit,
         QuitLater, Expand, ExpandAborts, AutoBan, Interrupt, Abort, Exit, Select
  <2>3. flags' \subseteq flags \cup {"INTERRUPTED", "STOPPED"}
    BY <1>4, RateBanFlags
       DEF User, Request, Skip, Ban, BanKey, Stop, Pause, QuitNow, Quit,
         QuitLater, Expand, ExpandAborts, AutoBan, Interrupt, Abort, Exit
  <2> QED BY <2>1, <2>2, <2>3
<1>5. CASE Playback \/ Timeout \/ UNCHANGED vars
  <2>1. UNCHANGED <<playfork, nextstation>> /\ (pc' = pc \/ pc' = "reap")
    BY <1>5 DEF Playback, Halt, Finish, Fail, ChildUnchanged, Timeout, vars
  <2>2. flags' \subseteq flags \cup {"INTERRUPTED"}
    BY <1>5 DEF Playback, Halt, Finish, Fail, Timeout, vars
  <2> QED BY <2>1, <2>2
<1> QED BY <1>1, <1>2, <1>3, <1>4, <1>5 DEF Next, Loop, Gone

LEMMA DelayInvariant == Spec => []DelayInv
<1>1. Init => DelayInv
  BY DEF Init, DelayInv
<1> QED BY <1>1, DelayStep, TypeCorrect, ChildInvariant, PTL DEF Spec

(* No further track starts while a delayed station waits to be taken up.   *)
THEOREM NothingOvertakesDelayed == Spec => DelayedIsNext
<1>1. DelayInv /\ [Next]_vars => [Start => nextstation = NoUrl]_vars
  BY DEF DelayInv, Start
<1> QED BY <1>1, DelayInvariant, PTL DEF Spec, DelayedIsNext

(* At a terminal that delays changes, a delayed station is taken up when   *)
(* the track that delayed it is over.  A daemon keeps CHANGED from one     *)
(* track to the next and may take it up at once.                           *)
THEOREM DelayedIsPatient ==
  ASSUME DelayChange => ~Background PROVE Spec => []DelayedWaits
<1>1. DelayInv => DelayedWaits
  BY DEF DelayInv, DelayedWaits
<1> QED BY <1>1, DelayInvariant, PTL

-----------------------------------------------------------------------------
(* The tracks of the playlist and the station they are of.                 *)

OneStation(list, st) == \A i \in DOMAIN list : list[i].st = st

LEMMA BatchStation ==
  ASSUME NEW st, NEW b \in Batches(st), NEW i \in DOMAIN b PROVE b[i].st = st
<1>1. PICK k \in BatchSizes(st) :
        b \in {[j \in 1 .. k |-> Number(j, st, by[j])] : by \in [1 .. k -> Artists]}
  BY DEF Batches
<1>2. PICK by \in [1 .. k -> Artists] : b = [j \in 1 .. k |-> Number(j, st, by[j])]
  BY <1>1
<1> QED BY <1>2 DEF Number

(* Fresh tracks of one station behind tracks of the same, or alone.        *)
LEMMA PushStation ==
  ASSUME TypeOK, NEW st \in Stations \cup {NoStation}, NEW b \in Batches(st),
         NEW a \in Seq(Track), OneStation(a, st)
  PROVE  OneStation(Push(a, b), st)
<1>1. b \in Seq(Track)
  BY BatchesType
<1>2. \A i \in 1 .. Len(b) : b[i].st = st
  BY <1>1, BatchStation, LenProperties
<1>3. /\ DOMAIN (a \o b) = 1 .. Len(a) + Len(b)
      /\ \A i \in 1 .. Len(a) : (a \o b)[i] = a[i]
      /\ \A i \in Len(a) + 1 .. Len(a) + Len(b) : (a \o b)[i] = b[i - Len(a)]
      /\ Len(a) \in Nat /\ Len(b) \in Nat /\ DOMAIN a = 1 .. Len(a)
  BY <1>1, ConcatProperties, LenProperties
<1>4. ASSUME NEW i \in 1 .. Len(a) + Len(b) PROVE (a \o b)[i].st = st
  <2>1. CASE i <= Len(a)
    BY <1>3, <2>1 DEF OneStation
  <2>2. CASE i > Len(a)
    <3>1. i - Len(a) \in 1 .. Len(b) /\ i \in Len(a) + 1 .. Len(a) + Len(b)
      BY <1>3, <2>2
    <3> QED BY <1>2, <1>3, <3>1
  <2> QED BY <1>3, <2>1, <2>2
<1> QED BY <1>3, <1>4 DEF Push, OneStation

LEMMA ShiftStation ==
  ASSUME NEW list \in Seq(Track), NEW st, OneStation(list, st)
  PROVE  OneStation(Shift(list), st)
<1>1. CASE list = <<>>
  BY <1>1 DEF Shift, OneStation
<1>2. CASE list # <<>>
  BY <1>2, HeadTailProperties, LenProperties, EmptySeq DEF Shift, OneStation
<1> QED BY <1>1, <1>2

LEMMA StationStep ==
  ASSUME TypeOK, UpcomingFromCurrent, [Next]_vars, Running', "lostReply" \notin ServerFaults
  PROVE  tuned' = current' /\ OneStation(playlist', current')
<1> USE DEF radio, server
<1>0. Running
  BY ExitedOnly DEF Running, Playback, Halt, Finish, Fail, ChildUnchanged, loop, vars
<1>1. tuned = current /\ OneStation(playlist, current)
  BY <1>0 DEF UpcomingFromCurrent, OneStation
<1>2. OneStation(<<>>, current')
  BY DEF OneStation
<1>3. playlist \in Seq(Track)
  BY DEF TypeOK
<1>4. CASE StationTuned
  <2>1. tuned' = current' /\ current' = call.name /\ call.name \in Stations
    BY <1>4, CalledStation DEF StationTuned
  <2>2. PICK b \in Batches(call.name) : playlist' = Push(<<>>, b)
    BY <1>4 DEF StationTuned, FreeList
  <2>3. <<>> \in Seq(Track) /\ OneStation(<<>>, call.name)
    BY EmptySeq DEF OneStation
  <2>4. call.name \in Stations \cup {NoStation}
    BY <2>1
  <2>5. OneStation(Push(<<>>, b), call.name)
    BY <2>2, <2>3, <2>4, PushStation
  <2> QED BY <2>1, <2>2, <2>5
<1>5. CASE StationRefused
  BY <1>1, <1>2, <1>5 DEF StationRefused, FreeList
<1>6. CASE Expand
  <2>1. PICK b \in Batches(tuned) : playlist' = Push(playlist, b)
    BY <1>6 DEF Expand
  <2>2. UNCHANGED <<tuned, current>> /\ tuned \in Stations \cup {NoStation}
    BY <1>6 DEF Expand, TypeOK
  <2> QED BY <1>1, <1>3, <2>1, <2>2, PushStation
<1>7. CASE Refill
  <2>1. playlist' \in Batches(tuned) /\ UNCHANGED <<tuned, current>>
    BY <1>7 DEF Refill
  <2> QED BY <1>1, <2>1, BatchStation DEF OneStation
<1>8. CASE EndNext
  <2>1. playlist' = Shift(playlist) /\ UNCHANGED <<tuned, current>>
    BY <1>8 DEF EndNext
  <2> QED BY <1>1, <1>3, <2>1, ShiftStation
<1>9. CASE EndStopped
  BY <1>1, <1>2, <1>9 DEF EndStopped, FreeList
<1>10. CASE StationAborts \/ RefillAborts \/ ExpandAborts \/ Leaves
  BY <1>10 DEF StationAborts, RefillAborts, ExpandAborts, Abort, Leaves, QuitDelayed,
         QuitNow, Quit, Interrupt, Exit, Running
<1>11. CASE \/ ReapContinued \/ ReapDead \/ Reaped \/ StationDelayed \/ StationSame
            \/ Change \/ RefillNot \/ StartNot \/ Start \/ BanCheck \/ Timeout
            \/ Request \/ Skip \/ Ban \/ BanKey \/ Stop \/ Pause \/ QuitLater \/ AutoBan
            \/ Playback \/ UNCHANGED vars
  <2>1. UNCHANGED <<playlist, tuned, current>>
    BY <1>11 DEF ReapContinued, ReapDead, Reaped, StationDelayed, StationSame, Change,
         RefillNot, StartNot, Start, BanCheck, Timeout, Request, Skip, Ban, BanKey,
         Stop, Pause, QuitLater, AutoBan, Playback, Halt, Finish, Fail,
         ChildUnchanged, vars
  <2> QED BY <1>1, <2>1
<1> QED BY <1>4, <1>5, <1>6, <1>7, <1>8, <1>9, <1>10, <1>11
        DEF Next, Loop, Gone, Reap, Station, ChangeBlock, User, Leaves

(* As long as no reply to a tune is lost, the server and the player agree  *)
(* about the station, and every track of the playlist is of it.            *)
THEOREM UpcomingIsCurrent == Spec => []UpcomingFromCurrent
<1>1. Init => UpcomingFromCurrent
  BY DEF Init, UpcomingFromCurrent
<1>2. TypeOK /\ UpcomingFromCurrent /\ [Next]_vars => UpcomingFromCurrent'
  BY StationStep DEF UpcomingFromCurrent, OneStation
<1> QED BY <1>1, <1>2, TypeCorrect, PTL DEF Spec

-----------------------------------------------------------------------------
(* The head of the playlist.  It stays in the list while it is heard.  If  *)
(* a station change does not wait for its end, the list is replaced under  *)
(* it, and the shift then drops a track nobody has heard.                  *)

LEMMA HeadStep ==
  ASSUME DelayChange, TypeOK, ReapInv, HeadIsPlaying, [Next]_vars,
         Running', playfork' \in Pids
  PROVE  /\ track'.no = playfork'
         /\ playlist' # <<>>
         /\ Head(playlist').no = playfork'
<1> USE DEF radio, child
<1>0. Running
  BY ExitedOnly DEF Running, Playback, Halt, Finish, Fail, ChildUnchanged, loop, vars
<1>1. CASE Start
  <2>1. track' = Head(playlist) /\ playlist' = playlist /\ playlist # <<>> /\ playfork = 0
    BY <1>1 DEF Start, MayStart, Display
  <2>2. playfork' = Head(playlist).no
    BY <1>1, <2>1 DEF Start, Pids
  <2> QED BY <2>1, <2>2
<1>2. CASE EndStopped \/ EndNext
  BY <1>2 DEF EndStopped, EndNext, Pids
<1>3. CASE Leaves
  BY <1>3 DEF Leaves, QuitDelayed, QuitNow, Quit, Interrupt, Exit, Running
<1>4. CASE StationAborts \/ RefillAborts \/ ExpandAborts
  BY <1>4 DEF StationAborts, RefillAborts, ExpandAborts, Abort, Running
<1>5. CASE ~(Start \/ EndStopped \/ EndNext \/ Leaves
             \/ StationAborts \/ RefillAborts \/ ExpandAborts)
  <2>1. playfork' = playfork /\ track' = track
    BY <1>5 DEF Next, Loop, Gone, Reap, Station, ChangeBlock, User, Leaves,
         ReapContinued, ReapDead, Reaped, StationDelayed, StationSame, StationRefused,
         StationTuned, Change, Refill, RefillNot, StartNot, BanCheck, Timeout, Request,
         Skip, Ban, BanKey, Stop, Pause, QuitLater, Expand, AutoBan, Playback, Halt,
         Finish, Fail, ChildUnchanged, vars
  <2>2. /\ track.no = playfork
        /\ playlist # <<>>
        /\ Head(playlist).no = playfork
    BY <1>0, <2>1 DEF HeadIsPlaying
  <2>3. ~StationRefused /\ ~StationTuned
    <3>1. playfork # 0
      BY <2>1 DEF Pids
    <3>2. Delays
      BY <3>1 DEF Delays
    <3> QED BY <3>2 DEF StationRefused, StationTuned
  <2>4. ~Refill
    BY <2>2 DEF Refill, NeedsTracks
  <2>5. CASE Expand
    <3>1. PICK b \in Batches(tuned) : playlist' = playlist \o b
      BY <2>5 DEF Expand, Push
    <3>2. /\ playlist \in Seq(Track) /\ Len(playlist) \in Nat \ {0}
          /\ b \in Seq(Track) /\ Len(b) \in Nat
      BY <2>2, BatchesType, LenProperties, EmptySeq DEF TypeOK
    <3>3. Len(playlist') = Len(playlist) + Len(b) /\ playlist'[1] = playlist[1]
      BY <3>1, <3>2, ConcatProperties
    <3>4. playlist' # <<>> /\ Head(playlist') = Head(playlist)
      BY <3>1, <3>2, <3>3, ConcatProperties, HeadTailProperties, EmptySeq, LenProperties
    <3> QED BY <2>1, <2>2, <3>4
  <2>6. CASE ~Expand
    <3>1. playlist' = playlist
      BY <1>5, <2>3, <2>4, <2>6
         DEF Next, Loop, Gone, Reap, Station, ChangeBlock, User, Leaves,
         ReapContinued, ReapDead, Reaped, StationDelayed, StationSame,
         Change, RefillNot, StartNot, BanCheck, Timeout, Request,
         Skip, Ban, BanKey, Stop, Pause, QuitLater, AutoBan, Playback, Halt,
         Finish, Fail, ChildUnchanged, vars
    <3> QED BY <2>1, <2>2, <3>1
  <2> QED BY <2>5, <2>6
<1> QED BY <1>1, <1>2, <1>3, <1>4, <1>5

(* With delayed changes, the track that plays is the one the user sees,    *)
(* loves, bans and tags, and the one the shift at its end will remove.     *)
THEOREM HeadIsAlwaysPlaying == ASSUME DelayChange PROVE Spec => []HeadIsPlaying
<1>1. Init => HeadIsPlaying
  BY DEF Init, HeadIsPlaying, Pids
<1>2. TypeOK /\ ReapInv /\ HeadIsPlaying /\ [Next]_vars => HeadIsPlaying'
  BY HeadStep DEF HeadIsPlaying
<1> QED BY <1>1, <1>2, TypeCorrect, ChildInvariant, PTL DEF Spec

(* With delayed changes, what the shift drops has been heard.              *)
THEOREM OnlyHeardDropped == ASSUME DelayChange PROVE Spec => ShiftDropsHeard
<1>1. TypeOK /\ ReapInv /\ ForkInv /\ HeadIsPlaying /\ [Next]_vars
        => [EndNext /\ playlist # <<>> => Head(playlist).no <= heard]_vars
  <2> SUFFICES ASSUME TypeOK, ReapInv, ForkInv, HeadIsPlaying, EndNext
               PROVE  Head(playlist).no <= heard
    OBVIOUS
  <2>1. Between /\ Running
    BY DEF EndNext, ReapInv, Between, Unlooped, Running
  <2>2. playfork \in Pids /\ heard = playfork /\ Head(playlist).no = playfork
    BY <2>1 DEF ForkInv, HeadIsPlaying
  <2> QED BY <2>2 DEF Pids
<1> QED BY <1>1, TypeCorrect, ChildInvariant, ForkInvariant, HeadIsAlwaysPlaying, PTL
        DEF Spec, ShiftDropsHeard

-----------------------------------------------------------------------------
(* Everything the model checker is asked to maintain together is           *)
(* maintained for any number of stations, artists and tracks, any commands *)
(* and any faults, at a terminal and in a daemon.                          *)
THEOREM PlayerInvariant == Spec => []IndInv
<1>1. (/\ TypeOK /\ NoStrayChild /\ ReapInv /\ UnheardInv /\ WantedInv
       /\ ForkInv /\ HaltInv /\ NpInv /\ BanInv /\ GapInv /\ DelayInv)
      => IndInv
  BY DEF IndInv
<1> QED BY <1>1, TypeCorrect, ChildInvariant, UnheardInvariant, StopIsRemembered,
           ForkInvariant, HaltInvariant, NpInvariant, BanInvariant, GapInvariant,
           DelayInvariant, PTL
=============================================================================
