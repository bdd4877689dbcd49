-------------------------- MODULE ScrobblerProofs --------------------------
(***************************************************************************)
(* Proofs about the scrobbler, for any number of tracks.  What is said of  *)
(* the order of the profile and of the submissions holds for any faults but*)
(* a suspension (^Z), which breaks it; what is said of losses for all.     *)
(***************************************************************************)
EXTENDS ScrobblerProps, SequenceTheorems, TLAPS

USE MaxTracksAssumption DEF MaxTracksAssumption

-----------------------------------------------------------------------------
(* Type correctness.                                                       *)

LEMMA JobType ==
  ASSUME NEW job \in Job
  PROVE  /\ \A p \in {"none", "asking", "accepted", "refused", "unheard", "dead"} :
              [job EXCEPT !.phase = p] \in Job
         /\ \A p \in {"none", "asking", "accepted", "refused", "unheard", "dead"} :
              \A c \in {0, 1} : \A s \in {"no", "yes"} :
                /\ [job EXCEPT !.phase = p, !.code = c] \in Job
                /\ [job EXCEPT !.phase = p, !.code = c, !.stirred = s] \in Job
         /\ \A s \in {"no", "yes"} : [job EXCEPT !.stirred = s] \in Job
BY DEF Job

LEMMA NoJobType == NoJob \in Job
BY EmptySeq DEF NoJob, Job

LEMMA SubdeadType ==
  ASSUME TypeOK, NEW c, Subdead(c)
  PROVE  subfork' \in {-1, 0} \cup Tracks /\ queue' \in Seq(Tracks)
BY EmptySeq DEF TypeOK, Subdead

LEMMA SubmitType ==
  ASSUME TypeOK, track \in Tracks, NEW list \in Seq(Tracks), Submit(list)
  PROVE  subfork' \in {-1, 0} \cup Tracks /\ jobs' \in [Tracks -> Job]
<1>1. [NoJob EXCEPT !.phase = "asking", !.load = list] \in Job
  BY DEF NoJob, Job
<1> QED BY <1>1 DEF TypeOK, Submit

LEMMA TypeLoop == TypeOK /\ LoopInv /\ Loop => TypeOK' /\ LoopInv'
<1> SUFFICES ASSUME TypeOK, LoopInv, Loop PROVE TypeOK' /\ LoopInv'
  OBVIOUS
<1> USE DEF TypeOK, LoopInv, player, ghost
<1>1. CASE \E j \in Tracks : ReapJob(j)
  <2>1. PICK j \in Tracks : ReapJob(j)
    BY <1>1
  <2>2. subfork' \in {-1, 0} \cup Tracks /\ queue' \in Seq(Tracks)
    BY <2>1, SubdeadType DEF ReapJob
  <2>3. jobs' \in [Tracks -> Job]
    BY <2>1, NoJobType DEF ReapJob
  <2> QED BY <2>1, <2>2, <2>3 DEF ReapJob
<1>2. CASE \E j \in Tracks : JobStirred(j)
  <2>1. PICK j \in Tracks : JobStirred(j)
    BY <1>2
  <2>2. subfork' \in {-1, 0} \cup Tracks /\ queue' \in Seq(Tracks)
    BY <2>1, SubdeadType DEF JobStirred
  <2>3. jobs' \in [Tracks -> Job]
    BY <2>1 DEF JobStirred, Job
  <2> QED BY <2>1, <2>2, <2>3 DEF JobStirred
<1>3. CASE ReapPlay
  <2>1. playnext' \in BOOLEAN
    BY <1>3 DEF ReapPlay
  <2> QED BY <1>3, <2>1 DEF ReapPlay
<1>4. CASE Reaped
  BY <1>4 DEF Reaped
<1>5. CASE \E long \in BOOLEAN : TrackEnds(long)
  <2>1. PICK long \in BOOLEAN : TrackEnds(long)
    BY <1>5
  <2>2. track \in Tracks
    BY <2>1 DEF TrackEnds, Tracks
  <2>3. /\ pc' \in {"reap", "ended", "input", "leaving", "exited"}
        /\ playnext' \in BOOLEAN
        /\ ~playnext'
    BY <2>1 DEF TrackEnds
  <2>4. /\ track' \in 0 .. MaxTracks
        /\ playing' \in {"none", "on", "over"}
        /\ UNCHANGED <<rtp, delayquit, log, silent>>
        /\ playing' # "none" => track' # 0
    BY <2>1, <2>2 DEF TrackEnds, NextTrack, Tracks
  <2>5. queue' \in Seq(Tracks)
    BY <2>1, <2>2, AppendProperties DEF TrackEnds, Enqueue
  <2>6. subfork' \in {-1, 0} \cup Tracks /\ jobs' \in [Tracks -> Job]
    BY <2>1, <2>2, <2>5, SubmitType DEF TrackEnds
  <2>7. played' \subseteq Tracks /\ behind' \subseteq Tracks
    BY <2>1, <2>2 DEF TrackEnds
  <2>8. pc' = "input"
    BY <2>1 DEF TrackEnds
  <2> QED BY <2>3, <2>4, <2>5, <2>6, <2>7, <2>8
<1>6. CASE Timeout
  BY <1>6 DEF Timeout, Input
<1>7. CASE Exit
  BY <1>7, EmptySeq DEF Exit
<1> QED BY <1>1, <1>2, <1>3, <1>4, <1>5, <1>6, <1>7 DEF Loop

LEMMA TypeUser == TypeOK /\ LoopInv /\ User => TypeOK' /\ LoopInv'
<1> SUFFICES ASSUME TypeOK, LoopInv, User PROVE TypeOK' /\ LoopInv'
  OBVIOUS
<1> USE DEF TypeOK, LoopInv, player, ghost, Input
<1>1. CASE Play
  BY <1>1 DEF Play, NextTrack
<1>2. CASE ToggleRtp
  <2>1. rtp' \in BOOLEAN
    BY <1>2 DEF ToggleRtp
  <2> QED BY <1>2, <2>1 DEF ToggleRtp
<1>3. CASE QuitLater
  <2>1. delayquit' \in BOOLEAN
    BY <1>3 DEF QuitLater
  <2> QED BY <1>3, <2>1 DEF QuitLater
<1>4. CASE QuitNow
  BY <1>4 DEF QuitNow
<1>5. CASE Interrupt
  <2>1. jobs' \in [Tracks -> Job]
    BY <1>5, JobType DEF Interrupt
  <2> QED BY <1>5, <2>1 DEF Interrupt
<1>6. CASE Suspend
  <2>1. jobs' \in [Tracks -> Job]
    BY <1>6, JobType DEF Suspend
  <2> QED BY <1>6, <2>1 DEF Suspend
<1> QED BY <1>1, <1>2, <1>3, <1>4, <1>5, <1>6 DEF User

LEMMA RetvalType == ASSUME NEW j PROVE Retval(j) \in {0, 1}
BY DEF Retval

LEMMA ConcatType ==
  ASSUME NEW a \in Seq(Tracks), NEW b \in Seq(Tracks) PROVE a \o b \in Seq(Tracks)
OBVIOUS

LEMMA LoadType ==
  ASSUME TypeOK, NEW j \in Tracks PROVE Elements(jobs[j].load) \subseteq Tracks
<1>1. jobs[j].load \in Seq(Tracks)
  BY DEF TypeOK, Job
<1> QED BY <1>1 DEF Elements

LEMMA TypeJob ==
  ASSUME TypeOK, LoopInv, NEW j \in Tracks, Submission(j)
  PROVE  TypeOK' /\ LoopInv'
<1> USE DEF TypeOK, LoopInv, player, ghost
<1>1. CASE Accept(j) \/ Refuse(j) \/ Unheard(j)
  <2>1. log' \in Seq(Tracks)
    <3>1. jobs[j].load \in Seq(Tracks)
      BY DEF Job
    <3> QED BY <1>1, <3>1, ConcatType DEF Accept, Refuse, Unheard
  <2>2. jobs' \in [Tracks -> Job]
    <3>1. PICK p \in {"accepted", "refused", "unheard"} : JobStep(j, {"asking"}, p)
      BY <1>1 DEF Accept, Refuse, Unheard
    <3>2. jobs' = [jobs EXCEPT ![j] = [jobs[j] EXCEPT !.phase = p]]
      BY <3>1 DEF JobStep
    <3>3. [jobs[j] EXCEPT !.phase = p] \in Job
      BY JobType
    <3> QED BY <3>2, <3>3
  <2>3. UNCHANGED <<pc, playnext, player, queue, subfork, played, behind>>
    BY <1>1 DEF Accept, Refuse, Unheard, JobStep
  <2>4. silent' \subseteq Tracks
    BY <1>1, LoadType DEF Accept, Refuse, Unheard
  <2> QED BY <2>1, <2>2, <2>3, <2>4
<1>2. CASE JobExits(j) \/ Killed(j)
  <2>1. PICK code \in {0, 1} : JobDies(j, code)
    BY <1>2, RetvalType DEF JobExits, Killed
  <2>2. jobs' \in [Tracks -> Job]
    BY <2>1, JobType DEF JobDies
  <2>3. silent' \subseteq Tracks
    BY <1>2, LoadType DEF JobExits, Killed
  <2> QED BY <2>1, <2>2, <2>3 DEF JobDies
<1> QED BY <1>1, <1>2 DEF Submission

(* Every reachable state is well typed, whatever goes wrong.               *)
LEMMA TypeInvariant == Spec => [](TypeOK /\ LoopInv)
<1>1. Init => TypeOK /\ LoopInv
  <2> SUFFICES ASSUME Init PROVE TypeOK /\ LoopInv
    OBVIOUS
  <2>1. /\ playnext \in BOOLEAN
        /\ rtp \in BOOLEAN
        /\ delayquit \in BOOLEAN
        /\ ~playnext
    BY DEF Init
  <2>2. jobs \in [Tracks -> Job]
    BY NoJobType DEF Init
  <2> QED BY <2>1, <2>2, EmptySeq DEF Init, TypeOK, LoopInv
<1>2. TypeOK /\ LoopInv /\ [Next]_vars => TypeOK' /\ LoopInv'
  <2> SUFFICES ASSUME TypeOK, LoopInv, [Next]_vars PROVE TypeOK' /\ LoopInv'
    OBVIOUS
  <2>1. CASE PlaybackEnds
    BY <2>1 DEF PlaybackEnds, TypeOK, LoopInv, ghost
  <2>2. CASE UNCHANGED vars
    BY <2>2 DEF TypeOK, LoopInv, vars
  <2> QED BY <2>1, <2>2, TypeLoop, TypeUser, TypeJob DEF Next, Gone
<1> QED BY <1>1, <1>2, PTL DEF Spec

(* Every reachable state is well typed.                                    *)
THEOREM TypeCorrect == Spec => []TypeOK
BY TypeInvariant, PTL

-----------------------------------------------------------------------------
(* Submissions.                                                            *)

LEMMA FrontOfFront ==
  ASSUME NEW a \in Seq(Tracks), NEW b \in Seq(Tracks), NEW c \in Seq(Tracks),
         IsFront(a, b), IsFront(b, c)
  PROVE  IsFront(a, c)
<1>1. Len(a) \in Nat /\ Len(b) \in Nat /\ Len(c) \in Nat
  BY LenProperties
<1> QED BY <1>1 DEF IsFront

LEMMA FrontOfItself == ASSUME NEW a \in Seq(Tracks) PROVE IsFront(a, a)
BY LenProperties DEF IsFront

(* enqueue() only adds to the end.                                         *)
LEMMA EnqueueFront ==
  ASSUME TypeOK, track \in Tracks, NEW long, Enqueue(long)
  PROVE  queue' \in Seq(Tracks) /\ IsFront(queue, queue')
<1>1. queue \in Seq(Tracks) /\ Len(queue) \in Nat
  BY LenProperties DEF TypeOK
<1>2. CASE queue' = queue
  BY <1>1, <1>2, FrontOfItself
<1>3. CASE queue' = Append(queue, track)
  BY <1>1, <1>3, AppendProperties DEF IsFront
<1> QED BY <1>2, <1>3 DEF Enqueue

(* A step that leaves the submissions alone and drops nothing of the queue.*)
LEMMA JobsKept ==
  ASSUME TypeOK, TypeOK', JobInv, UNCHANGED <<jobs, subfork>>, pc' # "exited",
         pc # "exited", IsFront(queue, queue')
  PROVE  JobInv'
<1>1. \A j \in Tracks : jobs[j].load \in Seq(Tracks)
  BY DEF TypeOK, Job
<1>2. queue \in Seq(Tracks) /\ queue' \in Seq(Tracks)
  BY DEF TypeOK
<1>3. \A j \in Tracks : jobs[j].phase \in Busy \cup {"dead"} =>
        IsFront(jobs[j].load, queue')
  BY <1>1, <1>2, FrontOfFront DEF JobInv, InFlightIsPrefix
<1> QED BY <1>3 DEF JobInv, InFlightIsPrefix

(* Without any submission, and before the end, there is nothing to show.   *)
LEMMA NoJobs ==
  ASSUME \A j \in Tracks : jobs'[j].phase = "none" /\ jobs'[j].stirred = "no",
         pc' # "exited"
  PROVE  JobInv'
BY DEF JobInv, InFlightIsPrefix, Busy

LEMMA JobLoop ==
  ASSUME TypeOK, TypeOK', LoopInv, JobInv, Loop PROVE JobInv'
<1>0. track \in Tracks \/ pc # "ended"
  BY DEF LoopInv, TypeOK, Tracks
<1>1. CASE \E j \in Tracks : ReapJob(j)
  <2>1. PICK j \in Tracks : ReapJob(j)
    BY <1>1
  <2>2. jobs' = [jobs EXCEPT ![j] = NoJob] /\ subfork = j
    BY <2>1 DEF ReapJob, JobInv
  <2>3. \A k \in Tracks : jobs'[k].phase = "none" /\ jobs'[k].stirred = "no"
    <3>1. jobs'[j] = NoJob /\ \A k \in Tracks : k # j => jobs'[k] = jobs[k]
      BY <2>2 DEF TypeOK
    <3>2. \A k \in Tracks : k # j => jobs[k].phase = "none"
      BY <2>2 DEF JobInv
    <3> QED BY <3>1, <3>2 DEF NoJob, JobInv
  <2>4. pc' # "exited"
    BY <2>1 DEF ReapJob
  <2> QED BY <2>3, <2>4, NoJobs
<1>2. CASE \E j \in Tracks : JobStirred(j)
  <2>1. PICK j \in Tracks : jobs[j].stirred = "yes"
    BY <1>2 DEF JobStirred
  <2> QED BY <2>1 DEF JobInv
<1>3. CASE ReapPlay \/ Reaped \/ Timeout
  <2>1. UNCHANGED <<jobs, subfork, queue>> /\ pc # "exited" /\ pc' # "exited"
    BY <1>3 DEF ReapPlay, Reaped, Timeout, Input
  <2> QED BY <2>1, JobsKept, FrontOfItself DEF TypeOK
<1>4. CASE \E long \in BOOLEAN : TrackEnds(long)
  <2>1. PICK long \in BOOLEAN : TrackEnds(long)
    BY <1>4
  <2>2. pc = "ended" /\ pc' = "input" /\ Enqueue(long) /\ Submit(queue')
    BY <2>1 DEF TrackEnds
  <2>3. queue' \in Seq(Tracks) /\ IsFront(queue, queue')
    BY <1>0, <2>2, EnqueueFront
  <2>4. CASE UNCHANGED <<jobs, subfork>>
    BY <2>2, <2>3, <2>4, JobsKept
  <2>5. CASE ~UNCHANGED <<jobs, subfork>>
    <3>1. MaySubmit(queue')
      BY <2>2, <2>5 DEF Submit
    <3>2. \A k \in Tracks : jobs[k].phase = "none" /\ jobs[k].stirred = "no"
      <4>1. \A k \in Tracks : subfork # k
        BY <3>1 DEF MaySubmit, Tracks
      <4> QED BY <4>1 DEF JobInv
    <3>3. CASE jobs' = jobs
      BY <2>2, <3>2, <3>3, NoJobs
    <3>4. CASE jobs' # jobs
      <4>1. /\ subfork' = track
            /\ jobs' = [jobs EXCEPT ![track] =
                          [NoJob EXCEPT !.phase = "asking", !.load = queue']]
        BY <2>2, <3>1, <3>4 DEF Submit
      <4>2. /\ jobs'[track].stirred = "no"
            /\ jobs'[track].load = queue'
            /\ \A k \in Tracks : k # track => jobs'[k] = jobs[k]
        BY <1>0, <2>2, <4>1 DEF TypeOK, NoJob
      <4>3. IsFront(queue', queue')
        BY <2>3, FrontOfItself
      <4> QED BY <2>2, <3>2, <4>1, <4>2, <4>3
              DEF JobInv, InFlightIsPrefix, Busy
    <3> QED BY <3>3, <3>4
  <2> QED BY <2>4, <2>5
<1>5. CASE Exit
  <2>1. /\ pc' = "exited"
        /\ queue' = <<>>
        /\ UNCHANGED <<jobs, subfork>>
        /\ NoneToAwait
    BY <1>5 DEF Exit
  <2>2. Active = {}
    BY <2>1 DEF NoneToAwait, Dead, Active, Busy, JobInv, Tracks
  <2> QED BY <2>1, <2>2 DEF JobInv, InFlightIsPrefix, Active
<1> QED BY <1>1, <1>2, <1>3, <1>4, <1>5 DEF Loop

LEMMA JobUser ==
  ASSUME "suspend" \notin Faults, TypeOK, TypeOK', LoopInv, JobInv, User
  PROVE  JobInv'
<1>1. CASE Play \/ ToggleRtp \/ QuitLater \/ QuitNow
  <2>1. UNCHANGED <<jobs, subfork, queue>> /\ pc # "exited" /\ pc' # "exited"
    BY <1>1 DEF Play, ToggleRtp, QuitLater, QuitNow, Input
  <2> QED BY <2>1, JobsKept, FrontOfItself DEF TypeOK
<1>2. CASE Interrupt
  <2>1. /\ UNCHANGED <<subfork, queue>>
        /\ pc # "exited"
        /\ pc' = "leaving"
    BY <1>2 DEF Interrupt
  <2>2. \A j \in Tracks : /\ jobs'[j].load = jobs[j].load
                          /\ jobs'[j].stirred = jobs[j].stirred
                          /\ jobs'[j].phase # "none" => jobs[j].phase # "none"
    BY <1>2 DEF Interrupt, Active, Busy, TypeOK, Job
  <2>3. \A j \in Tracks : jobs[j].phase # "none" => jobs[j].phase \in Busy \cup {"dead"}
    BY DEF TypeOK, Job, Busy
  <2>4. \A j \in Tracks : jobs'[j].phase \in Busy \cup {"dead"} => jobs'[j].phase # "none"
    BY DEF Busy
  <2> QED BY <2>1, <2>2, <2>3, <2>4 DEF JobInv, InFlightIsPrefix
<1>3. CASE Suspend
  BY <1>3 DEF Suspend
<1> QED BY <1>1, <1>2, <1>3 DEF User

(* A step of a submission: it stays one, with the same load.               *)
LEMMA SubmissionStep ==
  ASSUME TypeOK, NEW j \in Tracks, Submission(j)
  PROVE  /\ jobs[j].phase \in Busy
         /\ jobs'[j].phase \in Busy \cup {"dead"}
         /\ jobs'[j].load = jobs[j].load
         /\ jobs'[j].stirred \in {jobs[j].stirred, "no"}
         /\ \A k \in Tracks : k # j => jobs'[k] = jobs[k]
         /\ UNCHANGED <<pc, queue, subfork>>
         /\ UNCHANGED <<playnext, player, played, behind>>
BY DEF Submission, Accept, Refuse, Unheard, JobExits, Killed, JobStep, JobDies,
       Busy, TypeOK, Job

LEMMA JobJob ==
  ASSUME TypeOK, TypeOK', JobInv, NEW j \in Tracks, Submission(j)
  PROVE  JobInv'
<1>1. Active # {}
  BY SubmissionStep DEF Active
<1>2. pc # "exited"
  BY <1>1 DEF JobInv
<1>3. pc' = pc /\ queue' = queue /\ subfork' = subfork
  BY SubmissionStep
<1> QED BY <1>2, <1>3, SubmissionStep DEF JobInv, InFlightIsPrefix, Busy

(* A submission carries the front of the queue, and main knows it.         *)
LEMMA JobInvariant ==
  ASSUME "suspend" \notin Faults PROVE Spec => []JobInv
<1>1. Init => JobInv
  BY DEF Init, JobInv, InFlightIsPrefix, NoJob, Busy
<1>2. TypeOK /\ TypeOK' /\ LoopInv /\ JobInv /\ [Next]_vars => JobInv'
  <2> SUFFICES ASSUME TypeOK, TypeOK', LoopInv, JobInv, [Next]_vars PROVE JobInv'
    OBVIOUS
  <2>1. CASE PlaybackEnds \/ UNCHANGED vars
    <3>1. UNCHANGED <<jobs, subfork, queue, pc>>
      BY <2>1 DEF PlaybackEnds, vars
    <3> QED BY <3>1 DEF JobInv, InFlightIsPrefix, Active
  <2> QED BY <2>1, JobLoop, JobUser, JobJob DEF Next, Gone
<1> QED BY <1>1, <1>2, TypeInvariant, PTL DEF Spec

(* There is never more than one submission, and main knows it.             *)
THEOREM AtMostOneSubmission ==
  ASSUME "suspend" \notin Faults PROVE Spec => []OneSubmission
<1>1. JobInv => OneSubmission
  BY DEF JobInv, OneSubmission, Active, Busy
<1> QED BY <1>1, JobInvariant, PTL

(* A repetition posts the same tracks first: what a submission took from   *)
(* the queue is still the front of the queue when it ends.                 *)
THEOREM FrontIsInFlight ==
  ASSUME "suspend" \notin Faults PROVE Spec => []InFlightIsPrefix
<1>1. JobInv => InFlightIsPrefix
  BY DEF JobInv
<1> QED BY <1>1, JobInvariant, PTL

-----------------------------------------------------------------------------
(* The order of the profile.                                               *)

LEMMA TrackSeq ==
  ASSUME NEW s \in Seq(Tracks)
  PROVE  /\ Len(s) \in Nat
         /\ DOMAIN s = 1 .. Len(s)
         /\ \A i \in 1 .. Len(s) : s[i] \in Tracks /\ s[i] \in Int
BY LenProperties, ElementOfSeq DEF Tracks

LEMMA NewestType ==
  ASSUME TypeOK PROVE Profile!Newest \in Nat
<1>1. log \in Seq(Tracks)
  BY DEF TypeOK
<1>2. CASE log # <<>>
  <2>1. Len(log) \in 1 .. Len(log)
    BY <1>1, <1>2, EmptySeq, TrackSeq
  <2> QED BY <1>1, <2>1, TrackSeq DEF Profile!Newest, Tracks
<1> QED BY <1>2 DEF Profile!Newest

(* The newest track of the profile is the greatest.                        *)
LEMMA NewestIsGreatest ==
  ASSUME TypeOK, Increasing(log), NEW i \in 1 .. Len(log)
  PROVE  log[i] <= Profile!Newest
<1>1. /\ Len(log) \in Nat
      /\ DOMAIN log = 1 .. Len(log)
      /\ \A k \in 1 .. Len(log) : log[k] \in Int
  BY TrackSeq DEF TypeOK
<1>2. log # <<>> /\ Len(log) \in 1 .. Len(log)
  BY <1>1
<1>3. Profile!Newest = log[Len(log)]
  BY <1>2 DEF Profile!Newest
<1>4. CASE i = Len(log)
  BY <1>1, <1>3, <1>4
<1>5. CASE i # Len(log)
  <2>1. i \in 1 .. Len(log) - 1
    <3>1. Len(log) \in Nat
      BY <1>1
    <3> QED BY <1>5, <3>1
  <2>2. log[i] < log[Len(log)]
    BY <1>1, <1>2, <2>1 DEF Increasing
  <2> QED BY <1>1, <1>3, <2>2
<1> QED BY <1>4, <1>5

(* What a sequence holds after an append and a concatenation.              *)
LEMMA AppendElements ==
  ASSUME NEW s \in Seq(Tracks), NEW t \in Tracks
  PROVE  Elements(Append(s, t)) = Elements(s) \cup {t}
<1>1. /\ Len(s) \in Nat
      /\ DOMAIN s = 1 .. Len(s)
      /\ DOMAIN Append(s, t) = 1 .. Len(s) + 1
      /\ \A i \in 1 .. Len(s) : Append(s, t)[i] = s[i]
      /\ Append(s, t)[Len(s) + 1] = t
  BY AppendProperties, TrackSeq
<1>2. \A i \in 1 .. Len(s) + 1 : i \in 1 .. Len(s) \/ i = Len(s) + 1
  BY <1>1
<1>3. Len(s) + 1 \in 1 .. Len(s) + 1 /\ \A i \in 1 .. Len(s) : i \in 1 .. Len(s) + 1
  BY <1>1
<1> QED BY <1>1, <1>2, <1>3 DEF Elements

LEMMA ConcatElements ==
  ASSUME NEW a \in Seq(Tracks), NEW b \in Seq(Tracks)
  PROVE  Elements(a \o b) = Elements(a) \cup Elements(b)
<1>1. /\ Len(a) \in Nat /\ DOMAIN a = 1 .. Len(a)
      /\ Len(b) \in Nat /\ DOMAIN b = 1 .. Len(b)
      /\ DOMAIN (a \o b) = 1 .. Len(a) + Len(b)
      /\ \A i \in 1 .. Len(a) : (a \o b)[i] = a[i]
      /\ \A i \in Len(a) + 1 .. Len(a) + Len(b) : (a \o b)[i] = b[i - Len(a)]
  BY TrackSeq, ConcatProperties
<1>2. ASSUME NEW i \in 1 .. Len(a) + Len(b)
      PROVE  (a \o b)[i] \in Elements(a) \cup Elements(b)
  <2>1. CASE i <= Len(a)
    BY <1>1, <2>1 DEF Elements
  <2>2. CASE i > Len(a)
    <3>1. i \in Len(a) + 1 .. Len(a) + Len(b) /\ i - Len(a) \in 1 .. Len(b)
      BY <1>1, <2>2
    <3> QED BY <1>1, <3>1 DEF Elements
  <2> QED BY <1>1, <2>1, <2>2
<1>3. ASSUME NEW i \in 1 .. Len(a) PROVE a[i] \in Elements(a \o b)
  <2>1. i \in 1 .. Len(a) + Len(b)
    BY <1>1
  <2> QED BY <1>1, <2>1 DEF Elements
<1>4. ASSUME NEW i \in 1 .. Len(b) PROVE b[i] \in Elements(a \o b)
  <2>1. /\ i + Len(a) \in Len(a) + 1 .. Len(a) + Len(b)
        /\ i + Len(a) \in 1 .. Len(a) + Len(b)
        /\ i + Len(a) - Len(a) = i
    BY <1>1
  <2>2. (a \o b)[i + Len(a)] = b[i]
    BY <1>1, <2>1
  <2> QED BY <1>1, <2>1, <2>2 DEF Elements
<1>5. ASSUME NEW t \in Elements(a \o b) PROVE t \in Elements(a) \cup Elements(b)
  <2>1. PICK i \in 1 .. Len(a) + Len(b) : t = (a \o b)[i]
    BY <1>1 DEF Elements
  <2> QED BY <1>2, <2>1
<1>6. ASSUME NEW t \in Elements(a) \cup Elements(b) PROVE t \in Elements(a \o b)
  <2>1. (\E i \in 1 .. Len(a) : t = a[i]) \/ (\E i \in 1 .. Len(b) : t = b[i])
    BY <1>1 DEF Elements
  <2> QED BY <1>3, <1>4, <2>1
<1> QED BY <1>5, <1>6

LEMMA AppendIncreases ==
  ASSUME NEW s \in Seq(Tracks), NEW t \in Tracks, Increasing(s),
         \A u \in Elements(s) : u < t
  PROVE  Increasing(Append(s, t)) /\ Elements(Append(s, t)) = Elements(s) \cup {t}
<1>1. /\ Len(s) \in Nat
      /\ DOMAIN s = 1 .. Len(s)
      /\ DOMAIN Append(s, t) = 1 .. Len(s) + 1
      /\ \A i \in 1 .. Len(s) : Append(s, t)[i] = s[i]
      /\ Append(s, t)[Len(s) + 1] = t
  BY AppendProperties, TrackSeq
<1>2. \A i \in 1 .. Len(s) : s[i] < t
  BY <1>1 DEF Elements
<1>3. Increasing(Append(s, t))
  <2> SUFFICES ASSUME NEW i \in 1 .. Len(s) + 1, NEW j \in 1 .. i - 1
               PROVE  Append(s, t)[j] < Append(s, t)[i]
    BY <1>1 DEF Increasing
  <2>1. j \in 1 .. Len(s) /\ Append(s, t)[j] = s[j]
    BY <1>1
  <2>2. CASE i = Len(s) + 1
    BY <1>1, <1>2, <2>1, <2>2
  <2>3. CASE i # Len(s) + 1
    <3>1. i \in 1 .. Len(s)
      BY <1>1, <2>3
    <3> QED BY <1>1, <2>1, <3>1 DEF Increasing
  <2> QED BY <2>2, <2>3
<1> QED BY <1>3, AppendElements

(* The profile grows by an ascending submission of newer tracks.           *)
LEMMA ConcatIncreases ==
  ASSUME TypeOK, Increasing(log), NEW s \in Seq(Tracks), Increasing(s),
         \A i \in 1 .. Len(s) : s[i] > Profile!Newest
  PROVE  Increasing(log \o s) /\ Elements(log \o s) = Elements(log) \cup Elements(s)
<1>1. /\ Len(log) \in Nat
      /\ DOMAIN log = 1 .. Len(log)
      /\ \A k \in 1 .. Len(log) : log[k] \in Int
  BY TrackSeq DEF TypeOK
<1>2. /\ Len(s) \in Nat
      /\ DOMAIN s = 1 .. Len(s)
      /\ \A k \in 1 .. Len(s) : s[k] \in Int
  BY TrackSeq
<1>3. /\ DOMAIN (log \o s) = 1 .. Len(log) + Len(s)
      /\ \A i \in 1 .. Len(log) : (log \o s)[i] = log[i]
      /\ \A i \in Len(log) + 1 .. Len(log) + Len(s) :
           (log \o s)[i] = s[i - Len(log)]
  BY <1>1, <1>2, ConcatProperties DEF TypeOK
<1>4. Increasing(log \o s)
  <2> SUFFICES ASSUME NEW i \in 1 .. Len(log) + Len(s), NEW j \in 1 .. i - 1
               PROVE  (log \o s)[j] < (log \o s)[i]
    BY <1>3 DEF Increasing
  <2>1. CASE i <= Len(log)
    <3>1. i \in 1 .. Len(log) /\ j \in 1 .. Len(log)
      BY <1>1, <2>1
    <3>2. log[j] < log[i]
      BY <1>1, <3>1 DEF Increasing
    <3> QED BY <1>3, <3>1, <3>2
  <2>2. CASE i > Len(log) /\ j <= Len(log)
    <3>1. j \in 1 .. Len(log) /\ i - Len(log) \in 1 .. Len(s)
      BY <1>1, <1>2, <2>2
    <3>2. log[j] <= Profile!Newest /\ s[i - Len(log)] > Profile!Newest
      BY <3>1, NewestIsGreatest
    <3>3. (log \o s)[j] = log[j] /\ (log \o s)[i] = s[i - Len(log)]
      BY <1>1, <1>2, <1>3, <2>2, <3>1
    <3>4. Profile!Newest \in Int /\ log[j] \in Int /\ s[i - Len(log)] \in Int
      BY <1>1, <1>2, <3>1, NewestType
    <3> QED BY <3>2, <3>3, <3>4
  <2>3. CASE i > Len(log) /\ j > Len(log)
    <3>1. /\ i - Len(log) \in 1 .. Len(s)
          /\ j - Len(log) \in 1 .. i - Len(log) - 1
          /\ i \in Len(log) + 1 .. Len(log) + Len(s)
          /\ j \in Len(log) + 1 .. Len(log) + Len(s)
      BY <1>1, <1>2, <2>3
    <3>2. s[j - Len(log)] < s[i - Len(log)]
      BY <1>2, <3>1 DEF Increasing
    <3> QED BY <1>3, <3>1, <3>2
  <2> QED BY <1>1, <1>2, <2>1, <2>2, <2>3
<1>5. Elements(log \o s) = Elements(log) \cup Elements(s)
  BY ConcatElements DEF TypeOK
<1> QED BY <1>4, <1>5

(* The only submission is accepted or is about to be given up, or the      *)
(* queue holds newer tracks than the profile.                              *)
LEMMA FreshUnlessSettling ==
  ASSUME TypeOK, OrderInv, JobInv, NEW j \in Tracks,
         jobs[j].phase # "none", ~Settling(j)
  PROVE  Fresh
<1>1. \A k \in Tracks : Settling(k) => jobs[k].phase # "none"
  BY DEF Settling
<1> QED BY <1>1 DEF OrderInv, JobInv

(* A step that keeps queue and profile and settles nothing.                *)
LEMMA OrderKept ==
  ASSUME TypeOK, OrderInv, PlayedInv, UNCHANGED <<log, queue, played>>,
         \A t \in played : t <= track' /\ (playing' # "none" \/ playnext' => t < track'),
         \A j \in Tracks : Settling(j) => Settling(j)'
  PROVE  OrderInv' /\ PlayedInv'
<1>1. Fresh => Fresh'
  BY DEF Fresh, Profile!Newest
<1>2. Increasing(log)' /\ Increasing(queue)'
  BY DEF OrderInv, Increasing
<1>3. PlayedInv'
  BY DEF PlayedInv, Elements
<1> QED BY <1>1, <1>2, <1>3 DEF OrderInv

LEMMA EmptyOrder ==
  ASSUME TypeOK, OrderInv, PlayedInv, UNCHANGED <<log, played>>, queue' = <<>>,
         UNCHANGED <<track, playing, playnext>>
  PROVE  OrderInv' /\ PlayedInv'
<1>1. Fresh' /\ Increasing(queue)' /\ Elements(queue)' = {}
  BY DEF Fresh, Increasing, Elements
<1>2. Increasing(log)' /\ Elements(log)' = Elements(log)
  BY DEF OrderInv, Increasing, Elements
<1> QED BY <1>1, <1>2 DEF OrderInv, PlayedInv

LEMMA OrderTrackEnds ==
  ASSUME TypeOK, TypeOK', LoopInv, OrderInv, PlayedInv, JobInv,
         NEW long \in BOOLEAN, TrackEnds(long)
  PROVE  OrderInv' /\ PlayedInv'
<1>1. track \in Tracks /\ \A t \in played : t < track
  BY DEF TrackEnds, LoopInv, PlayedInv, TypeOK, Tracks
<1>2. /\ Enqueue(long)
      /\ Submit(queue')
      /\ log' = log
      /\ played' = IF rtp /\ long THEN played \cup {track} ELSE played
      /\ NextTrack
      /\ pc = "ended"
  BY DEF TrackEnds
<1>3. ~playnext'
  BY DEF TrackEnds
<1>4. queue \in Seq(Tracks) /\ queue' \in Seq(Tracks) /\ log \in Seq(Tracks)
  BY DEF TypeOK
<1>5. \A t \in played' : t <= track' /\ (playing' # "none" => t < track')
  <2>1. \A t \in played' : t \in Int /\ t <= track
    BY <1>1, <1>2 DEF TypeOK, Tracks
  <2> QED BY <1>1, <1>2, <2>1 DEF NextTrack, TypeOK, Tracks
<1>6. /\ Increasing(queue')
      /\ Elements(queue') \subseteq played'
      /\ Elements(queue') \subseteq Elements(queue) \cup {track}
  <2>1. \A u \in Elements(queue) : u < track
    BY <1>1 DEF PlayedInv
  <2>2. Increasing(queue) /\ Elements(queue) \subseteq played
    BY DEF OrderInv, PlayedInv
  <2>3. CASE rtp /\ long
    BY <1>1, <1>2, <1>4, <2>1, <2>2, <2>3, AppendIncreases DEF Enqueue
  <2>4. CASE ~(rtp /\ long)
    BY <1>2, <2>2, <2>4 DEF Enqueue
  <2> QED BY <2>3, <2>4
<1>7. Increasing(log') /\ Elements(log') \subseteq played'
  BY <1>2 DEF OrderInv, PlayedInv
<1>8. CASE Fresh
  <2>1. Profile!Newest' = Profile!Newest /\ Profile!Newest \in Nat
    BY <1>2, NewestType DEF Profile!Newest
  <2>2. track > Profile!Newest
    <3>1. CASE log = <<>>
      BY <1>1, <3>1 DEF Profile!Newest, Tracks
    <3>2. CASE log # <<>>
      <4>1. Len(log) \in DOMAIN log
        BY <1>4, <3>2, TrackSeq, EmptySeq
      <4>2. log[Len(log)] \in played
        BY <4>1 DEF Elements, PlayedInv
      <4>3. Profile!Newest = log[Len(log)]
        BY <3>2 DEF Profile!Newest
      <4>4. log[Len(log)] < track
        BY <1>1, <4>2
      <4> QED BY <1>1, <2>1, <4>3, <4>4 DEF Tracks
    <3> QED BY <3>1, <3>2
  <2>3. \A u \in Elements(queue') : u > Profile!Newest
    BY <1>6, <1>8, <2>2 DEF Fresh, Elements
  <2>4. Fresh'
    BY <2>1, <2>3 DEF Fresh, Elements
  <2> QED BY <1>3, <1>5, <1>6, <1>7, <2>4 DEF OrderInv, PlayedInv
<1>9. CASE ~Fresh
  <2>1. PICK j \in Tracks : Settling(j)
    BY <1>9 DEF OrderInv
  <2>2. subfork = j
    BY <2>1 DEF Settling, JobInv
  <2>3. jobs' = jobs
    BY <1>2, <2>2 DEF Submit, MaySubmit, Tracks
  <2>4. Settling(j)'
    BY <1>2, <2>1, <2>3 DEF Settling
  <2> QED BY <1>3, <1>5, <1>6, <1>7, <2>4 DEF OrderInv, PlayedInv
<1> QED BY <1>8, <1>9

LEMMA OrderLoop ==
  ASSUME TypeOK, TypeOK', LoopInv, OrderInv, PlayedInv, JobInv, Loop
  PROVE  OrderInv' /\ PlayedInv'
<1>1. CASE \E j \in Tracks : ReapJob(j)
  <2>1. PICK j \in Tracks : ReapJob(j)
    BY <1>1
  <2>2. /\ jobs[j].phase = "dead"
        /\ subfork = j
        /\ queue' = IF jobs[j].code = 0 THEN <<>> ELSE queue
        /\ UNCHANGED <<log, played, track, playing, playnext>>
        /\ pc = "reap"
    BY <2>1 DEF ReapJob, JobInv, Subdead, player, ghost
  <2>3. CASE jobs[j].code = 0
    BY <2>2, <2>3, EmptyOrder
  <2>4. CASE jobs[j].code # 0
    <3>1. Fresh
      BY <2>2, <2>4, FreshUnlessSettling DEF Settling
    <3>2. queue' = queue
      BY <2>2, <2>4
    <3>3. Fresh' /\ Increasing(log)' /\ Increasing(queue)'
      BY <2>2, <3>1, <3>2 DEF Fresh, Profile!Newest, Increasing, OrderInv
    <3>4. PlayedInv'
      BY <2>2, <3>2 DEF PlayedInv, Elements
    <3> QED BY <3>3, <3>4 DEF OrderInv
  <2> QED BY <2>3, <2>4
<1>2. CASE \E j \in Tracks : JobStirred(j)
  <2>1. PICK j \in Tracks : jobs[j].stirred = "yes"
    BY <1>2 DEF JobStirred
  <2> QED BY <2>1 DEF JobInv
<1>3. CASE ReapPlay \/ Reaped \/ Timeout
  <2>1. /\ UNCHANGED <<log, queue, played, jobs, track>>
        /\ pc # "leaving"
    BY <1>3 DEF ReapPlay, Reaped, Timeout, Input, player, ghost
  <2>2. playing' # "none" \/ playnext' => playing # "none" \/ playnext
    BY <1>3 DEF ReapPlay, Reaped, Timeout, Input, player, ghost
  <2>3. \A j \in Tracks : Settling(j) => Settling(j)'
    BY <2>1 DEF Settling
  <2>4. \A t \in played : t <= track' /\ (playing' # "none" \/ playnext' => t < track')
    BY <2>1, <2>2 DEF PlayedInv
  <2> QED BY <2>1, <2>3, <2>4, OrderKept
<1>4. CASE \E long \in BOOLEAN : TrackEnds(long)
  BY <1>4, OrderTrackEnds
<1>5. CASE Exit
  BY <1>5, EmptyOrder DEF Exit, player, ghost
<1> QED BY <1>1, <1>2, <1>3, <1>4, <1>5 DEF Loop

LEMMA OrderUser ==
  ASSUME "suspend" \notin Faults, TypeOK, LoopInv, OrderInv, PlayedInv, JobInv, User
  PROVE  OrderInv' /\ PlayedInv'
<1>1. UNCHANGED <<log, queue, played>>
  BY DEF User, Play, ToggleRtp, QuitLater, QuitNow, Interrupt, Suspend, player, ghost
<1>2. \A t \in played : t <= track' /\ (playing' # "none" \/ playnext' => t < track')
  <2>1. CASE Play
    <3>1. ~playnext /\ playnext' = playnext
      BY <2>1 DEF Play, Input, LoopInv
    <3>2. \A t \in played : t \in Int /\ t <= track
      BY DEF PlayedInv, TypeOK, Tracks
    <3> QED BY <2>1, <3>1, <3>2 DEF Play, NextTrack, TypeOK
  <2>2. CASE ~Play
    <3>1. UNCHANGED <<track, playnext>> /\ (playing' # "none" => playing # "none")
      BY <2>2 DEF User, ToggleRtp, QuitLater, QuitNow, Interrupt, Suspend, player
    <3> QED BY <3>1 DEF PlayedInv
  <2> QED BY <2>1, <2>2
<1>3. \A j \in Tracks : Settling(j) => Settling(j)'
  <2>1. CASE Interrupt
    BY <2>1 DEF Interrupt, Settling, Active, Busy, TypeOK, Job
  <2>2. CASE ~Interrupt
    <3>1. jobs' = jobs /\ pc # "leaving"
      BY <2>2 DEF User, Play, ToggleRtp, QuitLater, QuitNow, Suspend, Input
    <3> QED BY <3>1 DEF Settling
  <2> QED BY <2>1, <2>2
<1> QED BY <1>1, <1>2, <1>3, OrderKept

(* What a submission is about to post, with what is known of the queue.    *)
LEMMA LoadIsFresh ==
  ASSUME TypeOK, OrderInv, PlayedInv, JobInv, NEW j \in Tracks,
         jobs[j].phase = "asking", NEW load, load = jobs[j].load
  PROVE  /\ load \in Seq(Tracks)
         /\ Increasing(load)
         /\ Elements(load) \subseteq played
         /\ \A i \in 1 .. Len(load) : load[i] > Profile!Newest
<1>1. Fresh
  BY FreshUnlessSettling DEF Settling
<1>2. load \in Seq(Tracks) /\ queue \in Seq(Tracks)
  BY DEF TypeOK, Job
<1>3. pc # "exited" /\ IsFront(load, queue)
  <2>1. j \in Active
    BY DEF Active, Busy
  <2> QED BY <2>1 DEF JobInv, InFlightIsPrefix, Active
<1>4. /\ Len(load) \in Nat
      /\ DOMAIN load = 1 .. Len(load)
      /\ Len(queue) \in Nat
      /\ DOMAIN queue = 1 .. Len(queue)
  BY <1>2, TrackSeq
<1>5. \A i \in 1 .. Len(load) : i \in DOMAIN queue /\ load[i] = queue[i]
  BY <1>3, <1>4 DEF IsFront
<1>6. Increasing(load)
  BY <1>4, <1>5 DEF OrderInv, Increasing
<1>7. Elements(load) \subseteq played
  BY <1>4, <1>5 DEF PlayedInv, Elements
<1> QED BY <1>1, <1>2, <1>5, <1>6, <1>7 DEF Fresh

LEMMA OrderJob ==
  ASSUME TypeOK, OrderInv, PlayedInv, JobInv, NEW j \in Tracks, Submission(j)
  PROVE  OrderInv' /\ PlayedInv'
<1>1. CASE Accept(j)
  <2> DEFINE load == jobs[j].load
  <2>1. /\ jobs[j].phase = "asking"
        /\ log' = log \o load
        /\ UNCHANGED <<queue, played, track, playing, playnext>>
    BY <1>1 DEF Accept, JobStep, player, ghost
  <2>2. /\ load \in Seq(Tracks)
        /\ Increasing(load)
        /\ Elements(load) \subseteq played
        /\ \A i \in 1 .. Len(load) : load[i] > Profile!Newest
    BY <2>1, LoadIsFresh
  <2>3. Increasing(log') /\ Elements(log') \subseteq played
    <3>1. Increasing(log) /\ Elements(log) \subseteq played
      BY DEF OrderInv, PlayedInv
    <3> HIDE DEF load
    <3> QED BY <2>1, <2>2, <3>1, ConcatIncreases
  <2>4. Settling(j)'
    BY <1>1 DEF Accept, JobStep, Settling, TypeOK, Job
  <2> QED BY <2>1, <2>3, <2>4 DEF OrderInv, PlayedInv
<1>2. CASE ~Accept(j)
  <2>1. UNCHANGED <<log, queue, played, track, playing, playnext, pc>>
    BY <1>2 DEF Submission, Refuse, Unheard, JobExits, Killed, JobStep, JobDies,
                player, ghost
  <2>2. \A k \in Tracks : Settling(k) => Settling(k)'
    <3>1. \A k \in Tracks : k # j => jobs'[k] = jobs[k]
      BY SubmissionStep
    <3>2. Settling(j) => Settling(j)'
      <4> SUFFICES ASSUME jobs[j].phase = "accepted" PROVE Settling(j)'
        BY SubmissionStep DEF Settling, Busy
      <4>1. JobDies(j, 0)
        BY <1>2 DEF Submission, Refuse, Unheard, JobExits, Killed, JobStep, Retval
      <4> QED BY <4>1 DEF JobDies, Settling, TypeOK, Job
    <3> QED BY <2>1, <3>1, <3>2 DEF Settling
  <2>3. \A t \in played : t <= track' /\ (playing' # "none" \/ playnext' => t < track')
    BY <2>1 DEF PlayedInv
  <2> QED BY <2>1, <2>2, <2>3, OrderKept
<1> QED BY <1>1, <1>2

(* Profile and queue are in one ascending order, but for a submission that *)
(* is about to be taken out of the queue.                                  *)
LEMMA OrderInvariant ==
  ASSUME "suspend" \notin Faults PROVE Spec => [](OrderInv /\ PlayedInv)
<1>1. Init => OrderInv /\ PlayedInv
  BY DEF Init, OrderInv, PlayedInv, Increasing, Elements, Fresh
<1>2. TypeOK /\ TypeOK' /\ LoopInv /\ JobInv /\ (OrderInv /\ PlayedInv) /\ [Next]_vars
        => (OrderInv /\ PlayedInv)'
  <2> SUFFICES ASSUME TypeOK, TypeOK', LoopInv, JobInv, OrderInv, PlayedInv,
                      [Next]_vars
               PROVE  OrderInv' /\ PlayedInv'
    OBVIOUS
  <2>1. CASE PlaybackEnds \/ UNCHANGED vars
    <3>1. /\ UNCHANGED <<jobs, queue, log, pc, played, track, playnext>>
          /\ playing' # "none" => playing # "none"
      BY <2>1 DEF PlaybackEnds, vars, ghost
    <3>2. \A j \in Tracks : Settling(j) => Settling(j)'
      BY <3>1 DEF Settling
    <3>3. \A t \in played : t <= track' /\ (playing' # "none" \/ playnext' => t < track')
      BY <3>1 DEF PlayedInv
    <3> QED BY <3>1, <3>2, <3>3, OrderKept
  <2> QED BY <2>1, OrderLoop, OrderUser, OrderJob DEF Next, Gone
<1> QED BY <1>1, <1>2, TypeInvariant, JobInvariant, PTL DEF Spec

(* The profile names no track twice and every track in the order in which  *)
(* they were played, however often submissions are refused or get lost.    *)
THEOREM ScrobbledInOrder ==
  ASSUME "suspend" \notin Faults PROVE Spec => []ScrobbledOnce
<1>1. OrderInv => ScrobbledOnce
  BY DEF OrderInv, ScrobbledOnce
<1> QED BY <1>1, OrderInvariant, PTL

-----------------------------------------------------------------------------
(* Losses.  Here a suspension does no harm: a submission that main has     *)
(* given up too early clears nothing when it ends.                         *)

(* Why a submission that counts as a success costs no other track.         *)
LEMMA SuccessLosesLittle ==
  ASSUME TypeOK, LostInv, pc # "exited", NEW j \in Tracks, subfork = j,
         jobs[j].phase = "dead", jobs[j].code = 0
  PROVE  played \subseteq Elements(log) \cup behind \cup silent
BY DEF LostInv, LostOnlyBehind, Tracks

LEMMA LostTrackEnds ==
  ASSUME TypeOK, LoopInv, LostInv, NEW long \in BOOLEAN, TrackEnds(long)
  PROVE  LostInv'
<1>1. track \in Tracks /\ queue \in Seq(Tracks)
  BY DEF TrackEnds, LoopInv, TypeOK, Tracks
<1>2. UNCHANGED <<log, silent>> /\ pc = "ended" /\ Submit(queue')
  BY DEF TrackEnds
<1>3. /\ Elements(queue') = Elements(queue) \cup (IF rtp /\ long THEN {track} ELSE {})
      /\ played' = played \cup (IF rtp /\ long THEN {track} ELSE {})
      /\ behind' = behind \cup (IF rtp /\ long /\ subfork > 0 THEN {track} ELSE {})
  BY <1>1, AppendElements DEF TrackEnds, Enqueue
<1>4. LostOnlyBehind'
  BY <1>2, <1>3 DEF LostInv, LostOnlyBehind
<1>5. CASE ~MaySubmit(queue')
  <2>1. UNCHANGED <<subfork, jobs>>
    BY <1>2, <1>5 DEF Submit
  <2>2. CASE subfork > 0
    BY <1>2, <1>3, <1>4, <2>1, <2>2 DEF LostInv
  <2>3. CASE ~(subfork > 0)
    BY <1>2, <1>4, <2>1, <2>3 DEF LostInv
  <2> QED BY <2>2, <2>3
<1>6. CASE MaySubmit(queue')
  <2>1. CASE subfork' = -1 /\ UNCHANGED jobs
    BY <1>2, <1>4, <2>1 DEF LostInv
  <2>2. CASE subfork' = track /\ jobs' = [jobs EXCEPT ![track] =
                  [NoJob EXCEPT !.phase = "asking", !.load = queue']]
    <3>1. /\ jobs'[track].load = queue' /\ jobs'[track].phase = "asking"
          /\ \A k \in Tracks : k # track => jobs'[k] = jobs[k]
      BY <1>1, <2>2 DEF TypeOK, NoJob
    <3> QED BY <1>2, <1>4, <2>2, <3>1 DEF LostInv
  <2> QED BY <1>2, <1>6, <2>1, <2>2 DEF Submit
<1> QED BY <1>5, <1>6

(* Steps of main that leave the queue, or drop what a success covers.      *)
LEMMA LostMain ==
  ASSUME TypeOK, LoopInv, LostInv, Loop \/ User PROVE LostInv'
<1>1. CASE \E j \in Tracks : ReapJob(j)
  <2>1. PICK j \in Tracks : ReapJob(j)
    BY <1>1
  <2>2. /\ UNCHANGED <<pc, log, played, behind, silent>>
        /\ pc = "reap"
        /\ jobs[j].phase = "dead"
        /\ jobs' = [jobs EXCEPT ![j] = NoJob]
    BY <2>1 DEF ReapJob, ghost
  <2>3. jobs'[j].phase = "none" /\ \A k \in Tracks : k # j => jobs'[k] = jobs[k]
    BY <2>2 DEF TypeOK, NoJob
  <2>4. CASE subfork = j
    <3>1. subfork' = 0 /\ queue' = IF jobs[j].code = 0 THEN <<>> ELSE queue
      BY <2>1, <2>4 DEF ReapJob, Subdead
    <3>2. LostOnlyBehind'
      BY <2>2, <2>4, <3>1, SuccessLosesLittle DEF LostInv, LostOnlyBehind
    <3> QED BY <2>2, <2>3, <3>1, <3>2 DEF LostInv
  <2>5. CASE subfork # j
    <3>1. UNCHANGED <<subfork, queue>>
      BY <2>1, <2>5 DEF ReapJob
    <3>2. subfork > 0 => jobs'[subfork] = jobs[subfork]
      BY <2>3, <2>5 DEF TypeOK, Tracks
    <3> QED BY <2>2, <2>3, <3>1, <3>2 DEF LostInv, LostOnlyBehind
  <2> QED BY <2>4, <2>5
<1>2. CASE \E j \in Tracks : JobStirred(j)
  <2>1. PICK j \in Tracks : JobStirred(j)
    BY <1>2
  <2>2. /\ UNCHANGED <<pc, log, played, behind, silent, queue>>
        /\ subfork' \in {0, subfork}
    BY <2>1 DEF JobStirred, Subdead, ghost
  <2>3. \A k \in Tracks : /\ jobs'[k].phase = jobs[k].phase
                          /\ jobs'[k].load = jobs[k].load
                          /\ jobs'[k].code = jobs[k].code
    BY <2>1 DEF JobStirred, TypeOK, Job
  <2>4. subfork > 0 => jobs'[subfork].load = jobs[subfork].load
    BY <2>3 DEF TypeOK, Tracks
  <2> QED BY <2>2, <2>3, <2>4 DEF LostInv, LostOnlyBehind
<1>3. CASE Interrupt \/ Suspend
  <2>1. /\ UNCHANGED <<log, played, behind, silent, queue, subfork>>
        /\ pc # "exited"
    BY <1>3 DEF Interrupt, Suspend, ghost
  <2>2. \A k \in Tracks :
          /\ jobs'[k].load = jobs[k].load
          /\ \/ jobs'[k].phase = jobs[k].phase /\ jobs'[k].code = jobs[k].code
             \/ jobs'[k].phase = "dead" /\ jobs'[k].code = 1
    <3>1. CASE Interrupt
      BY <3>1 DEF Interrupt, TypeOK, Job
    <3>2. CASE Suspend
      BY <3>2 DEF Suspend, TypeOK, Job
    <3> QED BY <1>3, <3>1, <3>2
  <2>3. subfork > 0 => jobs'[subfork].load = jobs[subfork].load
    BY <2>2 DEF TypeOK, Tracks
  <2> QED BY <2>1, <2>2, <2>3 DEF LostInv, LostOnlyBehind
<1>4. CASE Exit
  <2>1. /\ UNCHANGED <<log, played, behind, silent, subfork, jobs>>
        /\ pc' = "exited" /\ queue' = <<>>
    BY <1>4 DEF Exit, ghost
  <2>2. Elements(queue') = {}
    BY <2>1 DEF Elements
  <2> QED BY <2>1, <2>2 DEF LostInv, LostOnlyBehind
<1>5. CASE ReapPlay \/ Reaped \/ Timeout \/ Play \/ ToggleRtp \/ QuitLater \/ QuitNow
  <2>1. UNCHANGED <<log, played, behind, silent, queue, subfork, jobs>> /\ pc # "exited"
    BY <1>5 DEF ReapPlay, Reaped, Timeout, Play, ToggleRtp, QuitLater, QuitNow, Input,
                ghost
  <2> QED BY <2>1 DEF LostInv, LostOnlyBehind
<1> QED BY <1>1, <1>2, <1>3, <1>4, <1>5, LostTrackEnds DEF Loop, User

LEMMA LostJob ==
  ASSUME TypeOK, LostInv, NEW j \in Tracks, Submission(j) PROVE LostInv'
<1>1. /\ UNCHANGED <<pc, queue, subfork, played, behind>>
      /\ jobs'[j].load = jobs[j].load
      /\ \A k \in Tracks : k # j => jobs'[k] = jobs[k]
  BY SubmissionStep
<1>2. Elements(log) \subseteq Elements(log') /\ silent \subseteq silent'
  <2>1. log \in Seq(Tracks) /\ jobs[j].load \in Seq(Tracks)
    BY DEF TypeOK, Job
  <2>2. log' = log \/ log' = log \o jobs[j].load
    BY DEF Submission, Accept, Refuse, Unheard, JobExits, Killed, JobDies
  <2>3. silent \subseteq silent'
    BY DEF Submission, Accept, Refuse, Unheard, JobExits, Killed
  <2> QED BY <2>1, <2>2, <2>3, ConcatElements
<1>3. LET load == Elements(jobs[j].load)
      IN  /\ jobs'[j].phase = "accepted" => load \subseteq Elements(log')
          /\ jobs'[j].phase = "unheard" => load \subseteq silent'
          /\ jobs'[j].phase = "dead" /\ jobs'[j].code = 0 =>
               load \subseteq Elements(log') \cup silent'
  <2>1. log \in Seq(Tracks) /\ jobs[j].load \in Seq(Tracks)
    BY DEF TypeOK, Job
  <2>2. CASE Accept(j)
    <3>1. Elements(jobs[j].load) \subseteq Elements(log')
      BY <2>1, <2>2, ConcatElements DEF Accept
    <3>2. jobs'[j].phase = "accepted"
      BY <2>2 DEF Accept, JobStep, TypeOK, Job
    <3> QED BY <3>1, <3>2
  <2>3. CASE Refuse(j) \/ Unheard(j)
    BY <2>3 DEF Refuse, Unheard, JobStep, TypeOK, Job
  <2>4. CASE Killed(j)
    BY <2>4 DEF Killed, JobDies, TypeOK, Job
  <2>5. CASE JobExits(j)
    <3>1. jobs[j].phase \in {"accepted", "refused", "unheard"}
      BY <2>5 DEF JobExits, JobDies, Busy
    <3>2. /\ jobs'[j].phase = "dead"
          /\ jobs'[j].code = 0 => jobs[j].phase # "refused"
          /\ log' = log /\ silent' = silent
      BY <2>5 DEF JobExits, JobDies, Retval, TypeOK, Job
    <3> QED BY <3>1, <3>2 DEF LostInv
  <2> QED BY <2>2, <2>3, <2>4, <2>5 DEF Submission
<1>4. subfork > 0 => jobs'[subfork].load = jobs[subfork].load
  BY <1>1 DEF TypeOK, Tracks
<1> QED BY <1>1, <1>2, <1>3, <1>4 DEF LostInv, LostOnlyBehind

LEMMA LostInvariant == Spec => []LostInv
<1>1. Init => LostInv
  BY DEF Init, LostInv, LostOnlyBehind, NoJob
<1>2. TypeOK /\ LoopInv /\ LostInv /\ [Next]_vars => LostInv'
  <2> SUFFICES ASSUME TypeOK, LoopInv, LostInv, [Next]_vars PROVE LostInv'
    OBVIOUS
  <2>1. CASE PlaybackEnds \/ UNCHANGED vars
    <3>1. UNCHANGED <<pc, log, played, behind, silent, queue, subfork, jobs>>
      BY <2>1 DEF PlaybackEnds, vars, ghost
    <3> QED BY <3>1 DEF LostInv, LostOnlyBehind
  <2> QED BY <2>1, LostMain, LostJob DEF Next, Gone
<1> QED BY <1>1, <1>2, TypeInvariant, PTL DEF Spec

(* The only tracks that are lost while the program runs are those enqueued *)
(* behind a running submission and those of a submission that got no       *)
(* answer or was killed; whatever else goes wrong, ^Z included.            *)
THEOREM FewAreLost == Spec => []LostOnlyBehind
<1>1. LostInv => LostOnlyBehind
  BY DEF LostInv
<1> QED BY <1>1, LostInvariant, PTL

-----------------------------------------------------------------------------
(* The invariant of the proofs is the one that is model-checked.           *)
THEOREM LedgerInvariant ==
  ASSUME "suspend" \notin Faults PROVE Spec => []LedgerInv
<1>1. TypeOK /\ LoopInv /\ OrderInv /\ PlayedInv /\ JobInv /\ LostInv => LedgerInv
  BY DEF LedgerInv
<1> QED BY <1>1, TypeInvariant, JobInvariant, OrderInvariant, LostInvariant, PTL

-----------------------------------------------------------------------------
(* The scrobbler implements the ledger.                                    *)

LEMMA GrowthIsLoad ==
  ASSUME NEW a \in Seq(Tracks), NEW b \in Seq(Tracks)
  PROVE  SubSeq(a \o b, Len(a) + 1, Len(a \o b)) = b
OBVIOUS

LEMMA StepRefines ==
  ASSUME TypeOK, LoopInv, OrderInv, PlayedInv, JobInv, [Next]_vars
  PROVE  [Profile!Next]_(Profile!vars)
<1>1. CASE \E j \in Tracks : Accept(j)
  <2>1. PICK j \in Tracks : Accept(j)
    BY <1>1
  <2> DEFINE load == jobs[j].load
  <2>2. /\ jobs[j].phase = "asking"
        /\ log' = log \o load
        /\ UNCHANGED played
    BY <2>1 DEF Accept, JobStep, ghost
  <2>3. /\ load \in Seq(Tracks)
        /\ Increasing(load)
        /\ Elements(load) \subseteq played
        /\ \A i \in 1 .. Len(load) : load[i] > Profile!Newest
    BY <2>2, LoadIsFresh
  <2> HIDE DEF load
  <2>4. Profile!Growth = load
    BY <2>2, <2>3, GrowthIsLoad DEF Profile!Growth, TypeOK
  <2>5. Profile!Scrobbled(load)
    BY <2>2, <2>3, TrackSeq DEF Profile!Scrobbled, Increasing, Elements
  <2> QED BY <2>4, <2>5 DEF Profile!Next
<1>2. CASE \E long \in BOOLEAN : TrackEnds(long)
  <2>1. PICK long \in BOOLEAN : TrackEnds(long)
    BY <1>2
  <2>2. log' = log /\ (played' = played \/ played' = played \cup {track})
    BY <2>1 DEF TrackEnds
  <2>3. \A u \in played : u < track
    BY <2>1 DEF TrackEnds, LoopInv, PlayedInv
  <2> QED BY <2>2, <2>3 DEF Profile!Next, Profile!Played, Profile!vars
<1>3. CASE ~(\E j \in Tracks : Accept(j)) /\ ~(\E long \in BOOLEAN : TrackEnds(long))
  <2>1. UNCHANGED <<played, log>>
    BY <1>3 DEF Next, Loop, ReapJob, JobStirred, ReapPlay, Reaped, Timeout, Exit,
         User, Play, ToggleRtp, QuitLater, QuitNow, Interrupt, Suspend,
         PlaybackEnds, Gone, vars, Submission, Refuse, Unheard, JobExits, Killed,
         JobStep, JobDies, ghost
  <2> QED BY <2>1 DEF Profile!vars
<1> QED BY <1>1, <1>2, <1>3

(* The profile grows by tracks that were played and are not in it, oldest  *)
(* first, whatever the server, the network and fork do.                    *)
THEOREM ScrobblerIsLedger ==
  ASSUME "suspend" \notin Faults PROVE Spec => ImplementsLedger
<1>1. Init => Profile!Init
  BY DEF Init, Profile!Init
<1> QED BY <1>1, StepRefines, TypeInvariant, JobInvariant, OrderInvariant, PTL
        DEF Spec, Profile!Spec, ImplementsLedger
=============================================================================
