----------------------------- MODULE Scrobbler -----------------------------
(***************************************************************************)
(* The scrobbler of shell-fm: submit.c, the part of the main loop of       *)
(* main.c that feeds it, and the part of cleanup() that waits for it.      *)
(*                                                                         *)
(* The main process keeps a queue of the tracks that were played long      *)
(* enough.  Whenever a track ends it forks a submission, a copy of itself  *)
(* that posts the whole queue and reports by its exit code.  Tracks, and   *)
(* the submissions forked at their ends, are numbered in the order in      *)
(* which they play.  The player itself is left out: a track plays, ends    *)
(* some time, and is followed by another one or by silence.                *)
(***************************************************************************)
EXTENDS Integers, Sequences, FiniteSets

CONSTANTS
  MaxTracks,    \* bound: tracks played in one run
  Toggles,      \* TRUE iff the user switches RTP off and on
  Faults        \* what goes wrong, of the following
                \* "error": the server refuses, and says so
                \* "unheard": no connection, or an answer that is none
                \* "killed": the submission dies of a signal (SIGPIPE, say)
                \* "fork": fork() fails
                \* "suspend": ^Z and fg
                \* "interrupt": ^C

ASSUME MaxTracksAssumption == MaxTracks \in Nat \ {0}
ASSUME TogglesAssumption == Toggles \in BOOLEAN
ASSUME FaultsAssumption ==
  Faults \subseteq {"error", "unheard", "killed", "fork", "suspend", "interrupt"}

Tracks == 1 .. MaxTracks

(* A submission: its copy of the queue, how far it got, its exit code, and *)
(* whether a stop or a continuation of it is waiting to be reported.       *)
Job == [phase : {"none", "asking", "accepted", "refused", "unheard", "dead"},
        load : Seq(Tracks), code : {0, 1}, stirred : {"no", "yes"}]
NoJob == [phase |-> "none", load |-> <<>>, code |-> 0, stirred |-> "no"]

VARIABLES
  pc,           \* main: "reap", "ended", "input", "leaving" or "exited"
  playnext,     \* the playback process was reaped
  track,        \* the track played last
  playing,      \* its playback process: "none", "on" or "over" (a zombie)
  rtp,          \* RTP is enabled
  delayquit,
  queue,        \* queue and queue_length
  subfork,      \* 0, a submission, or -1 after a failed fork
  jobs,         \* the submissions
  log,          \* the server: the tracks it accepted, in its order
  played,       \* history: the tracks that were put into the queue
  behind,       \* history: those put there while a submission was running
  silent        \* history: those of submissions that got no answer, or were
                \* killed

player == <<track, playing, rtp, delayquit>>
ghost == <<played, behind, silent>>
vars == <<pc, playnext, track, playing, rtp, delayquit, queue, subfork, jobs,
          log, played, behind, silent>>

Elements(s) == {s[i] : i \in DOMAIN s}
Busy == {"asking", "accepted", "refused", "unheard"}
Active == {j \in Tracks : jobs[j].phase \in Busy}

Init ==
  /\ pc = "reap"
  /\ playnext = FALSE
  /\ track = 0
  /\ playing = "none"
  /\ rtp = TRUE
  /\ delayquit = FALSE
  /\ queue = <<>>
  /\ subfork = 0
  /\ jobs = [j \in Tracks |-> NoJob]
  /\ log = <<>>
  /\ played = {}
  /\ behind = {}
  /\ silent = {}

-----------------------------------------------------------------------------
(* The waitpid loop.                                                       *)

(* subdead(), with the exit code that WEXITSTATUS makes of the status.  A  *)
(* name that ends in _ is a version of the operator below it with a        *)
(* plausible slip; none is part of the model, each shows that a property   *)
(* would notice the slip.                                                  *)
SubdeadClears_(exitcode) ==
  /\ subfork' = 0
  /\ queue' = <<>>
SubdeadRepeats_(exitcode) ==
  /\ subfork' = 0
  /\ queue' = queue
SubdeadStuck_(exitcode) ==
  IF exitcode = 0 THEN subfork' = 0 /\ queue' = <<>>
                  ELSE UNCHANGED <<subfork, queue>>
Subdead(exitcode) ==
  /\ subfork' = 0
  /\ queue' = IF exitcode = 0 THEN <<>> ELSE queue

(* A submission has died.  One that subfork does not name is ignored.      *)
ReapJob(j) ==
  /\ pc = "reap"
  /\ jobs[j].phase = "dead"
  /\ IF subfork = j THEN Subdead(jobs[j].code) ELSE UNCHANGED <<subfork, queue>>
  /\ jobs' = [jobs EXCEPT ![j] = NoJob]
  /\ UNCHANGED <<pc, playnext, player, log, ghost>>

(* A submission was stopped or continued.  The status is not looked at, and*)
(* WEXITSTATUS makes a number other than 0 of it.                          *)
JobStirred(j) ==
  /\ pc = "reap"
  /\ jobs[j].phase \in Busy
  /\ jobs[j].stirred = "yes"
  /\ IF subfork = j THEN Subdead(1) ELSE UNCHANGED <<subfork, queue>>
  /\ jobs' = [jobs EXCEPT ![j].stirred = "no"]
  /\ UNCHANGED <<pc, playnext, player, log, ghost>>

(* The playback process has died.  A delayed quit happens on the spot.     *)
ReapPlay ==
  /\ pc = "reap"
  /\ playing = "over"
  /\ playing' = "none"
  /\ playnext' = TRUE
  /\ pc' = IF delayquit THEN "leaving" ELSE pc
  /\ UNCHANGED <<track, rtp, delayquit, queue, subfork, jobs, log, ghost>>

Reaped ==
  /\ pc = "reap"
  /\ playing # "over"
  /\ \A j \in Tracks : jobs[j].phase # "dead" /\ jobs[j].stirred = "no"
  /\ pc' = IF playnext THEN "ended" ELSE "input"
  /\ UNCHANGED <<playnext, player, queue, subfork, jobs, log, ghost>>

-----------------------------------------------------------------------------
(* The end of a track: enqueue() and submit().                             *)

Enqueue_(long) == queue' = IF rtp /\ long THEN <<track>> \o queue ELSE queue
Enqueue(long) == queue' = IF rtp /\ long THEN Append(queue, track) ELSE queue

(* submit() does nothing while a submission runs.                          *)
MaySubmit(list) == list # <<>> /\ subfork <= 0

Submit(list) ==
  IF MaySubmit(list)
  THEN \/ /\ subfork' = track
          /\ jobs' = [jobs EXCEPT ![track] =
                        [NoJob EXCEPT !.phase = "asking", !.load = list]]
       \/ /\ "fork" \in Faults
          /\ subfork' = -1
          /\ UNCHANGED jobs
  ELSE UNCHANGED <<subfork, jobs>>

(* The next track starts, unless playback was stopped or nothing is left.  *)
NextTrack == \/ playing' = "on" /\ track' = track + 1 /\ track < MaxTracks
             \/ playing' = "none" /\ UNCHANGED track

(* long: the track has been played for its minimum.                        *)
TrackEnds(long) ==
  /\ pc = "ended"
  /\ Enqueue(long)
  /\ Submit(queue')
  /\ played' = IF rtp /\ long THEN played \cup {track} ELSE played
  /\ behind' = IF rtp /\ long /\ subfork > 0 THEN behind \cup {track} ELSE behind
  /\ NextTrack
  /\ playnext' = FALSE
  /\ pc' = "input"
  /\ UNCHANGED <<rtp, delayquit, log, silent>>

-----------------------------------------------------------------------------
(* The input the scrobbler notices.                                        *)

Input == pc = "input" /\ pc' = "reap"

Timeout ==
  /\ Input
  /\ UNCHANGED <<playnext, player, queue, subfork, jobs, log, ghost>>

Play ==
  /\ Input
  /\ playing = "none"
  /\ NextTrack
  /\ UNCHANGED <<playnext, rtp, delayquit, queue, subfork, jobs, log, ghost>>

ToggleRtp ==
  /\ Input
  /\ Toggles
  /\ rtp' = ~rtp
  /\ UNCHANGED <<playnext, track, playing, delayquit, queue, subfork, jobs, log,
                 ghost>>

QuitLater ==
  /\ Input
  /\ delayquit' = ~delayquit
  /\ UNCHANGED <<playnext, track, playing, rtp, queue, subfork, jobs, log, ghost>>

QuitNow ==
  /\ pc = "input"
  /\ pc' = "leaving"
  /\ UNCHANGED <<playnext, player, queue, subfork, jobs, log, ghost>>

(* ^C reaches the submissions too; like main, they exit with a failure.    *)
Interrupt ==
  /\ "interrupt" \in Faults
  /\ pc \notin {"leaving", "exited"}
  /\ pc' = "leaving"
  /\ jobs' = [j \in Tracks |->
                IF j \in Active THEN [jobs[j] EXCEPT !.phase = "dead", !.code = 1]
                                ELSE jobs[j]]
  /\ playing' = IF playing = "on" THEN "over" ELSE playing
  /\ UNCHANGED <<playnext, track, rtp, delayquit, queue, subfork, log, ghost>>

-----------------------------------------------------------------------------
(* cleanup(): wait for the submission, and drop the queue: dump_queue()    *)
(* does not write it anywhere.  After a failed fork, waitpid(-1) waits for *)
(* any process to die; with no child left it returns at once.              *)
Dead(j) == jobs[j].phase \in {"none", "dead"}
NoneToAwait ==
  IF subfork > 0 THEN Dead(subfork)
  ELSE \/ subfork = 0
       \/ playing = "over" \/ \E j \in Tracks : jobs[j].phase = "dead"
       \/ playing = "none" /\ Active = {}

Exit ==
  /\ pc = "leaving"
  /\ NoneToAwait
  /\ pc' = "exited"
  /\ queue' = <<>>
  /\ UNCHANGED <<playnext, player, subfork, jobs, log, ghost>>

-----------------------------------------------------------------------------
(* A submission: one request that carries its copy of the queue.  It exits *)
(* with 1 when the answer is an error message, with 0 when the answer is   *)
(* none, and WEXITSTATUS of a process killed by a signal is 0, too.        *)

JobStep(j, from, to) ==
  /\ jobs[j].phase \in from
  /\ jobs' = [jobs EXCEPT ![j].phase = to]
  /\ UNCHANGED <<pc, playnext, player, queue, subfork, played, behind>>

Accept(j) ==
  JobStep(j, {"asking"}, "accepted") /\ log' = log \o jobs[j].load /\ UNCHANGED silent

Refuse(j) ==
  "error" \in Faults /\ JobStep(j, {"asking"}, "refused") /\ UNCHANGED <<log, silent>>

Unheard(j) ==
  /\ "unheard" \in Faults
  /\ JobStep(j, {"asking"}, "unheard")
  /\ silent' = silent \cup Elements(jobs[j].load)
  /\ UNCHANGED log

Retval(j) == IF jobs[j].phase = "refused" THEN 1 ELSE 0

JobDies(j, code) ==
  /\ jobs[j].phase \in Busy
  /\ jobs' = [jobs EXCEPT ![j].phase = "dead", ![j].code = code,
                          ![j].stirred = "no"]
  /\ UNCHANGED <<pc, playnext, player, queue, subfork, log, played, behind>>

JobExits_(j) ==
  /\ jobs[j].phase # "asking"
  /\ UNCHANGED silent
  /\ IF jobs[j].phase = "refused"
     THEN JobStep(j, {"refused"}, "asking") /\ UNCHANGED log
     ELSE JobDies(j, 0)
JobExits(j) ==
  jobs[j].phase # "asking" /\ JobDies(j, Retval(j)) /\ UNCHANGED silent

Killed(j) ==
  /\ "killed" \in Faults
  /\ JobDies(j, 0)
  /\ silent' = silent \cup Elements(jobs[j].load)

(* ^Z stops main and its children, fg continues them.                      *)
Suspend ==
  /\ "suspend" \in Faults
  /\ pc # "exited"
  /\ Active # {}
  /\ jobs' = [j \in Tracks |->
                IF j \in Active THEN [jobs[j] EXCEPT !.stirred = "yes"]
                                ELSE jobs[j]]
  /\ UNCHANGED <<pc, playnext, player, queue, subfork, log, ghost>>

PlaybackEnds ==
  /\ playing = "on"
  /\ playing' = "over"
  /\ UNCHANGED <<pc, playnext, track, rtp, delayquit, queue, subfork, jobs, log,
                 ghost>>

-----------------------------------------------------------------------------
Loop == \/ \E j \in Tracks : ReapJob(j) \/ JobStirred(j)
        \/ ReapPlay \/ Reaped
        \/ \E long \in BOOLEAN : TrackEnds(long)
        \/ Timeout \/ Exit
User == Play \/ ToggleRtp \/ QuitLater \/ QuitNow \/ Interrupt \/ Suspend
Submission(j) == \/ Accept(j) \/ Refuse(j) \/ Unheard(j)
                 \/ JobExits(j) \/ Killed(j)

Gone == pc = "exited" /\ UNCHANGED vars

Next == Loop \/ User \/ PlaybackEnds \/ Gone \/ \E j \in Tracks : Submission(j)

Spec == Init /\ [][Next]_vars

(* Main and its children are scheduled, every track ends, and every request*)
(* is answered or given up.                                                *)
Fairness ==
  /\ WF_vars(Loop) /\ WF_vars(PlaybackEnds)
  /\ \A j \in Tracks : WF_vars(Submission(j))

FairSpec == Spec /\ Fairness
=============================================================================
