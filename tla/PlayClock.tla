----------------------------- MODULE PlayClock ------------------------------
(***************************************************************************)
(* How shell-fm knows for how long a track has been played: change_time,   *)
(* pausetime and pauselength of main.c, which the pause of the interface,  *)
(* ^Z, and the reports of waitpid() that the playback process continued or *)
(* ended keep between them.  A track is scrobbled if it was played long    *)
(* enough, and the remaining time is displayed from the same numbers.      *)
(*                                                                         *)
(* Time is counted in ticks.  Main is late at will: it may be at a prompt. *)
(***************************************************************************)
EXTENDS Integers

CONSTANTS
  Durations,    \* durations of tracks
  Minimum,      \* configured minimum, in percent (of 50 without one)
  Least,        \* 30 seconds: no shorter track is scrobbled
  Enough,       \* 240 seconds: played for so long is enough
  Word,         \* unsigned numbers are computed modulo this
  MaxTime,      \* bound: the last tick
  Suspends      \* TRUE iff the user types ^Z

ASSUME DurationsAssumption == Durations \subseteq Nat
ASSUME NumbersAssumption == {Minimum, Least, Enough, Word, MaxTime} \subseteq Nat
ASSUME WordAssumption == 0 < MaxTime /\ MaxTime < Word
ASSUME SuspendsAssumption == Suspends \in BOOLEAN

VARIABLES
  now,          \* time(NULL)
  main,         \* "up", or "suspended" by ^Z
  armed,        \* stopsig() handles SIGTSTP
  process,      \* the playback process: "none", "running", "stopped", "dead"
  continued,    \* a report that it continued awaits waitpid()
  duration,     \* of the track
  change_time,
  pausetime,
  pauselength,
  remain,       \* the remaining time displayed
  verdict,      \* of the track that ended last: "none", "enqueued", "short"
  ran,          \* history: ticks the process was not stopped
  slack,        \* history: those before main knew that it was continued
  lag,          \* history: ticks it was dead before main knew
  odd           \* history: a pause was not measured, see the actions

clock == <<change_time, pausetime, pauselength>>
history == <<ran, slack, lag, odd>>
vars == <<now, main, armed, process, continued, duration, change_time,
          pausetime, pauselength, remain, verdict, ran, slack, lag, odd>>

Init ==
  /\ now = 1
  /\ main = "up"
  /\ armed = TRUE
  /\ process = "none"
  /\ continued = FALSE
  /\ duration = 0
  /\ change_time = 0
  /\ pausetime = 0
  /\ pauselength = 0
  /\ remain = 0
  /\ verdict = "none"
  /\ ran = 0
  /\ slack = 0
  /\ lag = 0
  /\ odd = FALSE

-----------------------------------------------------------------------------
(* Main.  A name that ends in _ is a version of the operator below it with *)
(* a plausible slip; none is part of the model.                            *)

(* A track begins.  pausetime is not reset: ^Z between two tracks set it.  *)
Play(d) ==
  /\ main = "up"
  /\ process = "none"
  /\ process' = "running"
  /\ continued' = FALSE
  /\ duration' = d
  /\ change_time' = now
  /\ pauselength' = 0
  /\ ran' = 0
  /\ slack' = 0
  /\ lag' = 0
  /\ odd' = (pausetime # 0)
  /\ UNCHANGED <<now, main, armed, pausetime, remain, verdict>>

(* The key p and the command "pause": what they do depends on pausetime,   *)
(* not on the process.                                                     *)
Pause ==
  /\ main = "up"
  /\ process # "none"
  /\ IF pausetime # 0
     THEN /\ process' = IF process = "stopped" THEN "running" ELSE process
          /\ continued' = (continued \/ process = "stopped")
          /\ UNCHANGED pausetime
     ELSE /\ pausetime' = now
          /\ process' = IF process = "running" THEN "stopped" ELSE process
          /\ continued' = FALSE
  /\ UNCHANGED <<now, main, armed, duration, change_time, pauselength, remain,
                 verdict, history>>

(* waitpid() reports that the process continued.                           *)
Continues_ == pauselength' = pauselength
Continues == pauselength' = pauselength + (IF pausetime # 0 THEN now - pausetime ELSE 0)
ReapContinued ==
  /\ main = "up"
  /\ continued
  /\ process # "dead"
  /\ continued' = FALSE
  /\ armed' = TRUE
  /\ Continues
  /\ pausetime' = 0
  /\ UNCHANGED <<now, main, process, duration, change_time, remain, verdict, history>>

(* ... that it ended; the track is enqueued if it was played for long      *)
(* enough.  played is unsigned.                                            *)
Percent == IF Minimum < 50 THEN 50 ELSE Minimum
Threshold == (duration * Percent) \div 100
Played == (now - change_time - pauselength) % Word
LongEnough_ == now - change_time >= Enough \/ now - change_time > Threshold
LongEnough == duration >= Least /\ (Played >= Enough \/ Played > Threshold)
ReapEnded ==
  /\ main = "up"
  /\ process = "dead"
  /\ process' = "none"
  /\ continued' = FALSE
  /\ pausetime' = 0
  /\ verdict' = IF LongEnough THEN "enqueued" ELSE "short"
  /\ UNCHANGED <<now, main, armed, duration, change_time, pauselength, remain, history>>

(* The end of an iteration of the loop: the remaining time is displayed,   *)
(* but not during a pause.                                                 *)
Remains_ == change_time + duration - now
Remains == change_time + duration - now + pauselength
Display ==
  /\ main = "up"
  /\ process # "none"
  /\ change_time # 0
  /\ pausetime = 0
  /\ remain' = Remains
  /\ UNCHANGED <<now, main, armed, process, continued, duration, clock, verdict, history>>

-----------------------------------------------------------------------------
(* The terminal.                                                           *)

(* ^Z reaches main and the process.  stopsig() sets pausetime, whatever it *)
(* was, and leaves SIGTSTP to its default; only the report of a            *)
(* continuation arms it again.                                             *)
Suspend ==
  /\ Suspends
  /\ main = "up"
  /\ main' = "suspended"
  /\ armed' = FALSE
  /\ pausetime' = IF armed THEN now ELSE pausetime
  /\ process' = IF process = "running" THEN "stopped" ELSE process
  /\ continued' = FALSE
  /\ odd' = (odd \/ (process \in {"running", "stopped"} /\ armed = (pausetime # 0)))
  /\ UNCHANGED <<now, duration, change_time, pauselength, remain, verdict,
                 ran, slack, lag>>

(* "fg" continues both, a paused process too.                              *)
Foreground ==
  /\ main = "suspended"
  /\ main' = "up"
  /\ process' = IF process = "stopped" THEN "running" ELSE process
  /\ continued' = (process = "stopped")
  /\ UNCHANGED <<now, armed, duration, clock, remain, verdict, history>>

(* The process ends.  A report of its continuation that main has not       *)
(* fetched is gone.                                                        *)
End ==
  /\ process = "running"
  /\ process' = "dead"
  /\ continued' = FALSE
  /\ odd' = (odd \/ pausetime # 0)
  /\ UNCHANGED <<now, main, armed, duration, clock, remain, verdict, ran, slack, lag>>

Tick ==
  /\ now < MaxTime
  /\ now' = now + 1
  /\ ran' = IF process = "running" THEN ran + 1 ELSE ran
  /\ slack' = IF process = "running" /\ pausetime # 0 THEN slack + 1 ELSE slack
  /\ lag' = IF process = "dead" THEN lag + 1 ELSE lag
  /\ UNCHANGED <<main, armed, process, continued, duration, clock, remain, verdict, odd>>

-----------------------------------------------------------------------------
Next ==
  \/ \E d \in Durations : Play(d)
  \/ Pause
  \/ ReapContinued
  \/ ReapEnded
  \/ Display
  \/ Suspend
  \/ Foreground
  \/ End
  \/ Tick

Spec == Init /\ [][Next]_vars
=============================================================================
