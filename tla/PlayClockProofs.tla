-------------------------- MODULE PlayClockProofs ---------------------------
(***************************************************************************)
(* Proofs about module PlayClock.                                          *)
(***************************************************************************)
EXTENDS PlayClockProps, TLAPS

LEMMA InitClock == Init => ClockInv
  <1> SUFFICES ASSUME Init PROVE ClockInv
    OBVIOUS
  <1>1. armed \in BOOLEAN /\ continued \in BOOLEAN /\ odd \in BOOLEAN
    BY DEF Init
  <1>2. now \in 1 .. MaxTime
    BY NumbersAssumption, WordAssumption DEF Init
  <1> QED BY <1>1, <1>2 DEF Init, ClockInv, TypeOK, CountInv

(* Each action preserves the invariant; in turn, those of main ...         *)
LEMMA PlayClocks == ASSUME ClockInv, NEW d \in Durations, Play(d)
                    PROVE  ClockInv'
  <1>1. continued' \in BOOLEAN /\ ~continued'
    BY DEF Play
  <1>2. odd' \in BOOLEAN /\ (~odd' => pausetime = 0)
    BY DEF Play
  <1>3. /\ process' = "running" /\ duration' = d /\ change_time' = now
        /\ pauselength' = 0 /\ ran' = 0 /\ slack' = 0 /\ lag' = 0
        /\ UNCHANGED <<now, main, armed, pausetime, remain, verdict>>
    BY DEF Play
  <1>5. TypeOK'
    BY <1>1, <1>2, <1>3, DurationsAssumption DEF ClockInv, TypeOK
  <1>6. ~odd' => Counted' = 0
    <2>1. now \in Int
      BY NumbersAssumption DEF ClockInv, TypeOK
    <2>2. ~odd' => Counted' = now' - change_time' - pauselength' - 0
      BY <1>2, <1>3 DEF Counted
    <2> QED BY <1>3, <2>1, <2>2
  <1>7. CountInv'
    BY <1>1, <1>3, <1>6 DEF ClockInv, TypeOK, CountInv
  <1> QED BY <1>5, <1>7 DEF ClockInv

LEMMA PauseClocks == ASSUME ClockInv, Pause PROVE ClockInv'
  <1>1. continued' \in BOOLEAN /\ (pausetime = 0 => ~continued')
    BY DEF Pause, ClockInv, TypeOK
  <1> QED BY <1>1 DEF ClockInv, TypeOK, CountInv, Counted, Pause, history

LEMMA ContinuedClocks == ASSUME ClockInv, ReapContinued PROVE ClockInv'
  <1>1. continued' \in BOOLEAN /\ ~continued'
    BY DEF ReapContinued
  <1>2. armed' \in BOOLEAN
    BY DEF ReapContinued
  <1>3. /\ continued /\ process # "dead" /\ pausetime' = 0
        /\ pauselength' = pauselength + (IF pausetime # 0 THEN now - pausetime ELSE 0)
        /\ UNCHANGED <<now, main, process, duration, change_time, remain, verdict>>
        /\ UNCHANGED <<ran, slack, lag, odd>>
    BY DEF ReapContinued, Continues, history
  <1>5. TypeOK'
    BY <1>1, <1>2, <1>3 DEF ClockInv, TypeOK
  <1>6. ~odd => Counted' = Counted
    BY <1>2, <1>3 DEF ClockInv, TypeOK, Counted
  <1>7. CountInv'
    BY <1>1, <1>3, <1>6 DEF ClockInv, TypeOK, CountInv
  <1> QED BY <1>5, <1>7 DEF ClockInv

LEMMA EndedClocks == ASSUME ClockInv, ReapEnded PROVE ClockInv'
  <1>1. continued' \in BOOLEAN /\ verdict' \in {"enqueued", "short"}
    BY DEF ReapEnded, ClockInv, TypeOK
  <1> QED BY <1>1 DEF ClockInv, TypeOK, CountInv, Counted, ReapEnded, history

LEMMA DisplayClocks == ASSUME ClockInv, Display PROVE ClockInv'
  <1>1. Remains \in Int
    BY DurationsAssumption DEF ClockInv, TypeOK, Remains
  <1> QED
    BY <1>1 DEF ClockInv, TypeOK, CountInv, Counted, Display, clock, history

(* ... and those of the terminal, the process and the clock.               *)
LEMMA SuspendClocks == ASSUME ClockInv, Suspend PROVE ClockInv'
  <1>1. continued' \in BOOLEAN /\ ~continued'
    BY DEF Suspend
  <1>2. armed' \in BOOLEAN
    BY DEF Suspend
  <1>3. /\ odd' \in BOOLEAN
        /\ ~odd' => ~odd /\ (process \in {"running", "stopped"} =>
                               armed # (pausetime # 0))
    BY DEF Suspend, ClockInv, TypeOK
  <1>4. /\ main' = "suspended"
        /\ pausetime' = IF armed THEN now ELSE pausetime
        /\ process' = IF process = "running" THEN "stopped" ELSE process
        /\ UNCHANGED <<now, duration, change_time, pauselength, remain, verdict>>
        /\ UNCHANGED <<ran, slack, lag>>
    BY DEF Suspend
  <1>5. TypeOK'
    BY <1>1, <1>2, <1>3, <1>4 DEF ClockInv, TypeOK
  <1>6. CountInv'
    BY <1>1, <1>2, <1>3, <1>4 DEF ClockInv, TypeOK, CountInv, Counted
  <1> QED BY <1>5, <1>6 DEF ClockInv

LEMMA ForegroundClocks == ASSUME ClockInv, Foreground PROVE ClockInv'
  BY DEF ClockInv, TypeOK, CountInv, Counted, Foreground, clock, history

LEMMA EndClocks == ASSUME ClockInv, End PROVE ClockInv'
  BY DEF ClockInv, TypeOK, CountInv, Counted, End, clock

LEMMA TickClocks == ASSUME ClockInv, Tick PROVE ClockInv'
  BY NumbersAssumption DEF ClockInv, TypeOK, CountInv, Counted, Tick, clock

LEMMA NextClocks == ASSUME ClockInv, [Next]_vars PROVE ClockInv'
  <1>1. CASE UNCHANGED vars
    BY <1>1 DEF vars, ClockInv, TypeOK, CountInv, Counted
  <1>2. CASE Next
    BY <1>2, PlayClocks, PauseClocks, ContinuedClocks, EndedClocks, DisplayClocks,
       SuspendClocks, ForegroundClocks, EndClocks, TickClocks DEF Next
  <1> QED BY <1>1, <1>2

(* The variables have their types, the numbers of the clock among them.    *)
THEOREM TypeCorrect == Spec => []TypeOK
  <1>1. ClockInv => TypeOK
    BY DEF ClockInv
  <1> QED BY InitClock, NextClocks, <1>1, PTL DEF Spec

(* What main counts is what was heard, but for its own delay, whenever it  *)
(* looks and however often the track was paused.                           *)
THEOREM ClockIsHonest == Spec => []ClockInv
  BY InitClock, NextClocks, PTL DEF Spec

(* played does not wrap, unless a pause went unmeasured.                   *)
LEMMA PlayedIsCounted ==
  ASSUME ClockInv, process = "dead", ~odd
  PROVE  Played = ran - slack + lag
  <1> DEFINE x == now - change_time - pauselength
  <1>1. x = ran - slack + lag /\ ran - slack + lag \in Nat
    BY DEF ClockInv, TypeOK, CountInv, Counted
  <1>2. x \in Nat /\ x < Word
    BY <1>1, WordAssumption, NumbersAssumption DEF ClockInv, TypeOK
  <1>3. Word \in Nat /\ Word > 0
    BY <1>2, NumbersAssumption
  <1> HIDE DEF x
  <1>4. x % Word = x
    BY <1>2, <1>3
  <1> QED BY <1>1, <1>4 DEF Played, x

(* No track is scrobbled that was not heard, and none that was is not.     *)
THEOREM ScrobblesHonestly == Spec => ScrobbledIsHeard
  <1> DEFINE Fair == ReapEnded /\ ~odd /\ duration >= Least =>
       /\ verdict' = "enqueued" => ran + lag >= Enough \/ ran + lag > Threshold
       /\ verdict' = "short" => ran - slack < Enough /\ ran - slack <= Threshold
  <1>1. ASSUME ClockInv, [Next]_vars PROVE [Fair]_vars
    <2> SUFFICES ASSUME ReapEnded, ~odd, duration >= Least
                 PROVE  Fair
      OBVIOUS
    <2>1. Played = ran - slack + lag
      BY <1>1, PlayedIsCounted DEF ReapEnded
    <2>2. ran \in Nat /\ slack \in Nat /\ lag \in Nat
      BY <1>1 DEF ClockInv, TypeOK
    <2>3. Enough \in Nat /\ Threshold \in Int
      BY <1>1, NumbersAssumption, DurationsAssumption
         DEF ClockInv, TypeOK, Threshold, Percent
    <2>4. verdict' = "enqueued" => ran + lag >= Enough \/ ran + lag > Threshold
      BY <2>1, <2>2, <2>3 DEF ReapEnded, LongEnough
    <2>5. verdict' = "short" => ran - slack < Enough /\ ran - slack <= Threshold
      BY <2>1, <2>2, <2>3 DEF ReapEnded, LongEnough
    <2> QED BY <2>4, <2>5
  <1>2. Spec => []ClockInv
    BY InitClock, NextClocks, PTL DEF Spec
  <1> QED BY <1>1, <1>2, PTL DEF Spec, ScrobbledIsHeard

(* The remaining time displayed is that of the track.                      *)
THEOREM RemainsHonestly == Spec => RemainHonest
  <1> DEFINE Shown == Display /\ process = "running" /\ ~odd =>
                        remain' = duration - (ran - slack)
  <1>1. ASSUME ClockInv, [Next]_vars PROVE [Shown]_vars
    BY <1>1, DurationsAssumption
       DEF ClockInv, TypeOK, CountInv, Counted, Display, Remains
  <1>2. Spec => []ClockInv
    BY InitClock, NextClocks, PTL DEF Spec
  <1> QED BY <1>1, <1>2, PTL DEF Spec, RemainHonest
=============================================================================
