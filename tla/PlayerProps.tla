----------------------------- MODULE PlayerProps -----------------------------
(***************************************************************************)
(* What the player of module Player must never do, and what it must get    *)
(* done.                                                                   *)
(***************************************************************************)
EXTENDS Player

Labels == {"reap", "ended", "change", "delayed", "refill", "start",
           "banned", "select", "station", "quit", "exited", "dead"}

(* Every variable holds a value of its type.                               *)
TypeOK ==
  /\ pc \in Labels
  /\ call \in Url \cup {NoUrl}
  /\ playfork \in {-1, 0} \cup Pids
  /\ proc \in [Pids -> Child]
  /\ playlist \in Seq(Track)
  /\ track \in Track \cup {NoTrack}
  /\ flags \subseteq {"STOPPED", "CHANGED", "INTERRUPTED"}
  /\ error \in BOOLEAN
  /\ playnext \in BOOLEAN
  /\ nextstation \in Url \cup {NoUrl}
  /\ current \in Stations \cup {NoStation}
  /\ delayquit \in BOOLEAN
  /\ pausetime \in BOOLEAN
  /\ npfile \in 0 .. MaxTracks
  /\ banlist \subseteq Artists
  /\ tuned \in Stations \cup {NoStation}
  /\ served \in 0 .. MaxTracks
  /\ wild \subseteq {"group", "everyone", "reaped"}
  /\ wanted \in BOOLEAN
  /\ heard \in 0 .. MaxTracks
  /\ lastKilled \in BOOLEAN

Alive(p) == proc[p].phase \in {"playing", "failing"}
Audible == {p \in Pids : Alive(p)}

(* The kernel never has a playback process that playfork does not name:    *)
(* there is at most one, and the main process can always signal it.        *)
NoStrayChild == \A p \in Pids : proc[p].phase # "none" => playfork = p

(* While the user can look, the np-file names the track that plays and is  *)
(* absent when none does (as long as fork and pipe work).                  *)
NpFileHonest ==
  pc \in {"select", "station"} /\ ForkFaults = {} => npfile = playfork

(* A playback process never stands still without the player knowing: it    *)
(* would report PLAYING, and p would send a second SIGSTOP.                *)
PauseIsKnown == \A p \in Pids : proc[p].halt # "no" => pausetime

(* When the loop waits for input, a track by a banned artist has been told *)
(* to end, whether it was banned before or during the track.               *)
AutobanEnforced ==
  \A p \in Audible : pc = "select" /\ track.by \in banlist => "USR1" \in proc[p].got

(* The playlist holds tracks that were served, each once, in order; all    *)
(* behind the first are yet to be heard.                                   *)
UpcomingInOrder ==
  \A i \in DOMAIN playlist :
    /\ playlist[i].no <= served
    /\ playlist[i].no >= heard
    /\ \A j \in 1 .. i - 1 : playlist[j].no < playlist[i].no

(* Upcoming tracks are of the station the player says it is tuned to, and  *)
(* the server agrees (as long as no reply to a tune is lost).              *)
UpcomingFromCurrent ==
  Running /\ "lostReply" \notin ServerFaults =>
    /\ tuned = current
    /\ \A i \in DOMAIN playlist : playlist[i].st = current

(* A gap is waited between two tracks exactly when the first ended by      *)
(* itself: INTERRUPTED is neither lost nor left over from earlier.         *)
GapHonest ==
  pc = "start" /\ playnext => ("INTERRUPTED" \in flags <=> lastKilled)

(* Whoever quits has told the playback process to end, and it can hear it, *)
(* unless a daemon had stopped it: SIGUSR1 does not wake a stopped process.*)
NoneLeftBehind ==
  pc = "exited" =>
    \A p \in Audible : /\ "USR1" \in proc[p].got
                       /\ proc[p].halt = "no" \/ Background

(* Only processes of this player are signalled, except after a failed fork,*)
(* which leaves every process of the user in playfork.                     *)
NoWildSignal == wild \subseteq (IF "fork" \in ForkFaults THEN {"everyone"} ELSE {})

(* The track that plays is the one the user sees, loves, bans and tags     *)
(* (track), and the first of the playlist, so that the shift at its end    *)
(* removes the track that was heard.                                       *)
HeadIsPlaying ==
  Running /\ playfork \in Pids =>
    /\ track.no = playfork
    /\ playlist # <<>>
    /\ Head(playlist).no = playfork

(* A delayed station is taken up when the track that delayed it is over.   *)
DelayedWaits == pc = "delayed" => playfork = 0

(* No further track starts while a delayed station waits.                  *)
DelayedIsNext == [][Start => nextstation = NoUrl]_vars

(* The shift at the end of a track removes a track that was heard.         *)
ShiftDropsHeard ==
  [][EndNext /\ playlist # <<>> => Head(playlist).no <= heard]_vars

(* A station is refused as already played only while something plays.      *)
SameOnlyWhilePlaying == [][StationSame => playfork # 0]_vars

(* While the player holds the track to be paused, the process is stopped,  *)
(* about to be, or its continuation is about to be noticed.                *)
PausedIsHalted ==
  pc = "select" /\ pausetime =>
    \A p \in Audible : proc[p].halt # "no" \/ "CONT" \in proc[p].got

(* Playback is given up only when the user asked to stop or it failed.     *)
StopsOnlyIfAsked == [][EndStopped => ~wanted \/ error]_vars

(* main is not killed by an assertion or by a signal of its own.           *)
Survives == pc # "dead"

(* A stopped stream ends and takes the playlist with it, unless the user   *)
(* pauses it or quits.                                                     *)
StopWorks ==
  "STOPPED" \in flags /\ Audible # {} ~>
    (Audible = {} /\ playlist = <<>>) \/ pausetime \/ ~Running

(* After a station was tuned the player comes to rest: it plays a track of *)
(* the new station or has none.                                            *)
ChangeSettles ==
  "CHANGED" \in flags ~> "CHANGED" \notin flags \/ pausetime \/ ~Running

(* A delayed station does not wait for ever: it is taken up or cancelled.  *)
DelayedIsTaken ==
  nextstation # NoUrl ~> nextstation = NoUrl \/ pausetime \/ ~Running

(* The player implements the radio: its audible tracks are the playback    *)
(* processes that are alive, stopped ones included.                        *)
Listener == INSTANCE Radio WITH
  Numbers <- Pids, now <- Audible, last <- heard

ImplementsRadio == Listener!Spec

-----------------------------------------------------------------------------
(* The invariant that makes the player a radio.  Between the death of the  *)
(* playback process and the end of the main loop's iteration, playnext     *)
(* stands for it.                                                          *)
ReapInv ==
  /\ pc \in {"ended", "quit"} => playnext
  /\ pc \in {"select", "station", "delayed"} => ~playnext
  /\ pc \in {"reap", "ended", "quit"} /\ playnext =>
       \A p \in Pids : proc[p].phase = "none"

(* With no process running, every track of the playlist is yet to be heard.*)
UnheardInv ==
  /\ UpcomingInOrder
  /\ heard <= served
  /\ playfork = 0 => \A i \in DOMAIN playlist : playlist[i].no > heard

(* When the user wants no music, the running process is about to be the    *)
(* last, or nothing runs and nothing is about to start.                    *)
WantedInv ==
  wanted \/ (playfork # 0 /\ "STOPPED" \in flags)
         \/ /\ playfork = 0
            /\ "CHANGED" \notin flags
            /\ ~playnext
            /\ pc \in {"reap", "select", "station", "exited", "dead"}

Unlooped == pc \in {"reap", "ended", "quit"}
Between == playnext /\ Unlooped

(* What playfork means: the pid of a process that exists, until the loop   *)
(* has learnt of its death; it is the process that was started last.       *)
ForkInv ==
  /\ playfork = -1 => "fork" \in ForkFaults
  /\ playfork \in Pids => heard = playfork
  /\ Running /\ playfork \in Pids /\ ~Hits => Between
  /\ Between => playfork \in Pids /\ ~Hits

(* A process whose continuation is to be reported is not stopped, and the  *)
(* player still takes it for paused; no signal outlives its process.       *)
HaltInv ==
  /\ PauseIsKnown
  /\ \A p \in Pids :
       /\ "CONT" \in proc[p].got => proc[p].halt = "no" /\ pausetime
       /\ proc[p].phase = "none" => proc[p] = NoChild

(* The np-file, from one end of a track to the other.                      *)
NpInv ==
  Running /\ ForkFaults = {} => npfile = IF Between THEN 0 ELSE playfork

(* A banned track has been told to end everywhere but between the start of *)
(* the track and the end of the change block.                              *)
BanInv ==
  \A p \in Audible :
    pc # "banned" /\ track.by \in banlist => "USR1" \in proc[p].got

(* INTERRUPTED goes with SIGUSR1, from the signal to the next start, unless*)
(* playback is to be given up.                                             *)
GivenUp == "STOPPED" \in flags \/ error
GapInv ==
  Running =>
    /\ \A p \in Pids :
         proc[p].phase # "none" /\ ~GivenUp =>
           ("INTERRUPTED" \in flags <=> "USR1" \in proc[p].got)
    /\ playnext /\ pc # "banned" /\ ~GivenUp => ("INTERRUPTED" \in flags <=> lastKilled)
    /\ playnext /\ pc \in {"change", "refill", "start"} => ~GivenUp /\ playfork = 0

(* A change is marked only while nothing plays, at a terminal that delays  *)
(* changes; without the delay no station is ever noted.                    *)
DelayInv ==
  /\ pc \in {"refill", "start"} => nextstation = NoUrl
  /\ ~DelayChange => nextstation = NoUrl /\ pc # "delayed"
  /\ DelayChange /\ ~Background =>
       /\ "CHANGED" \in flags => playfork = 0
       /\ pc \in {"change", "delayed"} => playfork = 0

(* All that is maintained together, whatever the constants are.            *)
IndInv ==
  /\ TypeOK /\ NoStrayChild /\ ReapInv /\ UnheardInv /\ WantedInv
  /\ ForkInv /\ HaltInv /\ NpInv /\ BanInv /\ GapInv /\ DelayInv
=============================================================================
