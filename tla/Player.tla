------------------------------- MODULE Player -------------------------------
(***************************************************************************)
(* The core of shell-fm: the main loop of main.c with the station, play,   *)
(* skip, stop, pause, ban and quit operations it dispatches to, the        *)
(* playback process it forks, and the server that hands out tracks.        *)
(*                                                                         *)
(* The main process is single-threaded: pc names the place of its loop it  *)
(* has reached.  The playback process runs concurrently and talks back by  *)
(* dying (waitpid), by being continued, and by SIGUSR2.  Calls that block  *)
(* on the network are one step, because nothing the main process reads is  *)
(* changed while it waits, except error, which it reads only after the     *)
(* sender has died.                                                        *)
(***************************************************************************)
EXTENDS Integers, Sequences, FiniteSets

CONSTANTS
  Stations,      \* the stations the server knows
  NoStation,     \* current_station == NULL
  Artists,       \* the creators of tracks
  Requests,      \* the station URLs the user may ask for
  Commands,      \* the other commands the user may give
  Background,    \* TRUE iff daemonised: no keyboard, nothing printed
  DelayChange,   \* TRUE iff delay-change is configured
  PerFetch,      \* bound: tracks in one radio.getPlaylist reply
  MaxTracks,     \* bound: tracks the server serves in one run
  ServerFaults,  \* "error": getPlaylist may answer with an API error;
                 \* "lostReply": a tune may succeed without being answered
  ForkFaults     \* "fork", "pipe": the calls of play() that may fail

KeyCommands == {"banKey", "quitLater", "expand", "autoban", "interrupt"}
NetCommands == {"skip", "ban", "stop", "pause", "quit"}

(* What the user types: the bare name of a station, or the name behind     *)
(* "lastfm://" (or the http prefix), or nothing at all.                    *)
Url == [prefixed : BOOLEAN, name : Stations] \cup
       {[prefixed |-> FALSE, name |-> NoStation]}
NoUrl == [prefixed |-> TRUE, name |-> NoStation]    \* nextstation == NULL

ASSUME NoStationAssumption == NoStation \notin Stations
ASSUME BoundsAssumption == MaxTracks \in Nat \ {0} /\ PerFetch \in Nat \ {0}
ASSUME ModeAssumption == Background \in BOOLEAN /\ DelayChange \in BOOLEAN
ASSUME RequestsAssumption == Requests \subseteq Url
ASSUME CommandsAssumption ==
  Commands \subseteq NetCommands \cup (IF Background THEN {} ELSE KeyCommands)
ASSUME FaultsAssumption ==
  /\ ServerFaults \subseteq {"error", "lostReply"}
  /\ ForkFaults \subseteq {"fork", "pipe"}

Pids == 1 .. MaxTracks         \* a playback process is named by its track
Track == [no : Pids, st : Stations, by : Artists]
NoTrack == [no |-> 0, st |-> NoStation, by |-> NoStation]

Child == [phase : {"none", "playing", "failing", "zombie"},
          halt : {"no", "pending", "yes"},   \* SIGSTOP: sent, acted on
          got : SUBSET {"USR1", "CONT"}]     \* SIGUSR1: sent; SIGCONT: acted
                                             \* on, its report is waiting
NoChild == [phase |-> "none", halt |-> "no", got |-> {}]
FreshChild == [NoChild EXCEPT !.phase = "playing"]

VARIABLES
  pc,           \* where main is in its loop
  call,         \* the running call of station(): its argument and its caller
  playfork,     \* pid of the playback process, 0 for none, -1 after a failed fork
  proc,         \* the playback processes as the kernel knows them
  playlist,     \* playlist.track, a sequence of tracks
  track,        \* the hash of the track played last
  flags,        \* the enabled ones of STOPPED, CHANGED and INTERRUPTED
  error,        \* SIGUSR2 arrived
  playnext,     \* local of the main loop: the playback process was reaped
  nextstation,  \* the delayed station
  current,      \* current_station
  delayquit,
  pausetime,    \* pausetime # 0
  npfile,       \* the track the np-file names, 0 if there is no file
  banlist,      \* the artists of the autoban file
  tuned,        \* the server: the station this session is tuned to
  served,       \* the server: the number of tracks handed out
  wild,         \* history: what else than the playback process was signalled
  wanted,       \* history: the latest request that was obeyed wants music
  heard,        \* history: the number of the track started last
  lastKilled    \* history: the process reaped last had been sent SIGUSR1

loop == <<pc, call, playnext>>
child == <<playfork, proc>>
radio == <<playlist, current, nextstation>>
server == <<tuned, served>>
ghost == <<wild, wanted, heard, lastKilled>>
vars == <<pc, call, playfork, proc, playlist, track, flags, error, playnext,
          nextstation, current, delayquit, pausetime, npfile, banlist, tuned,
          served, wild, wanted, heard, lastKilled>>

-----------------------------------------------------------------------------
(* Helpers.                                                                *)

Empty(url) == url.name = NoStation

(* strcmp(station_url, current_station): current_station is stored without *)
(* the prefix, the argument is compared with it.                           *)
SameAsCurrent(url) ==
  current # NoStation /\ ~url.prefixed /\ url.name = current

(* The lists of playlist.c.  push() appends, freelist() drops everything,  *)
(* shift() drops the first track.  A name that ends in _ is the operator   *)
(* of the same name with a plausible slip in it: none is part of the       *)
(* model, each shows that a property would notice the slip.                *)
Push_(list, b) == b \o list
Push(list, b) == list \o b

FreeList_(list) == list
FreeList(list) == <<>>

Shift_(list) == list
Shift(list) == IF list = <<>> THEN <<>> ELSE Tail(list)

Number(i, station, artist) == [no |-> served + i, st |-> station, by |-> artist]

(* The tracks of a getPlaylist reply: the next ones the server has for the *)
(* station it is tuned to.  It may have none.                              *)
BatchSizes(station) ==
  {k \in 0 .. PerFetch : served + k <= MaxTracks /\ (station = NoStation => k = 0)}
Batches(station) ==
  UNION {{[i \in 1 .. k |-> Number(i, station, by[i])] : by \in [1 .. k -> Artists]} :
           k \in BatchSizes(station)}

(* The signal sig, as the process c takes it.                              *)
After(c, sig) ==
  [c EXCEPT !.got = IF sig = "USR1" \/ (sig = "CONT" /\ c.halt = "yes")
                    THEN @ \cup {sig} ELSE @,
            !.halt = IF sig = "CONT" THEN "no"
                     ELSE IF sig = "STOP" /\ @ = "no" /\ c.phase # "zombie"
                     THEN "pending" ELSE @]

(* kill(playfork, sig): 0 is the whole process group, -1 is every process  *)
(* of the user, and a reaped pid may by now be somebody else's.            *)
Hits == playfork \in Pids /\ proc[playfork].phase # "none"
Misses == {w \in {"group", "everyone", "reaped"} :
             \/ w = "group" /\ playfork = 0
             \/ w = "everyone" /\ playfork = -1
             \/ w = "reaped" /\ playfork \in Pids /\ ~Hits}
Kill(sig) ==
  /\ proc' = IF Hits THEN [proc EXCEPT ![playfork] = After(@, sig)] ELSE proc
  /\ wild' = wild \cup Misses

Running == pc \notin {"exited", "dead"}

-----------------------------------------------------------------------------
(* Where the program starts: a daemon without default radio at its loop, a *)
(* terminal after the prompt of the first radio url.                       *)
Init ==
  /\ \/ Background /\ pc = "reap" /\ call = NoUrl
     \/ pc = "station" /\ call \in Requests
  /\ playfork = 0
  /\ proc = [p \in Pids |-> NoChild]
  /\ playlist = <<>>
  /\ track = NoTrack
  /\ flags = {}
  /\ error = FALSE
  /\ playnext = FALSE
  /\ nextstation = NoUrl
  /\ current = NoStation
  /\ delayquit = FALSE
  /\ pausetime = FALSE
  /\ npfile = 0
  /\ banlist = {}
  /\ tuned = NoStation
  /\ served = 0
  /\ wild = {}
  /\ wanted = FALSE
  /\ heard = 0
  /\ lastKilled = FALSE

-----------------------------------------------------------------------------
(* Leaving the program: exit() runs cleanup(), which signals playfork last *)
(* of all.  When a terminal session ends, the kernel wakes the stopped     *)
(* processes it leaves behind (SIGHUP, SIGCONT); a daemon has no session.  *)
Released(c) == IF Background THEN c ELSE [c EXCEPT !.halt = "no"]
LastSignal_ == proc
LastSignal ==
  IF Hits THEN [proc EXCEPT ![playfork] = Released(After(@, "USR1"))] ELSE proc
Exit ==
  /\ pc' = "exited"
  /\ playlist' = <<>>
  /\ track' = NoTrack
  /\ current' = NoStation
  /\ proc' = LastSignal
  /\ wild' = wild \cup (Misses \ {"group"})
  /\ UNCHANGED <<call, playfork, flags, error, playnext, nextstation, delayquit,
                 pausetime, banlist, server, wanted, heard, lastKilled>>

UnlinkNp_ == UNCHANGED npfile
UnlinkNp == npfile' = 0

(* quit(): remove the np-file, then exit.                                  *)
Quit == UnlinkNp /\ Exit

-----------------------------------------------------------------------------
(* The waitpid loop.  A stop report is fetched and ignored.                *)

Continued_(c) == "CONT" \in c.got \/ c.halt = "yes"
Continued(c) == "CONT" \in c.got

ReapContinued ==
  /\ pc = "reap"
  /\ Hits
  /\ proc[playfork].phase # "zombie"
  /\ Continued(proc[playfork])
  /\ proc' = [proc EXCEPT ![playfork].got = @ \ {"CONT"}]
  /\ pausetime' = FALSE
  /\ UNCHANGED <<loop, playfork, radio, track, flags, error, delayquit, npfile,
                 banlist, server, ghost>>

(* A dead playback process.  Its pid is free from here on, while playfork  *)
(* still holds it.                                                         *)
ReapDead ==
  /\ pc = "reap"
  /\ Hits
  /\ proc[playfork].phase = "zombie"
  /\ proc' = [proc EXCEPT ![playfork] = NoChild]
  /\ lastKilled' = ("USR1" \in proc[playfork].got)
  /\ UnlinkNp
  /\ playnext' = TRUE
  /\ pc' = IF delayquit THEN "quit" ELSE "reap"
  /\ pausetime' = (pausetime /\ delayquit)
  /\ UNCHANGED <<call, playfork, radio, track, flags, error, delayquit, banlist,
                 server, wild, wanted, heard>>

(* The rest of the delayed quit: exit() with the reaped pid in playfork.   *)
QuitDelayed == pc = "quit" /\ Quit

HasChange_ == FALSE
HasChange == "CHANGED" \in flags

(* waitpid has nothing more to report.                                     *)
Reaped ==
  /\ pc = "reap"
  /\ ~(Hits /\ (proc[playfork].phase = "zombie" \/ Continued(proc[playfork])))
  /\ pc' = IF playnext THEN "ended"
           ELSE IF HasChange THEN "change" ELSE "select"
  /\ UNCHANGED <<call, playnext, child, radio, track, flags, error, delayquit,
                 pausetime, npfile, banlist, server, ghost>>

-----------------------------------------------------------------------------
(* After a track: stop, or move on to the next one.                        *)

EndStopped ==
  /\ pc = "ended"
  /\ "STOPPED" \in flags \/ error
  /\ playfork' = 0
  /\ playlist' = FreeList(playlist)
  /\ track' = NoTrack
  /\ error' = FALSE
  /\ flags' = flags \ {"STOPPED", "CHANGED"}
  /\ playnext' = FALSE
  /\ pc' = "reap"
  /\ UNCHANGED <<call, proc, current, nextstation, delayquit, pausetime, npfile,
                 banlist, server, ghost>>

EndNext ==
  /\ pc = "ended"
  /\ "STOPPED" \notin flags /\ ~error
  /\ playfork' = 0
  /\ playlist' = Shift(playlist)
  /\ pc' = "change"
  /\ UNCHANGED <<call, playnext, proc, current, nextstation, track, flags, error,
                 delayquit, pausetime, npfile, banlist, server, ghost>>

-----------------------------------------------------------------------------
(* The change block: take up the delayed station, refill the playlist,     *)
(* start the next track.                                                   *)

TakesDelayed_ == nextstation # NoUrl /\ HasChange
TakesDelayed == nextstation # NoUrl

Change ==
  /\ pc = "change"
  /\ IF TakesDelayed
     THEN /\ playnext' = FALSE
          /\ flags' = flags \ {"CHANGED"}
          /\ call' = nextstation
          /\ pc' = "delayed"
     ELSE /\ pc' = "refill"
          /\ UNCHANGED <<playnext, flags, call>>
  /\ UNCHANGED <<child, radio, track, error, delayquit, pausetime, npfile,
                 banlist, server, ghost>>

-----------------------------------------------------------------------------
(* station(), called with the URL call by an input handler (pc "station")  *)
(* or by the change block with nextstation (pc "delayed").         *)

Calling == pc \in {"station", "delayed"}
Delays == playfork # 0 /\ DelayChange

(* The return to the caller with the result ok, the flags f and the        *)
(* delayed station next.  The change block turns a failure into STOPPED    *)
(* and forgets the delayed station, whatever the call made of it.          *)
Return(ok, f, next) ==
  /\ call' = NoUrl
  /\ IF pc = "station"
     THEN pc' = "reap" /\ flags' = f /\ nextstation' = next
     ELSE /\ pc' = "refill"
          /\ flags' = IF ok THEN f ELSE f \cup {"STOPPED"}
          /\ nextstation' = NoUrl

(* A track is playing and changes are delayed: note the station for later, *)
(* or cancel the one noted before.  Called by the change block, the code   *)
(* reads its argument after freeing it; what it makes of it is freed and   *)
(* forgotten again by the caller, so every outcome is the same state.      *)
StationDelayed ==
  /\ Calling
  /\ Delays
  /\ LET nothing == Empty(call) \/ SameAsCurrent(call)
     IN  /\ Return(FALSE, flags, IF nothing THEN NoUrl ELSE call)
         /\ wanted' = (wanted \/ ~nothing)
  /\ delayquit' = FALSE
  /\ UNCHANGED <<playnext, child, playlist, current, track, error, pausetime,
                 npfile, banlist, server, wild, heard, lastKilled>>

StationSame ==
  /\ Calling
  /\ ~Delays
  /\ SameAsCurrent(call)
  /\ Return(FALSE, flags, nextstation)
  /\ delayquit' = FALSE
  /\ UNCHANGED <<playnext, child, playlist, current, track, error, pausetime,
                 npfile, banlist, server, ghost>>

(* No session, an empty URL, an API error or no answer.  The playlist is   *)
(* freed before the code finds out.                                        *)
StationRefused ==
  /\ Calling
  /\ ~Delays
  /\ ~SameAsCurrent(call)
  /\ playlist' = FreeList(playlist)
  /\ tuned' \in {tuned} \cup
       (IF Empty(call) \/ "lostReply" \notin ServerFaults THEN {} ELSE {call.name})
  /\ Return(FALSE, flags, nextstation)
  /\ delayquit' = FALSE
  /\ UNCHANGED <<playnext, child, current, track, error, pausetime, npfile,
                 banlist, served, ghost>>

(* Tuned: fetch a playlist (which may fail and bring nothing), remember    *)
(* the station and end the track that is playing.                          *)
StationTuned ==
  /\ Calling
  /\ ~Delays
  /\ ~SameAsCurrent(call)
  /\ ~Empty(call)
  /\ tuned' = call.name
  /\ \E b \in Batches(call.name) :
       /\ playlist' = Push(FreeList(playlist), b)
       /\ served' = served + Len(b)
  /\ current' = call.name
  /\ IF playfork = 0
     THEN /\ Return(TRUE, flags \cup {"CHANGED"}, nextstation)
          /\ UNCHANGED <<proc, wild>>
     ELSE /\ Return(TRUE, flags \cup {"CHANGED", "INTERRUPTED"}, nextstation)
          /\ Kill("USR1")
  /\ wanted' = (wanted \/ pc = "station")
  /\ delayquit' = FALSE
  /\ UNCHANGED <<playnext, playfork, track, error, pausetime, npfile, banlist,
                 heard, lastKilled>>

(* parse_playlist asserts that the reply holds a list of tracks; an API    *)
(* error does not.                                                         *)
Abort ==
  /\ "error" \in ServerFaults
  /\ pc' = "dead"
  /\ UNCHANGED <<call, playnext, child, playlist, current, nextstation, track,
                 flags, error, pausetime, npfile, banlist, served, ghost>>

StationAborts ==
  /\ Calling
  /\ ~Delays
  /\ ~SameAsCurrent(call)
  /\ ~Empty(call)
  /\ tuned' = call.name
  /\ delayquit' = FALSE
  /\ Abort

-----------------------------------------------------------------------------
(* The rest of the change block.                                           *)

NeedsTracks == "STOPPED" \notin flags /\ playlist = <<>>

(* expand(), and what to do when it brings nothing.                        *)
Refill ==
  /\ pc = "refill"
  /\ NeedsTracks
  /\ playlist' \in Batches(tuned)
  /\ served' = served + Len(playlist')
  /\ IF playlist' = <<>>
     THEN /\ playnext' = FALSE
          /\ flags' = flags \ {"CHANGED"}
          /\ pc' = "reap"
     ELSE pc' = "start" /\ UNCHANGED <<playnext, flags>>
  /\ UNCHANGED <<call, child, current, nextstation, track, error, delayquit,
                 pausetime, npfile, banlist, tuned, ghost>>

RefillAborts ==
  /\ pc = "refill"
  /\ NeedsTracks
  /\ Abort
  /\ UNCHANGED <<tuned, delayquit>>

RefillNot ==
  /\ pc = "refill"
  /\ ~NeedsTracks
  /\ pc' = "start"
  /\ UNCHANGED <<call, playnext, child, radio, track, flags, error, delayquit,
                 pausetime, npfile, banlist, server, ghost>>

MayStart_ == playlist # <<>>
MayStart == playfork = 0 /\ playlist # <<>>

ClearedByStart_ == {"INTERRUPTED"}
ClearedByStart ==
  IF Background THEN {"INTERRUPTED"} ELSE {"INTERRUPTED", "CHANGED"}

(* Nothing to start: a process is running, or play() finds no track.       *)
StartNot ==
  /\ pc = "start"
  /\ ~MayStart
  /\ flags' = IF playfork = 0 THEN flags \ {"INTERRUPTED"} ELSE flags
  /\ pc' = "banned"
  /\ UNCHANGED <<call, playnext, child, radio, track, error, delayquit, pausetime,
                 npfile, banlist, server, ghost>>

(* What play() copies into the hash track.                                 *)
Display_(list) == track
Display(list) == Head(list)

(* play() takes the first track of the playlist, which stays in the list,  *)
(* and forks.  A failed pipe() or fork() is not noticed.                   *)
Start ==
  /\ pc = "start"
  /\ MayStart
  /\ track' = Display(playlist)
  /\ npfile' = Head(playlist).no
  /\ flags' = flags \ ClearedByStart
  /\ \/ /\ playfork' = Head(playlist).no
        /\ proc' = [proc EXCEPT ![Head(playlist).no] = FreshChild]
        /\ heard' = Head(playlist).no
     \/ /\ "fork" \in ForkFaults
        /\ playfork' = -1
        /\ UNCHANGED <<proc, heard>>
     \/ /\ "pipe" \in ForkFaults
        /\ UNCHANGED <<child, heard>>
  /\ pc' = "banned"
  /\ UNCHANGED <<call, playnext, radio, error, delayquit, pausetime, banlist,
                 server, wild, wanted, lastKilled>>

(* rate(RATING_BAN): the server's reply changes nothing here.              *)
RateBan_ ==
  IF playfork = 0
  THEN UNCHANGED <<flags, proc, wild>>
  ELSE Kill("USR1") /\ UNCHANGED flags
RateBan ==
  IF playfork = 0
  THEN UNCHANGED <<flags, proc, wild>>
  ELSE flags' = flags \cup {"INTERRUPTED"} /\ Kill("USR1")

IsBanned_ == playnext /\ track.by \in banlist
IsBanned == track.by \in banlist

(* The autoban file is consulted at the end of every change block.         *)
BanCheck ==
  /\ pc = "banned"
  /\ IF IsBanned THEN RateBan ELSE UNCHANGED <<flags, proc, wild>>
  /\ playnext' = FALSE
  /\ pc' = "select"
  /\ UNCHANGED <<call, playfork, radio, track, error, delayquit, pausetime, npfile,
                 banlist, server, wanted, heard, lastKilled>>

-----------------------------------------------------------------------------
(* handle_input(): wait up to a second for one command, then go round.     *)

Select(command) == pc = "select" /\ command \in Commands /\ pc' = "reap"

Timeout ==
  /\ pc = "select"
  /\ pc' = "reap"
  /\ UNCHANGED <<call, playnext, child, radio, track, flags, error, delayquit,
                 pausetime, npfile, banlist, server, ghost>>

(* A radio url typed, sent by a client, taken from a bookmark, or made     *)
(* from the current track ('f', 's').                                      *)
Request ==
  /\ pc = "select"
  /\ pc' = "station"
  /\ call' \in Requests
  /\ UNCHANGED <<playnext, child, radio, track, flags, error, delayquit,
                 pausetime, npfile, banlist, server, ghost>>

Skip_ ==
  /\ Select("skip")
  /\ flags' = flags \cup {"INTERRUPTED"}
  /\ Kill("USR1")
  /\ UNCHANGED <<call, playnext, playfork, radio, track, error, delayquit,
                 pausetime, npfile, banlist, server, wanted, heard, lastKilled>>
Skip ==
  /\ Select("skip")
  /\ playfork # 0
  /\ flags' = flags \cup {"INTERRUPTED"}
  /\ Kill("USR1")
  /\ UNCHANGED <<call, playnext, playfork, radio, track, error, delayquit,
                 pausetime, npfile, banlist, server, wanted, heard, lastKilled>>

Ban ==
  /\ Select("ban")
  /\ RateBan
  /\ UNCHANGED <<call, playnext, playfork, radio, track, error, delayquit,
                 pausetime, npfile, banlist, server, wanted, heard, lastKilled>>

(* The 'B' key signals playfork once more, and does so even when there is  *)
(* none: then the signal reaches main itself, which does not survive it.   *)
BanKey ==
  /\ pc = "select"
  /\ "banKey" \in Commands
  /\ flags' = flags \cup {"INTERRUPTED"}
  /\ Kill("USR1")
  /\ pc' = IF playfork = 0 THEN "dead" ELSE "reap"
  /\ UNCHANGED <<call, playnext, playfork, radio, track, error, delayquit,
                 pausetime, npfile, banlist, server, wanted, heard, lastKilled>>

Stop ==
  /\ Select("stop")
  /\ playfork # 0
  /\ flags' = flags \cup {"STOPPED"}
  /\ Kill("USR1")
  /\ wanted' = FALSE
  /\ UNCHANGED <<call, playnext, playfork, radio, track, error, delayquit,
                 pausetime, npfile, banlist, server, heard, lastKilled>>

Pause ==
  /\ Select("pause")
  /\ playfork # 0
  /\ Kill(IF pausetime THEN "CONT" ELSE "STOP")
  /\ pausetime' = TRUE
  /\ UNCHANGED <<call, playnext, playfork, radio, track, flags, error, delayquit,
                 npfile, banlist, server, wanted, heard, lastKilled>>

QuitNow ==
  /\ pc = "select"
  /\ "quit" \in Commands
  /\ Quit

QuitLater ==
  /\ Select("quitLater")
  /\ DelayChange
  /\ delayquit' = ~delayquit
  /\ UNCHANGED <<call, playnext, child, radio, track, flags, error, pausetime,
                 npfile, banlist, server, ghost>>

(* The 'E' key: fetch more tracks for the station the server is tuned to.  *)
Expand ==
  /\ Select("expand")
  /\ \E b \in Batches(tuned) :
       /\ playlist' = Push(playlist, b)
       /\ served' = served + Len(b)
  /\ UNCHANGED <<call, playnext, child, current, nextstation, track, flags, error,
                 delayquit, pausetime, npfile, banlist, tuned, ghost>>

ExpandAborts ==
  /\ pc = "select"
  /\ "expand" \in Commands
  /\ Abort
  /\ UNCHANGED <<tuned, delayquit>>

(* The 'A' key: ban the artist of the last track for good.                 *)
AutoBan ==
  /\ Select("autoban")
  /\ track # NoTrack
  /\ banlist' = banlist \cup {track.by}
  /\ RateBan
  /\ UNCHANGED <<call, playnext, playfork, radio, track, error, delayquit,
                 pausetime, npfile, server, wanted, heard, lastKilled>>

(* ^C at any moment: exit from the signal handler; the np-file stays.      *)
Interrupt ==
  /\ Running
  /\ "interrupt" \in Commands
  /\ Exit
  /\ UNCHANGED npfile

-----------------------------------------------------------------------------
(* The playback process.                                                   *)

ChildUnchanged ==
  UNCHANGED <<loop, playfork, radio, track, delayquit, pausetime, npfile,
              banlist, server, ghost>>

(* SIGSTOP takes effect when the process is scheduled next.                *)
Halt(p) ==
  /\ proc[p].phase \in {"playing", "failing"}
  /\ proc[p].halt = "pending"
  /\ proc' = [proc EXCEPT ![p].halt = "yes"]
  /\ ChildUnchanged
  /\ UNCHANGED <<flags, error>>

(* The end of the stream, a broken stream, or SIGUSR1.                     *)
Finish(p) ==
  /\ proc[p].phase \in {"playing", "failing"}
  /\ proc[p].halt # "yes"
  /\ proc' = [proc EXCEPT ![p].phase = "zombie", ![p].halt = "no",
                          ![p].got = @ \ {"CONT"}]
  /\ ChildUnchanged
  /\ UNCHANGED <<flags, error>>

(* playback() fails: the parent is told by SIGUSR2 before the process ends.*)
Fail(p) ==
  /\ Running
  /\ proc[p].phase = "playing"
  /\ proc[p].halt # "yes"
  /\ proc' = [proc EXCEPT ![p].phase = "failing"]
  /\ error' = TRUE
  /\ flags' = flags \cup {"INTERRUPTED"}
  /\ ChildUnchanged

-----------------------------------------------------------------------------
Station == \/ StationDelayed \/ StationSame \/ StationRefused
           \/ StationTuned \/ StationAborts
ChangeBlock == \/ Change \/ Refill \/ RefillAborts \/ RefillNot
               \/ StartNot \/ Start \/ BanCheck
Reap == \/ ReapContinued \/ ReapDead \/ Reaped \/ QuitDelayed
        \/ EndStopped \/ EndNext

Loop == Reap \/ Station \/ ChangeBlock \/ Timeout
User == \/ Request \/ Skip \/ Ban \/ BanKey \/ Stop \/ Pause \/ QuitNow
        \/ QuitLater \/ Expand \/ ExpandAborts \/ AutoBan \/ Interrupt
Playback == \E p \in Pids : Halt(p) \/ Finish(p) \/ Fail(p)

Gone == ~Running /\ UNCHANGED vars

Next == Loop \/ User \/ Playback \/ Gone

Spec == Init /\ [][Next]_vars

(* The scheduler runs the main process and the playback process, the       *)
(* server answers every call, and every stream ends.  The user need not do *)
(* anything.                                                               *)
Fairness ==
  /\ WF_vars(Loop)
  /\ \A p \in Pids : WF_vars(Halt(p)) /\ WF_vars(Finish(p))

FairSpec == Spec /\ Fairness
=============================================================================
