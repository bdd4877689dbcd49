# A formal model of shell-fm

shell-fm is a console player for Last.fm radio. It is a small program with an
awkward core: one process that loops over `waitpid()`, a block of station and
track changes, and `select()`; a playback process and submission processes
forked from it; POSIX signals, exit codes and a pipe between them; a server that
may refuse or not answer; and a keyboard and network clients that give commands
at any moment. This directory models the program in TLA+, model-checks it with
TLC and proves its main properties with TLAPS.

## 1. The system

| Component | State | Operations | Interacts with |
|---|---|---|---|
| Main loop and player (`main.c`, `service.c`, `playlist.c`, `interface.c`, `autoban.c`) | `playfork`, `playlist`, the hash `track`, `current_station`, `nextstation`, the flags STOPPED, CHANGED, INTERRUPTED, `delayquit`, `pausetime`, the np-file, the autoban file | the `waitpid` loop, the change block, `station()`, `play()`, skip, ban, stop, pause, expand, autoban, quit now or later, `cleanup()` | playback process (signals, death), server (REST calls), input handlers |
| Scrobbler (`submit.c`) | `queue`, `subfork` | `enqueue()`, `submit()`, `subdead()`, `cleanup()` | main loop, submission processes (exit codes), server |
| Playback process (`play.c`, `pipe.c`) | `killed`, its volume, its parent, the download | fetch, read a buffer, play a frame, read the volume pipe, keep or discard the download | main (SIGUSR1, the pipe), server |
| Volume (`interface.c`, `sckif.c`) | `volume`, `muted`, `saved_volume`, `playpipe` | set, up, down, mute | playback process |
| Play time (`main.c`) | `change_time`, `pausetime`, `pauselength` | play, pause, continue, ^Z, end; the minimum for scrobbling, the remaining time | player, scrobbler, terminal |
| Network interface (`sckif.c`, `select.c`) | the list of inputs, the one static stream | accept, `handle_client()`, disconnect, select | clients, keyboard, every command above |
| HTTP client (`http.c`, `ropen.c`) | one connection | request, redirect, plain and chunked responses | everything that asks the server |
| Session (`rest.c`) | the files `session` and `token`, `rc` | create, restore and store a session or token | HTTP client, hash, the user |
| Hash (`hash.c`) | an array of pairs | `set()`, `value()`, `unset()`, `haskey()` | settings, tracks, REST calls |
| Settings (`settings.c`) | `rc` | read, read anew | hash |
| Prompts (`readline.c`, `completion.c`, `radio.c`, `tag.c`) | the edited line, what the terminal shows, the static variables of `nextmatch()` | keys, history, completion | keyboard |
| History and bookmarks (`history.c`, `bookmark.c`) | two files | append a station, set and get a bookmark | player |
| Feeds, recommendations, JSON, MD5, scripts | - | - | - |

What is hard about it, and what the properties are aimed at:

* *Interleaving.* The playback process can die, or be stopped, between any two
  steps of the loop, so every command is given in some state of a process that
  is about to change; SIGUSR1 can come before its handler is there.
* *Stale state.* `playfork`, `track`, `current_station`, `nextstation`, the
  playlist and `pausetime` are updated at different places of the loop; the
  volume lives in two processes; the line, its length and the terminal are
  three copies of one text.
* *Partial failure.* A failed `fork()`, an API error, an answer that is lost, a
  connection that breaks and is read as the end of a stream or a body.
* *Crashes.* Every file is emptied before it is written.
* *Retries.* A refused submission is sent again, with more tracks behind it; a
  token is asked for again in the next run.
* *Shared streams.* All network clients share one `FILE *`, whose buffer
  `select()` does not see.

`PROJECT.json` lists the hazards line by line, with the properties that cover
each; where none does, it says why.

## 2. Modules

| Module | Models | Extends / uses |
|---|---|---|
| `Radio` | what the player promises its listener | - |
| `Player` | the main loop, `station()`, `play()`, the commands, the playback process as the kernel sees it, the server | - |
| `PlayerProps` | properties of `Player`, the refinement to `Radio` | `Player`, instance of `Radio` |
| `PlayerProofs` | types, one process at a time, order, stop, the refinement; the other safety properties and the whole invariant | `PlayerProps` |
| `MCPlayer` | values for TLC | `PlayerProps` |
| `Ledger` | what the scrobbler promises the profile | - |
| `Scrobbler` | queue, submissions, `waitpid` reports, `cleanup()` | - |
| `ScrobblerProps`, `ScrobblerProofs` | properties, refinement to `Ledger`; theorems | instance of `Ledger` |
| `Playback` | the playback process from `fork()` to `exit()`, the volume, what main does to it | - |
| `PlaybackProps`, `PlaybackProofs` | properties; theorems | `Playback` |
| `PlayClock` | the accounting of play time | - |
| `PlayClockProps`, `PlayClockProofs` | properties; theorems | `PlayClock` |
| `Clients` | the inputs of `select()`, `handle_client()` and its stream | - |
| `ClientsProps`, `ClientsProofs` | properties; theorems | `Clients` |
| `Hash` | the array of pairs as operators on sequences | - |
| `Fetch` | `fetch()`: a request and its response, the network | - |
| `Session` | `create_session()` and `create_token()` run after run: the composition of `Fetch`, `Hash` and the files | `Fetch`, `Hash` |
| `SessionProps`, `MCSession` | properties; values for TLC | `Session` |
| `SessionProofs` | theorems about `set()`; that `rc` is the map it stands for, that replies are put together as they were sent and that a stored key is the server's and stays | `SessionProps` |
| `Prompt` | line editor and completion | - |
| `PromptProps`, `MCPrompt` | properties; values for TLC | `Prompt` |
| `PromptProofs` | theorems | `PromptProps` |
| `Desk` | the files of history and bookmarks | - |
| `DeskProps`, `MCDesk` | properties; values for TLC | `Desk` |
| `DeskProofs` | theorems | `DeskProps` |

In each module a definition whose name ends in `_` is a plausible slip in the
operator of the same name (a dropped guard, a missing reset, a swapped order).
It is not part of the model: it documents that a property would notice it.

The components meet at narrow places, and each module has the neighbour reduced
to what crosses there: `Player` sees a playback process through signals, stops
and its death, which `Playback` has in full; `Scrobbler` sees tracks that play
and end, and `PlayClock` decides which of them count.

### 2.1 Player

`pc` is the place main has reached in its loop: `reap` (the `waitpid` loop,
main.c:303), `ended` (a track is over, 340), `change`, `delayed`, `refill`,
`start`, `banned` (the change block, 391-502), `select` (527), `station` (inside
`station()`, called by an input handler), `quit` (the delayed quit), and
`exited` or `dead`. Actions carry the name of what they do: `ReapDead`,
`EndStopped`, `StationTuned`, `Start`, `Pause`. A step is an operation up to the
next point where another process can make a difference: everything main reads
but `error` is changed by main only, and a playback process is seen through
`waitpid` only, so a call that blocks on the network is one step.

`proc` holds the playback processes as the kernel knows them, named by the track
they play: alive, failing or zombie; SIGSTOP sent or acted on; SIGUSR1 sent; a
continuation that waits to be reported. `kill(playfork, ...)` is modelled with
what it does for 0 (the process group), -1 (every process of the user) and a pid
that was reaped; `wild` remembers such signals.

`wanted`, `heard`, `lastKilled` and `wild` are history variables: the model does
not read them. Tracks are numbered in the order the server hands them out. Text
(URLs, titles, output) is reduced to what the comparisons of the code tell
apart: a URL is a station and whether it came with its prefix, since
`station()` compares it before the prefix is cut off and stores it after.

`Radio` has three variables: what is audible, the last track that started and
whether the listener wants music. A track begins only in silence, only if music
is wanted, and only with a number higher than any before. `PlayerProps` maps the
living playback processes to what is audible.

### 2.2 Scrobbler

The player is reduced to tracks that play and end. A submission is a copy of the
queue, how far the request got, and an exit code. The model has the details that
matter for retries: an exit code of 0 for a submission that was not answered,
`WEXITSTATUS` of a killed process, and stop and continue reports, for which main
calls `subdead()` as it does for the dead. The server's profile is `log`.
`played`, `behind` and `silent` are history. `Ledger` is the abstract profile: it
grows at its end only, by tracks that were played and are newer than all in it.

### 2.3 Playback and volume

`child.pc` is the place the process has reached: `fetch` (service.c:219, before
`playback()` installs its handler: SIGUSR1 kills), `decode`, `select` (waiting
in `timed_read()`: SIGUSR1 ends the wait, which is read as the end), `output`
(frames of one buffer, each of which reads the volume pipe first), `copy` (the
loop that feeds an external player), `end` and `post` (the download is kept or
removed), `zombie`. A stream is a number of chunks and a buffer yields a number
of frames. The head of the response may have swallowed the first of the body.
An external player is given chunks (`copy`) and ends by itself once its input is
closed; only then does the process go on (`PlayedOut`, play.c:324-326). That it
lives, reads and ends is assumed of it. `Faults` has two kinds of trouble on this
side of the network: a sound device that cannot be opened again when the rate or
the number of channels changes ("device"), upon which `output()` ends the decoder
with `killed` still 0 (play.c:425-436) and a partial download is tagged,
processed and renamed; and files that cannot be opened, written, removed or
renamed ("disk").
The parent is noted when `playback()` begins; a process whose parent has died by
then is a child of init. `Stall` and `Cut` are the server's. Main's part is
`Play`, `Skip`, `Reap`, the volume with its pipe, quitting and dying; SIGPIPE
kills main when it writes a volume for a process that is gone, unless a network
client ever came (sckif.c ignores the signal then).

`flaws`, `left` and `late` are history: where a finished download lacks something
(its head, or the rest), which songs' temporary files were left behind, by ^C or
by a call that failed, and how many frames began after the process should be
silent.

### 2.4 PlayClock

Time is counted in ticks. `Pause`, `Suspend` (^Z, which reaches main and the
process), `Foreground`, `ReapContinued` and `ReapEnded` are the places that
change the three numbers; `Tick` may come between any two, so main is late at
will. `ran` is the time the process was not stopped; `slack` and `lag` are the
ticks for which main did not yet know of a continuation or of the end. `odd`
marks the pauses the code does not measure: one that ^Z overwrites, one begun by
^Z between two tracks or before `stopsig()` is armed again, and one that ended
with its track. Unsigned arithmetic is modulo `Word`.

### 2.5 Clients

The list of inputs is a sequence with the listening socket, the keyboard (unless
daemonised) and one handle per client. `pc` is `select` or `fgets`. A stream has
its descriptor, the tokens that `fgets()` took in and has not returned, and its
end-of-file mark. A command is one token, so a line is a command and a
`newline`; a client may send a line in two parts, hang up in the middle of it,
send several lines at once, leave, or have its connection reset (`Reset`, for
those in `Fragile`): what had arrived is gone then, `fgets()` returns NULL, and
the line it had begun is lost (`LastLine`). The branch for `ferror()`
(sckif.c:188-191) is never taken, since `fgets()` returns NULL on an error, which
is tested first. A failing `accept()` leaves the listening socket ready
and is an idle turn of the loop; such a failure is taken to pass. Lines fit into
the BUFSIZE bytes of `handle_client()`; of a longer one, `fgets()` would make
several commands. The number of a closed descriptor is not
given out again in the model. In the program the pipe of the next track may take
it; `select()` then no longer fails but has an input that no client stands
behind.

### 2.6 Hash, Fetch, Session

`Hash` has `set()`, `value()` and `unset()` on a sequence of pairs: `unset()`
moves the last pair into the hole and `realloc()`s, which for the only pair
gives NULL and an abort (`Aborts`).

`Fetch` reads a wire of characters of which the sizes of chunks, the blanks and
the letters of the body are told apart. `ReadChunk` is one turn of
`read_response_chunked()`, with `fscanf("%x\r\n")` skipping the blanks a chunk
begins with. The server chooses redirects, refusals, the pieces it cuts a body
into (`Splits`) and where the connection breaks, which nothing tells from the end.

`Session` runs the program again and again over the two files. `Start` empties
`rc`, `SetLine` is one turn of the loop of `settings()`, which sets one line of
the configuration file, and `SettingsRead` is its end; `Reload`, the key C,
begins the same loop over the settings there are. Since `Set` can abort, each of
these may be the end of the program. Then come `RestoreSession`,
`RestoreToken`, `Exchanged`, `Created`, and two steps for each file, emptying and
writing. The file of the token is described by what the
server thinks of the token in it. `last` records what was set last for each key
of `rc`, the map that the array has to implement.

### 2.7 Prompt and Desk

`Prompt` keeps the array, the length, what the terminal shows, the state of an
escape sequence, the history and the static variables of `nextmatch()`; one
action per kind of key. The array is written as the code writes it: ^U leaves it
alone, a text of the history is put before the last cell, which is not touched
(`Fetched`, readline.c:117-126), Tab clears all behind its completion, takes
`lastfm://` off with the nine characters it moves (`Stripped`, radio.c:99-103),
and a needle is kept as far as there is room for it (`Kept`, completion.c:34).
Where the code would read on behind the array the behaviour ends (`Overrun`), as
it does when stdin ends and each `fgetc()` returns -1 (`InputEnds`). The `memset`
of radio.c:102 clears up to nine bytes behind the array when the rest of the line
is short; they belong to no variable of this module. Letters have no case.
Candidates for completion are constants, texts of any
kind: one with a separator in it moves the line to the next level, where
`nextmatch()` goes on with what it kept of the list before, and may search it
without end (`Stray`, the prompt is "stuck"). `listed` and `offered` record the
list that was searched last and which of its matches were offered. `Desk` keeps
the lines of both files, `Kept` being those at given places; adding a line is two steps, reading and emptying the
file, then writing it, between which the program can be killed with some of the
lines written.

### 2.8 Conventions of the runs

Constants ending in `Faults` choose what may go wrong, so that a run can be read
as a statement about a class of environments; `Trouble` counts it in `Session`.
`Max...` and `PerFetch` bound the exploration; the proofs do not depend on them.

## 3. Runs

| Run | Shows |
|---|---|
| `PlayerDelay` | A terminal with delay-change and two stations, named with and without prefix. What plays is what is shown and what heads the playlist (`HeadIsPlaying`), the np-file is true (`NpFileHonest`), a delayed station is taken up when the track is over and before another starts (`DelayedWaits`, `DelayedIsNext`), the shift drops only what was heard (`ShiftDropsHeard`), gaps are waited exactly after tracks that ended by themselves (`GapHonest`). |
| `PlayerNow` | Station changes kill the track; two artists, autoban, expand, ^C at any moment. The playlist is of the current station, banned artists are cut short, nobody is left behind at the end. Under fairness, a stop ends the track (`StopWorks`) and a station change comes to rest (`ChangeSettles`). |
| `PlayerFaults` | A daemon under network commands, with failing `fork()` and `pipe()`, API errors and lost answers: the inductive invariant `IndInv` (types, one process at a time, the playlist in order, nothing after a stop, and what the np-file, bans, pauses, gaps and delays rest on), `ImplementsRadio`, `PauseIsKnown`, `NoWildSignal`. |
| `ScrobblerFaults` | Refusals, no answer, submissions killed, failed forks, RTP switched off and on, ^C: no track twice or out of order (`LedgerInv`, `ImplementsLedger`), and tracks lost only behind a running submission or in one that was killed or not answered (`LostOnlyBehind`). |
| `ScrobblerLive` | The same and ^Z, under fairness: the slot of a submission is freed, quitting ends. |
| `Clients` | Two clients and the keyboard: no command lost, repeated or overtaken (`InOrder`, `NothingDropped`), clients that come one after the other get the answers to their own commands, whatever the one before left in the stream (`AnswersReachAsker`), the list of inputs is that of the open sockets; keys and hang-ups are noticed. The first has no exception; of a connection that is reset the last command may be lost; the others name theirs: two clients were connected at a time (`together`), one client's socket was ready while another's stream was read (`mixed`), or a client hung up within a line. |
| `Playback` | Two processes, with stalls, broken connections, ^C, a crash of main, a lost sound device and a failing disk at any step: the volume arrives across tracks (`VolumeFollows`), a skipped track is never kept and a finished one is whole but for what a broken connection, the device or the disk took from it, which is the rest and never the middle (`DownloadsHonest`), a process that was signalled or whose parent went away falls silent within the frames it has decoded (`SilentSoon`) and ends (`KillEnds`). |
| `PlayClock` | Three tracks too short, long enough in part, and longer than suffices, with pauses and ^Z at any tick: what main counts is what was heard (`ClockInv`), the decision to scrobble follows from it (`ScrobbledIsHeard`: more than the minimum, or 240 seconds), as does the remaining time (`RemainHonest`). |
| `Session` | Lost connections, broken replies, redirects, error pages and crashes over many runs: a whole response is put together as it was sent (`Reassembled`), the settings, read line by line and read anew, are the map that was set (`RcHonest`), a stored key is kept and is the server's (`KeyKept`), the user gets a session in the end (`LogsIn`). |
| `Prompt` | Every sequence of up to eight keys on lines of up to seven characters: Enter returns what the terminal shows (`WhatYouSee`) unless the array is stale or full, Tab offers every match before it repeats one (`TabCycles`). |
| `Desk` | Three stations tuned to and bookmarked, with a crash in any write: the history has each station once in the order of last use, bookmarks are those set last, a crash brings no old line back (`FilesHonest`). |
| `ScrobblerOverlap` (a violation) | `NothingLost`: a track enqueued while a submission runs is cleared with the queue when that submission succeeds (submit.c:99), unposted; manual/shell-fm.1:565 promises that it is kept. |

*Bounds.* Three tracks in fetches of two make every playlist operation happen:
an empty reply, a refill, a track left over when a station changes, a shift on
one and on more tracks; `PlayerDelay` has four so that a delayed station is taken
up and still has two tracks to play in order. Two stations are needed to change
and to return, two artists to have one banned and one not. Four tracks let one
submission fail, a second repeat it with a third track behind it, and a fourth
be enqueued meanwhile. Two clients with two lines are the least in which one
client is taken for another and a second line waits behind a first; one of them
may be reset, the other is the one it must not disturb. `Playback`
has two processes, since a temporary file and a volume are handed from one to
the next, streams of two chunks, so that one can end early, and two frames to a
buffer, so that a signal can come between them; two bytes in the pipe are enough
to have an old and a new one (the pipe of the program holds 64 K). Seven ticks
hold a track that reaches the limit of 240 seconds, scaled to four, after a
pause. Bodies of three characters are cut into chunks in every way. The prompt's
line of seven characters holds two levels of a station and fills up; the prefix
has two characters, of a needle two are kept, and the second text of the history
is as long as the array, so that it is cut. The letters are the two of the arrow
keys' sequences. No state
constraint is used, and deadlock is checked everywhere but at a prompt, whose Tab
key may not come back and whose line may have no end; where another system may really end (`Over`, `Gone`) a
stuttering action says so.

*Fairness.* `Player` and `Scrobbler`: main is scheduled; the playback process is
scheduled and every stream ends (`stream-timeout` or the end of the track); a
server answers or the connection fails. `Playback`: the process is scheduled and
gets the data that was sent; that a connection breaks is not owed, and a stalled
stream without `stream-timeout` is an exception `KillEnds` names. `Session`: the
program runs and is started again, and the user authorises the token, as the
program asks; trouble is bounded; and the user quits in the end, however often
the settings are read anew before (strong fairness of `Quit`: every reload leaves
the state in which one can quit, and comes back to it). `Clients`: main is
scheduled and every client goes away some time. The user owes nothing else. Liveness is stated up to
pausing, since a paused track ends only when it is continued, and up to
quitting.

Further configurations end in a violation and are kept as records of deviations
met while modelling; they are not part of the list of runs. Run TLC with them on
the module named:

| Configuration | Module | Property | Deviation |
|---|---|---|---|
| `PlayerDropsFirst.cfg` | `MCPlayer` | `ShiftDropsHeard` | A station is tuned while a track plays: its playlist replaces the old one, the old process dies, and the shift at its death drops the first track of the new station (main.c:387), which service.c:178-180 says is played next. |
| `PlayerEarlyChange.cfg` | `MCPlayer` | `DelayedWaits` | A daemon never clears CHANGED at the start of a track (main.c:435 is in the branch for terminals), so a delayed request is taken up at once; manual/shell-fm.1:307 says it waits. |
| `PlayerApiError.cfg` | `MCPlayer` | `Survives` | An API error in reply to `radio.getPlaylist` meets `assert(track_array != NULL)` (playlist.c:74). |
| `PlayerStopThenPlay.cfg` | `MCPlayer` | `StopsOnlyIfAsked` | A station asked for between a stop and the death of the track is thrown away by the stop. |
| `PlayerStaleStop.cfg` | `MCPlayer` | `StopsOnlyIfAsked` | A delayed station that cannot be tuned leaves STOPPED behind, which ends playback after a later track (main.c:397). |
| `PlayerSame.cfg` | `MCPlayer` | `SameOnlyWhilePlaying` | After a stop the station that was stopped is refused as already played (service.c:89). |
| `PlayerLostDelay.cfg` | `MCPlayer` | `DelayedIsTaken` | A station delayed before a stop waits for ever. |
| `PlayerPause.cfg` | `MCPlayer` | `PausedIsHalted` | A pause taken back before the process stopped is shown for ever. |
| `ScrobblerSuspend.cfg` | `ScrobblerProps` | `GivenUpWhenDead` | ^Z and fg make main give up a submission that still runs; it is posted twice. |
| `ScrobblerQuit.cfg` | `ScrobblerProps` | `KeptForNextTime` | `dump_queue()` keeps nothing. |
| `ClientsDetach.cfg` | `ClientsProps` | `Detached` | A client sends a command and `detach` together, as scripts/unix.pl does: the second line stays in the buffer of the stream, `select()` sees nothing, and client and player wait for each other. |
| `PlayClockMinimum.cfg` | `PlayClockProps` | `MinimumKept` | manual/shell-fm.1:299-301 says of `minimum`: "if this option is set to 75, the track will not be scrobbled if it has not been played for at least 75% of its total duration". main.c:360 scrobbles every track that was played for 240 seconds, whatever its minimum: with 75, every track of more than 320 seconds. `ScrobbledIsHeard` states the rule of the code. |
| `SessionEmpty.cfg` | `MCSession` | `LogsInAlways` | A crash between emptying and writing the file of the session leaves an empty file, which `fscanf()` reports as EOF and `restore_key()` takes for a session ever after (rest.c:177). |
| `PromptSlash.cfg` | `MCPrompt` | `TabReturns` | An artist such as AC/DC, completed, moves the line to the third level. The next Tab looks there for the needle of the second, which none of the texts may match: the loop in `nextmatch()` never ends (completion.c:57), or reads behind the list. |

Four more properties are violated with the constants of a run, in the place of
the weaker one it checks:

* `AlwaysWhatYouSee` for `WhatYouSee` in `Prompt.cfg`: ^U resets the length and
  not the array (readline.c:80), so that what is typed next is followed by what
  was deleted; a text of the history that is fetched then covers all of it but
  the last cell; and Tab at a bare `lastfm://` empties the array only.
* `DownloadsWhole` for `DownloadsHonest` in `Playback.cfg`: manual/shell-fm.1:320-322
  has the tracks saved, but a stream that ends early, a full disk or a lost sound
  device leave a part of one under its final name.
* `EachItsOwn` for `AnswersReachAsker` in `Clients.cfg`: of two clients that are
  connected at a time one may get the answers of the other (sckif.c:157-170).
* `NeverUnheard` for `ScrobbledIsHeard` in `PlayClock.cfg`: a track whose last
  pause was not measured is scrobbled although it was not heard for long enough.

## 4. Proofs

All theorems hold for every value of the constants that satisfies the
assumptions named in the modules: any number of stations, artists, tracks,
clients, chunks or ticks, any commands, at a terminal or as a daemon.

*Player: one track at a time, in order, none after a stop* (`PlayerProofs`). That
the process `playfork` names is the only one (`NoStrayChild`) is not inductive by
itself, since the loop clears `playfork` long after the process was reaped;
`ReapInv` adds that between the two `playnext` stands for it and no process
exists. `TracksInOrder` (`UpcomingInOrder`) needs `UnheardInv`: the playlist is
ascending and, with `playfork = 0`, beyond what was heard; this is where the lost
first track of `PlayerDropsFirst.cfg` is seen to be harmless for the order.
`StopIsRemembered` (`WantedInv`): once the listener wants no music, either the
process that runs is the last one (STOPPED is set) or nothing runs and neither
CHANGED nor `playnext` can start anything. `PlayerIsRadio`:
`Spec => ImplementsRadio`; the three invariants are what the guard of
`Radio!Begin` asks for, and every other action leaves the radio alone, ends its
track or changes what is wanted. No assumption on faults is made.

*Player: what the user sees and what signals reach* (`PlayerProofs`). Each
property is stated at the points of the loop where it matters; the invariant says
what holds at the points between.

* `ForkInv` says what `playfork` means: a process that exists and was started
  last, until `waitpid()` has reported its death; then, up to the end of the
  block for a track that ended (`Between`), the pid of none. With it `NpInv` (the
  np-file is that of `playfork`, and gone `Between`) gives `NpFileIsHonest`.
* `HaltInv`: a continuation that waits to be reported belongs to a process that
  runs while main still takes it for paused; no signal outlives its process.
  This gives `PauseIsAlwaysKnown` and, with what `cleanup()` signals,
  `NobodyLeftBehind`.
* `BanInv`: a banned track has been told to end everywhere but between its start
  and the check at the end of the change block, pc `banned`. `AutobanIsEnforced`
  is this at `select`.
* `GapInv`: until playback is to be given up, INTERRUPTED is set exactly if the
  process that exists was sent SIGUSR1, and from its death to the next start
  exactly if the one that died had been. `GapIsHonest` is this at `start`.
* `DelayInv`: no station is noted where a track can start, and at a terminal
  CHANGED is set only while nothing plays. This gives `NothingOvertakesDelayed`,
  and `DelayedIsPatient` for a player that is not both a daemon and delays
  changes: `PlayerEarlyChange.cfg` violates it there.
* `UpcomingIsCurrent` has one assumption, in the property: no reply to a tune is
  lost. The proof carries "one station" through every operation of the playlist,
  the appending of a reply and the shift.
* `HeadIsAlwaysPlaying` and `OnlyHeardDropped` assume delay-change, without which
  `PlayerDropsFirst.cfg` violates the second and the window in which it does so
  the first.
* `NothingElseSignalled` assumes a daemon: at a terminal the key B with nothing
  playing signals process 0, the own group (interface.c:84). After a failed
  `fork()` every process of the user is signalled; the property excepts this.

`PlayerInvariant` is `Spec => []IndInv`, the conjunction of all of the above for
all values of the constants; the run `PlayerFaults` checks the same formula.

*Scrobbler.* `TypeCorrect` for all faults. The others under the assumption
`"suspend" \notin Faults`, which is needed: `ScrobblerSuspend.cfg` violates
them. `JobInv` (a submission that exists is named by `subfork` and carries the
front of the queue) gives `AtMostOneSubmission` and `FrontIsInFlight`.
`OrderInv` says that profile and queue form one ascending sequence, except
between the acceptance of a submission and the moment main learns of it
(`Settling`); with `PlayedInv` it gives `ScrobbledInOrder`, `LedgerInvariant`
and `ScrobblerIsLedger`. `FewAreLost` (`LostOnlyBehind`) holds with ^Z as well:
`LostInv` says that what the queue holds beyond the running submission came
behind it, and that every submission which counts as a success, at whichever
point between its answer and `waitpid()`, was accepted or never answered.

*Playback.* `PlaybackInvariant` and, from it, `VolumeIsFollowed`,
`DownloadsAreHonest` and `SilenceComesSoon`. What has to be added to the three
properties: `StepInv` (a process in `post` has read the whole stream, or the rest
is known to be lacking; the pipe is empty when no process has it; while one lives
main has its end), `DumpInv` (the temporary file of a living process is what it
has read, from the first or second chunk on: all of it as long as no write
failed), which turns the end of the stream into the completeness of the file,
and `LateInv` (a signalled process inside the
frame loop has played nothing since; frames begun and frames still decoded add
up to one buffer at most).

*PlayClock.* `ClockIsHonest`: `CountInv` relates main's numbers to the ticks the
process ran, through every order of pause, continuation, report and end.
`ScrobblesHonestly` follows, with the fact that the count is never negative, so
that the unsigned arithmetic does not wrap, and `RemainsHonestly`.

*Clients.* `SelectAlwaysWorks`, with `SelectInv`: a client is on its way,
waiting to be accepted, or open, and never two of these; the stream is that of
an open socket; and the one read from is the one that was ready, unless `mixed`.
`RemoveHandleRemoves` is the lemma about `remove_handle()`, which moves the last
handle into the hole. `NothingOvertaken` (`InOrder`), `NothingIsDropped` and
`AnswersAlwaysReachAsker` rest on `OrderInv`: what a client sent is what was
carried out, followed by the commands in the tokens that the stream took in and
those left in the socket, and these are lines, whatever parts they came in. The
lemmas about `Commands` and `Lines` say what appending a token, moving a socket's
contents into the stream and taking a line off the front do to them, for
sequences of any length; they need no induction since both are defined by
position. A client that is taken for another loses no command, only the answer.
`AnswersAlwaysReachAsker` (`AnswersReachAsker`) rests on `AnswersInv`: as long as
clients come one after the other there is one client at most among those on
their way, waiting and open, so that the one that is ready is the one whose
stream it is; this takes `OrderInv` for the stream that is let go with its
client.

*Hash and settings* (`SessionProofs`). `SetIsHash`, `SetSets` and `SetKeepsOthers`: for any array
without duplicate keys, `set()` implements the update of a map although it
reorders the pairs. `SettingsAreHonest` (`RcHonest`) carries this through
`Session`: for any configuration file and any values, `rc` is the map of what was
set last, by the file, by a reload, by a stored session or by the server's reply,
and the abort of the only pair never leaves it half done.

*Fetch and session* (`SessionProofs`). `RepliesReassembled` (`Reassembled`) rests on
`ReplyInv`: as long as a reply arrives whole, what `fetch()` has put together,
followed by the pieces that are still on the wire in chunks, is the body that was
sent. Its step is `ReadsChunk`, that one turn of the loop takes one chunk off the
wire, and that the size, which `fscanf()` reads, is the length of the piece. What
the wire holds is a `FlattenSeq` of chunks; the facts about it that this takes
(its type, its first chunk, that what is joined piece by piece is what is
flattened) are proved by the least length at which they could fail (`Least`).
`StoredKeyIsKept` (`KeyKept`) needs two more parts. `TextInv`: no text that is on
the wire or put together holds the letter of the key before the server issued
one, whatever is cut off or dropped. `StoreInv`: a key is about to be
written, or stored, only after the server issued it, and every step at which the
file could be emptied comes in a run that found none there. `SessionInvariant` is their conjunction with the invariant of `rc`.

*Desk.* `FilesAreHonest` (`FilesHonest`) rests on `HistoryInv` and `MarksInv`:
the lines that are about to be written are as good as those that were read, so
that whatever front of them a crash leaves is, too; and until the first crash
they are all there is to write. `Kept`, the lines of a file at given places,
is what `histapp()` and `setmark()` write; that it keeps the order and loses
none of them, for files of any length, is shown in `PlacesInOrder`,
`PlacesAreAll` and `KeptLines`. Instead of an induction these use `Least`, that
a set of numbers has a least one, which follows from the well-foundedness of `<`
in the library: of the places at which a claim would fail the first is
considered. `Latest`, when a station was tuned to last, exists by `Greatest`, and
`TunedInOrder` shows that a station moved to the end of the history belongs
there. `MarksAssumption` says that the keys come in the order of their codes,
each once, which is what the loop over the array of 256 bookmarks does.

*Prompt.* `TypedIsReturned` (`WhatYouSee`) rests on `LineInv`: the terminal shows a
text of as many characters as the line counts, and the array holds that text and
ends with it, unless it is stale. Every way to a new line is a lemma:
a key more (`LongerLine`), some less (`ShorterLine`), a line from the history
(`BrowseLine`) or from a completion (`TabLine`), which has to be a text that fits
(`CompletedType`, `PrintedType`, `BeforeType`, `TagsType`, `ChunksType`). That ^W ends (`RunType`), that a
chunk does, and that `uniq()` takes texts of the list (`NthIsOne`) follow from
`Least` again. `TabOffersAll` (`TabCycles`) has `SearchInv`: what was offered is a
stretch of the matches that ends with the one offered last and may go past the
end of the list to its beginning (`Lap`). The next match is in it only if it is
all of them (`LapCloses`), and makes it longer by one otherwise (`LapExtends`).
The first match is looked for with the whole needle and the others with what was
kept of it, which has no fewer (`KeptMatches`).
The candidates are any texts over the characters of the line
(`TextsAssumption`).

Model-checked only: the liveness properties (fairness and ENABLED are beyond the
prover), and `IntoOrder`-like questions of computation on text are not modelled
at all (section 5).

## 5. Not modelled

*Computation on text.* Encoding of URLs, formats, the np-file's layout, signing
(`rest.c`), the flattening of JSON, JSON and MD5 themselves (vendored), quoting
in the configuration, splitting of tags, sorting for display. Feeds and
recommendations are one request each. The scripts are clients of the network
interface or decorations.

*Downloads to the cache and its expiry.* `cleanup()` empties `rc` before it looks
for the expiration there (main.c:590), so a configured one is never used.

*Sending tags, and the second level of completions by the server* are requests
without state; the lists that are completed are constants.

*Replies that are no JSON.* `json_hash()` and `error_message()` are given NULL
for such a reply and crash (service.c:132-133 with rest.c:259, rest.c:193-195).
`StationRefused` and `RateBan` of `Player` take it for a refusal and an error.

*What other programs do to a download.* TagLib and the `pp-cmd` work on the
temporary file before it is renamed; the models take its chunks as they were
written.

*Updates that are not atomic.* `playsig()` changes `flags` and `error` from a
signal handler while the loop reads and writes them (main.c:626). The models take
each such update as a whole. The pointer `track_array` after a reply without
tracks (playlist.c:93) is left to the assertion before it.

*Granularity of files.* A crash of `Desk` leaves whole lines. A file that is
torn within a line would be read as another URL.

What the properties except is named in them or in their module, and shown by one
of the configurations above where it is a deviation: pauses that are not
measured (`odd`), a file of the session emptied by a crash, a configuration of
nothing but a user name (which the only-pair rule of the hash makes
irreplaceable), a stale array and a full line, two clients at a time, a download
cut by the connection, the device or the disk, ^Z for `LedgerInv`, signals to
every process after a failed fork, a process whose parent died while it fetched
(its parent is then init, which never goes away, so it plays on), a stalled
stream without `stream-timeout`.

Each component is modelled by itself, with its neighbours reduced as section 2
says; `Session` is the one composition of modules. A composition of `Player` with
`Playback` would have the same signals twice and no property that is not stated
in one of them.
