------------------------------ MODULE Playback ------------------------------
(***************************************************************************)
(* The playback process of shell-fm (play.c and the child of play() in     *)
(* service.c) with what the main process does to it from outside: signals, *)
(* the pipe the volume travels through, and dying.  The process decodes    *)
(* the stream buffer by buffer, feeds it to the sound device frame by      *)
(* frame or to an external player, and keeps a copy of a free track.       *)
(*                                                                         *)
(* A stream is Size chunks.  A track is played by one process at a time;   *)
(* module Player has what main does between tracks, and pausing.           *)
(***************************************************************************)
EXTENDS Integers, Sequences

CONSTANTS
  Songs,        \* free tracks, each with the path it is downloaded to
  MaxVolume,    \* MAX_VOLUME, scaled down
  Size,         \* chunks of a stream
  Frames,       \* frames decoded from one buffer
  PipeBound,    \* bound: volumes on their way to the process
  MaxTracks,    \* bound: playback processes started
  Faults        \* what goes wrong, of the following
                \* "stall": the server sends nothing more
                \* "cut": the connection ends early
                \* "interrupt": ^C
                \* "crash": main is killed
                \* "device": the sound device is not to be had in a new format
                \* "disk": a file cannot be opened, written, renamed, removed

ASSUME SizesAssumption ==
  /\ Songs # {}
  /\ {MaxVolume, Size, Frames, PipeBound, MaxTracks} \subseteq Nat \ {0}
  /\ Faults \subseteq {"stall", "cut", "interrupt", "crash", "device", "disk"}

Whole == 1 .. Size
NoFile == {0}
Volumes == 0 .. MaxVolume
Flaws == {"head", "rest"}
Players == {"extern", "mad", "timed"}   \* "timed": with a stream-timeout
Copying == {"decode", "select", "output", "copy"}

VARIABLES
  main,         \* "up", "exited" (by way of cleanup()) or "crashed"
  sigpipe,      \* SIGPIPE is ignored: there was a network client
  volume,       \* main's volume
  muted,
  saved,        \* saved_volume
  playpipe,     \* main has the writing end of a pipe
  pipe,         \* the volumes in the pipe of the latest process
  child,        \* that process
  tmp,          \* the chunks in the file FILE.streaming of each song
  final,        \* the chunks in FILE
  started,      \* counts the processes
  flaws,        \* history: where a final file had lost chunks
  left,         \* history: songs whose temporary file was left behind
  late          \* history: frames begun since the process should be silent

volumes == <<volume, muted, saved>>
files == <<tmp, final, flaws, left>>
vars == <<main, sigpipe, volume, muted, saved, playpipe, pipe, child, tmp,
          final, started, flaws, left, late>>

NoChild == [pc |-> "none", song |-> CHOOSE s \in Songs : TRUE, player |-> "mad",
            volume |-> 0, killed |-> FALSE, parent |-> "main", next |-> 1,
            frames |-> 0, dump |-> FALSE, stalled |-> FALSE, flaw |-> {}]
Gone == [NoChild EXCEPT !.pc = "zombie"]
Alive == child.pc \notin {"none", "zombie"}
Dies == child' = Gone /\ pipe' = <<>> /\ late' = 0
Silenced == child.killed \/ main # "up"

Init ==
  /\ main = "up"
  /\ sigpipe = FALSE
  /\ volume = MaxVolume
  /\ muted = FALSE
  /\ saved = MaxVolume
  /\ playpipe = FALSE
  /\ pipe = <<>>
  /\ child = NoChild
  /\ tmp = [s \in Songs |-> NoFile]
  /\ final = [s \in Songs |-> NoFile]
  /\ started = 0
  /\ flaws = [s \in Songs |-> {}]
  /\ left = {}
  /\ late = 0

-----------------------------------------------------------------------------
(* The main process.  A name that ends in _ is a version of the operator   *)
(* below it with a plausible slip; none is part of the model.              *)

(* play(): a new pipe and a new process, which has a copy of the volume.   *)
(* The configuration may have been read anew since the last track.         *)
Play(song, player) ==
  /\ main = "up"
  /\ child.pc = "none"
  /\ started < MaxTracks
  /\ child' = [NoChild EXCEPT !.pc = "fetch", !.song = song, !.player = player,
                              !.volume = volume]
  /\ playpipe' = TRUE
  /\ started' = started + 1
  /\ UNCHANGED <<main, sigpipe, volumes, pipe, files, late>>

(* waitpid() reports the process.  Main's end of the pipe stays open.      *)
Reap ==
  /\ main = "up"
  /\ child.pc = "zombie"
  /\ child' = NoChild
  /\ UNCHANGED <<main, sigpipe, volumes, playpipe, pipe, files, started, late>>

(* SIGUSR1.  Before playback() handles it the signal kills the process;    *)
(* select() returns early, and timed_read() takes that for a timeout.      *)
Signalled ==
  IF child.pc = "fetch" THEN Dies
  ELSE /\ child' = IF Alive
                   THEN [child EXCEPT !.pc = IF @ = "select" THEN "end" ELSE @,
                                      !.killed = TRUE]
                   ELSE child
       /\ UNCHANGED <<pipe, late>>

Skip ==
  /\ main = "up"
  /\ child.pc # "none"
  /\ Signalled
  /\ UNCHANGED <<main, sigpipe, volumes, playpipe, files, started>>

(* The byte is written to whatever process has the pipe; if there is none  *)
(* any more, SIGPIPE kills main, unless a network client ever came.        *)
Clip(v) == IF v > MaxVolume THEN MaxVolume ELSE IF v < 0 THEN 0 ELSE v
SetVolume(v) ==
  /\ Len(pipe) < PipeBound
  /\ volume' = Clip(v)
  /\ IF playpipe /\ Alive THEN pipe' = Append(pipe, volume') ELSE UNCHANGED pipe
  /\ main' = IF playpipe /\ ~Alive /\ ~sigpipe THEN "crashed" ELSE main

(* The keys + and - and the command "volume"; without an argument that     *)
(* command sets the volume to what an uninitialised variable holds.        *)
ChangeVolume ==
  /\ main = "up"
  /\ \E v \in -1 .. MaxVolume + 1 : SetVolume(v)
  /\ UNCHANGED <<sigpipe, muted, saved, playpipe, child, files, started, late>>

(* saved_volume is not read again before it is set again.                  *)
Mute ==
  /\ main = "up"
  /\ muted' = ~muted
  /\ IF muted THEN SetVolume(saved) /\ saved' = MaxVolume
              ELSE SetVolume(0) /\ saved' = volume
  /\ UNCHANGED <<sigpipe, playpipe, child, files, started, late>>

ClientComes ==
  /\ main = "up"
  /\ ~sigpipe
  /\ sigpipe' = TRUE
  /\ UNCHANGED <<main, volumes, playpipe, pipe, child, files, started, late>>

(* What main kept in its memory goes with it.                              *)
Leaves(how) ==
  /\ main = "up"
  /\ main' = how
  /\ sigpipe' = FALSE /\ playpipe' = FALSE
  /\ volume' = MaxVolume /\ muted' = FALSE /\ saved' = MaxVolume
  /\ UNCHANGED started

(* cleanup() signals the process and does not wait for it.                 *)
Quit ==
  /\ Leaves("exited")
  /\ Signalled
  /\ UNCHANGED files

Crash ==
  /\ "crash" \in Faults
  /\ Leaves("crashed")
  /\ UNCHANGED <<pipe, child, files, late>>

(* ^C reaches both; forcequit() is inherited and ends the process where it *)
(* is.                                                                     *)
Interrupt ==
  /\ "interrupt" \in Faults
  /\ Leaves("exited")
  /\ IF Alive THEN Dies ELSE UNCHANGED <<child, pipe, late>>
  /\ left' = IF child.dump /\ Alive THEN left \cup {child.song} ELSE left
  /\ UNCHANGED <<tmp, final, flaws>>

-----------------------------------------------------------------------------
(* The playback process.                                                   *)
Keep == UNCHANGED <<main, sigpipe, volumes, playpipe, started>>
Moves(place) == child' = [child EXCEPT !.pc = place] /\ UNCHANGED <<pipe, late>>

(* fetch() has no stream, or the device cannot be opened.                  *)
FetchFails == child.pc = "fetch" /\ Dies /\ Keep /\ UNCHANGED files

(* fetch() has the stream and playback() begins: it takes note of its      *)
(* parent, and opens the temporary file unless there is one, or it cannot. *)
(* What the buffer of the response's head took of the body is not read     *)
(* again; only an external player is fed through that buffer.              *)
Begin ==
  /\ child.pc = "fetch"
  /\ \E head \in {0, 1}, dumps \in BOOLEAN :
       /\ child.player = "extern" => head = 0
       /\ dumps => child.player # "extern" /\ tmp[child.song] = NoFile
       /\ \/ dumps
          \/ child.player = "extern" \/ tmp[child.song] # NoFile \/ "disk" \in Faults
       /\ child' = [child EXCEPT
            !.pc = IF child.player = "extern" THEN "copy" ELSE "decode",
            !.parent = IF main = "up" THEN "main" ELSE "init",
            !.next = 1 + head, !.flaw = IF head = 1 THEN {"head"} ELSE {},
            !.dump = dumps]
       /\ tmp' = IF dumps THEN [tmp EXCEPT ![child.song] = {}] ELSE tmp
  /\ Keep /\ UNCHANGED <<pipe, final, flaws, left, late>>

(* The server falls silent, which matters where the process waits for it.  *)
Stall ==
  /\ "stall" \in Faults
  /\ child.pc \in {"select", "copy"}
  /\ ~child.stalled
  /\ child' = [child EXCEPT !.stalled = TRUE]
  /\ Keep /\ UNCHANGED <<pipe, files, late>>

(* input() waits for data.                                                 *)
Decode ==
  /\ child.pc = "decode"
  /\ Moves("select")
  /\ Keep /\ UNCHANGED files

(* ... and gets some, which fwrite() may fail to put into the file.  It    *)
(* stops if its parent is gone or it is to die; a decoder that ends drops  *)
(* the frames it has.                                                      *)
ParentGone == main # "up" /\ child.parent = "main"
More == child.next <= Size /\ ~child.stalled
Read_ ==
  /\ child.pc = "select" /\ More
  /\ child' = [child EXCEPT !.next = @ + 1, !.frames = Frames, !.pc = "output"]
  /\ tmp' = IF child.dump THEN [tmp EXCEPT ![child.song] = @ \cup {child.next}] ELSE tmp
  /\ Keep /\ UNCHANGED <<pipe, final, flaws, left, late>>
Read ==
  /\ child.pc = "select"
  /\ More
  /\ \E n \in 1 .. Size - child.next + 1 :
     \E written \in IF child.dump /\ "disk" \in Faults THEN 0 .. n ELSE {n} :
       /\ child' = [child EXCEPT
            !.next = @ + n, !.frames = IF child.killed \/ ParentGone THEN 0 ELSE Frames,
            !.killed = @ \/ ParentGone,
            !.pc = IF child.killed \/ ParentGone THEN "end" ELSE "output",
            !.flaw = IF written < n THEN @ \cup {"rest"} ELSE @]
       /\ tmp' = IF child.dump
                 THEN [tmp EXCEPT ![child.song] =
                         @ \cup (child.next .. child.next + written - 1)]
                 ELSE tmp
  /\ Keep /\ UNCHANGED <<pipe, final, flaws, left, late>>

(* No data: the end of the stream, or a timeout.                           *)
Ends_ == child.next > Size
Ends == child.next > Size \/ (child.stalled /\ child.player = "timed")
Ended == child' = [child EXCEPT !.pc = IF @ = "copy" THEN "wait" ELSE "end",
                     !.flaw = IF child.next > Size THEN @ ELSE @ \cup {"rest"}]
StreamEnds ==
  /\ child.pc = "select"
  /\ Ends
  /\ Ended
  /\ Keep /\ UNCHANGED <<pipe, files, late>>

(* The connection breaks, which is read as an end of the stream.           *)
Cut ==
  /\ "cut" \in Faults
  /\ child.pc \in {"select", "copy"}
  /\ child.next <= Size
  /\ Ended
  /\ Keep /\ UNCHANGED <<pipe, files, late>>

(* output() plays a frame at the volume that came last through the pipe.   *)
(* A frame of another rate, or of another number of channels, needs the    *)
(* device anew; without it the decoder ends.                               *)
Drained_(c) == IF pipe = <<>> THEN c.volume ELSE pipe[1]
Drained(c) == IF pipe = <<>> THEN c.volume ELSE pipe[Len(pipe)]
Output ==
  /\ child.pc = "output"
  /\ \/ /\ child' = [child EXCEPT !.volume = Drained(child),
                       !.frames = IF child.killed THEN 0 ELSE @ - 1,
                       !.pc = IF child.killed THEN "end"
                              ELSE IF child.frames = 1 THEN "decode" ELSE @]
        /\ pipe' = <<>>
        /\ late' = IF Silenced THEN late + 1 ELSE late
     \/ /\ "device" \in Faults
        /\ child' = [child EXCEPT !.pc = "end", !.frames = 0, !.flaw = @ \cup {"rest"}]
        /\ UNCHANGED <<pipe, late>>
  /\ Keep /\ UNCHANGED files

(* The loop that feeds an external player; it never looks at the pipe, and *)
(* fread() goes on after a signal.                                         *)
Copy ==
  /\ child.pc = "copy"
  /\ \/ child.next > Size /\ Ended
     \/ /\ More
        /\ child' = [child EXCEPT !.next = @ + 1,
                       !.pc = IF child.killed \/ ParentGone THEN "wait" ELSE @]
  /\ late' = IF Silenced THEN late + 1 ELSE late
  /\ Keep /\ UNCHANGED <<pipe, files>>

(* The external player has played what was in its own pipe, and ends; a    *)
(* signal does not interrupt waitpid() for good.                           *)
PlayedOut == child.pc = "wait" /\ Dies /\ Keep /\ UNCHANGED files

(* unlink() or rename() of the temporary file fails.                       *)
LeftBehind ==
  /\ "disk" \in Faults
  /\ left' = left \cup {child.song}
  /\ UNCHANGED <<tmp, final, flaws>>

(* After the decoder: a killed process removes its temporary file, any     *)
(* other has it tagged and processed ...                                   *)
Finish_ ==
  /\ child.pc = "end"
  /\ IF child.dump THEN Moves("post") ELSE Dies
  /\ Keep /\ UNCHANGED files
Finish ==
  /\ child.pc = "end"
  /\ IF child.dump /\ ~child.killed THEN Moves("post") ELSE Dies
  /\ \/ /\ tmp' = IF child.dump /\ child.killed
                    THEN [tmp EXCEPT ![child.song] = NoFile] ELSE tmp
        /\ UNCHANGED <<final, flaws, left>>
     \/ child.dump /\ child.killed /\ LeftBehind
  /\ Keep

(* ... and gives it its final name.                                        *)
Rename ==
  /\ child.pc = "post"
  /\ Dies
  /\ \/ /\ tmp' = [tmp EXCEPT ![child.song] = NoFile]
        /\ final' = [final EXCEPT ![child.song] = tmp[child.song]]
        /\ flaws' = [flaws EXCEPT ![child.song] = child.flaw]
        /\ UNCHANGED left
     \/ LeftBehind
  /\ Keep

-----------------------------------------------------------------------------
Main == \/ \E song \in Songs, player \in Players : Play(song, player)
        \/ Reap \/ Skip \/ ChangeVolume \/ Mute \/ ClientComes
        \/ Quit \/ Crash \/ Interrupt
Process == FetchFails \/ Begin \/ Decode \/ Read \/ StreamEnds \/ Output
           \/ Copy \/ PlayedOut \/ Finish \/ Rename

(* Everything is over when main and the process are gone.                  *)
Over == main # "up" /\ ~Alive /\ UNCHANGED vars

Next == Main \/ Process \/ Stall \/ Cut \/ Over

Spec == Init /\ [][Next]_vars

(* A process that can go on does: the kernel schedules it, data that the   *)
(* server sends arrives, and an external player ends when its input does.  *)
FairSpec == Spec /\ WF_vars(Process)
=============================================================================
