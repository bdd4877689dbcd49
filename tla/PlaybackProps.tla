--------------------------- MODULE PlaybackProps ---------------------------
(***************************************************************************)
(* What main may rely on when it signals the playback process, changes the *)
(* volume or goes away, and what is on the disk afterwards.                *)
(***************************************************************************)
EXTENDS Playback

Children ==
  [pc : {"none", "fetch", "wait", "end", "post", "zombie"} \cup Copying,
   song : Songs, player : Players, volume : Volumes, killed : BOOLEAN,
   parent : {"main", "init"}, next : 1 .. Size + 1, frames : 0 .. Frames,
   dump : BOOLEAN, stalled : BOOLEAN, flaw : SUBSET Flaws]
Parts == (SUBSET Whole) \cup {NoFile}

MainType ==
  /\ main \in {"up", "exited", "crashed"}
  /\ sigpipe \in BOOLEAN /\ muted \in BOOLEAN /\ playpipe \in BOOLEAN
  /\ volume \in Volumes /\ saved \in Volumes
  /\ started \in 0 .. MaxTracks
FilesType ==
  /\ tmp \in [Songs -> Parts]
  /\ final \in [Songs -> Parts]
  /\ flaws \in [Songs -> SUBSET Flaws]
  /\ left \subseteq Songs

(* Every variable holds a value of its type.                               *)
TypeOK ==
  /\ MainType
  /\ FilesType
  /\ pipe \in Seq(Volumes)
  /\ child \in Children
  /\ late \in Nat

(* The volume the process will play at, once it has read what is in its    *)
(* pipe, is the one main shows, across tracks and whoever changed it.      *)
VolumeFollows ==
  /\ TypeOK
  /\ main = "up" /\ Alive =>
       volume = IF pipe = <<>> THEN child.volume ELSE pipe[Len(pipe)]

(* A download has its final name only if it is the whole track, but for    *)
(* what the stream lacked, what could not be written, and what was not     *)
(* read because the sound device was lost: a skipped track is never kept,  *)
(* and a track of which only the head may be missing is.  A temporary file *)
(* belongs to the process that writes it, or was left by ^C or because the *)
(* file system refused to remove or to rename it.                          *)
DownloadsHonest ==
  \A s \in Songs :
    /\ final[s] # NoFile =>
         /\ Whole \ final[s] # {} => flaws[s] # {}
         /\ "rest" \notin flaws[s] => 2 .. Size \subseteq final[s]
    /\ tmp[s] # NoFile =>
         s \in left \/ (Alive /\ child.dump /\ child.song = s)

(* What the manual promises of a download: the track is saved.  The code   *)
(* does not keep it once the connection, the disk or the device fails; no  *)
(* run checks it.                                                          *)
DownloadsWhole == \A s \in Songs : final[s] # NoFile => 2 .. Size \subseteq final[s]

(* A process that was signalled, or whose parent went away, plays no more  *)
(* than it has decoded already, and one frame if it was signalled.  The    *)
(* exception is a process whose parent died while it fetched: its parent   *)
(* is then init, which never goes away.  What an external player has in    *)
(* its own pipe is not counted: it plays that to the end.                  *)
SilentSoon ==
  Alive /\ child.parent = "main" =>
    late <= IF child.killed /\ main # "crashed" THEN 1 ELSE Frames

(* A process that was signalled ends, in whatever state the signal came    *)
(* upon it; without a stream-timeout a stalled stream may keep it.         *)
KillEnds == Alive /\ child.killed ~> \/ ~Alive
                                     \/ (child.stalled /\ child.player # "timed")

-----------------------------------------------------------------------------
(* What the proofs need beyond the properties above.                       *)

(* What a place in the process says of the rest of its state.              *)
HasAll == child.next = Size + 1 \/ "rest" \in child.flaw
StepInv ==
  /\ ~Alive => pipe = <<>> /\ late = 0
  /\ main = "up" /\ Alive => playpipe
  /\ child.pc \in {"none", "fetch", "copy", "wait"} => ~child.dump
  /\ child.pc = "output" => child.frames > 0
  /\ child.pc = "end" /\ child.dump /\ ~child.killed => HasAll
  /\ child.pc = "post" => child.dump /\ HasAll
  /\ "head" \in child.flaw => child.next >= 2

(* The temporary file of a living process holds what it has read so far.   *)
First == IF "head" \in child.flaw THEN 2 ELSE 1
DumpInv ==
  Alive /\ child.dump =>
    /\ tmp[child.song] \subseteq First .. (child.next - 1)
    /\ "rest" \notin child.flaw => tmp[child.song] = First .. (child.next - 1)

(* How long a process may go on from where it is.                          *)
LateInv ==
  /\ Alive /\ ~Silenced => late = 0
  /\ Alive /\ main = "exited" => child.killed
  /\ Alive /\ child.killed /\ main # "crashed" /\ child.pc \in Copying => late = 0
  /\ child.parent = "main" /\ child.pc = "output" => late + child.frames <= Frames
  /\ child.pc = "fetch" => late = 0
  /\ child.parent = "main" /\ child.pc = "copy" => late = 0

(* All of it together.                                                     *)
PlaybackInv ==
  VolumeFollows /\ StepInv /\ DumpInv /\ DownloadsHonest /\ LateInv /\ SilentSoon
=============================================================================
