-------------------------- MODULE PlaybackProofs ---------------------------
(***************************************************************************)
(* Proofs about module Playback.  Each action preserves PlaybackInv, which *)
(* is the three safety properties of PlaybackProps and what they rest on.  *)
(***************************************************************************)
EXTENDS PlaybackProps, TLAPS

(* The record that stands for no process is one of the processes.          *)
LEMMA NoChildIsChild == NoChild \in Children
  <1>1. (CHOOSE s \in Songs : TRUE) \in Songs
    BY SizesAssumption
  <1> QED BY <1>1, SizesAssumption DEF NoChild, Children, Copying, Players, Volumes

(* Neither is the record of one that has ended.                            *)
LEMMA GoneIsChild ==
  /\ Gone \in Children
  /\ Gone.pc = "zombie" /\ ~Gone.killed /\ ~Gone.dump /\ Gone.flaw = {}
  /\ Gone.parent = "main"
  <1>1. NoChild.flaw = {} /\ ~NoChild.killed /\ ~NoChild.dump /\ NoChild.parent = "main"
    BY DEF NoChild
  <1> HIDE DEF NoChild
  <1> QED BY <1>1, NoChildIsChild DEF Gone, Children

(* A file that is not there is one of the contents of a file.              *)
LEMMA NoFileIsPart == NoFile \in Parts
  BY DEF Parts

(* What is appended to a file where it ends leaves no gap.                 *)
LEMMA Intervals ==
  ASSUME NEW a \in Int, NEW b \in Int, NEW c \in Int, a <= b, b <= c + 1
  PROVE  (a .. (b - 1)) \cup (b .. c) = a .. c
  OBVIOUS

(* set_volume() of any number leaves a volume and a pipe of volumes.       *)
LEMMA SetVolumeSets ==
  ASSUME TypeOK, NEW v \in -1 .. MaxVolume + 1, SetVolume(v)
  PROVE  /\ volume' \in Volumes
         /\ main' \in {main, "crashed"}
         /\ pipe' = IF playpipe /\ Alive THEN Append(pipe, volume') ELSE pipe
         /\ pipe' \in Seq(Volumes)
  <1>1. volume' \in Volumes
    BY SizesAssumption DEF SetVolume, Clip, Volumes
  <1>2. pipe' = IF playpipe /\ Alive THEN Append(pipe, volume') ELSE pipe
    BY DEF SetVolume
  <1>3. pipe' \in Seq(Volumes)
    BY <1>1, <1>2 DEF TypeOK, MainType, FilesType
  <1> QED BY <1>1, <1>2, <1>3 DEF SetVolume

(* The volume that was written last is the last one in the pipe.           *)
LEMMA LastOfPipe ==
  ASSUME NEW S, NEW q \in Seq(S), NEW x \in S
  PROVE  Append(q, x) # <<>> /\ Append(q, x)[Len(Append(q, x))] = x
  OBVIOUS

(* A process that has ended leaves nothing to say of its pipe and state.   *)
LEMMA Dead ==
  ASSUME Dies
  PROVE  /\ child' \in Children /\ pipe' = <<>> /\ pipe' \in Seq(Volumes) /\ late' = 0
         /\ ~Alive' /\ ~child'.dump
         /\ StepInv' /\ DumpInv' /\ LateInv' /\ SilentSoon'
  <1>1. child' = Gone /\ pipe' = <<>> /\ late' = 0
    BY DEF Dies
  <1>2. ~Alive' /\ child'.pc = "zombie"
    BY <1>1, GoneIsChild DEF Alive
  <1> HIDE DEF Gone
  <1>3. pipe' \in Seq(Volumes)
    BY <1>1
  <1> QED BY <1>1, <1>2, <1>3, GoneIsChild
      DEF StepInv, DumpInv, LateInv, SilentSoon, Copying, Alive

(* So a step that ends a process only has to care for the files.           *)
LEMMA DeadKeeps ==
  ASSUME PlaybackInv, Dies, MainType', FilesType',
         \A s \in Songs : tmp'[s] # NoFile => s \in left',
         \A s \in Songs : final'[s] # NoFile =>
           /\ Whole \ final'[s] # {} => flaws'[s] # {}
           /\ "rest" \notin flaws'[s] => 2 .. Size \subseteq final'[s]
  PROVE  PlaybackInv'
  <1>1. TypeOK'
    BY Dead DEF TypeOK
  <1>2. VolumeFollows'
    BY <1>1, Dead DEF VolumeFollows
  <1>3. DownloadsHonest'
    BY DEF DownloadsHonest
  <1> QED BY <1>2, <1>3, Dead DEF PlaybackInv

(* What the invariant says of files that nobody writes to.                 *)
LEMMA FilesLie ==
  ASSUME PlaybackInv, UNCHANGED files
  PROVE  /\ FilesType'
         /\ ~(Alive /\ child.dump) => \A s \in Songs : tmp'[s] # NoFile => s \in left'
         /\ \A s \in Songs : final'[s] # NoFile =>
              /\ Whole \ final'[s] # {} => flaws'[s] # {}
              /\ "rest" \notin flaws'[s] => 2 .. Size \subseteq final'[s]
  BY DEF PlaybackInv, VolumeFollows, TypeOK, FilesType, files, DownloadsHonest

(* A step of the process leaves main's variables as they are ...           *)
LEMMA MainKept ==
  ASSUME PlaybackInv, Keep
  PROVE  /\ MainType'
         /\ UNCHANGED <<main, volume, playpipe>>
  BY DEF PlaybackInv, VolumeFollows, TypeOK, MainType, Keep, volumes

(* ... and a main that goes leaves what it was started with.               *)
LEMMA MainLeaves ==
  ASSUME PlaybackInv, NEW how \in {"exited", "crashed"}, Leaves(how)
  PROVE  main' = how /\ MainType'
  <1>1. MaxVolume \in Volumes
    BY SizesAssumption DEF Volumes
  <1>2. sigpipe' \in BOOLEAN /\ playpipe' \in BOOLEAN /\ muted' \in BOOLEAN
    BY DEF Leaves
  <1>3. started' \in 0 .. MaxTracks /\ volume' \in Volumes /\ saved' \in Volumes /\ main' = how
    BY <1>1 DEF Leaves, PlaybackInv, VolumeFollows, TypeOK, MainType
  <1> QED BY <1>2, <1>3 DEF MainType

(* SIGUSR1 ends a process that fetches and is noted by any other.          *)
LEMMA SignalKeeps ==
  ASSUME PlaybackInv, Signalled, UNCHANGED files, MainType',
         main = "up", main' \in {main, "exited"},
         main' = "up" => UNCHANGED <<volume, playpipe>>
  PROVE  PlaybackInv'
  <1>1. CASE child.pc = "fetch"
    <2>1. Dies /\ ~child.dump
      BY <1>1 DEF Signalled, PlaybackInv, StepInv
    <2> QED BY <2>1, FilesLie, DeadKeeps
  <1>2. CASE child.pc # "fetch" /\ ~Alive
    <2>1. UNCHANGED <<child, pipe, late>>
      BY <1>2 DEF Signalled
    <2>2. ~Alive' /\ TypeOK'
      BY <1>2, <2>1, FilesLie DEF Alive, TypeOK, PlaybackInv, VolumeFollows
    <2>3. child.pc \in {"none", "zombie"}
      BY <1>2 DEF Alive
    <2> QED BY <1>2, <2>1, <2>2, <2>3, FilesLie
        DEF PlaybackInv, VolumeFollows, StepInv, DumpInv, DownloadsHonest, LateInv,
            SilentSoon, HasAll, Copying
  <1>3. CASE child.pc # "fetch" /\ Alive
    <2> DEFINE place == IF child.pc = "select" THEN "end" ELSE child.pc
    <2>1. UNCHANGED <<pipe, late>> /\ child' = [child EXCEPT !.pc = place, !.killed = TRUE]
      BY <1>3 DEF Signalled
    <2>2. child \in Children
      BY DEF PlaybackInv, VolumeFollows, TypeOK
    <2>3. place \in {"end", "decode", "output", "copy", "wait", "post"}
             /\ (place # "end" => place = child.pc)
      BY <1>3, <2>2 DEF Alive, Children, Copying
    <2>4. child' \in Children /\ child'.pc = place /\ child'.killed
      <3> HIDE DEF place
      <3> QED BY <2>1, <2>2, <2>3 DEF Children, Copying
    <2>5. /\ UNCHANGED <<child.volume, child.song, child.dump, child.flaw, child.next>>
          /\ UNCHANGED <<child.parent, child.frames>>
      BY <2>1, <2>2 DEF Children
    <2>6. TypeOK'
      BY <2>1, <2>4, FilesLie DEF TypeOK, PlaybackInv, VolumeFollows
    <2>7. Alive'
      BY <2>3, <2>4 DEF Alive
    <2>8. place \in {"copy", "wait"} => child.pc = place
      BY <2>3
    <2> HIDE DEF place
    <2>9. VolumeFollows'
      BY <1>3, <2>1, <2>5, <2>6 DEF VolumeFollows, PlaybackInv
    <2>10. StepInv'
      BY <1>3, <2>3, <2>4, <2>5, <2>7 DEF StepInv, PlaybackInv, HasAll
    <2>11. DumpInv' /\ DownloadsHonest'
      BY <1>3, <2>5, <2>7, FilesLie DEF DumpInv, DownloadsHonest, First, PlaybackInv, files
    <2>12. LateInv' /\ SilentSoon'
      <3>1. late \in Nat /\ Frames \in Nat /\ 1 <= Frames
        BY SizesAssumption DEF PlaybackInv, VolumeFollows, TypeOK
      <3>2. main' = "up" => main = "up"
        OBVIOUS
      <3>3. main' # "crashed" => main = "up" \/ main = "exited"
        BY DEF PlaybackInv, VolumeFollows, TypeOK, MainType
      <3>4. main' # "crashed" /\ place \in Copying => late = 0
        <4>1. CASE ~Silenced
          BY <1>3, <4>1 DEF PlaybackInv, LateInv
        <4>2. CASE Silenced /\ main' # "crashed" /\ place \in Copying
          BY <1>3, <2>3, <4>2, <3>3 DEF PlaybackInv, LateInv, Silenced, Copying
        <4> QED BY <4>1, <4>2
      <3>5. LateInv'
        BY <1>3, <2>1, <2>3, <2>4, <2>5, <3>4 DEF LateInv, PlaybackInv, Silenced
      <3>6. child.parent = "main" => late <= IF main' # "crashed" THEN 1 ELSE Frames
        BY <1>3, <3>1, <3>3 DEF PlaybackInv, SilentSoon, LateInv, Silenced
      <3> QED BY <2>1, <2>4, <2>5, <3>5, <3>6 DEF SilentSoon
    <2> QED BY <2>9, <2>10, <2>11, <2>12 DEF PlaybackInv
  <1> QED BY <1>1, <1>2, <1>3

(* The steps of main, and those of signals that end it.                    *)
LEMMA PlayKeeps == ASSUME PlaybackInv, NEW song \in Songs, NEW player \in Players, Play(song, player) PROVE PlaybackInv'
  <1>1. TypeOK'
    <2>1. child' \in Children
      BY NoChildIsChild DEF Play, PlaybackInv, VolumeFollows, TypeOK, MainType, FilesType, Children, Copying
    <2>2. playpipe' \in BOOLEAN
      BY DEF Play
    <2>3. started' \in 0 .. MaxTracks
      BY SizesAssumption DEF Play, PlaybackInv, VolumeFollows, TypeOK, MainType, FilesType
    <2> QED BY <2>1, <2>2, <2>3 DEF Play, PlaybackInv, VolumeFollows, TypeOK, MainType, FilesType, volumes, files
  <1>2. VolumeFollows'
    BY <1>1, SizesAssumption DEF PlaybackInv, VolumeFollows, TypeOK, MainType, FilesType, Children, Alive, Volumes, StepInv, volumes, files, Play, NoChild
  <1>3. StepInv'
    BY SizesAssumption DEF PlaybackInv, VolumeFollows, TypeOK, MainType, FilesType, Children, Copying, Alive, StepInv, HasAll, volumes, files, Play, NoChild
  <1>4. DumpInv'
    BY SizesAssumption DEF PlaybackInv, VolumeFollows, TypeOK, MainType, FilesType, Children, Copying, Alive, StepInv, DumpInv, First, NoFile, Whole, volumes, files, Play, NoChild
  <1>5. DownloadsHonest'
    BY SizesAssumption DEF PlaybackInv, VolumeFollows, TypeOK, MainType, FilesType, Children, Copying, Alive, StepInv, HasAll, DumpInv, First, DownloadsHonest, NoFile, Whole, volumes, files, Play, NoChild
  <1>6. LateInv' /\ SilentSoon'
    BY SizesAssumption DEF PlaybackInv, VolumeFollows, TypeOK, MainType, FilesType, Children, Copying, Alive, Silenced, StepInv, LateInv, SilentSoon, volumes, files, Play, NoChild
  <1> QED BY <1>2, <1>3, <1>4, <1>5, <1>6 DEF PlaybackInv

LEMMA ReapKeeps == ASSUME PlaybackInv, Reap PROVE PlaybackInv'
  <1>1. TypeOK'
    BY SizesAssumption, NoChildIsChild DEF PlaybackInv, VolumeFollows, TypeOK, MainType, FilesType, Children, Copying, Volumes, Players, StepInv, volumes, files, Reap, NoChild
  <1>2. VolumeFollows'
    BY <1>1, SizesAssumption DEF PlaybackInv, VolumeFollows, TypeOK, MainType, FilesType, Children, Alive, Volumes, StepInv, volumes, files, Reap, NoChild
  <1>3. StepInv'
    BY SizesAssumption DEF PlaybackInv, VolumeFollows, TypeOK, MainType, FilesType, Children, Copying, Alive, StepInv, HasAll, volumes, files, Reap, NoChild
  <1>4. DumpInv'
    BY SizesAssumption DEF PlaybackInv, VolumeFollows, TypeOK, MainType, FilesType, Children, Copying, Alive, StepInv, DumpInv, First, NoFile, Whole, volumes, files, Reap, NoChild
  <1>5. DownloadsHonest'
    BY SizesAssumption DEF PlaybackInv, VolumeFollows, TypeOK, MainType, FilesType, Children, Copying, Alive, StepInv, HasAll, DumpInv, First, DownloadsHonest, NoFile, Whole, volumes, files, Reap, NoChild
  <1>6. LateInv' /\ SilentSoon'
    BY SizesAssumption DEF PlaybackInv, VolumeFollows, TypeOK, MainType, FilesType, Children, Copying, Alive, Silenced, StepInv, LateInv, SilentSoon, volumes, files, Reap, NoChild
  <1> QED BY <1>2, <1>3, <1>4, <1>5, <1>6 DEF PlaybackInv

LEMMA SkipKeeps == ASSUME PlaybackInv, Skip PROVE PlaybackInv'
  <1>1. MainType' /\ main' = main /\ UNCHANGED <<volume, playpipe>>
    BY DEF Skip, PlaybackInv, VolumeFollows, TypeOK, MainType, volumes
  <1> QED BY <1>1, SignalKeeps DEF Skip

LEMMA ChangeVolumeKeeps == ASSUME PlaybackInv, ChangeVolume PROVE PlaybackInv'
  <1>0. PICK v \in -1 .. MaxVolume + 1 : SetVolume(v)
    BY DEF ChangeVolume
  <1>1. TypeOK'
    BY <1>0, SetVolumeSets DEF PlaybackInv, VolumeFollows, TypeOK, MainType, FilesType, files, ChangeVolume
  <1>2. VolumeFollows'
    <2>1. ASSUME main' = "up", Alive' PROVE playpipe /\ Alive
      BY <2>1 DEF ChangeVolume, PlaybackInv, StepInv, Alive
    <2>2. ASSUME main' = "up", Alive'
          PROVE  pipe' # <<>> /\ pipe'[Len(pipe')] = volume'
      BY <1>0, <2>1, <2>2, SetVolumeSets, LastOfPipe DEF PlaybackInv, VolumeFollows, TypeOK, MainType, FilesType
    <2> QED BY <1>1, <2>2 DEF VolumeFollows
  <1>3. StepInv'
    BY SizesAssumption DEF PlaybackInv, VolumeFollows, TypeOK, MainType, FilesType, Children, Copying, Alive, StepInv, HasAll, volumes, files, ChangeVolume, SetVolume, Clip
  <1>4. DumpInv'
    BY SizesAssumption DEF PlaybackInv, VolumeFollows, TypeOK, MainType, FilesType, Children, Copying, Alive, StepInv, DumpInv, First, NoFile, Whole, volumes, files, ChangeVolume, SetVolume, Clip
  <1>5. DownloadsHonest'
    BY SizesAssumption DEF PlaybackInv, VolumeFollows, TypeOK, MainType, FilesType, Children, Copying, Alive, StepInv, HasAll, DumpInv, First, DownloadsHonest, NoFile, Whole, volumes, files, ChangeVolume, SetVolume, Clip
  <1>6. LateInv' /\ SilentSoon'
    BY SizesAssumption DEF PlaybackInv, VolumeFollows, TypeOK, MainType, FilesType, Children, Copying, Alive, Silenced, StepInv, LateInv, SilentSoon, volumes, files, ChangeVolume, SetVolume, Clip
  <1> QED BY <1>2, <1>3, <1>4, <1>5, <1>6 DEF PlaybackInv

LEMMA MuteKeeps == ASSUME PlaybackInv, Mute PROVE PlaybackInv'
  <1>0. PICK v \in -1 .. MaxVolume + 1 : SetVolume(v)
    <2>1. 0 \in -1 .. MaxVolume + 1 /\ saved \in -1 .. MaxVolume + 1
      BY SizesAssumption DEF PlaybackInv, VolumeFollows, TypeOK, MainType, Volumes
    <2> QED BY <2>1 DEF Mute
  <1>1. TypeOK'
    <2>1. muted' \in BOOLEAN
      BY DEF Mute
    <2>2. saved' \in Volumes
      BY SizesAssumption DEF Mute, PlaybackInv, VolumeFollows, TypeOK, MainType, Volumes
    <2> QED BY <1>0, <2>1, <2>2, SetVolumeSets DEF PlaybackInv, VolumeFollows, TypeOK, MainType, FilesType, files, Mute
  <1>2. VolumeFollows'
    <2>1. ASSUME main' = "up", Alive' PROVE playpipe /\ Alive
      BY <2>1 DEF Mute, PlaybackInv, StepInv, Alive
    <2>2. ASSUME main' = "up", Alive'
          PROVE  pipe' # <<>> /\ pipe'[Len(pipe')] = volume'
      BY <1>0, <2>1, <2>2, SetVolumeSets, LastOfPipe DEF PlaybackInv, VolumeFollows, TypeOK, MainType, FilesType
    <2> QED BY <1>1, <2>2 DEF VolumeFollows
  <1>3. StepInv'
    BY SizesAssumption DEF PlaybackInv, VolumeFollows, TypeOK, MainType, FilesType, Children, Copying, Alive, StepInv, HasAll, volumes, files, Mute, SetVolume, Clip
  <1>4. DumpInv'
    BY SizesAssumption DEF PlaybackInv, VolumeFollows, TypeOK, MainType, FilesType, Children, Copying, Alive, StepInv, DumpInv, First, NoFile, Whole, volumes, files, Mute, SetVolume, Clip
  <1>5. DownloadsHonest'
    BY SizesAssumption DEF PlaybackInv, VolumeFollows, TypeOK, MainType, FilesType, Children, Copying, Alive, StepInv, HasAll, DumpInv, First, DownloadsHonest, NoFile, Whole, volumes, files, Mute, SetVolume, Clip
  <1>6. LateInv' /\ SilentSoon'
    BY SizesAssumption DEF PlaybackInv, VolumeFollows, TypeOK, MainType, FilesType, Children, Copying, Alive, Silenced, StepInv, LateInv, SilentSoon, volumes, files, Mute, SetVolume, Clip
  <1> QED BY <1>2, <1>3, <1>4, <1>5, <1>6 DEF PlaybackInv

LEMMA ClientComesKeeps == ASSUME PlaybackInv, ClientComes PROVE PlaybackInv'
  <1>1. TypeOK'
    BY DEF PlaybackInv, VolumeFollows, TypeOK, MainType, FilesType, volumes, files, ClientComes
  <1>2. VolumeFollows'
    BY <1>1, SizesAssumption DEF PlaybackInv, VolumeFollows, TypeOK, MainType, FilesType, Children, Alive, Volumes, StepInv, volumes, files, ClientComes
  <1>3. StepInv'
    BY SizesAssumption DEF PlaybackInv, VolumeFollows, TypeOK, MainType, FilesType, Children, Copying, Alive, StepInv, HasAll, volumes, files, ClientComes
  <1>4. DumpInv'
    BY SizesAssumption DEF PlaybackInv, VolumeFollows, TypeOK, MainType, FilesType, Children, Copying, Alive, StepInv, DumpInv, First, NoFile, Whole, volumes, files, ClientComes
  <1>5. DownloadsHonest'
    BY SizesAssumption DEF PlaybackInv, VolumeFollows, TypeOK, MainType, FilesType, Children, Copying, Alive, StepInv, HasAll, DumpInv, First, DownloadsHonest, NoFile, Whole, volumes, files, ClientComes
  <1>6. LateInv' /\ SilentSoon'
    BY SizesAssumption DEF PlaybackInv, VolumeFollows, TypeOK, MainType, FilesType, Children, Copying, Alive, Silenced, StepInv, LateInv, SilentSoon, volumes, files, ClientComes
  <1> QED BY <1>2, <1>3, <1>4, <1>5, <1>6 DEF PlaybackInv

LEMMA QuitKeeps == ASSUME PlaybackInv, Quit PROVE PlaybackInv'
  <1>1. main' = "exited" /\ MainType' /\ main = "up"
    BY MainLeaves DEF Quit, Leaves
  <1> QED BY <1>1, SignalKeeps DEF Quit

LEMMA CrashKeeps == ASSUME PlaybackInv, Crash PROVE PlaybackInv'
  <1>1. main' = "crashed" /\ MainType' /\ main = "up"
    BY MainLeaves DEF Crash, Leaves
  <1>2. UNCHANGED <<pipe, child, files, late>>
    BY DEF Crash
  <1>3. TypeOK'
    BY <1>1, <1>2, FilesLie DEF TypeOK, PlaybackInv, VolumeFollows
  <1>4. VolumeFollows' /\ StepInv' /\ DumpInv' /\ DownloadsHonest'
    BY <1>1, <1>2, <1>3
    DEF PlaybackInv, VolumeFollows, StepInv, DumpInv, DownloadsHonest, HasAll, First, Alive, files
  <1>5. LateInv' /\ SilentSoon'
    <2>1. late \in Nat /\ Frames \in Nat /\ 1 <= Frames
      BY SizesAssumption DEF PlaybackInv, VolumeFollows, TypeOK
    <2> QED BY <1>1, <1>2, <2>1 DEF PlaybackInv, LateInv, SilentSoon, Silenced, Alive
  <1> QED BY <1>4, <1>5 DEF PlaybackInv

LEMMA InterruptKeeps == ASSUME PlaybackInv, Interrupt PROVE PlaybackInv'
  <1>1. main' = "exited" /\ MainType'
    BY MainLeaves DEF Interrupt
  <1>2. /\ UNCHANGED <<tmp, final, flaws>>
        /\ left' = IF child.dump /\ Alive THEN left \cup {child.song} ELSE left
    BY DEF Interrupt
  <1>3. child.song \in Songs
    BY DEF PlaybackInv, VolumeFollows, TypeOK, Children
  <1>4. FilesType'
    BY <1>2, <1>3 DEF PlaybackInv, VolumeFollows, TypeOK, FilesType
  <1>5. CASE Alive
    <2>1. Dies
      BY <1>5 DEF Interrupt
    <2>2. \A s \in Songs : tmp'[s] # NoFile => s \in left'
      BY <1>2 DEF PlaybackInv, DownloadsHonest
    <2>3. \A s \in Songs : final'[s] # NoFile =>
            /\ Whole \ final'[s] # {} => flaws'[s] # {}
            /\ "rest" \notin flaws'[s] => 2 .. Size \subseteq final'[s]
      BY <1>2 DEF PlaybackInv, DownloadsHonest
    <2> QED BY <1>1, <1>4, <2>1, <2>2, <2>3, DeadKeeps
  <1>6. CASE ~Alive
    <2>1. UNCHANGED <<child, pipe, late>> /\ UNCHANGED files
      BY <1>2, <1>6 DEF Interrupt, files
    <2>2. ~Alive' /\ TypeOK'
      BY <1>1, <1>4, <1>6, <2>1 DEF Alive, TypeOK, PlaybackInv, VolumeFollows
    <2>3. child.pc \in {"none", "zombie"}
      BY <1>6 DEF Alive
    <2> QED BY <1>6, <2>1, <2>2, <2>3, FilesLie
        DEF PlaybackInv, VolumeFollows, StepInv, DumpInv, DownloadsHonest, LateInv,
            SilentSoon, HasAll, Copying
  <1> QED BY <1>5, <1>6

(* The steps of the playback process.                                      *)
LEMMA FetchFailsKeeps == ASSUME PlaybackInv, FetchFails PROVE PlaybackInv'
  <1>1. Dies /\ Keep /\ UNCHANGED files /\ ~child.dump
    BY DEF FetchFails, PlaybackInv, StepInv
  <1> QED BY <1>1, MainKept, FilesLie, DeadKeeps

LEMMA PlayedOutKeeps == ASSUME PlaybackInv, PlayedOut PROVE PlaybackInv'
  <1>1. Dies /\ Keep /\ UNCHANGED files /\ ~child.dump
    BY DEF PlayedOut, PlaybackInv, StepInv
  <1> QED BY <1>1, MainKept, FilesLie, DeadKeeps

LEMMA BeginKeeps == ASSUME PlaybackInv, Begin PROVE PlaybackInv'
  <1> DEFINE mad == child.player # "extern"
  <1>0. PICK head \in {0, 1}, dumps \in BOOLEAN :
       /\ dumps => mad /\ tmp[child.song] = NoFile
       /\ tmp' = IF dumps THEN [tmp EXCEPT ![child.song] = {}] ELSE tmp
       /\ child' = [child EXCEPT
            !.pc = IF mad THEN "decode" ELSE "copy",
            !.parent = IF main = "up" THEN "main" ELSE "init",
            !.next = 1 + head, !.flaw = IF head = 1 THEN {"head"} ELSE {},
            !.dump = dumps]
    BY DEF Begin
  <1>1. TypeOK'
    <2>1. dumps \in BOOLEAN /\ 1 + head \in 1 .. Size + 1
      BY <1>0, SizesAssumption
    <2>2. child' \in Children
      <3> DEFINE place == IF mad THEN "decode" ELSE "copy"
                 of == IF main = "up" THEN "main" ELSE "init"
                 lacks == IF head = 1 THEN {"head"} ELSE {}
      <3>1. place \in Copying /\ of \in {"main", "init"} /\ lacks \in SUBSET Flaws
        BY DEF Copying, Flaws
      <3>2. child' = [child EXCEPT !.pc = place, !.parent = of, !.next = 1 + head,
                                   !.flaw = lacks, !.dump = dumps]
        BY <1>0
      <3> HIDE DEF place, of, lacks
      <3> QED BY <2>1, <3>1, <3>2 DEF PlaybackInv, VolumeFollows, TypeOK, MainType, FilesType, Children
    <2>3. tmp' \in [Songs -> Parts]
      <3>1. {} \in Parts
        BY DEF Parts
      <3> QED BY <3>1 DEF Begin, PlaybackInv, VolumeFollows, TypeOK, MainType, FilesType
    <2> QED BY <2>2, <2>3 DEF Begin, Keep, PlaybackInv, VolumeFollows, TypeOK, MainType, FilesType, volumes
  <1>2. VolumeFollows'
    <2>1. child'.volume = child.volume
      BY <1>0 DEF PlaybackInv, VolumeFollows, TypeOK, MainType, FilesType, Children
    <2> QED BY <1>1, <2>1 DEF PlaybackInv, VolumeFollows, Alive, Begin, Keep, volumes
  <1>3. StepInv'
    BY SizesAssumption DEF PlaybackInv, VolumeFollows, TypeOK, MainType, FilesType, Children, Copying, Alive, StepInv, HasAll, volumes, files, Begin, Keep
  <1>4. DumpInv'
    BY SizesAssumption DEF PlaybackInv, VolumeFollows, TypeOK, MainType, FilesType, Children, Copying, Alive, StepInv, DumpInv, First, NoFile, Whole, volumes, files, Begin, Keep
  <1>5. DownloadsHonest'
    <2>1. child.song \in Songs /\ child'.song = child.song /\ ~child.dump
      BY DEF Begin, PlaybackInv, VolumeFollows, TypeOK, MainType, FilesType, StepInv, Children
    <2>2. dumps => child'.dump /\ Alive'
      BY <1>0 DEF Begin, Alive, PlaybackInv, VolumeFollows, TypeOK, MainType, FilesType, Children
    <2>3. UNCHANGED <<final, flaws, left>>
      BY DEF Begin
    <2>4. \A s \in Songs : tmp'[s] # NoFile => tmp[s] # NoFile \/ (dumps /\ s = child.song)
      BY <1>0, <2>1 DEF PlaybackInv, VolumeFollows, TypeOK, MainType, FilesType
    <2> QED BY <2>1, <2>2, <2>3, <2>4 DEF PlaybackInv, DownloadsHonest
  <1>6. LateInv' /\ SilentSoon'
    BY SizesAssumption DEF PlaybackInv, VolumeFollows, TypeOK, MainType, FilesType, Children, Copying, Alive, Silenced, StepInv, LateInv, SilentSoon, volumes, files, Begin, Keep
  <1> QED BY <1>2, <1>3, <1>4, <1>5, <1>6 DEF PlaybackInv

LEMMA StallKeeps == ASSUME PlaybackInv, Stall PROVE PlaybackInv'
  <1>1. TypeOK'
    BY SizesAssumption, NoChildIsChild DEF PlaybackInv, VolumeFollows, TypeOK, MainType, FilesType, Children, Copying, Volumes, Players, StepInv, volumes, files, Stall, Keep
  <1>2. VolumeFollows'
    BY <1>1, SizesAssumption DEF PlaybackInv, VolumeFollows, TypeOK, MainType, FilesType, Children, Alive, Volumes, StepInv, volumes, files, Stall, Keep
  <1>3. StepInv'
    BY SizesAssumption DEF PlaybackInv, VolumeFollows, TypeOK, MainType, FilesType, Children, Copying, Alive, StepInv, HasAll, volumes, files, Stall, Keep
  <1>4. DumpInv'
    BY SizesAssumption DEF PlaybackInv, VolumeFollows, TypeOK, MainType, FilesType, Children, Copying, Alive, StepInv, DumpInv, First, NoFile, Whole, volumes, files, Stall, Keep
  <1>5. DownloadsHonest'
    BY SizesAssumption DEF PlaybackInv, VolumeFollows, TypeOK, MainType, FilesType, Children, Copying, Alive, StepInv, HasAll, DumpInv, First, DownloadsHonest, NoFile, Whole, volumes, files, Stall, Keep
  <1>6. LateInv' /\ SilentSoon'
    BY SizesAssumption DEF PlaybackInv, VolumeFollows, TypeOK, MainType, FilesType, Children, Copying, Alive, Silenced, StepInv, LateInv, SilentSoon, volumes, files, Stall, Keep
  <1> QED BY <1>2, <1>3, <1>4, <1>5, <1>6 DEF PlaybackInv

LEMMA DecodeKeeps == ASSUME PlaybackInv, Decode PROVE PlaybackInv'
  <1>1. TypeOK'
    BY SizesAssumption, NoChildIsChild DEF PlaybackInv, VolumeFollows, TypeOK, MainType, FilesType, Children, Copying, Volumes, Players, StepInv, volumes, files, Decode, Moves, Keep
  <1>2. VolumeFollows'
    BY <1>1, SizesAssumption DEF PlaybackInv, VolumeFollows, TypeOK, MainType, FilesType, Children, Alive, Volumes, StepInv, volumes, files, Decode, Moves, Keep
  <1>3. StepInv'
    BY SizesAssumption DEF PlaybackInv, VolumeFollows, TypeOK, MainType, FilesType, Children, Copying, Alive, StepInv, HasAll, volumes, files, Decode, Moves, Keep
  <1>4. DumpInv'
    BY SizesAssumption DEF PlaybackInv, VolumeFollows, TypeOK, MainType, FilesType, Children, Copying, Alive, StepInv, DumpInv, First, NoFile, Whole, volumes, files, Decode, Moves, Keep
  <1>5. DownloadsHonest'
    BY SizesAssumption DEF PlaybackInv, VolumeFollows, TypeOK, MainType, FilesType, Children, Copying, Alive, StepInv, HasAll, DumpInv, First, DownloadsHonest, NoFile, Whole, volumes, files, Decode, Moves, Keep
  <1>6. LateInv' /\ SilentSoon'
    BY SizesAssumption DEF PlaybackInv, VolumeFollows, TypeOK, MainType, FilesType, Children, Copying, Alive, Silenced, StepInv, LateInv, SilentSoon, volumes, files, Decode, Moves, Keep
  <1> QED BY <1>2, <1>3, <1>4, <1>5, <1>6 DEF PlaybackInv

LEMMA ReadKeeps == ASSUME PlaybackInv, Read PROVE PlaybackInv'
  <1> DEFINE Gets(n, written) ==
          /\ child' = [child EXCEPT
               !.next = @ + n, !.frames = IF child.killed \/ ParentGone THEN 0 ELSE Frames,
               !.killed = @ \/ ParentGone,
               !.pc = IF child.killed \/ ParentGone THEN "end" ELSE "output",
               !.flaw = IF written < n THEN @ \cup {"rest"} ELSE @]
          /\ tmp' = IF child.dump
                    THEN [tmp EXCEPT ![child.song] =
                            @ \cup (child.next .. child.next + written - 1)]
                    ELSE tmp
  <1>00. PICK n \in 1 .. Size - child.next + 1 :
           \E written \in IF child.dump /\ "disk" \in Faults THEN 0 .. n ELSE {n} :
             Gets(n, written)
    BY DEF Read
  <1>0. PICK written \in IF child.dump /\ "disk" \in Faults THEN 0 .. n ELSE {n} :
          Gets(n, written)
    BY <1>00
  <1>a. child \in Children /\ child.next \in 1 .. Size /\ Size \in Nat /\ child.song \in Songs
          /\ child.pc = "select" /\ Alive /\ Frames \in Nat /\ Frames > 0 /\ late \in Nat
    BY SizesAssumption DEF Read, More, Alive, PlaybackInv, VolumeFollows, TypeOK, Children
  <1>b. MainType' /\ UNCHANGED <<main, volume, playpipe, pipe, final, flaws, left, late>>
    BY MainKept DEF Read
  <1>c. written \in 0 .. n /\ child.next + n \in 1 .. Size + 1
    BY <1>0, <1>a
  <1> DEFINE gone == child.killed \/ ParentGone
             place == IF gone THEN "end" ELSE "output"
             decoded == IF gone THEN 0 ELSE Frames
             lacks == IF written < n THEN child.flaw \cup {"rest"} ELSE child.flaw
  <1>d. /\ gone \in BOOLEAN /\ place \in {"end", "output"} /\ decoded \in 0 .. Frames
        /\ (gone <=> place = "end") /\ (place = "output" => decoded = Frames)
        /\ (child.killed => gone)
    BY <1>a DEF Children, ParentGone
  <1>q. /\ lacks \in SUBSET Flaws
        /\ ("rest" \notin lacks => written = n)
        /\ ("head" \in lacks <=> "head" \in child.flaw)
    BY <1>a, <1>c DEF Children, Flaws
  <1>e. child' = [child EXCEPT !.next = child.next + n, !.frames = decoded, !.killed = gone,
                               !.pc = place, !.flaw = lacks]
    BY <1>0, <1>a
  <1>p. gone = (child.killed \/ (main # "up" /\ child.parent = "main"))
    BY DEF ParentGone
  <1> HIDE DEF gone, place, decoded, lacks
  <1>f. /\ child' \in Children /\ child'.next = child.next + n /\ child'.killed = gone
        /\ child'.pc = place /\ child'.flaw = lacks /\ child'.frames = decoded
        /\ UNCHANGED <<child.song, child.dump, child.parent, child.volume>>
    BY <1>a, <1>c, <1>d, <1>q, <1>e DEF Children, Copying
  <1>g. Alive' /\ child'.pc \notin {"none", "fetch", "copy", "wait", "post", "decode", "select"}
    BY <1>d, <1>q, <1>f DEF Alive
  <1> DEFINE new == child.next .. child.next + written - 1
  <1>h. tmp \in [Songs -> Parts] /\ tmp' = IF child.dump
          THEN [tmp EXCEPT ![child.song] = tmp[child.song] \cup new] ELSE tmp
    BY <1>0 DEF PlaybackInv, VolumeFollows, TypeOK, FilesType
  <1>i. /\ First \in {1, 2} /\ First <= child.next /\ First' = First
    BY <1>a, <1>d, <1>q, <1>f DEF First, PlaybackInv, StepInv
  <1>j. /\ child.dump => tmp[child.song] \subseteq First .. (child.next - 1)
        /\ child.dump /\ "rest" \notin child.flaw =>
             tmp[child.song] = First .. (child.next - 1)
    BY <1>a DEF PlaybackInv, DumpInv
  <1>k. /\ new \subseteq First .. (child.next + n - 1)
        /\ First .. (child.next - 1) \subseteq First .. (child.next + n - 1)
        /\ First .. (child.next + n - 1) \subseteq Whole
    BY <1>a, <1>c, <1>i DEF Whole
  <1>l. written = n => (First .. (child.next - 1)) \cup new = First .. (child.next + n - 1)
    BY <1>a, <1>c, <1>i, Intervals
  <1>m. "rest" \notin lacks => "rest" \notin child.flaw
    BY DEF lacks
  <1> HIDE DEF new
  <1>1. TypeOK'
    <2>1. child.dump => tmp[child.song] \cup new \in Parts
      BY <1>j, <1>k DEF Parts
    <2>2. tmp' \in [Songs -> Parts]
      BY <1>a, <1>h, <2>1
    <2>3. FilesType'
      BY <1>b, <2>2 DEF PlaybackInv, VolumeFollows, TypeOK, FilesType
    <2> QED BY <1>b, <1>f, <2>3 DEF PlaybackInv, VolumeFollows, TypeOK
  <1>2. VolumeFollows'
    BY <1>1, <1>a, <1>b, <1>f DEF PlaybackInv, VolumeFollows
  <1>3. StepInv'
    <2>1. "head" \in child'.flaw => child'.next >= 2
      BY <1>a, <1>c, <1>d, <1>q, <1>f DEF PlaybackInv, StepInv
    <2>2. child'.pc = "output" => child'.frames > 0
      BY <1>a, <1>d, <1>q, <1>f
    <2>3. child'.pc = "end" => child'.killed
      BY <1>d, <1>q, <1>f
    <2>4. main = "up" => playpipe
      BY <1>a DEF PlaybackInv, StepInv
    <2> QED BY <1>b, <1>g, <2>1, <2>2, <2>3, <2>4 DEF StepInv
  <1>4. DumpInv'
    <2>1. child.dump => tmp'[child.song] = tmp[child.song] \cup new
      BY <1>a, <1>h
    <2>2. child'.next - 1 = child.next + n - 1
      BY <1>a, <1>c, <1>f
    <2>3. child.dump => tmp[child.song] \cup new \subseteq First .. (child.next + n - 1)
      BY <1>j, <1>k
    <2>4. child.dump /\ "rest" \notin lacks =>
            tmp[child.song] \cup new = First .. (child.next + n - 1)
      BY <1>d, <1>q, <1>j, <1>l, <1>m
    <2> QED BY <1>f, <1>i, <2>1, <2>2, <2>3, <2>4 DEF DumpInv
  <1>5. DownloadsHonest'
    <2>1. \A s \in Songs : tmp'[s] # NoFile => tmp[s] # NoFile \/ (child.dump /\ s = child.song)
      BY <1>a, <1>h
    <2> QED BY <1>b, <1>f, <1>g, <2>1 DEF PlaybackInv, DownloadsHonest
  <1>6. LateInv' /\ SilentSoon'
    <2>1. child.parent = "main" /\ place = "output" => main = "up" /\ ~child.killed
      BY <1>d, <1>q, <1>p
    <2>2. child.parent = "main" /\ place = "output" => late = 0
      BY <1>a, <2>1 DEF PlaybackInv, LateInv, Silenced
    <2>3. gone /\ main # "crashed" => late = 0
      BY <1>a, <1>p DEF PlaybackInv, LateInv, Silenced, Copying, MainType, TypeOK, VolumeFollows
    <2>4. child.parent = "main" => late <= Frames
      BY <1>a DEF PlaybackInv, SilentSoon
    <2>5. ~gone /\ main = "up" => late = 0
      BY <1>a, <1>p DEF PlaybackInv, LateInv, Silenced
    <2>6. main = "exited" => gone
      BY <1>a, <1>p DEF PlaybackInv, LateInv
    <2>7. LateInv'
      BY <1>a, <1>b, <1>d, <1>q, <1>f, <1>g, <2>2, <2>3, <2>5, <2>6 DEF LateInv, Silenced, Copying
    <2>8. SilentSoon'
      BY <1>a, <1>b, <1>f, <2>3, <2>4 DEF SilentSoon
    <2> QED BY <2>7, <2>8
  <1> QED BY <1>2, <1>3, <1>4, <1>5, <1>6 DEF PlaybackInv

LEMMA StreamEndsKeeps == ASSUME PlaybackInv, StreamEnds PROVE PlaybackInv'
  <1>1. TypeOK'
    <2>1. child \in Children
      BY DEF PlaybackInv, VolumeFollows, TypeOK
    <2> DEFINE place == IF child.pc = "copy" THEN "wait" ELSE "end"
               lacks == IF child.next > Size THEN child.flaw ELSE child.flaw \cup {"rest"}
    <2>2. place \in {"wait", "end"} /\ lacks \in SUBSET Flaws
      BY <2>1 DEF Children, Flaws
    <2>3. child' = [child EXCEPT !.pc = place, !.flaw = lacks]
      BY DEF StreamEnds, Ended
    <2>4. child' \in Children
      <3> HIDE DEF place, lacks
      <3> QED BY <2>1, <2>2, <2>3 DEF Children
    <2> QED BY <2>4, MainKept, FilesLie DEF StreamEnds, TypeOK, PlaybackInv, VolumeFollows
  <1>2. VolumeFollows'
    BY <1>1, SizesAssumption DEF PlaybackInv, VolumeFollows, TypeOK, MainType, FilesType, Children, Alive, Volumes, StepInv, volumes, files, StreamEnds, Ends, Ended, Keep
  <1>3. StepInv'
    BY SizesAssumption DEF PlaybackInv, VolumeFollows, TypeOK, MainType, FilesType, Children, Copying, Alive, StepInv, HasAll, volumes, files, StreamEnds, Ends, Ended, Keep
  <1>4. DumpInv'
    BY SizesAssumption DEF PlaybackInv, VolumeFollows, TypeOK, MainType, FilesType, Children, Copying, Alive, StepInv, DumpInv, First, NoFile, Whole, volumes, files, StreamEnds, Ends, Ended, Keep
  <1>5. DownloadsHonest'
    BY SizesAssumption DEF PlaybackInv, VolumeFollows, TypeOK, MainType, FilesType, Children, Copying, Alive, StepInv, HasAll, DumpInv, First, DownloadsHonest, NoFile, Whole, volumes, files, StreamEnds, Ends, Ended, Keep
  <1>6. LateInv' /\ SilentSoon'
    BY SizesAssumption DEF PlaybackInv, VolumeFollows, TypeOK, MainType, FilesType, Children, Copying, Alive, Silenced, StepInv, LateInv, SilentSoon, volumes, files, StreamEnds, Ends, Ended, Keep
  <1> QED BY <1>2, <1>3, <1>4, <1>5, <1>6 DEF PlaybackInv

LEMMA CutKeeps == ASSUME PlaybackInv, Cut PROVE PlaybackInv'
  <1>1. TypeOK'
    <2>1. child \in Children
      BY DEF PlaybackInv, VolumeFollows, TypeOK
    <2> DEFINE place == IF child.pc = "copy" THEN "wait" ELSE "end"
               lacks == IF child.next > Size THEN child.flaw ELSE child.flaw \cup {"rest"}
    <2>2. place \in {"wait", "end"} /\ lacks \in SUBSET Flaws
      BY <2>1 DEF Children, Flaws
    <2>3. child' = [child EXCEPT !.pc = place, !.flaw = lacks]
      BY DEF Cut, Ended
    <2>4. child' \in Children
      <3> HIDE DEF place, lacks
      <3> QED BY <2>1, <2>2, <2>3 DEF Children
    <2> QED BY <2>4, MainKept, FilesLie DEF Cut, TypeOK, PlaybackInv, VolumeFollows
  <1>2. VolumeFollows'
    BY <1>1, SizesAssumption DEF PlaybackInv, VolumeFollows, TypeOK, MainType, FilesType, Children, Alive, Volumes, StepInv, volumes, files, Cut, Ended, Keep
  <1>3. StepInv'
    BY SizesAssumption DEF PlaybackInv, VolumeFollows, TypeOK, MainType, FilesType, Children, Copying, Alive, StepInv, HasAll, volumes, files, Cut, Ended, Keep
  <1>4. DumpInv'
    BY SizesAssumption DEF PlaybackInv, VolumeFollows, TypeOK, MainType, FilesType, Children, Copying, Alive, StepInv, DumpInv, First, NoFile, Whole, volumes, files, Cut, Ended, Keep
  <1>5. DownloadsHonest'
    BY SizesAssumption DEF PlaybackInv, VolumeFollows, TypeOK, MainType, FilesType, Children, Copying, Alive, StepInv, HasAll, DumpInv, First, DownloadsHonest, NoFile, Whole, volumes, files, Cut, Ended, Keep
  <1>6. LateInv' /\ SilentSoon'
    BY SizesAssumption DEF PlaybackInv, VolumeFollows, TypeOK, MainType, FilesType, Children, Copying, Alive, Silenced, StepInv, LateInv, SilentSoon, volumes, files, Cut, Ended, Keep
  <1> QED BY <1>2, <1>3, <1>4, <1>5, <1>6 DEF PlaybackInv

LEMMA OutputKeeps == ASSUME PlaybackInv, Output PROVE PlaybackInv'
  <1>0. child \in Children /\ child.pc = "output" /\ child.frames \in 1 .. Frames
          /\ Frames \in Nat /\ late \in Nat
    BY SizesAssumption DEF Output, PlaybackInv, VolumeFollows, TypeOK, StepInv, Children
  <1>1. MainType' /\ UNCHANGED <<main, volume, playpipe>> /\ FilesType' /\ UNCHANGED files
    BY MainKept, FilesLie DEF Output
  <1> DEFINE Plays ==
               /\ child' = [child EXCEPT !.volume = Drained(child),
                    !.frames = IF child.killed THEN 0 ELSE @ - 1,
                    !.pc = IF child.killed THEN "end"
                           ELSE IF child.frames = 1 THEN "decode" ELSE @]
               /\ pipe' = <<>>
               /\ late' = IF Silenced THEN late + 1 ELSE late
             Fails ==
               /\ child' = [child EXCEPT !.pc = "end", !.frames = 0,
                                         !.flaw = @ \cup {"rest"}]
               /\ UNCHANGED <<pipe, late>>
  <1>2. Plays \/ Fails
    BY DEF Output
  <1>3. /\ child' \in Children /\ pipe' \in Seq(Volumes) /\ late' \in Nat
        /\ UNCHANGED <<child.song, child.dump, child.next, child.killed, child.parent>>
        /\ child'.pc \in {"end", "decode", "output"}
        /\ child'.pc = "end" => child.killed \/ "rest" \in child'.flaw
        /\ child.flaw \subseteq child'.flaw /\ child'.flaw \subseteq child.flaw \cup {"rest"}
    <2>1. CASE Plays
      <3> DEFINE place == IF child.killed THEN "end"
                          ELSE IF child.frames = 1 THEN "decode" ELSE "output"
                 rest == IF child.killed THEN 0 ELSE child.frames - 1
      <3>1. Drained(child) \in Volumes
        BY DEF Drained, PlaybackInv, VolumeFollows, TypeOK, Children
      <3>2. place \in {"end", "decode", "output"} /\ (place = "end" => child.killed)
              /\ rest \in 0 .. Frames
        BY <1>0
      <3>3. child' = [child EXCEPT !.volume = Drained(child), !.frames = rest, !.pc = place]
        BY <1>0, <2>1
      <3> HIDE DEF place, rest
      <3>4. /\ child' \in Children /\ child'.pc = place /\ child'.flaw = child.flaw
            /\ UNCHANGED <<child.song, child.dump, child.next, child.killed, child.parent>>
        BY <1>0, <3>1, <3>2, <3>3 DEF Children, Copying
      <3>5. pipe' \in Seq(Volumes)
        BY <2>1
      <3> QED BY <1>0, <2>1, <3>2, <3>4, <3>5
    <2>2. CASE Fails
      <3>1. child.flaw \cup {"rest"} \in SUBSET Flaws /\ 0 \in 0 .. Frames
        BY <1>0 DEF Children, Flaws
      <3>2. pipe \in Seq(Volumes)
        BY DEF PlaybackInv, VolumeFollows, TypeOK
      <3>3. /\ child' \in Children /\ child'.pc = "end"
            /\ child'.flaw = child.flaw \cup {"rest"}
            /\ UNCHANGED <<child.song, child.dump, child.next, child.killed, child.parent>>
        BY <1>0, <2>2, <3>1 DEF Children
      <3> QED BY <1>0, <2>2, <3>2, <3>3
    <2> QED BY <1>2, <2>1, <2>2
  <1>4. Alive /\ Alive' /\ child.pc # "fetch"
    BY <1>0, <1>3 DEF Alive
  <1>5. TypeOK'
    BY <1>1, <1>3 DEF TypeOK
  <1>6. VolumeFollows'
    <2>1. main = "up" => volume = IF pipe = <<>> THEN child.volume ELSE pipe[Len(pipe)]
      BY <1>4 DEF PlaybackInv, VolumeFollows
    <2>2. CASE Plays
      <3>1. child'.volume = Drained(child)
        BY <1>0, <2>2 DEF Children
      <3> QED BY <1>1, <1>5, <2>1, <2>2, <3>1 DEF VolumeFollows, Drained
    <2>3. CASE Fails
      <3>1. child'.volume = child.volume
        BY <1>0, <2>3 DEF Children
      <3> QED BY <1>1, <1>5, <2>1, <2>3, <3>1 DEF VolumeFollows
    <2> QED BY <1>2, <2>2, <2>3
  <1>7. child'.pc = "output" => Plays /\ child'.frames = child.frames - 1 /\ child'.frames > 0
    <2> SUFFICES ASSUME child'.pc = "output"
                 PROVE  Plays /\ child'.frames = child.frames - 1 /\ child'.frames > 0
      OBVIOUS
    <2>1. ~Fails
      BY <1>0 DEF Children
    <2>2. /\ child'.frames = IF child.killed THEN 0 ELSE child.frames - 1
          /\ child'.pc = IF child.killed THEN "end"
                         ELSE IF child.frames = 1 THEN "decode" ELSE "output"
      BY <1>0, <1>2, <2>1 DEF Children
    <2>3. ~child.killed /\ child.frames # 1
      BY <2>2
    <2> QED BY <1>0, <1>2, <2>1, <2>2, <2>3
  <1> HIDE DEF Plays, Fails
  <1>8. StepInv'
    BY <1>0, <1>1, <1>3, <1>4, <1>7 DEF StepInv, PlaybackInv, HasAll
  <1>9. DumpInv' /\ DownloadsHonest'
    <2>1. "head" \in child'.flaw <=> "head" \in child.flaw
      BY <1>3
    <2> QED BY <1>1, <1>3, <1>4, <2>1 DEF DumpInv, First, DownloadsHonest, PlaybackInv, files
  <1>10. late' \in {late, late + 1} /\ (~Silenced => late' = late)
           /\ (child'.pc # "end" => ~child.killed)
    BY <1>0, <1>2 DEF Plays, Fails, Children
  <1>11. LateInv'
    <2>1. child.parent = "main" => late + child.frames <= Frames
      BY <1>0 DEF PlaybackInv, LateInv
    <2>2. child'.parent = "main" /\ child'.pc = "output" => late' + child'.frames <= Frames
      BY <1>0, <1>3, <1>7, <1>10, <2>1
    <2> QED BY <1>1, <1>3, <1>4, <1>10, <2>2 DEF LateInv, PlaybackInv, Silenced, Copying
  <1>12. SilentSoon'
    <2>1. child.parent = "main" => late' <= Frames
      BY <1>0, <1>10 DEF PlaybackInv, LateInv
    <2>2. child.killed /\ main # "crashed" => late' <= 1
      BY <1>0, <1>4, <1>10 DEF PlaybackInv, LateInv, Copying
    <2> QED BY <1>1, <1>3, <2>1, <2>2 DEF SilentSoon
  <1> QED BY <1>6, <1>8, <1>9, <1>11, <1>12 DEF PlaybackInv

LEMMA CopyKeeps == ASSUME PlaybackInv, Copy PROVE PlaybackInv'
  <1>0. /\ child \in Children /\ child.pc = "copy" /\ ~child.dump
        /\ child' = [child EXCEPT !.next = child'.next, !.pc = child'.pc]
        /\ child'.next \in {child.next, child.next + 1}
        /\ child'.next \in 1 .. Size + 1
        /\ child'.pc \in {"wait", "copy"}
        /\ child'.pc = "copy" => ~child.killed /\ ~ParentGone
    <2>1. child \in Children /\ child.pc = "copy" /\ ~child.dump
      BY DEF Copy, PlaybackInv, VolumeFollows, TypeOK, MainType, FilesType, StepInv
    <2>2. CASE child.next > Size /\ Ended
      <3>1. child' = [child EXCEPT !.pc = "wait"]
        BY <2>1, <2>2 DEF Ended, Children
      <3> QED BY <2>1, <2>2, <3>1, SizesAssumption DEF Children
    <2>3. CASE /\ More
               /\ child' = [child EXCEPT !.next = @ + 1,
                    !.pc = IF child.killed \/ ParentGone THEN "wait" ELSE @]
      BY <2>1, <2>3, SizesAssumption DEF Children, More
    <2> QED BY <2>1, <2>2, <2>3 DEF Copy
  <1>b. /\ child'.dump = child.dump /\ child'.flaw = child.flaw
        /\ child'.killed = child.killed /\ child'.parent = child.parent
    BY <1>0 DEF Children
  <1>a. late' \in Nat /\ late' = IF Silenced THEN late + 1 ELSE late
    BY DEF Copy, PlaybackInv, VolumeFollows, TypeOK, MainType, FilesType
  <1>1. TypeOK'
    <2>1. child' \in Children
      BY <1>0 DEF Children
    <2> QED BY <1>a, <2>1 DEF Copy, Keep, PlaybackInv, VolumeFollows, TypeOK, MainType, FilesType, volumes, files
  <1>2. VolumeFollows'
    <2>1. child'.volume = child.volume /\ Alive
      BY <1>0 DEF Children, Alive
    <2> QED BY <1>1, <2>1, MainKept DEF PlaybackInv, VolumeFollows, Copy
  <1>3. StepInv'
    <2>1. child'.next >= child.next /\ playpipe' = playpipe
      BY <1>0 DEF Copy, Keep, Children
    <2>2. main' = "up" => playpipe
      BY <1>0 DEF PlaybackInv, StepInv, Alive, Copy, Keep
    <2>3. "head" \in child.flaw => child.next >= 2
      BY DEF PlaybackInv, StepInv
    <2>4. "head" \in child'.flaw => child'.next >= 2
      <3>1. child.next \in Int /\ child'.next \in Int
        BY <1>0, SizesAssumption DEF Children
      <3>2. child.next >= 2 => child'.next >= 2
        BY <2>1, <3>1
      <3>3. child'.flaw = child.flaw
        BY <1>b
      <3> QED BY <2>3, <3>2, <3>3
    <2> QED BY <1>0, <1>b, <2>1, <2>2, <2>4 DEF StepInv, Alive
  <1>4. DumpInv'
    BY <1>0, <1>b DEF DumpInv
  <1>5. DownloadsHonest'
    BY SizesAssumption DEF PlaybackInv, VolumeFollows, TypeOK, MainType, FilesType, Children, Copying, Alive, StepInv, HasAll, DumpInv, First, DownloadsHonest, NoFile, Whole, volumes, files, Copy, More, ParentGone, Keep
  <1>6. LateInv' /\ SilentSoon'
    <2>1. child'.parent = child.parent /\ child'.killed = child.killed /\ main' = main
      BY <1>b DEF Copy, Keep
    <2>2. child.parent = "main" => late = 0
      BY <1>0 DEF PlaybackInv, LateInv
    <2>3. ~Silenced => late' = 0
      BY <1>0, <1>a DEF PlaybackInv, LateInv, Alive
    <2>4. LateInv'
      BY <1>0, <1>a, <2>1, <2>2, <2>3, SizesAssumption
      DEF PlaybackInv, LateInv, Silenced, ParentGone, Alive, Copying
    <2>5. SilentSoon'
      <3>1. child.parent = "main" => late' <= 1
        BY <1>a, <2>2
      <3>2. 1 <= Frames /\ Frames \in Nat
        BY SizesAssumption
      <3> QED BY <1>a, <2>1, <3>1, <3>2 DEF SilentSoon
    <2> QED BY <2>4, <2>5
  <1> QED BY <1>2, <1>3, <1>4, <1>5, <1>6 DEF PlaybackInv

LEMMA FinishKeeps == ASSUME PlaybackInv, Finish PROVE PlaybackInv'
  <1>0. child \in Children /\ child.song \in Songs /\ Alive /\ child.pc = "end"
    BY DEF Finish, Alive, PlaybackInv, VolumeFollows, TypeOK, Children
  <1>1. CASE child.dump /\ ~child.killed
    <2>1. /\ child' = [child EXCEPT !.pc = "post"] /\ UNCHANGED <<pipe, late>>
          /\ UNCHANGED files
      BY <1>1 DEF Finish, Moves, files
    <2>2. /\ child' \in Children /\ child'.pc = "post" /\ Alive'
          /\ UNCHANGED <<child.volume, child.song, child.dump, child.flaw, child.next>>
          /\ UNCHANGED <<child.parent, child.killed>>
      BY <1>0, <2>1 DEF Children, Alive
    <2>3. MainType' /\ UNCHANGED <<main, volume, playpipe>>
      BY MainKept DEF Finish
    <2>4. TypeOK'
      BY <2>1, <2>2, <2>3, FilesLie DEF TypeOK, PlaybackInv, VolumeFollows
    <2>5. VolumeFollows' /\ StepInv' /\ DumpInv' /\ DownloadsHonest'
      BY <1>0, <1>1, <2>1, <2>2, <2>3, <2>4
      DEF PlaybackInv, VolumeFollows, StepInv, DumpInv, DownloadsHonest, HasAll, First, files
    <2>6. LateInv' /\ SilentSoon'
      BY <1>0, <1>1, <2>1, <2>2, <2>3 DEF PlaybackInv, LateInv, SilentSoon, Silenced, Copying
    <2> QED BY <2>5, <2>6 DEF PlaybackInv
  <1>2. CASE ~(child.dump /\ ~child.killed)
    <2>1. Dies /\ MainType' /\ UNCHANGED <<final, flaws>>
      BY <1>2, MainKept DEF Finish, LeftBehind
    <2>2. \/ /\ tmp' = IF child.dump THEN [tmp EXCEPT ![child.song] = NoFile] ELSE tmp
             /\ left' = left
          \/ tmp' = tmp /\ left' = left \cup {child.song}
      BY <1>2 DEF Finish, LeftBehind
    <2>3. FilesType'
      BY <1>0, <2>1, <2>2, NoFileIsPart DEF PlaybackInv, VolumeFollows, TypeOK, FilesType
    <2>4. tmp \in [Songs -> Parts]
      BY DEF PlaybackInv, VolumeFollows, TypeOK, FilesType
    <2>5. \A s \in Songs : tmp[s] # NoFile => s \in left \/ (child.dump /\ s = child.song)
      BY DEF PlaybackInv, DownloadsHonest
    <2>6. \A s \in Songs : tmp'[s] # NoFile => s \in left'
      BY <1>0, <2>2, <2>4, <2>5
    <2>7. \A s \in Songs : final'[s] # NoFile =>
            /\ Whole \ final'[s] # {} => flaws'[s] # {}
            /\ "rest" \notin flaws'[s] => 2 .. Size \subseteq final'[s]
      BY <2>1 DEF PlaybackInv, DownloadsHonest
    <2> QED BY <2>1, <2>3, <2>6, <2>7, DeadKeeps
  <1> QED BY <1>1, <1>2

LEMMA RenameKeeps == ASSUME PlaybackInv, Rename PROVE PlaybackInv'
  <1>0. child \in Children /\ child.song \in Songs /\ child.dump /\ HasAll /\ Alive
    BY DEF Rename, Alive, PlaybackInv, VolumeFollows, TypeOK, Children, StepInv
  <1>1. Dies /\ MainType'
    BY MainKept DEF Rename
  <1>2. tmp \in [Songs -> Parts] /\ final \in [Songs -> Parts] /\ left \subseteq Songs
          /\ flaws \in [Songs -> SUBSET Flaws] /\ child.flaw \in SUBSET Flaws
    BY <1>0 DEF PlaybackInv, VolumeFollows, TypeOK, FilesType, Children
  <1>3. \A s \in Songs : tmp[s] # NoFile => s \in left \/ s = child.song
    BY DEF PlaybackInv, DownloadsHonest
  <1>4. \A s \in Songs : final[s] # NoFile =>
          /\ Whole \ final[s] # {} => flaws[s] # {}
          /\ "rest" \notin flaws[s] => 2 .. Size \subseteq final[s]
    BY DEF PlaybackInv, DownloadsHonest
  <1>5. CASE LeftBehind
    <2>1. UNCHANGED <<tmp, final, flaws>> /\ left' = left \cup {child.song}
      BY <1>5 DEF LeftBehind
    <2>2. FilesType' /\ \A s \in Songs : tmp'[s] # NoFile => s \in left'
      BY <1>0, <1>2, <1>3, <2>1 DEF FilesType
    <2> QED BY <1>1, <1>4, <2>1, <2>2, DeadKeeps
  <1>6. CASE /\ tmp' = [tmp EXCEPT ![child.song] = NoFile]
             /\ final' = [final EXCEPT ![child.song] = tmp[child.song]]
             /\ flaws' = [flaws EXCEPT ![child.song] = child.flaw]
             /\ UNCHANGED left
    <2>1. FilesType'
      BY <1>0, <1>2, <1>6, NoFileIsPart DEF FilesType
    <2>2. \A s \in Songs : tmp'[s] # NoFile => s \in left'
      BY <1>0, <1>2, <1>3, <1>6
    <2>3. "rest" \notin child.flaw =>
            tmp[child.song] = First .. (child.next - 1) /\ child.next = Size + 1
      BY <1>0 DEF PlaybackInv, DumpInv, HasAll
    <2>4. "rest" \notin child.flaw => tmp[child.song] = First .. Size
      BY <2>3, SizesAssumption
    <2>5. /\ Whole \ tmp[child.song] # {} => child.flaw # {}
          /\ "rest" \notin child.flaw => 2 .. Size \subseteq tmp[child.song]
      BY <2>4, SizesAssumption DEF Whole, First
    <2>6. \A s \in Songs : final'[s] # NoFile =>
            /\ Whole \ final'[s] # {} => flaws'[s] # {}
            /\ "rest" \notin flaws'[s] => 2 .. Size \subseteq final'[s]
      BY <1>0, <1>2, <1>4, <1>6, <2>5
    <2> QED BY <1>1, <2>1, <2>2, <2>6, DeadKeeps
  <1> QED BY <1>5, <1>6 DEF Rename

(* Nothing plays at first.                                                 *)
LEMMA InitPlayback == Init => PlaybackInv
  <1> SUFFICES ASSUME Init PROVE PlaybackInv
    OBVIOUS
  <1>1. TypeOK
    <2>1. sigpipe \in BOOLEAN /\ muted \in BOOLEAN /\ playpipe \in BOOLEAN
      BY DEF Init
    <2>2. pipe \in Seq(Volumes)
      BY DEF Init
    <2>3. MaxVolume \in Volumes /\ 0 \in 0 .. MaxTracks
      BY SizesAssumption DEF Volumes
    <2>4. /\ [s \in Songs |-> NoFile] \in [Songs -> Parts]
          /\ [s \in Songs |-> {}] \in [Songs -> SUBSET Flaws]
      BY NoFileIsPart
    <2> QED BY <2>1, <2>2, <2>3, <2>4, NoChildIsChild DEF Init, TypeOK, MainType, FilesType
  <1>2. child.pc = "none" /\ ~child.dump /\ child.flaw = {} /\ ~child.killed
    BY DEF Init, NoChild
  <1>3. \A s \in Songs : tmp[s] = NoFile /\ final[s] = NoFile
    BY DEF Init
  <1> QED BY <1>1, <1>2, <1>3 DEF Init, PlaybackInv, VolumeFollows, StepInv, DumpInv,
          DownloadsHonest, LateInv, SilentSoon, Alive

(* One step of anything.                                                   *)
LEMMA NextPlayback == PlaybackInv /\ [Next]_vars => PlaybackInv'
  <1> SUFFICES ASSUME PlaybackInv, [Next]_vars PROVE PlaybackInv'
    OBVIOUS
  <1>1. CASE Main
    BY <1>1, PlayKeeps, ReapKeeps, SkipKeeps, ChangeVolumeKeeps, MuteKeeps,
       ClientComesKeeps, QuitKeeps, CrashKeeps, InterruptKeeps DEF Main
  <1>2. CASE Process
    BY <1>2, FetchFailsKeeps, BeginKeeps, DecodeKeeps, ReadKeeps, StreamEndsKeeps,
       OutputKeeps, CopyKeeps, PlayedOutKeeps, FinishKeeps, RenameKeeps DEF Process
  <1>3. CASE UNCHANGED vars
    BY <1>3 DEF vars, volumes, files, PlaybackInv, VolumeFollows, TypeOK, MainType, FilesType, StepInv,
       HasAll, DumpInv, First, DownloadsHonest, LateInv, SilentSoon, Alive, Silenced
  <1> QED BY <1>1, <1>2, <1>3, StallKeeps, CutKeeps DEF Next, Over

(* However main and the playback process interleave, and whatever fails,   *)
(* all parts of the invariant hold.                                        *)
THEOREM PlaybackInvariant == Spec => []PlaybackInv
  <1> QED BY InitPlayback, NextPlayback, PTL DEF Spec

(* The process plays, or is about to play, at the volume that set_volume() *)
(* noted last; a volume of main is always within its bounds.               *)
THEOREM VolumeIsFollowed == Spec => []VolumeFollows
  <1>1. PlaybackInv => VolumeFollows
    BY DEF PlaybackInv
  <1> QED BY <1>1, PlaybackInvariant, PTL

(* Only a track that was read to its end, or to where the stream broke or  *)
(* the device failed, is given its final name; temporary files are left by *)
(* ^C and by the file system alone.                                        *)
THEOREM DownloadsAreHonest == Spec => []DownloadsHonest
  <1>1. PlaybackInv => DownloadsHonest
    BY DEF PlaybackInv
  <1> QED BY <1>1, PlaybackInvariant, PTL

(* After SIGUSR1, or the end of main, at most what was decoded is played.  *)
THEOREM SilenceComesSoon == Spec => []SilentSoon
  <1>1. PlaybackInv => SilentSoon
    BY DEF PlaybackInv
  <1> QED BY <1>1, PlaybackInvariant, PTL
=============================================================================
