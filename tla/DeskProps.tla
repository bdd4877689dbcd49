----------------------------- MODULE DeskProps ------------------------------
(***************************************************************************)
(* What the user finds in the files of the history and the bookmarks.      *)
(***************************************************************************)
EXTENDS Desk

(* Every variable holds a value of its type.                               *)
TypeOK ==
  /\ at \in {"loop", "history", "marks", "down"}
  /\ station \in Stations \cup {NoStation}
  /\ histfile \in Seq(Stations)
  /\ markfile \in Seq(ToSet(Marks) \X Stations)
  /\ at = "history" => pending \in Seq(Stations)
  /\ at = "marks" => pending \in Seq(ToSet(Marks) \X Stations)
  /\ tuned \in Seq(Stations)
  /\ marked \in [ToSet(Marks) -> Stations \cup {NoStation}]
  /\ crashed \in BOOLEAN

(* The last time a station was tuned to.                                   *)
Latest(url) == CHOOSE i \in 1 .. Len(tuned) :
                 tuned[i] = url /\ \A j \in i + 1 .. Len(tuned) : tuned[j] # url

(* Lines as histapp() writes them: the stations that were tuned to, each   *)
(* once, in the order in which they were tuned to last.                    *)
ByLatest(lines) == \A i, j \in 1 .. Len(lines) : i < j => Latest(lines[i]) < Latest(lines[j])

(* Lines as setmark() writes them: a key has one, with what was set last.  *)
OnePerKey(lines) == \A i, j \in 1 .. Len(lines) : i # j => lines[i][1] # lines[j][1]
SetLast(lines) == \A i \in 1 .. Len(lines) : lines[i][2] = marked[lines[i][1]]

(* The history has each station once, in the order in which they were      *)
(* tuned to last (histapp()), and each bookmark is the one set last for its*)
(* key (setmark()): a crash can lose lines, but brings back none, and until*)
(* then none is lost.                                                      *)
FilesHonest ==
  /\ TypeOK
  /\ ByLatest(histfile)
  /\ OnePerKey(markfile) /\ SetLast(markfile)
  /\ ~crashed /\ at # "history" => ToSet(histfile) = ToSet(tuned)
  /\ ~crashed /\ at # "marks" => \A k \in ToSet(Marks) : MarkOf(k) = marked[k]

(* What the files rest on: the lines that are about to be written are as   *)
(* good as those in the file, and a station in the history was tuned to.   *)
HistoryInv ==
  /\ ByLatest(histfile) /\ ToSet(histfile) \subseteq ToSet(tuned)
  /\ at = "history" =>
       ByLatest(pending) /\ ToSet(pending) \subseteq ToSet(tuned)
  /\ ~crashed =>
       ToSet(tuned) = IF at = "history" THEN ToSet(pending) ELSE ToSet(histfile)

MarksInv ==
  /\ OnePerKey(markfile) /\ SetLast(markfile)
  /\ at = "marks" => OnePerKey(pending) /\ SetLast(pending)
  /\ ~crashed =>
       \A k \in ToSet(Marks) :
         marked[k] = IF at = "marks" THEN MarkIn(pending, k) ELSE MarkOf(k)

DeskInv == TypeOK /\ HistoryInv /\ MarksInv
=============================================================================
