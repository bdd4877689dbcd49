-------------------------------- MODULE Desk --------------------------------
(***************************************************************************)
(* The history of stations (history.c) and the bookmarks (bookmark.c) of   *)
(* shell-fm: files that are read, emptied, and written anew each time a    *)
(* line is added, by a program that can be killed in between.              *)
(*                                                                         *)
(* A station is its URL without its prefix, as service.c keeps it.         *)
(***************************************************************************)
EXTENDS Integers, Sequences, FiniteSets, SequencesExt

CONSTANTS
  Stations,     \* URLs the server knows
  NoStation,    \* NULL
  Marks,        \* keys of bookmarks, in the order of their codes
  MaxStations   \* bound: stations tuned to

ASSUME DeskAssumption == MaxStations \in Nat /\ NoStation \notin Stations
ASSUME MarksAssumption == Marks \in Seq(ToSet(Marks)) /\ IsInjective(Marks)

VARIABLES
  at,           \* "loop", "history" or "marks" (the file is empty and about
                \* to be written), or "down"
  station,      \* current_station
  histfile,     \* the lines of the file radio-history
  markfile,     \* the lines of the file bookmarks, each a key and a URL
  pending,      \* the lines that are about to be written
  tuned,        \* history: the stations, in the order they were tuned to
  marked,       \* history: the bookmark set last for each key
  crashed       \* history: the program was killed while it wrote a file

vars == <<at, station, histfile, markfile, pending, tuned, marked, crashed>>

Init ==
  /\ at = "down"
  /\ station = NoStation
  /\ histfile = <<>>
  /\ markfile = <<>>
  /\ pending = <<>>
  /\ tuned = <<>>
  /\ marked = [k \in ToSet(Marks) |-> NoStation]
  /\ crashed = FALSE

-----------------------------------------------------------------------------
(* The lines of a file at the places in kept, in their order.              *)
Place(kept, n) == CHOOSE i \in kept : Cardinality({j \in kept : j <= i}) = n
Kept(lines, kept) == [n \in 1 .. Cardinality(kept) |-> lines[Place(kept, n)]]

(* station() succeeds and calls histapp(), which reads the history, empties*)
(* the file and puts the station at its end.                               *)
Histapp(url) == Append(Kept(histfile, {i \in DOMAIN histfile : histfile[i] # url}), url)
Tune(url) ==
  /\ Len(tuned) < MaxStations
  /\ url # station
  /\ at' = "history"
  /\ pending' = Histapp(url)
  /\ histfile' = <<>>
  /\ station' = url
  /\ tuned' = Append(tuned, url)
  /\ UNCHANGED <<markfile, marked, crashed>>

(* The program starts, with "default-radio = last" or without; with it, and*)
(* without a history, the first line is read through NULL.                 *)
Start ==
  /\ at = "down"
  /\ \/ histfile # <<>> /\ Tune(histfile[Len(histfile)])
     \/ at' = "loop" /\ UNCHANGED <<station, histfile, markfile, pending, tuned, marked, crashed>>

(* A station is asked for at the prompt or by a client.                    *)
Radio(url) == at = "loop" /\ Tune(url)

(* The key H and the key of a bookmark: setmark().  The first line of a    *)
(* key counts, and the lines are written in the order of their keys.  The  *)
(* key H works while something plays, which is left open here.  Lines_ is  *)
(* Lines with a plausible slip, and no part of the model.                  *)
MarkIn(file, k) ==
  LET lines == {i \in DOMAIN file : file[i][1] = k}
  IN IF lines = {} THEN NoStation
     ELSE file[CHOOSE i \in lines : \A j \in lines : i <= j][2]
MarkOf(k) == MarkIn(markfile, k)
Lines_(k, url) == Append(markfile, <<k, url>>)
Lines(k, url) ==
  LET bookmarks == [m \in ToSet(Marks) |-> IF m = k THEN url ELSE MarkOf(m)]
      set == Kept(Marks, {i \in DOMAIN Marks : bookmarks[Marks[i]] # NoStation})
  IN [i \in 1 .. Len(set) |-> <<set[i], bookmarks[set[i]]>>]
Setmark(k) ==
  /\ at = "loop"
  /\ station # NoStation
  /\ at' = "marks"
  /\ pending' = Lines(k, station)
  /\ markfile' = <<>>
  /\ marked' = [marked EXCEPT ![k] = station]
  /\ UNCHANGED <<station, histfile, tuned, crashed>>

(* The key g and the key of a bookmark: getmark().                         *)
Getmark(k) ==
  /\ at = "loop"
  /\ MarkOf(k) # NoStation
  /\ Tune(MarkOf(k))

(* The lines reach the file when it is closed.                             *)
Write ==
  /\ at \in {"history", "marks"}
  /\ at' = "loop"
  /\ IF at = "history" THEN histfile' = pending /\ UNCHANGED markfile
                       ELSE markfile' = pending /\ UNCHANGED histfile
  /\ pending' = <<>>
  /\ UNCHANGED <<station, tuned, marked, crashed>>

(* The program is killed with none or some of the lines in the file.       *)
Crash ==
  /\ at \in {"history", "marks"}
  /\ at' = "down"
  /\ \E n \in 0 .. Len(pending) :
       LET front == SubSeq(pending, 1, n)
       IN IF at = "history" THEN histfile' = front /\ UNCHANGED markfile
                            ELSE markfile' = front /\ UNCHANGED histfile
  /\ pending' = <<>>
  /\ station' = NoStation
  /\ crashed' = TRUE
  /\ UNCHANGED <<tuned, marked>>

Quit ==
  /\ at = "loop"
  /\ at' = "down"
  /\ station' = NoStation
  /\ UNCHANGED <<histfile, markfile, pending, tuned, marked, crashed>>

Next ==
  \/ Start \/ Write \/ Crash \/ Quit
  \/ \E url \in Stations : Radio(url)
  \/ \E k \in ToSet(Marks) : Setmark(k) \/ Getmark(k)

Spec == Init /\ [][Next]_vars
=============================================================================
