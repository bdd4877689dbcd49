-------------------------------- MODULE Hash --------------------------------
(***************************************************************************)
(* The hash of hash.c, which holds the settings, the track and the         *)
(* parameters of a request: an array of pairs of a key and a value, in     *)
(* which a removed pair is replaced by the last one.  Here an array is a   *)
(* sequence of pairs, and the functions of hash.c are operators on it.     *)
(***************************************************************************)
EXTENDS Integers, Sequences

Key(hash, x) == hash[x][1]
Keys(hash) == {Key(hash, x) : x \in 1 .. Len(hash)}

(* haskey() returns the index (from 1) of a key, or 0.                     *)
Holds(hash, key) == \E x \in 1 .. Len(hash) : Key(hash, x) = key
haskey(hash, key) ==
  IF Holds(hash, key)
  THEN CHOOSE x \in 1 .. Len(hash) :
         Key(hash, x) = key /\ \A y \in 1 .. x - 1 : Key(hash, y) # key
  ELSE 0

(* value() is the empty string for a key the hash does not have.           *)
value(hash, key, none) ==
  IF haskey(hash, key) > 0 THEN hash[haskey(hash, key)][2] ELSE none

(* unset().  A name that ends in _ is a version of the operator below it   *)
(* with a plausible slip; none is part of the model.                       *)
unset_(hash, key) ==
  LET index == haskey(hash, key)
  IN IF index = 0 THEN hash
     ELSE [x \in 1 .. Len(hash) - 1 |-> hash[x]]
unset(hash, key) ==
  LET index == haskey(hash, key)
  IN IF index = 0 THEN hash
     ELSE [x \in 1 .. Len(hash) - 1 |->
             IF x = index THEN hash[Len(hash)] ELSE hash[x]]

(* set()                                                                   *)
set(hash, key, val) == Append(unset(hash, key), <<key, val>>)

(* realloc() of the array to no size returns NULL, and assert() aborts the *)
(* program: the last pair can be neither removed nor replaced.             *)
Aborts(hash, key) == Len(hash) = 1 /\ haskey(hash, key) > 0

(* What makes an array a hash: no key has two pairs.                       *)
IsHash(hash, K, V) ==
  /\ hash \in Seq(K \X V)
  /\ \A x, y \in 1 .. Len(hash) : Key(hash, x) = Key(hash, y) => x = y
=============================================================================
