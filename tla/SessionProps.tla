---------------------------- MODULE SessionProps ----------------------------
(***************************************************************************)
(* What responses are put together to, and what becomes of the session     *)
(* over many runs.                                                         *)
(***************************************************************************)
EXTENDS Session

LinesOK == rcfile \in Settings /\ lines \in 0 .. Len(rcfile)

(* Every variable holds a value of its type.                               *)
TypeOK ==
  /\ phase \in {"idle", "connect", "status", "body", "done", "crashed"}
  /\ hops \in 0 .. MaxHops
  /\ chunked \in BOOLEAN
  /\ clean \in BOOLEAN
  /\ troubles \in 0 .. MaxTroubles
  /\ pc \in {"down", "up", "settings", "reload", "restore", "token", "exchange",
             "create", "recreate", "spit session", "write session", "spit token",
             "write token"}
  /\ call \in {"none", "auth.getToken", "auth.getSession"}
  /\ session \in {"none", "empty", "key"}
  /\ token \in {"none", "empty", "blank", "pending", "authorised", "used"}
  /\ LinesOK
  /\ issued \in BOOLEAN

(* A response that arrives whole is put together as it was sent, whatever  *)
(* its chunks, unless one began with a blank; until it is, fetch() has the *)
(* front of it.                                                            *)
Reassembled ==
  clean /\ content # NULL =>
    /\ phase # "crashed"
    /\ IsPrefix(content, body)
    /\ phase = "done" => content = body

(* The settings are what was set last, wherever the pairs have moved to,   *)
(* and no key has two.                                                     *)
RcHonest ==
  /\ TypeOK
  /\ IsHash(rc, Names, Strings)
  /\ Entries(rc) = last

(* A key that was stored is kept and used by every later run, and only the *)
(* server's key is ever stored.                                            *)
KeyKept ==
  [][/\ session = "key" => session' = "key"
     /\ session' = "key" => issued
     /\ session = "key" /\ pc = "restore" /\ pc' = "up" => last'["session"] = "key"]_vars

(* The user gets a session in the end, if trouble does: no lost call, lost *)
(* reply or crash costs more than another authorisation.  The exceptions   *)
(* are a crash between emptying the session's file and writing it, which   *)
(* counts as a session ever after, and a configuration of nothing but a    *)
(* user name, which the new name of the user cannot replace.               *)
LoggedIn == pc = "up" /\ last["session"] = "key"
LogsIn ==
  <>(\/ LoggedIn
     \/ session = "empty" /\ pc = "down"
     \/ Aborts(rcfile, "username"))

(* The same without the exception of the crash.                            *)
LogsInAlways == <>(LoggedIn \/ Aborts(rcfile, "username"))
=============================================================================
