------------------------------ MODULE Session -------------------------------
(***************************************************************************)
(* How shell-fm gets its session: create_session() and create_token() of   *)
(* rest.c over the files "session" and "token", run after run, with the    *)
(* user who authorises the token in between and the server that exchanges  *)
(* an authorised token for a key, once.  Composed of Fetch, which carries  *)
(* the calls, and Hash, which holds the settings.                          *)
(*                                                                         *)
(* The file of the token is described by what the server thinks of the     *)
(* token in it, and there is one key.  Signing a call is left out.         *)
(***************************************************************************)
EXTENDS Fetch, Hash

CONSTANTS
  Strings,      \* what the value of a setting may be
  Settings      \* what the configuration file may be: lines, each a pair

VARIABLES
  pc,           \* "down", "up", or where create_session() is
  call,         \* the method of the request that runs
  rcfile,       \* the configuration file
  lines,        \* how many of its lines settings() has read
  rc,           \* the settings
  session,      \* the file: "none", "empty" or "key"
  token,        \* "none", "empty", "blank", "pending", "authorised", "used"
  issued,       \* the server has issued the key
  last          \* history: the value set last for each key of rc

files == <<session, token>>
vars == <<fetchVars, pc, call, rcfile, lines, rc, session, token, issued, last>>

Names == {"username", "device", "session"}
Empty == ""
ASSUME StringsAssumption == {Empty, "me", "key"} \subseteq Strings
ASSUME SettingsAssumption == Settings \subseteq Seq(Names \X Strings)
Nothing == [k \in Names |-> Empty]
Entries(hash) == [k \in Names |-> value(hash, k, Empty)]

Init ==
  /\ FetchInit
  /\ pc = "down"
  /\ call = "none"
  /\ rcfile \in Settings
  /\ lines = 0
  /\ rc = <<>>
  /\ session = "none"
  /\ token = "none"
  /\ issued = FALSE
  /\ last = Nothing

-----------------------------------------------------------------------------
(* The server.                                                             *)

(* The text of a reply, and what json_parse() makes of a text: NULL, if it *)
(* is no JSON or not all of it; blanks do not count.                       *)
Text(reply) == IF reply = "page" THEN <<"page">> ELSE <<reply, " ", "}">>
Parsed(text) ==
  LET replies == {r \in {"token", "key", "error"} :
                    \E i, j \in DOMAIN text :
                      /\ i < j /\ text[i] = r /\ text[j] = "}"
                      /\ \A k \in DOMAIN text \ {i, j} : text[k] \in Blanks}
  IN IF replies = {} THEN "NULL" ELSE CHOOSE r \in replies : TRUE

(* A token can be exchanged once it is authorised, whether or not the      *)
(* reply arrives.                                                          *)
ServerAnswers ==
  /\ phase = "status"
  /\ \/ /\ call = "auth.getToken"
        /\ Answer(Text("token"))
        /\ UNCHANGED <<token, issued>>
     \/ /\ call = "auth.getSession"
        /\ IF token = "authorised"
           THEN Answer(Text("key")) /\ token' = "used" /\ issued' = TRUE
           ELSE Answer(Text("error")) /\ UNCHANGED <<token, issued>>
  /\ UNCHANGED <<pc, call, rcfile, lines, rc, session, last>>
ServerFails ==
  /\ phase = "status"
  /\ Trouble
  /\ \E reply \in {"error", "page"} : wire' = Text(reply) /\ body' = Text(reply)
  /\ phase' = "body"
  /\ chunked' = FALSE
  /\ content' = <<>>
  /\ clean' = TRUE
  /\ UNCHANGED <<hops, pc, call, rcfile, lines, rc, files, issued, last>>

(* The user opens the page that create_token() named and authorises it.    *)
Authorise ==
  /\ token = "pending"
  /\ token' = "authorised"
  /\ UNCHANGED <<fetchVars, pc, call, rcfile, lines, rc, session, issued, last>>

-----------------------------------------------------------------------------
(* The program.  A name that ends in _ is a version of the operator below  *)
(* it with a plausible slip; none is part of the model.                    *)

(* set() of a setting, after which the program is at next, unless that is   *)
(* its end.                                                                *)
Set(k, v, next) ==
  IF Aborts(rc, k)
  THEN pc' = "down" /\ UNCHANGED <<rc, last>>
  ELSE /\ pc' = next
       /\ rc' = set(rc, k, v)
       /\ last' = [last EXCEPT ![k] = v]

(* The user starts the program, and is expected to authorise the pending   *)
(* token before.  It begins with the settings, which are none.             *)
Start ==
  /\ pc = "down"
  /\ IF token = "pending" THEN Trouble ELSE UNCHANGED troubles
  /\ pc' = "settings"
  /\ lines' = 0
  /\ rc' = <<>>
  /\ last' = Nothing
  /\ phase' = "idle"
  /\ UNCHANGED <<hops, response, call, rcfile, files, issued>>

(* The key C: the settings are read anew, over those there are.            *)
Reload ==
  /\ pc = "up"
  /\ pc' = "reload"
  /\ lines' = 0
  /\ UNCHANGED <<fetchVars, call, rcfile, rc, files, issued, last>>

(* settings(): one turn of its loop, and its end.                          *)
SetLine ==
  /\ pc \in {"settings", "reload"}
  /\ lines < Len(rcfile)
  /\ lines' = lines + 1
  /\ LET pair == rcfile[lines + 1] IN Set(pair[1], pair[2], pc)
  /\ UNCHANGED <<fetchVars, call, rcfile, files, issued>>
SettingsRead ==
  /\ pc \in {"settings", "reload"}
  /\ lines = Len(rcfile)
  /\ pc' = IF pc = "settings" THEN "restore" ELSE "up"
  /\ UNCHANGED <<fetchVars, call, rcfile, lines, rc, files, issued, last>>

Ask(method) ==
  /\ Request
  /\ call' = method
  /\ UNCHANGED <<rcfile, lines, rc, issued, last>>

(* restore_key("session"): an empty file is EOF, which is not 0.           *)
RestoreSession_ ==
  /\ pc = "restore" /\ pc' = "token"
  /\ UNCHANGED <<fetchVars, call, rcfile, lines, rc, files, issued, last>>
RestoreSession ==
  /\ pc = "restore"
  /\ IF session = "none"
     THEN pc' = "token" /\ UNCHANGED <<rc, last>>
     ELSE Set("session", IF session = "key" THEN "key" ELSE Empty, "up")
  /\ UNCHANGED <<fetchVars, call, rcfile, lines, files, issued>>

(* restore_key("token"), then the exchange.                                *)
RestoreToken_ ==
  /\ pc = "token"
  /\ pc' = "create" /\ Ask("auth.getToken")
  /\ UNCHANGED files
RestoreToken ==
  /\ pc = "token"
  /\ IF token = "none" THEN pc' = "create" /\ Ask("auth.getToken")
                       ELSE pc' = "exchange" /\ Ask("auth.getSession")
  /\ UNCHANGED files

Returned == phase = "done"
Finish == phase' = "idle" /\ UNCHANGED <<hops, response, troubles, rcfile, lines, issued>>

(* The reply to auth.getSession.  Without one the program goes on without  *)
(* a session; with an error it asks for a new token; json_hash() does not  *)
(* survive NULL.                                                           *)
Exchanged ==
  /\ pc = "exchange"
  /\ Returned
  /\ CASE content = NULL ->
            pc' = "up" /\ Finish /\ UNCHANGED <<call, rc, last>>
       [] content # NULL /\ Parsed(content) = "NULL" ->
            pc' = "down" /\ Finish /\ UNCHANGED <<call, rc, last>>
       [] content # NULL /\ Parsed(content) = "key" ->
            Finish /\ UNCHANGED call /\ Set("username", "me", "spit session")
       [] OTHER ->
            pc' = "recreate" /\ Ask("auth.getToken")
  /\ UNCHANGED files

(* spit() empties the file before it writes to it.                         *)
SpitSession ==
  /\ pc = "spit session"
  /\ pc' = "write session"
  /\ session' = "empty"
  /\ UNCHANGED <<fetchVars, call, rcfile, lines, rc, token, issued, last>>
WriteSession ==
  /\ pc = "write session"
  /\ session' = "key"
  /\ Set("session", "key", "up")
  /\ UNCHANGED <<fetchVars, call, rcfile, lines, token, issued>>

(* The reply to auth.getToken.  Without one create_token() returns: to an  *)
(* exchange of no token, or to a session without a key.                    *)
Created ==
  /\ pc \in {"create", "recreate"}
  /\ Returned
  /\ CASE content = NULL /\ pc = "create" ->
            pc' = "exchange" /\ Ask("auth.getSession")
       [] content = NULL /\ pc = "recreate" ->
            Finish /\ UNCHANGED call /\ Set("session", Empty, "up")
       [] content # NULL /\ Parsed(content) = "NULL" ->
            pc' = "down" /\ Finish /\ UNCHANGED <<call, rc, last>>
       [] OTHER ->
            pc' = "spit token" /\ Finish /\ UNCHANGED <<call, rc, last>>
  /\ UNCHANGED files

(* The token is stored, shown to the user, and the program exits.          *)
SpitToken ==
  /\ pc = "spit token"
  /\ pc' = "write token"
  /\ token' = "empty"
  /\ UNCHANGED <<fetchVars, call, rcfile, lines, rc, session, issued, last>>
WriteToken ==
  /\ pc = "write token"
  /\ pc' = "down"
  /\ token' = IF Parsed(content) = "token" THEN "pending" ELSE "blank"
  /\ UNCHANGED <<fetchVars, call, rcfile, lines, rc, session, issued, last>>

(* The user quits; without a session, to try again.                        *)
Quit ==
  /\ pc = "up"
  /\ pc' = "down"
  /\ UNCHANGED <<fetchVars, call, rcfile, lines, rc, files, issued, last>>

(* The program is killed, or fetch() was its end.                          *)
Crash ==
  /\ pc # "down"
  /\ IF phase = "crashed" THEN UNCHANGED troubles ELSE Trouble
  /\ pc' = "down"
  /\ phase' = "idle"
  /\ UNCHANGED <<hops, response, call, rcfile, lines, rc, files, issued, last>>

Carry ==
  /\ pc \in {"exchange", "create", "recreate"}
  /\ Fetching
  /\ UNCHANGED <<pc, call, rcfile, lines, rc, files, issued, last>>

Program ==
  \/ Start \/ SetLine \/ SettingsRead \/ RestoreSession \/ RestoreToken \/ Exchanged \/ Created
  \/ SpitSession \/ WriteSession \/ SpitToken \/ WriteToken \/ Quit
  \/ Carry \/ ServerAnswers \/ (phase = "crashed" /\ Crash)

Next == Program \/ ServerFails \/ Crash \/ Authorise \/ Reload

Spec == Init /\ [][Next]_vars

(* The program runs, and is started again; the user opens the page, and    *)
(* quits in the end, however often the settings are read anew before.      *)
FairSpec == Spec /\ WF_vars(Program) /\ WF_vars(Authorise) /\ SF_vars(Quit)
=============================================================================
