------------------------------ MODULE MCPlayer ------------------------------
(***************************************************************************)
(* Constants for the model checking of Player.                             *)
(***************************************************************************)
EXTENDS PlayerProps

CONSTANTS s1, s2, a1, a2

Bare(s) == [prefixed |-> FALSE, name |-> s]
Full(s) == [prefixed |-> TRUE, name |-> s]

BareUrls == {Bare(s) : s \in Stations}
AllUrls == BareUrls \cup {Full(s1), Bare(NoStation)}

NoCommands == {}
StopCommand == {"stop"}
PauseCommand == {"pause", "quit"}
Plain == {"skip", "stop", "pause", "quit"}
DelayCommands == Plain \cup {"ban", "quitLater", "expand"}
NowCommands == Plain \cup {"expand", "autoban", "banKey", "interrupt"}
=============================================================================
