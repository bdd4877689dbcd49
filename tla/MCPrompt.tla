------------------------------ MODULE MCPrompt ------------------------------
(***************************************************************************)
(* Texts for the run of Prompt: a prefix of two characters, and a needle   *)
(* of which two are kept.                                                  *)
(***************************************************************************)
EXTENDS PromptProps

a == <<"A">>
ba == <<"B", "A">>
bb == <<"B", "B">>
bba == <<"B", "B", "A">>
Prefix1 == <<"B", "/">>
Types1 == <<a, bb>>
Names1 == a :> <<bb, a, <<"A", "/", "B">>, bba>>
Radios1 == a :> <<bb>>
Popular1 == <<bb, a, ba>>
long == <<"A", "/", "A", "/", "B", "A", "B">>
Histories1 == {<<ba, long, ba>>}
Tagged1 == {<<>>, <<"B", ",", " ">>}
Keys1 == [radio |-> {"A", "B", "/"}, tags |-> {"B", ","}]
=============================================================================
