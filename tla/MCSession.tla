----------------------------- MODULE MCSession ------------------------------
(***************************************************************************)
(* Configuration files for the run of Session: empty, of a user name, and  *)
(* of two of them around something else.                                   *)
(***************************************************************************)
EXTENDS SessionProps

User == <<"username", "you">>
Device == <<"device", "dsp">>
Other == <<"username", "other">>
Texts == {"", "me", "key", "you", "other", "dsp"}
Configurations == {<<>>, <<User>>, <<User, Device, Other>>}
=============================================================================
