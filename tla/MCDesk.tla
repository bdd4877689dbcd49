------------------------------- MODULE MCDesk -------------------------------
(***************************************************************************)
(* Keys for the run of Desk.                                               *)
(***************************************************************************)
EXTENDS DeskProps

Marks1 == <<"1", "2">>
=============================================================================
