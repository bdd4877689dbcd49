---------------------------- MODULE PromptProps -----------------------------
(***************************************************************************)
(* What the user may rely on at a prompt.                                  *)
(***************************************************************************)
EXTENDS Prompt

(* Enter returns the text the user sees, however it was typed, completed,  *)
(* deleted and fetched from the history (readline.c).  The exceptions:     *)
(* after ^U, what was deleted is still behind what is typed then, and a    *)
(* text of the history covers all of it but the last cell; Tab at a prefix *)
(* with nothing behind it empties the array and not the terminal; and a    *)
(* full array has no end.                                                  *)
WhatYouSee == Editing /\ ~stale /\ length < Size => Text(line) = shown

(* The same without the exceptions of ^U and the prefix.                   *)
AlwaysWhatYouSee == Editing /\ length < Size => Text(line) = shown

(* Pressing Tab again and again offers every match of the list once before *)
(* it offers one for the second time (nextmatch() and its static variables)*)
(* for as long as it is the same list that is searched.                    *)
TabCycles ==
  [][~Fresh /\ Tab /\ Candidates = listed /\ lastmatch' \in offered =>
       Matches(Candidates, needle) \subseteq offered]_vars

(* The Tab key comes back, whatever is completed.                          *)
TabReturns == kind # "stuck"
=============================================================================
