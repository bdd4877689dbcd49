------------------------------- MODULE Prompt -------------------------------
(***************************************************************************)
(* The line editor of shell-fm (readline.c) and the completion behind its  *)
(* Tab key (completion.c, radio.c, tag.c).  The line is an array that is   *)
(* edited at its end only; what it shows on the terminal is a matter of    *)
(* its own, and the two can differ.                                        *)
(*                                                                         *)
(* A text is a sequence of characters: letters, the two of the arrow keys' *)
(* sequences among them, the separators of the stations' levels and of the *)
(* tags, and the space.  A letter has no case.  What lies behind the array *)
(* is not modelled: a step that reads on there ends the behaviour.         *)
(***************************************************************************)
EXTENDS Integers, Sequences, SequencesExt

CONSTANTS
  Size,         \* sizeof(line)
  NeedleSize,   \* sizeof(lastneedle)
  Prefix,       \* "lastfm://"
  TagType,      \* "tag", the type of station with tags for the second level
  Types,        \* what completes the first level of a radio URL,
  Names,        \* the second, for each of the types that have one,
  Radios,       \* and the third
  Popular,      \* what completes a tag
  Histories,    \* what the history of the radio prompt may be
  Tagged,       \* the tags a track may have, which the prompt begins with
  Keys,         \* bound: the characters typed at each of the two prompts
  MaxKeys       \* bound: keys pressed on a line

ASSUME SizeAssumption ==
  Size \in Nat \ {0, 1} /\ NeedleSize \in Nat \ {0} /\ MaxKeys \in Nat

Up == "A"       \* 65, after an escape and another character
Down == "B"     \* 66
Letters == {Up, Down}
Slash == "/"
Comma == ","
Space == " "
Chars == Letters \cup {Slash, Comma, Space}
NUL == "NUL"

(* A candidate is any text, with separators in it or not.                  *)
ASSUME TextsAssumption ==
  /\ \A list \in {Types, Popular} : list \in Seq(Seq(Chars))
  /\ \A text \in DOMAIN Names : Names[text] \in Seq(Seq(Chars))
  /\ \A text \in DOMAIN Radios : Radios[text] \in Seq(Seq(Chars))
  /\ \A texts \in Histories : texts \in Seq(Seq(Chars))
  /\ \A text \in Tagged \cup {Prefix, TagType} : text \in Seq(Chars)
  /\ 2 * Len(Prefix) <= Size
ASSUME KeysAssumption == Keys \in [{"radio", "tags"} -> SUBSET Chars]

VARIABLES
  kind,         \* the prompt: "none", "radio", "tags"; or how one ended:
                \* "stuck", "overrun" or "eof"
  line,         \* the array
  length,
  shown,        \* the text on the terminal
  seq,          \* how much of an escape sequence was read
  history,      \* the texts of the prompt's history
  index,        \* the one that is shown
  changed,
  needle,       \* the static variables of nextmatch()
  lastmatch,
  matches,
  stale,        \* history: the array may hold other text than the length says
  keys,         \* history: the number of keys pressed
  listed,       \* history: the list that was searched last
  offered       \* history: its matches that were offered since the needle is new

search == <<needle, lastmatch, matches, listed, offered>>
vars == <<kind, line, length, shown, seq, history, index, changed,
                needle, lastmatch, matches, stale, keys, listed, offered>>

(* The array as a string, and a text as an array.                          *)
Text(array) ==
  LET ends == {i \in 1 .. Size : array[i] = NUL}
  IN SubSeq(array, 1, IF ends = {} THEN Size
                      ELSE (CHOOSE i \in ends : \A j \in ends : i <= j) - 1)
Fitting(text) == IF Len(text) < Size THEN text ELSE SubSeq(text, 1, Size - 1)
Array(text) == [i \in 1 .. Size |-> IF i <= Len(text) THEN text[i] ELSE NUL]
Ends(array) == \E i \in 1 .. Size : array[i] = NUL

Init ==
  /\ kind = "none"
  /\ line = Array(<<>>)
  /\ length = 0
  /\ shown = <<>>
  /\ seq = 0
  /\ history = <<>>
  /\ index = 0
  /\ changed = TRUE
  /\ needle = <<>>
  /\ lastmatch = 0
  /\ matches = 0
  /\ stale = FALSE
  /\ keys = 0
  /\ listed = <<>>
  /\ offered = {}

-----------------------------------------------------------------------------
(* Keys.  A name that ends in _ is a version of the operator below it with *)
(* a plausible slip; none is part of the model.                            *)

(* The n-th number of a set.                                               *)
Nth(S, n) == CHOOSE i \in S : Cardinality({j \in S : j <= i}) = n

(* uniq(): the texts without those that came before.                       *)
Uniq(texts) ==
  LET first == {i \in 1 .. Len(texts) : \A j \in 1 .. i - 1 : texts[j] # texts[i]}
  IN [n \in 1 .. Cardinality(first) |-> texts[Nth(first, n)]]

(* readline() begins, for radioprompt(), or for tag() with a line to edit. *)
Begin(which, text, texts) ==
  /\ kind = "none"
  /\ kind' = which
  /\ line' = Array(text)
  /\ length' = Len(text)
  /\ shown' = text
  /\ seq' = 0
  /\ history' = texts
  /\ index' = Len(texts) + 1
  /\ changed' = TRUE
  /\ stale' = FALSE
  /\ keys' = 0
  /\ UNCHANGED search
Radioprompt(texts) == Begin("radio", <<>>, Uniq(texts))
Tag(text) == Begin("tags", Fitting(text), <<>>)

Editing == kind \in {"radio", "tags"}

Replace(text) ==
  /\ line' = Array(text)
  /\ length' = Len(text)
  /\ shown' = text
  /\ stale' = FALSE

Shorten_(n) ==
  /\ length' = length - n
  /\ shown' = SubSeq(shown, 1, Len(shown) - n)
  /\ UNCHANGED line
Shorten(n) ==
  /\ length' = length - n
  /\ line' = [i \in 1 .. Size |-> IF i > length - n /\ i <= length THEN NUL ELSE line[i]]
  /\ shown' = SubSeq(shown, 1, Len(shown) - n)

Backspace ==
  /\ Editing
  /\ length > 0
  /\ Shorten(1)
  /\ changed' = TRUE
  /\ UNCHANGED <<kind, seq, history, index, search, stale>>

(* ^U forgets the length and leaves the array.                             *)
DeleteAll ==
  /\ Editing
  /\ length' = 0
  /\ shown' = <<>>
  /\ stale' = (stale \/ length > 0)
  /\ UNCHANGED <<kind, line, seq, history, index, changed, search>>

(* ^W deletes characters of one class.                                     *)
Alike(i, j) == (line[i] \in Letters) = (line[j] \in Letters)
Run == CHOOSE n \in 1 .. length :
         /\ \A i \in length - n + 1 .. length : Alike(i, length)
         /\ n = length \/ ~Alike(length - n, length)
DeleteWord ==
  /\ Editing
  /\ length > 0
  /\ Shorten(Run)
  /\ changed' = TRUE
  /\ UNCHANGED <<kind, seq, history, index, search, stale>>

Escape ==
  /\ Editing
  /\ seq' = IF seq < 2 THEN seq + 1 ELSE 2
  /\ changed' = TRUE
  /\ UNCHANGED <<kind, line, length, shown, history, index, search, stale>>

(* Any other key is taken, is the second of an escape sequence, or the     *)
(* third; of those, two browse the history.  As much of the array is       *)
(* cleared as the length says, and a text of the history does not reach    *)
(* the last cell: what ^U left there stays.  Past the ends of the history, *)
(* the length is cleared, which is not what ^U left.                       *)
Fetched(text) == [Array(text) EXCEPT ![Size] = IF length = Size THEN NUL ELSE line[Size]]
Moved(key) ==
  IF key = Up THEN (IF index > 0 THEN index - 1 ELSE 0)
  ELSE IF index < Len(history) THEN index + 1 ELSE index
Browse(i) ==
  /\ index' = i
  /\ IF 0 < i /\ i <= Len(history)
     THEN LET text == Fitting(history[i])
          IN /\ Ends(Fetched(text))
             /\ line' = Fetched(text)
             /\ length' = Len(text)
             /\ shown' = text
             /\ stale' = (Fetched(text) # Array(text))
     ELSE Shorten(length) /\ UNCHANGED stale
Type(key) ==
  /\ Editing
  /\ changed' = TRUE
  /\ CASE seq = 0 /\ length < Size ->
            /\ line' = [line EXCEPT ![length + 1] = key]
            /\ length' = length + 1
            /\ shown' = Append(shown, key)
            /\ UNCHANGED <<seq, index, stale>>
       [] seq = 0 /\ length = Size ->
            UNCHANGED <<seq, index, line, length, shown, stale>>
       [] seq = 1 ->
            seq' = 2 /\ UNCHANGED <<index, line, length, shown, stale>>
       [] seq = 2 ->
            /\ seq' = 0
            /\ IF key \in {Up, Down} /\ history # <<>> THEN Browse(Moved(key))
               ELSE UNCHANGED <<index, line, length, shown, stale>>
  /\ UNCHANGED <<kind, history, search>>

(* fgetc() at the end of stdin returns -1 for ever, which is a key.        *)
InputEnds ==
  /\ Editing
  /\ kind' = "eof"
  /\ UNCHANGED <<line, length, shown, seq, history, index, changed, search, stale>>

(* strlen() of an array without an end: at a Tab, and when a text of the   *)
(* history was put before a last cell in use.                              *)
Overrun ==
  /\ Editing
  /\ \/ ~Ends(line)
     \/ \E key \in {Up, Down} :
          /\ seq = 2
          /\ Moved(key) \in 1 .. Len(history)
          /\ ~Ends(Fetched(Fitting(history[Moved(key)])))
  /\ kind' = "overrun"
  /\ UNCHANGED <<line, length, shown, seq, history, index, changed, search, stale>>

-----------------------------------------------------------------------------
(* Completion.                                                             *)

Matches(list, text) == {i \in 1 .. Len(list) : IsPrefix(text, list[i])}

(* nextmatch(): the first match of a new needle, or the one after the last *)
(* match in turn.  Of the needle, as much is kept as there is room for.    *)
Kept(text) == IF Len(text) < NeedleSize THEN text ELSE SubSeq(text, 1, NeedleSize - 1)
After_(found, i) == CHOOSE m \in found : \A n \in found : m <= n
After(found, i) ==
  LET later == {m \in found : m > i}
      rest == IF later = {} THEN found ELSE later
  IN CHOOSE m \in rest : \A n \in rest : m <= n
NextMatch(list, text, fresh) ==
  LET wanted == IF fresh THEN text ELSE needle
      many == IF fresh THEN Cardinality(Matches(list, text)) ELSE matches
      found == IF many = 0 THEN {} ELSE Matches(list, wanted)
  IN [found |-> found # {},
      many |-> many,
      match |-> IF found = {} THEN lastmatch
                ELSE After(found, IF fresh THEN 0 ELSE lastmatch),
      needle |-> IF fresh THEN Kept(text) ELSE needle]

(* split(), which passes over empty chunks, and what is behind the last    *)
(* separator.                                                              *)
Chunks(text) ==
  LET starts == {i \in 1 .. Len(text) :
                   text[i] # Slash /\ (i = 1 \/ text[i - 1] = Slash)}
      end(i) == CHOOSE j \in i .. Len(text) :
                  /\ \A k \in i .. j : text[k] # Slash
                  /\ j = Len(text) \/ text[j + 1] = Slash
  IN [c \in 1 .. Cardinality(starts) |-> SubSeq(text, Nth(starts, c), end(Nth(starts, c)))]
Behind(text, separator) ==
  LET i == CHOOSE i \in 0 .. Len(text) :
             /\ i = 0 \/ text[i] = separator
             /\ \A k \in i + 1 .. Len(text) : text[k] # separator
  IN SubSeq(text, i + 1, Len(text))
Trim(text) ==
  LET word == {i \in 1 .. Len(text) : text[i] # Space}
  IN IF word = {} THEN <<>>
     ELSE SubSeq(text, CHOOSE i \in word : \A j \in word : i <= j,
                       CHOOSE i \in word : \A j \in word : j <= i)

(* radiocomplete() takes the prefix off, and moves as many characters as   *)
(* that has; of a longer rest it forgets the others.  Whether the line     *)
(* ends in a slash it asks of the place where the end ought to be.         *)
HasPrefix == kind = "radio" /\ IsPrefix(Prefix, Text(line))
Stripped ==
  LET p == Len(Prefix)
      left == Size + 2 * p - Len(Text(line))
  IN IF ~HasPrefix THEN line
     ELSE [i \in 1 .. Size |-> IF i <= p THEN line[p + i]
                               ELSE IF i <= left THEN NUL ELSE line[i]]
Plain == Text(Stripped)
Ended ==
  LET n == Len(Text(line)) - (IF HasPrefix THEN Len(Prefix) ELSE 0)
  IN n > 0 /\ Stripped[n] = Slash

(* Which list completes the line: that of a level of the station's URL, or *)
(* that of the tags, of which tagcomplete() takes off the spaces around.   *)
Level == Len(Chunks(Plain)) + (IF Ended THEN 1 ELSE 0)
First == Chunks(Plain)[1]
AtTags == kind = "tags" \/ (Level = 2 /\ First = TagType)
Path == IF kind = "tags" THEN <<>>
        ELSE SubSeq(Plain, 1, Len(Plain) - Len(Behind(Plain, Slash)))
Tags == Trim(IF kind = "tags" THEN Plain ELSE Behind(Plain, Slash))
Candidates ==
  CASE AtTags -> Popular
    [] ~AtTags /\ Level = 1 /\ Chunks(Plain) # <<>> -> Types
    [] ~AtTags /\ Level = 2 /\ First \in DOMAIN Names -> Names[First]
    [] ~AtTags /\ Level = 3 /\ First \in DOMAIN Radios -> Radios[First]
    [] OTHER -> <<>>

(* What is completed, the text before the completion, and its end.         *)
Word ==
  IF AtTags THEN Behind(Tags, Comma)
  ELSE IF Ended \/ Chunks(Plain) = <<>> THEN <<>> ELSE Last(Chunks(Plain))
Before ==
  IF AtTags THEN Path \o SubSeq(Tags, 1, Len(Tags) - Len(Word))
  ELSE CASE Level = 2 -> Append(First, Slash)
         [] Level = 3 -> Append(First, Slash) \o Append(Chunks(Plain)[2], Slash)
         [] OTHER -> <<>>
Suffix(many) ==
  IF AtTags THEN (IF many < 2 THEN <<Comma>> ELSE <<>>)
  ELSE IF many = 1 /\ Level < 3 THEN <<Slash>> ELSE <<>>

(* snprintf() of a completion: of the whole line, or of a tag behind what  *)
(* there is, with room for one character less.                             *)
Printed(rest) ==
  LET all == Before \o rest
      room == IF ~AtTags THEN Size - 1
              ELSE IF Len(Before) < Size - 2 THEN Size - 2 ELSE Len(Before)
  IN SubSeq(all, 1, IF Len(all) < room THEN Len(all) ELSE room)

(* The Tab key: radiocomplete(), which prints the third level anew in any  *)
(* case, and tagcomplete().                                                *)
Fresh == changed \/ (kind = "radio" /\ Ended) \/ Word = <<>>
Seen == IF AtTags THEN Path \o Tags ELSE Plain
Completed(next) ==
  IF next.found THEN Printed(Candidates[next.match] \o Suffix(next.many))
  ELSE IF ~AtTags /\ Level = 3 /\ Candidates # <<>> THEN Printed(Word)
  ELSE Seen

(* A completion with a separator in it moves the line to the next level,   *)
(* where nextmatch() goes on with the needle and the place that belong to  *)
(* the list of the level before: none of the texts may match, or the place *)
(* may be behind the end of the list, where what is read is anything.      *)
GoesOn == ~Fresh /\ matches > 0 /\ Candidates # <<>>
NoneMatches == GoesOn /\ Matches(Candidates, needle) = {}
IsBehind == GoesOn /\ lastmatch > Len(Candidates)
Stray ==
  /\ Editing
  /\ Ends(line)
  /\ NoneMatches \/ IsBehind
  /\ kind' = "stuck"
  /\ UNCHANGED <<line, length, shown, seq, history, index, changed, search, stale>>

(* Where there is nothing to split, the array has lost the prefix and the  *)
(* terminal has not.                                                       *)
Tab ==
  /\ Editing
  /\ Ends(line)
  /\ ~NoneMatches
  /\ changed' = FALSE
  /\ LET next == NextMatch(Candidates, Word, Fresh)
     IN /\ IF kind = "radio" /\ Chunks(Plain) = <<>>
           THEN /\ line' = Stripped
                /\ stale' = (stale \/ HasPrefix)
                /\ UNCHANGED <<length, shown>>
           ELSE IF kind = "radio" \/ next.found \/ Seen # Plain
           THEN Replace(Completed(next))
           ELSE UNCHANGED <<line, length, shown, stale>>
        /\ IF Candidates = <<>> THEN UNCHANGED search
           ELSE /\ needle' = next.needle
                /\ lastmatch' = next.match
                /\ matches' = next.many
                /\ listed' = Candidates
                /\ offered' = (IF Fresh \/ listed # Candidates THEN {} ELSE offered)
                                \cup (IF next.found THEN {next.match} ELSE {})
  /\ UNCHANGED <<kind, seq, history, index>>

(* Enter.  What the prompt leaves behind is set anew by the next prompt, or*)
(* by its first Tab.  What becomes of a line without an end is not said.   *)
Enter ==
  /\ Editing
  /\ kind' = "none"
  /\ line' = Array(<<>>)
  /\ length' = 0
  /\ shown' = <<>>
  /\ seq' = 0
  /\ history' = <<>>
  /\ index' = 0
  /\ changed' = TRUE
  /\ stale' = FALSE
  /\ needle' = <<>>
  /\ lastmatch' = 0
  /\ matches' = 0
  /\ keys' = 0
  /\ listed' = <<>>
  /\ offered' = {}

Key ==
  /\ keys < MaxKeys
  /\ keys' = keys + 1
  /\ \/ Backspace \/ DeleteAll \/ DeleteWord \/ Escape
     \/ Tab \/ Stray \/ Overrun \/ InputEnds
     \/ Editing /\ \E key \in Keys[kind] : Type(key)

Next ==
  \/ \E texts \in Histories : Radioprompt(texts)
  \/ \E text \in Tagged : Tag(text)
  \/ Key \/ Enter

Spec == Init /\ [][Next]_vars
=============================================================================
