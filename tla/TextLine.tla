------------------------------ MODULE TextLine ------------------------------
(***************************************************************************)
(* What a line editor promises: the text being edited is split by the      *)
(* cursor into what is before it and what is after it; keys edit around    *)
(* the cursor; the line that is run is the text as it stands.              *)
(***************************************************************************)
EXTENDS Naturals, SequencesExt

CONSTANTS
  Chars,       \* the characters of a line
  Space,       \* the one that separates words
  Help,        \* the one that asks for help
  Capacity     \* the length that typing cannot exceed

VARIABLES
  before, after,   \* the text on both sides of the cursor
  ran,             \* the line that is being run, empty while editing
  keep,            \* the text stays when the line has been run
  recorded         \* the lines that can be recalled

textVars == <<before, after, ran, keep, recorded>>

Editing == ran = <<>> /\ UNCHANGED <<ran, keep, recorded>>

Length == Len(before) + Len(after)

TypeChar(c) ==
  /\ Editing
  /\ before' = Append(before, c)
  /\ \/ Length < Capacity /\ after' = after
     \/ Length = Capacity /\ after # <<>> /\ after' = Front(after)

(* One or more characters before the cursor are erased.                    *)
Erase ==
  /\ Editing
  /\ \E n \in 0..Len(before) : before' = SubSeq(before, 1, n)
  /\ UNCHANGED after

KillRest == Editing /\ after' = <<>> /\ UNCHANGED before

Clear == Editing /\ before' = <<>> /\ after' = <<>>

MoveCursor == Editing /\ before' \o after' = before \o after

(* Completion replaces the word the cursor is at the end of, no more.      *)
Complete ==
  /\ Editing
  /\ after = <<>> /\ after' = <<>>
  /\ \E n \in 0..Len(before) :
       /\ \A i \in (n + 1)..Len(before) : before[i] # Space
       /\ IsPrefix(SubSeq(before, 1, n), before')
       /\ Len(before') >= Len(before)

(* A line recorded earlier takes the place of the text.                    *)
Recall == Editing /\ before' \in recorded /\ after' = <<>>

Submit ==
  /\ ran = <<>>
  /\ before \o after # <<>> /\ ran' = before \o after
  /\ UNCHANGED <<before, after, keep, recorded>>

(* Asking for help at the end of a text runs it with the question mark; a  *)
(* character that a full line pushes out is lost.                          *)
AskHelp ==
  /\ ran = <<>>
  /\ after = <<>> \/ (Len(after) = 1 /\ Length = Capacity)
  /\ ran' = Append(before, Help) /\ keep' = TRUE
  /\ before' = before /\ after' = <<>>
  /\ UNCHANGED recorded

Finish ==
  /\ ran # <<>>
  /\ ran' = <<>> /\ keep' = FALSE
  /\ IF keep THEN UNCHANGED <<before, after>> ELSE before' = <<>> /\ after' = <<>>
  /\ \/ recorded' \subseteq recorded \cup {ran} /\ (keep => recorded' = recorded)
     \/ recorded' = {}

(* The end of the session.                                                 *)
Forget == recorded' = {} /\ UNCHANGED <<before, after, ran, keep>>

TextInit ==
  before = <<>> /\ after = <<>> /\ ran = <<>> /\ keep = FALSE /\ recorded = {}

TextNext ==
  \/ \E c \in Chars : TypeChar(c)
  \/ Erase \/ KillRest \/ Clear \/ MoveCursor
  \/ Complete \/ Recall \/ Submit \/ AskHelp \/ Finish \/ Forget

TextSpec == TextInit /\ [][TextNext]_textVars
=============================================================================
