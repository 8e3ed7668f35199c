----------------------------- MODULE LineEditor -----------------------------
(***************************************************************************)
(* The line editor of libcli's cli_loop: from the bytes of the terminal to *)
(* the C string that cli_run_command gets.                                 *)
(*                                                                         *)
(* The line is an array cmd of CLI_MAX_LINE_LENGTH cells with a length l   *)
(* and a cursor; nothing but the handlers of the keys keeps the cells from *)
(* l on NUL.  What the terminal shows is not read back: the handlers write *)
(* the differences, and the screen has to stay in step with the line.      *)
(* Writing, or reading a string, past the end of the array is undefined:   *)
(* the session is then "faulted" and takes no further step.                *)
(***************************************************************************)
EXTENDS Integers, SequencesExt, FiniteSets

CONSTANTS
  MaxLine,      \* CLI_MAX_LINE_LENGTH
  MaxHistory,   \* MAX_HISTORY
  MaxDown,      \* bound: how far key Down is pressed with an empty history
  PromptWidth,  \* the width of the prompt
  Letters,      \* the characters without a meaning to the editor
  Fold,         \* what strcasecmp makes of a character
  Bytes,        \* the bytes the terminal may send
  Words,        \* what the commands and options can complete to
  Unrecorded,   \* the lines the history does not take: `history`; bound:
                \* more lines, in the instances that are not about recall
  NUL           \* a cell after the end of the string; no history line

Space == " "
Bar   == "|"
Quote == "\""
QMark == "?"

Chars  == Letters \cup {Space, Bar, Quote, QMark}
Breaks == {Space, Bar}
Cells  == 0..(MaxLine - 1)
Places == 0..(MaxHistory - 1)

(* The keys that do not stand for themselves.                              *)
Controls == {"^A", "^B", "^C", "^D", "^E", "^F", "^H", "^I", "^K", "^L", "^N",
             "^P", "^U", "^W", "^Z", "CR", "NL", "ESC", "IAC", "OPT"}

ASSUME SizeAssumption ==
  /\ MaxLine \in Nat /\ MaxLine > 1
  /\ MaxHistory \in Nat /\ MaxHistory > 1
  /\ MaxDown \in Nat /\ MaxDown > MaxHistory
  /\ PromptWidth \in Nat /\ PromptWidth > 0

ASSUME CharAssumption ==
  /\ Letters \cap (Controls \cup {Space, Bar, Quote, QMark}) = {}
  /\ Bytes \subseteq Chars \cup Controls
  /\ NUL \notin Chars /\ NUL \notin Seq(Chars)
  /\ Fold \in [Chars -> Chars]
  /\ Words \subseteq Seq(Letters) /\ Unrecorded \subseteq Seq(Chars)

VARIABLES
  cmd,         \* the buffer
  l, cursor,   \* length of the line, place of the cursor in it
  tabbed,      \* lastchar is TAB
  in_history,  \* the history line that is shown
  history,     \* cli->history
  esc,         \* progress of an ANSI sequence: "none", "esc", "["
  iac,         \* a telnet option is being read
  config,      \* cli->mode is not MODE_EXEC
  screen,      \* the terminal's last row, its cursor, the start of the text
  kept,        \* oldcmd is set: the line stays for the next turn
  session      \* "open", "running" a command, "closed" or "faulted"

line   == <<cmd, l, cursor>>
memory == <<in_history, history>>
around == <<config, kept, session>>
vars   == <<cmd, l, cursor, tabbed, in_history, history, esc, iac, config,
            screen, kept, session>>

-----------------------------------------------------------------------------
(* Strings.                                                                *)

(* The first l cells.                                                      *)
Text == [i \in 1..l |-> cmd[i - 1]]

(* What a C function reads from a buffer.                                  *)
Terminated(b) == \E n \in Cells : b[n] = NUL

StrLen(b) ==
  CHOOSE n \in Cells : b[n] = NUL /\ \A i \in 0..(n - 1) : b[i] # NUL

CString(b) == [i \in 1..StrLen(b) |-> b[i - 1]]

(* strcasecmp and strncasecmp.                                             *)
SameLine(s, t) ==
  Len(s) = Len(t) /\ \A i \in 1..Len(s) : Fold[s[i]] = Fold[t[i]]

Extends(e, w) ==
  Len(w) <= Len(e) /\ \A i \in 1..Len(w) : Fold[w[i]] = Fold[e[i]]

-----------------------------------------------------------------------------
(* The terminal.                                                           *)

Columns == 0..(2 * PromptWidth + MaxLine)
Prompt  == [i \in 1..PromptWidth |-> "prompt"]
Blanks(n) == [i \in 1..n |-> Space]

Put(s, str) ==
  [s EXCEPT !.row = [i \in Columns |->
                       IF s.col <= i /\ i < s.col + Len(str)
                       THEN str[i - s.col + 1] ELSE s.row[i]],
            !.col = s.col + Len(str)]

Back(s, n) == [s EXCEPT !.col = s.col - n]

(* A new row: the prompt, the text, and the cursor moved back into it.     *)
Fresh(text, at) ==
  Back(Put(Put([row |-> [i \in Columns |-> Space], col |-> 0, base |-> PromptWidth],
               Prompt), text), Len(text) - at)

(* Seeded bug: only what is before the cursor is blanked.                  *)
ClearedToCursor == Back(Put(Back(screen, cursor), Blanks(cursor)), cursor)

(* cli_clear_line *)
Cleared == Back(Put(Back(screen, cursor), Blanks(l)), l)

-----------------------------------------------------------------------------
(* From bytes to keys.                                                     *)

Arrow(b) ==
  CASE b = "A" -> "^P" [] b = "B" -> "^N" [] b = "C" -> "^F" [] b = "D" -> "^B"
    [] OTHER -> "none"

(* A byte that is not part of a telnet option.                             *)
IsData(b) == (b = "IAC") <=> iac

(* The byte just read stands for key k.                                    *)
Pressed(k) ==
  /\ session = "open"
  /\ \E b \in Bytes :
       /\ IsData(b)
       /\ \/ esc = "none" /\ k = b
          \/ esc = "[" /\ k = Arrow(b)
  /\ esc' = "none" /\ iac' = FALSE

(* The byte just read stands for no key.                                   *)
Swallow ==
  /\ session = "open"
  /\ \E b \in Bytes :
       \/ ~IsData(b) /\ iac' = (b \in {"IAC", "OPT"}) /\ esc' = esc
       \/ /\ IsData(b) /\ iac' = FALSE
          /\ \/ esc = "none" /\ b = "ESC" /\ esc' = "esc"
             \/ esc = "none" /\ b \in {"^C", "NL"} /\ esc' = esc
             \/ esc = "esc" /\ esc' = IF b = "[" THEN "[" ELSE "none"
             \/ esc = "[" /\ Arrow(b) = "none" /\ esc' = "none"
  /\ UNCHANGED <<line, tabbed, memory, screen, around>>

Fault ==
  /\ session' = "faulted"
  /\ UNCHANGED <<line, tabbed, memory, config, screen, kept>>

-----------------------------------------------------------------------------
(* Keys that edit the line.                                                *)

(* Seeded bug: the cell for the terminating NUL is given to the line.      *)
RoomToEnd == l < MaxLine

(* One more character fits.                                                *)
Room == l < MaxLine - 1

(* The cells from cursor on move up by one; a full line loses its last.    *)
Inserted(c) ==
  [i \in Cells |-> IF i = cursor THEN c
                   ELSE IF ~Room /\ i = l THEN NUL
                   ELSE IF cursor < i /\ i <= l THEN cmd[i - 1] ELSE cmd[i]]

(* The character at the end of the line.                                   *)
TypeAtEnd(c) ==
  /\ Pressed(c) /\ c \in Chars \ {QMark} /\ cursor = l
  /\ \/ /\ Room
        /\ cmd' = [cmd EXCEPT ![l] = c]
        /\ l' = l + 1 /\ cursor' = l + 1
        /\ tabbed' = FALSE /\ screen' = Put(screen, <<c>>)
        /\ UNCHANGED <<memory, around>>
     \/ /\ ~Room /\ l < MaxLine
        /\ cmd' = [cmd EXCEPT ![l] = NUL]
        /\ UNCHANGED <<l, cursor, tabbed, memory, screen, around>>
     \/ l = MaxLine /\ Fault

(* A `?` that a full line leaves at its end asks for help: see RunHelp.    *)
PushesOut(c) == c = QMark /\ ~Room /\ l < MaxLine /\ cursor = l - 1

TypeInside(c) ==
  /\ Pressed(c) /\ c \in Chars /\ cursor < l /\ ~PushesOut(c)
  /\ \/ /\ l < MaxLine
        /\ cmd' = Inserted(c)
        /\ l' = IF Room THEN l + 1 ELSE l
        /\ cursor' = cursor + 1
        /\ tabbed' = FALSE
        /\ screen' = Put(Back(Put(screen, [i \in 1..(l' - cursor) |-> cmd'[cursor + i - 1]]),
                              l' - cursor), <<c>>)
        /\ UNCHANGED <<memory, around>>
     \/ l = MaxLine /\ Fault

(* Seeded bug: the cells that the line leaves are not zeroed.              *)
EraseKeepsTail(s) ==
  /\ cmd' = [i \in Cells |-> IF s <= i /\ i + (cursor - s) < l
                             THEN cmd[i + (cursor - s)] ELSE cmd[i]]
  /\ l' = l - (cursor - s) /\ cursor' = s
  /\ UNCHANGED <<tabbed, memory, screen, around>>

(* The characters from cell s up to the cursor are erased, one by one.     *)
EraseFrom(s) ==
  /\ cmd' = [i \in Cells |->
               IF i < s \/ i >= l THEN cmd[i]
               ELSE IF i + (cursor - s) < l THEN cmd[i + (cursor - s)] ELSE NUL]
  /\ l' = l - (cursor - s) /\ cursor' = s
  /\ screen' = Back(Put(Back(screen, cursor - s),
                        [i \in 1..(l - s) |-> IF cursor + i <= l THEN cmd[cursor + i - 1]
                                              ELSE Space]), l - s)
  /\ UNCHANGED <<tabbed, memory, around>>

Backspace ==
  /\ Pressed("^H")
  /\ \/ cursor = 0 /\ UNCHANGED <<line, tabbed, memory, screen, around>>
     \/ cursor > 0 /\ EraseFrom(cursor - 1)

(* Where the word before the cursor begins, blanks behind it included.     *)
WordStart(s) ==
  /\ \A i, j \in s..(cursor - 1) : i <= j /\ cmd[i] = Space => cmd[j] = Space
  /\ s > 0 => cmd[s - 1] = Space /\ cmd[s] # Space

EraseWord ==
  /\ Pressed("^W")
  /\ \/ cursor = 0 /\ UNCHANGED <<line, tabbed, memory, screen, around>>
     \/ \E s \in 0..(cursor - 1) : WordStart(s) /\ EraseFrom(s)

Redraw ==
  /\ Pressed("^L")
  /\ screen' = Fresh(Text, cursor)
  /\ UNCHANGED <<line, tabbed, memory, around>>

(* Cells from s up to l are zeroed.                                        *)
ZeroFrom(s) == [i \in Cells |-> IF s <= i /\ i < l THEN NUL ELSE cmd[i]]

(* Seeded bug: the cursor stays where it was.                              *)
ClearKeepsCursor ==
  /\ Pressed("^U")
  /\ cmd' = ZeroFrom(0) /\ l' = 0 /\ screen' = Cleared
  /\ UNCHANGED <<cursor, tabbed, memory, around>>

ClearLine ==
  /\ Pressed("^U")
  /\ cmd' = ZeroFrom(0) /\ l' = 0 /\ cursor' = 0
  /\ screen' = Cleared
  /\ UNCHANGED <<tabbed, memory, around>>

KillToEnd ==
  /\ Pressed("^K")
  /\ cmd' = ZeroFrom(cursor) /\ l' = cursor
  /\ screen' = Back(Put(screen, Blanks(l - cursor)), l - cursor)
  /\ UNCHANGED <<cursor, tabbed, memory, around>>

(* ^Z clears the line, shows the prompt behind the old one, leaves config. *)
CtrlZ ==
  /\ Pressed("^Z")
  /\ \/ ~config /\ UNCHANGED <<line, screen, config>>
     \/ /\ config /\ config' = FALSE
        /\ cmd' = ZeroFrom(0) /\ l' = 0 /\ cursor' = 0
        /\ screen' = [Put(Cleared, Prompt) EXCEPT !.base = screen.base + PromptWidth]
  /\ UNCHANGED <<tabbed, memory, kept, session>>

Left ==
  /\ Pressed("^B")
  /\ \/ cursor = 0 /\ UNCHANGED <<cursor, screen>>
     \/ cursor > 0 /\ cursor' = cursor - 1 /\ screen' = Back(screen, 1)
  /\ UNCHANGED <<cmd, l, tabbed, memory, around>>

Right ==
  /\ Pressed("^F")
  /\ \/ cursor = l /\ UNCHANGED <<cursor, screen>>
     \/ cursor < l /\ cursor' = cursor + 1 /\ screen' = Put(screen, <<cmd[cursor]>>)
  /\ UNCHANGED <<cmd, l, tabbed, memory, around>>

(* ^A goes to the start of the row and shows the prompt again.             *)
Home ==
  /\ Pressed("^A")
  /\ \/ cursor = 0 /\ UNCHANGED <<cursor, screen>>
     \/ /\ cursor > 0 /\ cursor' = 0
        /\ screen' = Put([screen EXCEPT !.col = 0], Prompt)
  /\ UNCHANGED <<cmd, l, tabbed, memory, around>>

End ==
  /\ Pressed("^E")
  /\ cursor' = l
  /\ screen' = Put(screen, [i \in 1..(l - cursor) |-> cmd[cursor + i - 1]])
  /\ UNCHANGED <<cmd, l, tabbed, memory, around>>

-----------------------------------------------------------------------------
(* History.                                                                *)

NoHistory == [i \in Places |-> NUL]

SomeLine == \E i \in Places : history[i] # NUL

(* Seeded bug: a line is recorded though it repeats the one before.        *)
AddAlways(h, s) ==
  IF \E i \in Places : h[i] = NUL
  THEN [h EXCEPT ![CHOOSE n \in Places :
                     h[n] = NUL /\ \A k \in 0..(n - 1) : h[k] # NUL] = s]
  ELSE [i \in Places |-> IF i < MaxHistory - 1 THEN h[i + 1] ELSE s]

(* The first free place gets the line, unless the one before is the same;  *)
(* when all are taken the first line is dropped.                           *)
AddHistory(h, s) ==
  IF \E i \in Places : h[i] = NUL
  THEN LET i == CHOOSE n \in Places : h[n] = NUL /\ \A k \in 0..(n - 1) : h[k] # NUL
       IN  IF i > 0 /\ SameLine(h[i - 1], s) THEN h ELSE [h EXCEPT ![i] = s]
  ELSE [i \in Places |-> IF i < MaxHistory - 1 THEN h[i + 1] ELSE s]

(* Seeded bug: the cursor is not moved to the end of the line shown.       *)
ShowItemCursor(i) ==
  /\ cmd' = [n \in Cells |-> IF n < Len(history[i]) THEN history[i][n + 1] ELSE NUL]
  /\ l' = Len(history[i]) /\ cursor' = 0
  /\ screen' = Put(Cleared, history[i])

ShowItem(i) ==
  /\ cmd' = [n \in Cells |-> IF n < Len(history[i]) THEN history[i][n + 1] ELSE NUL]
  /\ l' = Len(history[i]) /\ cursor' = l'
  /\ screen' = Put(Cleared, history[i])

(* Place i is the one to show; it may be free, or before the first.        *)
Recalled(i) ==
  /\ in_history' = i
  /\ IF i \in Places /\ history[i] # NUL
     THEN ShowItem(i) ELSE UNCHANGED <<line, screen>>
  /\ UNCHANGED <<tabbed, history, around>>

(* Seeded bug: the last place is taken for the newest line.                *)
NewestLast(i) == i = MaxHistory - 1

Newest(i) ==
  IF SomeLine
  THEN /\ i \in Places /\ history[i] # NUL
       /\ \A n \in Places : n > i => history[n] = NUL
  ELSE i = -1

Oldest(i) ==
  /\ i \in Places /\ history[i] # NUL
  /\ \A n \in Places : n < i => history[n] = NUL

Up ==
  /\ Pressed("^P")
  /\ \/ in_history <= 0 /\ \E i \in Places \cup {-1} : Newest(i) /\ Recalled(i)
     \/ in_history \in 1..MaxHistory /\ Recalled(in_history - 1)
     \/ in_history > MaxHistory /\ Fault

Down ==
  /\ Pressed("^N")
  /\ in_history < MaxDown
  /\ LET next == in_history + 1 IN
       IF next < MaxHistory /\ history[next] # NUL THEN Recalled(next)
       ELSE IF SomeLine THEN \E i \in Places : Oldest(i) /\ Recalled(i)
       ELSE Recalled(next)

-----------------------------------------------------------------------------
(* Lines that are run.                                                     *)

EmptyLine == cmd' = [i \in Cells |-> NUL] /\ l' = 0 /\ cursor' = 0

NextLine == in_history' = 0 /\ tabbed' = FALSE /\ kept' = FALSE

Enter ==
  /\ Pressed("CR")
  /\ \/ /\ l = 0 /\ EmptyLine /\ NextLine
        /\ screen' = Fresh(<<>>, 0)
        /\ UNCHANGED <<history, config, session>>
     \/ /\ l > 0 /\ session' = "running"
        /\ UNCHANGED <<line, tabbed, memory, screen, config, kept>>

(* The line asks for help with the `?` at its end, which is taken off      *)
(* before the next turn.                                                   *)
RunHelp(b, n) ==
  /\ cmd' = b /\ l' = n + 1 /\ cursor' = n
  /\ kept' = TRUE /\ session' = "running"
  /\ UNCHANGED <<tabbed, memory, screen, config>>

(* cli_add_history and cli_run_command.  The command may change the mode   *)
(* or end the session; then the next line begins.                          *)
Execute ==
  /\ session = "running"
  /\ \/ /\ Terminated(cmd)
        /\ config' \in BOOLEAN
        /\ \/ /\ session' = "open"
              /\ history' =
                   IF cmd[l - 1] = QMark \/ \E s \in Unrecorded : SameLine(CString(cmd), s)
                   THEN history ELSE AddHistory(history, CString(cmd))
           \/ session' = "closed" /\ history' = NoHistory
        /\ IF kept
           THEN /\ cmd' = [cmd EXCEPT ![l - 1] = NUL]
                /\ l' = l - 1 /\ cursor' = l - 1
           ELSE EmptyLine
        /\ NextLine
        /\ screen' = Fresh(Text', l')
     \/ ~Terminated(cmd) /\ Fault
  /\ UNCHANGED <<esc, iac>>

(* `?` at the end of the line: nothing to show, or a list of what fits ... *)
HelpListed ==
  /\ Pressed(QMark) /\ cursor = l
  /\ \/ Terminated(cmd) /\ screen' \in {screen, Fresh(Text, l)}
        /\ UNCHANGED <<line, tabbed, memory, around>>
     \/ ~Terminated(cmd) /\ Fault

(* ... or, for a command without options, the command itself is asked.     *)
HelpAsked ==
  /\ Pressed(QMark)
  /\ \/ /\ cursor = l /\ Room
        /\ RunHelp([cmd EXCEPT ![l] = QMark], l)
     \/ /\ cursor = l /\ ~Room /\ l < MaxLine
        /\ cmd' = [cmd EXCEPT ![l] = NUL]
        /\ UNCHANGED <<l, cursor, tabbed, memory, screen, around>>
     \/ PushesOut(QMark) /\ RunHelp(Inserted(QMark), cursor)

(* ^D on an empty line.                                                    *)
EndOfText ==
  /\ Pressed("^D")
  /\ IF l = 0 THEN session' = "closed" /\ history' = NoHistory
              ELSE UNCHANGED <<session, history>>
  /\ UNCHANGED <<line, tabbed, in_history, screen, config, kept>>

(* The terminal is gone, or was idle for too long.                         *)
HangUp ==
  /\ session = "open"
  /\ session' = "closed" /\ history' = NoHistory
  /\ UNCHANGED <<line, tabbed, in_history, esc, iac, screen, config, kept>>

-----------------------------------------------------------------------------
(* TAB.                                                                    *)

(* cli_parse_line: words end at a blank or bar outside quotes and at a     *)
(* quote; the word to complete is the last one, empty behind a blank.      *)
InQuote(s, i) == Cardinality({j \in 1..(i - 1) : s[j] = Quote}) % 2 = 1

StartsWord(s, i) ==
  IF i = 0 THEN TRUE
  ELSE \/ s[i] = Quote
       \/ s[i] \in Breaks /\ ~InQuote(s, i)
       \/ s[i] = Space /\ i = Len(s)

WordEnd(s) ==
  IF s # <<>> /\ Last(s) = Quote /\ InQuote(s, Len(s)) THEN Len(s) - 1 ELSE Len(s)

(* An entry that the command tree or an option's values may offer: it      *)
(* extends the word between b and the end.                                 *)
Offered(e) ==
  LET s == CString(cmd) IN
  \E b \in 0..WordEnd(s) :
    /\ StartsWord(s, b)
    /\ \A i \in (b + 1)..WordEnd(s) : ~StartsWord(s, i)
    /\ Extends(e, SubSeq(s, b + 1, WordEnd(s)))

(* Seeded bug: a completion overwrites the line from its beginning.        *)
OverwritesLine(s) == s = 0

(* What the completion overwrites begins behind the last blank or bar.     *)
Overwrites(s) ==
  /\ s \in 0..l
  /\ \A i \in s..(l - 1) : cmd[i] \notin Breaks
  /\ s > 0 => cmd[s - 1] \in Breaks

WriteWord(w) ==
  \E s \in 0..l :
    /\ Overwrites(s)
    /\ \/ s + Len(w) > MaxLine /\ Fault
       \/ /\ s + Len(w) <= MaxLine
          /\ cmd' = [i \in Cells |->
                       IF s <= i /\ i < s + Len(w) THEN w[i - s + 1] ELSE cmd[i]]
          /\ l' = s + Len(w) /\ cursor' = l'
          /\ tabbed' \in BOOLEAN
          /\ screen' = Put(Back(screen, l - s), w)
          /\ UNCHANGED <<memory, around>>

Completing == Pressed("^I") /\ cursor = l /\ Terminated(cmd)

(* One entry: the word and a blank.                                        *)
TabWord ==
  /\ Completing /\ ~tabbed
  /\ \E e \in Words : Offered(e) /\ WriteWord(Append(e, Space))
  /\ tabbed' = FALSE

(* The first k characters of f are shared by all of the entries es.        *)
Shared(es, f, k) ==
  /\ \A e \in es : Extends(e, SubSeq(f, 1, k))
  /\ \A j \in (k + 1)..Len(f) : \E e \in es : ~Extends(e, SubSeq(f, 1, j))

(* Several: as much as they share.                                         *)
TabPrefix ==
  /\ Completing /\ ~tabbed
  /\ \E es \in SUBSET Words : \E f \in es : \E k \in 1..Len(f) :
       /\ \A e \in es : Offered(e)
       /\ Shared(es, f, k)
       /\ WriteWord(SubSeq(f, 1, k))
  /\ tabbed' = TRUE

(* No entry, or none to be filled in, or, after a TAB, the list of them.   *)
TabOnly ==
  /\ Pressed("^I")
  /\ \/ cursor < l /\ UNCHANGED <<screen, tabbed, session>>
     \/ /\ cursor = l /\ Terminated(cmd)
        /\ tabbed' \in {tabbed, TRUE} /\ screen' \in {screen, Fresh(Text, l)}
        /\ UNCHANGED session
     \/ /\ cursor = l /\ ~Terminated(cmd)
        /\ session' = "faulted" /\ UNCHANGED <<screen, tabbed>>
  /\ UNCHANGED <<line, memory, config, kept>>

-----------------------------------------------------------------------------
Init ==
  /\ cmd = [i \in Cells |-> NUL] /\ l = 0 /\ cursor = 0
  /\ tabbed = FALSE /\ in_history = 0 /\ history = NoHistory
  /\ esc = "none" /\ iac = FALSE /\ config = FALSE
  /\ screen = Fresh(<<>>, 0) /\ kept = FALSE /\ session = "open"

Next ==
  \/ Swallow
  \/ \E c \in Chars : TypeAtEnd(c) \/ TypeInside(c)
  \/ Backspace \/ EraseWord \/ ClearLine \/ KillToEnd
  \/ Redraw \/ CtrlZ \/ Left \/ Right \/ Home \/ End
  \/ Up \/ Down
  \/ Enter \/ Execute \/ HelpListed \/ HelpAsked \/ EndOfText \/ HangUp
  \/ TabWord \/ TabPrefix \/ TabOnly

Spec == Init /\ [][Next]_vars
-----------------------------------------------------------------------------
(* Properties.                                                             *)

(* Every variable has its type.                                            *)
TypeOK ==
  /\ cmd \in [Cells -> Chars \cup {NUL}]
  /\ l \in 0..MaxLine /\ cursor \in 0..l
  /\ in_history \in -1..MaxDown
  /\ history \in [Places -> Seq(Chars) \cup {NUL}]
  /\ {tabbed, iac, config, kept} \subseteq BOOLEAN
  /\ esc \in {"none", "esc", "["}
  /\ session \in {"open", "running", "closed", "faulted"}

(* As long as nothing was completed from a quoted word, the buffer is the  *)
(* line: no cell of the line is NUL and all behind it are, so that the     *)
(* string that is run is what was edited, whatever keys led there.         *)
LineIsString ==
  /\ \A i \in Cells : (i < l) <=> (cmd[i] # NUL)

(* The row of the terminal shows the prompt, the line and nothing else,    *)
(* with the cursor where the buffer has it, unless ^Z has put a second     *)
(* prompt on the row.                                                      *)
ScreenSync ==
  session = "open" /\ screen.base = PromptWidth =>
    /\ screen.col = PromptWidth + cursor
    /\ \A i \in Columns :
         screen.row[i] = IF i < PromptWidth THEN "prompt"
                         ELSE IF i < PromptWidth + l THEN cmd[i - PromptWidth]
                         ELSE Space

(* Typing, whatever the place of the cursor, stops one cell before the end *)
(* of the buffer, and history lines fit: only a completion makes the line  *)
(* outgrow it, and nothing undefined happens but to such a line and behind *)
(* the end of an empty history.                                            *)
OnlyCompletionOverruns ==
  [][l' = MaxLine \/ session' = "faulted" =>
       \/ l = MaxLine \/ TabWord \/ TabPrefix
       \/ ~SomeLine /\ in_history > MaxHistory]_vars

(* The history is filled from its first place on, and no line follows its  *)
(* equal while there is a free place.                                      *)
HistoryFilled ==
  /\ \A i \in Places \ {0} : history[i] # NUL => history[i - 1] # NUL
  /\ history[MaxHistory - 1] = NUL =>
       \A i \in Places \ {0} :
         history[i] # NUL => ~SameLine(history[i - 1], history[i])

(* The number of recorded lines.                                           *)
Recorded == Cardinality({i \in Places : history[i] # NUL})

(* With lines in the history the arrow keys go round them one by one: no   *)
(* line is out of reach and each press shows one.                          *)
RecallIsCyclic ==
  [][SomeLine /\ session' = "open" =>
       /\ Up => in_history' = (in_history - 1) % Recorded
       /\ Down => in_history' = (in_history + 1) % Recorded
       /\ (Up \/ Down) => Text' = history[in_history']]_vars

(* The editor implements TextLine: what is run is the text as it was       *)
(* edited, and help gives it back.                                         *)
Abstract == INSTANCE TextLine WITH
  Help <- QMark,
  Capacity <- MaxLine - 1,
  before <- SubSeq(Text, 1, cursor),
  after <- IF kept THEN <<>> ELSE SubSeq(Text, cursor + 1, l),
  ran <- IF session = "running" /\ Terminated(cmd) THEN CString(cmd) ELSE <<>>,
  keep <- kept,
  recorded <- {history[i] : i \in {n \in Places : history[n] # NUL}}

TextLineSpec == Abstract!TextSpec
=============================================================================
