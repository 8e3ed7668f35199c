-------------------------- MODULE LineEditorProofs --------------------------
(***************************************************************************)
(* The buffer of the line editor, its history and its terminal, for every  *)
(* size, alphabet and word list: no key but a quote breaks the agreement   *)
(* between the length, the cursor and the terminating NUL, and the row of  *)
(* the terminal shows the line then; the history has no holes whatever is  *)
(* typed.                                                                  *)
(***************************************************************************)
EXTENDS LineEditor, TLAPS, FiniteSetTheorems, WellFoundedInduction

Plain == Chars \ {Quote}

LineOK ==
  /\ cmd \in [Cells -> Plain \cup {NUL}]
  /\ l \in 0..MaxLine /\ cursor \in 0..l
  /\ LineIsString

Recordable == {s \in Seq(Plain) : Len(s) < MaxLine}

HistoryOK == history \in [Places -> Recordable \cup {NUL}]

FlagsOK ==
  /\ in_history \in -1..MaxDown
  /\ tabbed \in BOOLEAN /\ iac \in BOOLEAN /\ config \in BOOLEAN /\ kept \in BOOLEAN
  /\ esc \in {"none", "esc", "["}
  /\ session \in {"open", "running", "closed", "faulted"}

KeptOK == kept => l > 0 /\ session \in {"running", "faulted"}

IInv == LineOK /\ HistoryOK /\ FlagsOK /\ KeptOK

LEMMA CharFacts ==
  /\ NUL \notin Plain /\ NUL \notin Chars
  /\ Letters \subseteq Plain /\ Space \in Plain /\ QMark \in Plain
  /\ Plain \subseteq Chars
  /\ Space \in Breaks /\ Breaks = {Space, Bar}
BY CharAssumption DEF Plain, Chars, Space, Bar, Quote, QMark, Breaks

(* b is a buffer that holds a line of n characters, the cursor at place p. *)
Holds(b, n, p) ==
  /\ b \in [Cells -> Plain \cup {NUL}]
  /\ n \in 0..MaxLine /\ p \in 0..n
  /\ \A i \in Cells : (i < n) <=> (b[i] # NUL)

(* The string in the buffer is the line.                                   *)
LEMMA StringOf ==
  ASSUME NEW b, NEW n, NEW p, Holds(b, n, p), n < MaxLine
  PROVE  Terminated(b) /\ StrLen(b) = n /\ CString(b) = [i \in 1..n |-> b[i - 1]]
<1>1. n \in Cells /\ b[n] = NUL /\ \A i \in 0..(n - 1) : b[i] # NUL
  BY SizeAssumption DEF Holds, Cells
<1>2. Terminated(b)
  BY <1>1 DEF Terminated
<1>3. ASSUME NEW k \in Cells, b[k] = NUL, \A i \in 0..(k - 1) : b[i] # NUL
      PROVE  k = n
  <2>1. k \in Nat /\ n \in Nat
    BY SizeAssumption DEF Cells, Holds
  <2>2. ~(k < n) /\ ~(n < k)
    BY <1>1, <1>3, <2>1 DEF Cells
  <2>. QED BY <2>1, <2>2
<1>4. StrLen(b) = n
  BY <1>1, <1>3 DEF StrLen
<1>. QED BY <1>2, <1>4 DEF CString

LEMMA LineTyped ==
  ASSUME NEW b, NEW n, NEW p, Holds(b, n, p)
  PROVE  /\ [i \in 1..n |-> b[i - 1]] \in Seq(Plain)
         /\ Len([i \in 1..n |-> b[i - 1]]) = n
<1>1. n \in Nat /\ \A i \in 1..n : b[i - 1] \in Plain
  BY SizeAssumption DEF Holds, Cells
<1>. QED BY <1>1

LEMMA StringIsText ==
  ASSUME LineOK, l < MaxLine
  PROVE  /\ Terminated(cmd) /\ StrLen(cmd) = l /\ CString(cmd) = Text
         /\ Text \in Seq(Plain) /\ Len(Text) = l
BY StringOf, LineTyped DEF LineOK, LineIsString, Holds, Text

-----------------------------------------------------------------------------
(* What the handlers do to the buffer.                                     *)

LEMMA InitialLine ==
  ASSUME EmptyLine
  PROVE  LineOK'
BY CharFacts, SizeAssumption DEF EmptyLine, LineOK, LineIsString, Cells

LEMMA ZeroKeeps ==
  ASSUME LineOK, NEW s \in 0..l, cmd' = ZeroFrom(s), l' = s, cursor' \in 0..s
  PROVE  LineOK'
<1>1. cmd' \in [Cells -> Plain \cup {NUL}]
  BY DEF ZeroFrom, LineOK
<1>2. l' \in 0..MaxLine /\ cursor' \in 0..l'
  BY SizeAssumption DEF LineOK
<1>3. ASSUME NEW i \in Cells
      PROVE  (i < l') <=> (cmd'[i] # NUL)
  BY SizeAssumption DEF ZeroFrom, LineOK, LineIsString, Cells
<1>. QED BY <1>1, <1>2, <1>3 DEF LineOK, LineIsString

LEMMA EraseKeeps ==
  ASSUME LineOK, NEW s \in 0..cursor, EraseFrom(s)
  PROVE  LineOK'
<1>. DEFINE k == cursor - s
<1>0. /\ l \in 0..MaxLine /\ MaxLine \in Nat /\ cursor \in 0..l /\ s \in Nat /\ k \in Nat
      /\ s + k = cursor /\ l' = l - k /\ cursor' = s
  BY SizeAssumption DEF LineOK, EraseFrom
<1>1. cmd' = [i \in Cells |-> IF i < s \/ i >= l THEN cmd[i]
                              ELSE IF i + k < l THEN cmd[i + k] ELSE NUL]
  BY DEF EraseFrom
<1>2. cmd' \in [Cells -> Plain \cup {NUL}]
  <2>. SUFFICES ASSUME NEW i \in Cells, ~(i < s \/ i >= l), i + k < l
                PROVE  cmd[i + k] \in Plain \cup {NUL}
    BY <1>1 DEF LineOK
  <2>1. i + k \in Cells
    BY <1>0 DEF Cells
  <2>. QED BY <2>1 DEF LineOK
<1>3. ASSUME NEW i \in Cells
      PROVE  (i < l') <=> (cmd'[i] # NUL)
  <2>0. i \in Nat
    BY <1>0 DEF Cells
  <2>1. CASE i < s
    BY <2>0, <2>1, <1>0, <1>1 DEF LineOK, LineIsString
  <2>2. CASE i >= l
    BY <2>0, <2>2, <1>0, <1>1 DEF LineOK, LineIsString
  <2>3. CASE ~(i < s) /\ i < l /\ i + k < l
    <3>1. i + k \in Cells
      BY <2>0, <2>3, <1>0 DEF Cells
    <3>2. cmd'[i] = cmd[i + k] /\ cmd[i + k] # NUL
      BY <2>0, <2>3, <3>1, <1>0, <1>1 DEF LineOK, LineIsString
    <3>. QED BY <2>0, <2>3, <3>2, <1>0
  <2>4. CASE ~(i < s) /\ i < l /\ ~(i + k < l)
    BY <2>0, <2>4, <1>0, <1>1
  <2>. QED BY <2>0, <2>1, <2>2, <2>3, <2>4, <1>0
<1>4. l' \in 0..MaxLine /\ cursor' \in 0..l'
  BY <1>0
<1>. QED BY <1>2, <1>3, <1>4 DEF LineOK, LineIsString

(* A character put into the line, at its end too.                          *)
LEMMA InsertKeeps ==
  ASSUME LineOK, l < MaxLine, cursor < l, NEW c \in Plain,
         cmd' = Inserted(c),
         l' = IF Room THEN l + 1 ELSE l,
         cursor' \in {cursor, cursor + 1}
  PROVE  LineOK'
<1>0. l \in Nat /\ cursor \in Nat /\ MaxLine \in Nat /\ l \in Cells
  BY SizeAssumption DEF LineOK, Cells
<1>1. cmd' \in [Cells -> Plain \cup {NUL}]
  <2>. SUFFICES ASSUME NEW i \in Cells, i # cursor, cursor < i
                PROVE  cmd[i - 1] \in Plain \cup {NUL}
    BY DEF Inserted, LineOK
  <2>1. i - 1 \in Cells
    BY <1>0 DEF Cells
  <2>. QED BY <2>1 DEF LineOK
<1>2. ASSUME NEW i \in Cells
      PROVE  (i < l') <=> (cmd'[i] # NUL)
  <2>0. i \in Nat /\ i < MaxLine /\ cmd'[i] = Inserted(c)[i]
    BY <1>0 DEF Cells
  <2>1. CASE i = cursor
    BY <2>0, <2>1, <1>0, CharFacts DEF Inserted, Room
  <2>2. CASE i < cursor
    BY <2>0, <2>2, <1>0 DEF Inserted, LineOK, LineIsString, Room
  <2>3. CASE l < i
    BY <2>0, <2>3, <1>0 DEF Inserted, LineOK, LineIsString, Room
  <2>4. CASE cursor < i /\ i <= l /\ ~(~Room /\ i = l)
    <3>1. i - 1 \in Cells /\ i - 1 < l
      BY <2>0, <2>4, <1>0 DEF Cells
    <3>2. cmd'[i] = cmd[i - 1] /\ cmd[i - 1] # NUL
      BY <2>0, <2>4, <3>1, <1>0 DEF Inserted, LineOK, LineIsString
    <3>. QED BY <2>0, <2>4, <3>2, <1>0 DEF Room
  <2>5. CASE ~Room /\ i = l
    BY <2>0, <2>5, <1>0 DEF Inserted, Room
  <2>. QED BY <2>0, <2>1, <2>2, <2>3, <2>4, <2>5, <1>0
<1>3. l' \in 0..MaxLine /\ cursor' \in 0..l'
  BY <1>0 DEF Room
<1>. QED BY <1>1, <1>2, <1>3 DEF LineOK, LineIsString

LEMMA AppendKeeps ==
  ASSUME LineOK, Room, NEW c \in Plain,
         cmd' = [cmd EXCEPT ![l] = c], l' = l + 1, cursor' \in {l, l + 1}
  PROVE  LineOK'
<1>0. l \in Nat /\ MaxLine \in Nat /\ l \in Cells /\ c # NUL
  BY SizeAssumption, CharFacts DEF LineOK, Cells, Room
<1>1. ASSUME NEW i \in Cells
      PROVE  (i < l') <=> (cmd'[i] # NUL)
  BY <1>0 DEF LineOK, LineIsString, Cells
<1>2. l' \in 0..MaxLine /\ cursor' \in 0..l'
  BY <1>0 DEF Room
<1>. QED BY <1>0, <1>1, <1>2 DEF LineOK, LineIsString

(* The last character of the line is taken off.                            *)
LEMMA ChopKeeps ==
  ASSUME LineOK, 0 < l, cmd' = [cmd EXCEPT ![l - 1] = NUL], l' = l - 1, cursor' = l - 1
  PROVE  LineOK'
<1>0. l \in Nat /\ MaxLine \in Nat /\ l - 1 \in Cells /\ l <= MaxLine
  BY SizeAssumption DEF LineOK, Cells
<1>1. ASSUME NEW i \in Cells
      PROVE  (i < l') <=> (cmd'[i] # NUL)
  BY <1>0 DEF LineOK, LineIsString, Cells
<1>2. l' \in 0..MaxLine /\ cursor' \in 0..l'
  BY <1>0
<1>. QED BY <1>0, <1>1, <1>2 DEF LineOK, LineIsString

LEMMA ShowKeeps ==
  ASSUME HistoryOK, NEW i \in Places, history[i] # NUL, ShowItem(i)
  PROVE  LineOK'
<1>. DEFINE h == history[i]
<1>0. h \in Seq(Plain) /\ Len(h) \in Nat /\ Len(h) < MaxLine /\ MaxLine \in Nat
  BY SizeAssumption DEF HistoryOK, Recordable
<1>1. cmd' = [n \in Cells |-> IF n < Len(h) THEN h[n + 1] ELSE NUL]
  BY DEF ShowItem
<1>2. ASSUME NEW n \in Cells, n < Len(h)
      PROVE  h[n + 1] \in Plain
  <2>1. n + 1 \in 1..Len(h)
    BY <1>0, <1>2 DEF Cells
  <2>. QED BY <2>1, <1>0
<1>3. cmd' \in [Cells -> Plain \cup {NUL}]
  BY <1>1, <1>2
<1>4. ASSUME NEW n \in Cells
      PROVE  (n < l') <=> (cmd'[n] # NUL)
  BY <1>1, <1>2, CharFacts DEF ShowItem
<1>5. l' \in 0..MaxLine /\ cursor' \in 0..l'
  BY <1>0 DEF ShowItem
<1>. QED BY <1>3, <1>4, <1>5 DEF LineOK, LineIsString
LEMMA WriteKeeps ==
  ASSUME LineOK, NEW w \in Seq(Plain), NEW s \in 0..l, l <= s + Len(w), s + Len(w) <= MaxLine,
         cmd' = [i \in Cells |->
                   IF s <= i /\ i < s + Len(w) THEN w[i - s + 1] ELSE cmd[i]],
         l' = s + Len(w), cursor' = l'
  PROVE  LineOK'
<1>0. l \in Nat /\ s \in Nat /\ Len(w) \in Nat /\ MaxLine \in Nat /\ s <= l
  BY SizeAssumption DEF LineOK
<1>1. ASSUME NEW i \in Cells, s <= i, i < s + Len(w)
      PROVE  w[i - s + 1] \in Plain
  <2>1. i - s + 1 \in 1..Len(w)
    BY <1>0, <1>1 DEF Cells
  <2>. QED BY <2>1
<1>2. cmd' \in [Cells -> Plain \cup {NUL}]
  BY <1>1 DEF LineOK
<1>3. ASSUME NEW i \in Cells
      PROVE  (i < l') <=> (cmd'[i] # NUL)
  <2>0. i \in Nat
    BY <1>0 DEF Cells
  <2>1. CASE s <= i /\ i < s + Len(w)
    BY <2>0, <2>1, <1>0, <1>1, CharFacts
  <2>2. CASE i < s
    BY <2>0, <2>2, <1>0 DEF LineOK, LineIsString
  <2>3. CASE s + Len(w) <= i
    BY <2>0, <2>3, <1>0 DEF LineOK, LineIsString
  <2>. QED BY <2>0, <2>1, <2>2, <2>3, <1>0
<1>4. l' \in 0..MaxLine /\ cursor' \in 0..l'
  BY <1>0
<1>. QED BY <1>2, <1>3, <1>4 DEF LineOK, LineIsString

-----------------------------------------------------------------------------
(* What a completion overwrites is the word it completes.                  *)

LEMMA OfferedLonger ==
  ASSUME LineOK, Terminated(cmd), NEW s, Overwrites(s), NEW e, Offered(e)
  PROVE  /\ s \in 0..l /\ l < MaxLine
         /\ l - s <= Len(e)
         /\ \A i \in 1..(l - s) : Fold[cmd[s + i - 1]] = Fold[e[i]]
<1>0. l \in Nat /\ l < MaxLine /\ MaxLine \in Nat /\ s \in 0..l
  BY SizeAssumption DEF LineOK, LineIsString, Terminated, Cells, Overwrites
<1>1. CString(cmd) = Text /\ Text \in Seq(Plain) /\ Len(Text) = l
  BY <1>0, StringIsText
<1>2. \A i \in 1..l : Text[i] = cmd[i - 1] /\ Text[i] # Quote
  BY <1>0, <1>1 DEF Text, Plain
<1>3. ASSUME NEW i \in 0..l
      PROVE  ~InQuote(Text, i)
  <2>1. {j \in 1..(i - 1) : Text[j] = Quote} = {}
    BY <1>0, <1>2
  <2>2. Cardinality({}) = 0
    BY FS_EmptySet
  <2>. QED BY <2>1, <2>2 DEF InQuote
<1>4. WordEnd(Text) = l
  BY <1>0, <1>1, <1>3 DEF WordEnd
<1>5. PICK b \in 0..l :
        /\ StartsWord(Text, b)
        /\ \A i \in (b + 1)..l : ~StartsWord(Text, i)
        /\ Extends(e, SubSeq(Text, b + 1, l))
  BY <1>1, <1>4 DEF Offered
<1>6. s <= b
  <2>1. CASE s = 0
    BY <2>1
  <2>2. CASE s > 0
    <3>1. Text[s] \in Breaks /\ ~InQuote(Text, s)
      BY <2>2, <1>0, <1>2, <1>3 DEF Overwrites
    <3>2. StartsWord(Text, s)
      BY <2>2, <3>1 DEF StartsWord
    <3>. QED BY <3>2, <1>0, <1>5
  <2>. QED BY <2>1, <2>2, <1>0
<1>7. b <= s
  <2>. SUFFICES ASSUME s < b PROVE FALSE
    BY <1>0
  <2>1. b - 1 \in s..(l - 1) /\ b \in 1..l
    BY <1>0
  <2>2. Text[b] = cmd[b - 1] /\ cmd[b - 1] \notin Breaks /\ Text[b] # Quote
    BY <2>1, <1>2 DEF Overwrites
  <2>. QED BY <2>1, <2>2, <1>5, CharFacts DEF StartsWord
<1>8. b = s
  BY <1>0, <1>6, <1>7
<1>9. /\ Len(SubSeq(Text, s + 1, l)) = l - s
      /\ \A i \in 1..(l - s) : SubSeq(Text, s + 1, l)[i] = Text[s + i]
  BY <1>0, <1>1
<1>10. l - s <= Len(e) /\ \A i \in 1..(l - s) : Fold[Text[s + i]] = Fold[e[i]]
  BY <1>5, <1>8, <1>9 DEF Extends
<1>11. \A i \in 1..(l - s) : Text[s + i] = cmd[s + i - 1]
  BY <1>0, <1>2
<1>. QED BY <1>0, <1>10, <1>11

LEMMA PrefixLonger ==
  ASSUME LineOK, Terminated(cmd), NEW s, Overwrites(s),
         NEW es \in SUBSET Words, NEW f \in es, NEW k \in 1..Len(f),
         \A e \in es : Offered(e), Shared(es, f, k)
  PROVE  l - s <= k
<1>. SUFFICES ASSUME k < l - s PROVE FALSE
  BY OfferedLonger DEF LineOK
<1>. DEFINE m == l - s
<1>1. /\ s \in 0..l /\ l \in Nat /\ m <= Len(f)
      /\ \A i \in 1..m : Fold[cmd[s + i - 1]] = Fold[f[i]]
  BY OfferedLonger, SizeAssumption DEF LineOK
<1>2. f \in Seq(Letters)
  BY CharAssumption
<1>3. m \in (k + 1)..Len(f)
  BY <1>1, <1>2
<1>4. PICK e \in es : ~Extends(e, SubSeq(f, 1, m))
  BY <1>3 DEF Shared
<1>5. m <= Len(e) /\ \A i \in 1..m : Fold[cmd[s + i - 1]] = Fold[e[i]]
  BY OfferedLonger
<1>6. Len(SubSeq(f, 1, m)) = m /\ \A i \in 1..m : SubSeq(f, 1, m)[i] = f[i]
  BY <1>1, <1>2, <1>3
<1>. QED BY <1>1, <1>4, <1>5, <1>6 DEF Extends

-----------------------------------------------------------------------------
(* What the keys leave alone.                                              *)

LEMMA PressedFacts ==
  ASSUME IInv, NEW k, Pressed(k)
  PROVE  session = "open" /\ kept = FALSE /\ esc' = "none" /\ iac' = FALSE
BY DEF Pressed, IInv, KeptOK, FlagsOK

LEMMA SameBuffer ==
  ASSUME LineOK, UNCHANGED <<cmd, l>>, cursor' \in 0..l
  PROVE  LineOK'
BY DEF LineOK, LineIsString

LEMMA SameHistory ==
  ASSUME HistoryOK, UNCHANGED history
  PROVE  HistoryOK'
BY DEF HistoryOK

LEMMA NothingRecorded == ASSUME history' = NoHistory PROVE HistoryOK'
BY DEF HistoryOK, NoHistory

(* A key that changes no more than the line: what is left to show.         *)
LEMMA EditKey ==
  ASSUME IInv, NEW k, Pressed(k), LineOK',
         UNCHANGED <<memory, kept, session>>,
         config' \in BOOLEAN, tabbed' \in BOOLEAN
  PROVE  IInv'
<1>1. session = "open" /\ kept = FALSE /\ esc' = "none" /\ iac' = FALSE
  BY PressedFacts
<1>2. HistoryOK'
  BY SameHistory DEF IInv, memory
<1>3. FlagsOK' /\ KeptOK'
  BY <1>1 DEF IInv, FlagsOK, KeptOK, memory
<1>. QED BY <1>2, <1>3 DEF IInv

LEMMA FaultKeeps ==
  ASSUME IInv, session = "open" \/ session = "running", Fault,
         esc' \in {"none", "esc", "["}, iac' \in BOOLEAN
  PROVE  IInv'
<1>1. LineOK'
  <2>1. cursor' \in 0..l /\ UNCHANGED <<cmd, l>>
    BY DEF Fault, line, IInv, LineOK
  <2>. QED BY <2>1, SameBuffer DEF IInv
<1>2. HistoryOK'
  BY SameHistory DEF IInv, Fault, memory
<1>3. FlagsOK' /\ KeptOK'
  BY DEF IInv, FlagsOK, KeptOK, Fault, memory, line
<1>. QED BY <1>1, <1>2, <1>3 DEF IInv

LEMMA SameLineOK == ASSUME IInv, UNCHANGED line PROVE LineOK'
<1>1. cursor' \in 0..l /\ UNCHANGED <<cmd, l>>
  BY DEF line, IInv, LineOK
<1>. QED BY <1>1, SameBuffer DEF IInv

-----------------------------------------------------------------------------
(* One lemma per key.                                                      *)

LEMMA SwallowKeeps == ASSUME IInv, Swallow PROVE IInv'
<1>1. LineOK'
  BY SameLineOK DEF Swallow
<1>2. HistoryOK'
  BY SameHistory DEF IInv, Swallow, memory
<1>3. iac' \in BOOLEAN
  <2>1. (\E b : iac' = (b \in {"IAC", "OPT"})) \/ iac' = FALSE
    BY Zenon DEF Swallow
  <2>2. ASSUME NEW b, iac' = (b \in {"IAC", "OPT"})
        PROVE  iac' = TRUE \/ iac' = FALSE
    <3>1. (b \in {"IAC", "OPT"}) \in BOOLEAN
      OBVIOUS
    <3>. QED BY <2>2, <3>1
  <2>. QED BY <2>1, <2>2
<1>4. esc' \in {"none", "esc", "["}
  BY DEF Swallow, IInv, FlagsOK
<1>5. FlagsOK' /\ KeptOK'
  <2>1. UNCHANGED <<in_history, tabbed, config, kept, session, l>>
    BY DEF Swallow, memory, around, line
  <2>. QED BY <2>1, <1>3, <1>4 DEF IInv, FlagsOK, KeptOK
<1>. QED BY <1>1, <1>2, <1>5 DEF IInv

(* A character is typed as itself: it is no quote if no byte is.           *)
LEMMA TypedIsPlain ==
  ASSUME Quote \notin Bytes, NEW c \in Chars, Pressed(c)
  PROVE  c \in Plain
<1>. SUFFICES ASSUME c = Quote PROVE FALSE
  BY DEF Plain
<1>1. PICK b \in Bytes : c = b \/ c = Arrow(b)
  BY DEF Pressed
<1>2. Arrow(b) # Quote
  BY DEF Arrow, Quote
<1>. QED BY <1>1, <1>2

LEMMA TypeAtEndKeeps ==
  ASSUME IInv, Quote \notin Bytes, NEW c \in Chars, TypeAtEnd(c)
  PROVE  IInv'
<1>1. Pressed(c) /\ c \in Plain /\ cursor = l /\ LineOK
  BY TypedIsPlain DEF TypeAtEnd, IInv
<1>2. CASE /\ Room /\ cmd' = [cmd EXCEPT ![l] = c] /\ l' = l + 1 /\ cursor' = l + 1
           /\ tabbed' = FALSE /\ UNCHANGED <<memory, around>>
  <2>1. LineOK'
    BY <1>1, <1>2, AppendKeeps
  <2>. QED BY <1>1, <1>2, <2>1, EditKey DEF around, IInv, FlagsOK
<1>3. CASE /\ ~Room /\ l < MaxLine /\ cmd' = [cmd EXCEPT ![l] = NUL]
           /\ UNCHANGED <<l, cursor, tabbed, memory, screen, around>>
  <2>1. cmd' = cmd
    BY <1>1, <1>3, SizeAssumption DEF LineOK, LineIsString, Cells
  <2>2. LineOK'
    BY <1>1, <1>3, <2>1, SameLineOK DEF line
  <2>. QED BY <1>1, <1>3, <2>2, EditKey DEF around, IInv, FlagsOK
<1>4. CASE Fault
  BY <1>1, <1>4, PressedFacts, FaultKeeps
<1>. QED BY <1>2, <1>3, <1>4 DEF TypeAtEnd

LEMMA TypeInsideKeeps ==
  ASSUME IInv, Quote \notin Bytes, NEW c \in Chars, TypeInside(c)
  PROVE  IInv'
<1>1. Pressed(c) /\ c \in Plain /\ cursor < l /\ LineOK
  BY TypedIsPlain DEF TypeInside, IInv
<1>2. CASE /\ l < MaxLine /\ cmd' = Inserted(c) /\ l' = IF Room THEN l + 1 ELSE l
           /\ cursor' = cursor + 1 /\ tabbed' = FALSE /\ UNCHANGED <<memory, around>>
  <2>1. LineOK'
    BY <1>1, <1>2, InsertKeeps
  <2>. QED BY <1>1, <1>2, <2>1, EditKey DEF around, IInv, FlagsOK
<1>3. CASE Fault
  BY <1>1, <1>3, PressedFacts, FaultKeeps
<1>. QED BY <1>2, <1>3 DEF TypeInside

(* What the erasing keys share.                                            *)
LEMMA EraseKey ==
  ASSUME IInv, NEW k, Pressed(k), NEW s \in 0..cursor, EraseFrom(s)
  PROVE  IInv'
<1>1. LineOK'
  BY EraseKeeps DEF IInv
<1>. QED BY <1>1, EditKey DEF EraseFrom, around, IInv, FlagsOK

LEMMA IdleKey ==
  ASSUME IInv, NEW k, Pressed(k), UNCHANGED <<line, memory, around>>, tabbed' \in BOOLEAN
  PROVE  IInv'
<1>1. LineOK'
  BY SameLineOK
<1>. QED BY <1>1, EditKey DEF around, IInv, FlagsOK

LEMMA BackspaceKeeps == ASSUME IInv, Backspace PROVE IInv'
<1>1. CASE cursor > 0 /\ EraseFrom(cursor - 1)
  <2>1. cursor - 1 \in 0..cursor
    BY <1>1, SizeAssumption DEF IInv, LineOK
  <2>. QED BY <1>1, <2>1, EraseKey DEF Backspace
<1>2. CASE UNCHANGED <<line, tabbed, memory, screen, around>>
  BY <1>2, IdleKey DEF Backspace, IInv, FlagsOK
<1>. QED BY <1>1, <1>2 DEF Backspace

LEMMA EraseWordKeeps == ASSUME IInv, EraseWord PROVE IInv'
<1>1. ASSUME NEW s \in 0..(cursor - 1), EraseFrom(s)
      PROVE  IInv'
  <2>1. s \in 0..cursor
    BY SizeAssumption DEF IInv, LineOK
  <2>. QED BY <1>1, <2>1, EraseKey DEF EraseWord
<1>2. CASE UNCHANGED <<line, tabbed, memory, screen, around>>
  BY <1>2, IdleKey DEF EraseWord, IInv, FlagsOK
<1>. QED BY <1>1, <1>2 DEF EraseWord

LEMMA ClearKeeps == ASSUME IInv, ClearLine \/ KillToEnd \/ CtrlZ PROVE IInv'
<1>0. l \in Nat /\ cursor \in 0..l /\ MaxLine \in Nat /\ LineOK
  BY SizeAssumption DEF IInv, LineOK
<1>1. CASE ClearLine
  <2>1. LineOK'
    BY <1>0, <1>1, ZeroKeeps DEF ClearLine
  <2>. QED BY <1>1, <2>1, EditKey DEF ClearLine, around, IInv, FlagsOK
<1>2. CASE KillToEnd
  <2>1. LineOK'
    BY <1>0, <1>2, ZeroKeeps DEF KillToEnd
  <2>. QED BY <1>2, <2>1, EditKey DEF KillToEnd, around, IInv, FlagsOK
<1>3. CASE CtrlZ
  <2>1. LineOK'
    <3>1. CASE UNCHANGED line
      BY <3>1, SameLineOK
    <3>2. CASE cmd' = ZeroFrom(0) /\ l' = 0 /\ cursor' = 0
      BY <1>0, <3>2, ZeroKeeps
    <3>. QED BY <1>3, <3>1, <3>2 DEF CtrlZ
  <2>2. config' \in BOOLEAN
    BY <1>3 DEF CtrlZ, IInv, FlagsOK
  <2>. QED BY <1>3, <2>1, <2>2, EditKey DEF CtrlZ, IInv, FlagsOK
<1>. QED BY <1>1, <1>2, <1>3

LEMMA MoveKeeps ==
  ASSUME IInv, Left \/ Right \/ Home \/ End \/ Redraw
  PROVE  IInv'
<1>0. l \in Nat /\ cursor \in 0..l /\ LineOK
  BY SizeAssumption DEF IInv, LineOK
<1>1. /\ UNCHANGED <<cmd, l, tabbed, memory, around>>
      /\ cursor' \in 0..l
      /\ \E k : Pressed(k)
  BY <1>0 DEF Left, Right, Home, End, Redraw, line
<1>2. LineOK'
  BY <1>0, <1>1, SameBuffer
<1>. QED BY <1>1, <1>2, EditKey DEF around, IInv, FlagsOK

LEMMA RecalledKeeps ==
  ASSUME IInv, NEW k, Pressed(k), NEW i \in -1..MaxDown, Recalled(i)
  PROVE  IInv'
<1>1. LineOK'
  <2>1. CASE i \in Places /\ history[i] # NUL
    BY <2>1, ShowKeeps DEF Recalled, IInv
  <2>2. CASE ~(i \in Places /\ history[i] # NUL)
    BY <2>2, SameLineOK DEF Recalled
  <2>. QED BY <2>1, <2>2
<1>2. session = "open" /\ kept = FALSE /\ esc' = "none" /\ iac' = FALSE
  BY PressedFacts
<1>3. HistoryOK'
  BY SameHistory DEF IInv, Recalled
<1>4. FlagsOK' /\ KeptOK'
  BY <1>2 DEF IInv, FlagsOK, KeptOK, Recalled, around
<1>. QED BY <1>1, <1>3, <1>4 DEF IInv

LEMMA ArrowKeeps == ASSUME IInv, Up \/ Down PROVE IInv'
<1>0. /\ MaxHistory \in Nat /\ MaxDown \in Nat /\ MaxDown > MaxHistory
      /\ in_history \in -1..MaxDown /\ Places \subseteq 0..MaxDown
  BY SizeAssumption DEF IInv, FlagsOK, Places
<1>1. CASE Up
  <2>1. CASE \E i \in Places \cup {-1} : Recalled(i)
    <3>1. PICK i \in Places \cup {-1} : Recalled(i)
      BY <2>1
    <3>2. i \in -1..MaxDown
      BY <1>0
    <3>. QED BY <1>1, <3>1, <3>2, RecalledKeeps DEF Up
  <2>2. CASE in_history \in 1..MaxHistory /\ Recalled(in_history - 1)
    <3>1. in_history - 1 \in -1..MaxDown
      BY <1>0, <2>2
    <3>. QED BY <1>1, <2>2, <3>1, RecalledKeeps DEF Up
  <2>3. CASE Fault
    BY <1>1, <2>3, PressedFacts, FaultKeeps DEF Up
  <2>. QED BY <1>1, <2>1, <2>2, <2>3 DEF Up
<1>2. CASE Down
  <2>1. in_history + 1 \in -1..MaxDown
    BY <1>0, <1>2 DEF Down
  <2>2. PICK i \in Places \cup {in_history + 1} : Recalled(i)
    BY <1>2 DEF Down
  <2>3. i \in -1..MaxDown
    BY <1>0, <2>1
  <2>. QED BY <1>2, <2>2, <2>3, RecalledKeeps DEF Down
<1>. QED BY <1>1, <1>2

-----------------------------------------------------------------------------
(* Lines that are run.                                                     *)

LEMMA NextLineFlags ==
  ASSUME NextLine, config' \in BOOLEAN, iac' \in BOOLEAN, esc' \in {"none", "esc", "["},
         session' \in {"open", "running", "closed", "faulted"}
  PROVE  FlagsOK' /\ KeptOK'
<1>1. in_history' \in -1..MaxDown
  BY SizeAssumption DEF NextLine
<1>2. tabbed' = FALSE /\ kept' = FALSE
  BY DEF NextLine
<1>. QED BY <1>1, <1>2, Zenon DEF FlagsOK, KeptOK

LEMMA EnterKeeps == ASSUME IInv, Enter PROVE IInv'
<1>0. Pressed("CR") /\ session = "open" /\ kept = FALSE /\ esc' = "none" /\ iac' = FALSE
  BY PressedFacts DEF Enter
<1>1. CASE EmptyLine /\ NextLine /\ UNCHANGED <<history, config, session>>
  <2>1. LineOK'
    BY <1>1, InitialLine
  <2>2. HistoryOK'
    BY <1>1, SameHistory DEF IInv
  <2>3. FlagsOK' /\ KeptOK'
    BY <1>0, <1>1, NextLineFlags DEF IInv, FlagsOK
  <2>. QED BY <2>1, <2>2, <2>3 DEF IInv
<1>2. CASE session' = "running" /\ UNCHANGED <<line, tabbed, memory, screen, config, kept>>
  <2>1. LineOK'
    BY <1>2, SameLineOK
  <2>2. HistoryOK'
    BY <1>2, SameHistory DEF IInv, memory
  <2>3. FlagsOK' /\ KeptOK'
    BY <1>0, <1>2 DEF IInv, FlagsOK, KeptOK, memory
  <2>. QED BY <2>1, <2>2, <2>3 DEF IInv
<1>. QED BY <1>1, <1>2 DEF Enter

LEMMA AddKeeps ==
  ASSUME HistoryOK, NEW s \in Recordable
  PROVE  AddHistory(history, s) \in [Places -> Recordable \cup {NUL}]
<1>1. ASSUME NEW i \in Places
      PROVE  [history EXCEPT ![i] = s] \in [Places -> Recordable \cup {NUL}]
  BY DEF HistoryOK
<1>2. \A i : [history EXCEPT ![i] = s] \in [Places -> Recordable \cup {NUL}]
  BY DEF HistoryOK
<1>3. [i \in Places |-> IF i < MaxHistory - 1 THEN history[i + 1] ELSE s]
        \in [Places -> Recordable \cup {NUL}]
  <2>1. ASSUME NEW i \in Places, i < MaxHistory - 1
        PROVE  history[i + 1] \in Recordable \cup {NUL}
    <3>1. i + 1 \in Places
      BY <2>1, SizeAssumption DEF Places
    <3>. QED BY <3>1 DEF HistoryOK
  <2>. QED BY <2>1
<1>. QED BY <1>2, <1>3 DEF AddHistory, HistoryOK

LEMMA TerminatedFits == ASSUME LineOK, Terminated(cmd) PROVE l < MaxLine
BY SizeAssumption DEF LineOK, LineIsString, Terminated, Cells

LEMMA ExecuteKeeps == ASSUME IInv, Execute PROVE IInv'
<1>0. session = "running" /\ UNCHANGED <<esc, iac>> /\ LineOK
  BY DEF Execute, IInv
<1>1. CASE Fault
  BY <1>0, <1>1, FaultKeeps DEF IInv, FlagsOK
<1>2. CASE Terminated(cmd) /\ ~Fault
  <2>1. LineOK'
    <3>1. CASE kept
      <4>1. 0 < l /\ cmd' = [cmd EXCEPT ![l - 1] = NUL] /\ l' = l - 1 /\ cursor' = l - 1
        BY <1>2, <3>1, SizeAssumption DEF Execute, IInv, KeptOK, LineOK
      <4>. QED BY <1>0, <4>1, ChopKeeps
    <3>2. CASE ~kept
      BY <1>2, <3>2, InitialLine DEF Execute
    <3>. QED BY <3>1, <3>2
  <2>2. HistoryOK'
    <3>1. CString(cmd) \in Recordable
      BY <1>0, <1>2, TerminatedFits, StringIsText DEF Recordable
    <3>2. AddHistory(history, CString(cmd)) \in [Places -> Recordable \cup {NUL}]
      BY <3>1, AddKeeps DEF IInv
    <3>3. history' \in {history, NoHistory, AddHistory(history, CString(cmd))}
      BY <1>2 DEF Execute
    <3>. QED BY <3>2, <3>3, NothingRecorded DEF IInv, HistoryOK
  <2>3. FlagsOK' /\ KeptOK'
    <3>1. NextLine /\ config' \in BOOLEAN /\ session' \in {"open", "closed"}
      BY <1>2 DEF Execute
    <3>. QED BY <1>0, <3>1, NextLineFlags DEF IInv, FlagsOK
  <2>. QED BY <2>1, <2>2, <2>3 DEF IInv
<1>. QED BY <1>1, <1>2 DEF Execute

LEMMA HelpListedKeeps == ASSUME IInv, HelpListed PROVE IInv'
<1>1. CASE UNCHANGED <<line, tabbed, memory, around>>
  BY <1>1, IdleKey DEF HelpListed, IInv, FlagsOK
<1>2. CASE Fault
  BY <1>2, PressedFacts, FaultKeeps DEF HelpListed
<1>. QED BY <1>1, <1>2 DEF HelpListed

LEMMA HelpAskedKeeps == ASSUME IInv, HelpAsked PROVE IInv'
<1>a. Pressed(QMark) /\ session = "open" /\ esc' = "none" /\ iac' = FALSE
  BY PressedFacts DEF HelpAsked
<1>b. LineOK /\ QMark \in Plain /\ l \in Nat /\ cursor \in 0..l /\ MaxLine \in Nat
  BY CharFacts, SizeAssumption DEF IInv, LineOK
<1>1. ASSUME NEW b, NEW n \in Nat, RunHelp(b, n), LineOK'
      PROVE  IInv'
  <2>1. HistoryOK'
    BY <1>1, SameHistory DEF IInv, RunHelp, memory
  <2>2. kept' = TRUE /\ l' = n + 1 /\ session' = "running"
        /\ UNCHANGED <<in_history, tabbed, config>>
    BY <1>1 DEF RunHelp, memory
  <2>3. l' > 0
    BY <2>2
  <2>4. FlagsOK'
    BY <1>a, <2>2 DEF IInv, FlagsOK
  <2>5. KeptOK'
    BY <2>2, <2>3 DEF KeptOK
  <2>. QED BY <1>1, <2>1, <2>4, <2>5 DEF IInv
<1>2. CASE Room /\ RunHelp([cmd EXCEPT ![l] = QMark], l)
  <2>1. LineOK'
    BY <1>a, <1>b, <1>2, AppendKeeps DEF RunHelp
  <2>. QED BY <1>a, <1>b, <1>1, <1>2, <2>1
<1>3. CASE /\ ~Room /\ l < MaxLine /\ cmd' = [cmd EXCEPT ![l] = NUL]
           /\ UNCHANGED <<l, cursor, tabbed, memory, screen, around>>
  <2>1. cmd' = cmd
    BY <1>a, <1>b, <1>3, SizeAssumption DEF LineOK, LineIsString, Cells
  <2>. QED BY <1>a, <1>b, <1>3, <2>1, IdleKey DEF line, IInv, FlagsOK
<1>4. CASE PushesOut(QMark) /\ RunHelp(Inserted(QMark), cursor)
  <2>1. ~Room /\ l < MaxLine /\ cursor = l - 1
    BY <1>4 DEF PushesOut
  <2>2. cmd' = Inserted(QMark) /\ l' = l /\ cursor' = cursor /\ cursor < l
    BY <1>a, <1>b, <1>4, <2>1 DEF RunHelp
  <2>3. LineOK'
    BY <1>a, <1>b, <2>1, <2>2, InsertKeeps
  <2>. QED BY <1>a, <1>b, <1>1, <1>4, <2>3
<1>. QED BY <1>2, <1>3, <1>4 DEF HelpAsked

LEMMA LeaveKeeps == ASSUME IInv, EndOfText \/ HangUp PROVE IInv'
<1>0. session = "open" /\ kept = FALSE
  BY PressedFacts DEF EndOfText, HangUp, IInv, FlagsOK, KeptOK
<1>1. LineOK'
  BY SameLineOK DEF EndOfText, HangUp
<1>2. HistoryOK'
  <2>1. history' \in {history, NoHistory}
    BY DEF EndOfText, HangUp
  <2>. QED BY <2>1, NothingRecorded, SameHistory DEF IInv
<1>3. FlagsOK' /\ KeptOK'
  <2>1. CASE EndOfText
    <3>1. esc' = "none" /\ iac' = FALSE
      BY <2>1, PressedFacts DEF EndOfText
    <3>. QED BY <1>0, <2>1, <3>1 DEF EndOfText, IInv, FlagsOK, KeptOK
  <2>2. CASE HangUp
    BY <1>0, <2>2 DEF HangUp, IInv, FlagsOK, KeptOK
  <2>. QED BY <2>1, <2>2
<1>. QED BY <1>1, <1>2, <1>3 DEF IInv

-----------------------------------------------------------------------------
(* Completions.                                                            *)

LEMMA WriteKey ==
  ASSUME IInv, Pressed("^I"), NEW w \in Seq(Plain), WriteWord(w),
         \A s : Overwrites(s) => l <= s + Len(w), tabbed' \in BOOLEAN
  PROVE  IInv'
<1>1. PICK s \in 0..l :
        /\ Overwrites(s)
        /\ \/ s + Len(w) > MaxLine /\ Fault
           \/ /\ s + Len(w) <= MaxLine
              /\ cmd' = [i \in Cells |->
                           IF s <= i /\ i < s + Len(w) THEN w[i - s + 1] ELSE cmd[i]]
              /\ l' = s + Len(w) /\ cursor' = l'
              /\ UNCHANGED <<memory, around>>
  BY DEF WriteWord
<1>2. CASE Fault
  BY <1>2, PressedFacts, FaultKeeps
<1>3. CASE ~Fault
  <2>1. LineOK'
    BY <1>1, <1>3, WriteKeeps DEF IInv
  <2>. QED BY <1>1, <1>3, <2>1, EditKey DEF around, IInv, FlagsOK
<1>. QED BY <1>2, <1>3

LEMMA WordsArePlain == Words \subseteq Seq(Plain)
<1>1. Seq(Letters) \subseteq Seq(Plain)
  BY CharFacts
<1>. QED BY <1>1, CharAssumption

(* What is written by a completion is not shorter than what it replaces.   *)
LEMMA WordWritten ==
  ASSUME IInv, TabWord
  PROVE  \E w \in Seq(Plain) : WriteWord(w) /\ \A s : Overwrites(s) => l <= s + Len(w)
<1>1. PICK e \in Words : Offered(e) /\ WriteWord(Append(e, Space))
  BY DEF TabWord
<1>2. e \in Seq(Plain) /\ Append(e, Space) \in Seq(Plain)
      /\ Len(e) \in Nat /\ Len(Append(e, Space)) = Len(e) + 1
  BY WordsArePlain, CharFacts
<1>3. Terminated(cmd) /\ LineOK /\ l \in Nat
  BY SizeAssumption DEF TabWord, Completing, IInv, LineOK
<1>4. ASSUME NEW s, Overwrites(s)
      PROVE  l <= s + Len(Append(e, Space))
  <2>1. s \in 0..l /\ l - s <= Len(e)
    BY <1>1, <1>3, <1>4, OfferedLonger
  <2>. QED BY <1>2, <1>3, <2>1
<1>. QED BY <1>1, <1>2, <1>4

LEMMA PrefixWritten ==
  ASSUME IInv, TabPrefix
  PROVE  \E w \in Seq(Plain) : WriteWord(w) /\ \A s : Overwrites(s) => l <= s + Len(w)
<1>1. PICK es \in SUBSET Words : \E f \in es : \E k \in 1..Len(f) :
        /\ \A e \in es : Offered(e)
        /\ Shared(es, f, k)
        /\ WriteWord(SubSeq(f, 1, k))
  BY DEF TabPrefix
<1>a. PICK f \in es : \E k \in 1..Len(f) :
        /\ \A e \in es : Offered(e)
        /\ Shared(es, f, k)
        /\ WriteWord(SubSeq(f, 1, k))
  BY <1>1
<1>2. PICK k \in 1..Len(f) :
        /\ \A e \in es : Offered(e)
        /\ Shared(es, f, k)
        /\ WriteWord(SubSeq(f, 1, k))
  BY <1>a
<1>3. f \in Seq(Plain) /\ SubSeq(f, 1, k) \in Seq(Plain) /\ Len(SubSeq(f, 1, k)) = k
      /\ k \in Nat
  <2>1. f \in Seq(Plain)
    BY WordsArePlain
  <2>. QED BY <2>1
<1>4. Terminated(cmd) /\ LineOK /\ l \in Nat
  BY SizeAssumption DEF TabPrefix, Completing, IInv, LineOK
<1>5. ASSUME NEW s, Overwrites(s)
      PROVE  l <= s + Len(SubSeq(f, 1, k))
  <2>1. s \in 0..l
    BY <1>5 DEF Overwrites
  <2>2. l - s <= k
    BY <1>2, <1>4, <1>5, PrefixLonger
  <2>. QED BY <1>3, <1>4, <2>1, <2>2
<1>. QED BY <1>2, <1>3, <1>5

LEMMA TabWritesKeep == ASSUME IInv, TabWord \/ TabPrefix PROVE IInv'
<1>1. Pressed("^I") /\ tabbed' \in BOOLEAN
  BY DEF TabWord, TabPrefix, Completing
<1>2. \E w \in Seq(Plain) : WriteWord(w) /\ \A s : Overwrites(s) => l <= s + Len(w)
  BY WordWritten, PrefixWritten
<1>. QED BY <1>1, <1>2, WriteKey

LEMMA TabOnlyKeeps == ASSUME IInv, TabOnly PROVE IInv'
<1>0. Pressed("^I") /\ session = "open" /\ kept = FALSE /\ esc' = "none" /\ iac' = FALSE
  BY PressedFacts DEF TabOnly
<1>1. LineOK'
  BY SameLineOK DEF TabOnly
<1>2. HistoryOK'
  BY SameHistory DEF TabOnly, IInv, memory
<1>3. tabbed' \in BOOLEAN /\ session' \in {"open", "faulted"}
  BY <1>0 DEF TabOnly, IInv, FlagsOK
<1>4. FlagsOK' /\ KeptOK'
  BY <1>0, <1>3 DEF TabOnly, IInv, FlagsOK, KeptOK, memory
<1>. QED BY <1>1, <1>2, <1>4 DEF IInv

-----------------------------------------------------------------------------
(* The invariant, and what follows from it.                                *)

LEMMA InitHolds == Init => IInv
<1>. SUFFICES ASSUME Init PROVE IInv
  OBVIOUS
<1>1. LineOK
  BY CharFacts, SizeAssumption DEF Init, LineOK, LineIsString, Cells
<1>2. HistoryOK
  BY DEF Init, HistoryOK, NoHistory
<1>3. in_history \in -1..MaxDown
  BY SizeAssumption DEF Init
<1>4. FlagsOK /\ KeptOK
  BY <1>3, Zenon DEF Init, FlagsOK, KeptOK
<1>. QED BY <1>1, <1>2, <1>4 DEF IInv

LEMMA StepKeeps ==
  ASSUME IInv, Quote \notin Bytes, [Next]_vars
  PROVE  IInv'
<1>1. CASE UNCHANGED vars
  <2>1. LineOK'
    BY <1>1, SameLineOK DEF vars, line
  <2>2. HistoryOK'
    BY <1>1, SameHistory DEF IInv, vars
  <2>3. FlagsOK' /\ KeptOK'
    BY <1>1 DEF IInv, FlagsOK, KeptOK, vars
  <2>. QED BY <2>1, <2>2, <2>3 DEF IInv
<1>2. CASE Next
  BY <1>2, SwallowKeeps, TypeAtEndKeeps, TypeInsideKeeps, BackspaceKeeps,
     EraseWordKeeps, ClearKeeps, MoveKeeps, ArrowKeeps, EnterKeeps, ExecuteKeeps,
     HelpListedKeeps, HelpAskedKeeps, LeaveKeeps, TabWritesKeep,
     TabOnlyKeeps
  DEF Next
<1>. QED BY <1>1, <1>2

LEMMA InvariantHolds == ASSUME Quote \notin Bytes PROVE Spec => []IInv
<1>1. IInv /\ [Next]_vars => IInv'
  BY StepKeeps
<1>. QED BY InitHolds, <1>1, PTL DEF Spec

(* Whatever keys are pressed in whatever order, as long as no quote is     *)
(* typed, the cells of the buffer before l are the characters of the line  *)
(* and those from l on are NUL: cli_run_command gets what was edited.      *)
THEOREM LineIsStringHolds == ASSUME Quote \notin Bytes PROVE Spec => []LineIsString
<1>1. IInv => LineIsString
  BY DEF IInv, LineOK
<1>. QED BY InvariantHolds, <1>1, PTL

-----------------------------------------------------------------------------
(* Where the line may outgrow the buffer.                                  *)

(* Only an empty history lets the arrows run past its places.              *)
RecallOK == in_history >= MaxHistory => ~SomeLine

LEMMA RecallKeeps == ASSUME IInv, RecallOK, [Next]_vars PROVE RecallOK'
<1>0. MaxHistory \in Nat /\ MaxHistory > 1 /\ in_history \in -1..MaxDown
  BY SizeAssumption DEF IInv, FlagsOK
<1>1. CASE UNCHANGED memory
  BY <1>1 DEF memory, RecallOK, SomeLine
<1>2. CASE history' = NoHistory
  BY <1>2 DEF RecallOK, SomeLine, NoHistory
<1>3. CASE NextLine
  BY <1>0, <1>3 DEF NextLine, RecallOK
<1>4. CASE Up
  <2>1. CASE Fault
    BY <1>1, <2>1 DEF Fault
  <2>2. CASE ~Fault
    <3>1. \E i \in -1..(MaxHistory - 1) : Recalled(i)
      <4>1. CASE \E i \in Places \cup {-1} : Recalled(i)
        BY <1>0, <4>1 DEF Places
      <4>2. CASE in_history \in 1..MaxHistory /\ Recalled(in_history - 1)
        BY <1>0, <4>2
      <4>. QED BY <1>4, <2>2, <4>1, <4>2 DEF Up
    <3>. QED BY <1>0, <3>1 DEF Recalled, RecallOK
  <2>. QED BY <2>1, <2>2
<1>5. CASE Down
  <2>1. CASE \E i \in Places : Recalled(i)
    BY <1>0, <2>1 DEF Recalled, RecallOK, Places
  <2>2. CASE in_history + 1 < MaxHistory /\ Recalled(in_history + 1)
    BY <1>0, <2>2 DEF Recalled, RecallOK
  <2>3. CASE ~SomeLine /\ Recalled(in_history + 1)
    BY <2>3 DEF Recalled, RecallOK, SomeLine
  <2>. QED BY <1>5, <2>1, <2>2, <2>3 DEF Down
<1>6. ASSUME NEW c, TypeAtEnd(c) \/ TypeInside(c)
      PROVE  UNCHANGED memory
  BY <1>6 DEF TypeAtEnd, TypeInside, Fault
<1>7. CASE Swallow \/ Backspace \/ EraseWord \/ ClearLine \/ KillToEnd \/ Redraw \/ CtrlZ
  BY <1>1, <1>7 DEF Swallow, Backspace, EraseWord, ClearLine, KillToEnd, Redraw, CtrlZ,
     EraseFrom
<1>8. CASE Left \/ Right \/ Home \/ End \/ HelpListed \/ HelpAsked
  BY <1>1, <1>8 DEF Left, Right, Home, End, HelpListed, HelpAsked, RunHelp, Fault
<1>9. CASE TabWord \/ TabPrefix \/ TabOnly
  BY <1>1, <1>9 DEF TabWord, TabPrefix, TabOnly, WriteWord, Fault
<1>10. CASE Enter
  BY <1>1, <1>3, <1>10 DEF Enter
<1>11. CASE Execute
  BY <1>1, <1>3, <1>11 DEF Execute, Fault
<1>12. CASE EndOfText \/ HangUp
  BY <1>1, <1>2, <1>12 DEF EndOfText, HangUp, memory
<1>13. CASE UNCHANGED vars
  BY <1>1, <1>13 DEF vars, memory
<1>. QED BY <1>1, <1>4, <1>5, <1>6, <1>7, <1>8, <1>9, <1>10, <1>11, <1>12, <1>13 DEF Next

Overrun == l' = MaxLine \/ session' = "faulted"

LEMMA StepFits ==
  ASSUME IInv, RecallOK, Next, ~TabWord, ~TabPrefix, l # MaxLine, Overrun
  PROVE  ~SomeLine /\ in_history > MaxHistory
<1>0. /\ l \in Nat /\ l < MaxLine /\ MaxLine \in Nat /\ cursor \in 0..l
      /\ Terminated(cmd) /\ LineOK
  <2>1. l \in Nat /\ l < MaxLine /\ MaxLine \in Nat /\ cursor \in 0..l /\ LineOK
    BY SizeAssumption DEF IInv, LineOK
  <2>. QED BY <2>1, StringIsText
<1>1. session \in {"open", "running"}
  BY DEF Next, Swallow, TypeAtEnd, TypeInside, Backspace, EraseWord, ClearLine, KillToEnd,
     Redraw, CtrlZ, Left, Right, Home, End, Up, Down, Enter, Execute, HelpListed, HelpAsked,
     EndOfText, HangUp, TabOnly, Pressed
<1>2. CASE UNCHANGED <<l, session>>
  BY <1>0, <1>1, <1>2 DEF Overrun
<1>3. ASSUME NEW s \in 0..cursor, EraseFrom(s)
      PROVE  FALSE
  BY <1>0, <1>1, <1>3 DEF EraseFrom, around, Overrun
<1>4. ASSUME NEW c, TypeAtEnd(c) \/ TypeInside(c)
      PROVE  FALSE
  BY <1>0, <1>1, <1>4 DEF TypeAtEnd, TypeInside, Room, around, Overrun
<1>5. CASE Backspace
  BY <1>0, <1>2, <1>3, <1>5 DEF Backspace, line, around
<1>6. CASE EraseWord
  BY <1>0, <1>2, <1>3, <1>6 DEF EraseWord, line, around
<1>7. CASE ClearLine \/ KillToEnd \/ CtrlZ
  BY <1>0, <1>1, <1>2, <1>7 DEF ClearLine, KillToEnd, CtrlZ, line, around, Overrun
<1>8. CASE Swallow \/ Redraw \/ Left \/ Right \/ Home \/ End
  BY <1>2, <1>8 DEF Swallow, Redraw, Left, Right, Home, End, line, around
<1>9. ASSUME NEW i, Recalled(i)
      PROVE  FALSE
  <2>1. session' = session
    BY <1>9 DEF Recalled, around
  <2>2. \/ l' = l
        \/ i \in Places /\ history[i] # NUL /\ l' = Len(history[i])
    <3>1. CASE i \in Places /\ history[i] # NUL
      BY <1>9, <3>1 DEF Recalled, ShowItem
    <3>2. CASE ~(i \in Places /\ history[i] # NUL)
      <4>1. UNCHANGED line
        BY <1>9, <3>2 DEF Recalled
      <4>2. l' = l
        BY <4>1 DEF line
      <4>. QED BY <4>2
    <3>. QED BY <3>1, <3>2
  <2>3. i \in Places /\ history[i] # NUL => Len(history[i]) < MaxLine
    BY DEF IInv, HistoryOK, Recordable
  <2>. QED BY <1>0, <1>1, <2>1, <2>2, <2>3 DEF Overrun
<1>10. CASE Up
  <2>1. CASE in_history > MaxHistory
    BY <2>1, SizeAssumption DEF RecallOK, IInv, FlagsOK
  <2>. QED BY <1>9, <1>10, <2>1 DEF Up
<1>11. CASE Down
  BY <1>9, <1>11 DEF Down
<1>12. CASE Enter
  BY <1>0, <1>1, <1>2, <1>12, SizeAssumption DEF Enter, EmptyLine, line, Overrun
<1>13. CASE Execute
  <2>1. l' = 0 \/ l' = l - 1
    BY <1>0, <1>13 DEF Execute, EmptyLine
  <2>2. session' # "faulted"
    BY <1>0, <1>13 DEF Execute
  <2>. QED BY <1>0, <2>1, <2>2, SizeAssumption DEF Overrun
<1>14. CASE HelpListed \/ TabOnly
  BY <1>0, <1>1, <1>2, <1>14 DEF HelpListed, TabOnly, line, around
<1>15. CASE HelpAsked
  <2>1. l' \in {l, l + 1} /\ (l' = l + 1 => Room)
    BY <1>0, <1>15 DEF HelpAsked, RunHelp, PushesOut
  <2>2. session' # "faulted"
    BY <1>1, <1>15 DEF HelpAsked, RunHelp, around
  <2>. QED BY <1>0, <2>1, <2>2 DEF Overrun, Room
<1>16. CASE EndOfText \/ HangUp
  BY <1>0, <1>1, <1>16 DEF EndOfText, HangUp, line, Overrun
<1>. QED BY <1>4, <1>5, <1>6, <1>7, <1>8, <1>10, <1>11, <1>12, <1>13, <1>14, <1>15, <1>16 DEF Next

(* Without quotes, too: what makes a line fill the last cell of the buffer *)
(* is a completion, never a typed character, an erased one or a line of    *)
(* the history; and nothing undefined happens but to such a line, or by an *)
(* arrow key behind the end of an empty history.                           *)
THEOREM OnlyCompletionOverrunsHolds ==
  ASSUME Quote \notin Bytes PROVE Spec => OnlyCompletionOverruns
<1>1. Init => RecallOK
  BY SizeAssumption DEF Init, RecallOK
<1>2. IInv /\ RecallOK /\ [Next]_vars => RecallOK'
  BY RecallKeeps
<1>3. IInv /\ RecallOK /\ [Next]_vars =>
        [l' = MaxLine \/ session' = "faulted" =>
           \/ l = MaxLine \/ TabWord \/ TabPrefix
           \/ ~SomeLine /\ in_history > MaxHistory]_vars
  BY StepFits DEF Overrun
<1>. QED BY InvariantHolds, <1>1, <1>2, <1>3, PTL DEF Spec, OnlyCompletionOverruns

-----------------------------------------------------------------------------
(* The types, whatever is typed.                                           *)

LEMMA LeastNumber ==
  ASSUME NEW S, S \subseteq Nat, S # {}
  PROVE  \E m \in S : \A k \in S : m <= k
<1>. DEFINE R == {s \in Nat \X Nat : s[1] < s[2]}
<1>1. IsWellFoundedOn(R, Nat)
  BY NatLessThanWellFounded DEF OpToRel
<1>2. PICK m \in S : \A k \in S : ~(<<k, m>> \in R)
  BY <1>1, WFMin
<1>3. \A k \in S : k \in Nat /\ ~(k < m)
  BY <1>2
<1>. QED BY <1>3

-----------------------------------------------------------------------------
(* Types, quotes or not.                                                   *)

Fitting == {s \in Seq(Chars) : Len(s) < MaxLine}

BufferTyped ==
  /\ cmd \in [Cells -> Chars \cup {NUL}]
  /\ l \in 0..MaxLine /\ cursor \in 0..l

HistoryTyped == history \in [Places -> Fitting \cup {NUL}]

TInv == BufferTyped /\ HistoryTyped /\ FlagsOK /\ KeptOK

LEMMA SameBufferTyped ==
  ASSUME BufferTyped, UNCHANGED <<cmd, l>>, cursor' \in 0..l
  PROVE  BufferTyped'
BY DEF BufferTyped

LEMMA SameHistoryTyped == ASSUME HistoryTyped, UNCHANGED history PROVE HistoryTyped'
BY DEF HistoryTyped

(* A key that changes no more than the line.                               *)
LEMMA TypedKey ==
  ASSUME TInv, NEW k, Pressed(k), BufferTyped', UNCHANGED <<memory, kept, session>>,
         config' \in BOOLEAN, tabbed' \in BOOLEAN
  PROVE  TInv'
<1>1. session = "open" /\ kept = FALSE /\ esc' = "none" /\ iac' = FALSE
  BY DEF Pressed, TInv, KeptOK, FlagsOK
<1>2. HistoryTyped'
  BY SameHistoryTyped DEF TInv, memory
<1>3. FlagsOK' /\ KeptOK'
  BY <1>1 DEF TInv, FlagsOK, KeptOK, memory
<1>. QED BY <1>2, <1>3 DEF TInv

LEMMA TypedIdle ==
  ASSUME TInv, NEW k, Pressed(k), UNCHANGED <<line, memory, around>>, tabbed' \in BOOLEAN
  PROVE  TInv'
<1>1. BufferTyped'
  <2>1. cursor' \in 0..l /\ UNCHANGED <<cmd, l>>
    BY DEF line, TInv, BufferTyped
  <2>. QED BY <2>1, SameBufferTyped DEF TInv
<1>. QED BY <1>1, TypedKey DEF around, TInv, FlagsOK

LEMMA TypedFault ==
  ASSUME TInv, session = "open" \/ session = "running", Fault,
         esc' \in {"none", "esc", "["}, iac' \in BOOLEAN
  PROVE  TInv'
<1>1. cursor' \in 0..l /\ UNCHANGED <<cmd, l, history, kept, in_history, tabbed, config>>
      /\ session' = "faulted"
  BY DEF Fault, line, memory, TInv, BufferTyped
<1>2. BufferTyped' /\ HistoryTyped'
  BY <1>1, SameBufferTyped, SameHistoryTyped DEF TInv
<1>3. FlagsOK' /\ KeptOK'
  BY <1>1 DEF TInv, FlagsOK, KeptOK
<1>. QED BY <1>2, <1>3 DEF TInv

LEMMA TypedFaultKey ==
  ASSUME TInv, NEW k, Pressed(k), Fault
  PROVE  TInv'
<1>1. session = "open" /\ esc' = "none" /\ iac' = FALSE
  BY DEF Pressed
<1>. QED BY <1>1, TypedFault

(* Cells are written in place.                                             *)
LEMMA ZeroTyped ==
  ASSUME BufferTyped, NEW s \in 0..l, cmd' = ZeroFrom(s), l' = s, cursor' \in 0..s
  PROVE  BufferTyped'
<1>1. cmd' \in [Cells -> Chars \cup {NUL}]
  BY DEF ZeroFrom, BufferTyped
<1>. QED BY <1>1, SizeAssumption DEF BufferTyped

LEMMA EraseTyped ==
  ASSUME TInv, NEW k, Pressed(k), NEW s \in 0..cursor, EraseFrom(s)
  PROVE  TInv'
<1>. DEFINE d == cursor - s
<1>0. /\ l \in 0..MaxLine /\ MaxLine \in Nat /\ cursor \in 0..l /\ s \in Nat /\ d \in Nat
      /\ s + d = cursor /\ l' = l - d /\ cursor' = s
  BY SizeAssumption DEF TInv, BufferTyped, EraseFrom
<1>1. cmd' = [i \in Cells |-> IF i < s \/ i >= l THEN cmd[i]
                              ELSE IF i + d < l THEN cmd[i + d] ELSE NUL]
  BY DEF EraseFrom
<1>2. cmd' \in [Cells -> Chars \cup {NUL}]
  <2>. SUFFICES ASSUME NEW i \in Cells, ~(i < s \/ i >= l), i + d < l
                PROVE  cmd[i + d] \in Chars \cup {NUL}
    BY <1>1 DEF TInv, BufferTyped
  <2>1. i + d \in Cells
    BY <1>0 DEF Cells
  <2>. QED BY <2>1 DEF TInv, BufferTyped
<1>3. BufferTyped'
  BY <1>0, <1>2 DEF BufferTyped
<1>. QED BY <1>3, TypedKey DEF EraseFrom, around, TInv, FlagsOK

LEMMA InsertedTyped ==
  ASSUME BufferTyped, NEW c \in Chars
  PROVE  Inserted(c) \in [Cells -> Chars \cup {NUL}]
<1>. SUFFICES ASSUME NEW i \in Cells, i # cursor, cursor < i
              PROVE  cmd[i - 1] \in Chars \cup {NUL}
  BY DEF Inserted, BufferTyped
<1>1. i - 1 \in Cells
  BY SizeAssumption DEF Cells, BufferTyped
<1>. QED BY <1>1 DEF BufferTyped

LEMMA TypingTyped ==
  ASSUME TInv, NEW c \in Chars, TypeAtEnd(c) \/ TypeInside(c)
  PROVE  TInv'
<1>0. /\ l \in Nat /\ l <= MaxLine /\ cursor \in 0..l /\ MaxLine \in Nat /\ Pressed(c)
      /\ BufferTyped /\ cmd \in [Cells -> Chars \cup {NUL}] /\ tabbed \in BOOLEAN
  BY SizeAssumption DEF TInv, BufferTyped, FlagsOK, TypeAtEnd, TypeInside
<1>1. CASE Fault
  BY <1>0, <1>1, TypedFaultKey
<1>2. CASE ~Fault
  <2>1. UNCHANGED <<memory, around>> /\ tabbed' \in BOOLEAN
    BY <1>0, <1>2 DEF TypeAtEnd, TypeInside
  <2>2. BufferTyped'
    <3>1. CASE TypeAtEnd(c)
      <4>1. cmd' \in [Cells -> Chars \cup {NUL}]
        BY <1>0, <1>2, <3>1 DEF TypeAtEnd
      <4>2. l' \in 0..MaxLine /\ cursor' \in 0..l'
        BY <1>0, <1>2, <3>1 DEF TypeAtEnd, Room
      <4>. QED BY <4>1, <4>2 DEF BufferTyped
    <3>2. CASE TypeInside(c)
      <4>1. cmd' \in [Cells -> Chars \cup {NUL}]
        BY <1>0, <1>2, <3>2, InsertedTyped DEF TypeInside
      <4>2. l' \in 0..MaxLine /\ cursor' \in 0..l'
        BY <1>0, <1>2, <3>2 DEF TypeInside, Room
      <4>. QED BY <4>1, <4>2 DEF BufferTyped
    <3>. QED BY <3>1, <3>2
  <2>. QED BY <1>0, <2>1, <2>2, TypedKey DEF around, TInv, FlagsOK
<1>. QED BY <1>1, <1>2

LEMMA ErasingTyped == ASSUME TInv, Backspace \/ EraseWord PROVE TInv'
<1>0. cursor \in Nat
  BY SizeAssumption DEF TInv, BufferTyped
<1>1. CASE UNCHANGED <<line, tabbed, memory, screen, around>>
  BY <1>1, TypedIdle DEF Backspace, EraseWord, TInv, FlagsOK
<1>2. CASE \E s \in 0..cursor : EraseFrom(s)
  BY <1>2, EraseTyped DEF Backspace, EraseWord
<1>. QED BY <1>0, <1>1, <1>2 DEF Backspace, EraseWord

LEMMA ClearingTyped == ASSUME TInv, ClearLine \/ KillToEnd \/ CtrlZ PROVE TInv'
<1>0. BufferTyped /\ l \in Nat /\ cursor \in 0..l /\ tabbed \in BOOLEAN /\ config \in BOOLEAN
  BY SizeAssumption DEF TInv, BufferTyped, FlagsOK
<1>1. CASE UNCHANGED line
  <2>1. cursor' \in 0..l /\ UNCHANGED <<cmd, l>>
    BY <1>0, <1>1 DEF line
  <2>2. BufferTyped'
    BY <1>0, <2>1, SameBufferTyped
  <2>. QED BY <1>0, <2>2, TypedKey DEF ClearLine, KillToEnd, CtrlZ, around
<1>2. CASE \E s \in 0..l : cmd' = ZeroFrom(s) /\ l' = s /\ cursor' \in 0..s
  <2>1. BufferTyped'
    BY <1>0, <1>2, ZeroTyped
  <2>. QED BY <1>0, <2>1, TypedKey DEF ClearLine, KillToEnd, CtrlZ, around
<1>. QED BY <1>0, <1>1, <1>2 DEF ClearLine, KillToEnd, CtrlZ

LEMMA MovingTyped == ASSUME TInv, Left \/ Right \/ Home \/ End \/ Redraw PROVE TInv'
<1>0. l \in Nat /\ cursor \in 0..l /\ BufferTyped
  BY SizeAssumption DEF TInv, BufferTyped
<1>1. /\ UNCHANGED <<cmd, l, tabbed, memory, around>>
      /\ cursor' \in 0..l
      /\ \E k : Pressed(k)
  BY <1>0 DEF Left, Right, Home, End, Redraw, line
<1>2. BufferTyped'
  BY <1>0, <1>1, SameBufferTyped
<1>. QED BY <1>1, <1>2, TypedKey DEF around, TInv, FlagsOK

LEMMA RecalledTyped ==
  ASSUME TInv, NEW k, Pressed(k), NEW i \in -1..MaxDown, Recalled(i)
  PROVE  TInv'
<1>1. BufferTyped'
  <2>1. CASE i \in Places /\ history[i] # NUL
    <3>. DEFINE h == history[i]
    <3>1. h \in Seq(Chars) /\ Len(h) \in Nat /\ Len(h) < MaxLine /\ MaxLine \in Nat
      BY <2>1, SizeAssumption DEF TInv, HistoryTyped, Fitting
    <3>2. /\ cmd' = [n \in Cells |-> IF n < Len(h) THEN h[n + 1] ELSE NUL]
          /\ l' = Len(h) /\ cursor' = Len(h)
      BY <2>1 DEF Recalled, ShowItem
    <3>3. ASSUME NEW n \in Cells, n < Len(h)
          PROVE  h[n + 1] \in Chars
      <4>1. n + 1 \in 1..Len(h)
        BY <3>1, <3>3 DEF Cells
      <4>. QED BY <4>1, <3>1
    <3>4. cmd' \in [Cells -> Chars \cup {NUL}]
      BY <3>2, <3>3
    <3>. QED BY <3>1, <3>2, <3>4 DEF BufferTyped
  <2>2. CASE ~(i \in Places /\ history[i] # NUL)
    <3>1. cursor' \in 0..l /\ UNCHANGED <<cmd, l>>
      BY <2>2 DEF Recalled, line, TInv, BufferTyped
    <3>. QED BY <3>1, SameBufferTyped DEF TInv
  <2>. QED BY <2>1, <2>2
<1>2. session = "open" /\ kept = FALSE /\ esc' = "none" /\ iac' = FALSE
  BY DEF Pressed, TInv, KeptOK, FlagsOK
<1>3. HistoryTyped'
  BY SameHistoryTyped DEF TInv, Recalled
<1>4. FlagsOK' /\ KeptOK'
  BY <1>2 DEF TInv, FlagsOK, KeptOK, Recalled, around
<1>. QED BY <1>1, <1>3, <1>4 DEF TInv

LEMMA ArrowsTyped == ASSUME TInv, Up \/ Down PROVE TInv'
<1>0. /\ MaxHistory \in Nat /\ MaxDown \in Nat /\ MaxDown > MaxHistory
      /\ in_history \in -1..MaxDown /\ Places \subseteq 0..MaxDown
  BY SizeAssumption DEF TInv, FlagsOK, Places
<1>1. CASE Fault
  <2>1. \E k : Pressed(k)
    BY DEF Up, Down
  <2>. QED BY <1>1, <2>1, TypedFaultKey
<1>2. CASE ~Fault
  <2>1. \E k : Pressed(k)
    BY DEF Up, Down
  <2>2. CASE Up
    BY <1>0, <1>2, <2>1, <2>2, RecalledTyped DEF Up
  <2>3. CASE Down
    BY <1>0, <1>2, <2>1, <2>3, RecalledTyped DEF Down
  <2>. QED BY <2>2, <2>3
<1>. QED BY <1>1, <1>2

LEMMA EmptyTyped == ASSUME EmptyLine PROVE BufferTyped'
BY SizeAssumption DEF EmptyLine, BufferTyped

LEMMA EnterTyped == ASSUME TInv, Enter PROVE TInv'
<1>0. session = "open" /\ kept = FALSE /\ esc' = "none" /\ iac' = FALSE
  BY DEF Enter, Pressed, TInv, KeptOK, FlagsOK
<1>1. CASE EmptyLine /\ NextLine /\ UNCHANGED <<history, config, session>>
  <2>1. BufferTyped' /\ HistoryTyped'
    BY <1>1, EmptyTyped, SameHistoryTyped DEF TInv
  <2>2. FlagsOK' /\ KeptOK'
    BY <1>0, <1>1, NextLineFlags DEF TInv, FlagsOK
  <2>. QED BY <2>1, <2>2 DEF TInv
<1>2. CASE l > 0 /\ session' = "running" /\ UNCHANGED <<line, tabbed, memory, screen, config, kept>>
  <2>1. cursor' \in 0..l /\ UNCHANGED <<cmd, l, history>>
    BY <1>2 DEF line, memory, TInv, BufferTyped
  <2>2. BufferTyped' /\ HistoryTyped'
    BY <2>1, SameBufferTyped, SameHistoryTyped DEF TInv
  <2>3. FlagsOK' /\ KeptOK'
    BY <1>0, <1>2 DEF TInv, FlagsOK, KeptOK, memory
  <2>. QED BY <2>2, <2>3 DEF TInv
<1>. QED BY <1>1, <1>2 DEF Enter

(* What is recorded fits in the buffer again, since it was read from it.   *)
LEMMA StringTyped ==
  ASSUME BufferTyped, Terminated(cmd)
  PROVE  CString(cmd) \in Fitting
<1>. DEFINE Stops(n) == cmd[n] = NUL /\ \A i \in 0..(n - 1) : cmd[i] # NUL
<1>1. \E n \in Cells : Stops(n)
  <2>. DEFINE S == {n \in Cells : cmd[n] = NUL}
  <2>1. S # {} /\ S \subseteq Nat
    BY SizeAssumption DEF Terminated, Cells
  <2>2. PICK n \in S : \A m \in S : n <= m
    BY <2>1, LeastNumber
  <2>3. \A i \in 0..(n - 1) : cmd[i] # NUL
    BY <2>1, <2>2, SizeAssumption DEF Cells
  <2>. QED BY <2>2, <2>3
<1>2. StrLen(cmd) \in Cells /\ Stops(StrLen(cmd))
  BY <1>1 DEF StrLen
<1>3. StrLen(cmd) \in Nat /\ StrLen(cmd) < MaxLine
  BY <1>2, SizeAssumption DEF Cells
<1>4. ASSUME NEW i \in 1..StrLen(cmd)
      PROVE  cmd[i - 1] \in Chars
  BY <1>2, <1>3, <1>4, SizeAssumption DEF BufferTyped, Cells
<1>5. CString(cmd) \in Seq(Chars) /\ Len(CString(cmd)) = StrLen(cmd)
  BY <1>3, <1>4 DEF CString
<1>. QED BY <1>3, <1>5 DEF Fitting

LEMMA AddedTyped ==
  ASSUME HistoryTyped, NEW s \in Fitting
  PROVE  AddHistory(history, s) \in [Places -> Fitting \cup {NUL}]
<1>1. \A i : [history EXCEPT ![i] = s] \in [Places -> Fitting \cup {NUL}]
  BY DEF HistoryTyped
<1>2. [i \in Places |-> IF i < MaxHistory - 1 THEN history[i + 1] ELSE s]
        \in [Places -> Fitting \cup {NUL}]
  <2>1. ASSUME NEW i \in Places, i < MaxHistory - 1
        PROVE  history[i + 1] \in Fitting \cup {NUL}
    <3>1. i + 1 \in Places
      BY <2>1, SizeAssumption DEF Places
    <3>. QED BY <3>1 DEF HistoryTyped
  <2>. QED BY <2>1
<1>. QED BY <1>1, <1>2 DEF AddHistory, HistoryTyped

LEMMA ExecuteTyped == ASSUME TInv, Execute PROVE TInv'
<1>0. session = "running" /\ UNCHANGED <<esc, iac>> /\ BufferTyped
  BY DEF Execute, TInv
<1>1. CASE Fault
  BY <1>0, <1>1, TypedFault DEF TInv, FlagsOK
<1>2. CASE Terminated(cmd) /\ ~Fault
  <2>1. BufferTyped'
    <3>1. CASE kept
      BY <1>0, <1>2, <3>1, SizeAssumption DEF Execute, TInv, KeptOK, BufferTyped
    <3>2. CASE ~kept
      BY <1>2, <3>2, EmptyTyped DEF Execute
    <3>. QED BY <3>1, <3>2
  <2>2. HistoryTyped'
    <3>1. CString(cmd) \in Fitting
      BY <1>0, <1>2, StringTyped
    <3>2. AddHistory(history, CString(cmd)) \in [Places -> Fitting \cup {NUL}]
      BY <3>1, AddedTyped DEF TInv
    <3>3. history' \in {history, NoHistory, AddHistory(history, CString(cmd))}
      BY <1>2 DEF Execute
    <3>. QED BY <3>2, <3>3 DEF TInv, HistoryTyped, NoHistory
  <2>3. FlagsOK' /\ KeptOK'
    <3>1. NextLine /\ config' \in BOOLEAN /\ session' \in {"open", "closed"}
      BY <1>2 DEF Execute
    <3>. QED BY <1>0, <3>1, NextLineFlags DEF TInv, FlagsOK
  <2>. QED BY <2>1, <2>2, <2>3 DEF TInv
<1>. QED BY <1>1, <1>2 DEF Execute

LEMMA HelpTyped == ASSUME TInv, HelpListed \/ HelpAsked PROVE TInv'
<1>0. /\ Pressed(QMark) /\ session = "open" /\ esc' = "none" /\ iac' = FALSE
      /\ l \in Nat /\ l <= MaxLine /\ cursor \in 0..l /\ MaxLine \in Nat
      /\ BufferTyped /\ QMark \in Chars /\ tabbed \in BOOLEAN
  BY CharFacts, SizeAssumption DEF HelpListed, HelpAsked, Pressed, TInv, BufferTyped, FlagsOK
<1>1. CASE Fault
  BY <1>0, <1>1, TypedFaultKey
<1>2. CASE UNCHANGED <<l, cursor, tabbed, memory, around>> /\ cmd' \in {cmd, [cmd EXCEPT ![l] = NUL]}
  <2>1. BufferTyped'
    BY <1>0, <1>2 DEF BufferTyped
  <2>. QED BY <1>0, <1>2, <2>1, TypedKey DEF around, TInv, FlagsOK
<1>3. ASSUME NEW b \in [Cells -> Chars \cup {NUL}], NEW n \in Nat, RunHelp(b, n), n < MaxLine
      PROVE  TInv'
  <2>1. /\ cmd' = b /\ l' = n + 1 /\ cursor' = n /\ kept' = TRUE /\ session' = "running"
        /\ UNCHANGED <<in_history, history, tabbed, config>>
    BY <1>3 DEF RunHelp, memory
  <2>2. BufferTyped'
    BY <1>0, <1>3, <2>1 DEF BufferTyped
  <2>3. HistoryTyped'
    BY <2>1, SameHistoryTyped DEF TInv
  <2>4. FlagsOK'
    BY <1>0, <2>1 DEF TInv, FlagsOK
  <2>5. l' > 0
    BY <1>3, <2>1
  <2>6. KeptOK'
    BY <2>1, <2>5 DEF KeptOK
  <2>. QED BY <2>2, <2>3, <2>4, <2>6 DEF TInv
<1>4. CASE Room /\ RunHelp([cmd EXCEPT ![l] = QMark], l)
  <2>1. [cmd EXCEPT ![l] = QMark] \in [Cells -> Chars \cup {NUL}]
    BY <1>0 DEF BufferTyped
  <2>2. l < MaxLine
    BY <1>0, <1>4 DEF Room
  <2>. QED BY <1>0, <1>3, <1>4, <2>1, <2>2
<1>5. CASE PushesOut(QMark) /\ RunHelp(Inserted(QMark), cursor)
  <2>1. Inserted(QMark) \in [Cells -> Chars \cup {NUL}]
    BY <1>0, InsertedTyped
  <2>2. cursor \in Nat /\ cursor < MaxLine
    BY <1>0, <1>5 DEF PushesOut
  <2>. QED BY <1>3, <1>5, <2>1, <2>2
<1>6. CASE HelpListed
  BY <1>1, <1>2, <1>6 DEF HelpListed, line
<1>7. CASE HelpAsked
  BY <1>2, <1>4, <1>5, <1>7 DEF HelpAsked
<1>. QED BY <1>6, <1>7

LEMMA LeavingTyped == ASSUME TInv, Swallow \/ EndOfText \/ HangUp PROVE TInv'
<1>0. session = "open" /\ kept = FALSE
  BY DEF Swallow, EndOfText, HangUp, Pressed, TInv, FlagsOK, KeptOK
<1>1. UNCHANGED <<cmd, l, cursor, tabbed, in_history, kept, config>>
  BY DEF Swallow, EndOfText, HangUp, line, memory, around
<1>2. BufferTyped'
  BY <1>1 DEF TInv, BufferTyped
<1>3. HistoryTyped'
  <2>1. history' \in {history, NoHistory}
    BY DEF Swallow, EndOfText, HangUp, memory
  <2>. QED BY <2>1 DEF TInv, HistoryTyped, NoHistory
<1>4. session' \in {"open", "closed"}
  BY <1>0 DEF Swallow, EndOfText, HangUp, around
<1>5. esc' \in {"none", "esc", "["} /\ iac' \in BOOLEAN
  <2>1. CASE Swallow
    <3>1. iac' = FALSE \/ \E b : iac' = (b \in {"IAC", "OPT"})
      BY <2>1, Zenon DEF Swallow
    <3>2. ASSUME NEW b, iac' = (b \in {"IAC", "OPT"})
          PROVE  iac' = TRUE \/ iac' = FALSE
      <4>1. (b \in {"IAC", "OPT"}) \in BOOLEAN
        OBVIOUS
      <4>. QED BY <3>2, <4>1
    <3>3. esc' \in {"none", "esc", "["}
      BY <2>1 DEF Swallow, TInv, FlagsOK
    <3>. QED BY <3>1, <3>2, <3>3
  <2>2. CASE EndOfText
    BY <2>2 DEF EndOfText, Pressed
  <2>3. CASE HangUp
    BY <2>3 DEF HangUp, TInv, FlagsOK
  <2>. QED BY <2>1, <2>2, <2>3
<1>6. FlagsOK' /\ KeptOK'
  BY <1>0, <1>1, <1>4, <1>5 DEF TInv, FlagsOK, KeptOK
<1>. QED BY <1>2, <1>3, <1>6 DEF TInv

LEMMA WrittenTyped ==
  ASSUME TInv, Pressed("^I"), NEW w \in Seq(Chars), WriteWord(w), tabbed' \in BOOLEAN
  PROVE  TInv'
<1>0. BufferTyped /\ l \in Nat /\ MaxLine \in Nat /\ Len(w) \in Nat /\ config \in BOOLEAN
  BY SizeAssumption DEF TInv, BufferTyped, FlagsOK
<1>1. CASE Fault
  BY <1>1, TypedFaultKey
<1>2. CASE ~Fault
  <2>1. PICK s \in 0..l :
          /\ s + Len(w) <= MaxLine
          /\ cmd' = [i \in Cells |->
                       IF s <= i /\ i < s + Len(w) THEN w[i - s + 1] ELSE cmd[i]]
          /\ l' = s + Len(w) /\ cursor' = l' /\ UNCHANGED <<memory, around>>
    BY <1>2 DEF WriteWord
  <2>2. ASSUME NEW i \in Cells, s <= i, i < s + Len(w)
        PROVE  w[i - s + 1] \in Chars
    <3>1. i - s + 1 \in 1..Len(w)
      BY <1>0, <2>2 DEF Cells
    <3>. QED BY <3>1
  <2>3. cmd' \in [Cells -> Chars \cup {NUL}]
    BY <1>0, <2>1, <2>2 DEF BufferTyped
  <2>4. BufferTyped'
    BY <1>0, <2>1, <2>3 DEF BufferTyped
  <2>. QED BY <1>0, <2>1, <2>4, TypedKey DEF around
<1>. QED BY <1>1, <1>2

LEMMA TabTyped == ASSUME TInv, TabWord \/ TabPrefix \/ TabOnly PROVE TInv'
<1>0. Words \subseteq Seq(Chars) /\ Space \in Chars
  <2>1. Seq(Letters) \subseteq Seq(Chars)
    BY CharFacts
  <2>. QED BY <2>1, CharAssumption, CharFacts
<1>1. CASE TabWord
  <2>1. PICK e \in Words : WriteWord(Append(e, Space))
    BY <1>1 DEF TabWord
  <2>2. Append(e, Space) \in Seq(Chars)
    BY <1>0
  <2>. QED BY <1>1, <2>1, <2>2, WrittenTyped DEF TabWord, Completing
<1>2. CASE TabPrefix
  <2>1. PICK es \in SUBSET Words : \E f \in es : \E k \in 1..Len(f) : WriteWord(SubSeq(f, 1, k))
    BY <1>2 DEF TabPrefix
  <2>2. PICK f \in es : \E k \in 1..Len(f) : WriteWord(SubSeq(f, 1, k))
    BY <2>1
  <2>3. PICK k \in 1..Len(f) : WriteWord(SubSeq(f, 1, k))
    BY <2>2
  <2>4. f \in Seq(Chars)
    BY <1>0
  <2>5. SubSeq(f, 1, k) \in Seq(Chars)
    BY <2>4
  <2>. QED BY <1>2, <2>3, <2>5, WrittenTyped DEF TabPrefix, Completing
<1>3. CASE TabOnly
  <2>0. Pressed("^I") /\ session = "open" /\ kept = FALSE /\ esc' = "none" /\ iac' = FALSE
    BY <1>3 DEF TabOnly, Pressed, TInv, KeptOK, FlagsOK
  <2>1. UNCHANGED <<cmd, l, cursor, in_history, history, config, kept>>
    BY <1>3 DEF TabOnly, line, memory
  <2>2. tabbed' \in BOOLEAN /\ session' \in {"open", "faulted"}
    BY <1>3, <2>0 DEF TabOnly, TInv, FlagsOK
  <2>3. BufferTyped' /\ HistoryTyped'
    BY <2>1 DEF TInv, BufferTyped, HistoryTyped
  <2>4. FlagsOK' /\ KeptOK'
    BY <2>0, <2>1, <2>2 DEF TInv, FlagsOK, KeptOK
  <2>. QED BY <2>3, <2>4 DEF TInv
<1>. QED BY <1>1, <1>2, <1>3

LEMMA TypesKept == ASSUME TInv, [Next]_vars PROVE TInv'
<1>1. CASE UNCHANGED vars
  BY <1>1 DEF vars, TInv, BufferTyped, HistoryTyped, FlagsOK, KeptOK
<1>2. CASE Next
  BY <1>2, TypingTyped, ErasingTyped, ClearingTyped, MovingTyped, ArrowsTyped, EnterTyped,
     ExecuteTyped, HelpTyped, LeavingTyped, TabTyped
  DEF Next
<1>. QED BY <1>1, <1>2

LEMMA TypesInitially == Init => TInv
<1>. SUFFICES ASSUME Init PROVE TInv
  OBVIOUS
<1>1. BufferTyped /\ HistoryTyped
  BY SizeAssumption DEF Init, BufferTyped, HistoryTyped, NoHistory, Cells
<1>2. in_history \in -1..MaxDown
  BY SizeAssumption DEF Init
<1>3. FlagsOK /\ KeptOK
  BY <1>2, Zenon DEF Init, FlagsOK, KeptOK
<1>. QED BY <1>1, <1>3 DEF TInv

LEMMA TypesHold == Spec => []TInv
<1>1. TInv /\ [Next]_vars => TInv'
  BY TypesKept
<1>. QED BY TypesInitially, <1>1, PTL DEF Spec

(* Whatever is typed, quotes included: every variable has its type.        *)
THEOREM TypeHolds == Spec => []TypeOK
<1>1. TInv => TypeOK
  <2>. SUFFICES ASSUME TInv PROVE TypeOK
    OBVIOUS
  <2>1. history \in [Places -> Seq(Chars) \cup {NUL}]
    BY DEF TInv, HistoryTyped, Fitting
  <2>2. {tabbed, iac, config, kept} \subseteq BOOLEAN
    BY Zenon DEF TInv, FlagsOK
  <2>. QED BY <2>1, <2>2 DEF TypeOK, TInv, BufferTyped, FlagsOK
<1>. QED BY TypesHold, <1>1, PTL

-----------------------------------------------------------------------------
(* The history.                                                            *)

(* The first n places are taken, no others.                                *)
Extent(h, n) == \A i \in Places : (h[i] # NUL) <=> i < n

NoHoles(h) == \A i \in Places \ {0} : h[i] # NUL => h[i - 1] # NUL

LEMMA Remainders ==
  ASSUME NEW n \in Nat, n > 0
  PROVE  (0 - 1) % n = n - 1 /\ n % n = 0 /\ \A k \in 0..(n - 1) : k % n = k
OBVIOUS

LEMMA ExtentExists ==
  ASSUME NEW h, NoHoles(h)
  PROVE  \E n \in 0..MaxHistory : Extent(h, n)
<1>. DEFINE Free == {i \in Places : h[i] = NUL}
<1>0. MaxHistory \in Nat /\ MaxHistory > 1
  BY SizeAssumption
<1>1. CASE Free = {}
  BY <1>0, <1>1 DEF Extent, Places
<1>2. CASE Free # {}
  <2>1. PICK n \in Free : \A i \in Free : n <= i
    <3>1. Free \subseteq Nat
      BY <1>0 DEF Places
    <3>. QED BY <1>2, <3>1, LeastNumber
  <2>2. ASSUME NEW i \in Places, i < n
        PROVE  h[i] # NUL
    BY <1>0, <2>1, <2>2 DEF Places
  <2>. DEFINE Late == {i \in Places : n < i /\ h[i] # NUL}
  <2>3. Late = {}
    <3>. SUFFICES ASSUME Late # {} PROVE FALSE
      OBVIOUS
    <3>1. PICK i \in Late : \A k \in Late : i <= k
      <4>1. Late \subseteq Nat
        BY <1>0 DEF Places
      <4>. HIDE DEF Late
      <4>. QED BY <4>1, LeastNumber
    <3>2. i \in Places \ {0} /\ i - 1 \in Places /\ n <= i - 1
      BY <1>0, <2>1, <3>1 DEF Places
    <3>3. h[i - 1] # NUL
      BY <3>1, <3>2 DEF NoHoles
    <3>4. i - 1 \in Late
      BY <1>0, <2>1, <3>2, <3>3 DEF Places
    <3>. QED BY <1>0, <3>1, <3>4 DEF Places
  <2>4. n \in 0..MaxHistory
    BY <1>0, <2>1 DEF Places
  <2>5. Extent(h, n)
    <3>. SUFFICES ASSUME NEW i \in Places PROVE (h[i] # NUL) <=> i < n
      BY DEF Extent
    <3>1. CASE i < n
      BY <2>2, <3>1
    <3>2. CASE i = n
      BY <1>0, <2>1, <2>4, <3>2
    <3>3. CASE n < i
      BY <2>3, <3>3, <2>4, <1>0 DEF Places
    <3>. QED BY <1>0, <2>4, <3>1, <3>2, <3>3 DEF Places
  <2>. QED BY <2>4, <2>5
<1>. QED BY <1>1, <1>2

LEMMA ExtentRecorded ==
  ASSUME NEW n \in 0..MaxHistory, Extent(history, n)
  PROVE  Recorded = n /\ (SomeLine <=> n > 0)
<1>0. MaxHistory \in Nat /\ MaxHistory > 1 /\ n \in Nat
  BY SizeAssumption
<1>1. {i \in Places : history[i] # NUL} = 0..(n - 1)
  BY <1>0 DEF Extent, Places
<1>2. Cardinality(0..(n - 1)) = n
  BY <1>0, FS_Interval
<1>3. SomeLine <=> n > 0
  BY <1>0 DEF SomeLine, Extent, Places
<1>. QED BY <1>1, <1>2, <1>3 DEF Recorded

(* Recording a line leaves no hole and makes no repetition.                *)
LEMMA AddFills ==
  ASSUME HistoryTyped, HistoryFilled, NEW s, s # NUL, history' = AddHistory(history, s)
  PROVE  HistoryFilled'
<1>0. MaxHistory \in Nat /\ MaxHistory > 1
  BY SizeAssumption
<1>1. PICK n \in 0..MaxHistory : Extent(history, n)
  <2>1. NoHoles(history)
    BY DEF HistoryFilled, NoHoles
  <2>. QED BY <2>1, ExtentExists
<1>2. CASE n < MaxHistory
  <2>1. n \in Places /\ history[n] = NUL /\ \A k \in 0..(n - 1) : history[k] # NUL
    BY <1>0, <1>1, <1>2 DEF Extent, Places
  <2>2. ASSUME NEW m \in Places, history[m] = NUL, \A k \in 0..(m - 1) : history[k] # NUL
        PROVE  m = n
    <3>1. ~(m < n) /\ ~(n < m)
      BY <1>0, <2>1, <2>2 DEF Places
    <3>. QED BY <1>0, <2>1, <3>1 DEF Places
  <2>3. (CHOOSE m \in Places : history[m] = NUL /\ \A k \in 0..(m - 1) : history[k] # NUL) = n
    BY <2>1, <2>2
  <2>4. history' = IF n > 0 /\ SameLine(history[n - 1], s) THEN history
                   ELSE [history EXCEPT ![n] = s]
    BY <2>1, <2>3 DEF AddHistory
  <2>5. CASE n > 0 /\ SameLine(history[n - 1], s)
    <3>1. history' = history
      BY <2>4, <2>5
    <3>. QED BY <3>1 DEF HistoryFilled
  <2>6. CASE ~(n > 0 /\ SameLine(history[n - 1], s))
    <3>1. /\ history'[n] = s /\ \A i \in Places : i # n => history'[i] = history[i]
      BY <2>1, <2>4, <2>6 DEF HistoryTyped
    <3>2. ASSUME NEW i \in Places \ {0}
          PROVE  /\ i - 1 \in Places
                 /\ history'[i] # NUL => i <= n /\ history'[i - 1] # NUL
      BY <1>0, <1>1, <2>1, <3>1 DEF Extent, Places
    <3>3. ASSUME NEW i \in Places \ {0}, history'[i] # NUL, history'[MaxHistory - 1] = NUL
          PROVE  ~SameLine(history'[i - 1], history'[i])
      <4>1. i <= n /\ i - 1 \in Places
        BY <3>2, <3>3
      <4>2. CASE i = n
        BY <1>0, <2>1, <2>6, <3>1, <4>1, <4>2 DEF Places
      <4>3. CASE i < n
        <5>1. history'[i] = history[i] /\ history'[i - 1] = history[i - 1]
          BY <1>0, <2>1, <3>1, <4>1, <4>3 DEF Places
        <5>2. history[MaxHistory - 1] = NUL
          BY <1>0, <1>1, <1>2 DEF Extent, Places
        <5>. QED BY <3>3, <5>1, <5>2 DEF HistoryFilled
      <4>. QED BY <1>0, <2>1, <4>1, <4>2, <4>3 DEF Places
    <3>. QED BY <3>2, <3>3 DEF HistoryFilled
  <2>. QED BY <2>5, <2>6
<1>3. CASE n = MaxHistory
  <2>1. \A i \in Places : history[i] # NUL
    BY <1>0, <1>1, <1>3 DEF Extent, Places
  <2>2. history' = [i \in Places |-> IF i < MaxHistory - 1 THEN history[i + 1] ELSE s]
    BY <2>1 DEF AddHistory
  <2>3. ASSUME NEW i \in Places
        PROVE  history'[i] # NUL
    <3>1. CASE i < MaxHistory - 1
      <4>1. i + 1 \in Places
        BY <1>0, <3>1 DEF Places
      <4>. QED BY <2>1, <2>2, <3>1, <4>1
    <3>2. CASE ~(i < MaxHistory - 1)
      BY <2>2, <3>2
    <3>. QED BY <3>1, <3>2
  <2>4. MaxHistory - 1 \in Places /\ \A i \in Places \ {0} : i - 1 \in Places
    BY <1>0 DEF Places
  <2>. QED BY <2>3, <2>4 DEF HistoryFilled
<1>. QED BY <1>0, <1>2, <1>3

(* Of the steps only these touch the history or the place in it.           *)
LEMMA MemorySteps ==
  ASSUME TInv, [Next]_vars
  PROVE  \/ UNCHANGED memory
         \/ history' = NoHistory
         \/ NextLine /\ history' = history
         \/ NextLine /\ \E s \in Fitting : history' = AddHistory(history, s)
         \/ session = "open" /\ (Up \/ Down) /\ \E i : Recalled(i)
<1>1. CASE Execute
  <2>1. CASE Fault
    BY <2>1 DEF Fault
  <2>2. CASE ~Fault
    <3>1. CString(cmd) \in Fitting
      BY <1>1, <2>2, StringTyped DEF Execute, TInv
    <3>. QED BY <1>1, <2>2, <3>1 DEF Execute
  <2>. QED BY <2>1, <2>2
<1>2. CASE Up \/ Down
  BY <1>2 DEF Up, Down, Fault, Pressed
<1>6. ASSUME NEW c, TypeAtEnd(c) \/ TypeInside(c)
      PROVE  UNCHANGED memory
  BY <1>6 DEF TypeAtEnd, TypeInside, Fault
<1>7. CASE Swallow \/ Backspace \/ EraseWord \/ ClearLine \/ KillToEnd \/ Redraw \/ CtrlZ
  BY <1>7 DEF Swallow, Backspace, EraseWord, ClearLine, KillToEnd, Redraw, CtrlZ,
     EraseFrom
<1>8. CASE Left \/ Right \/ Home \/ End \/ HelpListed \/ HelpAsked
  BY <1>8 DEF Left, Right, Home, End, HelpListed, HelpAsked, RunHelp, Fault
<1>9. CASE TabWord \/ TabPrefix \/ TabOnly
  BY <1>9 DEF TabWord, TabPrefix, TabOnly, WriteWord, Fault
<1>10. CASE Enter
  BY <1>10 DEF Enter
<1>12. CASE EndOfText \/ HangUp
  BY <1>12 DEF EndOfText, HangUp, memory
<1>13. CASE UNCHANGED vars
  BY <1>13 DEF vars, memory
<1>. QED BY <1>1, <1>2, <1>6, <1>7, <1>8, <1>9, <1>10, <1>12, <1>13 DEF Next

(* The line that is shown is recorded, when any is.                        *)
ShownOK == SomeLine => in_history \in Places /\ history[in_history] # NUL

HInv == TInv /\ HistoryFilled /\ ShownOK

(* Where the arrows go.                                                    *)
LEMMA ArrowsGo ==
  ASSUME HInv, SomeLine
  PROVE  /\ \E i \in Places : history[i] # NUL
         /\ Recorded \in Nat /\ Recorded > 0
         /\ Up => Recalled((in_history - 1) % Recorded)
         /\ Down => Recalled((in_history + 1) % Recorded)
         /\ \A k \in {(in_history - 1) % Recorded, (in_history + 1) % Recorded} :
              k \in Places /\ history[k] # NUL
<1>0. MaxHistory \in Nat /\ MaxHistory > 1
  BY SizeAssumption
<1>1. PICK n \in 0..MaxHistory : Extent(history, n)
  <2>1. NoHoles(history)
    BY DEF HInv, HistoryFilled, NoHoles
  <2>. QED BY <2>1, ExtentExists
<1>2. Recorded = n /\ n > 0 /\ n \in Nat
  BY <1>0, <1>1, ExtentRecorded
<1>3. in_history \in 0..(n - 1)
  BY <1>0, <1>1 DEF HInv, ShownOK, Extent, Places
<1>. DEFINE up == IF in_history = 0 THEN n - 1 ELSE in_history - 1
            down == IF in_history = n - 1 THEN 0 ELSE in_history + 1
<1>4. up = (in_history - 1) % n /\ down = (in_history + 1) % n
  <2>3. down = (in_history + 1) % n
    <3>1. CASE in_history = n - 1
      <4>1. in_history + 1 = n
        BY <1>2, <1>3, <3>1
      <4>. QED BY <1>2, <3>1, <4>1, Remainders
    <3>2. CASE in_history # n - 1
      <4>1. in_history + 1 \in 0..(n - 1)
        BY <1>2, <1>3, <3>2
      <4>. QED BY <1>2, <3>2, <4>1, Remainders
    <3>. QED BY <3>1, <3>2
  <2>4. up = (in_history - 1) % n
    <3>1. CASE in_history = 0
      BY <1>2, <3>1, Remainders
    <3>2. CASE in_history # 0
      <4>1. in_history - 1 \in 0..(n - 1)
        BY <1>2, <1>3, <3>2
      <4>. QED BY <1>2, <3>2, <4>1, Remainders
    <3>. QED BY <3>1, <3>2
  <2>. QED BY <2>3, <2>4
<1>5. up \in 0..(n - 1) /\ down \in 0..(n - 1)
  BY <1>2, <1>3
<1>6. \A k \in 0..(n - 1) : k \in Places /\ history[k] # NUL
  BY <1>0, <1>1 DEF Extent, Places
<1>7. ASSUME Up PROVE Recalled(up)
  <2>1. CASE in_history = 0
    <3>1. PICK i \in Places : Newest(i) /\ Recalled(i)
      BY <1>7, <1>3, <2>1, <1>0 DEF Up, Newest
    <3>2. i = n - 1
      BY <3>1, <1>0, <1>1, <1>2, <1>6 DEF Newest, Extent, Places
    <3>. QED BY <2>1, <3>1, <3>2
  <2>2. CASE in_history # 0
    <3>1. in_history \in 1..MaxHistory /\ up = in_history - 1
      BY <1>0, <1>2, <1>3, <2>2
    <3>2. ~(in_history <= 0) /\ ~(in_history > MaxHistory)
      BY <1>0, <3>1
    <3>. HIDE DEF up
    <3>. QED BY <1>7, <3>1, <3>2 DEF Up
  <2>. QED BY <2>1, <2>2
<1>8. ASSUME Down PROVE Recalled(down)
  <2>1. CASE in_history = n - 1
    <3>1. ~(in_history + 1 < MaxHistory /\ history[in_history + 1] # NUL)
      BY <1>0, <1>1, <1>2, <2>1 DEF Extent, Places
    <3>2. PICK i \in Places : Oldest(i) /\ Recalled(i)
      BY <1>8, <3>1 DEF Down
    <3>3. i = 0
      <4>1. 0 \in Places /\ history[0] # NUL
        BY <1>2, <1>6
      <4>. QED BY <3>2, <4>1, <1>0 DEF Oldest, Places
    <3>. QED BY <2>1, <3>2, <3>3
  <2>2. CASE in_history # n - 1
    <3>1. in_history + 1 \in 0..(n - 1)
      BY <1>2, <1>3, <2>2
    <3>2. in_history + 1 < MaxHistory /\ history[in_history + 1] # NUL /\ down = in_history + 1
      BY <1>0, <1>6, <3>1, <2>2 DEF Places
    <3>. QED BY <1>8, <3>2 DEF Down
  <2>. QED BY <2>1, <2>2
<1>. HIDE DEF up, down
<1>9. \A k \in {(in_history - 1) % Recorded, (in_history + 1) % Recorded} :
        k \in Places /\ history[k] # NUL
  BY <1>2, <1>4, <1>5, <1>6
<1>. QED BY <1>2, <1>4, <1>7, <1>8, <1>9 DEF SomeLine

LEMMA HistoryKept == ASSUME HInv, [Next]_vars PROVE HInv'
<1>0. MaxHistory \in Nat /\ MaxHistory > 1 /\ TInv /\ TInv'
  BY SizeAssumption, TypesKept DEF HInv
<1>1. CASE UNCHANGED memory
  BY <1>0, <1>1 DEF HInv, HistoryFilled, ShownOK, SomeLine, memory
<1>2. CASE history' = NoHistory
  <2>1. \A i \in Places : history'[i] = NUL
    BY <1>2 DEF NoHistory
  <2>. QED BY <1>0, <2>1 DEF HInv, HistoryFilled, ShownOK, SomeLine, Places
<1>3. ASSUME NextLine, HistoryFilled'
      PROVE  HInv'
  <2>1. NoHoles(history')
    BY <1>3 DEF HistoryFilled, NoHoles
  <2>2. PICK n \in 0..MaxHistory : Extent(history', n)
    BY <2>1, ExtentExists
  <2>3. ShownOK'
    BY <1>0, <1>3, <2>2 DEF ShownOK, SomeLine, Extent, NextLine, Places
  <2>. QED BY <1>0, <1>3, <2>3 DEF HInv
<1>4. CASE NextLine /\ history' = history
  BY <1>3, <1>4 DEF HInv, HistoryFilled
<1>5. CASE NextLine /\ \E s \in Fitting : history' = AddHistory(history, s)
  <2>1. PICK s \in Fitting : history' = AddHistory(history, s)
    BY <1>5
  <2>2. s # NUL
    BY CharAssumption DEF Fitting
  <2>. QED BY <1>0, <1>3, <1>5, <2>1, <2>2, AddFills DEF HInv, TInv
<1>6. CASE session = "open" /\ (Up \/ Down) /\ \E i : Recalled(i)
  <2>1. history' = history
    BY <1>6 DEF Recalled
  <2>2. ASSUME SomeLine
        PROVE  in_history' \in Places /\ history[in_history'] # NUL
    BY <1>6, <2>2, ArrowsGo DEF Recalled
  <2>. QED BY <1>0, <2>1, <2>2 DEF HInv, HistoryFilled, ShownOK, SomeLine
<1>. QED BY <1>0, <1>1, <1>2, <1>4, <1>5, <1>6, MemorySteps

LEMMA HistoryHolds == Spec => []HInv
<1>1. Init => HistoryFilled /\ ShownOK
  <2>1. Init => \A i \in Places : history[i] = NUL
    BY DEF Init, NoHistory
  <2>. QED BY <2>1, SizeAssumption DEF HistoryFilled, ShownOK, SomeLine, Places
<1>2. Init => TInv
  BY TypesInitially
<1>3. HInv /\ [Next]_vars => HInv'
  BY HistoryKept
<1>. QED BY <1>1, <1>2, <1>3, PTL DEF Spec, HInv

(* Whatever lines are run, the history has no holes, and while there is    *)
(* room in it no line follows its equal.                                   *)
THEOREM HistoryFilledHolds == Spec => []HistoryFilled
<1>1. HInv => HistoryFilled
  BY DEF HInv
<1>. QED BY HistoryHolds, <1>1, PTL

(* Each press of an arrow shows the recorded line before or after the one  *)
(* shown, and all of them are passed before one comes again.               *)
THEOREM RecallIsCyclicHolds == Spec => RecallIsCyclic
<1>. DEFINE Round ==
       SomeLine /\ session' = "open" =>
         /\ Up => in_history' = (in_history - 1) % Recorded
         /\ Down => in_history' = (in_history + 1) % Recorded
         /\ (Up \/ Down) => Text' = history[in_history']
<1>1. HInv /\ [Next]_vars => [Round]_vars
  <2>. SUFFICES ASSUME HInv, SomeLine
                PROVE  /\ Up => in_history' = (in_history - 1) % Recorded
                       /\ Down => in_history' = (in_history + 1) % Recorded
                       /\ (Up \/ Down) => Text' = history[in_history']
    BY Zenon
  <2>1. ASSUME NEW i, Recalled(i), i \in Places, history[i] # NUL
        PROVE  in_history' = i /\ Text' = history[i]
    <3>. DEFINE h == history[i]
    <3>1. h \in Seq(Chars) /\ Len(h) \in Nat /\ Len(h) < MaxLine /\ MaxLine \in Nat
      BY <2>1, SizeAssumption DEF HInv, TInv, HistoryTyped, Fitting
    <3>2. /\ cmd' = [n \in Cells |-> IF n < Len(h) THEN h[n + 1] ELSE NUL]
          /\ l' = Len(h) /\ in_history' = i
      BY <2>1 DEF Recalled, ShowItem
    <3>3. ASSUME NEW n \in 1..Len(h)
          PROVE  cmd'[n - 1] = h[n]
      BY <3>1, <3>2, <3>3 DEF Cells
    <3>4. Text' = [n \in 1..Len(h) |-> h[n]]
      BY <3>2, <3>3 DEF Text
    <3>. QED BY <3>1, <3>2, <3>4
  <2>. QED BY <2>1, ArrowsGo
<1>. QED BY HistoryHolds, <1>1, PTL DEF Spec, RecallIsCyclic

-----------------------------------------------------------------------------
(* The terminal.                                                           *)

At(r, c, b) == [row |-> r, col |-> c, base |-> b]

Over(r, c, str) ==
  [i \in Columns |-> IF c <= i /\ i < c + Len(str) THEN str[i - c + 1] ELSE r[i]]

(* The row with the first n cells of b behind the prompt.                  *)
Shows(b, n) ==
  [i \in Columns |-> IF i < PromptWidth THEN "prompt"
                     ELSE IF i < PromptWidth + n THEN b[i - PromptWidth] ELSE Space]

Picture(b, n, at) == At(Shows(b, n), PromptWidth + at, PromptWidth)

(* A second prompt is on the row.                                          *)
Elsewhere(s) == \E r, c : \E b \in Nat : b > PromptWidth /\ s = At(r, c, b)

ScreenOK == session = "open" => screen = Picture(cmd, l, cursor) \/ Elsewhere(screen)

LEMMA PutAt ==
  ASSUME NEW r, NEW c, NEW b, NEW str
  PROVE  Put(At(r, c, b), str) = At(Over(r, c, str), c + Len(str), b)
<1>. DEFINE s == At(r, c, b)
<1>1. s.row = r /\ s.col = c
  BY DEF At
<1>2. ASSUME NEW x, NEW y
      PROVE  [s EXCEPT !.row = x, !.col = y] = At(x, y, b)
  <2>1. [s EXCEPT !.row = x, !.col = y] = [[s EXCEPT !.row = x] EXCEPT !.col = y]
    BY DEF At
  <2>2. [s EXCEPT !.row = x] = At(x, c, b)
    BY DEF At
  <2>3. [At(x, c, b) EXCEPT !.col = y] = At(x, y, b)
    BY DEF At
  <2>. HIDE DEF s
  <2>. QED BY <2>1, <2>2, <2>3
<1>. HIDE DEF s
<1>3. [i \in Columns |-> IF s.col <= i /\ i < s.col + Len(str)
                         THEN str[i - s.col + 1] ELSE s.row[i]] = Over(r, c, str)
  BY <1>1 DEF Over
<1>4. Put(s, str) = [s EXCEPT !.row = Over(r, c, str), !.col = s.col + Len(str)]
  BY <1>3 DEF Put
<1>5. Put(s, str) = At(Over(r, c, str), c + Len(str), b)
  BY <1>1, <1>2, <1>4
<1>. QED BY <1>5 DEF s

LEMMA BackAt ==
  ASSUME NEW r, NEW c, NEW b, NEW n, NEW k, k = c - n
  PROVE  Back(At(r, c, b), n) = At(r, k, b)
BY DEF Back, At

LEMMA ElsewhereStays ==
  ASSUME NEW s, Elsewhere(s)
  PROVE  /\ \A str : Elsewhere(Put(s, str))
         /\ \A n : Elsewhere(Back(s, n))
         /\ Elsewhere([s EXCEPT !.col = 0])
<1>1. PICK r, c : \E b \in Nat : b > PromptWidth /\ s = At(r, c, b)
  BY DEF Elsewhere
<1>2. PICK b \in Nat : b > PromptWidth /\ s = At(r, c, b)
  BY <1>1
<1>3. ASSUME NEW str PROVE Elsewhere(Put(s, str))
  <2>1. Put(s, str) = At(Over(r, c, str), c + Len(str), b)
    BY <1>2, PutAt
  <2>. QED BY <1>2, <2>1 DEF Elsewhere
<1>4. ASSUME NEW n PROVE Elsewhere(Back(s, n))
  <2>1. Back(s, n) = At(r, c - n, b)
    BY <1>2, BackAt
  <2>. QED BY <1>2, <2>1 DEF Elsewhere
<1>5. Elsewhere([s EXCEPT !.col = 0])
  <2>1. [s EXCEPT !.col = 0] = At(r, 0, b)
    BY <1>2 DEF At
  <2>. QED BY <1>2, <2>1 DEF Elsewhere
<1>. QED BY <1>3, <1>4, <1>5

LEMMA PromptLength == Len(Prompt) = PromptWidth /\ \A i \in 1..PromptWidth : Prompt[i] = "prompt"
BY SizeAssumption DEF Prompt

LEMMA BlanksLength ==
  ASSUME NEW n \in Nat
  PROVE  Len(Blanks(n)) = n /\ \A i \in 1..n : Blanks(n)[i] = Space
BY DEF Blanks

LEMMA Widths == PromptWidth \in Nat /\ PromptWidth > 0 /\ MaxLine \in Nat /\ Columns \subseteq Nat
BY SizeAssumption DEF Columns

(* A new row.                                                              *)
LEMMA FreshShows ==
  ASSUME NEW b, NEW n \in Nat, NEW at \in 0..n
  PROVE  Fresh([i \in 1..n |-> b[i - 1]], at) = Picture(b, n, at)
<1>. DEFINE text == [i \in 1..n |-> b[i - 1]]
            blank == [i \in Columns |-> Space]
            prompt == Over(blank, 0, Prompt)
            whole == Over(prompt, PromptWidth, text)
<1>0. /\ PromptWidth \in Nat /\ PromptWidth > 0 /\ Columns \subseteq Nat
      /\ Len(text) = n /\ \A i \in 1..n : text[i] = b[i - 1]
  BY Widths
<1>. HIDE DEF text
<1>1. [row |-> blank, col |-> 0, base |-> PromptWidth] = At(blank, 0, PromptWidth)
  BY DEF At
<1>2. Put(At(blank, 0, PromptWidth), Prompt) = At(prompt, PromptWidth, PromptWidth)
  <2>1. 0 + Len(Prompt) = PromptWidth
    BY <1>0, PromptLength
  <2>. HIDE DEF blank
  <2>. QED BY <2>1, PutAt
<1>3. Put(At(prompt, PromptWidth, PromptWidth), text)
        = At(whole, PromptWidth + n, PromptWidth)
  BY <1>0, PutAt
<1>4. Back(At(whole, PromptWidth + n, PromptWidth), n - at)
        = At(whole, PromptWidth + at, PromptWidth)
  <2>. DEFINE c == PromptWidth + n
              k == PromptWidth + at
              d == n - at
  <2>1. k = c - d
    BY <1>0
  <2>. HIDE DEF whole, c, d, k
  <2>2. Back(At(whole, c, PromptWidth), d) = At(whole, k, PromptWidth)
    BY <2>1, BackAt
  <2>. QED BY <2>2 DEF c, d, k
<1>5. whole = Shows(b, n)
  <2>1. ASSUME NEW i \in Columns
        PROVE  prompt[i] = IF i < PromptWidth THEN "prompt" ELSE Space
    BY <1>0, <2>1, PromptLength DEF Over
  <2>. HIDE DEF prompt
  <2>2. ASSUME NEW i \in Columns
        PROVE  whole[i] = Shows(b, n)[i]
    <3>1. CASE i < PromptWidth
      BY <1>0, <2>1, <2>2, <3>1 DEF Over, Shows
    <3>2. CASE ~(i < PromptWidth) /\ i < PromptWidth + n
      <4>1. i - PromptWidth + 1 \in 1..n /\ i - PromptWidth + 1 - 1 = i - PromptWidth
        BY <1>0, <3>2
      <4>2. text[i - PromptWidth + 1] = b[i - PromptWidth]
        BY <1>0, <4>1
      <4>3. whole[i] = text[i - PromptWidth + 1]
        BY <1>0, <3>2 DEF Over
      <4>. QED BY <4>2, <4>3, <3>2 DEF Shows
    <3>3. CASE ~(i < PromptWidth + n)
      BY <1>0, <2>1, <2>2, <3>3 DEF Over, Shows
    <3>. QED BY <3>1, <3>2, <3>3
  <2>. QED BY <2>2 DEF Over, Shows
<1>. HIDE DEF blank, prompt, whole
<1>6. Fresh(text, at) = Back(Put(Put(At(blank, 0, PromptWidth), Prompt), text), n - at)
  BY <1>0, <1>1 DEF Fresh, blank
<1>7. Fresh(text, at) = At(whole, PromptWidth + at, PromptWidth)
  BY <1>2, <1>3, <1>4, <1>6
<1>. QED BY <1>5, <1>7 DEF Picture, text

(* Written from cell `from` on, str makes n cells of b into m cells of d.  *)
Turns(b, n, d, m, from, str) ==
  /\ \A i \in Nat : i < from => i < n /\ i < m /\ d[i] = b[i]
  /\ \A i \in Nat : from <= i /\ i < from + Len(str) =>
       str[i - from + 1] = IF i < m THEN d[i] ELSE Space
  /\ \A i \in Nat : from + Len(str) <= i =>
       /\ i < m <=> i < n
       /\ i < m => d[i] = b[i]

LEMMA OverTurns ==
  ASSUME NEW b, NEW n \in Nat, NEW d, NEW m \in Nat, NEW from \in Nat, NEW str, Len(str) \in Nat,
         Turns(b, n, d, m, from, str)
  PROVE  Over(Shows(b, n), PromptWidth + from, str) = Shows(d, m)
<1>. DEFINE row == Over(Shows(b, n), PromptWidth + from, str)
<1>0. /\ PromptWidth \in Nat /\ PromptWidth > 0 /\ Columns \subseteq Nat
  BY Widths
<1>1. ASSUME NEW i \in Columns
      PROVE  row[i] = Shows(d, m)[i]
  <2>0. /\ i \in Nat
        /\ Shows(d, m)[i] = IF i < PromptWidth THEN "prompt"
                       ELSE IF i < PromptWidth + m THEN d[i - PromptWidth] ELSE Space
        /\ Shows(b, n)[i] = IF i < PromptWidth THEN "prompt"
                      ELSE IF i < PromptWidth + n THEN b[i - PromptWidth] ELSE Space
        /\ row[i] = IF PromptWidth + from <= i /\ i < PromptWidth + from + Len(str)
                    THEN str[i - (PromptWidth + from) + 1] ELSE Shows(b, n)[i]
    BY <1>0 DEF Shows, Over
  <2>. HIDE DEF row
  <2>1. CASE i < PromptWidth
    BY <1>0, <2>0, <2>1
  <2>2. CASE ~(i < PromptWidth)
    <3>. DEFINE x == i - PromptWidth
    <3>1. /\ x \in Nat /\ i - (PromptWidth + from) + 1 = x - from + 1
          /\ PromptWidth + from <= i <=> from <= x
          /\ i < PromptWidth + from + Len(str) <=> x < from + Len(str)
          /\ i < PromptWidth + m <=> x < m
          /\ i < PromptWidth + n <=> x < n
      BY <1>0, <2>0, <2>2
    <3>2. /\ Shows(d, m)[i] = IF x < m THEN d[x] ELSE Space
          /\ Shows(b, n)[i] = IF x < n THEN b[x] ELSE Space
          /\ row[i] = IF from <= x /\ x < from + Len(str)
                      THEN str[x - from + 1] ELSE Shows(b, n)[i]
      BY <2>0, <2>2, <3>1
    <3>. HIDE DEF x
    <3>3. CASE x < from
      BY <3>1, <3>2, <3>3 DEF Turns
    <3>4. CASE from <= x /\ x < from + Len(str)
      BY <3>1, <3>2, <3>4 DEF Turns
    <3>5. CASE from + Len(str) <= x
      <4>1. (x < m <=> x < n) /\ (x < m => d[x] = b[x])
        BY <3>1, <3>5 DEF Turns
      <4>2. ~(x < from + Len(str))
        BY <3>1, <3>5
      <4>. QED BY <3>2, <4>1, <4>2
    <3>. QED BY <3>1, <3>3, <3>4, <3>5
  <2>. QED BY <2>1, <2>2
<1>. QED BY <1>1 DEF Over, Shows

(* The cursor goes back, str is written, the cursor goes back again.       *)
LEMMA Rewritten ==
  ASSUME NEW b, NEW n \in Nat, NEW d, NEW m \in Nat, NEW to \in Nat,
         NEW back \in Nat, NEW from \in Nat,
         NEW str, Len(str) \in Nat, NEW over \in Int,
         Turns(b, n, d, m, from, str), from + Len(str) = to + over
  PROVE  Back(Put(Back(Picture(b, n, from + back), back), str), over) = Picture(d, m, to)
<1>. DEFINE row == Over(Shows(b, n), PromptWidth + from, str)
<1>0. PromptWidth \in Nat /\ PromptWidth + (from + back) - back = PromptWidth + from
      /\ PromptWidth + from + Len(str) - over = PromptWidth + to
  BY Widths
<1>1. Back(Picture(b, n, from + back), back) = At(Shows(b, n), PromptWidth + from, PromptWidth)
  BY <1>0, BackAt DEF Picture
<1>2. Put(At(Shows(b, n), PromptWidth + from, PromptWidth), str)
        = At(row, PromptWidth + from + Len(str), PromptWidth)
  BY PutAt
<1>3. Back(At(row, PromptWidth + from + Len(str), PromptWidth), over)
        = At(row, PromptWidth + to, PromptWidth)
  <2>. HIDE DEF row
  <2>. QED BY <1>0, BackAt
<1>4. row = Shows(d, m)
  BY <1>0, OverTurns
<1>. QED BY <1>1, <1>2, <1>3, <1>4 DEF Picture

(* The same without one of the two.                                        *)
LEMMA RewrittenBack ==
  ASSUME NEW b, NEW n \in Nat, NEW at \in Nat, NEW d, NEW m \in Nat, NEW to \in Nat,
         NEW str, Len(str) \in Nat, NEW over \in Int,
         Turns(b, n, d, m, at, str), at + Len(str) = to + over
  PROVE  Back(Put(Picture(b, n, at), str), over) = Picture(d, m, to)
<1>. DEFINE row == Over(Shows(b, n), PromptWidth + at, str)
            c == PromptWidth + at + Len(str)
            k == PromptWidth + to
<1>1. Put(Picture(b, n, at), str) = At(row, c, PromptWidth)
  BY PutAt DEF Picture
<1>2. row = Shows(d, m)
  BY OverTurns
<1>3. k = c - over
  BY Widths
<1>. HIDE DEF row, c, k
<1>4. Back(At(row, c, PromptWidth), over) = At(row, k, PromptWidth)
  BY <1>3, BackAt
<1>. QED BY <1>1, <1>2, <1>4 DEF k, Picture

LEMMA RewrittenOn ==
  ASSUME NEW b, NEW n \in Nat, NEW d, NEW m \in Nat,
         NEW back \in Nat, NEW from \in Nat, NEW str, Len(str) \in Nat,
         Turns(b, n, d, m, from, str)
  PROVE  Put(Back(Picture(b, n, from + back), back), str) = Picture(d, m, from + Len(str))
<1>. DEFINE row == Over(Shows(b, n), PromptWidth + from, str)
<1>0. PromptWidth \in Nat /\ PromptWidth + (from + back) - back = PromptWidth + from
      /\ PromptWidth + from + Len(str) = PromptWidth + (from + Len(str))
  BY Widths
<1>1. Back(Picture(b, n, from + back), back) = At(Shows(b, n), PromptWidth + from, PromptWidth)
  BY <1>0, BackAt DEF Picture
<1>2. Put(At(Shows(b, n), PromptWidth + from, PromptWidth), str)
        = At(row, PromptWidth + from + Len(str), PromptWidth)
  BY PutAt
<1>3. row = Shows(d, m)
  BY <1>0, OverTurns
<1>. QED BY <1>0, <1>1, <1>2, <1>3 DEF Picture

LEMMA Written ==
  ASSUME NEW b, NEW n \in Nat, NEW at \in Nat, NEW d, NEW m \in Nat, NEW to \in Nat,
         NEW str, Len(str) \in Nat,
         Turns(b, n, d, m, at, str), to = at + Len(str)
  PROVE  Put(Picture(b, n, at), str) = Picture(d, m, to)
<1>1. Put(Picture(b, n, at), str)
        = At(Over(Shows(b, n), PromptWidth + at, str), PromptWidth + at + Len(str), PromptWidth)
  BY PutAt DEF Picture
<1>2. PromptWidth + at + Len(str) = PromptWidth + to
  BY Widths
<1>. QED BY <1>1, <1>2, OverTurns DEF Picture

-----------------------------------------------------------------------------
(* What the keys do to the row.                                            *)

(* The row follows the line, whichever of the two it shows.                *)
RowFollows ==
  /\ screen = Picture(cmd, l, cursor) => screen' = Picture(cmd', l', cursor')
  /\ Elsewhere(screen) => Elsewhere(screen')

LEMMA Following == ASSUME ScreenOK, session = "open", RowFollows PROVE ScreenOK'
BY DEF ScreenOK, RowFollows

LEMMA LineNumbers ==
  ASSUME IInv
  PROVE  /\ l \in Nat /\ cursor \in Nat /\ cursor <= l /\ l <= MaxLine /\ MaxLine \in Nat
         /\ \A i \in Nat : i < l => i \in Cells
         /\ LineOK
BY SizeAssumption DEF IInv, LineOK, Cells

LEMMA RowIdle ==
  ASSUME UNCHANGED <<cmd, l, cursor, screen>>
  PROVE  RowFollows
BY DEF RowFollows

(* A new row shows the line.                                               *)
LEMMA RowFresh ==
  ASSUME IInv', NEW at, at = cursor', screen' = Fresh(Text', at)
  PROVE  ScreenOK'
<1>1. l' \in Nat /\ cursor' \in 0..l'
  BY SizeAssumption DEF IInv, LineOK
<1>2. Text' = [i \in 1..l' |-> cmd'[i - 1]]
  BY DEF Text
<1>3. screen' = Picture(cmd', l', cursor')
  BY <1>1, <1>2, FreshShows
<1>. QED BY <1>3 DEF ScreenOK

LEMMA RowTyped ==
  ASSUME IInv, NEW c \in Chars, TypeAtEnd(c), session' = "open", Room
  PROVE  RowFollows
<1>0. /\ l \in Nat /\ MaxLine \in Nat /\ cursor = l /\ Room
      /\ cmd' = [cmd EXCEPT ![l] = c] /\ l' = l + 1 /\ cursor' = l + 1
      /\ screen' = Put(screen, <<c>>) /\ cmd \in [Cells -> Plain \cup {NUL}]
  BY LineNumbers DEF TypeAtEnd, Fault, IInv, LineOK
<1>1. l \in Cells /\ l' \in Nat /\ cursor' = cursor + Len(<<c>>)
  BY <1>0 DEF Room, Cells
<1>2. Turns(cmd, l, cmd', l', cursor, <<c>>)
  <2>1. \A i \in Nat : i < l => i \in Cells
    BY LineNumbers
  <2>2. cmd'[l] = c /\ \A i \in Cells : i # l => cmd'[i] = cmd[i]
    BY <1>0, <1>1
  <2>. QED BY <1>0, <2>1, <2>2 DEF Turns
<1>3. ASSUME screen = Picture(cmd, l, cursor)
      PROVE  screen' = Picture(cmd', l', cursor')
  <2>. DEFINE str == <<c>>
  <2>1. /\ cursor \in Nat /\ cursor' \in Nat /\ Len(str) \in Nat
        /\ cursor' = cursor + Len(str) /\ Turns(cmd, l, cmd', l', cursor, str)
        /\ screen' = Put(screen, str)
    BY <1>0, <1>1, <1>2
  <2>. HIDE DEF str
  <2>2. Put(Picture(cmd, l, cursor), str) = Picture(cmd', l', cursor')
    BY <1>0, <1>1, <2>1, Written
  <2>. QED BY <1>3, <2>1, <2>2
<1>. QED BY <1>0, <1>3, ElsewhereStays DEF RowFollows

LEMMA RowInserted ==
  ASSUME IInv, NEW c \in Chars, TypeInside(c), session' = "open"
  PROVE  RowFollows
<1>. DEFINE d == l' - cursor
            moved == [i \in 1..d |-> cmd'[cursor + i - 1]]
<1>0. /\ l \in Nat /\ MaxLine \in Nat /\ cursor \in Nat /\ cursor < l /\ l < MaxLine
      /\ cmd' = Inserted(c) /\ l' = (IF Room THEN l + 1 ELSE l) /\ cursor' = cursor + 1
      /\ screen' = Put(Back(Put(screen, moved), d), <<c>>)
  BY LineNumbers DEF TypeInside, Fault
<1>1. l' \in Nat /\ d \in Nat /\ d > 0 /\ cursor + d = l' /\ l <= l' /\ l' < MaxLine
      /\ Len(moved) = d /\ cursor + d = cursor + d /\ cursor' \in Nat
  BY <1>0 DEF Room
<1>2. ASSUME NEW i \in Nat, i < cursor
      PROVE  cmd'[i] = cmd[i] /\ i < l /\ i < l'
  BY <1>0, <1>1, <1>2 DEF Inserted, Cells, Room
<1>3. cmd'[cursor] = c
  BY <1>0 DEF Inserted, Cells
<1>4. Turns(cmd, l, cmd', l', cursor, moved)
  <2>1. ASSUME NEW i \in Nat, cursor <= i, i < cursor + Len(moved)
        PROVE  moved[i - cursor + 1] = IF i < l' THEN cmd'[i] ELSE Space
    <3>1. i - cursor + 1 \in 1..d /\ cursor + (i - cursor + 1) - 1 = i /\ i < l'
      BY <1>0, <1>1, <2>1
    <3>. QED BY <3>1
  <2>2. ASSUME NEW i \in Nat, cursor + Len(moved) <= i
        PROVE  ~(i < l') /\ ~(i < l)
    BY <1>0, <1>1, <2>2
  <2>. HIDE DEF moved
  <2>. QED BY <1>2, <2>1, <2>2 DEF Turns
<1>5. Turns(cmd', l', cmd', l', cursor, <<c>>)
  BY <1>0, <1>1, <1>3 DEF Turns
<1>. HIDE DEF moved, d
<1>6. ASSUME screen = Picture(cmd, l, cursor)
      PROVE  screen' = Picture(cmd', l', cursor')
  <2>1. Back(Put(screen, moved), d) = Picture(cmd', l', cursor)
    <3>1. cursor + Len(moved) = cursor + d /\ Len(moved) \in Nat /\ d \in Int
      BY <1>0, <1>1
    <3>. QED BY <1>0, <1>1, <1>4, <1>6, <3>1, RewrittenBack
  <2>. DEFINE str == <<c>>
  <2>2. /\ cursor' = cursor + Len(str) /\ Len(str) \in Nat
        /\ Turns(cmd', l', cmd', l', cursor, str)
        /\ screen' = Put(Picture(cmd', l', cursor), str)
    BY <1>0, <1>5, <2>1
  <2>. HIDE DEF str
  <2>3. Put(Picture(cmd', l', cursor), str) = Picture(cmd', l', cursor')
    BY <1>0, <1>1, <2>2, Written
  <2>. QED BY <2>2, <2>3
<1>. QED BY <1>0, <1>6, ElsewhereStays DEF RowFollows

LEMMA RowErased ==
  ASSUME IInv, NEW s \in 0..cursor, EraseFrom(s)
  PROVE  RowFollows
<1>. DEFINE k == cursor - s
            tail == [i \in 1..(l - s) |-> IF cursor + i <= l THEN cmd[cursor + i - 1] ELSE Space]
<1>0. /\ l \in Nat /\ MaxLine \in Nat /\ cursor \in Nat /\ cursor <= l /\ l <= MaxLine
      /\ s \in Nat /\ s <= cursor /\ k \in 0..cursor /\ s + k = cursor
      /\ cmd' = [i \in Cells |-> IF i < s \/ i >= l THEN cmd[i]
                              ELSE IF i + k < l THEN cmd[i + k] ELSE NUL]
      /\ l' = l - k /\ cursor' = s
      /\ screen' = Back(Put(Back(screen, k), tail), l - s)
  BY LineNumbers DEF EraseFrom
<1>1. l' \in Nat /\ cursor - k = s /\ Len(tail) = l - s /\ l - s \in Nat
  BY <1>0
<1>2. Turns(cmd, l, cmd', l', s, tail)
  <2>1. ASSUME NEW i \in Nat, i < s
        PROVE  i < l /\ i < l' /\ cmd'[i] = cmd[i]
    BY <1>0, <2>1 DEF Cells
  <2>2. ASSUME NEW i \in Nat, s <= i, i < s + Len(tail)
        PROVE  tail[i - s + 1] = IF i < l' THEN cmd'[i] ELSE Space
    <3>1. i - s + 1 \in 1..(l - s) /\ cursor + (i - s + 1) - 1 = i + k /\ i \in Cells /\ i < l
      BY <1>0, <1>1, <2>2 DEF Cells
    <3>2. tail[i - s + 1] = IF cursor + (i - s + 1) <= l THEN cmd[i + k] ELSE Space
      BY <3>1
    <3>3. cursor + (i - s + 1) <= l <=> i + k < l
      BY <1>0, <3>1
    <3>4. i + k < l <=> i < l'
      BY <1>0
    <3>5. i + k < l => cmd'[i] = cmd[i + k]
      BY <1>0, <2>2, <3>1
    <3>. HIDE DEF tail, k
    <3>. QED BY <3>2, <3>3, <3>4, <3>5
  <2>3. ASSUME NEW i \in Nat, s + Len(tail) <= i
        PROVE  ~(i < l) /\ ~(i < l')
    BY <1>0, <1>1, <2>3
  <2>. HIDE DEF tail
  <2>. QED BY <2>1, <2>2, <2>3 DEF Turns
<1>. HIDE DEF tail, k
<1>3. ASSUME screen = Picture(cmd, l, cursor)
      PROVE  screen' = Picture(cmd', l', cursor')
  <2>2. cursor = s + k /\ s + Len(tail) = s + (l - s) /\ Len(tail) \in Nat /\ l - s \in Int
    BY <1>0, <1>1
  <2>3. Back(Put(Back(Picture(cmd, l, cursor), k), tail), l - s) = Picture(cmd', l', s)
    BY <1>0, <1>1, <1>2, <2>2, Rewritten
  <2>. QED BY <1>0, <1>3, <2>3
<1>. QED BY <1>0, <1>3, ElsewhereStays DEF RowFollows

LEMMA ClearedRow ==
  ASSUME IInv
  PROVE  /\ screen = Picture(cmd, l, cursor) => \A b : Cleared = Picture(b, 0, 0)
         /\ Elsewhere(screen) => Elsewhere(Cleared)
<1>0. l \in Nat /\ cursor \in Nat /\ cursor <= l
  BY LineNumbers
<1>1. Len(Blanks(l)) = l /\ \A i \in 1..l : Blanks(l)[i] = Space
  BY <1>0, BlanksLength
<1>2. ASSUME NEW b
      PROVE  Turns(cmd, l, b, 0, 0, Blanks(l))
  <2>1. ASSUME NEW i \in Nat, 0 <= i, i < 0 + Len(Blanks(l))
        PROVE  Blanks(l)[i - 0 + 1] = Space
    <3>1. i - 0 + 1 \in 1..l
      BY <1>0, <1>1, <2>1
    <3>. QED BY <1>1, <3>1
  <2>. QED BY <1>0, <1>1, <2>1 DEF Turns
<1>3. ASSUME NEW b, screen = Picture(cmd, l, cursor)
      PROVE  Cleared = Picture(b, 0, 0)
  <2>. DEFINE str == Blanks(l)
              start == 0
  <2>1. /\ Len(str) \in Nat /\ start \in Nat /\ Turns(cmd, l, b, start, start, str)
    BY <1>0, <1>1, <1>2
  <2>2. start + Len(str) = start + l /\ cursor = start + cursor
        /\ Cleared = Back(Put(Back(screen, cursor), str), l)
    BY <1>0, <1>1 DEF Cleared
  <2>. HIDE DEF str, start
  <2>3. Back(Put(Back(Picture(cmd, l, start + cursor), cursor), str), l)
          = Picture(b, start, start)
    <3>1. start + Len(str) = start + l /\ l \in Int
      BY <1>0, <2>2
    <3>. QED BY <1>0, <2>1, <3>1, Rewritten
  <2>4. Cleared = Picture(b, start, start)
    BY <1>3, <2>2, <2>3
  <2>. QED BY <2>4 DEF start
<1>. QED BY <1>3, ElsewhereStays DEF Cleared

LEMMA RowCleared == ASSUME IInv, ClearLine PROVE RowFollows
BY ClearedRow DEF ClearLine, RowFollows

LEMMA RowKilled == ASSUME IInv, KillToEnd PROVE RowFollows
<1>0. /\ l \in Nat /\ cursor \in Nat /\ cursor <= l /\ l <= MaxLine /\ MaxLine \in Nat
      /\ cmd' = ZeroFrom(cursor) /\ l' = cursor /\ cursor' = cursor
      /\ screen' = Back(Put(screen, Blanks(l - cursor)), l - cursor)
  BY LineNumbers DEF KillToEnd
<1>1. l - cursor \in Nat /\ Len(Blanks(l - cursor)) = l - cursor
      /\ \A i \in 1..(l - cursor) : Blanks(l - cursor)[i] = Space
  BY <1>0, BlanksLength
<1>2. Turns(cmd, l, cmd', l', cursor, Blanks(l - cursor))
  <2>1. ASSUME NEW i \in Nat, cursor <= i, i < cursor + Len(Blanks(l - cursor))
        PROVE  Blanks(l - cursor)[i - cursor + 1] = Space
    <3>1. i - cursor + 1 \in 1..(l - cursor)
      BY <1>0, <1>1, <2>1
    <3>. QED BY <1>1, <3>1
  <2>2. ASSUME NEW i \in Nat, i < cursor
        PROVE  i < l /\ i < l' /\ cmd'[i] = cmd[i]
    BY <1>0, <2>2 DEF ZeroFrom, Cells
  <2>. QED BY <1>0, <1>1, <2>1, <2>2 DEF Turns
<1>3. ASSUME screen = Picture(cmd, l, cursor)
      PROVE  screen' = Picture(cmd', l', cursor')
  <2>1. cursor + Len(Blanks(l - cursor)) = cursor + (l - cursor)
        /\ Len(Blanks(l - cursor)) \in Nat /\ l - cursor \in Int
    BY <1>0, <1>1
  <2>. QED BY <1>0, <1>2, <1>3, <2>1, RewrittenBack
<1>. QED BY <1>0, <1>3, ElsewhereStays DEF RowFollows

LEMMA RowLeft == ASSUME IInv, Left PROVE RowFollows
<1>0. PromptWidth \in Nat /\ cursor \in Nat
  BY Widths, LineNumbers
<1>1. CASE cursor = 0
  BY <1>1, RowIdle DEF Left
<1>2. CASE cursor > 0
  <2>1. cursor' = cursor - 1 /\ screen' = Back(screen, 1) /\ UNCHANGED <<cmd, l>>
    BY <1>2 DEF Left
  <2>2. PromptWidth + cursor' = PromptWidth + cursor - 1
    BY <1>0, <2>1
  <2>3. ASSUME screen = Picture(cmd, l, cursor)
        PROVE  screen' = Picture(cmd', l', cursor')
    <3>. DEFINE c == PromptWidth + cursor
                k == PromptWidth + cursor'
                row == Shows(cmd, l)
    <3>1. k = c - 1 /\ screen = At(row, c, PromptWidth)
      BY <1>0, <2>1, <2>2, <2>3 DEF Picture
    <3>. HIDE DEF c, k, row
    <3>2. Back(screen, 1) = At(row, k, PromptWidth)
      BY <3>1, BackAt
    <3>. QED BY <2>1, <3>2 DEF k, row, Picture
  <2>. QED BY <2>1, <2>3, ElsewhereStays DEF RowFollows
<1>. QED BY <1>0, <1>1, <1>2

(* The characters from the cursor on are shown again.                      *)
LEMMA RowEcho ==
  ASSUME IInv, NEW str, Len(str) \in Nat, cursor + Len(str) <= l,
         \A i \in 1..Len(str) : str[i] = cmd[cursor + i - 1],
         screen' = Put(screen, str), UNCHANGED <<cmd, l>>, cursor' = cursor + Len(str)
  PROVE  RowFollows
<1>0. l \in Nat /\ cursor \in Nat
  BY LineNumbers
<1>1. Turns(cmd, l, cmd', l', cursor, str)
  <2>1. ASSUME NEW i \in Nat, cursor <= i, i < cursor + Len(str)
        PROVE  str[i - cursor + 1] = IF i < l' THEN cmd'[i] ELSE Space
    <3>1. i - cursor + 1 \in 1..Len(str) /\ cursor + (i - cursor + 1) - 1 = i /\ i < l
      BY <1>0, <2>1
    <3>. QED BY <3>1
  <2>2. \A i \in Nat : i < cursor => i < l
    BY <1>0
  <2>. QED BY <2>1, <2>2 DEF Turns
<1>2. cursor' \in Nat /\ l' \in Nat
  BY <1>0
<1>3. ASSUME screen = Picture(cmd, l, cursor)
      PROVE  screen' = Picture(cmd', l', cursor')
  BY <1>0, <1>1, <1>2, <1>3, Written
<1>. QED BY <1>3, ElsewhereStays DEF RowFollows

LEMMA RowRight == ASSUME IInv, Right PROVE RowFollows
<1>0. l \in Nat /\ cursor \in Nat /\ cursor <= l
  BY LineNumbers
<1>1. CASE cursor = l
  BY <1>0, <1>1, RowIdle DEF Right
<1>2. CASE cursor < l
  <2>. DEFINE str == <<cmd[cursor]>>
  <2>1. Len(str) = 1 /\ cursor + 1 - 1 = cursor /\ \A i \in 1..1 : str[i] = cmd[cursor + i - 1]
    BY <1>0
  <2>2. cursor' = cursor + Len(str) /\ screen' = Put(screen, str) /\ UNCHANGED <<cmd, l>>
    BY <1>0, <1>2, <2>1 DEF Right
  <2>3. Len(str) \in Nat /\ cursor + Len(str) <= l /\ \A i \in 1..Len(str) : str[i] = cmd[cursor + i - 1]
    BY <1>0, <1>2, <2>1
  <2>. HIDE DEF str
  <2>. QED BY <2>2, <2>3, RowEcho
<1>. QED BY <1>0, <1>1, <1>2

LEMMA RowEnd == ASSUME IInv, End PROVE RowFollows
<1>0. l \in Nat /\ cursor \in Nat /\ cursor <= l
  BY LineNumbers
<1>. DEFINE str == [i \in 1..(l - cursor) |-> cmd[cursor + i - 1]]
<1>1. Len(str) = l - cursor /\ \A i \in 1..Len(str) : str[i] = cmd[cursor + i - 1]
  BY <1>0
<1>2. screen' = Put(screen, str) /\ cursor' = cursor + Len(str) /\ UNCHANGED <<cmd, l>>
      /\ Len(str) \in Nat /\ cursor + Len(str) <= l
  BY <1>0, <1>1 DEF End
<1>. HIDE DEF str
<1>. QED BY <1>1, <1>2, RowEcho

LEMMA RowHome == ASSUME IInv, Home PROVE RowFollows
<1>1. CASE cursor = 0
  BY <1>1, RowIdle DEF Home
<1>2. CASE cursor > 0
  <2>1. cursor' = 0 /\ screen' = Put([screen EXCEPT !.col = 0], Prompt) /\ UNCHANGED <<cmd, l>>
    BY <1>2 DEF Home
  <2>2. ASSUME screen = Picture(cmd, l, cursor)
        PROVE  screen' = Picture(cmd', l', cursor')
    <3>. DEFINE row == Shows(cmd, l)
    <3>1. [screen EXCEPT !.col = 0] = At(row, 0, PromptWidth)
      BY <2>2 DEF Picture, At
    <3>2. Over(row, 0, Prompt) = row
      <4>1. ASSUME NEW i \in Columns
            PROVE  Over(row, 0, Prompt)[i] = row[i]
        BY <4>1, Widths, PromptLength DEF Over, Shows
      <4>. QED BY <4>1 DEF Over, Shows
    <3>3. 0 + Len(Prompt) = PromptWidth + 0
      BY Widths, PromptLength
    <3>. HIDE DEF row
    <3>4. Put(At(row, 0, PromptWidth), Prompt) = At(row, PromptWidth + 0, PromptWidth)
      BY <3>2, <3>3, PutAt
    <3>. QED BY <2>1, <3>1, <3>4 DEF row, Picture
  <2>. QED BY <2>1, <2>2, ElsewhereStays DEF RowFollows
<1>. QED BY <1>1, <1>2, LineNumbers

(* ^Z puts a second prompt on the row.                                     *)
LEMMA RowCtrlZ == ASSUME IInv, ScreenOK, CtrlZ PROVE ScreenOK'
<1>0. session = "open" /\ session' = "open"
  BY DEF CtrlZ, Pressed
<1>1. CASE UNCHANGED <<line, screen>>
  BY <1>0, <1>1 DEF ScreenOK, line
<1>2. CASE screen' = [Put(Cleared, Prompt) EXCEPT !.base = screen.base + PromptWidth]
  <2>1. \E r, c, b : Put(Cleared, Prompt) = At(r, c, b)
    <3>1. \E r, c, b : Cleared = At(r, c, b)
      BY <1>0, ClearedRow DEF ScreenOK, Picture, Elsewhere
    <3>. QED BY <3>1, PutAt
  <2>2. screen.base \in Nat /\ screen.base >= PromptWidth
    <3>1. CASE screen = Picture(cmd, l, cursor)
      BY <3>1, Widths DEF Picture, At
    <3>2. CASE Elsewhere(screen)
      BY <3>2, Widths DEF Elsewhere, At
    <3>. QED BY <1>0, <3>1, <3>2 DEF ScreenOK
  <2>3. PICK r, c, b : Put(Cleared, Prompt) = At(r, c, b)
    BY <2>1
  <2>. DEFINE n == screen.base + PromptWidth
  <2>4. n \in Nat /\ n > PromptWidth
    BY <2>2, Widths
  <2>. HIDE DEF n
  <2>5. [At(r, c, b) EXCEPT !.base = n] = At(r, c, n)
    BY DEF At
  <2>6. screen' = At(r, c, n)
    BY <1>2, <2>3, <2>5 DEF n
  <2>. QED BY <2>4, <2>6 DEF ScreenOK, Elsewhere
<1>. QED BY <1>1, <1>2 DEF CtrlZ, line

LEMMA RowRecalled == ASSUME IInv, NEW i, Recalled(i) PROVE RowFollows
<1>1. CASE i \in Places /\ history[i] # NUL
  <2>. DEFINE h == history[i]
  <2>1. /\ h \in Seq(Plain) /\ Len(h) \in Nat /\ Len(h) < MaxLine /\ MaxLine \in Nat
        /\ cmd' = [n \in Cells |-> IF n < Len(h) THEN h[n + 1] ELSE NUL]
        /\ l' = Len(h) /\ cursor' = Len(h) /\ screen' = Put(Cleared, h)
    BY <1>1, SizeAssumption DEF IInv, HistoryOK, Recordable, Recalled, ShowItem
  <2>. HIDE DEF h
  <2>2. Turns(cmd', 0, cmd', l', 0, h)
    <3>1. ASSUME NEW n \in Nat, n < Len(h)
          PROVE  h[n - 0 + 1] = cmd'[n]
      <4>1. n \in Cells /\ n - 0 + 1 = n + 1
        BY <2>1, <3>1 DEF Cells
      <4>. QED BY <2>1, <3>1, <4>1
    <3>. QED BY <2>1, <3>1 DEF Turns
  <2>3. cursor' = 0 + Len(h) /\ cursor' \in Nat /\ l' \in Nat
    BY <2>1
  <2>4. ASSUME screen = Picture(cmd, l, cursor)
        PROVE  screen' = Picture(cmd', l', cursor')
    <3>1. Cleared = Picture(cmd', 0, 0)
      BY <2>4, ClearedRow
    <3>. QED BY <2>1, <2>2, <2>3, <3>1, Written
  <2>. QED BY <2>1, <2>4, ClearedRow, ElsewhereStays DEF RowFollows
<1>2. CASE ~(i \in Places /\ history[i] # NUL)
  <2>1. UNCHANGED <<cmd, l, cursor, screen>>
    BY <1>2 DEF Recalled, line
  <2>. QED BY <2>1, RowIdle
<1>. QED BY <1>1, <1>2

LEMMA RowCompleted ==
  ASSUME IInv, cursor = l, NEW w \in Seq(Plain), WriteWord(w), ~Fault,
         \A s : Overwrites(s) => l <= s + Len(w)
  PROVE  RowFollows
<1>0. l \in Nat /\ Len(w) \in Nat /\ MaxLine \in Nat /\ l <= MaxLine
  BY LineNumbers
<1>1. PICK s \in 0..l :
        /\ s + Len(w) <= MaxLine /\ l <= s + Len(w)
        /\ cmd' = [i \in Cells |->
                     IF s <= i /\ i < s + Len(w) THEN w[i - s + 1] ELSE cmd[i]]
        /\ l' = s + Len(w) /\ cursor' = l'
        /\ screen' = Put(Back(screen, l - s), w)
  BY DEF WriteWord
<1>2. /\ s \in Nat /\ l - s \in 0..l /\ l - (l - s) = s /\ l' \in Nat /\ cursor' = s + Len(w)
  BY <1>0, <1>1
<1>3. Turns(cmd, l, cmd', l', s, w)
  <2>1. ASSUME NEW i \in Nat, i < s
        PROVE  i < l /\ i < l' /\ cmd'[i] = cmd[i]
    <3>1. i \in Cells /\ i < l /\ i < l' /\ ~(s <= i)
      BY <1>0, <1>1, <1>2, <2>1 DEF Cells
    <3>. QED BY <1>1, <3>1
  <2>2. ASSUME NEW i \in Nat, s <= i, i < s + Len(w)
        PROVE  w[i - s + 1] = IF i < l' THEN cmd'[i] ELSE Space
    <3>1. i \in Cells /\ i < l'
      BY <1>0, <1>1, <1>2, <2>2 DEF Cells
    <3>. QED BY <1>1, <2>2, <3>1
  <2>3. ASSUME NEW i \in Nat, s + Len(w) <= i
        PROVE  ~(i < l) /\ ~(i < l')
    BY <1>0, <1>1, <1>2, <2>3
  <2>. QED BY <2>1, <2>2, <2>3 DEF Turns
<1>4. ASSUME screen = Picture(cmd, l, cursor)
      PROVE  screen' = Picture(cmd', l', cursor')
  <2>. DEFINE k == l - s
  <2>1. /\ k \in Nat /\ l = s + k /\ l' = s + Len(w)
        /\ screen' = Put(Back(screen, k), w)
    BY <1>0, <1>1, <1>2
  <2>. HIDE DEF k
  <2>2. Put(Back(Picture(cmd, l, l), k), w) = Picture(cmd', l', l')
    BY <1>0, <1>2, <1>3, <2>1, RewrittenOn
  <2>. QED BY <1>1, <1>4, <2>1, <2>2
<1>. QED BY <1>1, <1>4, ElsewhereStays DEF RowFollows

LEMMA ElsewhereBase ==
  ASSUME NEW s, Elsewhere(s)
  PROVE  s.base # PromptWidth
BY Widths DEF Elsewhere, At

-----------------------------------------------------------------------------
(* The row shows the line after every key.                                 *)

LEMMA ScreenKept ==
  ASSUME IInv, IInv', ScreenOK, Quote \notin Bytes, [Next]_vars
  PROVE  ScreenOK'
<1>. SUFFICES ASSUME session' = "open" PROVE ScreenOK'
  BY DEF ScreenOK
<1>0. ~Fault
  BY DEF Fault
<1>1. CASE UNCHANGED <<cmd, l, cursor, screen, session>>
  BY <1>1 DEF ScreenOK
<1>2. ASSUME NEW c \in Chars, TypeAtEnd(c) PROVE ScreenOK'
  <2>1. Pressed(c) /\ session = "open"
    BY <1>2 DEF TypeAtEnd, Pressed
  <2>2. CASE Room
    BY <1>2, <2>1, <2>2, RowTyped, Following
  <2>3. CASE ~Room
    <3>1. l < MaxLine /\ cmd' = [cmd EXCEPT ![l] = NUL] /\ UNCHANGED <<l, cursor, screen>>
      BY <1>0, <1>2, <2>3 DEF TypeAtEnd
    <3>2. cmd' = cmd
      BY <2>3, <3>1, SizeAssumption DEF IInv, LineOK, LineIsString, Cells
    <3>. QED BY <2>1, <3>1, <3>2, RowIdle, Following
  <2>. QED BY <2>2, <2>3
<1>3. ASSUME NEW c \in Chars, TypeInside(c) PROVE ScreenOK'
  BY <1>3, RowInserted, Following DEF TypeInside, Pressed
<1>4. CASE Backspace \/ EraseWord
  <2>1. session = "open" /\ cursor \in Nat
    BY <1>4, LineNumbers DEF Backspace, EraseWord, Pressed
  <2>2. CASE \E s \in 0..cursor : EraseFrom(s)
    BY <2>1, <2>2, RowErased, Following
  <2>3. CASE UNCHANGED <<line, tabbed, memory, screen, around>>
    BY <1>1, <2>3 DEF line, around
  <2>. QED BY <1>4, <2>1, <2>2, <2>3 DEF Backspace, EraseWord
<1>5. CASE ClearLine \/ KillToEnd \/ Left \/ Right \/ Home \/ End
  <2>1. session = "open"
    BY <1>5 DEF ClearLine, KillToEnd, Left, Right, Home, End, Pressed
  <2>. QED BY <1>5, <2>1, RowCleared, RowKilled, RowLeft, RowRight, RowHome, RowEnd, Following
<1>6. CASE CtrlZ
  BY <1>6, RowCtrlZ
<1>7. CASE Redraw
  <2>1. screen' = Fresh(Text', cursor')
    BY <1>7 DEF Redraw, line, Text
  <2>. QED BY <2>1, RowFresh
<1>8. CASE Up \/ Down
  <2>1. (\E i : Recalled(i)) /\ session = "open"
    BY <1>0, <1>8 DEF Up, Down, Pressed
  <2>. QED BY <2>1, RowRecalled, Following
<1>9. CASE Enter
  <2>1. EmptyLine /\ screen' = Fresh(<<>>, 0)
    BY <1>9 DEF Enter
  <2>2. l' = 0 /\ cursor' = 0 /\ Text' = <<>>
    BY <2>1 DEF EmptyLine, Text
  <2>. QED BY <2>1, <2>2, RowFresh
<1>10. CASE Execute
  <2>1. screen' = Fresh(Text', l') /\ cursor' = l'
    BY <1>0, <1>10 DEF Execute, EmptyLine
  <2>. QED BY <2>1, RowFresh
<1>11. CASE HelpListed \/ TabOnly
  <2>1. session = "open" /\ UNCHANGED line
    BY <1>0, <1>11 DEF HelpListed, TabOnly, Pressed
  <2>2. screen' = screen \/ (cursor = l /\ screen' = Fresh(Text, l))
    BY <1>0, <1>11 DEF HelpListed, TabOnly
  <2>3. CASE screen' = screen
    BY <1>1, <2>1, <2>3 DEF line
  <2>4. CASE cursor = l /\ screen' = Fresh(Text, l)
    <3>1. Text' = Text /\ l = cursor'
      BY <2>1, <2>4 DEF line, Text
    <3>. QED BY <2>4, <3>1, RowFresh
  <2>. QED BY <2>2, <2>3, <2>4
<1>12. CASE HelpAsked
  <2>1. session = "open"
    BY <1>12 DEF HelpAsked, Pressed
  <2>2. ~Room /\ l < MaxLine /\ cmd' = [cmd EXCEPT ![l] = NUL]
        /\ UNCHANGED <<l, cursor, screen>>
    BY <1>12 DEF HelpAsked, RunHelp
  <2>3. cmd' = cmd
    BY <2>2, SizeAssumption DEF IInv, LineOK, LineIsString, Cells
  <2>. QED BY <2>1, <2>2, <2>3, RowIdle, Following
<1>13. CASE TabWord \/ TabPrefix
  <2>1. session = "open" /\ cursor = l /\ Terminated(cmd)
    BY <1>13 DEF TabWord, TabPrefix, Completing, Pressed
  <2>2. \E w \in Seq(Plain) : WriteWord(w) /\ \A s : Overwrites(s) => l <= s + Len(w)
    BY <1>13, WordWritten, PrefixWritten
  <2>. QED BY <1>0, <2>1, <2>2, RowCompleted, Following
<1>14. CASE Swallow \/ EndOfText \/ HangUp
  <2>1. UNCHANGED <<cmd, l, cursor, screen>> /\ session = "open"
    BY <1>14 DEF Swallow, EndOfText, HangUp, line, Pressed
  <2>. QED BY <2>1, RowIdle, Following
<1>15. CASE UNCHANGED vars
  BY <1>1, <1>15 DEF vars
<1>. QED BY <1>2, <1>3, <1>4, <1>5, <1>6, <1>7, <1>8, <1>9, <1>10, <1>11, <1>12, <1>13, <1>14, <1>15
     DEF Next

(* Without quotes, whatever keys are pressed: the terminal's row shows the *)
(* prompt, the line and nothing else, with the cursor where the buffer has *)
(* it, unless ^Z has put a second prompt on the row.                       *)
THEOREM ScreenSyncHolds == ASSUME Quote \notin Bytes PROVE Spec => []ScreenSync
<1>1. Init => ScreenOK
  <2>. SUFFICES ASSUME Init PROVE ScreenOK
    OBVIOUS
  <2>1. Text = [i \in 1..l |-> cmd[i - 1]]
    BY DEF Text
  <2>2. l \in Nat /\ cursor \in 0..l /\ screen = Fresh(Text, cursor)
    BY <2>1 DEF Init
  <2>3. screen = Picture(cmd, l, cursor)
    BY <2>1, <2>2, FreshShows
  <2>. QED BY <2>3 DEF ScreenOK
<1>2. IInv /\ IInv' /\ ScreenOK /\ [Next]_vars => ScreenOK'
  BY ScreenKept
<1>3. IInv /\ ScreenOK => ScreenSync
  <2>. SUFFICES ASSUME IInv, ScreenOK, session = "open", screen.base = PromptWidth
                PROVE  /\ screen.col = PromptWidth + cursor
                       /\ \A i \in Columns :
                            screen.row[i] = IF i < PromptWidth THEN "prompt"
                                            ELSE IF i < PromptWidth + l THEN cmd[i - PromptWidth]
                                            ELSE Space
    BY DEF ScreenSync
  <2>1. screen = Picture(cmd, l, cursor)
    BY ElsewhereBase DEF ScreenOK
  <2>2. screen.col = PromptWidth + cursor /\ screen.row = Shows(cmd, l)
    BY <2>1 DEF Picture, At
  <2>. QED BY <2>2 DEF Shows
<1>. QED BY InvariantHolds, <1>1, <1>2, <1>3, PTL DEF Spec
=============================================================================
