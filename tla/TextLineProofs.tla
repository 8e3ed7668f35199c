--------------------------- MODULE TextLineProofs ---------------------------
(***************************************************************************)
(* The line editor implements TextLine: what is run is the text as it was  *)
(* edited around the cursor.                                               *)
(***************************************************************************)
EXTENDS LineEditorProofs, SequenceTheorems

(* What the refinement mapping puts for the variables of TextLine.         *)
Before  == SubSeq(Text, 1, cursor)
After   == IF kept THEN <<>> ELSE SubSeq(Text, cursor + 1, l)
Running == IF session = "running" /\ Terminated(cmd) THEN CString(cmd) ELSE <<>>
Lines   == {history[i] : i \in {n \in Places : history[n] # NUL}}

TextStep == [Abstract!TextNext]_(Abstract!textVars)

(* n cells of b from m on.                                                 *)
Cut(b, m, n) == [i \in 1..n |-> b[m + i - 1]]

(* A line that is run is not empty; one that is kept for the next turn     *)
(* ends in the question mark that asked, behind the cursor.                *)
AskedOK ==
  /\ session = "running" => l > 0
  /\ kept => cursor = l - 1 /\ cmd[l - 1] = QMark

-----------------------------------------------------------------------------
(* The steps of TextLine.                                                  *)

Edits == Running = <<>> /\ UNCHANGED <<Running, kept, Lines>>

LEMMA AsStutter ==
  ASSUME UNCHANGED <<Before, After, Running, kept, Lines>>
  PROVE  TextStep
BY DEF TextStep, Abstract!textVars, Before, After, Running, Lines

LEMMA AsTypeChar ==
  ASSUME NEW c \in Chars, Edits, Before' = Append(Before, c),
         \/ Len(Before) + Len(After) < MaxLine - 1 /\ After' = After
         \/ /\ Len(Before) + Len(After) = MaxLine - 1 /\ After # <<>>
            /\ After' = SubSeq(After, 1, Len(After) - 1)
  PROVE  TextStep
BY DEF TextStep, Abstract!TextNext, Abstract!TypeChar, Abstract!Editing, Abstract!Length,
       Abstract!Front, Edits, Before, After, Running, Lines

LEMMA AsErase ==
  ASSUME Edits, NEW n \in 0..Len(Before), Before' = SubSeq(Before, 1, n), After' = After
  PROVE  TextStep
BY DEF TextStep, Abstract!TextNext, Abstract!Erase, Abstract!Editing,
       Edits, Before, After, Running, Lines

LEMMA AsKillRest ==
  ASSUME Edits, Before' = Before, After' = <<>>
  PROVE  TextStep
BY DEF TextStep, Abstract!TextNext, Abstract!KillRest, Abstract!Editing,
       Edits, Before, After, Running, Lines

LEMMA AsClear ==
  ASSUME Edits, Before' = <<>>, After' = <<>>
  PROVE  TextStep
BY DEF TextStep, Abstract!TextNext, Abstract!Clear, Abstract!Editing,
       Edits, Before, After, Running, Lines

LEMMA AsMoveCursor ==
  ASSUME Edits, Before' \o After' = Before \o After
  PROVE  TextStep
BY DEF TextStep, Abstract!TextNext, Abstract!MoveCursor, Abstract!Editing,
       Edits, Before, After, Running, Lines

LEMMA AsComplete ==
  ASSUME Edits, After = <<>>, After' = <<>>, NEW n \in 0..Len(Before),
         \A i \in (n + 1)..Len(Before) : Before[i] # Space,
         Len(SubSeq(Before, 1, n)) <= Len(Before'),
         SubSeq(Before, 1, n) = SubSeq(Before', 1, Len(SubSeq(Before, 1, n))),
         Len(Before') >= Len(Before)
  PROVE  TextStep
<1>1. Abstract!Editing
  BY DEF Abstract!Editing, Edits, Running, Lines
<1>2. After = <<>> /\ After' = <<>>
  OBVIOUS
<1>3. /\ n \in 0..Len(Before)
      /\ \A i \in (n + 1)..Len(Before) : Before[i] # Space
      /\ Abstract!IsPrefix(SubSeq(Before, 1, n), Before')
      /\ Len(Before') >= Len(Before)
  BY DEF Abstract!IsPrefix
<1>4. Abstract!Complete
  BY <1>1, <1>2, <1>3 DEF Abstract!Complete, Before, After
<1>. QED BY <1>4 DEF TextStep, Abstract!TextNext

LEMMA AsRecall ==
  ASSUME Edits, Before' \in Lines, After' = <<>>
  PROVE  TextStep
BY DEF TextStep, Abstract!TextNext, Abstract!Recall, Abstract!Editing,
       Edits, Before, After, Running, Lines

LEMMA AsSubmit ==
  ASSUME Running = <<>>, Before \o After # <<>>, Running' = Before \o After,
         UNCHANGED <<Before, After, kept, Lines>>
  PROVE  TextStep
BY DEF TextStep, Abstract!TextNext, Abstract!Submit, Before, After, Running, Lines

LEMMA AsAskHelp ==
  ASSUME Running = <<>>,
         After = <<>> \/ (Len(After) = 1 /\ Len(Before) + Len(After) = MaxLine - 1),
         Running' = Append(Before, QMark), kept' = TRUE,
         Before' = Before, After' = <<>>, Lines' = Lines
  PROVE  TextStep
BY DEF TextStep, Abstract!TextNext, Abstract!AskHelp, Abstract!Length,
       Before, After, Running, Lines

LEMMA AsFinish ==
  ASSUME Running # <<>>, Running' = <<>>, kept' = FALSE,
         IF kept THEN UNCHANGED <<Before, After>> ELSE Before' = <<>> /\ After' = <<>>,
         \/ Lines' \subseteq Lines \cup {Running} /\ (kept => Lines' = Lines)
         \/ Lines' = {}
  PROVE  TextStep
BY DEF TextStep, Abstract!TextNext, Abstract!Finish, Before, After, Running, Lines

LEMMA AsForget ==
  ASSUME Lines' = {}, UNCHANGED <<Before, After, Running, kept>>
  PROVE  TextStep
BY DEF TextStep, Abstract!TextNext, Abstract!Forget, Before, After, Running, Lines

-----------------------------------------------------------------------------
(* The text in the buffer.                                                 *)

LEMMA CutLength ==
  ASSUME NEW b, NEW m \in Nat, NEW n \in Nat
  PROVE  Len(Cut(b, m, n)) = n /\ \A i \in 1..n : Cut(b, m, n)[i] = b[m + i - 1]
BY DEF Cut

LEMMA CutTyped ==
  ASSUME NEW b, NEW l0, NEW p, Holds(b, l0, p), NEW m \in Nat, NEW n \in Nat, m + n <= l0
  PROVE  Cut(b, m, n) \in Seq(Plain)
<1>1. ASSUME NEW i \in 1..n PROVE b[m + i - 1] \in Plain
  <2>1. m + i - 1 \in Cells /\ m + i - 1 < l0
    BY SizeAssumption DEF Holds, Cells
  <2>. QED BY <2>1 DEF Holds
<1>. QED BY <1>1 DEF Cut

LEMMA PartOf ==
  ASSUME NEW b, NEW len, NEW p, Holds(b, len, p), NEW m \in Nat, NEW n \in Nat,
         m + n <= len
  PROVE  SubSeq([i \in 1..len |-> b[i - 1]], m + 1, m + n) = Cut(b, m, n)
<1>. DEFINE T == [i \in 1..len |-> b[i - 1]]
<1>0. len \in Nat
  BY SizeAssumption DEF Holds
<1>1. T \in Seq(Plain) /\ Len(T) = len
  BY LineTyped
<1>2. \A i \in 1..len : T[i] = b[i - 1]
  OBVIOUS
<1>. HIDE DEF T
<1>3. ASSUME NEW i \in (m + 1)..(m + n) PROVE T[i] \in Plain
  <2>1. i \in 1..len
    BY <1>0
  <2>. QED BY <1>1, <2>1, ElementOfSeq
<1>4. /\ SubSeq(T, m + 1, m + n) \in Seq(Plain)
      /\ Len(SubSeq(T, m + 1, m + n)) = IF m + 1 <= m + n THEN (m + n) - (m + 1) + 1 ELSE 0
      /\ \A i \in 1..((m + n) - (m + 1) + 1) : SubSeq(T, m + 1, m + n)[i] = T[(m + 1) + i - 1]
  <2>1. m + 1 \in Int /\ m + n \in Int
    OBVIOUS
  <2>. QED BY <1>3, <2>1, SubSeqProperties
<1>5. Len(SubSeq(T, m + 1, m + n)) = n
  BY <1>4
<1>6. ASSUME NEW i \in 1..n
      PROVE  SubSeq(T, m + 1, m + n)[i] = Cut(b, m, n)[i]
  <2>1. SubSeq(T, m + 1, m + n)[i] = T[m + i]
    BY <1>4
  <2>2. m + i \in 1..len
    BY <1>0
  <2>3. T[m + i] = b[m + i - 1]
    BY <1>2, <2>2
  <2>. QED BY <2>1, <2>3, CutLength
<1>7. Cut(b, m, n) \in Seq(Plain) /\ Len(Cut(b, m, n)) = n
  BY CutTyped, CutLength
<1>8. SubSeq(T, m + 1, m + n) = Cut(b, m, n)
  BY <1>4, <1>5, <1>6, <1>7, SeqEqual
<1>. QED BY <1>8 DEF T

LEMMA FirstPart ==
  ASSUME NEW b, NEW len, NEW p, Holds(b, len, p)
  PROVE  LET s == SubSeq([i \in 1..len |-> b[i - 1]], 1, p) IN
         s \in Seq(Plain) /\ Len(s) = p /\ \A i \in 1..p : s[i] = b[i - 1]
<1>0. p \in Nat /\ 0 + p <= len
  BY SizeAssumption DEF Holds
<1>. DEFINE s == SubSeq([i \in 1..len |-> b[i - 1]], 1, p)
<1>1. s = Cut(b, 0, p)
  <2>1. SubSeq([i \in 1..len |-> b[i - 1]], 0 + 1, 0 + p) = Cut(b, 0, p)
    BY <1>0, PartOf
  <2>. QED BY <1>0, <2>1
<1>2. Cut(b, 0, p) \in Seq(Plain)
  BY <1>0, CutTyped
<1>3. Cut(b, 0, p) = [i \in 1..p |-> b[i - 1]]
  BY <1>0 DEF Cut
<1>. HIDE DEF s
<1>4. s \in Seq(Plain) /\ Len(s) = p /\ \A i \in 1..p : s[i] = b[i - 1]
  BY <1>0, <1>1, <1>2, <1>3
<1>. QED BY <1>4 DEF s

(* s is what is behind the cursor in such a buffer.                        *)
IsRest(s, b, n, p) ==
  /\ s = Cut(b, p, n - p) /\ s \in Seq(Plain) /\ Len(s) = n - p
  /\ \A i \in 1..(n - p) : s[i] = b[p + i - 1]

LEMMA SecondPart ==
  ASSUME NEW b, NEW len, NEW p, Holds(b, len, p)
  PROVE  IsRest(SubSeq([i \in 1..len |-> b[i - 1]], p + 1, len), b, len, p)
<1>. DEFINE k == len - p
            s == SubSeq([i \in 1..len |-> b[i - 1]], p + 1, len)
<1>0. p \in Nat /\ k \in Nat /\ p + k = len /\ p + k <= len
  BY SizeAssumption DEF Holds
<1>1. s = Cut(b, p, k)
  <2>. HIDE DEF k
  <2>1. SubSeq([i \in 1..len |-> b[i - 1]], p + 1, p + k) = Cut(b, p, k)
    BY <1>0, PartOf
  <2>. QED BY <1>0, <2>1
<1>2. Cut(b, p, k) \in Seq(Plain)
  BY <1>0, CutTyped
<1>3. Len(Cut(b, p, k)) = k /\ \A i \in 1..k : Cut(b, p, k)[i] = b[p + i - 1]
  BY <1>0, CutLength
<1>. HIDE DEF s
<1>4. IsRest(s, b, len, p)
  BY <1>1, <1>2, <1>3 DEF IsRest
<1>. QED BY <1>4 DEF s

LEMMA BothParts ==
  ASSUME NEW b, NEW len, NEW p, Holds(b, len, p)
  PROVE  LET s == [i \in 1..len |-> b[i - 1]] IN
         SubSeq(s, 1, p) \o SubSeq(s, p + 1, len) = s
<1>. DEFINE s == [i \in 1..len |-> b[i - 1]]
<1>0. len \in Nat /\ p \in Nat /\ p <= len
  BY SizeAssumption DEF Holds
<1>1. s \in Seq(Plain) /\ Len(s) = len
  BY LineTyped
<1>. HIDE DEF s
<1>2. 1 \in 1..(Len(s) + 1) /\ p \in (1 - 1)..Len(s) /\ len \in p..Len(s)
  BY <1>0, <1>1
<1>3. SubSeq(s, 1, p) \o SubSeq(s, p + 1, len) = SubSeq(s, 1, len)
  BY <1>1, <1>2, ConcatAdjacentSubSeq
<1>4. SubSeq(s, 1, p) \o SubSeq(s, p + 1, len) = s
  BY <1>1, <1>3, SubSeqFull
<1>. QED BY <1>4 DEF s

(* The same of the buffer and its halves, before a step and after it.      *)
BeforeOK ==
  Before \in Seq(Plain) /\ Len(Before) = cursor /\ \A i \in 1..cursor : Before[i] = cmd[i - 1]

AfterOK ==
  ~kept =>
    IsRest(After, cmd, l, cursor) /\ Before \o After = Text

LEMMA HalvesNow == ASSUME LineOK PROVE BeforeOK /\ AfterOK
<1>1. Holds(cmd, l, cursor)
  BY DEF LineOK, LineIsString, Holds
<1>2. BeforeOK
  BY <1>1, FirstPart DEF BeforeOK, Before, Text
<1>3. ASSUME ~kept PROVE After = SubSeq(Text, cursor + 1, l)
  BY <1>3 DEF After
<1>4. AfterOK
  <2>1. Before \o SubSeq(Text, cursor + 1, l) = Text
    BY <1>1, BothParts DEF Before, Text
  <2>2. IsRest(SubSeq(Text, cursor + 1, l), cmd, l, cursor)
    BY <1>1, SecondPart DEF Text
  <2>. QED BY <1>3, <2>1, <2>2 DEF AfterOK
<1>. QED BY <1>2, <1>4

LEMMA HalvesThen == ASSUME LineOK' PROVE BeforeOK' /\ AfterOK'
<1>1. Holds(cmd', l', cursor')
  BY DEF LineOK, LineIsString, Holds
<1>2. BeforeOK'
  BY <1>1, FirstPart DEF BeforeOK, Before, Text
<1>3. ASSUME ~kept' PROVE After' = SubSeq(Text, cursor + 1, l)'
  BY <1>3 DEF After
<1>4. AfterOK'
  <2>1. Before' \o SubSeq(Text, cursor + 1, l)' = Text'
    BY <1>1, BothParts DEF Before, Text
  <2>2. IsRest(SubSeq(Text, cursor + 1, l)', cmd', l', cursor')
    BY <1>1, SecondPart DEF Text
  <2>. QED BY <1>3, <2>1, <2>2 DEF AfterOK
<1>. QED BY <1>2, <1>4

-----------------------------------------------------------------------------
(* How the two halves change with the buffer.                              *)

LEMMA BeforeTyped ==
  ASSUME LineOK, LineOK', NEW c \in Plain, cursor' = cursor + 1, cmd'[cursor] = c,
         \A i \in Nat : i < cursor => cmd'[i] = cmd[i]
  PROVE  Before' = Append(Before, c)
<1>0. cursor \in Nat
  BY SizeAssumption DEF LineOK
<1>1. Before \in Seq(Plain) /\ Len(Before) = cursor
      /\ \A i \in 1..cursor : Before[i] = cmd[i - 1]
  BY HalvesNow DEF BeforeOK
<1>2. Before' \in Seq(Plain) /\ Len(Before') = cursor + 1
      /\ \A i \in 1..(cursor + 1) : Before'[i] = cmd'[i - 1]
  BY HalvesThen DEF BeforeOK
<1>3. /\ Append(Before, c) \in Seq(Plain) /\ Len(Append(Before, c)) = cursor + 1
      /\ \A i \in 1..cursor : Append(Before, c)[i] = Before[i]
      /\ Append(Before, c)[cursor + 1] = c
  BY <1>1, AppendProperties
<1>4. ASSUME NEW i \in 1..(cursor + 1) PROVE Before'[i] = Append(Before, c)[i]
  <2>1. CASE i = cursor + 1
    <3>1. Before'[i] = cmd'[cursor]
      BY <1>0, <1>2, <2>1
    <3>. QED BY <1>3, <2>1, <3>1
  <2>2. CASE i # cursor + 1
    <3>1. i \in 1..cursor /\ i - 1 \in Nat /\ i - 1 < cursor
      BY <1>0, <2>2
    <3>2. Before'[i] = cmd'[i - 1]
      BY <1>2
    <3>. QED BY <1>1, <1>3, <3>1, <3>2
  <2>. QED BY <2>1, <2>2
<1>. QED BY <1>2, <1>3, <1>4, SeqEqual

LEMMA BeforeShort ==
  ASSUME LineOK, LineOK', NEW s \in 0..cursor, cursor' = s,
         \A i \in Nat : i < s => cmd'[i] = cmd[i]
  PROVE  Before' = SubSeq(Before, 1, s)
<1>0. cursor \in Nat /\ s \in Nat
  BY SizeAssumption DEF LineOK
<1>1. Before \in Seq(Plain) /\ Len(Before) = cursor
      /\ \A i \in 1..cursor : Before[i] = cmd[i - 1]
  BY HalvesNow DEF BeforeOK
<1>2. Before' \in Seq(Plain) /\ Len(Before') = s /\ \A i \in 1..s : Before'[i] = cmd'[i - 1]
  BY HalvesThen DEF BeforeOK
<1>3. /\ SubSeq(Before, 1, s) \in Seq(Plain) /\ Len(SubSeq(Before, 1, s)) = s
      /\ \A i \in 1..s : SubSeq(Before, 1, s)[i] = Before[i]
  BY <1>0, <1>1
<1>4. ASSUME NEW i \in 1..s PROVE Before'[i] = SubSeq(Before, 1, s)[i]
  <2>1. i \in 1..cursor /\ i - 1 \in Nat /\ i - 1 < s
    BY <1>0
  <2>. QED BY <1>1, <1>2, <1>3, <2>1
<1>. QED BY <1>2, <1>3, <1>4, SeqEqual

LEMMA BeforeSame ==
  ASSUME LineOK, LineOK', cursor' = cursor, \A i \in Nat : i < cursor => cmd'[i] = cmd[i]
  PROVE  Before' = Before
<1>1. cursor \in 0..cursor /\ Before \in Seq(Plain) /\ Len(Before) = cursor
  BY SizeAssumption, HalvesNow DEF LineOK, BeforeOK
<1>2. Before' = SubSeq(Before, 1, cursor)
  BY <1>1, BeforeShort
<1>. QED BY <1>1, <1>2, SubSeqFull

LEMMA AfterSame ==
  ASSUME LineOK, LineOK', ~kept, ~kept', l' - cursor' = l - cursor,
         \A i \in Nat : i < l - cursor => cmd'[cursor' + i] = cmd[cursor + i]
  PROVE  After' = After
<1>. DEFINE k == l - cursor
<1>0. cursor \in Nat /\ cursor' \in Nat /\ k \in Nat
  BY SizeAssumption DEF LineOK
<1>1. After = Cut(cmd, cursor, k)
  BY HalvesNow DEF AfterOK, IsRest
<1>2. After' = Cut(cmd', cursor', k)
  BY HalvesThen DEF AfterOK, IsRest
<1>3. \A i \in Nat : i < k => cmd'[cursor' + i] = cmd[cursor + i]
  OBVIOUS
<1>. HIDE DEF k
<1>4. Cut(cmd', cursor', k) = Cut(cmd, cursor, k)
  <2>1. ASSUME NEW i \in 1..k PROVE cmd'[cursor' + i - 1] = cmd[cursor + i - 1]
    <3>. DEFINE m == i - 1
    <3>1. m \in Nat /\ m < k /\ cursor' + m = cursor' + i - 1 /\ cursor + m = cursor + i - 1
      BY <1>0
    <3>2. cmd'[cursor' + m] = cmd[cursor + m]
      BY <1>3, <3>1
    <3>. QED BY <3>1, <3>2
  <2>. QED BY <2>1 DEF Cut
<1>. QED BY <1>1, <1>2, <1>4

LEMMA NoneBefore ==
  /\ LineOK /\ cursor = 0 => Before = <<>>
  /\ LineOK' /\ cursor' = 0 => Before' = <<>>
<1>1. ASSUME NEW s \in Seq(Plain), Len(s) = 0 PROVE s = <<>>
  BY <1>1, EmptySeq
<1>. QED BY <1>1, HalvesNow, HalvesThen DEF BeforeOK

LEMMA NoneAfter ==
  /\ LineOK /\ cursor = l => After = <<>>
  /\ LineOK' /\ cursor' = l' => After' = <<>>
<1>1. ASSUME NEW s \in Seq(Plain), Len(s) = 0 PROVE s = <<>>
  BY <1>1, EmptySeq
<1>2. ASSUME LineOK, cursor = l, ~kept PROVE After = <<>>
  <2>1. After \in Seq(Plain) /\ Len(After) = l - cursor
    BY <1>2, HalvesNow DEF AfterOK, IsRest
  <2>2. l - cursor = 0
    BY <1>2, SizeAssumption DEF LineOK
  <2>. QED BY <1>1, <2>1, <2>2
<1>3. ASSUME LineOK', cursor' = l', ~kept' PROVE After' = <<>>
  <2>1. After' \in Seq(Plain) /\ Len(After') = l' - cursor'
    BY <1>3, HalvesThen DEF AfterOK, IsRest
  <2>2. l' \in Nat
    BY <1>3, SizeAssumption DEF LineOK
  <2>3. l' = cursor'
    BY <1>3
  <2>4. l' - l' = 0
    <3>1. \A n \in Nat : n - n = 0
      OBVIOUS
    <3>. QED BY <2>2, <3>1
  <2>5. After' \in Seq(Plain) /\ Len(After') = 0
    BY <2>1, <2>3, <2>4
  <2>. QED BY <1>1, <2>5
<1>. QED BY <1>2, <1>3 DEF After

LEMMA Unmoved ==
  ASSUME UNCHANGED <<cmd, l, cursor, kept, history>>
  PROVE  UNCHANGED <<Before, After, kept, Lines>>
BY DEF Before, After, Lines, Text

LEMMA NotRunning == ASSUME session # "running" PROVE Running = <<>>
BY DEF Running

LEMMA IdleStep ==
  ASSUME session # "running" \/ ~Terminated(cmd), session' # "running",
         UNCHANGED <<cmd, l, cursor, kept, history>>
  PROVE  TextStep
<1>1. Running = <<>> /\ Running' = <<>>
  BY DEF Running
<1>. QED BY <1>1, Unmoved, AsStutter

LEMMA FaultStep ==
  ASSUME session = "open", Fault
  PROVE  TextStep
BY IdleStep DEF Fault, line, memory

LEMMA EditsKey ==
  ASSUME IInv, session = "open", UNCHANGED <<kept, session, history>>
  PROVE  Edits /\ ~kept /\ ~kept'
<1>1. ~kept
  BY DEF IInv, KeptOK
<1>. QED BY <1>1 DEF Edits, Running, Lines

-----------------------------------------------------------------------------
(* Keys that edit the line.                                                *)

LEMMA TypeAtEndStep ==
  ASSUME IInv, IInv', Quote \notin Bytes, NEW c \in Chars, TypeAtEnd(c)
  PROVE  TextStep
<1>0. /\ session = "open" /\ c \in Plain /\ cursor = l /\ l \in 0..MaxLine /\ MaxLine \in Nat
      /\ LineOK /\ LineOK'
  BY TypedIsPlain, PressedFacts, SizeAssumption DEF TypeAtEnd, IInv, LineOK
<1>1. CASE l = MaxLine
  BY <1>0, <1>1, FaultStep, SizeAssumption DEF TypeAtEnd, Room
<1>2. CASE Room
  <2>1. /\ cmd' = [cmd EXCEPT ![l] = c] /\ l' = l + 1 /\ cursor' = l + 1
        /\ UNCHANGED <<memory, around>> /\ l < MaxLine - 1
    BY <1>0, <1>2 DEF TypeAtEnd, Room
  <2>2. Edits /\ ~kept /\ ~kept'
    BY <1>0, <2>1, EditsKey DEF memory, around
  <2>3. l \in Cells /\ \A i \in Nat : i < l => i \in Cells /\ i # l
    BY <1>0, <2>1 DEF Cells
  <2>4. cmd'[cursor] = c /\ \A i \in Nat : i < cursor => cmd'[i] = cmd[i]
    BY <1>0, <2>1, <2>3 DEF LineOK
  <2>5. Before' = Append(Before, c)
    BY <1>0, <2>1, <2>4, BeforeTyped
  <2>6. After = <<>> /\ After' = <<>>
    BY <1>0, <2>1, NoneAfter
  <2>7. Len(Before) + Len(After) < MaxLine - 1
    BY <1>0, <2>1, <2>6, HalvesNow DEF BeforeOK
  <2>. QED BY <2>2, <2>5, <2>6, <2>7, AsTypeChar
<1>3. CASE ~Room /\ l < MaxLine
  <2>1. cmd' = [cmd EXCEPT ![l] = NUL] /\ UNCHANGED <<l, cursor, memory, around>>
    BY <1>0, <1>3 DEF TypeAtEnd
  <2>2. cmd' = cmd
    BY <1>0, <1>3, <2>1, SizeAssumption DEF LineOK, LineIsString, Cells
  <2>. QED BY <1>0, <2>1, <2>2, IdleStep DEF memory, around
<1>. QED BY <1>0, <1>1, <1>2, <1>3

LEMMA TypeInsideStep ==
  ASSUME IInv, IInv', Quote \notin Bytes, NEW c \in Chars, TypeInside(c)
  PROVE  TextStep
<1>0. /\ session = "open" /\ c \in Plain /\ cursor < l /\ l \in 0..MaxLine /\ MaxLine \in Nat
      /\ LineOK /\ LineOK' /\ cursor \in Nat
  <2>1. Pressed(c) /\ cursor < l /\ c \in Plain
    BY TypedIsPlain DEF TypeInside
  <2>2. session = "open"
    BY <2>1, PressedFacts
  <2>3. LineOK /\ LineOK' /\ l \in 0..MaxLine /\ cursor \in 0..l
    BY DEF IInv, LineOK
  <2>. QED BY <2>1, <2>2, <2>3, SizeAssumption
<1>1. CASE l = MaxLine
  BY <1>0, <1>1, FaultStep DEF TypeInside
<1>2. CASE l < MaxLine
  <2>1. /\ cmd' = Inserted(c) /\ l' = (IF Room THEN l + 1 ELSE l) /\ cursor' = cursor + 1
        /\ UNCHANGED <<memory, around>>
    BY <1>0, <1>2 DEF TypeInside
  <2>2. Edits /\ ~kept /\ ~kept'
    BY <1>0, <2>1, EditsKey DEF memory, around
  <2>3. cmd'[cursor] = c
    <3>1. cursor \in Cells
      BY <1>0 DEF Cells
    <3>. QED BY <2>1, <3>1 DEF Inserted
  <2>4. ASSUME NEW i \in Nat, i < cursor PROVE cmd'[i] = cmd[i]
    <3>1. i \in Cells /\ i # cursor /\ i # l /\ ~(cursor < i)
      BY <1>0, <2>4 DEF Cells
    <3>. QED BY <2>1, <3>1 DEF Inserted
  <2>5. Before' = Append(Before, c)
    BY <1>0, <2>1, <2>3, <2>4, BeforeTyped
  <2>6. ASSUME NEW i \in Nat, cursor + i < l, Room \/ cursor + 1 + i < l
        PROVE  cmd'[cursor + 1 + i] = cmd[cursor + i]
    <3>. DEFINE j == cursor + 1 + i
    <3>1. j \in Cells /\ j # cursor /\ cursor < j /\ j <= l /\ j - 1 = cursor + i
          /\ ~(~Room /\ j = l)
      BY <1>0, <1>2, <2>6 DEF Cells, Room
    <3>. HIDE DEF j
    <3>2. cmd'[j] = cmd[j - 1]
      BY <2>1, <3>1 DEF Inserted
    <3>. QED BY <3>1, <3>2 DEF j
  <2>7. Len(Before) = cursor /\ After \in Seq(Plain) /\ Len(After) = l - cursor
        /\ \A i \in 1..(l - cursor) : After[i] = cmd[cursor + i - 1]
    BY <1>0, <2>2, HalvesNow DEF BeforeOK, AfterOK, IsRest
  <2>8. CASE Room
    <3>1. l' = l + 1 /\ l' - cursor' = l - cursor
      BY <1>0, <2>1, <2>8
    <3>2. \A i \in Nat : i < l - cursor => cmd'[cursor' + i] = cmd[cursor + i]
      BY <1>0, <2>1, <2>6, <2>8
    <3>3. After' = After
      BY <1>0, <2>2, <3>1, <3>2, AfterSame
    <3>4. Len(Before) + Len(After) < MaxLine - 1
      BY <1>0, <2>7, <2>8 DEF Room
    <3>. QED BY <2>2, <2>5, <3>3, <3>4, AsTypeChar
  <2>9. CASE ~Room
    <3>1. l = MaxLine - 1 /\ l' = l /\ l' - cursor' = l - cursor - 1
      BY <1>0, <1>2, <2>1, <2>9 DEF Room
    <3>2. Len(Before) + Len(After) = MaxLine - 1 /\ After # <<>>
      BY <1>0, <2>7, <3>1
    <3>3. /\ After' \in Seq(Plain) /\ Len(After') = l - cursor - 1
          /\ \A i \in 1..(l - cursor - 1) : After'[i] = cmd'[cursor' + i - 1]
      <4>1. After' \in Seq(Plain) /\ Len(After') = l' - cursor'
            /\ \A i \in 1..(l' - cursor') : After'[i] = cmd'[cursor' + i - 1]
        BY <1>0, <2>2, HalvesThen DEF AfterOK, IsRest
      <4>. QED BY <3>1, <4>1
    <3>. DEFINE k == l - cursor - 1
    <3>4. k \in Nat /\ Len(After) = k + 1
      BY <1>0, <2>7
    <3>5. /\ SubSeq(After, 1, k) \in Seq(Plain) /\ Len(SubSeq(After, 1, k)) = k
          /\ \A i \in 1..k : SubSeq(After, 1, k)[i] = After[i]
      <4>. HIDE DEF k
      <4>. QED BY <2>7, <3>4
    <3>6. ASSUME NEW i \in 1..k PROVE After'[i] = SubSeq(After, 1, k)[i]
      <4>. DEFINE m == i - 1
      <4>1. m \in Nat /\ cursor + m < l /\ cursor + 1 + m < l
            /\ cursor' + i - 1 = cursor + 1 + m /\ cursor + i - 1 = cursor + m
            /\ i \in 1..(l - cursor)
        BY <1>0, <2>1
      <4>2. After'[i] = cmd'[cursor + 1 + m]
        BY <3>3, <4>1
      <4>3. After[i] = cmd[cursor + m]
        BY <2>7, <4>1
      <4>4. cmd'[cursor + 1 + m] = cmd[cursor + m]
        BY <2>6, <4>1
      <4>. QED BY <3>5, <4>2, <4>3, <4>4
    <3>7. After' = SubSeq(After, 1, k)
      <4>1. Len(After') = k
        BY <3>3
      <4>. HIDE DEF k
      <4>. QED BY <3>3, <3>5, <3>6, <4>1, SeqEqual
    <3>8. After' = SubSeq(After, 1, Len(After) - 1)
      <4>1. Len(After) - 1 = k
        BY <1>0, <2>7
      <4>. HIDE DEF k
      <4>. QED BY <3>7, <4>1
    <3>. HIDE DEF k
    <3>. QED BY <2>2, <2>5, <3>2, <3>8, AsTypeChar
  <2>. QED BY <2>8, <2>9
<1>. QED BY <1>0, <1>1, <1>2

LEMMA EraseStep ==
  ASSUME IInv, IInv', session = "open", NEW s \in 0..cursor, EraseFrom(s)
  PROVE  TextStep
<1>0. /\ l \in 0..MaxLine /\ MaxLine \in Nat /\ cursor \in 0..l /\ s \in Nat
      /\ LineOK /\ LineOK'
  BY SizeAssumption DEF IInv, LineOK
<1>1. Edits /\ ~kept /\ ~kept'
  BY EditsKey DEF EraseFrom, memory, around
<1>2. /\ cmd' = [i \in Cells |->
                   IF i < s \/ i >= l THEN cmd[i]
                   ELSE IF i + (cursor - s) < l THEN cmd[i + (cursor - s)] ELSE NUL]
      /\ l' = l - (cursor - s) /\ cursor' = s
  BY DEF EraseFrom
<1>3. ASSUME NEW i \in Nat, i < s PROVE cmd'[i] = cmd[i]
  <2>1. i \in Cells
    BY <1>0, <1>3 DEF Cells
  <2>. QED BY <1>2, <1>3, <2>1
<1>4. Before' = SubSeq(Before, 1, s)
  BY <1>0, <1>2, <1>3, BeforeShort
<1>5. ASSUME NEW i \in Nat, i < l - cursor PROVE cmd'[cursor' + i] = cmd[cursor + i]
  <2>. DEFINE j == s + i
  <2>1. j \in Cells /\ ~(j < s \/ j >= l) /\ j + (cursor - s) = cursor + i
        /\ cursor + i < l
    BY <1>0, <1>5 DEF Cells
  <2>. HIDE DEF j
  <2>2. cmd'[j] = cmd[j + (cursor - s)]
    BY <1>2, <2>1
  <2>. QED BY <1>2, <2>1, <2>2 DEF j
<1>6. l' - cursor' = l - cursor
  BY <1>0, <1>2
<1>7. After' = After
  BY <1>0, <1>1, <1>5, <1>6, AfterSame
<1>8. s \in 0..Len(Before)
  BY <1>0, HalvesNow DEF BeforeOK
<1>. QED BY <1>1, <1>4, <1>7, <1>8, AsErase

LEMMA ErasingStep == ASSUME IInv, IInv', Backspace \/ EraseWord PROVE TextStep
<1>0. session = "open" /\ cursor \in Nat
  BY SizeAssumption DEF Backspace, EraseWord, Pressed, IInv, LineOK
<1>1. CASE UNCHANGED <<line, tabbed, memory, screen, around>>
  BY <1>0, <1>1, IdleStep DEF line, memory, around
<1>2. CASE \E s \in 0..cursor : EraseFrom(s)
  BY <1>0, <1>2, EraseStep
<1>3. CASE Backspace /\ cursor > 0
  <2>1. EraseFrom(cursor - 1) /\ cursor - 1 \in 0..cursor
    BY <1>0, <1>3 DEF Backspace
  <2>. QED BY <1>2, <2>1
<1>4. CASE EraseWord /\ cursor > 0
  <2>1. PICK s \in 0..(cursor - 1) : EraseFrom(s)
    BY <1>0, <1>4 DEF EraseWord
  <2>2. s \in 0..cursor
    BY <1>0
  <2>. QED BY <1>2, <2>1, <2>2
<1>. QED BY <1>0, <1>1, <1>3, <1>4 DEF Backspace, EraseWord

LEMMA EmptiedStep ==
  ASSUME IInv, IInv', session = "open", UNCHANGED <<kept, session, history>>,
         l' = 0, cursor' = 0
  PROVE  TextStep
<1>1. Before' = <<>> /\ After' = <<>>
  BY NoneBefore, NoneAfter DEF IInv
<1>. QED BY <1>1, EditsKey, AsClear

LEMMA ClearingStep == ASSUME IInv, IInv', ClearLine \/ KillToEnd \/ CtrlZ PROVE TextStep
<1>0. /\ session = "open" /\ UNCHANGED <<kept, session, history>>
      /\ l \in 0..MaxLine /\ MaxLine \in Nat /\ cursor \in 0..l /\ LineOK /\ LineOK'
  BY SizeAssumption DEF ClearLine, KillToEnd, CtrlZ, Pressed, memory, around, IInv, LineOK
<1>1. CASE ClearLine \/ (CtrlZ /\ config)
  BY <1>0, <1>1, EmptiedStep DEF ClearLine, CtrlZ
<1>2. CASE CtrlZ /\ ~config
  BY <1>0, <1>2, IdleStep DEF CtrlZ, line
<1>3. CASE KillToEnd
  <2>1. cmd' = ZeroFrom(cursor) /\ l' = cursor /\ cursor' = cursor
    BY <1>3 DEF KillToEnd
  <2>2. ASSUME NEW i \in Nat, i < cursor PROVE cmd'[i] = cmd[i]
    <3>1. i \in Cells
      BY <1>0, <2>2 DEF Cells
    <3>. QED BY <1>0, <2>1, <2>2, <3>1 DEF ZeroFrom
  <2>3. Before' = Before
    BY <1>0, <2>1, <2>2, BeforeSame
  <2>4. After' = <<>>
    BY <1>0, <2>1, NoneAfter
  <2>. QED BY <1>0, <2>3, <2>4, EditsKey, AsKillRest
<1>. QED BY <1>1, <1>2, <1>3

LEMMA MovingStep ==
  ASSUME IInv, IInv', Left \/ Right \/ Home \/ End \/ Redraw
  PROVE  TextStep
<1>0. session = "open" /\ UNCHANGED <<cmd, l, kept, session, history>> /\ LineOK /\ LineOK'
  BY DEF Left, Right, Home, End, Redraw, Pressed, line, memory, around, IInv
<1>1. Edits /\ ~kept /\ ~kept'
  BY <1>0, EditsKey
<1>2. Before \o After = Text /\ Before' \o After' = Text'
  BY <1>0, <1>1, HalvesNow, HalvesThen DEF AfterOK, IsRest
<1>3. Text' = Text
  BY <1>0 DEF Text
<1>. QED BY <1>1, <1>2, <1>3, AsMoveCursor

-----------------------------------------------------------------------------
(* History.                                                                *)

LEMMA ShownStep ==
  ASSUME IInv, IInv', session = "open", UNCHANGED <<kept, session, history>>,
         NEW i \in Places, history[i] # NUL, ShowItem(i)
  PROVE  TextStep
<1>. DEFINE s == history[i]
<1>1. s \in Seq(Plain) /\ Len(s) \in Nat /\ Len(s) < MaxLine /\ s \in Lines
  BY DEF IInv, HistoryOK, Recordable, Lines
<1>2. /\ cmd' = [n \in Cells |-> IF n < Len(s) THEN s[n + 1] ELSE NUL]
      /\ l' = Len(s) /\ cursor' = Len(s) /\ LineOK'
  BY DEF ShowItem, IInv
<1>3. Before' \in Seq(Plain) /\ Len(Before') = Len(s)
      /\ \A n \in 1..Len(s) : Before'[n] = cmd'[n - 1]
  BY <1>2, HalvesThen DEF BeforeOK
<1>. HIDE DEF s
<1>4. ASSUME NEW n \in 1..Len(s) PROVE Before'[n] = s[n]
  <2>. DEFINE m == n - 1
  <2>1. m \in Cells /\ m < Len(s) /\ m + 1 = n
    BY <1>1, SizeAssumption DEF Cells
  <2>. HIDE DEF m
  <2>2. cmd'[m] = s[n]
    BY <1>2, <2>1
  <2>. QED BY <1>3, <2>2 DEF m
<1>5. Before' = s
  BY <1>1, <1>3, <1>4, SeqEqual
<1>6. After' = <<>>
  BY <1>2, NoneAfter
<1>. QED BY <1>1, <1>5, <1>6, EditsKey, AsRecall

LEMMA ArrowsStep == ASSUME IInv, IInv', Up \/ Down PROVE TextStep
<1>0. session = "open"
  BY DEF Up, Down, Pressed
<1>1. CASE Fault
  BY <1>0, <1>1, FaultStep
<1>2. CASE \E i : Recalled(i)
  <2>1. PICK i : Recalled(i)
    BY <1>2
  <2>2. UNCHANGED <<kept, session, history>>
    BY <2>1 DEF Recalled, around
  <2>3. CASE i \in Places /\ history[i] # NUL
    BY <1>0, <2>1, <2>2, <2>3, ShownStep DEF Recalled
  <2>4. CASE ~(i \in Places /\ history[i] # NUL)
    BY <1>0, <2>1, <2>2, <2>4, IdleStep DEF Recalled, line
  <2>. QED BY <2>3, <2>4
<1>. QED BY <1>1, <1>2 DEF Up, Down

-----------------------------------------------------------------------------
(* Lines that are run.                                                     *)

LEMMA RunsText ==
  /\ LineOK /\ Terminated(cmd) /\ session = "running" => l < MaxLine /\ Running = Text
  /\ LineOK' /\ Terminated(cmd)' /\ session' = "running" => Running' = Text'
<1>1. ASSUME NEW b, NEW n, NEW p, Holds(b, n, p), Terminated(b)
      PROVE  n < MaxLine /\ CString(b) = [i \in 1..n |-> b[i - 1]]
  <2>1. n < MaxLine
    BY <1>1, SizeAssumption DEF Holds, Terminated, Cells
  <2>. QED BY <1>1, <2>1, StringOf
<1>2. LineOK => Holds(cmd, l, cursor)
  BY DEF LineOK, LineIsString, Holds
<1>3. LineOK' => Holds(cmd', l', cursor')
  BY DEF LineOK, LineIsString, Holds
<1>4. ASSUME LineOK, Terminated(cmd), session = "running"
      PROVE  l < MaxLine /\ Running = Text
  <2>1. l < MaxLine /\ CString(cmd) = Text
    BY <1>1, <1>2, <1>4 DEF Text
  <2>. QED BY <1>4, <2>1 DEF Running
<1>5. ASSUME LineOK', Terminated(cmd)', session' = "running"
      PROVE  Running' = Text'
  <2>1. Terminated(cmd')
    BY <1>5 DEF Terminated
  <2>2. CString(cmd)' = Text'
    BY <1>1, <1>3, <1>5, <2>1 DEF Text, CString, StrLen
  <2>. QED BY <1>5, <2>2 DEF Running
<1>. QED BY <1>4, <1>5

LEMMA EnterStep == ASSUME IInv, IInv', Enter PROVE TextStep
<1>0. session = "open" /\ ~kept /\ LineOK /\ LineOK' /\ l \in Nat
  BY SizeAssumption DEF Enter, Pressed, IInv, KeptOK, LineOK
<1>1. CASE l = 0
  <2>1. l' = 0 /\ cursor' = 0 /\ UNCHANGED <<session, history>> /\ kept' = FALSE
    BY <1>0, <1>1 DEF Enter, EmptyLine, NextLine
  <2>2. kept' = kept
    BY <1>0, <2>1 DEF IInv, FlagsOK
  <2>. QED BY <1>0, <2>1, <2>2, EmptiedStep
<1>2. CASE l > 0
  <2>1. session' = "running" /\ UNCHANGED <<cmd, l, cursor, kept, history>>
    BY <1>0, <1>2 DEF Enter, line, memory
  <2>2. CASE Terminated(cmd)
    <3>1. Running = <<>> /\ UNCHANGED <<Before, After, kept, Lines>>
      BY <1>0, <2>1, NotRunning, Unmoved
    <3>2. Terminated(cmd)' /\ Text' = Text
      BY <2>1, <2>2 DEF Terminated, Text
    <3>3. Running' = Text
      BY <1>0, <2>1, <3>2, RunsText
    <3>4. Before \o After = Text
      BY <1>0, HalvesNow DEF AfterOK
    <3>5. Len(Text) = l /\ Text # <<>>
      <4>1. Len(Text) = l
        BY <1>0, LineTyped DEF LineOK, LineIsString, Holds, Text
      <4>. QED BY <1>2, <4>1, EmptySeq
    <3>. QED BY <3>1, <3>3, <3>4, <3>5, AsSubmit
  <2>3. CASE ~Terminated(cmd)
    <3>1. UNCHANGED <<Before, After, kept, Lines>>
      BY <2>1, Unmoved
    <3>2. Running = <<>> /\ Running' = <<>>
      BY <1>0, <2>1, <2>3 DEF Running, Terminated
    <3>. QED BY <3>1, <3>2, AsStutter
  <2>. QED BY <2>2, <2>3
<1>. QED BY <1>0, <1>1, <1>2

LEMMA LinesAdded ==
  ASSUME HistoryOK, NEW s, history' = AddHistory(history, s)
  PROVE  Lines' \subseteq Lines \cup {s}
<1>1. ASSUME NEW i \in Places PROVE history'[i] \in {history[k] : k \in Places} \cup {s}
  <2>1. ASSUME NEW k, history' = [history EXCEPT ![k] = s]
        PROVE  history'[i] \in {history[i], s}
    BY <2>1 DEF HistoryOK
  <2>2. CASE history' = [n \in Places |-> IF n < MaxHistory - 1 THEN history[n + 1] ELSE s]
    <3>1. i < MaxHistory - 1 => i + 1 \in Places
      BY SizeAssumption DEF Places
    <3>. QED BY <2>2, <3>1
  <2>3. CASE history' = history
    BY <2>3
  <2>. QED BY <2>1, <2>2, <2>3 DEF AddHistory
<1>. QED BY <1>1 DEF Lines

LEMMA ExecuteStep == ASSUME IInv, IInv', AskedOK, Execute PROVE TextStep
<1>0. session = "running" /\ l \in Nat /\ l > 0 /\ LineOK /\ LineOK' /\ HistoryOK
  BY SizeAssumption DEF Execute, IInv, LineOK, AskedOK
<1>1. CASE ~Terminated(cmd)
  BY <1>1, IdleStep DEF Execute, Fault, line, memory
<1>2. CASE Terminated(cmd)
  <2>1. l < MaxLine /\ Running = Text /\ Len(Text) = l /\ CString(cmd) = Text
    BY <1>0, <1>2, RunsText, StringIsText
  <2>2. Running # <<>>
    BY <1>0, <2>1, EmptySeq
  <2>3. session' \in {"open", "closed"} /\ Running' = <<>> /\ kept' = FALSE
    BY <1>2 DEF Execute, Running, NextLine
  <2>4. IF kept THEN UNCHANGED <<Before, After>> ELSE Before' = <<>> /\ After' = <<>>
    <3>1. CASE ~kept
      <4>1. l' = 0 /\ cursor' = 0
        BY <1>2, <3>1 DEF Execute, EmptyLine
      <4>. QED BY <1>0, <3>1, <4>1, NoneBefore, NoneAfter
    <3>2. CASE kept
      <4>1. cmd' = [cmd EXCEPT ![l - 1] = NUL] /\ l' = l - 1 /\ cursor' = l - 1
            /\ cursor = l - 1
        BY <1>2, <3>2 DEF Execute, AskedOK
      <4>2. ASSUME NEW i \in Nat, i < cursor PROVE cmd'[i] = cmd[i]
        <5>1. i \in Cells /\ i # l - 1
          BY <1>0, <2>1, <4>1, <4>2, SizeAssumption DEF Cells
        <5>. QED BY <1>0, <4>1, <5>1 DEF LineOK
      <4>3. Before' = Before
        BY <1>0, <4>1, <4>2, BeforeSame
      <4>4. After = <<>> /\ After' = <<>>
        BY <1>0, <3>2, <4>1, NoneAfter DEF After
      <4>. QED BY <3>2, <4>3, <4>4
    <3>. QED BY <3>1, <3>2
  <2>5. \/ Lines' \subseteq Lines \cup {Running} /\ (kept => Lines' = Lines)
        \/ Lines' = {}
    <3>1. CASE history' = NoHistory
      BY <3>1 DEF Lines, NoHistory
    <3>2. CASE history' = history
      BY <3>2 DEF Lines
    <3>3. CASE cmd[l - 1] # QMark /\ history' = AddHistory(history, CString(cmd))
      <4>1. ~kept
        BY <3>3 DEF AskedOK
      <4>. QED BY <1>0, <2>1, <3>3, <4>1, LinesAdded
    <3>. QED BY <1>2, <3>1, <3>2, <3>3 DEF Execute
  <2>. QED BY <2>2, <2>3, <2>4, <2>5, AsFinish
<1>. QED BY <1>1, <1>2

LEMMA HelpRuns ==
  ASSUME IInv, IInv', session = "open", session' = "running", kept' = TRUE,
         history' = history, cursor' = cursor, l' = cursor + 1, cmd'[cursor] = QMark,
         \A i \in Nat : i < cursor => cmd'[i] = cmd[i],
         cursor = l \/ (cursor = l - 1 /\ l = MaxLine - 1),
         l' < MaxLine
  PROVE  TextStep
<1>0. l \in Nat /\ cursor \in Nat /\ LineOK /\ LineOK' /\ ~kept /\ QMark \in Plain
  BY SizeAssumption, CharFacts DEF IInv, KeptOK, LineOK
<1>1. Running = <<>> /\ Lines' = Lines /\ After' = <<>>
  BY NotRunning DEF Lines, After
<1>2. Before' = Before
  BY <1>0, BeforeSame
<1>3. After = <<>> \/ (Len(After) = 1 /\ Len(Before) + Len(After) = MaxLine - 1)
  <2>1. Len(Before) = cursor /\ Len(After) = l - cursor
    BY <1>0, HalvesNow DEF BeforeOK, AfterOK, IsRest
  <2>. QED BY <1>0, <2>1, NoneAfter, SizeAssumption
<1>4. Running' = Text'
  <2>1. l' \in Cells /\ cmd'[l'] = NUL
    BY <1>0, SizeAssumption DEF LineOK, LineIsString, Cells
  <2>2. Terminated(cmd)'
    BY <2>1 DEF Terminated
  <2>. QED BY <1>0, <2>2, RunsText
<1>5. Text' = Append(Before, QMark)
  <2>1. Text' \in Seq(Plain) /\ Len(Text') = cursor + 1
    BY <1>0, LineTyped DEF LineOK, LineIsString, Holds, Text
  <2>2. \A i \in 1..(cursor + 1) : Text'[i] = cmd'[i - 1]
    BY DEF Text
  <2>3. Before \in Seq(Plain) /\ Len(Before) = cursor
        /\ \A i \in 1..cursor : Before[i] = cmd[i - 1]
    BY <1>0, HalvesNow DEF BeforeOK
  <2>4. /\ Append(Before, QMark) \in Seq(Plain) /\ Len(Append(Before, QMark)) = cursor + 1
        /\ \A i \in 1..cursor : Append(Before, QMark)[i] = Before[i]
        /\ Append(Before, QMark)[cursor + 1] = QMark
    BY <1>0, <2>3, AppendProperties
  <2>5. ASSUME NEW i \in 1..(cursor + 1) PROVE Text'[i] = Append(Before, QMark)[i]
    <3>1. CASE i = cursor + 1
      <4>1. Text'[i] = cmd'[cursor]
        BY <1>0, <2>2, <3>1
      <4>. QED BY <2>4, <3>1, <4>1
    <3>2. CASE i # cursor + 1
      <4>1. i \in 1..cursor /\ i - 1 \in Nat /\ i - 1 < cursor
        BY <1>0, <3>2
      <4>2. Text'[i] = cmd'[i - 1]
        BY <2>2
      <4>. QED BY <2>3, <2>4, <4>1, <4>2
    <3>. QED BY <3>1, <3>2
  <2>. QED BY <2>1, <2>4, <2>5, SeqEqual
<1>. QED BY <1>1, <1>2, <1>3, <1>4, <1>5, AsAskHelp

LEMMA HelpStep == ASSUME IInv, IInv', HelpListed \/ HelpAsked PROVE TextStep
<1>0. session = "open" /\ l \in Nat /\ l <= MaxLine /\ cursor \in 0..l /\ LineOK /\ MaxLine \in Nat
  BY SizeAssumption DEF HelpListed, HelpAsked, Pressed, IInv, LineOK
<1>1. CASE HelpListed
  <2>1. CASE Fault
    BY <1>0, <2>1, FaultStep
  <2>2. CASE UNCHANGED <<line, tabbed, memory, around>>
    BY <1>0, <2>2, IdleStep DEF line, memory, around
  <2>. QED BY <1>1, <2>1, <2>2 DEF HelpListed
<1>2. CASE cursor = l /\ Room /\ RunHelp([cmd EXCEPT ![l] = QMark], l)
  <2>1. /\ session' = "running" /\ kept' = TRUE /\ history' = history
        /\ cursor' = cursor /\ l' = cursor + 1 /\ l' < MaxLine
        /\ cmd' = [cmd EXCEPT ![l] = QMark]
    BY <1>0, <1>2 DEF RunHelp, memory, Room
  <2>2. l \in Cells /\ cmd'[cursor] = QMark
    BY <1>0, <1>2, <2>1 DEF Cells, Room, LineOK
  <2>3. ASSUME NEW i \in Nat, i < cursor PROVE cmd'[i] = cmd[i]
    <3>1. i \in Cells /\ i # l
      BY <1>0, <1>2, <2>3 DEF Cells
    <3>. QED BY <1>0, <2>1, <3>1 DEF LineOK
  <2>. QED BY <1>0, <1>2, <2>1, <2>2, <2>3, HelpRuns
<1>3. CASE PushesOut(QMark) /\ RunHelp(Inserted(QMark), cursor)
  <2>1. l = MaxLine - 1 /\ cursor = l - 1 /\ cursor \in Cells /\ ~Room
    BY <1>0, <1>3 DEF PushesOut, Room, Cells
  <2>2. /\ session' = "running" /\ kept' = TRUE /\ history' = history
        /\ cursor' = cursor /\ l' = cursor + 1 /\ l' < MaxLine
        /\ cmd' = Inserted(QMark)
    BY <1>0, <1>3, <2>1 DEF RunHelp, memory
  <2>3. cmd'[cursor] = QMark
    BY <2>1, <2>2 DEF Inserted
  <2>4. ASSUME NEW i \in Nat, i < cursor PROVE cmd'[i] = cmd[i]
    <3>1. i \in Cells /\ i # l /\ i # cursor /\ ~(cursor < i)
      BY <1>0, <2>1, <2>4 DEF Cells
    <3>. QED BY <2>2, <3>1 DEF Inserted
  <2>. QED BY <1>0, <2>1, <2>2, <2>3, <2>4, HelpRuns
<1>4. CASE /\ cursor = l /\ ~Room /\ l < MaxLine
           /\ cmd' = [cmd EXCEPT ![l] = NUL]
           /\ UNCHANGED <<l, cursor, tabbed, memory, screen, around>>
  <2>1. cmd' = cmd
    BY <1>0, <1>4, SizeAssumption DEF LineOK, LineIsString, Cells
  <2>. QED BY <1>0, <1>4, <2>1, IdleStep DEF memory, around
<1>. QED BY <1>1, <1>2, <1>3, <1>4 DEF HelpAsked

LEMMA LeavingStep == ASSUME IInv, IInv', EndOfText \/ HangUp PROVE TextStep
<1>0. session = "open" /\ session' # "running" /\ UNCHANGED <<cmd, l, cursor, kept>>
  BY DEF EndOfText, HangUp, Pressed, line
<1>1. CASE history' = history
  BY <1>0, <1>1, IdleStep
<1>2. CASE history' = NoHistory
  <2>1. Lines' = {}
    BY <1>2 DEF Lines, NoHistory
  <2>2. UNCHANGED <<Before, After, Running, kept>>
    BY <1>0 DEF Before, After, Text, Running
  <2>. QED BY <2>1, <2>2, AsForget
<1>. QED BY <1>1, <1>2 DEF EndOfText, HangUp

-----------------------------------------------------------------------------
(* Completions.                                                            *)

LEMMA WrittenStep ==
  ASSUME IInv, IInv', session = "open", cursor = l, NEW w \in Seq(Plain), WriteWord(w),
         \A s : Overwrites(s) => l <= s + Len(w)
  PROVE  TextStep
<1>0. l \in Nat /\ l <= MaxLine /\ MaxLine \in Nat /\ Len(w) \in Nat /\ LineOK /\ LineOK'
  BY SizeAssumption DEF IInv, LineOK
<1>1. CASE Fault
  BY <1>1, FaultStep
<1>2. CASE ~Fault
  <2>1. PICK s \in 0..l :
          /\ Overwrites(s)
          /\ cmd' = [i \in Cells |-> IF s <= i /\ i < s + Len(w) THEN w[i - s + 1] ELSE cmd[i]]
          /\ l' = s + Len(w) /\ cursor' = l'
          /\ UNCHANGED <<memory, around>>
    BY <1>2 DEF WriteWord
  <2>2. Edits /\ ~kept /\ ~kept'
    BY <2>1, EditsKey DEF memory, around
  <2>3. After = <<>> /\ After' = <<>>
    BY <1>0, <2>1, NoneAfter
  <2>4. l <= l' /\ s \in Nat /\ s <= l'
    BY <1>0, <2>1
  <2>5. Before \in Seq(Plain) /\ Len(Before) = l /\ \A i \in 1..l : Before[i] = cmd[i - 1]
    BY <1>0, HalvesNow DEF BeforeOK
  <2>6. Before' \in Seq(Plain) /\ Len(Before') = l' /\ \A i \in 1..l' : Before'[i] = cmd'[i - 1]
    BY <1>0, <2>1, HalvesThen DEF BeforeOK
  <2>7. ASSUME NEW i \in (s + 1)..Len(Before) PROVE Before[i] # Space
    <3>1. i - 1 \in s..(l - 1) /\ i \in 1..l
      BY <1>0, <2>4, <2>5
    <3>2. cmd[i - 1] \notin Breaks
      BY <2>1, <3>1 DEF Overwrites
    <3>. QED BY <2>5, <3>1, <3>2, CharFacts
  <2>8. /\ SubSeq(Before, 1, s) \in Seq(Plain) /\ Len(SubSeq(Before, 1, s)) = s
        /\ \A i \in 1..s : SubSeq(Before, 1, s)[i] = Before[i]
    BY <2>4, <2>5, <2>1
  <2>9. l' \in Nat
    BY <1>0, <2>1, <2>4
  <2>10. /\ SubSeq(Before', 1, s) \in Seq(Plain) /\ Len(SubSeq(Before', 1, s)) = s
         /\ \A i \in 1..s : SubSeq(Before', 1, s)[i] = Before'[i]
    BY <2>4, <2>6, <2>9
  <2>11. ASSUME NEW i \in 1..s PROVE SubSeq(Before, 1, s)[i] = SubSeq(Before', 1, s)[i]
    <3>1. i \in 1..l /\ i \in 1..l' /\ i - 1 \in Cells /\ ~(s <= i - 1)
      BY <1>0, <2>1, <2>4, <2>9 DEF Cells
    <3>2. cmd'[i - 1] = cmd[i - 1]
      BY <2>1, <3>1
    <3>. QED BY <2>5, <2>6, <2>8, <2>10, <3>1, <3>2
  <2>12. SubSeq(Before, 1, s) = SubSeq(Before', 1, s)
    BY <2>8, <2>10, <2>11, SeqEqual
  <2>13. s \in 0..Len(Before) /\ Len(SubSeq(Before, 1, s)) <= Len(Before')
         /\ Len(Before') >= Len(Before)
         /\ SubSeq(Before, 1, s) = SubSeq(Before', 1, Len(SubSeq(Before, 1, s)))
    BY <2>4, <2>5, <2>6, <2>8, <2>9, <2>12
  <2>. QED BY <2>2, <2>3, <2>7, <2>13, AsComplete
<1>. QED BY <1>1, <1>2

LEMMA TabStep == ASSUME IInv, IInv', TabWord \/ TabPrefix \/ TabOnly PROVE TextStep
<1>0. session = "open"
  BY DEF TabWord, TabPrefix, TabOnly, Completing, Pressed
<1>1. CASE TabOnly
  <2>1. session' # "running" /\ UNCHANGED <<cmd, l, cursor, kept, history>>
    BY <1>0, <1>1 DEF TabOnly, line, memory
  <2>. QED BY <1>0, <2>1, IdleStep
<1>2. CASE TabWord \/ TabPrefix
  <2>1. cursor = l
    BY <1>2 DEF TabWord, TabPrefix, Completing
  <2>2. \E w \in Seq(Plain) : WriteWord(w) /\ \A s : Overwrites(s) => l <= s + Len(w)
    BY <1>2, WordWritten, PrefixWritten
  <2>. QED BY <1>0, <2>1, <2>2, WrittenStep
<1>. QED BY <1>1, <1>2

-----------------------------------------------------------------------------
(* The refinement.                                                         *)

LEMMA AskedKept == ASSUME IInv, IInv', AskedOK, [Next]_vars PROVE AskedOK'
<1>1. CASE UNCHANGED <<cmd, l, cursor, kept>> /\ session' # "running"
  BY <1>1 DEF AskedOK
<1>2. CASE UNCHANGED vars
  BY <1>2 DEF AskedOK, vars
<1>3. CASE kept' = FALSE /\ session' # "running"
  BY <1>3 DEF AskedOK
<1>4. ASSUME session = "open", kept' = kept, session' = session PROVE AskedOK'
  <2>1. kept = FALSE
    BY <1>4 DEF IInv, KeptOK, FlagsOK
  <2>. QED BY <1>3, <1>4, <2>1
<1>5. CASE Fault
  BY <1>1, <1>5 DEF Fault, line
<1>6. ASSUME Pressed(QMark), HelpAsked PROVE AskedOK'
  <2>0. l \in Nat /\ cursor \in 0..l /\ LineOK /\ MaxLine \in Nat /\ session = "open"
    BY <1>6, SizeAssumption DEF IInv, LineOK, Pressed
  <2>1. CASE Room /\ RunHelp([cmd EXCEPT ![l] = QMark], l)
    <3>1. l \in Cells
      BY <2>0, <2>1 DEF Cells, Room
    <3>2. cmd'[l] = QMark /\ l' = l + 1 /\ cursor' = l
      BY <2>0, <2>1, <3>1 DEF RunHelp, LineOK
    <3>3. l' > 0 /\ cursor' = l' - 1 /\ cmd'[l' - 1] = QMark
      BY <2>0, <3>2
    <3>. QED BY <3>3 DEF AskedOK
  <2>2. CASE PushesOut(QMark) /\ RunHelp(Inserted(QMark), cursor)
    <3>1. cursor \in Cells
      BY <2>0, <2>2 DEF Cells, PushesOut
    <3>2. cmd'[cursor] = QMark /\ l' = cursor + 1 /\ cursor' = cursor
      BY <2>2, <3>1 DEF RunHelp, Inserted
    <3>3. l' > 0 /\ cursor' = l' - 1 /\ cmd'[l' - 1] = QMark
      BY <2>0, <3>2
    <3>. QED BY <3>3 DEF AskedOK
  <2>3. CASE UNCHANGED <<l, cursor, tabbed, memory, screen, around>>
    BY <1>4, <2>0, <2>3 DEF around
  <2>. QED BY <1>6, <2>1, <2>2, <2>3 DEF HelpAsked
<1>7. CASE Enter
  <2>1. kept = FALSE /\ session = "open" /\ l \in Nat
    BY <1>7, SizeAssumption DEF Enter, Pressed, IInv, KeptOK, FlagsOK, LineOK
  <2>. QED BY <1>7, <2>1 DEF Enter, AskedOK, NextLine, line
<1>8. CASE Execute
  BY <1>3, <1>5, <1>8 DEF Execute, NextLine
<1>9. CASE Swallow \/ Redraw
  BY <1>4, <1>9 DEF Swallow, Redraw, Pressed, around
<1>10. ASSUME NEW c \in Chars, TypeAtEnd(c) \/ TypeInside(c) PROVE AskedOK'
  BY <1>4, <1>5, <1>10 DEF TypeAtEnd, TypeInside, Pressed, around
<1>11. CASE Backspace \/ EraseWord
  BY <1>4, <1>11 DEF Backspace, EraseWord, EraseFrom, Pressed, around
<1>12. CASE ClearLine \/ KillToEnd \/ CtrlZ \/ Left \/ Right \/ Home \/ End
  BY <1>4, <1>12 DEF ClearLine, KillToEnd, CtrlZ, Left, Right, Home, End, Pressed, around
<1>13. CASE Up \/ Down
  BY <1>4, <1>5, <1>13 DEF Up, Down, Recalled, Pressed, around
<1>14. CASE HelpListed
  BY <1>4, <1>5, <1>14 DEF HelpListed, Pressed, around
<1>15. CASE EndOfText \/ HangUp
  <2>1. session = "open" /\ kept' = kept
    BY <1>15 DEF EndOfText, HangUp, Pressed
  <2>2. kept = FALSE /\ session' # "running"
    BY <1>15, <2>1 DEF EndOfText, HangUp, IInv, KeptOK, FlagsOK
  <2>. QED BY <1>3, <2>1, <2>2
<1>16. CASE TabWord \/ TabPrefix
  <2>1. session = "open" /\ (Fault \/ UNCHANGED around)
    BY <1>16 DEF TabWord, TabPrefix, Completing, WriteWord, Pressed
  <2>. QED BY <1>4, <1>5, <2>1 DEF around
<1>17. CASE TabOnly
  <2>1. session = "open" /\ kept' = kept /\ session' # "running"
    BY <1>17 DEF TabOnly, Pressed
  <2>2. kept = FALSE
    BY <2>1 DEF IInv, KeptOK, FlagsOK
  <2>. QED BY <1>3, <2>1, <2>2
<1>. QED BY <1>2, <1>6, <1>7, <1>8, <1>9, <1>10, <1>11, <1>12, <1>13, <1>14, <1>15, <1>16, <1>17
     DEF Next, HelpAsked

(* As long as no quote is typed: keys edit around the cursor, a completion *)
(* replaces the word before it and no more, the line that is run is the    *)
(* text as it stands, asking for help gives it back, and what an arrow     *)
(* shows is a line that was run.                                           *)
THEOREM ImplementsTextLine ==
  ASSUME Quote \notin Bytes PROVE Spec => TextLineSpec
<1>1. Init => Abstract!TextInit /\ AskedOK
  <2>. SUFFICES ASSUME Init PROVE Abstract!TextInit /\ AskedOK
    OBVIOUS
  <2>1. LineOK /\ cursor = 0 /\ l = 0 /\ session = "open" /\ kept = FALSE /\ history = NoHistory
    BY InitHolds DEF Init, IInv
  <2>2. Before = <<>> /\ After = <<>> /\ Running = <<>> /\ Lines = {}
    BY <2>1, NoneBefore, NoneAfter DEF Running, Lines, NoHistory
  <2>. QED BY <2>1, <2>2 DEF Abstract!TextInit, Before, After, Running, Lines, AskedOK
<1>2. IInv /\ IInv' /\ AskedOK /\ [Next]_vars => AskedOK'
  BY AskedKept
<1>3. IInv /\ IInv' /\ AskedOK /\ [Next]_vars => TextStep
  <2>. SUFFICES ASSUME IInv, IInv', AskedOK, [Next]_vars PROVE TextStep
    OBVIOUS
  <2>1. CASE UNCHANGED vars
    BY <2>1, Unmoved, AsStutter DEF vars, Running, Terminated, CString, StrLen
  <2>2. ASSUME NEW c \in Chars, TypeAtEnd(c) \/ TypeInside(c) PROVE TextStep
    BY <2>2, TypeAtEndStep, TypeInsideStep
  <2>3. CASE Swallow
    BY <2>3, IdleStep DEF Swallow, line, memory, around
  <2>4. CASE Backspace \/ EraseWord \/ ClearLine \/ KillToEnd \/ CtrlZ
    BY <2>4, ErasingStep, ClearingStep
  <2>5. CASE Redraw \/ Left \/ Right \/ Home \/ End \/ Up \/ Down
    BY <2>5, MovingStep, ArrowsStep
  <2>6. CASE Enter \/ Execute \/ HelpListed \/ HelpAsked \/ EndOfText \/ HangUp
    BY <2>6, EnterStep, ExecuteStep, HelpStep, LeavingStep
  <2>7. CASE TabWord \/ TabPrefix \/ TabOnly
    BY <2>7, TabStep
  <2>. QED BY <2>1, <2>2, <2>3, <2>4, <2>5, <2>6, <2>7 DEF Next
<1>4. IInv /\ IInv' /\ AskedOK /\ [Next]_vars => [Abstract!TextNext]_(Abstract!textVars)
  BY <1>3 DEF TextStep
<1>. QED BY InvariantHolds, <1>1, <1>2, <1>4, PTL DEF Spec, TextLineSpec, Abstract!TextSpec
=============================================================================
