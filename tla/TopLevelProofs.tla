--------------------------- MODULE TopLevelProofs ---------------------------
(***************************************************************************)
(* The commands of the top level are fresh after load-modules: what one    *)
(* walk over a module registers there the next one removes.                *)
(***************************************************************************)
EXTENDS CommandTreeProofs

-----------------------------------------------------------------------------
(* Beginnings of paths.                                                    *)

LEMMA UptoFacts ==
  ASSUME NEW S, NEW p \in Seq(S), NEW i \in 1..Len(p)
  PROVE  /\ Upto(p, i) \in Seq(S) /\ Len(Upto(p, i)) = i /\ i \in Nat
         /\ \A j \in 1..i : Upto(p, i)[j] = p[j]
<1>1. Len(p) \in Nat
  OBVIOUS
<1>2. \A j \in 1..i : p[j] \in S
  BY <1>1
<1>3. /\ SubSeq(p, 1, i) \in Seq(S) /\ Len(SubSeq(p, 1, i)) = i
      /\ \A j \in 1..i : SubSeq(p, 1, i)[j] = p[j]
  BY <1>1, <1>2
<1> QED BY <1>1, <1>3 DEF Upto

LEMMA UptoWhole ==
  ASSUME NEW S, NEW p \in Seq(S), p # <<>>
  PROVE  Upto(p, Len(p)) = p
<1>1. Len(p) \in 1..Len(p) /\ Len(p) \in Nat
  BY EmptySeq
<1>2. /\ Upto(p, Len(p)) \in Seq(S) /\ Len(Upto(p, Len(p))) = Len(p)
      /\ \A j \in 1..Len(p) : Upto(p, Len(p))[j] = p[j]
  BY <1>1, UptoFacts
<1> QED BY <1>2, SeqEqual, Zenon

LEMMA UptoFront ==
  ASSUME NEW S, NEW p \in Seq(S), NEW i \in 1..(Len(p) - 1)
  PROVE  Front(Upto(p, i + 1)) = Upto(p, i)
<1>1. Len(p) \in Nat /\ i \in 1..Len(p) /\ i + 1 \in 1..Len(p) /\ (i + 1) - 1 = i
  OBVIOUS
<1>2. /\ Upto(p, i) \in Seq(S) /\ Len(Upto(p, i)) = i
      /\ \A j \in 1..i : Upto(p, i)[j] = p[j]
  BY <1>1, UptoFacts
<1>3. /\ Upto(p, i + 1) \in Seq(S) /\ Len(Upto(p, i + 1)) = i + 1
      /\ \A j \in 1..(i + 1) : Upto(p, i + 1)[j] = p[j]
  BY <1>1, UptoFacts
<1> DEFINE q == Upto(p, i + 1)
<1> HIDE DEF q
<1>4. q \in Seq(S) /\ Len(q) = i + 1 /\ \A j \in 1..(i + 1) : q[j] = p[j]
  BY <1>3 DEF q
<1>5. /\ Upto(q, i) \in Seq(S) /\ Len(Upto(q, i)) = i
      /\ \A j \in 1..i : Upto(q, i)[j] = q[j]
  <2>1. i \in 1..Len(q)
    BY <1>1, <1>4
  <2> QED BY <1>4, <2>1, UptoFacts
<1>6. \A j \in 1..i : Upto(q, i)[j] = Upto(p, i)[j]
  BY <1>1, <1>2, <1>4, <1>5
<1>7. Upto(q, i) = Upto(p, i)
  BY <1>2, <1>5, <1>6, SeqEqual, Zenon
<1>8. Front(q) = Upto(q, i)
  BY <1>1, <1>4 DEF Front, Upto
<1> QED BY <1>7, <1>8 DEF q

LEMMA UptoAppend ==
  ASSUME NEW p \in Seq(Nat), NEW k \in Nat
  PROVE  /\ Len(Append(p, k)) = Len(p) + 1
         /\ \A i \in 1..Len(p) : Upto(Append(p, k), i) = Upto(p, i)
         /\ Upto(Append(p, k), Len(p) + 1) = Append(p, k)
<1> DEFINE q == Append(p, k)
<1>1. /\ q \in Seq(Nat) /\ Len(q) = Len(p) + 1 /\ q # <<>> /\ Len(p) \in Nat
      /\ \A i \in 1..Len(p) : q[i] = p[i]
  OBVIOUS
<1> HIDE DEF q
<1>2. ASSUME NEW i \in 1..Len(p) PROVE Upto(q, i) = Upto(p, i)
  <2>1. i \in 1..Len(q)
    BY <1>1
  <2>2. /\ Upto(p, i) \in Seq(Nat) /\ Len(Upto(p, i)) = i /\ i \in Nat
        /\ \A j \in 1..i : Upto(p, i)[j] = p[j]
    BY UptoFacts
  <2>3. /\ Upto(q, i) \in Seq(Nat) /\ Len(Upto(q, i)) = i
        /\ \A j \in 1..i : Upto(q, i)[j] = q[j]
    BY <1>1, <2>1, UptoFacts
  <2>4. \A j \in 1..i : j \in 1..Len(p)
    BY <1>1
  <2>5. \A j \in 1..i : Upto(q, i)[j] = Upto(p, i)[j]
    BY <1>1, <2>2, <2>3, <2>4
  <2> QED BY <2>2, <2>3, <2>5, SeqEqual, Zenon
<1>3. Upto(q, Len(q)) = q
  BY <1>1, UptoWhole
<1> QED BY <1>1, <1>2, <1>3 DEF q

(* All commands above a command are there.                                 *)
LEMMA PrefixesThere ==
  ASSUME NEW t, Good(t), NEW p \in DOMAIN t.cmds, NEW i \in 1..Len(p)
  PROVE  Upto(p, i) \in DOMAIN t.cmds
<1>1. p \in Seq(Nat) /\ p # <<>> /\ Len(p) \in Nat
  BY DEF Good, Shape
<1> DEFINE S == {j \in 1..Len(p) : Upto(p, j) \notin DOMAIN t.cmds}
<1> SUFFICES ASSUME S # {} PROVE FALSE
  OBVIOUS
<1>2. S \subseteq 0..Len(p)
  OBVIOUS
<1>3. PICK k \in S : \A j \in S : j <= k
  <2> HIDE DEF S
  <2> QED BY <1>1, <1>2, GreatestExists
<1>4. k \in 1..Len(p) /\ Upto(p, k) \notin DOMAIN t.cmds
  OBVIOUS
<1>5. k # Len(p)
  BY <1>1, <1>4, UptoWhole
<1>6. k \in 1..(Len(p) - 1) /\ k + 1 \in 1..Len(p) /\ ~ (k + 1 <= k)
  BY <1>1, <1>4, <1>5
<1>7. Upto(p, k + 1) \in DOMAIN t.cmds
  BY <1>3, <1>6
<1>8. Front(Upto(p, k + 1)) = Upto(p, k)
  BY <1>1, <1>6, UptoFront
<1>9. Upto(p, k) \in DOMAIN t.cmds \cup {Top}
  BY <1>7, <1>8 DEF Good, Shape
<1>10. Len(Upto(p, k)) = k /\ k # 0
  BY <1>1, <1>4, UptoFacts
<1> QED BY <1>4, <1>9, <1>10 DEF Top

LEMMA ShowPrefix ==
  ASSUME NEW p \in Seq(Nat), NEW x \in Nat
  PROVE  IsPrefix(<<1, x>>, p) <=> Len(p) >= 2 /\ p[1] = 1 /\ p[2] = x
<1> DEFINE b == <<1, x>>
<1>1. b \in Seq(Nat) /\ Len(b) = 2 /\ b[1] = 1 /\ b[2] = x
  OBVIOUS
<1> HIDE DEF b
<1>2. IsPrefix(b, p) <=> 2 <= Len(p) /\ Upto(b, 2) = Upto(p, 2)
  BY <1>1 DEF IsPrefix, Upto
<1>3. ASSUME 2 <= Len(p)
      PROVE  Upto(b, 2) = Upto(p, 2) <=> p[1] = 1 /\ p[2] = x
  <2>1. 2 \in 1..Len(p) /\ 2 \in 1..Len(b) /\ 1..2 = {1, 2} /\ Len(p) \in Nat
    BY <1>1, <1>3
  <2>2. /\ Upto(p, 2) \in Seq(Nat) /\ Len(Upto(p, 2)) = 2
        /\ \A j \in 1..2 : Upto(p, 2)[j] = p[j]
    BY <2>1, UptoFacts
  <2>3. /\ Upto(b, 2) \in Seq(Nat) /\ Len(Upto(b, 2)) = 2
        /\ \A j \in 1..2 : Upto(b, 2)[j] = b[j]
    BY <1>1, <2>1, UptoFacts
  <2>4. Upto(b, 2) = Upto(p, 2) => p[1] = 1 /\ p[2] = x
    BY <1>1, <2>1, <2>2, <2>3
  <2>5. p[1] = 1 /\ p[2] = x => \A j \in 1..2 : Upto(b, 2)[j] = Upto(p, 2)[j]
    BY <1>1, <2>1, <2>2, <2>3
  <2>6. (\A j \in 1..2 : Upto(b, 2)[j] = Upto(p, 2)[j]) => Upto(b, 2) = Upto(p, 2)
    BY <2>2, <2>3, SeqEqual, Zenon
  <2> QED BY <2>4, <2>5, <2>6
<1> QED BY <1>2, <1>3 DEF b

-----------------------------------------------------------------------------
(* What a search finds.                                                    *)

LEMMA HitFacts ==
  ASSUME NEW t, Good(t), NEW base \in Seq(Nat), NEW n, NEW p \in Hits(t, base, n)
  PROVE  /\ p \in DOMAIN t.cmds /\ p \in Seq(Nat) /\ p # <<>> /\ Len(p) \in Nat
         /\ Len(base) + 1 <= Len(p)
         /\ \A i \in (Len(base) + 1)..Len(p) :
              Upto(p, i) \in DOMAIN t.cmds /\ t.cmds[Upto(p, i)].hash = Head(n)
         /\ t.cmds[p].hash = Head(n) /\ t.cmds[p].model = n
<1>1. p \in DOMAIN t.cmds /\ p \in Seq(Nat) /\ p # <<>> /\ Len(p) \in Nat
  <2>1. p \in DOMAIN t.cmds
    BY DEF Hits
  <2>2. p \in Seq(Nat) /\ p # <<>>
    BY <2>1 DEF Good, Shape
  <2> QED BY <2>1, <2>2
<1>2. \A i \in (Len(base) + 1)..Len(p) : i \in 1..Len(p)
  <2>1. Len(base) \in Nat
    OBVIOUS
  <2> QED BY <1>1, <2>1
<1>3. \A i \in (Len(base) + 1)..Len(p) :
        Upto(p, i) \in DOMAIN t.cmds /\ t.cmds[Upto(p, i)].hash = Head(n)
  BY <1>1, <1>2, PrefixesThere DEF Hits
<1>4. Len(base) + 1 <= Len(p)
  <2>1. Len(base) <= Len(p) /\ Upto(base, Len(base)) = Upto(p, Len(base)) /\ base # p
    BY DEF Hits, IsStrictPrefix, IsPrefix, Upto
  <2> SUFFICES ASSUME Len(base) = Len(p) PROVE FALSE
    BY <1>1, <2>1
  <2>2. base # <<>> => Upto(base, Len(base)) = base
    BY UptoWhole
  <2>3. Upto(p, Len(p)) = p
    BY <1>1, UptoWhole
  <2> QED BY <1>1, <2>1, <2>2, <2>3, EmptySeq
<1>5. t.cmds[p].hash = Head(n)
  <2>1. Len(p) \in (Len(base) + 1)..Len(p)
    BY <1>1, <1>4
  <2>2. Upto(p, Len(p)) = p
    BY <1>1, UptoWhole
  <2> QED BY <1>3, <2>1, <2>2
<1>6. t.cmds[p].model = n
  BY DEF Hits
<1> QED BY <1>1, <1>3, <1>4, <1>5, <1>6

LEMMA HitsGrow ==
  ASSUME NEW t, NEW u, Good(t), Grows(t, u), NEW base \in Seq(Nat), NEW n
  PROVE  /\ Hits(t, base, n) \subseteq Hits(u, base, n)
         /\ Hits(u, base, n) \cap DOMAIN t.cmds \subseteq Hits(t, base, n)
<1>1. ASSUME NEW p \in Hits(t, base, n) PROVE p \in Hits(u, base, n)
  BY HitFacts DEF Hits, Grows
<1>2. ASSUME NEW p \in Hits(u, base, n), p \in DOMAIN t.cmds
      PROVE  p \in Hits(t, base, n)
  <2>1. p \in Seq(Nat) /\ Len(p) \in Nat
    BY <1>2 DEF Good, Shape
  <2>2. \A i \in (Len(base) + 1)..Len(p) : i \in 1..Len(p)
    BY <2>1
  <2>3. \A i \in (Len(base) + 1)..Len(p) : Upto(p, i) \in DOMAIN t.cmds
    BY <1>2, <2>2, PrefixesThere
  <2> QED BY <1>2, <2>3 DEF Hits, Grows
<1> QED BY <1>1, <1>2

(* A search finds something when there is something.                       *)
LEMMA SearchFinds ==
  ASSUME NEW t, Good(t), NEW base \in Seq(Nat), NEW n
  PROVE  /\ Hits(t, base, n) = {} => SearchCmds(t, base, n) = Top
         /\ Hits(t, base, n) # {} => /\ SearchCmds(t, base, n) \in Hits(t, base, n)
                                     /\ SearchCmds(t, base, n) # Top
<1> DEFINE S == Hits(t, base, n)
           First(p) == \A q \in S \ {p} : Before(p, q)
<1>1. SearchCmds(t, base, n) =
        IF S = {} THEN Top ELSE CHOOSE p \in S : First(p) \/ ~ \E q \in S : First(q)
  BY DEF SearchCmds
<1>2. S # {} => \E p \in S : First(p) \/ ~ \E q \in S : First(q)
  <2> HIDE DEF S, First
  <2> QED OBVIOUS
<1>3. Top \notin S
  BY DEF Hits, Good, Shape, Top
<1> HIDE DEF First, S
<1>4. S # {} => SearchCmds(t, base, n) \in S
  BY <1>1, <1>2
<1> QED BY <1>1, <1>3, <1>4 DEF S

(* A command registered below one that leads to it is found.               *)
LEMMA HitAdded ==
  ASSUME NEW t, Good(t), NEW x \in Nat, NEW n \in Nodes, NEW mode,
         NEW p \in DOMAIN t.cmds,
         p = <<1, x>> \/ \E k \in Nodes : Head(k) = Head(n) /\ p \in Hits(t, <<1, x>>, k)
  PROVE  NewUnder(t, p) \in Hits(Register(t, p, Command(CmdName(n), n, mode)), <<1, x>>, n)
<1> DEFINE c == Command(CmdName(n), n, mode)
           u == Register(t, p, c)
           q == NewUnder(t, p)
           b == <<1, x>>
<1>1. b \in Seq(Nat) /\ Len(b) = 2 /\ b[1] = 1 /\ b[2] = x
  OBVIOUS
<1>2. p \in Seq(Nat) /\ t.next \in Nat /\ Len(p) \in Nat
  BY DEF Good, Shape
<1>3. c.model = n /\ c.name = CmdName(n) /\ c.hash = Head(n)
  BY DEF Command
<1> HIDE DEF c, b
<1>4. /\ Len(p) >= 2 /\ p[1] = 1 /\ p[2] = x
      /\ \A i \in 3..Len(p) : Upto(p, i) \in DOMAIN t.cmds /\ t.cmds[Upto(p, i)].hash = Head(n)
  <2>1. CASE p = b
    <3>1. Len(p) = 2 /\ p[1] = 1 /\ p[2] = x
      BY <1>1, <2>1
    <3>2. \A i \in 3..2 : FALSE
      OBVIOUS
    <3>3. \A i \in 3..Len(p) : FALSE
      BY <3>1, <3>2, Zenon
    <3> QED BY <3>1, <3>3
  <2>2. CASE \E k \in Nodes : Head(k) = Head(n) /\ p \in Hits(t, b, k)
    <3>1. PICK k \in Nodes : Head(k) = Head(n) /\ p \in Hits(t, b, k)
      BY <2>2
    <3>2. IsPrefix(b, p)
      BY <3>1 DEF Hits, IsStrictPrefix
    <3>3. Len(p) >= 2 /\ p[1] = 1 /\ p[2] = x
      BY <1>2, <3>2, ShowPrefix DEF b
    <3>4. \A i \in (Len(b) + 1)..Len(p) :
            Upto(p, i) \in DOMAIN t.cmds /\ t.cmds[Upto(p, i)].hash = Head(k)
      <4>1. b \in Seq(Nat) /\ p \in Hits(t, b, k)
        BY <1>1, <3>1
      <4> HIDE DEF u, q
      <4> QED BY <4>1, HitFacts
    <3>5. 3 = Len(b) + 1
      BY <1>1
    <3>6. \A i \in 3..Len(p) : Upto(p, i) \in DOMAIN t.cmds /\ t.cmds[Upto(p, i)].hash = Head(n)
      BY <3>1, <3>4, <3>5, Zenon
    <3> QED BY <3>3, <3>6
  <2> QED BY <2>1, <2>2 DEF b
<1>5. /\ q \in Seq(Nat) /\ Len(q) = Len(p) + 1
      /\ \A i \in 1..Len(p) : q[i] = p[i] /\ Upto(q, i) = Upto(p, i)
      /\ Upto(q, Len(p) + 1) = q
  BY <1>2, UptoAppend, AppendProperties DEF NewUnder
<1>6. IsStrictPrefix(b, q)
  <2>1. q[1] = 1 /\ q[2] = x /\ Len(q) >= 3
    BY <1>2, <1>4, <1>5
  <2>2. Len(q) # Len(b)
    BY <1>1, <1>2, <2>1, <1>5
  <2>3. IsPrefix(b, q)
    BY <1>5, <2>1, ShowPrefix DEF b
  <2> QED BY <2>2, <2>3 DEF IsStrictPrefix
<1>7. q \notin DOMAIN t.cmds
  <2>1. Len(p) + 1 \in DOMAIN q /\ q[Len(p) + 1] = t.next
    BY <1>2, AppendFacts DEF NewUnder
  <2>2. ~ (t.next < t.next)
    BY <1>2
  <2> QED BY <2>1, <2>2 DEF Good, Shape
<1>8. /\ q \in DOMAIN u.cmds /\ u.cmds[q] = c
      /\ \A r \in DOMAIN t.cmds : u.cmds[r] = t.cmds[r]
  BY <1>7 DEF Register
<1> HIDE DEF u, q
<1>9. ASSUME NEW i \in 3..Len(q) PROVE u.cmds[Upto(q, i)].hash = Head(n)
  <2>1. CASE i = Len(p) + 1
    BY <1>3, <1>5, <1>8, <2>1
  <2>2. CASE i # Len(p) + 1
    <3>1. i \in 3..Len(p) /\ i \in 1..Len(p)
      BY <1>2, <1>5, <2>2
    <3> QED BY <1>4, <1>5, <1>8, <3>1
  <2> QED BY <2>1, <2>2
<1>10. q \in Hits(u, b, n)
  <2>1. 3 = Len(b) + 1
    BY <1>1
  <2> QED BY <1>3, <1>6, <1>8, <1>9, <2>1 DEF Hits
<1> QED BY <1>10 DEF u, q, c, b

(* What is shown of the candidate is shown of running and startup.         *)
Mirror(t) ==
  \A n \in Nodes :
    Hits(t, ConfigCandidate, n) # {} =>
      Hits(t, ConfigRunning, n) # {} /\ Hits(t, ConfigStartup, n) # {}

(* N: the nodes of the new commands below show config-candidate.           *)
LEMMA MirrorWith ==
  ASSUME NEW t, NEW u, Good(t), Good(u), Grows(t, u), Mirror(t), NEW N,
         \A p \in DOMAIN u.cmds \ DOMAIN t.cmds :
           IsPrefix(ConfigCandidate, p) => u.cmds[p].model \in N \/ u.cmds[p].hash = "diff",
         \A n \in N : Hits(u, ConfigRunning, n) # {} /\ Hits(u, ConfigStartup, n) # {}
  PROVE  Mirror(u)
<1>1. /\ ConfigCandidate \in Seq(Nat) /\ ConfigRunning \in Seq(Nat)
      /\ ConfigStartup \in Seq(Nat)
  BY DEF ConfigCandidate, ConfigRunning, ConfigStartup
<1> SUFFICES ASSUME NEW n \in Nodes, NEW p \in Hits(u, ConfigCandidate, n)
             PROVE  Hits(u, ConfigRunning, n) # {} /\ Hits(u, ConfigStartup, n) # {}
  BY DEF Mirror
<1>2. CASE n \in N
  BY <1>2
<1>3. CASE n \notin N
  <2>1. u.cmds[p].model = n /\ u.cmds[p].hash = Head(n) /\ p \in DOMAIN u.cmds
    BY <1>1, HitFacts
  <2>2. IsPrefix(ConfigCandidate, p)
    BY DEF Hits, IsStrictPrefix
  <2>3. Head(n) # "diff"
    BY NodeFacts, SchemaAssumption
  <2>4. p \in DOMAIN t.cmds
    BY <1>3, <2>1, <2>2, <2>3
  <2>5. p \in Hits(t, ConfigCandidate, n)
    BY <1>1, <2>4, HitsGrow
  <2>6. Hits(t, ConfigRunning, n) # {} /\ Hits(t, ConfigStartup, n) # {}
    BY <2>5 DEF Mirror
  <2> QED BY <1>1, <2>6, HitsGrow
<1> QED BY <1>2, <1>3

-----------------------------------------------------------------------------
(* What a step adds to the top level.                                      *)

NewTops(t, u) == {p \in DOMAIN u.cmds \ DOMAIN t.cmds : Len(p) = 1}

LEMMA OneMore ==
  ASSUME NEW t, Good(t), NEW p \in DOMAIN t.cmds \cup {Top}, NEW c
  PROVE  LET u == Register(t, p, c)
             q == NewUnder(t, p)
         IN /\ q \in Seq(Nat) /\ q \notin DOMAIN t.cmds
            /\ DOMAIN u.cmds = DOMAIN t.cmds \cup {q}
            /\ u.cmds[q] = c /\ Grows(t, u)
            /\ p # Top => Len(q) # 1 /\ q[1] = p[1] /\ NewTops(t, u) = {}
            /\ p = Top => Len(q) = 1 /\ q[1] # 1 /\ NewTops(t, u) = {q}
<1> DEFINE u == Register(t, p, c)
           q == NewUnder(t, p)
<1>1. p \in Seq(Nat) /\ t.next \in Nat /\ Len(p) \in Nat /\ (p # Top => Len(p) # 0)
  BY EmptySeq DEF Good, Shape, Top
<1>2. /\ q \in Seq(Nat) /\ Len(q) = Len(p) + 1 /\ q[Len(p) + 1] = t.next
      /\ Len(p) + 1 \in DOMAIN q
      /\ p # Top => q[1] = p[1]
      /\ p = Top => q[1] = t.next
  BY <1>1, AppendFacts, AppendProperties DEF NewUnder, Top
<1>3. q \notin DOMAIN t.cmds
  <2>1. ~ (t.next < t.next)
    BY <1>1
  <2> QED BY <1>2, <2>1 DEF Good, Shape
<1>4. /\ DOMAIN u.cmds = DOMAIN t.cmds \cup {q} /\ u.cmds[q] = c
      /\ Grows(t, u)
  BY <1>3 DEF Register, Grows
<1>5. t.next # 1
  <2>1. Show \in DOMAIN t.cmds
    BY DEF Good, HasFixed, FixedCommands
  <2>2. 1 \in DOMAIN Show /\ Show[1] = 1
    BY DEF Show
  <2>3. 1 < t.next
    BY <2>1, <2>2 DEF Good, Shape
  <2> QED BY <1>1, <2>3
<1> HIDE DEF u, q
<1>6. NewTops(t, u) = IF Len(q) = 1 THEN {q} ELSE {}
  BY <1>3, <1>4 DEF NewTops
<1>7. p = Top => Len(p) = 0
  BY DEF Top
<1>8. (p # Top => Len(q) # 1) /\ (p = Top => Len(q) = 1)
  BY <1>1, <1>2, <1>7
<1> QED BY <1>2, <1>3, <1>4, <1>5, <1>6, <1>8 DEF u, q

LEMMA GrowsTwice ==
  ASSUME NEW t, NEW u, NEW v, Grows(t, u), Grows(u, v)
  PROVE  /\ Grows(t, v)
         /\ NewTops(t, v) = NewTops(t, u) \cup NewTops(u, v)
         /\ \A p \in NewTops(t, u) : v.cmds[p] = u.cmds[p]
BY DEF Grows, NewTops

(* Nothing new below show.                                                 *)
Unshown(t, u) == \A p \in DOMAIN u.cmds \ DOMAIN t.cmds : p[1] # 1

LEMMA UnshownTwice ==
  ASSUME NEW t, NEW u, NEW v, Unshown(t, u), Unshown(u, v)
  PROVE  Unshown(t, v)
BY DEF Unshown

LEMMA MirrorKept ==
  ASSUME NEW t, NEW u, Good(t), Good(u), Grows(t, u), Mirror(t),
         \A p \in DOMAIN u.cmds \ DOMAIN t.cmds : ~ IsPrefix(ConfigCandidate, p)
  PROVE  Mirror(u)
BY MirrorWith

LEMMA MirrorUnshown ==
  ASSUME NEW t, NEW u, Good(t), Good(u), Grows(t, u), Mirror(t), Unshown(t, u)
  PROVE  Mirror(u)
<1>1. ASSUME NEW p \in DOMAIN u.cmds \ DOMAIN t.cmds PROVE ~ IsPrefix(ConfigCandidate, p)
  <2>1. p \in Seq(Nat) /\ p[1] # 1
    BY DEF Good, Shape, Unshown
  <2> QED BY <2>1, ShowPrefix DEF ConfigCandidate
<1> QED BY <1>1, MirrorKept

(* Where a parent is found.                                                *)
LEMMA ParentPlaces ==
  ASSUME NEW t, NEW n \in Nodes, Good(t)
  PROVE  /\ FindParent(t, Top, n) \in DOMAIN t.cmds \cup {Top}
         /\ FindParent(t, Top, n) # Top => FindParent(t, Top, n)[1] # 1
         /\ OrElse(FindParent(t, No, n), No) \in DOMAIN t.cmds
         /\ OrElse(FindParent(t, No, n), No)[1] = 6
         /\ OrElse(FindParent(t, No, n), No) # Top
<1>1. Show \in DOMAIN t.cmds /\ t.cmds[Show].hash \notin Modules /\ No \in DOMAIN t.cmds
  BY SchemaAssumption DEF Good, HasFixed, FixedCommands
<1>2. ASSUME NEW k \in Nodes, NEW p \in Hits(t, Top, k) PROVE p \in DOMAIN t.cmds /\ p[1] # 1
  <2>1. Top \in Seq(Nat) /\ Len(Top) = 0
    BY DEF Top
  <2>2. /\ p \in DOMAIN t.cmds /\ p \in Seq(Nat) /\ p # <<>> /\ Len(p) \in Nat
        /\ \A i \in (Len(Top) + 1)..Len(p) :
             Upto(p, i) \in DOMAIN t.cmds /\ t.cmds[Upto(p, i)].hash = Head(k)
    <3>1. Top \in Seq(Nat) /\ p \in Hits(t, Top, k)
      BY <2>1
    <3> QED BY <3>1, HitFacts
  <2>3. 1 \in (Len(Top) + 1)..Len(p) /\ 1 \in 1..Len(p)
    <3>1. Len(p) # 0
      BY <2>2, EmptySeq
    <3>2. 1 \in 1..Len(p)
      BY <2>2, <3>1
    <3>3. Len(Top) + 1 = 1
      BY <2>1
    <3> QED BY <3>2, <3>3
  <2>4. Upto(p, 1) = <<p[1]>>
    <3>1. /\ Upto(p, 1) \in Seq(Nat) /\ Len(Upto(p, 1)) = 1
          /\ \A j \in 1..1 : Upto(p, 1)[j] = p[j]
      BY <2>2, <2>3, UptoFacts
    <3>2. Upto(p, 1)[1] = p[1]
      BY <3>1
    <3> QED BY <3>1, <3>2
  <2>5. t.cmds[<<p[1]>>].hash \in Modules
    BY <2>2, <2>3, <2>4, NodeFacts
  <2> QED BY <1>1, <2>2, <2>5 DEF Show
<1>3. ASSUME NEW k \in Nodes, NEW p \in Hits(t, No, k)
      PROVE  p \in DOMAIN t.cmds /\ p[1] = 6 /\ p # Top
  <2>1. No \in Seq(Nat) /\ Len(No) = 1 /\ No[1] = 6
    BY DEF No
  <2>2. /\ p \in DOMAIN t.cmds /\ p \in Seq(Nat) /\ p # <<>> /\ Len(p) \in Nat
    BY <2>1, HitFacts
  <2>3. 1 <= Len(p) /\ Upto(No, 1) = Upto(p, 1)
    BY <2>1 DEF Hits, IsStrictPrefix, IsPrefix, Upto
  <2>4. 1 \in 1..Len(p) /\ 1 \in 1..Len(No) /\ 1 \in 1..1
    BY <2>1, <2>2, <2>3
  <2>5. Upto(p, 1)[1] = p[1] /\ Upto(No, 1)[1] = 6
    BY <2>1, <2>2, <2>4, UptoFacts
  <2> QED BY <2>2, <2>3, <2>5 DEF Top
<1>4. \/ FindParent(t, Top, n) = Top /\ FindParent(t, No, n) = Top
      \/ \E k \in Nodes : /\ FindParent(t, Top, n) \in Hits(t, Top, k) \cup {Top}
                          /\ FindParent(t, No, n) \in Hits(t, No, k) \cup {Top}
  <2>1. ASSUME Attached(n)
        PROVE  Parent(n) \in Nodes /\ Parent(Parent(n)) \in Nodes
    <3>1. Parent(n) \in Nodes
      BY <2>1, NodeFacts DEF Attached
    <3> QED BY <2>1, <3>1, NodeFacts DEF Attached
  <2> QED BY <2>1, SearchResult DEF FindParent
<1>5. No # Top /\ No[1] = 6
  BY DEF No, Top
<1> QED BY <1>1, <1>2, <1>3, <1>4, <1>5 DEF OrElse

-----------------------------------------------------------------------------
(* What the generation of the commands for node n adds.                    *)

Rooted(n) == IsTop(n) => Kind[n] = "container"

Own(c, n) == c.model = n /\ c.name = CmdName(n)
Order(c, n) == c.model = NULL /\ c.name = <<"print-order">> /\ n \in UserOrdered

Quiet(t, u, n) == Extended(t, u, Head(n)) /\ Mirror(u) /\ NewTops(t, u) = {}

(* At most one command at the top level, for n.                            *)
AddsOwn(t, u, n) ==
  /\ Extended(t, u, Head(n)) /\ Mirror(u)
  /\ Rooted(n) => /\ \A p \in NewTops(t, u) : n \notin ReadOnly /\ Own(u.cmds[p], n)
                  /\ \A p, q \in NewTops(t, u) : p = q

(* ... and at most one print-order.                                        *)
Adds(t, u, n) ==
  /\ Extended(t, u, Head(n)) /\ Mirror(u)
  /\ Rooted(n) =>
       /\ \A p \in NewTops(t, u) :
            n \notin ReadOnly /\ (Own(u.cmds[p], n) \/ Order(u.cmds[p], n))
       /\ \A p, q \in NewTops(t, u) : u.cmds[p].model = u.cmds[q].model => p = q

LEMMA QuietAdds ==
  ASSUME NEW t, NEW u, NEW n, Quiet(t, u, n)
  PROVE  AddsOwn(t, u, n)
BY DEF Quiet, AddsOwn

LEMMA QuietFirst ==
  ASSUME NEW t, NEW u, NEW v, NEW n, Quiet(t, u, n), AddsOwn(u, v, n)
  PROVE  AddsOwn(t, v, n)
<1>1. Extended(t, v, Head(n)) /\ Grows(t, u) /\ Grows(u, v)
  BY ExtendedTwice DEF Quiet, AddsOwn, Extended
<1>2. NewTops(t, v) = NewTops(u, v)
  BY <1>1, GrowsTwice DEF Quiet
<1> QED BY <1>1, <1>2 DEF AddsOwn

LEMMA QuietTwice ==
  ASSUME NEW t, NEW u, NEW v, NEW n, Quiet(t, u, n), Quiet(u, v, n)
  PROVE  Quiet(t, v, n)
<1>1. Extended(t, v, Head(n)) /\ Grows(t, u) /\ Grows(u, v)
  BY ExtendedTwice DEF Quiet, Extended
<1>2. NewTops(t, v) = {}
  BY <1>1, GrowsTwice DEF Quiet
<1> QED BY <1>1, <1>2 DEF Quiet

LEMMA QuietSame ==
  ASSUME NEW t, NEW n, Good(t), Mirror(t)
  PROVE  Quiet(t, t, n)
BY DEF Quiet, Extended, Grows, NewTops

(* A command for n and another under `no`.                                 *)
LEMMA BothAdded ==
  ASSUME NEW t, NEW p \in DOMAIN t.cmds \cup {Top}, NEW q \in DOMAIN t.cmds,
         NEW n, NEW c, Good(t), Mirror(t),
         p # Top => p[1] # 1, q # Top, q[1] # 1,
         Extended(t, Register(Register(t, p, c), q, c), Head(n)),
         Good(Register(t, p, c)),
         p = Top /\ Rooted(n) => Own(c, n) /\ n \notin ReadOnly
  PROVE  AddsOwn(t, Register(Register(t, p, c), q, c), n)
<1> DEFINE u == Register(t, p, c)
           v == Register(u, q, c)
           a == NewUnder(t, p)
           b == NewUnder(u, q)
<1>1. /\ DOMAIN u.cmds = DOMAIN t.cmds \cup {a}
      /\ u.cmds[a] = c /\ Grows(t, u) /\ a[1] # 1
      /\ NewTops(t, u) = IF p = Top THEN {a} ELSE {}
  BY OneMore
<1>2. q \in DOMAIN u.cmds \cup {Top} /\ Good(u)
  BY <1>1
<1> HIDE DEF u
<1>3. /\ DOMAIN v.cmds = DOMAIN u.cmds \cup {b} /\ Grows(u, v) /\ b[1] # 1
      /\ NewTops(u, v) = {}
  BY <1>2, OneMore
<1> HIDE DEF v, a, b
<1>4. /\ NewTops(t, v) = IF p = Top THEN {a} ELSE {}
      /\ Grows(t, v)
      /\ p = Top => v.cmds[a] = c
  BY <1>1, <1>3, GrowsTwice
<1>5. Unshown(t, v)
  BY <1>1, <1>3, UnshownTwice DEF Unshown
<1>6. Extended(t, v, Head(n)) /\ Good(v)
  BY DEF v, u, Extended
<1>7. Mirror(v)
  BY <1>4, <1>5, <1>6, MirrorUnshown
<1>8. AddsOwn(t, v, n)
  BY <1>4, <1>6, <1>7 DEF AddsOwn
<1> QED BY <1>8 DEF v, u

LEMMA ParentTyped ==
  ASSUME NEW t, NEW n \in Nodes, NEW name, Good(t)
  PROVE  LET parent == FindParent(t, Top, n)
             c == Command(name, n, ModeUnder(t, parent, n))
         IN Good(Register(t, parent, c))
<1> DEFINE parent == FindParent(t, Top, n)
           c == Command(name, n, ModeUnder(t, parent, n))
<1>1. parent \in Parents(t, Head(n))
  BY FoundParent
<1>2. Typed(c) /\ c.hash = Head(n) /\ Head(n) \in Modules
  BY <1>1, ModeTyped, CommandTyped
<1> HIDE DEF c, parent
<1>3. Extended(t, Register(t, parent, c), Head(n))
  BY <1>1, <1>2, Registered
<1> QED BY <1>3 DEF c, parent, Extended

LEMMA ConfigAdds ==
  ASSUME NEW t, NEW n \in Nodes, NEW name, Good(t), Mirror(t), n \notin ReadOnly,
         Rooted(n) => name = CmdName(n)
  PROVE  AddsOwn(t, RegisterConfig(t, n, name), n)
<1> DEFINE parent == FindParent(t, Top, n)
           parent_no == OrElse(FindParent(t, No, n), No)
           c == Command(name, n, ModeUnder(t, parent, n))
<1>1. /\ parent \in DOMAIN t.cmds \cup {Top}
      /\ parent # Top => parent[1] # 1
      /\ parent_no \in DOMAIN t.cmds /\ parent_no # Top /\ parent_no[1] # 1
  BY ParentPlaces
<1>2. Extended(t, Register(Register(t, parent, c), parent_no, c), Head(n))
  BY ConfigRegistered DEF RegisterConfig
<1>3. Good(Register(t, parent, c))
  BY ParentTyped
<1>4. Rooted(n) => Own(c, n)
  BY DEF Own, Command
<1> HIDE DEF parent, parent_no, c
<1>5. AddsOwn(t, Register(Register(t, parent, c), parent_no, c), n)
  BY <1>1, <1>2, <1>3, <1>4, BothAdded
<1> QED BY <1>5 DEF RegisterConfig, parent, parent_no, c

LEMMA BelowTop ==
  ASSUME NEW n \in Nodes, ~IsTop(n)
  PROVE  CmdName(n) = PlainName(n)
BY DEF CmdName

LEMMA LeafAdds ==
  ASSUME NEW t, NEW n \in Nodes, Kind[n] # "container", Good(t), Mirror(t)
  PROVE  AddsOwn(t, RegisterLeaf(t, n), n)
<1>1. Rooted(n) => PlainName(n) = CmdName(n)
  BY BelowTop DEF Rooted
<1>2. AddsOwn(t, t, n)
  BY QuietSame, QuietAdds
<1>3. n \notin ReadOnly => AddsOwn(t, RegisterConfig(t, n, PlainName(n)), n)
  BY <1>1, ConfigAdds
<1> QED BY <1>2, <1>3 DEF RegisterLeaf

-----------------------------------------------------------------------------
(* Commands below show.                                                    *)

Shows == {ConfigCandidate, ConfigRunning, ConfigStartup, OperationalData}

LEMMA BaseFacts ==
  ASSUME NEW t, Good(t), NEW base \in Shows
  PROVE  base \in DOMAIN t.cmds /\ base \in Seq(Nat) /\ base # Top
         /\ \E x \in Nat : base = <<1, x>> /\ (base = ConfigCandidate <=> x = 2)
<1>1. base \in DOMAIN t.cmds
  BY DEF Shows, Good, HasFixed, FixedCommands
<1>2. \E x \in {2, 3, 4, 5} : base = <<1, x>> /\ (base = ConfigCandidate <=> x = 2)
  BY DEF Shows, ConfigCandidate, ConfigRunning, ConfigStartup, OperationalData
<1> QED BY <1>1, <1>2 DEF Top

(* A command found below one of them, and a new one below that.            *)
LEMMA FoundBelow ==
  ASSUME NEW t, Good(t), NEW base \in Shows, NEW k, NEW p \in Hits(t, base, k) \cup {base},
         NEW c
  PROVE  /\ p \in DOMAIN t.cmds /\ p # Top
         /\ base # ConfigCandidate => ~ IsPrefix(ConfigCandidate, NewUnder(t, p))
<1>1. PICK x \in Nat : base = <<1, x>> /\ (base = ConfigCandidate <=> x = 2)
  BY BaseFacts
<1>2. p \in DOMAIN t.cmds /\ p # Top
  BY BaseFacts DEF Hits, Good, Shape, Top
<1>3. p \in Seq(Nat) /\ Len(p) \in Nat
  BY <1>2 DEF Good, Shape
<1>4. IsPrefix(base, p)
  <2>1. ASSUME p = base PROVE IsPrefix(base, p)
    <3>1. Len(base) \in Nat /\ base \in Seq(Nat)
      BY BaseFacts
    <3> QED BY <2>1, <3>1 DEF IsPrefix
  <2> QED BY <2>1 DEF Hits, IsStrictPrefix
<1>5. Len(p) >= 2 /\ p[1] = 1 /\ p[2] = x
  BY <1>1, <1>3, <1>4, ShowPrefix
<1>6. /\ NewUnder(t, p) \in Seq(Nat) /\ NewUnder(t, p)[2] = x
  <2>1. t.next \in Nat /\ 2 \in 1..Len(p)
    BY <1>3, <1>5 DEF Good, Shape
  <2> QED BY <1>3, <1>5, <2>1, AppendFacts DEF NewUnder
<1>7. IsPrefix(ConfigCandidate, NewUnder(t, p)) => x = 2
  BY <1>6, ShowPrefix DEF ConfigCandidate
<1> QED BY <1>1, <1>2, <1>7

(* One command for n below what was found for its parent.                  *)
LEMMA ShowAdded ==
  ASSUME NEW t, Good(t), NEW base \in Shows, NEW n \in Nodes, NEW mode,
         NEW p, p = base \/ (~IsTop(n) /\ p \in Hits(t, base, Parent(n))),
         NEW c, c = Command(CmdName(n), n, mode), Typed(c)
  PROVE  LET u == Register(t, p, c)
         IN /\ Extended(t, u, Head(n)) /\ NewTops(t, u) = {}
            /\ Hits(u, base, n) # {}
            /\ NewUnder(t, p) \in DOMAIN u.cmds
            /\ DOMAIN u.cmds \ DOMAIN t.cmds = {NewUnder(t, p)}
            /\ u.cmds[NewUnder(t, p)] = c
            /\ \A r \in DOMAIN u.cmds \ DOMAIN t.cmds :
                 /\ u.cmds[r].model = n
                 /\ base # ConfigCandidate => ~ IsPrefix(ConfigCandidate, r)
<1> DEFINE u == Register(t, p, c)
           q == NewUnder(t, p)
<1>1. PICK x \in Nat : base = <<1, x>>
  BY BaseFacts
<1>2. ~IsTop(n) => Parent(n) \in Nodes /\ Head(Parent(n)) = Head(n)
  BY NodeFacts
<1>3. \E k \in Nodes : p \in Hits(t, base, k) \cup {base}
  BY <1>2
<1>4. /\ p \in DOMAIN t.cmds /\ p # Top
      /\ base # ConfigCandidate => ~ IsPrefix(ConfigCandidate, q)
  BY <1>3, FoundBelow
<1>5. q \in Hits(u, base, n)
  BY <1>1, <1>2, <1>4, HitAdded
<1>6. Builtin(t, p)
  <2>1. base \in Shown
    BY DEF Shows, Shown
  <2>2. Builtin(t, base)
    BY <2>1, FoundParent
  <2>3. PICK k \in Nodes : p \in Hits(t, base, k) \cup {base}
    BY <1>3
  <2>4. p \in DOMAIN t.cmds /\ p \in Seq(Nat) /\ p[1] = 1 /\ base[1] = 1
    <3>1. IsPrefix(base, p) \/ p = base
      BY <2>3 DEF Hits, IsStrictPrefix
    <3>2. p \in Seq(Nat)
      BY <1>4 DEF Good, Shape
    <3>3. base[1] = 1
      BY <1>1
    <3> QED BY <1>1, <1>4, <3>1, <3>2, <3>3, ShowPrefix
  <2> QED BY <2>2, <2>4 DEF Builtin, TopOf
<1>7. c.model = n /\ c.hash = Head(n) /\ Head(n) \in Modules
  BY NodeFacts DEF Command
<1>8. Extended(t, u, Head(n))
  BY <1>6, <1>7, Registered
<1>9. /\ q \notin DOMAIN t.cmds /\ DOMAIN u.cmds = DOMAIN t.cmds \cup {q} /\ u.cmds[q] = c
      /\ NewTops(t, u) = {}
  BY <1>4, OneMore
<1> HIDE DEF u, q
<1>10. DOMAIN u.cmds \ DOMAIN t.cmds = {q}
  BY <1>9
<1>11. Hits(u, base, n) # {}
  BY <1>5
<1>12. /\ Extended(t, u, Head(n)) /\ NewTops(t, u) = {}
       /\ Hits(u, base, n) # {}
       /\ q \in DOMAIN u.cmds
       /\ DOMAIN u.cmds \ DOMAIN t.cmds = {q}
       /\ u.cmds[q] = c
       /\ \A r \in DOMAIN u.cmds \ DOMAIN t.cmds :
            /\ u.cmds[r].model = n
            /\ base # ConfigCandidate => ~ IsPrefix(ConfigCandidate, r)
  BY <1>4, <1>7, <1>8, <1>9, <1>10, <1>11
<1> QED BY <1>12 DEF u, q

ShownBelow(t, u, base, n) ==
  /\ Extended(t, u, Head(n)) /\ NewTops(t, u) = {}
  /\ ~IsTop(n) /\ Hits(t, base, Parent(n)) # {} => Hits(u, base, n) # {}
  /\ \A r \in DOMAIN u.cmds \ DOMAIN t.cmds :
       /\ ~IsTop(n) /\ Hits(t, base, Parent(n)) # {} /\ u.cmds[r].model = n
       /\ base # ConfigCandidate => ~ IsPrefix(ConfigCandidate, r)

LEMMA ShownOnce ==
  ASSUME NEW t, Good(t), NEW base \in Shows, NEW n \in Nodes
  PROVE  ShownBelow(t, RegisterShown(t, base, n), base, n)
<1> DEFINE p == FindParentShow(t, base, n)
           c == Command(PlainName(n), n, MODE_ANY)
<1>1. /\ IsTop(n) \/ Hits(t, base, Parent(n)) = {} => p = Top
      /\ ~IsTop(n) /\ Hits(t, base, Parent(n)) # {} => p \in Hits(t, base, Parent(n)) /\ p # Top
  BY BaseFacts, SearchFinds DEF FindParentShow
<1>2. CASE IsTop(n) \/ Hits(t, base, Parent(n)) = {}
  <2>1. RegisterShown(t, base, n) = t
    BY <1>1, <1>2 DEF RegisterShown
  <2> QED BY <1>2, <2>1 DEF ShownBelow, Extended, Grows, NewTops
<1>3. CASE ~IsTop(n) /\ Hits(t, base, Parent(n)) # {}
  <2>1. CmdName(n) = PlainName(n)
    BY <1>3, BelowTop
  <2>2. Typed(c) /\ c = Command(CmdName(n), n, MODE_ANY)
    BY <2>1, CommandTyped
  <2>3. RegisterShown(t, base, n) = Register(t, p, c) /\ p \in Hits(t, base, Parent(n))
    BY <1>1, <1>3 DEF RegisterShown
  <2> HIDE DEF p, c
  <2>4. ShownBelow(t, Register(t, p, c), base, n)
    BY <1>3, <2>2, <2>3, ShowAdded DEF ShownBelow
  <2> QED BY <2>3, <2>4
<1> QED BY <1>2, <1>3

LEMMA BelowGood ==
  ASSUME NEW t, NEW u, NEW base, NEW n, ShownBelow(t, u, base, n)
  PROVE  Good(u) /\ Grows(t, u)
BY DEF ShownBelow, Extended

LEMMA ShownThree ==
  ASSUME NEW t, Good(t), Mirror(t), NEW n \in Nodes, NEW u, NEW v, NEW w,
         ShownBelow(t, u, ConfigCandidate, n),
         ShownBelow(u, v, ConfigRunning, n),
         ShownBelow(v, w, ConfigStartup, n)
  PROVE  Quiet(t, w, n)
<1>1. /\ Good(u) /\ Good(v) /\ Good(w)
      /\ Grows(t, u) /\ Grows(u, v) /\ Grows(v, w)
  BY BelowGood
<1>2. /\ ConfigCandidate \in Seq(Nat) /\ ConfigRunning \in Seq(Nat)
      /\ ConfigStartup \in Seq(Nat)
      /\ ConfigRunning # ConfigCandidate /\ ConfigStartup # ConfigCandidate
  BY DEF ConfigCandidate, ConfigRunning, ConfigStartup
<1>3. Grows(t, v) /\ Grows(t, w)
  BY <1>1, GrowsTwice
<1>4. Extended(t, w, Head(n)) /\ NewTops(t, w) = {}
  <2>1. Extended(t, v, Head(n)) /\ NewTops(t, v) = {}
    BY <1>1, ExtendedTwice, GrowsTwice DEF ShownBelow
  <2> QED BY <1>1, <1>3, <2>1, ExtendedTwice, GrowsTwice DEF ShownBelow
<1>5. ASSUME NEW p \in DOMAIN w.cmds \ DOMAIN t.cmds, IsPrefix(ConfigCandidate, p)
      PROVE  /\ w.cmds[p].model = n
             /\ ~IsTop(n) /\ Hits(t, ConfigCandidate, Parent(n)) # {}
  <2>1. p \in DOMAIN u.cmds
    BY <1>2, <1>5 DEF ShownBelow
  <2>2. w.cmds[p] = u.cmds[p]
    BY <1>1, <2>1 DEF Grows
  <2> QED BY <1>5, <2>1, <2>2 DEF ShownBelow
<1>6. ASSUME ~IsTop(n), Hits(t, ConfigCandidate, Parent(n)) # {}
      PROVE  Hits(w, ConfigRunning, n) # {} /\ Hits(w, ConfigStartup, n) # {}
  <2>1. Hits(t, ConfigRunning, Parent(n)) # {} /\ Hits(t, ConfigStartup, Parent(n)) # {}
    BY <1>6, NodeFacts DEF Mirror
  <2>2. Hits(u, ConfigRunning, Parent(n)) # {}
    BY <1>1, <1>2, <2>1, HitsGrow
  <2>3. Hits(v, ConfigStartup, Parent(n)) # {}
    BY <1>2, <1>3, <2>1, HitsGrow
  <2>4. Hits(v, ConfigRunning, n) # {} /\ Hits(w, ConfigStartup, n) # {}
    BY <1>6, <2>2, <2>3 DEF ShownBelow
  <2>5. Hits(w, ConfigRunning, n) # {}
    BY <1>1, <1>2, <2>4, HitsGrow
  <2> QED BY <2>4, <2>5
<1> DEFINE N == IF ~IsTop(n) /\ Hits(t, ConfigCandidate, Parent(n)) # {} THEN {n} ELSE {}
<1>7. \A p \in DOMAIN w.cmds \ DOMAIN t.cmds :
        IsPrefix(ConfigCandidate, p) => w.cmds[p].model \in N \/ w.cmds[p].hash = "diff"
  BY <1>5
<1>8. \A k \in N : Hits(w, ConfigRunning, k) # {} /\ Hits(w, ConfigStartup, k) # {}
  BY <1>6
<1> HIDE DEF N
<1>9. Mirror(w)
  BY <1>1, <1>3, <1>7, <1>8, MirrorWith
<1> QED BY <1>4, <1>9 DEF Quiet

(* A command below operational-data.                                       *)
LEMMA OperQuiet ==
  ASSUME NEW t, Good(t), Mirror(t), NEW n \in Nodes, NEW u,
         ShownBelow(t, u, OperationalData, n)
  PROVE  Quiet(t, u, n)
<1>1. Good(u) /\ Grows(t, u)
  BY BelowGood
<1>2. OperationalData # ConfigCandidate
  BY DEF OperationalData, ConfigCandidate
<1>3. Mirror(u)
  BY <1>1, <1>2, MirrorKept DEF ShownBelow
<1> QED BY <1>3 DEF Quiet, ShownBelow

LEMMA ListAdds ==
  ASSUME NEW t, NEW n \in Nodes, Kind[n] = "list", Good(t), Mirror(t)
  PROVE  AddsOwn(t, RegisterList(t, n), n)
<1> DEFINE o == IF HasOperChildren(n) THEN RegisterShown(t, OperationalData, n) ELSE t
           u == RegisterShown(o, ConfigCandidate, n)
           v == RegisterShown(u, ConfigRunning, n)
           w == RegisterShown(v, ConfigStartup, n)
<1>1. /\ OperationalData \in Shows /\ ConfigCandidate \in Shows
      /\ ConfigRunning \in Shows /\ ConfigStartup \in Shows
  BY DEF Shows
<1>2. Quiet(t, o, n)
  BY <1>1, QuietSame, ShownOnce, OperQuiet
<1>3. Good(o) /\ Mirror(o)
  BY <1>2 DEF Quiet, Extended
<1> HIDE DEF o
<1>4. ShownBelow(o, u, ConfigCandidate, n)
  BY <1>1, <1>3, ShownOnce
<1>5. Good(u)
  BY <1>4, BelowGood
<1> HIDE DEF u
<1>6. ShownBelow(u, v, ConfigRunning, n)
  BY <1>1, <1>5, ShownOnce
<1>7. Good(v)
  BY <1>6, BelowGood
<1> HIDE DEF v
<1>8. ShownBelow(v, w, ConfigStartup, n)
  BY <1>1, <1>7, ShownOnce
<1> HIDE DEF w
<1>9. Quiet(o, w, n)
  BY <1>3, <1>4, <1>6, <1>8, ShownThree
<1>10. Good(w) /\ Mirror(w)
  BY <1>9 DEF Quiet, Extended
<1>11. Rooted(n) => PlainName(n) = CmdName(n)
  BY BelowTop DEF Rooted
<1>12. n \notin ReadOnly => AddsOwn(w, RegisterConfig(w, n, PlainName(n)), n)
  BY <1>10, <1>11, ConfigAdds
<1>13. Quiet(t, w, n)
  BY <1>2, <1>9, QuietTwice
<1>14. n \notin ReadOnly => AddsOwn(t, RegisterConfig(w, n, PlainName(n)), n)
  BY <1>12, <1>13, QuietFirst
<1>15. n \in ReadOnly => AddsOwn(t, o, n)
  BY <1>2, QuietAdds
<1>16. RegisterList(t, n) = IF n \in ReadOnly THEN o ELSE RegisterConfig(w, n, PlainName(n))
  BY DEF RegisterList, o, u, v, w
<1> QED BY <1>14, <1>15, <1>16

LEMMA ShowContainerQuiet ==
  ASSUME NEW t, NEW n \in Nodes, Good(t), Mirror(t)
  PROVE  Quiet(t, RegisterShowContainer(t, n), n)
<1> DEFINE c == Command(CmdName(n), n, MODE_ANY)
           cand == FindParentShow(t, ConfigCandidate, n)
           p == OrElse(cand, ConfigCandidate)
           run == IF cand = Top THEN ConfigRunning ELSE FindParentShow(t, ConfigRunning, n)
           start == IF cand = Top THEN ConfigStartup ELSE FindParentShow(t, ConfigStartup, n)
           diff == [name |-> <<"diff">>, hash |-> "diff", mode |-> MODE_ANY, model |-> n]
           shown == NewUnder(t, p)
           u == Register(t, p, c)
           v == Register(u, run, c)
           w == Register(v, start, c)
           x == Register(w, shown, diff)
<1>1. /\ ConfigCandidate \in Shows /\ ConfigRunning \in Shows /\ ConfigStartup \in Shows
      /\ ConfigRunning # ConfigCandidate /\ ConfigStartup # ConfigCandidate
      /\ ConfigCandidate \in Seq(Nat) /\ ConfigRunning \in Seq(Nat)
      /\ ConfigStartup \in Seq(Nat)
  BY DEF Shows, ConfigCandidate, ConfigRunning, ConfigStartup
<1>2. Typed(c)
  BY CommandTyped
<1>3. x = RegisterShowContainer(t, n)
  BY DEF RegisterShowContainer
<1>4. Extended(t, x, Head(n))
  BY <1>3, ShowContainerRegistered
<1>5. /\ p = ConfigCandidate \/ (~IsTop(n) /\ p \in Hits(t, ConfigCandidate, Parent(n)))
      /\ run = ConfigRunning \/ (~IsTop(n) /\ run \in Hits(t, ConfigRunning, Parent(n)))
      /\ start = ConfigStartup \/ (~IsTop(n) /\ start \in Hits(t, ConfigStartup, Parent(n)))
  <2>1. CASE cand = Top
    BY <2>1 DEF OrElse
  <2>2. CASE cand # Top
    <3>1. ~IsTop(n) /\ cand = SearchCmds(t, ConfigCandidate, Parent(n))
      BY <2>2 DEF FindParentShow
    <3>2. cand \in Hits(t, ConfigCandidate, Parent(n))
      BY <2>2, <3>1, SearchResult
    <3>3. Parent(n) \in Nodes
      BY <3>1, NodeFacts
    <3>4. Hits(t, ConfigRunning, Parent(n)) # {} /\ Hits(t, ConfigStartup, Parent(n)) # {}
      BY <3>2, <3>3 DEF Mirror
    <3>5. /\ run = SearchCmds(t, ConfigRunning, Parent(n))
          /\ start = SearchCmds(t, ConfigStartup, Parent(n))
      BY <2>2, <3>1 DEF FindParentShow
    <3> HIDE DEF cand, run, start
    <3>6. run \in Hits(t, ConfigRunning, Parent(n)) /\ start \in Hits(t, ConfigStartup, Parent(n))
      BY <1>1, <3>4, <3>5, SearchFinds
    <3> QED BY <2>2, <3>1, <3>2, <3>6 DEF OrElse
  <2> QED BY <2>1, <2>2
<1>6. c = Command(CmdName(n), n, MODE_ANY)
  OBVIOUS
<1> HIDE DEF c, cand, p, run, start, diff
<1>7. /\ Extended(t, u, Head(n)) /\ NewTops(t, u) = {}
      /\ shown \in DOMAIN u.cmds
  BY <1>1, <1>2, <1>5, <1>6, ShowAdded
<1>8. /\ Good(u) /\ Grows(t, u)
      /\ shown \in DOMAIN u.cmds /\ NewTops(t, u) = {}
      /\ \A r \in DOMAIN u.cmds \ DOMAIN t.cmds : u.cmds[r].model = n
  BY <1>1, <1>2, <1>5, <1>6, <1>7, ShowAdded DEF Extended
<1>9. /\ run = ConfigRunning \/ (~IsTop(n) /\ run \in Hits(u, ConfigRunning, Parent(n)))
  BY <1>1, <1>5, <1>8, HitsGrow
<1> HIDE DEF u
<1>10. /\ Extended(u, v, Head(n)) /\ NewTops(u, v) = {}
       /\ Hits(v, ConfigRunning, n) # {}
       /\ \A r \in DOMAIN v.cmds \ DOMAIN u.cmds : ~ IsPrefix(ConfigCandidate, r)
  BY <1>1, <1>2, <1>6, <1>8, <1>9, ShowAdded
<1>11. Good(v) /\ Grows(u, v) /\ Grows(t, v)
  BY <1>8, <1>10, GrowsTwice DEF Extended
<1>12. /\ start = ConfigStartup \/ (~IsTop(n) /\ start \in Hits(v, ConfigStartup, Parent(n)))
  BY <1>1, <1>5, <1>11, HitsGrow
<1> HIDE DEF v
<1>13. /\ Extended(v, w, Head(n)) /\ NewTops(v, w) = {}
       /\ Hits(w, ConfigStartup, n) # {}
       /\ \A r \in DOMAIN w.cmds \ DOMAIN v.cmds : ~ IsPrefix(ConfigCandidate, r)
  BY <1>1, <1>2, <1>6, <1>11, <1>12, ShowAdded
<1>14. Good(w) /\ Grows(v, w) /\ Grows(t, w) /\ Grows(u, w)
  BY <1>11, <1>13, GrowsTwice DEF Extended
<1> HIDE DEF w
<1>15. shown \in DOMAIN w.cmds /\ shown # Top
  BY <1>8, <1>14 DEF Grows, Good, Shape, Top
<1> HIDE DEF shown
<1>16. /\ DOMAIN x.cmds = DOMAIN w.cmds \cup {NewUnder(w, shown)}
       /\ x.cmds[NewUnder(w, shown)] = diff /\ Grows(w, x) /\ NewTops(w, x) = {}
  BY <1>14, <1>15, OneMore
<1>17. diff.hash = "diff"
  BY DEF diff
<1> HIDE DEF x
<1>18. NewTops(t, x) = {}
  <2>1. NewTops(t, v) = {}
    BY <1>8, <1>10, <1>11, GrowsTwice
  <2>2. NewTops(t, w) = {}
    BY <1>11, <1>13, <1>14, <2>1, GrowsTwice
  <2> QED BY <1>14, <1>16, <2>2, GrowsTwice
<1>19. ASSUME NEW r \in DOMAIN x.cmds \ DOMAIN t.cmds, IsPrefix(ConfigCandidate, r)
       PROVE  x.cmds[r].model \in {n} \/ x.cmds[r].hash = "diff"
  <2>1. CASE r \in DOMAIN u.cmds
    <3>1. x.cmds[r] = u.cmds[r]
      BY <1>14, <1>16, <2>1 DEF Grows
    <3> QED BY <1>8, <2>1, <3>1
  <2>2. CASE r = NewUnder(w, shown)
    BY <1>16, <1>17, <2>2
  <2>3. CASE r \in DOMAIN w.cmds \ DOMAIN u.cmds
    BY <1>10, <1>13, <1>19, <2>3
  <2> QED BY <1>16, <2>1, <2>2, <2>3
<1>20. Hits(x, ConfigRunning, n) # {} /\ Hits(x, ConfigStartup, n) # {}
  <2>1. Hits(w, ConfigRunning, n) # {}
    BY <1>1, <1>10, <1>11, <1>14, HitsGrow
  <2> QED BY <1>1, <1>13, <1>14, <1>16, <2>1, HitsGrow
<1>21. Good(x) /\ Grows(t, x)
  BY <1>4 DEF Extended
<1>22. \A k \in {n} : Hits(x, ConfigRunning, k) # {} /\ Hits(x, ConfigStartup, k) # {}
  BY <1>20
<1>23. Mirror(x)
  BY <1>19, <1>21, <1>22, MirrorWith
<1> QED BY <1>3, <1>4, <1>18, <1>23 DEF Quiet

LEMMA ContainerAdds ==
  ASSUME NEW t, NEW n \in Nodes, Good(t), Mirror(t)
  PROVE  AddsOwn(t, RegisterContainer(t, n), n)
<1> DEFINE c == Command(CmdName(n), n, MODE_ANY)
           o == IF HasOperChildren(n) /\ IsTop(n) THEN Register(t, OperationalData, c) ELSE t
           u == IF HasListInParents(n) THEN o ELSE RegisterShowContainer(o, n)
<1>1. Quiet(t, o, n)
  <2>1. OperationalData \in Shows /\ OperationalData # ConfigCandidate
    BY DEF Shows, OperationalData, ConfigCandidate
  <2>2. Typed(c) /\ c = Command(CmdName(n), n, MODE_ANY)
    BY CommandTyped
  <2> HIDE DEF c
  <2> DEFINE r == Register(t, OperationalData, c)
  <2>3. /\ Extended(t, r, Head(n)) /\ NewTops(t, r) = {}
        /\ \A q \in DOMAIN r.cmds \ DOMAIN t.cmds : ~ IsPrefix(ConfigCandidate, q)
    BY <2>1, <2>2, ShowAdded
  <2> HIDE DEF r
  <2>4. Mirror(r)
    BY <2>3, MirrorKept DEF Extended
  <2>5. Quiet(t, r, n) /\ Quiet(t, t, n)
    BY <2>3, <2>4, QuietSame DEF Quiet
  <2> QED BY <2>5 DEF r
<1>2. Good(o) /\ Mirror(o)
  BY <1>1 DEF Quiet, Extended
<1> HIDE DEF o
<1>3. Quiet(o, u, n)
  BY <1>2, QuietSame, ShowContainerQuiet
<1>4. Good(u) /\ Mirror(u) /\ Quiet(t, u, n)
  BY <1>1, <1>3, QuietTwice DEF Quiet, Extended
<1> HIDE DEF u
<1>5. n \notin ReadOnly => AddsOwn(t, RegisterConfig(u, n, CmdName(n)), n)
  BY <1>4, ConfigAdds, QuietFirst
<1>6. AddsOwn(t, o, n)
  BY <1>1, QuietAdds
<1>7. RegisterContainer(t, n) = IF n \in ReadOnly \/ SharesName(n) THEN o
                                ELSE RegisterConfig(u, n, CmdName(n))
  BY DEF RegisterContainer, o, u, c
<1> QED BY <1>5, <1>6, <1>7

-----------------------------------------------------------------------------
(* Choices and print-order.                                                *)

FrameTop(k, f) ==
  /\ f.cmd = Top => Kind[k] = "choice" /\ k \notin ReadOnly
  /\ f.cmd # Top => f.cmd[1] # 1
  /\ f.no_cmd # Top /\ f.no_cmd[1] = 6

LEMMA BothAdds ==
  ASSUME NEW t, NEW n \in Nodes, NEW f, NEW k, Good(t), Mirror(t),
         FrameOK(t, f, Head(n)), FrameTop(k, f),
         f.cmd = Top => n \notin ReadOnly, Kind[n] # "container"
  PROVE  /\ AddsOwn(t, RegisterBoth(t, f, n), n)
         /\ FrameTop(n, FrameBelow(t, f, n))
<1> DEFINE c == Command(PlainName(n), n, f.mode)
<1>1. Typed(c) /\ c.hash = Head(n) /\ Head(n) \in Modules /\ c.model = n /\ c.name = PlainName(n)
  BY CommandTyped DEF FrameOK, Command
<1>2. f.cmd \in Parents(t, Head(n)) /\ Builtin(t, f.no_cmd)
  BY DEF FrameOK
<1>3. RegisterBoth(t, f, n) = Register(Register(t, f.cmd, c), f.no_cmd, c)
  BY DEF RegisterBoth
<1>4. Extended(t, RegisterBoth(t, f, n), Head(n))
  BY ChoiceRegistered
<1>5. /\ f.cmd \in DOMAIN t.cmds \cup {Top} /\ f.no_cmd \in DOMAIN t.cmds
      /\ f.cmd # Top => f.cmd[1] # 1
      /\ f.no_cmd # Top /\ f.no_cmd[1] = 6 /\ f.no_cmd[1] # 1
  BY <1>2 DEF Parents, Builtin, FrameTop
<1>6. f.cmd = Top /\ Rooted(n) => Own(c, n) /\ n \notin ReadOnly
  BY <1>1, BelowTop DEF Own, Rooted
<1> HIDE DEF c
<1>7. Good(Register(t, f.cmd, c))
  BY <1>1, <1>2, Registered DEF Extended
<1>8. AddsOwn(t, RegisterBoth(t, f, n), n)
  BY <1>3, <1>4, <1>5, <1>6, <1>7, BothAdded
<1>9. NewUnder(t, f.cmd) # Top /\ NewUnder(t, f.cmd)[1] # 1
  <2>1. f.cmd \in Seq(Nat)
    BY <1>5, EmptySeq DEF Good, Shape, Top
  <2>2. t.next \in Nat
    BY DEF Good, Shape
  <2>3. NewUnder(t, f.cmd) # <<>>
    BY <2>1, <2>2, AppendFacts DEF NewUnder
  <2>4. /\ Register(t, f.cmd, c).cmds[NewUnder(t, f.cmd)] = c
        /\ f.cmd # Top => NewUnder(t, f.cmd)[1] = f.cmd[1]
        /\ f.cmd = Top => NewUnder(t, f.cmd)[1] # 1
    BY <1>5, OneMore
  <2> QED BY <1>5, <2>3, <2>4 DEF Top
<1>10. Append(f.no_cmd, t.next + 1) # Top /\ Append(f.no_cmd, t.next + 1)[1] = 6
  <2>1. f.no_cmd \in Seq(Nat) /\ f.no_cmd # <<>>
    BY <1>5 DEF Good, Shape
  <2>2. t.next \in Nat
    BY DEF Good, Shape
  <2>3. t.next + 1 \in Nat
    BY <2>2
  <2> QED BY <1>5, <2>1, <2>3, AppendFacts DEF Top
<1> QED BY <1>8, <1>9, <1>10 DEF FrameTop, FrameBelow

LEMMA ChainQuiet ==
  ASSUME NEW t, NEW n \in Nodes, NEW p \in DOMAIN t.cmds, Good(t), Mirror(t), Len(p) = 1,
         p[1] # 1, t.cmds[p].name = <<"print-order">>,
         NEW mode \in {CONFIG_MODE, MODE_ANY} \cup Nodes
  PROVE  Quiet(t, RegisterChain(t, p, n, mode), n)
<1> DEFINE L == Len(n) - ChainStart(n) + 1
           new == {ChainPath(p, t.next, k) : k \in 1..L}
           u == RegisterChain(t, p, n, mode)
<1>1. DOMAIN u.cmds = DOMAIN t.cmds \cup new
  BY DEF RegisterChain, ChainPath
<1>2. p \in Seq(Nat) /\ t.next \in Nat /\ L \in Nat
  <2>1. p \in Seq(Nat) /\ t.next \in Nat
    BY DEF Good, Shape
  <2>2. ChainStart(n) \in 2..Len(n) /\ Len(n) \in Nat
    BY ChainStarts, NodeFacts
  <2> QED BY <2>1, <2>2
<1>3. Extended(t, u, Head(n))
  BY ChainRegistered
<1> HIDE DEF u, L
<1>4. ASSUME NEW q \in new PROVE Len(q) # 1 /\ q[1] # 1
  <2>1. PICK k \in 1..L : q = ChainPath(p, t.next, k)
    OBVIOUS
  <2>2. k \in Nat /\ k >= 1
    BY <1>2
  <2>3. Len(q) = k + 1 /\ q[1] = p[1]
    BY <1>2, <2>1, <2>2, ChainPaths
  <2> QED BY <2>2, <2>3
<1> HIDE DEF new
<1>5. NewTops(t, u) = {} /\ Unshown(t, u)
  BY <1>1, <1>4 DEF NewTops, Unshown
<1>6. Mirror(u)
  BY <1>3, <1>5, MirrorUnshown DEF Extended
<1> QED BY <1>3, <1>5, <1>6 DEF Quiet, u

LEMMA NotShow ==
  ASSUME NEW t, Good(t), NEW p \in DOMAIN t.cmds, Len(p) = 1
  PROVE  p = Show <=> p[1] = 1
<1>1. p = <<p[1]>>
  BY FreedBelow
<1> QED BY <1>1 DEF Show

LEMMA PrintOrderAdds ==
  ASSUME NEW s, NEW t, NEW n \in Nodes, AddsOwn(s, t, n), n \in UserOrdered, n \notin ReadOnly,
         NEW po \in DOMAIN t.cmds \cup {NULL, Freed}, PointerOK(t, po), po # Show,
         NEW mode \in {CONFIG_MODE, MODE_ANY} \cup Nodes
  PROVE  /\ Adds(s, RegisterPrintOrder(t, po, n, mode), n)
         /\ PrintOrderRoot(t, po, mode) # Show
<1> DEFINE v == WithPrintOrder(t, po, n, mode)
           root == PrintOrderRoot(t, po, mode)
           u == RegisterChain(v, root, n, mode)
           c == [name |-> <<"print-order">>, hash |-> Head(n), mode |-> mode, model |-> NULL]
<1>0. Good(t) /\ Mirror(t) /\ Extended(s, t, Head(n)) /\ Extended(t, t, Head(n)) /\ Grows(t, t)
  BY DEF AddsOwn, Extended, Grows
<1>1. /\ Extended(t, v, Head(n)) /\ Mirror(v)
      /\ root \in DOMAIN v.cmds /\ Len(root) = 1 /\ v.cmds[root].name = <<"print-order">>
      /\ root[1] # 1
      /\ NewTops(t, v) \subseteq {root}
      /\ NewTops(t, v) # {} => Order(v.cmds[root], n)
  <2>1. CASE Shared(t, po, mode)
    <3>1. v = t /\ root = po /\ po \in DOMAIN t.cmds
      BY <2>1 DEF WithPrintOrder, PrintOrderRoot, Shared
    <3>2. po[1] # 1
      BY <1>0, <3>1, NotShow DEF PointerOK
    <3> QED BY <1>0, <3>1, <3>2 DEF PointerOK, NewTops
  <2>2. CASE ~Shared(t, po, mode)
    <3>1. v = Register(t, Top, c) /\ root = NewUnder(t, Top)
      BY <2>2 DEF WithPrintOrder, PrintOrderRoot
    <3>2. Typed(c) /\ c.hash = Head(n) /\ Head(n) \in Modules /\ Order(c, n)
          /\ c.name = <<"print-order">>
      BY NodeFacts DEF Typed, Order
    <3>3. Top \in Parents(t, Head(n))
      BY DEF Parents
    <3> HIDE DEF c, v, root
    <3>4. Extended(t, v, Head(n)) /\ root \in DOMAIN v.cmds /\ v.cmds[root] = c
      BY <1>0, <3>1, <3>2, <3>3, Registered
    <3>5. /\ DOMAIN v.cmds = DOMAIN t.cmds \cup {root}
          /\ Len(root) = 1 /\ root[1] # 1 /\ NewTops(t, v) = {root}
      BY <1>0, <3>1, OneMore
    <3>6. Unshown(t, v)
      BY <3>5 DEF Unshown
    <3>7. Mirror(v)
      BY <1>0, <3>4, <3>6, MirrorUnshown DEF Extended
    <3> QED BY <3>2, <3>4, <3>5, <3>7
  <2> QED BY <2>1, <2>2
<1>2. RegisterPrintOrder(t, po, n, mode) = u
  BY DEF RegisterPrintOrder
<1> HIDE DEF v, root, u
<1>3. Quiet(v, u, n)
  BY <1>1, ChainQuiet DEF Extended, u
<1>4. Extended(s, v, Head(n)) /\ Extended(s, u, Head(n)) /\ Mirror(u)
  BY <1>0, <1>1, <1>3, ExtendedTwice DEF Quiet
<1>5. Grows(s, t) /\ Grows(t, v) /\ Grows(v, u) /\ Grows(s, v)
  BY <1>0, <1>1, <1>3, <1>4 DEF Extended, Quiet
<1>6. NewTops(s, u) = NewTops(s, t) \cup NewTops(t, v)
  <2>1. NewTops(s, v) = NewTops(s, t) \cup NewTops(t, v)
    BY <1>5, GrowsTwice
  <2>2. NewTops(s, u) = NewTops(s, v)
    BY <1>3, <1>5, GrowsTwice DEF Quiet
  <2> QED BY <2>1, <2>2
<1>7. ASSUME Rooted(n), NEW p \in NewTops(s, t) PROVE Own(u.cmds[p], n)
  <2>1. u.cmds[p] = t.cmds[p]
    BY <1>5 DEF Grows, NewTops
  <2> QED BY <1>7, <2>1 DEF AddsOwn
<1>8. ASSUME NEW p \in NewTops(t, v) PROVE p = root /\ Order(u.cmds[p], n)
  <2>1. p = root /\ Order(v.cmds[p], n) /\ p \in DOMAIN v.cmds
    BY <1>1 DEF NewTops
  <2> QED BY <1>5, <2>1 DEF Grows
<1>9. NULL # n
  BY SchemaAssumption
<1>10. ASSUME Rooted(n) PROVE \A p, q \in NewTops(s, t) : p = q
  BY <1>10 DEF AddsOwn
<1>11. ASSUME Rooted(n), NEW p \in NewTops(s, u), NEW q \in NewTops(s, u),
              u.cmds[p].model = u.cmds[q].model
       PROVE  p = q
  BY <1>6, <1>7, <1>8, <1>9, <1>10, <1>11 DEF Own, Order
<1>12. Adds(s, u, n)
  BY <1>4, <1>6, <1>7, <1>8, <1>11 DEF Adds
<1>13. root # Show
  BY <1>1 DEF Show
<1> QED BY <1>2, <1>12, <1>13 DEF root

LEMMA OwnAdds ==
  ASSUME NEW t, NEW u, NEW n, AddsOwn(t, u, n)
  PROVE  Adds(t, u, n)
BY DEF AddsOwn, Adds

-----------------------------------------------------------------------------
(* The walk over a module.                                                 *)

TopNodes(m, i) == {n \in {Data[m][j] : j \in 1..i} : IsTop(n)}

LEMMA TopNodesFinite ==
  ASSUME NEW m, NEW i \in Nat
  PROVE  IsFiniteSet(TopNodes(m, i)) /\ Cardinality(TopNodes(m, i)) \in Nat
<1> DEFINE S == {Data[m][j] : j \in 1..i}
<1>1. IsFiniteSet(1..i)
  BY FS_Interval
<1>2. IsFiniteSet(S)
  <2> DEFINE f == [j \in 1..i |-> Data[m][j]]
  <2>1. f \in Surjection(1..i, S)
    BY DEF Surjection
  <2> HIDE DEF f, S
  <2> QED BY <1>1, <2>1, FS_Surjection
<1>3. TopNodes(m, i) \subseteq S
  BY DEF TopNodes
<1> HIDE DEF S
<1>4. IsFiniteSet(TopNodes(m, i))
  BY <1>2, <1>3, FS_Subset
<1> QED BY <1>4, FS_CardinalityType

LEMMA ReachFacts ==
  ASSUME NEW m \in Modules, NEW k \in Nat
  PROVE  /\ Reach(m, k) = {i \in DOMAIN Data[m] : Cardinality(TopNodes(m, i)) <= k}
         /\ Reach(m, k) \subseteq DOMAIN Data[m]
         /\ DOMAIN Data[m] = 1..Len(Data[m]) /\ Len(Data[m]) \in Nat
         /\ \A i \in Reach(m, k) : \A j \in 1..i : j \in Reach(m, k)
<1>1. Reach(m, k) = {i \in DOMAIN Data[m] : Cardinality(TopNodes(m, i)) <= k}
  BY DEF Reach, TopNodes
<1>2. DOMAIN Data[m] = 1..Len(Data[m]) /\ Len(Data[m]) \in Nat
  <2>1. Data[m] \in Seq(Nodes)
    BY SchemaAssumption
  <2> QED BY <2>1, LenProperties
<1>3. ASSUME NEW i \in Reach(m, k), NEW j \in 1..i PROVE j \in Reach(m, k)
  <2>1. i \in Nat /\ j \in Nat /\ j <= i /\ j \in DOMAIN Data[m]
    BY <1>1, <1>2
  <2>2. TopNodes(m, j) \subseteq TopNodes(m, i)
    <3>1. 1..j \subseteq 1..i
      BY <2>1
    <3> QED BY <3>1 DEF TopNodes
  <2>3. Cardinality(TopNodes(m, j)) <= Cardinality(TopNodes(m, i))
    BY <2>1, <2>2, TopNodesFinite, FS_Subset
  <2>4. /\ Cardinality(TopNodes(m, j)) \in Nat /\ Cardinality(TopNodes(m, i)) \in Nat
        /\ Cardinality(TopNodes(m, i)) <= k
    BY <1>1, <2>1, TopNodesFinite
  <2>5. Cardinality(TopNodes(m, j)) <= k
    BY <2>3, <2>4
  <2> QED BY <1>1, <2>1, <2>5
<1> QED BY <1>1, <1>2, <1>3

LEMMA ReachLarger ==
  ASSUME NEW m \in Modules
  PROVE  Reach(m, 1) \subseteq Reach(m, 2)
<1>1. ASSUME NEW i \in Reach(m, 1) PROVE i \in Reach(m, 2)
  <2>1. i \in DOMAIN Data[m] /\ i \in Nat /\ Cardinality(TopNodes(m, i)) <= 1
    BY ReachFacts
  <2>2. Cardinality(TopNodes(m, i)) <= 2
    BY <2>1, TopNodesFinite
  <2> QED BY <2>1, <2>2, ReachFacts
<1> QED BY <1>1

(* The first node is the only root that the registration comes to.         *)
LEMMA FirstRoot ==
  ASSUME NEW m \in Modules, Data[m] # <<>>
  PROVE  /\ 1 \in Reach(m, 1) /\ 1 \in Reach(m, 2)
         /\ \A i \in Reach(m, 1) : IsTop(Data[m][i]) => i = 1
<1>1. Data[m] \in Seq(Nodes) /\ Len(Data[m]) \in Nat /\ DOMAIN Data[m] = 1..Len(Data[m])
  BY SchemaAssumption, ReachFacts
<1>2. 1 \in DOMAIN Data[m]
  <2>1. Len(Data[m]) # 0
    BY <1>1, EmptySeq
  <2> QED BY <1>1, <2>1
<1>3. IsTop(Data[m][1])
  <2>1. \A j \in 1..(1 - 1) : FALSE
    OBVIOUS
  <2>2. IsTop(Data[m][1]) \/ \E j \in 1..(1 - 1) : Data[m][j] = Parent(Data[m][1])
    BY <1>2, OrderAssumption
  <2> QED BY <2>1, <2>2
<1>4. 1 \in Reach(m, 1)
  <2> DEFINE x == Data[m][1]
  <2>1. TopNodes(m, 1) = {x}
    <3>1. 1..1 = {1}
      OBVIOUS
    <3> QED BY <1>3, <3>1 DEF TopNodes
  <2> HIDE DEF x
  <2>2. Cardinality({x}) = 1
    BY FS_Singleton
  <2>3. Cardinality(TopNodes(m, 1)) = 1
    BY <2>1, <2>2, Zenon
  <2>4. Cardinality(TopNodes(m, 1)) <= 1
    BY <2>3
  <2> QED BY <1>2, <2>4, ReachFacts
<1>5. ASSUME NEW i \in Reach(m, 1), IsTop(Data[m][i]), i # 1 PROVE FALSE
  <2> DEFINE x == Data[m][1]
             y == Data[m][i]
  <2>1. i \in DOMAIN Data[m] /\ i \in Nat /\ i >= 1 /\ Cardinality(TopNodes(m, i)) <= 1
    BY <1>1, ReachFacts
  <2>2. x # y
    BY <1>2, <1>5, <2>1, OrderAssumption DEF IsInjective
  <2>3. {x, y} \subseteq TopNodes(m, i)
    <3>1. 1 \in 1..i /\ i \in 1..i
      BY <2>1
    <3>2. \A j \in 1..i : IsTop(Data[m][j]) => Data[m][j] \in TopNodes(m, i)
      BY DEF TopNodes
    <3>3. x \in TopNodes(m, i) /\ y \in TopNodes(m, i)
      BY <1>3, <1>5, <3>1, <3>2, Zenon
    <3> QED BY <3>3
  <2> HIDE DEF x, y
  <2>4. Cardinality({x, y}) = 2
    <3>1. IsFiniteSet({x}) /\ Cardinality({x}) = 1 /\ y \notin {x} /\ {x, y} = {x} \cup {y}
      BY <2>2, FS_Singleton
    <3>2. Cardinality({x} \cup {y}) = Cardinality({x}) + 1
      BY <3>1, FS_AddElement
    <3> QED BY <3>1, <3>2
  <2>5. Cardinality({x, y}) <= Cardinality(TopNodes(m, i)) /\ Cardinality(TopNodes(m, i)) \in Nat
    BY <2>1, <2>3, TopNodesFinite, FS_Subset
  <2> QED BY <2>1, <2>4, <2>5
<1> QED BY <1>4, <1>5, ReachLarger

LEMMA WalkRooted ==
  ASSUME NEW m \in RootedInContainer, NEW i \in Reach(m, 1)
  PROVE  m \in Modules /\ Rooted(Data[m][i])
BY FirstRoot DEF RootedInContainer, Rooted

-----------------------------------------------------------------------------
(* Counting: each command of the top level has a place among the nodes     *)
(* that are still to be removed.                                           *)

Tops(t, m) == {p \in DOMAIN t.cmds : Len(p) = 1 /\ t.cmds[p].hash = m}

(* A node has a command of its own and may have a print-order.             *)
SlotName(m, s) == IF s[2] = "own" THEN CmdName(Data[m][s[1]]) ELSE <<"print-order">>

Slots(m, J) ==
  {s \in J \X {"own", "order"} :
     /\ Data[m][s[1]] \notin ReadOnly
     /\ s[2] = "order" => Data[m][s[1]] \in UserOrdered}

Matches(t, m, S, f) ==
  /\ f \in [Tops(t, m) -> S]
  /\ \A p, q \in Tops(t, m) : f[p] = f[q] => p = q
  /\ \A p \in Tops(t, m) : t.cmds[p].name = SlotName(m, f[p])

(* The place is that of its node.                                          *)
Fits(t, m, f) ==
  \A p \in Tops(t, m) :
    t.cmds[p].model = NULL \/ (f[p][2] = "own" /\ t.cmds[p].model = Data[m][f[p][1]])

SameTops(t, u, m) ==
  /\ Tops(t, m) = Tops(u, m)
  /\ \A p \in Tops(t, m) : u.cmds[p].name = t.cmds[p].name

LEMMA MatchesSame ==
  ASSUME NEW t, NEW u, NEW m, NEW S, NEW f, SameTops(t, u, m), Matches(t, m, S, f)
  PROVE  Matches(u, m, S, f)
BY DEF SameTops, Matches

LEMMA MatchesMore ==
  ASSUME NEW t, NEW m, NEW S, NEW R, S \subseteq R, NEW f, Matches(t, m, S, f)
  PROVE  Matches(t, m, R, f)
BY DEF Matches

LEMMA SlotsMore ==
  ASSUME NEW m, NEW J, NEW K, J \subseteq K
  PROVE  Slots(m, J) \subseteq Slots(m, K)
BY DEF Slots

LEMMA LeastExists ==
  ASSUME NEW S, S \subseteq Nat, S # {}
  PROVE  \E k \in S : \A j \in S : k <= j
<1> DEFINE R == {ss \in Nat \X Nat : ss[1] < ss[2]}
<1>1. IsWellFoundedOn(R, Nat)
  BY NatLessThanWellFounded, Zenon DEF OpToRel
<1>2. \E x \in S : \A y \in S : <<y, x>> \notin R
  <2> HIDE DEF R
  <2> QED BY <1>1, WFMin, Zenon
<1>3. PICK x \in S : \A y \in S : <<y, x>> \notin R
  BY <1>2
<1>4. ASSUME NEW y \in S PROVE x <= y
  <2>1. x \in Nat /\ y \in Nat /\ <<y, x>> \notin R
    BY <1>3
  <2>2. ~ (y < x)
    BY <2>1
  <2> HIDE DEF R
  <2> QED BY <2>1, <2>2
<1> QED BY <1>4

(* What is freed had the name of a place: it or another of its name.       *)
LEMMA Exchange ==
  ASSUME NEW t, NEW m \in Modules, NEW S, NEW s \in S, NEW f, Good(t), Matches(t, m, S, f)
  PROVE  \E g : Matches(Unregister(t, SlotName(m, s), m), m, S \ {s}, g)
<1> DEFINE w == SlotName(m, s)
           T == Tops(t, m)
           N == Named(t, w, m)
           First(p) == \A q \in N : p[1] <= q[1]
<1>1. N = {p \in T : t.cmds[p].name = w}
  BY DEF Named, Tops
<1>2. /\ f \in [T -> S] /\ \A p, q \in T : f[p] = f[q] => p = q
      /\ \A p \in T : t.cmds[p].name = SlotName(m, f[p])
  BY DEF Matches
<1>3. Unregister(t, w, m) = IF \E p \in N : First(p)
                            THEN FreeCommand(t, CHOOSE p \in N : First(p)) ELSE t
  BY DEF Unregister
<1>4. CASE N = {}
  <2>1. Unregister(t, w, m) = t
    BY <1>3, <1>4
  <2>2. \A p \in T : f[p] # s
    BY <1>1, <1>2, <1>4
  <2>3. f \in [T -> S \ {s}]
    BY <1>2, <2>2
  <2>4. Matches(t, m, S \ {s}, f)
    BY <1>2, <2>3 DEF Matches
  <2> QED BY <2>1, <2>4
<1>5. CASE N # {}
  <2>1. \E p \in N : First(p)
    <3> DEFINE K == {p[1] : p \in N}
    <3>1. \A p \in N : p \in Seq(Nat) /\ p[1] \in Nat
      <4>1. ASSUME NEW p \in N PROVE p \in Seq(Nat) /\ p[1] \in Nat
        <5>1. p \in DOMAIN t.cmds /\ Len(p) = 1
          BY DEF Named
        <5>2. p \in Seq(Nat)
          BY <5>1 DEF Good, Shape
        <5> QED BY <5>1, <5>2
      <4> QED BY <4>1
    <3>2. K \subseteq Nat /\ K # {}
      BY <1>5, <3>1
    <3>3. PICK k \in K : \A j \in K : k <= j
      <4> HIDE DEF K, N
      <4> QED BY <3>2, LeastExists
    <3> QED BY <3>3
  <2> DEFINE r == CHOOSE p \in N : First(p)
             u == FreeCommand(t, r)
             V == T \ {r}
             g == [q \in V |-> IF f[q] = s THEN f[r] ELSE f[q]]
  <2>2. Unregister(t, w, m) = u
    BY <1>3, <2>1
  <2>3. r \in N
    BY <2>1
  <2> HIDE DEF r, N, First
  <2>4. r \in T /\ t.cmds[r].name = w /\ r \in DOMAIN t.cmds /\ Len(r) = 1
    BY <1>1, <2>3 DEF Tops
  <2>5. /\ DOMAIN u.cmds = {c \in DOMAIN t.cmds : ~IsPrefix(r, c)}
        /\ \A q \in DOMAIN u.cmds : u.cmds[q] = t.cmds[q]
    BY DEF FreeCommand
  <2>6. ASSUME NEW q \in DOMAIN t.cmds, Len(q) = 1 PROVE IsPrefix(r, q) <=> q = r
    <3>1. r = <<r[1]>> /\ (IsPrefix(r, q) <=> q[1] = r[1])
      BY <2>4, FreedBelow
    <3>2. q = <<q[1]>>
      BY <2>6, FreedBelow
    <3> QED BY <3>1, <3>2
  <2> HIDE DEF u
  <2>7. Tops(u, m) = V
    BY <2>5, <2>6 DEF Tops
  <2> HIDE DEF T, w
  <2>8. ASSUME NEW q \in V PROVE g[q] \in S \ {s}
    BY <1>2, <2>4
  <2>9. ASSUME NEW p \in V, NEW q \in V, g[p] = g[q] PROVE p = q
    BY <1>2, <2>4, <2>9
  <2>10. ASSUME NEW q \in V PROVE u.cmds[q].name = SlotName(m, g[q])
    <3>1. u.cmds[q] = t.cmds[q]
      BY <2>5, <2>7 DEF Tops
    <3>2. t.cmds[q].name = SlotName(m, f[q]) /\ t.cmds[r].name = SlotName(m, f[r])
      BY <1>2, <2>4
    <3>3. f[q] = s => t.cmds[q].name = w
      BY <3>2 DEF w
    <3> QED BY <2>4, <3>1, <3>2, <3>3
  <2>11. g \in [V -> S \ {s}]
    BY <2>8
  <2> HIDE DEF g, V
  <2>12. Matches(u, m, S \ {s}, g)
    BY <2>7, <2>9, <2>10, <2>11 DEF Matches
  <2> QED BY <2>2, <2>12 DEF w
<1> QED BY <1>4, <1>5

(* The removal of a node gives up its places.                              *)
LEMMA NodeGone ==
  ASSUME NEW t, NEW n \in Nodes, NEW a, NEW J, a \in J, n = Data[Head(n)][a], Good(t),
         n \notin ReadOnly, NEW f, Matches(t, Head(n), Slots(Head(n), J), f)
  PROVE  \E g : Matches(WithoutNode(t, n), Head(n), Slots(Head(n), J \ {a}), g)
<1> DEFINE m == Head(n)
           S == Slots(m, J)
           own == <<a, "own">>
           order == <<a, "order">>
           u == IF n \in UserOrdered THEN Unregister(t, <<"print-order">>, m) ELSE t
           R == IF n \in UserOrdered THEN S \ {order} ELSE S
<1>1. m \in Modules
  BY NodeFacts
<1>2. own \in S /\ (order \in S <=> n \in UserOrdered) /\ own # order
  BY DEF Slots
<1>3. SlotName(m, own) = CmdName(n) /\ SlotName(m, order) = <<"print-order">>
  BY DEF SlotName
<1>4. R \ {own} = Slots(m, J \ {a})
  <2>1. ASSUME NEW s \in R \ {own} PROVE s \in Slots(m, J \ {a})
    <3>1. s \in S /\ s # own /\ s # order
      BY <1>2
    <3> QED BY <3>1 DEF Slots
  <2>2. ASSUME NEW s \in Slots(m, J \ {a}) PROVE s \in R \ {own}
    <3>1. s \in S /\ s[1] # a
      BY DEF Slots
    <3> QED BY <3>1
  <2> QED BY <2>1, <2>2
<1> HIDE DEF S, own, order
<1>5. Good(u) /\ \E g : Matches(u, m, R, g)
  <2>1. CASE n \in UserOrdered
    <3>1. u = Unregister(t, SlotName(m, order), m) /\ R = S \ {order} /\ order \in S
      BY <1>2, <1>3, <2>1
    <3>2. \E g : Matches(Unregister(t, SlotName(m, order), m), m, S \ {order}, g)
      BY <1>1, <3>1, Exchange DEF S
    <3>3. Good(u)
      BY <1>1, <2>1, Unregistered
    <3> QED BY <3>1, <3>2, <3>3
  <2>2. CASE n \notin UserOrdered
    BY <2>2 DEF S
  <2> QED BY <2>1, <2>2
<1>6. WithoutNode(t, n) = Unregister(u, SlotName(m, own), m) /\ own \in R
  BY <1>2, <1>3 DEF WithoutNode
<1> HIDE DEF u, R, m
<1>7. PICK g : Matches(u, m, R, g)
  BY <1>5
<1>8. \E h : Matches(Unregister(u, SlotName(m, own), m), m, R \ {own}, h)
  BY <1>1, <1>5, <1>6, <1>7, Exchange
<1> QED BY <1>4, <1>6, <1>8 DEF m

(* The registration of a node takes them.                                  *)
LEMMA NodeAdded ==
  ASSUME NEW t, NEW u, NEW n \in Nodes, NEW a, NEW J, a \notin J, n = Data[Head(n)][a],
         Adds(t, u, n), Rooted(n), NEW f,
         Matches(t, Head(n), Slots(Head(n), J), f), Fits(t, Head(n), f)
  PROVE  \E g : /\ Matches(u, Head(n), Slots(Head(n), J \cup {a}), g)
                /\ Fits(u, Head(n), g)
<1> DEFINE m == Head(n)
           S == Slots(m, J)
           K == J \cup {a}
           R == Slots(m, K)
           own == <<a, "own">>
           order == <<a, "order">>
           T == Tops(t, m)
           N == NewTops(t, u)
           g == [p \in Tops(u, m) |-> IF p \in T THEN f[p]
                                      ELSE IF u.cmds[p].model = n THEN own ELSE order]
<1>1. /\ Tops(u, m) = T \cup N /\ T \cap N = {}
      /\ \A p \in T : u.cmds[p] = t.cmds[p]
  BY DEF Adds, Extended, Grows, Tops, NewTops
<1>2. /\ f \in [T -> S] /\ \A p, q \in T : f[p] = f[q] => p = q
      /\ \A p \in T : t.cmds[p].name = SlotName(m, f[p])
  BY DEF Matches
<1>3. /\ \A p \in N : n \notin ReadOnly /\ (Own(u.cmds[p], n) \/ Order(u.cmds[p], n))
      /\ \A p, q \in N : u.cmds[p].model = u.cmds[q].model => p = q
  BY DEF Adds
<1>4. SlotName(m, own) = CmdName(n) /\ SlotName(m, order) = <<"print-order">>
      /\ own[1] = a /\ own[2] = "own" /\ own # order /\ a \in K
  BY DEF SlotName
<1>5. S \subseteq R /\ own \notin S /\ order \notin S
  BY DEF Slots
<1>6. (n \notin ReadOnly => own \in R) /\ (n \notin ReadOnly /\ n \in UserOrdered => order \in R)
  <2> HIDE DEF K
  <2> QED BY <1>4 DEF Slots
<1>7. NULL # n
  BY SchemaAssumption
<1>8. /\ \A p \in T : g[p] = f[p]
      /\ \A p \in N : g[p] = IF u.cmds[p].model = n THEN own ELSE order
      /\ DOMAIN g = T \cup N
  BY <1>1
<1> HIDE DEF g, T, N, S, R, own, order, K
<1>9. ASSUME NEW p \in N
      PROVE  \/ g[p] = own /\ own \in R /\ u.cmds[p].name = CmdName(n) /\ u.cmds[p].model = n
             \/ g[p] = order /\ order \in R /\ u.cmds[p].name = <<"print-order">>
                /\ u.cmds[p].model = NULL
  BY <1>3, <1>6, <1>7, <1>8 DEF Own, Order
<1>10. g \in [T \cup N -> R]
  <2>1. \A p \in T \cup N : g[p] \in R
    BY <1>2, <1>5, <1>8, <1>9
  <2>2. g = [p \in Tops(u, m) |-> g[p]]
    BY DEF g
  <2> QED BY <1>1, <2>1, <2>2
<1>11. ASSUME NEW p \in T \cup N, NEW q \in T \cup N, g[p] = g[q] PROVE p = q
  <2>1. CASE p \in T /\ q \in T
    BY <1>2, <1>8, <1>11, <2>1
  <2>2. CASE p \in N /\ q \in N
    BY <1>3, <1>4, <1>9, <1>11, <2>2
  <2>3. \A x \in T, y \in N : g[x] # g[y]
    BY <1>2, <1>5, <1>8, <1>9
  <2> QED BY <1>11, <2>1, <2>2, <2>3
<1>12. ASSUME NEW p \in T \cup N PROVE u.cmds[p].name = SlotName(m, g[p])
  BY <1>1, <1>2, <1>4, <1>8, <1>9
<1>13. Matches(u, m, R, g)
  BY <1>1, <1>10, <1>11, <1>12 DEF Matches
<1>14. ASSUME NEW p \in T \cup N
       PROVE  u.cmds[p].model = NULL
              \/ (g[p][2] = "own" /\ u.cmds[p].model = Data[m][g[p][1]])
  <2>1. CASE p \in T
    BY <1>1, <1>8, <2>1 DEF Fits, T
  <2>2. CASE p \in N
    BY <1>4, <1>9, <2>2
  <2> QED BY <2>1, <2>2
<1>15. Fits(u, m, g)
  BY <1>1, <1>14 DEF Fits
<1> QED BY <1>13, <1>15 DEF R, K

LEMMA MirrorShrinks ==
  ASSUME NEW t, NEW u, NEW m \in Modules, Good(t), Good(u), Shrinks(t, u, m), Mirror(t)
  PROVE  Mirror(u)
<1>1. Grows(u, t)
  BY DEF Shrinks, Grows
<1>2. ASSUME NEW x \in Nat, NEW n \in Nodes PROVE Hits(t, <<1, x>>, n) \subseteq Hits(u, <<1, x>>, n)
  <2>1. ASSUME NEW p \in Hits(t, <<1, x>>, n) PROVE p \in DOMAIN u.cmds
    <3>1. p \in DOMAIN t.cmds /\ IsPrefix(<<1, x>>, p)
      BY DEF Hits, IsStrictPrefix
    <3>2. p \in Seq(Nat)
      BY <3>1 DEF Good, Shape
    <3>3. p[1] = 1
      BY <3>1, <3>2, ShowPrefix
    <3>4. TopOf(t, p).hash = NoHash
      BY <3>3 DEF TopOf, Good, HasFixed, Show
    <3> QED BY <3>1, <3>4, SchemaAssumption DEF Shrinks
  <2>2. <<1, x>> \in Seq(Nat)
    OBVIOUS
  <2> QED BY <1>1, <2>1, <2>2, HitsGrow
<1>3. ASSUME NEW n \in Nodes, Hits(u, ConfigCandidate, n) # {}
      PROVE  Hits(u, ConfigRunning, n) # {} /\ Hits(u, ConfigStartup, n) # {}
  <2>1. ConfigCandidate \in Seq(Nat)
    BY DEF ConfigCandidate
  <2>2. Hits(t, ConfigCandidate, n) # {}
    BY <1>1, <1>3, <2>1, HitsGrow
  <2>3. Hits(t, ConfigRunning, n) # {} /\ Hits(t, ConfigStartup, n) # {}
    BY <2>2 DEF Mirror
  <2> QED BY <1>2, <2>3 DEF ConfigRunning, ConfigStartup
<1> QED BY <1>3 DEF Mirror

-----------------------------------------------------------------------------
(* The invariant.                                                          *)

(* The nodes of m whose commands may be at the top level: those that the   *)
(* removal has not come to, or those that are registered again.            *)
LeftOf(q, ph, a, m) ==
  IF q # <<>> /\ m = Head(q)
  THEN IF ph = "unregister" THEN {j \in Reach(m, 2) : j >= a} ELSE {j \in Reach(m, 1) : j < a}
  ELSE Reach(m, 2)

(* The commands of m are of the present context.                           *)
SureOf(q, ph, l, m) == m \in l \/ (q # <<>> /\ m = Head(q) /\ ph = "register")

Counted(t, q, ph, a, l, m) ==
  \E f : /\ Matches(t, m, Slots(m, LeftOf(q, ph, a, m)), f)
         /\ SureOf(q, ph, l, m) => Fits(t, m, f)

TopInv ==
  /\ loaded \cap Range(queue) = {}
  /\ ~Idle /\ Data[Head(queue)] # <<>> =>
       at \in Reach(Head(queue), IF phase = "register" THEN 1 ELSE 2)
  /\ Mirror(tree) /\ print_order # Show
  /\ ~Idle /\ phase = "register" => \A k \in DOMAIN frame : FrameTop(k, frame[k])
  /\ \A m \in RootedInContainer : Counted(tree, queue, phase, at, loaded, m)

LEMMA RootedModules == \A m \in RootedInContainer : m \in Modules /\ Data[m] # <<>>
BY DEF RootedInContainer

LEMMA LeftAll ==
  ASSUME NEW m \in Modules, NEW q, NEW ph, NEW a
  PROVE  /\ q = <<>> \/ m # Head(q) \/ (ph = "unregister" /\ a = 1)
              => LeftOf(q, ph, a, m) = Reach(m, 2)
         /\ LeftOf(q, ph, a, m) \subseteq Reach(m, 2)
<1>1. \A j \in Reach(m, 2) : j >= 1
  BY ReachFacts
<1>2. Reach(m, 1) \subseteq Reach(m, 2)
  BY ReachLarger
<1>3. {j \in Reach(m, 2) : j >= 1} = Reach(m, 2)
  BY <1>1
<1> QED BY <1>2, <1>3 DEF LeftOf

LEMMA CountedNone ==
  ASSUME NEW t, NEW q, NEW ph, NEW a, NEW l, NEW m, Tops(t, m) = {}
  PROVE  Counted(t, q, ph, a, l, m)
<1> DEFINE f == [p \in {} |-> 0]
           S == Slots(m, LeftOf(q, ph, a, m))
<1>1. f \in [Tops(t, m) -> S]
  <2> HIDE DEF S
  <2> QED OBVIOUS
<1> HIDE DEF f, S
<1>2. Matches(t, m, S, f) /\ Fits(t, m, f)
  BY <1>1 DEF Matches, Fits
<1> QED BY <1>2 DEF Counted, S

(* Nothing about m has changed that narrows its places.                    *)
LEMMA CountedKept ==
  ASSUME NEW t, NEW q, NEW ph, NEW a, NEW l, NEW m, Counted(t, q, ph, a, l, m),
         NEW u, NEW qq, NEW phh, NEW aa, NEW ll, SameTops(t, u, m),
         LeftOf(q, ph, a, m) \subseteq LeftOf(qq, phh, aa, m),
         SureOf(qq, phh, ll, m) =>
           /\ SureOf(q, ph, l, m)
           /\ \A p \in Tops(t, m) : u.cmds[p] = t.cmds[p]
  PROVE  Counted(u, qq, phh, aa, ll, m)
<1>1. PICK f : /\ Matches(t, m, Slots(m, LeftOf(q, ph, a, m)), f)
               /\ SureOf(q, ph, l, m) => Fits(t, m, f)
  BY DEF Counted
<1>2. Matches(u, m, Slots(m, LeftOf(qq, phh, aa, m)), f)
  BY <1>1, MatchesSame, MatchesMore, SlotsMore
<1>3. SureOf(qq, phh, ll, m) => Fits(u, m, f)
  BY <1>1 DEF SameTops, Fits
<1> QED BY <1>2, <1>3 DEF Counted

LEMMA FixedTops == Mirror(FixedTree) /\ \A m \in Modules : Tops(FixedTree, m) = {}
<1>1. \A m \in Modules : Tops(FixedTree, m) = {}
  BY FixedAbsent DEF Absent, Tops
<1>2. \A p \in DOMAIN FixedTree.cmds : FixedTree.cmds[p].model = NULL
  BY DEF FixedTree, FixedCommands
<1>3. \A n \in Nodes : Hits(FixedTree, ConfigCandidate, n) = {}
  <2>1. NULL \notin Nodes
    BY SchemaAssumption
  <2> QED BY <1>2, <2>1 DEF Hits
<1> QED BY <1>1, <1>3 DEF Mirror

LEMMA NullNotShow == NULL # Show /\ Freed # Show
<1>1. Show \in Seq(Nat)
  BY DEF Show
<1> QED BY <1>1, SchemaAssumption

LEMMA InitTop == Init => TopInv
<1> SUFFICES ASSUME Init PROVE TopInv
  OBVIOUS
<1>1. tree = FixedTree /\ print_order = NULL /\ queue = <<>> /\ loaded = {} /\ Idle
  BY DEF Init, Idle
<1>2. \A m \in RootedInContainer : Counted(tree, queue, phase, at, loaded, m)
  BY <1>1, RootedModules, FixedTops, CountedNone
<1> QED BY <1>1, <1>2, FixedTops, NullNotShow DEF TopInv

LEMMA StartTop == Start => TopInv'
<1> SUFFICES ASSUME Start PROVE TopInv'
  OBVIOUS
<1>1. tree' = FixedTree /\ print_order' = NULL /\ queue' = <<>> /\ loaded' = {} /\ Idle'
  BY DEF Start, Idle
<1>2. \A m \in RootedInContainer : Counted(tree', queue', phase', at', loaded', m)
  BY <1>1, RootedModules, FixedTops, CountedNone
<1> QED BY <1>1, <1>2, FixedTops, NullNotShow DEF TopInv

LEMMA LoadModulesTop == IInv /\ TopInv /\ LoadModules => TopInv'
<1> SUFFICES ASSUME IInv, TopInv, LoadModules PROVE TopInv'
  OBVIOUS
<1>1. /\ queue = <<>> /\ queue' = installed /\ phase' = "unregister" /\ at' = 1
      /\ loaded' = {} /\ UNCHANGED <<tree, print_order, frame>>
  BY DEF LoadModules, Idle
<1>2. installed \in Seq(Modules)
  BY DEF IInv, WalkOK
<1>3. ASSUME NEW m \in RootedInContainer
      PROVE  Counted(tree', queue', phase', at', loaded', m)
  <2>1. m \in Modules
    BY RootedModules
  <2>2. LeftOf(queue, phase, at, m) \subseteq LeftOf(queue', phase', at', m)
    BY <1>1, <2>1, LeftAll
  <2>3. ~ SureOf(queue', phase', loaded', m)
    BY <1>1 DEF SureOf
  <2>4. SameTops(tree, tree', m)
    BY <1>1 DEF SameTops
  <2>5. Counted(tree, queue, phase, at, loaded, m)
    BY DEF TopInv
  <2> QED BY <2>2, <2>3, <2>4, <2>5, CountedKept
<1>4. ASSUME ~Idle', Data[Head(queue')] # <<>>
      PROVE  at' \in Reach(Head(queue'), 2)
  <2>1. Head(queue') \in Modules
    BY <1>1, <1>2, <1>4 DEF Idle
  <2> QED BY <1>1, <1>4, <2>1, FirstRoot
<1> QED BY <1>1, <1>3, <1>4 DEF TopInv

LEMMA SkipModuleTop == IInv /\ FirstInv /\ TopInv /\ SkipModule => TopInv'
<1> SUFFICES ASSUME IInv, FirstInv, TopInv, SkipModule PROVE TopInv'
  OBVIOUS
<1>1. /\ queue # <<>> /\ ~Idle /\ queue' = Tail(queue) /\ phase = "unregister"
      /\ phase' = "unregister" /\ loaded' = loaded \cup {Head(queue)}
      /\ Data[Head(queue)] = <<>>
      /\ UNCHANGED <<tree, print_order, frame, at>>
  BY DEF SkipModule, Idle
<1>2. at = 1
  <2>1. DOMAIN Data[Head(queue)] = {}
    BY <1>1, EmptySeq
  <2> QED BY <1>1, <2>1 DEF IInv, WalkOK
<1>3. Tail(queue) \in Seq(Modules)
  BY <1>1, QueueFacts DEF IInv
<1>4. loaded' \cap Range(queue') = {}
  BY <1>1, QueueTail DEF TopInv
<1>5. ASSUME NEW m \in RootedInContainer
      PROVE  Counted(tree', queue', phase', at', loaded', m)
  <2>1. m \in Modules /\ m # Head(queue)
    BY <1>1, RootedModules
  <2>2. LeftOf(queue, phase, at, m) \subseteq LeftOf(queue', phase', at', m)
    BY <1>1, <1>2, <2>1, LeftAll
  <2>3. SureOf(queue', phase', loaded', m) => SureOf(queue, phase, loaded, m)
    BY <1>1, <2>1 DEF SureOf
  <2>4. SameTops(tree, tree', m) /\ \A p \in Tops(tree, m) : tree'.cmds[p] = tree.cmds[p]
    BY <1>1 DEF SameTops
  <2>5. Counted(tree, queue, phase, at, loaded, m)
    BY DEF TopInv
  <2> QED BY <2>2, <2>3, <2>4, <2>5, CountedKept
<1>6. ASSUME ~Idle', Data[Head(queue')] # <<>>
      PROVE  at' \in Reach(Head(queue'), 2)
  <2>1. Head(queue') \in Modules
    BY <1>1, <1>3, <1>6 DEF Idle
  <2> QED BY <1>1, <1>2, <1>6, <2>1, FirstRoot
<1> QED BY <1>1, <1>4, <1>5, <1>6 DEF TopInv

LEMMA NewContextTop ==
  ASSUME IInv, TopInv, Idle, NewContext
  PROVE  TopInv'
<1>1. /\ queue = <<>> /\ queue' = <<>> /\ loaded' = {} /\ Idle'
      /\ UNCHANGED <<print_order, frame, phase, at>>
  BY DEF NewContext, Idle
<1>2. /\ DOMAIN tree'.cmds = DOMAIN tree.cmds
      /\ \A p \in DOMAIN tree.cmds :
           /\ tree'.cmds[p].name = tree.cmds[p].name
           /\ tree'.cmds[p].hash = tree.cmds[p].hash
           /\ tree'.cmds[p].model \in {NULL, Freed}
  BY DEF NewContext
<1>3. Mirror(tree')
  <2>1. \A n \in Nodes : n \notin {NULL, Freed}
    BY SchemaAssumption
  <2>2. \A n \in Nodes : Hits(tree', ConfigCandidate, n) = {}
    BY <1>2, <2>1 DEF Hits
  <2> QED BY <2>2 DEF Mirror
<1>4. ASSUME NEW m \in RootedInContainer
      PROVE  Counted(tree', queue', phase', at', loaded', m)
  <2>1. LeftOf(queue, phase, at, m) \subseteq LeftOf(queue', phase', at', m)
    BY <1>1
  <2>2. ~ SureOf(queue', phase', loaded', m)
    BY <1>1 DEF SureOf
  <2>3. SameTops(tree, tree', m)
    BY <1>2 DEF SameTops, Tops
  <2>4. Counted(tree, queue, phase, at, loaded, m)
    BY DEF TopInv
  <2> QED BY <2>1, <2>2, <2>3, <2>4, CountedKept
<1> QED BY <1>1, <1>3, <1>4, RangeFacts DEF TopInv

(* A command of the top level that is not of m stays.                      *)
LEMMA TopsShrink ==
  ASSUME NEW t, NEW u, NEW m, Good(t), Shrinks(t, u, m), NEW k, k # m
  PROVE  SameTops(t, u, k) /\ \A p \in Tops(t, k) : u.cmds[p] = t.cmds[p]
<1>1. ASSUME NEW p \in Tops(t, k) PROVE p \in DOMAIN u.cmds
  <2>1. p \in DOMAIN t.cmds /\ Len(p) = 1 /\ t.cmds[p].hash = k
    BY DEF Tops
  <2>2. TopOf(t, p) = t.cmds[p]
    BY <2>1, FreedBelow DEF TopOf
  <2> QED BY <2>1, <2>2 DEF Shrinks
<1> QED BY <1>1 DEF SameTops, Tops, Shrinks

LEMMA UnregisterNodeTop == IInv /\ TopInv /\ UnregisterNode => TopInv'
<1> SUFFICES ASSUME IInv, TopInv, UnregisterNode PROVE TopInv'
  OBVIOUS
<1> DEFINE m == Head(queue)
           n == Data[m][at]
<1>1. /\ queue # <<>> /\ ~Idle /\ queue' = queue /\ ~Idle' /\ phase = "unregister"
      /\ Data[m] # <<>> /\ UNCHANGED <<loaded, installed>>
      /\ tree' = IF n \in ReadOnly THEN tree ELSE WithoutNode(tree, n)
      /\ print_order' \in {print_order, Freed}
      /\ \/ at + 1 \in Reach(m, 2) /\ at' = at + 1 /\ phase' = phase /\ frame' = frame
         \/ at + 1 \notin Reach(m, 2) /\ at' = 1 /\ phase' = "register" /\ frame' = <<>>
  BY DEF UnregisterNode, Idle
<1>2. at \in DOMAIN Data[m] /\ n \in Nodes /\ Head(n) = m /\ at \in Nat
  BY <1>1, NodeAt DEF IInv, WalkOK
<1>3. m \in Modules
  BY <1>1, QueueFacts DEF IInv
<1>4. at \in Reach(m, 2)
  BY <1>1 DEF TopInv
<1>5. Good(tree) /\ Mirror(tree) /\ \A k \in RootedInContainer : Counted(tree, queue, phase, at, loaded, k)
  BY DEF IInv, TopInv
<1> HIDE DEF n
<1>6. Good(tree') /\ Shrinks(tree, tree', m)
  <2>1. Good(WithoutNode(tree, n)) /\ Shrinks(tree, WithoutNode(tree, n), m)
    BY <1>2, <1>5, NodeRemoved
  <2>2. Shrinks(tree, tree, m)
    BY DEF Shrinks
  <2> QED BY <1>1, <1>5, <2>1, <2>2
<1>7. Mirror(tree')
  BY <1>3, <1>5, <1>6, MirrorShrinks
<1>8. ASSUME NEW k \in RootedInContainer, k # m
      PROVE  Counted(tree', queue', phase', at', loaded', k)
  <2>1. k \in Modules
    BY RootedModules
  <2>2. LeftOf(queue, phase, at, k) \subseteq LeftOf(queue', phase', at', k)
    BY <1>1, <1>8, <2>1, LeftAll
  <2>3. SureOf(queue', phase', loaded', k) => SureOf(queue, phase, loaded, k)
    BY <1>1, <1>8 DEF SureOf
  <2>4. SameTops(tree, tree', k) /\ \A p \in Tops(tree, k) : tree'.cmds[p] = tree.cmds[p]
    BY <1>5, <1>6, <1>8, TopsShrink
  <2> QED BY <1>5, <2>2, <2>3, <2>4, CountedKept
<1>9. ASSUME m \in RootedInContainer
      PROVE  Counted(tree', queue', phase', at', loaded', m)
  <2> DEFINE J == {j \in Reach(m, 2) : j >= at}
             K == LeftOf(queue', phase', at', m)
  <2>1. LeftOf(queue, phase, at, m) = J
    BY <1>1 DEF LeftOf
  <2>2. PICK f : Matches(tree, m, Slots(m, J), f)
    BY <1>5, <1>9, <2>1 DEF Counted
  <2>3. at \in J
    BY <1>2, <1>4
  <2>4. \A j \in Reach(m, 2) : j \in Nat
    BY <1>3, ReachFacts
  <2>5. J \ {at} = {j \in Reach(m, 2) : j >= at + 1}
    BY <1>2, <2>4
  <2> HIDE DEF J
  <2>6. \E g : Matches(tree', m, Slots(m, J \ {at}), g)
    <3>1. CASE n \in ReadOnly
      <4>1. Slots(m, J) = Slots(m, J \ {at})
        BY <3>1 DEF Slots, n
      <4> QED BY <1>1, <2>2, <3>1, <4>1
    <3>2. CASE n \notin ReadOnly
      <4>1. n = Data[Head(n)][at]
        BY <1>2 DEF n
      <4> QED BY <1>1, <1>2, <1>5, <2>2, <2>3, <3>2, <4>1, NodeGone
    <3> QED BY <3>1, <3>2
  <2>7. PICK g : Matches(tree', m, Slots(m, J \ {at}), g)
    BY <2>6
  <2>8. CASE at + 1 \in Reach(m, 2) /\ at' = at + 1 /\ phase' = phase
    <3>1. K = J \ {at}
      BY <1>1, <2>5, <2>8 DEF LeftOf
    <3>2. ~ SureOf(queue', phase', loaded', m)
      <4>1. m \notin loaded
        BY <1>1, RangeFacts DEF TopInv, IInv, WalkOK
      <4> QED BY <1>1, <2>8, <4>1 DEF SureOf
    <3> HIDE DEF K
    <3> QED BY <2>7, <3>1, <3>2 DEF Counted, K
  <2>9. CASE at + 1 \notin Reach(m, 2) /\ at' = 1 /\ phase' = "register"
    <3>1. J \ {at} = {}
      <4>1. ASSUME NEW j \in Reach(m, 2), j >= at + 1 PROVE FALSE
        <5>1. at + 1 \in 1..j
          BY <1>2, <2>4, <4>1
        <5> QED BY <1>3, <2>9, <5>1, ReachFacts
      <4> QED BY <2>5, <4>1
    <3>2. Slots(m, J \ {at}) = {}
      BY <3>1 DEF Slots
    <3>3. Tops(tree', m) = {}
      BY <2>7, <3>2 DEF Matches
    <3> QED BY <3>3, CountedNone
  <2> QED BY <1>1, <2>8, <2>9
<1>10. at' \in Reach(m, IF phase' = "register" THEN 1 ELSE 2)
  BY <1>1, <1>3, FirstRoot
<1>11. phase' = "register" => \A k \in DOMAIN frame' : FrameTop(k, frame'[k])
  <2>1. DOMAIN <<>> = {}
    OBVIOUS
  <2> QED BY <1>1, <2>1
<1>12. loaded' \cap Range(queue') = {}
  BY <1>1 DEF TopInv
<1>13. print_order' # Show
  BY <1>1, NullNotShow DEF TopInv
<1>14. \A k \in RootedInContainer : Counted(tree', queue', phase', at', loaded', k)
  BY <1>8, <1>9
<1> HIDE DEF m
<1> QED BY <1>1, <1>7, <1>10, <1>11, <1>12, <1>13, <1>14 DEF TopInv, m

(* What the registration of a node does.                                   *)
Registers(n) ==
  /\ Adds(tree, tree', n) /\ print_order' # Show /\ NextNode
  /\ \A k \in DOMAIN frame' : FrameTop(k, frame'[k])

LEMMA WithFrameTop ==
  ASSUME NEW n, NEW f, FrameTop(n, f), \A k \in DOMAIN frame : FrameTop(k, frame[k]),
         frame' = WithFrame(n, f)
  PROVE  \A k \in DOMAIN frame' : FrameTop(k, frame'[k])
BY DEF WithFrame

LEMMA RegisterNodeAdds ==
  ASSUME IInv, TopInv, RegisterNode
  PROVE  \/ Registers(Data[Head(queue)][at])
         \/ /\ UNCHANGED <<tree, print_order, frame, at, loaded>>
            /\ phase' = "faulted" /\ queue' = <<>>
<1> DEFINE n == Data[Head(queue)][at]
<1>1. ~Idle /\ phase = "register"
  BY DEF RegisterNode
<1>2. n \in Nodes /\ Head(n) = Head(queue)
  BY <1>1, NodeAt DEF IInv
<1>3. /\ Good(tree) /\ FramesOK /\ Mirror(tree) /\ print_order # Show
      /\ \A k \in DOMAIN frame : FrameTop(k, frame[k])
      /\ print_order \in DOMAIN tree.cmds \cup {NULL, Freed} /\ PointerOK(tree, print_order)
  BY <1>1 DEF IInv, TopInv
<1> HIDE DEF n
<1>4. \/ SkipNode(n)
      \/ RegisterContainerNode(n)
      \/ RegisterLeafNode(n)
      \/ RegisterListNode(n)
      \/ RegisterOrderedList(n)
      \/ ReadFreedPrintOrder(n)
      \/ RegisterChoice(n)
      \/ RegisterCase(n)
  BY DEF RegisterNode, n
<1>5. ASSUME AddsOwn(tree, tree', n), UNCHANGED <<print_order, frame>>, NextNode
      PROVE  Registers(n)
  BY <1>3, <1>5, OwnAdds DEF Registers
<1>6. AddsOwn(tree, tree, n)
  BY <1>3, QuietSame, QuietAdds
<1>7. CASE SkipNode(n)
  BY <1>5, <1>6, <1>7 DEF SkipNode, n
<1>8. CASE RegisterContainerNode(n)
  BY <1>2, <1>3, <1>5, <1>8, ContainerAdds DEF RegisterContainerNode, n
<1>9. CASE RegisterLeafNode(n)
  BY <1>2, <1>3, <1>5, <1>9, LeafAdds DEF RegisterLeafNode, n
<1>10. CASE RegisterListNode(n)
  BY <1>2, <1>3, <1>5, <1>10, ListAdds DEF RegisterListNode, n
<1>11. CASE RegisterOrderedList(n)
  <2> DEFINE mode == ModeUnder(tree, FindParent(tree, Top, n), n)
             t == RegisterList(tree, n)
             u == RegisterPrintOrder(t, print_order, n, mode)
             root == PrintOrderRoot(t, print_order, mode)
  <2>1. /\ tree' = u /\ print_order' = root /\ frame' = frame /\ NextNode
        /\ Kind[n] = "list" /\ n \in UserOrdered /\ n \notin ReadOnly
    BY <1>11 DEF RegisterOrderedList, OrderedByUser
  <2>2. AddsOwn(tree, t, n)
    BY <1>2, <1>3, <2>1, ListAdds
  <2>3. mode \in {CONFIG_MODE, MODE_ANY} \cup Nodes
    BY <1>2, <1>3, FoundParent, ModeTyped
  <2> HIDE DEF t, mode
  <2>4. print_order \in DOMAIN t.cmds \cup {NULL, Freed} /\ PointerOK(t, print_order)
    <3>1. NULL \notin DOMAIN t.cmds /\ Freed \notin DOMAIN t.cmds
      BY <2>2, SchemaAssumption DEF AddsOwn, Extended, Good, Shape
    <3> QED BY <1>3, <2>2, <3>1 DEF AddsOwn, Extended, Grows, PointerOK
  <2>5. Adds(tree, u, n) /\ root # Show
    BY <1>2, <1>3, <2>1, <2>2, <2>3, <2>4, PrintOrderAdds
  <2> HIDE DEF u, root
  <2>6. Registers(n)
    BY <1>3, <2>1, <2>5 DEF Registers
  <2> QED BY <2>6 DEF n
<1>12. CASE ReadFreedPrintOrder(n)
  BY <1>12 DEF ReadFreedPrintOrder
<1>13. CASE RegisterChoice(n)
  <2> DEFINE f == ChoiceFrame(tree, n)
  <2>1. /\ Visited(n) /\ Kind[n] = "choice" /\ (n \notin ReadOnly \/ Nested(n))
        /\ \/ tree' = tree /\ frame' = WithFrame(n, f) /\ SharesContainer(n)
           \/ tree' = RegisterBoth(tree, f, n) /\ frame' = WithFrame(n, FrameBelow(tree, f, n))
        /\ print_order' = print_order /\ NextNode
    BY <1>13 DEF RegisterChoice
  <2>2. FrameOK(tree, f, Head(n))
    BY <1>2, <1>3, <2>1, ChoiceFrameOK
  <2>3. FrameTop(n, f) /\ (f.cmd = Top => n \notin ReadOnly)
    <3>1. CASE Nested(n)
      <4>1. ~IsTop(n) /\ Kind[Parent(n)] = "case"
        BY <3>1 DEF Nested
      <4>2. Parent(n) \in DOMAIN frame
        BY <1>2, <2>1, <4>1, ParentVisited
      <4>3. f = frame[Parent(n)] /\ FrameTop(Parent(n), f)
        BY <1>3, <3>1, <4>2 DEF ChoiceFrame
      <4>4. f.cmd # Top
        BY <4>1, <4>3 DEF FrameTop
      <4> QED BY <4>3, <4>4 DEF FrameTop
    <3>2. CASE ~Nested(n)
      <4>1. n \notin ReadOnly
        BY <2>1, <3>2
      <4>2. /\ f.cmd = FindParent(tree, Top, n)
            /\ f.no_cmd = OrElse(FindParent(tree, No, n), No)
        BY <3>2 DEF ChoiceFrame
      <4> HIDE DEF f
      <4> QED BY <1>2, <1>3, <2>1, <4>1, <4>2, ParentPlaces DEF FrameTop
    <3> QED BY <3>1, <3>2
  <2> HIDE DEF f
  <2>4. /\ AddsOwn(tree, RegisterBoth(tree, f, n), n)
        /\ FrameTop(n, FrameBelow(tree, f, n))
    BY <1>2, <1>3, <2>1, <2>2, <2>3, BothAdds
  <2>5. /\ AddsOwn(tree, tree', n)
        /\ \E g : FrameTop(n, g) /\ frame' = WithFrame(n, g)
    BY <1>6, <2>1, <2>3, <2>4
  <2>6. \A k \in DOMAIN frame' : FrameTop(k, frame'[k])
    BY <1>3, <2>5, WithFrameTop
  <2>7. Registers(n)
    BY <1>3, <2>1, <2>5, <2>6, OwnAdds DEF Registers
  <2> QED BY <2>7 DEF n
<1>14. CASE RegisterCase(n)
  <2> DEFINE f == frame[Parent(n)]
  <2>1. /\ tree' = RegisterBoth(tree, f, n)
        /\ frame' = WithFrame(n, FrameBelow(tree, f, n))
        /\ print_order' = print_order /\ NextNode /\ Visited(n) /\ Kind[n] = "case"
    BY <1>14 DEF RegisterCase
  <2>2. ~IsTop(n) /\ Kind[Parent(n)] = "choice" /\ Head(Parent(n)) = Head(n)
    BY <1>2, <2>1, NodeFacts, SchemaAssumption
  <2>3. Parent(n) \in DOMAIN frame
    BY <1>2, <2>1, <2>2, ParentVisited
  <2>4. FrameOK(tree, f, Head(n)) /\ FrameTop(Parent(n), f)
    BY <1>3, <2>2, <2>3 DEF FramesOK
  <2>5. f.cmd = Top => n \notin ReadOnly
    BY <2>1, <2>4, OrderAssumption DEF FrameTop
  <2> HIDE DEF f
  <2>6. /\ AddsOwn(tree, RegisterBoth(tree, f, n), n)
        /\ FrameTop(n, FrameBelow(tree, f, n))
    BY <1>2, <1>3, <2>1, <2>4, <2>5, BothAdds
  <2>7. \A k \in DOMAIN frame' : FrameTop(k, frame'[k])
    BY <1>3, <2>1, <2>6, WithFrameTop
  <2>8. Registers(n)
    BY <1>3, <2>1, <2>6, <2>7, OwnAdds DEF Registers
  <2> QED BY <2>8 DEF n
<1> QED BY <1>4, <1>7, <1>8, <1>9, <1>10, <1>11, <1>12, <1>13, <1>14

LEMMA TopsGrow ==
  ASSUME NEW t, NEW u, NEW m, Extended(t, u, m), NEW k, k # m
  PROVE  SameTops(t, u, k) /\ \A p \in Tops(t, k) : u.cmds[p] = t.cmds[p]
BY DEF Extended, Grows, SameTops, Tops

LEMMA RegisterNodeTop == IInv /\ FirstInv /\ TopInv /\ RegisterNode => TopInv'
<1> SUFFICES ASSUME IInv, FirstInv, TopInv, RegisterNode PROVE TopInv'
  OBVIOUS
<1> DEFINE m == Head(queue)
           n == Data[m][at]
<1>1. queue # <<>> /\ ~Idle /\ phase = "register"
  BY DEF RegisterNode, Idle
<1>2. at \in DOMAIN Data[m] /\ n \in Nodes /\ Head(n) = m /\ at \in Nat
  BY <1>1, NodeAt DEF IInv, WalkOK
<1>3. m \in Modules /\ Tail(queue) \in Seq(Modules)
  BY <1>1, QueueFacts DEF IInv
<1>4. at \in Reach(m, 1)
  <2>1. Data[m] # <<>>
    BY <1>2, EmptySeq
  <2> QED BY <1>1, <2>1 DEF TopInv
<1>5. \A k \in RootedInContainer : Counted(tree, queue, phase, at, loaded, k)
  BY DEF TopInv
<1> HIDE DEF n
<1>6. CASE /\ UNCHANGED <<tree, print_order, frame, at, loaded>>
           /\ phase' = "faulted" /\ queue' = <<>>
  <2>1. ASSUME NEW k \in RootedInContainer
        PROVE  Counted(tree', queue', phase', at', loaded', k)
    <3>1. k \in Modules
      BY RootedModules
    <3>2. LeftOf(queue, phase, at, k) \subseteq LeftOf(queue', phase', at', k)
      BY <1>6, <3>1, LeftAll
    <3>3. SureOf(queue', phase', loaded', k) => SureOf(queue, phase, loaded, k)
      BY <1>6 DEF SureOf
    <3>4. SameTops(tree, tree', k) /\ \A p \in Tops(tree, k) : tree'.cmds[p] = tree.cmds[p]
      BY <1>6 DEF SameTops
    <3> QED BY <1>5, <3>2, <3>3, <3>4, CountedKept
  <2>2. Idle' /\ Range(queue') = {}
    <3>1. <<>> \in Seq(Modules)
      BY EmptySeq
    <3> QED BY <1>6, <3>1, RangeFacts DEF Idle
  <2> QED BY <1>6, <2>1, <2>2 DEF TopInv
<1>7. CASE Registers(n)
  <2>1. Adds(tree, tree', n) /\ Extended(tree, tree', m) /\ Mirror(tree') /\ print_order' # Show
        /\ \A k \in DOMAIN frame' : FrameTop(k, frame'[k])
    BY <1>2, <1>7 DEF Registers, Adds
  <2>2. \/ /\ at + 1 \in Reach(m, 1) /\ at' = at + 1
           /\ queue' = queue /\ phase' = "register" /\ loaded' = loaded
        \/ /\ at' = 1 /\ queue' = Tail(queue) /\ phase' = "unregister"
           /\ loaded' = loaded \cup {m}
    BY <1>1, <1>7 DEF Registers, NextNode
  <2>3. m \notin Range(Tail(queue)) /\ Range(Tail(queue)) \subseteq Range(queue)
        /\ m \in Range(queue)
    BY <1>1, QueueTail
  <2>4. Tail(queue) = <<>> \/ (Head(Tail(queue)) \in Modules /\ Head(Tail(queue)) # m)
    BY <1>3, <2>3, RangeFacts
  <2>5. loaded' \cap Range(queue') = {}
    BY <2>2, <2>3 DEF TopInv
  <2>6. ASSUME ~Idle', Data[Head(queue')] # <<>>
        PROVE  at' \in Reach(Head(queue'), IF phase' = "register" THEN 1 ELSE 2)
    <3>1. CASE queue' = queue /\ at + 1 \in Reach(m, 1) /\ at' = at + 1 /\ phase' = "register"
      BY <3>1
    <3>2. CASE queue' = Tail(queue) /\ at' = 1 /\ phase' = "unregister"
      <4>1. Head(queue') \in Modules
        BY <2>4, <2>6, <3>2 DEF Idle
      <4> QED BY <2>6, <3>2, <4>1, FirstRoot
    <3> QED BY <2>2, <3>1, <3>2
  <2>7. ASSUME NEW k \in RootedInContainer, k # m
        PROVE  Counted(tree', queue', phase', at', loaded', k)
    <3>1. k \in Modules
      BY RootedModules
    <3>2. LeftOf(queue, phase, at, k) \subseteq LeftOf(queue', phase', at', k)
      BY <2>2, <2>7, <3>1, LeftAll
    <3>3. SureOf(queue', phase', loaded', k) => SureOf(queue, phase, loaded, k)
      BY <2>2, <2>7 DEF SureOf
    <3>4. SameTops(tree, tree', k) /\ \A p \in Tops(tree, k) : tree'.cmds[p] = tree.cmds[p]
      BY <2>1, <2>7, TopsGrow
    <3> QED BY <1>5, <3>2, <3>3, <3>4, CountedKept
  <2>8. ASSUME m \in RootedInContainer
        PROVE  Counted(tree', queue', phase', at', loaded', m)
    <3> DEFINE J == {j \in Reach(m, 1) : j < at}
               K == LeftOf(queue', phase', at', m)
    <3>1. LeftOf(queue, phase, at, m) = J /\ SureOf(queue, phase, loaded, m)
      BY <1>1 DEF LeftOf, SureOf
    <3>2. PICK f : Matches(tree, m, Slots(m, J), f) /\ Fits(tree, m, f)
      BY <1>5, <2>8, <3>1 DEF Counted
    <3>3. at \notin J
      BY <1>2
    <3>4. J \cup {at} \subseteq K
      <4>1. CASE at' = at + 1 /\ queue' = queue /\ phase' = "register"
        <5>1. K = {j \in Reach(m, 1) : j < at + 1}
          BY <1>1, <4>1 DEF LeftOf
        <5>2. \A j \in Reach(m, 1) : j \in Nat
          BY <1>3, ReachFacts
        <5>3. \A j \in J : j < at + 1
          BY <1>2, <5>2
        <5>4. at < at + 1
          BY <1>2
        <5> QED BY <1>4, <5>1, <5>3, <5>4
      <4>2. CASE queue' = Tail(queue)
        <5>1. K = Reach(m, 2)
          BY <1>3, <2>4, <4>2, LeftAll
        <5> QED BY <1>3, <1>4, <5>1, ReachLarger
      <4> QED BY <2>2, <4>1, <4>2
    <3> HIDE DEF J, K
    <3>5. n = Data[Head(n)][at] /\ Rooted(n)
      BY <1>2, <1>4, <2>8, WalkRooted DEF n
    <3>6. PICK g : Matches(tree', m, Slots(m, J \cup {at}), g) /\ Fits(tree', m, g)
      BY <1>2, <2>1, <3>2, <3>3, <3>5, NodeAdded
    <3>7. Matches(tree', m, Slots(m, K), g)
      BY <3>4, <3>6, MatchesMore, SlotsMore
    <3> QED BY <3>6, <3>7 DEF Counted, K
  <2>9. \A k \in RootedInContainer : Counted(tree', queue', phase', at', loaded', k)
    BY <2>7, <2>8
  <2> QED BY <2>1, <2>5, <2>6, <2>9 DEF TopInv
<1> QED BY <1>6, <1>7, RegisterNodeAdds DEF n

LEMMA TopStep == IInv /\ FirstInv /\ TopInv /\ [Next]_vars => TopInv'
<1> SUFFICES ASSUME IInv, FirstInv, TopInv, [Next]_vars PROVE TopInv'
  OBVIOUS
<1>1. CASE LoadModules
  BY <1>1, LoadModulesTop
<1>2. CASE SkipModule
  BY <1>2, SkipModuleTop
<1>3. CASE UnregisterNode
  BY <1>3, UnregisterNodeTop
<1>4. CASE RegisterNode
  BY <1>4, RegisterNodeTop
<1>5. ASSUME NEW m \in Modules, InstallModule(m) PROVE TopInv'
  BY <1>5, NewContextTop DEF InstallModule
<1>6. ASSUME NEW i \in DOMAIN installed, RemoveModule(i) PROVE TopInv'
  BY <1>6, NewContextTop DEF RemoveModule
<1>7. CASE Start
  BY <1>7, StartTop
<1>8. CASE UNCHANGED vars
  BY <1>8 DEF vars, TopInv, Idle
<1> QED BY <1>1, <1>2, <1>3, <1>4, <1>5, <1>6, <1>7, <1>8 DEF Next

LEMMA TopInvFresh == TopInv => TopFresh
<1> SUFFICES ASSUME TopInv, NEW m \in loaded \cap RootedInContainer,
                    NEW p \in Tops(tree, m), NEW q \in Tops(tree, m),
                    tree.cmds[p].model # NULL, tree.cmds[q].model # NULL
             PROVE  /\ tree.cmds[p].model # Freed
                    /\ tree.cmds[p].model = tree.cmds[q].model => p = q
  BY DEF TopFresh, Tops
<1> DEFINE S == Slots(m, LeftOf(queue, phase, at, m))
<1>1. PICK f : Matches(tree, m, S, f) /\ Fits(tree, m, f)
  BY DEF TopInv, Counted, SureOf
<1>2. m \in Modules
  BY RootedModules
<1>3. ASSUME NEW s \in S PROVE s[1] \in DOMAIN Data[m] /\ s = <<s[1], s[2]>>
  <2>1. s \in LeftOf(queue, phase, at, m) \X {"own", "order"}
    BY DEF Slots
  <2>2. s[1] \in LeftOf(queue, phase, at, m) /\ s = <<s[1], s[2]>>
    BY <2>1
  <2> QED BY <1>2, <2>2, LeftAll, ReachFacts
<1> HIDE DEF S
<1>4. /\ f[p] \in S /\ f[q] \in S /\ (f[p] = f[q] => p = q)
  BY <1>1 DEF Matches
<1>5. /\ f[p][2] = "own" /\ tree.cmds[p].model = Data[m][f[p][1]]
      /\ f[q][2] = "own" /\ tree.cmds[q].model = Data[m][f[q][1]]
  BY <1>1 DEF Fits
<1>6. tree.cmds[p].model # Freed
  <2>1. Data[m] \in Seq(Nodes)
    BY <1>2, SchemaAssumption
  <2>2. Data[m][f[p][1]] \in Nodes
    BY <1>3, <1>4, <2>1
  <2> QED BY <1>5, <2>2, SchemaAssumption
<1>7. ASSUME tree.cmds[p].model = tree.cmds[q].model PROVE p = q
  <2>1. f[p][1] = f[q][1]
    BY <1>2, <1>3, <1>4, <1>5, <1>7, OrderAssumption DEF IsInjective
  <2>2. f[p] = f[q]
    BY <1>3, <1>4, <1>5, <2>1, Zenon
  <2> QED BY <1>4, <2>2
<1> QED BY <1>6, <1>7

(* After load-modules, the first or a repeated one, a command of the top   *)
(* level is for a node of the present schema and is the only one for it:   *)
(* what unregister_commands_schema removes is what register_commands_      *)
(* schema had added (data_factory.c, cmd_list.c).                          *)
THEOREM TopFreshHolds == Spec => []TopFresh
<1>1. Init => TopInv
  BY InitTop
<1>2. IInv /\ FirstInv /\ TopInv /\ [Next]_vars => TopInv'
  BY TopStep
<1>3. TopInv => TopFresh
  BY TopInvFresh
<1> QED BY <1>1, <1>2, <1>3, FirstInvariant, Invariant, PTL DEF Spec
=============================================================================
