------------------------- MODULE CommandTreeProofs -------------------------
(***************************************************************************)
(* The command tree, for every set of modules and schemas: what is in it,  *)
(* and that generating the commands of one module leaves those of others   *)
(* alone.                                                                  *)
(***************************************************************************)
EXTENDS CommandTree, TLAPS, SequenceTheorems, FiniteSetTheorems, WellFoundedInduction

-----------------------------------------------------------------------------
(* The invariant.                                                          *)

Typed(c) ==
  /\ c.hash \in Modules \cup {NoHash, "diff", "config-candidate", "config-running"}
  /\ c.mode \in {CONFIG_MODE, MODE_ANY} \cup Nodes
  /\ c.model \in Nodes \cup {NULL, Freed}

(* The command of the top level that p is below of, or is.                 *)
TopOf(t, p) == t.cmds[<<p[1]>>]

(* Every command is below a command; no number was given twice.            *)
Shape(t) ==
  /\ t.next \in Nat
  /\ DOMAIN t.cmds \subseteq Seq(Nat)
  /\ \A p \in DOMAIN t.cmds :
       /\ p # <<>>
       /\ \A i \in DOMAIN p : p[i] < t.next
       /\ Front(p) \in DOMAIN t.cmds \cup {Top}
       /\ <<p[1]>> \in DOMAIN t.cmds

(* What is below a command that load-modules will remove is of its module; *)
(* print-order is shared.                                                  *)
OneModule(t) ==
  \A p \in DOMAIN t.cmds :
    TopOf(t, p).hash \in Modules /\ TopOf(t, p).name # <<"print-order">>
      => t.cmds[p].hash = TopOf(t, p).hash

HasFixed(t) ==
  /\ DOMAIN FixedCommands \subseteq DOMAIN t.cmds
  /\ t.cmds[Show].hash = NoHash /\ t.cmds[No].hash = NoHash

Good(t) ==
  /\ Shape(t) /\ OneModule(t) /\ HasFixed(t)
  /\ \A p \in DOMAIN t.cmds : Typed(t.cmds[p])

(* The parents of generated commands: those of the module, and libcli's.   *)
Builtin(t, p) == p \in DOMAIN t.cmds /\ TopOf(t, p).hash = NoHash

Parents(t, m) ==
  {Top} \cup {p \in DOMAIN t.cmds : TopOf(t, p).hash \in {m, NoHash}}

(* The commands of t are in u as they were.                                *)
Grows(t, u) ==
  \A p \in DOMAIN t.cmds : p \in DOMAIN u.cmds /\ u.cmds[p] = t.cmds[p]

(* ... and the commands of the top level that are new are of module m.     *)
Extended(t, u, m) ==
  /\ Good(u) /\ Grows(t, u)
  /\ \A p \in DOMAIN u.cmds \ DOMAIN t.cmds : Len(p) = 1 => u.cmds[p].hash = m

FrameOK(t, f, m) ==
  /\ f.cmd \in Parents(t, m)
  /\ Builtin(t, f.no_cmd)
  /\ f.mode \in {CONFIG_MODE, MODE_ANY} \cup Nodes

FramesOK ==
  \A n \in DOMAIN frame :
    n \in Nodes /\ Head(n) = Head(queue) /\ FrameOK(tree, frame[n], Head(n))

PointerOK(t, po) ==
  po \in DOMAIN t.cmds => Len(po) = 1 /\ t.cmds[po].name = <<"print-order">>

WalkOK ==
  /\ installed \in Seq(Modules) /\ queue \in Seq(Modules)
  /\ Range(queue) \subseteq Range(installed) /\ loaded \subseteq Range(installed)
  /\ phase \in {"unregister", "register", "faulted"}
  /\ loads \in 0..MaxLoads
  /\ at \in Nat
  /\ ~Idle => /\ phase # "faulted"
              /\ at \in DOMAIN Data[Head(queue)] \/ (at = 1 /\ phase = "unregister")

IInv ==
  /\ Good(tree) /\ WalkOK
  /\ print_order \in DOMAIN tree.cmds \cup {NULL, Freed}
  /\ PointerOK(tree, print_order)
  /\ ~Idle /\ phase = "register" => FramesOK

-----------------------------------------------------------------------------
(* Paths and nodes.                                                        *)

(* A bounded set of numbers has a greatest member.                         *)
LEMMA GreatestExists ==
  ASSUME NEW L \in Nat, NEW S, S \subseteq 0..L, S # {}
  PROVE  \E m \in S : \A i \in S : i <= m
<1> DEFINE R == {ss \in Nat \X Nat : ss[1] < ss[2]}
           T == {L - i : i \in S}
<1>1. T \subseteq Nat /\ T # {}
  <2>1. \A i \in S : i \in 0..L
    OBVIOUS
  <2>2. \A i \in S : L - i \in Nat
    BY <2>1
  <2> QED BY <2>2
<1>2. \E x \in T : \A y \in T : <<y, x>> \notin R
  <2>1. IsWellFoundedOn(R, Nat)
    BY NatLessThanWellFounded, Zenon DEF OpToRel
  <2> HIDE DEF T, R
  <2> QED BY <1>1, <2>1, WFMin, Zenon
<1>3. PICK x \in T : \A y \in T : <<y, x>> \notin R
  BY <1>2
<1>4. \A y \in T : ~ (y < x)
  BY <1>1, <1>3
<1>5. PICK m \in S : x = L - m
  OBVIOUS
<1>6. \A i \in S : i <= m
  <2> SUFFICES ASSUME NEW i \in S PROVE i <= m
    OBVIOUS
  <2>1. ~ (L - i < L - m)
    BY <1>4, <1>5
  <2> QED BY <2>1
<1> QED BY <1>6

LEMMA AppendFacts ==
  ASSUME NEW p \in Seq(Nat), NEW k \in Nat
  PROVE  /\ Append(p, k) \in Seq(Nat) /\ Append(p, k) # <<>>
         /\ Front(Append(p, k)) = p
         /\ DOMAIN Append(p, k) = 1..(Len(p) + 1)
         /\ Append(p, k)[Len(p) + 1] = k
         /\ \A i \in DOMAIN p : Append(p, k)[i] = p[i]
         /\ p # <<>> => Append(p, k)[1] = p[1]
         /\ p = <<>> => Append(p, k)[1] = k
<1>1. Append(p, k) \in Seq(Nat) /\ Len(Append(p, k)) = Len(p) + 1
      /\ \A i \in 1..Len(p) : Append(p, k)[i] = p[i]
  OBVIOUS
<1>2. Front(Append(p, k)) = p
  <2>1. /\ SubSeq(Append(p, k), 1, Len(p)) \in Seq(Nat)
        /\ Len(SubSeq(Append(p, k), 1, Len(p))) = Len(p)
        /\ \A i \in 1..Len(p) : SubSeq(Append(p, k), 1, Len(p))[i] = p[i]
    BY <1>1
  <2>2. SubSeq(Append(p, k), 1, Len(p)) = p
    BY <2>1, SeqEqual
  <2> QED BY <1>1, <2>2 DEF Front
<1>3. DOMAIN p = 1..Len(p) /\ DOMAIN Append(p, k) = 1..(Len(p) + 1) /\ Len(p) \in Nat
  BY <1>1, LenProperties
<1>4. Append(p, k)[Len(p) + 1] = k /\ Append(p, k) # <<>>
  BY <1>1
<1>5. p # <<>> => 1 \in DOMAIN p
  BY <1>3, EmptySeq
<1>6. p = <<>> => Len(p) = 0
  OBVIOUS
<1>7. p # <<>> => Append(p, k)[1] = p[1]
  BY <1>1, <1>3, <1>5
<1>8. p = <<>> => Append(p, k)[1] = k
  BY <1>4, <1>6
<1> QED BY <1>1, <1>2, <1>3, <1>4, <1>7, <1>8

LEMMA NodeFacts ==
  ASSUME NEW n \in Nodes
  PROVE  /\ n \in Seq(STRING) /\ Len(n) \in Nat /\ Len(n) >= 2
         /\ Head(n) \in Modules
         /\ \A i \in 2..Len(n) : Upto(n, i) \in Nodes /\ Head(Upto(n, i)) = Head(n)
         /\ ~IsTop(n) => Parent(n) \in Nodes /\ Head(Parent(n)) = Head(n)
<1>1. PICK m \in Modules : n \in Range(Data[m])
  BY DEF Nodes
<1>2. /\ n \in Seq(STRING) /\ Len(n) >= 2 /\ Head(n) = m
      /\ \A i \in 2..Len(n) : Upto(n, i) \in Range(Data[m])
  BY <1>1, SchemaAssumption DEF Depths
<1>3. \A i \in 2..Len(n) : Upto(n, i) \in Nodes
  BY <1>2 DEF Nodes
<1>4. \A i \in 2..Len(n) : Head(Upto(n, i)) = Head(n)
  BY <1>2 DEF Upto
<1>6. Len(n) \in Nat /\ Len(n) >= 2
  BY <1>2, LenProperties
<1>5. ASSUME ~IsTop(n) PROVE Parent(n) = Upto(n, Len(n) - 1) /\ Len(n) - 1 \in 2..Len(n)
  <2>1. Len(n) - 1 \in 2..Len(n)
    <3>1. Len(n) # 2
      BY <1>5 DEF IsTop
    <3>2. \A k \in Nat : k >= 2 /\ k # 2 => k - 1 \in 2..k
      OBVIOUS
    <3> QED BY <1>6, <3>1, <3>2, Zenon
  <2>2. Parent(n) = Upto(n, Len(n) - 1)
    BY DEF Parent, Front, Upto
  <2> QED BY <2>1, <2>2
<1> QED BY <1>2, <1>3, <1>4, <1>5, <1>6

-----------------------------------------------------------------------------
(* Growing the tree.                                                       *)

LEMMA GrowsKeeps ==
  ASSUME NEW t, NEW u, Good(t), Grows(t, u)
  PROVE  /\ \A m : Parents(t, m) \subseteq Parents(u, m)
         /\ \A p : Builtin(t, p) => Builtin(u, p)
<1>1. \A p \in DOMAIN t.cmds : p \in DOMAIN u.cmds /\ TopOf(u, p) = TopOf(t, p)
  BY DEF Good, Shape, Grows, TopOf
<1> QED BY <1>1 DEF Parents, Builtin

LEMMA ExtendedTwice ==
  ASSUME NEW t, NEW u, NEW v, NEW m, Extended(t, u, m), Extended(u, v, m)
  PROVE  Extended(t, v, m)
BY DEF Extended, Grows

LEMMA BuiltinParent ==
  ASSUME NEW t, NEW m, NEW p, Builtin(t, p)
  PROVE  p \in Parents(t, m)
BY DEF Builtin, Parents

(* A command of module m below one of its parents, or any command below    *)
(* libcli's.                                                               *)
LEMMA Registered ==
  ASSUME NEW t, NEW m \in Modules, NEW p, NEW c, Good(t), Typed(c),
         \/ p \in Parents(t, m) /\ c.hash = m
         \/ Builtin(t, p)
  PROVE  /\ Extended(t, Register(t, p, c), m)
         /\ NewUnder(t, p) \in DOMAIN Register(t, p, c).cmds
         /\ Register(t, p, c).cmds[NewUnder(t, p)] = c
         /\ Builtin(t, p) => Builtin(Register(t, p, c), NewUnder(t, p))
         /\ p \in Parents(t, m) /\ c.hash = m
              => NewUnder(t, p) \in Parents(Register(t, p, c), m)
<1> DEFINE u == Register(t, p, c)
           q == NewUnder(t, p)
<1>1. /\ p \in Seq(Nat) /\ t.next \in Nat /\ p \in DOMAIN t.cmds \cup {Top}
      /\ DOMAIN t.cmds \subseteq Seq(Nat)
  <2>1. p \in DOMAIN t.cmds \cup {Top}
    BY DEF Parents, Builtin
  <2> QED BY <2>1, EmptySeq DEF Good, Shape, Top
<1>2. /\ q \in Seq(Nat) /\ q # <<>> /\ Front(q) = p
      /\ DOMAIN q = 1..(Len(p) + 1) /\ q[Len(p) + 1] = t.next
      /\ \A i \in DOMAIN p : q[i] = p[i]
      /\ p # <<>> => q[1] = p[1]
      /\ p = <<>> => q[1] = t.next
  BY <1>1, AppendFacts DEF NewUnder
<1>3. q \notin DOMAIN t.cmds
  <2>1. Len(p) + 1 \in DOMAIN q
    BY <1>1, <1>2
  <2>2. ~ (t.next < t.next)
    BY <1>1
  <2> QED BY <1>2, <2>1, <2>2 DEF Good, Shape
<1>4. /\ DOMAIN u.cmds = DOMAIN t.cmds \cup {q} /\ u.cmds[q] = c
      /\ \A r \in DOMAIN t.cmds : u.cmds[r] = t.cmds[r]
      /\ u.next = t.next + 1
  BY <1>3 DEF Register
<1>5. \A r \in DOMAIN t.cmds : TopOf(u, r) = TopOf(t, r)
  BY <1>4 DEF TopOf, Good, Shape
<1>6. <<q[1]>> \in DOMAIN u.cmds
      /\ TopOf(u, q) = IF p = Top THEN c ELSE TopOf(t, p)
  <2>1. CASE p = Top
    <3>1. q = <<t.next>>
      BY <1>1, <2>1 DEF NewUnder, Top
    <3> QED BY <1>2, <1>4, <2>1, <3>1 DEF TopOf, Top
  <2>2. CASE p # Top
    <3>1. p \in DOMAIN t.cmds /\ q[1] = p[1]
      BY <1>1, <1>2, <2>2 DEF Top
    <3>2. <<p[1]>> \in DOMAIN t.cmds
      BY <3>1 DEF Good, Shape
    <3> QED BY <1>4, <2>2, <3>1, <3>2 DEF TopOf
  <2> QED BY <2>1, <2>2
<1> HIDE DEF u, q
<1>12. ASSUME Len(q) = 1 PROVE c.hash = m
  <2>1. p = Top
    <3>1. Len(p) \in Nat /\ 1..1 = 1..(Len(p) + 1)
      BY <1>1, <1>2, <1>12, LenProperties
    <3>2. Len(p) = 0
      BY <3>1
    <3> QED BY <1>1, <3>2, EmptySeq DEF Top
  <2>2. ~ Builtin(t, p)
    BY <2>1 DEF Builtin, Good, Shape, Top
  <2> QED BY <2>2
<1>7. Shape(u)
  <2>1. \A r \in DOMAIN u.cmds : r # <<>> /\ Front(r) \in DOMAIN u.cmds \cup {Top}
    BY <1>1, <1>2, <1>4 DEF Good, Shape
  <2>2. \A r \in DOMAIN u.cmds : <<r[1]>> \in DOMAIN u.cmds
    BY <1>4, <1>6 DEF Good, Shape
  <2>3. \A r \in DOMAIN u.cmds : \A i \in DOMAIN r : r[i] < u.next
    <3>1. ASSUME NEW r \in DOMAIN t.cmds, NEW i \in DOMAIN r PROVE r[i] < u.next
      <4>1. r[i] < t.next /\ r[i] \in Nat
        <5>1. r \in Seq(Nat)
          BY <1>1
        <5>2. r[i] < t.next
          BY DEF Good, Shape
        <5>3. i \in 1..Len(r)
          BY <5>1, LenProperties
        <5> QED BY <5>1, <5>2, <5>3, ElementOfSeq
      <4> QED BY <1>1, <1>4, <4>1
    <3>2. ASSUME NEW i \in DOMAIN q PROVE q[i] < u.next
      <4>1. CASE i = Len(p) + 1
        BY <1>1, <1>2, <1>4, <4>1
      <4>2. CASE i # Len(p) + 1
        <5>1. i \in DOMAIN p
          BY <1>1, <1>2, <3>2, <4>2
        <5>2. p \in DOMAIN t.cmds
          BY <1>1, <5>1 DEF Top
        <5> QED BY <1>2, <3>1, <5>1, <5>2
      <4> QED BY <4>1, <4>2
    <3> QED BY <1>4, <3>1, <3>2
  <2> QED BY <1>1, <1>2, <1>4, <2>1, <2>2, <2>3 DEF Shape
<1>8. OneModule(u)
  <2>1. \A r \in DOMAIN t.cmds :
          TopOf(u, r).hash \in Modules /\ TopOf(u, r).name # <<"print-order">>
            => u.cmds[r].hash = TopOf(u, r).hash
    BY <1>4, <1>5 DEF Good, OneModule
  <2>2. TopOf(u, q).hash \in Modules => u.cmds[q].hash = TopOf(u, q).hash
    BY <1>4, <1>6, SchemaAssumption DEF Parents, Builtin
  <2> QED BY <1>4, <2>1, <2>2 DEF OneModule
<1>9. HasFixed(u) /\ \A r \in DOMAIN u.cmds : Typed(u.cmds[r])
  <2>1. Show \in DOMAIN t.cmds /\ No \in DOMAIN t.cmds
    BY DEF Good, HasFixed, FixedCommands
  <2> QED BY <1>4, <2>1 DEF Good, HasFixed
<1>10. Good(u) /\ Grows(t, u)
  BY <1>4, <1>7, <1>8, <1>9 DEF Good, Grows
<1>11. p \in DOMAIN t.cmds => p # Top
  BY DEF Good, Shape, Top
<1> QED BY <1>4, <1>6, <1>10, <1>11, <1>12 DEF Extended, Builtin, Parents, u, q

-----------------------------------------------------------------------------
(* The parents that are searched for.                                      *)

Shown == {ConfigCandidate, ConfigRunning, ConfigStartup, OperationalData}

LEMMA SearchResult ==
  ASSUME NEW t, NEW base, NEW n
  PROVE  SearchCmds(t, base, n) \in Hits(t, base, n) \cup {Top}
<1> DEFINE S == Hits(t, base, n)
           First(p) == \A q \in S \ {p} : Before(p, q)
<1>1. SearchCmds(t, base, n) =
        IF S = {} THEN Top ELSE CHOOSE p \in S : First(p) \/ ~ \E q \in S : First(q)
  BY DEF SearchCmds
<1>2. S # {} => \E p \in S : First(p) \/ ~ \E q \in S : First(q)
  <2> HIDE DEF S, First
  <2> QED OBVIOUS
<1> HIDE DEF First
<1> QED BY <1>1, <1>2

LEMMA Searched ==
  ASSUME NEW t, NEW n \in Nodes, Good(t)
  PROVE  /\ SearchCmds(t, Top, n) \in Parents(t, Head(n))
         /\ \A base \in Shown \cup {No} :
              SearchCmds(t, base, n) = Top \/ Builtin(t, SearchCmds(t, base, n))
<1>1. ASSUME NEW base, NEW p \in Hits(t, base, n)
      PROVE  p \in DOMAIN t.cmds /\ p \in Seq(Nat) /\ Len(p) \in Nat /\ Len(p) >= 1
  <2>1. p \in DOMAIN t.cmds
    BY DEF Hits
  <2>2. p \in Seq(Nat) /\ p # <<>>
    BY <2>1 DEF Good, Shape
  <2> QED BY <2>1, <2>2, EmptySeq
<1>2. ASSUME NEW p \in Hits(t, Top, n) PROVE p \in Parents(t, Head(n))
  <2>1. t.cmds[Upto(p, 1)].hash = Head(n)
    <3>1. 1 \in (Len(Top) + 1)..Len(p)
      BY <1>1, <1>2 DEF Top
    <3> QED BY <3>1 DEF Hits
  <2>2. Upto(p, 1) = <<p[1]>>
    <3>1. p \in Seq(Nat) /\ Len(p) >= 1 /\ Len(p) \in Nat
      BY <1>1, <1>2
    <3>2. SubSeq(p, 1, 1) \in Seq(Nat) /\ Len(SubSeq(p, 1, 1)) = 1 /\ SubSeq(p, 1, 1)[1] = p[1]
      BY <3>1
    <3>3. SubSeq(p, 1, 1) = <<p[1]>>
      <4>1. p[1] \in Nat
        BY <3>1, ElementOfSeq
      <4>2. <<p[1]>> \in Seq(Nat) /\ Len(<<p[1]>>) = 1 /\ <<p[1]>>[1] = p[1]
        BY <4>1
      <4>3. \A i \in 1..Len(SubSeq(p, 1, 1)) : SubSeq(p, 1, 1)[i] = <<p[1]>>[i]
        BY <3>2, <4>2
      <4> QED BY <3>2, <4>2, <4>3, SeqEqual, Zenon
    <3> QED BY <3>3 DEF Upto
  <2> QED BY <1>1, <1>2, <2>1, <2>2 DEF Parents, TopOf
<1>3. ASSUME NEW base \in Shown \cup {No}, NEW p \in Hits(t, base, n)
      PROVE  Builtin(t, p)
  <2>1. base \in Seq(Nat) /\ Len(base) >= 1 /\ base[1] \in {1, 6}
    <3>1. base \in {<<6>>, <<1, 2>>, <<1, 3>>, <<1, 4>>, <<1, 5>>}
      BY DEF Shown, No, ConfigCandidate, ConfigRunning, ConfigStartup, OperationalData
    <3>2. \A x \in Nat : <<x>> \in Seq(Nat) /\ Len(<<x>>) = 1 /\ <<x>>[1] = x
      OBVIOUS
    <3>3. \A x, y \in Nat :
            <<x, y>> \in Seq(Nat) /\ Len(<<x, y>>) = 2 /\ <<x, y>>[1] = x
      OBVIOUS
    <3>4. CASE base = <<6>>
      BY <3>2, <3>4
    <3>5. CASE base \in {<<1, 2>>, <<1, 3>>, <<1, 4>>, <<1, 5>>}
      <4>1. PICK y \in Nat : base = <<1, y>>
        BY <3>5
      <4> QED BY <3>3, <4>1
    <3> QED BY <3>1, <3>4, <3>5
  <2>2. Len(base) <= Len(p) /\ SubSeq(base, 1, Len(base)) = SubSeq(p, 1, Len(base))
    BY DEF Hits, IsStrictPrefix, IsPrefix
  <2>3. p[1] = base[1]
    <3>1. SubSeq(base, 1, Len(base))[1] = base[1]
      BY <2>1
    <3>2. SubSeq(p, 1, Len(base))[1] = p[1]
      BY <1>1, <2>1, <2>2
    <3> QED BY <2>2, <3>1, <3>2
  <2> QED BY <1>1, <2>1, <2>3 DEF Builtin, TopOf, Good, HasFixed, Show, No
<1>4. Top \in Parents(t, Head(n))
  BY DEF Parents
<1> QED BY <1>2, <1>3, <1>4, SearchResult

LEMMA FoundParent ==
  ASSUME NEW t, NEW n \in Nodes, Good(t)
  PROVE  /\ FindParent(t, Top, n) \in Parents(t, Head(n))
         /\ Builtin(t, OrElse(FindParent(t, No, n), No))
         /\ \A base \in Shown :
              /\ FindParentShow(t, base, n) = Top \/ Builtin(t, FindParentShow(t, base, n))
              /\ Builtin(t, base)
<1>1. Top \in Parents(t, Head(n))
  BY DEF Parents
<1>2. \A base \in Shown \cup {No} : Builtin(t, base)
  <2>1. \A base \in Shown \cup {No} : base \in DOMAIN t.cmds
    BY DEF Shown, Good, HasFixed, FixedCommands
  <2>2. \A base \in Shown \cup {No} : TopOf(t, base) \in {t.cmds[Show], t.cmds[No]}
    BY DEF Shown, TopOf, Show, No, ConfigCandidate, ConfigRunning, ConfigStartup,
           OperationalData
  <2> QED BY <2>1, <2>2 DEF Builtin, Good, HasFixed
<1>3. ASSUME ~Attached(n)
      PROVE  /\ FindParent(t, Top, n) \in Parents(t, Head(n))
             /\ Builtin(t, OrElse(FindParent(t, No, n), No))
  BY <1>1, <1>2, <1>3 DEF FindParent, OrElse
<1>4. ASSUME Attached(n)
      PROVE  /\ FindParent(t, Top, n) \in Parents(t, Head(n))
             /\ Builtin(t, OrElse(FindParent(t, No, n), No))
  <2>1. Parent(n) \in Nodes /\ Head(Parent(n)) = Head(n)
    BY <1>4, NodeFacts DEF Attached
  <2>2. Parent(Parent(n)) \in Nodes /\ Head(Parent(Parent(n))) = Head(n)
    BY <1>4, <2>1, NodeFacts DEF Attached
  <2>3. PICK k \in Nodes : /\ Head(k) = Head(n)
                           /\ FindParent(t, Top, n) = SearchCmds(t, Top, k)
                           /\ FindParent(t, No, n) = SearchCmds(t, No, k)
    BY <1>4, <2>1, <2>2 DEF FindParent
  <2> QED BY <1>2, <2>3, Searched DEF OrElse
<1>5. \A base \in Shown :
        FindParentShow(t, base, n) = Top \/ Builtin(t, FindParentShow(t, base, n))
  BY NodeFacts, Searched DEF FindParentShow
<1> QED BY <1>2, <1>3, <1>4, <1>5

LEMMA CommandTyped ==
  ASSUME NEW n \in Nodes, NEW name, NEW mode \in {CONFIG_MODE, MODE_ANY} \cup Nodes
  PROVE  Typed(Command(name, n, mode)) /\ Command(name, n, mode).hash = Head(n)
         /\ Head(n) \in Modules
BY NodeFacts DEF Typed, Command

LEMMA ModeTyped ==
  ASSUME NEW t, NEW n \in Nodes, Good(t), NEW p \in Parents(t, Head(n))
  PROVE  ModeUnder(t, p, n) \in {CONFIG_MODE, MODE_ANY} \cup Nodes
BY NodeFacts DEF ModeUnder, CurrMode, Parents, Good, Typed

-----------------------------------------------------------------------------
(* What the register_cmd_... functions do.                                 *)

(* A command and its counterpart under `no`.                               *)
LEMMA BothRegistered ==
  ASSUME NEW t, NEW m \in Modules, NEW p, NEW q, NEW c, Good(t),
         Typed(c), c.hash = m, p \in Parents(t, m), Builtin(t, q)
  PROVE  LET u == Register(Register(t, p, c), q, c)
         IN /\ Extended(t, u, m)
            /\ NewUnder(t, p) \in Parents(u, m)
            /\ Builtin(u, Append(q, t.next + 1))
<1> DEFINE r == Register(t, p, c)
           u == Register(r, q, c)
<1>1. Extended(t, r, m) /\ NewUnder(t, p) \in Parents(r, m)
  BY Registered
<1>2. Good(r) /\ Builtin(r, q)
  BY <1>1, GrowsKeeps DEF Extended
<1>3. Extended(r, u, m) /\ Builtin(u, NewUnder(r, q))
  BY <1>2, Registered
<1>4. Extended(t, u, m)
  BY <1>1, <1>3, ExtendedTwice
<1>5. NewUnder(t, p) \in Parents(u, m)
  BY <1>1, <1>2, <1>3, GrowsKeeps DEF Extended
<1>6. NewUnder(r, q) = Append(q, t.next + 1)
  BY DEF NewUnder, Register
<1> QED BY <1>3, <1>4, <1>5, <1>6

LEMMA ConfigRegistered ==
  ASSUME NEW t, NEW n \in Nodes, NEW name, Good(t)
  PROVE  Extended(t, RegisterConfig(t, n, name), Head(n))
<1> DEFINE parent == FindParent(t, Top, n)
           c == Command(name, n, ModeUnder(t, parent, n))
<1>1. parent \in Parents(t, Head(n)) /\ Builtin(t, OrElse(FindParent(t, No, n), No))
  BY FoundParent
<1>2. Typed(c) /\ c.hash = Head(n) /\ Head(n) \in Modules
  BY <1>1, ModeTyped, CommandTyped
<1> HIDE DEF parent, c
<1>3. Extended(t, Register(Register(t, parent, c), OrElse(FindParent(t, No, n), No), c), Head(n))
  BY <1>1, <1>2, BothRegistered
<1> QED BY <1>3 DEF RegisterConfig, parent, c

LEMMA LeafRegistered ==
  ASSUME NEW t, NEW n \in Nodes, Good(t)
  PROVE  Extended(t, RegisterLeaf(t, n), Head(n))
<1>1. Extended(t, t, Head(n))
  BY DEF Extended, Grows
<1> QED BY <1>1, ConfigRegistered DEF RegisterLeaf

LEMMA ShownRegistered ==
  ASSUME NEW t, NEW n \in Nodes, NEW base \in Shown, Good(t)
  PROVE  Extended(t, RegisterShown(t, base, n), Head(n))
<1> DEFINE p == FindParentShow(t, base, n)
           c == Command(PlainName(n), n, MODE_ANY)
<1>1. p = Top \/ Builtin(t, p)
  BY FoundParent
<1>2. Typed(c) /\ c.hash = Head(n) /\ Head(n) \in Modules
  BY CommandTyped
<1>5. Top \in Parents(t, Head(n))
  BY DEF Parents
<1>3. Extended(t, t, Head(n))
  BY DEF Extended, Grows
<1> HIDE DEF p, c
<1>4. Extended(t, Register(t, p, c), Head(n))
  BY <1>1, <1>2, <1>5, Registered
<1> QED BY <1>3, <1>4 DEF RegisterShown, p, c

LEMMA ListRegistered ==
  ASSUME NEW t, NEW n \in Nodes, Good(t)
  PROVE  Extended(t, RegisterList(t, n), Head(n))
<1> DEFINE oper == IF HasOperChildren(n) THEN RegisterShown(t, OperationalData, n) ELSE t
           u == RegisterShown(oper, ConfigCandidate, n)
           v == RegisterShown(u, ConfigRunning, n)
           w == RegisterShown(v, ConfigStartup, n)
<1>1. {ConfigCandidate, ConfigRunning, ConfigStartup, OperationalData} \subseteq Shown
  BY DEF Shown
<1>2. Extended(t, oper, Head(n))
  BY <1>1, ShownRegistered DEF Extended, Grows
<1> HIDE DEF oper
<1>3. Extended(oper, u, Head(n))
  BY <1>1, <1>2, ShownRegistered DEF Extended
<1> HIDE DEF u
<1>4. Extended(u, v, Head(n))
  BY <1>1, <1>3, ShownRegistered DEF Extended
<1> HIDE DEF v
<1>5. Extended(v, w, Head(n))
  BY <1>1, <1>4, ShownRegistered DEF Extended
<1> HIDE DEF w
<1>6. Extended(w, RegisterConfig(w, n, PlainName(n)), Head(n))
  BY <1>5, ConfigRegistered DEF Extended
<1>7. Extended(t, RegisterConfig(w, n, PlainName(n)), Head(n))
  BY <1>2, <1>3, <1>4, <1>5, <1>6, ExtendedTwice
<1> QED BY <1>2, <1>7 DEF RegisterList, oper, u, v, w

LEMMA ShowContainerRegistered ==
  ASSUME NEW t, NEW n \in Nodes, Good(t)
  PROVE  Extended(t, RegisterShowContainer(t, n), Head(n))
<1> DEFINE c     == Command(CmdName(n), n, MODE_ANY)
           diff  == [name |-> <<"diff">>, hash |-> "diff", mode |-> MODE_ANY, model |-> n]
           found == FindParentShow(t, ConfigCandidate, n)
           cand  == OrElse(found, ConfigCandidate)
           run   == IF found = Top THEN ConfigRunning
                    ELSE FindParentShow(t, ConfigRunning, n)
           start == IF found = Top THEN ConfigStartup
                    ELSE FindParentShow(t, ConfigStartup, n)
           u == Register(t, cand, c)
           v == Register(u, run, c)
           w == Register(v, start, c)
<1>1. Builtin(t, cand) /\ (run = Top \/ Builtin(t, run)) /\ (start = Top \/ Builtin(t, start))
  BY FoundParent DEF OrElse, Shown
<1>2. Typed(c) /\ c.hash = Head(n) /\ Typed(diff) /\ Head(n) \in Modules
  BY CommandTyped DEF Typed
<1>11. \A r : Top \in Parents(r, Head(n))
  BY DEF Parents
<1>3. RegisterShowContainer(t, n) = Register(w, NewUnder(t, cand), diff)
  BY DEF RegisterShowContainer
<1> HIDE DEF c, diff, found, cand, run, start
<1>4. Extended(t, u, Head(n)) /\ Builtin(u, NewUnder(t, cand))
  BY <1>1, <1>2, Registered
<1>5. Good(u) /\ (run = Top \/ Builtin(u, run)) /\ (start = Top \/ Builtin(u, start))
  BY <1>1, <1>4, GrowsKeeps DEF Extended
<1> HIDE DEF u
<1>6. Extended(u, v, Head(n))
  BY <1>2, <1>5, <1>11, Registered
<1>7. Good(v) /\ (start = Top \/ Builtin(v, start)) /\ Builtin(v, NewUnder(t, cand))
  BY <1>4, <1>5, <1>6, GrowsKeeps DEF Extended
<1> HIDE DEF v
<1>8. Extended(v, w, Head(n))
  BY <1>2, <1>7, <1>11, Registered
<1>9. Good(w) /\ Builtin(w, NewUnder(t, cand))
  BY <1>7, <1>8, GrowsKeeps DEF Extended
<1> HIDE DEF w
<1>10. Extended(w, Register(w, NewUnder(t, cand), diff), Head(n))
  BY <1>2, <1>9, Registered
<1> QED BY <1>3, <1>4, <1>6, <1>8, <1>10, ExtendedTwice

LEMMA ContainerRegistered ==
  ASSUME NEW t, NEW n \in Nodes, Good(t)
  PROVE  Extended(t, RegisterContainer(t, n), Head(n))
<1> DEFINE c == Command(CmdName(n), n, MODE_ANY)
           oper == IF HasOperChildren(n) /\ IsTop(n)
                   THEN Register(t, OperationalData, c) ELSE t
           shown == IF HasListInParents(n) THEN oper ELSE RegisterShowContainer(oper, n)
<1>1. Typed(c) /\ Head(n) \in Modules /\ Builtin(t, OperationalData)
  BY CommandTyped, FoundParent DEF Shown
<1>2. Extended(t, t, Head(n))
  BY DEF Extended, Grows
<1>3. Extended(t, oper, Head(n))
  <2> HIDE DEF c
  <2>1. Extended(t, Register(t, OperationalData, c), Head(n))
    BY <1>1, Registered
  <2> QED BY <1>2, <2>1
<1>4. RegisterContainer(t, n) = IF n \in ReadOnly \/ SharesName(n) THEN oper
                                ELSE RegisterConfig(shown, n, CmdName(n))
  BY DEF RegisterContainer
<1> HIDE DEF oper
<1>5. Extended(oper, shown, Head(n))
  BY <1>3, ShowContainerRegistered DEF Extended, Grows
<1> HIDE DEF shown
<1>6. Extended(shown, RegisterConfig(shown, n, CmdName(n)), Head(n))
  BY <1>5, ConfigRegistered DEF Extended
<1> QED BY <1>3, <1>4, <1>5, <1>6, ExtendedTwice

-----------------------------------------------------------------------------
(* The commands of print-order.                                            *)

LEMMA ChainStarts ==
  ASSUME NEW n \in Nodes
  PROVE  ChainStart(n) \in 2..Len(n)
<1> DEFINE S == {i \in Depths(n) : i = 2 \/ Kind[Upto(n, i - 1)] = "list"}
<1>1. Len(n) \in Nat /\ Len(n) >= 2
  BY NodeFacts
<1>2. S \subseteq 0..Len(n) /\ 2 \in S
  BY <1>1 DEF Depths
<1>3. PICK m \in S : \A i \in S : i <= m
  <2> HIDE DEF S
  <2>1. S # {}
    BY <1>2
  <2> QED BY <1>1, <1>2, <2>1, GreatestExists
<1>4. m \in 2..Len(n)
  BY <1>3 DEF Depths
<1>5. ASSUME NEW j \in m..(Len(n) - 1) PROVE Kind[Upto(n, j)] # "list"
  <2>1. j + 1 \in 2..Len(n) /\ ~ (j + 1 <= m) /\ (j + 1) - 1 = j
    BY <1>1, <1>4
  <2>2. j + 1 \notin S
    BY <1>3, <2>1
  <2> QED BY <2>1, <2>2 DEF Depths
<1>6. \E i \in Depths(n) :
        /\ i = 2 \/ Kind[Upto(n, i - 1)] = "list"
        /\ \A j \in i..(Len(n) - 1) : Kind[Upto(n, j)] # "list"
  BY <1>3, <1>5
<1>7. ChainStart(n) \in Depths(n)
  BY <1>6 DEF ChainStart
<1> QED BY <1>7 DEF Depths

ChainPath(p, b, k) == p \o [i \in 1..k |-> b + i - 1]

LEMMA ChainPaths ==
  ASSUME NEW p \in Seq(Nat), Len(p) = 1, NEW b \in Nat, NEW k \in Nat, k >= 1
  PROVE  /\ ChainPath(p, b, k) \in Seq(Nat) /\ Len(ChainPath(p, b, k)) = k + 1
         /\ ChainPath(p, b, k)[1] = p[1] /\ ChainPath(p, b, k)[k + 1] = b + k - 1
         /\ \A i \in 2..(k + 1) : ChainPath(p, b, k)[i] = b + i - 2
         /\ Front(ChainPath(p, b, k)) = IF k = 1 THEN p ELSE ChainPath(p, b, k - 1)
<1> DEFINE w(j) == [i \in 1..j |-> b + i - 1]
           q(j) == p \o w(j)
<1>1. ASSUME NEW j \in Nat
      PROVE  q(j) \in Seq(Nat) /\ Len(q(j)) = j + 1 /\ q(j)[1] = p[1]
             /\ \A i \in 2..(j + 1) : q(j)[i] = b + i - 2
  <2>1. \A i \in 1..j : b + i - 1 \in Nat
    OBVIOUS
  <2>2. w(j) \in Seq(Nat) /\ Len(w(j)) = j /\ \A i \in 1..j : w(j)[i] = b + i - 1
    BY <2>1
  <2> HIDE DEF w
  <2>3. /\ q(j) \in Seq(Nat) /\ Len(q(j)) = Len(p) + Len(w(j))
        /\ \A i \in 1..(Len(p) + Len(w(j))) :
              q(j)[i] = IF i <= Len(p) THEN p[i] ELSE w(j)[i - Len(p)]
    <3>1. w(j) \in Seq(Nat)
      BY <2>2
    <3> QED BY <3>1, ConcatProperties, Zenon
  <2> HIDE DEF q
  <2>4. q(j) \in Seq(Nat) /\ Len(q(j)) = 1 + j
        /\ \A i \in 1..(1 + j) : q(j)[i] = IF i <= 1 THEN p[i] ELSE w(j)[i - 1]
    BY <2>2, <2>3
  <2>5. q(j)[1] = p[1]
    BY <2>4
  <2>6. ASSUME NEW i \in 2..(j + 1) PROVE q(j)[i] = b + i - 2
    <3>1. i \in 1..(1 + j) /\ ~ (i <= 1) /\ i - 1 \in 1..j /\ b + (i - 1) - 1 = b + i - 2
      OBVIOUS
    <3> QED BY <2>2, <2>4, <3>1
  <2> QED BY <2>4, <2>5, <2>6
<1>2. q(0) = p
  <2>1. q(0) \in Seq(Nat) /\ Len(q(0)) = 1 /\ q(0)[1] = p[1]
    <3>1. 0 \in Nat /\ 0 + 1 = 1
      OBVIOUS
    <3> HIDE DEF q
    <3>2. q(0) \in Seq(Nat) /\ Len(q(0)) = 0 + 1 /\ q(0)[1] = p[1]
      BY <1>1, <3>1, Zenon
    <3> QED BY <3>1, <3>2
  <2> HIDE DEF q
  <2>2. \A i \in 1..Len(q(0)) : q(0)[i] = p[i]
    BY <2>1
  <2> QED BY <2>1, <2>2, SeqEqual, Zenon
<1> HIDE DEF q
<1>3. Front(q(k)) = q(k - 1)
  <2> DEFINE f == SubSeq(q(k), 1, k)
  <2>1. q(k) \in Seq(Nat) /\ Len(q(k)) = k + 1
        /\ q(k)[1] = p[1] /\ \A i \in 2..(k + 1) : q(k)[i] = b + i - 2
    BY <1>1
  <2>2. f \in Seq(Nat) /\ Len(f) = k /\ \A i \in 1..k : f[i] = q(k)[i]
    BY <2>1
  <2>3. /\ q(k - 1) \in Seq(Nat) /\ Len(q(k - 1)) = k
        /\ q(k - 1)[1] = p[1] /\ \A i \in 2..k : q(k - 1)[i] = b + i - 2
    <3>1. k - 1 \in Nat /\ (k - 1) + 1 = k
      OBVIOUS
    <3>2. q(k - 1) \in Seq(Nat) /\ Len(q(k - 1)) = (k - 1) + 1 /\ q(k - 1)[1] = p[1]
          /\ \A i \in 2..((k - 1) + 1) : q(k - 1)[i] = b + i - 2
      BY <1>1, <3>1, Zenon
    <3> QED BY <3>1, <3>2
  <2>4. \A i \in 1..Len(f) : f[i] = q(k - 1)[i]
    <3>1. ASSUME NEW i \in 1..k PROVE q(k)[i] = q(k - 1)[i]
      <4>1. CASE i = 1
        BY <2>1, <2>3, <4>1
      <4>2. CASE i # 1
        <5>1. i \in 2..k /\ i \in 2..(k + 1)
          BY <4>2
        <5> QED BY <2>1, <2>3, <5>1
      <4> QED BY <4>1, <4>2
    <3> QED BY <2>2, <3>1
  <2>5. f = q(k - 1)
    <3> HIDE DEF f
    <3> QED BY <2>2, <2>3, <2>4, SeqEqual, Zenon
  <2>6. Len(q(k)) - 1 = k
    BY <2>1
  <2> QED BY <2>5, <2>6 DEF Front
<1>4. k = 1 => q(k - 1) = p
  BY <1>2
<1>5. k + 1 \in 2..(k + 1) /\ b + (k + 1) - 2 = b + k - 1
  OBVIOUS
<1>6. q(k)[k + 1] = b + k - 1
  BY <1>1, <1>5
<1>7. q(k) = ChainPath(p, b, k) /\ q(k - 1) = ChainPath(p, b, k - 1)
  BY DEF ChainPath, q
<1>8. /\ q(k) \in Seq(Nat) /\ Len(q(k)) = k + 1 /\ q(k)[1] = p[1]
      /\ \A i \in 2..(k + 1) : q(k)[i] = b + i - 2
  BY <1>1
<1> HIDE DEF q
<1>9. Front(q(k)) = IF k = 1 THEN p ELSE q(k - 1)
  BY <1>3, <1>4
<1> QED BY <1>6, <1>7, <1>8, <1>9

(* What register_print_order adds below the command of the mode.           *)
LEMMA ChainRegistered ==
  ASSUME NEW t, NEW n \in Nodes, NEW p \in DOMAIN t.cmds, Good(t), Len(p) = 1,
         t.cmds[p].name = <<"print-order">>,
         NEW mode \in {CONFIG_MODE, MODE_ANY} \cup Nodes
  PROVE  Extended(t, RegisterChain(t, p, n, mode), Head(n))
<1> DEFINE start == ChainStart(n)
           L == Len(n) - start + 1
           Q(k) == ChainPath(p, t.next, k)
           depth(q) == start + Len(q) - Len(p) - 1
           new == {Q(k) : k \in 1..L}
           At(q) == Command(PlainName(Upto(n, depth(q))), Upto(n, depth(q)), mode)
           u == RegisterChain(t, p, n, mode)
<1>1. /\ p \in Seq(Nat) /\ t.next \in Nat /\ p[1] \in Nat /\ p[1] < t.next
      /\ start \in 2..Len(n) /\ Len(n) \in Nat /\ L \in Nat /\ p = <<p[1]>>
  <2>1. p \in Seq(Nat) /\ t.next \in Nat /\ \A i \in DOMAIN p : p[i] < t.next
    BY DEF Good, Shape
  <2>2. 1 \in DOMAIN p /\ p[1] \in Nat
    <3>1. DOMAIN p = 1..Len(p) /\ 1 \in 1..Len(p)
      BY <2>1, LenProperties
    <3>2. p[1] \in Nat
      BY <2>1, <3>1, ElementOfSeq, Zenon
    <3> QED BY <3>1, <3>2
  <2>3. p = <<p[1]>>
    <3>1. <<p[1]>> \in Seq(Nat) /\ Len(<<p[1]>>) = 1 /\ <<p[1]>>[1] = p[1]
      BY <2>2
    <3>2. \A i \in 1..Len(p) : p[i] = <<p[1]>>[i]
      BY <3>1
    <3> QED BY <2>1, <3>1, <3>2, SeqEqual, Zenon
  <2>4. start \in 2..Len(n) /\ Len(n) \in Nat
    BY ChainStarts, NodeFacts
  <2>5. L \in Nat
    BY <2>4
  <2> QED BY <2>1, <2>2, <2>3, <2>4, <2>5
<1>2. /\ u.cmds = [q \in DOMAIN t.cmds \cup new |-> IF q \in new THEN At(q) ELSE t.cmds[q]]
      /\ u.next = t.next + Len(n) - start + 1
  BY DEF RegisterChain, ChainPath
<1>3. u.next = t.next + L
  <2>1. \A a, b, c \in Nat : a + b - c + 1 = a + (b - c + 1)
    OBVIOUS
  <2>2. start \in Nat
    BY <1>1
  <2>3. t.next + Len(n) - start + 1 = t.next + (Len(n) - start + 1)
    BY <1>1, <2>1, <2>2, Zenon
  <2> QED BY <1>2, <2>3, Zenon
<1> HIDE DEF start, L, u
<1>4. ASSUME NEW k \in 1..L
      PROVE  /\ k \in Nat /\ k >= 1
             /\ Q(k) \in Seq(Nat) /\ Len(Q(k)) = k + 1 /\ Q(k)[1] = p[1]
             /\ Q(k)[k + 1] = t.next + k - 1
             /\ \A i \in 2..(k + 1) : Q(k)[i] = t.next + i - 2
             /\ Front(Q(k)) = IF k = 1 THEN p ELSE Q(k - 1)
  <2>1. k \in Nat /\ k >= 1
    BY <1>1
  <2>2. p \in Seq(Nat) /\ t.next \in Nat
    BY <1>1
  <2> QED BY <2>1, <2>2, ChainPaths
<1> HIDE DEF Q
<1>5. ASSUME NEW k \in 1..L PROVE Q(k) \notin DOMAIN t.cmds
  <2>1. k + 1 \in DOMAIN Q(k) /\ ~ (t.next + k - 1 < t.next)
    BY <1>1, <1>4, LenProperties
  <2> QED BY <1>4, <2>1 DEF Good, Shape
<1>6. ASSUME NEW k \in 1..L
      PROVE  /\ Typed(At(Q(k))) /\ At(Q(k)).hash = Head(n)
             /\ TopOf(t, p) = t.cmds[p]
             /\ <<Q(k)[1]>> = p
  <2>1. depth(Q(k)) \in 2..Len(n)
    <3>1. \A a, b \in Nat : a + (b + 1) - 1 - 1 = a + b - 1
      OBVIOUS
    <3>2. start \in Nat /\ k \in Nat /\ Len(Q(k)) = k + 1
      <4>1. start \in Nat
        BY <1>1
      <4> QED BY <1>4, <4>1, Zenon
    <3>3. depth(Q(k)) = start + k - 1
      BY <3>1, <3>2, Zenon
    <3>4. start + k - 1 \in 2..Len(n)
      BY <1>1 DEF L
    <3> QED BY <3>3, <3>4, Zenon
  <2>2. Upto(n, depth(Q(k))) \in Nodes /\ Head(Upto(n, depth(Q(k)))) = Head(n)
    BY <2>1, NodeFacts
  <2> QED BY <1>1, <1>4, <2>2, CommandTyped DEF TopOf
<1>7. /\ DOMAIN u.cmds = DOMAIN t.cmds \cup new
      /\ \A r \in DOMAIN t.cmds : u.cmds[r] = t.cmds[r]
      /\ \A q \in new : u.cmds[q] = At(q)
  BY <1>2, <1>5
<1>8. Shape(u)
  <2>1. u.next \in Nat /\ DOMAIN u.cmds \subseteq Seq(Nat)
    BY <1>1, <1>3, <1>4, <1>7 DEF Good, Shape
  <2>2. ASSUME NEW r \in DOMAIN t.cmds
        PROVE  /\ r # <<>> /\ Front(r) \in DOMAIN u.cmds \cup {Top} /\ <<r[1]>> \in DOMAIN u.cmds
               /\ \A i \in DOMAIN r : r[i] < u.next
    <3>1. /\ r # <<>> /\ Front(r) \in DOMAIN u.cmds \cup {Top} /\ <<r[1]>> \in DOMAIN u.cmds
          /\ \A i \in DOMAIN r : r[i] < t.next
      BY <1>7 DEF Good, Shape
    <3>2. ASSUME NEW i \in DOMAIN r PROVE r[i] \in Nat
      <4>1. r \in Seq(Nat)
        BY DEF Good, Shape
      <4> QED BY <4>1, LenProperties, ElementOfSeq
    <3> QED BY <1>1, <1>3, <3>1, <3>2
  <2>3. ASSUME NEW k \in 1..L
        PROVE  /\ Q(k) # <<>> /\ Front(Q(k)) \in DOMAIN u.cmds \cup {Top}
               /\ <<Q(k)[1]>> \in DOMAIN u.cmds
               /\ \A i \in DOMAIN Q(k) : Q(k)[i] < u.next
    <3>1. Q(k) # <<>>
      BY <1>4
    <3>2. Front(Q(k)) \in DOMAIN u.cmds
      <4>1. CASE k = 1
        BY <1>4, <1>7, <4>1
      <4>2. CASE k # 1
        <5>1. k - 1 \in 1..L
          BY <1>1, <1>4, <4>2
        <5> QED BY <1>4, <1>7, <4>2, <5>1
      <4> QED BY <4>1, <4>2
    <3>3. <<Q(k)[1]>> \in DOMAIN u.cmds
      BY <1>6, <1>7
    <3>4. ASSUME NEW i \in DOMAIN Q(k) PROVE Q(k)[i] < u.next
      <4>1. i \in 1..(k + 1)
        BY <1>4, LenProperties
      <4>2. CASE i = 1
        <5>1. p[1] < t.next + L
          BY <1>1
        <5> QED BY <1>3, <1>4, <4>2, <5>1, Zenon
      <4>3. CASE i # 1
        <5>1. i \in 2..(k + 1)
          BY <4>1, <4>3
        <5>2. Q(k)[i] = t.next + i - 2
          BY <1>4, <5>1
        <5>3. \A a, b, c, d \in Nat : c \in 1..d /\ b \in 2..(c + 1) => a + b - 2 < a + d
          OBVIOUS
        <5>4. t.next \in Nat /\ i \in Nat /\ k \in Nat /\ L \in Nat
          BY <1>1, <5>1
        <5>5. t.next + i - 2 < t.next + L
          BY <5>1, <5>3, <5>4, Zenon
        <5> QED BY <1>3, <5>2, <5>5, Zenon
      <4> QED BY <4>2, <4>3
    <3> QED BY <3>1, <3>2, <3>3, <3>4
  <2> QED BY <1>7, <2>1, <2>2, <2>3 DEF Shape
<1>9. OneModule(u)
  <2>1. ASSUME NEW r \in DOMAIN t.cmds
        PROVE  TopOf(u, r).hash \in Modules /\ TopOf(u, r).name # <<"print-order">>
                 => u.cmds[r].hash = TopOf(u, r).hash
    <3>1. TopOf(u, r) = TopOf(t, r) /\ u.cmds[r] = t.cmds[r]
      BY <1>7 DEF TopOf, Good, Shape
    <3> QED BY <3>1 DEF Good, OneModule
  <2>2. ASSUME NEW k \in 1..L PROVE TopOf(u, Q(k)).name = <<"print-order">>
    BY <1>6, <1>7 DEF TopOf
  <2> QED BY <1>7, <2>1, <2>2 DEF OneModule
<1>10. HasFixed(u) /\ \A r \in DOMAIN u.cmds : Typed(u.cmds[r])
  <2>1. Show \in DOMAIN t.cmds /\ No \in DOMAIN t.cmds
    BY DEF Good, HasFixed, FixedCommands
  <2> QED BY <1>6, <1>7, <2>1 DEF Good, HasFixed
<1>11. \A q \in new : Len(q) # 1
  BY <1>4
<1> QED BY <1>7, <1>8, <1>9, <1>10, <1>11 DEF Extended, Good, Grows, u

(* register_print_order: its command, and the chain below it.              *)
LEMMA PrintOrderRegistered ==
  ASSUME NEW t, NEW n \in Nodes, Good(t), NEW po \in DOMAIN t.cmds \cup {NULL, Freed},
         PointerOK(t, po), NEW mode \in {CONFIG_MODE, MODE_ANY} \cup Nodes
  PROVE  LET u == RegisterPrintOrder(t, po, n, mode)
             root == PrintOrderRoot(t, po, mode)
         IN Extended(t, u, Head(n)) /\ root \in DOMAIN u.cmds /\ PointerOK(u, root)
<1> DEFINE v == WithPrintOrder(t, po, n, mode)
           root == PrintOrderRoot(t, po, mode)
           u == RegisterChain(v, root, n, mode)
           c == [name |-> <<"print-order">>, hash |-> Head(n), mode |-> mode, model |-> NULL]
<1>1. /\ Extended(t, v, Head(n))
      /\ root \in DOMAIN v.cmds /\ Len(root) = 1 /\ v.cmds[root].name = <<"print-order">>
  <2>1. CASE Shared(t, po, mode)
    <3>1. v = t /\ root = po /\ po \in DOMAIN t.cmds
      BY <2>1 DEF WithPrintOrder, PrintOrderRoot, Shared
    <3>2. Extended(t, t, Head(n))
      BY DEF Extended, Grows
    <3> QED BY <3>1, <3>2 DEF PointerOK
  <2>2. CASE ~Shared(t, po, mode)
    <3>1. v = Register(t, Top, c) /\ root = NewUnder(t, Top)
      BY <2>2 DEF WithPrintOrder, PrintOrderRoot
    <3>2. Typed(c) /\ c.hash = Head(n) /\ Head(n) \in Modules /\ c.name = <<"print-order">>
      BY NodeFacts DEF Typed
    <3>5. Top \in Parents(t, Head(n))
      BY DEF Parents
    <3>3. Len(NewUnder(t, Top)) = 1
      BY DEF NewUnder, Top, Good, Shape
    <3> HIDE DEF c, v, root
    <3>4. Extended(t, Register(t, Top, c), Head(n))
          /\ NewUnder(t, Top) \in DOMAIN Register(t, Top, c).cmds
          /\ Register(t, Top, c).cmds[NewUnder(t, Top)] = c
      BY <3>2, <3>5, Registered
    <3> QED BY <3>1, <3>2, <3>3, <3>4
  <2> QED BY <2>1, <2>2
<1>2. RegisterPrintOrder(t, po, n, mode) = u
  BY DEF RegisterPrintOrder
<1> HIDE DEF v, root
<1>3. Extended(v, u, Head(n))
  BY <1>1, ChainRegistered DEF Extended
<1>4. Extended(t, u, Head(n))
  BY <1>1, <1>3, ExtendedTwice
<1>5. root \in DOMAIN u.cmds /\ PointerOK(u, root)
  BY <1>1, <1>3 DEF Extended, Grows, PointerOK
<1> QED BY <1>2, <1>4, <1>5 DEF root

-----------------------------------------------------------------------------
(* Choices.                                                                *)

LEMMA FrameKept ==
  ASSUME NEW t, NEW u, NEW k, Good(t), Extended(t, u, k), NEW f, NEW m, FrameOK(t, f, m)
  PROVE  FrameOK(u, f, m)
BY GrowsKeeps DEF Extended, FrameOK

LEMMA ChoiceRegistered ==
  ASSUME NEW t, NEW n \in Nodes, NEW f, Good(t), FrameOK(t, f, Head(n))
  PROVE  /\ Extended(t, RegisterBoth(t, f, n), Head(n))
         /\ FrameOK(RegisterBoth(t, f, n), FrameBelow(t, f, n), Head(n))
<1> DEFINE c == Command(PlainName(n), n, f.mode)
<1>1. Typed(c) /\ c.hash = Head(n) /\ Head(n) \in Modules
  BY CommandTyped DEF FrameOK
<1>2. f.cmd \in Parents(t, Head(n)) /\ Builtin(t, f.no_cmd)
  BY DEF FrameOK
<1>3. RegisterBoth(t, f, n) = Register(Register(t, f.cmd, c), f.no_cmd, c)
  BY DEF RegisterBoth
<1> HIDE DEF c
<1>4. LET u == Register(Register(t, f.cmd, c), f.no_cmd, c)
      IN /\ Extended(t, u, Head(n))
         /\ NewUnder(t, f.cmd) \in Parents(u, Head(n))
         /\ Builtin(u, Append(f.no_cmd, t.next + 1))
  BY <1>1, <1>2, BothRegistered
<1> QED BY <1>3, <1>4 DEF FrameOK, FrameBelow

(* The walk comes to a case only from its choice, and to a choice in a     *)
(* case only from the case.                                                *)
LEMMA ParentVisited ==
  ASSUME NEW n \in Nodes, Visited(n), ~IsTop(n), Kind[Parent(n)] \in {"choice", "case"}
  PROVE  Parent(n) \in DOMAIN frame
<1>1. Len(n) - 1 \in 2..(Len(n) - 1) /\ Parent(n) = Upto(n, Len(n) - 1)
  <2>1. Len(n) \in Nat /\ Len(n) >= 2 /\ Len(n) # 2
    BY NodeFacts DEF IsTop
  <2>2. \A k \in Nat : k >= 2 /\ k # 2 => k - 1 \in 2..(k - 1)
    OBVIOUS
  <2>3. Len(n) - 1 \in 2..(Len(n) - 1)
    BY <2>1, <2>2, Zenon
  <2> QED BY <2>3 DEF Parent, Front, Upto
<1>2. ~ \E j \in ((Len(n) - 1) + 1)..(Len(n) - 1) : TRUE
  BY NodeFacts
<1> QED BY <1>1, <1>2 DEF Visited

LEMMA ChoiceFrameOK ==
  ASSUME NEW n \in Nodes, Good(tree), FramesOK, Visited(n)
  PROVE  FrameOK(tree, ChoiceFrame(tree, n), Head(n))
<1>1. CASE Nested(n)
  <2>1. ~IsTop(n) /\ Kind[Parent(n)] = "case" /\ Parent(n) \in Nodes
        /\ Head(Parent(n)) = Head(n)
    BY <1>1, NodeFacts DEF Nested
  <2>2. Parent(n) \in DOMAIN frame
    BY <2>1, ParentVisited
  <2> QED BY <1>1, <2>1, <2>2 DEF ChoiceFrame, FramesOK
<1>2. CASE ~Nested(n)
  <2> DEFINE parent == FindParent(tree, Top, n)
  <2>1. parent \in Parents(tree, Head(n)) /\ Builtin(tree, OrElse(FindParent(tree, No, n), No))
    BY FoundParent
  <2>2. ModeUnder(tree, parent, n) \in {CONFIG_MODE, MODE_ANY} \cup Nodes
    BY <2>1, ModeTyped
  <2>3. ChoiceFrame(tree, n) = [cmd |-> parent, no_cmd |-> OrElse(FindParent(tree, No, n), No),
                                mode |-> ModeUnder(tree, parent, n)]
    BY <1>2 DEF ChoiceFrame
  <2> QED BY <2>1, <2>2, <2>3 DEF FrameOK
<1> QED BY <1>1, <1>2

-----------------------------------------------------------------------------
(* Removing commands.                                                      *)

(* What is left has the contents it had, and what is gone was below a      *)
(* command of the top level of module m.                                   *)
Shrinks(t, u, m) ==
  /\ DOMAIN u.cmds \subseteq DOMAIN t.cmds
  /\ \A p \in DOMAIN u.cmds : u.cmds[p] = t.cmds[p]
  /\ \A p \in DOMAIN t.cmds \ DOMAIN u.cmds : TopOf(t, p).hash = m

LEMMA ShrinksTwice ==
  ASSUME NEW t, NEW u, NEW v, NEW m, Good(u), Shrinks(t, u, m), Shrinks(u, v, m)
  PROVE  Shrinks(t, v, m)
<1>1. \A p \in DOMAIN u.cmds : TopOf(u, p) = TopOf(t, p)
  BY DEF Good, Shape, Shrinks, TopOf
<1> QED BY <1>1 DEF Shrinks

(* For one command p of the top level: q is below p when it begins like p. *)
LEMMA FreedBelow ==
  ASSUME NEW t, Good(t), NEW p \in DOMAIN t.cmds, Len(p) = 1
  PROVE  p = <<p[1]>> /\ \A q \in DOMAIN t.cmds : IsPrefix(p, q) <=> q[1] = p[1]
<1>1. p \in Seq(Nat) /\ p[1] \in Nat
  <2>1. p \in Seq(Nat)
    BY DEF Good, Shape
  <2>2. DOMAIN p = 1..Len(p) /\ 1 \in 1..Len(p)
    BY <2>1, LenProperties
  <2> QED BY <2>1, <2>2, ElementOfSeq, Zenon
<1>2. SubSeq(p, 1, 1) \in Seq(Nat) /\ Len(SubSeq(p, 1, 1)) = 1 /\ SubSeq(p, 1, 1)[1] = p[1]
  BY <1>1
<1>3. ASSUME NEW q \in DOMAIN t.cmds
      PROVE  /\ q \in Seq(Nat) /\ Len(q) \in Nat /\ Len(q) >= 1
             /\ SubSeq(q, 1, 1) \in Seq(Nat) /\ Len(SubSeq(q, 1, 1)) = 1
             /\ SubSeq(q, 1, 1)[1] = q[1]
  <2>1. q \in Seq(Nat) /\ q # <<>>
    BY DEF Good, Shape
  <2>2. Len(q) \in Nat /\ Len(q) >= 1
    BY <2>1, EmptySeq
  <2> QED BY <2>1, <2>2
<1>4. ASSUME NEW q \in DOMAIN t.cmds PROVE IsPrefix(p, q) <=> q[1] = p[1]
  <2>1. IsPrefix(p, q) <=> SubSeq(p, 1, 1) = SubSeq(q, 1, 1)
    BY <1>3 DEF IsPrefix
  <2>2. ASSUME q[1] = p[1] PROVE SubSeq(p, 1, 1) = SubSeq(q, 1, 1)
    <3>1. \A i \in 1..Len(SubSeq(p, 1, 1)) : SubSeq(p, 1, 1)[i] = SubSeq(q, 1, 1)[i]
      BY <1>2, <1>3, <2>2
    <3> QED BY <1>2, <1>3, <3>1, SeqEqual, Zenon
  <2> QED BY <1>2, <1>3, <2>1, <2>2
<1>5. p = <<p[1]>>
  <2>1. <<p[1]>> \in Seq(Nat) /\ Len(<<p[1]>>) = 1 /\ <<p[1]>>[1] = p[1]
    BY <1>1
  <2>2. \A i \in 1..Len(p) : p[i] = <<p[1]>>[i]
    BY <2>1
  <2> QED BY <1>1, <2>1, <2>2, SeqEqual, Zenon
<1> QED BY <1>4, <1>5

LEMMA FrontFirst ==
  ASSUME NEW p \in Seq(Nat), p # <<>>, Front(p) # <<>>
  PROVE  Front(p)[1] = p[1]
<1>1. Len(p) \in Nat /\ Len(p) >= 1
  BY EmptySeq
<1>2. CASE Len(p) = 1
  <2>1. Len(SubSeq(p, 1, 0)) = 0 /\ SubSeq(p, 1, 0) \in Seq(Nat)
    BY <1>1
  <2> QED BY <1>2, <2>1, EmptySeq DEF Front
<1>3. CASE Len(p) # 1
  <2>1. Len(p) - 1 \in Nat /\ Len(p) - 1 >= 1 /\ Len(p) - 1 <= Len(p)
    <3>1. \A k \in Nat : k >= 1 /\ k # 1 => k - 1 \in Nat /\ k - 1 >= 1 /\ k - 1 <= k
      OBVIOUS
    <3> QED BY <1>1, <1>3, <3>1, Zenon
  <2>2. SubSeq(p, 1, Len(p) - 1)[1] = p[1]
    BY <1>1, <2>1
  <2> QED BY <2>2 DEF Front
<1> QED BY <1>2, <1>3

LEMMA Freeing ==
  ASSUME NEW t, Good(t), NEW p \in DOMAIN t.cmds, Len(p) = 1, t.cmds[p].hash \in Modules
  PROVE  LET u == FreeCommand(t, p)
         IN Good(u) /\ Shrinks(t, u, t.cmds[p].hash)
<1> DEFINE u == FreeCommand(t, p)
<1>1. p = <<p[1]>> /\ \A q \in DOMAIN t.cmds : IsPrefix(p, q) <=> q[1] = p[1]
  BY FreedBelow
<1>2. /\ u.next = t.next
      /\ DOMAIN u.cmds = {q \in DOMAIN t.cmds : q[1] # p[1]}
      /\ \A q \in DOMAIN u.cmds : u.cmds[q] = t.cmds[q]
  BY <1>1 DEF FreeCommand
<1> HIDE DEF u
<1>3. ASSUME NEW q \in DOMAIN u.cmds PROVE <<q[1]>> \in DOMAIN u.cmds
  <2>1. <<q[1]>> \in DOMAIN t.cmds /\ <<q[1]>>[1] = q[1]
    BY <1>2 DEF Good, Shape
  <2> QED BY <1>2, <2>1
<1>4. ASSUME NEW q \in DOMAIN u.cmds PROVE Front(q) \in DOMAIN u.cmds \cup {Top}
  <2>1. q \in Seq(Nat) /\ q # <<>> /\ Front(q) \in DOMAIN t.cmds \cup {Top}
    BY <1>2 DEF Good, Shape
  <2> QED BY <1>2, <2>1, FrontFirst DEF Top
<1>5. \A q \in DOMAIN u.cmds : TopOf(u, q) = TopOf(t, q)
  BY <1>2, <1>3 DEF TopOf
<1>6. Shape(u)
  BY <1>2, <1>3, <1>4 DEF Good, Shape
<1>7. OneModule(u)
  BY <1>2, <1>5 DEF Good, OneModule
<1>8. HasFixed(u)
  <2>1. p # Show /\ p # No
    BY SchemaAssumption DEF Good, HasFixed
  <2>2. Show[1] = 1 /\ No[1] = 6 /\ p[1] \notin {1, 6}
    BY <1>1, <2>1 DEF Show, No
  <2>3. \A q \in DOMAIN FixedCommands : q[1] \in {1, 6}
    BY DEF FixedCommands, Show, No, ConfigCandidate, ConfigRunning, ConfigStartup,
           OperationalData
  <2>4. DOMAIN FixedCommands \subseteq DOMAIN u.cmds
    BY <1>2, <2>2, <2>3 DEF Good, HasFixed
  <2>5. Show \in DOMAIN u.cmds /\ No \in DOMAIN u.cmds
    BY <2>4 DEF FixedCommands
  <2> QED BY <1>2, <2>4, <2>5 DEF Good, HasFixed
<1>9. Good(u)
  BY <1>2, <1>6, <1>7, <1>8 DEF Good
<1>10. Shrinks(t, u, t.cmds[p].hash)
  BY <1>1, <1>2 DEF Shrinks, TopOf
<1> QED BY <1>9, <1>10 DEF u

LEMMA Unregistered ==
  ASSUME NEW t, Good(t), NEW m \in Modules, NEW name
  PROVE  LET u == Unregister(t, name, m) IN Good(u) /\ Shrinks(t, u, m)
<1> DEFINE F(p) == \A q \in Named(t, name, m) : p[1] <= q[1]
           p0 == CHOOSE p \in Named(t, name, m) : F(p)
<1>1. CASE \E p \in Named(t, name, m) : F(p)
  <2>1. p0 \in Named(t, name, m)
    BY <1>1
  <2>2. Unregister(t, name, m) = FreeCommand(t, p0)
    BY <1>1 DEF Unregister
  <2> HIDE DEF p0
  <2>3. p0 \in DOMAIN t.cmds /\ Len(p0) = 1 /\ t.cmds[p0].hash = m
    BY <2>1 DEF Named
  <2> QED BY <2>2, <2>3, Freeing
<1>2. CASE ~ \E p \in Named(t, name, m) : F(p)
  <2>1. Unregister(t, name, m) = t
    BY <1>2 DEF Unregister
  <2> QED BY <2>1 DEF Shrinks
<1> QED BY <1>1, <1>2

LEMMA NodeRemoved ==
  ASSUME NEW t, Good(t), NEW n \in Nodes
  PROVE  LET u == WithoutNode(t, n) IN Good(u) /\ Shrinks(t, u, Head(n))
<1> DEFINE v == IF n \in UserOrdered THEN Unregister(t, <<"print-order">>, Head(n)) ELSE t
           u == Unregister(v, CmdName(n), Head(n))
<1>1. Head(n) \in Modules
  BY NodeFacts
<1>2. Good(v) /\ Shrinks(t, v, Head(n))
  BY <1>1, Unregistered DEF Shrinks
<1>3. WithoutNode(t, n) = u
  BY DEF WithoutNode
<1> HIDE DEF v
<1>4. Good(u) /\ Shrinks(v, u, Head(n))
  BY <1>1, <1>2, Unregistered
<1> QED BY <1>2, <1>3, <1>4, ShrinksTwice

-----------------------------------------------------------------------------
(* The initial state.                                                      *)

LEMMA FixedGood == Good(FixedTree)
<1> DEFINE D == {<<1>>, <<1, 2>>, <<1, 3>>, <<1, 4>>, <<1, 5>>, <<6>>}
<1>1. DOMAIN FixedTree.cmds = D /\ DOMAIN FixedCommands = D /\ FixedTree.next = 7
  BY DEF FixedTree, FixedCommands, Show, No, ConfigCandidate, ConfigRunning,
         ConfigStartup, OperationalData
<1>2. \A p \in D :
        /\ FixedTree.cmds[p].hash \in {NoHash, "config-candidate", "config-running"}
        /\ FixedTree.cmds[p].mode = MODE_ANY /\ FixedTree.cmds[p].model = NULL
  BY DEF FixedTree, FixedCommands, Show, No, ConfigCandidate, ConfigRunning,
         ConfigStartup, OperationalData
<1>3. FixedTree.cmds[Show].hash = NoHash /\ FixedTree.cmds[No].hash = NoHash
  <2>1. /\ \A p \in {ConfigCandidate, ConfigRunning, ConfigStartup, OperationalData} :
             p # Show /\ p # No
        /\ Show # No
    BY DEF Show, No, ConfigCandidate, ConfigRunning, ConfigStartup, OperationalData
  <2>2. FixedTree.cmds[Show] =
          [name |-> <<"show">>, hash |-> NoHash, mode |-> MODE_ANY, model |-> NULL]
    BY <2>1 DEF FixedTree, FixedCommands
  <2>3. FixedTree.cmds[No] =
          [name |-> <<"no">>, hash |-> NoHash, mode |-> MODE_ANY, model |-> NULL]
    BY <2>1 DEF FixedTree, FixedCommands
  <2> QED BY <2>2, <2>3
<1>4. \A x \in Nat : /\ <<x>> \in Seq(Nat) /\ <<x>> # <<>> /\ <<x>>[1] = x
                     /\ DOMAIN <<x>> = {1} /\ Front(<<x>>) = <<>>
  BY DEF Front
<1>5. ASSUME NEW y \in Nat
      PROVE  /\ <<1, y>> \in Seq(Nat) /\ <<1, y>> # <<>> /\ <<1, y>>[1] = 1
             /\ DOMAIN <<1, y>> = {1, 2} /\ <<1, y>>[2] = y /\ Front(<<1, y>>) = <<1>>
  <2>1. <<1, y>> \in Seq(Nat) /\ Len(<<1, y>>) = 2 /\ <<1, y>>[1] = 1 /\ <<1, y>>[2] = y
    OBVIOUS
  <2>2. <<1>> \in Seq(Nat) /\ Len(<<1>>) = 1 /\ <<1>>[1] = 1
    OBVIOUS
  <2>3. SubSeq(<<1, y>>, 1, 1) \in Seq(Nat) /\ Len(SubSeq(<<1, y>>, 1, 1)) = 1
        /\ SubSeq(<<1, y>>, 1, 1)[1] = 1
    BY <2>1
  <2>4. \A i \in 1..Len(SubSeq(<<1, y>>, 1, 1)) : SubSeq(<<1, y>>, 1, 1)[i] = <<1>>[i]
    BY <2>2, <2>3
  <2>5. SubSeq(<<1, y>>, 1, 1) = <<1>>
    BY <2>2, <2>3, <2>4, SeqEqual, Zenon
  <2>6. Front(<<1, y>>) = <<1>>
    BY <2>1, <2>5 DEF Front
  <2>7. DOMAIN <<1, y>> = {1, 2} /\ <<1, y>> # <<>>
    BY <2>1
  <2> QED BY <2>1, <2>6, <2>7
<1>6. \A p \in D : \/ \E x \in {1, 6} : p = <<x>>
                   \/ \E y \in 2..5 : p = <<1, y>>
  OBVIOUS
<1>7. ASSUME NEW p \in D
      PROVE  /\ p \in Seq(Nat) /\ p # <<>> /\ Front(p) \in D \cup {Top} /\ <<p[1]>> \in D
             /\ \A i \in DOMAIN p : p[i] < 7
  <2>1. CASE \E x \in {1, 6} : p = <<x>>
    BY <1>4, <2>1 DEF Top
  <2>2. CASE \E y \in 2..5 : p = <<1, y>>
    <3>1. PICK y \in 2..5 : p = <<1, y>>
      BY <2>2
    <3>2. y \in Nat /\ y < 7
      OBVIOUS
    <3> QED BY <1>5, <3>1, <3>2
  <2> QED BY <1>6, <2>1, <2>2
<1> HIDE DEF D
<1>8. Shape(FixedTree)
  <2>1. FixedTree.next \in Nat /\ DOMAIN FixedTree.cmds \subseteq Seq(Nat)
    <3>1. FixedTree.next \in Nat
      BY <1>1
    <3>2. DOMAIN FixedTree.cmds \subseteq Seq(Nat)
      BY <1>1, <1>7, Zenon
    <3> QED BY <3>1, <3>2
  <2>2. \A p \in DOMAIN FixedTree.cmds :
          /\ p # <<>>
          /\ \A i \in DOMAIN p : p[i] < FixedTree.next
          /\ Front(p) \in DOMAIN FixedTree.cmds \cup {Top}
          /\ <<p[1]>> \in DOMAIN FixedTree.cmds
    BY <1>1, <1>7, Zenon
  <2> QED BY <2>1, <2>2, Zenon DEF Shape
<1>9. OneModule(FixedTree)
  <2>1. \A p \in D : TopOf(FixedTree, p).hash \in {NoHash}
    <3>1. \A p \in D : <<p[1]>> \in {Show, No}
      BY <1>4, <1>5, <1>6 DEF Show, No
    <3> QED BY <1>3, <3>1 DEF TopOf
  <2> QED BY <1>1, <2>1, SchemaAssumption DEF OneModule
<1> QED BY <1>1, <1>2, <1>3, <1>8, <1>9 DEF Good, HasFixed, Typed

LEMMA RangeFacts ==
  ASSUME NEW S, NEW s \in Seq(S)
  PROVE  /\ Range(s) \subseteq S
         /\ s # <<>> => /\ Head(s) \in Range(s) /\ Tail(s) \in Seq(S)
                        /\ Range(Tail(s)) \subseteq Range(s)
         /\ s = <<>> => Range(s) = {}
<1>1. DOMAIN s = 1..Len(s) /\ Len(s) \in Nat /\ \A i \in 1..Len(s) : s[i] \in S
  BY LenProperties, ElementOfSeq
<1>2. Range(s) \subseteq S
  BY <1>1 DEF Range
<1>3. ASSUME s # <<>>
      PROVE /\ Head(s) \in Range(s) /\ Tail(s) \in Seq(S)
            /\ Range(Tail(s)) \subseteq Range(s)
  <2>1. Len(s) >= 1 /\ Head(s) = s[1]
    BY <1>1, <1>3, EmptySeq
  <2>2. /\ Tail(s) \in Seq(S) /\ Len(Tail(s)) = Len(s) - 1
        /\ \A i \in 1..Len(Tail(s)) : Tail(s)[i] = s[i + 1]
    BY <1>3, HeadTailProperties
  <2>3. DOMAIN Tail(s) = 1..Len(Tail(s))
    BY <2>2, LenProperties
  <2>4. \A i \in 1..Len(Tail(s)) : i + 1 \in 1..Len(s)
    BY <1>1, <2>2
  <2> QED BY <1>1, <2>1, <2>2, <2>3, <2>4 DEF Range
<1>4. s = <<>> => Range(s) = {}
  BY <1>1 DEF Range
<1> QED BY <1>2, <1>3, <1>4

LEMMA InitInvariant == Init => IInv
<1> SUFFICES ASSUME Init PROVE IInv
  OBVIOUS
<1>1. installed \in Seq(Modules)
  <2>1. Cardinality(Modules) \in Nat
    BY SchemaAssumption, FS_CardinalityType
  <2>2. PICK k \in 0..Cardinality(Modules) : installed \in [1..k -> Modules]
    BY DEF Init
  <2>3. k \in Nat
    BY <2>1
  <2> QED BY <2>2, <2>3
<1>2. queue = <<>> /\ queue \in Seq(Modules) /\ Range(queue) = {} /\ Idle
  BY EmptySeq, RangeFacts DEF Init, Idle
<1>3. WalkOK
  BY <1>1, <1>2, SchemaAssumption DEF Init, WalkOK
<1>4. NULL \notin DOMAIN FixedTree.cmds
  BY FixedGood, SchemaAssumption DEF Good, Shape
<1> QED BY <1>2, <1>3, <1>4, FixedGood DEF Init, IInv, PointerOK

-----------------------------------------------------------------------------
(* Every step keeps the invariant.                                         *)

LEMMA LoadModulesStep == IInv /\ LoadModules => IInv'
<1> SUFFICES ASSUME IInv, LoadModules PROVE IInv'
  OBVIOUS
<1>1. UNCHANGED <<tree, print_order, frame, installed>> /\ queue' = installed
      /\ phase' = "unregister" /\ at' = 1 /\ loaded' = {} /\ loads' = loads + 1
      /\ loads < MaxLoads
  BY DEF LoadModules
<1>2. loads' \in 0..MaxLoads
  BY <1>1, SchemaAssumption DEF IInv, WalkOK
<1>3. WalkOK'
  BY <1>1, <1>2 DEF IInv, WalkOK
<1> QED BY <1>1, <1>3 DEF IInv, PointerOK

LEMMA QueueFacts ==
  ASSUME WalkOK, ~Idle
  PROVE  /\ Head(queue) \in Modules /\ Head(queue) \in Range(installed)
         /\ Tail(queue) \in Seq(Modules) /\ Range(Tail(queue)) \subseteq Range(installed)
<1>1. queue \in Seq(Modules) /\ queue # <<>>
  BY DEF WalkOK, Idle
<1> QED BY <1>1, RangeFacts DEF WalkOK

LEMMA SkipModuleStep == IInv /\ SkipModule => IInv'
<1> SUFFICES ASSUME IInv, SkipModule PROVE IInv'
  OBVIOUS
<1>1. UNCHANGED <<tree, print_order, frame, installed, phase, at, loads>>
      /\ queue' = Tail(queue) /\ loaded' = loaded \cup {Head(queue)} /\ ~Idle
      /\ phase = "unregister" /\ Data[Head(queue)] = <<>>
  BY DEF SkipModule
<1>2. at = 1
  BY <1>1 DEF IInv, WalkOK
<1>3. WalkOK'
  BY <1>1, <1>2, QueueFacts DEF IInv, WalkOK
<1> QED BY <1>1, <1>3 DEF IInv, PointerOK

(* The node that a walk is at.                                             *)
LEMMA NodeAt ==
  ASSUME WalkOK, ~Idle, phase = "register" \/ Data[Head(queue)] # <<>>
  PROVE  LET n == Data[Head(queue)][at]
         IN at \in DOMAIN Data[Head(queue)] /\ n \in Nodes /\ Head(n) = Head(queue)
<1> DEFINE m == Head(queue)
<1>1. m \in Modules /\ Data[m] \in Seq(Nodes)
  BY QueueFacts, SchemaAssumption
<1>2. at \in DOMAIN Data[m]
  <2>1. CASE at \in DOMAIN Data[m]
    BY <2>1
  <2>2. CASE at = 1 /\ phase = "unregister"
    <3>1. Data[m] # <<>>
      BY <2>2
    <3> HIDE DEF m
    <3>2. 1 \in 1..Len(Data[m]) /\ DOMAIN Data[m] = 1..Len(Data[m])
      BY <1>1, <3>1, EmptySeq, LenProperties
    <3> QED BY <2>2, <3>2
  <2> QED BY <2>1, <2>2 DEF WalkOK
<1>3. Data[m][at] \in Range(Data[m])
  BY <1>2 DEF Range
<1>4. Data[m][at] \in Nodes /\ Head(Data[m][at]) = m
  BY <1>1, <1>3, SchemaAssumption DEF Nodes
<1> QED BY <1>2, <1>4

LEMMA UnregisterNodeStep == IInv /\ UnregisterNode => IInv'
<1> DEFINE m == Head(queue)
           n == Data[m][at]
           t == IF n \in ReadOnly THEN tree ELSE WithoutNode(tree, n)
<1> SUFFICES ASSUME IInv, UnregisterNode PROVE IInv'
  OBVIOUS
<1>1. /\ ~Idle /\ phase = "unregister" /\ Data[m] # <<>>
      /\ tree' = t
      /\ print_order' = IF print_order \in {NULL, Freed} \cup DOMAIN t.cmds
                        THEN print_order ELSE Freed
      /\ \/ at + 1 \in Reach(m, 2) /\ at' = at + 1 /\ UNCHANGED <<phase, frame>>
         \/ at' = 1 /\ phase' = "register" /\ frame' = <<>>
      /\ UNCHANGED <<installed, queue, loaded, loads>>
  BY DEF UnregisterNode
<1>2. at \in DOMAIN Data[m] /\ n \in Nodes /\ Head(n) = m
  BY <1>1, NodeAt DEF IInv
<1>3. Good(t) /\ \A p \in DOMAIN t.cmds : p \in DOMAIN tree.cmds /\ t.cmds[p] = tree.cmds[p]
  <2>1. CASE n \in ReadOnly
    BY <2>1 DEF IInv
  <2>2. CASE n \notin ReadOnly
    <3> HIDE DEF n
    <3>1. Good(WithoutNode(tree, n)) /\ Shrinks(tree, WithoutNode(tree, n), Head(n))
      BY <1>2, NodeRemoved DEF IInv
    <3>2. t = WithoutNode(tree, n)
      BY <2>2
    <3> QED BY <3>1, <3>2 DEF Shrinks
  <2> QED BY <2>1, <2>2
<1> HIDE DEF t
<1>4. NULL \notin DOMAIN t.cmds /\ Freed \notin DOMAIN t.cmds
  BY <1>3, SchemaAssumption DEF Good, Shape
<1>5. print_order' \in DOMAIN tree'.cmds \cup {NULL, Freed} /\ PointerOK(tree, print_order)'
  BY <1>1, <1>3, <1>4 DEF IInv, PointerOK
<1>6. at' \in DOMAIN Data[m]
  <2>1. \A k : Reach(m, k) \subseteq DOMAIN Data[m]
    BY DEF Reach
  <2>2. 1 \in DOMAIN Data[m]
    <3>1. Data[m] \in Seq(Nodes) /\ Data[m] # <<>>
      BY <1>1, QueueFacts, SchemaAssumption DEF IInv
    <3> HIDE DEF m
    <3> QED BY <3>1, EmptySeq, LenProperties
  <2> QED BY <1>1, <2>1, <2>2
<1>7. WalkOK'
  <2>1. at' \in Nat
    BY <1>1 DEF IInv, WalkOK
  <2> QED BY <1>1, <1>6, <2>1 DEF IInv, WalkOK, Idle
<1>8. phase' = "register" => frame' = <<>>
  BY <1>1
<1>9. phase' = "register" => FramesOK'
  BY <1>8 DEF FramesOK
<1> QED BY <1>1, <1>3, <1>5, <1>7, <1>9 DEF IInv

LEMMA NextNodeStep ==
  ASSUME WalkOK, ~Idle, phase = "register", NextNode, UNCHANGED <<installed, loads>>
  PROVE  WalkOK' /\ (phase' = "register" => queue' = queue)
<1>1. CASE at + 1 \in Reach(Head(queue), 1)
  <2>1. at' = at + 1 /\ UNCHANGED <<queue, phase, loaded>>
    BY <1>1 DEF NextNode
  <2>2. at' \in DOMAIN Data[Head(queue)] /\ at' \in Nat
    BY <1>1, <2>1 DEF Reach, WalkOK
  <2> QED BY <2>1, <2>2 DEF WalkOK, Idle
<1>2. CASE at + 1 \notin Reach(Head(queue), 1)
  <2>1. at' = 1 /\ queue' = Tail(queue) /\ phase' = "unregister"
        /\ loaded' = loaded \cup {Head(queue)}
    BY <1>2 DEF NextNode
  <2> QED BY <2>1, QueueFacts DEF WalkOK
<1> QED BY <1>1, <1>2

LEMMA FramesKept ==
  ASSUME NEW m, Good(tree), FramesOK, Extended(tree, tree', m), frame' = frame, queue' = queue
  PROVE  FramesOK'
BY FrameKept DEF FramesOK

LEMMA FramesWith ==
  ASSUME NEW n \in Nodes, Head(n) = Head(queue),
         Good(tree), FramesOK, Extended(tree, tree', Head(n)), queue' = queue, NEW f, FrameOK(tree', f, Head(n)),
         frame' = WithFrame(n, f)
  PROVE  FramesOK'
<1>1. /\ DOMAIN frame' \subseteq DOMAIN frame \cup {n} /\ frame'[n] = f
      /\ \A k \in DOMAIN frame' : k # n => frame'[k] = frame[k]
  BY DEF WithFrame
<1>2. \A k \in DOMAIN frame : FrameOK(tree', frame[k], Head(k))
  BY FrameKept DEF FramesOK
<1> QED BY <1>1, <1>2 DEF FramesOK

(* What the steps of register_commands_schema have in common.              *)
LEMMA RegisterNodeKeeps ==
  ASSUME NEW n \in Nodes, Head(n) = Head(queue),
         IInv, ~Idle, phase = "register", NextNode, UNCHANGED <<installed, loads>>,
         Extended(tree, tree', Head(n)),
         print_order' \in DOMAIN tree'.cmds \cup {NULL, Freed},
         PointerOK(tree, print_order)',
         frame' = frame \/ \E f : FrameOK(tree', f, Head(n)) /\ frame' = WithFrame(n, f)
  PROVE  IInv'
<1>1. WalkOK' /\ (phase' = "register" => queue' = queue)
  BY NextNodeStep DEF IInv
<1>2. queue' = queue => FramesOK'
  BY FramesKept, FramesWith DEF IInv
<1> QED BY <1>1, <1>2 DEF IInv, Extended

LEMMA PointerKept ==
  ASSUME NEW m, IInv, Extended(tree, tree', m), print_order' = print_order
  PROVE  print_order' \in DOMAIN tree'.cmds \cup {NULL, Freed} /\ PointerOK(tree, print_order)'
<1>1. NULL \notin DOMAIN tree'.cmds /\ Freed \notin DOMAIN tree'.cmds
  BY SchemaAssumption DEF Extended, Good, Shape
<1> QED BY <1>1 DEF IInv, Extended, Grows, PointerOK

LEMMA RegisterNodeGrows ==
  ASSUME IInv, RegisterNode
  PROVE  /\ IInv' /\ Extended(tree, tree', Head(queue))
         /\ \/ NextNode /\ print_order' \in {print_order} \cup DOMAIN tree'.cmds
            \/ print_order = Freed
<1> DEFINE n == Data[Head(queue)][at]
           Goal == /\ IInv' /\ Extended(tree, tree', Head(queue))
                   /\ \/ NextNode /\ print_order' \in {print_order} \cup DOMAIN tree'.cmds
                      \/ print_order = Freed
<1>1. ~Idle /\ phase = "register" /\ UNCHANGED <<installed, loads>>
  BY DEF RegisterNode
<1>2. n \in Nodes /\ Head(n) = Head(queue)
  BY <1>1, NodeAt DEF IInv
<1>3. Good(tree) /\ FramesOK /\ Extended(tree, tree, Head(n)) /\ WalkOK
  BY <1>1 DEF IInv, Extended, Grows
<1> HIDE DEF n
<1>4. \/ SkipNode(n)
      \/ RegisterContainerNode(n)
      \/ RegisterLeafNode(n)
      \/ RegisterListNode(n)
      \/ RegisterOrderedList(n)
      \/ ReadFreedPrintOrder(n)
      \/ RegisterChoice(n)
      \/ RegisterCase(n)
  BY DEF RegisterNode, n
<1>5. ASSUME Extended(tree, tree', Head(n)), UNCHANGED <<print_order, frame>>, NextNode
      PROVE  Goal
  BY <1>1, <1>2, <1>5, PointerKept, RegisterNodeKeeps
<1>6. CASE SkipNode(n)
  BY <1>3, <1>5, <1>6 DEF SkipNode
<1>7. CASE RegisterContainerNode(n)
  BY <1>2, <1>3, <1>5, <1>7, ContainerRegistered DEF RegisterContainerNode
<1>8. CASE RegisterLeafNode(n)
  BY <1>2, <1>3, <1>5, <1>8, LeafRegistered DEF RegisterLeafNode
<1>9. CASE RegisterListNode(n)
  BY <1>2, <1>3, <1>5, <1>9, ListRegistered DEF RegisterListNode
<1>10. CASE RegisterOrderedList(n)
  <2> DEFINE mode == ModeUnder(tree, FindParent(tree, Top, n), n)
             t == RegisterList(tree, n)
             u == RegisterPrintOrder(t, print_order, n, mode)
             root == PrintOrderRoot(t, print_order, mode)
  <2>1. tree' = u /\ print_order' = root /\ frame' = frame /\ NextNode
    BY <1>10 DEF RegisterOrderedList
  <2>2. Extended(tree, t, Head(n))
    BY <1>2, <1>3, ListRegistered
  <2>3. mode \in {CONFIG_MODE, MODE_ANY} \cup Nodes
    BY <1>2, <1>3, FoundParent, ModeTyped
  <2> HIDE DEF t, mode
  <2>4. print_order \in DOMAIN t.cmds \cup {NULL, Freed} /\ PointerOK(t, print_order)
    <3>1. NULL \notin DOMAIN t.cmds /\ Freed \notin DOMAIN t.cmds
      BY <2>2, SchemaAssumption DEF Extended, Good, Shape
    <3> QED BY <2>2, <3>1 DEF IInv, Extended, Grows, PointerOK
  <2>5. Extended(t, u, Head(n)) /\ root \in DOMAIN u.cmds /\ PointerOK(u, root)
    BY <1>2, <2>2, <2>3, <2>4, PrintOrderRegistered DEF Extended
  <2> HIDE DEF u, root
  <2>6. Extended(tree, tree', Head(n))
    BY <2>1, <2>2, <2>5, ExtendedTwice
  <2>7. PointerOK(tree, print_order)' /\ print_order' \in DOMAIN tree'.cmds
    BY <2>1, <2>5 DEF PointerOK
  <2> QED BY <1>1, <1>2, <2>1, <2>6, <2>7, RegisterNodeKeeps
<1>11. CASE ReadFreedPrintOrder(n)
  <2>1. phase' = "faulted" /\ queue' = <<>>
        /\ UNCHANGED <<tree, print_order, frame, at, loaded, installed, loads>>
    BY <1>1, <1>11 DEF ReadFreedPrintOrder
  <2>4. print_order = Freed
    BY <1>11 DEF ReadFreedPrintOrder
  <2>2. queue' \in Seq(Modules) /\ Range(queue') = {} /\ Idle'
    BY <2>1, EmptySeq, RangeFacts DEF Idle
  <2>3. WalkOK'
    BY <2>1, <2>2 DEF IInv, WalkOK
  <2>5. Extended(tree, tree', Head(queue))
    BY <1>2, <1>3, <2>1
  <2> QED BY <1>3, <2>1, <2>2, <2>3, <2>4, <2>5 DEF IInv, PointerOK
<1>12. CASE RegisterChoice(n)
  <2> DEFINE f == ChoiceFrame(tree, n)
  <2>1. FrameOK(tree, f, Head(n))
    BY <1>2, <1>3, <1>12, ChoiceFrameOK DEF RegisterChoice
  <2>2. /\ \/ tree' = tree /\ frame' = WithFrame(n, f)
           \/ tree' = RegisterBoth(tree, f, n) /\ frame' = WithFrame(n, FrameBelow(tree, f, n))
        /\ print_order' = print_order /\ NextNode
    BY <1>12 DEF RegisterChoice
  <2> HIDE DEF f
  <2>3. Extended(tree, RegisterBoth(tree, f, n), Head(n))
        /\ FrameOK(RegisterBoth(tree, f, n), FrameBelow(tree, f, n), Head(n))
    BY <1>2, <1>3, <2>1, ChoiceRegistered
  <2>4. /\ Extended(tree, tree', Head(n))
        /\ \E g : FrameOK(tree', g, Head(n)) /\ frame' = WithFrame(n, g)
    BY <1>3, <2>1, <2>2, <2>3
  <2> QED BY <1>1, <1>2, <2>2, <2>4, PointerKept, RegisterNodeKeeps
<1>13. CASE RegisterCase(n)
  <2> DEFINE f == frame[Parent(n)]
  <2>1. /\ tree' = RegisterBoth(tree, f, n)
        /\ frame' = WithFrame(n, FrameBelow(tree, f, n))
        /\ print_order' = print_order /\ NextNode /\ Visited(n) /\ Kind[n] = "case"
    BY <1>13 DEF RegisterCase
  <2>2. ~IsTop(n) /\ Kind[Parent(n)] = "choice" /\ Head(Parent(n)) = Head(n)
    BY <1>2, <2>1, NodeFacts, SchemaAssumption
  <2>3. Parent(n) \in DOMAIN frame
    BY <1>2, <2>1, <2>2, ParentVisited
  <2>4. FrameOK(tree, f, Head(n))
    BY <1>3, <2>2, <2>3 DEF FramesOK
  <2> HIDE DEF f
  <2>5. Extended(tree, RegisterBoth(tree, f, n), Head(n))
        /\ FrameOK(RegisterBoth(tree, f, n), FrameBelow(tree, f, n), Head(n))
    BY <1>2, <1>3, <2>4, ChoiceRegistered
  <2>6. /\ Extended(tree, tree', Head(n))
        /\ \E g : FrameOK(tree', g, Head(n)) /\ frame' = WithFrame(n, g)
    BY <2>1, <2>5
  <2> QED BY <1>1, <1>2, <2>1, <2>6, PointerKept, RegisterNodeKeeps
<1> QED BY <1>4, <1>6, <1>7, <1>8, <1>9, <1>10, <1>11, <1>12, <1>13

LEMMA RegisterNodeStep == IInv /\ RegisterNode => IInv'
BY RegisterNodeGrows

LEMMA NewContextStep ==
  ASSUME IInv, Idle, NewContext, installed' \in Seq(Modules)
  PROVE  IInv'
<1> DEFINE d == tree.cmds
           e == tree'.cmds
<1>1. /\ DOMAIN e = DOMAIN d /\ tree'.next = tree.next
      /\ \A p \in DOMAIN d : /\ e[p].name = d[p].name /\ e[p].hash = d[p].hash
                             /\ e[p].mode = d[p].mode
                             /\ e[p].model \in {NULL, Freed}
  BY DEF NewContext
<1>2. UNCHANGED <<print_order, frame, queue, phase, at, loads>> /\ loaded' = {}
  BY DEF NewContext
<1>3. \A p \in DOMAIN d : <<p[1]>> \in DOMAIN d
  BY DEF IInv, Good, Shape
<1> HIDE DEF d, e
<1>4. \A p \in DOMAIN d : /\ TopOf(tree', p).hash = TopOf(tree, p).hash
                          /\ TopOf(tree', p).name = TopOf(tree, p).name
  BY <1>1, <1>3 DEF TopOf, d, e
<1>5. Shape(tree')
  BY <1>1 DEF IInv, Good, Shape, d, e
<1>6. OneModule(tree')
  BY <1>1, <1>4 DEF IInv, Good, OneModule, d, e
<1>7. HasFixed(tree') /\ \A p \in DOMAIN e : Typed(e[p])
  <2>1. Show \in DOMAIN d /\ No \in DOMAIN d /\ DOMAIN FixedCommands \subseteq DOMAIN d
    BY DEF IInv, Good, HasFixed, FixedCommands, d
  <2>2. HasFixed(tree')
    BY <1>1, <2>1 DEF IInv, Good, HasFixed, d, e
  <2>3. \A p \in DOMAIN d : Typed(d[p])
    BY DEF IInv, Good, d
  <2> QED BY <1>1, <2>2, <2>3 DEF Typed
<1>8. Good(tree')
  BY <1>5, <1>6, <1>7 DEF Good, e
<1>9. queue = <<>> /\ Range(queue) = {}
  BY RangeFacts DEF Idle, IInv, WalkOK
<1>10. WalkOK'
  BY <1>2, <1>9 DEF IInv, WalkOK, Idle
<1>11. print_order' \in DOMAIN tree'.cmds \cup {NULL, Freed} /\ PointerOK(tree, print_order)'
  BY <1>1, <1>2 DEF IInv, PointerOK, d, e
<1>12. Idle'
  BY <1>2 DEF Idle
<1> QED BY <1>8, <1>10, <1>11, <1>12 DEF IInv

LEMMA InstallModuleStep ==
  ASSUME NEW m \in Modules, IInv, InstallModule(m)
  PROVE  IInv'
<1>1. Idle /\ NewContext /\ installed' = Append(installed, m) /\ installed \in Seq(Modules)
  BY DEF InstallModule, IInv, WalkOK
<1>2. installed' \in Seq(Modules)
  BY <1>1, AppendProperties
<1> QED BY <1>1, <1>2, NewContextStep

LEMMA RemoveModuleStep ==
  ASSUME NEW i \in DOMAIN installed, IInv, RemoveModule(i)
  PROVE  IInv'
<1> DEFINE s == installed
<1>1. Idle /\ NewContext /\ s \in Seq(Modules) /\ installed' = SubSeq(s, 1, i - 1) \o SubSeq(s, i + 1, Len(s))
  BY DEF RemoveModule, RemoveAt, IInv, WalkOK
<1>2. i \in 1..Len(s) /\ Len(s) \in Nat
  BY <1>1, LenProperties
<1> HIDE DEF s
<1>3. SubSeq(s, 1, i - 1) \in Seq(Modules) /\ SubSeq(s, i + 1, Len(s)) \in Seq(Modules)
  <2>1. \A j \in 1..(i - 1) : s[j] \in Modules
    BY <1>1, <1>2
  <2>2. \A j \in (i + 1)..Len(s) : s[j] \in Modules
    BY <1>1, <1>2
  <2>3. SubSeq(s, 1, i - 1) \in Seq(Modules)
    BY <1>1, <1>2, <2>1
  <2>4. SubSeq(s, i + 1, Len(s)) \in Seq(Modules)
    BY <1>1, <1>2, <2>2
  <2> QED BY <2>3, <2>4
<1>4. installed' \in Seq(Modules)
  BY <1>1, <1>3, ConcatProperties, Zenon
<1> QED BY <1>1, <1>4, NewContextStep

LEMMA StartStep == IInv /\ Start => IInv'
<1> SUFFICES ASSUME IInv, Start PROVE IInv'
  OBVIOUS
<1>1. tree' = FixedTree /\ print_order' = NULL /\ queue' = <<>> /\ phase' = "unregister"
      /\ at' = 1 /\ loaded' = {} /\ loads' = 0 /\ installed' = installed
  BY DEF Start
<1>2. queue' \in Seq(Modules) /\ Range(queue') = {} /\ Idle'
  BY <1>1, EmptySeq, RangeFacts DEF Idle
<1>3. WalkOK'
  BY <1>1, <1>2, SchemaAssumption DEF IInv, WalkOK
<1>4. NULL \notin DOMAIN FixedTree.cmds
  BY FixedGood, SchemaAssumption DEF Good, Shape
<1> QED BY <1>1, <1>2, <1>3, <1>4, FixedGood DEF IInv, PointerOK

(* The invariant holds in every state.                                     *)
THEOREM Invariant == Spec => []IInv
<1>1. Init => IInv
  BY InitInvariant
<1>2. IInv /\ [Next]_vars => IInv'
  <2> SUFFICES ASSUME IInv, [Next]_vars PROVE IInv'
    OBVIOUS
  <2>1. CASE LoadModules
    BY <2>1, LoadModulesStep
  <2>2. CASE SkipModule
    BY <2>2, SkipModuleStep
  <2>3. CASE UnregisterNode
    BY <2>3, UnregisterNodeStep
  <2>4. CASE RegisterNode
    BY <2>4, RegisterNodeStep
  <2>5. CASE \E m \in Modules : InstallModule(m)
    BY <2>5, InstallModuleStep
  <2>6. CASE \E i \in DOMAIN installed : RemoveModule(i)
    BY <2>6, RemoveModuleStep
  <2>7. CASE Start
    BY <2>7, StartStep
  <2>8. CASE UNCHANGED vars
    BY <2>8 DEF vars, IInv, WalkOK, PointerOK, FramesOK, Idle
  <2> QED BY <2>1, <2>2, <2>3, <2>4, <2>5, <2>6, <2>7, <2>8 DEF Next
<1> QED BY <1>1, <1>2, PTL DEF Spec

(* The tree is a tree, its commands are of the program or of a module, and *)
(* what points into it points into it.                                     *)
THEOREM TypeCorrect == Spec => []TypeOK
<1>1. IInv => TypeOK
  <2> SUFFICES ASSUME IInv PROVE TypeOK
    OBVIOUS
  <2>1. Range(installed) \subseteq Modules
    BY RangeFacts DEF IInv, WalkOK
  <2>2. /\ DOMAIN tree.cmds \subseteq Seq(Nat)
        /\ \A p \in DOMAIN tree.cmds :
             /\ p # <<>> /\ Front(p) \in DOMAIN tree.cmds \cup {Top}
             /\ \A i \in DOMAIN p : p[i] < tree.next
             /\ Typed(tree.cmds[p])
        /\ DOMAIN FixedCommands \subseteq DOMAIN tree.cmds
    BY DEF IInv, Good, Shape, HasFixed
  <2> QED BY <2>1, <2>2 DEF IInv, WalkOK, TypeOK, Typed
<1> QED BY <1>1, Invariant, PTL

(* What load-modules does for one module leaves the commands of the others *)
(* and of libcli as they are.                                              *)
THEOREM ForeignKeptHolds == Spec => ForeignKept
<1> DEFINE Kept == UnregisterNode \/ RegisterNode =>
                     \A p \in DOMAIN tree.cmds :
                       /\ tree.cmds[p].hash # Head(queue)
                       /\ tree.cmds[<<p[1]>>].name # <<"print-order">>
                       => p \in DOMAIN tree'.cmds /\ tree'.cmds[p] = tree.cmds[p]
<1>1. ASSUME IInv, UnregisterNode PROVE Kept
  <2> DEFINE m == Head(queue)
             n == Data[m][at]
  <2>1. ~Idle /\ Data[m] # <<>>
        /\ tree' = IF n \in ReadOnly THEN tree ELSE WithoutNode(tree, n)
    BY <1>1 DEF UnregisterNode
  <2>2. n \in Nodes /\ Head(n) = m /\ m \in Modules
    BY <1>1, <2>1, NodeAt, QueueFacts DEF IInv
  <2> HIDE DEF n
  <2>3. Good(WithoutNode(tree, n)) /\ Shrinks(tree, WithoutNode(tree, n), m)
    BY <1>1, <2>2, NodeRemoved DEF IInv
  <2>4. Shrinks(tree, tree', m)
    BY <2>1, <2>3 DEF Shrinks
  <2>5. \A p \in DOMAIN tree.cmds :
          /\ tree.cmds[p].hash # m
          /\ TopOf(tree, p).name # <<"print-order">>
          => TopOf(tree, p).hash # m
    BY <1>1, <2>2 DEF IInv, Good, OneModule
  <2> QED BY <2>4, <2>5 DEF Shrinks, TopOf
<1>2. ASSUME IInv, RegisterNode PROVE Kept
  BY <1>2, RegisterNodeGrows DEF Extended, Grows
<1>3. IInv /\ [Next]_vars => [Kept]_vars
  BY <1>1, <1>2
<1> QED BY <1>3, Invariant, PTL DEF Spec, ForeignKept
-----------------------------------------------------------------------------
(* The first load-modules of a process.                                    *)

(* No command of the top level is of module m.                             *)
Absent(t, m) == \A p \in DOMAIN t.cmds : Len(p) = 1 => t.cmds[p].hash # m

(* The modules that the first load-modules has not begun to register.      *)
Ahead ==
  IF loads = 0 THEN Modules
  ELSE IF phase = "unregister" THEN Range(queue) ELSE Range(Tail(queue))

(* A module comes only once in the queue, so the first load-modules        *)
(* registers it after removing nothing, and what is at the top level is of *)
(* the modules that came before.                                           *)
FirstInv ==
  /\ IsInjective(installed) /\ IsInjective(queue)
  /\ loads = 0 => Idle
  /\ loads <= 1 => /\ print_order # Freed /\ phase # "faulted"
                   /\ \A m \in Ahead : Absent(tree, m)

LEMMA NothingNamed ==
  ASSUME NEW t, NEW m, NEW name, Absent(t, m)
  PROVE  Unregister(t, name, m) = t
<1>1. Named(t, name, m) = {}
  BY DEF Named, Absent
<1> QED BY <1>1 DEF Unregister

LEMMA NothingRemoved ==
  ASSUME NEW t, NEW n, Absent(t, Head(n))
  PROVE  WithoutNode(t, n) = t
BY NothingNamed DEF WithoutNode

LEMMA InjectiveTail ==
  ASSUME NEW S, NEW s \in Seq(S), s # <<>>, IsInjective(s)
  PROVE  IsInjective(Tail(s)) /\ Head(s) \notin Range(Tail(s))
<1>1. /\ Tail(s) \in Seq(S) /\ Len(Tail(s)) = Len(s) - 1 /\ Len(s) \in Nat
      /\ \A i \in 1..Len(Tail(s)) : Tail(s)[i] = s[i + 1]
      /\ Head(s) = s[1] /\ Len(s) >= 1
  BY HeadTailProperties, EmptySeq, LenProperties
<1>2. DOMAIN Tail(s) = 1..Len(Tail(s)) /\ DOMAIN s = 1..Len(s)
  BY <1>1, LenProperties
<1>3. \A i \in 1..Len(Tail(s)) : i + 1 \in DOMAIN s /\ i + 1 # 1
  BY <1>1, <1>2
<1>4. \A i, j \in 1..Len(Tail(s)) : i + 1 = j + 1 => i = j
  BY <1>1
<1>5. 1 \in DOMAIN s
  BY <1>1, <1>2
<1>6. IsInjective(Tail(s))
  BY <1>1, <1>2, <1>3, <1>4 DEF IsInjective
<1>7. Head(s) \notin Range(Tail(s))
  BY <1>1, <1>2, <1>3, <1>5 DEF IsInjective, Range
<1> QED BY <1>6, <1>7

LEMMA InjectiveAppend ==
  ASSUME NEW S, NEW s \in Seq(S), NEW m \in S, m \notin Range(s), IsInjective(s)
  PROVE  IsInjective(Append(s, m))
<1>1. /\ Len(s) \in Nat /\ DOMAIN s = 1..Len(s)
      /\ Append(s, m) \in Seq(S) /\ Len(Append(s, m)) = Len(s) + 1
      /\ \A i \in 1..Len(s) : Append(s, m)[i] = s[i]
      /\ Append(s, m)[Len(s) + 1] = m
  BY AppendProperties, LenProperties
<1>2. DOMAIN Append(s, m) = 1..(Len(s) + 1)
  BY <1>1, LenProperties
<1>3. \A i \in 1..(Len(s) + 1) : i = Len(s) + 1 \/ i \in 1..Len(s)
  BY <1>1
<1>4. \A i \in 1..Len(s) : s[i] # m
  BY <1>1 DEF Range
<1> QED BY <1>1, <1>2, <1>3, <1>4 DEF IsInjective

LEMMA InjectiveRemove ==
  ASSUME NEW S, NEW s \in Seq(S), NEW i \in DOMAIN s, IsInjective(s)
  PROVE  IsInjective(RemoveAt(s, i))
<1> DEFINE l == SubSeq(s, 1, i - 1)
           r == SubSeq(s, i + 1, Len(s))
           at0(j) == IF j <= i - 1 THEN j ELSE j + 1
<1>1. i \in 1..Len(s) /\ Len(s) \in Nat /\ DOMAIN s = 1..Len(s)
  BY LenProperties
<1>2. /\ l \in Seq(S) /\ Len(l) = i - 1
      /\ \A j \in 1..(i - 1) : l[j] = s[j]
  <2>1. \A j \in 1..(i - 1) : s[j] \in S
    BY <1>1
  <2> QED BY <1>1, <2>1
<1>3. /\ r \in Seq(S) /\ Len(r) = Len(s) - i
      /\ \A j \in 1..(Len(s) - i) : r[j] = s[i + j]
  <2>1. \A j \in (i + 1)..Len(s) : s[j] \in S
    BY <1>1
  <2> QED BY <1>1, <2>1
<1>4. RemoveAt(s, i) = l \o r
  BY DEF RemoveAt
<1> HIDE DEF l, r
<1>5. /\ l \o r \in Seq(S) /\ Len(l \o r) = Len(l) + Len(r)
      /\ \A j \in 1..(Len(l) + Len(r)) :
            (l \o r)[j] = IF j <= Len(l) THEN l[j] ELSE r[j - Len(l)]
  BY <1>2, <1>3, ConcatProperties, Zenon
<1>6. Len(l) + Len(r) = Len(s) - 1 /\ DOMAIN (l \o r) = 1..(Len(s) - 1)
  <2>1. Len(l) + Len(r) = Len(s) - 1
    BY <1>1, <1>2, <1>3
  <2> QED BY <1>5, <2>1, LenProperties
<1>7. ASSUME NEW j \in 1..(Len(s) - 1)
      PROVE  at0(j) \in DOMAIN s /\ (l \o r)[j] = s[at0(j)]
  <2>1. CASE j <= i - 1
    <3>1. j \in 1..(i - 1) /\ j \in 1..Len(s)
      BY <1>1, <2>1
    <3>2. (l \o r)[j] = l[j]
      BY <1>2, <1>5, <1>6, <2>1
    <3> QED BY <1>1, <1>2, <2>1, <3>1, <3>2
  <2>2. CASE ~ (j <= i - 1)
    <3>1. j - (i - 1) \in 1..(Len(s) - i) /\ i + (j - (i - 1)) = j + 1 /\ j + 1 \in 1..Len(s)
      BY <1>1, <2>2
    <3>2. (l \o r)[j] = r[j - (i - 1)]
      BY <1>2, <1>5, <1>6, <2>2
    <3> QED BY <1>1, <1>3, <2>2, <3>1, <3>2
  <2> QED BY <2>1, <2>2
<1>8. \A j, k \in 1..(Len(s) - 1) : at0(j) = at0(k) => j = k
  BY <1>1
<1> HIDE DEF at0
<1> QED BY <1>4, <1>6, <1>7, <1>8 DEF IsInjective

LEMMA FixedAbsent == \A m \in Modules : Absent(FixedTree, m)
<1>1. \A p \in DOMAIN FixedTree.cmds : Len(p) = 1 => p \in {Show, No}
  <2>1. DOMAIN FixedTree.cmds = {Show, ConfigCandidate, ConfigRunning, ConfigStartup,
                                 OperationalData, No}
    BY DEF FixedTree, FixedCommands
  <2>2. Len(<<1, 2>>) # 1 /\ Len(<<1, 3>>) # 1 /\ Len(<<1, 4>>) # 1 /\ Len(<<1, 5>>) # 1
    OBVIOUS
  <2> QED BY <2>1, <2>2 DEF ConfigCandidate, ConfigRunning, ConfigStartup, OperationalData
<1>2. FixedTree.cmds[Show].hash = NoHash /\ FixedTree.cmds[No].hash = NoHash
  BY FixedGood DEF Good, HasFixed
<1> QED BY <1>1, <1>2, SchemaAssumption DEF Absent

LEMMA InitFirst == Init => FirstInv
<1> SUFFICES ASSUME Init PROVE FirstInv
  OBVIOUS
<1>1. IsInjective(installed) /\ queue = <<>> /\ tree = FixedTree /\ loads = 0
      /\ phase = "unregister" /\ print_order = NULL
  BY DEF Init
<1>2. IsInjective(queue) /\ Idle
  BY <1>1 DEF IsInjective, Idle
<1> QED BY <1>1, <1>2, FixedAbsent, SchemaAssumption DEF FirstInv, Ahead

LEMMA StartFirst == FirstInv /\ Start => FirstInv'
<1> SUFFICES ASSUME FirstInv, Start PROVE FirstInv'
  OBVIOUS
<1>1. installed' = installed /\ queue' = <<>> /\ tree' = FixedTree /\ loads' = 0
      /\ phase' = "unregister" /\ print_order' = NULL
  BY DEF Start
<1>2. IsInjective(queue') /\ Idle'
  BY <1>1 DEF IsInjective, Idle
<1> QED BY <1>1, <1>2, FixedAbsent, SchemaAssumption DEF FirstInv, Ahead

LEMMA LoadModulesFirst == IInv /\ FirstInv /\ LoadModules => FirstInv'
<1> SUFFICES ASSUME IInv, FirstInv, LoadModules PROVE FirstInv'
  OBVIOUS
<1>1. /\ queue' = installed /\ phase' = "unregister" /\ loads' = loads + 1 /\ phase # "faulted"
      /\ UNCHANGED <<tree, print_order, frame, installed>>
  BY DEF LoadModules
<1>2. loads \in Nat /\ Range(installed) \subseteq Modules
  BY RangeFacts, SchemaAssumption DEF IInv, WalkOK
<1>3. loads' # 0 /\ (loads' <= 1 => loads = 0)
  BY <1>1, <1>2
<1> QED BY <1>1, <1>2, <1>3 DEF FirstInv, Ahead

LEMMA QueueTail ==
  ASSUME IInv, FirstInv, ~Idle
  PROVE  /\ queue \in Seq(Modules) /\ queue # <<>> /\ loads \in Nat /\ loads # 0
         /\ IsInjective(Tail(queue)) /\ Head(queue) \notin Range(Tail(queue))
         /\ Range(Tail(queue)) \subseteq Range(queue) /\ Head(queue) \in Range(queue)
<1>1. queue \in Seq(Modules) /\ queue # <<>> /\ loads \in Nat /\ loads # 0
  BY SchemaAssumption DEF IInv, WalkOK, FirstInv, Idle
<1> QED BY <1>1, InjectiveTail, RangeFacts DEF FirstInv

LEMMA SkipModuleFirst == IInv /\ FirstInv /\ SkipModule => FirstInv'
<1> SUFFICES ASSUME IInv, FirstInv, SkipModule PROVE FirstInv'
  OBVIOUS
<1>1. /\ ~Idle /\ phase = "unregister" /\ queue' = Tail(queue)
      /\ UNCHANGED <<tree, print_order, frame, installed, phase, at, loads>>
  BY DEF SkipModule
<1> QED BY <1>1, QueueTail DEF FirstInv, Ahead

LEMMA UnregisterNodeFirst == IInv /\ FirstInv /\ UnregisterNode => FirstInv'
<1> DEFINE n == Data[Head(queue)][at]
           t == IF n \in ReadOnly THEN tree ELSE WithoutNode(tree, n)
<1> SUFFICES ASSUME IInv, FirstInv, UnregisterNode PROVE FirstInv'
  OBVIOUS
<1>1. /\ ~Idle /\ phase = "unregister" /\ Data[Head(queue)] # <<>>
      /\ tree' = t
      /\ print_order' = IF print_order \in {NULL, Freed} \cup DOMAIN t.cmds
                        THEN print_order ELSE Freed
      /\ phase' \in {"unregister", "register"}
      /\ UNCHANGED <<installed, queue, loads>>
  BY DEF UnregisterNode
<1>2. Head(n) = Head(queue)
  BY <1>1, NodeAt DEF IInv
<1> HIDE DEF n
<1>3. ASSUME loads <= 1
      PROVE  tree' = tree /\ print_order' = print_order
  <2>1. Absent(tree, Head(n))
    BY <1>1, <1>2, <1>3, QueueTail DEF FirstInv, Ahead
  <2>2. t = tree
    BY <2>1, NothingRemoved
  <2> QED BY <1>1, <2>2 DEF IInv
<1>4. ~Idle'
  BY <1>1 DEF Idle
<1> HIDE DEF t
<1>5. Ahead' \subseteq Ahead
  BY <1>1, QueueTail DEF Ahead
<1> QED BY <1>1, <1>3, <1>5, QueueTail DEF FirstInv

LEMMA RegisterNodeFirst == IInv /\ FirstInv /\ RegisterNode => FirstInv'
<1> SUFFICES ASSUME IInv, FirstInv, RegisterNode PROVE FirstInv'
  OBVIOUS
<1>1. ~Idle /\ phase = "register" /\ UNCHANGED <<installed, loads>>
  BY DEF RegisterNode
<1>2. /\ Extended(tree, tree', Head(queue))
      /\ \/ NextNode /\ print_order' \in {print_order} \cup DOMAIN tree'.cmds
         \/ print_order = Freed
      /\ IInv'
  BY RegisterNodeGrows
<1>3. ASSUME NEW m \in Range(Tail(queue)), Absent(tree, m)
      PROVE  Absent(tree', m)
  BY <1>1, <1>2, <1>3, QueueTail DEF Extended, Grows, Absent
<1>4. CASE NextNode /\ print_order' \in {print_order} \cup DOMAIN tree'.cmds
  <2>1. \/ queue' = queue /\ phase' = phase
        \/ queue' = Tail(queue) /\ phase' = "unregister"
    BY <1>4 DEF NextNode
  <2>2. IsInjective(queue')
    BY <1>1, <2>1, QueueTail DEF FirstInv
  <2>3. Ahead = Range(Tail(queue)) /\ Ahead' = Range(Tail(queue))
    BY <1>1, <2>1, QueueTail DEF Ahead
  <2>4. Freed \notin DOMAIN tree'.cmds
    BY <1>2, SchemaAssumption DEF Extended, Good, Shape
  <2>5. loads' # 0
    BY <1>1, QueueTail
  <2> QED BY <1>1, <1>3, <1>4, <2>1, <2>2, <2>3, <2>4, <2>5 DEF FirstInv
<1>5. CASE print_order = Freed
  <2>1. loads # 0 /\ ~ (loads <= 1)
    BY <1>1, <1>5, QueueTail DEF FirstInv
  <2>2. queue' \in {queue, Tail(queue), <<>>}
    BY DEF RegisterNode, SkipNode, RegisterContainerNode, RegisterLeafNode, RegisterListNode,
       RegisterOrderedList, ReadFreedPrintOrder, RegisterChoice, RegisterCase, NextNode
  <2>3. IsInjective(queue) /\ IsInjective(Tail(queue)) /\ IsInjective(<<>>)
    BY <1>1, QueueTail DEF FirstInv, IsInjective
  <2>4. IsInjective(queue') /\ IsInjective(installed')
    BY <1>1, <2>2, <2>3 DEF FirstInv
  <2>5. loads' = loads
    BY <1>1
  <2> QED BY <2>1, <2>4, <2>5 DEF FirstInv
<1> QED BY <1>2, <1>4, <1>5

LEMMA NewContextFirst ==
  ASSUME IInv, FirstInv, Idle, NewContext, IsInjective(installed')
  PROVE  FirstInv'
<1>1. /\ DOMAIN tree'.cmds = DOMAIN tree.cmds
      /\ \A p \in DOMAIN tree.cmds : tree'.cmds[p].hash = tree.cmds[p].hash
      /\ UNCHANGED <<print_order, queue, phase, loads>>
  BY DEF NewContext
<1>2. \A m : Absent(tree, m) => Absent(tree', m)
  BY <1>1 DEF Absent
<1> QED BY <1>1, <1>2 DEF FirstInv, Ahead, Idle

LEMMA FirstInvariant == Spec => []FirstInv
<1>1. Init => FirstInv
  BY InitFirst
<1>2. IInv /\ FirstInv /\ [Next]_vars => FirstInv'
  <2> SUFFICES ASSUME IInv, FirstInv, [Next]_vars PROVE FirstInv'
    OBVIOUS
  <2>0. installed \in Seq(Modules)
    BY DEF IInv, WalkOK
  <2>1. CASE LoadModules
    BY <2>1, LoadModulesFirst
  <2>2. CASE SkipModule
    BY <2>2, SkipModuleFirst
  <2>3. CASE UnregisterNode
    BY <2>3, UnregisterNodeFirst
  <2>4. CASE RegisterNode
    BY <2>4, RegisterNodeFirst
  <2>5. ASSUME NEW m \in Modules, InstallModule(m) PROVE FirstInv'
    <3>1. IsInjective(installed')
      BY <2>0, <2>5, InjectiveAppend DEF InstallModule, FirstInv
    <3> QED BY <2>5, <3>1, NewContextFirst DEF InstallModule
  <2>6. ASSUME NEW i \in DOMAIN installed, RemoveModule(i) PROVE FirstInv'
    <3>1. IsInjective(installed')
      BY <2>0, <2>6, InjectiveRemove DEF RemoveModule, FirstInv
    <3> QED BY <2>6, <3>1, NewContextFirst DEF RemoveModule
  <2>7. CASE Start
    BY <2>7, StartFirst
  <2>8. CASE UNCHANGED vars
    BY <2>8 DEF vars, FirstInv, Ahead, Idle
  <2> QED BY <2>1, <2>2, <2>3, <2>4, <2>5, <2>6, <2>7, <2>8 DEF Next
<1> QED BY <1>1, <1>2, Invariant, PTL DEF Spec

(* The first load-modules frees nothing, so the pointer of print-order     *)
(* points to a command; whatever the modules, in any order of installing   *)
(* them.                                                                   *)
THEOREM FirstLoadCleanHolds == Spec => []FirstLoadClean
<1>1. FirstInv => FirstLoadClean
  BY DEF FirstInv, FirstLoadClean
<1> QED BY <1>1, FirstInvariant, PTL
=============================================================================
