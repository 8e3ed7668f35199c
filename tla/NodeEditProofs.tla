--------------------------- MODULE NodeEditProofs ---------------------------
(***************************************************************************)
(* Proofs about NodeEdit, for every schema, every set of inputs and        *)
(* indexes, and any width of an unsigned int.                              *)
(*                                                                         *)
(* The children of a node are sequences; most of what is said of them is   *)
(* about the set of all children, All(tree): what an edit does to the tree *)
(* it does to this set (FreedFacts, CreatedFacts, ReplacedFacts,           *)
(* MovedTree), and Build makes a tree of such a set again.  Only the order *)
(* of the entries of a list needs the sequences (PlacedMoved).             *)
(***************************************************************************)
EXTENDS NodeEdit, SequenceTheorems, WellFoundedInduction, TLAPS

-----------------------------------------------------------------------------
(* Natural numbers and sequences.                                          *)

(* A non-empty set of numbers has a least one.                             *)
LEMMA Smallest ==
  ASSUME NEW S, S \subseteq Nat, S # {}
  PROVE  \E m \in S : \A k \in S : m <= k
<1> DEFINE R == {s \in Nat \X Nat : s[1] < s[2]}
<1>1. IsWellFoundedOn(R, Nat)
  BY NatLessThanWellFounded DEF OpToRel
<1>2. PICK m \in S : \A k \in S : ~(<<k, m>> \in R)
  BY <1>1, WFMin
<1>3. \A k \in S : k \in Nat /\ ~(k < m)
  BY <1>2
<1> QED BY <1>3

LEMMA Concatenated ==
  ASSUME NEW S, NEW a \in Seq(S), NEW b \in Seq(S)
  PROVE  /\ a \o b \in Seq(S)
         /\ Len(a \o b) = Len(a) + Len(b)
         /\ \A i \in 1..Len(a) : (a \o b)[i] = a[i]
         /\ \A i \in (Len(a) + 1)..(Len(a) + Len(b)) : (a \o b)[i] = b[i - Len(a)]
<1>1. /\ a \o b \in Seq(S)
      /\ Len(a \o b) = Len(a) + Len(b)
  BY ConcatProperties
<1>2. ASSUME NEW i \in 1..Len(a)
      PROVE  (a \o b)[i] = a[i]
  <2>1. i \in 1..(Len(a) + Len(b)) /\ i <= Len(a)
    OBVIOUS
  <2> QED BY <2>1, ConcatProperties
<1>3. ASSUME NEW i \in (Len(a) + 1)..(Len(a) + Len(b))
      PROVE  (a \o b)[i] = b[i - Len(a)]
  <2>1. i \in 1..(Len(a) + Len(b)) /\ ~(i <= Len(a))
    OBVIOUS
  <2> QED BY <2>1, ConcatProperties
<1> QED BY <1>1, <1>2, <1>3

LEMMA Inserted ==
  ASSUME NEW S, NEW s \in Seq(S), NEW k \in 1..(Len(s) + 1), NEW e \in S
  PROVE  /\ InsertAt(s, k, e) \in Seq(S)
         /\ Len(InsertAt(s, k, e)) = Len(s) + 1
         /\ \A i \in 1..(k - 1) : InsertAt(s, k, e)[i] = s[i]
         /\ InsertAt(s, k, e)[k] = e
         /\ \A i \in k..Len(s) : InsertAt(s, k, e)[i + 1] = s[i]
<1> DEFINE a == SubSeq(s, 1, k - 1)
           b == SubSeq(s, k, Len(s))
           c == a \o <<e>>
           d == c \o b
<1>0. Len(s) \in Nat /\ k \in Int /\ k >= 1 /\ k <= Len(s) + 1
  OBVIOUS
<1>1. /\ a \in Seq(S) /\ Len(a) = k - 1
      /\ \A i \in 1..(k - 1) : a[i] = s[i]
  BY SubSeqProperties
<1>2. /\ b \in Seq(S) /\ Len(b) = Len(s) - k + 1
      /\ \A i \in 1..(Len(s) - k + 1) : b[i] = s[k + i - 1]
  BY SubSeqProperties
<1>3. InsertAt(s, k, e) = d
  BY DEF InsertAt
<1> HIDE DEF a, b
<1>4. /\ c \in Seq(S) /\ Len(c) = k
      /\ \A i \in 1..(k - 1) : c[i] = s[i]
      /\ c[k] = e
  BY <1>0, <1>1
<1> HIDE DEF c
<1>5. /\ d \in Seq(S) /\ Len(d) = Len(s) + 1
      /\ \A i \in 1..k : d[i] = c[i]
      /\ \A i \in (k + 1)..(Len(s) + 1) : d[i] = b[i - k]
  <2>1. /\ Len(c) = k /\ Len(c) + Len(b) = Len(s) + 1
    BY <1>0, <1>2, <1>4
  <2> QED BY <1>2, <1>4, <2>1, Concatenated
<1> HIDE DEF d
<1>6. ASSUME NEW i \in k..Len(s)
      PROVE  d[i + 1] = s[i]
  <2>1. i + 1 \in (k + 1)..(Len(s) + 1) /\ i + 1 - k \in 1..(Len(s) - k + 1)
    BY <1>0
  <2>2. d[i + 1] = b[i + 1 - k]
    BY <1>5, <2>1
  <2>3. b[i + 1 - k] = s[k + (i + 1 - k) - 1]
    BY <1>2, <2>1
  <2> QED BY <1>0, <2>2, <2>3
<1>7. \A i \in 1..(k - 1) : d[i] = s[i]
  BY <1>0, <1>4, <1>5
<1>8. d[k] = e
  BY <1>0, <1>4, <1>5
<1> QED BY <1>3, <1>5, <1>6, <1>7, <1>8

LEMMA Removed ==
  ASSUME NEW S, NEW s \in Seq(S), NEW k \in 1..Len(s)
  PROVE  /\ RemoveAt(s, k) \in Seq(S)
         /\ Len(RemoveAt(s, k)) = Len(s) - 1
         /\ \A i \in 1..(k - 1) : RemoveAt(s, k)[i] = s[i]
         /\ \A i \in (k + 1)..Len(s) : RemoveAt(s, k)[i - 1] = s[i]
<1> DEFINE a == SubSeq(s, 1, k - 1)
           b == SubSeq(s, k + 1, Len(s))
           d == a \o b
<1>0. Len(s) \in Nat /\ k \in Int /\ k >= 1 /\ k <= Len(s)
  OBVIOUS
<1>1. /\ a \in Seq(S) /\ Len(a) = k - 1
      /\ \A i \in 1..(k - 1) : a[i] = s[i]
  BY SubSeqProperties
<1>2. /\ b \in Seq(S) /\ Len(b) = Len(s) - k
      /\ \A i \in 1..(Len(s) - k) : b[i] = s[k + i]
  BY SubSeqProperties
<1>3. RemoveAt(s, k) = d
  BY DEF RemoveAt
<1> HIDE DEF a, b
<1>5. /\ d \in Seq(S) /\ Len(d) = Len(s) - 1
      /\ \A i \in 1..(k - 1) : d[i] = a[i]
      /\ \A i \in k..(Len(s) - 1) : d[i] = b[i - (k - 1)]
  <2>1. /\ Len(a) = k - 1 /\ Len(a) + Len(b) = Len(s) - 1 /\ Len(a) + 1 = k
    BY <1>0, <1>1, <1>2
  <2>2. /\ d \in Seq(S) /\ Len(d) = Len(a) + Len(b)
        /\ \A i \in 1..Len(a) : d[i] = a[i]
        /\ \A i \in (Len(a) + 1)..(Len(a) + Len(b)) : d[i] = b[i - Len(a)]
    BY <1>1, <1>2, Concatenated
  <2>3. \A i \in 1..(k - 1) : d[i] = a[i]
    BY <2>1, <2>2
  <2>4. \A i \in k..(Len(s) - 1) : d[i] = b[i - (k - 1)]
    <3> SUFFICES ASSUME NEW i \in k..(Len(s) - 1) PROVE d[i] = b[i - (k - 1)]
      OBVIOUS
    <3>1. d[i] = b[i - Len(a)]
      BY <2>1, <2>2
    <3> QED BY <2>1, <3>1
  <2>5. d \in Seq(S) /\ Len(d) = Len(s) - 1
    BY <2>1, <2>2
  <2> QED BY <2>3, <2>4, <2>5
<1> HIDE DEF d
<1>6. ASSUME NEW i \in (k + 1)..Len(s)
      PROVE  d[i - 1] = s[i]
  <2>1. i - 1 \in k..(Len(s) - 1) /\ i - k \in 1..(Len(s) - k)
        /\ (i - 1) - (k - 1) = i - k /\ k + (i - k) = i
    BY <1>0
  <2>2. d[i - 1] = b[i - k]
    BY <1>5, <2>1
  <2>3. b[i - k] = s[k + (i - k)]
    BY <1>2, <2>1
  <2> QED BY <2>1, <2>2, <2>3
<1>7. \A i \in 1..(k - 1) : d[i] = s[i]
  BY <1>0, <1>1, <1>5
<1> QED BY <1>3, <1>5, <1>6, <1>7

-----------------------------------------------------------------------------
(* The way to a node through its containers.                               *)

(* Where there may be children.                                            *)
Places == Boxes \cup {Self}

(* The containers on the path are on the path of each other.               *)
LEMMA PathFacts ==
  ASSUME NEW x \in Nodes
  PROVE  /\ Path(x) \in Seq(Boxes) /\ ToSet(Path(x)) \subseteq Boxes
         /\ Len(Path(x)) \in Nat
         /\ \A i \in 1..Len(Path(x)) :
              /\ Path(x)[i] \in Boxes
              /\ Path(Path(x)[i]) \in Seq(Boxes)
              /\ Len(Path(Path(x)[i])) = i - 1
              /\ \A j \in 1..(i - 1) : Path(Path(x)[i])[j] = Path(x)[j]
<1>1. /\ Path(x) \in Seq(Boxes)
      /\ \A i \in DOMAIN Path(x) : Path(Path(x)[i]) = SubSeq(Path(x), 1, i - 1)
  BY NodesAssumption DEF Path
<1>2. Len(Path(x)) \in Nat /\ DOMAIN Path(x) = 1..Len(Path(x))
  BY <1>1
<1>3. ASSUME NEW i \in 1..Len(Path(x))
      PROVE  /\ Path(x)[i] \in Boxes
             /\ Path(Path(x)[i]) \in Seq(Boxes)
             /\ Len(Path(Path(x)[i])) = i - 1
             /\ \A j \in 1..(i - 1) : Path(Path(x)[i])[j] = Path(x)[j]
  <2> DEFINE q == Path(x)
  <2> HIDE DEF q
  <2>1. q \in Seq(Boxes) /\ i \in 1..Len(q)
    BY <1>1 DEF q
  <2>2. /\ SubSeq(q, 1, i - 1) \in Seq(Boxes)
        /\ Len(SubSeq(q, 1, i - 1)) = i - 1
        /\ \A j \in 1..(i - 1) : SubSeq(q, 1, i - 1)[j] = q[j]
    BY <2>1, SubSeqProperties
  <2>3. Path(q[i]) = SubSeq(q, 1, i - 1)
    BY <1>1, <1>2 DEF q
  <2>4. q[i] \in Boxes
    BY <2>1
  <2> QED BY <2>2, <2>3, <2>4 DEF q
<1>4. ToSet(Path(x)) \subseteq Boxes
  BY <1>2, <1>3 DEF ToSet
<1> QED BY <1>1, <1>2, <1>3, <1>4

LEMMA OnPath ==
  ASSUME NEW x \in Nodes, NEW b
  PROVE  b \in ToSet(Path(x)) <=> \E i \in 1..Len(Path(x)) : b = Path(x)[i]
<1>1. Path(x) \in Seq(Boxes)
  BY PathFacts
<1>2. DOMAIN Path(x) = 1..Len(Path(x))
  BY <1>1
<1> QED BY <1>2 DEF ToSet

(* The parent is the last container on the path.                           *)
LEMMA ParentFacts ==
  ASSUME NEW x \in Nodes
  PROVE  /\ Parent(x) \in Places
         /\ Parent(x) = Self <=> Len(Path(x)) = 0
         /\ Parent(x) # Self =>
              /\ Parent(x) \in Boxes /\ Parent(x) \in ToSet(Path(x))
              /\ Len(Path(x)) \in 1..Len(Path(x))
              /\ Parent(x) = Path(x)[Len(Path(x))]
              /\ Len(Path(Parent(x))) = Len(Path(x)) - 1
<1> DEFINE l == Len(Path(x))
<1>1. Path(x) \in Seq(Boxes) /\ l \in Nat /\ (Path(x) = <<>> <=> l = 0)
  <2>1. Path(x) \in Seq(Boxes)
    BY PathFacts
  <2> QED BY <2>1
<1>2. CASE Path(x) = <<>>
  BY <1>1, <1>2 DEF Parent, Places
<1>3. CASE Path(x) # <<>>
  <2>1. l \in 1..l /\ l # 0
    BY <1>1, <1>3
  <2>2. Parent(x) = Path(x)[l]
    BY <1>3 DEF Parent, Last
  <2>3. Parent(x) \in Boxes /\ Len(Path(Parent(x))) = l - 1
    BY <2>1, <2>2, PathFacts
  <2>4. Parent(x) # Self
    BY <2>3, NodesAssumption DEF Boxes
  <2>5. Parent(x) \in ToSet(Path(x))
    BY <2>1, <2>2, OnPath
  <2> QED BY <2>1, <2>2, <2>3, <2>4, <2>5 DEF Places
<1> QED BY <1>2, <1>3

(* What is on the path of a node is above it, and so is what is on its own *)
(* path: no node is above itself.                                          *)
LEMMA Above ==
  ASSUME NEW x \in Nodes, NEW b \in ToSet(Path(x))
  PROVE  /\ b \in Boxes /\ b \in Nodes /\ b # x
         /\ Len(Path(b)) < Len(Path(x))
         /\ Path(x)[Len(Path(b)) + 1] = b /\ Len(Path(b)) + 1 \in 1..Len(Path(x))
         /\ ToSet(Path(b)) \subseteq ToSet(Path(x))
         /\ b = Parent(x) \/ b \in ToSet(Path(Parent(x)))
<1>1. PICK i \in 1..Len(Path(x)) : b = Path(x)[i]
  BY OnPath
<1>2. /\ b \in Boxes /\ Len(Path(x)) \in Nat
      /\ Path(b) \in Seq(Boxes) /\ Len(Path(b)) = i - 1
      /\ \A j \in 1..(i - 1) : Path(b)[j] = Path(x)[j]
  BY <1>1, PathFacts
<1>3. b \in Nodes
  BY <1>2 DEF Boxes
<1>4. Len(Path(b)) < Len(Path(x)) /\ Len(Path(b)) + 1 = i
  BY <1>2
<1>5. ToSet(Path(b)) \subseteq ToSet(Path(x))
  <2> SUFFICES ASSUME NEW a \in ToSet(Path(b)) PROVE a \in ToSet(Path(x))
    OBVIOUS
  <2>1. PICK j \in 1..Len(Path(b)) : a = Path(b)[j]
    BY <1>3, OnPath
  <2>2. j \in 1..(i - 1) /\ j \in 1..Len(Path(x))
    BY <1>2, <2>1
  <2>3. a = Path(x)[j]
    BY <1>2, <2>1, <2>2
  <2> QED BY <2>2, <2>3, OnPath
<1>6. b = Parent(x) \/ b \in ToSet(Path(Parent(x)))
  <2> DEFINE l == Len(Path(x))
  <2>0. l # 0
    BY <1>2
  <2>1. Parent(x) \in Boxes /\ Parent(x) = Path(x)[l] /\ l \in 1..l
    BY <2>0, ParentFacts
  <2>2. CASE i = l
    BY <1>1, <2>1, <2>2
  <2>3. CASE i # l
    <3>1. i \in 1..(l - 1)
      BY <1>2, <2>3
    <3>2. Len(Path(Parent(x))) = l - 1 /\ Path(Parent(x))[i] = Path(x)[i]
      BY <2>1, <3>1, PathFacts
    <3>3. Parent(x) \in Nodes
      BY <2>1 DEF Boxes
    <3> QED BY <1>1, <3>1, <3>2, <3>3, OnPath
  <2> QED BY <2>2, <2>3
<1> QED BY <1>1, <1>2, <1>3, <1>4, <1>5, <1>6

(* The node and what is on the way to it.                                  *)
Way(x) == ToSet(Path(x)) \cup {x}

(* Two nodes on the way with the same parent are the same.                 *)
LEMMA WayFacts ==
  ASSUME NEW x \in Nodes
  PROVE  /\ Way(x) \subseteq Nodes
         /\ \A y \in Way(x) : Parent(y) # Self => Parent(y) \in ToSet(Path(x))
         /\ \A y, z \in Way(x) : Parent(y) = Parent(z) => y = z
<1>1. Way(x) \subseteq Nodes
  BY Above DEF Way
<1>2. ASSUME NEW y \in Way(x), Parent(y) # Self
      PROVE  Parent(y) \in ToSet(Path(x))
  BY <1>1, <1>2, ParentFacts, Above DEF Way
<1>3. ASSUME NEW y \in Way(x), NEW z \in Way(x), Parent(y) = Parent(z)
      PROVE  y = z
  <2>1. Len(Path(y)) = Len(Path(z))
    <3>0. Len(Path(y)) \in Nat /\ Len(Path(z)) \in Nat
      BY <1>1, PathFacts
    <3>1. CASE Parent(y) = Self
      BY <1>1, <1>3, <3>1, ParentFacts
    <3>2. CASE Parent(y) # Self
      <4>1. Len(Path(Parent(y))) = Len(Path(y)) - 1
        BY <1>1, <3>2, ParentFacts
      <4>2. Len(Path(Parent(z))) = Len(Path(z)) - 1
        BY <1>1, <1>3, <3>2, ParentFacts
      <4> QED BY <1>3, <3>0, <4>1, <4>2
    <3> QED BY <3>1, <3>2
  <2>2. \A v \in Way(x) : \/ v = x
                          \/ /\ Path(x)[Len(Path(v)) + 1] = v
                             /\ Len(Path(v)) < Len(Path(x))
    BY Above DEF Way
  <2>3. Len(Path(x)) \in Nat
    BY PathFacts
  <2> QED BY <2>1, <2>2, <2>3
<1> QED BY <1>1, <1>2, <1>3

(* Only a container has something within it.                               *)
LEMMA WithinFacts ==
  ASSUME NEW x \in Nodes
  PROVE  /\ ~Within(Parent(x), x)
         /\ x \notin Boxes => \A p \in Places : ~Within(p, x)
         /\ ~Within(Self, x)
         /\ \A q \in Boxes : Within(Parent(q), x) => Within(q, x)
<1>1. Self \notin Nodes
  BY NodesAssumption
<1>2. ~Within(Self, x)
  BY <1>1 DEF Within
<1>3. ~Within(Parent(x), x)
  <2> SUFFICES ASSUME Within(Parent(x), x) PROVE FALSE
    OBVIOUS
  <2>1. Parent(x) \in Nodes /\ Parent(x) \in ToSet(Path(x))
    BY <1>2, ParentFacts DEF Within
  <2>2. Parent(x) # x
    BY <2>1, Above
  <2>3. x \in ToSet(Path(Parent(x)))
    BY <2>2 DEF Within
  <2>4. x \in ToSet(Path(x))
    BY <2>1, <2>3, Above
  <2> QED BY <2>4, Above
<1>4. ASSUME x \notin Boxes, NEW p \in Places
      PROVE  ~Within(p, x)
  <2> SUFFICES ASSUME Within(p, x) PROVE FALSE
    OBVIOUS
  <2>1. p \in Nodes /\ p \in Boxes
    BY <1>1, <1>2 DEF Within, Places
  <2>2. x \in ToSet(Path(p))
    BY <1>4, <2>1 DEF Within
  <2> QED BY <1>4, <2>1, <2>2, Above
<1>5. ASSUME NEW q \in Boxes, Within(Parent(q), x)
      PROVE  Within(q, x)
  <2>1. q \in Nodes
    BY DEF Boxes
  <2>2. Parent(q) # Self
    BY <1>2, <1>5
  <2>3. Parent(q) \in ToSet(Path(q))
    BY <2>1, <2>2, ParentFacts
  <2>4. x = Parent(q) \/ x \in ToSet(Path(Parent(q)))
    BY <1>5 DEF Within
  <2>5. x \in ToSet(Path(q))
    BY <2>1, <2>3, <2>4, Above
  <2> QED BY <2>1, <2>5 DEF Within
<1> QED BY <1>2, <1>3, <1>4, <1>5

-----------------------------------------------------------------------------
(* Siblings: sequences of which no two are the same by the path.           *)

(* The children, and siblings of which none is found in place of another.  *)
Kids == [name : Nodes, value : Inputs \cup {None}]

Apart(s) == \A i, j \in DOMAIN s : i # j => ~Is(s[j], s[i].name, s[i].value)

LEMMA InSet ==
  ASSUME NEW S, NEW s \in Seq(S), NEW v
  PROVE  /\ DOMAIN s = 1..Len(s) /\ Len(s) \in Nat
         /\ v \in ToSet(s) <=> \E i \in 1..Len(s) : s[i] = v
         /\ ToSet(s) \subseteq S
BY DEF ToSet

LEMMA IsSymmetric ==
  ASSUME NEW m, NEW n, Is(m, n.name, n.value)
  PROVE  Is(n, m.name, m.value)
BY DEF Is

(* r is s with e in its k-th place.                                        *)
IsInserted(s, k, e, r) ==
  /\ Len(r) = Len(s) + 1
  /\ \A i \in 1..(k - 1) : r[i] = s[i]
  /\ r[k] = e
  /\ \A i \in k..Len(s) : r[i + 1] = s[i]

(* What is put among siblings is one more of them, wherever it goes.       *)
LEMMA InsertedSet ==
  ASSUME NEW s \in Seq(Kids), Apart(s), NEW e \in Kids, NEW k \in 1..(Len(s) + 1),
         \A n \in ToSet(s) : ~Is(n, e.name, e.value),
         NEW r \in Seq(Kids), IsInserted(s, k, e, r)
  PROVE  Apart(r) /\ ToSet(r) = ToSet(s) \cup {e}
<1>f. /\ Len(r) = Len(s) + 1
      /\ \A i \in 1..(k - 1) : r[i] = s[i]
      /\ r[k] = e
      /\ \A i \in k..Len(s) : r[i + 1] = s[i]
  BY DEF IsInserted
<1>0. /\ DOMAIN s = 1..Len(s) /\ Len(s) \in Nat /\ DOMAIN r = 1..(Len(s) + 1)
      /\ k \in Int /\ 1 <= k /\ k <= Len(s) + 1
  BY <1>f, InSet
<1> DEFINE old(i) == IF i < k THEN i ELSE i - 1
<1>1. ASSUME NEW i \in 1..(Len(s) + 1), i # k
      PROVE  old(i) \in 1..Len(s) /\ r[i] = s[old(i)]
  <2>1. CASE i < k
    BY <1>f, <1>0, <2>1
  <2>2. CASE i > k
    <3>1. i - 1 \in k..Len(s) /\ (i - 1) + 1 = i /\ ~(i < k) /\ i - 1 \in 1..Len(s)
      BY <1>0, <2>2
    <3>2. r[(i - 1) + 1] = s[i - 1]
      BY <1>f, <3>1
    <3> QED BY <3>1, <3>2
  <2> QED BY <1>0, <1>1, <2>1, <2>2
<1>2. ASSUME NEW i \in 1..Len(s)
      PROVE  \E j \in 1..(Len(s) + 1) : r[j] = s[i]
  <2>1. CASE i < k
    BY <1>f, <1>0, <2>1
  <2>2. CASE i >= k
    <3>1. i \in k..Len(s) /\ i + 1 \in 1..(Len(s) + 1)
      BY <1>0, <2>2
    <3> QED BY <1>f, <3>1
  <2> QED BY <1>0, <2>1, <2>2
<1>3. ToSet(r) = ToSet(s) \cup {e}
  <2>1. ASSUME NEW v \in ToSet(r) PROVE v \in ToSet(s) \cup {e}
    <3>1. PICK i \in 1..(Len(s) + 1) : v = r[i]
      BY <1>0 DEF ToSet
    <3>2. CASE i = k
      BY <1>f, <3>1, <3>2
    <3>3. CASE i # k
      <4>1. old(i) \in DOMAIN s /\ v = s[old(i)]
        BY <1>0, <1>1, <3>1, <3>3
      <4> HIDE DEF old
      <4> QED BY <4>1 DEF ToSet
    <3> QED BY <3>2, <3>3
  <2>2. ASSUME NEW v \in ToSet(s) PROVE v \in ToSet(r)
    BY <1>0, <1>2 DEF ToSet
  <2>3. e \in ToSet(r)
    BY <1>f, <1>0 DEF ToSet
  <2> QED BY <2>1, <2>2, <2>3
<1>4. Apart(r)
  <2> SUFFICES ASSUME NEW i \in 1..(Len(s) + 1), NEW j \in 1..(Len(s) + 1), i # j
               PROVE  ~Is(r[j], r[i].name, r[i].value)
    BY <1>0 DEF Apart
  <2>1. CASE i = k
    BY <1>f, <1>0, <1>1, <2>1 DEF ToSet
  <2>2. CASE j = k
    <3>1. r[i] \in ToSet(s) /\ r[j] = e
      BY <1>f, <1>0, <1>1, <2>2 DEF ToSet
    <3>2. ~Is(r[i], e.name, e.value)
      BY <3>1
    <3> QED BY <3>1, <3>2, IsSymmetric
  <2>3. CASE i # k /\ j # k
    <3>1. old(i) \in 1..Len(s) /\ r[i] = s[old(i)]
      BY <1>1, <2>3
    <3>2. old(j) \in 1..Len(s) /\ r[j] = s[old(j)]
      BY <1>1, <2>3
    <3>3. old(i) # old(j)
      BY <1>0, <2>3
    <3> HIDE DEF old
    <3> QED BY <1>0, <3>1, <3>2, <3>3 DEF Apart
  <2> QED BY <2>1, <2>2, <2>3
<1> QED BY <1>3, <1>4

LEMMA InsertSet ==
  ASSUME NEW s \in Seq(Kids), Apart(s), NEW e \in Kids, NEW k \in 1..(Len(s) + 1),
         \A n \in ToSet(s) : ~Is(n, e.name, e.value)
  PROVE  /\ InsertAt(s, k, e) \in Seq(Kids)
         /\ Apart(InsertAt(s, k, e))
         /\ ToSet(InsertAt(s, k, e)) = ToSet(s) \cup {e}
<1> DEFINE r == InsertAt(s, k, e)
<1> HIDE DEF r
<1>1. r \in Seq(Kids) /\ IsInserted(s, k, e, r)
  BY Inserted DEF r, IsInserted
<1>2. Apart(r) /\ ToSet(r) = ToSet(s) \cup {e}
  BY <1>1, InsertedSet
<1> QED BY <1>1, <1>2 DEF r

(* So does a new child, at the place its rank gives it.                    *)
LEMMA WithChildFacts ==
  ASSUME NEW s \in Seq(Kids), Apart(s), NEW e \in Kids,
         \A n \in ToSet(s) : ~Is(n, e.name, e.value)
  PROVE  /\ WithChild(s, e) \in Seq(Kids)
         /\ Apart(WithChild(s, e))
         /\ ToSet(WithChild(s, e)) = ToSet(s) \cup {e}
<1> DEFINE rank(i) == Schema[s[i].name].rank
           later == {i \in DOMAIN s : rank(i) > Schema[e.name].rank}
           next == {i \in later : \A j \in later : rank(i) <= rank(j)}
<1>0. DOMAIN s = 1..Len(s) /\ Len(s) \in Nat
  BY InSet
<1>1. WithChild(s, e) = IF later = {} THEN Append(s, e) ELSE InsertAt(s, Min(next), e)
  BY DEF WithChild
<1>2. CASE later = {}
  <2> DEFINE r == Append(s, e)
  <2>1. /\ r \in Seq(Kids) /\ Len(r) = Len(s) + 1
        /\ \A i \in 1..Len(s) : r[i] = s[i]
        /\ r[Len(s) + 1] = e
    BY <1>0
  <2> HIDE DEF r
  <2>2. Len(s) + 1 \in 1..(Len(s) + 1) /\ (Len(s) + 1) - 1 = Len(s)
        /\ \A i \in (Len(s) + 1)..Len(s) : FALSE
    BY <1>0
  <2>3. IsInserted(s, Len(s) + 1, e, r)
    BY <2>1, <2>2 DEF IsInserted
  <2>4. Apart(r) /\ ToSet(r) = ToSet(s) \cup {e}
    BY <2>1, <2>2, <2>3, InsertedSet
  <2> QED BY <1>1, <1>2, <2>1, <2>4 DEF r
<1>3. CASE later # {}
  <2>1. \A i \in DOMAIN s : rank(i) \in Nat
    <3>2. \A x \in Nodes : Schema[x].rank \in Nat
      BY NodesAssumption
    <3> SUFFICES ASSUME NEW i \in DOMAIN s PROVE rank(i) \in Nat
      OBVIOUS
    <3>1. s[i] \in Kids
      BY <1>0
    <3>3. s[i].name \in Nodes
      BY <3>1 DEF Kids
    <3>4. Schema[s[i].name].rank \in Nat
      BY <3>2, <3>3
    <3> QED BY <3>4
  <2> DEFINE ranks == {rank(i) : i \in later}
  <2>2. ranks \subseteq Nat /\ ranks # {}
    BY <1>3, <2>1
  <2> HIDE DEF ranks
  <2>3. PICK m \in ranks : \A k \in ranks : m <= k
    BY <2>2, Smallest
  <2>4. next # {}
    BY <2>3 DEF ranks
  <2>5. next \subseteq 1..Len(s)
    BY <1>0
  <2> HIDE DEF next
  <2>6. next \subseteq Nat
    BY <1>0, <2>5
  <2>7. PICK p \in next : \A j \in next : p <= j
    BY <2>4, <2>6, Smallest
  <2>8. Min(next) \in next
    BY <2>7 DEF Min
  <2>9. Min(next) \in 1..(Len(s) + 1)
    <3>1. Min(next) \in 1..Len(s)
      BY <2>5, <2>8
    <3> HIDE DEF next
    <3> QED BY <1>0, <3>1
  <2>10. WithChild(s, e) = InsertAt(s, Min(next), e)
    BY <1>1, <1>3
  <2> HIDE DEF later
  <2> HIDE DEF next
  <2>11. \A k \in 1..(Len(s) + 1) :
           /\ InsertAt(s, k, e) \in Seq(Kids)
           /\ Apart(InsertAt(s, k, e))
           /\ ToSet(InsertAt(s, k, e)) = ToSet(s) \cup {e}
    BY InsertSet
  <2> QED BY <2>9, <2>10, <2>11
<1> QED BY <1>2, <1>3

(* What is taken from siblings takes nothing else with it.                 *)
LEMMA RemovedSet ==
  ASSUME NEW s \in Seq(Kids), Apart(s), NEW k \in 1..Len(s)
  PROVE  /\ RemoveAt(s, k) \in Seq(Kids)
         /\ Apart(RemoveAt(s, k))
         /\ ToSet(RemoveAt(s, k)) = {n \in ToSet(s) : ~Is(n, s[k].name, s[k].value)}
<1> DEFINE r == RemoveAt(s, k)
<1> HIDE DEF r
<1>1. /\ r \in Seq(Kids) /\ Len(r) = Len(s) - 1
      /\ \A i \in 1..(k - 1) : r[i] = s[i]
      /\ \A i \in (k + 1)..Len(s) : r[i - 1] = s[i]
  BY Removed DEF r
<1>0. /\ DOMAIN s = 1..Len(s) /\ Len(s) \in Nat /\ DOMAIN r = 1..(Len(s) - 1)
      /\ k \in Int /\ 1 <= k /\ k <= Len(s)
  BY <1>1, InSet
<1> DEFINE old(i) == IF i < k THEN i ELSE i + 1
<1>2. ASSUME NEW i \in 1..(Len(s) - 1)
      PROVE  old(i) \in 1..Len(s) /\ old(i) # k /\ r[i] = s[old(i)]
  <2>1. CASE i < k
    BY <1>0, <1>1, <2>1
  <2>2. CASE i >= k
    <3>1. i + 1 \in (k + 1)..Len(s) /\ (i + 1) - 1 = i /\ ~(i < k) /\ i + 1 \in 1..Len(s)
      BY <1>0, <2>2
    <3>2. r[(i + 1) - 1] = s[i + 1]
      BY <1>1, <3>1
    <3> QED BY <1>0, <2>2, <3>1, <3>2
  <2> QED BY <1>0, <2>1, <2>2
<1>3. ASSUME NEW i \in 1..Len(s), i # k
      PROVE  \E j \in 1..(Len(s) - 1) : r[j] = s[i]
  <2>1. CASE i < k
    BY <1>0, <1>1, <2>1
  <2>2. CASE i > k
    <3>1. i \in (k + 1)..Len(s) /\ i - 1 \in 1..(Len(s) - 1)
      BY <1>0, <2>2
    <3> QED BY <1>1, <3>1
  <2> QED BY <1>0, <1>3, <2>1, <2>2
<1>4. ToSet(r) = {n \in ToSet(s) : ~Is(n, s[k].name, s[k].value)}
  <2>1. ASSUME NEW v \in ToSet(r)
        PROVE  v \in ToSet(s) /\ ~Is(v, s[k].name, s[k].value)
    <3>1. PICK i \in 1..(Len(s) - 1) : v = r[i]
      BY <1>0 DEF ToSet
    <3>2. old(i) \in 1..Len(s) /\ old(i) # k /\ v = s[old(i)]
      BY <1>2, <3>1
    <3> HIDE DEF old
    <3> QED BY <1>0, <3>2 DEF Apart, ToSet
  <2>2. ASSUME NEW v \in ToSet(s), ~Is(v, s[k].name, s[k].value)
        PROVE  v \in ToSet(r)
    <3>1. PICK i \in 1..Len(s) : v = s[i]
      BY <1>0 DEF ToSet
    <3>2. i # k
      BY <2>2, <3>1 DEF Is
    <3> QED BY <1>0, <1>3, <3>1, <3>2 DEF ToSet
  <2> QED BY <2>1, <2>2
<1>5. Apart(r)
  <2> SUFFICES ASSUME NEW i \in 1..(Len(s) - 1), NEW j \in 1..(Len(s) - 1), i # j
               PROVE  ~Is(r[j], r[i].name, r[i].value)
    BY <1>0 DEF Apart
  <2>1. old(i) \in 1..Len(s) /\ r[i] = s[old(i)]
    BY <1>2
  <2>2. old(j) \in 1..Len(s) /\ r[j] = s[old(j)]
    BY <1>2
  <2>3. old(i) # old(j)
    BY <1>0
  <2> HIDE DEF old
  <2> QED BY <1>0, <2>1, <2>2, <2>3 DEF Apart
<1> QED BY <1>1, <1>4, <1>5 DEF r

(* A child is at one place.                                                *)
LEMMA SpotFacts ==
  ASSUME NEW s \in Seq(Kids), Apart(s), NEW x, NEW t,
         \E n \in ToSet(s) : Is(n, x, t)
  PROVE  /\ Spot(s, x, t) \in 1..Len(s)
         /\ Is(s[Spot(s, x, t)], x, t)
         /\ s[Spot(s, x, t)] \in ToSet(s)
         /\ \A i \in 1..Len(s) : Is(s[i], x, t) => i = Spot(s, x, t)
<1>0. DOMAIN s = 1..Len(s)
  BY InSet
<1>1. \E i \in DOMAIN s : Is(s[i], x, t)
  BY DEF ToSet
<1>2. Spot(s, x, t) \in DOMAIN s /\ Is(s[Spot(s, x, t)], x, t)
  BY <1>1 DEF Spot
<1>3. ASSUME NEW i \in 1..Len(s), Is(s[i], x, t)
      PROVE  i = Spot(s, x, t)
  <2>1. Is(s[i], s[Spot(s, x, t)].name, s[Spot(s, x, t)].value)
    BY <1>2, <1>3 DEF Is
  <2> QED BY <1>0, <1>2, <2>1 DEF Apart
<1> QED BY <1>0, <1>2, <1>3 DEF ToSet

LEMMA WithoutFacts ==
  ASSUME NEW s \in Seq(Kids), Apart(s), NEW x, NEW t
  PROVE  /\ Without(s, x, t) \in Seq(Kids)
         /\ Apart(Without(s, x, t))
         /\ ToSet(Without(s, x, t)) = {n \in ToSet(s) : ~Is(n, x, t)}
<1>1. CASE \E n \in ToSet(s) : Is(n, x, t)
  <2> DEFINE k == Spot(s, x, t)
  <2> HIDE DEF k
  <2>1. k \in 1..Len(s) /\ Is(s[k], x, t)
    BY <1>1, SpotFacts DEF k
  <2>2. Without(s, x, t) = RemoveAt(s, k)
    BY <2>1, InSet DEF Without, k
  <2>3. /\ RemoveAt(s, k) \in Seq(Kids)
        /\ Apart(RemoveAt(s, k))
        /\ ToSet(RemoveAt(s, k)) = {n \in ToSet(s) : ~Is(n, s[k].name, s[k].value)}
    BY <2>1, RemovedSet
  <2>4. \A n : Is(n, x, t) <=> Is(n, s[k].name, s[k].value)
    BY <2>1 DEF Is
  <2> QED BY <2>2, <2>3, <2>4
<1>2. CASE ~\E n \in ToSet(s) : Is(n, x, t)
  <2>1. Without(s, x, t) = s
    BY <1>2 DEF Without, ToSet
  <2> QED BY <1>2, <2>1
<1> QED BY <1>1, <1>2

(* A move keeps the siblings.                                              *)
LEMMA MovedFacts ==
  ASSUME NEW s \in Seq(Kids), Apart(s), NEW from \in 1..Len(s), NEW to \in 1..Len(s)
  PROVE  /\ Moved(s, from, to) \in Seq(Kids)
         /\ Apart(Moved(s, from, to))
         /\ ToSet(Moved(s, from, to)) = ToSet(s)
<1> DEFINE r == RemoveAt(s, from)
           k == IF from < to THEN to - 1 ELSE to
<1>0. DOMAIN s = 1..Len(s) /\ Len(s) \in Nat /\ s[from] \in Kids
  BY InSet
<1>1. /\ r \in Seq(Kids) /\ Apart(r) /\ Len(r) = Len(s) - 1
      /\ ToSet(r) = {n \in ToSet(s) : ~Is(n, s[from].name, s[from].value)}
  BY Removed, RemovedSet
<1>2. Moved(s, from, to) = InsertAt(r, k, s[from])
  BY DEF Moved
<1>3. k \in 1..(Len(r) + 1)
  BY <1>0, <1>1
<1> HIDE DEF r, k
<1>4. /\ InsertAt(r, k, s[from]) \in Seq(Kids)
      /\ Apart(InsertAt(r, k, s[from]))
      /\ ToSet(InsertAt(r, k, s[from])) = ToSet(r) \cup {s[from]}
  BY <1>0, <1>1, <1>3, InsertSet
<1>5. ASSUME NEW n \in ToSet(s), Is(n, s[from].name, s[from].value)
      PROVE  n = s[from]
  <2>1. PICK i \in 1..Len(s) : n = s[i]
    BY <1>0 DEF ToSet
  <2> QED BY <1>0, <1>5, <2>1 DEF Apart
<1>6. s[from] \in ToSet(s)
  BY <1>0 DEF ToSet
<1> QED BY <1>1, <1>2, <1>4, <1>5, <1>6

-----------------------------------------------------------------------------
(* Trees, and the set of what is in them.                                  *)

(* All children; a set of them is closed when the containers they are in   *)
(* are among them.                                                         *)
All(tree) == UNION {ToSet(tree[p]) : p \in Places}

Closed(A) ==
  \A n \in A : Parent(n.name) # Self => \E m \in A : m.name = Parent(n.name)

Tree(tree) ==
  /\ tree \in [Places -> Seq(Kids)]
  /\ \A p \in Places :
       /\ Apart(tree[p])
       /\ \A n \in ToSet(tree[p]) : Parent(n.name) = p /\ Stores(n.name, n.value)
  /\ \A p \in Boxes : tree[p] # <<>> => Has(tree, p, None)

(* A node is found by its path where there is one in the tree.             *)
LEMMA HasIs ==
  ASSUME NEW tree, Tree(tree), NEW x \in Nodes, NEW t
  PROVE  Has(tree, x, t) <=> \E n \in All(tree) : Is(n, x, t)
<1>1. Parent(x) \in Places
  BY ParentFacts
<1>2. Has(tree, x, t) <=> \E n \in ToSet(tree[Parent(x)]) : Is(n, x, t)
  BY DEF Has, ToSet
<1>3. ASSUME NEW n \in All(tree), Is(n, x, t)
      PROVE  n \in ToSet(tree[Parent(x)])
  BY <1>3 DEF All, Tree, Is
<1> QED BY <1>1, <1>2, <1>3 DEF All

(* A tree as its set of children.                                          *)
LEMMA View ==
  ASSUME NEW tree, Tree(tree)
  PROVE  /\ All(tree) \subseteq Kids
         /\ \A n \in All(tree) : n.name \in Nodes /\ Stores(n.name, n.value)
         /\ \A p \in Places : ToSet(tree[p]) = {n \in All(tree) : Parent(n.name) = p}
         /\ Closed(All(tree))
<1>1. All(tree) \subseteq Kids
  <2>1. \A p \in Places : tree[p] \in Seq(Kids)
    BY DEF Tree
  <2>2. \A p \in Places : ToSet(tree[p]) \subseteq Kids
    BY <2>1, InSet
  <2> QED BY <2>2 DEF All
<1>2. \A n \in All(tree) : n.name \in Nodes /\ Stores(n.name, n.value)
  BY <1>1 DEF Kids, Tree, All
<1>3. ASSUME NEW p \in Places
      PROVE  ToSet(tree[p]) = {n \in All(tree) : Parent(n.name) = p}
  BY DEF All, Tree
<1>4. ASSUME NEW n \in All(tree), Parent(n.name) # Self
      PROVE  \E m \in All(tree) : m.name = Parent(n.name)
  <2> DEFINE q == Parent(n.name)
  <2>1. q \in Boxes /\ q \in Nodes
    BY <1>2, <1>4, ParentFacts DEF Boxes
  <2>2. q \in Places
    BY <2>1 DEF Places
  <2>3. n \in ToSet(tree[q])
    BY <1>3, <2>2
  <2>4. tree[q] # <<>>
    <3>1. tree[q] \in Seq(Kids)
      BY <2>2 DEF Tree
    <3> HIDE DEF q
    <3>2. DOMAIN tree[q] # {}
      BY <2>3 DEF ToSet
    <3> QED BY <3>2
  <2>5. Has(tree, q, None)
    BY <2>1, <2>4 DEF Tree
  <2>6. PICK m \in All(tree) : Is(m, q, None)
    BY <2>1, <2>5, HasIs
  <2> QED BY <2>6 DEF Is
<1> QED BY <1>1, <1>2, <1>3, <1>4 DEF Closed

LEMMA NotKeyed ==
  ASSUME NEW x \in Boxes
  PROVE  x \in Nodes /\ ~Keyed(x)
BY DEF Boxes, Keyed, LeafLists, Lists

(* And the way back.                                                       *)
LEMMA Build ==
  ASSUME NEW tree, tree \in [Places -> Seq(Kids)],
         NEW A, A \subseteq Kids, Closed(A),
         \A n \in A : Stores(n.name, n.value),
         \A p \in Places : Apart(tree[p]) /\ ToSet(tree[p]) = {n \in A : Parent(n.name) = p}
  PROVE  Tree(tree) /\ All(tree) = A
<1>1. \A n \in A : n.name \in Nodes /\ Parent(n.name) \in Places
  BY ParentFacts DEF Kids
<1>2. All(tree) = A
  <2>1. ASSUME NEW n \in A PROVE n \in All(tree)
    <3>1. Parent(n.name) \in Places
      BY <1>1
    <3>2. n \in ToSet(tree[Parent(n.name)])
      BY <3>1
    <3> QED BY <3>1, <3>2 DEF All
  <2>2. ASSUME NEW n \in All(tree) PROVE n \in A
    <3>1. PICK p \in Places : n \in ToSet(tree[p])
      BY DEF All
    <3>2. ToSet(tree[p]) = {m \in A : Parent(m.name) = p}
      BY <3>1
    <3> QED BY <3>1, <3>2
  <2> QED BY <2>1, <2>2
<1>3. ASSUME NEW p \in Boxes, tree[p] # <<>>
      PROVE  Has(tree, p, None)
  <2>1. p \in Places /\ p \in Nodes /\ p # Self /\ ~Keyed(p)
    BY NotKeyed, NodesAssumption DEF Places
  <2>2. tree[p] \in Seq(Kids)
    BY <2>1
  <2>3. 1 \in DOMAIN tree[p]
    BY <1>3, <2>2
  <2>4. PICK n \in A : Parent(n.name) = p
    <3>1. tree[p][1] \in ToSet(tree[p])
      BY <2>3 DEF ToSet
    <3>2. ToSet(tree[p]) = {n \in A : Parent(n.name) = p}
      BY <2>1
    <3> QED BY <3>1, <3>2
  <2>5. PICK m \in A : m.name = p
    BY <2>1, <2>4 DEF Closed
  <2>6. Parent(p) \in Places /\ m \in ToSet(tree[Parent(p)])
    BY <1>1, <2>5
  <2>7. Is(m, p, None)
    BY <2>1, <2>5 DEF Is
  <2> QED BY <2>6, <2>7 DEF Has, ToSet
<1> QED BY <1>2, <1>3 DEF Tree

(* Everything on the way to a node that is there is there.                 *)
LEMMA WayThere ==
  ASSUME NEW A, A \subseteq Kids, Closed(A), NEW n \in A, NEW b \in ToSet(Path(n.name))
  PROVE  \E m \in A : m.name = b
<1> DEFINE x == n.name
           l == Len(Path(x))
           Gone == {k \in Nat : k < l /\ ~\E m \in A : m.name = Path(x)[l - k]}
<1>0. x \in Nodes /\ l \in Nat
  BY PathFacts DEF Kids
<1>1. SUFFICES ASSUME Gone # {} PROVE FALSE
  <2>1. PICK i \in 1..l : b = Path(x)[i]
    BY <1>0, OnPath
  <2>2. l - i \in Nat /\ l - i < l /\ l - (l - i) = i
    BY <1>0
  <2>3. l - i \notin Gone
    BY <1>1
  <2> QED BY <2>1, <2>2, <2>3
<1>2. Gone \subseteq Nat
  OBVIOUS
<1> HIDE DEF Gone
<1>3. PICK k \in Gone : \A j \in Gone : k <= j
  BY <1>1, <1>2, Smallest
<1>4. k \in Nat /\ k < l /\ ~\E m \in A : m.name = Path(x)[l - k]
  BY <1>3 DEF Gone
<1>5. CASE k = 0
  <2>1. l - k = l /\ l # 0
    BY <1>0, <1>4, <1>5
  <2>2. Parent(x) # Self /\ Parent(x) = Path(x)[l]
    BY <1>0, <2>1, ParentFacts
  <2> QED BY <1>4, <2>1, <2>2 DEF Closed
<1>6. CASE k # 0
  <2> DEFINE i == l - k
  <2>1. i \in 1..l /\ i + 1 \in 1..l /\ k - 1 \in Nat /\ k - 1 < l /\ l - (k - 1) = i + 1
        /\ ~(k <= k - 1)
    BY <1>0, <1>4, <1>6
  <2>2. k - 1 \notin Gone
    BY <1>3, <2>1
  <2>3. PICK m \in A : m.name = Path(x)[i + 1]
    BY <2>1, <2>2 DEF Gone
  <2>4. m.name \in Nodes /\ Len(Path(m.name)) = i /\ \A j \in 1..i : Path(m.name)[j] = Path(x)[j]
    <3>1. /\ Len(Path(Path(x)[i + 1])) = (i + 1) - 1
          /\ \A j \in 1..((i + 1) - 1) : Path(Path(x)[i + 1])[j] = Path(x)[j]
      BY <1>0, <2>1, PathFacts
    <3>2. (i + 1) - 1 = i
      BY <2>1
    <3> QED BY <2>3, <3>1, <3>2 DEF Kids
  <2>5. Parent(m.name) # Self /\ Parent(m.name) = Path(m.name)[i]
    <3>1. i # 0
      BY <2>1
    <3> HIDE DEF i
    <3> QED BY <2>4, <3>1, ParentFacts
  <2>6. i \in 1..i
    BY <2>1
  <2>7. Parent(m.name) = Path(x)[i]
    BY <2>4, <2>5, <2>6
  <2> QED BY <1>4, <2>5, <2>7 DEF Closed
<1> QED BY <1>5, <1>6

-----------------------------------------------------------------------------
(* What the edits do to a tree.                                            *)

LEMMA FactsOf ==
  ASSUME NEW tree, Tree(tree)
  PROVE  Facts(tree) = {n \in All(tree) : n.name \notin Boxes}
<1>1. DOMAIN tree = Places
  BY DEF Tree
<1> QED BY <1>1 DEF Facts, All

(* Freeing takes the node and what is within it, and nothing else.         *)
LEMMA FreedFacts ==
  ASSUME NEW tree, Tree(tree), NEW x \in Nodes, NEW t
  PROVE  /\ Tree(Freed(tree, x, t))
         /\ All(Freed(tree, x, t)) =
              {n \in All(tree) : ~Is(n, x, t) /\ ~Within(Parent(n.name), x)}
<1> DEFINE new == Freed(tree, x, t)
           A == {n \in All(tree) : ~Is(n, x, t) /\ ~Within(Parent(n.name), x)}
<1>0. /\ tree \in [Places -> Seq(Kids)] /\ Parent(x) \in Places
      /\ ~Within(Parent(x), x)
  BY ParentFacts, WithinFacts DEF Tree
<1>1. ASSUME NEW p \in Places
      PROVE  /\ new[p] \in Seq(Kids) /\ Apart(new[p])
             /\ ToSet(new[p]) = {n \in A : Parent(n.name) = p}
  <2>0. /\ tree[p] \in Seq(Kids) /\ Apart(tree[p])
        /\ ToSet(tree[p]) = {n \in All(tree) : Parent(n.name) = p}
    BY <1>0, View DEF Tree
  <2>1. CASE p = Parent(x)
    <3>1. new[p] = Without(tree[p], x, t)
      BY <1>0, <2>1 DEF Freed
    <3>2. /\ Without(tree[p], x, t) \in Seq(Kids)
          /\ Apart(Without(tree[p], x, t))
          /\ ToSet(Without(tree[p], x, t)) = {n \in ToSet(tree[p]) : ~Is(n, x, t)}
      BY <2>0, WithoutFacts
    <3>3. {n \in ToSet(tree[p]) : ~Is(n, x, t)} = {n \in A : Parent(n.name) = p}
      BY <1>0, <2>0, <2>1
    <3> QED BY <3>1, <3>2, <3>3
  <2>2. CASE p # Parent(x) /\ Within(p, x)
    <3>1. new[p] = <<>>
      BY <1>0, <2>2 DEF Freed
    <3>2. <<>> \in Seq(Kids) /\ Apart(<<>>) /\ ToSet(<<>>) = {}
      BY DEF Apart, ToSet
    <3>3. {n \in A : Parent(n.name) = p} = {}
      BY <2>2
    <3> QED BY <3>1, <3>2, <3>3
  <2>3. CASE p # Parent(x) /\ ~Within(p, x)
    <3>1. new[p] = tree[p]
      BY <1>0, <2>3 DEF Freed
    <3>2. \A n \in All(tree) : Parent(n.name) = p => ~Is(n, x, t)
      BY <2>3 DEF Is
    <3>3. {n \in All(tree) : Parent(n.name) = p} = {n \in A : Parent(n.name) = p}
      BY <2>3, <3>2
    <3> QED BY <2>0, <3>1, <3>3
  <2> QED BY <2>1, <2>2, <2>3
<1>2. new \in [Places -> Seq(Kids)]
  <2>1. new = [p \in Places |-> new[p]]
    BY <1>0 DEF Freed
  <2> QED BY <1>1, <2>1
<1>3. A \subseteq Kids /\ \A n \in A : n.name \in Nodes /\ Stores(n.name, n.value)
  BY View
<1>4. Closed(A)
  <2> SUFFICES ASSUME NEW n \in A, Parent(n.name) # Self
               PROVE  \E m \in A : m.name = Parent(n.name)
    BY DEF Closed
  <2>1. PICK m \in All(tree) : m.name = Parent(n.name)
    BY View DEF Closed
  <2>2. Parent(n.name) \in Boxes
    BY <1>3, ParentFacts
  <2>3. ~Within(Parent(n.name), x)
    OBVIOUS
  <2>4. ~Is(m, x, t)
    BY <2>1, <2>2, <2>3 DEF Is, Within, Boxes
  <2>5. ~Within(Parent(m.name), x)
    BY <2>1, <2>2, <2>3, WithinFacts
  <2> QED BY <2>1, <2>4, <2>5
<1> HIDE DEF new, A
<1>5. Tree(new) /\ All(new) = A
  BY <1>1, <1>2, <1>3, <1>4, Build
<1> QED BY <1>5 DEF new, A

(* A value that is replaced.                                               *)
LEMMA ReplacedSet ==
  ASSUME NEW s \in Seq(Kids), Apart(s), NEW x, NEW t, Node(x, t) \in Kids,
         \E n \in ToSet(s) : Is(n, x, t)
  PROVE  LET r == [i \in DOMAIN s |-> IF Is(s[i], x, t) THEN Node(x, t) ELSE s[i]]
         IN /\ r \in Seq(Kids)
            /\ Apart(r)
            /\ ToSet(r) = {n \in ToSet(s) : ~Is(n, x, t)} \cup {Node(x, t)}
<1> DEFINE r == [i \in DOMAIN s |-> IF Is(s[i], x, t) THEN Node(x, t) ELSE s[i]]
<1>0. DOMAIN s = 1..Len(s) /\ Len(s) \in Nat /\ \A i \in 1..Len(s) : s[i] \in Kids
  BY InSet
<1>1. r \in Seq(Kids) /\ DOMAIN r = 1..Len(s)
  <2>1. r \in [1..Len(s) -> Kids]
    BY <1>0
  <2> HIDE DEF r
  <2> QED BY <1>0, <2>1
<1>2. Is(Node(x, t), x, t)
  BY DEF Node, Is
<1>3. \A i \in 1..Len(s) : \A y, v : Is(s[i], y, v) /\ Is(s[i], x, t) => Is(Node(x, t), y, v)
  BY DEF Node, Is
<1>4. Apart(r)
  <2> SUFFICES ASSUME NEW i \in 1..Len(s), NEW j \in 1..Len(s), i # j
               PROVE  ~Is(r[j], r[i].name, r[i].value)
    BY <1>1 DEF Apart
  <2>0. ~Is(s[j], s[i].name, s[i].value)
    BY <1>0 DEF Apart
  <2>1. CASE Is(s[i], x, t)
    <3>1. ~Is(s[j], x, t)
      BY <2>0, <2>1 DEF Is
    <3>2. r[i] = Node(x, t) /\ r[j] = s[j]
      BY <1>0, <2>1, <3>1
    <3> QED BY <3>1, <3>2 DEF Node
  <2>2. CASE ~Is(s[i], x, t) /\ Is(s[j], x, t)
    <3>1. r[i] = s[i] /\ r[j] = Node(x, t)
      BY <1>0, <2>2
    <3>2. ~Is(Node(x, t), s[i].name, s[i].value)
      BY <2>2 DEF Node, Is
    <3> QED BY <3>1, <3>2
  <2>3. CASE ~Is(s[i], x, t) /\ ~Is(s[j], x, t)
    <3>1. r[i] = s[i] /\ r[j] = s[j]
      BY <1>0, <2>3
    <3> QED BY <2>0, <3>1
  <2> QED BY <2>1, <2>2, <2>3
<1>5. ToSet(r) = {n \in ToSet(s) : ~Is(n, x, t)} \cup {Node(x, t)}
  <2>1. ASSUME NEW v \in ToSet(r)
        PROVE  v \in {n \in ToSet(s) : ~Is(n, x, t)} \cup {Node(x, t)}
    BY <1>0, <1>1 DEF ToSet
  <2>2. ASSUME NEW v \in ToSet(s), ~Is(v, x, t)
        PROVE  v \in ToSet(r)
    BY <1>0, <1>1, <2>2 DEF ToSet
  <2>3. Node(x, t) \in ToSet(r)
    BY <1>0, <1>1 DEF ToSet
  <2> QED BY <2>1, <2>2, <2>3
<1> QED BY <1>1, <1>4, <1>5

(* A tree of which the children of one node are changed.                   *)
LEMMA ChangedTree ==
  ASSUME NEW tree, Tree(tree), NEW q \in Places, NEW s \in Seq(Kids), Apart(s),
         NEW A, A \subseteq Kids, Closed(A),
         \A n \in A : Stores(n.name, n.value),
         ToSet(s) = {n \in A : Parent(n.name) = q},
         \A p \in Places \ {q} : \A n : n \in A /\ Parent(n.name) = p <=> n \in ToSet(tree[p])
  PROVE  Tree([tree EXCEPT ![q] = s]) /\ All([tree EXCEPT ![q] = s]) = A
<1> DEFINE new == [tree EXCEPT ![q] = s]
<1>0. tree \in [Places -> Seq(Kids)]
  BY DEF Tree
<1>1. new \in [Places -> Seq(Kids)]
  BY <1>0
<1>2. ASSUME NEW p \in Places
      PROVE  Apart(new[p]) /\ ToSet(new[p]) = {n \in A : Parent(n.name) = p}
  <2>1. CASE p = q
    BY <1>0, <2>1
  <2>2. CASE p # q
    <3>1. new[p] = tree[p]
      BY <1>0, <2>2
    <3>2. Apart(tree[p])
      BY DEF Tree
    <3>3. ToSet(tree[p]) = {n \in A : Parent(n.name) = p}
      BY <2>2
    <3> HIDE DEF new
    <3> QED BY <3>1, <3>2, <3>3
  <2> QED BY <2>1, <2>2
<1> HIDE DEF new
<1>3. Tree(new) /\ All(new) = A
  BY <1>1, <1>2, Build
<1> QED BY <1>3 DEF new

LEMMA ReplacedFacts ==
  ASSUME NEW tree, Tree(tree), NEW x \in Nodes \ Boxes, NEW t,
         Node(x, t) \in Kids, Stores(x, t), Has(tree, x, t)
  PROVE  LET new == [tree EXCEPT ![Parent(x)] =
                       [i \in DOMAIN @ |-> IF Is(@[i], x, t) THEN Node(x, t) ELSE @[i]]]
         IN /\ Tree(new)
            /\ All(new) = {n \in All(tree) : ~Is(n, x, t)} \cup {Node(x, t)}
<1> DEFINE q == Parent(x)
           s == [i \in DOMAIN tree[q] |-> IF Is(tree[q][i], x, t) THEN Node(x, t) ELSE tree[q][i]]
           A == {n \in All(tree) : ~Is(n, x, t)} \cup {Node(x, t)}
<1>0. q \in Places /\ tree[q] \in Seq(Kids) /\ Apart(tree[q])
  BY ParentFacts DEF Tree
<1>1. Node(x, t).name = x /\ Node(x, t).value = t
  BY DEF Node
<1>2. ToSet(tree[q]) = {n \in All(tree) : Parent(n.name) = q}
  BY <1>0, View
<1>3. PICK o \in All(tree) : Is(o, x, t)
  BY HasIs
<1>4. o.name = x /\ o \in ToSet(tree[q])
  BY <1>2, <1>3 DEF Is
<1>5. /\ s \in Seq(Kids) /\ Apart(s)
      /\ ToSet(s) = {n \in ToSet(tree[q]) : ~Is(n, x, t)} \cup {Node(x, t)}
  BY <1>0, <1>3, <1>4, ReplacedSet
<1>6. ToSet(s) = {n \in A : Parent(n.name) = q}
  BY <1>1, <1>2, <1>5
<1>7. A \subseteq Kids /\ \A n \in A : Stores(n.name, n.value)
  BY <1>1, View
<1>8. Closed(A)
  <2> SUFFICES ASSUME NEW n \in A, Parent(n.name) # Self
               PROVE  \E m \in A : m.name = Parent(n.name)
    BY DEF Closed
  <2>1. \E k \in All(tree) : k.name = n.name
    BY <1>1, <1>4
  <2>2. PICK m \in All(tree) : m.name = Parent(n.name)
    BY <2>1, View DEF Closed
  <2>3. \A k \in All(tree) : k.name \in Nodes
    BY View
  <2>4. Parent(n.name) \in Boxes
    BY <2>1, <2>3, ParentFacts
  <2>5. ~Is(m, x, t)
    BY <2>2, <2>4 DEF Is
  <2> QED BY <2>2, <2>5
<1>9. \A p \in Places \ {q} : \A n : n \in A /\ Parent(n.name) = p <=> n \in ToSet(tree[p])
  <2> SUFFICES ASSUME NEW p \in Places \ {q}, NEW n
               PROVE  n \in A /\ Parent(n.name) = p <=> n \in ToSet(tree[p])
    OBVIOUS
  <2>1. ToSet(tree[p]) = {k \in All(tree) : Parent(k.name) = p}
    BY View
  <2> QED BY <1>1, <2>1 DEF Is
<1>10. [tree EXCEPT ![Parent(x)] =
          [i \in DOMAIN @ |-> IF Is(@[i], x, t) THEN Node(x, t) ELSE @[i]]] = [tree EXCEPT ![q] = s]
  OBVIOUS
<1> HIDE DEF q, s, A
<1>11. Tree([tree EXCEPT ![q] = s]) /\ All([tree EXCEPT ![q] = s]) = A
  BY <1>0, <1>5, <1>6, <1>7, <1>8, <1>9, ChangedTree
<1> QED BY <1>10, <1>11 DEF A

LEMMA MovedTree ==
  ASSUME NEW tree, Tree(tree), NEW q \in Places,
         NEW from \in 1..Len(tree[q]), NEW to \in 1..Len(tree[q])
  PROVE  LET new == [tree EXCEPT ![q] = Moved(@, from, to)]
         IN Tree(new) /\ All(new) = All(tree)
<1> DEFINE s == Moved(tree[q], from, to)
<1>1. tree[q] \in Seq(Kids) /\ Apart(tree[q])
  BY DEF Tree
<1>2. s \in Seq(Kids) /\ Apart(s) /\ ToSet(s) = ToSet(tree[q])
  BY <1>1, MovedFacts
<1>3. /\ All(tree) \subseteq Kids /\ Closed(All(tree))
      /\ \A n \in All(tree) : Stores(n.name, n.value)
      /\ \A p \in Places : ToSet(tree[p]) = {n \in All(tree) : Parent(n.name) = p}
  BY View
<1> HIDE DEF s
<1>4. ToSet(s) = {n \in All(tree) : Parent(n.name) = q}
  BY <1>2, <1>3
<1>5. \A p \in Places \ {q} : \A n :
        n \in All(tree) /\ Parent(n.name) = p <=> n \in ToSet(tree[p])
  BY <1>3
<1>6. Tree([tree EXCEPT ![q] = s]) /\ All([tree EXCEPT ![q] = s]) = All(tree)
  BY <1>2, <1>3, <1>4, <1>5, ChangedTree
<1> QED BY <1>6 DEF s

LEMMA ThereFacts ==
  ASSUME NEW tree, Tree(tree), NEW x \in Nodes, NEW b \in ToSet(Path(x))
  PROVE  b \in There(tree, x) <=> \E n \in All(tree) : n.name = b
<1>1. b \in Boxes /\ b \in Nodes /\ ~Keyed(b)
  BY Above, NotKeyed
<1>2. Has(tree, b, None) <=> \E n \in All(tree) : Is(n, b, None)
  BY <1>1, HasIs
<1> QED BY <1>1, <1>2 DEF There, Is

(* Creating adds the node and the containers that are missing.             *)
LEMMA CreatedFacts ==
  ASSUME NEW tree, Tree(tree), NEW x \in Nodes \ Boxes, NEW t \in Inputs \cup {None},
         Stores(x, t), ~Has(tree, x, t)
  PROVE  /\ Tree(Created(tree, x, t))
         /\ All(Created(tree, x, t)) = All(tree) \cup New(tree, x, t)
<1> DEFINE new == Created(tree, x, t)
           N == New(tree, x, t)
           A == All(tree) \cup N
<1>0. tree \in [Places -> Seq(Kids)]
  BY DEF Tree
<1>1. ASSUME NEW n \in N
      PROVE  /\ n.name \in Way(x) /\ n.name \in Nodes
             /\ n \in Kids /\ Stores(n.name, n.value)
             /\ \/ n = Node(x, t)
                \/ /\ n.name \in ToSet(Path(x)) \ There(tree, x)
                   /\ n = Node(n.name, None)
             /\ \A m \in All(tree) : ~Is(m, n.name, n.value)
  <2>1. CASE n = Node(x, t)
    <3>1. n.name = x /\ n.value = t
      BY <2>1 DEF Node
    <3>2. n \in Kids
      BY <2>1 DEF Node, Kids
    <3>3. \A m \in All(tree) : ~Is(m, x, t)
      BY HasIs
    <3> QED BY <2>1, <3>1, <3>2, <3>3 DEF Way
  <2>2. CASE n # Node(x, t)
    <3>1. PICK b \in ToSet(Path(x)) \ There(tree, x) : n = Node(b, None)
      BY <2>2 DEF New
    <3>2. n.name = b /\ n.value = None /\ b \in Boxes /\ b \in Nodes
      BY <3>1, Above DEF Node
    <3>3. n \in Kids /\ Stores(n.name, n.value)
      BY <3>1, <3>2 DEF Node, Kids, Stores
    <3>4. \A m \in All(tree) : m.name # b
      BY <3>1, ThereFacts
    <3> QED BY <3>1, <3>2, <3>3, <3>4 DEF Way, Is
  <2> QED BY <2>1, <2>2
<1>2. Node(x, t) \in N /\ \A b \in ToSet(Path(x)) \ There(tree, x) : Node(b, None) \in N
  BY DEF New
<1>3. ASSUME NEW n \in N, NEW m \in N, Parent(n.name) = Parent(m.name)
      PROVE  n = m
  <2>1. n.name = m.name
    BY <1>1, <1>3, WayFacts
  <2>2. x \notin ToSet(Path(x))
    BY Above
  <2>3. Node(x, t).name = x
    BY DEF Node
  <2> QED BY <1>1, <2>1, <2>2, <2>3
<1>4. ASSUME NEW p \in Places
      PROVE  /\ new[p] \in Seq(Kids) /\ Apart(new[p])
             /\ ToSet(new[p]) = {n \in A : Parent(n.name) = p}
  <2>0. /\ tree[p] \in Seq(Kids) /\ Apart(tree[p])
        /\ ToSet(tree[p]) = {n \in All(tree) : Parent(n.name) = p}
    BY View DEF Tree
  <2>1. CASE \E n \in N : Parent(n.name) = p
    <3> DEFINE e == CHOOSE n \in N : Parent(n.name) = p
    <3>1. e \in N /\ Parent(e.name) = p
      BY <2>1
    <3>2. new[p] = WithChild(tree[p], e)
      BY <1>0, <2>1 DEF Created
    <3> HIDE DEF e
    <3>3. e \in Kids /\ \A n \in ToSet(tree[p]) : ~Is(n, e.name, e.value)
      BY <1>1, <2>0, <3>1
    <3>4. /\ WithChild(tree[p], e) \in Seq(Kids)
          /\ Apart(WithChild(tree[p], e))
          /\ ToSet(WithChild(tree[p], e)) = ToSet(tree[p]) \cup {e}
      BY <2>0, <3>3, WithChildFacts
    <3>5. \A n \in N : Parent(n.name) = p <=> n = e
      BY <1>3, <3>1
    <3>6. ToSet(tree[p]) \cup {e} = {n \in A : Parent(n.name) = p}
      <4> HIDE DEF N
      <4> QED BY <2>0, <3>1, <3>5
    <3> QED BY <3>2, <3>4, <3>6
  <2>2. CASE ~\E n \in N : Parent(n.name) = p
    <3>1. new[p] = tree[p]
      BY <1>0, <2>2 DEF Created
    <3>2. {n \in All(tree) : Parent(n.name) = p} = {n \in A : Parent(n.name) = p}
      BY <2>2
    <3> QED BY <2>0, <3>1, <3>2
  <2> QED BY <2>1, <2>2
<1>5. new \in [Places -> Seq(Kids)]
  <2>1. new = [p \in Places |-> new[p]]
    BY <1>0 DEF Created
  <2> QED BY <1>4, <2>1
<1>6. A \subseteq Kids /\ \A n \in A : Stores(n.name, n.value)
  <2>1. /\ All(tree) \subseteq Kids
        /\ \A n \in All(tree) : Stores(n.name, n.value)
    BY View
  <2> HIDE DEF N
  <2> QED BY <1>1, <2>1
<1>7. Closed(A)
  <2> SUFFICES ASSUME NEW n \in A, Parent(n.name) # Self
               PROVE  \E m \in A : m.name = Parent(n.name)
    BY DEF Closed
  <2>1. CASE n \in All(tree)
    BY <2>1, View DEF Closed
  <2>2. CASE n \in N
    <3>1. Parent(n.name) \in ToSet(Path(x))
      BY <1>1, <2>2, WayFacts
    <3>2. CASE Parent(n.name) \in There(tree, x)
      BY <3>1, <3>2, ThereFacts
    <3>3. CASE Parent(n.name) \notin There(tree, x)
      <4>1. Node(Parent(n.name), None) \in N
        BY <1>2, <3>1, <3>3
      <4>2. Node(Parent(n.name), None).name = Parent(n.name)
        BY DEF Node
      <4> HIDE DEF N
      <4> QED BY <4>1, <4>2
    <3> QED BY <3>2, <3>3
  <2> QED BY <2>1, <2>2
<1> HIDE DEF new, A
<1>8. Tree(new) /\ All(new) = A
  BY <1>4, <1>5, <1>6, <1>7, Build
<1> QED BY <1>8 DEF new, A

(* Of which only the node is content.                                      *)
LEMMA CreatedContent ==
  ASSUME NEW tree, Tree(tree), NEW x \in Nodes \ Boxes, NEW t \in Inputs \cup {None},
         Stores(x, t), ~Has(tree, x, t)
  PROVE  Facts(Created(tree, x, t)) = Facts(tree) \cup {Node(x, t)}
<1> DEFINE new == Created(tree, x, t)
<1>1. Tree(new) /\ All(new) = All(tree) \cup New(tree, x, t)
  BY CreatedFacts
<1>2. Facts(new) = {n \in All(new) : n.name \notin Boxes}
  BY <1>1, FactsOf
<1>3. Facts(tree) = {n \in All(tree) : n.name \notin Boxes}
  BY FactsOf
<1>4. Node(x, t).name \notin Boxes
  BY DEF Node
<1>5. \A n \in New(tree, x, t) : n.name \notin Boxes => n = Node(x, t)
  BY Above DEF New, Node
<1>6. Node(x, t) \in New(tree, x, t)
  BY DEF New
<1> HIDE DEF new
<1> QED BY <1>1, <1>2, <1>3, <1>4, <1>5, <1>6 DEF new

(* The search that fails ends at a container on the way, the parent if it  *)
(* has children.                                                           *)
LEMMA DeepestFacts ==
  ASSUME NEW tree, Tree(tree), NEW x \in Nodes
  PROVE  /\ Deepest(tree, x) \in There(tree, x) \cup {Self}
         /\ tree[Parent(x)] # <<>> => Deepest(tree, x) = Parent(x)
<1> DEFINE l == Len(Path(x))
<1>0. l \in Nat /\ Path(x) \in Seq(Boxes)
  BY PathFacts
<1>1. CASE There(tree, x) = {}
  <2>1. Deepest(tree, x) = Self
    BY <1>1 DEF Deepest
  <2>2. ASSUME tree[Parent(x)] # <<>>, Parent(x) # Self
        PROVE  FALSE
    <3>1. Parent(x) \in Boxes /\ Parent(x) \in ToSet(Path(x))
      BY <2>2, ParentFacts
    <3>2. Has(tree, Parent(x), None)
      BY <2>2, <3>1 DEF Tree
    <3> QED BY <1>1, <3>1, <3>2 DEF There
  <2> QED BY <2>1, <2>2
<1>2. CASE There(tree, x) # {}
  <2> DEFINE Deeper(b) == \A c \in There(tree, x) : Within(b, c)
             Depths == {k \in Nat : k < l /\ Path(x)[l - k] \in There(tree, x)}
  <2>1. Depths # {}
    <3>1. PICK b \in There(tree, x) : TRUE
      BY <1>2
    <3>2. b \in ToSet(Path(x))
      BY DEF There
    <3>3. PICK i \in 1..l : b = Path(x)[i]
      BY <3>2, OnPath
    <3>4. l - i \in Nat /\ l - i < l /\ l - (l - i) = i
      BY <1>0
    <3> QED BY <3>3, <3>4
  <2>2. Depths \subseteq Nat
    OBVIOUS
  <2> HIDE DEF Depths
  <2>3. PICK k \in Depths : \A j \in Depths : k <= j
    BY <2>1, <2>2, Smallest
  <2> DEFINE i == l - k
             b == Path(x)[i]
  <2>4. k \in Nat /\ k < l /\ b \in There(tree, x)
    BY <2>3 DEF Depths
  <2>5. i \in 1..l
    BY <1>0, <2>4
  <2> HIDE DEF i
  <2>6. ASSUME NEW c \in There(tree, x)
        PROVE  Within(b, c)
    <3>1. c \in ToSet(Path(x)) /\ b \in ToSet(Path(x))
      BY <2>4 DEF There
    <3>2. PICK j \in 1..l : c = Path(x)[j]
      BY <3>1, OnPath
    <3>3. l - j \in Nat /\ l - j < l /\ l - (l - j) = j
      BY <1>0
    <3>4. l - j \in Depths
      BY <3>2, <3>3 DEF Depths
    <3>5. j <= i
      BY <1>0, <2>3, <2>4, <3>4 DEF i
    <3>6. b \in Nodes
      BY <3>1, Above
    <3>7. CASE j = i
      BY <3>2, <3>6, <3>7 DEF Within
    <3>8. CASE j # i
      <4>1. j \in 1..(i - 1)
        BY <2>5, <3>5, <3>8
      <4>2. Len(Path(b)) = i - 1 /\ Path(b)[j] = Path(x)[j]
        BY <2>5, <4>1, PathFacts
      <4>3. c \in ToSet(Path(b))
        BY <3>2, <3>6, <4>1, <4>2, OnPath
      <4> QED BY <3>6, <4>3 DEF Within
    <3> QED BY <3>7, <3>8
  <2> DEFINE d == CHOOSE c \in There(tree, x) : Deeper(c)
  <2>7. d \in There(tree, x) /\ Deeper(d)
    BY <2>4, <2>6
  <2>8. Deepest(tree, x) = d
    BY <1>2 DEF Deepest
  <2> HIDE DEF d
  <2>9. ASSUME tree[Parent(x)] # <<>>
        PROVE  d = Parent(x)
    <3>1. d \in ToSet(Path(x))
      BY <2>7 DEF There
    <3>2. Parent(x) # Self
      <4>1. l # 0
        BY <1>0, <2>5
      <4> QED BY <4>1, ParentFacts
    <3>3. Parent(x) \in There(tree, x)
      BY <2>9, <3>2, ParentFacts DEF Tree, There
    <3>4. Within(d, Parent(x))
      BY <2>7, <3>3
    <3>5. d \in Nodes /\ Len(Path(d)) < l /\ Len(Path(d)) \in Nat
      BY <3>1, Above, PathFacts
    <3>6. Parent(x) \in Nodes /\ Len(Path(Parent(x))) = l - 1
      BY <3>2, ParentFacts DEF Boxes
    <3>7. ASSUME Parent(x) \in ToSet(Path(d)) PROVE FALSE
      BY <1>0, <3>5, <3>6, <3>7, Above
    <3> QED BY <3>4, <3>7 DEF Within
  <2> QED BY <2>7, <2>8, <2>9
<1> QED BY <1>1, <1>2

-----------------------------------------------------------------------------
(* The place of an entry.                                                  *)

LEMMA RemoveInserted ==
  ASSUME NEW s \in Seq(Kids), NEW k \in 1..(Len(s) + 1), NEW e \in Kids
  PROVE  RemoveAt(InsertAt(s, k, e), k) = s
<1> DEFINE r == InsertAt(s, k, e)
           q == RemoveAt(r, k)
<1>0. Len(s) \in Nat /\ k \in Int /\ 1 <= k /\ k <= Len(s) + 1
  BY InSet
<1>1. /\ r \in Seq(Kids) /\ Len(r) = Len(s) + 1
      /\ \A i \in 1..(k - 1) : r[i] = s[i]
      /\ \A i \in k..Len(s) : r[i + 1] = s[i]
  BY Inserted
<1> HIDE DEF r
<1>2. k \in 1..Len(r)
  BY <1>0, <1>1
<1>3. /\ q \in Seq(Kids) /\ Len(q) = Len(r) - 1
      /\ \A i \in 1..(k - 1) : q[i] = r[i]
      /\ \A i \in (k + 1)..Len(r) : q[i - 1] = r[i]
  BY <1>1, <1>2, Removed
<1> HIDE DEF q
<1>4. Len(q) = Len(s)
  BY <1>0, <1>1, <1>3
<1>5. ASSUME NEW i \in 1..Len(s)
      PROVE  q[i] = s[i]
  <2>1. CASE i < k
    <3>1. i \in 1..(k - 1)
      BY <1>0, <2>1
    <3> QED BY <1>1, <1>3, <3>1
  <2>2. CASE i >= k
    <3>1. i \in k..Len(s) /\ i + 1 \in (k + 1)..Len(r) /\ (i + 1) - 1 = i
      BY <1>0, <1>1, <2>2
    <3>2. q[(i + 1) - 1] = r[i + 1]
      BY <1>3, <3>1
    <3> QED BY <1>1, <3>1, <3>2
  <2> QED BY <1>0, <2>1, <2>2
<1>6. q = s
  BY <1>3, <1>4, <1>5, SeqEqual
<1> QED BY <1>6 DEF q, r

(* The place is the first whose number is above the index.                 *)
LEMMA PlaceFacts ==
  ASSUME NEW index \in Int
  PROVE  /\ Place(index) \in Nat /\ Place(index) >= 1
         /\ \A j \in Nat : j >= 1 => (10 * j > index <=> j >= Place(index))
BY DEF Place

LEMMA EditIndex ==
  ASSUME NEW e \in Edits
  PROVE  /\ e.index \in Int
         /\ Place(e.index) \in Nat /\ Place(e.index) >= 1
         /\ \A j \in Nat : j >= 1 => (10 * j > e.index <=> j >= Place(e.index))
<1>1. e.index \in Indexes \cup {0}
  BY DEF Edits
<1>2. Indexes \subseteq Int
  BY NodesAssumption
<1>3. e.index \in Int
  <2> DEFINE i == e.index
  <2> HIDE DEF i
  <2>1. i \in Indexes \/ i = 0
    BY <1>1 DEF i
  <2>2. i \in Int
    <3>1. CASE i = 0
      BY <3>1
    <3>2. CASE i \in Indexes
      BY <1>2, <3>2
    <3> QED BY <2>1, <3>1, <3>2
  <2> QED BY <2>2 DEF i
<1> QED BY <1>3, PlaceFacts

(* The move puts the entry there.                                          *)
LEMMA PlacedMoved ==
  ASSUME NEW s \in Seq(Kids), Apart(s), NEW e \in Edits,
         NEW from \in 1..Len(s), Is(s[from], e.node, e.value), from = Spot(s, e.node, e.value),
         Place(e.index) <= Len(s), Place(e.index) # from
  PROVE  Placed(s, e, Moved(s, from, Place(e.index)))
<1> DEFINE x == e.node
           t == e.value
           to == Place(e.index)
           k == IF from < to THEN to - 1 ELSE to
           q == RemoveAt(s, from)
           r == Moved(s, from, to)
<1>0. /\ DOMAIN s = 1..Len(s) /\ Len(s) \in Nat /\ s[from] \in Kids /\ from \in Int
      /\ \A i \in 1..Len(s) : Is(s[i], x, t) <=> i = from
  <2>1. s[from] \in ToSet(s)
    BY InSet
  <2> QED BY <2>1, InSet, SpotFacts
<1>1. /\ e.index \in Int /\ to \in Nat /\ to >= 1 /\ to <= Len(s) /\ to # from
      /\ \A j \in Nat : j >= 1 => (10 * j > e.index <=> j >= to)
  BY EditIndex
<1> HIDE DEF to
<1>2. /\ to \in 1..Len(s) /\ to # from /\ to \in Int
      /\ \A j \in 1..Len(s) : 10 * j > e.index <=> j >= to
  BY <1>0, <1>1
<1>3. /\ q \in Seq(Kids) /\ Len(q) = Len(s) - 1
      /\ \A i \in 1..(from - 1) : q[i] = s[i]
      /\ \A i \in (from + 1)..Len(s) : q[i - 1] = s[i]
  BY Removed
<1>4. r = InsertAt(q, k, s[from])
  BY DEF Moved
<1> HIDE DEF q
<1>5. k \in 1..(Len(q) + 1) /\ k \in Int
  BY <1>0, <1>2, <1>3
<1>6. /\ r \in Seq(Kids) /\ Apart(r) /\ ToSet(r) = ToSet(s)
  BY <1>2, MovedFacts
<1>7. Len(r) = Len(q) + 1 /\ r[k] = s[from] /\ \A i \in k..Len(q) : r[i + 1] = q[i]
  <2> DEFINE a == s[from]
             u == InsertAt(q, k, a)
  <2>2. r = u
    BY <1>4
  <2>3. q \in Seq(Kids) /\ k \in 1..(Len(q) + 1) /\ a \in Kids
    BY <1>0, <1>3, <1>5
  <2> HIDE DEF k, r, a
  <2>1. /\ Len(u) = Len(q) + 1 /\ u[k] = a
        /\ \A i \in k..Len(q) : u[i + 1] = q[i]
    BY <2>3, Inserted
  <2> HIDE DEF u
  <2> QED BY <2>1, <2>2 DEF a
<1>8. RemoveAt(r, k) = q
  BY <1>0, <1>3, <1>4, <1>5, RemoveInserted
<1> HIDE DEF r
<1>9. Spot(r, x, t) = k
  <2>1. k \in 1..Len(r) /\ Is(r[k], x, t)
    BY <1>3, <1>5, <1>7
  <2>2. r[k] \in ToSet(r)
    BY <1>6, <2>1, InSet
  <2> QED BY <1>6, <2>1, <2>2, SpotFacts
<1>10. Without(r, x, t) = q
  <2>1. k \in DOMAIN r /\ Is(r[k], x, t)
    BY <1>3, <1>5, <1>6, <1>7
  <2> QED BY <1>8, <1>9, <2>1 DEF Without
<1>11. Without(s, x, t) = q
  BY <1>0 DEF Without, q
<1>12. {r[i] : i \in (k + 1)..Len(r)} =
         {s[i] : i \in {j \in DOMAIN s : 10 * j > e.index /\ ~Is(s[j], x, t)}}
  <2> DEFINE above == {j \in DOMAIN s : 10 * j > e.index /\ ~Is(s[j], x, t)}
  <2>1. \A j : j \in above <=> j \in 1..Len(s) /\ j >= to /\ j # from
    BY <1>0, <1>2
  <2> HIDE DEF above
  <2>2. ASSUME NEW i \in (k + 1)..Len(r)
        PROVE  \E j \in above : r[i] = s[j]
    <3> HIDE DEF k
    <3>1. i - 1 \in k..Len(q) /\ (i - 1) + 1 = i /\ i - 1 \in 1..(Len(s) - 1) /\ i \in Int
      BY <1>0, <1>3, <1>5, <1>7
    <3>2. r[i] = q[i - 1]
      <4>1. r[(i - 1) + 1] = q[i - 1]
        BY <1>7, <3>1
      <4> QED BY <3>1, <4>1
    <3>3. CASE i - 1 < from
      <4>1. q[i - 1] = s[i - 1]
        <5>1. i - 1 \in 1..(from - 1)
          BY <1>0, <3>1, <3>3
        <5> QED BY <1>3, <5>1
      <4>2. i - 1 >= to
        BY <1>0, <1>2, <3>1, <3>3 DEF k
      <4>3. i - 1 \in above
        BY <1>0, <2>1, <3>1, <3>3, <4>2
      <4> QED BY <3>2, <4>1, <4>3
    <3>4. CASE i - 1 >= from
      <4>1. i \in (from + 1)..Len(s)
        BY <1>0, <3>1, <3>4
      <4>2. q[i - 1] = s[i]
        BY <1>3, <4>1
      <4>3. i >= to
        BY <1>0, <1>2, <3>1, <3>4 DEF k
      <4>4. i \in above
        BY <1>0, <2>1, <3>1, <3>4, <4>3
      <4> QED BY <3>2, <4>2, <4>4
    <3> QED BY <1>0, <3>1, <3>3, <3>4
  <2>3. ASSUME NEW j \in above
        PROVE  \E i \in (k + 1)..Len(r) : r[i] = s[j]
    <3> HIDE DEF k
    <3>0. j \in 1..Len(s) /\ j >= to /\ j # from /\ j \in Int
      BY <2>1
    <3>1. CASE j < from
      <4>1. j \in k..Len(q) /\ j + 1 \in (k + 1)..Len(r)
        BY <1>0, <1>2, <1>3, <1>5, <1>7, <3>0, <3>1 DEF k
      <4>2. j \in 1..(from - 1)
        BY <1>0, <3>0, <3>1
      <4> QED BY <1>3, <1>7, <4>1, <4>2
    <3>2. CASE j > from
      <4>1. j - 1 \in k..Len(q) /\ (j - 1) + 1 = j /\ j \in (k + 1)..Len(r)
        BY <1>0, <1>2, <1>3, <1>5, <1>7, <3>0, <3>2 DEF k
      <4>2. j \in (from + 1)..Len(s)
        BY <1>0, <3>0, <3>2
      <4>3. r[(j - 1) + 1] = q[j - 1]
        BY <1>7, <4>1
      <4>4. q[j - 1] = s[j]
        BY <1>3, <4>2
      <4> QED BY <4>1, <4>3, <4>4
    <3> QED BY <1>0, <3>0, <3>1, <3>2
  <2>4. \A v : v \in {r[i] : i \in (k + 1)..Len(r)} <=> v \in {s[i] : i \in above}
    <3> HIDE DEF k
    <3> QED BY <2>2, <2>3
  <2> QED BY <2>4 DEF above
<1> QED BY <1>9, <1>10, <1>11, <1>12 DEF Placed, r, to

LEMMA PlacedStay ==
  ASSUME NEW s \in Seq(Kids), NEW e \in Edits,
         e.index = 0 \/ Place(e.index) > Len(s)
  PROVE  Placed(s, e, s)
<1>1. /\ Place(e.index) \in Nat
      /\ \A j \in Nat : j >= 1 => (10 * j > e.index <=> j >= Place(e.index))
      /\ e.index \in Int
  BY EditIndex
<1>2. DOMAIN s = 1..Len(s) /\ Len(s) \in Nat
  BY InSet
<1>3. CASE e.index = 0
  BY <1>3 DEF Placed
<1>4. CASE Place(e.index) > Len(s)
  <2>1. \A j \in DOMAIN s : ~(10 * j > e.index)
    <3> DEFINE p == Place(e.index)
    <3> HIDE DEF p
    <3>1. p \in Nat /\ p > Len(s) /\ e.index \in Int
          /\ \A j \in Nat : j >= 1 => (10 * j > e.index <=> j >= p)
      BY <1>1, <1>4 DEF p
    <3> QED BY <1>2, <3>1
  <2>2. {s[i] : i \in {j \in DOMAIN s : 10 * j > e.index /\ ~Is(s[j], e.node, e.value)}} = {}
    BY <2>1
  <2> QED BY <2>2 DEF Placed
<1> QED BY <1>3, <1>4

-----------------------------------------------------------------------------
(* The inductive invariant.                                                *)

(* What is known of the edits of the command: in the tree is what those    *)
(* are for that it has made, and a command of one edit has not begun it,   *)
(* and has checked the value of a leaf.                                    *)
EditsOK ==
  /\ edits \in Seq(Edits)
  /\ phase = "prompt" => before = children
  /\ phase \in {"prompt", "editing"} => Facts(children) = meant
  /\ phase = "editing" =>
       /\ edits # <<>>
       /\ edits[1].node \in Lists => Len(edits) = 1
       /\ Len(edits) = 1 =>
            /\ todo = edits /\ before = children
            /\ edits[1].type = "add" /\ edits[1].node \in Leaves =>
                 Valid(edits[1].node, edits[1].value)

IInv ==
  /\ TypeOK
  /\ EditsOK
  /\ SuccessIsExact
  /\ FailureContained
  /\ PlacedByIndex
  /\ ValidatorAgrees

(* The type of children says that it is a tree.                            *)
LEMMA TreeOfType == TypeOK => Tree(children)
<1> SUFFICES ASSUME TypeOK PROVE Tree(children)
  OBVIOUS
<1>1. children \in [Places -> Seq(Kids)]
  BY DEF TypeOK, Places, Kids
<1>2. ASSUME NEW p \in Places
      PROVE  /\ \A i, j \in DOMAIN children[p] :
                  i # j => ~Is(children[p][j], children[p][i].name, children[p][i].value)
             /\ \A i \in DOMAIN children[p] :
                  /\ Parent(children[p][i].name) = p
                  /\ Stores(children[p][i].name, children[p][i].value)
             /\ p # Self /\ children[p] # <<>> => Has(children, p, None)
  BY <1>1 DEF TypeOK
<1>3. Self \notin Boxes
  BY NodesAssumption DEF Boxes
<1> QED BY <1>1, <1>2, <1>3 DEF Tree, Apart, ToSet, Places

LEMMA TypeOfTree ==
  ASSUME phase' \in {"prompt", "editing", "answered", "faulted"},
         reply' \in {"none", "ok", "error", "refused"},
         todo' \in Seq(Edits),
         phase' = "editing" => todo' # <<>>,
         Tree(children')
  PROVE  TypeOK'
<1>1. children' \in [Places -> Seq(Kids)]
  BY DEF Tree
<1>2. ASSUME NEW p \in Places
      PROVE  /\ p # Self /\ children'[p] # <<>> => Has(children', p, None)
             /\ \A i, j \in DOMAIN children'[p] :
                  /\ Parent(children'[p][i].name) = p
                  /\ Stores(children'[p][i].name, children'[p][i].value)
                  /\ i # j => ~Is(children'[p][j], children'[p][i].name, children'[p][i].value)
  BY <1>1 DEF Tree, Places, ToSet, Apart
<1> QED BY <1>1, <1>2 DEF TypeOK, Places, Kids

LEMMA EditFacts ==
  ASSUME NEW e \in Edits
  PROVE  /\ e.type \in {"add", "delete"} /\ e.node \in Nodes
         /\ e.value \in Inputs \cup {None, Delete}
BY DEF Edits

LEMMA IsNode ==
  ASSUME NEW n \in Kids, NEW x, NEW t, Keyed(x), Is(n, x, t)
  PROVE  n = Node(x, t)
BY DEF Is, Kids, Node

LEMMA Kinds ==
  /\ Leaves \subseteq Nodes \ Boxes /\ LeafLists \subseteq Nodes \ Boxes
  /\ Lists \subseteq Nodes \ Boxes
  /\ Leaves \cap LeafLists = {} /\ Lists \cap Terms = {}
  /\ Terms \subseteq Nodes \ Boxes
  /\ \A x \in LeafLists \cup Lists : Keyed(x)
  /\ \A x \in Leaves : ~Keyed(x)
BY DEF Leaves, LeafLists, Lists, Boxes, Terms, Keyed

LEMMA Untouched ==
  ASSUME NEW F, F \subseteq Kids, NEW x \in Nodes \ Boxes
  PROVE  \A n \in F : ~Within(Parent(n.name), x)
BY ParentFacts, WithinFacts DEF Kids

LEMMA FactsKids ==
  ASSUME NEW tree, Tree(tree)
  PROVE  Facts(tree) \subseteq Kids
BY FactsOf, View

LEMMA FreedContent ==
  ASSUME NEW tree, Tree(tree), NEW x \in Nodes, NEW t
  PROVE  Facts(Freed(tree, x, t)) =
           {n \in Facts(tree) : ~Is(n, x, t) /\ ~Within(Parent(n.name), x)}
<1> DEFINE new == Freed(tree, x, t)
<1>1. Tree(new) /\ All(new) = {n \in All(tree) : ~Is(n, x, t) /\ ~Within(Parent(n.name), x)}
  BY FreedFacts
<1>2. Facts(tree) = {n \in All(tree) : n.name \notin Boxes}
  BY FactsOf
<1> HIDE DEF new
<1>3. Facts(new) = {n \in All(new) : n.name \notin Boxes}
  BY <1>1, FactsOf
<1>4. Facts(new) = {n \in Facts(tree) : ~Is(n, x, t) /\ ~Within(Parent(n.name), x)}
  BY <1>1, <1>2, <1>3
<1> QED BY <1>4 DEF new

LEMMA ParsesStores ==
  ASSUME NEW x \in LeafLists \cup Lists, NEW t, Parses(x, t)
  PROVE  t \in Inputs /\ t # None /\ Stores(x, t)
<1>1. Keyed(x) /\ x \in Nodes
  BY Kinds
<1>2. t \in Schema[x].accepts
  BY <1>1 DEF Parses
<1>3. Schema[x].accepts \subseteq Inputs /\ None \notin Inputs
  BY <1>1, NodesAssumption
<1>4. t # None
  BY <1>2, <1>3
<1> QED BY <1>2, <1>3, <1>4 DEF Stores

LEMMA StoresTyped ==
  ASSUME NEW x \in Nodes \ Boxes, NEW t \in Inputs \cup {None, Delete}, Stores(x, t)
  PROVE  t \in Inputs \cup {None}
<1>1. Schema[x].accepts \subseteq Inputs
  BY NodesAssumption
<1> QED BY <1>1 DEF Stores

LEMMA EntryTree ==
  ASSUME NEW tree, Tree(tree), NEW x \in Lists, NEW t, Parses(x, t)
  PROVE  LET entry == IF Has(tree, x, t) THEN tree ELSE Created(tree, x, t)
         IN /\ Tree(entry)
            /\ \E n \in ToSet(entry[Parent(x)]) : Is(n, x, t)
            /\ Facts(entry) = Facts(tree) \cup {Node(x, t)}
<1> DEFINE entry == IF Has(tree, x, t) THEN tree ELSE Created(tree, x, t)
<1>0. x \in Nodes \ Boxes /\ Keyed(x) /\ t \in Inputs \cup {None} /\ Stores(x, t)
  BY Kinds, ParsesStores
<1>1. CASE Has(tree, x, t)
  <2>1. \E n \in ToSet(tree[Parent(x)]) : Is(n, x, t)
    BY <1>1 DEF Has, ToSet
  <2>2. PICK n \in All(tree) : Is(n, x, t)
    BY <1>0, <1>1, HasIs
  <2>3. n = Node(x, t)
    BY <1>0, <2>2, View, IsNode
  <2>4. Node(x, t).name \notin Boxes
    BY <1>0 DEF Node
  <2>5. Node(x, t) \in Facts(tree)
    BY <2>2, <2>3, <2>4, FactsOf
  <2> QED BY <1>1, <2>1, <2>5
<1>2. CASE ~Has(tree, x, t)
  <2> DEFINE new == Created(tree, x, t)
  <2>1. Tree(new) /\ All(new) = All(tree) \cup New(tree, x, t)
    BY <1>0, <1>2, CreatedFacts
  <2>2. Facts(new) = Facts(tree) \cup {Node(x, t)}
    BY <1>0, <1>2, CreatedContent
  <2> HIDE DEF new
  <2>3. Node(x, t) \in All(new) /\ Is(Node(x, t), x, t) /\ Parent(Node(x, t).name) = Parent(x)
    BY <2>1 DEF New, Node, Is
  <2>4. Parent(x) \in Places
    BY <1>0, ParentFacts
  <2>5. Node(x, t) \in ToSet(new[Parent(x)])
    BY <2>1, <2>3, <2>4, View
  <2> QED BY <1>2, <2>1, <2>2, <2>3, <2>5 DEF new
<1> QED BY <1>1, <1>2

-----------------------------------------------------------------------------
(* Validation.                                                             *)
LEMMA Untruncated ==
  ASSUME NEW n \in Nat, n < UIntMod
  PROVE  Truncated(n) = n
<1>1. UIntMod \in Nat /\ UIntMod > 0
  BY NodesAssumption
<1> QED BY <1>1 DEF Truncated

LEMMA PlainFacts ==
  ASSUME NEW x \in Nodes, Schema[x].base = "number", Plain(x),
         NEW t \in DOMAIN Number, Number[t] < UIntMod
  PROVE  /\ t \in Inputs
         /\ ValidUint(x, t) <=>
              Schema[x].range[1] <= Number[t] /\ Number[t] <= Schema[x].range[2]
<1> DEFINE a == Schema[x].range[1]
           b == Schema[x].range[2]
<1>1. Number[t] \in Nat /\ t \in Inputs
  BY NodesAssumption
<1>2. Schema[x].range \in {r \in Int \X Int : r[1] <= r[2]}
  <2>1. Schema[x].range \in {<<>>} \cup {r \in Int \X Int : r[1] <= r[2]}
    BY NodesAssumption
  <2> QED BY <2>1 DEF Plain
<1>3. a \in Int /\ b \in Int /\ a <= b /\ 0 <= a /\ b < UIntMod
  BY <1>2 DEF Plain
<1>4. UIntMod \in Nat
  BY NodesAssumption
<1>5. /\ Truncated(a) = a /\ Truncated(b) = b /\ Truncated(Number[t]) = Number[t]
  <2> HIDE DEF a, b
  <2>1. a \in Nat /\ b \in Nat /\ a < UIntMod
    BY <1>3, <1>4
  <2> QED BY <1>1, <1>3, <2>1, Untruncated
<1>6. Schema[x].range # <<>>
  BY DEF Plain
<1> QED BY <1>1, <1>5, <1>6 DEF ValidUint

(* Where the range is one that an unsigned int can hold, the validator     *)
(* accepts what libyang stores.                                            *)
LEMMA ValidMeans ==
  ASSUME NEW x \in Leaves \cup Lists, Plain(x),
         NEW t \in Inputs \cup {None, Delete}, Short(t), t \notin {Delete, EmptyText}
  PROVE  /\ Valid(x, t) => Stores(x, t)
         /\ ~Valid(x, t) /\ t # None => ~Stores(x, t)
<1>0. x \in Nodes \ Boxes /\ Schema[x].kind # "leaf-list"
  BY DEF Leaves, Lists, Boxes
<1>1. Schema[x].accepts \subseteq Inputs /\ None \notin Inputs /\ DOMAIN Number \subseteq Inputs
  BY <1>0, NodesAssumption
<1>2. Valid(x, t) <=> IF Schema[x].base = "number" THEN ValidUint(x, t) ELSE t \in Schema[x].accepts
  BY <1>0 DEF Valid
<1>3. t # None => (Stores(x, t) <=> t \in Schema[x].accepts)
  BY <1>0 DEF Stores
<1>4. CASE Schema[x].base # "number"
  BY <1>1, <1>2, <1>3, <1>4
<1>5. CASE Schema[x].base = "number"
  <2>1. CASE t \in DOMAIN Number
    <3>1. Number[t] < UIntMod
      BY <2>1 DEF Short
    <3>2. ValidUint(x, t) <=> Schema[x].range[1] <= Number[t] /\ Number[t] <= Schema[x].range[2]
      BY <1>0, <1>5, <2>1, <3>1, PlainFacts
    <3>3. t \in Inputs /\ t # None
      BY <1>1, <2>1
    <3>4. t \in Schema[x].accepts <=>
            Schema[x].range[1] <= Number[t] /\ Number[t] <= Schema[x].range[2]
      BY <1>5, <2>1, <3>3 DEF Plain
    <3> QED BY <1>2, <1>3, <1>5, <3>2, <3>3, <3>4
  <2>2. CASE t \notin DOMAIN Number
    <3>1. ~ValidUint(x, t)
      BY <2>2 DEF ValidUint
    <3>2. t \notin Schema[x].accepts
      BY <1>1, <1>5, <2>2 DEF Plain
    <3> QED BY <1>2, <1>3, <1>5, <3>1, <3>2
  <2> QED BY <2>1, <2>2
<1> QED BY <1>4, <1>5

-----------------------------------------------------------------------------
(* How a step ends.                                                        *)

LEMMA HeadFacts ==
  ASSUME TypeOK, phase = "editing"
  PROVE  /\ Head(todo) \in Edits /\ todo # <<>> /\ todo \in Seq(Edits)
         /\ Tail(todo) \in Seq(Edits)
         /\ Len(todo) # 1 => Tail(todo) # <<>>
         /\ Head(todo) = todo[1]
<1>1. todo \in Seq(Edits) /\ todo # <<>>
  BY DEF TypeOK
<1>2. Len(todo) \in Nat /\ Len(todo) # 0 /\ 1 \in 1..Len(todo)
  BY <1>1
<1>3. Head(todo) = todo[1] /\ todo[1] \in Edits
  BY <1>1, <1>2
<1>4. Tail(todo) \in Seq(Edits) /\ Len(Tail(todo)) = Len(todo) - 1
  BY <1>1
<1>5. ASSUME Len(todo) # 1 PROVE Tail(todo) # <<>>
  <2>1. Len(Tail(todo)) # 0
    BY <1>2, <1>4, <1>5
  <2>2. Len(<<>>) = 0
    OBVIOUS
  <2> QED BY <2>1, <2>2, Zenon
<1> QED BY <1>1, <1>3, <1>4, <1>5

(* What an edit that succeeds has to satisfy.                              *)
Sound(e) ==
  e.type = "add" => e.node \in Leaves \/ Stores(e.node, e.value)

Ordered(from, e, to) ==
  e.type = "add" /\ e.node \in Lists =>
    LET old == IF Has(from, e.node, e.value) THEN from ELSE Created(from, e.node, e.value)
    IN Placed(old[Parent(e.node)], e, to[Parent(e.node)])

(* The edit succeeded: the next one, or the answer.                        *)
LEMMA Succeeded ==
  ASSUME IInv, phase = "editing", Succeed, Tree(children'),
         Facts(children') = Intended(Facts(children), Head(todo)),
         Sound(Head(todo)), Ordered(children, Head(todo), children')
  PROVE  IInv'
<1>0. TypeOK /\ EditsOK /\ Head(todo) \in Edits
  BY HeadFacts DEF IInv
<1>1. TypeOK'
  <2>1. /\ phase' \in {"prompt", "editing", "answered", "faulted"}
        /\ reply' \in {"none", "ok", "error", "refused"}
    BY <1>0 DEF Succeed, TypeOK
  <2>2. todo' \in Seq(Edits) /\ (phase' = "editing" => todo' # <<>>)
    BY <1>0, HeadFacts DEF Succeed
  <2> QED BY <2>1, <2>2, TypeOfTree
<1>2. Facts(children') = meant'
  BY <1>0 DEF Succeed, EditsOK
<1>3. ASSUME Len(edits) = 1
      PROVE  /\ phase' = "answered" /\ todo = edits /\ before = children /\ edits[1] = Head(todo)
             /\ edits[1].type = "add" /\ edits[1].node \in Leaves =>
                  Valid(edits[1].node, edits[1].value)
  <2>1. /\ todo = edits /\ before = children
        /\ edits[1].type = "add" /\ edits[1].node \in Leaves =>
             Valid(edits[1].node, edits[1].value)
    BY <1>0, <1>3 DEF EditsOK
  <2>2. phase' = "answered"
    BY <1>3, <2>1 DEF Succeed
  <2> QED BY <1>0, <2>1, <2>2, HeadFacts
<1>4. EditsOK'
  <2>1. phase' \in {"editing", "answered"} /\ edits' = edits /\ before' = before
    BY DEF Succeed
  <2>2. /\ edits \in Seq(Edits) /\ edits # <<>>
        /\ edits[1].node \in Lists => Len(edits) = 1
    BY <1>0 DEF EditsOK
  <2> QED BY <1>2, <1>3, <2>1, <2>2 DEF EditsOK
<1>5. SuccessIsExact'
  BY <1>2 DEF SuccessIsExact
<1>6. FailureContained'
  <2>1. phase' = "answered" => reply' = "ok"
    BY DEF Succeed
  <2> QED BY <2>1 DEF FailureContained, Failed
<1>7. PlacedByIndex'
  <2> SUFFICES ASSUME edits[1].type = "add", edits[1].node \in Lists
               PROVE  LET e == edits[1]
                          old == IF Has(before, e.node, e.value) THEN before
                                 ELSE Created(before, e.node, e.value)
                      IN Placed(old[Parent(e.node)], e, children'[Parent(e.node)])
    BY DEF PlacedByIndex, Succeed
  <2>1. Len(edits) = 1
    BY <1>0 DEF EditsOK
  <2> QED BY <1>3, <2>1 DEF Ordered
<1>8. ValidatorAgrees'
  <2>1. phase' = "answered" => reply' = "ok"
    BY DEF Succeed
  <2> SUFFICES ASSUME Len(edits) = 1, edits[1].type = "add", Plain(edits[1].node),
                      Short(edits[1].value), edits[1].value \notin {Delete, EmptyText}
               PROVE  Node(edits[1].node, edits[1].value) \in Facts(children')
    BY <2>1 DEF ValidatorAgrees, Succeed
  <2>2. Stores(edits[1].node, edits[1].value)
    <3>1. CASE edits[1].node \in Leaves
      <4>1. Valid(edits[1].node, edits[1].value)
        BY <1>3, <3>1
      <4>2. edits[1].value \in Inputs \cup {None, Delete}
        BY <1>0, <1>3, EditFacts
      <4> QED BY <3>1, <4>1, <4>2, ValidMeans
    <3>2. CASE edits[1].node \notin Leaves
      BY <1>3, <3>2 DEF Sound
    <3> QED BY <3>1, <3>2
  <2>3. edits[1].type # "delete" /\ edits[1] = Head(todo)
    BY <1>3
  <2> QED BY <2>2, <2>3 DEF Intended, Overlooked
<1> QED BY <1>1, <1>4, <1>5, <1>6, <1>7, <1>8 DEF IInv

(* What an edit that fails may do.                                         *)
Bounded(facts, e, after) ==
  /\ after \subseteq facts
  /\ \A n \in facts \ after :
       \/ e.type = "delete" /\ \E b \in ToSet(Path(e.node)) : Within(Parent(n.name), b)
       \/ e.index # 0 /\ n = Node(e.node, e.value)

(* It failed.                                                              *)
LEMMA HasFailed ==
  ASSUME IInv, phase = "editing", Fail, Tree(children'),
         Bounded(Facts(children), Head(todo), Facts(children'))
  PROVE  IInv'
<1>0. TypeOK /\ EditsOK
  BY DEF IInv
<1>f. /\ phase' = "answered" /\ reply' = "error"
      /\ UNCHANGED <<todo, edits, before, meant>>
  BY DEF Fail
<1>1. TypeOK'
  <2>1. todo' \in Seq(Edits)
    BY <1>0, <1>f DEF TypeOK
  <2> QED BY <1>f, <2>1, TypeOfTree
<1>2. EditsOK'
  BY <1>0, <1>f DEF EditsOK
<1>3. FailureContained'
  <2>1. meant = Facts(children)
    BY <1>0 DEF EditsOK
  <2> QED BY <1>f, <2>1 DEF FailureContained, Bounded
<1>4. SuccessIsExact' /\ PlacedByIndex' /\ ValidatorAgrees'
  BY <1>f DEF SuccessIsExact, PlacedByIndex, ValidatorAgrees
<1> QED BY <1>1, <1>2, <1>3, <1>4 DEF IInv

LEMMA FailedUnchanged ==
  ASSUME IInv, phase = "editing", Fail, UNCHANGED children
  PROVE  IInv'
<1>1. Tree(children')
  BY TreeOfType DEF IInv
<1>2. Bounded(Facts(children), Head(todo), Facts(children'))
  BY DEF Bounded
<1> QED BY <1>1, <1>2, HasFailed

(* A fault ends the command without an answer.                             *)
LEMMA FaultedStep ==
  ASSUME IInv, Fault
  PROVE  IInv'
<1>f. /\ phase' = "faulted"
      /\ UNCHANGED <<children, reply, todo, edits, before, meant>>
  BY DEF Fault
<1>1. TypeOK'
  <2>1. /\ reply' \in {"none", "ok", "error", "refused"}
        /\ todo' \in Seq(Edits)
    BY <1>f DEF IInv, TypeOK
  <2>2. Tree(children')
    BY <1>f, TreeOfType DEF IInv
  <2> QED BY <1>f, <2>1, <2>2, TypeOfTree
<1>2. EditsOK'
  BY <1>f DEF IInv, EditsOK
<1>3. SuccessIsExact' /\ PlacedByIndex' /\ ValidatorAgrees' /\ FailureContained'
  BY <1>f DEF SuccessIsExact, PlacedByIndex, ValidatorAgrees, FailureContained, Failed
<1> QED BY <1>1, <1>2, <1>3 DEF IInv

-----------------------------------------------------------------------------
(* A command begins.                                                       *)
LEMMA Begun ==
  ASSUME IInv, AtPrompt, NEW es \in Seq(Edits), es # <<>>, Begin(es),
         es[1].node \in Lists => Len(es) = 1,
         Len(es) = 1 /\ es[1].type = "add" /\ es[1].node \in Leaves =>
           Valid(es[1].node, es[1].value)
  PROVE  IInv'
<1>f. /\ phase = "prompt" /\ phase' = "editing" /\ todo' = es /\ edits' = es
      /\ UNCHANGED <<children, reply, before, meant>>
  BY DEF Begin, AtPrompt
<1>1. TypeOK'
  <2>1. reply' \in {"none", "ok", "error", "refused"}
    BY <1>f DEF IInv, TypeOK
  <2>2. Tree(children')
    BY <1>f, TreeOfType DEF IInv
  <2> QED BY <1>f, <2>1, <2>2, TypeOfTree
<1>2. EditsOK'
  BY <1>f DEF IInv, EditsOK
<1>3. SuccessIsExact' /\ PlacedByIndex' /\ ValidatorAgrees' /\ FailureContained'
  BY <1>f DEF SuccessIsExact, PlacedByIndex, ValidatorAgrees, FailureContained, Failed
<1> QED BY <1>1, <1>2, <1>3 DEF IInv

(* Or is refused.                                                          *)
LEMMA CheckedOne ==
  ASSUME IInv, AtPrompt, NEW es \in Seq(Edits), es # <<>>, Checked(es),
         es[1].node \in Lists => Len(es) = 1,
         es[1].node \in Leaves \cup Lists, es[1].value \in Inputs
  PROVE  IInv'
<1>0. 1 \in DOMAIN es
  OBVIOUS
<1>1. CASE \A i \in DOMAIN es : Valid(es[i].node, es[i].value)
  BY <1>0, <1>1, Begun DEF Checked
<1>2. CASE ~\A i \in DOMAIN es : Valid(es[i].node, es[i].value)
  <2>f. /\ phase = "prompt" /\ phase' = "answered" /\ reply' = "refused" /\ edits' = es
        /\ UNCHANGED <<children, todo, before, meant>>
    BY <1>2 DEF Checked, AtPrompt
  <2>1. TypeOK'
    <3>1. todo' \in Seq(Edits)
      BY <2>f DEF IInv, TypeOK
    <3>2. Tree(children')
      BY <2>f, TreeOfType DEF IInv
    <3> QED BY <2>f, <3>1, <3>2, TypeOfTree
  <2>2. EditsOK'
    BY <2>f DEF IInv, EditsOK
  <2>3. SuccessIsExact' /\ PlacedByIndex' /\ FailureContained'
    BY <2>f DEF SuccessIsExact, PlacedByIndex, FailureContained, Failed
  <2>4. ValidatorAgrees'
    <3> SUFFICES ASSUME Len(es) = 1, es[1].type = "add", Plain(es[1].node),
                        Short(es[1].value), es[1].value \notin {Delete, EmptyText}
                 PROVE  ~Stores(es[1].node, es[1].value)
      BY <2>f DEF ValidatorAgrees
    <3>1. DOMAIN es = {1}
      OBVIOUS
    <3>2. ~Valid(es[1].node, es[1].value)
      BY <1>2, <3>1
    <3>3. es[1].value # None
      BY NodesAssumption
    <3> QED BY <3>2, <3>3, ValidMeans
  <2> QED BY <2>1, <2>2, <2>3, <2>4 DEF IInv
<1> QED BY <1>1, <1>2

LEMMA AddIsEdit ==
  ASSUME NEW x \in Nodes, NEW t \in Inputs
  PROVE  Add(x, t) \in Edits
BY DEF Add, Edits

LEMMA DelIsEdit ==
  ASSUME NEW x \in Nodes, NEW t \in Inputs \cup {None, Delete}
  PROVE  Del(x, t) \in Edits
BY DEF Del, Edits

LEMMA DeletesBegun ==
  ASSUME IInv, AtPrompt, NEW x \in Nodes, NEW t \in Inputs \cup {None, Delete},
         Begin(<<Del(x, t)>>)
  PROVE  IInv'
<1> DEFINE es == <<Del(x, t)>>
<1>1. es \in Seq(Edits) /\ es # <<>> /\ Len(es) = 1 /\ es[1].type = "delete"
  BY DelIsEdit DEF Del
<1> HIDE DEF es
<1>2. Begin(es)
  BY DEF es
<1> QED BY <1>1, <1>2, Begun

LEMMA CaseFacts ==
  ASSUME NEW c \in Cases
  PROVE  /\ c \in Seq(Leaves) /\ c # <<>> /\ Len(c) \in Nat /\ 1 \in DOMAIN c
         /\ DOMAIN c = 1..Len(c)
         /\ \A i \in DOMAIN c : c[i] \in Leaves /\ c[i] \in Nodes /\ c[i] \notin Lists
<1>1. c \in Seq(Leaves) /\ c # <<>>
  BY NodesAssumption
<1>2. /\ Len(c) \in Nat /\ 1 \in DOMAIN c /\ DOMAIN c = 1..Len(c)
      /\ \A i \in DOMAIN c : c[i] \in Leaves
  BY <1>1
<1> QED BY <1>1, <1>2 DEF Leaves, Lists

LEMMA CommandSteps ==
  ASSUME IInv,
         Leaf \/ NoLeaf \/ LeafList \/ NoLeafList \/ Case \/ CaseDelete \/ NoCase
           \/ NoContainer \/ List \/ NoList
  PROVE  IInv'
<1>1. CASE Leaf
  <2>1. PICK x \in Leaves, t \in Inputs : Checked(<<Add(x, t)>>)
    BY <1>1 DEF Leaf
  <2> DEFINE es == <<Add(x, t)>>
  <2>2. x \in Nodes /\ x \notin Lists
    BY DEF Leaves, Lists
  <2>3. es \in Seq(Edits) /\ es # <<>> /\ es[1].node = x /\ es[1].value = t
    BY <2>2, AddIsEdit DEF Add
  <2> HIDE DEF es
  <2>4. Checked(es) /\ AtPrompt
    BY <1>1, <2>1 DEF es, Leaf, Room
  <2> QED BY <2>2, <2>3, <2>4, CheckedOne
<1>2. CASE NoLeaf
  <2>1. PICK x \in Leaves : Begin(<<Del(x, None)>>)
    BY <1>2 DEF NoLeaf
  <2>2. x \in Nodes
    BY DEF Leaves
  <2> QED BY <1>2, <2>1, <2>2, DeletesBegun DEF NoLeaf
<1>3. CASE LeafList
  <2>1. PICK x \in LeafLists, ts \in [1..1 -> Inputs] \cup [1..2 -> Inputs] :
          Begin([i \in DOMAIN ts |-> Add(x, ts[i])])
    BY <1>3 DEF LeafList
  <2> DEFINE es == [i \in DOMAIN ts |-> Add(x, ts[i])]
  <2>2. x \in Nodes /\ x \notin Lists /\ x \notin Leaves
    BY DEF LeafLists, Lists, Leaves
  <2>3. PICK k \in {1, 2} : DOMAIN ts = 1..k /\ \A i \in 1..k : ts[i] \in Inputs
    OBVIOUS
  <2>4. es \in [1..k -> Edits] /\ es[1] = Add(x, ts[1])
    <3>1. \A i \in 1..k : Add(x, ts[i]) \in Edits
      BY <2>2, <2>3, AddIsEdit
    <3>2. 1 \in DOMAIN ts
      BY <2>3
    <3> QED BY <2>3, <3>1, <3>2
  <2>5. es[1].node = x
    BY <2>4 DEF Add
  <2> HIDE DEF es
  <2>6. es \in Seq(Edits) /\ es # <<>>
    BY <2>4
  <2>7. Begin(es) /\ AtPrompt
    BY <1>3, <2>1 DEF es, LeafList, Room
  <2> QED BY <2>2, <2>5, <2>6, <2>7, Begun
<1>4. CASE NoLeafList
  <2>1. PICK x \in LeafLists, t \in Inputs : Begin(<<Del(x, t)>>)
    BY <1>4 DEF NoLeafList
  <2>2. x \in Nodes
    BY DEF LeafLists
  <2> QED BY <1>4, <2>1, <2>2, DeletesBegun DEF NoLeafList
<1>5. CASE Case
  <2>0. PICK c \in Cases : \E ts \in [DOMAIN c -> Inputs] :
          Checked([i \in DOMAIN c |-> Add(c[i], ts[i])])
    BY <1>5 DEF Case
  <2>1. PICK ts \in [DOMAIN c -> Inputs] : Checked([i \in DOMAIN c |-> Add(c[i], ts[i])])
    BY <2>0
  <2> DEFINE es == [i \in DOMAIN c |-> Add(c[i], ts[i])]
  <2>2. /\ DOMAIN c = 1..Len(c) /\ Len(c) \in Nat /\ 1 \in DOMAIN c
        /\ \A i \in DOMAIN c : c[i] \in Leaves /\ c[i] \in Nodes /\ c[i] \notin Lists
    BY CaseFacts
  <2>3. \A i \in DOMAIN c : Add(c[i], ts[i]) \in Edits
    BY <2>2, AddIsEdit
  <2>4. es \in [1..Len(c) -> Edits] /\ es[1] = Add(c[1], ts[1]) /\ DOMAIN es = DOMAIN c
    BY <2>2, <2>3
  <2>5. es[1].node = c[1] /\ es[1].value = ts[1]
    BY <2>4 DEF Add
  <2> HIDE DEF es
  <2>6. es \in Seq(Edits) /\ es # <<>>
    BY <2>2, <2>4
  <2>7. Checked(es) /\ AtPrompt
    BY <1>5, <2>1 DEF es, Case, Room
  <2>8. ts[1] \in Inputs /\ c[1] \in Leaves /\ c[1] \notin Lists
    BY <2>2
  <2> QED BY <2>5, <2>6, <2>7, <2>8, CheckedOne
<1>6. CASE CaseDelete
  <2>1. PICK c \in Cases : Begin(<<Del(c[1], Delete)>>)
    BY <1>6 DEF CaseDelete
  <2>2. c[1] \in Nodes
    BY CaseFacts
  <2> QED BY <1>6, <2>1, <2>2, DeletesBegun DEF CaseDelete
<1>7. CASE NoCase
  <2>1. PICK c \in Cases : Begin([i \in DOMAIN c |-> Del(c[i], None)])
    BY <1>7 DEF NoCase
  <2> DEFINE es == [i \in DOMAIN c |-> Del(c[i], None)]
  <2>2. /\ DOMAIN c = 1..Len(c) /\ Len(c) \in Nat /\ 1 \in DOMAIN c
        /\ \A i \in DOMAIN c : c[i] \in Nodes /\ c[i] \notin Lists
    BY CaseFacts
  <2>3. \A i \in DOMAIN c : Del(c[i], None) \in Edits
    BY <2>2, DelIsEdit
  <2>4. es \in [1..Len(c) -> Edits] /\ es[1] = Del(c[1], None)
    BY <2>2, <2>3
  <2>5. es[1].node = c[1] /\ es[1].type = "delete"
    BY <2>4 DEF Del
  <2> HIDE DEF es
  <2>6. es \in Seq(Edits) /\ es # <<>>
    BY <2>2, <2>4
  <2>7. Begin(es) /\ AtPrompt
    BY <1>7, <2>1 DEF es, NoCase
  <2> QED BY <2>2, <2>5, <2>6, <2>7, Begun
<1>8. CASE NoContainer
  <2>1. PICK x \in Boxes : Begin(<<Del(x, None)>>)
    BY <1>8 DEF NoContainer
  <2>2. x \in Nodes
    BY DEF Boxes
  <2> QED BY <1>8, <2>1, <2>2, DeletesBegun DEF NoContainer
<1>9. CASE List
  <2>1. PICK x \in Lists, t \in Inputs, k \in {0} \cup Indexes :
          Checked(<<[Add(x, t) EXCEPT !.index = k]>>)
    BY <1>9 DEF List
  <2> DEFINE e == [Add(x, t) EXCEPT !.index = k]
             es == <<e>>
  <2>2. x \in Nodes
    BY DEF Lists
  <2>3. e \in Edits /\ e.node = x /\ e.value = t
    BY <2>2 DEF Add, Edits
  <2> HIDE DEF e
  <2>4. es \in Seq(Edits) /\ es # <<>> /\ es[1] = e /\ Len(es) = 1
    BY <2>3
  <2> HIDE DEF es
  <2>5. Checked(es) /\ AtPrompt
    BY <1>9, <2>1 DEF es, e, List, Room
  <2> QED BY <2>3, <2>4, <2>5, CheckedOne
<1>10. CASE NoList
  <2>1. PICK x \in Lists, t \in Inputs : Checked(<<Del(x, t)>>)
    BY <1>10 DEF NoList
  <2> DEFINE es == <<Del(x, t)>>
  <2>2. x \in Nodes
    BY DEF Lists
  <2>3. es \in Seq(Edits) /\ es # <<>> /\ es[1].node = x /\ es[1].value = t /\ Len(es) = 1
    BY <2>2, DelIsEdit DEF Del
  <2> HIDE DEF es
  <2>4. Checked(es) /\ AtPrompt
    BY <1>10, <2>1 DEF es, NoList
  <2> QED BY <2>3, <2>4, CheckedOne
<1> QED BY <1>1, <1>2, <1>3, <1>4, <1>5, <1>6, <1>7, <1>8, <1>9, <1>10

-----------------------------------------------------------------------------
(* The edits.                                                              *)

LEMMA AtFacts ==
  ASSUME IInv, NEW type, NEW K, At(type, K)
  PROVE  /\ phase = "editing" /\ Head(todo) \in Edits
         /\ Head(todo).type = type /\ X = Head(todo).node /\ T = Head(todo).value
         /\ X \in K /\ X \in Nodes /\ T \in Inputs \cup {None, Delete}
         /\ Tree(children)
BY HeadFacts, EditFacts, TreeOfType DEF At, X, T, IInv

(* What an edit is for that adds a value libyang stores.                   *)
LEMMA IntendedAdd ==
  ASSUME NEW F, F \subseteq Kids, NEW e \in Edits, e.type = "add",
         e.node \notin Boxes, Stores(e.node, e.value)
  PROVE  Intended(F, e) = {n \in F : ~Is(n, e.node, e.value)} \cup {Node(e.node, e.value)}
<1>1. e.node \in Nodes \ Boxes
  BY EditFacts
<1>2. \A n \in F : ~Within(Parent(n.name), e.node)
  BY <1>1, Untouched
<1> QED BY <1>2 DEF Intended, Overlooked

LEMMA ChangeTermStep ==
  ASSUME IInv, ChangeTerm
  PROVE  IInv'
<1> DEFINE e == Head(todo)
<1>0. /\ phase = "editing" /\ e \in Edits /\ e.type = "add" /\ X = e.node /\ T = e.value
      /\ X \in Terms /\ X \in Nodes /\ T \in Inputs \cup {None, Delete} /\ Tree(children)
  BY AtFacts DEF ChangeTerm
<1>1. Parses(X, T) /\ Has(children, X, T) /\ Succeed
  BY DEF ChangeTerm
<1>2. X \in Nodes \ Boxes /\ X \notin Lists
  BY <1>0, Kinds
<1>3. Sound(e)
  BY <1>0, <1>1, ParsesStores DEF Sound, Terms
<1>4. Ordered(children, e, children')
  BY <1>0, <1>2 DEF Ordered
<1>5. Facts(children) = {n \in All(children) : n.name \notin Boxes} /\ Facts(children) \subseteq Kids
  BY <1>0, FactsOf, FactsKids
<1>6. CASE Stores(X, T)
  <2> DEFINE new == [children EXCEPT ![Parent(X)] =
               [i \in DOMAIN @ |-> IF Is(@[i], X, T) THEN Node(X, T) ELSE @[i]]]
  <2>1. children' = new
    BY <1>6 DEF ChangeTerm
  <2>2. Node(X, T) \in Kids
    BY <1>0, <1>2, <1>6, StoresTyped DEF Node, Kids
  <2>3. Tree(new) /\ All(new) = {n \in All(children) : ~Is(n, X, T)} \cup {Node(X, T)}
    BY <1>0, <1>1, <1>2, <1>6, <2>2, ReplacedFacts
  <2> HIDE DEF new
  <2>4. Facts(new) = {n \in All(new) : n.name \notin Boxes}
    BY <2>3, FactsOf
  <2>5. Node(X, T).name \notin Boxes
    BY <1>2 DEF Node
  <2>6. Facts(new) = {n \in Facts(children) : ~Is(n, X, T)} \cup {Node(X, T)}
    BY <1>5, <2>3, <2>4, <2>5
  <2>7. Intended(Facts(children), e) = {n \in Facts(children) : ~Is(n, X, T)} \cup {Node(X, T)}
    BY <1>0, <1>2, <1>5, <1>6, IntendedAdd
  <2>8. Tree(children') /\ Facts(children') = Intended(Facts(children), e)
    BY <2>1, <2>3, <2>6, <2>7
  <2> HIDE DEF e
  <2> QED BY <1>0, <1>1, <1>3, <1>4, <2>8, Succeeded DEF e
<1>7. CASE ~Stores(X, T)
  <2>1. children' = children
    BY <1>7 DEF ChangeTerm
  <2>2. PICK n \in All(children) : Is(n, X, T)
    BY <1>0, <1>1, HasIs
  <2>3. n \in Facts(children) /\ n.name = X
    BY <1>2, <1>5, <2>2 DEF Is
  <2>4. X \in Leaves
    BY <1>0, <1>1, <1>7, ParsesStores DEF Terms
  <2>5. Intended(Facts(children), e) = Facts(children)
    BY <1>0, <1>7, <2>3, <2>4 DEF Intended, Overlooked
  <2> QED BY <1>0, <1>1, <1>3, <1>4, <2>1, <2>5, Succeeded
<1> QED BY <1>6, <1>7

LEMMA AddTermStep ==
  ASSUME IInv, AddTerm
  PROVE  IInv'
<1> DEFINE e == Head(todo)
<1>0. /\ phase = "editing" /\ e \in Edits /\ e.type = "add" /\ X = e.node /\ T = e.value
      /\ X \in Terms /\ X \in Nodes /\ T \in Inputs \cup {None, Delete} /\ Tree(children)
  BY AtFacts DEF AddTerm
<1>1. CASE ~Stores(X, T)
  BY <1>0, <1>1, FailedUnchanged DEF AddTerm
<1>2. CASE Stores(X, T)
  <2>1. ~Has(children, X, T) /\ children' = Created(children, X, T) /\ Succeed
    BY <1>2 DEF AddTerm
  <2>2. X \in Nodes \ Boxes /\ X \notin Lists /\ T \in Inputs \cup {None}
    BY <1>0, <1>2, Kinds, StoresTyped
  <2>3. Tree(children')
    BY <1>0, <1>2, <2>1, <2>2, CreatedFacts
  <2>4. Facts(children') = Facts(children) \cup {Node(X, T)}
    BY <1>0, <1>2, <2>1, <2>2, CreatedContent
  <2>5. Facts(children) \subseteq Kids /\ Facts(children) \subseteq All(children)
    BY <1>0, FactsOf, FactsKids
  <2>6. Intended(Facts(children), e) = {n \in Facts(children) : ~Is(n, X, T)} \cup {Node(X, T)}
    BY <1>0, <1>2, <2>2, <2>5, IntendedAdd
  <2>7. \A n \in Facts(children) : ~Is(n, X, T)
    BY <1>0, <2>1, <2>5, HasIs
  <2>8. Facts(children') = Intended(Facts(children), e)
    BY <2>4, <2>6, <2>7
  <2>9. Sound(e) /\ Ordered(children, e, children')
    BY <1>0, <1>2, <2>2 DEF Sound, Ordered
  <2> QED BY <1>0, <2>1, <2>3, <2>8, <2>9, Succeeded
<1> QED BY <1>1, <1>2

(* The deletions that succeed.                                             *)
LEMMA DeletedSteps ==
  ASSUME IInv, phase = "editing", Head(todo).type = "delete", Head(todo).node \in Nodes,
         Tree(children), Succeed,
         NEW t, \A n : Is(n, X, t) <=> Is(n, X, T),
         children' = Freed(children, X, t)
  PROVE  IInv'
<1> DEFINE e == Head(todo)
<1>0. X = e.node /\ T = e.value
  BY DEF X, T
<1>1. Tree(children')
  BY <1>0, FreedFacts
<1>2. Facts(children') =
        {n \in Facts(children) : ~Is(n, X, t) /\ ~Within(Parent(n.name), X)}
  BY <1>0, FreedContent
<1>3. Facts(children') = Intended(Facts(children), e)
  BY <1>0, <1>2 DEF Intended
<1>4. Sound(e) /\ Ordered(children, e, children')
  BY DEF Sound, Ordered
<1> QED BY <1>1, <1>3, <1>4, Succeeded

LEMMA DeleteTermStep ==
  ASSUME IInv, DeleteTerm
  PROVE  IInv'
<1> DEFINE e == Head(todo)
<1>0. /\ phase = "editing" /\ e \in Edits /\ e.type = "delete" /\ X = e.node /\ T = e.value
      /\ X \in Terms /\ X \in Nodes /\ Tree(children)
  BY AtFacts DEF DeleteTerm
<1>1. CASE Has(children, X, T) \/ Stores(X, T)
  BY <1>0, <1>1, DeletedSteps DEF DeleteTerm
<1>2. CASE ~(Has(children, X, T) \/ Stores(X, T))
  <2> DEFINE b == Deepest(children, X)
  <2>0. Fail /\ children' = IF b = Self THEN children ELSE Freed(children, b, None)
    BY <1>2 DEF DeleteTerm
  <2>1. CASE b = Self
    BY <1>0, <2>0, <2>1, FailedUnchanged
  <2>2. CASE b # Self
    <3>1. b \in ToSet(Path(X)) /\ b \in Nodes /\ b \in Boxes
      <4>1. b \in There(children, X)
        BY <1>0, <2>2, DeepestFacts
      <4>2. b \in ToSet(Path(X))
        BY <4>1 DEF There
      <4> QED BY <1>0, <4>2, Above
    <3>2. children' = Freed(children, b, None)
      BY <2>0, <2>2
    <3> HIDE DEF b
    <3>3. Tree(children')
      BY <1>0, <3>1, <3>2, FreedFacts
    <3>4. Facts(children') =
            {n \in Facts(children) : ~Is(n, b, None) /\ ~Within(Parent(n.name), b)}
      BY <1>0, <3>1, <3>2, FreedContent
    <3>5. \A n \in Facts(children) : ~Is(n, b, None)
      BY <1>0, <3>1, FactsOf DEF Is
    <3>6. Bounded(Facts(children), e, Facts(children'))
      BY <1>0, <3>1, <3>4, <3>5 DEF Bounded
    <3> QED BY <1>0, <2>0, <3>3, <3>6, HasFailed
  <2> QED BY <2>1, <2>2
<1> QED BY <1>1, <1>2

LEMMA DeleteContainerStep ==
  ASSUME IInv, DeleteContainer
  PROVE  IInv'
<1> DEFINE e == Head(todo)
<1>0. /\ phase = "editing" /\ e \in Edits /\ e.type = "delete" /\ X = e.node /\ T = e.value
      /\ X \in Boxes /\ X \in Nodes /\ Tree(children)
  BY AtFacts DEF DeleteContainer
<1>1. \A n : Is(n, X, None) <=> Is(n, X, T)
  BY <1>0, NotKeyed DEF Is
<1>2. Succeed /\ children' = Freed(children, X, None)
  BY DEF DeleteContainer
<1> HIDE DEF e
<1> QED BY <1>0, <1>1, <1>2, DeletedSteps DEF e

LEMMA DeleteEntryStep ==
  ASSUME IInv, DeleteEntry
  PROVE  IInv'
<1> DEFINE e == Head(todo)
           tree == Entry(children)
<1>0. /\ phase = "editing" /\ e \in Edits /\ e.type = "delete" /\ X = e.node /\ T = e.value
      /\ X \in Lists /\ X \in Nodes /\ Tree(children)
  BY AtFacts DEF DeleteEntry
<1>1. Parses(X, T) /\ Succeed /\ children' = Freed(tree, X, T)
  BY DEF DeleteEntry
<1>2. Tree(tree) /\ Facts(tree) = Facts(children) \cup {Node(X, T)}
  BY <1>0, <1>1, EntryTree DEF Entry
<1> HIDE DEF tree
<1>3. Tree(children')
  BY <1>0, <1>1, <1>2, FreedFacts
<1>4. Facts(children') =
        {n \in Facts(tree) : ~Is(n, X, T) /\ ~Within(Parent(n.name), X)}
  BY <1>0, <1>1, <1>2, FreedContent
<1>5. Is(Node(X, T), X, T)
  BY DEF Node, Is
<1>6. Facts(children') = Intended(Facts(children), e)
  BY <1>0, <1>2, <1>4, <1>5 DEF Intended
<1>7. Sound(e) /\ Ordered(children, e, children')
  BY <1>0 DEF Sound, Ordered
<1> QED BY <1>0, <1>1, <1>3, <1>6, <1>7, Succeeded

LEMMA AddEntryStep ==
  ASSUME IInv, AddEntry
  PROVE  IInv'
<1> DEFINE e == Head(todo)
           tree == Entry(children)
           q == Parent(X)
           from == Spot(tree[q], X, T)
           to == Place(e.index)
<1>0. /\ phase = "editing" /\ e \in Edits /\ e.type = "add" /\ X = e.node /\ T = e.value
      /\ X \in Lists /\ X \in Nodes /\ Tree(children)
  BY AtFacts DEF AddEntry
<1>1. Parses(X, T)
  BY DEF AddEntry
<1>2. /\ Tree(tree) /\ Facts(tree) = Facts(children) \cup {Node(X, T)}
      /\ \E n \in ToSet(tree[q]) : Is(n, X, T)
  BY <1>0, <1>1, EntryTree DEF Entry
<1>3. X \in Nodes \ Boxes /\ Keyed(X) /\ Stores(X, T) /\ q \in Places
  BY <1>0, <1>1, Kinds, ParsesStores, ParentFacts
<1>4. \/ /\ e.index = 0 \/ to > Len(tree[q])
         /\ children' = tree /\ Succeed
      \/ /\ ~(e.index = 0 \/ to > Len(tree[q])) /\ to # from
         /\ children' = [tree EXCEPT ![q] = Moved(@, from, to)] /\ Succeed
      \/ /\ ~(e.index = 0 \/ to > Len(tree[q]))
         /\ children' = Freed(tree, X, T) /\ Fail
  BY DEF AddEntry
<1>5. /\ tree[q] \in Seq(Kids) /\ Apart(tree[q])
      /\ from \in 1..Len(tree[q]) /\ Is(tree[q][from], X, T)
      /\ Len(tree[q]) \in Nat
  <2>1. tree[q] \in Seq(Kids) /\ Apart(tree[q])
    BY <1>2, <1>3 DEF Tree
  <2>2. from \in 1..Len(tree[q]) /\ Is(tree[q][from], X, T)
    BY <1>2, <2>1, SpotFacts
  <2> QED BY <2>1, <2>2, InSet
<1>6. tree = IF Has(children, X, T) THEN children ELSE Created(children, X, T)
  BY DEF Entry
<1>7. Facts(children) \subseteq Kids
  BY <1>0, FactsKids
<1>8. Intended(Facts(children), e) = Facts(tree)
  <2>1. Intended(Facts(children), e) =
          {n \in Facts(children) : ~Is(n, X, T)} \cup {Node(X, T)}
    BY <1>0, <1>3, <1>7, IntendedAdd
  <2>2. \A n \in Facts(children) : Is(n, X, T) => n = Node(X, T)
    BY <1>3, <1>7, IsNode
  <2> QED BY <1>2, <2>1, <2>2
<1>9. Sound(e)
  BY <1>0, <1>3 DEF Sound
<1>10. CASE (e.index = 0 \/ to > Len(tree[q])) /\ children' = tree /\ Succeed
  <2>1. Placed(tree[q], e, children'[q])
    BY <1>0, <1>5, <1>10, PlacedStay
  <2>2. Ordered(children, e, children')
    BY <1>0, <1>6, <2>1 DEF Ordered
  <2> HIDE DEF tree, to
  <2> QED BY <1>0, <1>2, <1>8, <1>9, <1>10, <2>2, Succeeded
<1>11. CASE /\ ~(e.index = 0 \/ to > Len(tree[q])) /\ to # from
            /\ children' = [tree EXCEPT ![q] = Moved(@, from, to)] /\ Succeed
  <2>1. to \in 1..Len(tree[q]) /\ to <= Len(tree[q])
    <3>1. to \in Nat /\ to >= 1
      BY <1>0, EditIndex
    <3> HIDE DEF to, tree
    <3> QED BY <1>5, <1>11, <3>1
  <2> DEFINE s == Moved(tree[q], from, to)
  <2>2. Tree([tree EXCEPT ![q] = s]) /\ All([tree EXCEPT ![q] = s]) = All(tree)
    <3> HIDE DEF from, to, tree
    <3> QED BY <1>2, <1>3, <1>5, <2>1, MovedTree
  <2>3. children' = [tree EXCEPT ![q] = s]
    BY <1>11
  <2>4. children'[q] = s
    BY <1>2, <1>3, <2>3 DEF Tree
  <2>5. Placed(tree[q], e, s)
    BY <1>0, <1>5, <1>11, <2>1, PlacedMoved
  <2>6. Ordered(children, e, children')
    BY <1>0, <1>6, <2>4, <2>5 DEF Ordered
  <2> HIDE DEF s, tree, to, from
  <2>7. Tree(children') /\ All(children') = All(tree)
    BY <2>2, <2>3
  <2>8. Facts(children') = Facts(tree)
    BY <1>2, <2>7, FactsOf
  <2> QED BY <1>0, <1>8, <1>9, <1>11, <2>6, <2>7, <2>8, Succeeded
<1>12. CASE /\ ~(e.index = 0 \/ to > Len(tree[q]))
            /\ children' = Freed(tree, X, T) /\ Fail
  <2> HIDE DEF tree, to, from
  <2>1. Tree(children')
    BY <1>0, <1>2, <1>12, FreedFacts
  <2>2. Facts(children') =
          {n \in Facts(tree) : ~Is(n, X, T) /\ ~Within(Parent(n.name), X)}
    BY <1>0, <1>2, <1>12, FreedContent
  <2>3. Is(Node(X, T), X, T)
    BY DEF Node, Is
  <2>4. \A n \in Facts(children) : ~Within(Parent(n.name), X)
    BY <1>3, <1>7, Untouched
  <2>5. \A n \in Facts(children) : Is(n, X, T) => n = Node(X, T)
    BY <1>3, <1>7, IsNode
  <2>6. Bounded(Facts(children), e, Facts(children'))
    BY <1>0, <1>2, <1>12, <2>2, <2>3, <2>4, <2>5 DEF Bounded
  <2> QED BY <1>0, <1>12, <2>1, <2>6, HasFailed
<1> QED BY <1>4, <1>10, <1>11, <1>12

LEMMA PromptStep ==
  ASSUME IInv, Prompt \/ Start
  PROVE  IInv'
<1>1. /\ phase' = "prompt" /\ reply' = "none" /\ todo' = <<>> /\ edits' = <<>>
      /\ before' = children' /\ meant' = Facts(children')
  BY DEF Prompt, Start
<1>2. Tree(children')
  <2>1. CASE Prompt
    BY <2>1, TreeOfType DEF Prompt, IInv
  <2>2. CASE Start
    <3>1. children' = [p \in Places |-> <<>>]
      BY <2>2 DEF Start, Places
    <3> QED BY <3>1 DEF Tree, Apart, ToSet, Places
  <2> QED BY <2>1, <2>2
<1>3. TypeOK'
  <2>1. todo' \in Seq(Edits)
    BY <1>1
  <2> QED BY <1>1, <1>2, <2>1, TypeOfTree
<1>4. EditsOK'
  BY <1>1 DEF EditsOK
<1>5. SuccessIsExact' /\ PlacedByIndex' /\ ValidatorAgrees' /\ FailureContained'
  BY <1>1 DEF SuccessIsExact, PlacedByIndex, ValidatorAgrees, FailureContained, Failed
<1> QED BY <1>3, <1>4, <1>5 DEF IInv

LEMMA BadSteps ==
  ASSUME IInv, BadPath \/ BadKey
  PROVE  IInv'
<1>1. phase = "editing"
  BY DEF BadPath, BadKey, At
<1>2. Fault \/ (UNCHANGED children /\ Fail)
  BY DEF BadPath, BadKey
<1> QED BY <1>1, <1>2, FaultedStep, FailedUnchanged

LEMMA InitStep == Init => IInv
<1> SUFFICES ASSUME Init PROVE IInv
  OBVIOUS
<1>0. /\ phase = "prompt" /\ reply = "none" /\ todo = <<>> /\ edits = <<>>
      /\ before = children /\ meant = Facts(children)
      /\ children = [p \in Boxes \cup {Self} |-> <<>>]
  BY DEF Init
<1>1. TypeOK
  <2>1. todo \in Seq(Edits) /\ children \in [Boxes \cup {Self} -> Seq([name : Nodes, value : Inputs \cup {None}])]
    BY <1>0
  <2> QED BY <1>0, <2>1 DEF TypeOK
<1>2. EditsOK
  BY <1>0 DEF EditsOK
<1>3. SuccessIsExact /\ PlacedByIndex /\ ValidatorAgrees /\ FailureContained
  BY <1>0 DEF SuccessIsExact, PlacedByIndex, ValidatorAgrees, FailureContained, Failed
<1> QED BY <1>1, <1>2, <1>3 DEF IInv

(* Every step keeps the invariant.                                         *)
LEMMA NextStep == IInv /\ [Next]_vars => IInv'
<1> SUFFICES ASSUME IInv, [Next]_vars PROVE IInv'
  OBVIOUS
<1>1. CASE UNCHANGED vars
  BY <1>1 DEF vars, IInv, TypeOK, EditsOK, SuccessIsExact, FailureContained, Failed,
              PlacedByIndex, ValidatorAgrees, Has
<1>2. CASE Next
  BY <1>2, CommandSteps, ChangeTermStep, AddTermStep, DeleteTermStep, BadSteps,
     DeleteContainerStep, DeleteEntryStep, AddEntryStep, PromptStep DEF Next
<1> QED BY <1>1, <1>2

(* Completion finds the entries because the search for the list ends at    *)
(* their parent.                                                           *)
LEMMA Offered == TypeOK => EntriesOffered
<1> SUFFICES ASSUME TypeOK, NEW x \in Lists, NEW i \in DOMAIN children[Parent(x)],
                    children[Parent(x)][i].name = x
             PROVE  children[Parent(x)][i].value \in KeysOffered(x)
  BY DEF EntriesOffered
<1> DEFINE s == children[Parent(x)]
<1>0. x \in Nodes /\ Tree(children)
  BY Kinds, TreeOfType
<1>1. Parent(x) \in Places
  BY <1>0, ParentFacts
<1>2. s \in Seq(Kids) /\ i \in 1..Len(s) /\ i \in Int
  BY <1>0, <1>1, InSet DEF Tree
<1>3. s # <<>>
  <2> HIDE DEF s
  <2> QED BY <1>2
<1>4. Searched(x) = s
  BY <1>0, <1>3, DeepestFacts DEF Searched
<1>5. SameName(x, s[i].name)
  BY DEF SameName
<1> QED BY <1>2, <1>4, <1>5 DEF KeysOffered

-----------------------------------------------------------------------------
(* The invariant, for every schema.                                        *)
THEOREM Invariant == Spec => []IInv
BY InitStep, NextStep, PTL DEF Spec

(* The tree is one of the schema, whatever the commands and their faults:  *)
(* every child is below its parent, no two are the same, nothing is left   *)
(* behind of a container that is gone, and every value is one of its type. *)
THEOREM TypeCorrect == Spec => []TypeOK
BY Invariant, PTL DEF IInv

(* A command that reports success has done its edits and nothing else, but *)
(* for the leaves that keep their value because their type refuses the new *)
(* one.                                                                    *)
THEOREM SuccessExact == Spec => []SuccessIsExact
BY Invariant, PTL DEF IInv

(* One that fails loses at most what is below one container of the leaf it *)
(* was to delete, or the entry that it was to move.                        *)
THEOREM FailuresContained == Spec => []FailureContained
BY Invariant, PTL DEF IInv

(* An index moves one entry, to the place that the index names.            *)
THEOREM IndexPlaces == Spec => []PlacedByIndex
BY Invariant, PTL DEF IInv

(* The validators agree with libyang on every plain type.                  *)
THEOREM ValidatorsAgree == Spec => []ValidatorAgrees
BY Invariant, PTL DEF IInv

(* Completion offers every entry of a list.                                *)
THEOREM AllOffered == Spec => []EntriesOffered
<1>1. TypeOK => EntriesOffered
  BY Offered
<1> QED BY <1>1, TypeCorrect, PTL
=============================================================================
