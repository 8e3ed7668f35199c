------------------------- MODULE ConfigSessionProofs -------------------------
(***************************************************************************)
(* Proofs about ConfigSession, and about what its commits may change, for  *)
(* every schema, value set and environment that its assumptions allow.     *)
(***************************************************************************)
EXTENDS CommitScope, WellFoundedInduction, TLAPS

-----------------------------------------------------------------------------
(* Paths.                                                                  *)

(* The path above a node that is no root: one name shorter, same names.    *)
LEMMA FrontOfNode ==
  ASSUME NEW n \in Nodes, Len(n) > 1
  PROVE  /\ Front(n) \in Nodes \ KeyOnly /\ Front(n) \in Seq(Names)
         /\ Len(Front(n)) = Len(n) - 1
         /\ \A i \in 1..(Len(n) - 1) : Front(n)[i] = n[i]
<1>1. n \in Seq(Names) /\ Len(n) \in Nat /\ Len(n) - 1 \in 1..Len(n)
  BY NodesAssumption
<1>2. Front(n) \in Nodes
  BY <1>1, NodesAssumption DEF Front
<1> QED BY <1>1, <1>2, NodesAssumption DEF Front

(* Every node is a nonempty sequence; the roots are those of length 1.     *)
LEMMA NodeLength ==
  ASSUME NEW n \in Nodes
  PROVE  n \in Seq(Names) /\ Len(n) \in Nat /\ Len(n) >= 1
         /\ (n \in Roots <=> Len(n) = 1)
         /\ (n \notin Roots => Len(n) > 1)
<1>1. n \in Seq(Names) /\ Len(n) \in Nat /\ n # <<>>
  BY NodesAssumption
<1>2. n \in Roots <=> Len(n) = 1
  BY DEF Roots
<1>3. Len(n) >= 1
  BY <1>1
<1>4. \A k \in Nat : k >= 1 /\ k # 1 => k > 1
  OBVIOUS
<1> QED BY <1>1, <1>2, <1>3, <1>4

(* Prefixes, name by name.                                                 *)
LEMMA PrefixByName ==
  ASSUME NEW s \in Seq(Names), NEW t \in Seq(Names)
  PROVE  IsPrefix(s, t) <=> Len(s) <= Len(t) /\ \A i \in 1..Len(s) : s[i] = t[i]
<1>1. ASSUME Len(s) <= Len(t)
      PROVE  SubSeq(s, 1, Len(s)) = SubSeq(t, 1, Len(s))
               <=> \A i \in 1..Len(s) : s[i] = t[i]
  <2>1. /\ SubSeq(s, 1, Len(s)) = [i \in 1..Len(s) |-> s[i]]
        /\ SubSeq(t, 1, Len(s)) = [i \in 1..Len(s) |-> t[i]]
    BY <1>1
  <2> QED BY <2>1
<1> QED BY <1>1 DEF IsPrefix

(* A root is above a node exactly if it is above the node's parent.        *)
LEMMA RootAboveFront ==
  ASSUME NEW r \in Roots, NEW n \in Nodes, Len(n) > 1
  PROVE  IsPrefix(r, n) <=> IsPrefix(r, Front(n))
BY NodeLength, FrontOfNode, PrefixByName DEF Roots

(* What is above the parent is above the node.                             *)
LEMMA AboveFront ==
  ASSUME NEW m \in Nodes, NEW n \in Nodes, Len(n) > 1, IsPrefix(m, Front(n))
  PROVE  IsPrefix(m, n)
<1>1. Len(m) \in Nat /\ Len(m) <= Len(n) - 1
  BY NodeLength, FrontOfNode, PrefixByName
<1> QED BY <1>1, NodeLength, FrontOfNode, PrefixByName

(* Only a root is at or above a root.                                      *)
LEMMA AboveRoot ==
  ASSUME NEW m \in Nodes, NEW r \in Roots
  PROVE  /\ IsPrefix(m, r) => m = r
         /\ IsPrefix(r, r)
<1>1. r \in Nodes /\ Len(r) = 1
  BY DEF Roots
<1>2. ASSUME IsPrefix(m, r) PROVE m = r
  <2>1. Len(m) = 1 /\ m[1] = r[1]
    BY <1>1, <1>2, NodeLength, PrefixByName
  <2> QED BY <1>1, <2>1, NodeLength
<1> QED BY <1>1, <1>2, NodeLength, PrefixByName

(* A longer path is not above a shorter one.                               *)
LEMMA LongerNotAbove ==
  ASSUME NEW c \in Nodes, NEW n \in Nodes, Len(c) > Len(n)
  PROVE  ~IsPrefix(c, n)
BY NodeLength, PrefixByName

LEMMA DeepNotAboveRoot ==
  ASSUME NEW c \in Nodes, Len(c) > 1
  PROVE  c \notin Roots /\ \A r \in Roots : ~IsPrefix(c, r)
<1>1. \A r \in Roots : r \in Nodes /\ Len(c) > Len(r)
  BY NodeLength DEF Roots
<1> QED BY <1>1, LongerNotAbove, NodeLength

(* A node does not lie below one of its own children, and no root does.    *)
LEMMA ChildNotAbove ==
  ASSUME NEW n \in Nodes, NEW e \in Names, NEW c \in Nodes, c = Append(n, e)
  PROVE  /\ Len(c) = Len(n) + 1
         /\ ~IsPrefix(c, n)
         /\ \A r \in Roots : ~IsPrefix(c, r)
         /\ c \notin Roots
<1>1. n \in Seq(Names) /\ Len(n) \in Nat /\ Len(n) >= 1
  BY NodeLength
<1>2. Len(c) = Len(n) + 1
  BY <1>1
<1>3. Len(c) > Len(n) /\ Len(c) > 1
  BY <1>1, <1>2
<1> QED BY <1>2, <1>3, LongerNotAbove, DeepNotAboveRoot

(* The child's parent is the node.                                         *)
LEMMA FrontOfChild ==
  ASSUME NEW n \in Nodes, NEW e \in Names
  PROVE  Front(Append(n, e)) = n /\ Last(Append(n, e)) = e
BY NodeLength DEF Front, Last

-----------------------------------------------------------------------------
(* Data trees: every edit keeps a tree a tree.                             *)

LEMMA TreeParts ==
  ASSUME NEW f, IsTree(f)
  PROVE  /\ f \in [Nodes -> Values \cup {Absent}]
         /\ \A n \in Nodes : Len(n) > 1 /\ f[n] # Absent => f[Front(n)] # Absent
         /\ \A n \in KeyOnly : f[n] \in {Blank, Absent}
BY DEF IsTree

LEMMA NoDataTree == IsTree(NoData)
BY FrontOfNode, NodesAssumption DEF IsTree, NoData

LEMMA GraftTree ==
  ASSUME NEW f, NEW g, IsTree(f), IsTree(g), NEW r \in Roots
  PROVE  IsTree(Graft(f, g, r))
<1>1. Graft(f, g, r) \in [Nodes -> Values \cup {Absent}]
  BY TreeParts DEF Graft
<1>2. ASSUME NEW n \in Nodes, Len(n) > 1, Graft(f, g, r)[n] # Absent
      PROVE  Graft(f, g, r)[Front(n)] # Absent
  <2>1. Front(n) \in Nodes /\ (IsPrefix(r, n) <=> IsPrefix(r, Front(n)))
    BY <1>2, FrontOfNode, RootAboveFront
  <2> QED BY <1>2, <2>1, TreeParts DEF Graft
<1>3. \A n \in KeyOnly : Graft(f, g, r)[n] \in {Blank, Absent}
  BY TreeParts, NodesAssumption DEF Graft
<1> QED BY <1>1, <1>2, <1>3 DEF IsTree

LEMMA PruneTree ==
  ASSUME NEW f, IsTree(f), NEW m \in Nodes
  PROVE  IsTree(Prune(f, m))
<1>1. Prune(f, m) \in [Nodes -> Values \cup {Absent}]
  BY TreeParts DEF Prune
<1>2. ASSUME NEW n \in Nodes, Len(n) > 1, Prune(f, m)[n] # Absent
      PROVE  Prune(f, m)[Front(n)] # Absent
  <2>1. Front(n) \in Nodes /\ ~IsPrefix(m, Front(n))
    BY <1>2, FrontOfNode, AboveFront DEF Prune
  <2> QED BY <1>2, <2>1, TreeParts DEF Prune
<1>3. \A n \in KeyOnly : Prune(f, m)[n] \in {Blank, Absent}
  BY TreeParts, NodesAssumption DEF Prune
<1> QED BY <1>1, <1>2, <1>3 DEF IsTree

(* A value may be given to a node whose parent exists.                     *)
LEMMA SetTree ==
  ASSUME NEW f, IsTree(f), NEW m \in Nodes, NEW v \in Values,
         m \in Roots \/ f[Front(m)] # Absent, m \in KeyOnly => v = Blank
  PROVE  IsTree([f EXCEPT ![m] = v])
<1> DEFINE g == [f EXCEPT ![m] = v]
<1>1. g \in [Nodes -> Values \cup {Absent}]
  BY TreeParts
<1>2. ASSUME NEW n \in Nodes, Len(n) > 1, g[n] # Absent
      PROVE  g[Front(n)] # Absent
  <2>1. Front(n) \in Nodes /\ v # Absent
    BY <1>2, FrontOfNode, ValueAssumption
  <2>2. CASE n = m
    <3>1. Front(m) # m /\ m \notin Roots
      BY <1>2, <2>2, FrontOfNode, NodeLength
    <3> QED BY <2>1, <2>2, <3>1, TreeParts
  <2>3. CASE n # m
    BY <1>2, <2>1, <2>3, TreeParts
  <2> QED BY <2>2, <2>3
<1>3. \A n \in KeyOnly : g[n] \in {Blank, Absent}
  BY TreeParts, NodesAssumption
<1> QED BY <1>1, <1>2, <1>3 DEF IsTree

LEMMA TouchTree ==
  ASSUME NEW f, IsTree(f), NEW m \in Nodes,
         m \in Roots \/ f[Front(m)] # Absent
  PROVE  IsTree(Touch(f, m))
BY SetTree, ValueAssumption DEF Touch

-----------------------------------------------------------------------------
(* The modes on the way down to a node.                                    *)

(* ModePath follows list commands and exits: it grows and shrinks at its   *)
(* end, as the stack of modes does.                                        *)
LEMMA ModePathSeq ==
  ASSUME NEW n \in Nodes
  PROVE  /\ ModePath(n) \in Seq(Modes)
         /\ Len(ModePath(n)) = Len(n)
<1>1. Len(n) \in Nat
  BY NodeLength
<1>2. ModePath(n) \in [1..Len(n) -> Modes]
  BY NodesAssumption DEF ModePath, Modes
<1> QED BY <1>1, <1>2

LEMMA ModePathAt ==
  ASSUME NEW n \in Nodes
  PROVE  /\ \A i \in 1..Len(n) : ModePath(n)[i] = ModeOf[SubSeq(n, 1, i)]
         /\ ModePath(n)[Len(n)] = ModeOf[n]
<1>1. n \in Seq(Names) /\ Len(n) \in Nat /\ Len(n) >= 1
  BY NodeLength
<1>2. SubSeq(n, 1, Len(n)) = n
  BY <1>1
<1>3. \A i \in 1..Len(n) : ModePath(n)[i] = ModeOf[SubSeq(n, 1, i)]
  BY DEF ModePath
<1>4. Len(n) \in 1..Len(n)
  BY <1>1
<1>5. ModePath(n)[Len(n)] = ModeOf[n]
  BY <1>2, <1>3, <1>4
<1> QED BY <1>3, <1>5

LEMMA ModePathOfRoot ==
  ASSUME NEW r \in Roots
  PROVE  ModePath(r) = Append(<<>>, ModeOf[r])
<1>1. r \in Nodes /\ Len(r) = 1
  BY DEF Roots
<1>2. ModePath(r) \in Seq(Modes) /\ Len(ModePath(r)) = 1 /\ ModePath(r)[1] = ModeOf[r]
  BY <1>1, ModePathSeq, ModePathAt
<1>3. ModeOf[r] \in Modes
  BY <1>1 DEF Modes
<1> QED BY <1>2, <1>3

LEMMA ModePathLast ==
  ASSUME NEW n \in Nodes
  PROVE  ModePath(n) # <<>> /\ Last(ModePath(n)) = ModeOf[n]
<1>1. Len(n) >= 1 /\ Len(n) \in Nat
  BY NodeLength
<1>2. Len(ModePath(n)) = Len(n) /\ ModePath(n)[Len(n)] = ModeOf[n]
  BY ModePathSeq, ModePathAt
<1> QED BY <1>1, <1>2 DEF Last

LEMMA ModePathDown ==
  ASSUME NEW n \in Nodes, NEW e \in Names, NEW c \in Nodes, c = Append(n, e)
  PROVE  ModePath(c) = Append(ModePath(n), ModeOf[c])
<1>1. n \in Seq(Names) /\ Len(n) \in Nat /\ Len(c) = Len(n) + 1 /\ c \in Seq(Names)
  BY NodeLength
<1>2. SubSeq(c, 1, Len(c)) = c
  BY <1>1
<1>3. ASSUME NEW i \in 1..Len(n) PROVE SubSeq(c, 1, i) = SubSeq(n, 1, i)
  <2>1. SubSeq(c, 1, i) = [j \in 1..i |-> c[j]] /\ SubSeq(n, 1, i) = [j \in 1..i |-> n[j]]
    BY <1>1
  <2>2. \A j \in 1..i : c[j] = n[j]
    BY <1>1
  <2> QED BY <2>1, <2>2
<1>4. Append(ModePath(n), ModeOf[c]) =
        [i \in 1..(Len(n) + 1) |-> IF i <= Len(n) THEN ModePath(n)[i] ELSE ModeOf[c]]
  <2>1. ModePath(n) \in Seq(Modes) /\ Len(ModePath(n)) = Len(n) /\ ModeOf[c] \in Modes
    BY ModePathSeq DEF Modes
  <2> QED BY <1>1, <2>1
<1>5. ModePath(c) = [i \in 1..(Len(n) + 1) |-> ModeOf[SubSeq(c, 1, i)]]
  BY <1>1 DEF ModePath
<1>6. ASSUME NEW i \in 1..(Len(n) + 1)
      PROVE  ModeOf[SubSeq(c, 1, i)] = IF i <= Len(n) THEN ModePath(n)[i] ELSE ModeOf[c]
  <2>1. CASE i <= Len(n)
    <3>1. i \in 1..Len(n)
      BY <1>1, <2>1
    <3> QED BY <2>1, <3>1, <1>3, ModePathAt
  <2>2. CASE ~(i <= Len(n))
    <3>1. i = Len(c)
      BY <1>1, <2>2
    <3> QED BY <2>2, <3>1, <1>2
  <2> QED BY <2>1, <2>2
<1> QED BY <1>4, <1>5, <1>6

LEMMA ModePathUp ==
  ASSUME NEW n \in Nodes, Len(n) > 1
  PROVE  Front(ModePath(n)) = ModePath(Front(n))
<1>1. n \in Seq(Names) /\ Len(n) \in Nat /\ Len(Front(n)) = Len(n) - 1
      /\ Front(n) \in Nodes /\ Front(n) \in Seq(Names)
  BY NodeLength, FrontOfNode
<1>2. ASSUME NEW i \in 1..(Len(n) - 1) PROVE SubSeq(Front(n), 1, i) = SubSeq(n, 1, i)
  <2>1. /\ SubSeq(Front(n), 1, i) = [j \in 1..i |-> Front(n)[j]]
        /\ SubSeq(n, 1, i) = [j \in 1..i |-> n[j]]
    BY <1>1
  <2>2. \A j \in 1..i : Front(n)[j] = n[j]
    BY <1>1, FrontOfNode
  <2> QED BY <2>1, <2>2
<1>3. Front(ModePath(n)) = [i \in 1..(Len(n) - 1) |-> ModePath(n)[i]]
  <2>1. ModePath(n) \in Seq(Modes) /\ Len(ModePath(n)) = Len(n)
    BY ModePathSeq
  <2> QED BY <1>1, <2>1 DEF Front
<1>4. ASSUME NEW i \in 1..(Len(n) - 1)
      PROVE  ModePath(n)[i] = ModeOf[SubSeq(Front(n), 1, i)]
  <2>1. i \in 1..Len(n)
    BY <1>1
  <2>2. ModePath(n)[i] = ModeOf[SubSeq(n, 1, i)]
    BY <2>1, ModePathAt
  <2> QED BY <1>2, <2>2
<1> QED BY <1>1, <1>3, <1>4 DEF ModePath

-----------------------------------------------------------------------------
(* The list of roots.                                                      *)

LEMMA RangeOfRoots ==
  ASSUME NEW s \in Seq(Roots)
  PROVE  /\ Len(s) \in Nat
         /\ Range(s) \subseteq Roots
         /\ \A i \in 1..Len(s) : s[i] \in Range(s)
         /\ s = <<>> => Range(s) = {}
BY DEF Range

(* A new element in front keeps the list free of duplicates.               *)
LEMMA PushRoot ==
  ASSUME NEW s \in Seq(Roots), IsInjective(s), NEW r \in Roots, r \notin Range(s)
  PROVE  /\ <<r>> \o s \in Seq(Roots)
         /\ IsInjective(<<r>> \o s)
         /\ Range(<<r>> \o s) = Range(s) \cup {r}
         /\ Len(<<r>> \o s) = Len(s) + 1
<1> DEFINE t == <<r>> \o s
<1>1. Len(s) \in Nat /\ DOMAIN s = 1..Len(s)
  OBVIOUS
<1>2. t \in Seq(Roots) /\ Len(t) = Len(s) + 1 /\ DOMAIN t = 1..(Len(s) + 1)
  OBVIOUS
<1>3. t[1] = r /\ \A i \in 2..(Len(s) + 1) : t[i] = s[i - 1]
  BY <1>1
<1>4. \A i \in 1..Len(s) : s[i] \in Range(s) /\ s[i] = t[i + 1]
  BY <1>1, <1>3 DEF Range
<1>5. IsInjective(t)
  <2> SUFFICES ASSUME NEW a \in DOMAIN t, NEW b \in DOMAIN t, t[a] = t[b]
               PROVE  a = b
    BY DEF IsInjective
  <2>1. CASE a = 1 \/ b = 1
    BY <1>1, <1>2, <1>3, <1>4, <2>1
  <2>2. CASE a # 1 /\ b # 1
    <3>1. a - 1 \in DOMAIN s /\ b - 1 \in DOMAIN s /\ s[a - 1] = s[b - 1]
      BY <1>1, <1>2, <1>3, <2>2
    <3>2. a - 1 = b - 1
      BY <3>1 DEF IsInjective
    <3> QED BY <1>1, <1>2, <2>2, <3>2
  <2> QED BY <2>1, <2>2
<1>6. Range(t) = Range(s) \cup {r}
  <2>1. ASSUME NEW x \in Range(t) PROVE x \in Range(s) \cup {r}
    <3>1. PICK i \in 1..(Len(s) + 1) : x = t[i]
      BY <1>2, <2>1 DEF Range
    <3>2. CASE i = 1
      BY <1>3, <3>1, <3>2
    <3>3. CASE i # 1
      <4>1. i - 1 \in 1..Len(s) /\ i \in 2..(Len(s) + 1)
        BY <1>1, <3>1, <3>3
      <4> QED BY <1>3, <1>4, <3>1, <4>1
    <3> QED BY <3>2, <3>3
  <2>2. ASSUME NEW x \in Range(s) PROVE x \in Range(t)
    <3>1. PICK i \in 1..Len(s) : x = s[i]
      BY <1>1, <2>2 DEF Range
    <3>2. i + 1 \in DOMAIN t /\ t[i + 1] = x
      BY <1>1, <1>2, <1>4, <3>1
    <3> QED BY <3>2 DEF Range
  <2>3. r \in Range(t)
    BY <1>1, <1>2, <1>3 DEF Range
  <2> QED BY <2>1, <2>2, <2>3
<1> QED BY <1>2, <1>5, <1>6

-----------------------------------------------------------------------------
(* Only the newest element of the list can be without a live node: the     *)
(* search for the next root would fault before anything is put in front.   *)
OnlyHeadDead == \A i \in 2..Len(roots) : entry[roots[i]] = "live"

(* The loop of the session only ends between commands, and only exit in    *)
(* the CONFIG mode looks for changes.                                      *)
QuietClose ==
  /\ session = "closing" => at_root = 0
  /\ session = "leaving" => mode = MODE_CONFIG

(* The inductive invariant, also when sysrepo refuses to discard.          *)
(* ModeIsTop and TypeOK are there for what a root command finds after the  *)
(* lookup left a submode, OnlyHeadDead for the elements its search did not *)
(* reach, PointerExact for the node an exit goes up to, and                *)
(* SubmodeTreesLive for the commit that a refused discard must not meet.   *)
FInv ==
  /\ TypeOK
  /\ OnlyHeadDead
  /\ QuietClose
  /\ ModeIsTop
  /\ SubmodeTreesLive
  /\ PointerExact
  /\ FailedDiscardContained

(* What the invariant is when sysrepo does not refuse: no submode has a    *)
(* parent_data that was freed.                                             *)
IInv ==
  /\ FInv
  /\ SubmodeSync
  /\ FaultOnlyAtTop

(* The modes of nodes are none of the fixed ones.                          *)
LEMMA ModesApart ==
  /\ \A n \in Nodes : ModeOf[n] \in Modes
  /\ \A m \in Modes : m \in Int /\ m # MODE_EXEC /\ m # MODE_CONFIG
BY ModeAssumption DEF Modes

LEMMA InitInvariant == Init => IInv
<1> SUFFICES ASSUME Init PROVE IInv
  OBVIOUS
<1>1. TypeOK
  <2>1. IsTree(cand) /\ IsTree(running)
    BY NoDataTree DEF Init
  <2>2. \A r \in Roots : r \in Nodes
    BY DEF Roots
  <2>3. roots \in Seq(Roots) /\ IsInjective(roots) /\ stack \in Seq(Modes) /\ Len(roots) = 0
    BY DEF Init, IsInjective
  <2>4. \A r \in Roots : cand[r] # Absent <=> entry[r] = "live"
    BY <2>2 DEF Init, NoData
  <2> QED BY <2>1, <2>2, <2>3, <2>4 DEF Init, TypeOK
<1>2. ~InSubmode /\ stack = <<>> /\ parent_data \notin Nodes
  BY ValueAssumption DEF Init, InSubmode
<1>3. OnlyHeadDead /\ QuietClose
  BY DEF Init, OnlyHeadDead, QuietClose
<1> QED BY <1>1, <1>2, <1>3 DEF IInv, FInv, SubmodeSync, ModeIsTop, SubmodeTreesLive,
                                PointerExact, FaultOnlyAtTop, FailedDiscardContained

(* A fault changes nothing but the session.                                *)
LEMMA FaultInvariant ==
  ASSUME FInv, Fault
  PROVE  FInv'
<1>1. TypeOK'
  BY DEF FInv, TypeOK, Fault, Loaded
<1>2. ModeIsTop'
  BY DEF FInv, ModeIsTop, Fault, InSubmode
<1>3. PointerExact'
  BY DEF FInv, PointerExact, Fault
<1>4. OnlyHeadDead' /\ QuietClose'
  BY DEF FInv, OnlyHeadDead, QuietClose, Fault
<1>5. ~Alive'
  BY DEF Fault, Alive
<1> QED BY <1>1, <1>2, <1>3, <1>4, <1>5 DEF FInv, SubmodeTreesLive, FailedDiscardContained

-----------------------------------------------------------------------------
(* A command of a submode finds parent_data where it expects it.           *)

LEMMA FrontAndLast ==
  ASSUME NEW n \in Nodes, Len(n) > 1
  PROVE  Append(Front(n), Last(n)) = n /\ Last(n) \in Names
<1>1. n \in Seq(Names) /\ Len(n) \in Nat
  BY NodeLength
<1> QED BY <1>1 DEF Front, Last

LEMMA SubmodeTrees ==
  ASSUME FInv, Alive, InSubmode
  PROVE  /\ \A r \in Range(roots) : entry[r] = "live"
         /\ ~SomeFreed
         /\ parent_data \in (Nodes \ KeyOnly) \cup {Freed}
BY ValueAssumption DEF FInv, TypeOK, FailedDiscardContained, SubmodeTreesLive, SomeFreed

LEMMA SubmodeFacts ==
  ASSUME FInv, Alive, InSubmode, parent_data # Freed
  PROVE  /\ parent_data \in Nodes \ KeyOnly
         /\ cand[parent_data] # Absent
         /\ stack = ModePath(parent_data)
         /\ mode = ModeOf[parent_data]
<1>1. /\ parent_data \in Nodes \ KeyOnly
      /\ cand[parent_data] # Absent
      /\ stack = ModePath(parent_data)
  BY SubmodeTrees DEF FInv, FailedDiscardContained
<1>2. Last(stack) = mode
  BY DEF FInv, ModeIsTop
<1> QED BY <1>1, <1>2, ModePathLast

(* A list command is only offered where parent_data is the node above the  *)
(* list, unless it was freed.                                              *)
LEMMA ListResolves ==
  ASSUME FInv, Ready, NEW e \in Names, ListOffered(e)
  PROVE  /\ InSubmode /\ Alive
         /\ parent_data # Freed <=> Resolves(e)
<1>1. PICK n \in Nodes : Len(n) > 1 /\ Last(n) = e /\ ModeOf[Front(n)] = mode
  BY DEF ListOffered
<1>2. Front(n) \in Nodes /\ Append(Front(n), e) \in Nodes
  BY <1>1, FrontOfNode, FrontAndLast
<1>3. InSubmode /\ Alive
  BY <1>1, <1>2, ModesApart DEF InSubmode, Ready, Alive
<1>4. ASSUME parent_data # Freed
      PROVE  Append(parent_data, e) \in Nodes /\ parent_data \in Nodes
  <2>1. parent_data \in Nodes /\ ModeOf[parent_data] = ModeOf[Front(n)]
    BY <1>1, <1>3, <1>4, SubmodeFacts
  <2> QED BY <1>2, <2>1, ModeAssumption
<1> QED BY <1>3, <1>4, ValueAssumption DEF Resolves

LEMMA LeafResolves ==
  ASSUME FInv, Ready, LeafOffered
  PROVE  /\ InSubmode /\ Alive
         /\ parent_data # Freed <=> parent_data \in Nodes
         /\ parent_data # Freed => parent_data \in Nodes \ KeyOnly
<1>1. InSubmode /\ Alive
  BY ModesApart DEF LeafOffered, InSubmode, Ready, Alive
<1> QED BY <1>1, SubmodeFacts, ValueAssumption

(* Deleting below parent_data.                                             *)
LEMMA PruneInvariant ==
  ASSUME FInv, Alive, InSubmode, NEW e \in Names, Resolves(e),
         cand' = Prune(cand, Append(parent_data, e)),
         UNCHANGED <<mode, stack, privilege, roots, entry, parent_data, running,
                     at_root, session>>
  PROVE  FInv'
<1> DEFINE c == Append(parent_data, e)
<1>1. parent_data \in Nodes \ KeyOnly /\ c \in Nodes /\ cand[parent_data] # Absent
  BY SubmodeFacts, ValueAssumption DEF Resolves
<1>2. ~IsPrefix(c, parent_data) /\ \A r \in Roots : ~IsPrefix(c, r)
  BY <1>1, ChildNotAbove
<1>3. IsTree(cand')
  BY <1>1, PruneTree DEF FInv, TypeOK
<1>4. cand'[parent_data] = cand[parent_data]
  BY <1>1, <1>2 DEF Prune
<1>5. \A r \in Roots : cand'[r] = cand[r]
  BY <1>2 DEF Prune, Roots
<1>6. TypeOK'
  BY <1>3, <1>5 DEF FInv, TypeOK, Loaded
<1>7. FailedDiscardContained' /\ PointerExact'
  BY <1>1, <1>4, SubmodeFacts, ValueAssumption DEF FailedDiscardContained, PointerExact, ModePath
<1>8. ModeIsTop' /\ SubmodeTreesLive'
  BY DEF FInv, ModeIsTop, SubmodeTreesLive, InSubmode, Alive
<1>9. OnlyHeadDead' /\ QuietClose'
  BY DEF FInv, OnlyHeadDead, QuietClose
<1> QED BY <1>6, <1>7, <1>8, <1>9 DEF FInv

LEMMA ListEntryMisplacedInvariant ==
  ASSUME FInv, NEW e \in Names, ListEntryMisplaced(e)
  PROVE  FInv'
BY ListResolves, PruneInvariant DEF ListEntryMisplaced, Ready, Alive, cliVars

LEMMA NoListEntryInvariant ==
  ASSUME FInv, NEW e \in Names, NoListEntry(e)
  PROVE  FInv'
<1>1. CASE Fault
  BY <1>1, FaultInvariant
<1>2. CASE ~Fault
  BY <1>2, ListResolves, PruneInvariant DEF NoListEntry, Ready, Alive, cliVars
<1> QED BY <1>1, <1>2

(* The entry is there, also when it is not entered because it has keys     *)
(* only.                                                                   *)
LEMMA ListEntryDown ==
  ASSUME FInv, NEW e \in Names, ListEntry(e), Resolves(e)
  PROVE  FInv'
<1> DEFINE c == Append(parent_data, e)
<1>1. InSubmode /\ Resolves(e) /\ Alive /\ parent_data # Freed
  BY ListResolves, ValueAssumption DEF ListEntry, Resolves
<1>2. /\ cand' = Touch(cand, c)
      /\ UNCHANGED <<privilege, roots, entry, running, at_root, session>>
      /\ IF c \in KeyOnly THEN UNCHANGED <<mode, stack, parent_data>>
         ELSE parent_data' = c /\ PushConfigmode(stack, ModeOf[c])
  BY <1>1 DEF ListEntry, Fault, Ready
<1>3. parent_data \in Nodes \ KeyOnly /\ c \in Nodes /\ cand[parent_data] # Absent
      /\ stack = ModePath(parent_data)
  BY <1>1, SubmodeFacts DEF Resolves
<1>4. Front(c) = parent_data /\ c \notin Roots
  BY <1>3, FrontOfChild, ChildNotAbove
<1>5. IsTree(cand')
  BY <1>2, <1>3, <1>4, TouchTree DEF FInv, TypeOK
<1>6. cand'[c] # Absent /\ \A n \in Nodes \ {c} : cand'[n] = cand[n]
  BY <1>2, <1>3, ValueAssumption, TreeParts DEF Touch, FInv, TypeOK
<1>7. \A r \in Roots : cand'[r] = cand[r]
  BY <1>4, <1>6 DEF Roots
<1>8. cand'[parent_data] # Absent
  BY <1>3, <1>6
<1>9. OnlyHeadDead' /\ QuietClose'
  BY <1>2 DEF FInv, OnlyHeadDead, QuietClose, ListEntry, Ready
<1>10. CASE c \in KeyOnly
  <2>1. TypeOK'
    BY <1>2, <1>5, <1>7, <1>10 DEF FInv, TypeOK, Loaded
  <2> QED BY <1>1, <1>2, <1>3, <1>8, <1>9, <1>10, <2>1
          DEF FInv, FailedDiscardContained, ModeIsTop, SubmodeTreesLive, PointerExact,
              InSubmode, Alive, ModePath
<1>11. CASE c \notin KeyOnly
  <2>1. ModeOf[c] \in Modes /\ ModeOf[c] \notin {MODE_EXEC, MODE_CONFIG}
    BY <1>3, ModesApart
  <2>2. parent_data' = c /\ mode' = ModeOf[c] /\ stack' = Append(stack, ModeOf[c])
    BY <1>2, <1>11, <2>1 DEF PushConfigmode, StackAfterSet
  <2>3. stack' = ModePath(c)
    BY <1>3, <2>2, ModePathDown
  <2>4. stack \in Seq(Modes)
    BY DEF FInv, TypeOK
  <2>5. stack' \in Seq(Modes) /\ stack' # <<>> /\ Last(stack') = mode'
    BY <1>3, <2>2, <2>3, ModePathLast, ModePathSeq
  <2>6. TypeOK'
    BY <1>2, <1>3, <1>5, <1>7, <1>11, <2>1, <2>2, <2>5 DEF FInv, TypeOK, Loaded
  <2>7. FailedDiscardContained' /\ PointerExact'
    BY <1>3, <1>6, <2>2, <2>3 DEF FailedDiscardContained, PointerExact, ModePath
  <2>8. ModeIsTop'
    BY <2>1, <2>2, <2>5 DEF ModeIsTop, InSubmode
  <2>9. SubmodeTreesLive'
    BY <1>1, <1>2 DEF FInv, SubmodeTreesLive, Alive, InSubmode
  <2> QED BY <1>9, <2>6, <2>7, <2>8, <2>9 DEF FInv
<1> QED BY <1>10, <1>11

LEMMA ListEntryInvariant ==
  ASSUME FInv, NEW e \in Names, ListEntry(e)
  PROVE  FInv'
BY FaultInvariant, ListEntryDown DEF ListEntry

LEMMA LeafSet ==
  ASSUME FInv, NEW v \in Values, Leaf(v), parent_data \in Nodes
  PROVE  FInv'
<1>1. InSubmode /\ parent_data \in Nodes \ KeyOnly /\ Alive
  BY LeafResolves, ValueAssumption DEF Leaf
<1>0. parent_data # Freed
  BY ValueAssumption
<1>2. /\ cand' = [cand EXCEPT ![parent_data] = v]
      /\ UNCHANGED <<mode, stack, privilege, roots, entry, parent_data, running,
                     at_root, session>>
  BY <1>1 DEF Leaf, cliVars
<1>3. IsTree(cand) /\ cand[parent_data] # Absent /\ v # Absent
  BY <1>0, <1>1, SubmodeFacts, ValueAssumption DEF FInv, TypeOK
<1>4. parent_data \in Roots \/ cand[Front(parent_data)] # Absent
  <2> SUFFICES ASSUME parent_data \notin Roots
               PROVE  cand[Front(parent_data)] # Absent
    OBVIOUS
  <2>1. Len(parent_data) > 1
    BY <1>1, NodeLength
  <2>2. \A n \in Nodes : Len(n) > 1 /\ cand[n] # Absent => cand[Front(n)] # Absent
    BY <1>3, TreeParts
  <2> QED BY <1>1, <1>3, <2>1, <2>2
<1>5. IsTree(cand')
  BY <1>1, <1>2, <1>3, <1>4, SetTree
<1>6. \A n \in Nodes : cand'[n] # Absent <=> cand[n] # Absent
  BY <1>1, <1>2, <1>3, TreeParts
<1>7. TypeOK'
  BY <1>2, <1>5, <1>6 DEF FInv, TypeOK, Loaded, Roots
<1>8. OnlyHeadDead' /\ QuietClose'
  BY <1>2 DEF FInv, OnlyHeadDead, QuietClose
<1> QED BY <1>0, <1>1, <1>2, <1>6, <1>7, <1>8
        DEF FInv, FailedDiscardContained, ModeIsTop, SubmodeTreesLive, PointerExact,
            InSubmode, Alive, ModePath

LEMMA LeafInvariant ==
  ASSUME FInv, NEW v \in Values, Leaf(v)
  PROVE  FInv'
BY FaultInvariant, LeafSet DEF Leaf

-----------------------------------------------------------------------------
(* Steps that end in one of the fixed modes.                               *)

LEMMA FixedModes ==
  ASSUME NEW s, NEW m \in {MODE_EXEC, MODE_CONFIG}, SetConfigmode(s, m)
  PROVE  mode' = m /\ stack' = <<>> /\ ~InSubmode'
BY DEF SetConfigmode, StackAfterSet, InSubmode

(* The candidate stays as it is; parent_data may be reset.                 *)
LEMMA ToTopInvariant ==
  ASSUME FInv, UNCHANGED <<roots, entry, cand, running, at_root>>,
         privilege' \in {"unprivileged", "privileged"},
         session' \in {"open", "closing", "closed", "faulted"},
         session' = "closing" => at_root = 0,
         mode' \in {MODE_EXEC, MODE_CONFIG}, stack' = <<>>,
         parent_data' = parent_data \/ parent_data' = NULL
  PROVE  FInv'
<1>1. ~InSubmode'
  BY DEF InSubmode
<1>2. TypeOK'
  <2>1. stack' \in Seq(Modes)
    OBVIOUS
  <2> QED BY <2>1 DEF FInv, TypeOK, Loaded
<1>3. PointerExact'
  BY ValueAssumption DEF FInv, PointerExact
<1>4. OnlyHeadDead' /\ QuietClose'
  BY DEF FInv, OnlyHeadDead, QuietClose
<1> QED BY <1>1, <1>2, <1>3, <1>4 DEF FInv, FailedDiscardContained, ModeIsTop,
                                      SubmodeTreesLive

(* No list element is left, and no node to point to.                       *)
LEMMA FreedTrees ==
  ASSUME FInv, FreeDataTreeAll, at_root = 0, at_root' = 0, session' # "leaving"
  PROVE  /\ (roots \in Seq(Roots) /\ IsInjective(roots))'
         /\ (entry \in [Roots -> {"null", "live", "freed"}])'
         /\ (IsTree(cand))'
         /\ (\A r \in Roots : cand[r] # Absent <=> entry[r] = "live")'
         /\ (\A r \in Roots : entry[r] # "null" => Loaded(r))'
         /\ (parent_data \in (Nodes \ KeyOnly) \cup {NULL, Freed})'
         /\ (at_root \in 0..Len(roots))'
         /\ PointerExact' /\ OnlyHeadDead' /\ QuietClose' /\ roots' = <<>>
<1>1. roots' = <<>> /\ entry' = [r \in Roots |-> "null"] /\ cand' = NoData
      /\ parent_data' \in {NULL, Freed}
  BY DEF FreeDataTreeAll
<1>2. Len(roots') = 0 /\ (roots' \in Seq(Roots)) /\ IsInjective(roots')
  BY <1>1 DEF IsInjective
<1>3. \A r \in Roots : cand'[r] = Absent /\ entry'[r] = "null"
  BY <1>1 DEF NoData, Roots
<1>4. PointerExact' /\ OnlyHeadDead' /\ QuietClose'
  BY <1>1, <1>2, ValueAssumption DEF PointerExact, OnlyHeadDead, QuietClose
<1> QED BY <1>1, <1>2, <1>3, <1>4, NoDataTree

LEMMA FreeToTopInvariant ==
  ASSUME FInv, FreeDataTreeAll, at_root = 0, UNCHANGED <<privilege, running, at_root>>,
         session' = "open", mode' \in {MODE_EXEC, MODE_CONFIG}, stack' = <<>>
  PROVE  FInv'
<1>1. at_root = 0 /\ at_root' = 0 /\ session' = "open"
  OBVIOUS
<1>2. ~InSubmode'
  BY DEF InSubmode
<1>3. TypeOK'
  <2>1. stack' \in Seq(Modes)
    OBVIOUS
  <2> QED BY <1>1, <2>1, FreedTrees DEF FInv, TypeOK
<1> QED BY <1>1, <1>2, <1>3, FreedTrees DEF FInv, FailedDiscardContained, ModeIsTop,
                                SubmodeTreesLive

-----------------------------------------------------------------------------
(* Root containers.                                                        *)

LEMMA LookupStack ==
  ASSUME FInv
  PROVE  StackAfterLookup = <<>>
BY DEF FInv, ModeIsTop, StackAfterLookup, InSubmode

LEMMA RootFaultsInvariant ==
  ASSUME FInv, NEW r \in Roots, RootFaults(r), Ready,
         UNCHANGED <<privilege, running, at_root>>
  PROVE  FInv'
<1>1. mode' = MODE_CONFIG /\ stack' = <<>>
  BY FixedModes DEF RootFaults
<1> QED BY <1>1, ToTopInvariant DEF RootFaults, dataVars, FInv, TypeOK

(* A search that does not fault finds every element live: the one it could *)
(* have stopped before is the head.                                        *)
LEMMA AllLive ==
  ASSUME FInv, NEW r \in Roots, ~SearchFaults(r)
  PROVE  \A q \in Range(roots) : entry[q] = "live"
<1>1. roots \in Seq(Roots) /\ Len(roots) \in Nat /\ DOMAIN roots = 1..Len(roots)
  BY DEF FInv, TypeOK
<1> SUFFICES ASSUME NEW i \in 1..Len(roots)
             PROVE  entry[roots[i]] = "live"
  BY <1>1 DEF Range
<1>2. CASE i = 1
  <2>1. \A j \in 1..(i - 1) : roots[j] # r
    BY <1>2
  <2> QED BY <1>1, <2>1 DEF SearchFaults
<1>3. CASE i # 1
  BY <1>1, <1>3 DEF FInv, OnlyHeadDead
<1> QED BY <1>2, <1>3

(* The list after an element was put in front of it.                       *)
LEMMA NewElementTypes ==
  ASSUME FInv, NEW r \in Roots, NEW e \in {"null", "live", "freed"},
         \A q \in Range(roots) : entry[q] = "live",
         NewElement(r, e), IsTree(cand'),
         cand'[r] # Absent <=> e = "live",
         \A q \in Roots \ {r} : cand'[q] = cand[q]
  PROVE  /\ (roots \in Seq(Roots) /\ IsInjective(roots))'
         /\ (entry \in [Roots -> {"null", "live", "freed"}])'
         /\ (\A q \in Roots : cand[q] # Absent <=> entry[q] = "live")'
         /\ (\A q \in Roots : entry[q] # "null" => Loaded(q))'
         /\ OnlyHeadDead'
         /\ e = "live" => \A q \in Range(roots') : entry'[q] = "live"
         /\ Len(roots') \in Nat
<1>1. /\ roots \in Seq(Roots) /\ IsInjective(roots) /\ r \notin Range(roots)
      /\ roots' = <<r>> \o roots /\ entry' = [entry EXCEPT ![r] = e]
      /\ entry \in [Roots -> {"null", "live", "freed"}]
  BY DEF FInv, TypeOK, NewElement, Loaded
<1>2. /\ roots' \in Seq(Roots) /\ IsInjective(roots')
      /\ Range(roots') = Range(roots) \cup {r}
      /\ Len(roots') = Len(roots) + 1 /\ Len(roots) \in Nat
  BY <1>1, PushRoot
<1>3. entry' \in [Roots -> {"null", "live", "freed"}] /\ entry'[r] = e
      /\ \A q \in Roots \ {r} : entry'[q] = entry[q]
  BY <1>1
<1>4. \A q \in Roots : cand'[q] # Absent <=> entry'[q] = "live"
  BY <1>3 DEF FInv, TypeOK
<1>5. \A q \in Roots : entry'[q] # "null" => q \in Range(roots')
  BY <1>2, <1>3 DEF FInv, TypeOK, Loaded
<1>6. OnlyHeadDead'
  <2> SUFFICES ASSUME NEW i \in 2..Len(roots')
               PROVE  entry'[roots'[i]] = "live"
    BY DEF OnlyHeadDead
  <2>1. roots'[i] = roots[i - 1] /\ i - 1 \in 1..Len(roots)
    BY <1>1, <1>2
  <2>2. roots[i - 1] \in Range(roots) /\ roots[i - 1] \in Roots
    BY <1>1, <2>1, RangeOfRoots
  <2> QED BY <1>1, <1>3, <2>1, <2>2
<1>7. e = "live" => \A q \in Range(roots') : entry'[q] = "live"
  BY <1>1, <1>2, <1>3, RangeOfRoots
<1>8. \A q \in Roots : (entry[q] # "null" => Loaded(q))'
  BY <1>5 DEF Loaded
<1> QED BY <1>2, <1>3, <1>4, <1>6, <1>7, <1>8

(* The parts of the invariant that the edit of a root can disturb.         *)
RootStepTypes ==
  /\ roots \in Seq(Roots) /\ IsInjective(roots)
  /\ entry \in [Roots -> {"null", "live", "freed"}]
  /\ IsTree(cand)
  /\ \A q \in Roots : cand[q] # Absent <=> entry[q] = "live"
  /\ \A q \in Roots : entry[q] # "null" => Loaded(q)
  /\ parent_data \in (Nodes \ KeyOnly) \cup {NULL, Freed}
  /\ PointerExact
  /\ OnlyHeadDead
  /\ Len(roots) \in Nat

LEMMA RootIsNode ==
  ASSUME NEW r \in Roots
  PROVE  r \in Nodes \ KeyOnly
BY NodesAssumption DEF Roots

LEMMA FoundRootStep ==
  ASSUME FInv, NEW r \in Roots, \A q \in Range(roots) : entry[q] = "live",
         FoundRoot(r)
  PROVE  /\ RootStepTypes'
         /\ parent_data' = r /\ cand'[r] # Absent
         /\ \A q \in Range(roots') : entry'[q] = "live"
<1>1. entry[r] = "live" /\ cand[r] # Absent /\ r \in Nodes \ KeyOnly
  BY RootIsNode DEF FoundRoot, Loaded, FInv, TypeOK
<1>2. Len(roots) \in Nat
  BY DEF FInv, TypeOK
<1> QED BY <1>1, <1>2 DEF FoundRoot, RootStepTypes, FInv, TypeOK, Loaded,
                          PointerExact, OnlyHeadDead

LEMMA SnapshotRootStep ==
  ASSUME FInv, NEW r \in Roots, \A q \in Range(roots) : entry[q] = "live",
         SnapshotRoot(r)
  PROVE  /\ RootStepTypes'
         /\ parent_data' = r /\ cand'[r] # Absent
         /\ \A q \in Range(roots') : entry'[q] = "live"
<1>1. /\ cand' = Graft(cand, running, r) /\ parent_data' = r
      /\ running[r] # Absent /\ NewElement(r, "live")
      /\ r \in Nodes \ KeyOnly
  BY RootIsNode DEF SnapshotRoot
<1>2. IsTree(cand')
  BY <1>1, GraftTree DEF FInv, TypeOK
<1>3. cand'[r] # Absent /\ \A q \in Roots \ {r} : cand'[q] = cand[q]
  BY <1>1, AboveRoot DEF Graft, Roots
<1>4. PointerExact'
  BY <1>1, <1>3 DEF PointerExact
<1> QED BY <1>1, <1>2, <1>3, <1>4, NewElementTypes DEF RootStepTypes

LEMMA CreateRootStep ==
  ASSUME FInv, NEW r \in Roots, \A q \in Range(roots) : entry[q] = "live",
         CreateRoot(r)
  PROVE  /\ RootStepTypes'
         /\ parent_data' = r /\ cand'[r] # Absent
         /\ \A q \in Range(roots') : entry'[q] = "live"
<1>1. /\ cand' = [cand EXCEPT ![r] = Blank] /\ parent_data' = r
      /\ NewElement(r, "live") /\ r \in Nodes \ KeyOnly
  BY RootIsNode DEF CreateRoot
<1>2. IsTree(cand')
  BY <1>1, SetTree, ValueAssumption DEF FInv, TypeOK
<1>3. cand'[r] # Absent /\ \A q \in Roots \ {r} : cand'[q] = cand[q]
  BY <1>1, ValueAssumption, TreeParts DEF FInv, TypeOK, Roots
<1>4. PointerExact'
  BY <1>1, <1>3 DEF PointerExact
<1> QED BY <1>1, <1>2, <1>3, <1>4, NewElementTypes DEF RootStepTypes

(* The two deletions of a root that leave an element without a live node.  *)
LEMMA DeadRootStep ==
  ASSUME FInv, NEW r \in Roots, \A q \in Range(roots) : entry[q] = "live",
         FreeSnapshot(r) \/ CreateAndFreeRoot(r)
  PROVE  RootStepTypes'
<1>1. PICK e \in {"null", "freed"} : NewElement(r, e)
  BY DEF FreeSnapshot, CreateAndFreeRoot
<1>2. cand' = cand /\ parent_data' \in {NULL, Freed}
  BY DEF FreeSnapshot, CreateAndFreeRoot
<1>3. cand[r] = Absent
  BY <1>1 DEF NewElement, FInv, TypeOK
<1>4. IsTree(cand') /\ e \in {"null", "live", "freed"} /\ e # "live"
  BY <1>1, <1>2 DEF FInv, TypeOK
<1>5. PointerExact'
  BY <1>2, ValueAssumption DEF PointerExact
<1> QED BY <1>1, <1>2, <1>3, <1>4, <1>5, NewElementTypes DEF RootStepTypes

LEMMA RootContainerInvariant ==
  ASSUME FInv, NEW r \in Roots, RootContainer(r)
  PROVE  FInv'
<1>1. CASE RootFaults(r)
  BY <1>1, RootFaultsInvariant DEF RootContainer
<1>2. CASE ~RootFaults(r)
  <2>1. /\ AddRoot(r) /\ PushConfigmode(<<>>, ModeOf[r])
        /\ \A q \in Range(roots) : entry[q] = "live"
        /\ at_root' = 0 /\ session' = "open" /\ running' = running
        /\ privilege' = privilege
    BY <1>2, AllLive, LookupStack DEF RootContainer, Ready
  <2>2. /\ RootStepTypes'
        /\ parent_data' = r /\ cand'[r] # Absent
        /\ \A q \in Range(roots') : entry'[q] = "live"
    BY <2>1, FoundRootStep, SnapshotRootStep, CreateRootStep DEF AddRoot
  <2>3. r \in Nodes /\ ModeOf[r] \in Modes /\ ModeOf[r] \notin {MODE_EXEC, MODE_CONFIG}
    BY RootIsNode, ModesApart
  <2>4. mode' = ModeOf[r] /\ stack' = ModePath(r)
    BY <2>1, <2>3, ModePathOfRoot DEF PushConfigmode, StackAfterSet
  <2>5. stack' \in Seq(Modes) /\ stack' # <<>> /\ Last(stack') = mode'
    BY <2>3, <2>4, ModePathSeq, ModePathLast
  <2>6. TypeOK'
    BY <2>1, <2>2, <2>3, <2>4, <2>5 DEF RootStepTypes, TypeOK, FInv
  <2>7. FailedDiscardContained' /\ SubmodeTreesLive' /\ QuietClose'
    BY <2>1, <2>2, <2>3, <2>4 DEF FailedDiscardContained, SubmodeTreesLive,
                                  QuietClose, ModePath
  <2>8. ModeIsTop'
    BY <2>3, <2>4, <2>5 DEF ModeIsTop, InSubmode
  <2> QED BY <2>2, <2>6, <2>7, <2>8 DEF FInv, RootStepTypes
<1> QED BY <1>1, <1>2

LEMMA NoRootContainerInvariant ==
  ASSUME FInv, NEW r \in Roots, NoRootContainer(r)
  PROVE  FInv'
<1>1. CASE RootFaults(r)
  BY <1>1, RootFaultsInvariant DEF NoRootContainer
<1>2. CASE ~RootFaults(r)
  <2>1. /\ DeleteRoot(r) /\ SetConfigmode(<<>>, MODE_CONFIG)
        /\ \A q \in Range(roots) : entry[q] = "live"
        /\ at_root' = 0 /\ session' = "open" /\ running' = running
        /\ privilege' = privilege
    BY <1>2, AllLive, LookupStack DEF NoRootContainer, Ready
  <2>2. RootStepTypes'
    BY <2>1, FoundRootStep, SnapshotRootStep, DeadRootStep DEF DeleteRoot
  <2>3. mode' = MODE_CONFIG /\ stack' = <<>> /\ ~InSubmode'
    BY <2>1, FixedModes
  <2>4. stack' \in Seq(Modes)
    BY <2>3
  <2>5. TypeOK'
    BY <2>1, <2>2, <2>3, <2>4 DEF RootStepTypes, TypeOK, FInv
  <2> QED BY <2>1, <2>2, <2>3, <2>5 DEF FInv, RootStepTypes, FailedDiscardContained, ModeIsTop,
                                 SubmodeTreesLive, QuietClose
<1> QED BY <1>1, <1>2

-----------------------------------------------------------------------------
(* commit, the other writers of running, and the end of the process.       *)

LEMMA RunningInvariant ==
  ASSUME FInv, UNCHANGED <<cliVars, dataVars, session>>,
         IsTree(running'), at_root' \in 0..Len(roots),
         session = "closing" => at_root' = 0
  PROVE  FInv'
<1>1. UNCHANGED <<mode, stack, privilege, roots, entry, cand, parent_data, session>>
  BY DEF cliVars, dataVars
<1>2. TypeOK'
  BY <1>1 DEF FInv, TypeOK, Loaded
<1>3. OnlyHeadDead' /\ QuietClose'
  BY <1>1 DEF FInv, OnlyHeadDead, QuietClose
<1> QED BY <1>1, <1>2, <1>3
        DEF FInv, FailedDiscardContained, ModeIsTop, SubmodeTreesLive, PointerExact,
            InSubmode, Alive, ModePath

LEMMA CmdCommitInvariant ==
  ASSUME FInv, CmdCommit
  PROVE  FInv'
<1>1. roots \in Seq(Roots) /\ roots # <<>>
  BY DEF CmdCommit, FInv, TypeOK
<1>2. at_root' \in 0..Len(roots) /\ session = "open"
  BY <1>1 DEF CmdCommit, Ready
<1>3. IsTree(running')
  BY DEF CmdCommit, FInv, TypeOK
<1> QED BY <1>2, <1>3, RunningInvariant DEF CmdCommit

LEMMA CommitRootInvariant ==
  ASSUME FInv, CommitRoot
  PROVE  FInv'
<1> DEFINE r == roots[at_root]
<1>1. /\ session = "open" /\ at_root > 0 /\ at_root \in 1..Len(roots)
      /\ Len(roots) \in Nat
  BY DEF CommitRoot, FInv, TypeOK
<1>2. r \in Range(roots) /\ r \in Roots
  BY <1>1, RangeOfRoots DEF FInv, TypeOK
<1>3. CASE entry[r] = "freed" /\ Fault
  BY <1>3, FaultInvariant
<1>4. CASE /\ SkipRoot(r) \/ ApplyRoot(r) \/ RefuseRoot(r)
           /\ UNCHANGED <<cliVars, dataVars, session>>
  <2>1. at_root' \in 0..Len(roots)
    BY <1>1, <1>4 DEF SkipRoot, ApplyRoot, RefuseRoot, NextElement
  <2>2. IsTree(running')
    BY <1>2, <1>4, GraftTree DEF SkipRoot, ApplyRoot, RefuseRoot, FInv, TypeOK
  <2> QED BY <1>1, <1>4, <2>1, <2>2, RunningInvariant
<1> QED BY <1>3, <1>4 DEF CommitRoot

LEMMA ExternalEditInvariant ==
  ASSUME FInv, ExternalEdit
  PROVE  FInv'
<1>1. IsTree(running')
  <2>1. IsTree(running)
    BY DEF FInv, TypeOK
  <2>2. CASE \E n \in Nodes : running' = Prune(running, n)
    BY <2>1, <2>2, PruneTree
  <2>3. ASSUME NEW n \in Nodes, n \in Roots \/ running[Front(n)] # Absent,
               NEW v \in IF n \in KeyOnly THEN {Blank} ELSE Values,
               running' = [running EXCEPT ![n] = v]
        PROVE  IsTree(running')
    <3>1. v \in Values /\ (n \in KeyOnly => v = Blank)
      BY <2>3, ValueAssumption
    <3> QED BY <2>1, <2>3, <3>1, SetTree
  <2> QED BY <2>2, <2>3 DEF ExternalEdit
<1> QED BY <1>1, RunningInvariant DEF ExternalEdit, FInv, TypeOK, QuietClose

(* The process ends or will end; the candidate is as it was.               *)
LEMMA EndInvariant ==
  ASSUME FInv, Alive, UNCHANGED <<cliVars, dataVars, running, at_root>>,
         session' \in {"closing", "closed"}, session' = "closing" => at_root = 0
  PROVE  FInv'
<1>1. UNCHANGED <<mode, stack, privilege, roots, entry, cand, parent_data>>
  BY DEF cliVars, dataVars
<1>2. TypeOK'
  BY <1>1 DEF FInv, TypeOK, Loaded
<1>3. OnlyHeadDead' /\ QuietClose'
  BY <1>1 DEF FInv, OnlyHeadDead, QuietClose
<1> QED BY <1>1, <1>2, <1>3
        DEF FInv, FailedDiscardContained, ModeIsTop, SubmodeTreesLive, PointerExact,
            InSubmode, Alive, ModePath

LEMMA ShutdownInvariant ==
  ASSUME FInv, Shutdown
  PROVE  FInv'
<1>1. CASE SomeFreed /\ Fault
  BY <1>1, FaultInvariant
<1>2. CASE FreeDataTreeAll /\ session' = "closed" /\ UNCHANGED <<cliVars, running, at_root>>
  <2>1. at_root = 0 /\ at_root' = 0
    BY <1>2 DEF Shutdown, FInv, QuietClose
  <2>2. UNCHANGED <<mode, stack, privilege, running>>
    BY <1>2 DEF cliVars
  <2>3. TypeOK'
    BY <1>2, <2>1, <2>2, FreedTrees DEF FInv, TypeOK
  <2>4. PointerExact' /\ OnlyHeadDead' /\ QuietClose'
    BY <1>2, <2>1, FreedTrees
  <2> QED BY <1>2, <2>2, <2>3, <2>4 DEF FInv, FailedDiscardContained, ModeIsTop,
             SubmodeTreesLive, InSubmode, Alive
<1> QED BY <1>1, <1>2 DEF Shutdown

LEMMA StartInvariant ==
  ASSUME FInv, Start
  PROVE  FInv'
<1>1. roots' = <<>> /\ Len(roots') = 0 /\ IsInjective(roots') /\ stack' \in Seq(Modes)
      /\ roots' \in Seq(Roots)
  BY DEF Start, IsInjective
<1>2. \A r \in Roots : cand'[r] = Absent /\ entry'[r] = "null"
  BY DEF Start, NoData, Roots
<1>3. TypeOK'
  BY <1>1, <1>2, NoDataTree DEF Start, FInv, TypeOK
<1>4. PointerExact' /\ OnlyHeadDead' /\ QuietClose' /\ ~InSubmode'
  BY <1>1, ValueAssumption DEF Start, PointerExact, OnlyHeadDead, QuietClose, InSubmode
<1> QED BY <1>3, <1>4 DEF FInv, Start, FailedDiscardContained, ModeIsTop, SubmodeTreesLive

-----------------------------------------------------------------------------
(* The commands that leave modes.                                          *)

(* sysrepo refuses to discard: the submode stays, with no list element and *)
(* a freed parent_data.                                                    *)
LEMMA DiscardRefused ==
  ASSUME FInv, Ready, FreeDataTreeAll,
         UNCHANGED <<mode, stack, privilege, running, at_root, session>>
  PROVE  FInv'
<1>1. at_root = 0 /\ at_root' = 0 /\ session' = "open"
  BY DEF Ready
<1>2. TypeOK'
  BY <1>1, FreedTrees DEF FInv, TypeOK
<1>3. OnlyHeadDead' /\ QuietClose' /\ PointerExact' /\ roots' = <<>>
  BY <1>1, FreedTrees
<1>4. ModeIsTop'
  BY DEF FInv, ModeIsTop, InSubmode
<1>5. SubmodeTreesLive'
  <2>1. Range(roots') = {}
    BY <1>3 DEF Range
  <2> QED BY <2>1 DEF SubmodeTreesLive
<1>6. FailedDiscardContained'
  <2>1. ASSUME InSubmode PROVE parent_data # NULL
    BY <2>1, SubmodeTrees, ValueAssumption DEF Ready, Alive
  <2>2. InSubmode => parent_data' = Freed
    BY <2>1 DEF FreeDataTreeAll
  <2> QED BY <1>1, <1>3, <2>2 DEF FailedDiscardContained, InSubmode
<1> QED BY <1>2, <1>3, <1>4, <1>5, <1>6 DEF FInv

LEMMA CmdDiscardChangesInvariant ==
  ASSUME FInv, CmdDiscardChanges
  PROVE  FInv'
<1>1. CASE Fault
  BY <1>1, FaultInvariant
<1>2. CASE ~Fault
  <2>1. /\ Ready /\ FreeDataTreeAll
        /\ SetConfigmode(stack, MODE_CONFIG) \/ UNCHANGED <<mode, stack>>
        /\ UNCHANGED <<privilege, running, at_root, session>>
    BY <1>2 DEF CmdDiscardChanges
  <2>2. CASE SetConfigmode(stack, MODE_CONFIG)
    <3>1. mode' = MODE_CONFIG /\ stack' = <<>>
      BY <2>2, FixedModes
    <3> QED BY <2>1, <3>1, FreeToTopInvariant DEF Ready
  <2>3. CASE UNCHANGED <<mode, stack>>
    BY <2>1, <2>3, DiscardRefused
  <2> QED BY <2>1, <2>2, <2>3
<1> QED BY <1>1, <1>2

(* exit in the CONFIG mode leads to EXEC.                                  *)
LEMMA CliExitTop ==
  ASSUME FInv, mode = MODE_CONFIG, CliExit
  PROVE  mode' = MODE_EXEC /\ stack' = <<>> /\ ~InSubmode'
<1>1. stack = <<>> /\ Len(stack) = 0
  BY DEF FInv, ModeIsTop, InSubmode
<1>2. SetConfigmode(<<>>, MODE_EXEC)
  BY <1>1 DEF CliExit
<1> QED BY <1>2, FixedModes

(* exit goes over the candidate and leaves everything as it is.            *)
LEMMA ExitWalkInvariant ==
  ASSUME FInv, mode = MODE_CONFIG, UNCHANGED <<cliVars, dataVars, running>>,
         at_root' \in 0..Len(roots), session' \in {"open", "leaving"}
  PROVE  FInv'
<1>1. UNCHANGED <<mode, stack, privilege, roots, entry, cand, parent_data, running>>
  BY DEF cliVars, dataVars
<1>2. TypeOK'
  BY <1>1 DEF FInv, TypeOK, Loaded
<1>3. OnlyHeadDead' /\ QuietClose' /\ ModeIsTop' /\ PointerExact' /\ ~InSubmode'
  BY <1>1 DEF FInv, OnlyHeadDead, QuietClose, ModeIsTop, PointerExact, InSubmode
<1> QED BY <1>2, <1>3 DEF FInv, SubmodeTreesLive, FailedDiscardContained

LEMMA ExitConfigInvariant ==
  ASSUME FInv, ExitConfig
  PROVE  FInv'
<1>1. /\ mode = MODE_CONFIG /\ Ready
      /\ UNCHANGED <<privilege, roots, entry, cand, parent_data, running>>
  BY DEF ExitConfig, dataVars
<1>2. CASE roots = <<>>
  <2>1. CliExit /\ at_root' = at_root /\ session' = "open"
    BY <1>1, <1>2 DEF ExitConfig, Ready
  <2>2. mode' = MODE_EXEC /\ stack' = <<>>
    BY <1>1, <2>1, CliExitTop
  <2> QED BY <1>1, <2>1, <2>2, ToTopInvariant DEF FInv, TypeOK
<1>3. CASE roots # <<>>
  <2>1. /\ session' = "leaving" /\ at_root' = 1
        /\ UNCHANGED <<cliVars, dataVars, running>>
    BY <1>3 DEF ExitConfig, cliVars
  <2>2. at_root' \in 0..Len(roots)
    BY <1>3, <2>1 DEF FInv, TypeOK
  <2> QED BY <1>1, <2>1, <2>2, ExitWalkInvariant
<1> QED BY <1>2, <1>3

LEMMA ExitConfigRootInvariant ==
  ASSUME FInv, ExitConfigRoot
  PROVE  FInv'
<1> DEFINE r == roots[at_root]
<1>1. /\ session = "leaving" /\ mode = MODE_CONFIG
      /\ at_root \in 1..Len(roots) /\ Len(roots) \in Nat
  BY DEF ExitConfigRoot, FInv, TypeOK, QuietClose
<1>2. CASE Fault
  BY <1>2, FaultInvariant
<1>3. CASE ~Fault
  <2>1. /\ \/ SkipRoot(r) /\ UNCHANGED session
           \/ RefuseRoot(r) /\ session' = "open"
        /\ UNCHANGED <<cliVars, dataVars>>
    BY <1>3 DEF ExitConfigRoot
  <2>2. /\ at_root' \in 0..Len(roots) /\ running' = running
        /\ session' \in {"open", "leaving"}
    BY <1>1, <2>1 DEF SkipRoot, RefuseRoot, NextElement
  <2> QED BY <1>1, <2>1, <2>2, ExitWalkInvariant
<1> QED BY <1>2, <1>3

LEMMA ExitConfigFreeInvariant ==
  ASSUME FInv, ExitConfigFree
  PROVE  FInv'
<1>1. mode = MODE_CONFIG
  BY DEF ExitConfigFree, FInv, QuietClose
<1>2. mode' = MODE_EXEC /\ stack' = <<>>
  BY <1>1, CliExitTop DEF ExitConfigFree
<1> QED BY <1>2, FreeToTopInvariant DEF ExitConfigFree

(* exit in a submode: up to the node whose mode is now the top of the      *)
(* stack, or to the CONFIG mode from a root.                               *)
LEMMA ExitSubmodeUp ==
  ASSUME FInv, ExitSubmode, parent_data # Freed
  PROVE  FInv'
<1> DEFINE n == parent_data
<1>1. /\ Ready /\ Alive /\ InSubmode
      /\ n \in Nodes \ KeyOnly /\ cand[n] # Absent
      /\ stack = ModePath(n)
      /\ n # NULL /\ n # Freed
      /\ mode # MODE_CONFIG
  BY SubmodeFacts, ValueAssumption DEF ExitSubmode, Ready, Alive, InSubmode
<1>2. /\ parent_data' = Above(n) /\ CliExit
      /\ UNCHANGED <<privilege, roots, entry, cand, running, at_root, session>>
  BY <1>1 DEF ExitSubmode
<1>3. Len(stack) = Len(n)
  BY <1>1, ModePathSeq
<1>4. CASE n \in Roots
  <2>1. Len(n) = 1 /\ Len(stack) = 1
    BY <1>3, <1>4 DEF Roots
  <2>2. SetConfigmode(<<>>, MODE_CONFIG)
    BY <1>1, <1>2, <2>1 DEF CliExit
  <2>3. mode' = MODE_CONFIG /\ stack' = <<>> /\ parent_data' = NULL
    BY <1>2, <1>4, <2>2, FixedModes DEF Above
  <2>4. /\ privilege' \in {"unprivileged", "privileged"}
        /\ session' \in {"open", "closing", "closed", "faulted"}
        /\ session' # "closing"
    BY <1>1, <1>2 DEF FInv, TypeOK, Ready
  <2> QED BY <1>2, <2>3, <2>4, ToTopInvariant
<1>5. CASE n \notin Roots
  <2>1. n \in Nodes /\ Len(n) > 1
    BY <1>1, <1>5, NodeLength
  <2>2. Front(n) \in Nodes \ KeyOnly
    BY <2>1, FrontOfNode
  <2>3. parent_data' = Front(n)
    BY <1>1, <1>2, <1>5 DEF Above
  <2>4. Len(stack) >= 2
    <3>1. Len(n) \in Nat
      BY <2>1, NodeLength
    <3> QED BY <1>3, <2>1, <3>1
  <2>5. Front(stack) = ModePath(Front(n))
    BY <1>1, <2>1, ModePathUp
  <2>6. Last(Front(stack)) = ModeOf[Front(n)] /\ Front(stack) # <<>>
        /\ Front(stack) \in Seq(Modes)
    BY <2>2, <2>5, ModePathLast, ModePathSeq
  <2>7. ModeOf[Front(n)] \in Modes /\ ModeOf[Front(n)] \notin {MODE_EXEC, MODE_CONFIG}
    BY <2>2, ModesApart
  <2>8. SetConfigmode(Front(stack), ModeOf[Front(n)])
    BY <1>2, <2>4, <2>6 DEF CliExit
  <2>9. mode' = ModeOf[Front(n)] /\ stack' = Front(stack)
    BY <2>7, <2>8 DEF SetConfigmode, StackAfterSet
  <2>10. cand[Front(n)] # Absent
    BY <1>1, <2>1, TreeParts DEF FInv, TypeOK
  <2>11. TypeOK'
    BY <1>2, <2>2, <2>3, <2>6, <2>7, <2>9 DEF FInv, TypeOK, Loaded
  <2>12. FailedDiscardContained' /\ PointerExact'
    BY <1>2, <2>2, <2>3, <2>5, <2>9, <2>10 DEF FailedDiscardContained, PointerExact, ModePath
  <2>13. ModeIsTop'
    BY <2>6, <2>7, <2>9 DEF ModeIsTop, InSubmode
  <2>14. SubmodeTreesLive'
    BY <1>1, <1>2 DEF FInv, SubmodeTreesLive, Ready
  <2>15. OnlyHeadDead' /\ QuietClose'
    BY <1>1, <1>2 DEF FInv, OnlyHeadDead, QuietClose, Ready
  <2> QED BY <2>11, <2>12, <2>13, <2>14, <2>15 DEF FInv
<1> QED BY <1>4, <1>5

LEMMA ExitSubmodeInvariant ==
  ASSUME FInv, ExitSubmode
  PROVE  FInv'
BY FaultInvariant, ExitSubmodeUp DEF ExitSubmode

LEMMA ExitSessionInvariant ==
  ASSUME FInv, ExitSession
  PROVE  FInv'
<1>1. CASE Fault
  BY <1>1, FaultInvariant DEF ExitSession, InSubmode
<1>2. CASE ~Fault
  <2>1. /\ parent_data' = Above(parent_data) /\ CliQuit
        /\ UNCHANGED <<roots, entry, cand, running, at_root>>
        /\ Ready /\ mode = MODE_EXEC /\ parent_data # Freed
    BY <1>2 DEF ExitSession
  <2>2. mode' = MODE_EXEC /\ stack' = <<>> /\ session' = "closing"
        /\ privilege' = "unprivileged"
    BY <2>1, FixedModes DEF CliQuit
  <2>3. at_root = 0 /\ at_root' = 0
    BY <2>1 DEF Ready
  <2>4. parent_data' \in (Nodes \ KeyOnly) \cup {NULL, Freed} /\ PointerExact'
    <3>1. CASE parent_data = NULL \/ parent_data \in Roots
      BY <2>1, <3>1, ValueAssumption DEF Above, PointerExact
    <3>2. CASE ~(parent_data = NULL \/ parent_data \in Roots)
      <4>1. parent_data \in Nodes /\ parent_data \notin Roots
            /\ cand[parent_data] # Absent
        BY <2>1, <3>2 DEF FInv, TypeOK, PointerExact
      <4>2. Len(parent_data) > 1
        BY <4>1, NodeLength
      <4>3. Front(parent_data) \in Nodes \ KeyOnly /\ cand[Front(parent_data)] # Absent
        BY <4>1, <4>2, FrontOfNode, TreeParts DEF FInv, TypeOK
      <4> QED BY <2>1, <3>2, <4>3 DEF Above, PointerExact
    <3> QED BY <3>1, <3>2
  <2>5. TypeOK'
    BY <2>1, <2>2, <2>4 DEF FInv, TypeOK, Loaded
  <2>6. OnlyHeadDead' /\ QuietClose'
    BY <2>1, <2>2, <2>3 DEF FInv, OnlyHeadDead, QuietClose, Ready
  <2> QED BY <2>2, <2>4, <2>5, <2>6 DEF FInv, FailedDiscardContained, ModeIsTop,
             SubmodeTreesLive, InSubmode
<1> QED BY <1>1, <1>2

(* The commands that set a fixed mode and leave the candidate alone.       *)
LEMMA ModeCommandInvariant ==
  ASSUME FInv, Quit \/ RootRejected \/ CtrlZ \/ Enable \/ Disable \/ ConfigureTerminal
  PROVE  FInv'
<1>1. mode' \in {MODE_EXEC, MODE_CONFIG} /\ stack' = <<>>
  BY FixedModes DEF Quit, CliQuit, RootRejected, CtrlZ, Enable, Disable, ConfigureTerminal
<1>2. UNCHANGED <<roots, entry, cand, parent_data, running, at_root>>
  BY DEF Quit, RootRejected, CtrlZ, Enable, Disable, ConfigureTerminal, dataVars
<1>3. /\ privilege' \in {"unprivileged", "privileged"}
      /\ session' \in {"open", "closing", "closed", "faulted"}
      /\ at_root = 0
  BY DEF Quit, CliQuit, RootRejected, CtrlZ, Enable, Disable, ConfigureTerminal, Ready, FInv, TypeOK
<1> QED BY <1>1, <1>2, <1>3, ToTopInvariant

-----------------------------------------------------------------------------
LEMMA ContainedStep ==
  ASSUME FInv, [Next]_vars
  PROVE  FInv'
<1>1. ASSUME NEW r \in Roots, RootContainer(r) \/ NoRootContainer(r)
      PROVE  FInv'
  BY <1>1, RootContainerInvariant, NoRootContainerInvariant
<1>2. ASSUME NEW e \in Names, ListEntry(e) \/ ListEntryMisplaced(e) \/ NoListEntry(e)
      PROVE  FInv'
  BY <1>2, ListEntryInvariant, ListEntryMisplacedInvariant, NoListEntryInvariant
<1>3. ASSUME NEW v \in Values, Leaf(v)
      PROVE  FInv'
  BY <1>3, LeafInvariant
<1>4. CASE CmdCommit \/ CommitRoot \/ CmdDiscardChanges
  BY <1>4, CmdCommitInvariant, CommitRootInvariant, CmdDiscardChangesInvariant
<1>5. CASE ExitConfig \/ ExitConfigRoot \/ ExitConfigFree
  BY <1>5, ExitConfigInvariant, ExitConfigRootInvariant, ExitConfigFreeInvariant
<1>12. CASE ExitSubmode \/ ExitSession
  BY <1>12, ExitSubmodeInvariant, ExitSessionInvariant
<1>6. CASE Quit \/ RootRejected \/ CtrlZ \/ Enable \/ Disable \/ ConfigureTerminal
  BY <1>6, ModeCommandInvariant
<1>7. CASE HangUp \/ Terminate
  BY <1>7, EndInvariant DEF HangUp, Terminate, Ready, Alive
<1>8. CASE ShowConfigCandidate
  BY <1>8, FaultInvariant DEF ShowConfigCandidate
<1>9. CASE Shutdown \/ Start
  BY <1>9, ShutdownInvariant, StartInvariant
<1>10. CASE ExternalEdit
  BY <1>10, ExternalEditInvariant
<1>11. CASE UNCHANGED vars
  <2>1. UNCHANGED <<cliVars, dataVars, session>> /\ running' = running
        /\ at_root' = at_root
    BY <1>11 DEF vars, cliVars, dataVars
  <2> QED BY <2>1, RunningInvariant DEF FInv, TypeOK, QuietClose
<1> QED BY <1>1, <1>2, <1>3, <1>4, <1>5, <1>6, <1>7, <1>8, <1>9, <1>10, <1>11,
           <1>12 DEF Next

(* Whatever the schema and whatever sysrepo fails to do.                   *)
THEOREM ContainedInvariant == Spec => []FInv
<1>1. Init => FInv
  BY InitInvariant DEF IInv
<1>2. FInv /\ [Next]_vars => FInv'
  BY ContainedStep
<1> QED BY <1>1, <1>2, PTL DEF Spec

-----------------------------------------------------------------------------
(* A session to which sysrepo never refuses to discard.                    *)

(* What a step has to keep, besides the invariant.                         *)
NoStaleSubmode ==
  InSubmode => session # "faulted" /\ (Alive => parent_data # Freed)

LEMMA SyncFromNoStale ==
  ASSUME FInv
  PROVE  NoStaleSubmode <=> SubmodeSync /\ FaultOnlyAtTop
<1>1. CASE Alive /\ InSubmode
  BY <1>1, SubmodeFacts, ValueAssumption
     DEF NoStaleSubmode, SubmodeSync, FaultOnlyAtTop, Alive
<1>2. CASE ~(Alive /\ InSubmode)
  BY <1>2 DEF NoStaleSubmode, SubmodeSync, FaultOnlyAtTop
<1> QED BY <1>1, <1>2

(* Where something was freed the session is not in a submode, so that it   *)
(* does not fault there.                                                   *)
LEMMA FaultAtTop ==
  ASSUME IInv, Alive, Fault, SomeFreed \/ parent_data \notin Nodes
  PROVE  ~InSubmode'
<1>1. ~InSubmode
  BY SubmodeTrees DEF IInv, SubmodeSync
<1> QED BY <1>1 DEF Fault, InSubmode

LEMMA RootContainerStale ==
  ASSUME IInv, NEW r \in Roots, RootContainer(r) \/ NoRootContainer(r)
  PROVE  NoStaleSubmode'
<1>1. CASE RootFaults(r) \/ NoRootContainer(r)
  <2>1. ~InSubmode'
    BY <1>1, FixedModes DEF RootFaults, NoRootContainer
  <2> QED BY <2>1 DEF NoStaleSubmode
<1>2. CASE RootContainer(r) /\ ~RootFaults(r)
  <2>1. parent_data' = r /\ session' = "open" /\ r \in Nodes
    BY <1>2, RootIsNode
       DEF RootContainer, AddRoot, FoundRoot, SnapshotRoot, CreateRoot, Ready
  <2> QED BY <2>1, ValueAssumption DEF NoStaleSubmode
<1> QED BY <1>1, <1>2

LEMMA SubmodeCommandStale ==
  ASSUME IInv,
         \/ \E e \in Names : ListEntry(e) \/ ListEntryMisplaced(e) \/ NoListEntry(e)
         \/ \E v \in Values : Leaf(v)
  PROVE  NoStaleSubmode'
<1>1. ASSUME NEW e \in Names, ListEntry(e) \/ ListEntryMisplaced(e) \/ NoListEntry(e)
      PROVE  NoStaleSubmode'
  <2>1. Ready /\ ListOffered(e)
    BY <1>1 DEF ListEntry, ListEntryMisplaced, NoListEntry
  <2>2. parent_data \in Nodes /\ parent_data # Freed /\ Resolves(e) /\ session = "open"
    BY <2>1, ListResolves, ValueAssumption DEF IInv, SubmodeSync, Ready
  <2>3. session' = "open" /\ parent_data' \in Nodes
    BY <1>1, <2>2 DEF ListEntry, ListEntryMisplaced, NoListEntry, Resolves
  <2> QED BY <2>3, ValueAssumption DEF NoStaleSubmode
<1>2. ASSUME NEW v \in Values, Leaf(v)
      PROVE  NoStaleSubmode'
  <2>1. Ready /\ LeafOffered
    BY <1>2 DEF Leaf
  <2>2. parent_data \in Nodes /\ session = "open"
    BY <2>1, LeafResolves, ValueAssumption DEF IInv, SubmodeSync, Ready
  <2>3. session' = "open" /\ parent_data' = parent_data
    BY <1>2, <2>2 DEF Leaf
  <2> QED BY <2>2, <2>3, ValueAssumption DEF NoStaleSubmode
<1> QED BY <1>1, <1>2

LEMMA ExitStale ==
  ASSUME IInv,
         \/ ExitConfig \/ ExitConfigRoot \/ ExitConfigFree
         \/ ExitSubmode \/ ExitSession
  PROVE  NoStaleSubmode'
<1>1. CASE ExitConfig \/ ExitConfigRoot \/ ExitConfigFree \/ ExitSession
  <2>1. mode \in {MODE_EXEC, MODE_CONFIG} /\ ~InSubmode
    BY <1>1 DEF ExitConfig, ExitConfigRoot, ExitConfigFree, ExitSession, IInv, FInv,
                QuietClose, InSubmode
  <2>2. CASE UNCHANGED <<mode, stack>>
    BY <2>1, <2>2 DEF InSubmode, NoStaleSubmode
  <2>3. CASE mode = MODE_CONFIG /\ CliExit
    BY <2>3, CliExitTop DEF IInv, NoStaleSubmode
  <2>4. CASE CliQuit
    BY <2>4, FixedModes DEF CliQuit, NoStaleSubmode
  <2> QED BY <1>1, <2>2, <2>3, <2>4 DEF ExitConfig, ExitConfigRoot, ExitConfigFree,
             ExitSession, Fault, cliVars, IInv, FInv, QuietClose
<1>2. CASE ExitSubmode
  <2>1. parent_data \in Nodes /\ parent_data # Freed /\ session = "open"
    BY <1>2, ValueAssumption DEF IInv, SubmodeSync, ExitSubmode, Ready, Alive
  <2>2. parent_data' = Above(parent_data) /\ session' = "open"
    BY <1>2, <2>1 DEF ExitSubmode
  <2>3. parent_data' # Freed
    BY <2>1, <2>2, ValueAssumption, NodeLength, FrontOfNode DEF Above
  <2> QED BY <2>2, <2>3 DEF NoStaleSubmode
<1> QED BY <1>1, <1>2

LEMMA OtherStale ==
  ASSUME IInv, "discard" \notin SysrepoFaults,
         \/ CmdCommit \/ CommitRoot \/ CmdDiscardChanges
         \/ Quit \/ RootRejected \/ HangUp \/ CtrlZ \/ Enable \/ Disable \/ ConfigureTerminal
         \/ ShowConfigCandidate \/ Shutdown \/ Terminate \/ Start \/ ExternalEdit
         \/ UNCHANGED vars
  PROVE  NoStaleSubmode'
<1>1. NoStaleSubmode
  BY SyncFromNoStale DEF IInv
<1>2. CASE CmdCommit \/ HangUp \/ ExternalEdit \/ Terminate \/ UNCHANGED vars
  BY <1>1, <1>2 DEF CmdCommit, HangUp, ExternalEdit, Terminate, Ready, Alive, vars,
                    cliVars, dataVars, NoStaleSubmode, InSubmode
<1>3. CASE CommitRoot
  <2>1. CASE Fault /\ entry[roots[at_root]] = "freed"
    <3>1. roots[at_root] \in Range(roots)
      BY <1>3, RangeOfRoots DEF CommitRoot, IInv, FInv, TypeOK
    <3> QED BY <1>3, <2>1, <3>1, FaultAtTop DEF CommitRoot, SomeFreed, Alive, NoStaleSubmode
  <2>2. CASE UNCHANGED <<cliVars, dataVars, session>>
    BY <1>1, <2>2 DEF cliVars, dataVars, NoStaleSubmode, InSubmode, Alive
  <2> QED BY <1>3, <2>1, <2>2 DEF CommitRoot
<1>4. CASE Quit \/ RootRejected \/ CtrlZ \/ Enable \/ Disable \/ ConfigureTerminal
  BY <1>4, FixedModes DEF Quit, CliQuit, RootRejected, CtrlZ, Enable, Disable,
                          ConfigureTerminal, NoStaleSubmode
<1>5. CASE Start
  BY <1>5 DEF Start, NoStaleSubmode, InSubmode
<1>6. CASE CmdDiscardChanges
  BY <1>6, FixedModes, FaultAtTop DEF CmdDiscardChanges, Ready, Alive, NoStaleSubmode
<1>7. CASE ShowConfigCandidate
  BY <1>7, FaultAtTop DEF ShowConfigCandidate, Ready, Alive, NoStaleSubmode
<1>8. CASE Shutdown
  <2>1. CASE SomeFreed /\ Fault
    BY <1>8, <2>1, FaultAtTop DEF Shutdown, Alive, NoStaleSubmode
  <2>2. CASE session' = "closed"
    BY <2>2 DEF NoStaleSubmode, Alive
  <2> QED BY <1>8, <2>1, <2>2 DEF Shutdown
<1> QED BY <1>2, <1>3, <1>4, <1>5, <1>6, <1>7, <1>8

LEMMA StepInvariant ==
  ASSUME "discard" \notin SysrepoFaults, IInv, [Next]_vars
  PROVE  IInv'
<1>1. FInv'
  BY ContainedStep DEF IInv
<1>2. NoStaleSubmode'
  BY RootContainerStale, SubmodeCommandStale, ExitStale, OtherStale DEF Next
<1>3. FInv' => (NoStaleSubmode' <=> SubmodeSync' /\ FaultOnlyAtTop')
  BY SyncFromNoStale, PTL
<1> QED BY <1>1, <1>2, <1>3 DEF IInv

(* The invariant holds whatever the schema, and whether reads fail or not, *)
(* as long as sysrepo does not refuse to discard its changes.              *)
THEOREM Invariant ==
  ASSUME "discard" \notin SysrepoFaults
  PROVE  Spec => []IInv
<1>1. Init => IInv
  BY InitInvariant
<1>2. IInv /\ [Next]_vars => IInv'
  BY StepInvariant
<1> QED BY <1>1, <1>2, PTL DEF Spec

-----------------------------------------------------------------------------
(* The session implements Navigation.                                      *)

NavStep == [Nav!Next]_(Nav!navVars)

LEMMA NavTop ==
  ASSUME ~(Alive' /\ InSubmode')
  PROVE  NavStep
BY DEF NavStep, Nav!Next, Nav!ToTop

LEMMA NavSame ==
  ASSUME UNCHANGED <<mode, parent_data>>, Alive' = Alive
  PROVE  NavStep
BY DEF NavStep, Nav!navVars, InSubmode

LEMMA NavEnterRoot ==
  ASSUME IInv, NEW r \in Roots, RootContainer(r)
  PROVE  NavStep
<1>1. CASE RootFaults(r)
  BY <1>1, NavTop DEF RootFaults, Alive
<1>2. CASE ~RootFaults(r)
  <2>1. /\ AddRoot(r) /\ PushConfigmode(<<>>, ModeOf[r])
        /\ Alive /\ Alive' /\ mode \in Int /\ mode >= 1
    BY <1>2, LookupStack, ModesApart
       DEF RootContainer, Ready, Alive, RootOffered, MODE_CONFIG, MODE_EXEC, IInv, FInv, TypeOK
  <2>2. parent_data' = r
    BY <2>1 DEF AddRoot, FoundRoot, SnapshotRoot, CreateRoot
  <2>3. r \in Nodes /\ Len(r) = 1 /\ mode' = ModeOf[r] /\ ModeOf[r] \in Modes
        /\ mode' # MODE_EXEC /\ InSubmode'
    BY <2>1, ModesApart DEF Roots, PushConfigmode, InSubmode
  <2>4. mode # MODE_EXEC
    BY <2>1 DEF MODE_EXEC
  <2>5. Nav!EnterRoot
    BY <2>1, <2>2, <2>3, <2>4 DEF Nav!EnterRoot
  <2> QED BY <2>5 DEF NavStep, Nav!Next
<1> QED BY <1>1, <1>2

LEMMA NavListCommand ==
  ASSUME IInv, NEW e \in Names, ListEntry(e) \/ ListEntryMisplaced(e) \/ NoListEntry(e)
  PROVE  NavStep
<1> DEFINE c == Append(parent_data, e)
<1>1. InSubmode /\ Resolves(e) /\ Alive /\ Alive'
  <2>1. Ready /\ ListOffered(e)
    BY DEF ListEntry, ListEntryMisplaced, NoListEntry
  <2>2. InSubmode /\ Alive /\ parent_data # Freed
    BY <2>1, ListResolves, ValueAssumption DEF IInv, SubmodeSync
  <2>3. Resolves(e)
    BY <2>1, <2>2, ListResolves DEF IInv
  <2> QED BY <2>1, <2>2, <2>3 DEF ListEntry, ListEntryMisplaced, NoListEntry, Ready, Alive
<1>2. CASE UNCHANGED <<mode, parent_data>>
  BY <1>1, <1>2, NavSame
<1>3. CASE ListEntry(e) /\ c \notin KeyOnly
  <2>1. parent_data' = c /\ mode' = ModeOf[c] /\ c \in Nodes
    BY <1>1, <1>3 DEF ListEntry, PushConfigmode, Resolves
  <2>2. mode' # MODE_EXEC /\ InSubmode' /\ mode # MODE_EXEC
    BY <1>1, <2>1, ModesApart DEF InSubmode
  <2>3. parent_data \in Nodes /\ parent_data # <<>>
    BY <1>1, NodesAssumption DEF Resolves
  <2>4. Nav!EnterEntry
    BY <1>1, <2>1, <2>2, <2>3 DEF Nav!EnterEntry
  <2> QED BY <2>4 DEF NavStep, Nav!Next
<1> QED BY <1>1, <1>2, <1>3 DEF ListEntry, ListEntryMisplaced, NoListEntry, cliVars

LEMMA NavExit ==
  ASSUME IInv, ExitSubmode
  PROVE  NavStep
<1>1. /\ Alive /\ InSubmode /\ parent_data \in Nodes
      /\ parent_data # NULL /\ parent_data # Freed
  BY ValueAssumption DEF IInv, SubmodeSync, ExitSubmode, Ready, Alive
<1>2. parent_data' = Above(parent_data) /\ Alive'
  BY <1>1 DEF ExitSubmode, Ready, Alive
<1>3. CASE ~InSubmode'
  BY <1>3, NavTop
<1>4. CASE InSubmode'
  <2>1. FInv' /\ NoStaleSubmode'
    BY ExitSubmodeInvariant, ExitStale DEF IInv
  <2>2. parent_data' \in Nodes
    BY <1>2, <1>4, <2>1 DEF FInv, FailedDiscardContained, NoStaleSubmode
  <2>3. parent_data' = Front(parent_data)
    BY <1>1, <1>2, <2>2, ValueAssumption DEF Above
  <2>4. parent_data # <<>> /\ mode # MODE_EXEC /\ mode' # MODE_EXEC
    BY <1>1, <1>4, NodesAssumption DEF InSubmode
  <2>5. Nav!ExitNode
    BY <1>1, <1>2, <1>4, <2>3, <2>4 DEF Nav!ExitNode, Nav!Front, Front
  <2> QED BY <2>5 DEF NavStep, Nav!Next
<1> QED BY <1>3, <1>4

LEMMA NavOther ==
  ASSUME IInv, "discard" \notin SysrepoFaults,
         \/ CmdCommit \/ CommitRoot \/ CmdDiscardChanges
         \/ ExitConfig \/ ExitConfigRoot \/ ExitConfigFree \/ ExitSession
         \/ Quit \/ RootRejected \/ HangUp \/ CtrlZ \/ Enable \/ Disable \/ ConfigureTerminal
         \/ ShowConfigCandidate \/ Shutdown \/ Terminate \/ Start \/ ExternalEdit
         \/ \E r \in Roots : NoRootContainer(r)
         \/ \E v \in Values : Leaf(v)
         \/ UNCHANGED vars
  PROVE  NavStep
<1>1. CASE CmdCommit \/ HangUp \/ ExternalEdit \/ UNCHANGED vars
  BY <1>1, NavSame DEF CmdCommit, HangUp, ExternalEdit, Ready, Alive, vars,
                       cliVars, dataVars
<1>2. CASE CommitRoot
  BY <1>2, NavSame, NavTop DEF CommitRoot, Fault, Alive, cliVars, dataVars
<1>3. CASE ShowConfigCandidate \/ Terminate \/ Shutdown
  BY <1>3, NavTop DEF ShowConfigCandidate, Terminate, Shutdown, Fault, Alive
<1>4. CASE Quit \/ RootRejected \/ CtrlZ \/ Enable \/ Disable \/ ConfigureTerminal
  BY <1>4, FixedModes, NavTop DEF Quit, CliQuit, RootRejected, CtrlZ, Enable, Disable, ConfigureTerminal
<1>5. CASE Start
  BY <1>5, NavTop DEF Start, InSubmode
<1>6. CASE CmdDiscardChanges
  BY <1>6, FixedModes, NavTop DEF CmdDiscardChanges, Fault, Alive
<1>7. CASE ExitConfig \/ ExitConfigRoot \/ ExitConfigFree
  <2>1. ~InSubmode'
    <3>1. mode = MODE_CONFIG
      BY <1>7 DEF ExitConfig, ExitConfigRoot, ExitConfigFree, IInv, FInv, QuietClose
    <3>2. CliExit \/ UNCHANGED mode
      BY <1>7 DEF ExitConfig, ExitConfigRoot, ExitConfigFree, Fault, cliVars
    <3> QED BY <3>1, <3>2, CliExitTop DEF IInv, InSubmode
  <2> QED BY <2>1, NavTop
<1>8. CASE ExitSession
  BY <1>8, FixedModes, NavTop DEF ExitSession, CliQuit, Fault, Alive
<1>9. CASE \E r \in Roots : NoRootContainer(r)
  BY <1>9, FixedModes, NavTop DEF NoRootContainer, RootFaults, Alive
<1>10. CASE \E v \in Values : Leaf(v)
  <2>1. parent_data \in Nodes
    BY <1>10, LeafResolves DEF IInv, SubmodeSync, Leaf
  <2> QED BY <1>10, <2>1, NavSame DEF Leaf, Ready, Alive, cliVars
<1> QED BY <1>1, <1>2, <1>3, <1>4, <1>5, <1>6, <1>7, <1>8, <1>9, <1>10

(* Whatever mixture of commands and keys: exit goes up by one node, a list *)
(* command down by one, and everything else leads to the top or stays.     *)
THEOREM ImplementsNavigation ==
  ASSUME "discard" \notin SysrepoFaults
  PROVE  Spec => NavigationSpec
<1>1. Init => Nav!Init
  BY DEF Init, Nav!Init, InSubmode
<1>2. IInv /\ [Next]_vars => NavStep
  <2> SUFFICES ASSUME IInv, [Next]_vars PROVE NavStep
    OBVIOUS
  <2>1. ASSUME NEW r \in Roots, RootContainer(r) PROVE NavStep
    BY <2>1, NavEnterRoot
  <2>2. ASSUME NEW e \in Names, ListEntry(e) \/ ListEntryMisplaced(e) \/ NoListEntry(e)
        PROVE  NavStep
    BY <2>2, NavListCommand
  <2>3. CASE ExitSubmode
    BY <2>3, NavExit
  <2> QED BY <2>1, <2>2, <2>3, NavOther DEF Next
<1>3. IInv /\ [Next]_vars => [Nav!Next]_(Nav!navVars)
  BY <1>2 DEF NavStep
<1> QED BY <1>1, <1>3, Invariant, PTL DEF Spec, NavigationSpec, Nav!Spec

-----------------------------------------------------------------------------
(* What the invariant says of each property the runs check.                *)

(* Every variable keeps its type.                                          *)
THEOREM TypeCorrect == Spec => []TypeOK
BY ContainedInvariant, PTL DEF FInv

(* The prompt, the stack of modes and the edited node agree.               *)
THEOREM PromptIsPlace ==
  ASSUME "discard" \notin SysrepoFaults
  PROVE  Spec => [](SubmodeSync /\ ModeIsTop)
BY Invariant, PTL DEF IInv, FInv

(* A submode never meets freed memory, neither by its list elements nor by *)
(* parent_data.                                                            *)
THEOREM SubmodeIsSafe ==
  ASSUME "discard" \notin SysrepoFaults
  PROVE  Spec => [](SubmodeTreesLive /\ PointerExact /\ FaultOnlyAtTop)
BY Invariant, PTL DEF IInv, FInv

(* The next three hold whatever sysrepo fails to do.                       *)

(* libcli's mode is the top of its stack.                                  *)
THEOREM ModeIsTopHolds == Spec => []ModeIsTop
BY ContainedInvariant, PTL DEF FInv

(* No command but those that free whole trees frees the edited node.       *)
THEOREM PointerExactHolds == Spec => []PointerExact
BY ContainedInvariant, PTL DEF FInv

(* A refused discard leaves nothing behind but the freed parent_data.      *)
THEOREM FailedDiscardHolds == Spec => [](FailedDiscardContained /\ SubmodeTreesLive)
BY ContainedInvariant, PTL DEF FInv

(* A submode is never left by a fault.                                     *)
THEOREM FaultsAtTop ==
  ASSUME "discard" \notin SysrepoFaults
  PROVE  Spec => []FaultOnlyAtTop
BY Invariant, PTL DEF IInv

-----------------------------------------------------------------------------
(* What a commit may change in running.                                    *)

(* Two roots above one node are the same.                                  *)
LEMMA RootsApart ==
  ASSUME NEW r \in Roots, NEW q \in Roots, NEW n \in Nodes, IsPrefix(r, n), IsPrefix(q, n)
  PROVE  r = q
<1>1. r \in Seq(Names) /\ Len(r) = 1 /\ q \in Seq(Names) /\ Len(q) = 1
  BY NodeLength DEF Roots
<1>2. n \in Seq(Names) /\ 1 \in 1..Len(r) /\ 1 \in 1..Len(q)
  BY <1>1, NodeLength
<1>3. r[1] = n[1] /\ q[1] = n[1]
  BY <1>1, <1>2, PrefixByName
<1> QED BY <1>1, <1>3

(* In a submode the user is at parent_data.                                *)
PlaceKnown == session = "open" /\ InSubmode /\ parent_data # Freed => place = parent_data

(* The session has a candidate and may use it.                             *)
Serving == session \in {"open", "leaving"}

(* Where the candidate of a root differs from running, a command was about *)
(* the node or another client has written to it.                           *)
ChangesNamed ==
  Serving =>
    \A r \in Roots : entry[r] = "live" =>
      \A n \in Nodes : IsPrefix(r, n) /\ cand[n] # running[n] => n \in named \cup foreign

ScopeInv == PlaceKnown /\ ChangesNamed

(* In a tree there is nothing below a root that is absent: the shortest    *)
(* node there is would have no parent.                                     *)
LEMMA NothingBelow ==
  ASSUME NEW f, IsTree(f), NEW r \in Roots, f[r] = Absent,
         NEW n \in Nodes, IsPrefix(r, n)
  PROVE  f[n] = Absent
<1> DEFINE S == {m \in Nodes : IsPrefix(r, m) /\ f[m] # Absent}
           L == {Len(m) : m \in S}
           R == {s \in Nat \X Nat : s[1] < s[2]}
<1> SUFFICES ASSUME n \in S PROVE FALSE
  OBVIOUS
<1>1. L \subseteq Nat /\ L # {}
  BY NodeLength
<1>2. IsWellFoundedOn(R, Nat)
  BY NatLessThanWellFounded DEF OpToRel
<1>3. PICK k \in L : \A j \in L : ~(<<j, k>> \in R)
  BY <1>1, <1>2, WFMin
<1>4. PICK m \in S : Len(m) = k
  OBVIOUS
<1>5. Len(m) > 1
  <2>1. m # r /\ r \in Nodes
    BY <1>4 DEF Roots
  <2>2. CASE m \in Roots
    BY <1>4, <2>1, <2>2, AboveRoot
  <2> QED BY <2>2, NodeLength
<1>6. Front(m) \in S /\ Len(Front(m)) = Len(m) - 1
  BY <1>4, <1>5, FrontOfNode, RootAboveFront, TreeParts
<1>7. Len(Front(m)) \in L /\ Len(m) - 1 < Len(m) /\ Len(m) \in Nat
  BY <1>1, <1>4, <1>6, NodeLength
<1> QED BY <1>1, <1>3, <1>4, <1>6, <1>7

LEMMA ScopeIsSession == ScopeNext => Next
BY DEF ScopeNext, RootCommand, ListCommand, LeafCommand, Comparing, Moving, Ending, Elsewhere, Next

-----------------------------------------------------------------------------

LEMMA RootPlace ==
  ASSUME FInv, RootCommand
  PROVE  PlaceKnown'
<1>1. ASSUME NEW r \in Roots, RootContainer(r), place' = r
      PROVE  PlaceKnown'
  BY <1>1 DEF RootContainer, RootFaults, AddRoot, FoundRoot, SnapshotRoot, CreateRoot, PlaceKnown
<1>2. CASE RootRejected \/ \E r \in Roots : NoRootContainer(r)
  BY <1>2, FixedModes DEF RootRejected, NoRootContainer, RootFaults, PlaceKnown
<1> QED BY <1>1, <1>2 DEF RootCommand

LEMMA ListPlace ==
  ASSUME FInv, PlaceKnown, ListCommand
  PROVE  PlaceKnown'
<1> SUFFICES ASSUME session' = "open", InSubmode', parent_data' # Freed
             PROVE  place' = parent_data'
  BY DEF PlaceKnown
<1>1. PICK e \in Names :
        \/ /\ ListEntry(e)
           /\ place' = IF Append(place, e) \in KeyOnly THEN place ELSE Append(place, e)
        \/ (ListEntryMisplaced(e) \/ NoListEntry(e)) /\ place' = place
  BY DEF ListCommand
<1>2. Ready /\ ListOffered(e) /\ Resolves(e)
  BY <1>1 DEF ListEntry, ListEntryMisplaced, NoListEntry, Fault
<1>3. place = parent_data
  BY <1>2, ListResolves DEF PlaceKnown, Ready
<1> QED BY <1>1, <1>2, <1>3 DEF ListEntry, ListEntryMisplaced, NoListEntry

LEMMA MovingPlace ==
  ASSUME FInv, FInv', PlaceKnown, Moving
  PROVE  PlaceKnown'
<1>1. CASE ExitSubmode /\ place' = Front(place)
  <2> SUFFICES ASSUME session' = "open", InSubmode', parent_data' # Freed
               PROVE  place' = parent_data'
    BY DEF PlaceKnown
  <2>1. Ready /\ InSubmode /\ parent_data # Freed /\ parent_data' = Above(parent_data)
    BY <1>1 DEF ExitSubmode, Fault
  <2>2. place = parent_data
    BY <2>1 DEF PlaceKnown, Ready
  <2>3. parent_data' # NULL
    BY ValueAssumption DEF FInv, FailedDiscardContained, Alive
  <2> QED BY <1>1, <2>1, <2>2, <2>3 DEF Above
<1>2. CASE CtrlZ \/ Enable \/ Disable \/ ConfigureTerminal
  BY <1>2, FixedModes DEF CtrlZ, Enable, Disable, ConfigureTerminal, PlaceKnown
<1>3. CASE CmdCommit /\ UNCHANGED place
  BY <1>3 DEF CmdCommit, cliVars, dataVars, PlaceKnown, InSubmode
<1>4. CASE ExitConfig
  <2>1. mode = MODE_CONFIG /\ (CliExit \/ UNCHANGED mode)
    BY <1>4 DEF ExitConfig
  <2> QED BY <2>1, CliExitTop DEF PlaceKnown, InSubmode
<1> QED BY <1>1, <1>2, <1>3, <1>4 DEF Moving

LEMMA EndingPlace ==
  ASSUME FInv, FInv', Ending
  PROVE  PlaceKnown'
<1> SUFFICES ASSUME session' = "open", InSubmode', parent_data' # Freed
             PROVE  FALSE
  BY DEF PlaceKnown
<1>1. parent_data' \in Nodes
  BY DEF FInv, FailedDiscardContained, Alive
<1>2. CASE ExitConfigFree
  BY <1>2, CliExitTop DEF ExitConfigFree, FInv, QuietClose
<1>3. CASE CmdDiscardChanges
  BY <1>1, <1>3, ValueAssumption DEF CmdDiscardChanges, FreeDataTreeAll, Fault
<1>4. CASE ExitSession \/ Quit \/ HangUp \/ Terminate \/ ShowConfigCandidate \/ Shutdown
  BY <1>4 DEF ExitSession, Quit, CliQuit, HangUp, Terminate, ShowConfigCandidate, Shutdown, Fault
<1>5. CASE Start
  BY <1>5 DEF Start, InSubmode
<1> QED BY <1>2, <1>3, <1>4, <1>5 DEF Ending

LEMMA PlaceStep ==
  ASSUME FInv, PlaceKnown, [ScopeNext]_scopeVars
  PROVE  PlaceKnown'
<1>1. FInv'
  BY ScopeIsSession, ContainedStep DEF scopeVars
<1>2. CASE LeafCommand
  BY <1>2 DEF LeafCommand, Leaf, Fault, cliVars, PlaceKnown, InSubmode
<1>3. CASE Comparing \/ Elsewhere
  BY <1>3 DEF Comparing, CommitRoot, ExitConfigRoot, Elsewhere, ExternalEdit, Fault,
              cliVars, dataVars, PlaceKnown, InSubmode, FInv, QuietClose
<1>4. CASE UNCHANGED scopeVars
  BY <1>4 DEF scopeVars, vars, PlaceKnown, InSubmode
<1> QED BY <1>1, <1>2, <1>3, <1>4, RootPlace, ListPlace, MovingPlace, EndingPlace DEF ScopeNext

-----------------------------------------------------------------------------

(* What a step has to keep when running stays as it is: where the          *)
(* candidate was changed, the node is among those named.                   *)
LEMMA SameRunning ==
  ASSUME ChangesNamed, session = "open", running' = running,
         named \subseteq named', foreign \subseteq foreign',
         \A r \in Roots : entry'[r] = "live" =>
           \A n \in Nodes : IsPrefix(r, n) =>
             \/ entry[r] = "live" /\ cand'[n] = cand[n]
             \/ cand'[n] = running[n]
             \/ n \in named'
  PROVE  ChangesNamed'
BY DEF ChangesNamed, Serving

LEMMA RootElement ==
  ASSUME FInv, NEW r \in Roots, NEW e \in {"null", "live", "freed"}, NewElement(r, e)
  PROVE  /\ entry[r] = "null" /\ cand[r] = Absent
         /\ entry'[r] = e
         /\ \A q \in Roots : q # r => entry'[q] = entry[q]
BY DEF NewElement, FInv, TypeOK, Loaded

LEMMA RootChanges ==
  ASSUME "read" \notin SysrepoFaults, FInv, ChangesNamed, RootCommand
  PROVE  ChangesNamed'
<1> SUFFICES ASSUME session' \in {"open", "leaving"}
             PROVE  ChangesNamed'
  BY DEF ChangesNamed, Serving
<1>1. session = "open" /\ running' = running /\ named \subseteq named' /\ foreign' = foreign
  BY DEF RootCommand, RootContainer, NoRootContainer, RootRejected, Ready, NewTo, Keeps
<1>2. CASE UNCHANGED <<entry, cand>>
  BY <1>1, <1>2, SameRunning
<1>3. ASSUME NEW r \in Roots, SnapshotRoot(r)
      PROVE  ChangesNamed'
  <2>1. /\ cand' = Graft(cand, running, r)
        /\ \A q \in Roots : q # r => entry'[q] = entry[q]
    BY <1>3, RootElement DEF SnapshotRoot
  <2> QED BY <1>1, <2>1, SameRunning DEF Graft
<1>4. ASSUME NEW r \in Roots, FreeSnapshot(r) \/ CreateAndFreeRoot(r)
      PROVE  ChangesNamed'
  <2>1. cand' = cand /\ \A q \in Roots : entry'[q] = "live" => entry[q] = "live"
    BY <1>4, RootElement DEF FreeSnapshot, CreateAndFreeRoot
  <2> QED BY <1>1, <2>1, SameRunning
<1>5. ASSUME NEW r \in Roots, CreateRoot(r),
             named' = named \cup NewTo(r, cand[r] # Absent \/ running[r] # Absent)
      PROVE  ChangesNamed'
  <2>1. /\ cand' = [cand EXCEPT ![r] = Blank] /\ cand[r] = Absent /\ running[r] = Absent
        /\ \A q \in Roots : q # r => entry'[q] = entry[q]
    BY <1>5, RootElement DEF CreateRoot, NothingRead
  <2>2. r \in named'
    BY <1>5, <2>1 DEF NewTo
  <2>3. \A n \in Nodes : IsPrefix(r, n) => cand[n] = Absent /\ running[n] = Absent
    BY <2>1, NothingBelow DEF FInv, TypeOK
  <2>4. \A n \in Nodes : n # r => cand'[n] = cand[n]
    BY <2>1, TreeParts DEF FInv, TypeOK
  <2> QED BY <1>1, <2>1, <2>2, <2>3, <2>4, SameRunning
<1>6. CASE RootRejected
  BY <1>2, <1>6 DEF RootRejected, dataVars
<1>7. ASSUME NEW r \in Roots, RootContainer(r),
             named' = named \cup NewTo(r, cand[r] # Absent \/ running[r] # Absent)
      PROVE  ChangesNamed'
  BY <1>2, <1>3, <1>5, <1>7 DEF RootContainer, RootFaults, AddRoot, FoundRoot
<1>8. ASSUME NEW r \in Roots, NoRootContainer(r)
      PROVE  ChangesNamed'
  BY <1>2, <1>3, <1>4, <1>8 DEF NoRootContainer, RootFaults, DeleteRoot, FoundRoot
<1> QED BY <1>6, <1>7, <1>8 DEF RootCommand

LEMMA ListChanges ==
  ASSUME FInv, PlaceKnown, ChangesNamed, ListCommand
  PROVE  ChangesNamed'
<1> SUFFICES ASSUME session' \in {"open", "leaving"}
             PROVE  ChangesNamed'
  BY DEF ChangesNamed, Serving
<1>1. PICK e \in Names :
        /\ \/ /\ ListEntry(e)
              /\ named' = named \cup NewTo(Append(place, e),
                                           /\ Append(place, e) \in Nodes
                                           /\ cand[Append(place, e)] # Absent)
           \/ /\ ListEntryMisplaced(e) \/ NoListEntry(e)
              /\ named' = named \cup Below(Append(place, e))
        /\ foreign' = foreign
  BY DEF ListCommand
<1>2. Ready /\ ListOffered(e) /\ Resolves(e)
  BY <1>1 DEF ListEntry, ListEntryMisplaced, NoListEntry, Fault
<1>3. place = parent_data /\ Append(place, e) \in Nodes
  BY <1>2, ListResolves DEF PlaceKnown, Ready, Resolves
<1>4. PICK c \in Nodes : c = Append(place, e)
  BY <1>3
<1>5. session = "open" /\ running' = running /\ entry' = entry
  BY <1>1, <1>2 DEF ListEntry, ListEntryMisplaced, NoListEntry, Ready
<1>6. named \subseteq named' /\ \A n \in Nodes : cand'[n] = cand[n] \/ n \in named'
  <2>1. CASE ListEntry(e) /\ named' = named \cup NewTo(c, c \in Nodes /\ cand[c] # Absent)
    <3>1. cand' = Touch(cand, c)
      BY <1>2, <1>3, <1>4, <2>1 DEF ListEntry, Fault
    <3>2. cand[c] = Absent => c \in named'
      BY <2>1 DEF NewTo
    <3> QED BY <2>1, <3>1, <3>2, TreeParts DEF Touch, FInv, TypeOK
  <2>2. CASE (ListEntryMisplaced(e) \/ NoListEntry(e)) /\ named' = named \cup Below(c)
    <3>1. cand' = Prune(cand, c)
      BY <1>2, <1>3, <1>4, <2>2 DEF ListEntryMisplaced, NoListEntry, Fault
    <3> QED BY <2>2, <3>1 DEF Prune, Below
  <2> QED BY <1>1, <1>4, <2>1, <2>2
<1> QED BY <1>1, <1>5, <1>6, SameRunning

LEMMA LeafChanges ==
  ASSUME FInv, PlaceKnown, ChangesNamed, LeafCommand
  PROVE  ChangesNamed'
<1> SUFFICES ASSUME session' \in {"open", "leaving"}
             PROVE  ChangesNamed'
  BY DEF ChangesNamed, Serving
<1>1. PICK v \in Values : Leaf(v)
  BY DEF LeafCommand
<1>2. Ready /\ LeafOffered /\ parent_data \in Nodes
  BY <1>1 DEF Leaf, Fault
<1>3. place = parent_data
  BY <1>2, LeafResolves, ValueAssumption DEF PlaceKnown, Ready
<1>4. /\ cand' = [cand EXCEPT ![parent_data] = v]
      /\ UNCHANGED <<entry, running>> /\ session = "open"
  BY <1>1, <1>2 DEF Leaf, Fault, Ready
<1>5. named' = named \cup {parent_data} /\ foreign' = foreign
  BY <1>3 DEF LeafCommand
<1>6. \A n \in Nodes : cand'[n] = cand[n] \/ n \in named'
  BY <1>4, <1>5, TreeParts DEF FInv, TypeOK
<1> QED BY <1>4, <1>5, <1>6, SameRunning

(* What a step of a commit does to running: nothing, or it brings the      *)
(* changes of one root.                                                    *)
LEMMA CommitWrites ==
  ASSUME FInv, CommitRoot, running' # running
  PROVE  /\ session = "open"
         /\ roots[at_root] \in Roots /\ entry[roots[at_root]] = "live"
         /\ running' = Graft(running, cand, roots[at_root])
<1>1. ApplyRoot(roots[at_root]) /\ session = "open"
  BY DEF CommitRoot, Fault, SkipRoot, RefuseRoot
<1>2. roots[at_root] \in Roots
  BY DEF CommitRoot, FInv, TypeOK
<1> QED BY <1>1, <1>2 DEF ApplyRoot, Dirty

(* The step refuses the root, or the root is as in running afterwards and  *)
(* nothing has changed elsewhere.                                          *)
LEMMA RootCommitted ==
  ASSUME "read" \notin SysrepoFaults, FInv, Comparing, Serving'
  PROVE  /\ Serving /\ UNCHANGED <<roots, entry, cand>>
         /\ roots[at_root] \in Roots
         /\ \/ /\ UNCHANGED <<running, named, foreign>>
               /\ RefuseRoot(roots[at_root]) /\ session' = "open"
            \/ /\ \A n \in Nodes : IsPrefix(roots[at_root], n)
                                   /\ entry[roots[at_root]] = "live" => cand[n] = running'[n]
               /\ \A q \in Roots, n \in Nodes : IsPrefix(q, n) /\ q # roots[at_root] =>
                    /\ running'[n] = running[n]
                    /\ n \in named => n \in named'
                    /\ n \in foreign => n \in foreign'
<1> DEFINE done == IF Dirty(roots[at_root]) /\ running' = running
                   THEN {} ELSE Below(roots[at_root])
<1>1. /\ Serving /\ at_root > 0
      /\ UNCHANGED <<roots, entry, cand>>
      /\ named' = named \ done /\ foreign' = foreign \ done
  BY DEF Comparing, CommitRoot, ExitConfigRoot, Fault, dataVars, Serving
<1>2. PICK r \in Roots : r = roots[at_root] /\ Loaded(r)
  BY <1>1, RangeOfRoots DEF FInv, TypeOK, Loaded
<1>5. running' # running => CommitRoot
  BY DEF Comparing, ExitConfigRoot, Fault, SkipRoot, RefuseRoot
<1>3. CASE Dirty(r) /\ running' = running
  <2>1. ~SkipRoot(r)
    BY <1>3 DEF SkipRoot, SeemsClean, Dirty
  <2>2. ~ApplyRoot(r)
    BY <1>3 DEF ApplyRoot, Graft, Dirty
  <2>3. RefuseRoot(r) /\ session' = "open"
    BY <1>2, <2>1, <2>2 DEF Comparing, CommitRoot, ExitConfigRoot, Fault, Serving
  <2> QED BY <1>1, <1>2, <1>3, <2>3
<1>4. CASE ~(Dirty(r) /\ running' = running)
  <2>1. done = Below(r)
    BY <1>2, <1>4
  <2>2. ASSUME NEW n \in Nodes, IsPrefix(r, n), entry[r] = "live"
        PROVE  cand[n] = running'[n]
    <3>1. CASE running' = running
      BY <1>2, <1>4, <2>2, <3>1 DEF Dirty
    <3>2. CASE running' # running
      BY <1>2, <1>5, <2>2, <3>2, CommitWrites DEF Graft
    <3> QED BY <3>1, <3>2
  <2>3. ASSUME NEW q \in Roots, NEW n \in Nodes, IsPrefix(q, n), q # r
        PROVE  running'[n] = running[n] /\ n \notin done
    <3>1. ~IsPrefix(r, n)
      BY <2>3, RootsApart
    <3> QED BY <1>2, <1>5, <2>1, <2>3, <3>1, CommitWrites DEF Graft, Below
  <2> QED BY <1>1, <1>2, <2>2, <2>3
<1> QED BY <1>3, <1>4

LEMMA ComparingChanges ==
  ASSUME "read" \notin SysrepoFaults, FInv, ChangesNamed, Comparing
  PROVE  ChangesNamed'
<1> SUFFICES ASSUME session' \in {"open", "leaving"}
             PROVE  ChangesNamed'
  BY DEF ChangesNamed, Serving
<1> QED BY RootCommitted DEF ChangesNamed, Serving

(* A candidate that was given up has no changes.                           *)
LEMMA EndingChanges ==
  ASSUME FInv, Ending
  PROVE  ChangesNamed'
<1> SUFFICES ASSUME Serving'
             PROVE  \A r \in Roots : entry'[r] # "live"
  BY DEF ChangesNamed
<1>1. CASE FreeDataTreeAll \/ Start
  BY <1>1 DEF FreeDataTreeAll, Start
<1>2. CASE ExitConfigFree \/ CmdDiscardChanges
  BY <1>1, <1>2 DEF ExitConfigFree, CmdDiscardChanges, Fault, Serving
<1>3. CASE ExitSession \/ Quit \/ HangUp \/ Terminate \/ ShowConfigCandidate \/ Shutdown
  BY <1>3 DEF ExitSession, Quit, CliQuit, HangUp, Terminate, ShowConfigCandidate, Shutdown,
              Fault, Serving
<1> QED BY <1>1, <1>2, <1>3 DEF Ending

LEMMA ChangesStep ==
  ASSUME "read" \notin SysrepoFaults, FInv, ScopeInv, [ScopeNext]_scopeVars
  PROVE  ChangesNamed'
<1>1. CASE Moving
  BY <1>1 DEF Moving, ExitSubmode, CtrlZ, Enable, Disable, ConfigureTerminal, CmdCommit,
              ExitConfig, Ready, Fault, Keeps, dataVars, ScopeInv, ChangesNamed, Serving
<1>2. CASE Elsewhere
  <2>1. /\ UNCHANGED <<entry, cand, session, named>>
        /\ foreign \subseteq foreign'
        /\ \A n \in Nodes : Copied(n) /\ running'[n] # running[n] => n \in foreign'
    BY <1>2 DEF Elsewhere, ExternalEdit, dataVars
  <2> QED BY <2>1 DEF Copied, ScopeInv, ChangesNamed, Serving
<1>3. CASE UNCHANGED scopeVars
  BY <1>3 DEF scopeVars, vars, ScopeInv, ChangesNamed, Serving
<1> QED BY <1>1, <1>2, <1>3, RootChanges, ListChanges, LeafChanges, ComparingChanges,
           EndingChanges DEF ScopeNext, ScopeInv

(* As long as sysrepo answers reads, a commit changes in running only what *)
(* the user has named and what another client has written to the root      *)
(* since it was taken, whatever the commands before it and whatever a      *)
(* refused commit or a refused discard has left.                           *)
THEOREM CommitKeepsTheRest ==
  ASSUME "read" \notin SysrepoFaults
  PROVE  ScopeSpec => CommitsOnlyNamed
<1> DEFINE Step == CommitRoot =>
                     \A n \in Nodes : running'[n] # running[n] => n \in named \cup foreign
<1>1. ScopeInit => Init /\ ScopeInv
  BY DEF ScopeInit, Init, ScopeInv, PlaceKnown, ChangesNamed, InSubmode
<1>2. [ScopeNext]_scopeVars => [Next]_vars
  BY ScopeIsSession DEF scopeVars
<1>3. FInv /\ ScopeInv /\ [ScopeNext]_scopeVars => ScopeInv'
  BY PlaceStep, ChangesStep DEF ScopeInv
<1>4. FInv /\ ScopeInv => Step
  <2> SUFFICES ASSUME FInv, ScopeInv, CommitRoot, NEW n \in Nodes, running'[n] # running[n]
               PROVE  n \in named \cup foreign
    OBVIOUS
  <2>1. /\ session = "open"
        /\ roots[at_root] \in Roots /\ entry[roots[at_root]] = "live"
        /\ running' = Graft(running, cand, roots[at_root])
    BY CommitWrites
  <2>2. IsPrefix(roots[at_root], n) /\ cand[n] # running[n]
    BY <2>1 DEF Graft
  <2> QED BY <2>1, <2>2 DEF ScopeInv, ChangesNamed, Serving
<1>5. ScopeSpec => Spec
  BY <1>1, <1>2, PTL DEF ScopeSpec, Spec
<1> QED BY <1>1, <1>3, <1>4, <1>5, ContainedInvariant, PTL DEF ScopeSpec, CommitsOnlyNamed

-----------------------------------------------------------------------------
(* What a commit achieves.                                                 *)

(* Candidate and running agree below root r, but for what other clients    *)
(* have written since.                                                     *)
Brought(r) ==
  entry[r] = "live" =>
    \A n \in Nodes : IsPrefix(r, n) /\ cand[n] # running[n] => n \in foreign

(* The elements that commit or exit has passed, or is about to free.       *)
Passed ==
  IF at_root > 0 THEN 1..(at_root - 1)
  ELSE IF session = "leaving" THEN 1..Len(roots) ELSE {}

(* They were as in running when they were passed.                          *)
PassedBrought == Serving => \A j \in Passed : Brought(roots[j])

(* A step of the walk that does not fault or give up brings its element.   *)
LEMMA WalkStep ==
  ASSUME "read" \notin SysrepoFaults, FInv, PassedBrought, Comparing, Serving',
         ~RefuseRoot(roots[at_root])
  PROVE  /\ at_root \in 1..Len(roots) /\ Len(roots) \in Nat
         /\ roots' = roots /\ at_root' = NextElement
         /\ \A j \in 1..at_root : Brought(roots[j])'
<1>1. /\ at_root \in 1..Len(roots) /\ Len(roots) \in Nat
      /\ \A j \in 1..Len(roots) : roots[j] \in Roots
  BY DEF Comparing, CommitRoot, ExitConfigRoot, FInv, TypeOK
<1>2. at_root' = NextElement
  BY DEF Comparing, CommitRoot, ExitConfigRoot, Fault, SkipRoot, ApplyRoot, Serving
<1>3. /\ Serving /\ UNCHANGED <<roots, entry, cand>>
      /\ \A n \in Nodes : IsPrefix(roots[at_root], n) /\ entry[roots[at_root]] = "live"
                            => cand[n] = running'[n]
      /\ \A q \in Roots, n \in Nodes : IsPrefix(q, n) /\ q # roots[at_root] =>
           running'[n] = running[n] /\ (n \in foreign => n \in foreign')
  BY RootCommitted
<1>4. ASSUME NEW j \in 1..at_root
      PROVE  Brought(roots[j])'
  <2>1. CASE roots[j] = roots[at_root]
    BY <1>3, <2>1 DEF Brought
  <2>2. CASE roots[j] # roots[at_root]
    <3>1. j \in 1..(at_root - 1) /\ roots[j] \in Roots /\ at_root > 0
      BY <1>1, <2>2
    <3>2. Brought(roots[j])
      BY <1>3, <3>1 DEF PassedBrought, Passed
    <3> QED BY <1>3, <2>2, <3>1, <3>2 DEF Brought
  <2> QED BY <2>1, <2>2
<1> QED BY <1>1, <1>2, <1>3, <1>4

(* A walk begins with the first element; nothing else goes on with one.    *)
LEMMA WalkBegins ==
  ASSUME FInv, ScopeNext, ~Comparing, ~Elsewhere, Serving'
  PROVE  at_root' = 1 \/ (at_root' = 0 /\ session' = "open")
<1>1. CASE RootCommand
  BY <1>1 DEF RootCommand, RootContainer, NoRootContainer, RootRejected, RootFaults, Ready,
              Serving
<1>2. CASE ListCommand
  BY <1>2 DEF ListCommand, ListEntry, ListEntryMisplaced, NoListEntry, Ready, Fault, Serving
<1>3. CASE LeafCommand
  BY <1>3 DEF LeafCommand, Leaf, Ready, Fault, Serving
<1>4. CASE Moving
  BY <1>4 DEF Moving, ExitSubmode, CtrlZ, Enable, Disable, ConfigureTerminal, CmdCommit,
              ExitConfig, Ready, Fault, Serving
<1>5. CASE Ending
  BY <1>5 DEF Ending, ExitConfigFree, CmdDiscardChanges, ExitSession, Quit, CliQuit, HangUp,
              Terminate, ShowConfigCandidate, Shutdown, Start, Ready, Fault, Serving
<1> QED BY <1>1, <1>2, <1>3, <1>4, <1>5 DEF ScopeNext

LEMMA PassedStep ==
  ASSUME "read" \notin SysrepoFaults, FInv, PassedBrought, [ScopeNext]_scopeVars
  PROVE  PassedBrought'
<1> SUFFICES ASSUME Serving', NEW j \in Passed'
             PROVE  Brought(roots[j])'
  BY DEF PassedBrought
<1>1. CASE UNCHANGED scopeVars
  BY <1>1 DEF scopeVars, vars, PassedBrought, Passed, Serving, Brought
<1>2. CASE Elsewhere
  <2>1. /\ UNCHANGED <<roots, entry, cand, session, at_root>>
        /\ foreign \subseteq foreign'
        /\ \A n \in Nodes : Copied(n) /\ running'[n] # running[n] => n \in foreign'
    BY <1>2 DEF Elsewhere, ExternalEdit, dataVars
  <2>2. roots[j] \in Roots /\ Brought(roots[j])
    <3>1. j \in Passed /\ Serving
      BY <2>1 DEF Passed, Serving
    <3>2. j \in 1..Len(roots)
      BY <3>1 DEF Passed, FInv, TypeOK
    <3> QED BY <3>1, <3>2 DEF PassedBrought, FInv, TypeOK
  <2> QED BY <2>1, <2>2 DEF Copied, Brought
<1>3. CASE Comparing /\ RefuseRoot(roots[at_root])
  <2>1. ~SkipRoot(roots[at_root])
    BY <1>3 DEF RefuseRoot, SkipRoot, SeemsClean, Dirty
  <2>2. at_root' = 0 /\ session' = "open"
    BY <1>3, <2>1 DEF Comparing, CommitRoot, ExitConfigRoot, RefuseRoot, Fault, Serving
  <2> QED BY <2>2 DEF Passed
<1>4. CASE Comparing /\ ~RefuseRoot(roots[at_root])
  <2>1. /\ at_root \in 1..Len(roots) /\ Len(roots) \in Nat
        /\ roots' = roots /\ at_root' = NextElement
        /\ \A i \in 1..at_root : Brought(roots[i])'
    BY <1>4, WalkStep
  <2>2. j \in 1..at_root
    BY <2>1 DEF Passed, NextElement
  <2> QED BY <2>1, <2>2
<1>5. CASE ScopeNext /\ ~Comparing /\ ~Elsewhere
  <2>1. at_root' = 1 \/ (at_root' = 0 /\ session' = "open")
    BY <1>5, WalkBegins
  <2> QED BY <2>1 DEF Passed
<1> QED BY <1>1, <1>2, <1>3, <1>4, <1>5

(* CommitScope is the session with PassedBrought beside its invariant.     *)
LEMMA PassedAlways ==
  ASSUME "read" \notin SysrepoFaults
  PROVE  ScopeSpec => [](FInv /\ PassedBrought)
<1>1. ScopeInit => Init /\ PassedBrought
  BY DEF ScopeInit, Init, PassedBrought, Passed
<1>2. [ScopeNext]_scopeVars => [Next]_vars
  BY ScopeIsSession DEF scopeVars
<1>3. FInv /\ PassedBrought /\ [ScopeNext]_scopeVars => PassedBrought'
  BY PassedStep
<1>4. ScopeSpec => Spec
  BY <1>1, <1>2, PTL DEF ScopeSpec, Spec
<1> QED BY <1>1, <1>3, <1>4, ContainedInvariant, PTL DEF ScopeSpec

(* As long as sysrepo answers reads, a commit has brought every root to    *)
(* running when it ends, or every root before the one that sysrepo         *)
(* refused, and what differs there then another client has written while   *)
(* the commit was at work.                                                 *)
THEOREM CommitBringsAll ==
  ASSUME "read" \notin SysrepoFaults
  PROVE  ScopeSpec => CommitEffective
<1> DEFINE Step == CommitRoot /\ at_root' = 0 =>
                     \A i \in 1..Len(roots) : (RefuseRoot(roots[at_root]) => i < at_root) =>
                       \A n \in Below(roots[i]) :
                         (Copied(n) /\ cand[n] # running[n])' => n \in foreign'
<1>1. FInv /\ PassedBrought /\ [ScopeNext]_scopeVars => [Step]_scopeVars
  <2> SUFFICES ASSUME FInv, PassedBrought, ScopeNext, CommitRoot, at_root' = 0,
                      NEW i \in 1..Len(roots), RefuseRoot(roots[at_root]) => i < at_root,
                      NEW n \in Below(roots[i]), Copied(n)', cand'[n] # running'[n]
               PROVE  n \in foreign'
    OBVIOUS
  <2>1. Serving' /\ Comparing
    <3>1. session = "open" /\ at_root > 0 /\ ~Ready
      BY DEF CommitRoot, Ready
    <3>2. session' = "open"
      BY <3>1 DEF CommitRoot, Fault
    <3>3. CASE RootCommand \/ ListCommand \/ LeafCommand \/ Moving
      BY <3>1, <3>3 DEF RootCommand, RootContainer, NoRootContainer, RootRejected,
           ListCommand, ListEntry, ListEntryMisplaced, NoListEntry, LeafCommand, Leaf,
           Moving, ExitSubmode, CtrlZ, Enable, Disable, ConfigureTerminal, CmdCommit,
           ExitConfig
    <3>4. CASE Ending
      BY <3>1, <3>2, <3>4 DEF Ending, ExitConfigFree, CmdDiscardChanges, ExitSession, Quit,
           HangUp, Terminate, ShowConfigCandidate, Shutdown, Start
    <3>5. CASE Elsewhere
      BY <3>1, <3>5 DEF Elsewhere, ExternalEdit
    <3> QED BY <3>2, <3>3, <3>4, <3>5 DEF ScopeNext, Serving
  <2>2. at_root \in 1..Len(roots) /\ roots[i] \in Roots /\ roots' = roots
    BY <2>1, RootCommitted DEF CommitRoot, FInv, TypeOK
  <2>3. Brought(roots[i])'
    <3>1. CASE ~RefuseRoot(roots[at_root])
      <4>1. /\ at_root \in 1..Len(roots) /\ Len(roots) \in Nat /\ at_root' = NextElement
            /\ \A j \in 1..at_root : Brought(roots[j])'
        BY <2>1, <3>1, WalkStep
      <4>2. i \in 1..at_root
        BY <4>1 DEF NextElement
      <4> QED BY <4>1, <4>2
    <3>2. CASE RefuseRoot(roots[at_root])
      <4>1. i \in 1..(at_root - 1) /\ at_root > 0
        BY <2>2, <3>2
      <4>2. Serving /\ Brought(roots[i])
        BY <4>1 DEF PassedBrought, Passed, Serving, CommitRoot
      <4>3. UNCHANGED <<roots, entry, cand, running, foreign>>
        BY <2>1, <3>2, RootCommitted DEF Comparing, RefuseRoot
      <4> QED BY <4>2, <4>3 DEF Brought
    <3> QED BY <3>1, <3>2
  <2>4. PICK r \in Roots : entry'[r] = "live" /\ IsPrefix(r, n)
    BY DEF Copied
  <2>5. n \in Nodes /\ r = roots[i]
    BY <2>2, <2>4, RootsApart DEF Below
  <2> QED BY <2>2, <2>3, <2>4, <2>5 DEF Brought, Below
<1> QED BY <1>1, PassedAlways, PTL DEF ScopeSpec, CommitEffective

-----------------------------------------------------------------------------
(* Uncommitted changes.                                                    *)

(* As long as sysrepo answers reads, a difference between a candidate and  *)
(* running is given up by discard-changes and with the process; exit gives *)
(* up only what another client has made since exit looked at the root, and *)
(* the deletion of another root gives up nothing.                          *)
THEOREM ChangesSurvive ==
  ASSUME "read" \notin SysrepoFaults
  PROVE  ScopeSpec => UncommittedSurvives
<1> DEFINE Step == \A r \in Roots : entry[r] = "live" /\ entry'[r] # "live" =>
                     \/ CmdDiscardChanges \/ Shutdown \/ Start
                     \/ \A n \in Below(r) :
                          cand[n] # running[n] => ExitConfigFree /\ n \in foreign
<1>1. FInv /\ PassedBrought /\ [Next]_vars => Step
  <2> SUFFICES ASSUME FInv, PassedBrought, [Next]_vars,
                      NEW r \in Roots, entry[r] = "live", entry'[r] # "live",
                      ~(CmdDiscardChanges \/ Shutdown \/ Start),
                      NEW n \in Below(r), cand[n] # running[n]
               PROVE  ExitConfigFree /\ n \in foreign
    OBVIOUS
  <2>1. ASSUME NEW q \in Roots, RootContainer(q) \/ NoRootContainer(q)
        PROVE  FALSE
    <3>1. \/ UNCHANGED entry
          \/ \E e \in {"null", "live", "freed"} : NewElement(q, e)
      BY <2>1 DEF RootContainer, NoRootContainer, RootFaults, AddRoot, DeleteRoot,
              FoundRoot, SnapshotRoot, FreeSnapshot, CreateRoot, CreateAndFreeRoot, dataVars
    <3> QED BY <3>1, RootElement
  <2>2. CASE ExitConfigFree
    <3>1. Serving /\ Passed = 1..Len(roots)
      BY <2>2 DEF ExitConfigFree, Serving, Passed
    <3>2. PICK i \in 1..Len(roots) : r = roots[i]
      BY DEF FInv, TypeOK, Loaded, Range
    <3> QED BY <2>2, <3>1, <3>2 DEF PassedBrought, Brought, Below
  <2>3. ASSUME NEW e \in Names, ListEntry(e) \/ ListEntryMisplaced(e) \/ NoListEntry(e)
        PROVE  UNCHANGED entry
    BY <2>3 DEF ListEntry, ListEntryMisplaced, NoListEntry, Fault
  <2>4. ASSUME NEW v \in Values, Leaf(v)
        PROVE  UNCHANGED entry
    BY <2>4 DEF Leaf, Fault
  <2>5. CASE \/ CmdCommit \/ CommitRoot \/ ExitConfig \/ ExitConfigRoot
             \/ ExitSubmode \/ ExitSession
             \/ Quit \/ RootRejected \/ HangUp \/ CtrlZ \/ Enable \/ Disable \/ ConfigureTerminal
             \/ ShowConfigCandidate \/ Terminate \/ ExternalEdit \/ UNCHANGED vars
    BY <2>5 DEF CmdCommit, CommitRoot, ExitConfig, ExitConfigRoot, ExitSubmode, ExitSession,
              Quit, RootRejected, HangUp, CtrlZ, Enable, Disable, ConfigureTerminal,
              ShowConfigCandidate, Terminate, ExternalEdit, Fault, dataVars, vars
  <2> QED BY <2>1, <2>2, <2>3, <2>4, <2>5 DEF Next
<1>2. [ScopeNext]_scopeVars => [Next]_vars
  BY ScopeIsSession DEF scopeVars
<1> QED BY <1>1, <1>2, PassedAlways, PTL DEF ScopeSpec, UncommittedSurvives
=============================================================================
