-------------------------- MODULE CommandLineProofs --------------------------
(***************************************************************************)
(* Proofs about CommandLine, for every set of commands, options and lines. *)
(*                                                                         *)
(* A length of an abbreviation is stored when it is computed and used much *)
(* later.  That it is still right is SessionOK: whatever the mode and the  *)
(* privilege went through, it is the one the lengths computed so far give. *)
(* The rest of the invariant follows a line through its lookup.            *)
(* What the client reads is the subject of the last part: Piped says how   *)
(* the filters, what was printed and what was read belong together.        *)
(***************************************************************************)
EXTENDS CommandLine, FiniteSetTheorems, SequenceTheorems, WellFoundedInduction, TLAPS

-----------------------------------------------------------------------------
(* Least and greatest numbers.                                             *)

(* A non-empty set of numbers has a least one.                             *)
LEMMA Smallest ==
  ASSUME NEW S, S \subseteq Nat, S # {}
  PROVE  \E m \in S : \A k \in S : m <= k
<1> DEFINE R == {s \in Nat \X Nat : s[1] < s[2]}
<1>1. IsWellFoundedOn(R, Nat)
  BY NatLessThanWellFounded DEF OpToRel
<1>2. PICK m \in S : \A k \in S : ~(<<k, m>> \in R)
  BY <1>1, WFMin
<1>3. \A k \in S : k \in Nat /\ ~(k < m)
  BY <1>2
<1> QED BY <1>3

(* Which is the one that Min chooses.                                      *)
LEMMA MinFacts ==
  ASSUME NEW S, S \subseteq Nat, S # {}
  PROVE  Min(S) \in S /\ \A k \in S : Min(S) <= k
BY Smallest DEF Min

(* A non-empty set of numbers up to n has a greatest one.                  *)
LEMMA Greatest ==
  ASSUME NEW n \in Nat, NEW S, S \subseteq 0..n, S # {}
  PROVE  \E m \in S : \A k \in S : k <= m
<1> DEFINE T == {n - k : k \in S}
<1>1. T \subseteq Nat /\ T # {}
  OBVIOUS
<1> HIDE DEF T
<1>2. PICK t \in T : \A u \in T : t <= u
  BY <1>1, Smallest
<1>3. PICK m \in S : t = n - m
  BY DEF T
<1>4. ASSUME NEW k \in S PROVE k <= m
  <2>1. n - k \in T
    BY DEF T
  <2>2. n - m <= n - k
    BY <1>2, <1>3, <2>1
  <2>3. k \in Int /\ m \in Int
    OBVIOUS
  <2> QED BY <2>2, <2>3
<1> QED BY <1>4

(* Which is the one that Max finds by folding, for every finite set.       *)
LEMMA MaxFacts ==
  ASSUME NEW S, S \subseteq Nat, S # {}, IsFiniteSet(S)
  PROVE  Max(S) \in S /\ \A k \in S : k <= Max(S)
<1> DEFINE n == Cardinality(S)
<1>1. n \in Nat /\ ExistsBijection(1..n, S)
  BY FS_CardinalityType
<1>2. n # 0
  BY FS_EmptySet
<1> HIDE DEF n
<1>3. PICK f : f \in Bijection(1..n, S)
  BY <1>1 DEF ExistsBijection
<1>4. f \in [1..n -> S] /\ \A s \in S : \E i \in 1..n : f[i] = s
  BY <1>3 DEF Bijection, Injection, Surjection
<1> DEFINE U == {k \in 1..n : \E m \in S : \A j \in 1..k : f[j] <= m}
<1>5. U \subseteq 0..n /\ U # {}
  <2>1. 1 \in 1..n /\ f[1] \in S
    BY <1>1, <1>2, <1>4
  <2>2. \A j \in 1..1 : f[j] <= f[1]
    <3>1. \A j \in 1..1 : j = 1
      OBVIOUS
    <3>2. f[1] \in Nat
      BY <2>1
    <3>3. f[1] <= f[1]
      BY <3>2
    <3> QED BY <3>1, <3>3
  <2>3. 1 \in U
    BY <2>1, <2>2
  <2> QED BY <1>1, <2>3
<1>6. PICK k \in U : \A j \in U : j <= k
  <2> HIDE DEF U
  <2> QED BY <1>1, <1>5, Greatest
<1>7. PICK m \in S : \A j \in 1..k : f[j] <= m
  OBVIOUS
<1>8. k = n
  <2> SUFFICES ASSUME k # n PROVE FALSE
    OBVIOUS
  <2>1. k + 1 \in 1..n /\ f[k + 1] \in S /\ k \in Nat
    BY <1>1, <1>4
  <2> DEFINE g == IF f[k + 1] <= m THEN m ELSE f[k + 1]
  <2>2. g \in S /\ m <= g /\ f[k + 1] <= g /\ g \in Nat /\ m \in Nat
    <3>1. m \in Nat /\ m \in S /\ f[k + 1] \in Nat
      BY <2>1
    <3>2. CASE f[k + 1] <= m
      BY <2>1, <3>1, <3>2
    <3>3. CASE ~(f[k + 1] <= m)
      BY <2>1, <3>1, <3>3
    <3> QED BY <3>2, <3>3
  <2> HIDE DEF g
  <2>3. \A j \in 1..(k + 1) : f[j] <= g
    <3> SUFFICES ASSUME NEW j \in 1..(k + 1) PROVE f[j] <= g
      OBVIOUS
    <3>1. CASE j = k + 1
      BY <2>2, <3>1
    <3>2. CASE j # k + 1
      <4>1. j \in 1..k /\ j \in 1..n
        BY <2>1, <3>2, <1>1
      <4>2. f[j] <= m /\ f[j] \in Nat
        BY <1>4, <1>7, <4>1
      <4> QED BY <2>2, <4>2
    <3> QED BY <3>1, <3>2
  <2>4. k + 1 \in U
    BY <2>1, <2>2, <2>3
  <2>5. k + 1 <= k
    BY <1>6, <2>4
  <2> QED BY <2>1, <2>5
<1>9. \A s \in S : s <= m
  BY <1>4, <1>7, <1>8
<1> QED BY <1>9 DEF Max

-----------------------------------------------------------------------------
(* Words and their beginnings.                                             *)

(* Every word begins with nothing, and with itself.                        *)
LEMMA PrefixFacts ==
  ASSUME NEW w \in Words, NEW a \in Words
  PROVE  /\ IsPrefix(w, a) <=> Len(w) <= Len(a) /\ w = SubSeq(a, 1, Len(w))
         /\ IsPrefix(<<>>, a)
         /\ IsPrefix(a, a)
<1> USE DEF Words
<1>1. SubSeq(w, 1, Len(w)) = w /\ SubSeq(a, 1, Len(a)) = a
  OBVIOUS
<1>2. SubSeq(<<>>, 1, 0) = <<>> /\ SubSeq(a, 1, 0) = <<>> /\ Len(<<>>) = 0
  OBVIOUS
<1> QED BY <1>1, <1>2 DEF IsPrefix

(* A common beginning is shorter than the count of cli_build_shortest.     *)
LEMMA UniqueFromFacts ==
  ASSUME NEW a \in Words, NEW b \in Words
  PROVE  /\ UniqueFrom(a, b) \in 1..(Len(a) + 1)
         /\ \A w \in Words : IsPrefix(w, a) /\ IsPrefix(w, b) => Len(w) < UniqueFrom(a, b)
<1> DEFINE U == {n \in 1..(Len(a) + 1) : IsPrefix(SubSeq(a, 1, n - 1), b)}
<1>0. Len(a) \in Nat
  BY DEF Words
<1>1. 1 \in U
  <2>1. SubSeq(a, 1, 1 - 1) = <<>>
    <3>1. SubSeq(a, 1, 0) = <<>>
      BY DEF Words
    <3> QED BY <3>1
  <2>2. IsPrefix(<<>>, b)
    BY PrefixFacts
  <2>3. 1 \in 1..(Len(a) + 1)
    BY <1>0
  <2>4. IsPrefix(SubSeq(a, 1, 1 - 1), b)
    BY <2>1, <2>2
  <2> QED BY <2>3, <2>4
<1>2. U \subseteq Nat /\ U # {} /\ U \subseteq 1..(Len(a) + 1)
  BY <1>0, <1>1
<1>3. IsFiniteSet(U)
  <2>1. IsFiniteSet(1..(Len(a) + 1))
    BY <1>0, FS_Interval
  <2> HIDE DEF U
  <2> QED BY <1>2, <2>1, FS_Subset
<1> HIDE DEF U
<1>4. Max(U) \in U /\ \A k \in U : k <= Max(U)
  BY <1>2, <1>3, MaxFacts
<1>5. UniqueFrom(a, b) = Max(U)
  BY DEF U, UniqueFrom
<1>6. ASSUME NEW w \in Words, IsPrefix(w, a), IsPrefix(w, b)
      PROVE  Len(w) < UniqueFrom(a, b)
  <2>1. Len(w) \in Nat /\ Len(w) <= Len(a) /\ w = SubSeq(a, 1, Len(w))
    BY <1>6, PrefixFacts DEF Words
  <2>2. Len(w) + 1 \in 1..(Len(a) + 1) /\ (Len(w) + 1) - 1 = Len(w)
    BY <1>0, <2>1
  <2>3. SubSeq(a, 1, (Len(w) + 1) - 1) = w
    BY <2>1, <2>2
  <2>4. Len(w) + 1 \in U
    BY <1>6, <2>2, <2>3 DEF U
  <2>5. Len(w) + 1 <= Max(U) /\ Max(U) \in Nat
    BY <1>2, <1>4, <2>4
  <2> QED BY <1>5, <2>1, <2>5
<1> QED BY <1>2, <1>4, <1>5, <1>6

-----------------------------------------------------------------------------
(* The length of an abbreviation.                                          *)

(* The types of what is looked at in a command.                            *)
LEMMA CmdFacts ==
  ASSUME NEW c \in Commands
  PROVE  /\ Cmd[c].name \in Words /\ Cmd[c].name # <<>>
         /\ Cmd[c].under \in Commands \cup {Top} /\ Cmd[c].under < c /\ c \in Nat
         /\ Cmd[c].mode \in Int /\ Cmd[c].privilege \in Nat
         /\ Len(Cmd[c].name) \in Nat \ {0}
<1>1. /\ Cmd[c].name \in Words \ {<<>>}
      /\ Cmd[c].under \in Commands \cup {Top} /\ Cmd[c].under < c /\ c \in Nat
      /\ Cmd[c].mode \in Int /\ Cmd[c].privilege \in Nat
  BY CommandAssumption
<1>2. Len(Cmd[c].name) \in Nat \ {0}
  BY <1>1, EmptySeq DEF Words
<1> QED BY <1>1, <1>2

(* The counts of two commands.                                             *)
LEMMA AgreementFacts ==
  ASSUME NEW c \in Commands, NEW d \in Commands
  PROVE  /\ Agreement[c][d] \in 1..(Len(Cmd[c].name) + 1)
         /\ \A w \in Words :
              IsPrefix(w, Cmd[c].name) /\ IsPrefix(w, Cmd[d].name) => Len(w) < Agreement[c][d]
<1>1. Agreement[c][d] = UniqueFrom(Cmd[c].name, Cmd[d].name)
  BY DEF Agreement
<1>2. Cmd[c].name \in Words /\ Cmd[d].name \in Words
  BY CmdFacts
<1> QED BY <1>1, <1>2, UniqueFromFacts

(* Those compared with are of one chain and type, and offered.             *)
LEMMA PeersFacts ==
  ASSUME NEW c \in Commands, NEW reg, NEW m, NEW p, NEW d
  PROVE  d \in OfferedPeers(c, reg, m, p) <=>
           /\ d \in Commands /\ d # c /\ d \in reg
           /\ Cmd[d].under = Cmd[c].under /\ Cmd[d].type = Cmd[c].type
           /\ Offered(d, m, p)
BY DEF OfferedPeers, Siblings

(* No count is above the one that is stored.                               *)
LEMMA LongestFacts ==
  ASSUME NEW c \in Commands, NEW D, D \subseteq Commands
  PROVE  /\ Longest(c, D) \in Nat \ {0}
         /\ \A d \in D : Agreement[c][d] <= Longest(c, D)
<1> DEFINE L == Len(Cmd[c].name) + 1
           B == {n \in 1..L : \A d \in D : Agreement[c][d] <= n}
<1>0. L \in Nat /\ L >= 1
  BY CmdFacts
<1>1. \A d \in D : Agreement[c][d] \in 1..L
  BY AgreementFacts
<1> HIDE DEF L
<1>2. L \in B
  BY <1>0, <1>1
<1>3. B \subseteq Nat /\ B # {}
  BY <1>0, <1>2
<1>4. PICK n \in B : \A k \in B : n <= k
  <2> HIDE DEF B
  <2> QED BY <1>3, Smallest
<1>5. n = 1 \/ \E d \in D : Agreement[c][d] = n
  <2> SUFFICES ASSUME n # 1 PROVE \E d \in D : Agreement[c][d] = n
    OBVIOUS
  <2>1. n \in 1..L /\ n - 1 \in 1..L
    BY <1>0
  <2>2. n - 1 \notin B
    <3>1. ~(n <= n - 1)
      BY <2>1
    <3> HIDE DEF B
    <3> QED BY <1>4, <3>1
  <2>3. PICK d \in D : ~(Agreement[c][d] <= n - 1)
    BY <2>1, <2>2
  <2>4. Agreement[c][d] <= n /\ Agreement[c][d] \in 1..L
    BY <1>1
  <2>5. Agreement[c][d] = n
    BY <1>0, <2>1, <2>3, <2>4
  <2> QED BY <2>5
<1> DEFINE Q(u) == (\A d \in D : Agreement[c][d] <= u) /\ (u = 1 \/ \E d \in D : Agreement[c][d] = u)
<1>6. \E u \in 1..L : Q(u)
  BY <1>5
<1>7. Longest(c, D) = CHOOSE u \in 1..L : Q(u)
  BY DEF Longest, L
<1> HIDE DEF Q
<1>8. Longest(c, D) \in 1..L /\ Q(Longest(c, D))
  BY <1>6, <1>7
<1> USE DEF Q
<1> QED BY <1>0, <1>8

(* So a command that is offered gets a length above every common           *)
(* beginning; one that is not gets that of its name.                       *)
LEMMA UniqueLenFacts ==
  ASSUME NEW c \in Commands, NEW reg, NEW m, NEW p
  PROVE  /\ UniqueLen(c, reg, m, p) \in Nat \ {0}
         /\ ~Offered(c, m, p) => UniqueLen(c, reg, m, p) = Len(Cmd[c].name)
         /\ Offered(c, m, p) =>
              \A d \in OfferedPeers(c, reg, m, p) : Agreement[c][d] <= UniqueLen(c, reg, m, p)
<1>1. OfferedPeers(c, reg, m, p) \subseteq Commands
  BY PeersFacts
<1> QED BY <1>1, LongestFacts, CmdFacts DEF UniqueLen

(* What LengthsExact says, of any commands and lengths. *)
Exact(reg, len, m, p) ==
  LET counted == {c \in reg : len[c] # 0}
  IN \A c \in counted : Reached(c, m, p) => len[c] = UniqueLen(c, counted, m, p)

(* The commands above a command have its mode, or any.                     *)
LEMMA AboveFacts ==
  ASSUME NEW c \in Commands
  PROVE  /\ Cmd[c].under = Top => Cmd[c].above = {}
         /\ Cmd[c].under # Top => Cmd[c].above = Cmd[Cmd[c].under].above \cup {Cmd[c].under}
         /\ \A d \in Cmd[c].above : Cmd[d].mode \in {MODE_ANY, Cmd[c].mode}
<1>1. Cmd[c].above =
        IF Cmd[c].under = Top THEN {} ELSE Cmd[Cmd[c].under].above \cup {Cmd[c].under}
  BY CommandAssumption
<1>2. \A d \in Cmd[c].above : Cmd[d].mode \in {MODE_ANY, Cmd[c].mode}
  BY CommandAssumption
<1> QED BY <1>1, <1>2

(* cli_build_shortest comes to all of a chain or to nothing of it.         *)
LEMMA ReachedBeside ==
  ASSUME NEW c \in Commands, NEW d \in Commands, Cmd[c].under = Cmd[d].under, NEW m, NEW p
  PROVE  Reached(c, m, p) <=> Reached(d, m, p)
<1>1. Cmd[c].above = Cmd[d].above
  BY AboveFacts
<1> QED BY <1>1 DEF Reached

(* Its result is exact: where it comes, of what it has counted now.        *)
LEMMA BuiltFacts ==
  ASSUME NEW len \in [Commands -> Nat], NEW reg, reg \subseteq Commands, NEW m, NEW p
  PROVE  LET b == BuildShortest(len, reg, m, p)
         IN /\ b \in [Commands -> Nat]
            /\ Exact(reg, b, m, p)
            /\ \A c \in reg : Reached(c, m, p) => b[c] # 0
            /\ (\A c \in Commands \ reg : len[c] = 0) => \A c \in Commands \ reg : b[c] = 0
<1> DEFINE b == BuildShortest(len, reg, m, p)
<1>1. /\ b \in [Commands -> Nat]
      /\ \A c \in Commands :
           b[c] = IF c \in reg /\ Reached(c, m, p) THEN UniqueLen(c, reg, m, p) ELSE len[c]
  BY UniqueLenFacts DEF BuildShortest
<1> HIDE DEF b
<1>2. \A c \in reg : Reached(c, m, p) => b[c] # 0
  BY <1>1, UniqueLenFacts
<1> DEFINE counted == {c \in reg : b[c] # 0}
<1>3. ASSUME NEW c \in counted, Reached(c, m, p)
      PROVE  b[c] = UniqueLen(c, counted, m, p)
  <2>1. OfferedPeers(c, reg, m, p) = OfferedPeers(c, counted, m, p)
    <3>1. c \in Commands
      OBVIOUS
    <3>2. ASSUME NEW d \in OfferedPeers(c, reg, m, p)
          PROVE  d \in OfferedPeers(c, counted, m, p)
      <4>1. /\ d \in Commands /\ d # c /\ d \in reg
            /\ Cmd[d].under = Cmd[c].under /\ Cmd[d].type = Cmd[c].type
            /\ Offered(d, m, p)
        BY <3>1, <3>2, PeersFacts
      <4>2. b[d] # 0
        BY <1>2, <1>3, <3>1, <4>1, ReachedBeside
      <4>3. d \in counted
        BY <4>1, <4>2
      <4> HIDE DEF counted
      <4> QED BY <3>1, <4>1, <4>3, PeersFacts
    <3>3. ASSUME NEW d \in OfferedPeers(c, counted, m, p)
          PROVE  d \in OfferedPeers(c, reg, m, p)
      <4>1. /\ d \in Commands /\ d # c /\ d \in counted
            /\ Cmd[d].under = Cmd[c].under /\ Cmd[d].type = Cmd[c].type
            /\ Offered(d, m, p)
        <5> HIDE DEF counted
        <5> QED BY <3>1, <3>3, PeersFacts
      <4>2. d \in reg
        BY <4>1
      <4> QED BY <3>1, <4>1, <4>2, PeersFacts
    <3> HIDE DEF counted
    <3> QED BY <3>2, <3>3
  <2>2. b[c] = UniqueLen(c, reg, m, p)
    BY <1>1, <1>3
  <2> HIDE DEF counted
  <2> QED BY <2>1, <2>2 DEF UniqueLen
<1>4. Exact(reg, b, m, p)
  BY <1>3 DEF Exact
<1> QED BY <1>1, <1>2, <1>4 DEF b

(* A word that is accepted for a command, and begins another one offered   *)
(* beside it, is its whole name.                                           *)
LEMMA NamedBeside ==
  ASSUME NEW len \in [Commands -> Nat], NEW reg, reg \subseteq Commands, NEW m, NEW p,
         Exact(reg, len, m, p),
         NEW c \in reg, NEW d \in reg, c # d,
         Cmd[c].under = Cmd[d].under, Cmd[c].type = Cmd[d].type,
         Offered(c, m, p), Offered(d, m, p), Reached(c, m, p),
         len[c] # 0, len[d] # 0,
         NEW w \in Words, Names(w, c, len), IsPrefix(w, Cmd[d].name)
  PROVE  w = Cmd[c].name
<1> DEFINE counted == {e \in reg : len[e] # 0}
<1>1. len[c] = UniqueLen(c, counted, m, p)
  BY DEF Exact
<1>2. d \in counted
  OBVIOUS
<1> HIDE DEF counted
<1>3. d \in OfferedPeers(c, counted, m, p)
  BY <1>2, PeersFacts
<1>4. Agreement[c][d] <= len[c]
  BY <1>1, <1>3, UniqueLenFacts
<1>5. IsPrefix(w, Cmd[c].name)
  BY DEF Names
<1>6. Len(w) < Agreement[c][d] /\ Agreement[c][d] \in 1..(Len(Cmd[c].name) + 1)
  BY <1>5, AgreementFacts
<1>7. Len(w) \in Nat /\ len[c] \in Nat /\ Len(Cmd[c].name) \in Nat
  BY CmdFacts DEF Words
<1>8. ~(Len(w) >= len[c])
  BY <1>4, <1>6, <1>7
<1> QED BY <1>8 DEF Names

(* One that is accepted for a command that is not offered as well.         *)
LEMMA NamedElsewhere ==
  ASSUME NEW len \in [Commands -> Nat], NEW reg, reg \subseteq Commands, NEW m, NEW p,
         Exact(reg, len, m, p),
         NEW c \in reg, ~Offered(c, m, p), Reached(c, m, p), len[c] # 0,
         NEW w \in Words, Names(w, c, len)
  PROVE  w = Cmd[c].name
<1> DEFINE counted == {e \in reg : len[e] # 0}
<1>1. len[c] = UniqueLen(c, counted, m, p)
  BY DEF Exact
<1>2. len[c] = Len(Cmd[c].name)
  BY <1>1, UniqueLenFacts
<1>3. SUFFICES ASSUME Len(w) >= Len(Cmd[c].name)
               PROVE  w = Cmd[c].name
  BY <1>2 DEF Names
<1>4. IsPrefix(w, Cmd[c].name) /\ Cmd[c].name \in Words
  BY CmdFacts DEF Names
<1>5. w = SubSeq(Cmd[c].name, 1, Len(w))
  BY <1>4, PrefixFacts
<1>6. Len(w) <= Len(Cmd[c].name)
  BY <1>4, PrefixFacts
<1>7. Len(w) = Len(Cmd[c].name)
  <2>1. Len(w) \in Nat /\ Len(Cmd[c].name) \in Nat
    BY <1>4 DEF Words
  <2> QED BY <1>3, <1>6, <2>1
<1>8. SubSeq(Cmd[c].name, 1, Len(Cmd[c].name)) = Cmd[c].name
  BY <1>4 DEF Words
<1> QED BY <1>5, <1>7, <1>8

-----------------------------------------------------------------------------
(* The lookup of a word.                                                   *)

(* The command found is one of those given; it is one of the mode, or one  *)
(* of MODE_CONFIG for which the lookup leaves the mode.                    *)
LEMMA LocateFacts ==
  ASSUME NEW S, S \subseteq Commands, NEW m \in Int
  PROVE  /\ Locate(S, m) \in S \cup {NoCommand}
         /\ ~LeavesSubmode(S, m) /\ Locate(S, m) # NoCommand =>
              Cmd[Locate(S, m)].mode \in {MODE_ANY, m}
         /\ LeavesSubmode(S, m) =>
              /\ Locate(S, m) # NoCommand
              /\ m > MODE_CONFIG /\ Cmd[Locate(S, m)].mode = MODE_CONFIG
<1>0. S \subseteq Nat /\ IsFiniteSet(S) /\ NoCommand \notin S
  <2>1. IsFiniteSet(S)
    BY CommandAssumption, FS_Subset
  <2>2. Commands \subseteq Nat
    BY CommandAssumption
  <2> QED BY <2>1, <2>2 DEF NoCommand
<1>1. ASSUME NEW T, T \subseteq S, T # {}
      PROVE  Min(T) \in T /\ Max(T) \in T
  <2>1. IsFiniteSet(T)
    BY <1>0, <1>1, FS_Subset
  <2>2. T \subseteq Nat
    BY <1>0, <1>1
  <2> QED BY <1>1, <2>1, <2>2, MinFacts, MaxFacts
<1> DEFINE A == TakenInLoop(S, m)
           B == AgainConfig(S, m)
           C == AgainAny(S)
<1>2. A \subseteq S /\ \A c \in A : Cmd[c].mode \in {MODE_ANY, m}
  BY DEF TakenInLoop
<1>3. B \subseteq S /\ \A c \in B : m > MODE_CONFIG /\ Cmd[c].mode = MODE_CONFIG
  BY DEF AgainConfig
<1>4. C \subseteq S /\ \A c \in C : Cmd[c].mode = MODE_ANY
  BY DEF AgainAny
<1>5. LeavesSubmode(S, m) <=> A = {} /\ B # {}
  BY DEF LeavesSubmode
<1>6. Locate(S, m) = IF A # {} THEN Min(A) ELSE IF B # {} THEN Max(B)
                     ELSE IF C # {} THEN Max(C) ELSE NoCommand
  BY DEF Locate
<1> HIDE DEF A, B, C
<1>7. CASE A # {}
  <2>1. Min(A) \in A
    BY <1>1, <1>2, <1>7
  <2>2. Locate(S, m) = Min(A)
    BY <1>6, <1>7
  <2> QED BY <1>2, <1>5, <1>7, <2>1, <2>2
<1>8. CASE A = {} /\ B # {}
  <2>1. Max(B) \in B
    BY <1>1, <1>3, <1>8
  <2>2. Locate(S, m) = Max(B)
    BY <1>6, <1>8
  <2> QED BY <1>0, <1>3, <1>5, <1>8, <2>1, <2>2
<1>9. CASE A = {} /\ B = {} /\ C # {}
  <2>1. Max(C) \in C
    BY <1>1, <1>4, <1>9
  <2>2. Locate(S, m) = Max(C)
    BY <1>6, <1>9
  <2> QED BY <1>4, <1>5, <1>9, <2>1, <2>2
<1>10. CASE A = {} /\ B = {} /\ C = {}
  BY <1>5, <1>6, <1>10
<1> QED BY <1>7, <1>8, <1>9, <1>10

-----------------------------------------------------------------------------
(* Stages.                                                                 *)

(* Stages.                                                                 *)
(***************************************************************************)

(* The pipes up to a place.                                                *)
SeparatorsTo(ws, n) == {j \in Separators(ws) : j <= n}

(* There are finitely many, no more than there are places.                 *)
LEMMA SeparatorsFacts ==
  ASSUME NEW ws \in Seq(Words)
  PROVE  /\ Len(ws) \in Nat
         /\ Separators(ws) \subseteq 1..Len(ws)
         /\ Cardinality(Separators(ws)) \in Nat
         /\ SeparatorsTo(ws, 0) = {}
         /\ SeparatorsTo(ws, Len(ws)) = Separators(ws)
         /\ \A n \in Nat :
              /\ IsFiniteSet(SeparatorsTo(ws, n))
              /\ Cardinality(SeparatorsTo(ws, n)) \in Nat
              /\ n + 1 \in Separators(ws) =>
                   Cardinality(SeparatorsTo(ws, n + 1)) = Cardinality(SeparatorsTo(ws, n)) + 1
              /\ n + 1 \notin Separators(ws) =>
                   SeparatorsTo(ws, n + 1) = SeparatorsTo(ws, n)
<1> DEFINE Seps == Separators(ws)
<1>1. Len(ws) \in Nat /\ Seps \subseteq 1..Len(ws)
  BY DEF Separators
<1> HIDE DEF Seps
<1>2. IsFiniteSet(Seps)
  <2>1. IsFiniteSet(1..Len(ws))
    BY <1>1, FS_Interval
  <2> QED BY <1>1, <2>1, FS_Subset
<1>3. Cardinality(Seps) \in Nat
  BY <1>2, FS_CardinalityType
<1>4. SeparatorsTo(ws, 0) = {} /\ SeparatorsTo(ws, Len(ws)) = Seps
  BY <1>1 DEF SeparatorsTo, Seps
<1>5. ASSUME NEW n \in Nat
      PROVE  /\ IsFiniteSet(SeparatorsTo(ws, n))
             /\ Cardinality(SeparatorsTo(ws, n)) \in Nat
             /\ n + 1 \in Seps =>
                  Cardinality(SeparatorsTo(ws, n + 1)) = Cardinality(SeparatorsTo(ws, n)) + 1
             /\ n + 1 \notin Seps => SeparatorsTo(ws, n + 1) = SeparatorsTo(ws, n)
  <2> DEFINE T == SeparatorsTo(ws, n)
  <2>1. T \subseteq Seps
    BY DEF SeparatorsTo, Seps
  <2>2. IsFiniteSet(T)
    <3> HIDE DEF T
    <3> QED BY <1>2, <2>1, FS_Subset
  <2>3. Cardinality(T) \in Nat
    BY <2>2, FS_CardinalityType
  <2>4. \A j \in Seps : j <= n + 1 <=> (j <= n \/ j = n + 1)
    BY <1>1
  <2>5. n + 1 \notin Seps => SeparatorsTo(ws, n + 1) = T
    BY <2>4 DEF SeparatorsTo, Seps
  <2>6. ASSUME n + 1 \in Seps
        PROVE  Cardinality(SeparatorsTo(ws, n + 1)) = Cardinality(T) + 1
    <3>1. SeparatorsTo(ws, n + 1) = T \cup {n + 1}
      BY <2>4, <2>6 DEF SeparatorsTo, Seps
    <3>2. n + 1 \notin T
      BY DEF SeparatorsTo
    <3> HIDE DEF T
    <3> QED BY <2>2, <3>1, <3>2, FS_AddElement
  <2> QED BY <2>2, <2>3, <2>5, <2>6
<1> QED BY <1>1, <1>3, <1>4, <1>5 DEF Seps

(* The n-th of them is a place, behind the ones before it.                 *)
LEMMA SeparatorFacts ==
  ASSUME NEW ws \in Seq(Words), NEW k \in 1..Cardinality(Separators(ws))
  PROVE  Separator(ws, k) \in 1..Len(ws)
<1> DEFINE B == {n \in Nat : k <= Cardinality(SeparatorsTo(ws, n))}
<1>0. Cardinality(Separators(ws)) \in Nat /\ k \in Nat /\ k >= 1
  BY SeparatorsFacts
<1>1. Len(ws) \in B
  BY SeparatorsFacts
<1>2. PICK n \in B : \A i \in B : n <= i
  <2>1. B \subseteq Nat /\ B # {}
    BY <1>1
  <2> HIDE DEF B
  <2> QED BY <2>1, Smallest
<1>3. n # 0
  <2>1. Cardinality(SeparatorsTo(ws, 0)) = 0
    BY SeparatorsFacts, FS_EmptySet
  <2> QED BY <1>0, <2>1
<1>4. n - 1 \in Nat /\ (n - 1) + 1 = n /\ n \in Nat
  BY <1>3
<1>5. n - 1 \notin B
  <2>1. ~(n <= n - 1)
    BY <1>4
  <2> HIDE DEF B
  <2> QED BY <1>2, <2>1
<1>6. ~(k <= Cardinality(SeparatorsTo(ws, n - 1)))
  BY <1>4, <1>5
<1>7. n \in Separators(ws)
  <2> SUFFICES ASSUME n \notin Separators(ws) PROVE FALSE
    OBVIOUS
  <2>1. SeparatorsTo(ws, n) = SeparatorsTo(ws, n - 1)
    BY <1>4, SeparatorsFacts
  <2> QED BY <1>6, <2>1
<1>8. /\ Cardinality(SeparatorsTo(ws, n)) = Cardinality(SeparatorsTo(ws, n - 1)) + 1
      /\ Cardinality(SeparatorsTo(ws, n - 1)) \in Nat
  BY <1>4, <1>7, SeparatorsFacts
<1>9. Cardinality(SeparatorsTo(ws, n)) = k
  BY <1>0, <1>6, <1>8
<1>10. \E i \in Separators(ws) : Cardinality({j \in Separators(ws) : j <= i}) = k
  BY <1>7, <1>9 DEF SeparatorsTo
<1>11. Separator(ws, k) \in Separators(ws)
  <2> DEFINE Q(i) == Cardinality({j \in Separators(ws) : j <= i}) = k
  <2>1. \E i \in Separators(ws) : Q(i)
    BY <1>10
  <2>2. Separator(ws, k) = CHOOSE i \in Separators(ws) : Q(i)
    BY DEF Separator
  <2> HIDE DEF Q
  <2> QED BY <2>1, <2>2
<1> QED BY <1>11, SeparatorsFacts

(* The words of a stage.                                                   *)
LEMMA StageFacts ==
  ASSUME NEW ws \in Seq(Words)
  PROVE  /\ StagesOf(ws) \in Nat \ {0}
         /\ \A k \in 1..StagesOf(ws) :
              FirstWord(ws, k) \in 1..(Len(ws) + 1) /\ LastWord(ws, k) \in 0..Len(ws)
<1>1. Cardinality(Separators(ws)) \in Nat /\ Len(ws) \in Nat
  BY SeparatorsFacts
<1>2. StagesOf(ws) \in Nat \ {0}
  BY <1>1 DEF StagesOf
<1>3. ASSUME NEW k \in 1..StagesOf(ws)
      PROVE  FirstWord(ws, k) \in 1..(Len(ws) + 1)
  <2>1. CASE k = 1
    BY <1>1, <2>1 DEF FirstWord
  <2>2. CASE k # 1
    <3>1. k - 1 \in 1..Cardinality(Separators(ws))
      BY <1>1, <2>2 DEF StagesOf
    <3>2. Separator(ws, k - 1) \in 1..Len(ws)
      BY <3>1, SeparatorFacts
    <3> QED BY <1>1, <2>2, <3>2 DEF FirstWord
  <2> QED BY <2>1, <2>2
<1>4. ASSUME NEW k \in 1..StagesOf(ws)
      PROVE  LastWord(ws, k) \in 0..Len(ws)
  <2>1. CASE k = StagesOf(ws)
    BY <1>1, <2>1 DEF LastWord
  <2>2. CASE k # StagesOf(ws)
    <3>1. k \in 1..Cardinality(Separators(ws))
      BY <1>1, <2>2 DEF StagesOf
    <3>2. Separator(ws, k) \in 1..Len(ws)
      BY <3>1, SeparatorFacts
    <3> QED BY <1>1, <2>2, <3>2 DEF LastWord
  <2> QED BY <2>1, <2>2
<1> QED BY <1>2, <1>3, <1>4

(* What the parser makes of a line are fewer words than                    *)
(* CLI_MAX_LINE_WORDS.                                                     *)
LEMMA ParsedFacts ==
  ASSUME NEW line \in Lines
  PROVE  Parsed(line) \in Seq(Words) /\ Len(Parsed(line)) < MaxWords
<1> DEFINE leading == IF line # <<>> /\ line[1] = [word |-> <<Pipe>>, quoted |-> FALSE]
                      THEN << <<>> >> ELSE <<>>
           rest == [i \in DOMAIN line |-> line[i].word]
<1>1. line \in Seq(Tokens) /\ MaxWords \in Nat \ {0}
  BY CommandLineAssumption
<1>2. leading \in Seq(Words)
  <2>1. <<>> \in Words
    BY DEF Words
  <2> QED BY <2>1
<1>3. rest \in Seq(Words)
  <2>1. DOMAIN line = 1..Len(line) /\ Len(line) \in Nat
    BY <1>1
  <2>2. ASSUME NEW i \in 1..Len(line) PROVE line[i].word \in Words
    <3>1. line[i] \in Tokens
      BY <1>1
    <3> QED BY <3>1 DEF Tokens
  <2>3. rest \in [1..Len(line) -> Words]
    BY <2>1, <2>2
  <2> HIDE DEF rest
  <2> QED BY <2>1, <2>3, SeqDef
<1>4. Split(line) \in Seq(Words)
  <2>1. Split(line) = leading \o rest
    BY DEF Split
  <2> HIDE DEF leading, rest
  <2> QED BY <1>2, <1>3, <2>1
<1> DEFINE T == {Len(Split(line)), MaxWords - 1}
<1>5. T \subseteq Nat /\ T # {}
  BY <1>1, <1>4
<1>6. Min(T) \in T /\ \A t \in T : Min(T) <= t
  <2> HIDE DEF T
  <2> QED BY <1>5, MinFacts
<1>7. Min(T) \in Nat /\ Min(T) <= Len(Split(line)) /\ Min(T) <= MaxWords - 1
  BY <1>5, <1>6
<1>8. Parsed(line) = SubSeq(Split(line), 1, Min(T))
  BY DEF Parsed
<1> HIDE DEF T
<1>9. Parsed(line) \in Seq(Words) /\ Len(Parsed(line)) = Min(T)
  <2> DEFINE t == Min(T)
             s == Split(line)
  <2>1. t \in Nat /\ t <= Len(s) /\ s \in Seq(Words)
    BY <1>4, <1>7
  <2> HIDE DEF t, s
  <2>2. SubSeq(s, 1, t) \in Seq(Words) /\ Len(SubSeq(s, 1, t)) = t
    BY <2>1
  <2> QED BY <1>8, <2>2 DEF s, t
<1> QED BY <1>1, <1>7, <1>9

-----------------------------------------------------------------------------
(* The inductive invariant.                                                *)

(* The lookup goes on.                                                     *)
Lookup == phase \in {"locate", "options"}

(* A list, of whatever elements.                                           *)
IsSeq(s) == s \in Seq({s[i] : i \in DOMAIN s})

(* The session: LengthsExact, and what else is known of the lengths.       *)
SessionOK(reg, len, m, p) ==
  /\ m \in Int /\ p \in Int
  /\ reg \subseteq Commands
  /\ len \in [Commands -> Nat]
  /\ Exact(reg, len, m, p)
  /\ \A c \in Commands \ reg : len[c] = 0
  /\ m # MODE_EXEC => \A c \in reg : Reached(c, m, p) => len[c] # 0

(* That is, of the session as it is.                                      *)
SessionInv == SessionOK(registered, unique, mode, privilege)

(* The line, and how far it is.                                            *)
LineInv ==
  /\ phase \in {"prompt", "locate", "options", "init", "run", "teardown", "answered"}
  /\ words \in Seq(Words) /\ Len(words) < MaxWords
  /\ command \in Commands \cup {Top}
  /\ at \in 1..(Len(words) + 1)
  /\ option \in Nat \ {0}
  /\ IsSeq(located)
  /\ Lookup => Stage <= Stages
  /\ printed \in Seq(SUBSET Texts) /\ Len(printed) <= MaxOutput
  /\ result \in {"none", "refused", "failed", "done"}

(* Before the execution there are no filters; afterwards as many were      *)
(* asked for as the line has stages behind the first, at most, and as many *)
(* are set up.                                                             *)
ExecutionInv ==
  /\ IsSeq(filters) /\ IsSeq(asked)
  /\ phase \in {"prompt", "locate", "options"} => filters = <<>> /\ asked = <<>>
  /\ phase \in {"init", "run", "teardown"} =>
       Len(located) = Stages /\ Len(filters) <= Len(asked) /\ Len(asked) < Stages
  /\ phase = "init" => Len(filters) = Len(asked)
  /\ phase = "teardown" => result # "refused"

(* The lookup is in its stage.                                             *)
StageInv ==
  /\ phase = "locate" => option = 1 /\ at \in FirstWord(words, Stage)..LastWord(words, Stage)
  /\ phase = "options" => command \in Commands /\ at >= FirstWord(words, Stage)

(* A command that may be run: registered and offered, it and all above it. *)
CanBeHere(c, reg, m, p) ==
  c \in reg /\ \A d \in {c} \cup Cmd[c].above : Offered(d, m, p)

(* The user has named it: by its whole name, or by the beginning of no     *)
(* other that is offered, or one of the two came too late to be counted.   *)
Told(w, c, reg, len, m, p) ==
  \/ w = Cmd[c].name
  \/ \A d \in OfferedPeers(c, reg, m, p) : IsPrefix(w, Cmd[d].name) => 0 \in {len[d], len[c]}

(* So is the command found so far.                                         *)
HereInv ==
  Lookup /\ command # Top =>
    /\ CanBeHere(command, registered, mode, privilege)
    /\ at >= 2
    /\ found = <<>> => Told(words[at - 1], command, registered, unique, mode, privilege)

(* All that a lookup has changed: it left a submode, for the name of a     *)
(* command of MODE_CONFIG.                                                 *)
OnlyLeft(ws, m, p, reg, b) ==
  /\ p = b.privilege /\ reg = b.registered
  /\ m # b.mode =>
       /\ b.mode > MODE_CONFIG /\ m = MODE_CONFIG
       /\ \E i \in DOMAIN ws, c \in reg : ws[i] = Cmd[c].name /\ Cmd[c].mode = MODE_CONFIG

(* Nothing else before a callback runs.                                    *)
ContainedInv ==
  /\ phase = "prompt" => before = [mode |-> mode, privilege |-> privilege, registered |-> registered]
  /\ Lookup \/ (phase = "answered" /\ result = "refused") =>
       OnlyLeft(words, mode, privilege, registered, before)

(* A value that an option may have: texts of the stage that are accepted.  *)
Good(v, o, ws, k) ==
  /\ v # NoPattern
  /\ \E i \in FirstWord(ws, k)..LastWord(ws, k) :
       v = SubSeq(ws, i, i + Len(v) - 1) /\ i + Len(v) - 1 <= LastWord(ws, k)
  /\ o.checked => v[1] \notin o.refuses

(* An option whose argument the callback will ask for. The mode may have   *)
(* been left while the stage was looked up.                                *)
Needed(o, m, b, p) ==
  /\ o.mode \in {MODE_ANY, m, b.mode} /\ o.privilege <= p
  /\ o.kind = "argument" /\ o.recorded

(* The arguments of the first n options are among f. *)
Given(f, c, n, ws, k, m, b, p) ==
  \A j \in DOMAIN Cmd[c].opts :
    j <= n /\ Needed(Cmd[c].opts[j], m, b, p) =>
      Cmd[c].opts[j].role \in DOMAIN f /\ Good(f[Cmd[c].opts[j].role], Cmd[c].opts[j], ws, k)

(* The arguments of the options passed are there, and those of all options *)
(* of the stages passed; load-modules runs in EXEC.                        *)
GivenInv ==
  /\ phase = "options" =>
       Given(found, command, option - 1, words, Stage, mode, before, privilege)
  /\ phase \in {"locate", "options", "init", "run"} =>
       \A k \in DOMAIN located :
         /\ located[k].command \in Commands
         /\ Given(located[k].found, located[k].command, Len(Cmd[located[k].command].opts),
                  words, k, mode, before, privilege)
         /\ k = 1 /\ Cmd[located[k].command].does = "load" => mode = MODE_EXEC

(* The invariant.                                                          *)
IInv ==
  /\ SessionInv /\ LineInv /\ ExecutionInv /\ StageInv /\ HereInv /\ ContainedInv /\ GivenInv

-----------------------------------------------------------------------------
(* Options found, and queues.                                              *)

(* The types of the options of a command; a role has one option.           *)
LEMMA OptsFacts ==
  ASSUME NEW c \in Commands
  PROVE  /\ Cmd[c].opts \in Seq(Options)
         /\ Len(Cmd[c].opts) \in Nat /\ DOMAIN Cmd[c].opts = 1..Len(Cmd[c].opts)
         /\ \A j, k \in DOMAIN Cmd[c].opts :
              Cmd[c].opts[j].role = Cmd[c].opts[k].role => j = k
<1>1. Cmd[c].opts \in Seq(Options)
  BY CommandLineAssumption
<1>2. \A j, k \in DOMAIN Cmd[c].opts :
        Cmd[c].opts[j].role = Cmd[c].opts[k].role => j = k
  BY CommandLineAssumption
<1> QED BY <1>1, <1>2

(* At the first option nothing was given.                                  *)
LEMMA NoneGiven ==
  ASSUME NEW c \in Commands, NEW f, NEW ws, NEW k, NEW m, NEW b, NEW p
  PROVE  Given(f, c, 0, ws, k, m, b, p)
<1>1. \A j \in DOMAIN Cmd[c].opts : ~(j <= 0)
  BY OptsFacts
<1> QED BY <1>1 DEF Given

(* One more in a list.                                                     *)
LEMMA Appended ==
  ASSUME NEW s, IsSeq(s), NEW e
  PROVE  /\ IsSeq(Append(s, e)) /\ Len(s) \in Nat /\ Len(Append(s, e)) = Len(s) + 1
         /\ DOMAIN s = 1..Len(s) /\ DOMAIN Append(s, e) = 1..(Len(s) + 1)
         /\ \A i \in 1..Len(s) : Append(s, e)[i] = s[i]
         /\ Append(s, e)[Len(s) + 1] = e
<1> DEFINE T == {s[i] : i \in DOMAIN s} \cup {e}
<1>1. s \in Seq(T)
  <2>1. s \in Seq({s[i] : i \in DOMAIN s})
    BY DEF IsSeq
  <2> DEFINE R == {s[i] : i \in DOMAIN s}
  <2>2. R \subseteq T /\ s \in Seq(R)
    BY <2>1
  <2> HIDE DEF R, T
  <2> QED BY <2>2, SeqMonotonic
<1>2. e \in T
  OBVIOUS
<1> HIDE DEF T
<1>3. /\ Append(s, e) \in Seq(T) /\ Len(s) \in Nat /\ Len(Append(s, e)) = Len(s) + 1
      /\ DOMAIN s = 1..Len(s) /\ DOMAIN Append(s, e) = 1..(Len(s) + 1)
      /\ \A i \in 1..Len(s) : Append(s, e)[i] = s[i]
      /\ Append(s, e)[Len(s) + 1] = e
  BY <1>1, <1>2, AppendProperties
<1> DEFINE a == Append(s, e)
<1> HIDE DEF a
<1>4. a \in Seq(T) /\ DOMAIN a = 1..(Len(s) + 1) /\ Len(s) + 1 \in Nat
  BY <1>3 DEF a
<1>5. PICK n \in Nat : a \in [1..n -> T]
  BY <1>4, SeqDef
<1> DEFINE R == {a[i] : i \in DOMAIN a}
<1>6. \A i \in 1..n : a[i] \in R
  BY <1>5
<1> HIDE DEF R
<1>7. a \in [1..n -> R]
  BY <1>5, <1>6
<1>8. IsSeq(a)
  <2>1. a \in Seq(R)
    BY <1>7, SeqDef
  <2> QED BY <2>1 DEF IsSeq, R
<1> QED BY <1>3, <1>8 DEF a

(* An empty one.                                                           *)
LEMMA Emptied == IsSeq(<<>>) /\ Len(<<>>) = 0 /\ DOMAIN <<>> = {}
<1>1. Len(<<>>) = 0 /\ DOMAIN <<>> = {}
  OBVIOUS
<1>2. IsSeq(<<>>)
  <2> DEFINE T == {<<>>[i] : i \in DOMAIN <<>>}
  <2> HIDE DEF T
  <2>1. <<>> \in Seq(T)
    BY EmptySeq
  <2> QED BY <2>1 DEF IsSeq, T
<1> QED BY <1>1, <1>2

(* One less.                                                               *)
LEMMA Shortened ==
  ASSUME NEW s, IsSeq(s), s # <<>>
  PROVE  IsSeq(Tail(s)) /\ Len(Tail(s)) = Len(s) - 1 /\ Len(s) \in Nat
<1> DEFINE T == {s[i] : i \in DOMAIN s}
<1>1. s \in Seq(T)
  BY DEF IsSeq
<1> HIDE DEF T
<1> DEFINE t == Tail(s)
<1>2. t \in Seq(T) /\ Len(t) = Len(s) - 1 /\ Len(s) \in Nat
  BY <1>1, HeadTailProperties
<1> HIDE DEF t
<1> DEFINE R == {t[i] : i \in DOMAIN t}
<1>4. PICK n \in Nat : t \in [1..n -> T]
  BY <1>2, SeqDef
<1>5. \A i \in 1..n : t[i] \in R
  BY <1>4
<1> HIDE DEF R
<1>6. t \in [1..n -> R]
  BY <1>4, <1>5
<1>7. IsSeq(t)
  <2>1. t \in Seq(R)
    BY <1>6, SeqDef
  <2> QED BY <2>1 DEF IsSeq, R
<1> QED BY <1>2, <1>7 DEF t

(* Lengths that are computed again are right.                              *)
LEMMA Rebuilt ==
  ASSUME NEW reg, NEW len, NEW m, NEW p, SessionOK(reg, len, m, p), NEW n \in Int, NEW q \in Int
  PROVE  SessionOK(reg, BuildShortest(len, reg, n, q), n, q)
BY BuiltFacts DEF SessionOK

(* The command found in a chain that was come to, with the mode it is      *)
(* found in.                                                               *)
LEMMA LookedUp ==
  ASSUME SessionInv, LineInv, StageInv, HereInv, ContainedInv, phase = "locate",
         FollowLookup(Candidates), before' = before
  PROVE  LET c == Locate(Candidates, mode)
         IN /\ SessionInv' /\ privilege' = privilege /\ registered' = registered
            /\ OnlyLeft(words, mode', privilege, registered, before)
            /\ c # NoCommand =>
                 /\ c \in Commands
                 /\ CanBeHere(c, registered, mode', privilege)
                 /\ Told(words[at], c, registered, unique', mode', privilege)
            /\ c = NoCommand => mode' = mode /\ unique' = unique
            /\ Kind = "filter" \/ mode = MODE_EXEC => mode' = mode
<1> DEFINE S == Candidates
           c == Locate(S, mode)
           w == words[at]
<1>0. /\ registered \subseteq Commands /\ mode \in Int /\ privilege \in Int
      /\ unique \in [Commands -> Nat]
      /\ Exact(registered, unique, mode, privilege)
      /\ mode # MODE_EXEC => \A d \in registered : Reached(d, mode, privilege) => unique[d] # 0
  BY DEF SessionInv, SessionOK
<1>1. S \subseteq registered /\ S \subseteq Commands
  BY <1>0 DEF Candidates, Named
<1>2. w \in Words /\ at \in DOMAIN words
  <2>1. Stage \in 1..Stages /\ words \in Seq(Words)
    <3>1. Len(located) \in Nat
      BY Appended DEF LineInv
    <3> QED BY <3>1, StageFacts DEF LineInv, Lookup, Stage, Stages
  <2>2. /\ LastWord(words, Stage) \in 0..Len(words)
        /\ FirstWord(words, Stage) \in 1..(Len(words) + 1)
    BY <2>1, StageFacts DEF Stages
  <2>3. at \in 1..Len(words)
    BY <2>1, <2>2 DEF StageInv
  <2> QED BY <2>1, <2>3
<1>3. \A d \in S : /\ Cmd[d].under = command /\ Cmd[d].type = Kind
                   /\ Cmd[d].privilege <= privilege /\ Names(w, d, unique)
  BY DEF Candidates, Named
<1>4. /\ c \in S \cup {NoCommand}
      /\ ~LeavesSubmode(S, mode) /\ c # NoCommand => Cmd[c].mode \in {MODE_ANY, mode}
      /\ LeavesSubmode(S, mode) =>
           c # NoCommand /\ mode > MODE_CONFIG /\ Cmd[c].mode = MODE_CONFIG
  <2> HIDE DEF S
  <2> QED BY <1>0, <1>1, LocateFacts
<1>5. ASSUME NEW d \in S
      PROVE  \A e \in Cmd[d].above : Offered(e, mode, privilege)
  <2>1. d \in Commands /\ Cmd[d].under = command
    BY <1>1, <1>3
  <2>2. CASE command = Top
    BY <2>1, <2>2, AboveFacts
  <2>3. CASE command # Top
    <3>1. \A e \in {command} \cup Cmd[command].above : Offered(e, mode, privilege)
      BY <2>3 DEF HereInv, Lookup, CanBeHere
    <3>2. Cmd[d].above = Cmd[command].above \cup {command}
      BY <2>1, <2>3, AboveFacts
    <3> QED BY <3>1, <3>2
  <2> QED BY <2>2, <2>3
<1>6. OnlyLeft(words, mode, privilege, registered, before)
  BY DEF ContainedInv, Lookup
<1> HIDE DEF S, w, c
<1>7. CASE LeavesSubmode(S, mode)
  <2>1. /\ mode' = MODE_CONFIG
        /\ unique' = BuildShortest(unique, registered, MODE_CONFIG, privilege)
        /\ privilege' = privilege /\ registered' = registered
    BY <1>7 DEF FollowLookup, S
  <2>2. /\ c \in S /\ c \in registered /\ c \in Commands
        /\ mode > MODE_CONFIG /\ Cmd[c].mode = MODE_CONFIG
    BY <1>1, <1>4, <1>7
  <2>3. mode # MODE_EXEC /\ MODE_CONFIG \in Int /\ mode # MODE_CONFIG /\ mode # MODE_ANY
    BY <1>0, <2>2 DEF MODE_CONFIG, MODE_EXEC, MODE_ANY
  <2>4. SessionInv'
    <3>1. SessionOK(registered, BuildShortest(unique, registered, MODE_CONFIG, privilege),
                    MODE_CONFIG, privilege)
      BY <1>0, <2>3, Rebuilt DEF SessionInv
    <3> QED BY <2>1, <3>1 DEF SessionInv
  <2>5. w = Cmd[c].name
    <3>1. ~Offered(c, mode, privilege)
      BY <2>2, <2>3 DEF Offered, MODE_ANY, MODE_CONFIG
    <3>2. Reached(c, mode, privilege)
      BY <1>5, <2>2 DEF Reached
    <3>3. unique[c] # 0
      BY <1>0, <2>2, <2>3, <3>2
    <3>4. Names(w, c, unique)
      BY <1>3, <2>2
    <3> QED BY <1>0, <1>2, <2>2, <3>1, <3>2, <3>3, <3>4, NamedElsewhere
  <2>6. OnlyLeft(words, mode', privilege, registered, before)
    <3>1. before.mode = mode
      BY <1>6, <2>3 DEF OnlyLeft
    <3>2. \E i \in DOMAIN words, d \in registered : words[i] = Cmd[d].name /\ Cmd[d].mode = MODE_CONFIG
      BY <1>2, <2>2, <2>5 DEF w
    <3> QED BY <1>6, <2>1, <2>2, <3>1, <3>2 DEF OnlyLeft
  <2>7. CanBeHere(c, registered, MODE_CONFIG, privilege)
    <3>1. Offered(c, MODE_CONFIG, privilege)
      BY <1>3, <2>2 DEF Offered
    <3>2. ASSUME NEW d \in Cmd[c].above
          PROVE  Offered(d, MODE_CONFIG, privilege)
      <4>1. Cmd[d].mode \in {MODE_ANY, MODE_CONFIG}
        BY <2>2, AboveFacts
      <4>2. Offered(d, mode, privilege)
        BY <1>5, <2>2
      <4> QED BY <4>1, <4>2 DEF Offered
    <3> QED BY <2>2, <3>1, <3>2 DEF CanBeHere
  <2>8. Told(w, c, registered, unique', mode', privilege)
    BY <2>5 DEF Told
  <2>9. Kind # "filter"
    <3>1. Cmd[c].type = "filter" => Cmd[c].mode = MODE_ANY
      BY <2>2, CommandLineAssumption
    <3>2. MODE_ANY # MODE_CONFIG
      BY DEF MODE_ANY, MODE_CONFIG
    <3> QED BY <1>3, <2>2, <3>1, <3>2
  <2> QED BY <1>4, <1>7, <2>1, <2>2, <2>3, <2>4, <2>6, <2>7, <2>8, <2>9 DEF c, S, w
<1>8. CASE ~LeavesSubmode(S, mode)
  <2>1. /\ mode' = mode /\ unique' = unique /\ privilege' = privilege /\ registered' = registered
    BY <1>8 DEF FollowLookup, S, session
  <2>2. SessionInv'
    BY <2>1 DEF SessionInv
  <2>3. ASSUME c # NoCommand
        PROVE  /\ c \in Commands
               /\ CanBeHere(c, registered, mode, privilege)
               /\ Told(w, c, registered, unique, mode, privilege)
    <3>1. c \in S /\ c \in registered /\ c \in Commands /\ Cmd[c].mode \in {MODE_ANY, mode}
      BY <1>1, <1>4, <1>8, <2>3
    <3>2. Offered(c, mode, privilege)
      BY <1>3, <3>1 DEF Offered
    <3>3. CanBeHere(c, registered, mode, privilege)
      BY <1>5, <3>1, <3>2 DEF CanBeHere
    <3>4. Reached(c, mode, privilege)
      BY <1>5, <3>1 DEF Reached
    <3>5. Names(w, c, unique)
      BY <1>3, <3>1
    <3>6. ASSUME NEW d \in OfferedPeers(c, registered, mode, privilege),
                 IsPrefix(w, Cmd[d].name), unique[d] # 0, unique[c] # 0
          PROVE  w = Cmd[c].name
      <4>1. /\ d \in Commands /\ d # c /\ d \in registered
            /\ Cmd[d].under = Cmd[c].under /\ Cmd[d].type = Cmd[c].type
            /\ Offered(d, mode, privilege)
        BY <3>1, PeersFacts
      <4> QED BY <1>0, <1>2, <3>1, <3>2, <3>4, <3>5, <3>6, <4>1, NamedBeside
    <3>7. Told(w, c, registered, unique, mode, privilege)
      BY <3>6 DEF Told
    <3> QED BY <3>1, <3>3, <3>7
  <2> QED BY <1>6, <2>1, <2>2, <2>3 DEF c, S, w
<1> QED BY <1>7, <1>8

(* A list changed in place.                                                *)
LEMMA Mapped ==
  ASSUME NEW s, IsSeq(s), NEW r, r = [i \in DOMAIN s |-> r[i]]
  PROVE  IsSeq(r) /\ Len(r) = Len(s) /\ Len(s) \in Nat
<1> DEFINE T == {s[i] : i \in DOMAIN s}
           R == {r[i] : i \in DOMAIN r}
<1>1. s \in Seq(T)
  BY DEF IsSeq
<1>2. DOMAIN s = 1..Len(s) /\ Len(s) \in Nat
  <2> HIDE DEF T
  <2> QED BY <1>1
<1>3. DOMAIN r = 1..Len(s)
  BY <1>2
<1>4. \A i \in 1..Len(s) : r[i] \in R
  BY <1>3
<1> HIDE DEF R, T
<1>5. r \in [1..Len(s) -> R]
  BY <1>2, <1>3, <1>4
<1>6. r \in Seq(R) /\ Len(r) = Len(s)
  <2>1. r \in Seq(R)
    BY <1>2, <1>5, SeqDef
  <2> QED BY <1>2, <1>3, <2>1
<1> QED BY <1>2, <1>6 DEF IsSeq, R

-----------------------------------------------------------------------------
(* The initial state.                                                      *)

(* At the start the lengths are computed.                                  *)
LEMMA InitStep == Init => IInv
<1> SUFFICES ASSUME Init PROVE IInv
  OBVIOUS
<1> USE DEF Init
<1>1. SessionInv
  <2> DEFINE zero == [c \in Commands |-> 0]
             b == BuildShortest(zero, Early, MODE_EXEC, PRIVILEGE_UNPRIVILEGED)
  <2>1. zero \in [Commands -> Nat] /\ Early \subseteq Commands
    BY CommandLineAssumption
  <2>2. \A c \in Commands \ Early : zero[c] = 0
    OBVIOUS
  <2> HIDE DEF zero
  <2>3. /\ b \in [Commands -> Nat]
        /\ Exact(Early, b, MODE_EXEC, PRIVILEGE_UNPRIVILEGED)
        /\ \A c \in Early : Reached(c, MODE_EXEC, PRIVILEGE_UNPRIVILEGED) => b[c] # 0
        /\ (\A c \in Commands \ Early : zero[c] = 0) => \A c \in Commands \ Early : b[c] = 0
    BY <2>1, BuiltFacts
  <2>4. MODE_EXEC \in Int /\ PRIVILEGE_UNPRIVILEGED \in Int
    BY DEF MODE_EXEC, PRIVILEGE_UNPRIVILEGED
  <2>5. SessionOK(Early, b, MODE_EXEC, PRIVILEGE_UNPRIVILEGED)
    BY <2>1, <2>2, <2>3, <2>4 DEF SessionOK
  <2>6. /\ registered = Early /\ mode = MODE_EXEC /\ privilege = PRIVILEGE_UNPRIVILEGED
        /\ unique = b
    BY DEF zero
  <2> QED BY <2>5, <2>6 DEF SessionInv
<1>2. LineInv
  <2>1. /\ words = <<>> /\ located = <<>> /\ printed = <<>> /\ phase = "prompt"
        /\ command = Top /\ at = 1 /\ option = 1 /\ result = "none"
    OBVIOUS
  <2>2. MaxWords \in Nat \ {0} /\ MaxOutput \in Nat
    BY CommandLineAssumption
  <2>3. words \in Seq(Words) /\ Len(words) = 0
    BY <2>1, EmptySeq
  <2>4. printed \in Seq(SUBSET Texts) /\ Len(printed) = 0
    BY <2>1, EmptySeq
  <2>5. IsSeq(located)
    BY <2>1, Emptied
  <2> QED BY <2>1, <2>2, <2>3, <2>4, <2>5 DEF LineInv, Lookup
<1>3. ExecutionInv
  BY Emptied DEF ExecutionInv
<1>4. StageInv /\ HereInv /\ ContainedInv
  BY DEF StageInv, HereInv, ContainedInv, Lookup
<1>5. GivenInv
  BY DEF GivenInv
<1> QED BY <1>1, <1>2, <1>3, <1>4, <1>5 DEF IInv

-----------------------------------------------------------------------------
(* A stage begins.                                                         *)

(* A stage is begun at its first word.                                     *)
LEMMA Begun ==
  ASSUME NEW ws \in Seq(Words), Len(ws) < MaxWords, NEW k \in 1..StagesOf(ws),
         NEW done, IsSeq(done), Len(done) + 1 = k, BeginStage(k, ws, done),
         LineInv, ExecutionInv, filters = <<>>, asked = <<>>, UNCHANGED execution
  PROVE  /\ LineInv' /\ ExecutionInv' /\ StageInv' /\ HereInv'
         /\ words' = ws /\ located' = done /\ Stage' = k
         /\ phase' = "locate" \/ (phase' = "answered" /\ result' = "refused")
<1>1. /\ located' = done /\ words' = ws /\ command' = Top /\ option' = 1 /\ found' = <<>>
      /\ at' = FirstWord(ws, k)
      /\ IF FirstWord(ws, k) > LastWord(ws, k)
         THEN phase' = "answered" /\ result' = "refused"
         ELSE phase' = "locate" /\ UNCHANGED result
  BY DEF BeginStage
<1>2. /\ FirstWord(ws, k) \in 1..(Len(ws) + 1) /\ LastWord(ws, k) \in 0..Len(ws)
      /\ StagesOf(ws) \in Nat /\ Len(ws) \in Nat
  BY StageFacts
<1>3. phase' = "locate" \/ (phase' = "answered" /\ result' = "refused")
  BY <1>1
<1>4. Stage' = k /\ Stages' = StagesOf(ws)
  BY <1>1 DEF Stage, Stages
<1>5. LineInv'
  BY <1>1, <1>2, <1>3, <1>4 DEF LineInv, Lookup, execution
<1>6. ExecutionInv'
  BY <1>3, Emptied DEF ExecutionInv, execution
<1>7. StageInv'
  BY <1>1, <1>2, <1>3, <1>4 DEF StageInv
<1>8. HereInv'
  BY <1>1 DEF HereInv
<1> QED BY <1>1, <1>3, <1>4, <1>5, <1>6, <1>7, <1>8

(* A line is typed.                                                        *)
LEMMA TypeStep == IInv /\ Type => IInv'
<1> SUFFICES ASSUME IInv, Type PROVE IInv'
  OBVIOUS
<1>1. PICK line \in Lines : BeginStage(1, Parsed(line), <<>>)
  BY DEF Type
<1>2. phase = "prompt" /\ UNCHANGED session /\ UNCHANGED execution /\ before' = before
  BY DEF Type
<1>3. SessionInv'
  BY <1>2 DEF IInv, SessionInv, session
<1>4. /\ LineInv' /\ ExecutionInv' /\ StageInv' /\ HereInv'
      /\ words' = Parsed(line) /\ located' = <<>>
      /\ phase' = "locate" \/ (phase' = "answered" /\ result' = "refused")
  <2>1. Parsed(line) \in Seq(Words) /\ Len(Parsed(line)) < MaxWords
    BY ParsedFacts
  <2>2. 1 \in 1..StagesOf(Parsed(line))
    BY <2>1, StageFacts
  <2>3. IsSeq(<<>>) /\ Len(<<>>) + 1 = 1
    BY Emptied
  <2>4. filters = <<>> /\ asked = <<>> /\ LineInv /\ ExecutionInv
    BY <1>2 DEF IInv, ExecutionInv
  <2> QED BY <1>1, <1>2, <2>1, <2>2, <2>3, <2>4, Begun
<1>5. ContainedInv'
  BY <1>2, <1>4 DEF IInv, ContainedInv, OnlyLeft, session
<1>6. GivenInv'
  BY <1>4, Emptied DEF GivenInv
<1> QED BY <1>3, <1>4, <1>5, <1>6 DEF IInv

-----------------------------------------------------------------------------
(* A line is refused.                                                      *)

(* A refused line ends with what the lookup has done.                      *)
LEMMA Refused ==
  ASSUME IInv, Lookup, Refuse, SessionInv',
         OnlyLeft(words, mode', privilege', registered', before)
  PROVE  IInv'
<1>1. /\ phase' = "answered" /\ result' = "refused" /\ before' = before
      /\ UNCHANGED lookup /\ UNCHANGED execution
  BY DEF Refuse
<1>2. LineInv'
  BY <1>1 DEF IInv, LineInv, lookup, execution, Lookup
<1>3. ExecutionInv'
  BY <1>1 DEF IInv, ExecutionInv, execution
<1>4. StageInv' /\ HereInv' /\ GivenInv'
  BY <1>1 DEF StageInv, HereInv, GivenInv, Lookup
<1>5. ContainedInv'
  BY <1>1 DEF ContainedInv, Lookup, lookup
<1> QED BY <1>2, <1>3, <1>4, <1>5 DEF IInv

(* By an option.                                                           *)
LEMMA RefuseOptionStep == IInv /\ RefuseOption => IInv'
<1> SUFFICES ASSUME IInv, RefuseOption PROVE IInv'
  OBVIOUS
<1>1. Lookup /\ Refuse /\ UNCHANGED session
  BY DEF RefuseOption, Scanning, Lookup
<1>2. SessionInv' /\ OnlyLeft(words, mode', privilege', registered', before)
  BY <1>1 DEF IInv, SessionInv, ContainedInv, session
<1> QED BY <1>1, <1>2, Refused

(* Or for want of one.                                                     *)
LEMMA MissingArgumentStep == IInv /\ MissingArgument => IInv'
<1> SUFFICES ASSUME IInv, MissingArgument PROVE IInv'
  OBVIOUS
<1>1. Lookup /\ Refuse /\ UNCHANGED session
  BY DEF MissingArgument, ScanEnds, Lookup
<1>2. SessionInv' /\ OnlyLeft(words, mode', privilege', registered', before)
  BY <1>1 DEF IInv, SessionInv, ContainedInv, session
<1> QED BY <1>1, <1>2, Refused

-----------------------------------------------------------------------------
(* Where the words are.                                                    *)

(* The places of the lookup are places of the line.                        *)
LEMMA Places ==
  ASSUME LineInv, Lookup
  PROVE  /\ words \in Seq(Words) /\ Len(words) \in Nat
         /\ Len(located) \in Nat /\ Stage \in 1..Stages /\ Stages \in Nat /\ Stage = Len(located) + 1
         /\ FirstWord(words, Stage) \in 1..(Len(words) + 1)
         /\ LastWord(words, Stage) \in 0..Len(words)
         /\ at \in 1..(Len(words) + 1)
<1>1. Len(located) \in Nat
  BY Appended DEF LineInv
<1>2. words \in Seq(Words) /\ Stage <= Stages /\ at \in 1..(Len(words) + 1)
  BY DEF LineInv
<1>3. Stages \in Nat
  BY <1>2, StageFacts DEF Stages
<1>4. Stage \in 1..Stages
  BY <1>1, <1>2, <1>3 DEF Stage
<1> QED BY <1>1, <1>2, <1>3, <1>4, StageFacts DEF Stages, Stage

-----------------------------------------------------------------------------
(* A word is looked up.                                                    *)

(* A word is looked up: it is a command, or it begins the options, or the  *)
(* line is refused.                                                        *)
LEMMA LocateStep == IInv /\ LocateWord => IInv'
<1> SUFFICES ASSUME IInv, LocateWord PROVE IInv'
  OBVIOUS
<1> DEFINE c == Locate(Candidates, mode)
<1>1. /\ phase = "locate" /\ Lookup
      /\ Descends(c) \/ Matches(c) \/ TakesArguments(c) \/ RefusesWord(c)
      /\ FollowLookup(Candidates)
  BY DEF LocateWord, Lookup
<1>2. before' = before
  BY <1>1 DEF Descends, Matches, TakesArguments, RefusesWord, Refuse
<1>3. /\ SessionInv' /\ privilege' = privilege /\ registered' = registered
      /\ OnlyLeft(words, mode', privilege, registered, before)
      /\ c # NoCommand =>
           /\ c \in Commands
           /\ CanBeHere(c, registered, mode', privilege)
           /\ Told(words[at], c, registered, unique', mode', privilege)
      /\ c = NoCommand => mode' = mode /\ unique' = unique
      /\ Kind = "filter" \/ mode = MODE_EXEC => mode' = mode
  BY <1>1, <1>2, LookedUp DEF IInv
<1>4. /\ words \in Seq(Words) /\ Len(words) \in Nat
      /\ Len(located) \in Nat /\ Stage \in 1..Stages /\ Stages \in Nat /\ Stage = Len(located) + 1
      /\ FirstWord(words, Stage) \in 1..(Len(words) + 1)
      /\ LastWord(words, Stage) \in 0..Len(words)
      /\ at \in FirstWord(words, Stage)..LastWord(words, Stage) /\ option = 1
  BY <1>1, Places DEF IInv, StageInv
<1> HIDE DEF c
<1>5. ASSUME mode' # mode PROVE located = <<>>
  <2>1. Stage = 1
    BY <1>3, <1>5 DEF Kind
  <2>2. Len(located) = 0
    BY <1>4, <2>1
  <2>3. DOMAIN located = {} /\ located \in Seq({located[i] : i \in DOMAIN located})
    BY <2>2, Appended DEF IInv, LineInv, IsSeq
  <2> QED BY <2>2, <2>3, EmptySeq
<1>6. ASSUME UNCHANGED <<words, located>>
      PROVE  \A k \in DOMAIN located' :
               /\ located'[k].command \in Commands
               /\ Given(located'[k].found, located'[k].command, Len(Cmd[located'[k].command].opts),
                        words', k, mode', before', privilege')
               /\ k = 1 /\ Cmd[located'[k].command].does = "load" => mode' = MODE_EXEC
  <2>1. CASE mode' # mode
    BY <1>5, <1>6, <2>1, Emptied
  <2>2. CASE mode' = mode
    BY <1>1, <1>2, <1>3, <1>6, <2>2 DEF IInv, GivenInv
  <2> QED BY <2>1, <2>2
<1>7. CASE Descends(c)
  <2>1. /\ c # NoCommand /\ at < LastWord(words, Stage)
        /\ command' = c /\ at' = at + 1
        /\ UNCHANGED <<phase, words, option, found, located, execution, result, before>>
    BY <1>7 DEF Descends, GoesDeeper
  <2>2. LineInv'
    BY <1>3, <1>4, <2>1 DEF IInv, LineInv, execution, Lookup, Stage, Stages
  <2>3. ExecutionInv'
    BY <2>1 DEF IInv, ExecutionInv, execution, Stages
  <2>4. StageInv'
    <3>1. FirstWord(words, Stage)' = FirstWord(words, Stage)
          /\ LastWord(words, Stage)' = LastWord(words, Stage)
      BY <2>1 DEF Stage
    <3> QED BY <1>1, <1>4, <2>1, <3>1 DEF StageInv
  <2>5. HereInv'
    <3>1. at' - 1 = at /\ at' >= 2
      BY <1>4, <2>1
    <3> QED BY <1>3, <2>1, <3>1 DEF HereInv
  <2>6. ContainedInv'
    BY <1>1, <1>3, <2>1 DEF ContainedInv, Lookup
  <2>7. GivenInv'
    BY <1>1, <1>6, <2>1 DEF GivenInv
  <2> QED BY <1>3, <2>2, <2>3, <2>4, <2>5, <2>6, <2>7 DEF IInv
<1>8. CASE Matches(c)
  <2>1. /\ c # NoCommand
        /\ command' = c /\ at' = at + 1 /\ phase' = "options"
        /\ UNCHANGED <<words, option, found, located, execution, result, before>>
    BY <1>8 DEF Matches
  <2>2. LineInv'
    BY <1>3, <1>4, <2>1 DEF IInv, LineInv, execution, Lookup, Stage, Stages
  <2>3. ExecutionInv'
    BY <1>1, <2>1 DEF IInv, ExecutionInv, execution, Stages
  <2>4. StageInv'
    <3>1. FirstWord(words, Stage)' = FirstWord(words, Stage)
      BY <2>1 DEF Stage
    <3> QED BY <1>3, <1>4, <2>1, <3>1 DEF StageInv
  <2>5. HereInv'
    <3>1. at' - 1 = at /\ at' >= 2
      BY <1>4, <2>1
    <3> QED BY <1>3, <2>1, <3>1 DEF HereInv
  <2>6. ContainedInv'
    BY <1>1, <1>3, <2>1 DEF ContainedInv, Lookup
  <2>7. Given(found', command', option' - 1, words', Stage', mode', before', privilege')
    <3>1. option' - 1 = 0 /\ command' \in Commands
      BY <1>3, <1>4, <2>1
    <3> QED BY <3>1, NoneGiven
  <2>8. GivenInv'
    BY <1>6, <2>1, <2>7 DEF GivenInv
  <2> QED BY <1>3, <2>2, <2>3, <2>4, <2>5, <2>6, <2>8 DEF IInv
<1>9. CASE TakesArguments(c)
  <2>1. /\ c = NoCommand /\ HasCallback(command)
        /\ phase' = "options"
        /\ UNCHANGED <<lookup, execution, result, before>>
    BY <1>9 DEF TakesArguments
  <2>2. mode' = mode /\ unique' = unique /\ command # Top
    BY <1>3, <2>1 DEF HasCallback
  <2>3. LineInv'
    BY <1>1, <2>1 DEF IInv, LineInv, lookup, execution, Lookup, Stage, Stages
  <2>4. ExecutionInv'
    BY <1>1, <2>1 DEF IInv, ExecutionInv, execution, lookup, Stages
  <2>5. StageInv'
    <3>1. FirstWord(words, Stage)' = FirstWord(words, Stage)
      BY <2>1 DEF Stage, lookup
    <3>2. command' \in Commands
      BY <2>1, <2>2 DEF IInv, LineInv, lookup
    <3> QED BY <1>4, <2>1, <3>1, <3>2 DEF StageInv, lookup
  <2>6. HereInv'
    BY <1>1, <1>3, <2>1, <2>2 DEF IInv, HereInv, lookup, Lookup
  <2>7. ContainedInv'
    BY <1>1, <1>3, <2>1 DEF ContainedInv, Lookup, lookup
  <2>8. Given(found', command', option' - 1, words', Stage', mode', before', privilege')
    <3>1. option' - 1 = 0 /\ command' \in Commands
      BY <1>4, <2>1, <2>2 DEF IInv, LineInv, lookup
    <3> QED BY <3>1, NoneGiven
  <2>9. GivenInv'
    BY <1>6, <2>1, <2>8 DEF GivenInv, lookup
  <2> QED BY <1>3, <2>3, <2>4, <2>5, <2>6, <2>7, <2>9 DEF IInv
<1>10. CASE RefusesWord(c)
  <2>1. Refuse
    BY <1>10 DEF RefusesWord
  <2> QED BY <1>1, <1>3, <2>1, Refused
<1> QED BY <1>1, <1>7, <1>8, <1>9, <1>10 DEF c

-----------------------------------------------------------------------------
(* Options.                                                                *)

(* A part of the line.                                                     *)
LEMMA Slice ==
  ASSUME NEW ws \in Seq(Words), NEW a \in 1..Len(ws), NEW l \in a..Len(ws)
  PROVE  /\ Len(SubSeq(ws, a, l)) = l - a + 1
         /\ SubSeq(ws, a, l)[1] = ws[a]
         /\ SubSeq(ws, a, a) = <<ws[a]>>
<1>1. Len(ws) \in Nat /\ a \in Int /\ l \in Int /\ 1 <= a /\ a <= l /\ l <= Len(ws)
  OBVIOUS
<1>2. /\ Len(SubSeq(ws, a, l)) = l - a + 1
      /\ \A i \in 1..(l - a + 1) : SubSeq(ws, a, l)[i] = ws[a + i - 1]
  BY <1>1, SubSeqProperties
<1>3. SubSeq(ws, a, l)[1] = ws[a]
  <2>1. 1 \in 1..(l - a + 1) /\ a + 1 - 1 = a
    BY <1>1
  <2> QED BY <1>2, <2>1
<1>4. SubSeq(ws, a, a) = <<ws[a]>>
  <2> DEFINE s == SubSeq(ws, a, a)
  <2>1. s \in Seq(Words) /\ Len(s) = 1 /\ s[1] = ws[a]
    <3>1. a <= a + 1 /\ a - a + 1 = 1 /\ 1 \in 1..1 /\ a + 1 - 1 = a
      BY <1>1
    <3>2. /\ SubSeq(ws, a, a) \in Seq(Words)
          /\ Len(SubSeq(ws, a, a)) = a - a + 1
          /\ \A i \in 1..(a - a + 1) : SubSeq(ws, a, a)[i] = ws[a + i - 1]
      BY <1>1, SubSeqProperties
    <3> QED BY <3>1, <3>2
  <2>2. <<ws[a]>> \in Seq(Words) /\ Len(<<ws[a]>>) = 1 /\ <<ws[a]>>[1] = ws[a]
    BY <1>1
  <2> HIDE DEF s
  <2>3. s = <<ws[a]>>
    BY <2>1, <2>2, SeqEqual
  <2> QED BY <2>3 DEF s
<1> QED BY <1>2, <1>3, <1>4

(* The options a word may be for come after the last that was given, and   *)
(* none that is needed is passed.                                          *)
LEMMA WindowFacts ==
  ASSUME IInv, Scanning, NEW w
  PROVE  /\ Window \subseteq option..Len(Opts) /\ MayBeFor(w) \subseteq Window
         /\ DOMAIN Opts = 1..Len(Opts) /\ Len(Opts) \in Nat
         /\ option \in Nat \ {0}
         /\ command \in Commands
<1>1. command \in Commands /\ option \in Nat \ {0}
  BY DEF IInv, StageInv, LineInv, Scanning
<1>2. DOMAIN Opts = 1..Len(Opts) /\ Len(Opts) \in Nat
  BY <1>1, OptsFacts DEF Opts
<1>3. Window \subseteq option..Len(Opts)
  BY DEF Window
<1> DEFINE hits == {k \in Window : Hits(w, Opts[k])}
<1>4. hits # {} => Min(hits) \in hits
  <2>1. hits \subseteq Nat
    <3>1. Window \subseteq Nat
      BY <1>1, <1>2, <1>3
    <3> QED BY <3>1
  <2> HIDE DEF hits
  <2> QED BY <2>1, MinFacts
<1>5. MayBeFor(w) \subseteq Window
  <2>1. CASE hits # {}
    BY <1>4, <2>1 DEF MayBeFor
  <2>2. CASE hits = {}
    BY <2>2 DEF MayBeFor
  <2> QED BY <2>1, <2>2
<1> QED BY <1>1, <1>2, <1>3, <1>5

(* What is taken as an argument is a text of the stage that is accepted.   *)
LEMMA TakenGood ==
  ASSUME IInv, Scanning, NEW k \in Window, Accepted(k), Opts[k].kind = "argument"
  PROVE  Good(ValueOf(k), Opts[k], words, Stage)
<1>1. /\ words \in Seq(Words) /\ Len(words) \in Nat
      /\ FirstWord(words, Stage) \in 1..(Len(words) + 1)
      /\ LastWord(words, Stage) \in 0..Len(words)
      /\ at \in 1..(Len(words) + 1)
  BY Places DEF IInv, Scanning, Lookup
<1>2. at <= LastWord(words, Stage) /\ at >= FirstWord(words, Stage)
  BY DEF IInv, StageInv, Scanning
<1>3. ValueAt(k) = at
  BY DEF ValueAt
<1>4. Opts[k].checked => words[at] \notin Opts[k].refuses
  BY <1>3 DEF Accepted
<1> DEFINE l == LastWord(words, Stage)
           v == ValueOf(k)
<1>5. at \in 1..Len(words) /\ l \in at..Len(words) /\ at \in at..Len(words) /\ at - at + 1 = 1
  BY <1>1, <1>2
<1> HIDE DEF l
<1>6. /\ Len(v) \in Nat /\ Len(v) >= 1
      /\ v = SubSeq(words, at, at + Len(v) - 1) /\ at + Len(v) - 1 <= l /\ v[1] = words[at]
  <2>1. CASE Opts[k].rest
    <3>1. v = SubSeq(words, at, l)
      BY <2>1 DEF ValueOf, l
    <3>2. Len(v) = l - at + 1 /\ v[1] = words[at]
      BY <1>1, <1>5, <3>1, Slice
    <3> HIDE DEF v
    <3>3. Len(v) \in Nat /\ Len(v) >= 1
      BY <1>1, <1>5, <3>2
    <3>4. at + Len(v) - 1 = l /\ l <= l
      BY <1>1, <1>5, <3>2
    <3>5. v = SubSeq(words, at, at + Len(v) - 1)
      BY <3>1, <3>4
    <3> QED BY <3>2, <3>3, <3>4, <3>5
  <2>2. CASE ~Opts[k].rest
    <3>1. v = <<words[at]>>
      BY <1>3, <2>2 DEF ValueOf
    <3>2. Len(v) = 1 /\ v[1] = words[at]
      BY <3>1
    <3>3. at + Len(v) - 1 = at
      BY <1>1, <3>2
    <3>4. v = SubSeq(words, at, at)
      BY <1>1, <1>5, <3>1, Slice
    <3>5. at <= l
      BY <1>2 DEF l
    <3> HIDE DEF v
    <3>6. v = SubSeq(words, at, at + Len(v) - 1)
      BY <3>3, <3>4
    <3> QED BY <3>2, <3>3, <3>5, <3>6
  <2> QED BY <2>1, <2>2
<1> HIDE DEF v
<1>7. v # NoPattern
  BY <1>6, Emptied DEF NoPattern
<1>8. at \in FirstWord(words, Stage)..LastWord(words, Stage)
  BY <1>1, <1>2
<1>9. Good(v, Opts[k], words, Stage)
  BY <1>4, <1>6, <1>7, <1>8 DEF Good, l
<1> QED BY <1>9 DEF v

(* An option is taken.                                                     *)
LEMMA TakeOptionStep == IInv /\ TakeOption => IInv'
<1> SUFFICES ASSUME IInv, TakeOption PROVE IInv'
  OBVIOUS
<1>0. Scanning /\ phase = "options" /\ Lookup
  BY DEF TakeOption, Scanning, Lookup
<1>1. PICK k \in MayBeFor(words[at]) :
        /\ Accepted(k)
        /\ Opts[k].recorded
        /\ found' = WithValue(Opts[k].role, ValueOf(k))
        /\ option' = IF Opts[k].kind = "argument" THEN k + 1 ELSE option
        /\ at' = AfterValue(k)
  BY DEF TakeOption
<1>2. UNCHANGED <<session, phase, words, command, located, execution, result, before>>
  BY DEF TakeOption
<1>3. /\ k \in Window /\ k \in option..Len(Opts)
      /\ DOMAIN Opts = 1..Len(Opts) /\ Len(Opts) \in Nat
      /\ option \in Nat \ {0} /\ command \in Commands /\ k \in Nat
  BY <1>0, <1>1, WindowFacts
<1>4. /\ words \in Seq(Words) /\ Len(words) \in Nat
      /\ FirstWord(words, Stage) \in 1..(Len(words) + 1)
      /\ at \in 1..(Len(words) + 1) /\ at >= FirstWord(words, Stage)
  BY <1>0, Places DEF IInv, StageInv
<1>5. at' \in 1..(Len(words) + 1) /\ at' > at
  <2>1. ValueAt(k) \in {at, at + 1} /\ ValueAt(k) <= Len(words)
    BY <1>1 DEF ValueAt, Accepted
  <2>2. at' = ValueAt(k) + 1
    BY <1>1 DEF AfterValue
  <2> QED BY <1>4, <2>1, <2>2
<1>6. /\ Opts[k].role \in DOMAIN found' /\ found'[Opts[k].role] = ValueOf(k)
      /\ \A r \in DOMAIN found :
           r \in DOMAIN found' /\ (r # Opts[k].role => found'[r] = found[r])
  BY <1>1 DEF WithValue
<1>7. found' # <<>>
  <2>1. DOMAIN found' # {}
    BY <1>6
  <2> QED BY <2>1, Emptied
<1>8. SessionInv'
  BY <1>2 DEF IInv, SessionInv, session
<1>9. LineInv'
  <2>1. option' \in Nat \ {0}
    BY <1>1, <1>3
  <2> QED BY <1>0, <1>2, <1>5, <2>1 DEF IInv, LineInv, execution, Lookup, Stage, Stages
<1>10. ExecutionInv'
  BY <1>2 DEF IInv, ExecutionInv, execution, Stages
<1>11. StageInv'
  <2>1. FirstWord(words, Stage)' = FirstWord(words, Stage)
    BY <1>2 DEF Stage
  <2> QED BY <1>0, <1>2, <1>3, <1>4, <1>5, <2>1 DEF StageInv
<1>12. HereInv'
  <2>1. command # Top => CanBeHere(command, registered, mode, privilege) /\ at >= 2
    BY <1>0 DEF IInv, HereInv
  <2>2. at >= 2 => at' >= 2
    BY <1>4, <1>5
  <2> QED BY <1>2, <1>7, <2>1, <2>2 DEF HereInv, session
<1>13. ContainedInv'
  BY <1>0, <1>2 DEF IInv, ContainedInv, Lookup, session
<1>14. Given(found', command, option' - 1, words, Stage, mode, before, privilege)
  <2> SUFFICES ASSUME NEW j \in 1..Len(Opts), j <= option' - 1,
                      Needed(Opts[j], mode, before, privilege)
               PROVE  Opts[j].role \in DOMAIN found' /\ Good(found'[Opts[j].role], Opts[j], words, Stage)
    BY <1>3 DEF Given, Opts
  <2>0. Given(found, command, option - 1, words, Stage, mode, before, privilege)
    BY <1>0 DEF IInv, GivenInv
  <2>1. CASE j = k
    <3>1. Opts[k].kind = "argument"
      BY <2>1 DEF Needed
    <3> QED BY <1>0, <1>1, <1>3, <1>6, <2>1, <3>1, TakenGood
  <2>2. CASE j # k
    <3>1. j <= option - 1
      <4>1. CASE Opts[k].kind = "argument"
        <5>1. option' = k + 1 /\ j < k
          BY <1>1, <1>3, <2>2, <4>1
        <5>2. ASSUME j >= option PROVE FALSE
          <6>1. j \in option..(k - 1)
            BY <1>3, <5>1, <5>2
          <6>2. Visible(Opts[j]) /\ Opts[j].kind = "argument"
            BY DEF Visible, Needed
          <6>3. \A i \in option..(k - 1) : Visible(Opts[i]) => Opts[i].kind # "argument"
            BY <1>3 DEF Window
          <6> QED BY <6>1, <6>2, <6>3
        <5> QED BY <1>3, <5>2
      <4>2. CASE Opts[k].kind # "argument"
        BY <1>1, <4>2
      <4> QED BY <4>1, <4>2
    <3>2. Opts[j].role \in DOMAIN found /\ Good(found[Opts[j].role], Opts[j], words, Stage)
      BY <1>3, <2>0, <3>1 DEF Given, Opts
    <3>3. Opts[j].role # Opts[k].role
      BY <1>3, <2>2, OptsFacts DEF Opts
    <3> QED BY <1>6, <3>2, <3>3
  <2> QED BY <2>1, <2>2
<1>15. GivenInv'
  <2>1. Stage' = Stage
    BY <1>2 DEF Stage
  <2> QED BY <1>0, <1>2, <1>14, <2>1 DEF IInv, GivenInv, session
<1> QED BY <1>8, <1>9, <1>10, <1>11, <1>12, <1>13, <1>15 DEF IInv

-----------------------------------------------------------------------------
(* A stage is done.                                                        *)

(* The end of a stage: no argument is missing.                             *)
LEMMA StageLocatedStep == IInv /\ StageLocated => IInv'
<1> SUFFICES ASSUME IInv, StageLocated PROVE IInv'
  OBVIOUS
<1>0. phase = "options" /\ Lookup /\ Missing = {} /\ command \in Commands
  BY DEF StageLocated, ScanEnds, Lookup, IInv, StageInv
<1>1. UNCHANGED session /\ UNCHANGED execution /\ before' = before
  BY DEF StageLocated
<1>2. /\ words \in Seq(Words) /\ Len(words) \in Nat
      /\ Len(located) \in Nat /\ Stage \in 1..Stages /\ Stages \in Nat /\ Stage = Len(located) + 1
  BY <1>0, Places DEF IInv
<1> DEFINE e == [command |-> command, first |-> at, found |-> found]
<1>3. Done = Append(located, e) /\ IsSeq(located) /\ filters = <<>> /\ asked = <<>>
  BY <1>0 DEF Done, IInv, LineInv, ExecutionInv
<1>4. /\ IsSeq(Done) /\ Len(Done) = Len(located) + 1
      /\ DOMAIN located = 1..Len(located) /\ DOMAIN Done = 1..(Len(located) + 1)
      /\ \A i \in 1..Len(located) : Done[i] = located[i]
      /\ Done[Len(located) + 1] = e
  BY <1>3, Appended
<1>5. Given(found, command, Len(Cmd[command].opts), words, Stage, mode, before, privilege)
  <2>0. DOMAIN Opts = 1..Len(Opts) /\ Len(Opts) \in Nat /\ option \in Nat
    BY <1>0, OptsFacts DEF Opts, IInv, LineInv
  <2>1. Given(found, command, option - 1, words, Stage, mode, before, privilege)
    BY <1>0 DEF IInv, GivenInv
  <2> SUFFICES ASSUME NEW j \in 1..Len(Opts), Needed(Opts[j], mode, before, privilege)
               PROVE  Opts[j].role \in DOMAIN found /\ Good(found[Opts[j].role], Opts[j], words, Stage)
    BY <2>0 DEF Given, Opts
  <2>2. j \notin option..Len(Opts)
    BY <1>0 DEF Missing, Needed, Visible
  <2>3. j <= option - 1
    BY <2>0, <2>2
  <2> QED BY <2>0, <2>1, <2>3 DEF Given, Opts
<1>6. Stage = 1 /\ Cmd[command].does = "load" => mode = MODE_EXEC
  <2>1. SUFFICES ASSUME Cmd[command].does = "load" PROVE mode = MODE_EXEC
    OBVIOUS
  <2>2. command # Top
    BY <1>0, CommandAssumption DEF Top
  <2>3. Offered(command, mode, privilege)
    BY <1>0, <2>2 DEF IInv, HereInv, CanBeHere
  <2>4. Cmd[command].mode = MODE_EXEC
    BY <1>0, <2>1, CommandLineAssumption
  <2> QED BY <2>3, <2>4 DEF Offered, MODE_EXEC, MODE_ANY
<1> HIDE DEF e
<1>7. \A k \in DOMAIN Done :
        /\ Done[k].command \in Commands
        /\ Given(Done[k].found, Done[k].command, Len(Cmd[Done[k].command].opts),
                 words, k, mode, before, privilege)
        /\ k = 1 /\ Cmd[Done[k].command].does = "load" => mode = MODE_EXEC
  <2> SUFFICES ASSUME NEW k \in 1..(Len(located) + 1)
               PROVE  /\ Done[k].command \in Commands
                      /\ Given(Done[k].found, Done[k].command, Len(Cmd[Done[k].command].opts),
                               words, k, mode, before, privilege)
                      /\ k = 1 /\ Cmd[Done[k].command].does = "load" => mode = MODE_EXEC
    BY <1>4
  <2>1. CASE k \in 1..Len(located)
    BY <1>0, <1>4, <2>1 DEF IInv, GivenInv
  <2>2. CASE k = Len(located) + 1
    <3>1. Done[k] = e /\ k = Stage
      BY <1>2, <1>4, <2>2
    <3>2. e.command = command /\ e.found = found
      BY DEF e
    <3> QED BY <1>0, <1>5, <1>6, <3>1, <3>2
  <2> QED BY <1>2, <2>1, <2>2
<1>8. SessionInv'
  BY <1>1 DEF IInv, SessionInv, session
<1>9. CASE Stage < Stages
  <2>1. BeginStage(Stage + 1, words, Done)
    BY <1>9 DEF StageLocated
  <2>2. Stage + 1 \in 1..StagesOf(words) /\ Len(Done) + 1 = Stage + 1
    BY <1>2, <1>4, <1>9 DEF Stages
  <2>3. /\ LineInv' /\ ExecutionInv' /\ StageInv' /\ HereInv'
        /\ words' = words /\ located' = Done
        /\ phase' = "locate" \/ (phase' = "answered" /\ result' = "refused")
    BY <1>1, <1>2, <1>3, <1>4, <2>1, <2>2, Begun DEF IInv, LineInv
  <2>4. ContainedInv'
    BY <1>0, <1>1, <2>3 DEF IInv, ContainedInv, session
  <2>5. GivenInv'
    BY <1>1, <1>7, <2>3 DEF GivenInv, session
  <2> QED BY <1>8, <2>3, <2>4, <2>5 DEF IInv
<1>10. CASE ~(Stage < Stages)
  <2>1. /\ located' = Done /\ phase' = "init"
        /\ UNCHANGED <<words, command, at, option, found, result>>
    BY <1>10 DEF StageLocated
  <2>2. LineInv'
    BY <1>1, <1>4, <2>1 DEF IInv, LineInv, Lookup, execution
  <2>3. ExecutionInv'
    <3>1. Len(located') = Stages /\ Stages' = Stages /\ 0 < Stages
      BY <1>2, <1>4, <1>10, <2>1 DEF Stages
    <3> QED BY <1>1, <1>3, <2>1, <3>1, Emptied DEF ExecutionInv, execution
  <2>4. StageInv' /\ HereInv' /\ ContainedInv'
    BY <2>1 DEF StageInv, HereInv, ContainedInv, Lookup
  <2>5. GivenInv'
    BY <1>1, <1>7, <2>1 DEF GivenInv, session
  <2> QED BY <1>8, <2>2, <2>3, <2>4, <2>5 DEF IInv
<1> QED BY <1>9, <1>10

-----------------------------------------------------------------------------
(* The execution.                                                          *)

(* After the lookup nothing is known of the line but what the lookup left. *)
LEMMA Executing ==
  ASSUME IInv, phase' \in {"init", "run", "teardown", "answered"},
         phase' = "init" => phase = "init",
         phase' = "run" => phase \in {"init", "run"},
         phase' = "answered" => result' # "refused",
         phase' \in {"init", "run"} => UNCHANGED session,
         UNCHANGED <<lookup, before>>
  PROVE  StageInv' /\ HereInv' /\ ContainedInv' /\ GivenInv'
<1>1. StageInv' /\ HereInv' /\ ContainedInv'
  BY DEF StageInv, HereInv, ContainedInv, Lookup
<1>2. GivenInv'
  <2>1. CASE phase' \in {"init", "run"}
    <3>1. \A k \in DOMAIN located :
         /\ located[k].command \in Commands
         /\ Given(located[k].found, located[k].command, Len(Cmd[located[k].command].opts),
                  words, k, mode, before, privilege)
         /\ k = 1 /\ Cmd[located[k].command].does = "load" => mode = MODE_EXEC
      BY <2>1 DEF IInv, GivenInv
    <3> QED BY <2>1, <3>1 DEF GivenInv, session, lookup
  <2>2. CASE phase' \notin {"init", "run"}
    BY <2>2 DEF GivenInv
  <2> QED BY <2>1, <2>2
<1> QED BY <1>1, <1>2

(* What the filters have in common with the stages.                        *)
LEMMA Queues ==
  ASSUME IInv, phase \in {"init", "run", "teardown"}
  PROVE  /\ IsSeq(filters) /\ IsSeq(asked) /\ Len(filters) \in Nat /\ Len(asked) \in Nat
         /\ Len(located) = Stages /\ Stages \in Nat /\ Stages >= 1
         /\ Len(filters) <= Len(asked) /\ Len(asked) < Stages
         /\ phase = "init" => Len(filters) = Len(asked)
         /\ phase = "teardown" => result # "refused"
         /\ located[1].command \in Commands \/ phase = "teardown"
<1>1. IsSeq(filters) /\ IsSeq(asked) /\ IsSeq(located) /\ words \in Seq(Words)
  BY DEF IInv, ExecutionInv, LineInv
<1>2. Len(filters) \in Nat /\ Len(asked) \in Nat /\ DOMAIN located = 1..Len(located)
  BY <1>1, Appended
<1>3. Stages \in Nat /\ Stages >= 1
  BY <1>1, StageFacts DEF Stages
<1>4. /\ Len(located) = Stages /\ Len(filters) <= Len(asked) /\ Len(asked) < Stages
      /\ phase = "init" => Len(filters) = Len(asked)
      /\ phase = "teardown" => result # "refused"
  BY DEF IInv, ExecutionInv
<1>5. 1 \in DOMAIN located
  BY <1>2, <1>3, <1>4
<1>6. located[1].command \in Commands \/ phase = "teardown"
  BY <1>5 DEF IInv, GivenInv
<1> QED BY <1>1, <1>2, <1>3, <1>4, <1>6

(* What a step does to the line.                                           *)
LEMMA SameLine ==
  ASSUME IInv, phase \in {"init", "run", "teardown"},
         phase' \in {"init", "run", "teardown", "answered"},
         UNCHANGED lookup, printed' \in Seq(SUBSET Texts), Len(printed') <= MaxOutput,
         result' \in {"none", "refused", "failed", "done"}
  PROVE  LineInv'
BY DEF IInv, LineInv, lookup, Lookup

(* No line is printed.                                                     *)
LEMMA Unprinted ==
  ASSUME IInv, UNCHANGED printed
  PROVE  printed' \in Seq(SUBSET Texts) /\ Len(printed') <= MaxOutput
BY DEF IInv, LineInv

(* A filter is set up.                                                     *)
LEMMA InitFilterStep == IInv /\ InitFilter => IInv'
<1> SUFFICES ASSUME IInv, InitFilter PROVE IInv'
  OBVIOUS
<1>1. /\ phase = "init" /\ phase' = "init" /\ Len(filters) + 2 <= Stages
      /\ \E f : filters' = Append(filters, f)
      /\ \E f : asked' = Append(asked, f)
      /\ UNCHANGED <<session, lookup, printed, screen, result, before>>
  BY DEF InitFilter, ToSetUp
<1>2. SessionInv'
  BY <1>1 DEF IInv, SessionInv, session
<1>3. LineInv'
  BY <1>1, SameLine, Unprinted DEF IInv, LineInv
<1>4. ExecutionInv'
  <2>1. /\ IsSeq(filters) /\ IsSeq(asked) /\ Len(filters) \in Nat /\ Len(asked) \in Nat
        /\ Len(located) = Stages /\ Stages \in Nat /\ Len(filters) = Len(asked)
    BY <1>1, Queues
  <2>2. IsSeq(filters') /\ Len(filters') = Len(filters) + 1
    BY <1>1, <2>1, Appended
  <2>3. IsSeq(asked') /\ Len(asked') = Len(asked) + 1
    BY <1>1, <2>1, Appended
  <2>4. Stages' = Stages /\ located' = located
    BY <1>1 DEF Stages, lookup
  <2> QED BY <1>1, <2>1, <2>2, <2>3, <2>4 DEF ExecutionInv
<1>5. StageInv' /\ HereInv' /\ ContainedInv' /\ GivenInv'
  BY <1>1, Executing
<1> QED BY <1>2, <1>3, <1>4, <1>5 DEF IInv

(* Or fails.                                                               *)
LEMMA InitFilterFailsStep == IInv /\ InitFilterFails => IInv'
<1> SUFFICES ASSUME IInv, InitFilterFails PROVE IInv'
  OBVIOUS
<1>1. /\ phase = "init" /\ phase' = "teardown" /\ result' = "failed"
      /\ UNCHANGED session /\ UNCHANGED lookup /\ UNCHANGED execution /\ before' = before
  BY DEF InitFilterFails
<1>2. SessionInv'
  BY <1>1 DEF IInv, SessionInv, session
<1>3. LineInv'
  BY <1>1, SameLine, Unprinted DEF execution
<1>4. ExecutionInv'
  BY <1>1 DEF IInv, ExecutionInv, execution, lookup, Stages
<1>5. StageInv' /\ HereInv' /\ ContainedInv' /\ GivenInv'
  BY <1>1, Executing
<1> QED BY <1>2, <1>3, <1>4, <1>5 DEF IInv

(* All are, and the callback runs.                                         *)
LEMMA RunCallbackStep == IInv /\ RunCallback => IInv'
<1> SUFFICES ASSUME IInv, RunCallback PROVE IInv'
  OBVIOUS
<1>1. /\ phase = "init" /\ phase' = "run" /\ result' = result
      /\ UNCHANGED session /\ UNCHANGED lookup /\ UNCHANGED execution /\ before' = before
  BY DEF RunCallback
<1>2. SessionInv'
  BY <1>1 DEF IInv, SessionInv, session
<1>3. LineInv'
  BY <1>1, SameLine, Unprinted DEF IInv, LineInv, execution
<1>4. ExecutionInv'
  BY <1>1 DEF IInv, ExecutionInv, execution, lookup, Stages
<1>5. StageInv' /\ HereInv' /\ ContainedInv' /\ GivenInv'
  BY <1>1, Executing
<1> QED BY <1>2, <1>3, <1>4, <1>5 DEF IInv

(* It prints a line.                                                       *)
LEMMA PrintLineStep == IInv /\ PrintLine => IInv'
<1> SUFFICES ASSUME IInv, PrintLine PROVE IInv'
  OBVIOUS
<1>1. PICK line \in SUBSET Texts :
        printed' = Append(printed, line) /\ filters' = Filtered(filters, line)
  BY DEF PrintLine
<1>2. /\ phase = "run" /\ phase' = "run" /\ Len(printed) < MaxOutput
      /\ UNCHANGED <<session, lookup, asked, result, before>>
  BY DEF PrintLine, Running
<1>3. SessionInv'
  BY <1>2 DEF IInv, SessionInv, session
<1>4. LineInv'
  <2>1. /\ printed \in Seq(SUBSET Texts) /\ MaxOutput \in Nat
        /\ result \in {"none", "refused", "failed", "done"}
    BY CommandLineAssumption DEF IInv, LineInv
  <2>2. /\ Append(printed, line) \in Seq(SUBSET Texts)
        /\ Len(Append(printed, line)) = Len(printed) + 1 /\ Len(printed) \in Nat
    BY <2>1, AppendProperties
  <2>3. printed' \in Seq(SUBSET Texts) /\ Len(printed') <= MaxOutput
    BY <1>1, <1>2, <2>1, <2>2
  <2> QED BY <1>2, <2>1, <2>3, SameLine
<1>5. ExecutionInv'
  <2>1. /\ IsSeq(filters) /\ IsSeq(asked)
        /\ Len(located) = Stages
        /\ Len(filters) <= Len(asked) /\ Len(asked) < Stages
    BY <1>2, Queues
  <2>2. Stages' = Stages /\ located' = located
    BY <1>2 DEF Stages, lookup
  <2> DEFINE r == Filtered(filters, line)
  <2>3. r = [i \in DOMAIN filters |-> r[i]]
    BY DEF Filtered
  <2> HIDE DEF r
  <2>4. IsSeq(r) /\ Len(r) = Len(filters)
    BY <2>1, <2>3, Mapped
  <2>5. IsSeq(filters') /\ Len(filters') = Len(filters)
    BY <1>1, <2>4 DEF r
  <2> QED BY <1>2, <2>1, <2>2, <2>5 DEF ExecutionInv
<1>6. StageInv' /\ HereInv' /\ ContainedInv' /\ GivenInv'
  BY <1>2, Executing
<1> QED BY <1>3, <1>4, <1>5, <1>6 DEF IInv

(* The callback returns.                                                   *)
LEMMA Returned ==
  ASSUME IInv, phase = "run", Returns, SessionInv'
  PROVE  IInv'
<1>1. /\ phase' = "teardown" /\ result' = "done" /\ before' = before
      /\ UNCHANGED lookup /\ UNCHANGED execution
  BY DEF Returns
<1>2. LineInv'
  BY <1>1, SameLine, Unprinted DEF execution
<1>3. ExecutionInv'
  BY <1>1 DEF IInv, ExecutionInv, execution, lookup, Stages
<1>4. StageInv' /\ HereInv' /\ ContainedInv' /\ GivenInv'
  BY <1>1, Executing
<1> QED BY <1>2, <1>3, <1>4 DEF IInv

(* It has printed all.                                                     *)
LEMMA PrintedAllStep == IInv /\ PrintedAll => IInv'
<1> SUFFICES ASSUME IInv, PrintedAll PROVE IInv'
  OBVIOUS
<1>1. SessionInv'
  BY DEF PrintedAll, IInv, SessionInv, session
<1> QED BY <1>1, Returned DEF PrintedAll, Running

(* It sets the mode.                                                       *)
LEMMA SetsModeStep == IInv /\ SetsMode => IInv'
<1> SUFFICES ASSUME IInv, SetsMode PROVE IInv'
  OBVIOUS
<1>1. phase = "run" /\ Returns /\ UNCHANGED <<privilege, registered>>
  BY DEF SetsMode, Running
<1>2. PICK m \in Cmd[located[1].command].sets :
        /\ mode' = m
        /\ unique' = IF m = mode THEN unique ELSE BuildShortest(unique, registered, m, privilege)
  BY DEF SetsMode
<1>3. m \in Int
  <2>1. located[1].command \in Commands
    BY <1>1, Queues
  <2> QED BY <1>2, <2>1, CommandLineAssumption
<1>4. SessionOK(registered, unique, mode, privilege) /\ privilege \in Int
  BY DEF IInv, SessionInv, SessionOK
<1>5. SessionOK(registered, unique', m, privilege)
  BY <1>2, <1>3, <1>4, Rebuilt
<1>6. SessionInv'
  BY <1>1, <1>2, <1>5 DEF SessionInv
<1> QED BY <1>1, <1>6, Returned

(* It sets the privilege.                                                  *)
LEMMA SetsPrivilegeStep == IInv /\ SetsPrivilege => IInv'
<1> SUFFICES ASSUME IInv, SetsPrivilege PROVE IInv'
  OBVIOUS
<1>1. phase = "run" /\ Returns /\ UNCHANGED <<mode, registered>>
  BY DEF SetsPrivilege, Running
<1>2. PICK p \in Cmd[located[1].command].sets :
        /\ privilege' = p
        /\ unique' = IF p = privilege THEN unique ELSE BuildShortest(unique, registered, mode, p)
  BY DEF SetsPrivilege
<1>3. p \in Int
  <2>1. located[1].command \in Commands
    BY <1>1, Queues
  <2> QED BY <1>2, <2>1, CommandLineAssumption
<1>4. SessionOK(registered, unique, mode, privilege) /\ mode \in Int
  BY DEF IInv, SessionInv, SessionOK
<1>5. SessionOK(registered, unique', mode, p)
  BY <1>2, <1>3, <1>4, Rebuilt
<1>6. SessionInv'
  BY <1>1, <1>2, <1>5 DEF SessionInv
<1> QED BY <1>1, <1>6, Returned

(* It registers commands, whose lengths nobody computes.                   *)
LEMMA LoadsStep == IInv /\ Loads => IInv'
<1> SUFFICES ASSUME IInv, Loads PROVE IInv'
  OBVIOUS
<1>1. /\ phase = "run" /\ Cmd[located[1].command].does = "load" /\ Returns
      /\ registered' = Commands /\ UNCHANGED <<mode, privilege, unique>>
  BY DEF Loads, Running
<1>2. mode = MODE_EXEC
  <2>1. Len(located) = Stages /\ Stages >= 1 /\ Stages \in Nat /\ IsSeq(located)
    BY <1>1, Queues DEF IInv, LineInv
  <2>2. 1 \in DOMAIN located
    BY <2>1, Appended
  <2> QED BY <1>1, <2>2 DEF IInv, GivenInv
<1>3. /\ mode \in Int /\ privilege \in Int /\ unique \in [Commands -> Nat]
      /\ registered \subseteq Commands
      /\ Exact(registered, unique, mode, privilege)
      /\ \A c \in Commands \ registered : unique[c] = 0
  BY DEF IInv, SessionInv, SessionOK
<1>4. Exact(Commands, unique, mode, privilege)
  <2>1. {c \in Commands : unique[c] # 0} = {c \in registered : unique[c] # 0}
    BY <1>3
  <2> QED BY <1>3, <2>1 DEF Exact
<1>5. SessionOK(Commands, unique, mode, privilege)
  BY <1>2, <1>3, <1>4 DEF SessionOK
<1>6. SessionInv'
  BY <1>1, <1>5 DEF SessionInv
<1> QED BY <1>1, <1>6, Returned

(* The filters are torn down.                                              *)
LEMMA TearDownStep == IInv /\ TearDown => IInv'
<1> SUFFICES ASSUME IInv, TearDown PROVE IInv'
  OBVIOUS
<1>1. /\ phase = "teardown" /\ phase' = "teardown"
      /\ filters # <<>> /\ filters' = Tail(filters)
      /\ UNCHANGED <<session, lookup, printed, asked, result, before>>
  BY DEF TearDown
<1>2. SessionInv'
  BY <1>1 DEF IInv, SessionInv, session
<1>3. LineInv'
  BY <1>1, SameLine, Unprinted DEF IInv, LineInv
<1>4. ExecutionInv'
  <2>1. /\ IsSeq(filters) /\ IsSeq(asked) /\ Len(filters) \in Nat /\ Len(asked) \in Nat
        /\ Len(located) = Stages
        /\ Len(filters) <= Len(asked) /\ Len(asked) < Stages /\ result # "refused"
    BY <1>1, Queues
  <2>2. IsSeq(filters') /\ Len(filters') = Len(filters) - 1
    BY <1>1, <2>1, Shortened
  <2>3. Stages' = Stages /\ located' = located
    BY <1>1 DEF Stages, lookup
  <2> QED BY <1>1, <2>1, <2>2, <2>3 DEF ExecutionInv
<1>5. StageInv' /\ HereInv' /\ ContainedInv' /\ GivenInv'
  BY <1>1, Executing
<1> QED BY <1>2, <1>3, <1>4, <1>5 DEF IInv

(* They are.                                                               *)
LEMMA TornDownStep == IInv /\ TornDown => IInv'
<1> SUFFICES ASSUME IInv, TornDown PROVE IInv'
  OBVIOUS
<1>1. /\ phase = "teardown" /\ phase' = "answered" /\ result' = result
      /\ UNCHANGED session /\ UNCHANGED lookup /\ UNCHANGED execution /\ before' = before
  BY DEF TornDown
<1>2. result # "refused"
  BY <1>1, Queues
<1>3. SessionInv'
  BY <1>1 DEF IInv, SessionInv, session
<1>4. LineInv'
  BY <1>1, SameLine, Unprinted DEF IInv, LineInv, execution
<1>5. ExecutionInv'
  BY <1>1 DEF IInv, ExecutionInv, execution
<1>6. StageInv' /\ HereInv' /\ ContainedInv' /\ GivenInv'
  BY <1>1, <1>2, Executing
<1> QED BY <1>3, <1>4, <1>5, <1>6 DEF IInv

(* The prompt comes back.                                                  *)
LEMMA FreeStep == IInv /\ Free => IInv'
<1> SUFFICES ASSUME IInv, Free PROVE IInv'
  OBVIOUS
<1>1. /\ phase' = "prompt" /\ UNCHANGED session
      /\ words' = <<>> /\ command' = Top /\ at' = 1 /\ option' = 1 /\ located' = <<>>
      /\ filters' = <<>> /\ printed' = <<>> /\ asked' = <<>> /\ result' = "none"
      /\ before' = [mode |-> mode, privilege |-> privilege, registered |-> registered]
  BY DEF Free
<1>2. SessionInv'
  BY <1>1 DEF IInv, SessionInv, session
<1>3. LineInv'
  <2>1. MaxWords \in Nat \ {0} /\ MaxOutput \in Nat
    BY CommandLineAssumption
  <2>2. words' \in Seq(Words) /\ Len(words') = 0
    BY <1>1, EmptySeq
  <2>3. printed' \in Seq(SUBSET Texts) /\ Len(printed') = 0
    BY <1>1, EmptySeq
  <2>4. IsSeq(located')
    BY <1>1, Emptied
  <2> QED BY <1>1, <2>1, <2>2, <2>3, <2>4 DEF LineInv, Lookup
<1>4. ExecutionInv'
  BY <1>1, Emptied DEF ExecutionInv
<1>5. StageInv' /\ HereInv' /\ GivenInv'
  BY <1>1 DEF StageInv, HereInv, GivenInv, Lookup
<1>6. ContainedInv'
  BY <1>1 DEF ContainedInv, Lookup, session
<1> QED BY <1>2, <1>3, <1>4, <1>5, <1>6 DEF IInv

(* Every step keeps the invariant.                                         *)
LEMMA NextStep == IInv /\ [Next]_vars => IInv'
<1> SUFFICES ASSUME IInv, [Next]_vars PROVE IInv'
  OBVIOUS
<1>1. CASE UNCHANGED vars
  <2>1. UNCHANGED session /\ UNCHANGED lookup /\ UNCHANGED execution
        /\ UNCHANGED <<phase, result, before>>
    BY <1>1 DEF vars, session, lookup, execution
  <2>2. SessionInv' /\ LineInv' /\ ExecutionInv'
    BY <2>1 DEF IInv, SessionInv, LineInv, ExecutionInv, session, lookup, execution, Lookup,
                Stage, Stages
  <2>3. Stage' = Stage
    BY <2>1 DEF Stage, lookup
  <2>4. StageInv' /\ HereInv' /\ ContainedInv'
    BY <2>1, <2>3 DEF IInv, StageInv, HereInv, ContainedInv, Lookup, session, lookup
  <2>5. GivenInv'
    BY <2>1, <2>3 DEF IInv, GivenInv, session, lookup
  <2> QED BY <2>2, <2>4, <2>5 DEF IInv
<1>2. CASE Type
  BY <1>2, TypeStep
<1>3. CASE LocateWord
  BY <1>3, LocateStep
<1>4. CASE TakeOption
  BY <1>4, TakeOptionStep
<1>5. CASE RefuseOption
  BY <1>5, RefuseOptionStep
<1>6. CASE MissingArgument
  BY <1>6, MissingArgumentStep
<1>7. CASE StageLocated
  BY <1>7, StageLocatedStep
<1>8. CASE InitFilter
  BY <1>8, InitFilterStep
<1>9. CASE InitFilterFails
  BY <1>9, InitFilterFailsStep
<1>10. CASE RunCallback
  BY <1>10, RunCallbackStep
<1>11. CASE PrintLine
  BY <1>11, PrintLineStep
<1>12. CASE PrintedAll
  BY <1>12, PrintedAllStep
<1>13. CASE SetsMode
  BY <1>13, SetsModeStep
<1>14. CASE SetsPrivilege
  BY <1>14, SetsPrivilegeStep
<1>15. CASE Loads
  BY <1>15, LoadsStep
<1>16. CASE TearDown
  BY <1>16, TearDownStep
<1>17. CASE TornDown
  BY <1>17, TornDownStep
<1>18. CASE Free
  BY <1>18, FreeStep
<1> QED BY <1>1, <1>2, <1>3, <1>4, <1>5, <1>6, <1>7, <1>8, <1>9, <1>10, <1>11, <1>12, <1>13,
           <1>14, <1>15, <1>16, <1>17, <1>18 DEF Next, Answer

-----------------------------------------------------------------------------
(* The invariant, for every set of commands and lines.                     *)
THEOREM Invariant == Spec => []IInv
BY InitStep, NextStep, PTL DEF Spec

(* Every variable keeps its type, and the line its number of words.        *)
THEOREM TypeCorrect == Spec => []TypeOK
<1>1. IInv => TypeOK
  BY DEF IInv, SessionInv, SessionOK, LineInv, ExecutionInv, TypeOK, Lookup
<1> QED BY <1>1, Invariant, PTL

(* Whatever the mode, the privilege and the commands registered went       *)
(* through, a length that was ever computed is the one cli_build_shortest  *)
(* would compute of those counted.                                         *)
THEOREM LengthsHold == Spec => []LengthsCurrent
<1>1. IInv => LengthsCurrent
  BY DEF IInv, SessionInv, SessionOK, Exact, LengthsExact, LengthsCurrent
<1> QED BY <1>1, Invariant, PTL

(* Nobody runs a command they did not name.                                *)
THEOREM AbbreviationsUnique == Spec => []AbbreviationUnique
<1>1. IInv => AbbreviationUnique
  BY DEF IInv, HereInv, Told, AbbreviationUnique, Lookup
<1> QED BY <1>1, Invariant, PTL

(* A line that is refused has left a submode for a command of MODE_CONFIG, *)
(* or has changed nothing.                                                 *)
THEOREM RefusalsLeave == Spec => []RefusedOnlyLeaves
<1>1. IInv => RefusedOnlyLeaves
  BY DEF IInv, ContainedInv, OnlyLeft, RefusedOnlyLeaves
<1> QED BY <1>1, Invariant, PTL

(* A callback that runs finds every argument it will ask for, taken from   *)
(* its own stage and accepted by its validator.                            *)
THEOREM ArgumentsGiven == Spec => []ArgumentsHold
<1>1. ASSUME IInv, phase = "run", NEW k \in DOMAIN located,
             NEW j \in DOMAIN Cmd[located[k].command].opts,
             Visible(Cmd[located[k].command].opts[j]),
             Cmd[located[k].command].opts[j].kind = "argument",
             Cmd[located[k].command].opts[j].recorded
      PROVE  LET o == Cmd[located[k].command].opts[j]
                 value == Value(k, o.role)
             IN /\ value # NoPattern
                /\ \E i \in FirstWord(words, k)..LastWord(words, k) :
                     value = SubSeq(words, i, i + Len(value) - 1) /\ i + Len(value) - 1 <= LastWord(words, k)
                /\ o.checked => value[1] \notin o.refuses
  <2> DEFINE c == located[k].command
             o == Cmd[c].opts[j]
  <2>1. /\ c \in Commands
        /\ Given(located[k].found, c, Len(Cmd[c].opts), words, k, mode, before, privilege)
    BY <1>1 DEF IInv, GivenInv
  <2>2. j <= Len(Cmd[c].opts)
    BY <2>1, OptsFacts
  <2>3. Needed(o, mode, before, privilege)
    BY <1>1 DEF Needed, Visible
  <2>4. o.role \in DOMAIN located[k].found /\ Good(located[k].found[o.role], o, words, k)
    BY <2>1, <2>2, <2>3 DEF Given
  <2>5. Value(k, o.role) = located[k].found[o.role]
    BY <2>4 DEF Value
  <2> QED BY <2>4, <2>5 DEF Good
<1>2. IInv => ArgumentsHold
  BY <1>1 DEF ArgumentsHold
<1> QED BY <1>2, Invariant, PTL

(* Names that are apart are so from either side.                           *)
LEMMA Apart ==
  ASSUME NamesApart, NEW c \in Commands, NEW d \in Commands, c # d,
         Cmd[c].under = Cmd[d].under, Cmd[c].type = Cmd[d].type
  PROVE  /\ MODE_ANY \in {Cmd[c].mode, Cmd[d].mode} => Cmd[c].name # Cmd[d].name
         /\ Cmd[c].mode = MODE_CONFIG /\ Cmd[d].mode = MODE_ANY =>
              ~IsPrefix(Cmd[c].name, Cmd[d].name)
<1>1. d \in Siblings[c] /\ c \in Siblings[d]
  BY DEF Siblings
<1> QED BY <1>1 DEF NamesApart

(* cli_build_shortest comes to every chain that a lookup can come to.      *)
LEMMA ChainReached ==
  ASSUME NEW chain \in Chains, NEW c \in registered, registered \subseteq Commands,
         Cmd[c].under = chain[1]
  PROVE  Reached(c, mode, privilege)
<1>1. CASE chain[1] = Top
  BY <1>1, AboveFacts DEF Reached
<1>2. CASE chain[1] # Top
  <2>1. /\ chain[1] \in registered
        /\ Reached(chain[1], mode, privilege) /\ Offered(chain[1], mode, privilege)
    <3>1. PICK u \in {Top} \cup {e \in registered : /\ Reached(e, mode, privilege)
                                                   /\ Offered(e, mode, privilege)} :
             chain = <<u, "regular">>
      BY <1>2 DEF Chains
    <3>2. chain[1] = u
      BY <3>1
    <3> QED BY <1>2, <3>2
  <2>2. Cmd[c].above = Cmd[chain[1]].above \cup {chain[1]}
    BY <1>2, AboveFacts
  <2> QED BY <2>1, <2>2 DEF Reached
<1> QED BY <1>1, <1>2

(* The commands offered that a word names, and what the lookup takes.      *)
Meant(w, under, type, reg, len, m, p) ==
  {c \in Completions(w, under, type, reg, m, p) : Names(w, c, len)}

(* The lookup takes the first that is offered, as completion does.         *)
LEMMA Selected ==
  ASSUME NamesApart, NEW len \in [Commands -> Nat], NEW reg, reg \subseteq Commands,
         NEW m \in Int, NEW p, Exact(reg, len, m, p),
         NEW under, NEW type,
         \A c \in reg : Cmd[c].under = under /\ Cmd[c].type = type =>
           len[c] # 0 /\ Reached(c, m, p),
         NEW w \in Words, Meant(w, under, type, reg, len, m, p) # {}
  PROVE  LET S == Named(w, under, type, reg, len, p)
             D == Meant(w, under, type, reg, len, m, p)
         IN /\ Locate(S, m) = Min(D) /\ ~LeavesSubmode(S, m)
            /\ Min(D) \in Commands
            /\ \A c \in D : Cmd[Min(D)].name = w \/ Min(D) = c
<1> DEFINE S == Named(w, under, type, reg, len, p)
           D == Meant(w, under, type, reg, len, m, p)
<1>1. /\ S \subseteq reg
      /\ \A x \in S : /\ Cmd[x].under = under /\ Cmd[x].type = type
                      /\ Cmd[x].privilege <= p /\ Names(w, x, len)
  BY DEF Named
<1>2. D \subseteq S /\ (\A x \in S : x \in D <=> Offered(x, m, p)) /\ D # {}
  BY DEF Named, Meant, Completions, Offered, Names
<1>3. S \subseteq Commands /\ \A x \in S : len[x] # 0 /\ Reached(x, m, p)
  BY <1>1
<1> HIDE DEF S, D
<1>4. \A x \in D : Cmd[x].mode \in {MODE_ANY, m} /\ Offered(x, m, p)
  BY <1>2 DEF Offered
<1>5. \A x \in S : Cmd[x].mode \in {MODE_ANY, m} => x \in D
  BY <1>1, <1>2 DEF Offered
<1>6. ASSUME NEW x \in D, NEW d \in D, x # d
      PROVE  w = Cmd[x].name
  <2>1. IsPrefix(w, Cmd[d].name)
    BY <1>1, <1>2 DEF Names
  <2> QED BY <1>1, <1>2, <1>3, <1>4, <1>6, <2>1, NamedBeside
<1>7. D \subseteq Nat /\ Min(D) \in D
  <2>1. D \subseteq Nat
    BY <1>2, <1>3, CmdFacts
  <2> QED BY <1>2, <2>1, MinFacts
<1>8. /\ Min(D) \in Commands
      /\ \A c \in D : Cmd[Min(D)].name = w \/ Min(D) = c
  BY <1>2, <1>3, <1>6, <1>7
<1>9. CASE \A d \in D : Cmd[d].mode # MODE_ANY
  <2>1. \A x \in S : Cmd[x].mode # MODE_ANY
    BY <1>5, <1>9
  <2>2. TakenInLoop(S, m) = D
    BY <1>2, <1>4, <1>5, <1>9, <2>1 DEF TakenInLoop
  <2> QED BY <1>2, <1>8, <2>2 DEF Locate, LeavesSubmode, S, D
<1>10. ASSUME NEW d \in D, Cmd[d].mode = MODE_ANY
       PROVE  Locate(S, m) = Min(D) /\ ~LeavesSubmode(S, m)
  <2>1. D = {d}
    <3>1. ASSUME NEW x \in D, x # d PROVE FALSE
      <4>1. w = Cmd[x].name /\ w = Cmd[d].name
        BY <1>6, <3>1
      <4>2. Cmd[x].name # Cmd[d].name
        BY <1>1, <1>2, <1>3, <1>10, <3>1, Apart
      <4> QED BY <4>1, <4>2
    <3> QED BY <3>1
  <2>2. Min(D) = d /\ Max(D) = d
    <3>1. IsFiniteSet(D)
      BY <2>1, FS_Singleton
    <3> QED BY <1>2, <1>7, <2>1, <3>1, MaxFacts
  <2>3. \A x \in S : Cmd[x].mode \in {MODE_ANY, m} => x = d
    BY <1>5, <2>1
  <2>4. ASSUME NEW x \in S, Cmd[x].mode = MODE_CONFIG, x # d
        PROVE  FALSE
    <3>1. ~Offered(x, m, p)
      BY <1>2, <2>1, <2>4
    <3>2. w = Cmd[x].name
      BY <1>1, <1>3, <3>1, NamedElsewhere
    <3>3. IsPrefix(w, Cmd[d].name)
      BY <1>1, <1>2 DEF Names
    <3>4. ~IsPrefix(Cmd[x].name, Cmd[d].name)
      BY <1>1, <1>2, <1>3, <1>10, <2>4, Apart
    <3> QED BY <3>2, <3>3, <3>4
  <2>5. CASE m = MODE_ANY
    <3>1. TakenInLoop(S, m) = {d}
      BY <1>2, <1>10, <2>3, <2>5 DEF TakenInLoop
    <3> QED BY <2>1, <3>1 DEF Locate, LeavesSubmode
  <2>6. CASE m # MODE_ANY
    <3>1. TakenInLoop(S, m) = {}
      <4>1. \A x \in S : Cmd[x].mode = MODE_ANY => ~(x < d)
        BY <1>7, <2>3
      <4>2. d \notin TakenInLoop(S, m)
        BY <1>10, <2>6, <4>1 DEF TakenInLoop
      <4>3. TakenInLoop(S, m) \subseteq {d}
        BY <2>3 DEF TakenInLoop
      <4> QED BY <4>2, <4>3
    <3>2. AgainConfig(S, m) = {}
      <4>1. MODE_ANY # MODE_CONFIG
        BY DEF MODE_ANY, MODE_CONFIG
      <4> QED BY <1>10, <2>4, <4>1 DEF AgainConfig
    <3>3. AgainAny(S) = D
      BY <1>2, <1>10, <2>1, <2>3 DEF AgainAny
    <3> QED BY <1>2, <2>2, <3>1, <3>2, <3>3 DEF Locate, LeavesSubmode
  <2> QED BY <2>5, <2>6
<1> QED BY <1>8, <1>9, <1>10 DEF S, D

(* In such a chain completion and the lookup agree.                        *)
LEMMA Agreed ==
  ASSUME NamesApart, IInv, phase = "prompt", NEW chain \in Chains, Computed(chain[1], chain[2])
  PROVE  FullNameSelects(chain[1], chain[2]) /\ DescentAgrees(chain[1], chain[2])
<1> DEFINE under == chain[1]
           type == chain[2]
           D(w) == Meant(w, under, type, registered, unique, mode, privilege)
           S(w) == Named(w, under, type, registered, unique, privilege)
<1>1. /\ mode \in Int /\ registered \subseteq Commands /\ unique \in [Commands -> Nat]
      /\ Exact(registered, unique, mode, privilege)
  BY DEF IInv, SessionInv, SessionOK
<1>2. \A c \in registered : Cmd[c].under = under /\ Cmd[c].type = type =>
        unique[c] # 0 /\ Reached(c, mode, privilege)
  BY <1>1, ChainReached DEF Computed
<1> HIDE DEF under, type
<1>3. ASSUME NEW w \in Words, D(w) # {}
      PROVE  /\ Locate(S(w), mode) = Min(D(w)) /\ ~LeavesSubmode(S(w), mode)
             /\ Min(D(w)) \in Commands
             /\ \A c \in D(w) : Cmd[Min(D(w))].name = w \/ Min(D(w)) = c
  BY <1>1, <1>2, <1>3, Selected
<1>4. FullNameSelects(under, type)
  <2> SUFFICES ASSUME NEW c \in Completions(<<>>, under, type, registered, mode, privilege)
               PROVE  /\ Locate(S(Cmd[c].name), mode) # NoCommand
                      /\ Cmd[Locate(S(Cmd[c].name), mode)].name = Cmd[c].name
                      /\ ~LeavesSubmode(S(Cmd[c].name), mode)
    BY DEF FullNameSelects
  <2> DEFINE w == Cmd[c].name
  <2>1. c \in Commands /\ w \in Words
    BY <1>1, CmdFacts DEF Completions
  <2>2. IsPrefix(w, w)
    BY <2>1, PrefixFacts
  <2>3. c \in D(w)
    BY <2>2 DEF Completions, Names, Meant
  <2>4. \A d \in Commands : d # NoCommand
    BY CmdFacts DEF NoCommand
  <2> HIDE DEF w, D, S
  <2>5. /\ Locate(S(w), mode) = Min(D(w)) /\ ~LeavesSubmode(S(w), mode)
        /\ Min(D(w)) \in Commands
        /\ Cmd[Min(D(w))].name = w \/ Min(D(w)) = c
    BY <1>3, <2>1, <2>3
  <2>6. Cmd[Min(D(w))].name = w
    BY <2>5 DEF w
  <2> QED BY <2>4, <2>5, <2>6 DEF w
<1>5. DescentAgrees(under, type)
  <2> SUFFICES ASSUME NEW c \in registered, NEW n \in 0..Len(Cmd[c].name),
                      Descend(SubSeq(Cmd[c].name, 1, n), under, type, registered, unique,
                              mode, privilege) # NoCommand
               PROVE  Locate(S(SubSeq(Cmd[c].name, 1, n)), mode) =
                        Descend(SubSeq(Cmd[c].name, 1, n), under, type, registered, unique,
                                mode, privilege)
    BY DEF DescentAgrees
  <2> DEFINE w == SubSeq(Cmd[c].name, 1, n)
  <2>1. w \in Words
    <3>1. Cmd[c].name \in Seq(Letters) /\ n \in Nat /\ n <= Len(Cmd[c].name)
      BY <1>1, CmdFacts DEF Words
    <3> QED BY <3>1 DEF Words
  <2>2. D(w) # {} /\ Descend(w, under, type, registered, unique, mode, privilege) = Min(D(w))
    BY DEF Descend, Meant
  <2> HIDE DEF w, D, S
  <2> QED BY <1>3, <2>1, <2>2 DEF w
<1> QED BY <1>4, <1>5 DEF under, type

(* Where names are apart, what completion offers is what the lookup takes. *)
THEOREM CompletionFollowsLookup == NamesApart => (Spec => []CompletionAgrees)
<1>1. ASSUME NamesApart PROVE IInv => CompletionAgrees
  BY <1>1, Agreed DEF CompletionAgrees
<1>2. SUFFICES ASSUME NamesApart PROVE Spec => []CompletionAgrees
  OBVIOUS
<1>3. IInv => CompletionAgrees
  BY <1>1, <1>2
<1> QED BY <1>3, Invariant, PTL

-----------------------------------------------------------------------------
(* What a pipeline prints.  A filter sees one line after the other; its    *)
(* meaning is a function of its whole input.                               *)

(* A filter right after its init.                                          *)
Fresh(f) ==
  /\ f = [kind |-> f.kind, from |-> f.from, to |-> f.to, inverted |-> f.inverted,
          matched |-> FALSE, count |-> 0]
  /\ f.kind \in {"match", "range", "count"}
  /\ f.inverted \in BOOLEAN

(* It has seen the lines ls.                                               *)
Fed(f, ls) ==
  [kind |-> f.kind, from |-> f.from, to |-> f.to, inverted |-> f.inverted,
   matched |-> f.kind = "range" /\
     \E j \in DOMAIN ls : /\ Finds(ls[j], f.from)
                          /\ \A k \in j..Len(ls) : ~Finds(ls[k], f.to),
   count |-> IF f.kind = "count" THEN NonBlank(ls) ELSE 0]

(* One line more.                                                          *)
LEMMA Longer ==
  ASSUME NEW L, NEW ls \in Seq(L), NEW l \in L
  PROVE  /\ Append(ls, l) \in Seq(L) /\ Len(ls) \in Nat /\ Len(Append(ls, l)) = Len(ls) + 1
         /\ DOMAIN ls = 1..Len(ls) /\ DOMAIN Append(ls, l) = 1..(Len(ls) + 1)
         /\ \A i \in 1..Len(ls) : Append(ls, l)[i] = ls[i]
         /\ Append(ls, l)[Len(ls) + 1] = l
BY AppendProperties

(* Nothing was seen yet.                                                   *)
LEMMA FedNothing ==
  ASSUME NEW f, Fresh(f)
  PROVE  Fed(f, <<>>) = f
<1>1. NonBlank(<<>>) = 0
  <2>1. {i \in DOMAIN <<>> : ~Blank(<<>>[i])} = {}
    BY Emptied
  <2> QED BY <2>1, FS_EmptySet DEF NonBlank
<1>2. ~\E j \in DOMAIN <<>> : Finds(<<>>[j], f.from) /\ \A k \in j..Len(<<>>) : ~Finds(<<>>[k], f.to)
  BY Emptied
<1> QED BY <1>1, <1>2 DEF Fed, Fresh

(* A count goes up by one for a line that is not blank.                    *)
LEMMA OneMore ==
  ASSUME NEW L, NEW ls \in Seq(L), NEW l \in L
  PROVE  NonBlank(Append(ls, l)) = IF Blank(l) THEN NonBlank(ls) ELSE NonBlank(ls) + 1
<1> DEFINE a == Append(ls, l)
           n == Len(ls)
           A == {i \in DOMAIN ls : ~Blank(ls[i])}
           B == {i \in DOMAIN a : ~Blank(a[i])}
<1>1. /\ n \in Nat /\ DOMAIN ls = 1..n /\ DOMAIN a = 1..(n + 1)
      /\ \A i \in 1..n : a[i] = ls[i]
      /\ a[n + 1] = l
  BY Longer
<1> HIDE DEF a, n
<1>2. B = IF Blank(l) THEN A ELSE A \cup {n + 1}
  BY <1>1
<1>3. A \subseteq 1..n /\ n + 1 \notin A
  BY <1>1
<1> HIDE DEF A, B
<1>4. IsFiniteSet(A)
  <2>1. IsFiniteSet(1..n)
    BY <1>1, FS_Interval
  <2> QED BY <1>3, <2>1, FS_Subset
<1>5. Cardinality(A \cup {n + 1}) = Cardinality(A) + 1
  BY <1>3, <1>4, FS_AddElement
<1> QED BY <1>2, <1>5 DEF NonBlank, A, B, a

(* The state of a filter follows its input.                                *)
LEMMA FedMore ==
  ASSUME NEW L, NEW ls \in Seq(L), NEW l \in L, NEW f, Fresh(f)
  PROVE  Fed(f, Append(ls, l)) = After(Fed(f, ls), l)
<1> DEFINE a == Append(ls, l)
           n == Len(ls)
<1>1. /\ n \in Nat /\ DOMAIN ls = 1..n /\ DOMAIN a = 1..(n + 1) /\ Len(a) = n + 1
      /\ \A i \in 1..n : a[i] = ls[i]
      /\ a[n + 1] = l
  BY Longer
<1>2. NonBlank(a) = IF Blank(l) THEN NonBlank(ls) ELSE NonBlank(ls) + 1
  BY OneMore
<1> HIDE DEF a, n
<1> DEFINE Open(s) ==
             \E j \in DOMAIN s : /\ Finds(s[j], f.from)
                                 /\ \A k \in j..Len(s) : ~Finds(s[k], f.to)
<1>3. Open(a) <=> (Open(ls) \/ Finds(l, f.from)) /\ ~Finds(l, f.to)
  <2>1. ASSUME Open(a) PROVE (Open(ls) \/ Finds(l, f.from)) /\ ~Finds(l, f.to)
    <3>1. PICK j \in 1..(n + 1) : Finds(a[j], f.from) /\ \A k \in j..(n + 1) : ~Finds(a[k], f.to)
      BY <1>1, <2>1
    <3>2. n + 1 \in j..(n + 1)
      BY <1>1
    <3>3. ~Finds(l, f.to)
      BY <1>1, <3>1, <3>2
    <3>4. CASE j = n + 1
      BY <1>1, <3>1, <3>3, <3>4
    <3>5. CASE j # n + 1
      <4>1. j \in 1..n /\ \A k \in j..n : k \in 1..n /\ k \in j..(n + 1)
        BY <1>1, <3>5
      <4>2. Finds(ls[j], f.from) /\ \A k \in j..n : ~Finds(ls[k], f.to)
        BY <1>1, <3>1, <4>1
      <4> QED BY <1>1, <3>3, <4>1, <4>2 DEF n
    <3> QED BY <3>4, <3>5
  <2>2. ASSUME Open(ls) \/ Finds(l, f.from), ~Finds(l, f.to) PROVE Open(a)
    <3>1. CASE Open(ls)
      <4>1. PICK j \in 1..n : Finds(ls[j], f.from) /\ \A k \in j..n : ~Finds(ls[k], f.to)
        BY <1>1, <3>1 DEF n
      <4>2. j \in 1..(n + 1) /\ \A k \in j..(n + 1) : k = n + 1 \/ (k \in j..n /\ k \in 1..n)
        BY <1>1
      <4>3. Finds(a[j], f.from) /\ \A k \in j..(n + 1) : ~Finds(a[k], f.to)
        BY <1>1, <2>2, <4>1, <4>2
      <4> QED BY <1>1, <4>2, <4>3
    <3>2. CASE Finds(l, f.from)
      <4>1. n + 1 \in 1..(n + 1) /\ \A k \in (n + 1)..(n + 1) : k = n + 1
        BY <1>1
      <4> QED BY <1>1, <2>2, <3>2, <4>1
    <3> QED BY <2>2, <3>1, <3>2
  <2> QED BY <2>1, <2>2
<1> DEFINE Record(m, c) ==
             [kind |-> f.kind, from |-> f.from, to |-> f.to, inverted |-> f.inverted,
              matched |-> m, count |-> c]
           Number(s) == IF f.kind = "count" THEN NonBlank(s) ELSE 0
<1>4. PICK o \in BOOLEAN, p \in BOOLEAN :
        /\ o <=> f.kind = "range" /\ Open(ls)
        /\ p <=> f.kind = "range" /\ Open(a)
  <2> DEFINE x == f.kind = "range" /\ Open(ls)
             y == f.kind = "range" /\ Open(a)
  <2>1. x \in BOOLEAN /\ y \in BOOLEAN
    OBVIOUS
  <2> QED BY <2>1, Zenon
<1>5. Fed(f, ls) = Record(o, Number(ls)) /\ Fed(f, a) = Record(p, Number(a))
  <2>1. (f.kind = "range" /\ Open(ls)) = o /\ (f.kind = "range" /\ Open(a)) = p
    BY <1>4
  <2> QED BY <2>1, Zenon DEF Fed
<1> HIDE DEF Open, Number
<1>6. CASE f.kind = "match"
  <2>1. o = FALSE /\ p = FALSE /\ Number(a) = Number(ls)
    BY <1>4, <1>6 DEF Number
  <2>2. After(Fed(f, ls), l) = Fed(f, ls)
    BY <1>5, <1>6 DEF After
  <2> QED BY <1>5, <2>1, <2>2 DEF a
<1>7. CASE f.kind = "range"
  <2>1. Number(a) = Number(ls) /\ (o <=> Open(ls)) /\ (p <=> Open(a))
    BY <1>4, <1>7 DEF Number
  <2> DEFINE r == Record(o, Number(ls))
  <2>2. After(r, l) = [r EXCEPT !.matched = Opens(r, l) /\ ~Finds(l, r.to)]
    BY <1>7 DEF After
  <2>3. r.matched = o /\ r.from = f.from /\ r.to = f.to
    OBVIOUS
  <2>4. (Opens(r, l) /\ ~Finds(l, r.to)) <=> p
    <3> HIDE DEF r
    <3> QED BY <1>3, <2>1, <2>3 DEF Opens
  <2>5. (Opens(r, l) /\ ~Finds(l, r.to)) = p
    <3> HIDE DEF r
    <3> QED BY <2>4, Zenon DEF Opens
  <2>6. [r EXCEPT !.matched = p] = Record(p, Number(ls))
    OBVIOUS
  <2>7. [r EXCEPT !.matched = Opens(r, l) /\ ~Finds(l, r.to)] = [r EXCEPT !.matched = p]
    <3> HIDE DEF r
    <3> QED BY <2>5, Zenon
  <2> HIDE DEF r
  <2> QED BY <1>5, <2>1, <2>2, <2>6, <2>7 DEF a, r
<1>8. CASE f.kind = "count"
  <2>1. o = FALSE /\ p = FALSE /\ Number(a) = NonBlank(a) /\ Number(ls) = NonBlank(ls)
    BY <1>4, <1>8 DEF Number
  <2> DEFINE r == Record(o, Number(ls))
  <2>2. After(r, l) = [r EXCEPT !.count = IF Blank(l) THEN @ ELSE @ + 1]
    BY <1>8 DEF After
  <2>3. r.count = Number(ls)
    OBVIOUS
  <2>4. [r EXCEPT !.count = Number(a)] = Record(o, Number(a))
    OBVIOUS
  <2>5. [r EXCEPT !.count = IF Blank(l) THEN @ ELSE @ + 1] = [r EXCEPT !.count = Number(a)]
    <3> HIDE DEF r
    <3> QED BY <1>2, <2>1, <2>3
  <2> HIDE DEF r
  <2> QED BY <1>5, <2>1, <2>2, <2>4, <2>5 DEF a, r
<1> QED BY <1>6, <1>7, <1>8 DEF Fresh

(* The positions a filter keeps do so too.                                 *)
LEMMA KeptMore ==
  ASSUME NEW L, NEW ls \in Seq(L), NEW l \in L, NEW f, Fresh(f)
  PROVE  /\ PositionsKept(f, ls) \subseteq 1..Len(ls)
         /\ PositionsKept(f, Append(ls, l)) =
              IF Passes(Fed(f, ls), l) THEN PositionsKept(f, ls) \cup {Len(ls) + 1}
              ELSE PositionsKept(f, ls)
<1> DEFINE a == Append(ls, l)
           n == Len(ls)
<1>1. /\ n \in Nat /\ DOMAIN ls = 1..n /\ DOMAIN a = 1..(n + 1) /\ Len(a) = n + 1
      /\ \A i \in 1..n : a[i] = ls[i]
      /\ a[n + 1] = l
  BY Longer
<1>0. n = Len(ls)
  OBVIOUS
<1> HIDE DEF a, n
<1>2. PositionsKept(f, ls) \subseteq 1..n
  BY <1>1 DEF PositionsKept
<1>3. CASE f.kind = "match"
  <2>1. Passes(Fed(f, ls), l) <=> Finds(l, f.from) # f.inverted
    BY <1>3 DEF Passes, Fed
  <2>2. \A s : PositionsKept(f, s) = {i \in DOMAIN s : Finds(s[i], f.from) # f.inverted}
    BY <1>3 DEF PositionsKept
  <2>3. PositionsKept(f, ls) = {i \in 1..n : Finds(ls[i], f.from) # f.inverted}
    BY <1>1, <2>2
  <2>4. PositionsKept(f, a) = {i \in 1..(n + 1) : Finds(a[i], f.from) # f.inverted}
    BY <1>1, <2>2
  <2>5. 1..(n + 1) = 1..n \cup {n + 1}
    BY <1>1
  <2>6. \A i \in 1..n : (Finds(a[i], f.from) # f.inverted) <=> (Finds(ls[i], f.from) # f.inverted)
    BY <1>1
  <2> QED BY <1>0, <1>1, <1>2, <2>1, <2>3, <2>4, <2>5, <2>6 DEF a
<1>4. CASE f.kind = "range"
  <2>1. \A s : PositionsKept(f, s) = {i \in DOMAIN s : InRange(f, s, i)}
    BY <1>4 DEF PositionsKept
  <2>2. ASSUME NEW i \in 1..n PROVE InRange(f, a, i) <=> InRange(f, ls, i)
    <3>1. \A j \in 1..i : j \in 1..n /\ \A k \in j..(i - 1) : k \in 1..n
      BY <1>1
    <3> QED BY <1>1, <3>1 DEF InRange
  <2>3. InRange(f, a, n + 1) <=> Passes(Fed(f, ls), l)
    <3> DEFINE Open == \E j \in DOMAIN ls : /\ Finds(ls[j], f.from)
                                            /\ \A k \in j..Len(ls) : ~Finds(ls[k], f.to)
    <3>1. Fed(f, ls).kind = "range" /\ Fed(f, ls).from = f.from /\ Fed(f, ls).matched = Open
      BY <1>4 DEF Fed
    <3>2. Open <=> \E j \in 1..n : Finds(ls[j], f.from) /\ \A k \in j..n : ~Finds(ls[k], f.to)
      BY <1>1 DEF n
    <3> HIDE DEF Open
    <3>3. Passes(Fed(f, ls), l) <=> Open \/ Finds(l, f.from)
      BY <3>1 DEF Passes, Opens
    <3>4. InRange(f, a, n + 1) <=>
            \E j \in 1..(n + 1) : Finds(a[j], f.from) /\ \A k \in j..n : ~Finds(a[k], f.to)
      <4>1. (n + 1) - 1 = n
        BY <1>1
      <4> QED BY <4>1 DEF InRange
    <3>5. ASSUME NEW j \in 1..n
          PROVE  (Finds(a[j], f.from) /\ \A k \in j..n : ~Finds(a[k], f.to)) <=>
                 (Finds(ls[j], f.from) /\ \A k \in j..n : ~Finds(ls[k], f.to))
      <4>1. \A k \in j..n : k \in 1..n
        BY <1>1
      <4> QED BY <1>1, <4>1
    <3>6. (Finds(a[n + 1], f.from) /\ \A k \in (n + 1)..n : ~Finds(a[k], f.to)) <=> Finds(l, f.from)
      <4>1. (n + 1)..n = {}
        BY <1>1
      <4> QED BY <1>1, <4>1
    <3>7. \A j : j \in 1..(n + 1) <=> j \in 1..n \/ j = n + 1
      BY <1>1
    <3>8. InRange(f, a, n + 1) <=>
            \/ \E j \in 1..n : Finds(a[j], f.from) /\ \A k \in j..n : ~Finds(a[k], f.to)
            \/ Finds(a[n + 1], f.from) /\ \A k \in (n + 1)..n : ~Finds(a[k], f.to)
      BY <3>4, <3>7, Zenon
    <3>9. (\E j \in 1..n : Finds(a[j], f.from) /\ \A k \in j..n : ~Finds(a[k], f.to)) <=> Open
      BY <3>2, <3>5
    <3> QED BY <3>3, <3>6, <3>8, <3>9
  <2>4. PositionsKept(f, ls) = {i \in 1..n : InRange(f, ls, i)}
    BY <1>1, <2>1
  <2>5. PositionsKept(f, a) = {i \in 1..(n + 1) : InRange(f, a, i)}
    BY <1>1, <2>1
  <2>6. 1..(n + 1) = 1..n \cup {n + 1}
    BY <1>1
  <2> HIDE DEF a
  <2> QED BY <1>0, <1>1, <1>2, <2>2, <2>3, <2>4, <2>5, <2>6 DEF a
<1>5. CASE f.kind = "count"
  <2>1. ~Passes(Fed(f, ls), l)
    BY <1>5 DEF Passes, Fed
  <2>2. \A s : PositionsKept(f, s) = {}
    BY <1>5 DEF PositionsKept
  <2> QED BY <1>2, <2>1, <2>2 DEF n
<1> QED BY <1>3, <1>4, <1>5 DEF Fresh

(* A choice of positions, with one more behind all others.                 *)
LEMMA AtMore ==
  ASSUME NEW n \in Nat, NEW I, I \subseteq 1..n, NEW t
  PROVE  /\ IsSeq(At(t, I)) /\ Len(At(t, I)) = Cardinality(I) /\ Cardinality(I) \in Nat
         /\ (\A k \in 1..Cardinality(I) : Kth(I, k) \in I) =>
              /\ At(t, I \cup {n + 1}) = Append(At(t, I), t[n + 1])
              /\ Cardinality(I \cup {n + 1}) = Cardinality(I) + 1
              /\ \A k \in 1..(Cardinality(I) + 1) : Kth(I \cup {n + 1}, k) \in I \cup {n + 1}
<1> DEFINE J == I \cup {n + 1}
           c == Cardinality(I)
           Up(S, j) == Cardinality({h \in S : h <= j})
<1>1. IsFiniteSet(I) /\ c \in Nat /\ n + 1 \notin I
  <2>1. IsFiniteSet(1..n)
    BY FS_Interval
  <2>2. IsFiniteSet(I)
    BY <2>1, FS_Subset
  <2>3. c \in Nat
    BY <2>2, FS_CardinalityType
  <2> QED BY <2>2, <2>3
<1>2. Cardinality(J) = c + 1
  BY <1>1, FS_AddElement
<1>3. \A j \in I : Up(J, j) = Up(I, j) /\ Up(I, j) <= c
  <2> TAKE j \in I
  <2>1. {h \in J : h <= j} = {h \in I : h <= j}
    BY j \in 1..n, ~(n + 1 <= j)
  <2> DEFINE K == {h \in I : h <= j}
  <2>2. K \subseteq I
    OBVIOUS
  <2> HIDE DEF K
  <2>3. Cardinality(K) <= c
    BY <1>1, <2>2, FS_Subset
  <2> QED BY <2>1, <2>3 DEF K
<1>4. Up(J, n + 1) = c + 1
  <2>1. \A h \in J : h <= n + 1
    OBVIOUS
  <2>2. {h \in J : h <= n + 1} = J
    BY <2>1
  <2> QED BY <1>2, <2>2
<1>5. \A S, k : Kth(S, k) = CHOOSE i \in {j \in S : Up(S, j) = k} : TRUE
  BY DEF Kth
<1> HIDE DEF Up, c
<1>6. ASSUME NEW k \in 1..c PROVE {j \in J : Up(J, j) = k} = {j \in I : Up(I, j) = k}
  <2>1. k # c + 1
    BY <1>1
  <2> QED BY <1>3, <1>4, <2>1
<1>7. {j \in J : Up(J, j) = c + 1} = {n + 1}
  <2>1. \A j \in I : Up(J, j) # c + 1
    BY <1>1, <1>3
  <2> QED BY <1>4, <2>1
<1>8. \A k \in 1..c : Kth(J, k) = Kth(I, k)
  BY <1>5, <1>6, Zenon
<1>9. Kth(J, c + 1) = n + 1
  BY <1>5, <1>7
<1>10. /\ DOMAIN At(t, I) = 1..c /\ \A k \in 1..c : At(t, I)[k] = t[Kth(I, k)]
       /\ At(t, I) = [k \in 1..c |-> t[Kth(I, k)]]
       /\ At(t, J) = [k \in 1..(c + 1) |-> t[Kth(J, k)]]
  BY <1>2 DEF At, c
<1> HIDE DEF J
<1>11. IsSeq(At(t, I)) /\ Len(At(t, I)) = c
  <2> DEFINE a == At(t, I)
             R == {a[i] : i \in DOMAIN a}
  <2>1. \A k \in 1..c : a[k] \in R
    BY <1>10
  <2>2. a = [k \in 1..c |-> a[k]]
    BY <1>10
  <2> HIDE DEF R, a
  <2>3. a \in [1..c -> R]
    BY <2>1, <2>2
  <2>4. a \in Seq(R) /\ Len(a) = c
    BY <1>1, <2>3, SeqDef
  <2> QED BY <2>4 DEF IsSeq, R, a
<1>12. ASSUME \A k \in 1..c : Kth(I, k) \in I
       PROVE  /\ At(t, J) = Append(At(t, I), t[n + 1])
              /\ \A k \in 1..(c + 1) : Kth(J, k) \in J
  <2>3. \A k \in 1..(c + 1) : k \in 1..c \/ k = c + 1
    BY <1>1
  <2>4. \A k \in 1..(c + 1) : Kth(J, k) \in J
    BY <1>8, <1>9, <1>12, <2>3 DEF J
  <2> DEFINE a == At(t, I)
             b == Append(a, t[n + 1])
  <2>5. /\ DOMAIN b = 1..(c + 1) /\ b[c + 1] = t[n + 1] /\ \A k \in 1..c : b[k] = a[k]
        /\ IsSeq(b)
    BY <1>11, Appended
  <2>6. b = [k \in 1..(c + 1) |-> b[k]]
    <3> HIDE DEF b
    <3>1. \E m \in Nat : b \in [1..m -> {b[i] : i \in DOMAIN b}]
      BY <2>5, SeqDef DEF IsSeq
    <3> QED BY <2>5, <3>1
  <2>7. \A k \in 1..(c + 1) : b[k] = t[Kth(J, k)]
    <3> HIDE DEF b
    <3> QED BY <1>8, <1>9, <1>10, <2>3, <2>5
  <2> HIDE DEF a, b
  <2>8. At(t, J) = b
    BY <1>10, <2>6, <2>7
  <2> QED BY <2>4, <2>8 DEF a, b
<1> QED BY <1>1, <1>2, <1>11, <1>12 DEF J, c

(* Only the members at the positions matter.                               *)
LEMMA AtSame ==
  ASSUME NEW I, NEW s, NEW t, \A k \in 1..Cardinality(I) : s[Kth(I, k)] = t[Kth(I, k)]
  PROVE  At(t, I) = At(s, I)
BY DEF At

(* Nothing of nothing.                                                     *)
LEMMA AtNothing ==
  ASSUME NEW s
  PROVE  At(s, {}) = <<>> /\ \A k \in 1..Cardinality({}) : Kth({}, k) \in {}
<1>1. Cardinality({}) = 0
  BY FS_EmptySet
<1> DEFINE a == At(s, {})
<1>2. a = [k \in 1..0 |-> s[Kth({}, k)]]
  BY <1>1 DEF At
<1>3. 1..0 = {}
  OBVIOUS
<1>4. a \in [1..0 -> {}]
  BY <1>2, <1>3
<1> HIDE DEF a
<1>5. a \in Seq({}) /\ Len(a) = 0
  BY <1>4, SeqDef
<1>6. a = <<>>
  BY <1>5, EmptySeq
<1> QED BY <1>1, <1>3, <1>6 DEF a

(* The recursive function is well defined.                                 *)
LEMMA ThroughFacts ==
  ASSUME NEW fs, IsSeq(fs), NEW ls
  PROVE  /\ Through(fs, ls)[0] = ls
         /\ \A i \in 1..Len(fs) :
              Through(fs, ls)[i] =
                At(Through(fs, ls)[i - 1], PositionsKept(fs[i], Through(fs, ls)[i - 1]))
<1> DEFINE n == Len(fs)
           Next1(t, i) == IF i = 0 THEN ls ELSE At(t[i - 1], PositionsKept(fs[i], t[i - 1]))
           Upto1(t, m) == t = [i \in 0..m |-> Next1(t, i)]
           Without == {m \in 0..n : ~\E t : Upto1(t, m)}
<1>1. n \in Nat
  BY Appended
<1>2. Without = {}
  <2> SUFFICES ASSUME Without # {} PROVE FALSE
    OBVIOUS
  <2>1. Without \subseteq Nat
    BY <1>1
  <2> HIDE DEF Without
  <2>2. PICK m \in Without : \A k \in Without : m <= k
    BY <2>1, Smallest
  <2>3. m \in 0..n /\ ~\E t : Upto1(t, m)
    BY <2>2 DEF Without
  <2>4. CASE m = 0
    <3> DEFINE t == [i \in 0..0 |-> ls]
    <3>1. t = [i \in 0..0 |-> Next1(t, i)]
      OBVIOUS
    <3> QED BY <2>3, <2>4, <3>1
  <2>5. CASE m # 0
    <3>1. m - 1 \in 0..n /\ ~(m <= m - 1)
      BY <1>1, <2>3, <2>5
    <3>2. PICK u : Upto1(u, m - 1)
      BY <2>2, <3>1 DEF Without
    <3> DEFINE t == [i \in 0..m |-> IF i = m THEN Next1(u, m) ELSE u[i]]
    <3>3. \A i \in 0..(m - 1) : u[i] = Next1(u, i)
      BY <3>2
    <3>4. \A i \in 0..m : i = m \/ i \in 0..(m - 1)
      BY <2>3
    <3>5. \A i \in 0..m : i # 0 => i - 1 \in 0..m /\ i - 1 # m
      BY <2>3
    <3>6. \A i \in 0..m : i # 0 => t[i - 1] = u[i - 1]
      BY <3>5
    <3>7. \A i \in 0..m : Next1(t, i) = Next1(u, i)
      <4> HIDE DEF t
      <4> QED BY <3>6
    <3> HIDE DEF Next1
    <3>8. \A i \in 0..m : t[i] = Next1(t, i)
      BY <3>3, <3>4, <3>7
    <3>9. t = [i \in 0..m |-> t[i]]
      OBVIOUS
    <3> HIDE DEF t
    <3>10. t = [i \in 0..m |-> Next1(t, i)]
      BY <3>8, <3>9
    <3> QED BY <2>3, <3>10
  <2> QED BY <2>4, <2>5
<1>3. PICK g : Upto1(g, n)
  <2>1. n \in 0..n
    BY <1>1
  <2> QED BY <1>2, <2>1
<1> HIDE DEF Without
<1> DEFINE E(t) == [i \in 0..n |-> Next1(t, i)]
<1>4. Through(fs, ls) = CHOOSE t : t = E(t)
  BY Zenon DEF Through
<1>5. g = E(g)
  BY <1>3
<1> HIDE DEF E
<1>6. Through(fs, ls) = E(Through(fs, ls))
  BY <1>4, <1>5, Zenon
<1> DEFINE T == Through(fs, ls)
<1>7. T = [i \in 0..n |-> Next1(T, i)]
  BY <1>6 DEF E
<1> HIDE DEF T
<1>8. \A i \in 0..n : T[i] = Next1(T, i)
  BY <1>7
<1>9. 0 \in 0..n /\ \A i \in 1..n : i \in 0..n /\ i # 0
  BY <1>1
<1>10. T[0] = ls /\ \A i \in 1..n : T[i] = At(T[i - 1], PositionsKept(fs[i], T[i - 1]))
  BY <1>8, <1>9
<1> QED BY <1>10 DEF T

(* The input of filter i, and the positions of it that the filter keeps.   *)
Into(fs, ls, i) == Through(fs, ls)[i - 1]

PassedOn(fs, ls, i) == PositionsKept(fs[i], Into(fs, ls, i))

(* The state of each filter after the lines ls.                            *)
States(fs, ls) == [i \in DOMAIN fs |-> Fed(fs[i], Into(fs, ls, i))]

(* What each filter gets is made of lines; there is a k-th of its          *)
(* positions for each k.                                                   *)
Sound(fs, ls, L) ==
  /\ \A i \in 0..Len(fs) : Through(fs, ls)[i] \in Seq(L)
  /\ \A i \in 1..Len(fs) : \A k \in 1..Cardinality(PassedOn(fs, ls, i)) :
       Kth(PassedOn(fs, ls, i), k) \in PassedOn(fs, ls, i)

(* Of nothing, nothing comes out of a filter.                              *)
LEMMA NothingThrough ==
  ASSUME NEW fs, IsSeq(fs), \A i \in DOMAIN fs : Fresh(fs[i]), NEW L
  PROVE  /\ Sound(fs, <<>>, L)
         /\ \A i \in 0..Len(fs) : Through(fs, <<>>)[i] = <<>>
         /\ States(fs, <<>>) = fs
<1> DEFINE n == Len(fs)
           T == Through(fs, <<>>)
           Wrong == {i \in 0..n : T[i] # <<>>}
<1>1. n \in Nat /\ DOMAIN fs = 1..n
  BY Appended
<1>2. T[0] = <<>> /\ \A i \in 1..n : T[i] = At(T[i - 1], PositionsKept(fs[i], T[i - 1]))
  BY ThroughFacts
<1>3. ASSUME NEW f, Fresh(f) PROVE PositionsKept(f, <<>>) = {}
  BY <1>3 DEF PositionsKept, Fresh
<1> HIDE DEF T
<1>4. Wrong = {}
  <2> SUFFICES ASSUME Wrong # {} PROVE FALSE
    OBVIOUS
  <2>1. Wrong \subseteq Nat
    BY <1>1
  <2> HIDE DEF Wrong
  <2>2. PICK m \in Wrong : \A k \in Wrong : m <= k
    BY <2>1, Smallest
  <2>3. m \in 0..n /\ T[m] # <<>>
    BY <2>2 DEF Wrong
  <2>4. m \in 1..n /\ m - 1 \in 0..n /\ ~(m <= m - 1)
    BY <1>1, <1>2, <2>3
  <2>5. T[m - 1] = <<>>
    BY <2>2, <2>4 DEF Wrong
  <2>6. T[m] = At(<<>>, {})
    BY <1>1, <1>2, <1>3, <2>4, <2>5
  <2> QED BY <2>3, <2>6, AtNothing
<1>5. \A i \in 0..n : T[i] = <<>>
  BY <1>4
<1> HIDE DEF Wrong, n
<1>6. \A i \in 1..n : Into(fs, <<>>, i) = <<>>
  <2>1. \A i \in 1..n : i - 1 \in 0..n
    BY <1>1
  <2> QED BY <1>5, <2>1 DEF Into, T
<1>7. \A i \in 1..n : PassedOn(fs, <<>>, i) = {}
  BY <1>1, <1>3, <1>6 DEF PassedOn
<1>8. Sound(fs, <<>>, L)
  <2>1. \A i \in 0..n : T[i] \in Seq(L)
    BY <1>5, EmptySeq
  <2>2. \A i \in 1..n : \A k \in 1..Cardinality(PassedOn(fs, <<>>, i)) :
          Kth(PassedOn(fs, <<>>, i), k) \in PassedOn(fs, <<>>, i)
    BY <1>7, AtNothing
  <2> QED BY <2>1, <2>2 DEF Sound, T, n
<1>9. States(fs, <<>>) = fs
  <2>1. \A i \in 1..n : Fed(fs[i], Into(fs, <<>>, i)) = fs[i]
    BY <1>1, <1>6, FedNothing
  <2>2. fs = [i \in 1..n |-> fs[i]]
    <3>1. \E m \in Nat : fs \in [1..m -> {fs[i] : i \in DOMAIN fs}]
      BY SeqDef DEF IsSeq
    <3> QED BY <1>1, <3>1
  <2> QED BY <1>1, <2>1, <2>2 DEF States
<1> QED BY <1>5, <1>8, <1>9 DEF T, n

(* One line more goes as far as the filters let it pass.                   *)
LEMMA MoreThrough ==
  ASSUME NEW fs, IsSeq(fs), \A i \in DOMAIN fs : Fresh(fs[i]), NEW L, NEW ls \in Seq(L), NEW l \in L,
         Sound(fs, ls, L)
  PROVE  /\ Sound(fs, Append(ls, l), L)
         /\ \A i \in 0..Len(fs) :
              Through(fs, Append(ls, l))[i] =
                IF \A j \in 1..i : Passes(States(fs, ls)[j], l)
                THEN Append(Through(fs, ls)[i], l) ELSE Through(fs, ls)[i]
         /\ States(fs, Append(ls, l)) = Filtered(States(fs, ls), l)
<1> DEFINE n == Len(fs)
           T == Through(fs, ls)
           U == Through(fs, Append(ls, l))
           st == States(fs, ls)
           Gets(i) == \A j \in 1..i : Passes(st[j], l)
           Right(i) == /\ U[i] \in Seq(L)
                       /\ U[i] = IF Gets(i) THEN Append(T[i], l) ELSE T[i]
           Chosen(I) == \A k \in 1..Cardinality(I) : Kth(I, k) \in I
           Wrong == {i \in 0..n : ~(Right(i) /\ (i # 0 => Chosen(PositionsKept(fs[i], U[i - 1]))))}
<1>1. n \in Nat /\ DOMAIN fs = 1..n
  BY Appended
<1>2. /\ T[0] = ls /\ \A i \in 1..n : T[i] = At(T[i - 1], PositionsKept(fs[i], T[i - 1]))
      /\ U[0] = Append(ls, l) /\ \A i \in 1..n : U[i] = At(U[i - 1], PositionsKept(fs[i], U[i - 1]))
  <2>1. T[0] = ls /\ \A i \in 1..n : T[i] = At(T[i - 1], PositionsKept(fs[i], T[i - 1]))
    BY ThroughFacts
  <2> DEFINE a == Append(ls, l)
  <2> HIDE DEF a
  <2>2. /\ Through(fs, a)[0] = a
        /\ \A i \in 1..n : Through(fs, a)[i] = At(Through(fs, a)[i - 1], PositionsKept(fs[i], Through(fs, a)[i - 1]))
    BY ThroughFacts
  <2> QED BY <2>1, <2>2 DEF a
<1>3. /\ \A i \in 0..n : T[i] \in Seq(L)
      /\ \A i \in 1..n : Chosen(PositionsKept(fs[i], T[i - 1]))
      /\ \A i \in 1..n : st[i] = Fed(fs[i], T[i - 1])
  BY <1>1 DEF Sound, States, Into, PassedOn
<1> HIDE DEF T, U, st, n
<1>4. Wrong = {}
  <2> SUFFICES ASSUME Wrong # {} PROVE FALSE
    OBVIOUS
  <2>1. Wrong \subseteq Nat
    BY <1>1
  <2> HIDE DEF Wrong
  <2>2. PICK m \in Wrong : \A k \in Wrong : m <= k
    BY <2>1, Smallest
  <2>3. m \in 0..n /\ ~(Right(m) /\ (m # 0 => Chosen(PositionsKept(fs[m], U[m - 1]))))
    BY <2>2 DEF Wrong
  <2>4. Right(0)
    <3>1. 1..0 = {}
      OBVIOUS
    <3>2. Gets(0)
      BY <3>1
    <3>3. Append(ls, l) \in Seq(L)
      BY Longer
    <3> QED BY <1>2, <3>2, <3>3
  <2>5. m \in 1..n /\ m - 1 \in 0..n /\ ~(m <= m - 1)
    <3> HIDE DEF Right, Chosen
    <3>1. m # 0
      BY <2>3, <2>4
    <3> QED BY <1>1, <2>3, <3>1
  <2>6. Right(m - 1)
    BY <2>2, <2>5 DEF Wrong
  <2> DEFINE f == fs[m]
             s == T[m - 1]
             u == U[m - 1]
             I == PositionsKept(f, s)
             c == Cardinality(I)
             k == Len(s)
  <2>7. s \in Seq(L) /\ Fresh(f) /\ st[m] = Fed(f, s) /\ T[m] = At(s, I) /\ Chosen(I)
        /\ U[m] = At(u, PositionsKept(f, u)) /\ T[m] \in Seq(L)
    <3> HIDE DEF Chosen
    <3>1. s \in Seq(L) /\ T[m] \in Seq(L)
      BY <1>1, <1>3, <2>5
    <3>2. Fresh(f) /\ st[m] = Fed(f, s) /\ Chosen(I)
      BY <1>1, <1>3, <2>5
    <3>3. T[m] = At(s, I) /\ U[m] = At(u, PositionsKept(f, u))
      BY <1>2, <2>5
    <3> QED BY <3>1, <3>2, <3>3
  <2>8. Gets(m) <=> Gets(m - 1) /\ Passes(st[m], l)
    <3>1. \A j : j \in 1..m <=> j \in 1..(m - 1) \/ j = m
      BY <1>1, <2>5
    <3> QED BY <3>1
  <2>9. /\ I \subseteq 1..k /\ k \in Nat
        /\ PositionsKept(f, Append(s, l)) = IF Passes(Fed(f, s), l) THEN I \cup {k + 1} ELSE I
        /\ Append(s, l)[k + 1] = l /\ \A i \in I : Append(s, l)[i] = s[i]
    <3>1. /\ I \subseteq 1..k
          /\ PositionsKept(f, Append(s, l)) = IF Passes(Fed(f, s), l) THEN I \cup {k + 1} ELSE I
      <4>1. s \in Seq(L) /\ Fresh(f)
        BY <2>7
      <4> HIDE DEF s, f
      <4> QED BY <4>1, KeptMore
    <3>2. k \in Nat /\ Append(s, l)[k + 1] = l /\ \A i \in 1..k : Append(s, l)[i] = s[i]
      BY <2>7, Longer
    <3> QED BY <3>1, <3>2
  <2> HIDE DEF f, s, u, I, k, Gets
  <2>10. /\ At(Append(s, l), I) = At(s, I)
         /\ At(Append(s, l), I \cup {k + 1}) = Append(At(s, I), l)
         /\ Chosen(I \cup {k + 1})
    <3> DEFINE a == Append(s, l)
    <3>1. a[k + 1] = l /\ \A i \in I : a[i] = s[i]
      BY <2>9
    <3>2. k \in Nat /\ I \subseteq 1..k
      BY <2>9
    <3>3. \A j \in 1..Cardinality(I) : Kth(I, j) \in I
      BY <2>7
    <3> HIDE DEF a, c
    <3>4. At(a, I) = At(s, I)
      <4>1. \A j \in 1..Cardinality(I) : s[Kth(I, j)] = a[Kth(I, j)]
        BY <3>1, <3>3
      <4> QED BY <4>1, AtSame
    <3>5. /\ At(a, I \cup {k + 1}) = Append(At(a, I), a[k + 1])
          /\ Cardinality(I \cup {k + 1}) = Cardinality(I) + 1
          /\ \A j \in 1..(Cardinality(I) + 1) : Kth(I \cup {k + 1}, j) \in I \cup {k + 1}
      BY <3>2, <3>3, AtMore
    <3> QED BY <3>1, <3>4, <3>5 DEF a
  <2>11. CASE ~Gets(m - 1)
    <3>1. u = s
      BY <2>6, <2>11 DEF u, s
    <3>2. U[m] = T[m] /\ ~Gets(m) /\ Chosen(PositionsKept(fs[m], U[m - 1]))
      BY <2>7, <2>8, <2>11, <3>1 DEF u, I, f
    <3> QED BY <2>3, <2>5, <2>7, <3>2
  <2>12. CASE Gets(m - 1) /\ ~Passes(st[m], l)
    <3>1. u = Append(s, l)
      BY <2>6, <2>12 DEF u, s
    <3>2. PositionsKept(f, u) = I
      BY <2>7, <2>9, <2>12, <3>1
    <3>3. U[m] = T[m] /\ ~Gets(m) /\ Chosen(PositionsKept(fs[m], U[m - 1]))
      BY <2>7, <2>8, <2>10, <2>12, <3>1, <3>2 DEF u, f
    <3> QED BY <2>3, <2>5, <2>7, <3>3
  <2>13. CASE Gets(m - 1) /\ Passes(st[m], l)
    <3>1. u = Append(s, l)
      BY <2>6, <2>13 DEF u, s
    <3>2. PositionsKept(f, u) = I \cup {k + 1}
      BY <2>7, <2>9, <2>13, <3>1
    <3>3. U[m] = Append(T[m], l) /\ Gets(m) /\ Chosen(PositionsKept(fs[m], U[m - 1]))
      BY <2>7, <2>8, <2>10, <2>13, <3>1, <3>2 DEF u, f
    <3>4. Append(T[m], l) \in Seq(L)
      BY <2>7, Longer
    <3> QED BY <2>3, <2>5, <3>3, <3>4
  <2> QED BY <2>11, <2>12, <2>13
<1>5. /\ \A i \in 0..n : Right(i)
      /\ \A i \in 1..n : Chosen(PositionsKept(fs[i], U[i - 1]))
  <2>1. \A i \in 1..n : i \in 0..n /\ i # 0
    BY <1>1
  <2>2. \A i \in 0..n : i \notin Wrong
    BY <1>4
  <2> QED BY <2>1, <2>2
<1> HIDE DEF Wrong
<1>6. Sound(fs, Append(ls, l), L)
  BY <1>5 DEF Sound, Into, PassedOn, U, n
<1>7. \A i \in 0..n : U[i] = IF Gets(i) THEN Append(T[i], l) ELSE T[i]
  BY <1>5
<1>8. States(fs, Append(ls, l)) = Filtered(st, l)
  <2>1. DOMAIN st = 1..n
    BY <1>1 DEF st, States
  <2>2. ASSUME NEW i \in 1..n
        PROVE  Fed(fs[i], U[i - 1]) = IF Sees(st, i, l) THEN After(st[i], l) ELSE st[i]
    <3>1. i - 1 \in 0..n
      BY <1>1
    <3>2. Sees(st, i, l) <=> Gets(i - 1)
      BY DEF Sees
    <3>3. Fresh(fs[i]) /\ T[i - 1] \in Seq(L) /\ st[i] = Fed(fs[i], T[i - 1])
      BY <1>1, <1>3, <3>1
    <3>4. Fed(fs[i], Append(T[i - 1], l)) = After(st[i], l)
      BY <3>3, FedMore
    <3>5. U[i - 1] = IF Gets(i - 1) THEN Append(T[i - 1], l) ELSE T[i - 1]
      BY <1>7, <3>1
    <3> HIDE DEF Gets
    <3> QED BY <3>2, <3>3, <3>4, <3>5
  <2>3. States(fs, Append(ls, l)) = [i \in 1..n |-> Fed(fs[i], U[i - 1])]
    BY <1>1 DEF States, Into, U
  <2> QED BY <2>1, <2>2, <2>3 DEF Filtered
<1> QED BY <1>6, <1>7, <1>8 DEF T, U, n, st

-----------------------------------------------------------------------------
(* What the client reads.                                                  *)
Tagged(tag, s) == [i \in DOMAIN s |-> <<tag, s[i]>>]

(* The count filters among the first k, and the numbers they tell.         *)
CountersTo(fs, k) == {i \in 1..k : fs[i].kind = "count"}

NumbersTo(fs, ls, k) ==
  At([i \in DOMAIN fs |-> NonBlank(Through(fs, ls)[i - 1])], CountersTo(fs, k))

(* The lines a callback may print.                                         *)
OutputLines == SUBSET Texts

(* The filters fs are what is left of those asked for (gs): all, until the *)
(* first ones are torn down.                                               *)
Piped(gs, fs, ls, sc) ==
  LET gone == Len(gs) - Len(fs)
  IN /\ Sound(gs, ls, OutputLines)
     /\ \A i \in DOMAIN fs : fs[i] = States(gs, ls)[gone + i]
     /\ \A k \in 1..Cardinality(CountersTo(gs, gone)) :
          Kth(CountersTo(gs, gone), k) \in CountersTo(gs, gone)
     /\ sc = Tagged("line", Through(gs, ls)[Len(gs)]) \o Tagged("count", NumbersTo(gs, ls, gone))

(* A line more, or a number.                                               *)
LEMMA TaggedFacts ==
  ASSUME NEW s, IsSeq(s), NEW tag, NEW e
  PROVE  /\ IsSeq(Tagged(tag, s)) /\ Len(Tagged(tag, s)) = Len(s)
         /\ Tagged(tag, Append(s, e)) = Append(Tagged(tag, s), <<tag, e>>)
<1> DEFINE r == Tagged(tag, s)
           a == Append(s, e)
           b == Append(r, <<tag, e>>)
           n == Len(s)
<1>1. r = [i \in DOMAIN s |-> r[i]] /\ \A i \in DOMAIN s : r[i] = <<tag, s[i]>>
  BY DEF Tagged
<1>2. /\ n \in Nat /\ DOMAIN s = 1..n /\ DOMAIN a = 1..(n + 1)
      /\ a[n + 1] = e /\ \A i \in 1..n : a[i] = s[i]
  BY Appended
<1> HIDE DEF r, a
<1>3. IsSeq(r) /\ Len(r) = n
  BY <1>1, Mapped
<1>4. /\ DOMAIN b = 1..(n + 1) /\ b[n + 1] = <<tag, e>> /\ \A i \in 1..n : b[i] = r[i]
      /\ IsSeq(b)
  BY <1>3, Appended
<1> HIDE DEF b, n
<1>5. b = [i \in 1..(n + 1) |-> b[i]]
  <2>1. \E m \in Nat : b \in [1..m -> {b[i] : i \in DOMAIN b}]
    BY <1>4, SeqDef DEF IsSeq
  <2> QED BY <1>4, <2>1
<1>6. \A i \in 1..(n + 1) : b[i] = <<tag, a[i]>>
  <2>1. \A i \in 1..(n + 1) : i \in 1..n \/ i = n + 1
    BY <1>2
  <2> QED BY <1>1, <1>2, <1>4, <2>1
<1>7. Tagged(tag, a) = b
  BY <1>2, <1>5, <1>6 DEF Tagged
<1> QED BY <1>3, <1>7 DEF r, a, b, n

(* None.                                                                   *)
LEMMA TaggedNothing == \A tag : Tagged(tag, <<>>) = <<>>
<1> SUFFICES ASSUME NEW tag PROVE Tagged(tag, <<>>) = <<>>
  OBVIOUS
<1>1. IsSeq(Tagged(tag, <<>>)) /\ Len(Tagged(tag, <<>>)) = 0
  BY Emptied, TaggedFacts
<1> QED BY <1>1, EmptySeq DEF IsSeq

(* One list behind another.                                                *)
LEMMA Joined ==
  ASSUME NEW s, IsSeq(s), NEW t, IsSeq(t), NEW e
  PROVE  /\ s \o <<>> = s /\ s \o Append(t, e) = Append(s \o t, e)
<1> DEFINE S == {s[i] : i \in DOMAIN s}
           T == {t[i] : i \in DOMAIN t}
           R == S \cup T \cup {e}
<1>1. s \in Seq(S) /\ t \in Seq(T)
  BY DEF IsSeq
<1>2. S \subseteq R /\ T \subseteq R /\ e \in R
  OBVIOUS
<1> HIDE DEF S, T, R
<1>3. s \in Seq(R) /\ t \in Seq(R)
  BY <1>1, <1>2, SeqMonotonic
<1>4. s \o <<>> = s
  BY <1>3, ConcatEmptySeq
<1>5. s \o Append(t, e) = Append(s \o t, e)
  BY <1>2, <1>3
<1> QED BY <1>4, <1>5

(* No filter was torn down yet.                                            *)
LEMMA CountersNone ==
  ASSUME NEW fs, NEW ls
  PROVE  /\ \A k \in 1..Cardinality(CountersTo(fs, 0)) : Kth(CountersTo(fs, 0), k) \in CountersTo(fs, 0)
         /\ NumbersTo(fs, ls, 0) = <<>>
<1>1. CountersTo(fs, 0) = {}
  BY DEF CountersTo
<1> QED BY <1>1, AtNothing DEF NumbersTo

(* Before a line is printed.                                               *)
LEMMA PipedNothing ==
  ASSUME NEW gs, IsSeq(gs), \A i \in DOMAIN gs : Fresh(gs[i])
  PROVE  Piped(gs, gs, <<>>, <<>>)
<1>1. Len(gs) \in Nat /\ DOMAIN gs = 1..Len(gs)
  BY Appended
<1>2. Len(gs) - Len(gs) = 0 /\ Len(gs) \in 0..Len(gs)
  BY <1>1
<1>3. /\ Sound(gs, <<>>, OutputLines) /\ Through(gs, <<>>)[Len(gs)] = <<>>
      /\ States(gs, <<>>) = gs
  BY <1>2, NothingThrough
<1>4. \A i \in DOMAIN gs : gs[i] = States(gs, <<>>)[0 + i]
  BY <1>1, <1>3
<1>5. Tagged("line", <<>>) \o Tagged("count", <<>>) = <<>>
  BY TaggedNothing, Emptied, Joined
<1> QED BY <1>2, <1>3, <1>4, <1>5, CountersNone DEF Piped

(* A line is printed.                                                      *)
LEMMA PipedLine ==
  ASSUME NEW gs, IsSeq(gs), \A i \in DOMAIN gs : Fresh(gs[i]),
         NEW fs, IsSeq(fs), Len(fs) = Len(gs),
         NEW ls \in Seq(OutputLines), NEW l \in OutputLines, NEW sc, Piped(gs, fs, ls, sc)
  PROVE  Piped(gs, Filtered(fs, l), Append(ls, l),
               IF Printed(fs, l) THEN Append(sc, <<"line", l>>) ELSE sc)
<1> DEFINE n == Len(gs)
           out == Through(gs, ls)[n]
           rest == Filtered(fs, l)
<1>1. n \in Nat /\ DOMAIN gs = 1..n /\ DOMAIN fs = 1..n /\ n - n = 0 /\ n \in 0..n
  BY Appended
<1>2. /\ Sound(gs, ls, OutputLines)
      /\ \A i \in 1..n : fs[i] = States(gs, ls)[i]
      /\ sc = Tagged("line", out) \o Tagged("count", NumbersTo(gs, ls, 0))
  <2>1. \A i \in 1..n : 0 + i = i
    BY <1>1
  <2> QED BY <1>1, <2>1 DEF Piped
<1>3. sc = Tagged("line", out) /\ IsSeq(out)
  <2>1. out \in Seq(OutputLines)
    BY <1>1, <1>2 DEF Sound
  <2>2. \E m \in Nat : out \in [1..m -> OutputLines]
    BY <2>1, SeqDef
  <2>3. IsSeq(out)
    <3> DEFINE R == {out[i] : i \in DOMAIN out}
    <3> HIDE DEF out
    <3>1. PICK m \in Nat : out \in [1..m -> OutputLines]
      BY <2>2
    <3>2. \A i \in 1..m : out[i] \in R
      BY <3>1
    <3> HIDE DEF R
    <3>3. out \in [1..m -> R]
      BY <3>1, <3>2
    <3>4. out \in Seq(R)
      BY <3>3, SeqDef
    <3> QED BY <3>4 DEF IsSeq, R
  <2> HIDE DEF out
  <2>4. IsSeq(Tagged("line", out))
    BY <2>3, TaggedFacts
  <2>5. Tagged("line", out) \o <<>> = Tagged("line", out)
    BY <2>4, Emptied, Joined
  <2> QED BY <1>2, <2>3, <2>5, CountersNone, TaggedNothing
<1>4. fs = States(gs, ls)
  <2>1. fs = [i \in 1..n |-> fs[i]]
    <3>1. \E m \in Nat : fs \in [1..m -> {fs[i] : i \in DOMAIN fs}]
      BY SeqDef DEF IsSeq
    <3> QED BY <1>1, <3>1
  <2>2. States(gs, ls) = [i \in 1..n |-> States(gs, ls)[i]]
    BY <1>1 DEF States
  <2> QED BY <1>2, <2>1, <2>2
<1>5. /\ Sound(gs, Append(ls, l), OutputLines)
      /\ Through(gs, Append(ls, l))[n] =
           IF \A j \in 1..n : Passes(fs[j], l) THEN Append(out, l) ELSE out
      /\ States(gs, Append(ls, l)) = rest
  <2> DEFINE now == Append(ls, l)
  <2>1. /\ Sound(gs, now, OutputLines)
        /\ \A i \in 0..n :
             Through(gs, now)[i] =
               IF \A j \in 1..i : Passes(States(gs, ls)[j], l)
               THEN Append(Through(gs, ls)[i], l) ELSE Through(gs, ls)[i]
        /\ States(gs, now) = Filtered(States(gs, ls), l)
    BY <1>2, MoreThrough
  <2> HIDE DEF now, n
  <2> QED BY <1>1, <1>4, <2>1 DEF now
<1>6. DOMAIN rest = 1..n /\ Len(rest) = n /\ \A i \in 1..n : rest[i] = States(gs, Append(ls, l))[0 + i]
  <2>1. rest = [i \in DOMAIN fs |-> rest[i]]
    BY DEF Filtered
  <2> HIDE DEF rest
  <2>2. Len(rest) = n /\ DOMAIN rest = 1..n
    BY <1>1, <2>1, Mapped
  <2> QED BY <1>5, <2>2
<1>7. Printed(fs, l) <=> \A j \in 1..n : Passes(fs[j], l)
  BY <1>1 DEF Printed
<1> DEFINE new == IF Printed(fs, l) THEN Append(sc, <<"line", l>>) ELSE sc
<1>8. new = Tagged("line", Through(gs, Append(ls, l))[n])
  <2> HIDE DEF out
  <2>1. Tagged("line", Append(out, l)) = Append(sc, <<"line", l>>)
    BY <1>3, TaggedFacts
  <2> QED BY <1>3, <1>5, <1>7, <2>1
<1>9. new = Tagged("line", Through(gs, Append(ls, l))[n]) \o Tagged("count", NumbersTo(gs, Append(ls, l), 0))
  <2> DEFINE o == Through(gs, Append(ls, l))[n]
  <2>1. IsSeq(o)
    BY <1>3, <1>5, Appended
  <2> HIDE DEF o
  <2>2. IsSeq(Tagged("line", o))
    BY <2>1, TaggedFacts
  <2>3. Tagged("line", o) \o <<>> = Tagged("line", o)
    BY <2>2, Emptied, Joined
  <2> QED BY <1>8, <2>3, CountersNone, TaggedNothing DEF o
<1> HIDE DEF new, rest, n
<1>10. Piped(gs, rest, Append(ls, l), new)
  BY <1>1, <1>5, <1>6, <1>9, CountersNone DEF Piped, n
<1> QED BY <1>10 DEF new, rest

(* A filter is torn down.                                                  *)
LEMMA PipedCount ==
  ASSUME NEW gs, IsSeq(gs), NEW fs, IsSeq(fs), fs # <<>>, Len(fs) <= Len(gs),
         NEW ls, NEW sc, Piped(gs, fs, ls, sc)
  PROVE  Piped(gs, Tail(fs), ls,
               IF Head(fs).kind = "count" THEN Append(sc, <<"count", Head(fs).count>>) ELSE sc)
<1> DEFINE n == Len(gs)
           m == n - Len(fs)
           f == Head(fs)
           I == CountersTo(gs, m)
           in == [i \in DOMAIN gs |-> NonBlank(Through(gs, ls)[i - 1])]
           lines == Tagged("line", Through(gs, ls)[n])
           new == IF f.kind = "count" THEN Append(sc, <<"count", f.count>>) ELSE sc
<1>1. /\ n \in Nat /\ DOMAIN gs = 1..n /\ DOMAIN fs = 1..Len(fs) /\ Len(fs) \in Nat
      /\ IsSeq(Tail(fs)) /\ Len(Tail(fs)) = Len(fs) - 1 /\ DOMAIN Tail(fs) = 1..(Len(fs) - 1)
      /\ Len(fs) # 0
  <2>1. IsSeq(Tail(fs)) /\ Len(Tail(fs)) = Len(fs) - 1
    BY Shortened
  <2>2. Len(fs) # 0
    BY EmptySeq DEF IsSeq
  <2> QED BY <2>1, <2>2, Appended
<1>2. m \in 0..(n - 1) /\ m + 1 \in 1..n /\ n - Len(Tail(fs)) = m + 1 /\ 1 \in DOMAIN fs /\ m + 1 - 1 = m
  BY <1>1
<1>3. f = fs[1] /\ \A i \in 1..(Len(fs) - 1) : Tail(fs)[i] = fs[i + 1]
  BY <1>1, HeadTailProperties DEF IsSeq
<1>4. /\ Sound(gs, ls, OutputLines)
      /\ \A i \in DOMAIN fs : fs[i] = States(gs, ls)[m + i]
      /\ \A k \in 1..Cardinality(I) : Kth(I, k) \in I
      /\ sc = lines \o Tagged("count", NumbersTo(gs, ls, m))
  BY DEF Piped
<1>5. f = Fed(gs[m + 1], Through(gs, ls)[m])
  <2>1. fs[1] = States(gs, ls)[m + 1]
    BY <1>2, <1>4
  <2> HIDE DEF m
  <2>2. States(gs, ls)[m + 1] = Fed(gs[m + 1], Into(gs, ls, m + 1))
    BY <1>1, <1>2 DEF States
  <2>3. Into(gs, ls, m + 1) = Through(gs, ls)[m]
    BY <1>2 DEF Into
  <2> QED BY <1>3, <2>1, <2>2, <2>3
<1>6. f.kind = gs[m + 1].kind /\ (f.kind = "count" => f.count = in[m + 1])
  BY <1>1, <1>2, <1>5 DEF Fed
<1>7. CountersTo(gs, m + 1) = IF f.kind = "count" THEN I \cup {m + 1} ELSE I
  <2>1. \A i : i \in 1..(m + 1) <=> i \in 1..m \/ i = m + 1
    BY <1>2
  <2> QED BY <1>6, <2>1 DEF CountersTo
<1>8. I \subseteq 1..m /\ m \in Nat
  BY <1>2 DEF CountersTo
<1>9. \A i \in 1..(Len(fs) - 1) : Tail(fs)[i] = States(gs, ls)[m + 1 + i]
  <2>1. \A i \in 1..(Len(fs) - 1) : i + 1 \in DOMAIN fs /\ m + 1 + i = m + (i + 1)
    BY <1>1, <1>2
  <2> QED BY <1>3, <1>4, <2>1
<1>10. IsSeq(lines)
  <2>1. Through(gs, ls)[n] \in Seq(OutputLines)
    BY <1>1, <1>4 DEF Sound
  <2> DEFINE o == Through(gs, ls)[n]
             R == {lines[i] : i \in DOMAIN lines}
  <2>2. PICK k \in Nat : DOMAIN o = 1..k
    BY <2>1, SeqDef
  <2> HIDE DEF o
  <2>3. lines = [i \in 1..k |-> lines[i]]
    BY <2>2 DEF Tagged, o
  <2> HIDE DEF lines
  <2>4. \A i \in 1..k : lines[i] \in R
    BY <2>3
  <2> HIDE DEF R
  <2>5. lines \in [1..k -> R]
    BY <2>3, <2>4
  <2>6. lines \in Seq(R)
    BY <2>5, SeqDef
  <2> QED BY <2>6 DEF IsSeq, R
<1>11. NumbersTo(gs, ls, m) = At(in, I) /\ NumbersTo(gs, ls, m + 1) = At(in, CountersTo(gs, m + 1))
  BY DEF NumbersTo
<1> HIDE DEF I, in, lines, m, f
<1>12. IsSeq(At(in, I))
  BY <1>8, AtMore
<1>13. /\ \A k \in 1..Cardinality(CountersTo(gs, m + 1)) : Kth(CountersTo(gs, m + 1), k) \in CountersTo(gs, m + 1)
       /\ new = lines \o Tagged("count", NumbersTo(gs, ls, m + 1))
  <2>1. CASE f.kind = "count"
    <3>1. /\ At(in, I \cup {m + 1}) = Append(At(in, I), in[m + 1])
          /\ Cardinality(I \cup {m + 1}) = Cardinality(I) + 1
          /\ \A k \in 1..(Cardinality(I) + 1) : Kth(I \cup {m + 1}, k) \in I \cup {m + 1}
      BY <1>4, <1>8, AtMore
    <3> DEFINE t == Tagged("count", At(in, I))
               e == <<"count", in[m + 1]>>
    <3>2. Tagged("count", Append(At(in, I), in[m + 1])) = Append(t, e) /\ IsSeq(t)
      BY <1>12, TaggedFacts
    <3> HIDE DEF t, e
    <3>3. lines \o Append(t, e) = Append(lines \o t, e)
      BY <1>10, <3>2, Joined
    <3>4. new = Append(lines \o t, e)
      BY <1>4, <1>6, <1>11, <2>1 DEF t, e
    <3> QED BY <1>7, <1>11, <2>1, <3>1, <3>2, <3>3, <3>4
  <2>2. CASE f.kind # "count"
    BY <1>4, <1>7, <1>11, <2>2
  <2> QED BY <2>1, <2>2
<1> HIDE DEF new
<1>14. Piped(gs, Tail(fs), ls, new)
  BY <1>1, <1>2, <1>4, <1>9, <1>13 DEF Piped, lines
<1> QED BY <1>14 DEF new, f

(* They all are.                                                           *)
LEMMA PipedEnd ==
  ASSUME NEW gs, IsSeq(gs), NEW ls, NEW sc, Piped(gs, <<>>, ls, sc)
  PROVE  sc = Meaning(gs, ls)
<1>1. Len(gs) \in Nat /\ DOMAIN gs = 1..Len(gs)
  BY Appended
<1>2. Len(gs) - Len(<<>>) = Len(gs)
  BY <1>1, Emptied
<1>3. CountersTo(gs, Len(gs)) = {i \in DOMAIN gs : gs[i].kind = "count"}
  BY <1>1 DEF CountersTo
<1>4. sc = Tagged("line", Through(gs, ls)[Len(gs)]) \o Tagged("count", NumbersTo(gs, ls, Len(gs)))
  BY <1>2 DEF Piped
<1> QED BY <1>3, <1>4 DEF Meaning, Tagged, NumbersTo

-----------------------------------------------------------------------------
(* Behind the first stage there are filters, and what they were asked to   *)
(* be is what an init makes of a command.                                  *)
FilterInv ==
  /\ Lookup /\ command # Top /\ Stage # 1 => Cmd[command].type = "filter"
  /\ phase \in {"locate", "options", "init"} =>
       \A k \in DOMAIN located : k # 1 => Cmd[located[k].command].type = "filter"
  /\ \A i \in DOMAIN asked : Fresh(asked[i])

(* The filters have been fed with what was printed, and the client with    *)
(* what they let pass and with the numbers of those that are torn down.    *)
OutputInv ==
  /\ phase \in {"prompt", "locate", "options", "init"} => printed = <<>> /\ screen = <<>>
  /\ phase = "init" /\ InFullSoFar => filters = asked
  /\ phase = "run" => Len(filters) = Len(asked)
  /\ phase \in {"run", "teardown"} \/ (phase = "answered" /\ result # "refused") =>
       (InFullSoFar => Piped(asked, filters, printed, screen))
  /\ phase = "answered" /\ result # "refused" => filters = <<>>

(* An init makes a fresh filter.                                           *)
LEMMA FilterFresh ==
  ASSUME NEW k \in DOMAIN located, located[k].command \in Commands,
         Cmd[located[k].command].type = "filter"
  PROVE  Fresh(FilterOf(k))
<1> DEFINE init == Cmd[located[k].command].init
           pattern == Value(k, "search_pattern")
<1>1. init \in {"include", "exclude", "grep", "range", "count"}
  BY CommandLineAssumption
<1>2. PICK b \in BOOLEAN : Inverts(k) = b
  <2>1. Inverts(k) \in BOOLEAN
    BY Zenon DEF Inverts
  <2> QED BY <2>1, Zenon
<1> DEFINE made == FilterOf(k)
<1>3. \/ made = MatchFilter(pattern, FALSE) \/ made = MatchFilter(pattern, TRUE)
      \/ made = MatchFilter(pattern, b)
      \/ made = RangeFilter(Value(k, "range_start"), Value(k, "range_end"))
      \/ made = CountFilter
  <2>1. CASE init = "include"
    BY <2>1 DEF FilterOf
  <2>2. CASE init = "exclude"
    BY <2>2 DEF FilterOf
  <2>3. CASE init = "grep"
    <3>1. made = MatchFilter(pattern, Inverts(k))
      BY <2>3 DEF FilterOf
    <3> HIDE DEF made, pattern
    <3> QED BY <1>2, <3>1, Zenon
  <2>4. CASE init = "range"
    BY <2>4 DEF FilterOf
  <2>5. CASE init = "count"
    BY <2>5 DEF FilterOf
  <2> QED BY <1>1, <2>1, <2>2, <2>3, <2>4, <2>5
<1>4. ASSUME NEW p, NEW i \in BOOLEAN PROVE Fresh(MatchFilter(p, i))
  BY DEF Fresh, MatchFilter
<1>5. ASSUME NEW p, NEW q PROVE Fresh(RangeFilter(p, q))
  BY DEF Fresh, RangeFilter
<1>6. Fresh(CountFilter)
  BY DEF Fresh, CountFilter
<1> HIDE DEF made
<1> QED BY <1>3, <1>4, <1>5, <1>6 DEF made

(* The stages stay those of filters.                                       *)
LEMMA FilterSteps == IInv /\ FilterInv /\ [Next]_vars => FilterInv'
<1> SUFFICES ASSUME IInv, FilterInv, [Next]_vars PROVE FilterInv'
  OBVIOUS
<1>1. ASSUME asked' = asked, located' = located,
             phase' \in {"locate", "options", "init"} => phase \in {"locate", "options", "init"},
             phase' \in {"locate", "options"} => Lookup /\ command' = command
      PROVE  FilterInv'
  BY <1>1 DEF FilterInv, Lookup, Stage
<1>2. CASE UNCHANGED vars
  BY <1>1, <1>2 DEF vars, Lookup
<1>3. CASE Type
  <2>1. located' = <<>> /\ command' = Top /\ asked' = asked
    BY <1>3 DEF Type, BeginStage, execution
  <2> QED BY <2>1, Emptied DEF FilterInv
<1>4. CASE LocateWord
  <2> DEFINE c == Locate(Candidates, mode)
  <2>1. /\ phase = "locate"
        /\ Descends(c) \/ Matches(c) \/ TakesArguments(c) \/ RefusesWord(c)
    BY <1>4 DEF LocateWord
  <2>2. c \in Candidates \cup {NoCommand}
    <3>1. Candidates \subseteq Commands /\ mode \in Int
      BY DEF Candidates, Named, IInv, SessionInv, SessionOK
    <3> QED BY <3>1, LocateFacts
  <2>3. c = NoCommand \/ Cmd[c].type = Kind
    BY <2>2 DEF Candidates, Named
  <2> HIDE DEF c
  <2>4. CASE Descends(c) \/ Matches(c)
    <3>1. command' = c /\ c # NoCommand /\ UNCHANGED <<located, asked>>
      BY <2>4 DEF Descends, Matches, execution
    <3>2. Stage # 1 => Cmd[c].type = "filter"
      BY <2>3, <3>1 DEF Kind
    <3> QED BY <2>1, <3>1, <3>2 DEF FilterInv, Stage, Lookup
  <2>5. CASE TakesArguments(c) \/ RefusesWord(c)
    <3>1. UNCHANGED <<located, asked, command>>
      BY <2>5 DEF TakesArguments, RefusesWord, Refuse, lookup, execution
    <3> QED BY <1>1, <2>1, <3>1 DEF Lookup
  <2> QED BY <2>1, <2>4, <2>5
<1>5. CASE TakeOption
  BY <1>1, <1>5 DEF TakeOption, Scanning, execution, Lookup
<1>6. CASE RefuseOption \/ MissingArgument
  <2>1. Refuse
    BY <1>6 DEF RefuseOption, MissingArgument
  <2> QED BY <1>1, <2>1 DEF Refuse, lookup, execution
<1>7. CASE StageLocated
  <2>1. phase = "options" /\ asked' = asked /\ located' = Done /\ command \in Commands
    BY <1>7 DEF StageLocated, ScanEnds, BeginStage, execution, IInv, StageInv
  <2>2. command # Top
    BY <2>1, CommandAssumption DEF Top
  <2>3. Stage # 1 => Cmd[command].type = "filter"
    BY <2>1, <2>2 DEF FilterInv, Lookup
  <2>4. /\ DOMAIN located = 1..Len(located) /\ DOMAIN Done = 1..(Len(located) + 1)
        /\ \A i \in 1..Len(located) : Done[i] = located[i]
        /\ Done[Len(located) + 1].command = command
        /\ Len(located) \in Nat
    BY Appended DEF Done, IInv, LineInv
  <2>5. \A k \in DOMAIN Done : k # 1 => Cmd[Done[k].command].type = "filter"
    <3> SUFFICES ASSUME NEW k \in 1..(Len(located) + 1), k # 1
                 PROVE  Cmd[Done[k].command].type = "filter"
      BY <2>4
    <3>1. CASE k \in 1..Len(located)
      BY <2>1, <2>4, <3>1 DEF FilterInv
    <3>2. CASE k = Len(located) + 1
      BY <2>3, <2>4, <3>2 DEF Stage
    <3> QED BY <2>4, <3>1, <3>2
  <2>6. (phase' \in {"locate", "answered"} /\ command' = Top) \/ phase' = "init"
    BY <1>7 DEF StageLocated, BeginStage
  <2> QED BY <2>1, <2>5, <2>6 DEF FilterInv, Lookup
<1>8. CASE InitFilter
  <2>1. /\ phase = "init" /\ phase' = "init" /\ located' = located
        /\ ToSetUp <= Stages /\ asked' = Append(asked, FilterOf(ToSetUp))
    BY <1>8 DEF InitFilter, lookup
  <2>2. /\ Len(filters) \in Nat /\ IsSeq(asked) /\ Len(located) = Stages /\ Stages \in Nat
        /\ DOMAIN located = 1..Len(located)
    BY <2>1, Queues, Appended DEF IInv, LineInv
  <2>3. ToSetUp \in DOMAIN located /\ ToSetUp # 1
    BY <2>1, <2>2 DEF ToSetUp
  <2>4. Fresh(FilterOf(ToSetUp))
    BY <2>1, <2>3, FilterFresh DEF IInv, GivenInv, FilterInv
  <2> DEFINE f == FilterOf(ToSetUp)
  <2> HIDE DEF f
  <2>5. /\ DOMAIN asked = 1..Len(asked) /\ DOMAIN Append(asked, f) = 1..(Len(asked) + 1)
        /\ \A i \in 1..Len(asked) : Append(asked, f)[i] = asked[i]
        /\ Append(asked, f)[Len(asked) + 1] = f /\ Len(asked) \in Nat
    BY <2>2, Appended
  <2>6. \A i \in DOMAIN Append(asked, f) : Fresh(Append(asked, f)[i])
    <3>1. Fresh(f)
      BY <2>4 DEF f
    <3>2. \A i \in 1..(Len(asked) + 1) : i \in 1..Len(asked) \/ i = Len(asked) + 1
      BY <2>5
    <3> QED BY <2>5, <3>1, <3>2 DEF FilterInv
  <2> QED BY <2>1, <2>6 DEF FilterInv, Lookup, f
<1>9. CASE InitFilterFails \/ RunCallback \/ TornDown
  BY <1>1, <1>9 DEF InitFilterFails, RunCallback, TornDown, lookup, execution
<1>10. CASE PrintLine \/ TearDown
  BY <1>1, <1>10 DEF PrintLine, TearDown, Running, lookup
<1>11. CASE PrintedAll \/ SetsMode \/ SetsPrivilege \/ Loads
  BY <1>1, <1>11 DEF PrintedAll, SetsMode, SetsPrivilege, Loads, Returns, lookup, execution
<1>12. CASE Free
  <2>1. located' = <<>> /\ asked' = <<>> /\ phase' = "prompt"
    BY <1>12 DEF Free
  <2> QED BY <2>1, Emptied DEF FilterInv, Lookup
<1> QED BY <1>2, <1>3, <1>4, <1>5, <1>6, <1>7, <1>8, <1>9, <1>10, <1>11, <1>12 DEF Next, Answer

(* What was printed and read stays with the filters.                       *)
LEMMA OutputSteps == IInv /\ FilterInv /\ OutputInv /\ [Next]_vars => OutputInv'
<1> SUFFICES ASSUME IInv, FilterInv, OutputInv, [Next]_vars PROVE OutputInv'
  OBVIOUS
<1>1. ASSUME UNCHANGED <<words, located, asked>>
      PROVE  InFullSoFar' <=> InFullSoFar
  BY <1>1 DEF InFullSoFar, InFull
<1>2. CASE UNCHANGED vars
  BY <1>1, <1>2 DEF vars, OutputInv
<1>3. CASE Type \/ LocateWord \/ TakeOption \/ RefuseOption \/ MissingArgument \/ StageLocated
  <2>1. /\ phase \in {"prompt", "locate", "options"} /\ UNCHANGED execution
        /\ phase' \in {"locate", "options", "init"} \/ (phase' = "answered" /\ result' = "refused")
    <3>1. CASE Type
      BY <3>1 DEF Type, BeginStage
    <3>2. CASE LocateWord
      BY <3>2 DEF LocateWord, Descends, Matches, TakesArguments, RefusesWord, Refuse
    <3>3. CASE TakeOption
      BY <3>3 DEF TakeOption, Scanning
    <3>4. CASE RefuseOption \/ MissingArgument
      BY <3>4 DEF RefuseOption, MissingArgument, Scanning, ScanEnds, Refuse
    <3>5. CASE StageLocated
      BY <3>5 DEF StageLocated, ScanEnds, BeginStage
    <3> QED BY <1>3, <3>1, <3>2, <3>3, <3>4, <3>5
  <2>2. filters = <<>> /\ asked = <<>> /\ printed = <<>> /\ screen = <<>>
    BY <2>1 DEF IInv, ExecutionInv, OutputInv
  <2> QED BY <2>1, <2>2 DEF OutputInv, execution
<1>4. CASE InitFilter
  <2>1. /\ phase = "init" /\ phase' = "init" /\ UNCHANGED <<words, located, printed, screen>>
        /\ asked' = Append(asked, FilterOf(ToSetUp))
    BY <1>4 DEF InitFilter, lookup
  <2>2. PICK f \in FiltersMade(ToSetUp) : filters' = Append(filters, f)
    BY <1>4 DEF InitFilter
  <2>3. /\ IsSeq(asked) /\ Len(filters) = Len(asked) /\ Len(asked) \in Nat
    BY <2>1, Queues
  <2>4. Len(asked') = Len(asked) + 1
    BY <2>1, <2>3, Appended
  <2>5. ASSUME InFullSoFar' PROVE filters' = asked'
    <3>1. \A k \in 2..(Len(asked) + 2) : InFull(k)
      BY <2>1, <2>3, <2>4, <2>5 DEF InFullSoFar, InFull
    <3>2. InFullSoFar /\ InFull(ToSetUp)
      BY <2>3, <3>1 DEF InFullSoFar, ToSetUp
    <3>3. f = FilterOf(ToSetUp)
      BY <2>2, <3>2 DEF FiltersMade
    <3>4. filters = asked
      BY <2>1, <3>2 DEF OutputInv
    <3> QED BY <2>1, <2>2, <3>3, <3>4
  <2> QED BY <2>1, <2>5 DEF OutputInv
<1>5. CASE InitFilterFails \/ RunCallback
  <2>1. /\ phase = "init" /\ phase' \in {"run", "teardown"}
        /\ UNCHANGED <<words, located, asked, filters, printed, screen>>
    BY <1>5 DEF InitFilterFails, RunCallback, lookup, execution
  <2>2. /\ printed = <<>> /\ screen = <<>> /\ (InFullSoFar => filters = asked)
        /\ IsSeq(asked) /\ \A i \in DOMAIN asked : Fresh(asked[i])
        /\ Len(filters) = Len(asked)
    BY <2>1, Queues DEF OutputInv, FilterInv
  <2>3. InFullSoFar => Piped(asked, filters, printed, screen)
    BY <2>2, PipedNothing
  <2>4. (InFullSoFar => Piped(asked, filters, printed, screen))'
    BY <1>1, <2>1, <2>3
  <2> QED BY <2>1, <2>2, <2>4 DEF OutputInv
<1>6. CASE PrintLine
  <2>1. PICK line \in SUBSET Texts :
          /\ printed' = Append(printed, line) /\ filters' = Filtered(filters, line)
          /\ screen' = IF Printed(filters, line) THEN Append(screen, <<"line", line>>) ELSE screen
    BY <1>6 DEF PrintLine
  <2>2. phase = "run" /\ phase' = "run" /\ UNCHANGED <<words, located, asked>>
    BY <1>6 DEF PrintLine, Running, lookup
  <2>3. /\ IsSeq(asked) /\ IsSeq(filters) /\ Len(filters) = Len(asked)
        /\ \A i \in DOMAIN asked : Fresh(asked[i])
        /\ printed \in Seq(OutputLines) /\ line \in OutputLines
    BY <2>2, Queues DEF OutputInv, FilterInv, IInv, LineInv, OutputLines
  <2>4. ASSUME InFullSoFar PROVE Piped(asked, filters', printed', screen')
    <3>1. Piped(asked, filters, printed, screen)
      BY <2>2, <2>4 DEF OutputInv
    <3>2. Piped(asked, Filtered(filters, line), Append(printed, line),
                IF Printed(filters, line) THEN Append(screen, <<"line", line>>) ELSE screen)
      BY <2>3, <3>1, PipedLine
    <3> QED BY <2>1, <3>2
  <2>5. (InFullSoFar => Piped(asked, filters, printed, screen))'
    BY <1>1, <2>2, <2>4
  <2>6. Len(filters') = Len(asked')
    <3> DEFINE r == Filtered(filters, line)
    <3>1. r = [i \in DOMAIN filters |-> r[i]]
      BY DEF Filtered
    <3> HIDE DEF r
    <3>2. Len(r) = Len(filters)
      BY <2>3, <3>1, Mapped
    <3> QED BY <2>1, <2>2, <2>3, <3>2 DEF r
  <2> QED BY <2>2, <2>5, <2>6 DEF OutputInv
<1>7. CASE PrintedAll \/ SetsMode \/ SetsPrivilege \/ Loads
  <2>1. /\ phase = "run" /\ phase' = "teardown"
        /\ UNCHANGED <<words, located, asked, filters, printed, screen>>
    BY <1>7 DEF PrintedAll, SetsMode, SetsPrivilege, Loads, Running, Returns, lookup, execution
  <2>2. (InFullSoFar => Piped(asked, filters, printed, screen))'
    BY <1>1, <2>1 DEF OutputInv
  <2> QED BY <2>1, <2>2 DEF OutputInv
<1>8. CASE TearDown
  <2>1. /\ phase = "teardown" /\ phase' = "teardown" /\ filters # <<>> /\ filters' = Tail(filters)
        /\ screen' = IF Head(filters).kind = "count"
                     THEN Append(screen, <<"count", Head(filters).count>>) ELSE screen
        /\ UNCHANGED <<words, located, asked, printed>>
    BY <1>8 DEF TearDown, lookup
  <2>2. IsSeq(asked) /\ IsSeq(filters) /\ Len(filters) <= Len(asked)
    BY <2>1, Queues
  <2>3. ASSUME InFullSoFar PROVE Piped(asked, filters', printed', screen')
    <3>1. Piped(asked, filters, printed, screen)
      BY <2>1, <2>3 DEF OutputInv
    <3>2. Piped(asked, Tail(filters), printed,
                IF Head(filters).kind = "count"
                THEN Append(screen, <<"count", Head(filters).count>>) ELSE screen)
      BY <2>1, <2>2, <3>1, PipedCount
    <3> QED BY <2>1, <3>2
  <2>4. (InFullSoFar => Piped(asked, filters, printed, screen))'
    BY <1>1, <2>1, <2>3
  <2> QED BY <2>1, <2>4 DEF OutputInv
<1>9. CASE TornDown
  <2>1. /\ phase = "teardown" /\ phase' = "answered" /\ filters = <<>>
        /\ UNCHANGED <<words, located, asked, filters, printed, screen>>
    BY <1>9 DEF TornDown, lookup, execution
  <2>2. (InFullSoFar => Piped(asked, filters, printed, screen))'
    BY <1>1, <2>1 DEF OutputInv
  <2> QED BY <2>1, <2>2 DEF OutputInv
<1>10. CASE Free
  BY <1>10 DEF Free, OutputInv
<1> QED BY <1>2, <1>3, <1>4, <1>5, <1>6, <1>7, <1>8, <1>9, <1>10 DEF Next, Answer

(* What the client reads is what the pipeline means, for every pipeline of *)
(* filters, whatever the callback prints.                                  *)
THEOREM OutputMeans == Spec => []OutputIsMeaning
<1>1. Init => FilterInv /\ OutputInv
  BY Emptied DEF Init, FilterInv, OutputInv, Lookup
<1>2. IInv /\ FilterInv /\ OutputInv => OutputIsMeaning
  <2> SUFFICES ASSUME IInv, OutputInv, phase = "answered", result \in {"done", "failed"}, InFullSoFar
               PROVE  screen = Meaning(asked, printed)
    BY DEF OutputIsMeaning
  <2>1. Piped(asked, <<>>, printed, screen) /\ IsSeq(asked)
    BY DEF OutputInv, IInv, ExecutionInv
  <2> QED BY <2>1, PipedEnd
<1> QED BY <1>1, <1>2, InitStep, NextStep, FilterSteps, OutputSteps, PTL DEF Spec
=============================================================================
