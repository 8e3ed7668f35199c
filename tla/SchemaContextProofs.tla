------------------------- MODULE SchemaContextProofs -------------------------
(***************************************************************************)
(* Proofs about SchemaContext: the session's invariant also holds around   *)
(* the uses of freed schema, and what was read from running holds the      *)
(* context, for every schema and bound and whatever sysrepo fails to do.   *)
(***************************************************************************)
EXTENDS SchemaContext, ConfigSessionProofs, FiniteSetTheorems

CommandStates == {"none", "live", "dead"}

ContextType ==
  /\ held \in 0..MaxHeld
  /\ outdated \in BOOLEAN /\ broken \in BOOLEAN
  /\ commands \in CommandStates /\ no_commands \in CommandStates
  /\ IsFiniteSet(read)

(* What is known to be dead or read is the data of a live element.         *)
TreesLive == \A r \in read \cup dead : r \in Roots /\ entry[r] = "live"

(* The commands that add to the candidate are registered anew at each      *)
(* load-modules, those under no may be left from an earlier one.           *)
NoLiveAfter == no_commands = "live" => commands = "live"

CInv ==
  /\ FInv
  /\ ContextType
  /\ TreesLive
  /\ NoLiveAfter
  /\ SnapshotsHold

-----------------------------------------------------------------------------
(* The session below.                                                      *)

(* Every step of the context but a restart is a step of the session.       *)
LEMMA SessionStep ==
  ASSUME [ContextNext]_allVars
  PROVE  [Next]_vars \/ Restart
<1>1. CASE Break \/ AtPrompt \/ OtherInstalls \/ UNCHANGED allVars
  BY <1>1 DEF Break, AtPrompt, OtherInstalls, allVars
<1>2. CASE Edit
  BY <1>1, <1>2 DEF Edit, RootEdit, BelowEdit, Next
<1>3. CASE Commit \/ Exit \/ Discard \/ Around
  BY <1>1, <1>3 DEF Commit, Exit, Discard, Around, Next
<1>4. CASE \/ \E c \in {commands, no_commands} : ShowDatastore(c)
           \/ ListModules \/ LoadModules \/ InstallModule
  BY <1>1, <1>4 DEF ShowDatastore, ListModules, LoadModules, InstallModule
<1>5. CASE End \/ ShutdownBreaks
  BY <1>1, <1>5 DEF End, ShutdownBreaks, Next
<1> QED BY <1>1, <1>2, <1>3, <1>4, <1>5 DEF ContextNext

(* A process that starts anew has the invariant, however the last ended.   *)
LEMMA RestartInvariant ==
  ASSUME FInv, Restart
  PROVE  FInv'
<1>1. /\ session' = "open" /\ at_root' = 0
      /\ mode' = MODE_EXEC /\ stack' = <<>> /\ privilege' = "unprivileged"
      /\ roots' = <<>> /\ entry' = [r \in Roots |-> "null"]
      /\ cand' = NoData /\ parent_data' = NULL /\ running' = running
  BY DEF Restart, Start
<1>2. roots' = <<>> /\ Len(roots') = 0 /\ IsInjective(roots') /\ stack' \in Seq(Modes)
      /\ roots' \in Seq(Roots)
  BY <1>1 DEF IsInjective
<1>3. \A r \in Roots : cand'[r] = Absent /\ entry'[r] = "null"
  BY <1>1 DEF NoData, Roots
<1>4. TypeOK'
  BY <1>1, <1>2, <1>3, NoDataTree DEF FInv, TypeOK
<1>5. PointerExact' /\ OnlyHeadDead' /\ QuietClose' /\ ~InSubmode'
  BY <1>1, <1>2, ValueAssumption DEF PointerExact, OnlyHeadDead, QuietClose, InSubmode
<1> QED BY <1>1, <1>4, <1>5 DEF FInv, FailedDiscardContained, ModeIsTop, SubmodeTreesLive

LEMMA SessionInvariant ==
  ASSUME FInv, [ContextNext]_allVars
  PROVE  FInv'
BY SessionStep, RestartInvariant, ContainedStep

-----------------------------------------------------------------------------
(* The lock.                                                               *)

(* What a step does to the context that takes the lock or leaves it alone. *)
SameOrAcquired ==
  \/ Acquire /\ dead' \subseteq DeadThen
  \/ KeepContext /\ dead' \subseteq dead

(* A root whose data may be dead is in the list.                           *)
LEMMA DeadLoaded ==
  ASSUME CInv, NEW r \in DeadThen \cup dead
  PROVE  r \in Roots /\ entry[r] = "live" /\ Loaded(r)
<1>1. r \in Roots /\ entry[r] = "live"
  BY RangeOfRoots DEF CInv, TreesLive, DeadThen, LiveRoots, FInv, TypeOK
<1> QED BY <1>1 DEF CInv, FInv, TypeOK

(* Taking the lock replaces nothing as long as something read is held.     *)
LEMMA HeldContext ==
  ASSUME CInv, ~broken, read # {}
  PROVE  ~outdated /\ DeadThen = dead /\ commands = "live" /\ held # 0
         /\ \A c : CommandsThen(c) = c
<1>1. ~outdated /\ commands = "live" /\ Cardinality(read) <= held
  BY DEF CInv, SnapshotsHold
<1>2. Cardinality(read) \in Nat /\ Cardinality(read) # 0
  BY FS_CardinalityType, FS_EmptySet DEF CInv, ContextType
<1>3. held # 0
  BY <1>1, <1>2 DEF CInv, ContextType
<1> QED BY <1>1, <1>3 DEF DeadThen, CommandsThen

(* Types of the context after such a step.                                 *)
LEMMA AcquiredTypes ==
  ASSUME CInv, SameOrAcquired
  PROVE  /\ (outdated \in BOOLEAN /\ broken \in BOOLEAN)'
         /\ (commands \in CommandStates /\ no_commands \in CommandStates)'
         /\ NoLiveAfter'
BY DEF CInv, SameOrAcquired, Acquire, KeepContext, CommandsThen, Replaced, ContextType,
       NoLiveAfter, CommandStates

(* Nothing more is read, and no lock is released.                          *)
LEMMA NothingMoreRead ==
  ASSUME CInv, ~broken, FInv', SameOrAcquired, read' \subseteq read,
         held' \in held..MaxHeld,
         \A r \in read' \cup dead' : entry'[r] = "live"
  PROVE  CInv'
<1>1. IsFiniteSet(read) /\ held \in Nat /\ MaxHeld \in Nat
  BY HeldAssumption DEF CInv, ContextType
<1>2. IsFiniteSet(read') /\ Cardinality(read') <= Cardinality(read)
      /\ Cardinality(read') \in Nat /\ Cardinality(read) \in Nat
  BY <1>1, FS_Subset, FS_CardinalityType
<1>3. ContextType' /\ NoLiveAfter'
  BY <1>1, <1>2, AcquiredTypes DEF ContextType
<1>4. TreesLive'
  BY DeadLoaded DEF CInv, TreesLive, SameOrAcquired
<1>5. SnapshotsHold'
  <2> SUFFICES ASSUME read' # {}
               PROVE  /\ Cardinality(read') <= held' /\ ~outdated'
                      /\ read' \cap dead' = {} /\ commands' = "live"
    BY DEF SnapshotsHold
  <2>1. read # {}
    OBVIOUS
  <2>2. ~outdated /\ DeadThen = dead /\ commands = "live" /\ \A c : CommandsThen(c) = c
    BY <2>1, HeldContext
  <2>3. Cardinality(read) <= held /\ read \cap dead = {}
    BY <2>1 DEF CInv, SnapshotsHold
  <2>4. ~outdated' /\ commands' = "live" /\ dead' \subseteq dead
    BY <2>2 DEF SameOrAcquired, Acquire, KeepContext
  <2>5. Cardinality(read') <= held'
    BY <1>1, <1>2, <2>3
  <2> QED BY <2>3, <2>4, <2>5
<1> QED BY <1>3, <1>4, <1>5 DEF CInv

LEMMA BreakInvariant ==
  ASSUME CInv, Break
  PROVE  CInv'
<1>1. FInv'
  BY ContainedStep DEF Break, CInv
<1>2. UNCHANGED <<entry, held, outdated, commands, no_commands, dead, read>> /\ broken'
  BY DEF Break, vars
<1> QED BY <1>1, <1>2 DEF CInv, ContextType, TreesLive, NoLiveAfter, SnapshotsHold

-----------------------------------------------------------------------------
(* The commands.                                                           *)

(* get_sysrepo_running_node read the data of one more root.                *)
LEMMA RootRead ==
  ASSUME CInv, ~broken, FInv', NEW r \in Roots, NEW which \in {commands, no_commands},
         which # "none", CommandsThen(which) # "dead",
         SnapshotRoot(r) \/ FreeSnapshot(r),
         Acquire, dead' = StillThere(DeadThen), SubtreeKept(r)
  PROVE  CInv'
<1>1. /\ IsFiniteSet(read) /\ held \in Nat /\ MaxHeld \in Nat
      /\ held' = held + 1 /\ held < MaxHeld
  BY HeldAssumption DEF CInv, ContextType, SubtreeKept
<1>2. r \notin DeadThen
  BY DeadLoaded DEF SnapshotRoot, FreeSnapshot, NewElement
<1>3. read' \subseteq read \cup {r} /\ \A q \in read' \cup dead' : entry'[q] = "live"
  BY DEF SubtreeKept, StillThere
<1>4. /\ IsFiniteSet(read \cup {r})
      /\ Cardinality(read \cup {r}) <= Cardinality(read) + 1
      /\ Cardinality(read) \in Nat /\ Cardinality(read \cup {r}) \in Nat
  <2>1. /\ IsFiniteSet(read \cup {r}) /\ Cardinality(read) \in Nat
        /\ \/ Cardinality(read \cup {r}) = Cardinality(read)
           \/ Cardinality(read \cup {r}) = Cardinality(read) + 1
    BY <1>1, FS_AddElement, FS_CardinalityType
  <2> QED BY <2>1
<1>5. IsFiniteSet(read') /\ Cardinality(read') <= Cardinality(read \cup {r})
      /\ Cardinality(read') \in Nat
  BY <1>3, <1>4, FS_Subset, FS_CardinalityType
<1>6. SameOrAcquired
  BY DEF SameOrAcquired, StillThere
<1>7. ContextType' /\ NoLiveAfter'
  BY <1>1, <1>5, <1>6, AcquiredTypes DEF ContextType
<1>8. TreesLive'
  BY <1>3, <1>6, DeadLoaded DEF CInv, TreesLive, StillThere
<1>9. Cardinality(read) <= held
  <2>1. CASE read = {}
    BY <1>1, <2>1, FS_EmptySet
  <2>2. CASE read # {}
    BY <2>2 DEF CInv, SnapshotsHold
  <2> QED BY <2>1, <2>2
<1>10. Cardinality(read') <= held'
  BY <1>1, <1>4, <1>5, <1>9
<1>11. commands' = "live" /\ ~outdated'
  BY DEF CInv, ContextType, CommandStates, NoLiveAfter, CommandsThen, Replaced, Acquire
<1>12. read' \cap dead' = {}
  <2>1. CASE read = {}
    BY <1>2, <1>3, <2>1 DEF StillThere
  <2>2. CASE read # {}
    <3>1. DeadThen = dead /\ read \cap dead = {}
      BY <2>2, HeldContext DEF CInv, SnapshotsHold
    <3> QED BY <1>2, <1>3, <3>1 DEF StillThere
  <2> QED BY <2>1, <2>2
<1> QED BY <1>7, <1>8, <1>10, <1>11, <1>12 DEF CInv, SnapshotsHold

LEMMA RootEditInvariant ==
  ASSUME CInv, ~broken, FInv', NEW r \in Roots,
         \/ RootEdit(r, RootContainer(r), commands)
         \/ RootEdit(r, NoRootContainer(r), no_commands)
  PROVE  CInv'
<1>1. PICK which \in {commands, no_commands} :
        /\ which # "none"
        /\ IF CommandsThen(which) = "dead" \/ SearchesDead(r) THEN Break
           ELSE /\ Acquire
                /\ dead' = StillThere(DeadThen)
                /\ IF session' = "open" /\ (SnapshotRoot(r) \/ FreeSnapshot(r))
                   THEN SubtreeKept(r)
                   ELSE UNCHANGED held /\ read' = StillThere(read)
  BY DEF RootEdit
<1>2. CASE Break
  BY <1>2, BreakInvariant
<1>3. CASE ~Break /\ session' = "open" /\ (SnapshotRoot(r) \/ FreeSnapshot(r))
  BY <1>1, <1>3, RootRead
<1>4. CASE ~Break /\ UNCHANGED held /\ read' = StillThere(read)
  <2>1. held' \in held..MaxHeld
    BY <1>4, HeldAssumption DEF CInv, ContextType
  <2> QED BY <1>1, <1>4, <2>1, NothingMoreRead DEF SameOrAcquired, StillThere
<1> QED BY <1>1, <1>2, <1>3, <1>4

(* The commands that take the lock and release it, or do not need it.      *)
LEMMA LockedInvariant ==
  ASSUME CInv, ~broken, FInv', held' = held,
         \/ Acquire /\ KeepTrees(DeadThen)
         \/ KeepContext /\ KeepTrees(dead)
  PROVE  CInv'
<1>1. held' \in held..MaxHeld
  BY HeldAssumption DEF CInv, ContextType
<1>2. read' \subseteq read /\ \A r \in read' \cup dead' : entry'[r] = "live"
  BY DEF KeepTrees, StillThere
<1>3. SameOrAcquired
  BY DEF SameOrAcquired, KeepTrees, StillThere
<1> QED BY <1>1, <1>2, <1>3, NothingMoreRead

(* exit in the CONFIG mode may release a lock too many; then the candidate *)
(* is empty or was freed and nothing is left that was read.                *)
LEMMA CandidateGone ==
  ASSUME CInv, ~broken, FInv', KeepContext, KeepTrees(dead), held' = Released,
         \A r \in Roots : entry'[r] # "live"
  PROVE  CInv'
<1>1. read' = {} /\ dead' = {}
  BY DeadLoaded DEF KeepTrees, StillThere, CInv, TreesLive
<1>2. held' \in 0..MaxHeld
  BY HeldAssumption DEF Released, CInv, ContextType
<1>3. SameOrAcquired
  BY <1>1 DEF SameOrAcquired
<1>4. ContextType' /\ NoLiveAfter'
  BY <1>1, <1>2, <1>3, AcquiredTypes, FS_EmptySet DEF ContextType
<1> QED BY <1>1, <1>4 DEF CInv, TreesLive, SnapshotsHold

LEMMA ExitContext ==
  ASSUME CInv, ~broken, FInv', Exit
  PROVE  CInv'
<1>1. CASE Break
  BY <1>1, BreakInvariant
<1>2. CASE KeepContext /\ KeepTrees(dead) /\ UNCHANGED held
  BY <1>2, LockedInvariant
<1>3. CASE Acquire /\ UNCHANGED held /\ KeepTrees(DeadThen)
  BY <1>3, LockedInvariant
<1>4. CASE ExitConfig /\ KeepContext /\ KeepTrees(dead) /\ roots = <<>> /\ held' = Released
  <2>1. \A r \in Roots : entry[r] = "null"
    BY <1>4, RangeOfRoots DEF CInv, FInv, TypeOK, Loaded
  <2>2. entry' = entry
    BY <1>4 DEF ExitConfig, dataVars
  <2> QED BY <1>4, <2>1, <2>2, CandidateGone
<1>5. CASE ExitConfigFree /\ KeepContext /\ KeepTrees(dead) /\ held' = Released
  <2>1. \A r \in Roots : entry'[r] # "live"
    BY <1>5 DEF ExitConfigFree, FreeDataTreeAll
  <2> QED BY <1>5, <2>1, CandidateGone
<1> QED BY <1>1, <1>2, <1>3, <1>4, <1>5 DEF Exit

LEMMA CommandContext ==
  ASSUME CInv, ~broken, FInv', Edit \/ Commit \/ Discard \/ Around
  PROVE  CInv'
<1>1. CASE Break
  BY <1>1, BreakInvariant
<1>2. CASE UNCHANGED held /\ Acquire /\ KeepTrees(DeadThen)
  BY <1>2, LockedInvariant
<1>3. CASE UNCHANGED held /\ KeepContext /\ KeepTrees(dead)
  BY <1>3, LockedInvariant
<1>4. CASE \E r \in Roots : \/ RootEdit(r, RootContainer(r), commands)
                            \/ RootEdit(r, NoRootContainer(r), no_commands)
  BY <1>4, RootEditInvariant
<1>5. CASE Edit
  BY <1>1, <1>2, <1>4, <1>5 DEF Edit, BelowEdit
<1> QED BY <1>1, <1>2, <1>3, <1>5 DEF Commit, Discard, Around

LEMMA MinOfTwo ==
  ASSUME NEW a \in Nat, NEW b \in Nat
  PROVE  Min({a, b}) \in {a, b} /\ Min({a, b}) <= a /\ Min({a, b}) <= b
<1>1. \E x \in {a, b} : \A y \in {a, b} : x <= y
  <2>1. CASE a <= b
    BY <2>1
  <2>2. CASE b <= a
    BY <2>2
  <2> QED BY <2>1, <2>2
<1> QED BY <1>1 DEF Min

(* The commands that leave the session as it is.                           *)
LEMMA PromptContext ==
  ASSUME CInv, ~broken, FInv',
         \/ \E c \in {commands, no_commands} : ShowDatastore(c)
         \/ ListModules \/ LoadModules \/ InstallModule \/ OtherInstalls
  PROVE  CInv'
<1>1. held \in Nat /\ MaxHeld \in Nat /\ held <= MaxHeld
  BY HeldAssumption DEF CInv, ContextType
<1>2. CASE Break
  BY <1>2, BreakInvariant
<1>3. CASE ~Break /\ \E c \in {commands, no_commands} : ShowDatastore(c)
  <2>1. /\ Acquire /\ held' \in {held, Min({held + 1, MaxHeld})}
        /\ dead' = DeadThen /\ read' = read /\ entry' = entry
    BY <1>3 DEF ShowDatastore, AtPrompt, vars
  <2>2. held' \in held..MaxHeld
    <3>1. held + 1 \in Nat
      BY <1>1
    <3>2. /\ Min({held + 1, MaxHeld}) \in {held + 1, MaxHeld}
          /\ Min({held + 1, MaxHeld}) <= MaxHeld
      BY <1>1, <3>1, MinOfTwo
    <3> QED BY <1>1, <2>1, <3>2
  <2>3. \A r \in read' \cup dead' : entry'[r] = "live"
    BY <2>1, DeadLoaded DEF CInv, TreesLive
  <2> QED BY <2>1, <2>2, <2>3, NothingMoreRead DEF SameOrAcquired
<1>4. CASE ListModules
  <2>1. Acquire /\ held' = held /\ dead' = DeadThen /\ read' = read /\ entry' = entry
    BY <1>4 DEF ListModules, AtPrompt, vars
  <2>2. held' \in held..MaxHeld
    BY <1>1, <2>1
  <2>3. \A r \in read' \cup dead' : entry'[r] = "live"
    BY <2>1, DeadLoaded DEF CInv, TreesLive
  <2> QED BY <2>1, <2>2, <2>3, NothingMoreRead DEF SameOrAcquired
<1>5. CASE LoadModules
  <2>1. /\ ~outdated' /\ commands' = "live" /\ dead' = DeadThen
        /\ UNCHANGED <<held, read, broken, entry>>
        /\ no_commands' = IF no_commands = "none" THEN "live" ELSE CommandsThen(no_commands)
        /\ outdated' = FALSE
    BY <1>5 DEF LoadModules, AtPrompt, vars
  <2>2. ContextType' /\ NoLiveAfter'
    BY <2>1 DEF CInv, ContextType, NoLiveAfter, CommandStates, CommandsThen, Replaced
  <2>3. TreesLive'
    BY <2>1, DeadLoaded DEF CInv, TreesLive
  <2>4. SnapshotsHold'
    BY <2>1, HeldContext DEF CInv, SnapshotsHold
  <2> QED BY <2>2, <2>3, <2>4 DEF CInv
<1>6. CASE InstallModule \/ OtherInstalls
  <2>1. held = 0 /\ UNCHANGED <<held, read, broken, entry>> /\ dead' \subseteq dead \cup LiveRoots
    BY <1>6 DEF InstallModule, OtherInstalls, AtPrompt, vars
  <2>2. read = {}
    BY <2>1, HeldContext
  <2>3. ContextType' /\ NoLiveAfter'
    BY <1>6 DEF InstallModule, OtherInstalls, CInv, ContextType, NoLiveAfter,
                CommandStates, Replaced
  <2>4. TreesLive'
    BY <2>1, <2>2, RangeOfRoots DEF CInv, TreesLive, LiveRoots, FInv, TypeOK
  <2> QED BY <2>1, <2>2, <2>3, <2>4 DEF CInv, SnapshotsHold
<1> QED BY <1>2, <1>3, <1>4, <1>5, <1>6

LEMMA EndContext ==
  ASSUME CInv, FInv', End \/ ShutdownBreaks \/ Restart \/ UNCHANGED allVars
  PROVE  CInv'
<1>1. CASE ShutdownBreaks
  BY <1>1, BreakInvariant DEF ShutdownBreaks
<1>2. CASE End \/ Restart
  <2>1. /\ held' = 0 /\ read' = {} /\ dead' = {}
        /\ (outdated \in BOOLEAN /\ broken \in BOOLEAN)'
        /\ (commands \in CommandStates /\ no_commands \in CommandStates)'
        /\ NoLiveAfter'
    BY <1>2 DEF End, Restart, Fresh, KeepContext, CInv, ContextType, NoLiveAfter, CommandStates
  <2> QED BY <2>1, HeldAssumption, FS_EmptySet DEF CInv, ContextType, TreesLive, SnapshotsHold
<1>3. CASE UNCHANGED allVars
  BY <1>3 DEF allVars, vars, context, CInv, ContextType, TreesLive, NoLiveAfter, SnapshotsHold
<1> QED BY <1>1, <1>2, <1>3

-----------------------------------------------------------------------------
(* Both invariants, for every schema, every bound on the locks, with or    *)
(* without other clients and whatever calls of sysrepo fail.               *)
THEOREM ContextInvariant == ContextSpec => []CInv
<1>1. ContextInit => CInv
  <2> SUFFICES ASSUME ContextInit PROVE CInv
    OBVIOUS
  <2>1. FInv
    BY InitInvariant DEF ContextInit, IInv
  <2>2. ContextType
    <3>1. 0 \in 0..MaxHeld
      BY HeldAssumption
    <3>2. IsFiniteSet(read)
      BY FS_EmptySet DEF ContextInit
    <3> QED BY <3>1, <3>2 DEF ContextInit, ContextType, CommandStates
  <2> QED BY <2>1, <2>2 DEF ContextInit, CInv, TreesLive, NoLiveAfter, SnapshotsHold
<1>2. CInv /\ [ContextNext]_allVars => CInv'
  <2> SUFFICES ASSUME CInv, [ContextNext]_allVars PROVE CInv'
    OBVIOUS
  <2>1. FInv'
    BY SessionInvariant DEF CInv
  <2> QED BY <2>1, ExitContext, CommandContext, PromptContext, EndContext DEF ContextNext
<1> QED BY <1>1, <1>2, PTL DEF ContextSpec

(* As long as the candidate has a root that was read from running, the     *)
(* lock is held for it, no module changes, and neither its data nor the    *)
(* commands that add to it point to a freed context.                       *)
THEOREM SnapshotsHoldAlways == ContextSpec => []SnapshotsHold
BY ContextInvariant, PTL DEF CInv

(* The session is what ConfigSessionProofs says also where its schema may  *)
(* be freed under it: mode and stack agree, and a refused discard leaves   *)
(* nothing behind but the freed parent_data.                               *)
THEOREM SessionInContext ==
  ContextSpec => [](TypeOK /\ ModeIsTop /\ PointerExact /\ FailedDiscardContained)
BY ContextInvariant, PTL DEF CInv, FInv
=============================================================================
