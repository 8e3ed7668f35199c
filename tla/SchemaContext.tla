---------------------------- MODULE SchemaContext ----------------------------
(***************************************************************************)
(* A configuration session together with the context its schema nodes live *)
(* in.  Commands and data trees point into sysrepo's context.  When modules*)
(* are installed or removed the next call that takes the context's lock    *)
(* makes a new context and frees the old one; a client that holds the lock *)
(* keeps all others, and itself, from changing modules.                    *)
(*                                                                         *)
(* sysrepo_get_ctx and sysrepo_release_ctx are paired within a callback,   *)
(* but for the release in exit.  Nothing releases what sr_get_subtree      *)
(* takes, but for sysrepo_has_uncommited_changes.                          *)
(***************************************************************************)
EXTENDS ConfigSession, FiniteSets

CONSTANT
  MaxHeld   \* bound: locks held when a command reads a datastore

ASSUME HeldAssumption == MaxHeld \in Nat \ {0}

(* commands and no_commands are "none" until modules were loaded, then     *)
(* they point to "live" or "dead" schema.                                  *)
VARIABLES
  held,         \* how often this process holds the lock between commands
  outdated,     \* modules have changed since its context was made
  commands,     \* where the generated commands point to
  no_commands,  \* where the commands under no and show point to
  dead,         \* the roots whose data points to a freed context
  read,         \* the roots whose data was read from running
  broken        \* freed schema was used

context == <<held, outdated, commands, no_commands, dead, read, broken>>

allVars == <<vars, context>>

-----------------------------------------------------------------------------
(* The lock: sr_acquire_context and sr_get_subtree.                        *)

LiveRoots == {r \in Range(roots) : entry[r] = "live"}

Replaced(c) == IF c = "live" THEN "dead" ELSE c

(* Data and commands once the lock was taken.                              *)
DeadThen == IF outdated THEN LiveRoots ELSE dead

CommandsThen(c) == IF outdated THEN Replaced(c) ELSE c

Acquire ==
  /\ outdated' = FALSE
  /\ commands' = CommandsThen(commands)
  /\ no_commands' = CommandsThen(no_commands)
  /\ UNCHANGED broken

Break ==
  /\ broken' = TRUE
  /\ UNCHANGED <<vars, held, outdated, commands, no_commands, dead, read>>

(* Trees that are freed need no context any more.                          *)
StillThere(R) == {r \in R : entry'[r] = "live"}

KeepContext == UNCHANGED <<outdated, commands, no_commands, broken>>

KeepTrees(R) == dead' = StillThere(R) /\ read' = StillThere(read)

-----------------------------------------------------------------------------
(* The commands that edit: they take the lock first and release it.        *)

(* Seeded bug: the data is released as soon as it is in the candidate.     *)
SubtreeReleased(r) == held' = held /\ read' = StillThere(read \cup {r})

(* get_sysrepo_running_node keeps what it has read, and the lock with it.  *)
SubtreeKept(r) ==
  /\ held < MaxHeld
  /\ held' = held + 1
  /\ read' = StillThere(read \cup {r})

(* The search meets a dead element.                                        *)
SearchesDead(r) ==
  \E i \in DOMAIN roots :
    /\ roots[i] \in DeadThen
    /\ \A j \in 1..(i - 1) : roots[j] # r

RootEdit(r, Command, which) ==
  /\ which # "none"
  /\ IF CommandsThen(which) = "dead" \/ SearchesDead(r)
     THEN Ready /\ RootOffered /\ Break
     ELSE /\ Command
          /\ Acquire
          /\ dead' = StillThere(DeadThen)
          /\ IF session' = "open" /\ (SnapshotRoot(r) \/ FreeSnapshot(r))
             THEN SubtreeKept(r)
             ELSE UNCHANGED held /\ read' = StillThere(read)

(* Edits relative to parent_data.                                          *)
ParentIn(R) == parent_data \in Nodes /\ SubSeq(parent_data, 1, 1) \in R

BelowEdit(Offered, Command, which) ==
  /\ which # "none"
  /\ IF CommandsThen(which) = "dead" \/ ParentIn(DeadThen)
     THEN Ready /\ Offered /\ Break
     ELSE Command /\ Acquire /\ UNCHANGED held /\ KeepTrees(DeadThen)

Edit ==
  \/ \E r \in Roots :
       \/ RootEdit(r, RootContainer(r), commands)
       \/ RootEdit(r, NoRootContainer(r), no_commands)
  \/ \E e \in Names :
       \/ BelowEdit(ListOffered(e), ListEntry(e) \/ ListEntryMisplaced(e), commands)
       \/ BelowEdit(ListOffered(e), NoListEntry(e), no_commands)
  \/ \E v \in Values : BelowEdit(LeafOffered, Leaf(v), commands)

-----------------------------------------------------------------------------
(* The commands about the whole candidate.                                 *)

(* Each root is compared with running: the lock is taken and released.     *)
Commit ==
  /\ session = "open" /\ at_root > 0
  /\ IF roots[at_root] \in DeadThen
     THEN Break
     ELSE CommitRoot /\ Acquire /\ UNCHANGED held /\ KeepTrees(DeadThen)

(* exit in the CONFIG mode releases a lock that it has not taken.          *)
Released == IF held = 0 THEN 0 ELSE held - 1

(* exit in the CONFIG mode: with a candidate, each root is compared with   *)
(* running, as in a commit, and all are freed when none was changed.       *)
Exit ==
  \/ /\ ExitConfig
     /\ KeepContext /\ KeepTrees(dead)
     /\ held' = IF roots = <<>> THEN Released ELSE held
  \/ /\ session = "leaving" /\ at_root > 0
     /\ IF roots[at_root] \in DeadThen THEN Break
        ELSE ExitConfigRoot /\ Acquire /\ UNCHANGED held /\ KeepTrees(DeadThen)
  \/ IF dead # {} THEN session = "leaving" /\ at_root = 0 /\ Break
     ELSE ExitConfigFree /\ KeepContext /\ KeepTrees(dead) /\ held' = Released
  \/ /\ Ready /\ mode # MODE_CONFIG
     /\ IF ParentIn(dead) /\ parent_data \notin Roots THEN Break
        ELSE /\ ExitSubmode \/ ExitSession
             /\ KeepContext /\ KeepTrees(dead)
             /\ UNCHANGED held

(* These free or print every tree and take no lock.                        *)
Discard ==
  IF dead # {} THEN Ready /\ Break
  ELSE /\ CmdDiscardChanges \/ ShowConfigCandidate
       /\ KeepContext /\ KeepTrees(dead) /\ UNCHANGED held

(* The commands that neither take the lock nor look at data.               *)
Around ==
  /\ \/ CmdCommit \/ RootRejected \/ Quit \/ HangUp \/ CtrlZ
     \/ Enable \/ Disable \/ ConfigureTerminal \/ ExternalEdit
  /\ KeepContext /\ KeepTrees(dead) /\ UNCHANGED held

-----------------------------------------------------------------------------
(* The commands that read datastores and modules.                          *)

AtPrompt == Ready /\ UNCHANGED vars

(* `show config-running`, -startup, operational or the difference of the   *)
(* candidate, and the completion of keys.  The last two look at schema     *)
(* after the datastore was read; what was read is never released.          *)
ShowDatastore(c) ==
  /\ AtPrompt /\ privilege = "privileged"
  /\ \/ CommandsThen(c) = "dead" /\ Break
     \/ /\ c = "live"
        /\ Acquire
        /\ held' \in {held, Min({held + 1, MaxHeld})}
        /\ dead' = DeadThen
        /\ UNCHANGED read

InExec == mode = MODE_EXEC /\ privilege = "privileged"

(* `sysrepo list-modules` *)
ListModules ==
  /\ AtPrompt /\ InExec
  /\ Acquire
  /\ dead' = DeadThen
  /\ UNCHANGED <<held, read>>

(* `sysrepo load-modules`.  What an earlier one has registered under no    *)
(* and show is still there and found first.                                *)
LoadModules ==
  /\ AtPrompt /\ InExec
  /\ outdated' = FALSE
  /\ commands' = "live"
  /\ no_commands' = IF no_commands = "none" THEN "live" ELSE CommandsThen(no_commands)
  /\ dead' = DeadThen
  /\ UNCHANGED <<held, read, broken>>

(* `sysrepo install-module` and remove-module: sysrepo refuses while the   *)
(* lock is held, by this process too.  The context is replaced at once or  *)
(* when the lock is next taken.                                            *)
InstallModule ==
  /\ AtPrompt /\ InExec
  /\ held = 0
  /\ \/ outdated' = TRUE /\ UNCHANGED <<commands, no_commands, dead>>
     \/ /\ outdated' = FALSE
        /\ commands' = Replaced(commands)
        /\ no_commands' = Replaced(no_commands)
        /\ dead' = LiveRoots
  /\ UNCHANGED <<held, read, broken>>

(* Another client changes modules, between two roots of a commit or exit   *)
(* as well.                                                                *)
OtherInstalls ==
  /\ ExternalClients /\ Alive
  /\ held = 0
  /\ outdated' = TRUE
  /\ UNCHANGED <<vars, held, commands, no_commands, dead, read, broken>>

-----------------------------------------------------------------------------
(* sysrepo releases the locks of a process that has ended.                 *)
End ==
  /\ \/ Terminate
     \/ dead = {} /\ Shutdown
  /\ held' = 0 /\ dead' = {} /\ read' = {}
  /\ UNCHANGED <<outdated, commands, no_commands, broken>>

ShutdownBreaks == session = "closing" /\ dead # {} /\ Break

Fresh ==
  /\ held' = 0 /\ outdated' = FALSE
  /\ commands' = "none" /\ no_commands' = "none"
  /\ dead' = {} /\ read' = {}
  /\ broken' = FALSE

(* A process that has used freed schema ends in some way.                  *)
Restart ==
  \/ Start /\ Fresh
  \/ /\ broken
     /\ session' = "open" /\ at_root' = 0
     /\ mode' = MODE_EXEC /\ stack' = <<>> /\ privilege' = "unprivileged"
     /\ roots' = <<>> /\ entry' = [r \in Roots |-> "null"]
     /\ cand' = NoData /\ parent_data' = NULL
     /\ UNCHANGED running
     /\ Fresh

ContextInit ==
  /\ Init
  /\ held = 0 /\ outdated = FALSE
  /\ commands = "none" /\ no_commands = "none"
  /\ dead = {} /\ read = {}
  /\ broken = FALSE

ContextNext ==
  \/ /\ ~broken
     /\ \/ Edit \/ Commit \/ Exit \/ Discard \/ Around
        \/ \E c \in {commands, no_commands} : ShowDatastore(c)
        \/ ListModules \/ LoadModules
        \/ InstallModule \/ OtherInstalls
        \/ End \/ ShutdownBreaks
  \/ Restart

ContextSpec == ContextInit /\ [][ContextNext]_allVars

-----------------------------------------------------------------------------
(* Correctness.                                                            *)

(* Nobody releases the data of get_sysrepo_running_node, and exit releases *)
(* a lock it does not have; between them they keep the context of the data *)
(* they belong to: as long as the candidate has a root that was read from  *)
(* running no module is changed by anybody, and neither that data nor the  *)
(* commands that add to it point to a freed context.                       *)
SnapshotsHold ==
  ~broken /\ read # {} =>
    /\ Cardinality(read) <= held
    /\ ~outdated
    /\ read \cap dead = {}
    /\ commands = "live"
=============================================================================
