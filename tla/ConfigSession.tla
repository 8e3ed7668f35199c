---------------------------- MODULE ConfigSession ----------------------------
(***************************************************************************)
(* One onmcli session editing the sysrepo configuration.                   *)
(*                                                                         *)
(* Three pieces of state have to agree and are kept by different files:    *)
(*   - libcli's mode, its stack of configuration modes and the privilege   *)
(*     (lib/libcli/libcli.c);                                              *)
(*   - the candidate: the list config_root_tree of root subtrees and the   *)
(*     pointer parent_data into them (data_factory.c, default_cmd.c);      *)
(*   - the running datastore, which other sysrepo clients edit too.        *)
(*                                                                         *)
(* A data node that opens a mode (a root container, a list entry) is named *)
(* by its path: a sequence of names from the root down.  Its leaves are    *)
(* abstracted to one value.  A pointer is a path, NULL, or Freed when the  *)
(* memory it points to was released.  Using NULL or Freed where the code   *)
(* dereferences it is undefined behaviour: the session is then "faulted"   *)
(* and takes no further step.                                              *)
(***************************************************************************)
EXTENDS Integers, SequencesExt

CONSTANTS
  Names,            \* the names a path is made of
  Nodes,            \* the data nodes that may exist, as paths
  KeyOnly,          \* the entries of lists that have keys and nothing else
  ModeOf,           \* the mode number of a node: a hash of its schema path
  Values,           \* what the leaves of a node may hold
  Blank,            \* the value of a node just created: no leaf set
  Absent,           \* the node does not exist
  NULL, Freed,      \* pointers to no node, and to a node released since
  SysrepoFaults,    \* the sysrepo calls that may fail: "read", "discard"
  ExternalClients   \* TRUE when other clients may write to running

MODE_EXEC == 0
MODE_CONFIG == 1

Roots == {n \in Nodes : Len(n) = 1}

Modes == {ModeOf[n] : n \in Nodes}

(* Paths are closed under their ancestors; below a key-only entry is       *)
(* nothing to configure.                                                   *)
ASSUME NodesAssumption ==
  /\ Nodes \subseteq Seq(Names) \ {<<>>}
  /\ KeyOnly \subseteq Nodes \ Roots
  /\ \A n \in Nodes : \A i \in 1..Len(n) : SubSeq(n, 1, i) \in Nodes
  /\ \A n \in Nodes : Len(n) > 1 => Front(n) \notin KeyOnly

(* The mode is a 32-bit hash of the schema path.  Entries of one list      *)
(* share it and offer the same commands; a collision between two schema    *)
(* nodes, or with one of the fixed modes, is left out.                     *)
ASSUME ModeAssumption ==
  /\ ModeOf \in [Nodes -> Int \ {MODE_EXEC, MODE_CONFIG}]
  /\ \A m, n \in Nodes : ModeOf[m] = ModeOf[n] =>
       \A e \in Names : Append(m, e) \in Nodes <=> Append(n, e) \in Nodes

ASSUME ValueAssumption ==
  /\ Blank \in Values
  /\ Absent \notin Values
  /\ NULL \notin Nodes /\ Freed \notin Nodes /\ NULL # Freed
  /\ SysrepoFaults \subseteq {"read", "discard"}
  /\ ExternalClients \in BOOLEAN

VARIABLES
  mode,          \* cli->mode
  stack,         \* cli->term_mode_stack, the innermost mode last
  privilege,     \* cli->privilege
  roots,         \* config_root_tree: the loaded roots, the newest first
  entry,         \* what the node field of a root's list element points to
  cand,          \* the data of the live elements
  parent_data,   \* the node that commands of the current mode edit
  running,       \* sysrepo's running datastore
  at_root,       \* the element that commit or exit is at, 0 for none
  session        \* life of the process

cliVars  == <<mode, stack, privilege>>
dataVars == <<roots, entry, cand, parent_data>>
vars     == <<mode, stack, privilege, roots, entry, cand, parent_data,
              running, at_root, session>>

-----------------------------------------------------------------------------
(* Data trees.                                                             *)

NoData == [n \in Nodes |-> Absent]

(* to, with everything below root r taken from the tree from.              *)
Graft(to, from, r) ==
  [n \in Nodes |-> IF IsPrefix(r, n) THEN from[n] ELSE to[n]]

(* lyd_free_tree: node m and everything below it are gone.                 *)
Prune(f, m) == [n \in Nodes |-> IF IsPrefix(m, n) THEN Absent ELSE f[n]]

(* lyd_new_path with LYD_NEW_PATH_UPDATE: create m unless it exists.       *)
Touch(f, m) == IF f[m] = Absent THEN [f EXCEPT ![m] = Blank] ELSE f

IsTree(f) ==
  /\ f \in [Nodes -> Values \cup {Absent}]
  /\ \A n \in Nodes : Len(n) > 1 /\ f[n] # Absent => f[Front(n)] # Absent
  /\ \A n \in KeyOnly : f[n] \in {Blank, Absent}

Loaded(r) == r \in Range(roots)

(* sysrepo_has_uncommited_changes: a live root differs from running; a     *)
(* NULL node, and any error of sr_get_subtree but "not found", count as no *)
(* change.                                                                 *)
Dirty(r) ==
  /\ Loaded(r)
  /\ entry[r] = "live"
  /\ \E n \in Nodes : IsPrefix(r, n) /\ cand[n] # running[n]

SeemsClean(r) ==
  \/ entry[r] = "null"
  \/ entry[r] = "live" /\ (~Dirty(r) \/ "read" \in SysrepoFaults)

SomeFreed == \E r \in Range(roots) : entry[r] = "freed"

-----------------------------------------------------------------------------
(* libcli: modes.                                                          *)

InSubmode == mode \notin {MODE_EXEC, MODE_CONFIG}

StackAfterSet(s, m) == IF m \in {MODE_EXEC, MODE_CONFIG} THEN <<>> ELSE s

SetConfigmode(s, m) == mode' = m /\ stack' = StackAfterSet(s, m)

PushConfigmode(s, m) ==
  mode' = m /\ stack' = Append(StackAfterSet(s, m), m)

(* cli_exit outside the EXEC mode.                                         *)
CliExit ==
  IF Len(stack) >= 2
  THEN SetConfigmode(Front(stack), Last(Front(stack)))
  ELSE SetConfigmode(<<>>, IF mode = MODE_CONFIG THEN MODE_EXEC ELSE MODE_CONFIG)

(* The session reads its next command.  It is "leaving" while exit walks   *)
(* over the candidate and frees it.                                        *)
Ready == session = "open" /\ at_root = 0

(* A root container's command is registered for MODE_CONFIG; the lookup    *)
(* takes it in a submode too, by leaving the submode first, when the mode  *)
(* number is greater than MODE_CONFIG as a signed int.                     *)
RootOffered == privilege = "privileged" /\ mode >= MODE_CONFIG

StackAfterLookup == IF mode = MODE_CONFIG THEN stack ELSE <<>>

(* Command e of a list is offered in the mode of the node above the list.  *)
ListOffered(e) ==
  /\ privilege = "privileged"
  /\ \E n \in Nodes : Len(n) > 1 /\ Last(n) = e /\ ModeOf[Front(n)] = mode

LeafOffered ==
  privilege = "privileged" /\ \E n \in Nodes \ KeyOnly : ModeOf[n] = mode

Fault ==
  /\ session' = "faulted"
  /\ UNCHANGED <<mode, stack, privilege, roots, entry, cand, parent_data,
                 running, at_root>>

-----------------------------------------------------------------------------
(* Root containers: the LYS_CONTAINER case of edit_node_data_tree.         *)

(* Seeded bug: the search passes over elements without a node.             *)
SearchSkipsNull(r) ==
  \E i \in DOMAIN roots :
    /\ entry[roots[i]] = "freed"
    /\ \A j \in 1..(i - 1) : roots[j] # r

(* The search reads node->schema of each element up to the one it wants.   *)
SearchFaults(r) ==
  \E i \in DOMAIN roots :
    /\ entry[roots[i]] # "live"
    /\ \A j \in 1..(i - 1) : roots[j] # r

(* Seeded bug: the root is created without looking for it in running.      *)
NothingReadUnchecked(r) == TRUE

(* The running data of r was not found, or could not be read.              *)
NothingRead(r) == running[r] = Absent \/ "read" \in SysrepoFaults

(* With an empty list parent_data is not reset before it is used.          *)
StaleParent(r) == roots = <<>> /\ NothingRead(r) /\ parent_data # NULL

(* Seeded bug: an element is added without a search for the root.          *)
NewElementUnsearched(r, e) ==
  /\ roots' = <<r>> \o roots
  /\ entry' = [entry EXCEPT ![r] = e]

NewElement(r, e) ==
  /\ ~Loaded(r)
  /\ roots' = <<r>> \o roots
  /\ entry' = [entry EXCEPT ![r] = e]

(* The list has the root already: whatever the edit, nothing but           *)
(* parent_data changes.                                                    *)
FoundRoot(r) ==
  /\ Loaded(r)
  /\ parent_data' = r
  /\ UNCHANGED <<roots, entry, cand>>

(* The root's running data becomes its candidate.  A deletion ends here    *)
(* too when the list was empty.                                            *)
SnapshotRoot(r) ==
  /\ running[r] # Absent
  /\ NewElement(r, "live")
  /\ cand' = Graft(cand, running, r)
  /\ parent_data' = r

(* A deletion frees the snapshot it just took, and keeps pointing to it.   *)
FreeSnapshot(r) ==
  /\ running[r] # Absent
  /\ roots # <<>>
  /\ NewElement(r, "freed")
  /\ parent_data' = Freed
  /\ UNCHANGED cand

(* There was nothing in running: the root is created empty ...             *)
CreateRoot(r) ==
  /\ NothingRead(r) /\ ~StaleParent(r)
  /\ NewElement(r, "live")
  /\ cand' = [cand EXCEPT ![r] = Blank]
  /\ parent_data' = r

(* ... and a deletion frees it, which leaves an element without a node.    *)
CreateAndFreeRoot(r) ==
  /\ NothingRead(r) /\ ~StaleParent(r)
  /\ NewElement(r, "null")
  /\ parent_data' = NULL
  /\ UNCHANGED cand

AddRoot(r) == FoundRoot(r) \/ SnapshotRoot(r) \/ CreateRoot(r)

DeleteRoot(r) ==
  \/ FoundRoot(r)
  \/ roots = <<>> /\ SnapshotRoot(r)
  \/ FreeSnapshot(r)
  \/ CreateAndFreeRoot(r)

(* The lookup has left the submode by the time the edit goes wrong.        *)
RootFaults(r) ==
  /\ SearchFaults(r) \/ (StaleParent(r) /\ ~Loaded(r))
  /\ session' = "faulted"
  /\ SetConfigmode(StackAfterLookup, MODE_CONFIG)
  /\ UNCHANGED <<dataVars>>

(* `<root>` *)
RootContainer(r) ==
  /\ Ready /\ RootOffered
  /\ UNCHANGED <<privilege, running, at_root>>
  /\ \/ RootFaults(r)
     \/ /\ ~SearchFaults(r)
        /\ AddRoot(r)
        /\ PushConfigmode(StackAfterLookup, ModeOf[r])
        /\ UNCHANGED session

(* `no <root>` *)
NoRootContainer(r) ==
  /\ Ready /\ RootOffered
  /\ UNCHANGED <<privilege, running, at_root>>
  /\ \/ RootFaults(r)
     \/ /\ ~SearchFaults(r)
        /\ DeleteRoot(r)
        /\ SetConfigmode(StackAfterLookup, MODE_CONFIG)
        /\ UNCHANGED session

(* The command of a root, or its `no`, with an argument it does not take:  *)
(* nothing is edited, but the lookup has left the submode.                 *)
RootRejected ==
  /\ Ready /\ RootOffered
  /\ SetConfigmode(StackAfterLookup, MODE_CONFIG)
  /\ UNCHANGED <<privilege, dataVars, running, at_root, session>>

-----------------------------------------------------------------------------
(* Commands of a submode.                                                  *)

(* The edit is relative to parent_data, whichever node that is.            *)
Resolves(e) == parent_data \in Nodes /\ Append(parent_data, e) \in Nodes

(* `<list> <keys>`: create the entry unless it exists and go down to it.   *)
ListEntry(e) ==
  /\ Ready /\ ListOffered(e)
  /\ \/ ~Resolves(e) /\ Fault
     \/ /\ Resolves(e)
        /\ LET n == Append(parent_data, e) IN
             /\ cand' = Touch(cand, n)
             /\ IF n \in KeyOnly
                THEN UNCHANGED <<mode, stack, parent_data>>
                ELSE parent_data' = n /\ PushConfigmode(stack, ModeOf[n])
        /\ UNCHANGED <<privilege, roots, entry, running, at_root, session>>

(* `<list> <keys> index <i>` with a position lyd_insert_before refuses:    *)
(* the entry is freed, also when it existed before.                        *)
ListEntryMisplaced(e) ==
  /\ Ready /\ ListOffered(e) /\ Resolves(e)
  /\ cand' = Prune(cand, Append(parent_data, e))
  /\ UNCHANGED <<cliVars, roots, entry, parent_data, running, at_root, session>>

(* Seeded bug: the deletion takes the partial match of the path.           *)
NoListEntryPartial(e) ==
  /\ Ready /\ ListOffered(e) /\ Resolves(e)
  /\ cand' = Prune(cand, parent_data)
  /\ UNCHANGED <<cliVars, roots, entry, parent_data, running, at_root, session>>

(* `no <list> <keys>` *)
NoListEntry(e) ==
  /\ Ready /\ ListOffered(e)
  /\ \/ ~Resolves(e) /\ Fault
     \/ /\ Resolves(e)
        /\ cand' = Prune(cand, Append(parent_data, e))
        /\ UNCHANGED <<cliVars, roots, entry, parent_data, running,
                       at_root, session>>

(* `<leaf> <value>` and, with Blank, `no <leaf>`.                          *)
Leaf(v) ==
  /\ Ready /\ LeafOffered
  /\ \/ parent_data \notin Nodes /\ Fault
     \/ /\ parent_data \in Nodes
        /\ cand' = [cand EXCEPT ![parent_data] = v]
        /\ UNCHANGED <<cliVars, roots, entry, parent_data, running,
                       at_root, session>>

-----------------------------------------------------------------------------
(* commit, discard-changes, exit and the commands that only change modes.  *)

(* Seeded bug: config_root_tree still points to the freed list.            *)
FreeDataTreeDangling ==
  /\ entry' = [r \in Roots |-> IF entry[r] = "null" THEN "null" ELSE "freed"]
  /\ cand' = NoData
  /\ parent_data' = IF parent_data = NULL THEN NULL ELSE Freed
  /\ UNCHANGED roots

(* free_data_tree_all: parent_data is left as it was.                      *)
FreeDataTreeAll ==
  /\ roots' = <<>>
  /\ entry' = [r \in Roots |-> "null"]
  /\ cand' = NoData
  /\ parent_data' = IF parent_data = NULL THEN NULL ELSE Freed

(* `commit` walks the list, one sysrepo transaction for each changed root. *)
CmdCommit ==
  /\ Ready
  /\ roots # <<>>
  /\ at_root' = 1
  /\ UNCHANGED <<cliVars, dataVars, running, session>>

(* Seeded bug: the walk stops at the last element but one.                 *)
NextElementButLast ==
  IF at_root + 1 >= Len(roots) THEN 0 ELSE at_root + 1

NextElement == IF at_root = Len(roots) THEN 0 ELSE at_root + 1

(* Seeded bug: the walk does not go on from a root without changes.        *)
SkipRootStays(r) == SeemsClean(r) /\ UNCHANGED <<at_root, running>>

SkipRoot(r) ==
  /\ SeemsClean(r)
  /\ at_root' = NextElement
  /\ UNCHANGED running

ApplyRoot(r) ==
  /\ Dirty(r)
  /\ running' = Graft(running, cand, r)
  /\ at_root' = NextElement

(* sr_edit_batch or sr_apply_changes failed: the walk ends here.           *)
RefuseRoot(r) ==
  /\ Dirty(r)
  /\ at_root' = 0
  /\ UNCHANGED running

CommitRoot ==
  /\ session = "open" /\ at_root > 0
  /\ LET r == roots[at_root] IN
       \/ entry[r] = "freed" /\ Fault
       \/ /\ SkipRoot(r) \/ ApplyRoot(r) \/ RefuseRoot(r)
          /\ UNCHANGED <<cliVars, dataVars, session>>

(* Seeded bug: discard-changes leaves the session in its submode.          *)
DiscardKeepsMode ==
  /\ Ready
  /\ roots # <<>> /\ ~SomeFreed
  /\ FreeDataTreeAll
  /\ UNCHANGED <<cliVars, running, at_root, session>>

(* `discard-changes`: back to the CONFIG mode, from EXEC too.              *)
CmdDiscardChanges ==
  /\ Ready
  /\ roots # <<>>
  /\ \/ SomeFreed /\ Fault
     \/ /\ ~SomeFreed
        /\ FreeDataTreeAll
        /\ \/ SetConfigmode(stack, MODE_CONFIG)
           \/ "discard" \in SysrepoFaults /\ UNCHANGED <<mode, stack>>
        /\ UNCHANGED <<privilege, running, at_root, session>>

(* `exit` in the CONFIG mode.  With a candidate it compares one root after *)
(* the other with running before it frees them.                            *)
ExitConfig ==
  /\ Ready /\ mode = MODE_CONFIG
  /\ \/ /\ roots = <<>>
        /\ CliExit
        /\ UNCHANGED <<at_root, session>>
     \/ /\ roots # <<>>
        /\ session' = "leaving" /\ at_root' = 1
        /\ UNCHANGED <<mode, stack>>
  /\ UNCHANGED <<privilege, dataVars, running>>

(* Seeded bug: exit goes on from a changed root.                           *)
ExitConfigRootPasses ==
  /\ session = "leaving" /\ at_root > 0
  /\ entry[roots[at_root]] # "freed"
  /\ at_root' = NextElement
  /\ UNCHANGED <<cliVars, dataVars, running, session>>

(* The exit is refused at the first changed root.                          *)
ExitConfigRoot ==
  /\ session = "leaving" /\ at_root > 0
  /\ LET r == roots[at_root] IN
       \/ entry[r] = "freed" /\ Fault
       \/ /\ \/ SkipRoot(r) /\ UNCHANGED session
             \/ RefuseRoot(r) /\ session' = "open"
          /\ UNCHANGED <<cliVars, dataVars>>

(* No root was changed when exit looked at it.                             *)
ExitConfigFree ==
  /\ session = "leaving" /\ at_root = 0
  /\ FreeDataTreeAll
  /\ CliExit
  /\ session' = "open"
  /\ UNCHANGED <<privilege, running, at_root>>

(* Seeded bugs: exit does not move parent_data; it moves it to the root.   *)
AboveStays(n) == n
AboveSkipsLists(n) ==
  IF n = NULL \/ n \in Roots THEN NULL ELSE SubSeq(n, 1, 1)

(* The nearest list entry or root above a node.                            *)
Above(n) == IF n = NULL \/ n \in Roots THEN NULL ELSE Front(n)

(* cli_quit; the loop of the session ends.                                 *)
CliQuit ==
  /\ session' = "closing"
  /\ privilege' = "unprivileged"
  /\ SetConfigmode(stack, MODE_EXEC)

(* `exit` in a submode. *)
ExitSubmode ==
  /\ Ready /\ InSubmode
  /\ \/ parent_data = Freed /\ Fault
     \/ /\ parent_data # Freed
        /\ parent_data' = Above(parent_data)
        /\ CliExit
        /\ UNCHANGED <<privilege, roots, entry, cand, running, at_root, session>>

(* `exit` in the EXEC mode. *)
ExitSession ==
  /\ Ready /\ mode = MODE_EXEC
  /\ \/ parent_data = Freed /\ Fault
     \/ /\ parent_data # Freed
        /\ parent_data' = Above(parent_data)
        /\ CliQuit
        /\ UNCHANGED <<roots, entry, cand, running, at_root>>

(* `quit` in any mode. *)
Quit ==
  /\ Ready
  /\ CliQuit
  /\ UNCHANGED <<dataVars, running, at_root>>

(* End of input, ^D on an empty line, or 15 minutes without a key.         *)
HangUp ==
  /\ Ready
  /\ session' = "closing"
  /\ UNCHANGED <<cliVars, dataVars, running, at_root>>

(* ^Z leaves every configuration mode at once; parent_data stays.          *)
CtrlZ ==
  /\ Ready /\ mode # MODE_EXEC
  /\ SetConfigmode(stack, MODE_EXEC)
  /\ UNCHANGED <<privilege, dataVars, running, at_root, session>>

Enable ==
  /\ Ready /\ mode = MODE_EXEC /\ privilege = "unprivileged"
  /\ privilege' = "privileged"
  /\ SetConfigmode(stack, MODE_EXEC)
  /\ UNCHANGED <<dataVars, running, at_root, session>>

Disable ==
  /\ Ready /\ mode = MODE_EXEC /\ privilege = "privileged"
  /\ privilege' = "unprivileged"
  /\ SetConfigmode(stack, MODE_EXEC)
  /\ UNCHANGED <<dataVars, running, at_root, session>>

ConfigureTerminal ==
  /\ Ready /\ mode = MODE_EXEC /\ privilege = "privileged"
  /\ SetConfigmode(stack, MODE_CONFIG)
  /\ UNCHANGED <<privilege, dataVars, running, at_root, session>>

(* `show config-candidate` prints every element, freed ones too.           *)
ShowConfigCandidate == Ready /\ SomeFreed /\ Fault

-----------------------------------------------------------------------------
(* The process and its surroundings.                                       *)

(* main() after the loop: the candidate is freed.                          *)
Shutdown ==
  /\ session = "closing"
  /\ \/ SomeFreed /\ Fault
     \/ /\ ~SomeFreed
        /\ FreeDataTreeAll
        /\ session' = "closed"
        /\ UNCHANGED <<cliVars, running, at_root>>

(* SIGINT or SIGTERM, at any point of a commit too: disconnect and exit.   *)
Terminate ==
  /\ session \in {"open", "leaving", "closing"}
  /\ session' = "closed"
  /\ UNCHANGED <<cliVars, dataVars, running, at_root>>

(* onmcli is started again: only running has survived.                     *)
Start ==
  /\ session \in {"closed", "faulted"}
  /\ session' = "open" /\ at_root' = 0
  /\ mode' = MODE_EXEC /\ stack' = <<>> /\ privilege' = "unprivileged"
  /\ roots' = <<>> /\ entry' = [r \in Roots |-> "null"]
  /\ cand' = NoData /\ parent_data' = NULL
  /\ UNCHANGED running

(* Another sysrepo client writes to running.                               *)
ExternalEdit ==
  /\ ExternalClients
  /\ \/ \E n \in {m \in Nodes : m \in Roots \/ running[Front(m)] # Absent} :
          \E v \in IF n \in KeyOnly THEN {Blank} ELSE Values :
            running' = [running EXCEPT ![n] = v]
     \/ \E n \in Nodes : running' = Prune(running, n)
  /\ UNCHANGED <<cliVars, dataVars, at_root, session>>

Init ==
  /\ mode = MODE_EXEC /\ stack = <<>> /\ privilege = "unprivileged"
  /\ roots = <<>> /\ entry = [r \in Roots |-> "null"]
  /\ cand = NoData /\ parent_data = NULL
  /\ running \in {f \in [Nodes -> Values \cup {Absent}] : IsTree(f)}
  /\ at_root = 0 /\ session = "open"

Next ==
  \/ \E r \in Roots : RootContainer(r) \/ NoRootContainer(r)
  \/ \E e \in Names : ListEntry(e) \/ ListEntryMisplaced(e) \/ NoListEntry(e)
  \/ \E v \in Values : Leaf(v)
  \/ CmdCommit \/ CommitRoot \/ CmdDiscardChanges
  \/ ExitConfig \/ ExitConfigRoot \/ ExitConfigFree
  \/ ExitSubmode \/ ExitSession
  \/ RootRejected \/ Quit \/ HangUp \/ CtrlZ
  \/ Enable \/ Disable \/ ConfigureTerminal
  \/ ShowConfigCandidate
  \/ Shutdown \/ Terminate \/ Start
  \/ ExternalEdit

Spec == Init /\ [][Next]_vars

(* The user owes the session nothing, but a command that was started runs  *)
(* on, and main() frees the candidate once the loop has ended.             *)
FairSpec ==
  /\ Spec
  /\ WF_vars(CommitRoot) /\ WF_vars(Shutdown)
  /\ WF_vars(ExitConfigRoot) /\ WF_vars(ExitConfigFree)

-----------------------------------------------------------------------------
(* Properties.                                                             *)

(* Every variable has its type; the list holds each root once, only listed *)
(* roots have data, and commit and exit are at an element of the list.     *)
TypeOK ==
  /\ mode \in {MODE_EXEC, MODE_CONFIG} \cup Modes
  /\ stack \in Seq(Modes)
  /\ privilege \in {"unprivileged", "privileged"}
  /\ roots \in Seq(Roots) /\ IsInjective(roots)
  /\ entry \in [Roots -> {"null", "live", "freed"}]
  /\ IsTree(cand) /\ IsTree(running)
  /\ \A r \in Roots : cand[r] # Absent <=> entry[r] = "live"
  /\ \A r \in Roots : entry[r] # "null" => Loaded(r)
  /\ parent_data \in (Nodes \ KeyOnly) \cup {NULL, Freed}
  /\ at_root \in 0..Len(roots)
  /\ session \in {"open", "leaving", "closing", "closed", "faulted"}

Alive == session \in {"open", "leaving", "closing"}

(* The modes on the way from the root down to node n.                      *)
ModePath(n) == [i \in 1..Len(n) |-> ModeOf[SubSeq(n, 1, i)]]

(* In a submode, parent_data is a live candidate node, and the modes on    *)
(* libcli's stack are the modes of the nodes from the root down to it: the *)
(* prompt names the node that the commands edit, whatever mixture of exit, *)
(* ^Z, root commands and list commands led there.                          *)
SubmodeSync ==
  Alive /\ InSubmode =>
    /\ parent_data \in Nodes
    /\ cand[parent_data] # Absent
    /\ stack = ModePath(parent_data)
    /\ mode = ModeOf[parent_data]

(* The fixed modes have an empty stack; any other mode is its top.         *)
ModeIsTop ==
  IF InSubmode THEN stack # <<>> /\ Last(stack) = mode ELSE stack = <<>>

(* In a submode no list element is without a node or points to a freed     *)
(* one, so that commit, show and the search of a root are safe there.      *)
SubmodeTreesLive ==
  Alive /\ InSubmode => \A r \in Range(roots) : entry[r] = "live"

(* parent_data dangles only when whole trees were freed (free_data_tree_all *)
(* or the deletion of a root): no deletion below a root, by command or by  *)
(* a misplaced index, ever frees the node parent_data points to or one     *)
(* above it, in any mode.                                                  *)
PointerExact ==
  parent_data \in Nodes => cand[parent_data] # Absent

(* When sysrepo refuses to discard, the candidate is freed but the submode *)
(* stays: then no list element is left, so that a commit or show that      *)
(* follows meets no freed memory; every other submode is as in SubmodeSync.*)
FailedDiscardContained ==
  Alive /\ InSubmode =>
    \/ parent_data = Freed /\ roots = <<>> /\ at_root = 0
    \/ /\ parent_data \in Nodes /\ cand[parent_data] # Absent
       /\ stack = ModePath(parent_data)

(* A stale pointer is only ever used in the EXEC and the CONFIG mode: a    *)
(* command given in a submode does not meet one.                           *)
FaultOnlyAtTop == session = "faulted" => ~InSubmode

(* Commit or exit goes over the candidate.                                 *)
Walking == session = "leaving" \/ (session = "open" /\ at_root > 0)

(* A commit that was started comes to its end, and so does an exit.        *)
WalksEnd == Walking ~> ~Walking

(* The place of the user, as Navigation.tla promises it: exit goes up by   *)
(* exactly one node, a list command down by one.                           *)
Nav == INSTANCE Navigation WITH
  area <- IF mode = MODE_EXEC \/ ~Alive THEN "exec" ELSE "config",
  path <- IF Alive /\ InSubmode THEN parent_data ELSE <<>>

NavigationSpec == Nav!Spec

(* What the texts of the repository say, and the code does not do.         *)

(* "we need to shift the parent_data backward with each exit call"         *)
(* (default_cmd.c:79) and "exit to prev mode" (default_cmd.c:167): an exit *)
(* command of a submode or of EXEC goes back, it finds parent_data alive.  *)
ExitReturns ==
  [][ExitSubmode \/ ExitSession => session' # "faulted"]_vars
=============================================================================
