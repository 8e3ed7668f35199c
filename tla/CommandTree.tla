----------------------------- MODULE CommandTree -----------------------------
(***************************************************************************)
(* The tree of commands of onmcli, and the commands that load-modules      *)
(* generates in it from the YANG modules of sysrepo.                       *)
(*                                                                         *)
(* A schema node is a path of names that begins with its module.  A        *)
(* command is a path of numbers: the order in which it and the commands    *)
(* above it were registered, which is their order in the chains of libcli, *)
(* since a command is always appended.  <<>> stands for no command: NULL   *)
(* as a parent is the top level.                                           *)
(*                                                                         *)
(* What a command does, its help and its arguments are left out, and the   *)
(* mode number of a schema node is the node itself (no two hashes are      *)
(* equal).                                                                 *)
(***************************************************************************)
EXTENDS Integers, FiniteSets, SequencesExt

CONSTANTS
  Modules,          \* the implemented YANG modules there may be
  Data,             \* the data nodes of a module in document order
  Kind,             \* the nodetype of a schema node
  ReadOnly,         \* the schema nodes with LYS_CONFIG_R
  UserOrdered,      \* the lists and leaf-lists ordered by the user
  Org,              \* the first token of a module's name
  LibNames,         \* the names of root nodes that contain "lib"
  NoHash,           \* the hash of a command without one: NULL
  NULL, Freed,      \* pointers to no command or node, and to a released one
  MaxLoads          \* bound: how often load-modules is run

Nodes == UNION {Range(Data[m]) : m \in Modules}

Parent(n) == Front(n)
IsTop(n) == Len(n) = 2
Depths(n) == 2..Len(n)
Upto(n, i) == SubSeq(n, 1, i)

(* Schemas: preorders of trees, in which cases are between a choice and    *)
(* what it chooses from; what is below a read-only node is read-only.      *)
ASSUME SchemaAssumption ==
  /\ IsFiniteSet(Modules)
  /\ \A m \in Modules : Data[m] \in Seq(Nodes)
  /\ \A m \in Modules : \A n \in Range(Data[m]) :
       /\ n \in Seq(STRING)
       /\ Len(n) >= 2
       /\ Head(n) = m
       /\ \A i \in Depths(n) : Upto(n, i) \in Range(Data[m])
  /\ Kind \in [Nodes -> {"container", "list", "leaf", "leaflist", "choice",
                         "case", "other"}]
  /\ \A n \in Nodes : Kind[n] = "case" => ~IsTop(n) /\ Kind[Parent(n)] = "choice"
  /\ ReadOnly \subseteq Nodes
  /\ UserOrdered \subseteq {n \in Nodes : Kind[n] \in {"list", "leaflist"}}
  /\ NoHash \notin Modules /\ "diff" \notin Modules
  /\ NULL # Freed /\ {NULL, Freed} \cap (Nodes \cup Seq(Nat)) = {}
  /\ MaxLoads \in Nat

(* libyang's order: a module's nodes differ and each comes behind its       *)
(* parent.  A case is read-only only if its choice is: YANG gives a case   *)
(* no config statement of its own.                                         *)
ASSUME OrderAssumption ==
  /\ \A m \in Modules :
       /\ IsInjective(Data[m])
       /\ \A i \in DOMAIN Data[m] :
            IsTop(Data[m][i]) \/ \E j \in 1..(i - 1) : Data[m][j] = Parent(Data[m][i])
  /\ \A n \in ReadOnly : Kind[n] = "case" => Parent(n) \in ReadOnly

(* A tree of commands, and the number of the next one.                     *)
VARIABLES
  tree,          \* cli->commands: cmds maps each command to its contents
  print_order,   \* current_print_order_c (cmd_list.c)
  frame,         \* the choices and cases whose loop runs or ran to its end:
                 \* their two commands and their mode, locals of
                 \* register_cmd_choice_core
  installed,     \* the modules of sysrepo's context, in its order
  queue,         \* the modules load-modules has still to do
  phase,         \* what mod2cmd_generate does to the first of them
  at,            \* the node of it that the walk over the schema is at
  loaded,        \* history: the modules load-modules has generated since the
                 \* context was made
  loads          \* history: the number of runs of load-modules

vars == <<tree, print_order, frame, installed, queue, phase, at, loaded, loads>>

-----------------------------------------------------------------------------
(* Commands.                                                               *)

Top == <<>>       \* parent NULL: the chain cli->commands

CONFIG_MODE == <<"config">>
MODE_ANY == <<"any">>

(* The commands that cli_ctx_data points to.                               *)
Show == <<1>>
ConfigCandidate == <<1, 2>>
ConfigRunning == <<1, 3>>
ConfigStartup == <<1, 4>>
OperationalData == <<1, 5>>
No == <<6>>

(* Those of default_commands_init that others are registered under.        *)
FixedCommands ==
  LET Fixed(name, hash) ==
        [name |-> <<name>>, hash |-> hash, mode |-> MODE_ANY, model |-> NULL]
  IN [p \in {Show, ConfigCandidate, ConfigRunning, ConfigStartup,
             OperationalData, No} |->
        CASE p = Show            -> Fixed("show", NoHash)
          [] p = ConfigCandidate -> Fixed("config-candidate", "config-candidate")
          [] p = ConfigRunning   -> Fixed("config-running", "config-running")
          [] p = ConfigStartup   -> Fixed("config-startup", NoHash)
          [] p = OperationalData -> Fixed("operational-data", NoHash)
          [] p = No              -> Fixed("no", NoHash)]

FixedTree == [cmds |-> FixedCommands, next |-> 7]

(* cli_register_command_core: c becomes the last command below p.          *)
NewUnder(t, p) == Append(p, t.next)

Register(t, p, c) ==
  [cmds |-> [q \in DOMAIN t.cmds \cup {NewUnder(t, p)} |->
               IF q = NewUnder(t, p) THEN c ELSE t.cmds[q]],
   next |-> t.next + 1]

(* Seeded bug: the children of a command stay. *)
FreeAlone(t, p) ==
  [cmds |-> [q \in DOMAIN t.cmds \ {p} |-> t.cmds[q]], next |-> t.next]

(* cli_free_command: p and its children are gone.                          *)
FreeCommand(t, p) ==
  [cmds |-> [q \in {c \in DOMAIN t.cmds : ~IsPrefix(p, c)} |-> t.cmds[q]],
   next |-> t.next]

(* Seeded bug: the module of the command is not looked at.                 *)
NamedLoosely(t, name, m) ==
  {p \in DOMAIN t.cmds : Len(p) = 1 /\ t.cmds[p].name = name}

(* The commands of the top level of this name and module.                  *)
Named(t, name, m) ==
  {p \in DOMAIN t.cmds :
     Len(p) = 1 /\ t.cmds[p].name = name /\ t.cmds[p].hash = m}

(* cli_int_unregister_command_core: the first of them is freed.            *)
Unregister(t, name, m) ==
  IF \E p \in Named(t, name, m) : \A q \in Named(t, name, m) : p[1] <= q[1]
  THEN FreeCommand(t, CHOOSE p \in Named(t, name, m) :
                        \A q \in Named(t, name, m) : p[1] <= q[1])
  ELSE t

-----------------------------------------------------------------------------
(* y_utils.c: from schema nodes to commands.                               *)

PlainName(n) == <<Last(n)>>

(* get_root_ynode_cmd_name gives a root the module or its organisation.    *)
CmdName(n) ==
  IF ~IsTop(n) THEN PlainName(n)
  ELSE <<Last(n), IF Last(n) \in LibNames THEN Head(n) ELSE Org[Head(n)]>>

CurrMode(n) == IF IsTop(n) THEN CONFIG_MODE ELSE Parent(n)

Command(name, n, mode) ==
  [name |-> name, hash |-> Head(n), mode |-> mode, model |-> n]

(* search_cmds: the commands below base for node n that are reached through *)
(* commands of its module ...                                              *)
Hits(t, base, n) ==
  {p \in DOMAIN t.cmds :
     /\ IsStrictPrefix(base, p)
     /\ t.cmds[p].model = n
     /\ t.cmds[p].name = CmdName(n)
     /\ \A i \in (Len(base) + 1)..Len(p) : t.cmds[Upto(p, i)].hash = Head(n)}

(* ... and the first of them: children come before their parent.  (A set   *)
(* of commands always has a first one; with the second disjunct nobody     *)
(* needs to prove it.)                                                     *)
Before(p, q) ==
  \/ IsStrictPrefix(q, p)
  \/ \E i \in DOMAIN p \cap DOMAIN q :
       Upto(p, i - 1) = Upto(q, i - 1) /\ p[i] < q[i]

SearchCmds(t, base, n) ==
  LET First(p) == \A q \in Hits(t, base, n) \ {p} : Before(p, q)
  IN IF Hits(t, base, n) = {} THEN Top
     ELSE CHOOSE p \in Hits(t, base, n) :
            First(p) \/ ~ \E q \in Hits(t, base, n) : First(q)

(* The command of a node goes below that of its parent, unless the parent  *)
(* opens a mode of its own: a list or a root.                              *)
Attached(n) ==
  /\ ~IsTop(n) /\ ~IsTop(Parent(n))
  /\ Kind[Parent(n)] \in {"container", "choice", "case"}

(* Seeded bug: a container that adds no command is searched for.           *)
FindParentByPath(t, base, n) ==
  IF ~Attached(n) THEN Top ELSE SearchCmds(t, base, Parent(n))

(* find_parent_cmd with base Top, find_parent_no_cmd with base No.         *)
FindParent(t, base, n) ==
  IF ~Attached(n) THEN Top
  ELSE IF Last(Parent(n)) = Last(Parent(Parent(n)))
       THEN SearchCmds(t, base, Parent(Parent(n)))
       ELSE SearchCmds(t, base, Parent(n))

(* find_parent_show_candidate_cmd and the like.                            *)
FindParentShow(t, base, n) ==
  IF IsTop(n) THEN Top ELSE SearchCmds(t, base, Parent(n))

OrElse(p, default) == IF p = Top THEN default ELSE p

HasOperChildren(n) == \E k \in ReadOnly : IsPrefix(n, k)

HasListInParents(n) == \E i \in 2..(Len(n) - 1) : Kind[Upto(n, i)] = "list"

-----------------------------------------------------------------------------
(* The register_cmd_... functions.                                         *)

ModeUnder(t, p, n) == IF p = Top THEN CurrMode(n) ELSE t.cmds[p].mode

(* Seeded bug: every `no` command is directly under `no`.                  *)
RegisterConfigFlat(t, n, name) ==
  LET parent == FindParent(t, Top, n)
      c == Command(name, n, ModeUnder(t, parent, n))
  IN Register(Register(t, parent, c), No, c)

(* The command that configures n and the one under `no`.                   *)
RegisterConfig(t, n, name) ==
  LET parent == FindParent(t, Top, n)
      parent_no == OrElse(FindParent(t, No, n), No)
      c == Command(name, n, ModeUnder(t, parent, n))
  IN Register(Register(t, parent, c), parent_no, c)

(* A nested container or list of the same name adds no command.            *)
SharesName(n) == ~IsTop(n) /\ Last(n) = Last(Parent(n))

RegisterShowContainer(t, n) ==
  LET c    == Command(CmdName(n), n, MODE_ANY)
      cand == FindParentShow(t, ConfigCandidate, n)
      run  == IF cand = Top THEN ConfigRunning
              ELSE FindParentShow(t, ConfigRunning, n)
      start == IF cand = Top THEN ConfigStartup
               ELSE FindParentShow(t, ConfigStartup, n)
      diff == [name |-> <<"diff">>, hash |-> "diff", mode |-> MODE_ANY, model |-> n]
      shown == NewUnder(t, OrElse(cand, ConfigCandidate))
  IN Register(Register(Register(Register(t,
         OrElse(cand, ConfigCandidate), c), run, c), start, c), shown, diff)

RegisterContainer(t, n) ==
  LET oper  == IF HasOperChildren(n) /\ IsTop(n)
               THEN Register(t, OperationalData, Command(CmdName(n), n, MODE_ANY))
               ELSE t
      shown == IF HasListInParents(n) THEN oper ELSE RegisterShowContainer(oper, n)
  IN IF n \in ReadOnly \/ SharesName(n) THEN oper
     ELSE RegisterConfig(shown, n, CmdName(n))

(* A list is shown only below a command that is shown.                     *)
RegisterShown(t, base, n) ==
  LET p == FindParentShow(t, base, n)
  IN IF p = Top THEN t ELSE Register(t, p, Command(PlainName(n), n, MODE_ANY))

RegisterList(t, n) ==
  LET oper == IF HasOperChildren(n) THEN RegisterShown(t, OperationalData, n) ELSE t
      shown == RegisterShown(RegisterShown(RegisterShown(oper,
                 ConfigCandidate, n), ConfigRunning, n), ConfigStartup, n)
  IN IF n \in ReadOnly THEN oper ELSE RegisterConfig(shown, n, PlainName(n))

(* register_cmd_leaf and register_cmd_leaf_list; a leaf of a case is an    *)
(* argument of the case's command.                                         *)
RegisterLeaf(t, n) ==
  IF n \in ReadOnly \/ (Kind[n] = "leaf" /\ Kind[Parent(n)] = "case") THEN t
  ELSE RegisterConfig(t, n, PlainName(n))

(* register_print_order.  The command "print-order" of a mode, made unless *)
(* the last one made (po) is of this mode ...                              *)
Shared(t, po, mode) == po \notin {NULL, Freed} /\ t.cmds[po].mode = mode

PrintOrderRoot(t, po, mode) ==
  IF Shared(t, po, mode) THEN po ELSE NewUnder(t, Top)

WithPrintOrder(t, po, n, mode) ==
  IF Shared(t, po, mode) THEN t
  ELSE Register(t, Top, [name |-> <<"print-order">>, hash |-> Head(n),
                         mode |-> mode, model |-> NULL])

(* ... and below it a command for each node from the mode's down to n.     *)
ChainStart(n) ==
  CHOOSE i \in Depths(n) :
    /\ i = 2 \/ Kind[Upto(n, i - 1)] = "list"
    /\ \A j \in i..(Len(n) - 1) : Kind[Upto(n, j)] # "list"

RegisterChain(t, p, n, mode) ==
  LET start == ChainStart(n)
      depth(q) == start + Len(q) - Len(p) - 1
      new == {p \o [i \in 1..k |-> t.next + i - 1] : k \in 1..(Len(n) - start + 1)}
  IN [cmds |-> [q \in DOMAIN t.cmds \cup new |->
                  IF q \in new
                  THEN Command(PlainName(Upto(n, depth(q))), Upto(n, depth(q)), mode)
                  ELSE t.cmds[q]],
      next |-> t.next + Len(n) - start + 1]

RegisterPrintOrder(t, po, n, mode) ==
  RegisterChain(WithPrintOrder(t, po, n, mode), PrintOrderRoot(t, po, mode), n, mode)

(* register_cmd_choice and register_cmd_choice_core.  A choice directly    *)
(* below a case gets its parents from the case, others search for them.    *)
Nested(n) == Kind[n] = "choice" /\ ~IsTop(n) /\ Kind[Parent(n)] = "case"

ChoiceFrame(t, n) ==
  IF Nested(n) THEN frame[Parent(n)]
  ELSE LET parent == FindParent(t, Top, n)
       IN [cmd |-> parent, no_cmd |-> OrElse(FindParent(t, No, n), No),
           mode |-> ModeUnder(t, parent, n)]

(* The commands for n below those of f, and what they are.                 *)
RegisterBoth(t, f, n) ==
  LET c == Command(PlainName(n), n, f.mode)
  IN Register(Register(t, f.cmd, c), f.no_cmd, c)

FrameBelow(t, f, n) ==
  [cmd |-> NewUnder(t, f.cmd),
   no_cmd |-> Append(f.no_cmd, t.next + 1),
   mode |-> f.mode]

(* A choice returns at its first nested choice: its own loops are left.    *)
WithFrame(n, f) ==
  LET left == IF Nested(n) THEN {Parent(n), Parent(Parent(n))} ELSE {}
  IN [k \in (DOMAIN frame \ left) \cup {n} |-> IF k = n THEN f ELSE frame[k]]

SharesContainer(n) == SharesName(n) /\ Kind[Parent(n)] = "container"

(* The walk comes to a node below a choice only from the loops of the      *)
(* nearest one.                                                            *)
Visited(n) ==
  \A i \in 2..(Len(n) - 1) :
    Upto(n, i) \in DOMAIN frame
    \/ Kind[Upto(n, i)] \notin {"choice", "case"}
    \/ \E j \in (i + 1)..(Len(n) - 1) : Kind[Upto(n, j)] \in {"choice", "case"}

-----------------------------------------------------------------------------
(* load-modules.                                                           *)

Idle == queue = <<>>

(* The nodes of the first k roots of a module: LYSC_TREE_DFS ends when it  *)
(* comes back to where it began, for the registration the first root, for  *)
(* the removal the second.                                                 *)
Reach(m, k) ==
  {i \in DOMAIN Data[m] :
     Cardinality({n \in {Data[m][j] : j \in 1..i} : IsTop(n)}) <= k}

(* cmd_sysrepo_load_module. *)
LoadModules ==
  /\ Idle /\ phase # "faulted" /\ loads < MaxLoads
  /\ queue' = installed
  /\ phase' = "unregister"
  /\ at' = 1
  /\ loaded' = {}
  /\ loads' = loads + 1
  /\ UNCHANGED <<tree, print_order, frame, installed>>

(* mod2cmd_generate does nothing for a module without data nodes.          *)
SkipModule ==
  /\ ~Idle /\ phase = "unregister" /\ Data[Head(queue)] = <<>>
  /\ queue' = Tail(queue)
  /\ loaded' = loaded \cup {Head(queue)}
  /\ UNCHANGED <<tree, print_order, frame, installed, phase, at, loads>>

(* Seeded bug: a root is looked for under its plain name.                  *)
WithoutPlainNode(t, n) ==
  Unregister(IF n \in UserOrdered THEN Unregister(t, <<"print-order">>, Head(n)) ELSE t,
             PlainName(n), Head(n))

(* What unregister_node_routine leaves of the commands.                    *)
WithoutNode(t, n) ==
  Unregister(IF n \in UserOrdered THEN Unregister(t, <<"print-order">>, Head(n)) ELSE t,
             CmdName(n), Head(n))

(* One node of unregister_commands_schema.                                 *)
UnregisterNode ==
  /\ ~Idle /\ phase = "unregister" /\ Data[Head(queue)] # <<>>
  /\ LET m == Head(queue)
         n == Data[m][at]
         t == IF n \in ReadOnly THEN tree ELSE WithoutNode(tree, n)
     IN /\ tree' = t
        /\ print_order' = IF print_order \in {NULL, Freed} \cup DOMAIN t.cmds
                          THEN print_order ELSE Freed
        /\ IF at + 1 \in Reach(m, 2)
           THEN at' = at + 1 /\ UNCHANGED <<phase, frame>>
           ELSE at' = 1 /\ phase' = "register" /\ frame' = <<>>
  /\ UNCHANGED <<installed, queue, loaded, loads>>

(* register_commands_schema goes on: to the next node or the next module.  *)
NextNode ==
  LET m == Head(queue)
  IN IF at + 1 \in Reach(m, 1)
     THEN at' = at + 1 /\ UNCHANGED <<queue, phase, loaded>>
     ELSE /\ at' = 1
          /\ queue' = Tail(queue)
          /\ phase' = "unregister"
          /\ loaded' = loaded \cup {m}

(* A node the walk of register_commands_schema does not come to, or for    *)
(* which register_node_routine does nothing.                               *)
SkipNode(n) ==
  /\ \/ ~Visited(n)
     \/ Kind[n] = "other"
     \/ Kind[n] = "choice" /\ n \in ReadOnly /\ ~Nested(n)
  /\ UNCHANGED <<tree, print_order, frame>>
  /\ NextNode

RegisterContainerNode(n) ==
  /\ Visited(n) /\ Kind[n] = "container"
  /\ tree' = RegisterContainer(tree, n)
  /\ UNCHANGED <<print_order, frame>>
  /\ NextNode

RegisterLeafNode(n) ==
  /\ Visited(n) /\ Kind[n] \in {"leaf", "leaflist"}
  /\ tree' = RegisterLeaf(tree, n)
  /\ UNCHANGED <<print_order, frame>>
  /\ NextNode

OrderedByUser(n) == n \in UserOrdered /\ n \notin ReadOnly

RegisterListNode(n) ==
  /\ Visited(n) /\ Kind[n] = "list" /\ ~OrderedByUser(n)
  /\ tree' = RegisterList(tree, n)
  /\ UNCHANGED <<print_order, frame>>
  /\ NextNode

(* current_print_order_c may point to a command that was freed: what its   *)
(* mode then reads as is anybody's guess.                                  *)
RegisterOrderedList(n) ==
  /\ Visited(n) /\ Kind[n] = "list" /\ OrderedByUser(n)
  /\ LET mode == ModeUnder(tree, FindParent(tree, Top, n), n)
         t == RegisterList(tree, n)
     IN /\ tree' = RegisterPrintOrder(t, print_order, n, mode)
        /\ print_order' = PrintOrderRoot(t, print_order, mode)
  /\ UNCHANGED frame
  /\ NextNode

ReadFreedPrintOrder(n) ==
  /\ Visited(n) /\ Kind[n] = "list" /\ OrderedByUser(n) /\ print_order = Freed
  /\ phase' = "faulted"
  /\ queue' = <<>>
  /\ UNCHANGED <<tree, print_order, frame, at, loaded>>

RegisterChoice(n) ==
  /\ Visited(n) /\ Kind[n] = "choice" /\ (n \notin ReadOnly \/ Nested(n))
  /\ LET f == ChoiceFrame(tree, n)
     IN IF SharesContainer(n)
        THEN UNCHANGED tree /\ frame' = WithFrame(n, f)
        ELSE /\ tree' = RegisterBoth(tree, f, n)
             /\ frame' = WithFrame(n, FrameBelow(tree, f, n))
  /\ UNCHANGED print_order
  /\ NextNode

RegisterCase(n) ==
  /\ Visited(n) /\ Kind[n] = "case"
  /\ tree' = RegisterBoth(tree, frame[Parent(n)], n)
  /\ frame' = WithFrame(n, FrameBelow(tree, frame[Parent(n)], n))
  /\ UNCHANGED print_order
  /\ NextNode

(* One node of register_commands_schema: register_node_routine.            *)
RegisterNode ==
  /\ ~Idle /\ phase = "register"
  /\ LET n == Data[Head(queue)][at]
     IN \/ SkipNode(n)
        \/ RegisterContainerNode(n)
        \/ RegisterLeafNode(n)
        \/ RegisterListNode(n)
        \/ RegisterOrderedList(n)
        \/ ReadFreedPrintOrder(n)
        \/ RegisterChoice(n)
        \/ RegisterCase(n)
  /\ UNCHANGED <<installed, loads>>

-----------------------------------------------------------------------------
(* The surroundings.                                                       *)

(* sysrepo makes a new context, and the schema nodes of the old one go.    *)
NewContext ==
  /\ tree' = [cmds |-> [p \in DOMAIN tree.cmds |->
                         LET c == tree.cmds[p]
                         IN [name |-> c.name, hash |-> c.hash, mode |-> c.mode,
                             model |-> IF c.model = NULL THEN NULL ELSE Freed]],
               next |-> tree.next]
  /\ loaded' = {}
  /\ UNCHANGED <<print_order, frame, queue, phase, at, loads>>

(* install-module and remove-module, here or in another client; load-      *)
(* modules holds a lock on the context while it runs.                      *)
InstallModule(m) ==
  /\ Idle /\ phase # "faulted" /\ m \notin Range(installed)
  /\ installed' = Append(installed, m)
  /\ NewContext

RemoveModule(i) ==
  /\ Idle /\ phase # "faulted"
  /\ installed' = RemoveAt(installed, i)
  /\ NewContext

(* The process ends, by a signal at any time, and is started again.        *)
Start ==
  /\ tree' = FixedTree
  /\ print_order' = NULL
  /\ frame' = <<>>
  /\ queue' = <<>>
  /\ phase' = "unregister"
  /\ at' = 1
  /\ loaded' = {}
  /\ loads' = 0
  /\ UNCHANGED installed

Init ==
  /\ tree = FixedTree
  /\ print_order = NULL
  /\ frame = <<>>
  /\ installed \in {s \in UNION {[1..k -> Modules] : k \in 0..Cardinality(Modules)} :
                      IsInjective(s)}
  /\ queue = <<>>
  /\ phase = "unregister"
  /\ at = 1
  /\ loaded = {}
  /\ loads = 0

Next ==
  \/ LoadModules
  \/ SkipModule
  \/ UnregisterNode
  \/ RegisterNode
  \/ \E m \in Modules : InstallModule(m)
  \/ \E i \in DOMAIN installed : RemoveModule(i)
  \/ Start

Spec == Init /\ [][Next]_vars

-----------------------------------------------------------------------------
(* Finding commands, for words that are typed in full.                     *)

(* cli_int_locate_command in one chain: the first command of the word that *)
(* is of the mode or, of those of any mode, the second; if there is none,  *)
(* the only one of any mode.  (The drop to the CONFIG mode is in           *)
(* ConfigSession.)                                                         *)
Located(mode, p, word) ==
  LET chain == {c \in DOMAIN tree.cmds :
                  Len(c) = Len(p) + 1 /\ IsPrefix(p, c) /\ tree.cmds[c].name = word}
      any == {c \in chain : tree.cmds[c].mode = MODE_ANY}
      taken == {c \in chain : tree.cmds[c].mode = mode}
               \cup {c \in any : \E d \in any : Last(d) < Last(c)}
  IN IF taken = {} THEN any
     ELSE {c \in taken : \A d \in taken : Last(c) <= Last(d)}

Reached(mode, words) ==
  {p \in DOMAIN tree.cmds :
     /\ Len(p) = Len(words)
     /\ \A i \in DOMAIN p : Upto(p, i) \in Located(mode, Upto(p, i - 1), words[i])}

(* What a reader of the schema expects to type for n in the mode of the    *)
(* node above n that opens one.                                            *)
Skipped(n) ==
  \/ Kind[n] = "container" /\ SharesName(n)
  \/ Kind[n] = "choice" /\ SharesContainer(n)

Anchor(n) ==
  CHOOSE i \in Depths(n) :
    /\ ~Attached(Upto(n, i))
    /\ \A j \in (i + 1)..Len(n) : Attached(Upto(n, j))

Words(n) ==
  LET typed == SelectSeq([i \in 1..(Len(n) - Anchor(n) + 1) |-> Upto(n, Anchor(n) + i - 1)],
                         LAMBDA k : ~Skipped(k))
  IN [i \in DOMAIN typed |->
        IF Kind[typed[i]] = "container" THEN CmdName(typed[i]) ELSE PlainName(typed[i])]

ModeOf(n) == CurrMode(Upto(n, Anchor(n)))

(* What comes after a nested choice in the choice around it is lost, and   *)
(* so is what is below a read-only choice.                                 *)
Lost(n) ==
  LET order == Data[Head(n)]
      Index(k) == CHOOSE i \in DOMAIN order : order[i] = k
  IN \/ \E d \in Range(order) :
          /\ Nested(d)
          /\ IsPrefix(Parent(Parent(d)), n)
          /\ ~IsPrefix(d, n)
          /\ Index(d) < Index(n)
     \/ \E i \in 2..(Len(n) - 1) :
          LET o == Upto(n, i)
          IN Kind[o] = "choice" /\ o \in ReadOnly /\ ~Nested(o)

(* The nodes of a module that are generated as commands of their own.      *)
Configured(m) ==
  {n \in {Data[m][i] : i \in Reach(m, 1)} :
     /\ n \notin ReadOnly
     /\ Kind[n] # "other"
     /\ ~Lost(n) /\ ~Skipped(n)
     /\ ~(Kind[n] = "leaf" /\ ~IsTop(n) /\ Kind[Parent(n)] = "case")}

-----------------------------------------------------------------------------
(* Properties.                                                             *)

(* Commands form a tree of which no command is younger than the next one   *)
(* to be registered, and the pointers into it point into it.               *)
TypeOK ==
  /\ DOMAIN tree.cmds \subseteq Seq(Nat)
  /\ \A p \in DOMAIN tree.cmds :
       /\ p # <<>> /\ Front(p) \in DOMAIN tree.cmds \cup {Top}
       /\ \A i \in DOMAIN p : p[i] < tree.next
       /\ tree.cmds[p].hash \in Modules \cup {NoHash, "diff", "config-candidate",
                                              "config-running"}
       /\ tree.cmds[p].mode \in {CONFIG_MODE, MODE_ANY} \cup Nodes
       /\ tree.cmds[p].model \in Nodes \cup {NULL, Freed}
  /\ DOMAIN FixedCommands \subseteq DOMAIN tree.cmds
  /\ print_order \in DOMAIN tree.cmds \cup {NULL, Freed}
  /\ Range(installed) \subseteq Modules
  /\ Range(queue) \subseteq Range(installed) /\ loaded \subseteq Range(installed)
  /\ phase \in {"unregister", "register", "faulted"}
  /\ ~Idle => /\ phase # "faulted"
              /\ at \in DOMAIN Data[Head(queue)] \/ (at = 1 /\ phase = "unregister")
  /\ loads \in 0..MaxLoads

(* Other roots are registered under their plain name and removed, in vain, *)
(* under the name of a root container (cmd_list.c:351, y_cmd_generator.c:74). *)
RootedInContainer == {m \in Modules : Data[m] # <<>> /\ Kind[Data[m][1]] = "container"}

(* After load-modules, also when repeated, a command of the top level is   *)
(* for a node of the present schema and is the only one for it            *)
(* (print-order has no node).                                              *)
TopFresh ==
  \A m \in loaded \cap RootedInContainer :
    \A p, q \in {c \in DOMAIN tree.cmds :
                   Len(c) = 1 /\ tree.cmds[c].hash = m /\ tree.cmds[c].model # NULL} :
      /\ tree.cmds[p].model # Freed
      /\ tree.cmds[p].model = tree.cmds[q].model => p = q

(* After load-modules, also when repeated, the words for a node, typed in  *)
(* its mode, lead to the command that configures it.                       *)
ConfigReachable ==
  Idle => \A m \in loaded \cap RootedInContainer : \A n \in Configured(m) :
            \E p \in Reached(ModeOf(n), Words(n)) : tree.cmds[p].model = n

(* With `no` in front, the same words lead to a command of the module.     *)
NoReachable ==
  Idle => \A m \in loaded : \A n \in Configured(m) :
            \E p \in Reached(ModeOf(n), <<<<"no">>>> \o Words(n)) : tree.cmds[p].hash = m

(* The first load-modules of a process frees no print-order command that   *)
(* current_print_order_c points to.                                        *)
FirstLoadClean == loads <= 1 => print_order # Freed /\ phase # "faulted"

(* Generating the commands of a module neither removes nor changes those   *)
(* of another module or of libcli; except below print-order, which all     *)
(* ordered lists of a mode share (cmd_list.c:240) and which goes with the  *)
(* module that registered it.                                              *)
ForeignKept ==
  [][UnregisterNode \/ RegisterNode =>
       \A p \in DOMAIN tree.cmds :
         /\ tree.cmds[p].hash # Head(queue)
         /\ tree.cmds[<<p[1]>>].name # <<"print-order">>
         => p \in DOMAIN tree'.cmds /\ tree'.cmds[p] = tree.cmds[p]]_vars

(* Not true: after load-modules, what `show config-running` offers for a   *)
(* container or a list can be reached (the comment on the removal in       *)
(* mod2cmd_generate: a registered module is removed first).                *)
ShowReachable ==
  Idle => \A m \in loaded \cap RootedInContainer :
    \A n \in {k \in Configured(m) :
                /\ Kind[k] \in {"container", "list"}
                /\ \A i \in 2..(Len(k) - 1) : Kind[Upto(k, i)] = "container"} :
      Reached(ModeOf(n), <<<<"show">>, <<"config-running">>>> \o
                         [i \in 1..(Len(n) - 1) |-> CmdName(Upto(n, i + 1))]) # {}
=============================================================================
