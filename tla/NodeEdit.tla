------------------------------- MODULE NodeEdit -------------------------------
(***************************************************************************)
(* The content of the node that is being edited (parent_data): its leaves, *)
(* leaf-lists, nested containers and list entries, and the commands that   *)
(* change them (cmd_leaf.c, cmd_choice.c, cmd_list.c, cmd_container.c over *)
(* data_factory.c).  To ConfigSession all of this is one value.            *)
(*                                                                         *)
(* A step is one call of edit_node_data_tree or edit_node_data_tree_list;  *)
(* a command with several values makes several of them.                    *)
(***************************************************************************)
EXTENDS Integers, FiniteSets, SequencesExt

CONSTANTS
  Nodes,      \* the schema nodes below parent_data
  Schema,     \* their contents
  Cases,      \* the cases of choices: each a sequence of leaves
  Inputs,     \* what may be typed for a value
  Number,     \* the inputs that are all digits, "" among them, to their number
  UIntMod,    \* 2^32: what an unsigned int holds
  Indexes,    \* what may be typed for an index
  MaxFacts,   \* bound: the leaves and entries below which more are added
  Self,       \* parent_data itself
  None        \* no value

EmptyText == ""
Delete == "delete"

Boxes == {x \in Nodes : Schema[x].kind = "container"}
Leaves == {x \in Nodes : Schema[x].kind = "leaf"}
LeafLists == {x \in Nodes : Schema[x].kind = "leaf-list"}
Lists == {x \in Nodes : Schema[x].kind = "list"}

(* path is the containers the node is in, the outermost first; accepts is  *)
(* what libyang accepts for the type, the key's type of a list; range the  *)
(* first part of its range.                                                *)
ASSUME NodesAssumption ==
  /\ \A x \in Nodes :
       /\ Schema[x].kind \in {"container", "leaf", "leaf-list", "list"}
       /\ Schema[x].path \in Seq(Boxes)
       /\ \A i \in DOMAIN Schema[x].path :
            Schema[Schema[x].path[i]].path = SubSeq(Schema[x].path, 1, i - 1)
       /\ Schema[x].rank \in Nat
       /\ Schema[x].base \in {"number", "other"}
       /\ Schema[x].range \in {<<>>} \cup {r \in Int \X Int : r[1] <= r[2]}
       /\ Schema[x].accepts \subseteq Inputs
       /\ Schema[x].ordered \in BOOLEAN
       /\ {Schema[x].called, Schema[x].key} \subseteq STRING
  /\ Self \notin Nodes /\ None \notin Inputs
  /\ \A c \in Cases : c \in Seq(Leaves) /\ c # <<>>
  /\ DOMAIN Number \subseteq Inputs /\ \A t \in DOMAIN Number : Number[t] \in Nat
  /\ UIntMod \in Nat \ {0}
  /\ Indexes \subseteq Int \ {0}
  /\ MaxFacts \in Nat

VARIABLES
  children,   \* of parent_data and of each container in it, in sibling order
  phase,      \* where the command is
  reply,      \* what it tells the user
  todo,       \* the edits it still has to make
  edits,      \* history: the edits of the command
  before,     \* history: the children before it
  meant       \* history: the content that the edits it has made are for

vars == <<children, phase, reply, todo, edits, before, meant>>

-----------------------------------------------------------------------------
(* Validation: yang_data_validator.                                        *)

Truncated(n) == n % UIntMod

(* Seeded bug: the upper bound is not part of the range.                   *)
ValidUintBelow(x, t) ==
  /\ t \in DOMAIN Number
  /\ Schema[x].range # <<>> =>
       /\ Truncated(Schema[x].range[1]) <= Truncated(Number[t])
       /\ Truncated(Number[t]) < Truncated(Schema[x].range[2])

(* validate_uint, for types with a sign as well: digits only, and within   *)
(* the first part of the range, all of it as unsigned int.                 *)
ValidUint(x, t) ==
  /\ t \in DOMAIN Number
  /\ Schema[x].range # <<>> =>
       /\ Truncated(Schema[x].range[1]) <= Truncated(Number[t])
       /\ Truncated(Number[t]) <= Truncated(Schema[x].range[2])

(* The values of leaf-lists are let through.                               *)
Valid(x, t) ==
  \/ t = Delete
  \/ Schema[x].kind = "leaf-list"
  \/ IF Schema[x].base = "number" THEN ValidUint(x, t) ELSE t \in Schema[x].accepts

-----------------------------------------------------------------------------
(* The data tree, as libyang keeps it.                                     *)

Node(x, t) == [name |-> x, value |-> t]

Path(x) == Schema[x].path

Parent(x) == IF Path(x) = <<>> THEN Self ELSE Last(Path(x))

Keyed(x) == x \in LeafLists \cup Lists

(* The predicate of the path names the value of a leaf-list, or the key.   *)
Is(n, x, t) == n.name = x /\ (Keyed(x) => n.value = t)

Has(tree, x, t) == \E i \in DOMAIN tree[Parent(x)] : Is(tree[Parent(x)][i], x, t)

There(tree, x) == {b \in ToSet(Path(x)) : Has(tree, b, None)}

Within(p, x) == p \in Nodes /\ (p = x \/ x \in ToSet(Path(p)))

(* What lyd_find_path leaves in match when it does not come to the end of  *)
(* the path: the deepest container there is, if any.                       *)
Deepest(tree, x) ==
  IF There(tree, x) = {} THEN Self
  ELSE CHOOSE b \in There(tree, x) : \A c \in There(tree, x) : Within(b, c)

(* lyd_find_path compiles the predicate with the value in it.              *)
Parses(x, t) == Keyed(x) => t \in Schema[x].accepts

(* lyd_new_path stores the value, no value as an empty one.                *)
Stores(x, t) ==
  x \in Boxes \/ (IF t = None THEN EmptyText ELSE t) \in Schema[x].accepts

(* A new child goes before the next of its siblings in the schema's order. *)
WithChild(siblings, n) ==
  LET rank(i) == Schema[siblings[i].name].rank
      later == {i \in DOMAIN siblings : rank(i) > Schema[n.name].rank}
      next == {i \in later : \A j \in later : rank(i) <= rank(j)}
  IN IF later = {} THEN Append(siblings, n) ELSE InsertAt(siblings, Min(next), n)

(* The node and the containers on the way to it that are missing.          *)
New(tree, x, t) ==
  {Node(b, None) : b \in ToSet(Path(x)) \ There(tree, x)} \cup {Node(x, t)}

Created(tree, x, t) ==
  [p \in DOMAIN tree |->
     IF \E n \in New(tree, x, t) : Parent(n.name) = p
     THEN WithChild(tree[p], CHOOSE n \in New(tree, x, t) : Parent(n.name) = p)
     ELSE tree[p]]

(* Where a child is among its siblings, and the siblings without it.       *)
Spot(siblings, x, t) == CHOOSE i \in DOMAIN siblings : Is(siblings[i], x, t)

Without(siblings, x, t) ==
  IF \E i \in DOMAIN siblings : Is(siblings[i], x, t)
  THEN RemoveAt(siblings, Spot(siblings, x, t))
  ELSE siblings

(* lyd_free_tree                                                           *)
Freed(tree, x, t) ==
  [p \in DOMAIN tree |->
     IF p = Parent(x) THEN Without(tree[p], x, t)
     ELSE IF Within(p, x) THEN <<>> ELSE tree[p]]

(* What there is, without order and containers.                            *)
Facts(tree) ==
  {n \in UNION {ToSet(tree[p]) : p \in DOMAIN tree} : n.name \notin Boxes}

(* A leaf that is there is given a value that its type refuses: the result *)
(* of lyd_change_term is not looked at, and the edit reports success.      *)
Overlooked(facts, e) ==
  /\ e.type = "add" /\ e.node \in Leaves /\ ~Stores(e.node, e.value)
  /\ \E n \in facts : n.name = e.node

(* What an edit that reports success makes of the content: it deletes what *)
(* it is to delete, adds what it is to add, whatever libyang thinks of the *)
(* value, but does nothing where the refusal is overlooked.                *)
Intended(facts, e) ==
  LET kept == {n \in facts : ~Is(n, e.node, e.value) /\ ~Within(Parent(n.name), e.node)}
  IN IF e.type = "delete" THEN kept
     ELSE IF Overlooked(facts, e) THEN facts
     ELSE kept \cup {Node(e.node, e.value)}

-----------------------------------------------------------------------------
Init ==
  /\ children = [p \in Boxes \cup {Self} |-> <<>>]
  /\ phase = "prompt"
  /\ reply = "none"
  /\ todo = <<>> /\ edits = <<>>
  /\ before = children /\ meant = Facts(children)

(* The commands.                                                           *)

Add(x, t) == [type |-> "add", node |-> x, value |-> t, index |-> 0]
Del(x, t) == [type |-> "delete", node |-> x, value |-> t, index |-> 0]

AtPrompt == phase = "prompt"

Room == AtPrompt /\ Cardinality(Facts(children)) < MaxFacts

Begin(es) ==
  /\ phase' = "editing"
  /\ todo' = es /\ edits' = es
  /\ UNCHANGED <<children, reply, before, meant>>

(* An argument that its validator refuses ends the command.                *)
Checked(es) ==
  IF \A i \in DOMAIN es : Valid(es[i].node, es[i].value)
  THEN Begin(es)
  ELSE /\ phase' = "answered"
       /\ reply' = "refused"
       /\ edits' = es
       /\ UNCHANGED <<children, todo, before, meant>>

InCases == UNION {ToSet(c) : c \in Cases}

Leaf == Room /\ \E x \in Leaves \ InCases, t \in Inputs : Checked(<<Add(x, t)>>)

NoLeaf == AtPrompt /\ \E x \in Leaves \ InCases : Begin(<<Del(x, None)>>)

(* The callback validates the values itself, which lets all through.       *)
LeafList ==
  Room /\ \E x \in LeafLists : \E ts \in [1..1 -> Inputs] \cup [1..2 -> Inputs] :
    Begin([i \in DOMAIN ts |-> Add(x, ts[i])])

(* The first of the values typed.                                          *)
NoLeafList == AtPrompt /\ \E x \in LeafLists, t \in Inputs : Begin(<<Del(x, t)>>)

Case ==
  Room /\ \E c \in Cases : \E ts \in [DOMAIN c -> Inputs] :
    Checked([i \in DOMAIN c |-> Add(c[i], ts[i])])

(* The word "delete" behind the values: they are validated and forgotten.  *)
CaseDelete == AtPrompt /\ \E c \in Cases : Begin(<<Del(c[1], Delete)>>)

NoCase == AtPrompt /\ \E c \in Cases : Begin([i \in DOMAIN c |-> Del(c[i], None)])

NoContainer == AtPrompt /\ \E x \in Boxes : Begin(<<Del(x, None)>>)

List ==
  Room /\ \E x \in Lists, t \in Inputs :
    \E i \in {0} \cup (IF Schema[x].ordered THEN Indexes ELSE {}) :
      Checked(<<[Add(x, t) EXCEPT !.index = i]>>)

NoList == AtPrompt /\ \E x \in Lists, t \in Inputs : Checked(<<Del(x, t)>>)

-----------------------------------------------------------------------------
(* The edits.                                                              *)

At(type, X) ==
  phase = "editing" /\ Head(todo).type = type /\ Head(todo).node \in X

X == Head(todo).node
T == Head(todo).value

(* The edit succeeded: the next one, or the end of the command.            *)
Succeed ==
  /\ todo' = Tail(todo)
  /\ IF Len(todo) = 1
     THEN phase' = "answered" /\ reply' = "ok"
     ELSE UNCHANGED <<phase, reply>>
  /\ meant' = Intended(meant, Head(todo))
  /\ UNCHANGED <<edits, before>>

(* It failed, and the rest of the command is not done.                     *)
Fail ==
  /\ phase' = "answered"
  /\ reply' = "error"
  /\ UNCHANGED <<todo, edits, before, meant>>

(* new_leaf is used although lyd_find_path did not set it: anything may    *)
(* come of it.                                                             *)
Fault ==
  /\ phase' = "faulted"
  /\ UNCHANGED <<children, reply, todo, edits, before, meant>>

Terms == Leaves \cup LeafLists

(* Seeded bug: what is found is left as it is.                             *)
ChangeTermSkipped ==
  /\ At("add", Terms)
  /\ Parses(X, T) /\ Has(children, X, T)
  /\ UNCHANGED children
  /\ Succeed

(* The leaf is there: the result of lyd_change_term is not looked at.      *)
ChangeTerm ==
  /\ At("add", Terms)
  /\ Parses(X, T) /\ Has(children, X, T)
  /\ children' =
       IF Stores(X, T)
       THEN [children EXCEPT ![Parent(X)] =
               [i \in DOMAIN @ |-> IF Is(@[i], X, T) THEN Node(X, T) ELSE @[i]]]
       ELSE children
  /\ Succeed

(* Seeded bug: a value that was refused takes the container with it.       *)
AddTermFreeing ==
  /\ At("add", Terms)
  /\ Parses(X, T) /\ ~Has(children, X, T)
  /\ IF Stores(X, T)
     THEN children' = Created(children, X, T) /\ Succeed
     ELSE /\ children' = IF Deepest(children, X) = Self THEN children
                         ELSE Freed(children, Deepest(children, X), None)
          /\ Fail

(* Seeded bug: the value is put in without asking libyang.                 *)
AddTermUnchecked ==
  /\ At("add", Terms)
  /\ Parses(X, T) /\ ~Has(children, X, T)
  /\ children' = Created(children, X, T)
  /\ Succeed

AddTerm ==
  /\ At("add", Terms)
  /\ Parses(X, T) /\ ~Has(children, X, T)
  /\ IF Stores(X, T)
     THEN children' = Created(children, X, T) /\ Succeed
     ELSE UNCHANGED children /\ Fail

(* A leaf that is not there is created and freed again.  When it cannot be *)
(* created, what is freed is what the search has found instead of it.      *)
DeleteTerm ==
  /\ At("delete", Terms)
  /\ Parses(X, T)
  /\ IF Has(children, X, T) \/ Stores(X, T)
     THEN children' = Freed(children, X, T) /\ Succeed
     ELSE /\ children' = IF Deepest(children, X) = Self THEN children
                         ELSE Freed(children, Deepest(children, X), None)
          /\ Fail

(* The value does not fit into the path, and new_leaf is not initialised.  *)
BadPath ==
  /\ At("add", LeafLists) \/ At("delete", LeafLists)
  /\ ~Parses(X, T)
  /\ Fault \/ (UNCHANGED children /\ Fail)

DeleteContainer ==
  /\ At("delete", Boxes)
  /\ children' = Freed(children, X, None)
  /\ Succeed

-----------------------------------------------------------------------------
(* List entries: edit_node_data_tree_list.                                 *)

Entry(tree) == IF Has(tree, X, T) THEN tree ELSE Created(tree, X, T)

BadKey ==
  /\ At("add", Lists) \/ At("delete", Lists)
  /\ ~Parses(X, T)
  /\ UNCHANGED children /\ Fail

(* The containers that were created for an entry stay.                     *)
DeleteEntry ==
  /\ At("delete", Lists)
  /\ Parses(X, T)
  /\ children' = Freed(Entry(children), X, T)
  /\ Succeed

(* Seeded bug: the first sibling has the index 0.                          *)
PlaceFromZero(index) == IF index < 0 THEN 1 ELSE index \div 10 + 2

(* The sibling, of any schema node, that the entry is to be put before.    *)
Place(index) == IF index < 10 THEN 1 ELSE index \div 10 + 1

Moved(siblings, from, to) ==
  InsertAt(RemoveAt(siblings, from), IF from < to THEN to - 1 ELSE to, siblings[from])

AddEntry ==
  /\ At("add", Lists)
  /\ Parses(X, T)
  /\ \E tree \in {Entry(children)} :
       LET siblings == tree[Parent(X)]
           index == Head(todo).index
           to == Place(index)
           from == Spot(siblings, X, T)
           Stay == children' = tree /\ Succeed
           Move == children' = [tree EXCEPT ![Parent(X)] = Moved(@, from, to)] /\ Succeed
           \* lyd_insert_before refuses: the entry is freed, new or not.
           Refused == children' = Freed(tree, X, T) /\ Fail
       IN IF index = 0 \/ to > Len(siblings) THEN Stay
          ELSE IF to = from THEN Refused
          ELSE IF siblings[to].name = X THEN Move
          \* Before another schema node: it depends on that node.
          ELSE Move \/ Refused

-----------------------------------------------------------------------------
Prompt ==
  /\ phase = "answered"
  /\ phase' = "prompt"
  /\ reply' = "none"
  /\ todo' = <<>> /\ edits' = <<>>
  /\ before' = children /\ meant' = Facts(children)
  /\ UNCHANGED children

(* The program is started again after a fault.                             *)
Start ==
  /\ phase = "faulted"
  /\ children' = [p \in Boxes \cup {Self} |-> <<>>]
  /\ phase' = "prompt"
  /\ reply' = "none"
  /\ todo' = <<>> /\ edits' = <<>>
  /\ before' = children' /\ meant' = Facts(children')

Next ==
  \/ Leaf \/ NoLeaf \/ LeafList \/ NoLeafList
  \/ Case \/ CaseDelete \/ NoCase \/ NoContainer \/ List \/ NoList
  \/ ChangeTerm \/ AddTerm \/ DeleteTerm \/ BadPath \/ DeleteContainer
  \/ BadKey \/ DeleteEntry \/ AddEntry
  \/ Prompt \/ Start

Spec == Init /\ [][Next]_vars

-----------------------------------------------------------------------------
(* Completion of a list's key: get_list_key_values_array over the entries  *)
(* that get_local_list_nodes finds.                                        *)

(* The siblings it looks for the list in: those in the deepest container   *)
(* there is on the way to it.                                              *)
Searched(x) == children[Deepest(children, x)]

SameName(x, y) == y \in Lists /\ Schema[y].called = Schema[x].called

(* Seeded bug: the first entry is taken for the head of the list.          *)
KeysOfferedBehind(x) ==
  LET s == Searched(x)
      entries == {i \in DOMAIN s : SameName(x, s[i].name)}
  IN {s[i].value : i \in {j \in DOMAIN s : \E e \in entries :
                            j > e /\ s[j].name \in Lists /\ Schema[s[j].name].key = Schema[x].key}}

(* From the first entry of a list of that name on, the key of that name of *)
(* every sibling.                                                          *)
KeysOffered(x) ==
  LET s == Searched(x)
      entries == {i \in DOMAIN s : SameName(x, s[i].name)}
  IN {s[i].value : i \in {j \in DOMAIN s : \E e \in entries :
                            j >= e /\ s[j].name \in Lists /\ Schema[s[j].name].key = Schema[x].key}}

-----------------------------------------------------------------------------
(* Correctness.                                                            *)

Edits == [type : {"add", "delete"}, node : Nodes, value : Inputs \cup {None, Delete},
          index : Indexes \cup {0}]

(* Every child is below its parent and no two are the same, what is not    *)
(* there has no children, and every value is one of its type: what the     *)
(* validators let through does not get into the tree.                      *)
TypeOK ==
  /\ phase \in {"prompt", "editing", "answered", "faulted"}
  /\ reply \in {"none", "ok", "error", "refused"}
  /\ todo \in Seq(Edits)
  /\ phase = "editing" => todo # <<>>
  /\ children \in [Boxes \cup {Self} -> Seq([name : Nodes, value : Inputs \cup {None}])]
  /\ \A p \in DOMAIN children :
       /\ p # Self /\ children[p] # <<>> => Has(children, p, None)
       /\ \A i, j \in DOMAIN children[p] :
            LET n == children[p][i]
            IN /\ Parent(n.name) = p
               /\ Stores(n.name, n.value)
               /\ i # j => ~Is(children[p][j], n.name, n.value)

(* A command that reports success has done its edits, in order, and        *)
(* nothing else: the creation of what is to be deleted, the containers     *)
(* that come with it, and the search by path leave no trace.  The one      *)
(* exception is an edit it has not done: a leaf that was there and whose   *)
(* type refuses the new value is as it was, although success is reported.  *)
SuccessIsExact ==
  phase = "answered" /\ reply = "ok" =>
    Facts(children) = meant

Failed == phase = "answered" /\ reply = "error"

(* A command that fails stops there.  The edits before it stay, and it     *)
(* adds nothing; what it may lose is below one container of the leaf it    *)
(* was to delete, or the entry that it was to move.                        *)
FailureContained ==
  Failed =>
    LET e == Head(todo)
    IN /\ Facts(children) \subseteq meant
       /\ \A n \in meant \ Facts(children) :
            \/ e.type = "delete" /\ \E b \in ToSet(Path(e.node)) : Within(Parent(n.name), b)
            \/ e.index # 0 /\ n = Node(e.node, e.value)

(* An index moves the one entry, and puts it right before the siblings     *)
(* whose numbers are above the index, counted by ten from the first one.   *)
Placed(old, e, new) ==
  LET place == Spot(new, e.node, e.value)
      above == {old[i] : i \in {j \in DOMAIN old :
                  10 * j > e.index /\ ~Is(old[j], e.node, e.value)}}
  IN /\ Without(new, e.node, e.value) = Without(old, e.node, e.value)
     /\ e.index # 0 /\ above # {} => {new[i] : i \in (place + 1)..Len(new)} = above

(* The order of a list is its users': an edit leaves it as it is but for   *)
(* the entry that is given an index, which comes to its place from         *)
(* wherever it was.                                                        *)
PlacedByIndex ==
  phase = "answered" /\ reply = "ok" /\ edits[1].type = "add" /\ edits[1].node \in Lists =>
    LET e == edits[1]
        old == IF Has(before, e.node, e.value) THEN before
               ELSE Created(before, e.node, e.value)
    IN Placed(old[Parent(e.node)], e, children[Parent(e.node)])

(* A type that the validator gets right: one range, below 2^32.            *)
Plain(x) ==
  Schema[x].base = "number" =>
    /\ Schema[x].range # <<>>
    /\ 0 <= Schema[x].range[1] /\ Schema[x].range[2] < UIntMod
    /\ \A t \in Inputs : t \in Schema[x].accepts <=>
         t \in DOMAIN Number /\ t # EmptyText
         /\ Schema[x].range[1] <= Number[t] /\ Number[t] <= Schema[x].range[2]

Short(t) == t # EmptyText /\ t \in DOMAIN Number => Number[t] < UIntMod

(* The program and libyang judge values separately.  They agree on numbers *)
(* with a range, and on every other type: nothing legal is refused, and    *)
(* what is reported as set is in the tree.  Except for "delete" and "",    *)
(* and for numbers that do not fit in an unsigned int.                     *)
ValidatorAgrees ==
  phase = "answered" /\ Len(edits) = 1 =>
    LET e == edits[1]
    IN e.type = "add" /\ Plain(e.node) /\ Short(e.value) /\ e.value \notin {Delete, EmptyText} =>
         /\ reply = "refused" => ~Stores(e.node, e.value)
         /\ reply = "ok" => Node(e.node, e.value) \in Facts(children)

(* Whatever commands, moves and deletions there were, completion offers    *)
(* every entry of the list; entries of a list behind it with a key of the  *)
(* same name as well.                                                      *)
EntriesOffered ==
  phase = "prompt" => \A x \in Lists : \A i \in DOMAIN children[Parent(x)] :
    LET n == children[Parent(x)][i]
    IN n.name = x => n.value \in KeysOffered(x)

(* A command that reports a failure has lost nothing.                      *)
FailureLosesNothing == Failed => Facts(before) \subseteq Facts(children)
===============================================================================
