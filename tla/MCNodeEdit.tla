------------------------------ MODULE MCNodeEdit ------------------------------
(***************************************************************************)
(* A node with a container in a container, a number whose range an input   *)
(* of more bits falls into, a leaf-list, a case of two leaves, and two     *)
(* lists with a key of the same name, of which the first is ordered.       *)
(***************************************************************************)
EXTENDS NodeEdit

Numbers(x, rank, path, range, accepts) ==
  [kind |-> x, path |-> path, rank |-> rank, base |-> "number", range |-> range,
   accepts |-> accepts, ordered |-> FALSE, called |-> "", key |-> ""]

Texts(x, rank, path, accepts) ==
  [Numbers(x, rank, path, <<>>, accepts) EXCEPT !.base = "other"]

ListOf(name, rank, path, ordered, accepts) ==
  [Texts("list", rank, path, accepts) EXCEPT !.ordered = ordered, !.called = name, !.key = "name"]

mcSchema ==
  [box    |-> Texts("container", 1, <<>>, {}),
   number |-> Numbers("leaf", 2, <<"box">>, <<1, 1>>, {"1"}),
   inner  |-> Texts("container", 3, <<"box">>, {}),
   free   |-> Numbers("leaf", 4, <<"box", "inner">>, <<>>, {"1"}),
   text   |-> Texts("leaf", 5, <<"box", "inner">>, {"", "w"}),
   items  |-> Numbers("leaf-list", 6, <<"box">>, <<>>, {"1", "9"}),
   list   |-> ListOf("list", 7, <<>>, TRUE, {"1", "9", "w"}),
   other  |-> ListOf("other", 8, <<>>, FALSE, {"9"})]

mcNodes == DOMAIN mcSchema
mcCases == {<<"free", "text">>}
mcNumber == [t \in {"", "1", "9"} |->
              CASE t = "" -> 0 [] t = "1" -> 1 [] t = "9" -> 9]
mcInputs == DOMAIN mcNumber \cup {"w", "delete"}
mcIndexes == {-5, 5, 15, 25, 30}
===============================================================================
