--------------------------- MODULE MCConfigSession ---------------------------
(* A small instance of ConfigSession: two roots, one with a list in a      *)
(* list, the other with a list that has keys only.                         *)
EXTENDS ConfigSession

MCNames == {"r", "s", "a", "b"}
MCNodes == {<<"r">>, <<"r", "a">>, <<"r", "a", "b">>, <<"s">>, <<"s", "b">>}
MCKeyOnly == {<<"s", "b">>}

(* The modes below root s are negative: the hashes have the sign bit set.  *)
MCModeOf ==
  [n \in MCNodes |-> IF n[1] = "s" THEN Len(n) - 8 ELSE 10 + Len(n)]
=============================================================================
