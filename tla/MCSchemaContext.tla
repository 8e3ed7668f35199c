--------------------------- MODULE MCSchemaContext ---------------------------
(* Small instances of SchemaContext: two roots, a list below one of them.  *)
EXTENDS SchemaContext

mcNames == {"r", "s", "a"}
mcNodes == {<<"r">>, <<"r", "a">>, <<"s">>}
mcKeyOnly == {}
mcModeOf ==
  [n \in mcNodes |-> IF n[1] = "s" THEN -7 ELSE 10 + Len(n)]
===============================================================================
