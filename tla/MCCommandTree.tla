---------------------------- MODULE MCCommandTree ----------------------------
(* Four small modules.  ma and mb have a node name in common at the top    *)
(* level (box); ma has containers three deep, an ordered list, lists in    *)
(* lists, state data and a second root; mb a choice in a choice, with a    *)
(* container that shares its name with the case around it; mc is one list; *)
(* md has no data.                                                         *)
EXTENDS CommandTree

MCModules == {"ma", "mb", "mc", "md"}

MCData ==
  [m \in MCModules |->
     CASE m = "ma" -> << <<"ma", "root">>,
                         <<"ma", "root", "box">>,
                         <<"ma", "root", "box", "in">>,
                         <<"ma", "root", "box", "in", "v">>,
                         <<"ma", "root", "item">>,
                         <<"ma", "root", "item", "sub">>,
                         <<"ma", "root", "item", "stat">>,
                         <<"ma", "aux">> >>
       [] m = "mb" -> << <<"mb", "lib">>,
                         <<"mb", "lib", "box">>,
                         <<"mb", "lib", "alt">>,
                         <<"mb", "lib", "alt", "x">>,
                         <<"mb", "lib", "alt", "x", "x">>,
                         <<"mb", "lib", "alt", "x", "x", "w">>,
                         <<"mb", "lib", "alt", "y">>,
                         <<"mb", "lib", "alt", "y", "again">>,
                         <<"mb", "lib", "alt", "y", "again", "z">>,
                         <<"mb", "lib", "alt", "y", "again", "z", "b">>,
                         <<"mb", "lib", "alt", "u">> >>
       [] m = "mc" -> << <<"mc", "tab">>, <<"mc", "tab", "any">> >>
       [] m = "md" -> << >>]

MCKind ==
  [n \in UNION {Range(MCData[m]) : m \in MCModules} |->
     CASE n \in {<<"ma", "root", "item">>, <<"ma", "root", "item", "sub">>,
                 <<"mc", "tab">>} -> "list"
       [] n \in {<<"mb", "lib", "box">>, <<"ma", "root", "box", "in", "v">>,
                 <<"ma", "root", "item", "stat">>,
                 <<"mb", "lib", "alt", "x", "x", "w">>,
                 <<"mb", "lib", "alt", "y", "again", "z", "b">>} -> "leaf"
       [] n \in {<<"mb", "lib", "alt">>, <<"mb", "lib", "alt", "y", "again">>} -> "choice"
       [] n \in {<<"mb", "lib", "alt", "x">>, <<"mb", "lib", "alt", "y">>,
                 <<"mb", "lib", "alt", "y", "again", "z">>,
                 <<"mb", "lib", "alt", "u">>} -> "case"
       [] n = <<"mc", "tab", "any">> -> "other"
       [] OTHER -> "container"]

MCReadOnly == {<<"ma", "root", "item", "stat">>}
MCUserOrdered == {<<"ma", "root", "item">>, <<"mc", "tab">>}
MCOrg == [m \in MCModules |-> "org"]
MCLibNames == {"lib"}
=============================================================================
