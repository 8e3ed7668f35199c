---------------------------- MODULE MCCommandLine ----------------------------
(***************************************************************************)
(* CommandLine over a tree with what the program's own has: a prefix       *)
(* shared by commands of one mode and of MODE_ANY, a name that begins      *)
(* another one, one name in two modes, a command with children and a       *)
(* callback, commands registered by load-modules, options of each kind,    *)
(* every kind of filter.                                                   *)
(***************************************************************************)
EXTENDS CommandLine

mcLetters == {"a", "b", "c", "d", "s", "v", "p", "f", "|", "-"}

Submode == 7
OddSubmode == -7

(* path: the command above, the one above that, and so on.                 *)
Regular(name, path, m, p, does, sets, opts) ==
  [name |-> name, under |-> IF path = <<>> THEN Top ELSE path[1], above |-> ToSet(path),
   type |-> "regular", mode |-> m, privilege |-> p,
   does |-> does, sets |-> sets, init |-> "none", opts |-> opts]

Filter(name, init, opts) ==
  [name |-> name, under |-> Top, above |-> {}, type |-> "filter", mode |-> MODE_ANY, privilege |-> 0,
   does |-> "nothing", sets |-> {}, init |-> init, opts |-> opts]

Opt(role, name, kind, refuses, rest, recorded) ==
  [role |-> role, name |-> name, kind |-> kind, checked |-> refuses # {}, refuses |-> refuses,
   rest |-> rest, recorded |-> recorded, mode |-> MODE_ANY, privilege |-> 0]

W1 == <<"a">>
W2 == <<"b">>
Ab == <<"a", "b">>
Flag == <<"-", "v">>
Bare == <<"|">>

Argument(role, rest) == Opt(role, <<"s", "p">>, "argument", {}, rest, TRUE)

SearchOptions ==
  << Opt("search_flags", <<"s", "f">>, "hyphenated", {<<"-">>}, FALSE, TRUE),
     Argument("search_pattern", TRUE) >>

mcCmd ==
  << Regular(<<"s">>, <<>>, MODE_ANY, 0, "nothing", {}, <<>>),
     Regular(<<"c">>, <<1>>, MODE_ANY, 0, "print", {},
             << Opt("format", <<"d">>, "option", {}, FALSE, TRUE) >>),
     Regular(<<"a", "b">>, <<>>, MODE_EXEC, 0, "set privilege", {0, 15}, <<>>),
     Regular(<<"a", "c">>, <<>>, MODE_EXEC, 15, "set mode", {MODE_CONFIG}, <<>>),
     Regular(<<"a">>, <<>>, MODE_ANY, 0, "set mode", {MODE_EXEC, MODE_CONFIG}, <<>>),
     Regular(<<"b">>, <<>>, MODE_EXEC, 15, "load", {}, <<>>),
     Regular(<<"d">>, <<>>, MODE_ANY, 0, "print", {}, <<>>),
     Filter(<<"b", "a">>, "include", << Argument("search_pattern", TRUE) >>),
     Filter(<<"b", "b">>, "exclude", << Argument("search_pattern", TRUE) >>),
     Filter(<<"c", "b">>, "grep", SearchOptions),
     Filter(<<"a">>, "range",
            << Opt("range_start", <<"s">>, "argument", {}, FALSE, TRUE), Argument("range_end", TRUE) >>),
     Filter(<<"d">>, "count", <<>>),
     Regular(<<"v">>, <<>>, MODE_EXEC, 0, "print", {}, <<>>),
     \* registered by load-modules
     Regular(<<"c", "c">>, <<1>>, MODE_ANY, 0, "print", {}, <<>>),
     Regular(<<"a">>, <<14, 1>>, MODE_ANY, 0, "print", {}, <<>>),
     Regular(<<"a", "b">>, <<14, 1>>, MODE_ANY, 0, "print", {}, <<>>),
     Regular(<<"b">>, <<>>, MODE_CONFIG, 15, "set mode", {Submode, OddSubmode}, <<>>),
     Regular(<<"a", "c">>, <<>>, MODE_CONFIG, 15, "set mode", {Submode}, 
             << Opt("key", <<"s">>, "argument", {<<"b">>}, FALSE, TRUE),
                Opt("diff", <<"d">>, "flag", {}, FALSE, TRUE) >>),
     Regular(<<"b", "b">>, <<>>, Submode, 15, "print", {},
             << Opt("values", <<"s">>, "argument", {}, FALSE, FALSE) >>),
     Regular(<<"a", "c">>, <<7>>, OddSubmode, 15, "print", {}, <<>>) >>

mcCommands == DOMAIN mcCmd
mcEarly == 1..13

Token(w) == [word |-> w, quoted |-> FALSE]

mcTokens ==
  {Token(w) : w \in {<<"s">>, <<"a">>, <<"b">>, <<"c">>, <<"d">>, <<"a","b">>, <<"a", "c">>, <<"b", "b">>, Bare}}
  \cup {[word |-> <<>>, quoted |-> TRUE], [word |-> Bare, quoted |-> TRUE]}

ShortLines ==
  UNION {[1..n -> mcTokens] : n \in 0..2}
  \cup {<<Token(w), t, u>> : w \in {<<"s">>, <<"a", "c">>}, t \in mcTokens, u \in mcTokens}

Typed(ws) == [i \in DOMAIN ws |-> Token(ws[i])]

Match == << <<"b", "a">>, W1 >>
Invert == << <<"b", "b">>, W1 >>
Between == << <<"a">>, W1, W2 >>
Grep == << <<"c", "b">>, Flag, W2 >>
Abbreviated == << <<"c">>, W2 >>
Count == << <<"d">> >>

(* Filters that are set up, alone and in pairs, and lines that are refused *)
(* or fail: an ambiguous word, a bad pattern, an argument missing or too   *)
(* many, a pipe taken as the value of an option.                           *)
PipedLines ==
  {Typed(<< <<"v">>, Bare >> \o f \o << Bare >> \o g) :
     f \in {Match, Invert, Between, Grep, Count}, g \in {Match, Between, Count}}
  \cup {Typed(<< <<"v">>, Bare >> \o f) :
     f \in {Match, Invert, Between, Grep, Abbreviated, Count,
            << <<"c">>, <<"s">> >>, << <<"c">>, <<"c">> >>, Count \o <<Bare, <<"c">>, <<"c">> >>, << <<"a">>, W1 >>, << <<"d">>, W1 >>}}
  \cup {Typed(<< <<"s">>, <<"c">>, <<"d">>, Bare >> \o Count)}

mcLines == ShortLines \cup PipedLines

mcTexts == {<<W1>>, <<W2>>}
mcBadPatterns == {<< <<"c">> >>}

ASSUME NamesApart
=============================================================================
