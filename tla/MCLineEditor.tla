---------------------------- MODULE MCLineEditor ----------------------------
(* Small instances of the line editor: two letters of which one is an      *)
(* upper-case form of the other, or a key's letter, and short words.       *)
EXTENDS LineEditor

Folded(pairs) == [c \in Chars |-> IF c \in DOMAIN pairs THEN pairs[c] ELSE c]

MCFold == Folded([A |-> "a"])

TwoLetters    == {"a", "b"}
RecallLetters == {"a", "A", "b", "["}

EditBytes == {"^A", "^B", "^E", "^F", "^H", "^I", "^K", "^L", "^U", "^W",
              "CR", "a", " ", "?"}
RecallBytes == {"a", "A", "b", "[", "ESC", "IAC", "OPT", "^C", "NL", "^N", "^H",
                "^A", "^D", "^Z", "CR"}

ForkedWords == {<<"a", "a">>, <<"a", "b">>}
NoWords == {}

HistoryCommand == {<<"[">>}
AllLines == UNION {[1..n -> Chars] : n \in 1..MaxLine}
=============================================================================
