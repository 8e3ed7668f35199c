----------------------------- MODULE OutputFilter -----------------------------
(***************************************************************************)
(* The filters of a pipeline: what each does to the lines printed through  *)
(* it (cli_match_filter, cli_range_filter, cli_count_filter).              *)
(*                                                                         *)
(* A pattern is a sequence of words, and a line is the set of the patterns *)
(* found in it; a blank line is the empty one.                             *)
(***************************************************************************)
EXTENDS Integers, FiniteSets, SequencesExt

EmptyText == << <<>> >>    \* the pattern of one empty word: found in any line

NoPattern == <<>>          \* found in none

Finds(line, pattern) == pattern = EmptyText \/ pattern \in line

(* A filter after its init: kind, the patterns, whether the match is       *)
(* inverted, and its state: a range is open, lines counted.                *)
MatchFilter(pattern, inverted) ==
  [kind |-> "match", from |-> pattern, to |-> NoPattern,
   inverted |-> inverted, matched |-> FALSE, count |-> 0]

RangeFilter(from, to) ==
  [kind |-> "range", from |-> from, to |-> to,
   inverted |-> FALSE, matched |-> FALSE, count |-> 0]

CountFilter ==
  [kind |-> "count", from |-> NoPattern, to |-> NoPattern,
   inverted |-> FALSE, matched |-> FALSE, count |-> 0]

Blank(line) == line = {}

Opens(f, line) == f.matched \/ Finds(line, f.from)

(* The filter lets the line pass.                                          *)
Passes(f, line) ==
  CASE f.kind = "match" -> Finds(line, f.from) # f.inverted
    [] f.kind = "range" -> Opens(f, line)
    [] OTHER            -> FALSE

(* Seeded bug: a range is not closed.                                      *)
AfterNeverCloses(f, line) ==
  CASE f.kind = "range" -> [f EXCEPT !.matched = Opens(f, line)]
    [] f.kind = "count" -> [f EXCEPT !.count = IF Blank(line) THEN @ ELSE @ + 1]
    [] OTHER            -> f

(* Its state after the line.                                               *)
After(f, line) ==
  CASE f.kind = "range" -> [f EXCEPT !.matched = Opens(f, line) /\ ~Finds(line, f.to)]
    [] f.kind = "count" -> [f EXCEPT !.count = IF Blank(line) THEN @ ELSE @ + 1]
    [] OTHER            -> f

(* The loop of _print: a line goes down the list until a filter stops it.  *)
Sees(fs, i, line) == \A j \in 1..(i - 1) : Passes(fs[j], line)

Filtered(fs, line) ==
  [i \in DOMAIN fs |-> IF Sees(fs, i, line) THEN After(fs[i], line) ELSE fs[i]]

Printed(fs, line) == \A i \in DOMAIN fs : Passes(fs[i], line)

-----------------------------------------------------------------------------
(* What a pipeline means, with each filter as a function of the whole of   *)
(* its input: the reference the code is compared with.                     *)

(* Line i is in a range: one before it, or itself, begins the range, and   *)
(* none from there up to the one before it ends it.                        *)
InRange(f, ls, i) ==
  \E j \in 1..i : /\ Finds(ls[j], f.from)
                  /\ \A k \in j..(i - 1) : ~Finds(ls[k], f.to)

PositionsKept(f, ls) ==
  CASE f.kind = "match" -> {i \in DOMAIN ls : Finds(ls[i], f.from) # f.inverted}
    [] f.kind = "range" -> {i \in DOMAIN ls : InRange(f, ls, i)}
    [] OTHER            -> {}

(* The k-th of the numbers in I.                                          *)
Kth(I, k) == CHOOSE i \in {j \in I : Cardinality({h \in I : h <= j}) = k} : TRUE

(* The members of ls at the positions I, in their order.                   *)
At(ls, I) == [k \in 1..Cardinality(I) |-> ls[Kth(I, k)]]

(* The input of each filter and, last, the output of the pipeline.         *)
Through(fs, ls) ==
  LET through[i \in 0..Len(fs)] ==
        IF i = 0 THEN ls
        ELSE At(through[i - 1], PositionsKept(fs[i], through[i - 1]))
  IN through

NonBlank(ls) == Cardinality({i \in DOMAIN ls : ~Blank(ls[i])})

(* What the client reads: the lines that pass every filter, and then the   *)
(* numbers of the count filters, which go to the client directly.          *)
Meaning(fs, ls) ==
  LET out == Through(fs, ls)[Len(fs)]
      counts == At([i \in DOMAIN fs |-> NonBlank(Through(fs, ls)[i - 1])],
                   {i \in DOMAIN fs : fs[i].kind = "count"})
  IN [i \in DOMAIN out |-> <<"line", out[i]>>]
     \o [i \in DOMAIN counts |-> <<"count", counts[i]>>]
=============================================================================
