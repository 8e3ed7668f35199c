----------------------------- MODULE Abbreviation -----------------------------
(***************************************************************************)
(* Which command a word names: libcli accepts the shortest prefix that is  *)
(* unique among the commands offered, and keeps its length in the command  *)
(* (unique_len), so that the lookup of a word does not compare commands.   *)
(*                                                                         *)
(* A command is a number: the order of registration, which is the order of *)
(* the chain it is in.  A word is a sequence of letters; upper and lower   *)
(* case are one letter.                                                    *)
(***************************************************************************)
EXTENDS Integers, FiniteSets, SequencesExt

CONSTANTS
  Commands,         \* the commands there may be
  Cmd,              \* their contents: struct cli_command
  Letters           \* what a word is made of

MODE_ANY == -1
MODE_EXEC == 0
MODE_CONFIG == 1

Top == 0            \* the chain cli->commands

NoCommand == -1

Words == Seq(Letters)

(* A command's contents; under is the command whose chain of children it   *)
(* is in, above is that one and all above it.  A command above another one *)
(* is of MODE_ANY or of the same mode: the generators register what is     *)
(* below a node with mode = parent_cmd->mode, the program its own likewise.*)
ASSUME CommandAssumption ==
  /\ Commands \subseteq Nat \ {0}
  /\ IsFiniteSet(Commands)
  /\ \A c \in Commands :
       /\ Cmd[c].name \in Words \ {<<>>}
       /\ Cmd[c].under \in Commands \cup {Top}
       /\ Cmd[c].under < c
       /\ Cmd[c].above =
            IF Cmd[c].under = Top THEN {} ELSE Cmd[Cmd[c].under].above \cup {Cmd[c].under}
       /\ \A d \in Cmd[c].above : Cmd[d].mode \in {MODE_ANY, Cmd[c].mode}
       /\ Cmd[c].type \in {"regular", "filter"}
       /\ Cmd[c].mode \in Int
       /\ Cmd[c].privilege \in Nat

(* strncasecmp of two names, as cli_build_shortest counts: the letters     *)
(* that agree, and the one after them.                                     *)
UniqueFrom(a, b) ==
  Max({n \in 1..(Len(a) + 1) : IsPrefix(SubSeq(a, 1, n - 1), b)})

Agreement ==
  [c \in Commands |-> [d \in Commands |-> UniqueFrom(Cmd[c].name, Cmd[d].name)]]

Offered(c, mode, privilege) ==
  /\ Cmd[c].mode \in {MODE_ANY, mode}
  /\ Cmd[c].privilege <= privilege

(* The commands of one chain and type, which compete for words.            *)
Siblings ==
  [c \in Commands |->
     {d \in Commands \ {c} : Cmd[d].under = Cmd[c].under /\ Cmd[d].type = Cmd[c].type}]

OfferedPeers(c, reg, mode, privilege) ==
  {d \in Siblings[c] \cap reg : Offered(d, mode, privilege)}

(* The longest agreement with one of them, at least 1.                     *)
Longest(c, peers) ==
  CHOOSE n \in 1..(Len(Cmd[c].name) + 1) :
    /\ \A d \in peers : Agreement[c][d] <= n
    /\ n = 1 \/ \E d \in peers : Agreement[c][d] = n

(* All of the name for a command that is not offered itself.               *)
UniqueLen(c, reg, mode, privilege) ==
  IF Offered(c, mode, privilege)
  THEN Longest(c, OfferedPeers(c, reg, mode, privilege))
  ELSE Len(Cmd[c].name)

(* cli_build_shortest does not go below a command that is not offered.     *)
Reached(c, mode, privilege) ==
  \A d \in Cmd[c].above : Offered(d, mode, privilege)

(* Seeded bug: the commands of MODE_ANY are not compared with.             *)
BuildShortestNoAny(unique, reg, mode, privilege) ==
  [c \in Commands |->
     IF c \in reg /\ Reached(c, mode, privilege)
     THEN UniqueLen(c, {d \in reg : Cmd[d].mode # MODE_ANY}, mode, privilege)
     ELSE unique[c]]

(* cli_build_shortest                                                      *)
BuildShortest(unique, reg, mode, privilege) ==
  [c \in Commands |->
     IF c \in reg /\ Reached(c, mode, privilege)
     THEN UniqueLen(c, reg, mode, privilege)
     ELSE unique[c]]

-----------------------------------------------------------------------------
(* The word w is a prefix of c's name, long enough or all of it.           *)
Names(w, c, unique) ==
  /\ IsPrefix(w, Cmd[c].name)
  /\ Len(w) >= unique[c] \/ w = Cmd[c].name

(* The commands of a chain that a word names, in any mode.                 *)
Named(w, under, type, reg, unique, privilege) ==
  {c \in reg : /\ Cmd[c].under = under
               /\ Cmd[c].type = type
               /\ Cmd[c].privilege <= privilege
               /\ Names(w, c, unique)}

(* What cli_int_locate_command takes in the loop over the chain: the first *)
(* command of the current mode, or the second of MODE_ANY.                 *)
TakenInLoop(S, mode) ==
  {c \in S : \/ Cmd[c].mode = mode
             \/ Cmd[c].mode = MODE_ANY
                /\ \E d \in S : d < c /\ Cmd[d].mode = MODE_ANY}

(* Seeded bug: the mode number is taken for an unsigned one.               *)
AgainConfigUnsigned(S, mode) ==
  {c \in S : mode \notin {MODE_EXEC, MODE_CONFIG} /\ Cmd[c].mode = MODE_CONFIG}

(* What it remembers for after the loop.                                   *)
AgainConfig(S, mode) ==
  {c \in S : mode > MODE_CONFIG /\ Cmd[c].mode = MODE_CONFIG}

AgainAny(S) == {c \in S : Cmd[c].mode = MODE_ANY}

(* The command taken from the chain, NoCommand for CLI_ERROR_ARG.          *)
Locate(S, mode) ==
  IF TakenInLoop(S, mode) # {} THEN Min(TakenInLoop(S, mode))
  ELSE IF AgainConfig(S, mode) # {} THEN Max(AgainConfig(S, mode))
  ELSE IF AgainAny(S) # {} THEN Max(AgainAny(S))
  ELSE NoCommand

(* The lookup leaves the submode for the command it takes.                 *)
LeavesSubmode(S, mode) ==
  TakenInLoop(S, mode) = {} /\ AgainConfig(S, mode) # {}

-----------------------------------------------------------------------------
(* Completion: cli_get_completions.                                        *)

(* The commands a chain offers for the last word of the line.              *)
Completions(w, under, type, reg, mode, privilege) ==
  {c \in reg : /\ Cmd[c].under = under
               /\ Cmd[c].type = type
               /\ Offered(c, mode, privilege)
               /\ IsPrefix(w, Cmd[c].name)}

(* Seeded bug: a word before the last goes to the first command it begins. *)
DescendLoosely(w, under, type, reg, unique, mode, privilege) ==
  LET S == Completions(w, under, type, reg, mode, privilege)
  IN IF S = {} THEN NoCommand ELSE Min(S)

(* The command it takes for a word before the last: the first one that is  *)
(* offered and that the word names.                                        *)
Descend(w, under, type, reg, unique, mode, privilege) ==
  LET S == {c \in Completions(w, under, type, reg, mode, privilege) :
              Names(w, c, unique)}
  IN IF S = {} THEN NoCommand ELSE Min(S)
=============================================================================
