----------------------------- MODULE CommandLine -----------------------------
(***************************************************************************)
(* One line after the other through libcli: cut into words and stages,     *)
(* each stage looked up word by word and its options taken, the filters    *)
(* set up, the callback run with its output going through them, the        *)
(* filters torn down (cli_run_command and what it calls).                  *)
(*                                                                         *)
(* A step is one word, one filter, or one line of output.  What callbacks  *)
(* do is left open but for what the next line depends on: the mode, the    *)
(* privilege and the commands registered.                                  *)
(***************************************************************************)
EXTENDS Abbreviation, OutputFilter

CONSTANTS
  Early,         \* the commands onmcli registers before its first prompt
  Lines,         \* what may be typed: sequences of tokens [word, quoted]
  Texts,         \* the patterns an output line may contain
  BadPatterns,   \* the patterns regcomp refuses
  MaxWords,      \* CLI_MAX_LINE_WORDS
  MaxOutput      \* bound: lines one callback prints

PRIVILEGE_UNPRIVILEGED == 0

Pipe == "|"
Hyphen == "-"

Tokens == [word : Words, quoted : BOOLEAN]

(* An option has the name it is found by and the role by which the         *)
(* callback asks for its value.                                            *)
Options ==
  [role : STRING, name : Words, kind : {"argument", "flag", "option", "hyphenated"},
   checked : BOOLEAN, refuses : SUBSET Words, rest : BOOLEAN, recorded : BOOLEAN,
   mode : Int, privilege : Nat]

(* A command's callback does at most one thing; load-modules is an EXEC    *)
(* command, and filters are registered for any mode and with an init.  The *)
(* options of one command are registered with one mode and privilege, and  *)
(* for these cli_register_optarg takes each name once.                     *)
ASSUME CommandLineAssumption ==
  /\ Early \subseteq Commands
  /\ MaxWords \in Nat \ {0} /\ MaxOutput \in Nat
  /\ Lines \subseteq Seq(Tokens)
  /\ \A c \in Commands :
       /\ Cmd[c].does \in {"nothing", "print", "set mode", "set privilege", "load"}
       /\ Cmd[c].does = "load" => Cmd[c].mode = MODE_EXEC
       /\ Cmd[c].type = "filter" => Cmd[c].mode = MODE_ANY /\ Cmd[c].init # "none"
       /\ Cmd[c].init \in {"none", "include", "exclude", "grep", "range", "count"}
       /\ Cmd[c].sets \subseteq Int
       /\ Cmd[c].opts \in Seq(Options)
       /\ \A j, k \in DOMAIN Cmd[c].opts :
            Cmd[c].opts[j].role = Cmd[c].opts[k].role => j = k

VARIABLES
  mode, privilege,   \* cli->mode, cli->privilege
  registered,        \* the commands of cli->commands
  unique,            \* unique_len of each
  phase,             \* where cli_run_command is
  words,             \* pipeline->words
  command,           \* the command that the words of the stage name so far
  at,                \* the next word
  option,            \* the option the scan begins with
  found,             \* cli->found_optargs
  located,           \* the stages done: command, first_unmatched, found_optargs
  filters,           \* cli->filters
  printed,           \* history: the lines the callback printed
  asked,             \* history: the filters as their commands describe them
  screen,            \* what the client has read since the line was typed
  result,            \* what became of the line
  before             \* history: mode, privilege and commands before the line

vars == <<mode, privilege, registered, unique, phase, words, command, at, option,
          found, located, filters, printed, asked, screen, result, before>>

session == <<mode, privilege, registered, unique>>
lookup == <<words, command, at, option, found, located>>
execution == <<filters, printed, asked, screen>>

-----------------------------------------------------------------------------
(* Words and stages.                                                       *)

Split(line) ==
  LET leading == IF line # <<>> /\ line[1] = [word |-> <<Pipe>>, quoted |-> FALSE]
                 THEN << <<>> >> ELSE <<>>
  IN leading \o [i \in DOMAIN line |-> line[i].word]

(* Seeded bug: the last place of the array is filled as well.              *)
ParsedFull(line) == SubSeq(Split(line), 1, Min({Len(Split(line)), MaxWords}))

(* cli_parse_line: at most MaxWords - 1 words; a line that begins with a   *)
(* bare pipe has an empty word before it.                                  *)
Parsed(line) == SubSeq(Split(line), 1, Min({Len(Split(line)), MaxWords - 1}))

BeginsWith(w, letter) == w # <<>> /\ w[1] = letter

(* cli_int_generate_pipeline: any word that begins with a pipe ends a      *)
(* stage, a quoted one as well.                                            *)
Separators(ws) == {i \in DOMAIN ws : BeginsWith(ws[i], Pipe)}

StagesOf(ws) == Cardinality(Separators(ws)) + 1

Separator(ws, k) ==
  CHOOSE i \in Separators(ws) : Cardinality({j \in Separators(ws) : j <= i}) = k

FirstWord(ws, k) == IF k = 1 THEN 1 ELSE Separator(ws, k - 1) + 1

LastWord(ws, k) == IF k = StagesOf(ws) THEN Len(ws) ELSE Separator(ws, k) - 1

StageWords(k) == SubSeq(words, FirstWord(words, k), LastWord(words, k))

Stages == StagesOf(words)

Stage == Len(located) + 1     \* the stage being looked up

Kind == IF Stage = 1 THEN "regular" ELSE "filter"

-----------------------------------------------------------------------------
Init ==
  /\ mode = MODE_EXEC /\ privilege = PRIVILEGE_UNPRIVILEGED
  /\ registered = Early
  /\ unique = BuildShortest([c \in Commands |-> 0], Early, MODE_EXEC, PRIVILEGE_UNPRIVILEGED)
  /\ phase = "prompt"
  /\ words = <<>> /\ command = Top /\ at = 1 /\ option = 1 /\ found = <<>> /\ located = <<>>
  /\ filters = <<>> /\ printed = <<>> /\ asked = <<>> /\ screen = <<>>
  /\ result = "none"
  /\ before = [mode |-> mode, privilege |-> privilege, registered |-> registered]

(* The next stage is looked up; an empty one ends the line, without a      *)
(* message when there is no word at all.                                   *)
BeginStage(k, ws, done) ==
  /\ located' = done
  /\ words' = ws
  /\ command' = Top /\ option' = 1 /\ found' = <<>>
  /\ at' = FirstWord(ws, k)
  /\ IF FirstWord(ws, k) > LastWord(ws, k)
     THEN phase' = "answered" /\ result' = "refused"
     ELSE phase' = "locate" /\ UNCHANGED result

Type ==
  /\ phase = "prompt"
  /\ \E line \in Lines : BeginStage(1, Parsed(line), <<>>)
  /\ UNCHANGED <<session, execution, before>>

Refuse ==
  /\ phase' = "answered"
  /\ result' = "refused"
  /\ UNCHANGED <<lookup, execution, before>>

-----------------------------------------------------------------------------
(* The lookup of a word: cli_int_locate_command.                           *)

Candidates == Named(words[at], command, Kind, registered, unique, privilege)

HasChildren(c) == \E d \in registered : Cmd[d].under = c

HasCallback(c) == c # Top /\ Cmd[c].does # "nothing"

Runs(c) == HasCallback(c) \/ (Cmd[c].init # "none" /\ ~HasChildren(c))

GoesDeeper(c) == HasChildren(c) /\ at < LastWord(words, Stage)

(* Seeded bug: the lengths stay those of the submode.                      *)
FollowLookupKeepsLengths(S) ==
  IF LeavesSubmode(S, mode)
  THEN mode' = MODE_CONFIG /\ UNCHANGED <<privilege, registered, unique>>
  ELSE UNCHANGED session

(* cli_set_configmode, when the word names a command of the CONFIG mode    *)
(* only.                                                                   *)
FollowLookup(S) ==
  IF LeavesSubmode(S, mode)
  THEN /\ mode' = MODE_CONFIG
       /\ unique' = BuildShortest(unique, registered, MODE_CONFIG, privilege)
       /\ UNCHANGED <<privilege, registered>>
  ELSE UNCHANGED session

Descends(c) ==
  /\ c # NoCommand /\ GoesDeeper(c)
  /\ command' = c
  /\ at' = at + 1
  /\ UNCHANGED <<phase, words, option, found, located, execution, result, before>>

Matches(c) ==
  /\ c # NoCommand /\ ~GoesDeeper(c) /\ Runs(c)
  /\ command' = c
  /\ at' = at + 1
  /\ phase' = "options"
  /\ UNCHANGED <<words, option, found, located, execution, result, before>>

(* The word names no child: the command above takes it as an argument.     *)
TakesArguments(c) ==
  /\ c = NoCommand /\ HasCallback(command)
  /\ phase' = "options"
  /\ UNCHANGED <<lookup, execution, result, before>>

(* No such command, one without a callback, or an incomplete one.          *)
RefusesWord(c) ==
  /\ IF c = NoCommand THEN ~HasCallback(command) ELSE ~GoesDeeper(c) /\ ~Runs(c)
  /\ Refuse

(* The word at hand; the mode is left before anything else is looked at.   *)
LocateWord ==
  /\ phase = "locate"
  /\ \E S \in {Candidates} :
       /\ \E c \in {Locate(S, mode)} :
            Descends(c) \/ Matches(c) \/ TakesArguments(c) \/ RefusesWord(c)
       /\ FollowLookup(S)

-----------------------------------------------------------------------------
(* Its options: cli_int_parse_optargs.                                     *)

Opts == Cmd[command].opts

(* transient_mode is the mode the line began in.                           *)
Visible(o) == o.mode \in {MODE_ANY, mode, before.mode} /\ o.privilege <= privilege

(* The options a word may be for: from the current one up to the first     *)
(* argument.                                                               *)
Window ==
  {k \in option..Len(Opts) :
     /\ Visible(Opts[k])
     /\ \A j \in option..(k - 1) : Visible(Opts[j]) => Opts[j].kind # "argument"}

(* The word is for this option and no other.                               *)
Hits(w, o) ==
  \/ o.kind = "hyphenated" /\ BeginsWith(w, Hyphen)
  \/ o.kind = "flag" /\ IF o.checked THEN w \notin o.refuses ELSE w = o.name
  \/ o.kind = "option" /\ w = o.name

MayBeFor(w) ==
  LET hits == {k \in Window : Hits(w, Opts[k])}
  IN IF hits # {} THEN {Min(hits)}
     ELSE {k \in Window : Opts[k].kind = "argument" \/ IsPrefix(w, Opts[k].name)}

(* The value of an option is the next word of the line, which may be past  *)
(* the end of the stage.                                                   *)
ValueAt(k) == IF Opts[k].kind = "option" THEN at + 1 ELSE at

Accepted(k) ==
  /\ ValueAt(k) <= Len(words)
  /\ Opts[k].checked => words[ValueAt(k)] \notin Opts[k].refuses

ValueOf(k) ==
  IF Opts[k].rest THEN SubSeq(words, at, LastWord(words, Stage)) ELSE <<words[ValueAt(k)]>>

Scanning == phase = "options" /\ option <= Len(Opts) /\ at <= LastWord(words, Stage)

(* Seeded bug: a flag may be given without going on to the next word.      *)
AfterValueStays(k) == IF Opts[k].kind = "flag" THEN at ELSE ValueAt(k) + 1

AfterValue(k) == ValueAt(k) + 1

(* cli_set_optarg_value: a later value replaces an earlier one.            *)
WithValue(role, value) ==
  [r \in DOMAIN found \cup {role} |-> IF r = role THEN value ELSE found[r]]

TakeOption ==
  /\ Scanning
  /\ \E K \in {MayBeFor(words[at])} : \E k \in K :
       /\ K = {k}
       /\ Accepted(k)
       /\ Opts[k].recorded
       /\ found' = WithValue(Opts[k].role, ValueOf(k))
       /\ option' = IF Opts[k].kind = "argument" THEN k + 1 ELSE option
       /\ at' = AfterValue(k)
  /\ UNCHANGED <<session, phase, words, command, located, execution, result, before>>

(* Ambiguous, without a value, or with one its validator refuses.          *)
RefuseOption ==
  /\ Scanning
  /\ \E K \in {MayBeFor(words[at])} : Cardinality(K) > 1 \/ \E k \in K : ~Accepted(k)
  /\ Refuse
  /\ UNCHANGED session

(* No option is left, the stage is at its end, or the word is for none of  *)
(* them or for one that leaves its words to the callback.                  *)
ScanEnds ==
  /\ phase = "options"
  /\ Scanning =>
       \A K \in {MayBeFor(words[at])} :
         Cardinality(K) <= 1 /\ \A k \in K : Accepted(k) /\ ~Opts[k].recorded

(* Seeded bug: the option the scan stopped at counts as given.             *)
MissingAfter ==
  {k \in (option + 1)..Len(Opts) :
     Visible(Opts[k]) /\ Opts[k].kind = "argument" /\ Opts[k].recorded}

Missing ==
  {k \in option..Len(Opts) :
     Visible(Opts[k]) /\ Opts[k].kind = "argument" /\ Opts[k].recorded}

MissingArgument ==
  /\ ScanEnds
  /\ Missing # {}
  /\ Refuse
  /\ UNCHANGED session

Done ==
  Append(located, [command |-> command, first |-> at, found |-> found])

StageLocated ==
  /\ ScanEnds
  /\ Missing = {}
  /\ IF Stage < Stages
     THEN BeginStage(Stage + 1, words, Done)
     ELSE /\ located' = Done
          /\ phase' = "init"
          /\ UNCHANGED <<words, command, at, option, found, result>>
  /\ UNCHANGED <<session, execution, before>>

-----------------------------------------------------------------------------
(* The execution of the pipeline: cli_int_execute_pipeline.                *)

InFull(k) == words[FirstWord(words, k)] = Cmd[located[k].command].name

Value(k, role) ==
  IF role \in DOMAIN located[k].found THEN located[k].found[role] ELSE NoPattern

Inverts(k) ==
  LET flags == Value(k, "search_flags") IN flags # <<>> /\ "v" \in ToSet(flags[1])

(* The filter that the command of stage k is registered as.                *)
FilterOf(k) ==
  LET init == Cmd[located[k].command].init
      pattern == Value(k, "search_pattern")
  IN CASE init = "include" -> MatchFilter(pattern, FALSE)
       [] init = "exclude" -> MatchFilter(pattern, TRUE)
       [] init = "grep"    -> MatchFilter(pattern, Inverts(k))
       [] init = "range"   -> RangeFilter(Value(k, "range_start"), Value(k, "range_end"))
       [] init = "count"   -> CountFilter

(* The filter that its init sets up.  cli_match_filter_init goes by the    *)
(* word typed: an abbreviation is neither include, exclude nor grep, and   *)
(* the filter then reads the first bytes of a regex_t, a pointer, as the   *)
(* string to look for: an empty one, or one that no line has.              *)
FiltersMade(k) ==
  IF Cmd[located[k].command].init \in {"include", "exclude", "grep"} /\ ~InFull(k)
  THEN {MatchFilter(p, Inverts(k)) : p \in {EmptyText, NoPattern}}
  ELSE {FilterOf(k)}

(* Only include and exclude typed in full do not compile their pattern.    *)
InitFails(k) ==
  LET init == Cmd[located[k].command].init
  IN \/ init = "count" /\ Len(StageWords(k)) > 1
     \/ /\ init = "grep" \/ (init \in {"include", "exclude"} /\ ~InFull(k))
        /\ Value(k, "search_pattern") \in BadPatterns

ToSetUp == Len(filters) + 2     \* the stage of the next filter

InitFilter ==
  /\ phase = "init"
  /\ ToSetUp <= Stages
  /\ ~InitFails(ToSetUp)
  /\ \E f \in FiltersMade(ToSetUp) : filters' = Append(filters, f)
  /\ asked' = Append(asked, FilterOf(ToSetUp))
  /\ UNCHANGED <<session, phase, lookup, printed, screen, result, before>>

(* The callback is not run; the filters set up so far are torn down.       *)
InitFilterFails ==
  /\ phase = "init"
  /\ ToSetUp <= Stages
  /\ InitFails(ToSetUp)
  /\ phase' = "teardown"
  /\ result' = "failed"
  /\ UNCHANGED <<session, lookup, execution, before>>

RunCallback ==
  /\ phase = "init"
  /\ ToSetUp > Stages
  /\ phase' = "run"
  /\ UNCHANGED <<session, lookup, execution, result, before>>

Running(does) == phase = "run" /\ Cmd[located[1].command].does = does

(* _print: the line goes down the filters.                                 *)
PrintLine ==
  /\ Running("print")
  /\ Len(printed) < MaxOutput
  /\ \E line \in SUBSET Texts :
       /\ printed' = Append(printed, line)
       /\ filters' = Filtered(filters, line)
       /\ screen' = IF Printed(filters, line) THEN Append(screen, <<"line", line>>) ELSE screen
  /\ UNCHANGED <<session, phase, lookup, asked, result, before>>

Returns ==
  /\ phase' = "teardown"
  /\ result' = "done"
  /\ UNCHANGED <<lookup, execution, before>>

PrintedAll ==
  /\ Running("print")
  /\ Returns
  /\ UNCHANGED session

(* cli_set_configmode: enable, configure, exit and the commands of a list  *)
(* or a container.                                                         *)
SetsMode ==
  /\ Running("set mode")
  /\ Returns
  /\ \E m \in Cmd[located[1].command].sets :
       /\ mode' = m
       /\ unique' = IF m = mode THEN unique ELSE BuildShortest(unique, registered, m, privilege)
  /\ UNCHANGED <<privilege, registered>>

SetsPrivilege ==
  /\ Running("set privilege")
  /\ Returns
  /\ \E p \in Cmd[located[1].command].sets :
       /\ privilege' = p
       /\ unique' = IF p = privilege THEN unique ELSE BuildShortest(unique, registered, mode, p)
  /\ UNCHANGED <<mode, registered>>

(* load-modules registers the rest; their unique_len stays 0.              *)
Loads ==
  /\ Running("load")
  /\ Returns
  /\ registered' = Commands
  /\ UNCHANGED <<mode, privilege, unique>>

(* The first filter goes; a count filter tells the client its number.      *)
TearDown ==
  /\ phase = "teardown"
  /\ filters # <<>>
  /\ filters' = Tail(filters)
  /\ screen' = IF Head(filters).kind = "count"
               THEN Append(screen, <<"count", Head(filters).count>>) ELSE screen
  /\ UNCHANGED <<session, phase, lookup, printed, asked, result, before>>

TornDown ==
  /\ phase = "teardown"
  /\ filters = <<>>
  /\ phase' = "answered"
  /\ UNCHANGED <<session, lookup, execution, result, before>>

(* cli_int_free_pipeline, and the next prompt.                             *)
Free ==
  /\ phase = "answered"
  /\ phase' = "prompt"
  /\ words' = <<>> /\ command' = Top /\ at' = 1 /\ option' = 1 /\ found' = <<>> /\ located' = <<>>
  /\ filters' = <<>> /\ printed' = <<>> /\ asked' = <<>> /\ screen' = <<>>
  /\ result' = "none"
  /\ before' = [mode |-> mode, privilege |-> privilege, registered |-> registered]
  /\ UNCHANGED session

Answer ==
  \/ LocateWord
  \/ TakeOption \/ RefuseOption \/ MissingArgument \/ StageLocated
  \/ InitFilter \/ InitFilterFails \/ RunCallback
  \/ PrintLine \/ PrintedAll \/ SetsMode \/ SetsPrivilege \/ Loads
  \/ TearDown \/ TornDown \/ Free

Next == Type \/ Answer

(* The program is one thread that never waits between the line and the     *)
(* prompt.                                                                 *)
Spec == Init /\ [][Next]_vars /\ WF_vars(Answer)

-----------------------------------------------------------------------------
(* Correctness.                                                            *)

(* Every variable of the line and of the session is within its type.       *)
TypeOK ==
  /\ mode \in Int /\ privilege \in Int
  /\ registered \subseteq Commands
  /\ unique \in [Commands -> Nat]
  /\ phase \in {"prompt", "locate", "options", "init", "run", "teardown", "answered"}
  /\ words \in Seq(Words) /\ Len(words) < MaxWords
  /\ command \in Commands \cup {Top}
  /\ at \in 1..(Len(words) + 1)
  /\ option \in Nat \ {0}
  /\ phase \in {"locate", "options"} => Stage <= Stages
  /\ phase \in {"init", "run", "teardown"} =>
       Len(located) = Stages /\ Len(filters) <= Len(asked) /\ Len(asked) < Stages
  /\ printed \in Seq(SUBSET Texts) /\ Len(printed) <= MaxOutput
  /\ result \in {"none", "refused", "failed", "done"}

(* cli_build_shortest, run by cli_set_configmode and cli_set_privilege and *)
(* by nothing else, is enough: whatever the mode, the privilege and the    *)
(* commands went through, a length that was ever computed is the one it    *)
(* would compute now from the commands registered by then.                 *)
LengthsExact ==
  LET counted == {c \in registered : unique[c] # 0}
  IN \A c \in counted : Reached(c, mode, privilege) =>
       unique[c] = UniqueLen(c, counted, mode, privilege)

LengthsCurrent == phase = "prompt" => LengthsExact

(* Nobody runs a command they did not name: a word that stands for one is  *)
(* its whole name, or begins no other command offered beside it; except    *)
(* that load-modules may have registered one of them since the lengths     *)
(* were computed.                                                          *)
AbbreviationUnique ==
  phase \in {"locate", "options"} /\ command # Top /\ found = <<>> =>
    LET w == words[at - 1]
    IN \/ w = Cmd[command].name
       \/ \A d \in OfferedPeers(command, registered, mode, privilege) :
            IsPrefix(w, Cmd[d].name) =>
              0 \in {unique[d], unique[command]}

(* A chain of which every length was computed.                             *)
Computed(under, type) ==
  \A c \in registered : Cmd[c].under = under /\ Cmd[c].type = type => unique[c] # 0

(* The chains that the lookup and completion may come to.                  *)
Chains == {<<Top, "filter">>} \cup
  {<<under, "regular">> :
     under \in {Top} \cup {c \in registered : Reached(c, mode, privilege) /\ Offered(c, mode, privilege)}}

(* A command's full name selects a command of that name, without leaving   *)
(* the mode, wherever TAB and ? offer it.                                  *)
FullNameSelects(under, type) ==
  \A c \in Completions(<<>>, under, type, registered, mode, privilege) :
    LET S == Named(Cmd[c].name, under, type, registered, unique, privilege)
    IN /\ Locate(S, mode) # NoCommand /\ Cmd[Locate(S, mode)].name = Cmd[c].name
       /\ ~LeavesSubmode(S, mode)

(* Completion goes down to the command that the lookup would take.         *)
DescentAgrees(under, type) ==
  \A c \in {d \in registered : Cmd[d].under = under} : \A n \in 0..Len(Cmd[c].name) :
    LET w == SubSeq(Cmd[c].name, 1, n)
        d == Descend(w, under, type, registered, unique, mode, privilege)
    IN d # NoCommand =>
         Locate(Named(w, under, type, registered, unique, privilege), mode) = d

(* Names that completion can rely on: in a chain none is that of a command *)
(* of MODE_ANY, and none of MODE_CONFIG is the beginning of such a one.    *)
(* Nothing but the choice of names in the program and the YANG modules     *)
(* provides it.                                                            *)
NamesApart ==
  \A c \in Commands : \A d \in Siblings[c] :
    Cmd[d].mode = MODE_ANY =>
      /\ Cmd[c].name # Cmd[d].name
      /\ Cmd[c].mode = MODE_CONFIG => ~IsPrefix(Cmd[c].name, Cmd[d].name)

(* Completion (cli_get_completions) and execution (cli_int_locate_command) *)
(* walk the same tree by code of their own: what the one offers the other  *)
(* accepts, in every mode and at every privilege, once the lengths of the  *)
(* chain were computed.                                                    *)
CompletionAgrees ==
  phase = "prompt" =>
    \A chain \in Chains :
      Computed(chain[1], chain[2]) =>
        FullNameSelects(chain[1], chain[2]) /\ DescentAgrees(chain[1], chain[2])

(* The full name of an offered command selects a command of that name,     *)
(* whatever was registered before.  It does not: load-modules leaves       *)
(* unique_len 0, which any word that begins the name satisfies, and of two *)
(* MODE_ANY commands the second is taken.                                  *)
FullNameWins ==
  phase = "prompt" => \A chain \in Chains : FullNameSelects(chain[1], chain[2])

(* A line that is refused changes nothing, but that it leaves a submode    *)
(* for the CONFIG mode when a word of it is the full name of a command of  *)
(* that mode: the lookup changes the mode before it knows that the rest of *)
(* the line is good.                                                       *)
RefusedOnlyLeaves ==
  phase = "answered" /\ result = "refused" =>
    /\ privilege = before.privilege /\ registered = before.registered
    /\ mode # before.mode =>
         /\ before.mode > MODE_CONFIG /\ mode = MODE_CONFIG
         /\ \E i \in DOMAIN words, c \in registered :
              words[i] = Cmd[c].name /\ Cmd[c].mode = MODE_CONFIG

(* When the callback runs, every stage has all the arguments its command   *)
(* requires in the present mode, each one a text of that stage that the    *)
(* option's validator accepts: callbacks read them without a check.        *)
ArgumentsHold ==
  phase = "run" =>
    \A k \in DOMAIN located :
      LET opts == Cmd[located[k].command].opts
      IN \A j \in DOMAIN opts :
           Visible(opts[j]) /\ opts[j].kind = "argument" /\ opts[j].recorded =>
             LET value == Value(k, opts[j].role)
             IN /\ value # NoPattern
                /\ \E i \in FirstWord(words, k)..LastWord(words, k) :
                     value = SubSeq(words, i, i + Len(value) - 1) /\ i + Len(value) - 1 <= LastWord(words, k)
                /\ opts[j].checked => value[1] \notin opts[j].refuses

InFullSoFar == \A k \in 2..(Len(asked) + 1) : InFull(k)

(* What the client reads is what the pipeline means: the lines that every  *)
(* filter passes, each filter fed with the output of the one before it,    *)
(* and then the numbers of the count filters in order; also when a filter  *)
(* could not be set up and the callback was not run.                       *)
OutputIsMeaning ==
  phase = "answered" /\ result \in {"done", "failed"} /\ InFullSoFar =>
    screen = Meaning(asked, printed)

(* Every line typed is answered: the lookup, the scan of the options, the  *)
(* filters and the callback come back to the prompt.                       *)
LineAnswered == phase # "prompt" ~> phase = "prompt"
=============================================================================
