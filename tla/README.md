# onmcli: TLA+ models, model checks and proofs

onmcli is a command line for [sysrepo](https://www.sysrepo.org): it generates
commands from the YANG modules that sysrepo has loaded, edits a candidate
configuration in memory with them, and commits it to sysrepo's running
datastore.  This directory models the program in TLA+, checks the models with
TLC and proves the main results with TLAPS.

Paths below are relative to the repository's root; `libcli` is
`lib/libcli/libcli.c`.

## 1. The system

| Component | Files | State | Operations | What makes it correct |
|---|---|---|---|---|
| Configuration session | `src/commands/default_cmd.c`, `src/commands/yang_core/cmd_*.c`, `data_factory.c` | `config_root_tree` (list of root subtrees, each with a `node`), `parent_data`, `curr_root` | root, list and leaf commands and their `no` forms, commit, discard-changes, exit, show config-candidate | the node the commands edit is the one the prompt names; nothing freed is used; changes are not lost silently; commit leaves no difference |
| Modes and privilege | `libcli` 150-161, 271-282, 448-489, 658-741, 3032-3115 | `mode`, `term_mode_stack`, `privilege` | set/push mode, exit, quit, enable, disable, ^Z, the lookup's drop out of a submode | the mode is the top of its stack, the fixed modes have an empty one |
| Sysrepo access | `src/onm_sysrepo.c` | connection, three sessions, context lock | connect, acquire and release the context, commit, discard, compare, install and remove modules | acquire and release balance; schema pointers are used under the lock only |
| Process life | `src/onm_main.c`, `src/onm_cli.c` | terminal settings | start, loop, shutdown, SIGINT/SIGTERM | the candidate is freed once, running survives |
| Line editor | `libcli` 1157-1173, 1212-1989 | `cmd`, `l`, `cursor`, `lastchar`, `oldcmd`, `esc`, the terminal's row | keys | the buffer is a terminated string, the line the user sees, never more than its length |
| History | `libcli` 906-927, 1733-1780 | `history[256]`, `in_history` | add, up, down | the newest commands, in order; each within reach of the arrows |
| Command tree | `libcli` 491-640, cli_build_shortest, `default_cmd.c` 162-225 | tree of commands, `unique_len` | register, unregister, abbreviations | an abbreviation names one command; a freed command is in no chain |
| Lookup, options, pipeline | `libcli` 3032-3330, 3504-3835 | words, `found_optargs` | locate, parse options, run the stages | each word is used once; errors leave no stage half run |
| Filters | `libcli` 2021-2260, 3240-3300 | one per pipeline stage | begin, between, count, exclude, include, grep | functions of the output lines |
| Command generation | `src/commands/sysrepo_cmd.c`, `yang_core/y_cmd_generator.c`, `y_utils.c`, the `register_` half of `cmd_*.c` | commands tagged with their module, `current_print_order_c` | load-modules: remove a module's commands, register its schema | each node's command is where the user looks for it, once; loading twice is loading once; modules leave each other alone |
| Completion | `libcli` 1060-1157, `data_cmd_compl.c` | none of its own | TAB, ? | offers what the lookup accepts, and every key there is |
| Validators | `data_validators.c` | none | check a value | agree with libyang, which checks again |
| Logger, utils | `src/onm_logger.c`, `src/utils.c` | log file | | |

Interaction: `cli_loop` reads keys into a line, runs the line as a pipeline; the
lookup picks a command by mode and privilege (and may change the mode), its
callback edits the candidate through `data_factory.c`, which reads running
through `onm_sysrepo.c`, and pushes or pops libcli's modes.  There are no threads.
Concurrency comes from outside: other sysrepo clients write running between any
two calls, and the signal handler ends the process at any point.

What is hard: `parent_data`, the list of roots and the mode stack are changed by
different functions that never check each other; freed memory stays reachable
from two globals; the lookup changes modes before the command is known to work;
commit is one transaction per root; sysrepo may fail; the edits of a node use what
a search left in a pointer whether or not it found something; abbreviations,
completion and execution walk the tree of commands by three pieces of code.

## 2. Modules

| Module | Models | Uses |
|---|---|---|
| `Navigation` | abstract: where the user is, an area and a path | |
| `ConfigSession` | the configuration session, modes, and the parts of sysrepo access and process life that touch them | `Navigation` (refinement) |
| `MCConfigSession` | two small schemas for TLC | `ConfigSession` |
| `CommitScope` | the session beside what its user knows: the place, the nodes that were named, those that other clients wrote to | `ConfigSession` |
| `MCCommitScope` | a small schema for TLC | `CommitScope` |
| `SchemaContext` | the session composed with sysrepo's context, the lock on it, and changes of modules | `ConfigSession` |
| `MCSchemaContext` | a small schema for TLC | `SchemaContext` |
| `ConfigSessionProofs` | theorems about `ConfigSession` and `CommitScope` | `CommitScope`, TLAPS |
| `SchemaContextProofs` | theorems about `SchemaContext` | `SchemaContext`, `ConfigSessionProofs` |
| `TextLine` | abstract: a text with a cursor, the line that is run, the lines that can be recalled | |
| `LineEditor` | the inner loop of `cli_loop`: bytes, keys, buffer, history, terminal, TAB and ? | `TextLine` (refinement) |
| `MCLineEditor` | alphabets, words and bytes for TLC | `LineEditor` |
| `LineEditorProofs` | theorems about `LineEditor` | `LineEditor`, TLAPS |
| `TextLineProofs` | that `LineEditor` implements `TextLine` | `LineEditorProofs`, `TextLine` |
| `CommandTree` | the tree of commands and what load-modules generates in it | |
| `MCCommandTree` | four small YANG modules for TLC | `CommandTree` |
| `CommandTreeProofs` | theorems about `CommandTree` | `CommandTree`, TLAPS |
| `TopLevelProofs` | that load-modules leaves the top level as it should | `CommandTreeProofs` |
| `Abbreviation` | a command tree as libcli keeps it, `unique_len`, the lookup of a word, completion: operators | |
| `OutputFilter` | what each filter does to a line, and what a pipeline means: operators | |
| `CommandLine` | a line from the keyboard to the next prompt: words, stages, lookup, options, filters, callback | `Abbreviation`, `OutputFilter` |
| `MCCommandLine` | a small command tree and the lines that are typed, for TLC | `CommandLine` |
| `CommandLineProofs` | theorems about `CommandLine` | `CommandLine`, TLAPS |
| `NodeEdit` | the content of the edited node and the commands that change it, validators, completion of keys | |
| `MCNodeEdit` | a small schema and the values that are typed, for TLC | `NodeEdit` |
| `NodeEditProofs` | theorems about `NodeEdit` | `NodeEdit`, TLAPS |

The parts meet at the command.  `LineEditor` ends with the string that
`cli_run_command` gets (`Execute`), `CommandLine` takes a line from there to the
command and through its output, `ConfigSession` is what the commands do that move the
user, `NodeEdit` what those do that change the node the user is at, and
`CommandTree` says which commands there are; `SchemaContext` adds to `ConfigSession`
when the schema that commands and data point to goes away.  Each leaves to the others what it
does not need: to `LineEditor` a command may change the mode or end the session at
will, to `CommandLine` a callback does one of five things, to `ConfigSession` the
content of a node is one value, and to `NodeEdit` the node stays the same.

### ConfigSession

State against code:

| Variable | Code |
|---|---|
| `mode`, `stack`, `privilege` | `cli->mode`, `cli->term_mode_stack` (innermost last), `cli->privilege` |
| `roots` | the list `config_root_tree`, newest first, as the names of the roots |
| `entry[r]` | what the `node` field of r's element is: `"live"`, `"null"`, or `"freed"` memory |
| `cand` | the data of all live elements, one value per data node |
| `parent_data` | the global of that name: a node, `NULL`, or `Freed` |
| `running` | sysrepo's running datastore |
| `at_root` | `curr_root` of `cmd_commit` and `cmd_exit2`: the element they are at, 0 for none |
| `session` | open, leaving (exit in CONFIG mode is at work), closing (loop left, candidate not yet freed), closed, faulted |

A data node that opens a mode (a root container or a list entry; nested
containers open none, `cmd_container.c:64`) is a path, a sequence of names.  The
leaves of such a node, with those of the containers in it, are one value.
`ModeOf` is the hash of the schema path: an arbitrary function with values other
than 0 and 1, negative ones included, because `y_get_next_mode` returns an
unsigned hash as an int and the lookup compares it with `>`.

One action is one command, except commit and exit in CONFIG mode, which take one step
per root because other clients may write between the roots and a signal may end the walk.
exit reads running once for each root (`ExitConfigRoot`) and frees the candidate only
after the last one (`ExitConfigFree`), so that what it has seen may be out of date by then.
To compare one root with running and to write it is one step of a commit: a write of
another client in between has the outcome of the same write before the comparison or
after the step.  A refused command that changes nothing is a stuttering step and has no action.
`RootRejected` is the refused command that does change something: the lookup has
left the submode by the time the arguments are looked at.

Using `NULL` or `Freed` where the code dereferences it is undefined behaviour.
The model lets the session become `"faulted"`, which stands for everything that
can follow, and lets it only be started again.  Where the code reads such a
pointer without dereferencing it, the model does too.

Abstractions, each of which keeps more behaviours than the code has, unless said
otherwise:

- the index of an ordered list is nondeterministic: `ListEntryMisplaced` may
  happen whenever a list command may;
- sysrepo may refuse any commit of a changed root;
- `SysrepoFaults` says whether reads and discards may fail, at any time;
- left out (fewer behaviours): lists and leaves at the top level of a module,
  allocation failures, hash collisions (`ModeAssumption`), a failing
  `lyd_new_path`, defaults that sysrepo adds to running.

### CommitScope

The candidate of a root is a snapshot of running and is written back as a whole; the user
thinks of single nodes.  `CommitScope` has every action of `ConfigSession`, conjoined with
what the user knows of it.  All three variables are history:

| Variable | Meaning |
|---|---|
| `place` | the node the user is at: down with list and root commands, up with exit, the top otherwise; never read from `parent_data` |
| `named` | the nodes that commands were about, relative to `place`, since the root was taken from running or committed |
| `foreign` | the nodes that other clients have written to since then |

A command that goes down to a node that exists is not about that node; a deletion is about
everything below the node.  `Comparing` is the step of commit or exit at one root, and forgets
what was known of that root when it is as in running afterwards: what is in `foreign` behind
it was written later.  A root that sysrepo refused, or at which exit stops, keeps its history.
`Ending` forgets everything, with the candidate.

### SchemaContext

Commands (`cmd_model`) and data nodes point to schema nodes in sysrepo's context.
`SchemaContext` has every action of `ConfigSession`, conjoined with what the command
does to the context, and the commands that concern nothing else: show of a
datastore, list-modules, load-modules, install-module and remove-module.

| Variable | Code |
|---|---|
| `held` | how many locks the process has on the context between two commands |
| `outdated` | modules have changed, the connection still has the old context |
| `commands`, `no_commands` | whether the generated commands of the modes, and those under `no` and `show`, point to live schema |
| `dead` | the roots of the candidate whose data belongs to a freed context |
| `read` | history: the roots of the candidate that were read from running |
| `broken` | freed schema was used; the process can only be started again |

sysrepo is external: a lock is taken by `sr_acquire_context` and by a successful
`sr_get_subtree`, released by `sr_release_context` and `sr_release_data`; modules
cannot be changed while anybody has it; the next lock after a change gets a new
context and the old one is freed (in the process that made the change this may
happen at once).  A release without a lock has no effect.  An end of the
process releases its locks.

Within a callback `sysrepo_get_ctx` and `sysrepo_release_ctx` are paired, so an
edit is one action that takes the lock (`Acquire`) and leaves `held` alone, unless it
read a root from running (`SubtreeKept`).  `CommandsThen` and `DeadThen` are the
commands and the data when the lock was taken: the callback goes on with them, and if
they are dead the action is `Break`.  `ShowDatastore` may or may not have found
data.  `MaxHeld` bounds the locks: at the bound no further root is read, and show
finds nothing.

### LineEditor

| Variable | Code |
|---|---|
| `cmd`, `l`, `cursor` | the locals of `cli_loop`; cells are numbered from 0 as in C |
| `tabbed` | `lastchar == CTRL('I')` |
| `in_history`, `history` | the local and `cli->history`; `NUL` is a free place |
| `esc`, `iac` | `esc` and `is_telnet_option` |
| `config` | `cli->mode != MODE_EXEC`, all that ^Z asks |
| `kept` | `oldcmd` is set: the line stays after a `?` |
| `screen` | what the handlers have written to the terminal's last row, its cursor, and where the text begins |
| `session` | open, running a command, closed, faulted |

One action is one byte from the terminal that stands for a key, or is swallowed
by the decoder of telnet options and ANSI sequences (`Swallow`); `Pressed(k)` says
that the byte just read is key `k`, typed as itself or as an arrow.  `Execute` is
what follows the end of the inner loop: the history, the command, the next line.

The C string in the buffer (`CString`) is not the line (`Text`) by construction:
only the handlers keep the cells behind the line on NUL, and history, lookup
and completion read the string.  Writing outside the array, or reading a string
that has no NUL, makes the session `"faulted"`, as in `ConfigSession`.

Abstractions:

- the two kinds of quotes are one, the backslash is left out; letters stand for
  themselves, `Fold` is what `strcasecmp` compares;
- the command tree is outside: TAB may be offered any subset of `Words` whose
  entries extend the word that `cli_parse_line` makes of the line's end
  (`Offered`), case-insensitively as `strncasecmp` does;
- the error path of the completion, which asks for a new prompt, is part of
  `TabOnly`, not combined with a completion that also writes; a column is a byte
  and the terminal is wide enough for the row;
- the states that read a user name or a password are left out: onmcli sets no
  users and no enable password;
- `MaxDown` bounds how far Down counts with an empty history; `Unrecorded` keeps
  lines out of the history, `history` as in the code and, in the run `editor`, all.

### CommandTree

| Variable | Code |
|---|---|
| `tree` | `cli->commands`: `cmds` maps each command to its name, `command_hash`, mode and `cmd_model`; `next` numbers commands in the order of their registration |
| `print_order` | `current_print_order_c` of `cmd_list.c`: a command, `NULL`, or `Freed` |
| `frame` | the locals of `register_cmd_choice_core` (the commands of the choice or case, under `no` and not, and their mode) for the loops that run or ran to their end |
| `installed` | the implemented modules of sysrepo's context in its order |
| `queue`, `phase`, `at` | where `cmd_sysrepo_load_module` is: the modules still to do, removal or registration, the node of the schema |
| `loaded`, `loads` | history variables: the modules whose commands are of the present context, and how often load-modules ran |

A command is the path of the numbers of its ancestors and itself, so that "below"
is "has as prefix", a chain is sorted by registration as in libcli, and freeing a
command with its children is removing the paths with its prefix.

`LoadModules` begins the command; `UnregisterNode` and `RegisterNode` are one
node of `unregister_commands_schema` and `register_commands_schema`; one action
per node type registers what the `register_cmd_` function of that type registers,
with the parents it searches for at that point of the walk.  A choice registers its
own subtree by recursion and returns at the first nested choice; the model
walks the schema in its order, keeps what the recursion has on its stack in
`frame`, and skips what the code never comes to (`Visited`).  The removal
walks two roots and the registration one (`Reach`): the end macro of the walk
compares with `schema->next` in one and with `schema` in the other.

`InstallModule` and `RemoveModule` replace the context, after which the schema
nodes that commands point to are `Freed`.  Reading the mode of a freed
`current_print_order_c` makes the process `"faulted"`.

Abstractions:

- callbacks, privileges, help and arguments are left out, and of the builtin
  commands those that nothing is registered under;
- a mode number is the schema node it is the hash of, so no two collide;
- a new context's nodes never have the addresses of old ones;
- load-modules is not interrupted by a change of modules (it holds the context),
  but the process may be killed at any time (`Start`);
- the words looked up are typed in full and no name is a prefix of another;
  within one chain `Located` is the code's scan, with its odd treatment of commands
  of any mode: of two that match, the second wins.

### Abbreviation, OutputFilter and CommandLine

| Variable | Code |
|---|---|
| `mode`, `privilege` | `cli->mode`, `cli->privilege` |
| `registered`, `unique` | the commands in `cli->commands` and their `unique_len` |
| `phase` | where `cli_run_command` is: looking up words, scanning options, setting up filters, running the callback, tearing down |
| `words` | `pipeline->words` |
| `command`, `at`, `option`, `found` | the locals of `cli_int_locate_command` and `cli_int_parse_optargs`, and `cli->found_optargs` |
| `located` | the stages done: `command`, `first_unmatched`, `found_optargs` of each |
| `filters` | `cli->filters` |
| `screen` | what the client has read of this line |
| `printed`, `asked`, `before`, `result` | history variables |

`Type` takes a line, already cut into tokens that know whether they were quoted;
`Parsed` does what `cli_parse_line` then does to it, the limit on the number of
words included.  A step is one word, one option, one filter, or one line of
output.  `LocateWord` changes the mode before anything else is known of the line,
as the code does.  `Loads` is load-modules: it registers the commands outside
`Early`, whose `unique_len` is 0 until the mode or the privilege changes.

Of a command the model knows the chain it is in and the commands above it
(`above`).  `CommandAssumption` and `CommandLineAssumption` say what the registrations of
onmcli have in common and the proofs need: what is below a command is of its mode, or the
command is of `MODE_ANY` (the generators register a child with the mode of its parent);
load-modules itself is an EXEC command (`sysrepo_cmd.c` 126-128), so the lengths are computed at
the next change of mode; filters are of `MODE_ANY` (`libcli` 777-836); the
options of one command have its mode and privilege, and no two of them one name
(`cli_register_optarg` refuses it, `libcli` 2401).

`OutputFilter` has each filter twice: as the code does it, one line and a little
state at a time (`Passes`, `After`), and as a function of its whole input
(`Through`, `Meaning`), which the user has in mind.

Abstractions: a word is a sequence of letters, all lower case; a pattern is a
sequence of words and a line is the set of patterns found in it, so a regular
expression is a set of lines and `-i` and `-e` of grep are in the choice of the
line; a callback sets the mode or the privilege, loads, prints, or does none of
these; build mode, transient modes and spot checks are left out, since no option
of onmcli uses them; help (`?` behind a word) is `LineEditor`'s.

### NodeEdit

| Variable | Code |
|---|---|
| `children` | the children of `parent_data` and of each container below it, in sibling order: schema node and value, or key |
| `phase`, `reply` | where the command is and what it tells the user |
| `todo` | the calls of `add_data_node`, `delete_data_node` and their list forms that the command has yet to make |
| `edits`, `before`, `meant` | history variables: all calls of the command, `children` before it, and the values and entries there should be after the calls made so far |

One action begins a command (`Leaf`, `LeafList`, `Case`, `NoCase`, `List`, ...): it
validates the arguments and lists the edits.  Then each call of
`edit_node_data_tree` or `edit_node_data_tree_list` is a step (`AddTerm`,
`DeleteTerm`, `AddEntry`, ...), and the first that fails ends the command.

libyang is external: `Deepest` is the match that `lyd_find_path` leaves when it
finds a part of the path only, `Created` is `lyd_new_path` with the containers it
makes on the way, `WithChild` puts a new node where the schema's order wants it,
`Freed` is `lyd_free_tree`.  What a type accepts is a set of inputs (`accepts`).
`BadPath` is the uninitialised `new_leaf`: either a fault or an error message.

Abstractions: lists have one key, cases have leaves only; a command that goes into
an entry stays where it is here (it is `ConfigSession`'s `ListEntry`); the commands
for the key of an entry, and the values of references, are left out;
`lyd_insert_before` a node of another schema node may be refused or not, since it
depends on the kind of that node; a value with quotes in it is one that the
path does not accept (`Parses`).

## 3. Runs

| Run | Schema and environment | Shows |
|---|---|---|
| `session` | roots r and s, lists nested two deep below r, a list with keys only below s, modes below s negative; one value; other clients write; sysrepo does not fail | where freed memory can be met, that prompt, stack and `parent_data` agree, the refinement of `Navigation`, and that the walks of commit and exit end |
| `session_scope` | `CommitScope`: two roots, a list under one of them, two values; other clients write | what a commit brings to running, what else it changes there, what of other clients' changes it may undo, and which differences from running may be given up without discard-changes |
| `session_faulty` | `SchemaContext`: two roots, a list under one of them; reads and discards may fail; other clients write and change modules; up to three locks | what survives a failing sysrepo, and that data read from running keeps its context |
| `exit_returns` | as `session`, alone | violated: exit in EXEC uses a freed node |
| `editor` | five cells, letters a and b, the words aa and ab, all editing keys, TAB, ?; nothing is recorded | the buffer, the screen and the refinement of `TextLine` |
| `recall` | lines of one character, three places, Up as an ANSI sequence and Down, with telnet options in between, ^A, ^D, ^Z | order and reach of the history, the refinement |
| `generate` | four modules, any of them installed in any order, changed between loads; load-modules at most twice | where generated commands are found, what the second load leaves, that modules do not disturb each other |
| `load_twice` | the same | violated: commands of show are not reached after the second load |
| `command_line` | 13 commands and 7 more after load-modules, every line of up to two words out of eleven, of three words behind two of the commands, and 27 with one or two filters, one line after the other | lookup, options, output, completion, and that each line is answered |
| `full_name_wins` | the same | violated: after load-modules a full name may select another command |
| `content` | two nested containers, three leaves, a leaf-list, a case, two lists of which one is ordered; five inputs; a machine of three bits | what commands do to the content of a node, and what of it they report |
| `failed_delete` | the same | violated: a deletion that is reported as failed has deleted more than it was asked for |

Why the bounds of the configuration session are enough to be of interest: two roots make the list long
enough for "before" and "after" the element an operation is about; three levels
of nodes make a node whose parent is neither a root nor itself, so that exit,
^Z, and a root command from below all differ.  One value is
enough in `session`, where an entry that is created makes a root differ from running as
a changed leaf would; in `session_scope` and `session_faulty` a second value tells a
node that was changed from one that was not.  `ConfigSession` has no counters, so nothing else is bounded,
and every run explores its whole state space.  In `session_faulty` three locks are one
for each root and one that a show command left.

The properties:

- `SubmodeSync`: in a submode `parent_data` is a live node and the stack holds the
  modes of the nodes down to it.  What is left of it when sysrepo refuses to discard
  and `parent_data` is lost is `ModeIsTop`, a part of the proved invariant (section 5).
- `SubmodeTreesLive`, `PointerExact`, `FaultOnlyAtTop`: where dangling pointers can
  be.  They can exist (the findings), but only in EXEC and CONFIG mode.
- `FailedDiscardContained`: the one way to have a dangling `parent_data` in a
  submode, and what is safe even then.
- `SnapshotsHold`: the locks that are never released and the one that exit releases
  without having taken it: for every root of the candidate that was read from
  running there is at least one lock, so that as long as there is such a root
  nobody changes modules, and neither its data nor the commands that edit it dangle.
  Releasing the data when it was read, as `sysrepo_has_uncommited_changes` does, would
  break this (the mutant).
- `UncommittedSurvives`: where the candidate of a root differs from running, it is freed
  only by discard-changes, with the process, or by an exit in CONFIG mode, and by the exit
  only in nodes that another client has written after exit had found their root unchanged.
  That exception is real: exit looks at one root after the other and frees them together
  (`default_cmd.c` 64-76), and nothing keeps other clients out in between.  The formula
  exempts the end of the process: it does not speak for the changes that ^Z and exit, a
  timeout or a signal lose.
- `CommitEffective`: when a commit ends, running has what the candidate has in every root,
  but for what another client has written since the transaction of that root.  If sysrepo
  refused a root this holds of the roots in front of it: they are committed and stay so.
- `WalksEnd`: the walk of a commit, or of an exit in CONFIG mode, ends: at the last root, at a
  refusal, or with a fault or a signal.
- `CommitsOnlyNamed`: a commit writes whole roots back, yet it changes in running only the
  nodes that commands were about, and undoes only what another client has written to the
  same root since it was taken.  The second is a loss, and the code cannot see it: it
  compares with running just before it replaces it.  The property needs that reads are
  answered: a root that could not be read is taken for one that does not exist, is created
  empty, and its commit deletes what running has (`data_factory.c` 82-91; the mutant shows
  it).
- `NavigationSpec`: the refinement.  `path` is `parent_data` in a submode of a live
  session, empty elsewhere.

Fairness: none of the user's commands is fair.  `FairSpec` has weak fairness of
`CommitRoot`, `ExitConfigRoot` and `ExitConfigFree` (a callback that was entered runs on)
and of `Shutdown` (`main()` goes on after the loop).  All are single-threaded code between two reads of the
terminal.  `CommandLine` has weak
fairness of `Answer` for the same reason: one thread that does not wait between
the end of a line and the next prompt, and callbacks that return.

Deadlock is checked in every run of `ConfigSession`: a closed or faulted session
can always be started again.  The line editor's runs do not check it, because its
session ends.

The bounds of the line editor: five cells hold two words and a blank and are
full after four characters, so that every key meets an empty, a partly filled, a
full and (after a completion) an overfull buffer, with the cursor at both ends
and inside.  Three places of history give a first, a middle and a last one, and a
fourth line drops the first.  `recall` needs one character per line only:
what a line is made of does not matter to the history, except that two of the
letters are the same to `strcasecmp`.  Up comes as an ANSI sequence in `recall`,
the other arrows as the control characters they are mapped to.

The properties of the line editor:

- `LineIsString`: the string that history, lookup and completion read is the line
  on the screen, however it was edited.  It is false once a quoted word was
  completed (section 4), so `editor` types no quotes.
- `ScreenSync`: the row shows the prompt and the line, the terminal's cursor is
  the editor's.  ^Z is exempt until the next row, since it shows a second prompt.
- `OnlyCompletionOverruns`: what can fill the last cell or go out of bounds.
- `HistoryFilled`, `RecallIsCyclic`: the history has no holes and no repetitions
  while there is room; each arrow shows the neighbour of the line shown, so that
  every line is reached and none is skipped.
- `TextLineSpec`: the refinement.  `before` and `after` are the two halves of the
  buffer, `ran` is the C string while a command runs.

The bounds of the command tree: the second load is the first that finds
commands of an earlier one (`MaxLoads` = 2; a restart sets the count back).  The
modules of `MCCommandTree` have what the registration tells apart: two modules
with a node of the same name, containers three deep (a container of a root
opens a mode, one below attaches to its parent), a list in a list, an ordered
list at the top level and one below a root, state data, a second root, a
choice in a choice with a case after it, a container that shares its parent's
name, a node of another type, and a module without data.  Deadlock is checked.

The properties of the command tree:

- `TopFresh`: after load-modules, the first or a repeated one, the commands of the top
  level are for nodes of the present context, once each.  Only for modules whose
  first root is a container: a root that is a list or a leaf is registered under
  its plain name (`cmd_list.c` 351) but looked for under the name of a root
  container (`y_cmd_generator.c` 74), and therefore never removed.
- `ConfigReachable`: the words of a node, typed in its mode, lead to its command.
  What is not promised: nodes of another root than the first, and nodes behind a
  nested choice (`Lost`); the code registers no commands for them.  It holds of schemas like
  those of `generate`, not of all (section 4, containers that share names).
- `NoReachable`: the same behind `no`, where after a second load an old copy of the
  command may be found first; it is of the same module.
- `FirstLoadClean`: `current_print_order_c` dangles at the second load at the earliest.
- `ForeignKept`: no step of the generation of a module touches a command of another
  or of the program, except what is below a `print-order`: the ordered lists of one
  mode share it, and it goes with the module that registered it.

The bounds of the command line: a line holds `MaxWords` - 1 = 7 words, fewer
than the longest lines that are typed have; two levels of commands
are enough for a chain within a chain; a callback prints at most three lines
(`MaxOutput`), which is one to open a range, one inside or closing it, and one
behind it, for two filters in a row.  The tree of `MCCommandLine` has a command of
`MODE_ANY` whose name begins those of two others, a name in two modes, a submode
with a positive and one with a negative number, options of each kind, and filters
with a common first letter.

The properties of the command line:

- `LengthsCurrent`, `AbbreviationUnique`: whatever the mode, the privilege and the
  commands went through, `unique_len` is what it would be if it were computed now
  (without the commands registered since), and a word that selects a command by
  abbreviation begins no other.
- `CompletionAgrees`: completion and execution take the same way down the tree.
- `RefusedOnlyLeaves`: what a line that is refused may have changed.
- `ArgumentsHold`: a callback has all its arguments, each from its own stage and
  accepted by its validator.
- `OutputIsMeaning`: the filters as the code runs them compute the pipeline's
  meaning, also when one of them could not be set up.
- `LineAnswered`: the liveness property.

The bounds of the node: `MaxFacts` = 5 values and entries before a command that adds
(it may add two), which allows three entries of the ordered list with one of the
list behind it, or the leaves of all containers; `UIntMod` = 8 and the input 9
make a number that an unsigned int truncates into the range 1..1; the indexes are
negative, before the first, between, and behind.

The properties of the node:

- `SuccessIsExact`: a command that reports success has done its edits, in order, and
  nothing else, with one exception: a leaf that was there and whose type refuses the new
  value (`Overlooked`) is as it was, and success is reported, because the result of
  `lyd_change_term` is dropped (`data_factory.c` 309).  Every other value that libyang
  refuses has to end in an error.
- `FailureContained`: a command that fails has done the edits before the one that
  failed, and what that one may destroy is below one container of its path, or the
  entry that was to be moved.
- `PlacedByIndex`: an index moves one entry and keeps the order of all others.
- `ValidatorAgrees`: the program's validators and libyang judge a value alike.  The
  exceptions in the formula (`Plain`, `Short`) are the cases in which they do not.
- `EntriesOffered`: completion finds every entry, wherever moves have put it.
- `TypeOK` says in addition that no value gets into the tree that its type refuses.

## 4. Findings

1. `exit` in EXEC mode after the candidate was freed follows a dangling
   `parent_data` (`default_cmd.c:81`).  `free_data_tree_all` resets
   `config_root_tree` only.
2. A second load-modules leaves the commands of the first under `show` and `no`.  For
   `show config-running <root> <child>` they do harm: children are attached to the
   first copy of the root's command, the lookup takes the second
   (`sysrepo_cmd.c` 21, `libcli` 3045).
3. load-modules does not compute `unique_len`.  Until the mode or the privilege
   changes any word that begins a new command's name selects it, and of two commands of
   any mode the second: the full name of one may run another (`libcli` 3041).
4. Deleting a leaf that is not there, when its type refuses the empty value,
   deletes the deepest container of its path that exists, with everything in
   it, and reports failure (`data_factory.c` 311).

Seen while modelling, without a run of their own.

In the session: `exit` guards uncommitted changes in CONFIG mode only, after ^Z it
ends the session without the message; in CONFIG mode it frees a root that another client
has written to after exit had compared it, without the message (`ExitConfigFree`); `no <root>` reports success without deleting
when the root is loaded already, or when it is the first of the list and exists
in running, and otherwise leaves an element whose node is NULL or freed, which the
next root command dereferences.

In the context: the lock of a root read from running, or of what show or the
completion of keys found, is given back only by an exit in CONFIG mode, one for
each, so that until then install-module and remove-module are refused, in this
process and all others; conversely a root that was created because running had
none has no lock: its data dangles when modules change before the commit, as the
generated commands do until the next load-modules.

In the line editor: in a quoted word the entries of TAB extend the word, but what is
overwritten begins at the quote, so that the line can get shorter and the
characters behind it stay and are run (`libcli` 1691); with an empty history Down
increments `in_history` without bound and Up then reads behind the history
(1756, 1752); the blank of a single completion
can take the buffer's last cell, and nothing keeps a longer entry inside the
buffer (`libcli` 1634-1636; `OnlyCompletionOverruns` says that nothing else does).

In load-modules, where a container has the name of its parent and therefore adds no command
(`y_utils.c` 160; TLC shows each on a schema of five nodes or fewer): of three nested
containers of one name the third's children look for the second, which has no command, and
land at the top level, in a mode that nothing opens; below a root whose child
has the root's name, that child's children are registered below the root's command in
CONFIG mode, not in the mode the root opens; and when two such containers have a child
of the same name, the inner one's is hidden behind the outer one's.

Also in load-modules: only the first root of a module gets commands (`y_cmd_generator.c` 57); the cases
after a nested choice get none (`cmd_choice.c` 187); after a second load `no` finds
the old copies, whose schema nodes are gone if the context was replaced; a second
load with ordered lists may read a freed `current_print_order_c` (`cmd_list.c` 241);
removing a module's `print-order` of the CONFIG mode removes what other modules have
registered below it, which comes back only because load-modules does all modules.

In the command line: a match filter that is typed as an abbreviation is not
recognised by its init, which compiles the pattern into one member of a union and
then searches for the other, the bytes of a pointer (`libcli` 2121; `FiltersMade`);
the value of an option may be the pipe behind it; when a later filter cannot be set
up, a count filter that was prints its number, 0, although nothing ran.

In the edits of a node: `no <leaf-list>` with several values deletes the first
(`cmd_leaf.c` 46); a value that libyang does not accept in a path makes
`new_leaf` be used uninitialised (`data_factory.c` 298); setting a leaf
that exists to a value that only the program's validator accepts (`delete`, a
number of more than 32 bits, an empty number) reports success and changes nothing
(309, `Overlooked`); negative numbers are refused for every type (`data_validators.c` 37); an entry
that is given the index of its own place is deleted, and the command reports failure
(`data_factory.c` 173); `no <list>` of an entry that is not there leaves the
containers it was created in; `delete` behind the values of a case deletes its
first leaf; completion offers the keys of the lists behind the one asked for, if
their keys have the same name (`data_cmd_compl.c` 79).

## 5. Proofs

Each proof module states an inductive invariant, shows that every action keeps it, one
lemma per action, and derives the properties from it.  The constants are arbitrary but
for the named assumptions of the modules, which TLC evaluates in every run.  Where a
theorem needs more, the table says so.

`ConfigSessionProofs`: every schema that satisfies `NodesAssumption`, every mode
numbering that satisfies `ModeAssumption`, every set of values, with or without other
clients:

| Theorem | Assumes | Says |
|---|---|---|
| `ContainedInvariant` | | `[]FInv`, whatever sysrepo refuses |
| `TypeCorrect`, `ModeIsTopHolds`, `PointerExactHolds`, `FailedDiscardHolds` | | the invariants `TypeOK`, `PointerExact`, `FailedDiscardContained`, and the part `ModeIsTop` of `FInv` that no run checks |
| `Invariant` | sysrepo does not refuse to discard | `[]IInv` |
| `PromptIsPlace`, `SubmodeIsSafe`, `FaultsAtTop` | same | `SubmodeSync`, `SubmodeTreesLive`, `FaultOnlyAtTop` |
| `ImplementsNavigation` | same | `Spec => NavigationSpec` |
| `ChangesSurvive` | reads do not fail | `ScopeSpec => UncommittedSurvives`, with or without other clients |
| `CommitBringsAll` | reads do not fail | `ScopeSpec => CommitEffective`, the same, for refused commits too |
| `CommitKeepsTheRest` | reads do not fail | `ScopeSpec => CommitsOnlyNamed`, also after refused commits and discards |

The argument.  `SubmodeSync` is not inductive by itself.  A root command issued in
a submode first drops to CONFIG mode and must find an empty stack there
(`ModeIsTop`), and it must leave every list element live although its search
stops at the first match: `OnlyHeadDead` says that only the newest element can be
without a live node, because the next search would have faulted before anything
was put in front of it.  exit goes up to a node that must exist: candidates are
trees (`IsTree` in `TypeOK`) and `parent_data` is in them (`PointerExact`).  The
shutdown needs that no commit is under way, and the end of exit that the mode is CONFIG
(`QuietClose`).  The lemmas about
`ModePath` say that a list command appends to the stack what it appends to the
path, and that exit removes both; those about `Graft`, `Prune` and `Touch` say
that every edit keeps a tree a tree.

After a refused discard `SubmodeSync` is false.  What is left is `FInv`: `parent_data`
may be freed in a submode, where a command that follows it faults, but then there is no
element left, so that a commit, a show or a root command meets no freed memory
(`FailedDiscardContained`).  The assumption
on discards is therefore necessary where it stands, and so is the one on reads for
`ChangesSurvive`.  Both `CommitBringsAll` and `ChangesSurvive` rest on `PassedBrought`: the
roots that commit or exit has passed (`Passed`) agree with running but for what is in
`foreign`, where another client wrote meanwhile.  `RootCommitted` carries it: a step of the
walk is refused at its root, or this root is as in running afterwards, and running changes
nowhere else.  When exit has passed all roots and frees them, what still differs is in
`foreign`.

`CommitKeepsTheRest` rests on `ScopeInv`: in a submode the user's `place` is `parent_data`
(`PlaceKnown`), so an edit changes the node that was named, and wherever the candidate of a
live element differs from running the node is in `named` or `foreign` (`ChangesNamed`).  A
root that is created is the hard step: it is named, but what is below it is not, so there
must be nothing below it on either side.  `NothingBelow` proves this of every tree without
induction: the shortest node below an absent root would have an absent parent.  Where
reads may fail the assumption is necessary, as the root may exist then.

`SchemaContextProofs`: any schema, bound on locks and kind of faults.

| Theorem | Says |
|---|---|
| `ContextInvariant` | `[]CInv` of the composition |
| `SnapshotsHoldAlways` | `SnapshotsHold` |
| `SessionInContext` | what holds of the session whatever fails also holds around changes of the schema |

The argument.  A step of the composition is a step of the session or a restart
(`SessionStep`), so `FInv` carries over; `CInv` adds that what is dead or was read from
running is the data of a live element (`TreesLive`) and that the commands that add are
never older than those under `no` (`NoLiveAfter`: only the second kind is left behind by
load-modules).  `SnapshotsHold` counts: the roots read from running are at most as many as
the locks, for a read takes one and exit, which releases one, ends the candidate
(`CandidateGone`).

`LineEditorProofs` and `TextLineProofs`: every buffer and history size, alphabet and set
of completions.

| Theorem | Assumes | Says |
|---|---|---|
| `TypeHolds`, `HistoryFilledHolds`, `RecallIsCyclicHolds` | | `TypeOK`, `HistoryFilled`, `RecallIsCyclic` |
| `LineIsStringHolds`, `ScreenSyncHolds` | no byte is a quote | `LineIsString`, `ScreenSync` |
| `OnlyCompletionOverrunsHolds` | same | the action property of the same name |
| `ImplementsTextLine` | same | `Spec => TextLineSpec` |

The argument.  `LineIsString` alone is not inductive, since the history may put
lines back into the buffer (`HistoryOK`: what is recorded is shorter than the
buffer and has no quote and no NUL in it), and a line that is kept after `?` loses
its last cell, so it must have one (`KeptOK`).  One lemma per change of the buffer
(`ZeroKeeps`, `EraseKeeps`, `InsertKeeps`, ...) carries the arithmetic of the
cells.  The step that needs the assumption is the completion: `OfferedLonger` and
`PrefixLonger` show that without quotes the word that is completed is the word
that is overwritten, so that what is written is never shorter.
`OnlyCompletionOverrunsHolds` needs in addition that an index behind the places
means an empty history (`RecallOK`).

With quotes the line and the string differ, so types and the history have an invariant
of their own (`TInv`, `HInv`), in which the string of a buffer is whatever stands before
its first NUL.  For `ScreenSync` the row is the picture of the buffer (`Picture`) or has the
second prompt of ^Z on it (`Elsewhere`); `Turns` and `Rewritten` say what the handlers'
loops over the rest of a line do to it.  For the
refinement there is one lemma per step of `TextLine` (`AsTypeChar`, `AsErase`, ...),
stated about the two halves of the text only, and one per key that says what it
does to the halves.  It needs `AskedOK`: the line that runs is not empty, and a kept line
ends in the `?` behind the cursor, which is what `TextLine` does not show.

`CommandTreeProofs` and `TopLevelProofs` prove, for every finite set of modules and every
schema that satisfies `SchemaAssumption` (schemas are trees, a case is below a
choice, no module has the name of one of libcli's hashes) and, for `TopFreshHolds`, also
`OrderAssumption` (libyang's order: a module's nodes differ, each comes behind its parent, and
a case, which has no config statement of its own, is read-only only if its choice is):

| Theorem | Says |
|---|---|
| `Invariant` | `[]IInv` |
| `TypeCorrect` | the invariant `TypeOK` of the run `generate`: among other things, a command is always below a command, and the program's own commands are never removed |
| `ForeignKeptHolds` | the action property of the same name |
| `FirstLoadCleanHolds` | the invariant `FirstLoadClean`, for every order in which modules are installed and removed |
| `TopFreshHolds` | the invariant `TopFresh`, after the first and after every later load-modules |

The argument.  `Good` says what a tree of commands has to satisfy for the two
halves of load-modules.  The removal takes a command of the top level with all that
is below it, so `OneModule` is needed: below a command of a module are commands of
that module only (`Freeing`, `Unregistered`).  The registration keeps it because
every parent it searches for is `NULL`, a command of the module or below one of
the program (`Searched`, `FoundParent`: a search for the configuring commands
follows the module's hash from the top level down, the others begin below `show`
and `no`).  The parents that a choice hands to its cases were found earlier and
must still be there: `FramesOK`, and the case finds its choice among them
(`ParentVisited`).  `PointerOK` says that `current_print_order_c`, when it does not
dangle, is a `print-order` of the top level, which `OneModule` exempts.  One lemma per
`register_cmd_` function (`ContainerRegistered`, `ListRegistered`, ...) says that it
extends the tree by commands that keep it `Good`, one per action that it keeps `IInv`.
`FirstLoadClean` needs to know that the first load removes nothing (`FirstInv`): no
command of the top level is of a module that is still ahead in the queue, because a
module is in it once, and because the commands of the top level that are registered for a
module carry its hash (the last conjunct of `Extended`).

`TopFresh` is a matter of counting: the walk gives up one command of the top level per node
and per print-order, found by *name*, so it may free the command of another node than the
one it is at, and the top level is clean only if as many are left as there are nodes to come.
`TopInv` says this without numbers.  The commands of a module are matched, one to one,
with the `Slots` that may fill the top level (a node's own command, and its print-order) that the
removal has not come to (`LeftOf`), such that names agree (`Matches`).  Removing frees the
first command of a name, whichever it is; `Exchange` lets the command that was to be
freed take over the slot of the one that was.  So at the end of the removal no slot and
no command is left (`NodeGone`), and the registration fills each slot once
(`NodeAdded`, `Fits`: the slot is that of the command's node).  Three facts keep commands
away from the top level that do not belong there, where a parent that is not found is
`NULL`: what is below `show config-candidate` is below running and startup
too (`Mirror`), the choices' parents (`FrameTop`), and the walk of a registration comes
to one root only (`FirstRoot`).

`CommandLineProofs`: every set of commands, options, filters and lines.

| Theorem | Assumes | Says |
|---|---|---|
| `Invariant` | | `[]IInv` |
| `TypeCorrect` | | `TypeOK`, the limits on words and filters included |
| `LengthsHold`, `AbbreviationsUnique` | | `LengthsCurrent`, `AbbreviationUnique` |
| `RefusalsLeave` | | `RefusedOnlyLeaves` |
| `ArgumentsGiven` | | `ArgumentsHold` |
| `CompletionFollowsLookup` | `NamesApart` | `CompletionAgrees` |
| `OutputMeans` | | `OutputIsMeaning`, for pipelines and outputs of any length |

The argument.  A length is computed when the mode or the privilege changes and used
much later.  `SessionInv` says that it is what a computation now would give for the
commands there were, and 0 for those registered since: outside EXEC every command has been
computed, because load-modules runs in EXEC.  The rest follows a line: `LineInv` the
words, `ExecutionInv` and `StageInv` the stages that are done, `HereInv` the command found
so far, which may be run in the present mode and was named by the last word, `GivenInv`
the options found, `ContainedInv` what a refused line has changed.  A word that passes the scan of a
chain is the command's whole name or at least as long as its `unique_len`; that no
other command of the chain begins with it then (`AbbreviationsUnique`) needs that lengths
count exactly the commands that are offered there.

`OutputMeans` compares filters that see one line at a time with functions of a whole
input.  `Fed` is the state of a filter after an input, and `FedMore` and `KeptMore` say for
each kind that one line more changes the state, and the positions that are kept, as the code
does.  `MoreThrough` takes a line down the pipeline: up to the first filter that stops it every
input grows by that line, behind it none changes.  `Piped`, the inductive part, relates the
filters that are left, the lines printed and what the client has read; the filters torn down
have told their numbers, in order.  It begins when the callback is run, or when a filter
cannot be set up.  The invariant needs that a filter is fresh (`FilterFresh`), which is why
`CommandLineAssumption` says that each is registered with an init: all that
`cli_init` registers are (libcli.c:777-830).

`NamesApart` says that in a chain no command shares its name with one of `MODE_ANY`
(and none of CONFIG mode has a name that begins one's).  Nothing in the code enforces it: it is the choice of
names that provides it, in the fixed commands and after the first load-modules.  Loading
twice breaks it, and with it the agreement (section 4, 2 and 3).

`NodeEditProofs`: every schema that satisfies `NodesAssumption`, every set of inputs and
indexes, every width of an unsigned int.

| Theorem | Says |
|---|---|
| `Invariant` | `[]IInv` |
| `TypeCorrect` | `TypeOK`: siblings differ, no child without its parent, no value its type refuses |
| `SuccessExact` | `SuccessIsExact`, with its exception for a leaf that is there |
| `FailuresContained` | `FailureContained` |
| `IndexPlaces` | `PlacedByIndex` |
| `ValidatorsAgree`, `AllOffered` | `ValidatorAgrees`, `EntriesOffered` |

The argument.  Children are kept in sequences, but nearly all that is said of them is about
the set of all children, `All`.  `FreedFacts`, `CreatedFacts`, `ReplacedFacts` and
`MovedTree` say what each edit does to this set; `View` and `Build` go from a tree to the
set and back.  `EditsOK` makes the properties inductive: what is in the tree is
`meant` after every edit that succeeded, and a command with one edit has not changed anything
before it.  Only the order of a list's entries needs the sequences (`PlacedMoved`: an
entry comes right before the siblings with greater numbers).  `Smallest` replaces induction: a
set of numbers that is not empty has a least one, as `<` is well-founded.

Only model-checked, and why:

- `ConfigReachable` and `NoReachable`.  They are no theorems of `SchemaAssumption`: TLC refutes
  the first for the three shapes of schemas with repeated names in section 4, and names of two
  modules may collide.  A theorem would need an assumption for each.  Besides, `Words` is
  defined with `SelectSeq`, which has an operator as a parameter, and such an operator the
  provers cannot instantiate.  The schema of `generate` has none of these shapes;
- `WalksEnd` and `LineAnswered`: liveness.

## 6. Plan

Done: the session and its context, the line editor, the generation of commands, the command line
with its filters, the content of a node with its validators.  Left:

- the completion of enumerations, identities and references, and of the keys in
  running and startup.

Not planned: the logger and string helpers (no state that matters), and the
build-mode, telnet, login and RADIUS code of libcli, which onmcli does not reach.
