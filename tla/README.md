# Verification of esh, the extensible shell

`esh` is a Unix shell with job control, pipelines, I/O redirection and plug-ins,
written in C. This directory holds TLA+ modules of its parts, TLC configurations
that check them on small instances, and TLAPS proofs about them for instances of
any size. File names below are relative to `src/`.

## 1. Inventory

| Component | Source | State it keeps | Operations | Modelled |
|---|---|---|---|---|
| Job control | `esh.c`, `esh.h` | `job_list`, `jid`, per pipeline `status`, `jid`, `pgrp`, `bg_job`; the position of `main`; the signal mask | read/eval loop, `pipeline_process`, `pipeline_post_process`, built-ins `jobs fg bg kill stop exit`, `wait_for_job`, `sigchld_handler` | `EshJobs` |
| Operating system (not in the repository) | calls in `esh.c` | processes, groups, unreported statuses, foreground group, pending SIGCHLD | `fork setpgid tcsetpgrp killpg waitpid`, what children do | `Kernel` |
| Terminal and signal utilities | `esh-sys-utils.c` | terminal descriptor, saved `termios` | save and restore the terminal, block and unblock a signal, install a handler | partly, in `EshJobs` |
| Pipe wiring and redirection | `esh.c` 545-710 | `firstPipe`, `secondPipe`, open descriptors | `pipe`, `dup2`, `close` in the parent and in each child | `EshPipes`, on top of `Descriptors` (external) |
| Lists | `list.c`, `list.h` | `prev`/`next` of each element | insert, remove, traverse, sort, merge | the operations in use: `List`, `EshList`, `EshPlugins` |
| Parser | `esh-grammar.y`, `esh-utils.c` | the command line under construction | `;`, `&`, `\|`, redirections, `esh_pipeline_finish` | `EshGrammar` |
| Plug-ins: loading and dispatch | `esh-utils.c`, `esh.c` | `esh_plugin_list` | load, sort by rank, initialise, dispatch, build the prompt | all but failures to load: `EshPlugins` |
| Plug-ins of group 422 | `plugins/group422_*.c` | the shell's directory | sum, binary/hex conversion, units, reversal, `chdir` | `Group422` |
| Tests, driver | `stdriver.py`, `basic/`, `advanced/` | | | no: they say what the shell should do, and are quoted where they do |

How they interact. `main` reads a line, has the parser turn it into a list of
pipelines, and for each pipeline runs `pipeline_pre_process`, then each command: a
built-in or a plug-in's command in the shell itself (and then *leaves the loop over
the commands*), a program by `pipeline_process`, and after the last program
`pipeline_post_process`, which enters the pipeline in `job_list` and, in the
foreground, waits. SIGCHLD interrupts `main` between any two machine
instructions while it is unblocked; `sigchld_handler` then changes `job_list`,
`status` and `jid`, the data `main` works on. Parent and child run concurrently
from `fork` on, and both call `setpgid`; each child of a foreground pipeline also
hands its group the terminal.

What is hard here:

* the handler and `main` share the job list and the job counter, and only the
  signal mask, blocked from the first `fork` of a pipeline to the end of its wait,
  keeps them apart;
* two collectors of statuses, the handler's loop and the single `waitpid` of
  `wait_for_job`, with one SIGCHLD standing for any number of children;
* parent and child race for `setpgid`, `tcsetpgrp` and `execvp`;
* a process group stops existing when its last process is reaped, and every call
  that names such a group fails and, by `esh_sys_fatal_error`, ends the shell;
* a pipeline is a job by its *first* process only (`pgrp == pid` in
  `child_status_change`), so the other processes can outlive it or stop unseen;
* a built-in in a later position of a pipeline ends its launch half way;
* the pipe ends of a pipeline live in two global pairs of numbers, which outlive it, are
  copied by `fork`, and are closed in every process by number; one end too many in any
  process and a reader never sees end of file;
* the results of `pipe` and `close` are not looked at;
* `&` is seen before the pipeline behind it and acted upon after that one is parsed;
* lists have no lock and one element hangs a pipeline in `cline->pipes` and then in
  `job_list`: the handler may remove the element a traversal stands on;
* `list_sort` merges in place, splicing the list its three pointers point into.

What makes each part correct:

* Job control: no status is lost; no process is reaped before its job is listed;
  the list holds exactly the jobs that were launched and whose first process is not
  reaped; groups exist when they are used; waits return; the shell owns the
  terminal at a prompt and the statuses are true there.
* Lists: the ring stays a ring while elements are removed during a traversal;
  `list_sort` sorts, stably, and keeps the elements.
* Pipes: each process reads its predecessor and writes its successor; end of file
  reaches it when, and only when, the predecessor has ended; the shell keeps no end.
* Parser: the pipelines are those that the separators make; `&` marks the pipeline
  before it and no other; a redirection ends up at the first or last command of its
  pipeline and nowhere else; no word is lost.
* Plug-ins: sorted by rank, stably; initialised, asked for a prompt and offered a
  command in that order; nobody is asked twice, and what nobody takes has been offered to all.
* Arithmetic of plug-ins: agrees with the mathematical function while it fits an
  `int`; `reverse` reverses, and prints, a word without `%`.

`PROJECT.json` lists the hazards at their lines.

## 2. Modules

| Module | What it is |
|---|---|
| `Kernel` | The operating system, external: variables `run`, `phase`, `report`, `pgid`, `tty`, `chld`, and operators for the calls. |
| `EshJobs` | `esh.c`'s job control on top of `Kernel`. Model, properties, inductive invariant, refinement mapping. |
| `JobTable` | The abstract specification of the job list. |
| `EshJobs_proofs` | The theorems about `EshJobs` and their proofs. |
| `EshJobs_workloads` | The theorems about `EshJobs` that hold for some workloads: that it implements the safety part of `JobTable`, and what is true of each prompt. Uses the invariant of `EshJobs_proofs`. |
| `List_proofs` | Lemmas about the operators of `List`, for lists of any length. |
| `EshList_proofs` | The theorems about `EshList`; uses `List_proofs`. |
| `EshPipes_proofs` | The theorems about `EshPipes`, and that it implements the safety part of `Chain`. |
| `Group422_proofs` | The theorems about `Group422`. |
| `EshPlugins_proofs` | The theorems about `EshPlugins`; uses `List_proofs`. |
| `EshGrammar_proofs` | The theorems about `EshGrammar`. |
| `List` | The operators of `list.c` on links, and what a sound list is: no state of its own. |
| `EshList` | `job_list` and `cline->pipes` with their pointers, `main` and the handler working on them. Composes `List`; implements `JobTable` too. |
| `EshPlugins` | `main`'s option loop, `esh_plugin_list`, `list_sort`, the walks for a prompt and for a command. Composes `List`. |
| `Descriptors` | Descriptor tables and the calls on them, external: no state of its own. |
| `EshPipes` | `pipeline_process` and `io_redirection` seen from the descriptors. Composes `Descriptors`; implements `Chain`. |
| `Chain` | The abstract specification of a pipeline: whose end ends whose input. |
| `EshGrammar` | The parser, step by step, and a reference definition of what a line means. |
| `Group422` | The five plug-ins, offered a command in the order of their ranks. |
| `MCEshJobs`, `MCEshList`, `MCEshPlugins`, `MCEshPipes` | The instances for TLC. |

### How EshJobs corresponds to the code

*State.* `pc` is the place in `main` (or in the built-in it has called) between
two steps the handler or a child can come between; `pipeline`, `n` and `op` are
`main`'s locals; `local` is the register of `++jid`, and later the local `jid` of
a built-in. `blocked` and `in_handler` are the signal mask and the interruption.
`job_list` and `jid` are the variables of that name; `status`, `bg_job` and
`pipeline_jid` the fields of `struct esh_pipeline`. `pipeline->pgrp` is the pid of
the first child, hence `Leader(j)`. `MaxCmds` limits the commands of a pipeline.

| `pc` | `main` is | Left by |
|---|---|---|
| `prompt` | in `readline` | `ReadLine`, `ReadWithoutTerminal` |
| `loop` | about to take the next pipeline of the line | `EndOfLine`, `pre_process_Program`, `pre_process_Builtin` |
| `load`, `store`, `assign` | in `pipeline->jid = ++jid` | `LoadJid`, `StoreJid`, `AssignJid` |
| `cmd` | at command `n` of the pipeline, or behind the last | `pipeline_process`, `pipeline_post_process`, `jobs_execute`, `exit_execute`, `get_jid` |
| `setpgid` | behind `fork`, in the parent (`fork` itself may fail: `fork_Error`) | `setpgid_child`, `setpgid_child_Late` |
| `check`, `lookup`, `signal`, `give` | in `fg_execute`, `bg_execute`, `kill_execute`, `stop_execute` | the actions of those names |
| `wait` | in `waitpid` of `wait_for_job` | `wait_for_job` |
| `exited`, `fatal`, `aborted`, `crashed`, `lost` | no more: `exit` or EOF, `esh_sys_fatal_error`, a failed `assert`, a null pointer, a read that raises SIGTTIN | |

*Steps.* `++jid` and the assignment after it take three steps because the handler
resets `jid`; the Makefile compiles without optimisation, so the compiler loads,
stores and loads again. While SIGCHLD is blocked, consecutive statements that no
child can tell apart are one step: `fork` with the block before it; the terminal,
the status change and the unblocking behind `waitpid`. `status[j]` is `"NONE"` for
a pipeline not typed yet, which no C variable holds. A built-in's `get_jid`,
`list_empty` test, lookup and signal are steps of their own, because the handler
runs between them; `get_job_from_jid` and the store of the status behind it are
one (the handler's only interest in a removed job is to ignore it, and the element
is not freed). A traversal of the list is one step, and so is an insertion: that
the handler does no harm to one in progress is what `EshList` shows.

*Children* take `child_setpgid`, `child_give_terminal_to` (nothing, in the
background) and `child_execvp`, and at any point may die, be stopped by ^Z at the
terminal, or, once they execute their program, by SIGTTIN or SIGTTOU from outside
the foreground group. They never have to do anything. Another program, too, may stop them,
or continue or kill them while they are stopped (`SignalFromOutside`), as far as
`OutsideSignals` allows: each such signal is a status that no command of the shell has asked
for.

*External.* `Kernel` states the rules the code relies on: `waitpid` hands out each
change of state once, a zombie disappears with its report, a continued process
withdraws a stop nobody collected and raises SIGCHLD, a group exists while a
process not yet reaped is in it, `setpgid` fails on a child that has executed its
program. Pids are not reused.

### JobTable

A started job is entered in the list once, at the end; it leaves once, after its
first process has ended; nothing else changes the list; entering and leaving
happen eventually unless the shell ends. `EshJobs` maps `state` to what the
kernel knows of the first process of each job, `listed` to `job_list`, `open` to
`pc \notin Dead`. `EshList` maps `listed` to what a traversal of its links finds.

### List and EshList

`List` has the links of all elements in one record `l` (`l.next`, `l.prev`), as
memory has them, so that an element may be in a list, in another, in none, or in
none and still point into one. `list_insert` is the composition of its four stores,
and `list_remove` leaves the links of the removed element as they were, both as in
`list.c`. `Order(l, head)` is what a traversal finds: the sequence `Traversal` describes,
from the first element to the first node that is none. `Linked` says that a sequence of
nodes is linked in both directions; `IsList` that a list is, from head to tail.

`EshList` takes the part of `EshJobs` that touches lists and refines it to single
steps: `ReadLine` returns from `readline`; `cmd_list_pipeline` hangs one pipeline after the
other in `cline->pipes`, and `esh_parse_command_line` is the return of the parser;
`NextPipeline` pops one;
`pipeline_process` blocks SIGCHLD; `insert_prev` ... `insert_back` are the four stores
of `list_push_back(&job_list, p)`; `jobs_execute`, `walk_visit`, `list_next` and
`walk_end` are a traversal, taken for `jobs`, and for the lookups and the kill and
stop built-ins, which traverse alike. `sigchld_handler` comes between any two steps
while SIGCHLD is not blocked; it is one step, as it runs to its end on `main`'s stack.
Of processes only the first of each job is kept, with how it ended, because a
death by SIGKILL removes the element twice (`esh.c:205` and `esh.c:214`).
`wait_for_job_Other` is the return of the wait with a status that removes nothing. A
failed `assert` of `list_next` or `list_remove` goes to `aborted`. All jobs are of
programs, and a shell that exits is left to `EshJobs`.

### EshPlugins

*State.* `rank` and `hooks` of each plug-in, the links `l` of `esh_plugin_list`,
`a0`, `a1b0`, `b1` and `output_run_cnt` of `list_sort` and `inplace_merge`, the
iterator `e` of `esh_plugin_initialize`, and `inits`, how often each plug-in was
initialised. `before` and `runs` remember the list before the sort (and, while a directory is
read, the list before that) and the number of runs before the pass.

*Steps.* `esh_plugin_load_from_directory` is `opendir`, a `load_plugin` for each plug-in, in
any order `readdir` may have, and `closedir`, which goes on to `list_sort`; `begin_pass`, `find_runs`, `merge_first`, `merge_second`,
`merge_end`, `no_more_runs` and `end_pass` are `list_sort`, one step for each
comparison of a merge; `init_plugin` is one turn of the initialisation loop.
`find_end_of_run` and `is_sorted`, which only read, are single expressions. A failed
`assert` goes to `aborted`.

Once the options are done the shell prompts and offers commands, again and again:
`build_prompt_from_plugins` and `make_prompt` walk the list for the prompt's fragments,
`plugin_execute` and `process_builtin` for a command, one plug-in a step. A plug-in may or
may not take the command (`isPlugin`); the walk goes on in both cases, and crashes at a
plug-in without `process_builtin`. `notified` holds the plug-ins called in the walk: it
is the prompt, which is their fragments put together.

### EshPipes, Descriptors and Chain

*State.* `fd[o]` is the descriptor table of the shell or of a process, with what each
number refers to: the terminal, a file, or an end of a pipe, which is named by the process
it was made for. `firstPipe` and `secondPipe` are the globals of that name; every process
has its copy of them. `hasPipe` is the length of the pipeline, as in `main`. `phase` says
whether a process is forked, has executed its program or is gone.

*Steps.* `pipeline_process` goes up to `fork`: `pipe`, which does nothing if no two
descriptors are free, and the copies the child gets. `pipeline_process_Parent` closes and
copies in the shell. A built-in leaves the loop over the commands (`builtin_execute`),
with the pipe in front of it open. `shell_ends` is the end of the shell, wherever it comes
from. In a child everything from `fork` to `execvp` is one step: what it does there to its
own table nobody else sees, but for the pipe ends it holds, and it holds them before and
closes some after. It is at `execvp` only if no `open` or `dup2` has failed (`can_execute`);
otherwise, or if `execvp` fails, it ends. `close` of a closed number fails and is
not noticed, which the code relies on behind the last command. `main` may go on to
the next pipeline at any time, as behind `&`; a wait in the foreground would only keep it
there, and it would leave out behaviours, not add any. Process groups and signals are
`EshJobs`'s.

`Chain` says that a command is started behind its predecessor and may end at any time, and
that its input comes to an end once the predecessor has ended, not before, and in the end
always. `EshPipes` maps `started` and `ended` to `phase` and `drained` to the processes of
whose input pipe no write end is open in any table, the shell's included.

### EshGrammar

The grammar is LALR(1), so the parser decides on the next token alone: each step takes
one token and does the actions of all the rules that are reduced on it. `st` is where
the parser is (in the list, behind a `|`, in a command, behind a redirection operator),
`command`, `commands` and `pipes` are the semantic values of `command`, `pipeline` and
`cmd_list`, `sep` the separator that is shifted but whose rule is not yet reduced. A word is
the position it stands at; what a lexer makes of characters is left out. `command_wrong`
collects the errors the actions of `pipeline` look for (`p_error`, `YYABORT`); `no_last` is
`list_back` on the empty list. The reference definition is written without a parser, with
sets of positions: `Parts` between separators, `Spans` between bars, `Targets` behind
redirection operators. `Verdict` is what becomes of the line as a whole; `Meant` says that
the pipelines are the parts and that their commands are the spans. Since no word is
in two commands and every command has a word, the order of the words (`PipesInOrder`) leaves
one sequence of pipelines and no other.

### Group422

`cmd` is the command typed, `rank` the plug-in it is offered to, `word` and `i` the string
reversed in place and the counter of that loop; `number`, `tmp`, `base` and `arr` are
`binHex`'s, one step for each digit. `int` has `Width` bits and wraps around. A
plug-in that needs an argument and gets none crashes (`missing_argument`). `reverse` hands the
reversed word to `printf` as the format, so `%` is a kind of character of its own: a word that
has one is printed as something else, or crashes the shell (`swap_End`; what a `%n` would
overwrite is left out). `cd` crashes on the home directory of a user without an entry, and on
a name that does not fit its buffer (`chdir_builtin`). The
`double` arithmetic of the converter is left out, and so are the texts; of a word there is
what the plug-in asks of it: its characters' kinds.

## 3. Runs

The passing runs of `EshJobs`:

| Run | Instance | Question and answer |
|---|---|---|
| `single` | two one-program jobs, `&` or not, all built-ins, ids 1 and "last"; other programs continue and kill what is stopped | Types; `NoLostSigchld`: a status that `waitpid` could hand out always has SIGCHLD pending or the handler in its loop, although foreground waits collect statuses too; `WaitWillReturn`: a wait in the foreground has a child that runs or a status to collect, so it cannot hang on children that stopped long ago. `KeepsJobTable`: the job list implements the safety part of `JobTable`. |
| `pipeline` | a pipeline of two programs, a program piped into a built-in, `fg` | `LaunchUnreaped`, `GroupsExist`, `JobListExact`: the mask, from the first `fork` on, is what makes pids usable for `setpgid` and `tcsetpgrp` and the list exact, also after a launch that was abandoned with SIGCHLD blocked. `Inv`: the inductive invariant of section 5. |
| `table` | a pipeline of two programs and a single one, in the foreground, `fg`; other programs stop processes | `EshJobs` implements `JobTable`, liveness included. |
| `sequential` | three one-program jobs in the foreground, `jobs`, `fg`, `stop`, `exit`, no signals from other programs | `TerminalAtPrompt` and `StatusAtPrompt`: with nothing in the background, and nobody else who stops, continues or kills its jobs, the shell owns the terminal at every prompt, and `STOPPED` is the status of the stopped jobs and of no others. `SequentialInv`: the inductive invariant of both, and that ids rise along the list. |

and of the others:

| Run | Instance | Question and answer |
|---|---|---|
| `list` | three pipelines, at most two on a line, any number of traversals | `RingIntact`: both lists are sound in both directions except inside an insertion, and share no element. `WalkVisitsJobs`: a traversal misses no job that stays and repeats none, whatever is removed meanwhile; it works because removed elements keep their links. `WalkEnds`. `ImplementsJobTable`, liveness included. `ListInv`: the inductive invariant of section 5, types included. |
| `plugins` | three plug-ins, ranks 0 to 2, two sets of functions, loaded from any directories in any order | `ListKept`: the list is sound and complete at each step of the sort. `SortedStably`, `AssertionsHold`, `RunsHalve` (the bound of `list.c:409`), `SortEnds`. `InitInRank` and `NotifiedInRank`: `esh.h:60`, for the initialisation, the prompt and the commands; nobody is asked twice or after somebody of a higher rank, and a command that nobody takes has been offered to all. `PluginsInv`: the inductive invariant of section 5, types included. |
| `pipes` | a program before a built-in, three programs, two with `<` and `>`; nine descriptors | `WiredAsTyped`: what is executed reads and writes what the line says, with no other end of its pipeline's pipes. `ShellKeeps`: nor has the shell any between two pipelines, but for the launches a built-in has ended. `ImplementsChain`: end of file comes when it should, liveness included, whoever dies, the shell too; `KeepsChain` is its safety part. `PipesInv`: the inductive invariant of section 5, types included. |
| `grammar` | every line of up to five tokens | `ParsesAsWritten`: verdict and pipelines are those of the reference definition. `FitForExecution`: what `main` and `pipeline_process` rely on without looking. `NoWordLost`: no word is lost, used twice or moved. `MeaningInv`: the inductive invariant of section 5, types included. |
| `group422` | every `int` of seven bits, larger numbers to `binHex`, words of up to four characters | `BinHexExact`, `SumExact`: the results are exact as far as `int` goes, of `binHex` for positive numbers. `ReversesInPlace`: the word is reversed, at each step has all its characters, and is printed reversed if it has no `%`. `TypeOK`: among the rest, the digits fit the array. `Group422Inv`: the inductive invariant of section 5. |

The others each check what a comment or a test says and find that the code does
something else; `PROJECT.json` quotes the line and gives the cause.

| Run | Says | Does |
|---|---|---|
| `jids` | `basic/jobs_test.py:117`: job ids are not duplicated | the handler resets `jid` while a launch holds its number |
| `wait` | `esh.c:295`: wait for the whole pipeline | one `waitpid` for any child |
| `crossed` | `README.md:89`: the next command reads from that pipe | `pipe` fails unnoticed, and the next pipeline is connected to an earlier one |

The counterexample of `crossed`: a program piped into a built-in leaves both ends of its pipe
open in the shell, and the program runs on; with no two descriptors left, `pipe` for the
next pipeline fails, `firstPipe` still names the old ones, and its second command reads what
the old program writes.

More of the kind, met while modelling, have no run of their own, because no
interleaving is needed to see them or because they show in the behaviours of those
runs:

* after a wait cut short by the second process of a pipeline its job stays listed as
  `FOREGROUND`, and the next foreground job is a second one (`esh.h:115`);
* a background job stopped by SIGTTIN becomes `STOPPED`, never `NEEDSTERMINAL`
  (`esh.h:119`), and a job stopped by SIGSTOP keeps its status, as SIGSTOP is not among the
  signals compared (`esh.h:118`, `esh.c:221`);
* a child of the foreground that is slow hands its group the terminal after the shell has
  taken it back for the prompt (`esh.c:83` and 626): `TerminalAtPrompt` fails as soon as
  something runs in the background or beside the process waited for, which is why
  only `sequential` checks it;
* a program piped into a built-in is in no job (`esh.h:124`, `esh.c:870`), and its
  launch leaves SIGCHLD blocked until a later launch or wait unblocks it;
* every program runs with SIGCHLD blocked, since `fork` copies the mask and `execvp`
  keeps it (`esh.c:605`);
* a job that is resumed gets the terminal in the shell's initial state, not in the
  state it was stopped with (`esh.h:139`, `esh.c:441`); nothing is saved for it;
* `tcsetattr` is not interrupted by SIGCHLD where it is called (`esh-sys-utils.c:97`):
  the signal is blocked there;
* `get_cmd_from_pid`, offered to plug-ins, reads `cline`, which is null before the first line and
  freed between two (`esh.c:137`);
* `fg`, `bg`, `kill` or `stop` without an argument and without jobs calls `list_back`
  on the empty list, whose assertion fails (`list.c:299`; step `get_jid_Abort`);
* if a child executes its program before the parent has called `setpgid`, the
  call fails with EACCES and the shell exits (`esh.c:683`; `setpgid_child_Late`);
* a plug-in without `process_builtin` crashes the shell at the first command
  (step `process_builtin`), and a plug-in that returns true does not stop
  the processing of the command: the plug-ins behind it are asked too, against `esh.h:66`
  (`next_plugin`). `NotifiedInRank` says nothing of those;
* `reverse` of a word with a `%` does not print the reversal, as
  `plugins/group422_reverseString_readme.txt` says of any word, but what `printf` makes of such
  a format (`group422_reverseString.c:50`; `swap_End`);
* `sum`, `convertDegrees` and `reverse` without an argument use a null pointer
  (`missing_argument`); `binHex 0` prints no digits, although
  `plugins/group422_binHex_readme.txt` begins its range with 0; numbers beyond `int` lose their high
  bits; the converter takes `-`, `--` and `.` for numbers; `cd dir` goes nowhere, and `cd ~name`
  goes to `/home/courses/name`.

*Bounds.* `Job`: two or three pipelines, each typed once. Two suffice for every
property here: one to be launched or waited for and one to interfere, as each
property names at most one job and whatever disturbs it; duplicate ids need three.
Typing a pipeline again would make a new `struct esh_pipeline`, hence a new member
of `Job`. `MaxCmds = 2`: a first process, which stands for the job, and one that
does not. `MaxJid` (2 to 4) stops the typing of pipelines once `jid` has got there;
since built-ins consume ids too, 3 leaves room for both jobs and a built-in between them,
4 (in `sequential`) for three jobs and one, 2 (in `table` and `wait`) for both jobs or for one and a built-in; lines that only consist of other characters change
nothing. `JidArgs`: an id that some job has, beside the last one's; an id nobody
has occurs with it. `Amp`, `Builtins` restrict what the user types, never
what the code does with it. `OutsideSignals` is `{SIGCONT, SIGKILL}` in `single`, where two
jobs, all built-ins and the handler meet signals from outside, and `{SIGSTOP}` in `table`;
there SIGCONT is left out because somebody who stops and continues a child for ever gives the
handler's loop a status at each turn, and keeps the shell in it: no shell would make progress.
In `sequential` it is empty on purpose (section 5). In `pipeline`, `jids` and `wait` it is
empty for size, and because the findings need no help from outside; the invariant that
`pipeline` checks is proved for all of them. The proofs have none of these bounds except that each
member of `Job` is typed once and that `MaxJid` is some natural number.

In `list`, three jobs give a removal in front of, under and behind a traversal, and an
insertion beside another job; `visited` is cut off once it is longer than there
are jobs, since then it has repeated one. In `plugins`, three elements with three
ranks make one, two and three runs, hence a pass with a run left over and a second
pass, all shapes of a merge of two runs, ties included, and up to three directories. A plug-in
has either `init` and `process_builtin` or `make_prompt`: each walk meets plug-ins with its
function and without, and an offer to the latter crashes. Each
directory is named once: naming it twice loads the same `esh_module` again
and pushes an element that is in the list, against what `list_push_back` requires
(`esh-utils.c:242`); the model leaves that out.

In `pipes` a pipeline of three has a first, a middle and a last command, which is all the code
tells apart, and another two pipelines are launched before or after it with whatever it
left. `OpenMax` is 9: the terminal takes descriptors 0 to 3, so a pipeline of
three finds room for its two pipes, but not for the second if the launch abandoned before
it has kept two; `pipe` fails in the middle of a pipeline and at its start. In `crossed` it is 7:
one free descriptor beside the leaked two. In `grammar`, five tokens (19,608 lines) make
two bars, two redirections with their words, three separators in a row in front of,
between and behind pipelines, and each error; any two adjacent rules meet. `Width` 7 in
`group422` has room for six binary and two hexadecimal digits, for sums that overflow and sums
that do not, and `binHex` is given every number up to twice the range; the words have up to
four characters, of odd and even lengths and with every kind of character at every place.

*Fairness* (`FairSpec`). `MainStep` is weakly fair: the shell runs on once it has
a line; whether the user types one is not (`ReadLine`, `ReadWithoutTerminal` are
no part of it). `handler_enter` is strongly fair: a SIGCHLD that is pending when
`sigprocmask` unblocks it is delivered before that call returns, so a shell that
blocks it again and again still takes it. `Handler` is weakly fair: the
handler's loop runs. Children owe nothing; a wait for a child that never changes
state lasts for ever, and `JobTable` asks nothing of a job that does not end.

`EshList` has the same fairness: `main` goes on (`MainStep`, weakly), an unblocked
SIGCHLD is delivered (`sigchld_handler`, strongly), and neither what is typed nor what
children do is fair. In `EshPlugins` only `main` runs, weakly fair; the user's part of it, options, prompts and
lines, is not. In `EshPipes` the shell goes on with a pipeline it has begun (`Main`, weakly
fair), and a forked child gets to its program or fails (`Child`, weakly fair; each child
takes one such step, so fairness to all together is fairness to each); programs never have to
end, and the shell may. That is what `Chain`'s fairness, weak for `Drain`, rests on: the write
ends that the reader's own process, the processes behind it and the shell still hold are closed
in those steps. `EshGrammar` and `Group422` have safety properties only.

*Deadlock* is checked in all runs. A shell that has ended, or that waits for input that does not come,
and a parser that is done, stutter (`Ended`, `Idle`, `Done`).

## 4. Where the sources stop

No property is stated about the windows between the lookup of a job and the signal
to it in `bg`, `kill` and `stop`, or before the block in `fg`: the last process may
be reaped there, `killpg` then fails with ESRCH and the shell exits
(`signal_NoGroup`). An unknown id dereferences a null pointer
(`get_job_from_jid_Null`). Both are in the model, as steps to a dead shell, and no
line of the repository says anything about them.

## 5. Proofs

### Job control

`EshJobs_proofs` proves for every finite or infinite `Job`, every `Cmds`, every
set of built-ins and every bound:

| Theorem | Statement |
|---|---|
| `TypeCorrect` | `Spec => []TypeOK` |
| `Invariance` | `Spec => []Inv` |
| `SigchldNeverLost` | `Spec => []NoLostSigchld` |
| `JobListIsExact` | `Spec => []JobListExact` |
| `NothingReapedInLaunch` | `Spec => []LaunchUnreaped` |
| `WaitReturns` | `Spec => []WaitWillReturn` |
| `GroupsAlwaysExist` | `Spec => []GroupsExist` |

and `EshJobs_workloads`, of some workloads:

| Theorem | Statement |
|---|---|
| `KeepsTable` | `(\A j \in Job : Plain(j)) => (Spec => KeepsJobTable)`, where `Plain(j)` says that no built-in stands behind a program in `j` |
| `SequentialInvariance` | `Sequential => (Spec => []SequentialInv)`, where `Sequential` says that every pipeline is one program, in the foreground, that of the built-ins `bg` and `kill` are not typed, and that `OutsideSignals` is empty |
| `PromptHasTerminal` | `Sequential => (Spec => []TerminalAtPrompt)` |
| `PromptStatusExact` | `Sequential => (Spec => []StatusAtPrompt)` |
| `IdsAreDistinct` | `Sequential => (Spec => []DistinctJids)` |

They assume `JobAssumption`, `OutsideAssumption` and `ShellIsNoChild`, which say what the constants
are; those of `EshJobs_proofs` and `KeepsTable` hold whatever signals come from outside. `Plain` and
`Sequential` are assumptions on the user and the surroundings, not on the code, and both are needed: a program piped into a
built-in is never listed; and what is promised of a prompt and of the ids is broken by a child
that `main` is not waiting for. It may take the terminal late (`&`, `bg`, a pipeline's second
process), end while a launch holds its number (`&`, in the run `jids`), or leave a status that
the next wait collects in the place of that of its own job (`kill`, or a stopped job that
another program kills or continues).

*The argument.* None of the five properties below `Invariance` is inductive. `Inv` adds:

* `ControlInv`: where `main`'s locals mean something;
* `ProcessInv`: a zombie always has a report, and a process is in the shell's
  group or in its pipeline's;
* `MaskInv`: the handler runs only while SIGCHLD is not blocked and the shell lives,
  and behind the first `fork`, in `fg` and in a wait it is blocked: so nobody reaps;
* `UnusedInv`: a pipeline not typed yet has no processes;
* `LaunchInv`: of the pipeline being launched, exactly the commands up to `main`'s
  are forked; none is reaped, each still runs or has a report, and those behind
  `main` are in the group. `LaunchUnreaped` and half of `GroupsExist` follow;
* `GroupInv`: a child that has not yet called `setpgid` was put in its group by
  the parent, unless the parent is just about to: so it can still join;
* `WaitInv`: in a wait, a process of the job runs or has a report.
  `WaitWillReturn` and the rest of `GroupsExist` follow. After `fg` this holds
  because SIGCONT leaves no member of the group stopped.

`WorkInv`, the first part of `SequentialInv`, is the same idea where it holds for the whole shell: unless `main` is at work (from
the `fork` on to the end of the wait, or to the end of `fg`) no child runs and none has a status to
report, so nobody can take the terminal after it was given back, or change a status unseen; at work,
only the one child of that job can. The wait then ends with this child's status, and either the job
is dropped or it is marked as stopped. `NumberInv`, the second part, follows the numbers: since the
handler finds nothing to reap, `jid` is reset only by the wait, between two launches, so the
number read is still the number when it is stored, what is stored is above all ids in use, and
`list_push_back` keeps the ids in rising order.

`JobListExact` needs the first three and `LaunchInv`; `NoLostSigchld` is close to
inductive by itself, since each new report raises SIGCHLD and only the handler,
about to loop, takes it. The proof is by action: lemmas per conjunct of `Inv`
(`LaunchStep`, `GroupStep`, `WaitStep`, `JobListStep`, ...), each with a step per
action that can disturb it, and lemmas about the operators of `Kernel`, `RemoveAt`
and `Append` that several of them cite.

`KeepsTable` takes the invariant and shows, action by action, that a step of `EshJobs`
is a step of `JobTable` or leaves its variables alone. `LaunchInv` gives that what is
entered is started and not listed; `JobListExact` that a job leaves when, and only
when, its first process is reaped. The assumption excludes the pipelines whose
launch is abandoned, which are reaped without ever having been listed.

### Lists

`EshList_proofs` proves for every finite `Job` and every `MaxLine`, assuming
`NodeAssumption` and `ListAssumption` (heads, tails, jobs and `NULL` are different
nodes):

| Theorem | Statement |
|---|---|
| `TypeCorrect`, `ListInvariance` | `Spec => []TypeOK`, `Spec => []ListInv` |
| `RingsIntact` | `Spec => []RingIntact` |
| `WalkComplete` | `Spec => []WalkVisitsJobs` |
| `KeepsTable` | `Spec => KeepsJobTable` |

`List_proofs` has what they rest on: a sequence that is `Linked` between two sentinels is
what `Order` finds (`OrderIs`, from `TraversalIs`: the links decide each element from the
one before, and an injective sequence over a finite set is no longer than that set), and
what `list_push_back` (`PushSound`) and `list_remove` (`RemoveSound`) do to it. The
definition of `Order` chooses the sequence that `Traversal` describes, so nothing
recursive is in the way.

`ListInv` is `RingIntact` with

* `RingInv`: behind the third store of an insertion, which makes the element reachable, the
  list would be sound if the fourth store were made; `StoreInv` says what the others have
  written;
* `StateInv`: a job is listed from the launch to its removal, and SIGCHLD is blocked through
  the insertion, so nobody removes anything between the stores;
* `WayInv`: whoever was in the list when the traversal began still has a forward link, which
  leads to a later one of them, or to the tail, past nobody who is still listed. That is what
  makes the traversal correct: `list_remove` does not clear the links of what it removes, and
  a removal in front of a removed element redirects only what is in the list. The second
  `list_remove` of a killed job changes nothing (`RemoveTwice`): its neighbours no longer
  point to it, and are made to point to each other once more;
* `WalkInv`: what is behind the iterator is visited or no longer listed.

### Plug-ins

`EshPlugins_proofs` proves for every finite `Plugin`, every `MaxRank` and any `HookSets`,
assuming `NodeAssumption` and `PluginAssumption`:

| Theorem | Statement |
|---|---|
| `PluginsInvariance` | `Spec => []PluginsInv` |
| `SortKeepsList` | `Spec => []ListKept` |
| `NoAssertionFails` | `Spec => []AssertionsHold` |
| `SortIsStable` | `Spec => []SortedStably` |
| `PassHalvesRuns` | `Spec => []RunsHalve` |
| `InitFollowsRank` | `Spec => InitInRank` |
| `CallsInRank` | `Spec => []NotifiedInRank` |

An iterator is a place in `Line`, the list with its tail: none of the properties says so, and
without it nothing is known of what `a0`, `a1b0` and `b1` point to. `PluginsInv` adds:

* `RunsInv`: between two merges the places before `a0` hold at most `output_run_cnt` runs, and
  twice that count and the runs that are left make no more than there were at the beginning of
  the pass. At the end of the list this is `RunsHalve`;
* `MergeInv`: in a merge there is a place `r` at which its output begins: from `r` to `a0` it
  is sorted, so are the rests of the two runs from `a0` to `a1b0` and from there to `b1`, and
  nothing in the output is of a higher rank than anything in the rests. When one of the rests
  is empty `r` to `b1` is a run, and the merge has made one of two;
* `StableInv`: plug-ins of one rank are in the order they had before. `takes_first` prefers the
  first run, so the plug-in that `merge_second` moves is of a lower rank than all
  that it passes (`StableMoved`);
* `WalkInv`: a walk has called, or initialised, exactly the plug-ins with the function
  that are before its iterator, in their order.

What the splice of a merge does to the list is `SpliceSound` of `List_proofs`: moving the element
at place j to place i leaves the list sound, with the elements of places i to j - 1 one further on.
`RunEnd` says what `find_end_of_run` returns, `SortedIs` what `is_sorted` does, `RunsIs`
that runs are counted by the places at which the rank drops; `LeftBehind` and `DoneNext` carry the
count over a run. That a count of one means a sorted list (`InOrderIs`) is why `list_sort`
may stop there.

### Pipes

`EshPipes_proofs` proves for every set of pipelines of any lengths and
any redirections, assuming `PipesAssumption` and `DescriptorAssumption`:

| Theorem | With | Statement |
|---|---|---|
| `TypeCorrect` | | `Spec => []TypeOK` |
| `ShellKeepsItsOwn` | `OpenMax >= 6` | `Spec => []ShellKeeps` |
| `RoomForPipes` | `EnoughDescriptors` | `Spec => []Room` |
| `RoomForAllPipes` | `EnoughForAll` | `Spec => []RoomForAll` |
| `PipesInvariance` | `EnoughDescriptors` | `Spec => []PipesInv` |
| `Wired` | `EnoughDescriptors` | `Spec => [](WiredAsTyped /\ ReadsPredecessor)` |
| `ChainKept` | `EnoughDescriptors` | `Spec => KeepsChain` |

`EnoughDescriptors` is `OpenMax >= 6 + 2 * Cardinality(LeakyPipe)`: four descriptors are the
shell's own, two are needed for the pipe of the first command, and two are lost with
every pipe in front of a built-in. So `pipe` succeeds for the *first* command of each launch
(`Room`), and `firstPipe` never names what an earlier pipeline left. It is not a matter of convenience: `crossed` has 7
descriptors and one such pipe, one too few, and `ReadsPredecessor` fails. Later calls of
`pipe` in a launch may still fail, and do in `pipes`: then `firstPipe` keeps the numbers of
the pipe before, the child's `dup2` fails, and it does not get to its program. With `EnoughForAll`, two descriptors
more, every call succeeds (`RoomForAll`), in pipelines of any length, because
at a call the shell holds, of its own pipeline, only the pipe behind the command before; that bound is tight as well, since in `pipes`,
which has 9 descriptors where `EnoughForAll` asks for 10, `RoomForAll` fails. With
`OpenMax < 6` no `pipe` ever succeeds, and the shell closes its own standard input.

*The argument.* `pipe` takes the two lowest free descriptors, and since both ends are
opened and closed together, these are always an even number and the next: a `Slot`.
`ShellInv` says which slots of the shell hold what, `UniqueInv` that no pipe is in two of them.
From both, if there were no free slot at the first command, each slot would hold a different
leaked pipe, which `EnoughDescriptors` excludes: `Room`. Then `ReadSlotInv` follows for the rest
of the launch: `secondPipe` names the pipe behind the command before, or two closed descriptors
that the next `pipe` will return. `ForkedInv` carries this over to a child, which either
has the two pipes beside it or is `Stuck`; `WiredAsTyped` comes from it in the one step up
to `execvp`. `EndsInv` says who can have an end open at all, and that the writer has one as
long as it lives: this is what `Chain` asks for.

### Parser

`EshGrammar_proofs` proves for lines of any length, from `GrammarAssumption`
(`MaxTokens \in Nat`):

| Theorem | Statement |
|---|---|
| `TypeCorrect`, `ParserInvariance` | `Spec => []TypeOK`, `Spec => []ParserInv` |
| `Executable` | `Spec => []FitForExecution` |
| `WordsKept` | `Spec => []NoWordLost` |
| `MeaningInvariance` | `Spec => []MeaningInv` |
| `AsWritten` | `Spec => []ParsesAsWritten` |

`ParserInv` says of the unfinished command, the unfinished pipeline and the finished ones what
`FitForExecution` and `NoWordLost` say of the result: they are fit for execution (`FitInv`),
hold the words read so far and no others (`WordsInv`), and these in the order of the line, the
three following one another (`OrderInv`). A redirection stays in its command, where `io_redirection`
reads it (`esh.c:547`, `esh.c:561`), and is copied to the pipeline when that is finished;
nothing in `esh.c` reads the copy. `RedirectionsKept` says that the two agree.

`ParsesAsWritten` speaks of the line as a whole. `ReadInv` is what it says of the tokens read
so far: there is a place `a` where the part in progress begins and a place `s` where the
command in progress does (`Reached`). From `s` on `command` is what is written (`CommandRead`),
from `a` to `s` `commands` are the spans that a bar has closed (`CommandsRead`), and in front
of `a` `pipes` are the parts that a separator has closed, none of them malformed
(`PipesRead`). Two things lag behind the reading and make the invariant what it is. A pipeline
gets its mark from the first reduction after the `&`, so that of the last pipeline says only
what is in the gap up to the separator in front of `a - 1` (`Marked`). And a redirection
operator has its word one token later, so `Worded` leaves out the last token behind one.
What the parser does next then agrees with the verdict on the whole line: where it stops, the part or
span in progress is malformed whatever comes behind (`PartHasEnd`, `SpanHasEnd`), and an
`&` before any pipeline can only be the token in front of `a` (`AmpersandFirst`).

### Group 422

`Group422_proofs` proves for words of any length and `int`s of any width, from
`Group422Assumption`:

| Theorem | Statement |
|---|---|
| `Group422Invariance` | `Spec => []Group422Inv` |
| `TypeCorrect` | `Spec => []TypeOK` |
| `BinHexIsExact` | `Spec => []BinHexExact` |
| `SumIsExact` | `Spec => []SumExact` |
| `Reverses` | `Spec => []ReversesInPlace` |

`Group422Inv` adds to the types and to `BinHexExact`:

* `TurnedInv`: the first `i` and the last `i` characters have changed places, the others not.
  That is a bijection at each `i` up to half the length, hence no character is lost, and the
  reversal at the half, for odd lengths too, where the loop leaves the middle one alone. What
  `printf` makes of the word is known only if it has no `%`, so that is the condition under
  which the reversal is printed;
* `OfferInv`: the loop of `reverse` runs while `reverse`, of rank 4, is asked and for nobody
  else, and that of `binHex` likewise, so that what is printed is what the next plug-ins find;
* `ResultInv`: `sum` has printed one number, and `binHex` first the binary digits. Its
  `LoopInv` says that the digits taken are smaller than the base and, once nothing of the
  number is left, that the last of them is not 0.

The number is at each turn `tmp` times the power of the base, plus what the digits are worth
(`BinHexExact`; 0 and the numbers that wrap to no positive one have no digits, and nothing is
said of what is printed for them). So with a digit to come the power is no more than the number, which is less than
the power of 2 that has one bit less than `int`: there are fewer digits than bits, in either base,
and the array has room for them.

Powers, sums and what digits are worth are recursive functions. The library derives what
such a function is from induction theorems that take an operator, which the provers here cannot
instantiate. The first section therefore has induction for a *set* of numbers (`Induction`, by the
least counterexample, which `WellFoundedInduction` supplies), and from it that a function with
the recursive rule exists (`Recursion`: any two beginnings of it agree, `SameBeginning`, so they
can be put together); `PowersOf`, `SumsOf` and `WorthOf` are its instances. The rest
is arithmetic: `PowersGrow`, `ValueOfNext` (one more digit in front), `GaussIsSum`, and `Wraps`,
that `int` arithmetic is exact in the range of `int`.

### Checked by TLC only

Liveness: `WalkEnds`, `SortEnds`, and the liveness in `ImplementsJobTable` and
`ImplementsChain`. Every other property of a passing run is a theorem.

## 6. Not modelled, and the plan

Left out of `EshJobs` on purpose: what is printed; `termios`, because `give_terminal_to` puts the
one initial state back in the same call that hands over the terminal, and nothing else in
the shell looks at it; SIGTTOU's mask in that call, since the shell is never stopped by it; signals aimed at the
shell itself (^C, ^Z at a prompt); the terminal's descriptor; `EINTR`. The
declared but unused parts of the code stay unused: the plug-in hooks `process_raw_cmdline`,
`process_pipeline`, `pipeline_forked` and `command_status_change`, `get_cmd_from_pid` in the
parent (whose commands have no pid), `saved_tty_state`.

Left out of `EshList` and `EshPlugins`: the list operations nobody calls (`list_reverse`,
`list_unique`, `list_max`, ...), loading that fails, the wording of the prompt. Out of
`EshPipes`: `hasPipe`'s life as a global between two pipelines (it is set for each),
limits other than that of descriptors, and a command line so long that `pipe` blocks writers.
Out of `EshGrammar`: the lexer's expressions, quoting included, and memory. Out of `Group422`:
floating point, text, and which directories exist. The tests and their driver are read as
documentation.

Nothing is left of the plan but what stays with TLC: liveness.
