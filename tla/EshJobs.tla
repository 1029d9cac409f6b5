------------------------------ MODULE EshJobs ------------------------------
(***************************************************************************)
(* Job control in esh (src/esh.c): the read/eval loop of main, the launch  *)
(* of a pipeline, the job list and the job ids, the built-ins jobs, fg,    *)
(* bg, kill, stop and exit, wait_for_job, and the SIGCHLD handler that may *)
(* interrupt main between any two of its steps while SIGCHLD is unblocked. *)
(*                                                                         *)
(* A pipeline that starts with a program is a member of Job and is typed   *)
(* at most once; its n-th process is the pair <<j, n>>. A pipeline that    *)
(* starts with a built-in forks nothing and is never listed, so it is not  *)
(* told apart from NoJob and may be typed again and again. A plug-in's     *)
(* command acts on the job table as "jobs" does: not at all.               *)
(***************************************************************************)
EXTENDS Kernel, SequencesExt

CONSTANTS
  Job,        \* the pipelines, starting with a program, the user may type
  NoJob,      \* the null pipeline
  MaxCmds,    \* a pipeline has at most MaxCmds commands
  Cmds,       \* Cmds[j]: the kinds of the commands of j
  Amp,        \* the values of bg_job: whether pipelines may end in &
  Builtins,   \* the built-ins the user types
  JidArgs,    \* the job ids the user types after a built-in
  MaxJid      \* BOUND: no pipeline is typed once jid has reached MaxJid

JobControl == {"fg", "bg", "kill", "stop"}

ASSUME JobAssumption ==
  /\ NoJob \notin Job
  /\ MaxCmds \in Nat /\ MaxJid \in Nat
  /\ Pid = Job \X (1..MaxCmds)
  /\ Cmds \in [Job -> Seq({"program", "builtin"})]
  /\ \A j \in Job : Len(Cmds[j]) \in 1..MaxCmds /\ Cmds[j][1] = "program"
  /\ Amp \subseteq BOOLEAN
  /\ Builtins \subseteq JobControl \cup {"jobs", "exit"}
  /\ JidArgs \subseteq Nat

VARIABLES
  pc,           \* what main does next
  pipeline,     \* main's pipeline, then the target of a built-in
  n,            \* the position of main's c in pipeline->commands
  op,           \* the built-in being executed
  local,        \* ++jid's register; then the built-in's local jid
  blocked,      \* SIGCHLD is in the shell's signal mask
  in_handler,   \* main is interrupted by sigchld_handler
  job_list, jid,
  status, bg_job, pipeline_jid   \* fields of the pipelines

main   == <<pc, pipeline, n, op, local>>
mask   == <<blocked, in_handler>>
table  == <<job_list, jid, status>>
fields == <<bg_job, pipeline_jid>>
vars   == <<main, mask, table, fields, kernel>>

\* exit or EOF, esh_sys_fatal_error, a failed assert, a null pointer, SIGTTIN.
Dead == {"exited", "fatal", "aborted", "crashed", "lost"}
PC   == {"prompt", "loop", "load", "store", "assign", "cmd", "setpgid", "check",
         "lookup", "signal", "give", "wait"} \cup Dead
Status == {"NONE", "FOREGROUND", "BACKGROUND", "STOPPED", "NEEDSTERMINAL"}

TypeOK ==
  /\ KernelTypeOK
  /\ pc \in PC
  /\ pipeline \in Job \cup {NoJob}
  /\ n \in 0..(MaxCmds + 1)
  /\ op \in JobControl \cup {"none"}
  /\ local \in Nat /\ jid \in Nat
  /\ blocked \in BOOLEAN /\ in_handler \in BOOLEAN
  /\ job_list \in Seq(Job)
  /\ status \in [Job -> Status]
  /\ bg_job \in [Job -> BOOLEAN]
  /\ pipeline_jid \in [Job -> Nat]

Leader(j) == <<j, 1>>        \* pipeline->pgrp: the pid of the first child
Current   == <<pipeline, n>> \* the process forked for main's current command
Listed    == Range(job_list)

Init ==   \* shell_initialize
  /\ KernelInit
  /\ pc = "prompt" /\ pipeline = NoJob /\ n = 0 /\ op = "none" /\ local = 0
  /\ blocked = FALSE /\ in_handler = FALSE
  /\ job_list = <<>> /\ jid = 0
  /\ status = [j \in Job |-> "NONE"]
  /\ bg_job = [j \in Job |-> FALSE]
  /\ pipeline_jid = [j \in Job |-> 0]

Main(l) == pc = l /\ ~in_handler

\* The rest of the pipeline is dropped; main's loop asks for the next one.
Finish ==
  /\ pc' = "loop" /\ pipeline' = NoJob /\ n' = 0 /\ op' = "none" /\ local' = 0

Goto(l) == pc' = l /\ UNCHANGED <<pipeline, n, op, local>>

-----------------------------------------------------------------------------
(***************************************************************************)
(* The read/eval loop.                                                     *)
(***************************************************************************)

\* The user types a command line, or EOF.
ReadLine ==
  /\ Main("prompt")
  /\ tty = Shell
  /\ Goto("loop") \/ Goto("exited")
  /\ UNCHANGED <<mask, table, fields, kernel>>

\* A read from the terminal by a shell that does not own it: SIGTTIN.
ReadWithoutTerminal ==
  /\ Main("prompt")
  /\ tty # Shell
  /\ Goto("lost")
  /\ UNCHANGED <<mask, table, fields, kernel>>

EndOfLine ==
  /\ Main("loop")
  /\ Goto("prompt")
  /\ UNCHANGED <<mask, table, fields, kernel>>

\* pipeline_pre_process up to ++jid, for a pipeline that starts with a program.
pre_process_Program(j, b) ==
  /\ Main("loop")
  /\ jid < MaxJid
  /\ status[j] = "NONE"
  /\ pipeline' = j
  /\ bg_job' = [bg_job EXCEPT ![j] = b]
  /\ status' = [status EXCEPT ![j] = IF b THEN "BACKGROUND" ELSE "FOREGROUND"]
  /\ jid' = IF job_list = <<>> THEN 0 ELSE jid
  /\ pc' = "load"
  /\ UNCHANGED <<n, op, local, mask, job_list, pipeline_jid, kernel>>

\* The same for a pipeline that starts with a built-in: it too consumes a jid.
pre_process_Builtin ==
  /\ Main("loop")
  /\ jid < MaxJid
  /\ jid' = IF job_list = <<>> THEN 0 ELSE jid
  /\ Goto("load")
  /\ UNCHANGED <<mask, job_list, status, fields, kernel>>

\* ++jid reads and writes the variable that the handler may reset in between;
\* the assignment to pipeline->jid reads it once more.
LoadJid ==
  /\ Main("load")
  /\ pc' = "store" /\ local' = jid
  /\ UNCHANGED <<pipeline, n, op, mask, table, fields, kernel>>

StoreJid ==
  /\ Main("store")
  /\ jid' = local + 1
  /\ pc' = "assign" /\ local' = 0
  /\ UNCHANGED <<pipeline, n, op, mask, job_list, status, fields, kernel>>

AssignJid ==
  /\ Main("assign")
  /\ pipeline_jid' = IF pipeline = NoJob THEN pipeline_jid
                     ELSE [pipeline_jid EXCEPT ![pipeline] = jid]
  /\ pc' = "cmd" /\ n' = 1
  /\ UNCHANGED <<pipeline, op, local, mask, table, bg_job, kernel>>

-----------------------------------------------------------------------------
(***************************************************************************)
(* Launching a pipeline: pipeline_process for each program, then           *)
(* pipeline_post_process.                                                  *)
(***************************************************************************)

\* Whether main is at a command of the given kind.
AtCommand(kind) ==
  /\ Main("cmd")
  /\ IF pipeline = NoJob THEN kind = "builtin"
     ELSE n <= Len(Cmds[pipeline]) /\ Cmds[pipeline][n] = kind

\* esh_signal_block(SIGCHLD) left out.
no_block == UNCHANGED blocked
esh_signal_block == blocked' = TRUE

pipeline_process ==
  /\ AtCommand("program")
  /\ esh_signal_block
  /\ fork(Current)
  /\ pc' = "setpgid"
  /\ UNCHANGED <<pipeline, n, op, local, in_handler, table, fields>>

\* fork fails: the shell ends, in front of the children it has forked before.
fork_Error ==
  /\ AtCommand("program")
  /\ esh_signal_block
  /\ Goto("fatal")
  /\ UNCHANGED <<in_handler, table, fields, kernel>>

\* setpgid_child in the parent. Its other way to fail, a group without
\* processes, is excluded by GroupsExist below.
setpgid_child ==
  /\ Main("setpgid")
  /\ phase[Current] # "execed"
  /\ pgid' = [pgid EXCEPT ![Current] = Leader(pipeline)]
  /\ pc' = "cmd" /\ n' = n + 1
  /\ UNCHANGED <<pipeline, op, local, mask, table, fields>>
  /\ UNCHANGED <<run, phase, report, tty, chld>>

\* setpgid(2) on a child that has executed execvp already: EACCES.
setpgid_child_Late ==
  /\ Main("setpgid")
  /\ phase[Current] = "execed"
  /\ Goto("fatal")
  /\ UNCHANGED <<mask, table, fields, kernel>>

pipeline_post_process ==
  /\ Main("cmd") /\ pipeline # NoJob
  /\ n > Len(Cmds[pipeline])
  /\ job_list' = Append(job_list, pipeline)
  /\ \/ /\ status[pipeline] = "FOREGROUND"
        /\ Goto("wait")
        /\ UNCHANGED blocked
     \/ /\ status[pipeline] = "BACKGROUND"
        /\ Finish
        /\ blocked' = FALSE
  /\ UNCHANGED <<in_handler, jid, status, fields, kernel>>

-----------------------------------------------------------------------------
(***************************************************************************)
(* What the shell does with a status that waitpid has handed out for p.    *)
(* Only the first process of a pipeline is looked up: its pid is pgrp.     *)
(***************************************************************************)

\* A job killed by a signal would stay listed.
Delists_ExitedOnly(s) == s = "exited"
Delists(s) == s \in TermReport

\* The signal's number in the place of the status: both are integers in C.
StatusAfter_Raw(old, s) == IF s \in {"SIGTSTP", "SIGTTIN", "SIGTTOU"} THEN s ELSE old
\* A job stopped for the terminal would pass for a running one.
StatusAfter_KeyboardOnly(old, s) == IF s = "SIGTSTP" THEN "STOPPED" ELSE old
StatusAfter(old, s) == IF s \in {"SIGTSTP", "SIGTTIN", "SIGTTOU"} THEN "STOPPED" ELSE old

child_status_change(p) ==
  /\ \/ \E i \in DOMAIN job_list :
          /\ Leader(job_list[i]) = p
          /\ job_list' = IF Delists(report[p]) THEN RemoveAt(job_list, i) ELSE job_list
          /\ status' = [status EXCEPT ![job_list[i]] = StatusAfter(@, report[p])]
     \/ /\ \A i \in DOMAIN job_list : Leader(job_list[i]) # p
        /\ UNCHANGED <<job_list, status>>
  /\ jid' = IF job_list' = <<>> THEN 0 ELSE jid

\* The shell would leave the terminal to the job it waited for.
keep_terminal    == UNCHANGED tty
reclaim_terminal == tty' = Shell

\* One waitpid, for any child, then the terminal; with the unblocking of SIGCHLD
\* that follows in both callers. It cannot fail: see GroupsExist.
wait_for_job ==
  /\ Main("wait")
  /\ \E p \in Reportable : Collect(p) /\ child_status_change(p)
  /\ reclaim_terminal
  /\ blocked' = FALSE
  /\ Finish
  /\ UNCHANGED <<in_handler, fields, phase, pgid, chld>>

handler_enter ==
  /\ chld /\ ~blocked /\ ~in_handler /\ pc \notin Dead
  /\ in_handler' = TRUE /\ chld' = FALSE
  /\ UNCHANGED <<main, blocked, table, fields, run, phase, report, pgid, tty>>

handler_reap ==
  /\ in_handler
  /\ \E p \in Reportable : Collect(p) /\ child_status_change(p)
  /\ UNCHANGED <<main, mask, fields, phase, pgid, tty, chld>>

\* The handler with a single waitpid instead of a loop.
handler_return_Once ==
  /\ in_handler
  /\ in_handler' = FALSE
  /\ UNCHANGED <<main, blocked, table, fields, kernel>>

handler_return ==
  /\ in_handler
  /\ Reportable = {}
  /\ in_handler' = FALSE
  /\ UNCHANGED <<main, blocked, table, fields, kernel>>

-----------------------------------------------------------------------------
(***************************************************************************)
(* The built-ins.                                                          *)
(***************************************************************************)

\* jobs, or a command that a plug-in takes: break out of the command loop.
jobs_execute ==
  /\ AtCommand("builtin")
  /\ "jobs" \in Builtins
  /\ Finish
  /\ UNCHANGED <<mask, table, fields, kernel>>

exit_execute ==
  /\ AtCommand("builtin")
  /\ "exit" \in Builtins
  /\ Goto("exited")
  /\ UNCHANGED <<mask, table, fields, kernel>>

\* get_jid: a number the user typed, or the id of the last job of the list.
get_jid(o) ==
  /\ AtCommand("builtin")
  /\ \/ local' \in JidArgs
     \/ job_list # <<>> /\ local' = pipeline_jid[Last(job_list)]
  /\ op' = o
  /\ pc' = "check" /\ n' = 0
  /\ UNCHANGED <<pipeline, mask, table, fields, kernel>>

\* No argument and no job: list_back asserts that the list is not empty.
get_jid_Abort ==
  /\ AtCommand("builtin")
  /\ job_list = <<>>
  /\ Goto("aborted")
  /\ UNCHANGED <<mask, table, fields, kernel>>

\* "No such job"
no_such_job ==
  /\ Main("check")
  /\ job_list = <<>>
  /\ Finish
  /\ UNCHANGED <<mask, table, fields, kernel>>

list_not_empty ==
  /\ Main("check")
  /\ job_list # <<>>
  /\ Goto("lookup")
  /\ UNCHANGED <<mask, table, fields, kernel>>

\* The first job of the list with that id; fg and bg write its status at once.
get_job_from_jid ==
  /\ Main("lookup")
  /\ \E i \in DOMAIN job_list :
       LET j == job_list[i] IN
       /\ pipeline_jid[j] = local
       /\ \A k \in 1..(i - 1) : pipeline_jid[job_list[k]] # local
       /\ pipeline' = j
       /\ status' = [status EXCEPT ![j] = CASE op = "fg" -> "FOREGROUND"
                                            [] op = "bg" -> "BACKGROUND"
                                            [] OTHER     -> @]
  /\ pc' = "signal" /\ local' = 0
  /\ UNCHANGED <<n, op, mask, job_list, jid, fields, kernel>>

\* No job has that id: the built-in dereferences the null pipeline.
get_job_from_jid_Null ==
  /\ Main("lookup")
  /\ \A i \in DOMAIN job_list : pipeline_jid[job_list[i]] # local
  /\ Goto("crashed")
  /\ UNCHANGED <<mask, table, fields, kernel>>

Signal(o) == CASE o \in {"fg", "bg"} -> "SIGCONT"
               [] o = "kill"         -> "SIGKILL"
               [] o = "stop"         -> "SIGSTOP"

\* bg_execute, kill_execute and stop_execute end with the signal.
signal_job ==
  /\ Main("signal") /\ op # "fg"
  /\ Group(Leader(pipeline)) # {}
  /\ killpg(Leader(pipeline), Signal(op))
  /\ Finish
  /\ UNCHANGED <<mask, table, fields>>

\* fg_execute blocks SIGCHLD first and waits afterwards.
signal_Foreground ==
  /\ Main("signal") /\ op = "fg"
  /\ Group(Leader(pipeline)) # {}
  /\ killpg(Leader(pipeline), Signal(op))
  /\ esh_signal_block
  /\ Goto("give")
  /\ UNCHANGED <<in_handler, table, fields>>

\* The last process of the job was reaped after the lookup: ESRCH.
signal_NoGroup ==
  /\ Main("signal")
  /\ Group(Leader(pipeline)) = {}
  /\ Goto("fatal")
  /\ UNCHANGED <<mask, table, fields, kernel>>

give_terminal_to ==
  /\ Main("give")
  /\ tty' = Leader(pipeline)
  /\ Goto("wait")
  /\ UNCHANGED <<mask, table, fields, run, phase, report, pgid, chld>>

-----------------------------------------------------------------------------
(***************************************************************************)
(* The child, between fork and execvp.                                     *)
(***************************************************************************)

ChildStep(p, from, to) ==
  /\ run[p] = "live" /\ phase[p] = from
  /\ phase' = [phase EXCEPT ![p] = to]
  /\ UNCHANGED <<run, report, chld>>

child_setpgid(p) ==
  /\ ChildStep(p, "forked", "grouped")
  /\ pgid' = [pgid EXCEPT ![p] = Leader(p[1])]
  /\ UNCHANGED tty

child_give_terminal_to(p) ==
  /\ ChildStep(p, "grouped", "ready")
  /\ tty' = IF bg_job[p[1]] THEN tty ELSE Leader(p[1])
  /\ UNCHANGED pgid

child_execvp(p) ==
  /\ ChildStep(p, "ready", "execed")
  /\ UNCHANGED <<pgid, tty>>

Process(p) ==
  /\ pc \notin Dead
  /\ \/ child_setpgid(p) \/ child_give_terminal_to(p) \/ child_execvp(p)
     \/ ProcessStep(p)
  /\ UNCHANGED <<main, mask, table, fields>>

-----------------------------------------------------------------------------
Loop ==
  \/ EndOfLine \/ pre_process_Builtin
  \/ \E j \in Job, b \in Amp : pre_process_Program(j, b)
  \/ LoadJid \/ StoreJid \/ AssignJid

Launch ==
  \/ pipeline_process \/ fork_Error
  \/ setpgid_child \/ setpgid_child_Late \/ pipeline_post_process

Builtin ==
  \/ jobs_execute \/ exit_execute
  \/ \E o \in JobControl \cap Builtins : get_jid(o) \/ get_jid_Abort
  \/ no_such_job \/ list_not_empty \/ get_job_from_jid \/ get_job_from_jid_Null
  \/ signal_job \/ signal_Foreground \/ signal_NoGroup \/ give_terminal_to

MainStep == Loop \/ Launch \/ Builtin \/ wait_for_job
Handler  == handler_enter \/ handler_reap \/ handler_return

\* The shell has ended.
Ended == pc \in Dead /\ UNCHANGED vars

Next ==
  \/ ReadLine \/ ReadWithoutTerminal
  \/ MainStep
  \/ Handler
  \/ \E p \in Pid : Process(p)
  \/ Ended

\* main runs on once a line is read, and a pending SIGCHLD is delivered before
\* the sigprocmask that unblocks it returns. The children owe nothing.
Fairness == WF_vars(MainStep) /\ SF_vars(handler_enter) /\ WF_vars(Handler)

Spec == Init /\ [][Next]_vars
FairSpec == Spec /\ Fairness

-----------------------------------------------------------------------------
(***************************************************************************)
(* Properties.                                                             *)
(***************************************************************************)

\* A status that waitpid could hand out is never forgotten: SIGCHLD is pending
\* or the handler has yet to loop (sigchld_handler's loop, although waits in
\* the foreground collect statuses behind its back).
NoLostSigchld == Reportable # {} => chld \/ in_handler

\* No process of a pipeline that is being launched is reaped: its pid, which is
\* about to be used for setpgid and entered in the list, is still its own
\* (pipeline_process blocks SIGCHLD before fork).
LaunchUnreaped ==
  pc \in {"cmd", "setpgid"} =>
    \A p \in Pid : p[1] = pipeline => run[p] # "reaped"

\* Every process group that setpgid, tcsetpgrp and a wait are about to rely on
\* still has a process: pipeline_process in both processes, and fg_execute from
\* its esh_signal_block to the end of wait_for_job.
GroupsExist ==
  /\ pc = "setpgid" => GroupJoinable(Current, Leader(pipeline))
  /\ \A p \in Pid : run[p] = "live" /\ phase[p] = "forked" => GroupJoinable(p, Leader(p[1]))
  /\ pc \in {"give", "wait"} => Group(Leader(pipeline)) # {}

\* wait_for_job cannot wait for ever on children that are all stopped and were
\* all reported before: one is running or has a status to report.
WaitWillReturn ==
  pc \in {"give", "wait"} => \E p \in Pid : run[p] = "live" \/ p \in Reportable

Plain(j) == \A k \in DOMAIN Cmds[j] : Cmds[j][k] = "program"

\* The job list is exact: nobody is listed twice, a listed job's pgrp is the pid
\* of a process not yet reaped, and every job whose first process is not reaped
\* is listed or being launched (child_status_change and pipeline_post_process;
\* a job with a built-in among its commands is never listed).
JobListExact ==
  /\ IsInjective(job_list)
  /\ \A j \in Listed : Leader(j) \in Unreaped
  /\ \A j \in Job : pc \notin Dead /\ Plain(j) /\ Leader(j) \in Unreaped =>
       j \in Listed \/ (pc \in {"cmd", "setpgid"} /\ pipeline = j)

\* Before a prompt the shell has the terminal (give_terminal_to's comment). Only
\* some workloads keep this: a child of the launch may take the terminal late.
TerminalAtPrompt == pc = "prompt" => tty = Shell

\* Nothing left to collect at a prompt: jobs prints as Stopped the jobs that are
\* stopped, and no others, and no job is in the foreground state.
StatusAtPrompt ==
  pc = "prompt" /\ ~in_handler /\ Reportable = {} =>
    \A j \in Listed :
      /\ status[j] # "FOREGROUND"
      /\ status[j] = "STOPPED" <=> run[Leader(j)] = "stopped"

-----------------------------------------------------------------------------
(***************************************************************************)
(* What the sources say, and the code does not keep up.                    *)
(***************************************************************************)

\* basic/jobs_test.py:117: no duplicate job ids.
DistinctJids ==
  \A i, j \in Listed : pipeline_jid[i] = pipeline_jid[j] => i = j

\* esh.c:295: wait_for_job waits for all processes of the pipeline to complete,
\* or for its process group to be no longer the foreground one.
WaitsForPipeline ==
  [][pc = "wait" /\ pc' = "loop" =>
       \/ \A p \in Group(Leader(pipeline)) : run[p] = "zombie"
       \/ tty # Leader(pipeline)
       \/ \E p \in Group(Leader(pipeline)) : report[p] \in StopSignal]_vars

-----------------------------------------------------------------------------
(***************************************************************************)
(* The inductive invariant behind NoLostSigchld, LaunchUnreaped,           *)
(* GroupsExist, WaitWillReturn and JobListExact.                           *)
(***************************************************************************)

\* Where main's locals may be used.
ControlInv ==
  /\ pc \in {"prompt", "loop"} => pipeline = NoJob
  /\ pc \in {"prompt", "loop", "load", "store", "assign"} => n = 0
  /\ pc \in {"cmd", "setpgid"} => n > 0
  /\ pc = "cmd" /\ n > 1 => pipeline # NoJob
  /\ pc = "setpgid" => pipeline # NoJob /\ n <= Len(Cmds[pipeline])
  /\ pc \in {"signal", "give", "wait"} => pipeline # NoJob

\* A report and the state it reports; a process changes groups only once.
ProcessInv ==
  \A p \in Pid :
    /\ run[p] \in {"none", "live", "reaped"} => report[p] = "none"
    /\ run[p] = "zombie" <=> report[p] \in TermReport
    /\ pgid[p] \in {Shell, Leader(p[1])}

\* The handler runs only while SIGCHLD is not blocked and the shell has not ended.
\* SIGCHLD stays blocked from the first fork of a pipeline, or from the signal
\* of fg, to the end of the wait.
MaskInv ==
  /\ in_handler => ~blocked /\ pc \notin Dead
  /\ pc \in {"setpgid", "give", "wait"} \/ (pc = "cmd" /\ n > 1) => blocked

Launching == pc \in {"load", "store", "assign", "cmd", "setpgid"} /\ pipeline # NoJob
Forked(k) == k < n \/ (pc = "setpgid" /\ k = n)

\* The status of p is still to be collected, now or when p changes state.
Awaited(p) == run[p] = "live" \/ report[p] # "none"

\* A pipeline not typed yet.
UnusedInv ==
  \A j \in Job : status[j] = "NONE" =>
    /\ j \notin Listed
    /\ \A p \in Pid : p[1] = j => run[p] = "none"

\* The processes of the pipeline being launched, those of the commands before
\* main's and the one just forked: all wait to be collected.
LaunchInv ==
  Launching =>
    /\ status[pipeline] # "NONE" /\ pipeline \notin Listed
    /\ \A p \in Pid : p[1] = pipeline =>
         /\ ~Forked(p[2]) => run[p] = "none"
         /\ Forked(p[2])  => run[p] # "reaped" /\ Awaited(p)
         /\ p[2] < n      => pgid[p] = Leader(pipeline)

\* A child that has not yet called setpgid itself was put in the group by the
\* parent, unless the parent is just about to.
GroupInv ==
  \A p \in Pid : phase[p] = "forked" =>
    pgid[p] = Leader(p[1]) \/ (pc = "setpgid" /\ p = Current)

\* The job main waits for has a process whose status is still to come.
WaitInv ==
  pc \in {"give", "wait"} => \E p \in Group(Leader(pipeline)) : Awaited(p)

Inv ==
  /\ TypeOK /\ ControlInv /\ ProcessInv /\ MaskInv
  /\ UnusedInv /\ LaunchInv /\ GroupInv /\ WaitInv
  /\ NoLostSigchld /\ JobListExact

\* Nothing but single programs in the foreground, which only the shell and the terminal stop and
\* continue; stop finds nothing to stop. WorkInv is the
\* invariant behind TerminalAtPrompt and StatusAtPrompt: while main is not at work on a job
\* that it will wait for, no child runs, and none has a status to report.
Sequential ==
  /\ \A j \in Job : Len(Cmds[j]) = 1
  /\ Amp \subseteq {FALSE} /\ Builtins \subseteq {"jobs", "fg", "stop", "exit"}
  /\ OutsideSignals = {}

AtWork == pc \in {"setpgid", "give", "wait"} \/ (pc = "cmd" /\ n > 1)

WorkInv ==
  pc \notin Dead =>
    /\ \A p \in Pid :
         /\ run[p] # "none" => p[2] = 1
         /\ run[p] \in {"live", "zombie"} \/ report[p] # "none" => AtWork /\ p[1] = pipeline
         /\ report[p] # "SIGSTOP"
    /\ tty # Shell => AtWork /\ tty = Leader(pipeline)
    /\ Launching => status[pipeline] = "FOREGROUND"
    /\ pc \in {"check", "lookup", "signal"} => op \in {"fg", "stop"}
    /\ \A j \in Listed :
         status[j] = "STOPPED" \/ (j = pipeline /\ (AtWork \/ (pc = "signal" /\ op = "fg")))

\* Nor does anybody reset jid while a launch holds its number, so DistinctJids is true of such
\* a shell: the ids rise along the list, up to that of the pipeline being launched.
Numbered == pc \in {"cmd", "setpgid"} /\ pipeline # NoJob

NumberInv ==
  /\ \A i \in DOMAIN job_list :
       /\ pipeline_jid[job_list[i]] <= jid
       /\ \A k \in 1..(i - 1) : pipeline_jid[job_list[k]] < pipeline_jid[job_list[i]]
       /\ pc = "assign" => pipeline_jid[job_list[i]] < jid
       /\ Numbered => pipeline_jid[job_list[i]] < pipeline_jid[pipeline]
  /\ Numbered => pipeline_jid[pipeline] <= jid
  /\ pc = "store" => local = jid

SequentialInv == WorkInv /\ NumberInv

\* What JobTable knows of a job: the first process stands for it.
JobState(j) == CASE run[Leader(j)] = "none"   -> "new"
                 [] run[Leader(j)] = "zombie" -> "ended"
                 [] run[Leader(j)] = "reaped" -> "gone"
                 [] OTHER                     -> "running"

Table == INSTANCE JobTable WITH
  state <- [j \in Job |-> JobState(j)], listed <- job_list, open <- pc \notin Dead

\* A job is entered in the list once, when it was started, and taken out when its
\* first process has ended, and nothing else changes the list, however signals,
\* built-ins and the handler interleave (pipeline_post_process, child_status_change).
KeepsJobTable == Table!Safety

\* The same, and no job stays out of the list, nor in it once its first process
\* has ended: SIGCHLD is unblocked again, and the handler reaps.
ImplementsJobTable == Table!Spec
=============================================================================
