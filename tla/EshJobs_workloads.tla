-------------------------- MODULE EshJobs_workloads --------------------------
(***************************************************************************)
(* Theorems about EshJobs that need an assumption on what is typed.        *)
(*                                                                         *)
(* EshJobs implements the safety part of JobTable when no pipeline has a   *)
(* built-in behind a program. (One that has is launched half way and never *)
(* listed.) Its liveness is left to TLC.                                   *)
(*                                                                         *)
(* The shell has the terminal at every prompt, and shows as Stopped what   *)
(* is stopped, when nothing but single programs is typed, all of them in   *)
(* the foreground.                                                         *)
(***************************************************************************)
EXTENDS EshJobs_proofs

SameOpen == pc' \in Dead <=> pc \in Dead
SameJob(j) == JobState(j)' = JobState(j)

\* What leaves the processes, the list and the shell's life alone is no step of
\* the table.
LEMMA Stutters ==
  ASSUME \A j \in Job : SameJob(j), job_list' = job_list, SameOpen
  PROVE  UNCHANGED Table!vars
BY DEF SameJob, SameOpen, Table!vars

\* A change of one job.
LEMMA OneJob ==
  ASSUME NEW j \in Job, \A i \in Job \ {j} : SameJob(i)
  PROVE  [i \in Job |-> JobState(i)]' = [[i \in Job |-> JobState(i)] EXCEPT ![j] = JobState(j)']
BY DEF SameJob

\* The end of a job's first process is a step of the table, wherever it comes from:
\* the other jobs' first processes have to stay, and the list.
LEMMA Ends ==
  ASSUME TypeOK, pc \notin Dead, pc' \notin Dead, job_list' = job_list,
         NEW j \in Job, \A i \in Job \ {j} : SameJob(i),
         JobState(j) = "running", JobState(j)' \in {"running", "ended"}
  PROVE  [Table!Next]_(Table!vars)
<1>1. CASE SameJob(j)
  BY <1>1, Stutters DEF SameOpen
<1>2. CASE JobState(j)' = "ended"
  <2>1. [i \in Job |-> JobState(i)]' = [[i \in Job |-> JobState(i)] EXCEPT ![j] = "ended"]
    BY <1>2, OneJob
  <2>2. [i \in Job |-> JobState(i)][j] = "running"
    OBVIOUS
  <2>3. Table!End(j)
    BY <2>1, <2>2 DEF Table!End, Table!Change
  <2> QED  BY <2>3 DEF Table!Next
<1> QED  BY <1>1, <1>2 DEF SameJob

-----------------------------------------------------------------------------
(***************************************************************************)
(* Each kind of step.                                                      *)
(***************************************************************************)

\* A process is reaped or unborn for the table as it is for the kernel.
LEMMA Unchanged ==
  ASSUME NEW j \in Job, run'[Leader(j)] = run[Leader(j)]
  PROVE  SameJob(j)
BY DEF SameJob, JobState

\* Processes of S change state. At most one of them is the first of its job.
LEMMA TableChange ==
  ASSUME TypeOK, pc \notin Dead, pc' \notin Dead, job_list' = job_list,
         NEW j \in Job, NEW S \in SUBSET Pid, \A i \in Job \ {j} : Leader(i) \notin S,
         NEW r \in {"live", "stopped", "zombie"}, NEW s, ChangeState(S, r, s),
         \A p \in S : run[p] \in {"live", "stopped"}
  PROVE  [Table!Next]_(Table!vars)
<1>1. ASSUME NEW p \in Pid PROVE run'[p] = IF p \in S THEN r ELSE run[p]
  BY DEF ChangeState
<1>2. ASSUME NEW i \in Job, Leader(i) \notin S PROVE SameJob(i)
  BY <1>1, <1>2, Pids, Unchanged
<1>3. CASE Leader(j) \in S
  <2>1. JobState(j) = "running"
    BY <1>3 DEF JobState
  <2>2. JobState(j)' \in {"running", "ended"}
    BY <1>1, <1>3 DEF JobState
  <2> QED  BY <1>2, <2>1, <2>2, Ends
<1>4. CASE Leader(j) \notin S
  BY <1>2, <1>4, Stutters DEF SameOpen
<1> QED  BY <1>3, <1>4

\* A signal for the group of a job reaches the first process of no other job.
LEMMA TableKillpg ==
  ASSUME TypeOK, ProcessInv, pc \notin Dead, pc' \notin Dead, job_list' = job_list,
         NEW j \in Job, NEW sig, killpg(Leader(j), sig)
  PROVE  [Table!Next]_(Table!vars)
<1>1. ASSUME NEW i \in Job, Leader(i) \in Group(Leader(j)) PROVE i = j
  BY <1>1, Pids, ShellIsNoChild DEF Group, ProcessInv
<1> USE DEF Group, Unreaped
<1>2. CASE ChangeState({p \in Group(Leader(j)) : run[p] = "stopped"}, "live", "none")
  BY <1>1, <1>2, TableChange
<1>3. CASE ChangeState({p \in Group(Leader(j)) : run[p] # "zombie"}, "zombie", "signaled")
  BY <1>1, <1>3, TableChange
<1>4. CASE ChangeState({p \in Group(Leader(j)) : run[p] = "live"}, "stopped", "SIGSTOP")
  BY <1>1, <1>4, TableChange
<1> QED  BY <1>2, <1>3, <1>4 DEF killpg

\* What a child does by itself.
LEMMA TableProcess ==
  ASSUME TypeOK, NEW p \in Pid, Process(p)
  PROVE  [Table!Next]_(Table!vars)
<1>1. pc \notin Dead /\ pc' \notin Dead /\ job_list' = job_list
  BY DEF Process, main, table
<1>2. p[1] \in Job /\ \A i \in Job \ {p[1]} : Leader(i) \notin {p}
  BY Pids DEF Leader
<1>3. CASE child_setpgid(p) \/ child_give_terminal_to(p) \/ child_execvp(p)
  <2>1. run' = run
    BY <1>3 DEF child_setpgid, child_give_terminal_to, child_execvp, ChildStep
  <2> QED  BY <1>1, <2>1, Unchanged, Stutters DEF SameOpen
<1>4. ASSUME NEW how, ChangeState({p}, "zombie", how), run[p] = "live"
      PROVE  [Table!Next]_(Table!vars)
  BY <1>1, <1>2, <1>4, TableChange
<1>5. ASSUME NEW sig, ChangeState({p}, "stopped", sig), run[p] = "live"
      PROVE  [Table!Next]_(Table!vars)
  BY <1>1, <1>2, <1>5, TableChange
<1>6. ASSUME NEW r \in {"live", "zombie"}, NEW s, ChangeState({p}, r, s), run[p] = "stopped"
      PROVE  [Table!Next]_(Table!vars)
  BY <1>1, <1>2, <1>6, TableChange
<1>7. CASE ProcessStep(p)
  <2>1. CASE Die(p) \/ StopFromKeyboard(p) \/ StopForTerminal(p)
    BY <1>4, <1>5, <2>1 DEF Die, StopFromKeyboard, StopForTerminal
  <2>2. CASE SignalFromOutside(p)
    BY <1>5, <1>6, <2>2 DEF SignalFromOutside
  <2> QED  BY <1>7, <2>1, <2>2 DEF ProcessStep
<1> QED  BY <1>3, <1>7 DEF Process

\* fork starts the job with its first process, and no other.
LEMMA TableFork ==
  ASSUME Inv, pipeline_process
  PROVE  [Table!Next]_(Table!vars)
<1>1. /\ pipeline \in Job /\ Current \in Pid
      /\ run[Current] = "none" /\ run'[Current] = "live"
  BY Forks DEF Inv, TypeInv
<1>2. /\ run' = [run EXCEPT ![Current] = "live"] /\ job_list' = job_list
      /\ pc \notin Dead /\ pc' \notin Dead
  BY DEF pipeline_process, fork, table, AtCommand, Main, Dead
<1>3. ASSUME NEW i \in Job, Leader(i) # Current PROVE SameJob(i)
  BY <1>2, <1>3, Pids, Unchanged DEF Inv, TypeOK, KernelTypeOK
<1>4. ASSUME NEW j \in Job, Leader(j) = Current PROVE [Table!Next]_(Table!vars)
  <2>1. JobState(j) = "new" /\ JobState(j)' = "running"
    BY <1>1, <1>4 DEF JobState, Leader
  <2>2. \A i \in Job \ {j} : SameJob(i)
    BY <1>3, <1>4, Pids
  <2>3. [i \in Job |-> JobState(i)]' = [[i \in Job |-> JobState(i)] EXCEPT ![j] = "running"]
    BY <2>1, <2>2, OneJob
  <2>4. Table!Start(j)
    BY <1>2, <2>1, <2>3 DEF Table!Start, Table!Change
  <2> QED  BY <2>4 DEF Table!Next
<1>5. CASE \A i \in Job : Leader(i) # Current
  BY <1>2, <1>3, <1>5, Stutters DEF SameOpen
<1> QED  BY <1>4, <1>5

\* The end of a launch enters the job.
LEMMA TableEnter ==
  ASSUME Inv, pipeline_post_process
  PROVE  [Table!Next]_(Table!vars)
<1>1. /\ pipeline \in Job /\ pc = "cmd" /\ n > 1 /\ Launching
      /\ run' = run /\ pc' \in {"wait", "loop"}
  BY PostProcess, Pids DEF Inv, TypeInv, Launching, kernel
<1>2. PICK j \in Job : j = pipeline
  BY <1>1
<1>3. job_list' = Append(job_list, j)
  BY <1>2 DEF pipeline_post_process
<1>4. Leader(j) \in Pid /\ Leader(j)[1] = j /\ Leader(j)[2] = 1
  BY Pids
<1>5. Awaited(Leader(j)) /\ run[Leader(j)] # "reaped"
  BY <1>1, <1>2, <1>4 DEF Inv, LaunchInv, Forked
<1>6. JobState(j) \in {"running", "ended"}
  BY <1>4, <1>5 DEF Inv, ProcessInv, Awaited, JobState
<1>7. ~Table!Contains(job_list, j)
  <2>1. j \notin Listed
    BY <1>1, <1>2 DEF Inv, LaunchInv
  <2> QED  BY <2>1, LenProperties DEF Inv, TypeOK, Listed, Range, Table!Contains
<1>8. \A i \in Job : SameJob(i)
  BY <1>1, Unchanged
<1>9. [i \in Job |-> JobState(i)]' = [i \in Job |-> JobState(i)]
  BY <1>8 DEF SameJob
<1>10. Table!Enter(j)
  BY <1>1, <1>3, <1>6, <1>7, <1>9 DEF Table!Enter, Dead
<1> QED  BY <1>10 DEF Table!Next

\* The shell ends.
LEMMA Closes ==
  ASSUME pc \notin Dead, pc' \in Dead, UNCHANGED <<table, kernel>>
  PROVE  [Table!Next]_(Table!vars)
<1>1. \A i \in Job : SameJob(i)
  BY Unchanged DEF kernel
<1>2. [i \in Job |-> JobState(i)]' = [i \in Job |-> JobState(i)]
  BY <1>1 DEF SameJob
<1>3. Table!Close
  BY <1>2 DEF table, Table!Close
<1> QED  BY <1>3 DEF Table!Next

\* A status is collected: if it is the end of a job's first process, the job was
\* in the list, for no process of a launch can be reaped, and leaves it.
LEMMA TableCollect ==
  ASSUME Inv, \A j \in Job : Plain(j), pc \notin Dead, pc' \notin Dead,
         in_handler \/ pc = "wait", NEW q \in Reportable, Collects(q)
  PROVE  [Table!Next]_(Table!vars)
<1>1. /\ q \in Pid /\ Collect(q) /\ child_status_change(q)
      /\ run \in [Pid -> RunState] /\ job_list \in Seq(Job)
  BY DEF Reportable, Collects, Inv, TypeOK, KernelTypeOK
<1>2. run' = [run EXCEPT ![q] = IF run[q] = "zombie" THEN "reaped" ELSE run[q]]
  BY <1>1 DEF Collect
<1>3. run[q] = "zombie" <=> Delists(report[q])
  BY <1>1 DEF Inv, ProcessInv, Delists
<1>4. ASSUME NEW j \in Job, Leader(j) # q PROVE SameJob(j)
  BY <1>1, <1>2, <1>4, Pids, Unchanged
<1>5. CASE \A j \in Job : Leader(j) # q
  <2>1. \A i \in DOMAIN job_list : job_list[i] \in Job
    BY <1>1, LenProperties, ElementOfSeq
  <2>2. job_list' = job_list
    BY <1>1, <1>5, <2>1 DEF child_status_change
  <2> QED  BY <1>4, <1>5, <2>2, Stutters DEF SameOpen
<1>6. CASE run[q] # "zombie"
  <2>1. job_list' = job_list
    BY <1>1, <1>3, <1>6 DEF child_status_change
  <2>2. run' = run
    BY <1>1, <1>2, <1>6
  <2> QED  BY <2>1, <2>2, Unchanged, Stutters DEF SameOpen
<1>7. ASSUME NEW j \in Job, Leader(j) = q, run[q] = "zombie"
      PROVE  [Table!Next]_(Table!vars)
  <2>1. j \in Listed
    <3>1. q \in Unreaped
      BY <1>1, <1>7 DEF Unreaped
    <3>2. ASSUME pc \in {"cmd", "setpgid"}, pipeline = j PROVE FALSE
      <4>1. pc = "cmd" /\ ~(n > 1) /\ n \in Nat /\ Launching
        BY <3>2, Pids DEF Inv, MaskInv, TypeOK, Launching
      <4>2. Leader(j)[1] = pipeline /\ ~Forked(Leader(j)[2])
        BY <3>2, <4>1, Pids DEF Forked
      <4> QED  BY <1>1, <1>7, <4>1, <4>2 DEF Inv, LaunchInv
    <3> QED  BY <1>7, <3>1, <3>2 DEF Inv, JobListExact
  <2>2. PICK k \in DOMAIN job_list : job_list[k] = j
    BY <2>1 DEF Listed, Range
  <2>3. PICK i \in DOMAIN job_list :
          /\ Leader(job_list[i]) = q
          /\ job_list' = RemoveAt(job_list, i)
    BY <1>1, <1>3, <1>7, <2>2 DEF child_status_change
  <2>4. job_list[i] = j
    BY <1>1, <1>7, <2>3, Pids, LenProperties, ElementOfSeq
  <2>5. JobState(j) = "ended" /\ JobState(j)' = "gone"
    BY <1>1, <1>2, <1>7 DEF JobState
  <2>6. [x \in Job |-> JobState(x)]' = [[x \in Job |-> JobState(x)] EXCEPT ![j] = "gone"]
    <3>1. \A x \in Job \ {j} : SameJob(x)
      BY <1>4, <1>7, Pids
    <3> QED  BY <2>5, <3>1, OneJob
  <2>7. job_list' = Table!RemoveAt(job_list, i)
    BY <2>3 DEF RemoveAt, Table!RemoveAt
  <2>8. Table!Leave(j)
    BY <2>4, <2>5, <2>6, <2>7 DEF Table!Leave, Table!Change
  <2> QED  BY <2>8 DEF Table!Next
<1> QED  BY <1>5, <1>6, <1>7

-----------------------------------------------------------------------------
\* Steps of the shell that touch neither processes nor list, but may end it.
LEMMA TableQuiet ==
  ASSUME pc \notin Dead, run' = run, job_list' = job_list,
         pc' \in Dead => UNCHANGED <<table, kernel>>
  PROVE  [Table!Next]_(Table!vars)
<1>1. CASE pc' \in Dead
  BY <1>1, Closes
<1>2. CASE pc' \notin Dead
  BY <1>2, Unchanged, Stutters DEF SameOpen
<1> QED  BY <1>1, <1>2

LEMMA TableInit == Init => Table!Init
<1> SUFFICES ASSUME Init PROVE Table!Init
  OBVIOUS
<1>1. ASSUME NEW j \in Job PROVE JobState(j) = "new"
  BY Pids DEF Init, KernelInit, JobState
<1> QED  BY <1>1 DEF Init, Table!Init, Dead

LEMMA TableStep ==
  ASSUME Inv, \A j \in Job : Plain(j), [Next]_vars
  PROVE  [Table!Next]_(Table!vars)
<1> USE DEF Main, Goto, AtCommand, Finish, Dead
<1>1. CASE ReadLine \/ ReadWithoutTerminal
  BY <1>1, TableQuiet DEF ReadLine, ReadWithoutTerminal, table, kernel
<1>2. CASE Loop
  BY <1>2, TableQuiet DEF Loop, EndOfLine, pre_process_Builtin, pre_process_Program, LoadJid,
     StoreJid, AssignJid, table, kernel
<1>3. CASE Launch
  <2>1. CASE setpgid_child
    BY <2>1, TableQuiet DEF setpgid_child, table
  <2>2. CASE setpgid_child_Late \/ fork_Error
    BY <2>2, TableQuiet DEF setpgid_child_Late, fork_Error, table, kernel
  <2> QED  BY <1>3, <2>1, <2>2, TableFork, TableEnter DEF Launch
<1>4. CASE Builtin
  <2>1. CASE signal_job \/ signal_Foreground
    <3>1. pipeline \in Job /\ \E sig : killpg(Leader(pipeline), sig)
      BY <2>1 DEF signal_job, signal_Foreground, Inv, TypeOK, ControlInv
    <3>2. pc \notin Dead /\ pc' \notin Dead /\ job_list' = job_list
      BY <2>1 DEF signal_job, signal_Foreground, table
    <3> QED  BY <3>1, <3>2, TableKillpg DEF Inv
  <2>2. CASE jobs_execute \/ exit_execute \/ get_jid_Abort \/ no_such_job \/ list_not_empty
             \/ get_job_from_jid_Null \/ signal_NoGroup
    BY <2>2, TableQuiet DEF jobs_execute, exit_execute, get_jid_Abort, no_such_job,
       list_not_empty, get_job_from_jid_Null, signal_NoGroup, table, kernel
  <2>3. ASSUME NEW o, get_jid(o) PROVE [Table!Next]_(Table!vars)
    BY <2>3, TableQuiet DEF get_jid, table, kernel
  <2>4. CASE get_job_from_jid
    BY <2>4, TableQuiet DEF get_job_from_jid, table, kernel
  <2>5. CASE give_terminal_to
    BY <2>5, TableQuiet DEF give_terminal_to, table
  <2> QED  BY <1>4, <2>1, <2>2, <2>3, <2>4, <2>5 DEF Builtin
<1>5. CASE wait_for_job
  <2>1. PICK q \in Reportable : Collects(q)
    BY <1>5 DEF wait_for_job, Collects
  <2> QED  BY <1>5, <2>1, TableCollect DEF wait_for_job
<1>6. CASE handler_reap
  <2>1. PICK q \in Reportable : Collects(q)
    BY <1>6 DEF handler_reap, Collects
  <2>2. in_handler /\ pc \notin Dead /\ pc' = pc
    BY <1>6 DEF handler_reap, main, Inv, MaskInv
  <2> QED  BY <2>1, <2>2, TableCollect
<1>7. CASE handler_enter \/ handler_return \/ UNCHANGED vars
  BY <1>7, Unchanged, Stutters DEF SameOpen, handler_enter, handler_return, vars, main, table,
     kernel
<1>8. ASSUME NEW p \in Pid, Process(p) PROVE [Table!Next]_(Table!vars)
  BY <1>8, TableProcess DEF Inv
<1> QED
  BY <1>1, <1>2, <1>3, <1>4, <1>5, <1>6, <1>7, <1>8 DEF Next, MainStep, Handler, Ended

\* A job is entered once, while it runs or has ended, and leaves the list only
\* when its first process is reaped, whatever the handler interrupts.
THEOREM KeepsTable ==
  ASSUME \A j \in Job : Plain(j)
  PROVE  Spec => KeepsJobTable
<1>1. Inv /\ [Next]_vars => [Table!Next]_(Table!vars)
  BY TableStep
<1> QED  BY <1>1, TableInit, Invariance, PTL DEF Spec, KeepsJobTable, Table!Safety

-----------------------------------------------------------------------------
(***************************************************************************)
(* One program at a time, in the foreground.                               *)
(***************************************************************************)

\* What WorkInv says of a process, and of a listed job.
Idle(p) ==
  /\ run[p] # "none" => p[2] = 1
  /\ run[p] \in {"live", "zombie"} \/ report[p] # "none" => AtWork /\ p[1] = pipeline
  /\ report[p] # "SIGSTOP"
Shown(j) ==
  status[j] = "STOPPED" \/ (j = pipeline /\ (AtWork \/ (pc = "signal" /\ op = "fg")))
TerminalKept == tty # Shell => AtWork /\ tty = Leader(pipeline)

\* Where main was at work it goes on with the same job; it is at work where SIGCHLD is blocked.
LEMMA WorkIs ==
  ASSUME Inv, Sequential
  PROVE  /\ AtWork => blocked /\ pipeline \in Job
         /\ \A j \in Job : Len(Cmds[j]) = 1 /\ Cmds[j][1] = "program"
         /\ pc = "cmd" /\ pipeline # NoJob => n > 0 /\ (AtWork <=> n > 1)
<1>1. \A j \in Job : Len(Cmds[j]) = 1 /\ Cmds[j][1] = "program"
  BY Pids DEF Sequential
<1> QED  BY <1>1 DEF Inv, MaskInv, ControlInv, TypeOK, AtWork

\* The built-ins are typed where no job is.
LEMMA AtBuiltin ==
  ASSUME Inv, Sequential, AtCommand("builtin")
  PROVE  pc = "cmd" /\ pipeline = NoJob /\ ~AtWork
<1>1. pc = "cmd" /\ n \in Nat /\ n > 0 /\ pipeline \in Job \cup {NoJob}
  BY Pids DEF Inv, ControlInv, TypeOK, AtCommand, Main
<1>2. pipeline = NoJob
  BY <1>1, WorkIs DEF AtCommand
<1> QED  BY <1>1, <1>2 DEF Inv, ControlInv, AtWork

\* A step that leaves processes, terminal and jobs alone.
LEMMA SequentialQuiet ==
  ASSUME WorkInv, pc \notin Dead, UNCHANGED <<run, report, tty, status, job_list>>,
         AtWork => AtWork' /\ pipeline' = pipeline,
         Launching' => Launching /\ pipeline' = pipeline,
         pc = "signal" /\ op = "fg" => UNCHANGED <<pc, op, pipeline>>,
         pc' \in {"check", "lookup", "signal"} => op' \in {"fg", "stop"}
  PROVE  WorkInv'
<1>1. \A p \in Pid : Idle(p)'
  BY DEF WorkInv, Idle
<1>2. \A j \in Listed' : Shown(j)'
  BY DEF WorkInv, Shown, Listed
<1>3. TerminalKept' /\ (Launching' => status'[pipeline'] = "FOREGROUND")
  BY DEF WorkInv, TerminalKept
<1> QED  BY <1>1, <1>2, <1>3 DEF WorkInv, Idle, Shown, TerminalKept

LEMMA SequentialLoop ==
  ASSUME Inv, Sequential, WorkInv, Loop
  PROVE  WorkInv'
<1> USE DEF Main, Goto, AtWork, Launching, Dead, table, kernel
<1>1. CASE EndOfLine \/ pre_process_Builtin
  <2>1. pipeline = NoJob /\ pipeline' = pipeline
    BY <1>1 DEF EndOfLine, pre_process_Builtin, Inv, ControlInv
  <2> QED  BY <1>1, <2>1, SequentialQuiet DEF EndOfLine, pre_process_Builtin
<1>2. CASE LoadJid \/ StoreJid \/ AssignJid
  BY <1>2, SequentialQuiet DEF LoadJid, StoreJid, AssignJid
<1>3. ASSUME NEW j \in Job, NEW b \in Amp, pre_process_Program(j, b)  PROVE WorkInv'
  <2>1. /\ pc = "loop" /\ pc' = "load" /\ pipeline' = j /\ UNCHANGED <<run, report, tty, job_list>>
        /\ status[j] = "NONE" /\ status' = [status EXCEPT ![j] = "FOREGROUND"]
    BY <1>3 DEF pre_process_Program, Sequential
  <2>2. status \in [Job -> Status] /\ j \notin Listed
    BY <2>1 DEF Inv, TypeOK, UnusedInv
  <2>3. \A p \in Pid : Idle(p)'
    BY <2>1 DEF WorkInv, Idle
  <2>4. \A i \in Listed : i \in Job
    BY LenProperties, ElementOfSeq DEF Inv, TypeOK, Listed, Range
  <2>5. \A i \in Listed' : Shown(i)'
    BY <2>1, <2>2, <2>4 DEF WorkInv, Shown, Listed
  <2>6. TerminalKept' /\ status'[pipeline'] = "FOREGROUND"
    BY <2>1, <2>2 DEF WorkInv, TerminalKept
  <2> QED  BY <2>1, <2>3, <2>5, <2>6 DEF WorkInv, Idle, Shown, TerminalKept
<1> QED  BY <1>1, <1>2, <1>3 DEF Loop

LEMMA SequentialLaunch ==
  ASSUME Inv, Sequential, WorkInv, Launch, pc' \notin Dead
  PROVE  WorkInv'
<1> USE DEF Main, Goto, Dead, table, kernel
<1>1. CASE pipeline_process
  <2>1. /\ pipeline \in Job /\ n \in 1..MaxCmds /\ Current \in Pid /\ Launching
        /\ pc = "cmd" /\ pc' = "setpgid"
        /\ UNCHANGED <<pipeline, n, op, status, job_list, report, tty>>
        /\ run' = [run EXCEPT ![Current] = "live"]
    BY <1>1, Forks DEF Inv, TypeInv, pipeline_process, AtCommand, fork
  <2>2. n = 1 /\ ~AtWork /\ AtWork' /\ Current[1] = pipeline /\ Current[2] = 1
    <3>1. n <= 1
      BY <1>1, <2>1, WorkIs DEF pipeline_process, AtCommand
    <3>2. n = 1
      BY <2>1, <3>1, Pids
    <3> QED  BY <2>1, <3>2 DEF AtWork, Current
  <2>3. run \in [Pid -> RunState]
    BY DEF Inv, TypeOK, KernelTypeOK
  <2>4. \A p \in Pid : Idle(p)'
    BY <2>1, <2>2, <2>3 DEF WorkInv, Idle
  <2>5. \A i \in Listed' : Shown(i)'
    BY <2>1, <2>2 DEF WorkInv, Shown, Listed
  <2>6. TerminalKept' /\ status'[pipeline'] = "FOREGROUND"
    BY <2>1, <2>2 DEF WorkInv, TerminalKept
  <2> QED  BY <2>1, <2>4, <2>5, <2>6 DEF WorkInv, Idle, Shown, TerminalKept
<1>2. CASE setpgid_child
  <2>1. /\ pc = "setpgid" /\ pc' = "cmd" /\ n' = n + 1 /\ n \in Nat /\ n > 0
        /\ UNCHANGED <<pipeline, op, run, report, tty, status, job_list>>
    BY <1>2, Pids DEF setpgid_child, Inv, ControlInv, TypeOK
  <2>2. AtWork' /\ (Launching' => Launching)
    BY <2>1 DEF AtWork, Launching
  <2> QED  BY <2>1, <2>2, SequentialQuiet
<1>3. CASE setpgid_child_Late \/ fork_Error
  BY <1>3 DEF setpgid_child_Late, fork_Error
<1>4. CASE pipeline_post_process
  <2>1. /\ pc = "cmd" /\ pipeline \in Job /\ n > 1 /\ Listed' = Listed \cup {pipeline}
        /\ UNCHANGED <<status, run, report, tty>>
    BY <1>4, PostProcess DEF Inv, TypeInv
  <2>2. AtWork /\ status[pipeline] = "FOREGROUND"
    BY <2>1, Pids DEF WorkInv, Launching, AtWork
  <2>3. pc' = "wait" /\ UNCHANGED <<pipeline, n, op>> /\ AtWork' /\ ~Launching'
    BY <1>4, <2>2 DEF pipeline_post_process, AtWork, Launching
  <2>4. \A p \in Pid : Idle(p)'
    BY <2>1, <2>2, <2>3 DEF WorkInv, Idle
  <2>5. \A i \in Listed' : Shown(i)'
    BY <2>1, <2>2, <2>3 DEF WorkInv, Shown
  <2>6. TerminalKept'
    BY <2>1, <2>2, <2>3 DEF WorkInv, TerminalKept
  <2> QED  BY <2>3, <2>4, <2>5, <2>6 DEF WorkInv, Idle, Shown, TerminalKept
<1> QED  BY <1>1, <1>2, <1>3, <1>4 DEF Launch

LEMMA SequentialBuiltin ==
  ASSUME Inv, Sequential, WorkInv, Builtin, pc' \notin Dead
  PROVE  WorkInv'
<1> USE DEF Main, Goto, Dead, table, kernel
<1>1. CASE jobs_execute
  BY <1>1, AtBuiltin, SequentialQuiet DEF jobs_execute, Finish, Launching
<1>2. ASSUME NEW o \in JobControl \cap Builtins, get_jid(o)  PROVE WorkInv'
  <2>1. o \in {"fg", "stop"}
    BY DEF Sequential, JobControl
  <2> QED  BY <1>2, <2>1, AtBuiltin, SequentialQuiet DEF get_jid, Launching
<1>3. CASE no_such_job
  BY <1>3, SequentialQuiet DEF no_such_job, Finish, Launching, AtWork
<1>4. CASE list_not_empty
  BY <1>4, SequentialQuiet DEF list_not_empty, Launching, AtWork, WorkInv
<1>5. CASE exit_execute \/ get_jid_Abort \/ get_job_from_jid_Null \/ signal_NoGroup
  BY <1>5 DEF exit_execute, get_jid_Abort, get_job_from_jid_Null, signal_NoGroup
<1>6. CASE get_job_from_jid
  <2>1. PICK i \in DOMAIN job_list :
          /\ pipeline' = job_list[i]
          /\ status' = [status EXCEPT ![job_list[i]] = CASE op = "fg" -> "FOREGROUND"
                                                        [] op = "bg" -> "BACKGROUND"
                                                        [] OTHER     -> @]
    BY <1>6 DEF get_job_from_jid
  <2>2. /\ pc = "lookup" /\ pc' = "signal" /\ op \in {"fg", "stop"}
        /\ UNCHANGED <<op, job_list, run, report, tty>> /\ ~AtWork /\ ~Launching'
    BY <1>6 DEF get_job_from_jid, WorkInv, AtWork, Launching
  <2>3. status \in [Job -> Status] /\ \A j \in Listed : j \in Job
    BY LenProperties, ElementOfSeq DEF Inv, TypeOK, Listed, Range
  <2>4. \A p \in Pid : Idle(p)'
    BY <2>2 DEF WorkInv, Idle
  <2>5. \A j \in Listed' : Shown(j)'
    BY <2>1, <2>2, <2>3 DEF WorkInv, Shown, Listed
  <2>6. TerminalKept'
    BY <2>2 DEF WorkInv, TerminalKept
  <2> QED  BY <2>2, <2>4, <2>5, <2>6 DEF WorkInv, Idle, Shown, TerminalKept
<1>7. CASE signal_job
  <2>1. pc = "signal" /\ op = "stop" /\ ~AtWork
    BY <1>7 DEF signal_job, WorkInv, AtWork
  <2>2. killpg(Leader(pipeline), "SIGSTOP")
    BY <1>7, <2>1 DEF signal_job, Signal
  <2>3. ChangeState({}, "stopped", "SIGSTOP") /\ UNCHANGED tty
    <3>1. {p \in Group(Leader(pipeline)) : run[p] = "live"} = {}
      BY <2>1 DEF WorkInv, Group, Unreaped
    <3> QED  BY <2>2, <3>1 DEF killpg
  <2>4. UNCHANGED <<run, report>>
    BY <2>3 DEF ChangeState, Inv, TypeOK, KernelTypeOK
  <2>5. pc' = "loop" /\ UNCHANGED <<status, job_list>>
    BY <1>7 DEF signal_job, Finish
  <2> QED  BY <2>1, <2>3, <2>4, <2>5, SequentialQuiet DEF Launching
<1>8. CASE signal_Foreground
  <2>1. /\ pc = "signal" /\ op = "fg" /\ pc' = "give" /\ UNCHANGED <<pipeline, op, status, job_list, tty>>
        /\ ChangeState({p \in Group(Leader(pipeline)) : run[p] = "stopped"}, "live", "none")
    BY <1>8 DEF signal_Foreground, Signal, killpg
  <2>2. ~AtWork /\ AtWork' /\ ~Launching'
    BY <2>1 DEF AtWork, Launching
  <2>3. ASSUME NEW p \in Pid  PROVE Idle(p)'
    <3>1. pipeline \in Job /\ (p \in Group(Leader(pipeline)) => p[1] = pipeline)
      <4>1. pipeline \in Job
        BY <2>1 DEF Inv, ControlInv, TypeOK
      <4>2. Leader(pipeline) \in Pid /\ p[1] \in Job
        BY <4>1, Pids
      <4>3. pgid[p] \in {Shell, Leader(p[1])}
        BY DEF Inv, ProcessInv
      <4>4. p \in Group(Leader(pipeline)) => Leader(p[1]) = Leader(pipeline)
        BY <4>2, <4>3, ShellIsNoChild DEF Group
      <4> QED  BY <4>1, <4>2, <4>4, Pids
    <3>2. /\ run[p] \notin {"live", "zombie"} /\ report[p] = "none"
          /\ run[p] # "none" => p[2] = 1
      BY <2>1, <2>2 DEF WorkInv
    <3>3. CASE p \in Group(Leader(pipeline)) /\ run[p] = "stopped"
      BY <2>1, <2>2, <3>1, <3>2, <3>3 DEF ChangeState, Idle
    <3>4. CASE ~(p \in Group(Leader(pipeline)) /\ run[p] = "stopped")
      BY <2>1, <2>2, <3>2, <3>4 DEF ChangeState, Idle
    <3> QED  BY <3>3, <3>4
  <2>4. \A j \in Listed' : Shown(j)'
    BY <2>1, <2>2 DEF WorkInv, Shown, Listed
  <2>5. TerminalKept'
    BY <2>1, <2>2 DEF WorkInv, TerminalKept
  <2> QED  BY <2>1, <2>2, <2>3, <2>4, <2>5 DEF WorkInv, Idle, Shown, TerminalKept
<1>9. CASE give_terminal_to
  <2>1. /\ pc = "give" /\ pc' = "wait" /\ tty' = Leader(pipeline)
        /\ UNCHANGED <<pipeline, op, status, job_list, run, report>>
    BY <1>9 DEF give_terminal_to
  <2>2. AtWork /\ AtWork' /\ ~Launching'
    BY <2>1 DEF AtWork, Launching
  <2>3. \A p \in Pid : Idle(p)'
    BY <2>1, <2>2 DEF WorkInv, Idle
  <2>4. \A j \in Listed' : Shown(j)'
    BY <2>1, <2>2 DEF WorkInv, Shown, Listed
  <2>5. TerminalKept'
    BY <2>1, <2>2 DEF TerminalKept
  <2> QED  BY <2>1, <2>2, <2>3, <2>4, <2>5 DEF WorkInv, Idle, Shown, TerminalKept
<1> QED  BY <1>1, <1>2, <1>3, <1>4, <1>5, <1>6, <1>7, <1>8, <1>9 DEF Builtin

\* The wait collects the status of the one process there is.
LEMMA SequentialWait ==
  ASSUME Inv, Sequential, WorkInv, wait_for_job
  PROVE  WorkInv'
<1>1. PICK q \in Reportable : Collect(q) /\ child_status_change(q)
  BY DEF wait_for_job
<1>2. /\ pc = "wait" /\ pc' = "loop" /\ tty' = Shell /\ AtWork /\ ~AtWork' /\ ~Launching'
      /\ pc \notin Dead
  BY DEF wait_for_job, Main, Finish, reclaim_terminal, AtWork, Launching, Dead
<1>3. /\ run \in [Pid -> RunState] /\ report \in [Pid -> TermReport \cup StopSignal \cup {"none"}]
      /\ job_list \in Seq(Job) /\ status \in [Job -> Status] /\ pipeline \in Job
  BY <1>2 DEF Inv, TypeOK, KernelTypeOK, ControlInv
<1>4. q \in Pid /\ q = Leader(pipeline)
  <2>1. q \in Pid /\ report[q] # "none"
    BY DEF Reportable
  <2>2. run[q] # "none" /\ q[1] = pipeline
    BY <1>2, <2>1 DEF WorkInv, Inv, ProcessInv
  <2> QED  BY <1>2, <2>1, <2>2, Pids DEF WorkInv, Leader
<1>5. /\ run' = [run EXCEPT ![q] = IF @ = "zombie" THEN "reaped" ELSE @]
      /\ report' = [report EXCEPT ![q] = "none"]
  BY <1>1 DEF Collect
<1>6. ASSUME NEW p \in Pid  PROVE Idle(p)'
  <2>1. CASE p = q
    <3>1. run[p] \in {"stopped", "zombie"}
      BY <1>3, <2>1 DEF Inv, ProcessInv, Reportable, RunState
    <3> QED  BY <1>2, <1>3, <1>5, <2>1, <3>1 DEF WorkInv, Idle
  <2>2. CASE p # q
    <3>1. p[1] = pipeline /\ p[2] = 1 => p = q
      BY <1>4, Pids DEF Leader
    <3>2. run'[p] = run[p] /\ report'[p] = report[p]
      BY <1>3, <1>5, <2>2
    <3>3. run[p] = "none" => report[p] = "none"
      BY DEF Inv, ProcessInv
    <3>4. Idle(p)
      BY <1>2 DEF WorkInv, Idle
    <3>5. run[p] \notin {"live", "zombie"} /\ report[p] = "none"
      BY <2>2, <3>1, <3>3, <3>4 DEF Idle
    <3> QED  BY <3>2, <3>4, <3>5 DEF Idle
  <2> QED  BY <2>1, <2>2
<1>7. ASSUME NEW j \in Listed'  PROVE Shown(j)'
  <2>1. \A i \in DOMAIN job_list : job_list[i] \in Job /\ job_list[i] \in Listed
    BY <1>3, LenProperties, ElementOfSeq DEF Listed, Range
  <2>2. report[q] \in TermReport \/ report[q] \in {"SIGTSTP", "SIGTTIN", "SIGTTOU"}
    BY <1>2, <1>3, <1>4 DEF WorkInv, Reportable, StopSignal
  <2>3. /\ IsInjective(job_list')
        /\ Listed' = {i \in Listed : Leader(i) = q => ~Delists(report[q])}
    BY <1>1, CollectList DEF Inv, TypeInv, JobListExact, Collects, wait_for_job
  <2>4. j \in Listed /\ j \in Job
    BY <2>1, <2>3 DEF Listed, Range
  <2>5. CASE j = pipeline
    <3>1. ~Delists(report[q])
      BY <1>4, <2>3, <2>5
    <3>2. PICK i \in DOMAIN job_list :
            Leader(job_list[i]) = q /\ status' = [status EXCEPT ![job_list[i]] = StatusAfter(@, report[q])]
      BY <1>1, <1>4, <2>4, <2>5 DEF child_status_change, Listed, Range
    <3>3. job_list[i] = j
      BY <1>4, <2>1, <2>4, <2>5, <3>2, Pids
    <3>4. report[q] \in {"SIGTSTP", "SIGTTIN", "SIGTTOU"}
      BY <2>2, <3>1 DEF Delists
    <3> QED  BY <1>3, <2>4, <3>2, <3>3, <3>4 DEF StatusAfter, Shown
  <2>6. CASE j # pipeline
    <3>1. status[j] = "STOPPED"
      BY <1>2, <2>4, <2>6 DEF WorkInv
    <3>2. status'[j] = status[j]
      <4>1. \A i \in DOMAIN job_list : Leader(job_list[i]) = q => job_list[i] # j
        BY <1>3, <1>4, <2>1, <2>6, Pids
      <4> QED  BY <1>1, <1>3, <2>4, <4>1 DEF child_status_change
    <3> QED  BY <3>1, <3>2 DEF Shown
  <2> QED  BY <2>5, <2>6
<1> QED  BY <1>2, <1>6, <1>7 DEF WorkInv, Idle, Shown

\* Only the job main is at work on has a process that runs.
LEMMA SequentialProcess ==
  ASSUME Inv, Sequential, WorkInv, NEW q \in Pid, Process(q)
  PROVE  WorkInv'
<1>1. pc \notin Dead /\ UNCHANGED <<pc, pipeline, n, op, status, job_list>>
  BY DEF Process, main, table
<1>2. AtWork' <=> AtWork
  BY <1>1 DEF AtWork
<1>0. ~SignalFromOutside(q)
  BY DEF Sequential, SignalFromOutside
<1>3. run[q] = "live"
  BY <1>0 DEF Process, ProcessStep, child_setpgid, child_give_terminal_to, child_execvp, ChildStep, Die,
         StopFromKeyboard, StopForTerminal
<1>4. AtWork /\ q[1] = pipeline /\ q[2] = 1
  BY <1>1, <1>3 DEF WorkInv
<1>5. /\ run \in [Pid -> RunState] /\ report \in [Pid -> TermReport \cup StopSignal \cup {"none"}]
  BY DEF Inv, TypeOK, KernelTypeOK
<1>6. /\ \A p \in Pid : p # q => run'[p] = run[p] /\ report'[p] = report[p]
      /\ report'[q] # "SIGSTOP" /\ tty' \in {tty, Leader(q[1])}
  <2>1. report[q] # "SIGSTOP"
    BY <1>1 DEF WorkInv
  <2>2. CASE child_setpgid(q) \/ child_give_terminal_to(q) \/ child_execvp(q)
    BY <2>1, <2>2 DEF child_setpgid, child_give_terminal_to, child_execvp, ChildStep
  <2>3. ASSUME NEW r, NEW s, ChangeState({q}, r, s), s # "SIGSTOP", tty' = tty
        PROVE  /\ \A p \in Pid : p # q => run'[p] = run[p] /\ report'[p] = report[p]
               /\ report'[q] # "SIGSTOP" /\ tty' \in {tty, Leader(q[1])}
    BY <2>3 DEF ChangeState
  <2>4. CASE ProcessStep(q)
    BY <1>0, <2>3, <2>4 DEF ProcessStep, Die, StopFromKeyboard, StopForTerminal, TermReport
  <2> QED  BY <2>2, <2>4 DEF Process
<1>7. \A p \in Pid : Idle(p)'
  BY <1>1, <1>2, <1>4, <1>6 DEF WorkInv, Idle
<1>8. \A j \in Listed' : Shown(j)'
  BY <1>1, <1>2 DEF WorkInv, Shown, Listed
<1>9. TerminalKept' /\ (Launching' => status'[pipeline'] = "FOREGROUND")
  BY <1>1, <1>2, <1>4, <1>6 DEF WorkInv, TerminalKept, Launching
<1> QED  BY <1>1, <1>7, <1>8, <1>9 DEF WorkInv, Idle, Shown, TerminalKept

\* The handler finds nothing: where it runs SIGCHLD is not blocked, and main not at work.
LEMMA NothingToReap ==
  ASSUME Inv, Sequential, WorkInv, in_handler
  PROVE  Reportable = {}
<1>1. ~blocked /\ pc \notin Dead
  BY DEF Inv, MaskInv
<1> QED  BY <1>1, WorkIs DEF WorkInv, Reportable

LEMMA SequentialStep ==
  ASSUME Inv, Sequential, WorkInv, [Next]_vars
  PROVE  WorkInv'
<1>1. SUFFICES ASSUME pc' \notin Dead  PROVE WorkInv'
  BY DEF WorkInv
<1>2. CASE ReadLine \/ ReadWithoutTerminal
  BY <1>1, <1>2, SequentialQuiet DEF ReadLine, ReadWithoutTerminal, Main, Goto, Dead, AtWork,
     Launching, table, kernel
<1>3. CASE MainStep
  BY <1>1, <1>3, SequentialLoop, SequentialLaunch, SequentialBuiltin, SequentialWait DEF MainStep
<1>4. CASE handler_reap
  BY <1>4, NothingToReap DEF handler_reap
<1>5. CASE handler_enter \/ handler_return \/ UNCHANGED vars
  <2>1. UNCHANGED <<pc, pipeline, n, op, status, job_list, run, report, tty>>
    BY <1>5 DEF handler_enter, handler_return, vars, main, table, kernel
  <2>2. (AtWork' <=> AtWork) /\ (Launching' <=> Launching)
    BY <2>1 DEF AtWork, Launching
  <2> QED  BY <1>1, <2>1, <2>2, SequentialQuiet DEF WorkInv
<1>6. ASSUME NEW p \in Pid, Process(p)  PROVE WorkInv'
  BY <1>6, SequentialProcess
<1>7. CASE Ended
  BY <1>1, <1>7 DEF Ended, vars, main
<1> QED  BY <1>2, <1>3, <1>4, <1>5, <1>6, <1>7 DEF Next, Handler

\* A step that gives no number: it leads into no launch, and to no store of a number read before.
LEMMA NumberKept ==
  ASSUME NumberInv, UNCHANGED <<job_list, jid, pipeline_jid>>,
         pc' = "store" => local' = jid \/ (pc = "store" /\ local' = local),
         pc' = "assign" => pc = "assign",
         Numbered' => Numbered /\ pipeline' = pipeline
  PROVE  NumberInv'
BY DEF NumberInv

LEMMA NumberLoop ==
  ASSUME Inv, NumberInv, Loop
  PROVE  NumberInv'
<1> USE DEF Main, Goto
<1>1. jid \in Nat /\ pipeline_jid \in [Job -> Nat] /\ \A i \in DOMAIN job_list : job_list[i] \in Job
  BY LenProperties, ElementOfSeq DEF Inv, TypeOK
<1>2. CASE EndOfLine
  BY <1>2, NumberKept DEF EndOfLine, table, fields, Numbered
<1>3. CASE pre_process_Builtin \/ \E j \in Job, b \in Amp : pre_process_Program(j, b)
  <2>1. /\ jid' = IF job_list = <<>> THEN 0 ELSE jid
        /\ pc' = "load" /\ UNCHANGED <<job_list, pipeline_jid>>
    BY <1>3 DEF pre_process_Builtin, pre_process_Program, fields
  <2>2. CASE job_list = <<>>
    BY <2>1, <2>2 DEF NumberInv, Numbered
  <2>3. CASE job_list # <<>>
    BY <2>1, <2>3, NumberKept DEF Numbered
  <2> QED  BY <2>2, <2>3
<1>4. CASE LoadJid
  BY <1>4, NumberKept DEF LoadJid, table, fields, Numbered
<1>5. CASE StoreJid
  <2>1. /\ pc = "store" /\ pc' = "assign" /\ jid' = jid + 1 /\ UNCHANGED <<job_list, pipeline_jid>>
    BY <1>5 DEF StoreJid, fields, NumberInv
  <2> QED  BY <1>1, <2>1 DEF NumberInv, Numbered
<1>6. CASE AssignJid
  <2>1. pc = "assign" /\ pc' = "cmd" /\ UNCHANGED <<pipeline, job_list, jid>>
    BY <1>6 DEF AssignJid, table
  <2>2. CASE pipeline = NoJob
    BY <1>6, <2>1, <2>2, NumberKept DEF AssignJid, Numbered
  <2>3. CASE pipeline # NoJob
    <3>1. pipeline \in Job /\ \A i \in DOMAIN job_list : job_list[i] # pipeline
      BY <2>1, <2>3 DEF Inv, TypeOK, LaunchInv, Launching, Listed, Range
    <3>2. pipeline_jid' = [pipeline_jid EXCEPT ![pipeline] = jid]
      BY <1>6, <2>3 DEF AssignJid
    <3>3. /\ pipeline_jid'[pipeline] = jid
          /\ \A i \in DOMAIN job_list : pipeline_jid'[job_list[i]] = pipeline_jid[job_list[i]]
      BY <1>1, <3>1, <3>2
    <3>4. \A i \in DOMAIN job_list : \A k \in 1..(i - 1) : k \in DOMAIN job_list
      BY LenProperties DEF Inv, TypeOK
    <3> QED  BY <1>1, <2>1, <3>3, <3>4 DEF NumberInv, Numbered
  <2> QED  BY <2>2, <2>3
<1> QED  BY <1>2, <1>3, <1>4, <1>5, <1>6 DEF Loop

LEMMA NumberLaunch ==
  ASSUME Inv, NumberInv, Launch
  PROVE  NumberInv'
<1> USE DEF Main, Goto, table, fields, Numbered
<1>1. CASE pipeline_process \/ setpgid_child
  BY <1>1, NumberKept DEF pipeline_process, setpgid_child, AtCommand, Inv, ControlInv
<1>2. CASE setpgid_child_Late \/ fork_Error
  BY <1>2, NumberKept DEF setpgid_child_Late, fork_Error
<1>3. CASE pipeline_post_process
  <2>1. /\ pc = "cmd" /\ pipeline # NoJob /\ pc' \in {"wait", "loop"}
        /\ job_list' = Append(job_list, pipeline) /\ UNCHANGED <<jid, pipeline_jid>>
    BY <1>3 DEF pipeline_post_process, Finish
  <2>2. /\ job_list \in Seq(Job) /\ pipeline \in Job /\ Len(job_list) \in Nat
        /\ DOMAIN job_list = 1..Len(job_list)
    BY <2>1, LenProperties DEF Inv, TypeOK
  <2>3. /\ DOMAIN job_list' = 1..(Len(job_list) + 1)
        /\ \A i \in 1..Len(job_list) : job_list'[i] = job_list[i]
        /\ job_list'[Len(job_list) + 1] = pipeline
    BY <2>1, <2>2, AppendProperties, LenProperties
  <2>4. ASSUME NEW i \in DOMAIN job_list'
        PROVE  /\ pipeline_jid[job_list'[i]] <= jid
               /\ \A k \in 1..(i - 1) : pipeline_jid[job_list'[k]] < pipeline_jid[job_list'[i]]
    <3>1. CASE i \in 1..Len(job_list)
      BY <2>2, <2>3, <3>1 DEF NumberInv
    <3>2. CASE i = Len(job_list) + 1
      BY <2>1, <2>2, <2>3, <3>2 DEF NumberInv
    <3> QED  BY <2>2, <2>3, <3>1, <3>2
  <2> QED  BY <2>1, <2>4 DEF NumberInv
<1> QED  BY <1>1, <1>2, <1>3 DEF Launch

LEMMA NumberBuiltin ==
  ASSUME NumberInv, Builtin
  PROVE  NumberInv'
<1> USE DEF Main, Goto, Finish, table, fields, Numbered
<1>1. UNCHANGED <<job_list, jid, pipeline_jid>> /\ pc' \notin {"store", "assign", "cmd", "setpgid"}
  BY DEF Builtin, jobs_execute, exit_execute, get_jid, get_jid_Abort, no_such_job, list_not_empty,
     get_job_from_jid, get_job_from_jid_Null, signal_job, signal_Foreground, signal_NoGroup, give_terminal_to
<1> QED  BY <1>1, NumberKept

\* Only the wait takes a status: main stands between two launches when jid is reset.
LEMMA NumberWait ==
  ASSUME Inv, NumberInv, wait_for_job
  PROVE  NumberInv'
<1>1. PICK q \in Reportable : child_status_change(q)
  BY DEF wait_for_job
<1>2. /\ pc' = "loop" /\ ~Numbered' /\ UNCHANGED pipeline_jid
      /\ jid' = IF job_list' = <<>> THEN 0 ELSE jid
  BY <1>1 DEF wait_for_job, Finish, fields, Numbered, child_status_change
<1>3. CASE job_list' = job_list
  <2>1. CASE job_list = <<>>
    BY <1>2, <1>3, <2>1 DEF NumberInv
  <2>2. CASE job_list # <<>>
    BY <1>2, <1>3, <2>2, NumberKept
  <2> QED  BY <2>1, <2>2
<1>4. ASSUME NEW i \in DOMAIN job_list, job_list' = RemoveAt(job_list, i)  PROVE NumberInv'
  <2>1. /\ job_list \in Seq(Job) /\ Len(job_list) \in Nat /\ DOMAIN job_list = 1..Len(job_list)
        /\ jid \in Nat /\ pipeline_jid \in [Job -> Nat]
        /\ \A k \in DOMAIN job_list : job_list[k] \in Job
    BY LenProperties, ElementOfSeq DEF Inv, TypeOK
  <2>2. /\ DOMAIN job_list' = 1..(Len(job_list) - 1)
        /\ \A k \in 1..(Len(job_list) - 1) :
             job_list'[k] = IF k < i THEN job_list[k] ELSE job_list[k + 1]
    BY <1>4, <2>1, RemoveFromList
  <2>3. DOMAIN job_list' # {} => jid' = jid
    BY <1>2
  <2> DEFINE was(k) == IF k < i THEN k ELSE k + 1
  <2>4. ASSUME NEW k \in DOMAIN job_list'
        PROVE  was(k) \in DOMAIN job_list /\ job_list'[k] = job_list[was(k)]
    BY <2>1, <2>2
  <2>5. ASSUME NEW k \in DOMAIN job_list', NEW m \in 1..(k - 1)
        PROVE  m \in DOMAIN job_list' /\ was(m) \in 1..(was(k) - 1)
    BY <2>1, <2>2
  <2> HIDE DEF was
  <2> QED  BY <1>2, <2>3, <2>4, <2>5 DEF NumberInv
<1> QED  BY <1>1, <1>3, <1>4 DEF child_status_change

LEMMA NumberStep ==
  ASSUME Inv, Sequential, WorkInv, NumberInv, [Next]_vars
  PROVE  NumberInv'
<1>1. CASE ReadLine \/ ReadWithoutTerminal
  BY <1>1, NumberKept DEF ReadLine, ReadWithoutTerminal, Main, Goto, table, fields, Numbered
<1>2. CASE MainStep
  BY <1>2, NumberLoop, NumberLaunch, NumberBuiltin, NumberWait DEF MainStep
<1>3. CASE handler_reap
  BY <1>3, NothingToReap DEF handler_reap
<1>4. CASE handler_enter \/ handler_return \/ Ended \/ UNCHANGED vars
  BY <1>4, NumberKept DEF handler_enter, handler_return, Ended, vars, main, table, fields, Numbered
<1>5. ASSUME NEW p \in Pid, Process(p)  PROVE NumberInv'
  BY <1>5, NumberKept DEF Process, main, table, fields, Numbered
<1> QED  BY <1>1, <1>2, <1>3, <1>4, <1>5 DEF Next, Handler

LEMMA SequentialInit == Init => SequentialInv
<1> SUFFICES ASSUME Init  PROVE SequentialInv
  OBVIOUS
<1>1. Listed = {} /\ tty = Shell /\ pc = "prompt"
  BY DEF Init, KernelInit, Listed, Range
<1>2. \A p \in Pid : run[p] = "none" /\ report[p] = "none"
  BY DEF Init, KernelInit
<1>3. NumberInv
  BY <1>1 DEF Init, NumberInv, Numbered
<1> QED  BY <1>1, <1>2, <1>3 DEF SequentialInv, WorkInv, Launching

\* The invariant of a shell that is given single programs in the foreground.
THEOREM SequentialInvariance ==
  ASSUME Sequential
  PROVE  Spec => []SequentialInv
<1>1. Inv /\ SequentialInv /\ [Next]_vars => SequentialInv'
  BY SequentialStep, NumberStep DEF SequentialInv
<1> QED  BY <1>1, SequentialInit, Invariance, PTL DEF Spec

\* Such a shell never prompts while a job has the terminal: each wait gives it back, and nobody is
\* left who could take it.
THEOREM PromptHasTerminal ==
  ASSUME Sequential
  PROVE  Spec => []TerminalAtPrompt
<1>1. SequentialInv => TerminalAtPrompt
  BY DEF SequentialInv, WorkInv, TerminalAtPrompt, AtWork, Dead
<1> QED  BY <1>1, SequentialInvariance, PTL

\* And jobs prints as Stopped the jobs that are: all that are listed.
THEOREM PromptStatusExact ==
  ASSUME Sequential
  PROVE  Spec => []StatusAtPrompt
<1>1. Inv /\ SequentialInv => StatusAtPrompt
  <2> SUFFICES ASSUME Inv, SequentialInv, pc = "prompt", NEW j \in Listed
               PROVE  status[j] = "STOPPED" /\ run[Leader(j)] = "stopped"
    BY DEF StatusAtPrompt
  <2>1. Leader(j) \in Unreaped
    BY DEF Inv, JobListExact
  <2> QED  BY <2>1 DEF SequentialInv, WorkInv, AtWork, Dead, Unreaped
<1> QED  BY <1>1, SequentialInvariance, Invariance, PTL

\* And no two listed jobs have the same id (basic/jobs_test.py:117): nobody resets jid while a launch
\* holds its number.
THEOREM IdsAreDistinct ==
  ASSUME Sequential
  PROVE  Spec => []DistinctJids
<1>1. Inv /\ SequentialInv => DistinctJids
  <2> SUFFICES ASSUME Inv, SequentialInv, NEW a \in DOMAIN job_list, NEW b \in DOMAIN job_list,
                      pipeline_jid[job_list[a]] = pipeline_jid[job_list[b]]
               PROVE  job_list[a] = job_list[b]
    BY DEF DistinctJids, Listed, Range
  <2>1. /\ a \in Nat /\ b \in Nat /\ a > 0 /\ b > 0 /\ pipeline_jid[job_list[a]] \in Nat
        /\ \A i \in DOMAIN job_list : \A k \in 1..(i - 1) : pipeline_jid[job_list[k]] < pipeline_jid[job_list[i]]
    BY LenProperties, ElementOfSeq DEF Inv, TypeOK, SequentialInv, NumberInv
  <2>2. ~(a < b) /\ ~(b < a)
    BY <2>1
  <2> QED  BY <2>1, <2>2
<1> QED  BY <1>1, SequentialInvariance, Invariance, PTL
=============================================================================
