------------------------------- MODULE Kernel -------------------------------
(***************************************************************************)
(* The part of the operating system that esh's job control is written      *)
(* against: child processes, process groups, signals sent to a group, the  *)
(* statuses waitpid(2) reports, and the foreground group of the terminal.  *)
(* None of it is code of the repository: every rule is the one the calls   *)
(* in src/esh.c rely on (fork, setpgid, tcsetpgrp, killpg, waitpid with    *)
(* WUNTRACED and without WCONTINUED, SIGCHLD).                             *)
(***************************************************************************)
EXTENDS Naturals

CONSTANTS
  Pid,      \* the processes the shell may fork; a pid is never reused
  Shell,    \* the process group of the shell itself
  OutsideSignals \* the signals that others than the shell and the terminal send

ASSUME ShellIsNoChild == Shell \notin Pid
ASSUME OutsideAssumption == OutsideSignals \subseteq {"SIGSTOP", "SIGCONT", "SIGKILL"}

VARIABLES
  run,      \* run[p]: what the kernel knows of p
  phase,    \* phase[p]: how far p has got between fork and execvp
  report,   \* report[p]: the status of p that waitpid has not yet handed out
  pgid,     \* pgid[p]: the process group of p
  tty,      \* the foreground process group of the terminal
  chld      \* SIGCHLD is pending for the shell

kernel == <<run, phase, report, pgid, tty, chld>>

RunState    == {"none", "live", "stopped", "zombie", "reaped"}
Phase       == {"none", "forked", "grouped", "ready", "execed"}
TermReport  == {"exited", "signaled"}                        \* WIFEXITED, WIFSIGNALED
StopSignal  == {"SIGSTOP", "SIGTSTP", "SIGTTIN", "SIGTTOU"}  \* WIFSTOPPED

KernelTypeOK ==
  /\ run    \in [Pid -> RunState]
  /\ phase  \in [Pid -> Phase]
  /\ report \in [Pid -> TermReport \cup StopSignal \cup {"none"}]
  /\ pgid   \in [Pid -> Pid \cup {Shell}]
  /\ tty    \in Pid \cup {Shell}
  /\ chld   \in BOOLEAN

KernelInit ==
  /\ run    = [p \in Pid |-> "none"]
  /\ phase  = [p \in Pid |-> "none"]
  /\ report = [p \in Pid |-> "none"]
  /\ pgid   = [p \in Pid |-> Shell]
  /\ tty    = Shell
  /\ chld   = FALSE

Unreaped   == {p \in Pid : run[p] \in {"live", "stopped", "zombie"}}
Reportable == {p \in Pid : report[p] # "none"}
Group(g)   == {p \in Unreaped : pgid[p] = g}

\* The processes of S change state: each leaves the report s for waitpid
\* ("none" withdraws one), and SIGCHLD becomes pending for the shell.
ChangeState(S, r, s) ==
  /\ run'    = [p \in Pid |-> IF p \in S THEN r ELSE run[p]]
  /\ report' = [p \in Pid |-> IF p \in S THEN s ELSE report[p]]
  /\ chld'   = (chld \/ S # {})

\* A signal for every member of a group that can take it. SIGCONT withdraws
\* a stop that was not yet reported. The caller tests Group(g) # {} (ESRCH).
killpg(g, sig) ==
  /\ \/ /\ sig = "SIGCONT"
        /\ ChangeState({p \in Group(g) : run[p] = "stopped"}, "live", "none")
     \/ /\ sig = "SIGKILL"
        /\ ChangeState({p \in Group(g) : run[p] # "zombie"}, "zombie", "signaled")
     \/ /\ sig = "SIGSTOP"
        /\ ChangeState({p \in Group(g) : run[p] = "live"}, "stopped", "SIGSTOP")
  /\ UNCHANGED <<phase, pgid, tty>>

fork(p) ==
  /\ run'   = [run EXCEPT ![p] = "live"]
  /\ phase' = [phase EXCEPT ![p] = "forked"]
  /\ UNCHANGED <<report, pgid, tty, chld>>

\* setpgid(2) on p: the group must exist in the session unless p founds it.
GroupJoinable(p, g) == p = g \/ Group(g) # {}

\* waitpid hands out the status of p once; a zombie is gone after it.
Collect(p) ==
  /\ run'    = [run EXCEPT ![p] = IF @ = "zombie" THEN "reaped" ELSE @]
  /\ report' = [report EXCEPT ![p] = "none"]

(***************************************************************************)
(* What a forked process may do by itself, before or after execvp.         *)
(***************************************************************************)

\* It exits (before execvp: esh_sys_fatal_error in the child), or is killed by
\* a signal: ^C at the terminal, a crash, kill(2).
Die(p) ==
  /\ run[p] = "live"
  /\ \E how \in TermReport : ChangeState({p}, "zombie", how)
  /\ UNCHANGED <<phase, pgid, tty>>

\* ^Z typed at the terminal reaches the members of the foreground group. (While
\* that is the shell's own group, ^Z and ^C are aimed at the shell: left out.)
StopFromKeyboard(p) ==
  /\ run[p] = "live"
  /\ tty # Shell /\ pgid[p] = tty
  /\ ChangeState({p}, "stopped", "SIGTSTP")
  /\ UNCHANGED <<phase, pgid, tty>>

\* A program that uses the terminal from another group is stopped. (The child
\* code of the shell itself blocks SIGTTOU around tcsetpgrp and tcsetattr.)
StopForTerminal(p) ==
  /\ run[p] = "live" /\ phase[p] = "execed"
  /\ pgid[p] # tty
  /\ \E sig \in {"SIGTTIN", "SIGTTOU"} : ChangeState({p}, "stopped", sig)
  /\ UNCHANGED <<phase, pgid, tty>>

\* kill(2) from another program: a process is stopped, or one that is stopped is continued or
\* killed, behind the shell's back.
SignalFromOutside(p) ==
  /\ \/ /\ "SIGSTOP" \in OutsideSignals /\ run[p] = "live"
        /\ ChangeState({p}, "stopped", "SIGSTOP")
     \/ /\ "SIGCONT" \in OutsideSignals /\ run[p] = "stopped"
        /\ ChangeState({p}, "live", "none")
     \/ /\ "SIGKILL" \in OutsideSignals /\ run[p] = "stopped"
        /\ ChangeState({p}, "zombie", "signaled")
  /\ UNCHANGED <<phase, pgid, tty>>

ProcessStep(p) == Die(p) \/ StopFromKeyboard(p) \/ StopForTerminal(p) \/ SignalFromOutside(p)
=============================================================================
