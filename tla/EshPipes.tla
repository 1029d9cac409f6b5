------------------------------ MODULE EshPipes ------------------------------
(***************************************************************************)
(* The pipes and redirections of esh (src/esh.c): the descriptors that     *)
(* pipeline_process opens, copies and closes in the shell and in each      *)
(* child, the children running beside the shell and each other from fork   *)
(* on. A pipeline starts with a program and is typed at most once; its     *)
(* n-th process is the pair <<j, n>>, and so is the pipe behind it.        *)
(***************************************************************************)
EXTENDS Descriptors, Sequences

CONSTANTS
  Job,      \* the pipelines the user may type
  NoJob,    \* the null pipeline
  MaxCmds,  \* a pipeline has at most MaxCmds commands
  Cmds,     \* Cmds[j]: the kinds of the commands of j
  Redirs,   \* Redirs[j]: which of "<" (in its first command) and ">" (in its last) it has
  Shell     \* the shell, beside the processes it forks

\* Those of the commands that are programs.
Proc == {p \in Job \X (1..MaxCmds) :
           p[2] <= Len(Cmds[p[1]]) /\ Cmds[p[1]][p[2]] = "program"}

ASSUME PipesAssumption ==
  /\ NoJob \notin Job /\ Shell \notin Proc
  /\ MaxCmds \in Nat
  /\ Pipe = Proc
  /\ Cmds \in [Job -> Seq({"program", "builtin"})]
  /\ \A j \in Job : Len(Cmds[j]) \in 1..MaxCmds /\ Cmds[j][1] = "program"
  /\ Redirs \in [Job -> SUBSET {"<", ">"}]

VARIABLES
  pc, pipeline, n,         \* main: what is next, its pipeline, the position of its c
  fd,                      \* fd[o]: the descriptors of the shell or a process
  firstPipe, secondPipe,   \* each owner's copy of the globals
  phase                    \* phase[p]: how far p has got

Owner  == Proc \cup {Shell}
main   == <<pc, pipeline, n>>
copies == <<firstPipe, secondPipe>>
vars   == <<main, fd, copies, phase>>

Phase == {"none", "forked", "execed", "gone"}

TypeOK ==
  /\ pc \in {"loop", "cmd", "parent", "ended"}
  /\ pipeline \in Job \cup {NoJob} /\ n \in 0..(MaxCmds + 1)
  /\ fd \in [Owner -> Table]
  /\ {firstPipe, secondPipe} \subseteq [Owner -> Fd \X Fd]
  /\ phase \in [Proc -> Phase]

\* Standard input, output and error, and esh_sys_tty_init's descriptor.
ShellTable == [d \in Fd |-> IF d \in 0..3 THEN Terminal ELSE Closed]

Init ==
  /\ pc = "loop" /\ pipeline = NoJob /\ n = 0
  /\ fd = [o \in Owner |-> IF o = Shell THEN ShellTable ELSE NoTable]
  /\ firstPipe = [o \in Owner |-> <<0, 0>>] /\ secondPipe = firstPipe
  /\ phase = [p \in Proc |-> "none"]

Last(p)  == p[2] = Len(Cmds[p[1]])
First(p) == p[2] = 1
hasPipe(j) == Len(Cmds[j]) >= 2
Current == <<pipeline, n>>
Ends(p) == {p[1], p[2]}     \* both descriptors of a pipe

-----------------------------------------------------------------------------
(***************************************************************************)
(* main. It goes on to the next pipeline at any time, as it does behind &; *)
(* a wait in the foreground would only keep it there.                      *)
(***************************************************************************)

list_next(c) == c + 1

Finish == pc' = "loop" /\ pipeline' = NoJob /\ n' = 0

pipeline_pre_process(j) ==
  /\ pc = "loop" /\ phase[<<j, 1>>] = "none"
  /\ pc' = "cmd" /\ pipeline' = j /\ n' = 1
  /\ UNCHANGED <<fd, copies, phase>>

\* Up to fork. Nobody looks whether pipe has succeeded: if there are not two free
\* descriptors firstPipe is what it was.
pipeline_process ==
  /\ pc = "cmd" /\ n <= Len(Cmds[pipeline]) /\ Cmds[pipeline][n] = "program"
  /\ LET piped == hasPipe(pipeline) /\ ~Last(Current) /\ Cardinality(Free(fd[Shell])) >= 2
         table == IF piped THEN pipe(fd[Shell], Current) ELSE fd[Shell]
         first == IF piped THEN pipe_fds(fd[Shell]) ELSE firstPipe[Shell]
     IN  /\ fd' = [fd EXCEPT ![Shell] = table, ![Current] = table]
         /\ firstPipe' = [firstPipe EXCEPT ![Shell] = first, ![Current] = first]
  /\ secondPipe' = [secondPipe EXCEPT ![Current] = secondPipe[Shell]]
  /\ phase' = [phase EXCEPT ![Current] = "forked"]
  /\ pc' = "parent"
  /\ UNCHANGED <<pipeline, n>>

\* The shell keeps both ends of the pipe the forked child reads from.
parent_closes_NotSecond ==
  IF Last(Current) THEN Ends(firstPipe[Shell]) ELSE {}
\* In the shell, behind the last command nothing is closed.
parent_closes_NotLast ==
  IF ~First(Current) /\ ~Last(Current) THEN Ends(secondPipe[Shell]) ELSE {}
parent_closes ==
  (IF First(Current) THEN {} ELSE Ends(secondPipe[Shell]))
    \cup (IF Last(Current) THEN Ends(secondPipe[Shell]) \cup Ends(firstPipe[Shell]) ELSE {})

pipeline_process_Parent ==
  /\ pc = "parent"
  /\ IF hasPipe(pipeline)
     THEN /\ fd' = [fd EXCEPT ![Shell] = close(@, parent_closes)]
          /\ secondPipe' = [secondPipe EXCEPT ![Shell] = IF Last(Current) THEN @ ELSE firstPipe[Shell]]
     ELSE UNCHANGED <<fd, secondPipe>>
  /\ pc' = "cmd" /\ n' = list_next(n)
  /\ UNCHANGED <<pipeline, firstPipe, phase>>

\* A built-in or a plug-in's command: the loop over the commands is left, and
\* both ends of the pipe behind the last process stay open.
builtin_execute ==
  /\ pc = "cmd" /\ n <= Len(Cmds[pipeline]) /\ Cmds[pipeline][n] = "builtin"
  /\ Finish
  /\ UNCHANGED <<fd, copies, phase>>

pipeline_post_process ==
  /\ pc = "cmd" /\ n > Len(Cmds[pipeline])
  /\ Finish
  /\ UNCHANGED <<fd, copies, phase>>

\* exit, or esh_sys_fatal_error when fork, setpgid or tcsetpgrp fails, with children on the way.
shell_ends ==
  /\ pc # "ended"
  /\ pc' = "ended" /\ fd' = [fd EXCEPT ![Shell] = NoTable]
  /\ UNCHANGED <<pipeline, n, copies, phase>>

Main == pipeline_process \/ pipeline_process_Parent \/ builtin_execute \/ pipeline_post_process

-----------------------------------------------------------------------------
(***************************************************************************)
(* A child, from fork to its program: what it does in between is its own   *)
(* affair but for the pipe ends it closes, and is one step.                *)
(***************************************************************************)

\* exit, or a signal, at any time: all its descriptors are closed.
die(p) ==
  /\ phase[p] \in {"forked", "execed"}
  /\ phase' = [phase EXCEPT ![p] = "gone"]
  /\ fd' = [fd EXCEPT ![p] = NoTable]
  /\ UNCHANGED <<main, copies>>

\* The parser allows "<" in the first command of a pipeline and ">" in the last.
iored(p) == Redirs[p[1]] \cap
              ((IF First(p) THEN {"<"} ELSE {}) \cup (IF Last(p) THEN {">"} ELSE {}))

\* The file is opened, its descriptor copied and closed.
onto(t, new) == close(dup2(open(t, File), lowest(t), new), {lowest(t)})
io_redirection(p) ==
  LET t == IF "<" \in iored(p) THEN onto(fd[p], 0) ELSE fd[p]
  IN  IF ">" \in iored(p) THEN onto(t, 1) ELSE t

\* The end of the pipe that is not used stays open.
read_second_Leaky(p, t) ==
  IF First(p) THEN t ELSE close(dup2(t, secondPipe[p][1], 0), {secondPipe[p][1]})
\* Standard input comes from the pipe before p, and then standard output goes into
\* the one behind it.
read_second(p, t) ==
  IF First(p) THEN t ELSE close(dup2(t, secondPipe[p][1], 0), Ends(secondPipe[p]))
\* The other end.
write_first_Swapped(p, t) ==
  IF Last(p) THEN t ELSE close(dup2(t, firstPipe[p][1], 1), Ends(firstPipe[p]))
write_first(p, t) ==
  IF Last(p) THEN t ELSE close(dup2(t, firstPipe[p][2], 1), Ends(firstPipe[p]))

\* open finds a free descriptor, and dup2 finds the descriptors open.
can_execute(p) ==
  /\ iored(p) # {} => Free(fd[p]) # {}
  /\ hasPipe(p[1]) => /\ First(p) \/ fd[p][secondPipe[p][1]] # Closed
                      /\ Last(p)  \/ read_second(p, fd[p])[firstPipe[p][2]] # Closed

execvp(p) ==
  /\ phase[p] = "forked" /\ can_execute(p)
  /\ phase' = [phase EXCEPT ![p] = "execed"]
  /\ fd' = [fd EXCEPT ![p] = LET t == io_redirection(p)
                             IN  IF hasPipe(p[1]) THEN write_first(p, read_second(p, t)) ELSE t]
  /\ UNCHANGED <<main, copies>>

\* open, dup2 or execvp fails.
esh_sys_fatal_error(p) == phase[p] = "forked" /\ die(p)

Child(p) == execvp(p) \/ esh_sys_fatal_error(p)

Idle == pc \in {"loop", "ended"} /\ UNCHANGED vars

Next ==
  \/ \E j \in Job : pipeline_pre_process(j)
  \/ Main \/ shell_ends
  \/ \E p \in Proc : Child(p) \/ die(p)
  \/ Idle

\* The shell runs on once it has a pipeline, and so does a child until it executes its
\* program: as a child takes only one step to it, fairness to any child of finitely many
\* is fairness to all.
Fairness == WF_vars(Main) /\ WF_vars(\E p \in Proc : Child(p))

Spec == Init /\ [][Next]_vars /\ Fairness

-----------------------------------------------------------------------------
(***************************************************************************)
(* Properties.                                                             *)
(***************************************************************************)

PipesOf(j) == UNION {{ReadEnd(q), WriteEnd(q)} : q \in {q \in Pipe : q[1] = j}}

StdIn(p)  == IF First(p) THEN IF "<" \in Redirs[p[1]] THEN File ELSE Terminal
             ELSE ReadEnd(<<p[1], p[2] - 1>>)
StdOut(p) == IF Last(p) THEN IF ">" \in Redirs[p[1]] THEN File ELSE Terminal
             ELSE WriteEnd(p)

\* A program that is executed reads and writes what the line says, and holds no other
\* end of a pipe of its pipeline: one write end too many, in the reader itself or in a
\* process behind it, and there is no end of file.
WiredAsTyped ==
  \A p \in Proc : phase[p] = "execed" =>
    /\ fd[p][0] = StdIn(p) /\ fd[p][1] = StdOut(p) /\ fd[p][2] = Terminal
    /\ \A d \in Fd \ {0, 1} : fd[p][d] \notin PipesOf(p[1])

\* Between two pipelines the shell has its own descriptors, also after a pipe that failed
\* and the repeated closes of the last command, and of pipes both ends of those in front of a
\* built-in, which nobody closes.
ShellKeeps ==
  pc = "loop" =>
    \A d \in Fd : CASE d \in 0..3 -> fd[Shell][d] = Terminal
                    [] OTHER -> fd[Shell][d] \in
                         {Closed} \cup UNION {{ReadEnd(q), WriteEnd(q)} : q \in
                           {q \in Pipe : ~Last(q) /\ Cmds[q[1]][q[2] + 1] = "builtin"}}

\* A command of a pipeline reads nothing but what the command before it writes.
ReadsPredecessor ==
  \A p, o \in Proc :
    (phase[p] = "execed" /\ ~First(p) /\ phase[o] = "execed") =>
      \A q \in Pipe : fd[p][0] = ReadEnd(q) /\ fd[o][1] = WriteEnd(q) => o = <<p[1], p[2] - 1>>

\* No write end of the pipe that p reads is open anywhere.
AtEndOfFile(p) ==
  /\ phase[p] = "execed"
  /\ \E q \in Pipe : /\ fd[p][0] = ReadEnd(q)
                     /\ \A o \in Owner : \A d \in Fd : fd[o][d] # WriteEnd(q)

\* The descriptors of all processes and of the shell implement the chain that was typed:
\* end of file reaches a command when, and only when, the one before it has ended.
ChainOfPipes == INSTANCE Chain WITH
  started <- {p \in Proc : phase[p] # "none"},
  ended   <- {p \in Proc : phase[p] = "gone"},
  drained <- {p \in Proc : AtEndOfFile(p)}

ImplementsChain == ChainOfPipes!Spec

\* Its safety part: the shell and the children, failures included, take no step that a chain
\* of commands could not take.
KeepsChain == ChainOfPipes!Safety

-----------------------------------------------------------------------------
(***************************************************************************)
(* The inductive invariant behind WiredAsTyped, ShellKeeps and KeepsChain. *)
(* A pipe always gets two neighbouring descriptors, of which the first is  *)
(* even: a slot.                                                           *)
(***************************************************************************)

Slot == {<<2 * k, 2 * k + 1>> : k \in 2..((OpenMax \div 2) - 1)}
IsClosed(t, s) == t[s[1]] = Closed /\ t[s[2]] = Closed
Holds(t, s, q) == t[s[1]] = ReadEnd(q) /\ t[s[2]] = WriteEnd(q)

\* The table of the shell, and of a child up to execvp.
Tidy(t) ==
  /\ \A d \in 0..3 : t[d] = Terminal
  /\ \A s \in Slot : IsClosed(t, s) \/ \E q \in Pipe : Holds(t, s, q)
  /\ \A d \in Fd : d > 3 => t[d] = Closed \/ \E s \in Slot : d \in {s[1], s[2]}

\* Nothing below s is free.
LowestFrom(t, s) == \A d \in Free(t) : d >= s[1]

\* A pipe in front of a built-in: the launch ends with both of its ends open.
Leaky(q) == ~Last(q) /\ Cmds[q[1]][q[2] + 1] = "builtin"

\* Where main is, and which commands of its pipeline have been forked.
AtWork == pc \in {"cmd", "parent"}
Forked(k) == k < n \/ (pc = "parent" /\ k = n)
LaunchInv ==
  /\ AtWork =>
       /\ pipeline \in Job /\ n \in 1..(Len(Cmds[pipeline]) + 1)
       /\ \A k \in 1..Len(Cmds[pipeline]) : Forked(k) => Cmds[pipeline][k] = "program"
       /\ \A p \in Proc : p[1] = pipeline => (phase[p] # "none" <=> Forked(p[2]))
       /\ pc = "parent" => n <= Len(Cmds[pipeline])
  /\ \A p \in Proc : phase[p] # "none" => phase[<<p[1], 1>>] # "none"

\* The shell's descriptors: at most the pipe main is about to read from and the one it
\* has just made are there beside those that were leaked, each in the slot that
\* secondPipe and firstPipe name.
Piping == AtWork /\ hasPipe(pipeline)
ShellInv ==
  pc # "ended" =>
    /\ Tidy(fd[Shell])
    /\ firstPipe[Shell] \in Slot \/ (firstPipe[Shell] = <<0, 0>> /\ fd[Shell] = ShellTable)
    /\ Piping /\ (pc = "parent" \/ n > 1) => firstPipe[Shell] \in Slot
    /\ Piping /\ n > 1 =>
         /\ secondPipe[Shell] \in Slot
         /\ pc = "cmd" \/ n = Len(Cmds[pipeline]) => secondPipe[Shell] = firstPipe[Shell]
    /\ \A s \in Slot, q \in Pipe : Holds(fd[Shell], s, q) =>
         \/ Leaky(q) /\ ~(AtWork /\ q[1] = pipeline)
         \/ AtWork /\ n <= Len(Cmds[pipeline]) /\ q = <<pipeline, n - 1>> /\ s = secondPipe[Shell]
         \/ pc = "parent" /\ n < Len(Cmds[pipeline]) /\ q = Current /\ s = firstPipe[Shell]

\* No pipe is in two slots of the shell, and none is there before its process is forked.
UniqueInv ==
  \A s \in Slot, q \in Pipe : Holds(fd[Shell], s, q) =>
    /\ phase[q] # "none"
    /\ \A s2 \in Slot : Holds(fd[Shell], s2, q) => s2 = s

\* pipe succeeds for the first command of a pipeline.
Room == pc = "cmd" /\ n = 1 /\ hasPipe(pipeline) => Cardinality(Free(fd[Shell])) >= 2

\* It succeeds for each command that another one follows.
RoomForAll ==
  pc = "cmd" /\ hasPipe(pipeline) /\ n < Len(Cmds[pipeline]) => Cardinality(Free(fd[Shell])) >= 2

\* So secondPipe names the pipe behind the last command, or the two descriptors that pipe
\* will return again because it failed once.
ReadSlotInv ==
  /\ Piping /\ pc = "cmd" /\ 1 < n /\ n <= Len(Cmds[pipeline]) =>
       \/ /\ Holds(fd[Shell], secondPipe[Shell], <<pipeline, n - 1>>)
          /\ Cardinality(Free(fd[Shell])) >= 2 \/ LowestFrom(fd[Shell], secondPipe[Shell])
       \/ IsClosed(fd[Shell], secondPipe[Shell]) /\ LowestFrom(fd[Shell], secondPipe[Shell])
  /\ Piping /\ pc = "parent" /\ n < Len(Cmds[pipeline]) =>
       IF n = 1 \/ firstPipe[Shell] # secondPipe[Shell]
       THEN /\ Holds(fd[Shell], firstPipe[Shell], Current)
            /\ n = 1 => LowestFrom(fd[Shell], firstPipe[Shell])
       ELSE LowestFrom(fd[Shell], secondPipe[Shell])

\* A forked child has the pipes on both sides of it, or dup2 will fail.
Before(p) == <<p[1], p[2] - 1>>
Stuck(p) ==
  ~First(p) /\ \/ fd[p][secondPipe[p][1]] = Closed
               \/ ~Last(p) /\ firstPipe[p] = secondPipe[p]
ForkedInv ==
  \A p \in Proc : phase[p] = "forked" =>
    /\ Tidy(fd[p])
    /\ ~First(p) => secondPipe[p] \in Slot
    /\ ~Last(p)  => firstPipe[p] \in Slot
    /\ Stuck(p) \/ /\ ~First(p) => Holds(fd[p], secondPipe[p], Before(p))
                   /\ ~Last(p)  => Holds(fd[p], firstPipe[p], p)
    /\ \A s \in Slot, q \in Pipe : Holds(fd[p], s, q) =>
         \/ Leaky(q) /\ q[1] # p[1]
         \/ q = p /\ s = firstPipe[p]
         \/ q = Before(p) /\ s = secondPipe[p]

\* What is open in a program, and in anybody of a pipe whose writer is still there.
EndsInv ==
  \A o \in Owner, d \in Fd, q \in Pipe : fd[o][d] \in {ReadEnd(q), WriteEnd(q)} =>
    /\ ~Last(q) /\ phase[q] # "none"
    /\ phase[q] # "gone" => \E b \in Fd : fd[q][b] = WriteEnd(q)
    /\ o # Shell /\ phase[o] = "execed" => Leaky(q) \/ q \in {o, Before(o)}

TableInv == \A p \in Proc : phase[p] \in {"none", "gone"} => fd[p] = NoTable

BaseInv  == TypeOK /\ LaunchInv /\ ShellInv /\ UniqueInv
PipesInv == BaseInv /\ ReadSlotInv /\ ForkedInv /\ EndsInv /\ TableInv /\ WiredAsTyped
=============================================================================
