---------------------------- MODULE Descriptors ----------------------------
(***************************************************************************)
(* File descriptors as the calls of src/esh.c use them (open, pipe, dup2,  *)
(* close), on the descriptor table of one process. None of it is code of   *)
(* the repository.                                                         *)
(***************************************************************************)
EXTENDS FiniteSetsExt, Naturals

CONSTANTS
  OpenMax,   \* RLIMIT_NOFILE: a process has the descriptors 0..OpenMax-1
  Pipe       \* the pipes that may be created

ASSUME DescriptorAssumption == OpenMax \in Nat /\ OpenMax >= 4

Fd == 0..(OpenMax - 1)

\* What a descriptor refers to.
Closed      == <<"closed">>
Terminal    == <<"terminal">>
File        == <<"file">>
ReadEnd(q)  == <<"read", q>>
WriteEnd(q) == <<"write", q>>
PipeEnd     == {ReadEnd(q) : q \in Pipe} \cup {WriteEnd(q) : q \in Pipe}
Open        == {Terminal, File} \cup PipeEnd

Table     == [Fd -> Open \cup {Closed}]
NoTable   == [d \in Fd |-> Closed]
Free(t)   == {d \in Fd : t[d] = Closed}

\* Descriptors are handed out from the lowest free one; a pipe takes two.
lowest(t) == Min(Free(t))
open(t, f) == [t EXCEPT ![lowest(t)] = f]
pipe_fds(t) == <<lowest(t), Min(Free(t) \ {lowest(t)})>>
pipe(t, q)  == [t EXCEPT ![pipe_fds(t)[1]] = ReadEnd(q), ![pipe_fds(t)[2]] = WriteEnd(q)]

dup2(t, old, new) == [t EXCEPT ![new] = t[old]]

\* close fails on a closed descriptor, without effect.
close(t, ds) == [d \in Fd |-> IF d \in ds THEN Closed ELSE t[d]]
=============================================================================
