----------------------------- MODULE MCEshJobs -----------------------------
(***************************************************************************)
(* Instances of EshJobs for TLC.                                           *)
(***************************************************************************)
EXTENDS EshJobs

CONSTANT j1   \* the pipeline that may have several commands

MCPid == Job \X (1..MaxCmds)

\* Every pipeline is one program.
SingleCmds == [j \in Job |-> <<"program">>]
\* j1 is a pipeline of two programs.
PipeCmds == [j \in Job |-> IF j = j1 THEN <<"program", "program">> ELSE <<"program">>]
\* j1 is a pipeline of two programs, every other job a program piped into a
\* built-in, which ends its launch half way.
MixedCmds ==
  [j \in Job |-> IF j = j1 THEN <<"program", "program">> ELSE <<"program", "builtin">>]
=============================================================================
