----------------------------- MODULE MCEshPipes -----------------------------
(***************************************************************************)
(* The instances of EshPipes for TLC.                                      *)
(***************************************************************************)
EXTENDS EshPipes, TLC

CONSTANTS j1, j2, j3

MCPipe == Proc

\* A program piped into a built-in, which costs two descriptors, three programs, and two
\* with redirections.
PipesCmds   == (j1 :> <<"program", "builtin">>) @@ (j2 :> <<"program", "program", "program">>)
                 @@ (j3 :> <<"program", "program">>)
PipesRedirs == (j1 :> {}) @@ (j2 :> {}) @@ (j3 :> {"<", ">"})

CrossedCmds   == (j1 :> <<"program", "builtin">>) @@ (j2 :> <<"program", "program">>)
CrossedRedirs == (j1 :> {}) @@ (j2 :> {})
=============================================================================
