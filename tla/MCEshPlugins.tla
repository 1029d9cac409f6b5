---------------------------- MODULE MCEshPlugins ----------------------------
(***************************************************************************)
(* The instance of EshPlugins for TLC.                                     *)
(***************************************************************************)
EXTENDS EshPlugins

MCSentinel == {head, tail}
MCHookSets == {{"init", "process_builtin"}, {"make_prompt"}}
=============================================================================
