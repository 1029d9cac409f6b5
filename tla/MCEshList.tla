----------------------------- MODULE MCEshList -----------------------------
(***************************************************************************)
(* The instance of EshList for TLC.                                        *)
(***************************************************************************)
EXTENDS EshList

MCSentinel == {job_head, job_tail, pipes_head, pipes_tail}
=============================================================================
