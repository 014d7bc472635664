-------------------------- MODULE MCSubmitPipeline --------------------------
(***************************************************************************)
(* Small instances of SubmitPipeline for TLC.                              *)
(***************************************************************************)
EXTENDS SubmitPipeline
=============================================================================
