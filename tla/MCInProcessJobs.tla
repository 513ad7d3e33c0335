-------------------------- MODULE MCInProcessJobs --------------------------
(***************************************************************************)
(* Instances of InProcessJobs for TLC.                                     *)
(***************************************************************************)
EXTENDS InProcessJobs
=============================================================================
