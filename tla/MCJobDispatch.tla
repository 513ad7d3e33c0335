---------------------------- MODULE MCJobDispatch ----------------------------
(***************************************************************************)
(* Instances of JobDispatch for TLC.                                       *)
(***************************************************************************)
EXTENDS JobDispatch

NoneIdempotent == {}
OneIdempotent == {1}
=============================================================================
