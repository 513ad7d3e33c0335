--------------------------- MODULE MCStripeEvents ---------------------------
(***************************************************************************)
(* Instances of StripeEvents for TLC.                                      *)
(***************************************************************************)
EXTENDS StripeEvents, TLC

CONSTANTS r1, r2

FirstIsPlan == {1}
=============================================================================
