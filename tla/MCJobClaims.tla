----------------------------- MODULE MCJobClaims -----------------------------
(***************************************************************************)
(* Instances of JobClaims for TLC: one job delivered to two executions,    *)
(* or a job for each of them.                                              *)
(***************************************************************************)
EXTENDS JobClaims, TLC

CONSTANTS w1, w2, j1, j2

OneJob == [w \in Workers |-> j1]
JobEach == [w \in Workers |-> IF w = w1 THEN j1 ELSE j2]

Symmetry == Permutations(Workers)
=============================================================================
