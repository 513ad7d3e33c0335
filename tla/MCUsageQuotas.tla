--------------------------- MODULE MCUsageQuotas ---------------------------
(***************************************************************************)
(* Instances of UsageQuotas for TLC.                                       *)
(***************************************************************************)
EXTENDS UsageQuotas, TLC

CONSTANTS c1, c2, k1, k2, small, large

MCWanted == [p \in {small, large} |-> IF p = small THEN <<1, 1>> ELSE <<2, 1>>]
TwoLimits == {<<1, 1>>, <<3, 2>>}
OldUsage == <<1, 0>>

CallsAreAlike == Permutations({c1, c2})
KeysAreAlike == Permutations({k1, k2})
Symmetry == CallsAreAlike \cup KeysAreAlike
=============================================================================
