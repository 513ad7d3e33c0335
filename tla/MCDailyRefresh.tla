--------------------------- MODULE MCDailyRefresh ---------------------------
(***************************************************************************)
(* An instance of DailyRefresh for TLC.                                    *)
(***************************************************************************)
EXTENDS DailyRefresh

CONSTANTS s1, s2, r1
=============================================================================
