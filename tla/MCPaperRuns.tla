----------------------------- MODULE MCPaperRuns -----------------------------
(***************************************************************************)
(* Instances of PaperRuns for TLC.                                         *)
(***************************************************************************)
EXTENDS PaperRuns
=============================================================================
