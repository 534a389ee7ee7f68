--------------------------- MODULE MCTotalUpdate ---------------------------
(* Total updates of a few entries.                                         *)
EXTENDS TotalUpdate
=============================================================================
