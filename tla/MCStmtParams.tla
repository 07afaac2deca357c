--------------------------- MODULE MCStmtParams ---------------------------
(* StmtParams for TLC: the values of a parameter are alike. *)
EXTENDS StmtParams, TLC

Symmetry == Permutations(Values)
=============================================================================
