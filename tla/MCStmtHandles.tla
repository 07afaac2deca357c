--------------------------- MODULE MCStmtHandles ---------------------------
(* StmtHandles for TLC: threads, connections, objects and numbers are alike. *)
EXTENDS StmtHandles, TLC

Symmetry == Permutations(Threads) \cup Permutations(Conns)
              \cup Permutations(Objects) \cup Permutations(Handles)
=============================================================================
