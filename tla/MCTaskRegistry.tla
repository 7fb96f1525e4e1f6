--------------------------- MODULE MCTaskRegistry ---------------------------
(* TaskRegistry on a small instance. *)
EXTENDS TaskRegistry, TLC

Symmetry == Permutations(Instance) \cup Permutations(Task)
=============================================================================
