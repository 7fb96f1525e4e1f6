---------------------------- MODULE MCLocalTasks ----------------------------
(* LocalTasks on a small instance. *)
EXTENDS LocalTasks, TLC

Symmetry == Permutations(Task) \cup Permutations(Stopper)
=============================================================================
