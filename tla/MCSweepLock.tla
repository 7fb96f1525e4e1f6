---------------------------- MODULE MCSweepLock -----------------------------
(* SweepLock on small instances, for either clean-up. *)
EXTENDS SweepLock, TLC

Symmetry == Permutations(Node)
=============================================================================
