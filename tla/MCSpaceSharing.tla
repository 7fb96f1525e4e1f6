--------------------------- MODULE MCSpaceSharing ---------------------------
(* SpaceSharing on a small instance. *)
EXTENDS SpaceSharing, TLC

Symmetry == Permutations(User) \cup Permutations(Space)
              \cup Permutations(Dataset) \cup Permutations(Agent)
=============================================================================
