--------------------------- MODULE MCSpaceRequests ---------------------------
(* SpaceRequests on small instances. *)
EXTENDS SpaceRequests

\* Two spaces and one request at a time; one space, and an overlap or a crash.
Alone   == [spaces |-> 2, overlaps |-> 0]
Beside  == [spaces |-> 1, overlaps |-> 1]
Amounts == {Alone, Beside}

Symmetry == Permutations(User) \cup Permutations(Space) \cup Permutations(Dataset)
              \cup Permutations(Agent) \cup Permutations(Worker)
=============================================================================
