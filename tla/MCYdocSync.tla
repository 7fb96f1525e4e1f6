----------------------------- MODULE MCYdocSync -----------------------------
(* YdocSync on small instances. *)
EXTENDS YdocSync, TLC

\* In memory, and in Redis, with compaction at every second update while
\* sessions come and go; and in Redis with three sessions that stay, compacting
\* at every second update or never.
InMemory == [redis |-> FALSE, threshold |-> 2, leave |-> TRUE, joins |-> 4, edits |-> 3]
Leaving  == [InMemory EXCEPT !.redis = TRUE, !.joins = 3, !.edits = 2]
Staying  == [InMemory EXCEPT !.redis = TRUE, !.joins = 3, !.leave = FALSE]
Deployments == {InMemory, Leaving, [Leaving EXCEPT !.joins = 2, !.edits = 3],
                Staying, [Staying EXCEPT !.threshold = 4]}

Symmetry == Permutations(Client) \cup Permutations(Update)
=============================================================================
