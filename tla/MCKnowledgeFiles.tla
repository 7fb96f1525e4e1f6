-------------------------- MODULE MCKnowledgeFiles --------------------------
(* KnowledgeFiles on a small instance. *)
EXTENDS KnowledgeFiles, TLC

\* Three requests one after another, or two that may overlap or be cut short,
\* or during which a call on the vector database fails.
Amounts ==
    { [requests |-> 3, disturbances |-> 0, faults |-> 0],
      [requests |-> 2, disturbances |-> 1, faults |-> 0],
      [requests |-> 2, disturbances |-> 0, faults |-> 1] }

Symmetry == Permutations(File) \cup Permutations(Base) \cup Permutations(Content)
              \cup Permutations(Worker)
=============================================================================
