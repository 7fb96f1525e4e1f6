----------------------------- MODULE MCScheduler -----------------------------
(* Scheduler on a small instance. *)
EXTENDS Scheduler, TLC

MCDeployment ==
    { [db |-> "postgresql", on |-> {"automations"}], [db |-> "sqlite", on |-> {"automations"}],
      [db |-> "postgresql", on |-> {"calendar"}] }

MCCalendar == {[db |-> "postgresql", on |-> {"calendar"}]}

MCRule == {{1, 2, 3}, {2}}

Symmetry == Permutations(Instance) \cup Permutations(Worker)
=============================================================================
