----------------------------- MODULE LocalTasks -----------------------------
(***************************************************************************)
(* The registry of background tasks without Redis (tasks.py): the          *)
(* dictionary `tasks' and the list item_tasks[id] of one chat or document, *)
(* in the one event loop of the one process.                               *)
(*                                                                         *)
(* One action is what runs between two awaits.  stop_item_tasks goes       *)
(* through the live list, by index, while the tasks it waits for remove    *)
(* themselves from it; when the list becomes empty it is dropped, and the  *)
(* next task of the item starts a new one.                                 *)
(***************************************************************************)
EXTENDS Naturals, Sequences, SequencesExt

CONSTANTS
    Task,     \* task ids, as uuid4 produces them
    Stopper   \* requests that stop the item's tasks, running concurrently

VARIABLES
    life,       \* task -> where its coroutine is
    tasks,      \* keys of the dictionary of tasks
    listed,     \* item_tasks[id]; <<>> when the item has no entry
    cancelled,  \* the tasks cancel() has been called on
    stopper     \* stopper -> the call of stop_item_tasks it is making

vars == <<life, tasks, listed, cancelled, stopper>>

IdleStop == [pc |-> "idle", on |-> {}, at |-> 1, stale |-> FALSE, found |-> <<>>]
Waiting(s) == stopper[s].pc = "waiting"
Done(t) == life[t] \in {"ended", "failed", "gone"}

\* pc tells what stop_item_tasks returned, or that it waits for the task in `on';
\* `found' is the list it was given, and `at' its place in the list as it is now.
StopCall == [pc : {"idle", "waiting", "all stopped", "not found", "raised"},
             on : SUBSET Task, at : Nat \ {0}, stale : BOOLEAN, found : Seq(Task)]

TypeOK ==
    /\ life \in [Task -> {"unborn", "running", "finishing", "ended", "failed", "gone"}]
    /\ tasks \subseteq Task
    /\ listed \in Seq(Task) /\ IsInjective(listed)
    /\ cancelled \subseteq Task
    /\ stopper \in [Stopper -> StopCall]

Init ==
    /\ life = [t \in Task |-> "unborn"]
    /\ tasks = {}
    /\ listed = <<>>
    /\ cancelled = {}
    /\ stopper = [s \in Stopper |-> IdleStop]

-----------------------------------------------------------------------------
(* Tasks *)

\* Mutant: an entry of the item that exists already is left as it is.
CreateUnlisted(t) ==
    /\ life[t] = "unborn"
    /\ life' = [life EXCEPT ![t] = "running"]
    /\ tasks' = tasks \cup {t}
    /\ listed' = IF listed = <<>> THEN <<t>> ELSE listed
    /\ UNCHANGED <<cancelled, stopper>>

\* create_task
Create(t) ==
    /\ life[t] = "unborn"
    /\ life' = [life EXCEPT ![t] = "running"]
    /\ tasks' = tasks \cup {t}
    /\ listed' = Append(listed, t)
    /\ UNCHANGED <<cancelled, stopper>>

\* Mutant: leaves the list's entry behind when the task is not in `tasks'.
CleanUpIfKnown(t) ==
    /\ tasks' = tasks \ {t}
    /\ listed' = IF t \in tasks THEN RemoveFirst(listed, t) ELSE listed
    /\ stopper' = stopper

\* cleanup_task.  A list that becomes empty is dropped: a stop that goes
\* through it holds an empty list from then on.
CleanUp(t) ==
    /\ tasks' = tasks \ {t}
    /\ listed' = RemoveFirst(listed, t)
    /\ stopper' = [s \in Stopper |->
                     IF Waiting(s) /\ listed' = <<>>
                     THEN [stopper[s] EXCEPT !.stale = TRUE] ELSE stopper[s]]

\* The finally block of process_chat deregisters the task, cancelled or not.
WindUp(t) ==
    /\ life[t] = "running"
    /\ life' = [life EXCEPT ![t] = "finishing"]
    /\ CleanUp(t)
    /\ UNCHANGED cancelled

\* The coroutine ends: after winding up; or without (a debounced save of a
\* note, or a chat that never learnt its id), and then perhaps by an exception.
End(t, how) ==
    /\ \/ life[t] = "running"
       \/ life[t] = "finishing" /\ how = "ended"
    /\ life' = [life EXCEPT ![t] = how]
    /\ UNCHANGED <<tasks, listed, cancelled, stopper>>

\* The done callback's clean-up, a task of its own: it runs after the coroutines
\* that were waiting for t have been woken up.
Callback(t) ==
    /\ life[t] \in {"ended", "failed"}
    /\ \A s \in Stopper : t \notin stopper[s].on
    /\ life' = [life EXCEPT ![t] = "gone"]
    /\ CleanUp(t)
    /\ UNCHANGED cancelled

-----------------------------------------------------------------------------
(* Stopping *)

Returned(rec, what) == [rec EXCEPT !.pc = what, !.on = {}]
WaitingFor(rec, t)  == [rec EXCEPT !.pc = "waiting", !.on = {t}, !.at = @ + 1]

\* Mutant: stop_task takes the task off the dictionary and forgets to cancel it.
LoopWithoutCancel(s, rec) ==
    LET t == listed[rec.at]
    IN  /\ cancelled' = cancelled
        /\ IF rec.stale \/ rec.at > Len(listed) \/ listed[rec.at] \notin tasks
           THEN /\ stopper' = [stopper EXCEPT ![s] = Returned(rec, "all stopped")]
                /\ UNCHANGED tasks
           ELSE /\ stopper' = [stopper EXCEPT ![s] = WaitingFor(rec, t)]
                /\ tasks' = tasks \ {t}

\* Mutant: an index past the end is only noticed one element later.
LoopStartsLate(s, rec) ==
    LET t == listed[rec.at + 1]
    IN  IF rec.stale \/ rec.at + 1 > Len(listed)
        THEN /\ stopper' = [stopper EXCEPT ![s] = Returned(rec, "all stopped")]
             /\ UNCHANGED <<tasks, cancelled>>
        ELSE IF t \notin tasks
        THEN /\ stopper' = [stopper EXCEPT ![s] = Returned(rec, "not found")]
             /\ UNCHANGED <<tasks, cancelled>>
        ELSE /\ stopper' = [stopper EXCEPT ![s] = WaitingFor(rec, t)]
             /\ tasks' = tasks \ {t}
             /\ cancelled' = IF Done(t) THEN cancelled ELSE cancelled \cup {t}

\* The loop of stop_item_tasks from index rec.at to the next await, in stop_task.
Loop(s, rec) ==
    LET t == listed[rec.at]
    IN  IF rec.stale \/ rec.at > Len(listed)
        THEN /\ stopper' = [stopper EXCEPT ![s] = Returned(rec, "all stopped")]
             /\ UNCHANGED <<tasks, cancelled>>
        ELSE IF t \notin tasks
        THEN /\ stopper' = [stopper EXCEPT ![s] = Returned(rec, "not found")]
             /\ UNCHANGED <<tasks, cancelled>>
        ELSE /\ stopper' = [stopper EXCEPT ![s] = WaitingFor(rec, t)]
             /\ tasks' = tasks \ {t}
             /\ cancelled' = IF Done(t) THEN cancelled ELSE cancelled \cup {t}

\* stop_item_tasks is called for an item that has tasks.
StopItem(s) ==
    /\ ~Waiting(s)
    /\ listed # <<>>
    /\ Loop(s, [IdleStop EXCEPT !.found = listed])
    /\ UNCHANGED <<life, listed>>

\* The task stop_task was waiting for has ended; its exception, if it is not a
\* cancellation, leaves stop_task and stop_item_tasks.
Resume(s) ==
    /\ Waiting(s)
    /\ \E t \in stopper[s].on :
          /\ Done(t)
          /\ IF life[t] = "failed"
             THEN /\ stopper' = [stopper EXCEPT ![s] = Returned(@, "raised")]
                  /\ UNCHANGED <<tasks, cancelled>>
             ELSE Loop(s, stopper[s])
    /\ UNCHANGED <<life, listed>>

-----------------------------------------------------------------------------
\* Awaiting a task that had already ended does not leave the coroutine: nothing
\* else runs before stop_task goes on.
Urgent(s) == \E t \in stopper[s].on : Done(t) /\ t \notin cancelled
Calm      == \A s \in Stopper : ~Urgent(s)

Next ==
    \/ Calm /\ \E t \in Task : Create(t) \/ WindUp(t) \/ Callback(t)
    \/ Calm /\ \E t \in Task, how \in {"ended", "failed"} : End(t, how)
    \/ Calm /\ \E s \in Stopper : StopItem(s)
    \/ \E s \in Stopper : Resume(s) /\ (Calm \/ Urgent(s))

\* A cancelled coroutine, or one that winds up, ends; callbacks and waiting
\* coroutines are run.  Nothing makes an uncancelled coroutine end.
Fairness ==
    /\ \A t \in Task :
          /\ WF_vars(Callback(t))
          /\ WF_vars((t \in cancelled \/ life[t] = "finishing")
                        /\ (WindUp(t) \/ \E how \in {"ended", "failed"} : End(t, how)))
    /\ \A s \in Stopper : WF_vars(Resume(s))

Spec     == Init /\ [][Next]_vars
FairSpec == Spec /\ Fairness

-----------------------------------------------------------------------------
(* Properties *)

\* A task that runs is in the item's list, and it is in the dictionary unless a
\* stop has already cancelled it: has_active_tasks and a later stop see it.
RunningReachable ==
    \A t \in Task : life[t] = "running" =>
        /\ t \in Range(listed)
        /\ t \in tasks \/ t \in cancelled

\* Whatever stops and clean-ups interleave, once a task's callback has run no
\* trace of it is left: the item is not reported active because of it.
GoneForgotten ==
    /\ TypeOK
    /\ \A t \in Task : life[t] = "gone" => t \notin tasks /\ t \notin Range(listed)

\* A stop that answers "all stopped" has at least ended the first task of the
\* list it was given: a chat with a single task is really stopped, even when the
\* task takes itself off the list meanwhile and others are added.
FirstStopped ==
    \A s \in Stopper : stopper[s].pc = "all stopped" => Done(stopper[s].found[1])

\* stop_item_tasks returns: it never waits for ever for a task it cancelled,
\* even when two stops wait for each other's tasks.
StopReturns ==
    \A s \in Stopper : Waiting(s) ~> ~Waiting(s)

=============================================================================
