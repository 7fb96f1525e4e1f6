---------------------------- MODULE TaskRegistry ----------------------------
(***************************************************************************)
(* The registry of background tasks in its Redis mode (tasks.py).          *)
(*                                                                         *)
(* A task is an asyncio task of one instance; a chat or a document (its    *)
(* item) may have several.  Redis holds the hash of all the tasks and a    *)
(* set of tasks per item; each instance holds its own tasks and listens on *)
(* a channel for stop commands.  One action is what one process does       *)
(* between two awaits, with the Redis command the second one sends.        *)
(*                                                                         *)
(* redis_cleanup_task has three callers: the chat coroutine when it winds  *)
(* up (main.py process_chat), the task's done callback, and stop_task.     *)
(* Each call is a Cleaner, with a program counter of its own.              *)
(***************************************************************************)
EXTENDS Naturals, FiniteSets

CONSTANTS
    Instance,        \* application processes sharing one Redis
    Task,            \* task ids, as uuid4 produces them
    Item,            \* chat and document ids
    Stopper,         \* requests that stop tasks, running concurrently
    None,            \* "no task", "no item", "no instance"
    MaxRestarts,     \* bound: how many times an instance dies and restarts
    ListenerMayFail  \* may an outage of Redis end a command listener?

ASSUME RegistryAssumption ==
    /\ None \notin Instance \cup Task \cup Item
    /\ MaxRestarts \in Nat
    /\ ListenerMayFail \in BOOLEAN

VARIABLES
    life,       \* task -> where its coroutine is
    home,       \* task -> the instance that created it
    item,       \* task -> the chat or document it works for
    save,       \* task -> its registration in Redis by create_task
    told,       \* task -> what the coroutine found when it wound up
    cancelled,  \* the tasks with a cancellation their coroutine has yet to meet
    listening,  \* the instances whose command listener is alive
    inbox,      \* stop commands on their way to the instance that holds the task
    rhash,      \* keys of the Redis hash of tasks; its values are item[t]
    rset,       \* item -> the Redis set of its tasks
    clean,      \* cleaner -> the call of redis_cleanup_task it is making
    stopper,    \* stopper -> the request it is serving
    asked,      \* history: the tasks a stop command has been published for
    restarts    \* how many restarts there have been

vars == <<life, home, item, save, told, cancelled, listening, inbox,
          rhash, rset, clean, stopper, asked, restarts>>

Cleaner    == ({"own", "callback"} \X Task) \cup ({"stop"} \X Stopper)
IdleCall   == [pc |-> "idle", task |-> None, item |-> None]
IdleStop   == [pc |-> "idle", todo |-> {}, task |-> None, found |-> None]
Call(t, i) == [pc |-> "remove", task |-> t, item |-> i]
TasksOf(n)     == {t \in Task : home[t] = n}
MarkedAs(c, p) == [clean EXCEPT ![c].pc = p]

TypeOK ==
    /\ life \in [Task -> {"unborn", "running", "finishing", "ended", "lost"}]
    /\ home \in [Task -> Instance \cup {None}]
    /\ item \in [Task -> Item \cup {None}]
    /\ save \in [Task -> {"none", "pending", "landed", "lost"}]
    /\ told \in [Task -> {"nothing", "others remain", "none remain"}]
    /\ cancelled \subseteq Task
    /\ listening \subseteq Instance
    /\ inbox \subseteq Task
    /\ rhash \subseteq Task
    /\ rset \in [Item -> SUBSET Task]
    /\ clean \in [Cleaner -> [pc : {"idle", "remove", "count", "drop", "done"},
                              task : Task \cup {None}, item : Item \cup {None}]]
    /\ stopper \in [Stopper -> [pc : {"idle", "find", "publish", "clean"},
                                todo : SUBSET Task, task : Task \cup {None},
                                found : Item \cup {None}]]
    /\ asked \subseteq Task
    /\ restarts \in 0..MaxRestarts

Init ==
    /\ life = [t \in Task |-> "unborn"]
    /\ home = [t \in Task |-> None]
    /\ item = [t \in Task |-> None]
    /\ save = [t \in Task |-> "none"]
    /\ told = [t \in Task |-> "nothing"]
    /\ cancelled = {}
    /\ listening = Instance
    /\ inbox = {}
    /\ rhash = {}
    /\ rset = [i \in Item |-> {}]
    /\ clean = [c \in Cleaner |-> IdleCall]
    /\ stopper = [s \in Stopper |-> IdleStop]
    /\ asked = {}
    /\ restarts = 0

-----------------------------------------------------------------------------
(* The life of a task *)

\* create_task up to its await: the coroutine is scheduled and the task is in
\* the instance's dictionary; the registration is on its way to Redis.
Create(n, t, i) ==
    /\ life[t] = "unborn"
    /\ life' = [life EXCEPT ![t] = "running"]
    /\ home' = [home EXCEPT ![t] = n]
    /\ item' = [item EXCEPT ![t] = i]
    /\ save' = [save EXCEPT ![t] = "pending"]
    /\ UNCHANGED <<told, cancelled, listening, inbox, rhash, rset, clean,
                   stopper, asked, restarts>>

\* redis_save_task: HSET and SADD in one MULTI, whatever the task does meanwhile.
Save(t) ==
    /\ save[t] = "pending"
    /\ save' = [save EXCEPT ![t] = "landed"]
    /\ rhash' = rhash \cup {t}
    /\ rset' = [rset EXCEPT ![item[t]] = @ \cup {t}]
    /\ UNCHANGED <<life, home, item, told, cancelled, listening, inbox,
                   clean, stopper, asked, restarts>>

\* The finally block of process_chat reaches cleanup_task.  It knows its task
\* id only if create_task had returned when the payload copied the metadata.  A
\* cancellation has been caught by then; another may come (End).
WindUp(t) ==
    /\ life[t] = "running"
    /\ save[t] = "landed"
    /\ life' = [life EXCEPT ![t] = "finishing"]
    /\ cancelled' = cancelled \ {t}
    /\ clean' = [clean EXCEPT ![<<"own", t>>] = Call(t, item[t])]
    /\ UNCHANGED <<home, item, save, told, listening, inbox, rhash,
                   rset, stopper, asked, restarts>>

\* Mutant: looks for other tasks before its own deregistration is over.
CheckTooEarly(t) ==
    /\ life[t] = "finishing"
    /\ told' = [told EXCEPT ![t] =
                    IF rset[item[t]] = {} THEN "none remain" ELSE "others remain"]
    /\ life' = [life EXCEPT ![t] = "ended"]
    /\ clean' = [clean EXCEPT ![<<"callback", t>>] = Call(t, item[t])]
    /\ UNCHANGED <<home, item, save, cancelled, listening, inbox, rhash, rset,
                   stopper, asked, restarts>>

\* tasks.pop, then has_active_tasks, once Redis has answered: it decides whether
\* chat:active=false is emitted; the coroutine then returns and its done
\* callback is scheduled.
Check(t) ==
    /\ life[t] = "finishing"
    /\ clean[<<"own", t>>].pc = "done"
    /\ told' = [told EXCEPT ![t] =
                    IF rset[item[t]] = {} THEN "none remain" ELSE "others remain"]
    /\ life' = [life EXCEPT ![t] = "ended"]
    /\ clean' = [clean EXCEPT ![<<"callback", t>>] = Call(t, item[t])]
    /\ UNCHANGED <<home, item, save, cancelled, listening, inbox, rhash,
                   rset, stopper, asked, restarts>>

\* The coroutine ends without deregistering itself: a debounced save of a note,
\* a chat that never learnt its id, or a cancellation while it was winding up.
End(t) ==
    /\ \/ life[t] = "running"
       \/ life[t] = "finishing" /\ t \in cancelled
    /\ life' = [life EXCEPT ![t] = "ended"]
    /\ cancelled' = cancelled \ {t}
    /\ clean' = [clean EXCEPT ![<<"own", t>>] = IdleCall,
                              ![<<"callback", t>>] = Call(t, item[t])]
    /\ UNCHANGED <<home, item, save, told, listening, inbox,
                   rhash, rset, stopper, asked, restarts>>

-----------------------------------------------------------------------------
(* redis_cleanup_task and the end of cleanup_task *)

\* Mutant: SREM forgotten.
RemoveFromHash(c) ==
    /\ clean[c].pc = "remove"
    /\ rhash' = rhash \ {clean[c].task}
    /\ clean' = MarkedAs(c, IF clean[c].item = None THEN "done" ELSE "count")
    /\ UNCHANGED <<life, home, item, save, told, cancelled, listening, inbox,
                   rset, stopper, asked, restarts>>

\* Mutant: unregisters all the tasks of the item, not just the one.
RemoveWholeItem(c) ==
    LET i == clean[c].item
    IN  /\ clean[c].pc = "remove"
        /\ rhash' = rhash \ {t \in Task : item[t] = i}
        /\ rset' = IF i = None THEN rset ELSE [rset EXCEPT ![i] = {}]
        /\ clean' = MarkedAs(c, IF i = None THEN "done" ELSE "count")
        /\ UNCHANGED <<life, home, item, save, told, cancelled, listening,
                       inbox, stopper, asked, restarts>>

\* HDEL and SREM in one MULTI; without an item, HDEL alone and nothing more.
Remove(c) ==
    LET t == clean[c].task
        i == clean[c].item
    IN  /\ clean[c].pc = "remove"
        /\ rhash' = rhash \ {t}
        /\ rset' = IF i = None THEN rset ELSE [rset EXCEPT ![i] = @ \ {t}]
        /\ clean' = MarkedAs(c, IF i = None THEN "done" ELSE "count")
        /\ UNCHANGED <<life, home, item, save, told, cancelled, listening, inbox, stopper, asked, restarts>>

\* SCARD
Count(c) ==
    /\ clean[c].pc = "count"
    /\ clean' = MarkedAs(c, IF rset[clean[c].item] = {} THEN "drop" ELSE "done")
    /\ UNCHANGED <<life, home, item, save, told, cancelled, listening,
                   inbox, rhash, rset, stopper, asked, restarts>>

\* DELETE of the item's set
Drop(c) ==
    /\ clean[c].pc = "drop"
    /\ rset' = [rset EXCEPT ![clean[c].item] = {}]
    /\ clean' = MarkedAs(c, "done")
    /\ UNCHANGED <<life, home, item, save, told, cancelled, listening,
                   inbox, rhash, stopper, asked, restarts>>

-----------------------------------------------------------------------------
(* Stopping *)

\* stop_item_tasks reads the item's set: the list it will go through.
StopItem(s, i) ==
    /\ stopper[s].pc = "idle"
    /\ rset[i] # {}
    /\ stopper' = [stopper EXCEPT ![s] = [IdleStop EXCEPT !.pc = "find",
                                                          !.todo = rset[i]]]
    /\ UNCHANGED <<life, home, item, save, told, cancelled, listening,
                   inbox, rhash, rset, clean, asked, restarts>>

\* An administrator stops one task of the list of all tasks.
StopOne(s, t) ==
    /\ stopper[s].pc = "idle"
    /\ t \in rhash
    /\ stopper' = [stopper EXCEPT ![s] = [IdleStop EXCEPT !.pc = "find",
                                                          !.todo = {t}]]
    /\ UNCHANGED <<life, home, item, save, told, cancelled, listening,
                   inbox, rhash, rset, clean, asked, restarts>>

\* stop_task: HGET of the task's item
Find(s, t) ==
    /\ stopper[s].pc = "find"
    /\ t \in stopper[s].todo
    /\ stopper' = [stopper EXCEPT ![s].pc = "publish", ![s].task = t,
                                  ![s].found = IF t \in rhash THEN item[t] ELSE None]
    /\ UNCHANGED <<life, home, item, save, told, cancelled, listening,
                   inbox, rhash, rset, clean, asked, restarts>>

\* stop_task: PUBLISH, which Redis hands to whoever is subscribed at the time.
\* Every listener gets it; those that do not hold the task drop it.
Publish(s) ==
    LET t == stopper[s].task
    IN  /\ stopper[s].pc = "publish"
        /\ inbox' = IF home[t] \in listening THEN inbox \cup {t} ELSE inbox
        /\ asked' = asked \cup {t}
        /\ stopper' = [stopper EXCEPT ![s].pc = "clean"]
        /\ clean' = [clean EXCEPT ![<<"stop", s>>] = Call(t, stopper[s].found)]
        /\ UNCHANGED <<life, home, item, save, told, cancelled, listening, rhash, rset, restarts>>

\* stop_task has cleaned Redis and returns: on to the next task of the list.
Stopped(s) ==
    LET rest == stopper[s].todo \ {stopper[s].task}
    IN  /\ stopper[s].pc = "clean"
        /\ clean[<<"stop", s>>].pc = "done"
        /\ clean' = [clean EXCEPT ![<<"stop", s>>] = IdleCall]
        /\ stopper' = [stopper EXCEPT ![s] =
                          IF rest = {} THEN IdleStop
                          ELSE [IdleStop EXCEPT !.pc = "find", !.todo = rest]]
        /\ UNCHANGED <<life, home, item, save, told, cancelled, listening, inbox, rhash, rset, asked, restarts>>

\* Mutant: asks Redis, which stop_task is cleaning, whether the task is known.
DeliverIfListed(t) ==
    /\ t \in inbox
    /\ inbox' = inbox \ {t}
    /\ cancelled' = IF life[t] \in {"running", "finishing"} /\ t \in rhash
                    THEN cancelled \cup {t} ELSE cancelled
    /\ UNCHANGED <<life, home, item, save, told, listening, rhash, rset, clean,
                   stopper, asked, restarts>>

\* redis_task_command_listener of the instance that holds the task: the task is
\* in its dictionary until its clean-up is over, and cancelling one that has
\* ended does nothing.
Deliver(t) ==
    /\ t \in inbox
    /\ inbox' = inbox \ {t}
    /\ cancelled' = IF life[t] \in {"running", "finishing"}
                    THEN cancelled \cup {t} ELSE cancelled
    /\ UNCHANGED <<life, home, item, save, told, listening, rhash, rset, clean,
                   stopper, asked, restarts>>

-----------------------------------------------------------------------------
(* Failures *)

\* pubsub.listen() raises outside the listener's try: nothing restarts it.
ListenerEnds(n) ==
    /\ ListenerMayFail
    /\ n \in listening
    /\ listening' = listening \ {n}
    /\ inbox' = inbox \ TasksOf(n)
    /\ UNCHANGED <<life, home, item, save, told, cancelled, rhash, rset,
                   clean, stopper, asked, restarts>>

\* An instance dies and starts again: its tasks, their clean-ups, what it had
\* not yet written and the requests `ss' it was serving are gone; Redis is not.
Restart(n, ss) ==
    LET mine == TasksOf(n)
    IN  /\ restarts < MaxRestarts
        /\ restarts' = restarts + 1
        /\ life' = [t \in Task |-> IF t \in mine THEN "lost" ELSE life[t]]
        /\ save' = [t \in Task |-> IF t \in mine /\ save[t] = "pending"
                                   THEN "lost" ELSE save[t]]
        /\ clean' = [c \in Cleaner |-> IF c[2] \in mine \cup ss
                                       THEN IdleCall ELSE clean[c]]
        /\ stopper' = [s \in Stopper |-> IF s \in ss THEN IdleStop ELSE stopper[s]]
        /\ inbox' = inbox \ mine
        /\ listening' = listening \cup {n}
        /\ UNCHANGED <<home, item, told, cancelled, rhash, rset, asked>>

-----------------------------------------------------------------------------
CleanUp(c) == Remove(c) \/ Count(c) \/ Drop(c)
Serve(s)   == (\E t \in Task : Find(s, t)) \/ Publish(s) \/ Stopped(s)

Next ==
    \/ \E n \in Instance, t \in Task, i \in Item : Create(n, t, i)
    \/ \E t \in Task : Save(t) \/ WindUp(t) \/ Check(t) \/ End(t)
    \/ \E c \in Cleaner : CleanUp(c)
    \/ \E s \in Stopper, i \in Item : StopItem(s, i)
    \/ \E s \in Stopper, t \in Task : StopOne(s, t)
    \/ \E s \in Stopper : Serve(s)
    \/ \E t \in Task : Deliver(t)
    \/ \E n \in Instance : ListenerEnds(n)
    \/ \E n \in Instance, ss \in SUBSET Stopper : Restart(n, ss)

Spec == Init /\ [][Next]_vars

-----------------------------------------------------------------------------
(* Properties *)

Over(t)   == life[t] = "ended"
Listed(t) == t \in rhash \/ \E i \in Item : t \in rset[i]

\* The item's set never lists a task the hash does not have under that item:
\* stop_task finds in the hash the item of every task stop_item_tasks gives it,
\* whatever clean-ups run at the same time.
SetWithinHash ==
    /\ TypeOK
    /\ \A i \in Item : \A t \in rset[i] : t \in rhash /\ item[t] = i

\* A task that runs and that create_task has registered stays in the list of
\* all tasks until someone publishes a stop for it: no clean-up made for
\* another task of the item, nor a restart elsewhere, unregisters it.
RunningListed ==
    \A t \in Task :
        life[t] = "running" /\ save[t] = "landed" /\ t \notin asked => t \in rhash

\* When all the tasks ever created for a chat have deregistered themselves and
\* then looked for others, one of them found none and told the clients that the
\* chat is idle: concurrent endings cannot each leave it to the other.
LastOneOut ==
    \A i \in Item :
        LET mine == {t \in Task : item[t] = i}
        IN  mine # {} /\ (\A t \in mine : Over(t) /\ told[t] # "nothing")
                => \E t \in mine : told[t] = "none remain"

\* A stop that has been published is not lost on the way: a task that still runs
\* has the command or the cancellation ahead of it, whichever instance runs it,
\* unless the listener of that instance has ended; and a task that has ended is
\* listed only as long as some clean-up has it still to remove, so that none of
\* the three leaves it to another.  A restart may take such a clean-up along.
\* ("PUBSUB: All instances check if they have this task, and stop if so")
StopHolds ==
    \A t \in asked :
        /\ life[t] = "running" => \/ t \in inbox \/ t \in cancelled
                                  \/ home[t] \notin listening
        /\ Over(t) /\ Listed(t) /\ restarts = 0 =>
              \E c \in Cleaner : clean[c].pc = "remove" /\ clean[c].task = t
=============================================================================
