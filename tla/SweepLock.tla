----------------------------- MODULE SweepLock ------------------------------
(***************************************************************************)
(* The Redis lock (class RedisLock, socket/utils.py) under the two         *)
(* periodic clean-ups that take it: periodic_session_pool_cleanup and      *)
(* periodic_usage_pool_cleanup (socket/main.py).                           *)
(*                                                                         *)
(* Each instance starts one clean-up when it boots.  The clean-up tries to *)
(* take the lock, the usage one MaxRetries more times after a delay, and   *)
(* then loops: renew, sweep, sleep.  The loop never takes the lock again.  *)
(* What a sweep does to the pool is the subject of SessionPool.            *)
(*                                                                         *)
(* Time is counted in ticks.  A Redis command takes no time: no tick falls *)
(* between two steps of a clean-up that is not asleep.                     *)
(***************************************************************************)
EXTENDS Naturals, FiniteSets

CONSTANTS
    Node,        \* application instances
    Unlocked,    \* the lock is free
    Ghost,       \* the lock_id of a process that is no more
    LockTtl,     \* WEBSOCKET_REDIS_LOCK_TIMEOUT
    SleepTime,   \* how long a clean-up sleeps between two sweeps
    MaxRetries,  \* how many times the first acquisition is tried again
    Delays,      \* the delays random.uniform may choose between two tries
    SweepMayFail,\* may a sweep raise, or the clean-up be cancelled?
    MaxDeaths    \* bound: how many times an instance dies

ASSUME LockAssumption ==
    /\ Unlocked \notin Node /\ Ghost \notin Node /\ Unlocked # Ghost
    /\ LockTtl \in Nat \ {0} /\ SleepTime \in Nat \ {0}
    /\ MaxRetries \in Nat /\ MaxDeaths \in Nat
    /\ Delays \subseteq Nat \ {0} /\ Delays # {}
    /\ SweepMayFail \in BOOLEAN

VARIABLES
    holder,   \* value of the lock's key: whose lock_id it is
    ttl,      \* ticks until the key expires
    pc,       \* instance -> where its clean-up is
    left,     \* instance -> ticks its clean-up still sleeps
    tries,    \* instance -> failed tries to take the lock
    delay,    \* instance -> retry_delay, chosen once
    failed,   \* history: has a sweep raised, or a clean-up been cancelled?
    deaths    \* how many crashes there have been

lockVars == <<holder, ttl, pc, left, tries, delay, failed, deaths>>

Loop   == {"renew", "sweep", "sleep"}
Active == {"acquire", "renew", "sweep", "get", "delete"}

LockTypeOK ==
    /\ holder \in Node \cup {Unlocked, Ghost}
    /\ ttl \in 0..LockTtl
    /\ pc \in [Node -> Active \cup {"off", "wait", "sleep", "over"}]
    /\ left \in [Node -> Nat]
    /\ tries \in [Node -> 0..MaxRetries]
    /\ delay \in [Node -> Delays \cup {0}]
    /\ failed \in BOOLEAN
    /\ deaths \in 0..MaxDeaths

LockInit ==
    /\ holder = Unlocked
    /\ ttl = 0
    /\ pc = [n \in Node |-> "off"]
    /\ left = [n \in Node |-> 0]
    /\ tries = [n \in Node |-> 0]
    /\ delay = [n \in Node |-> 0]
    /\ failed = FALSE
    /\ deaths = 0

Goto(n, p) == pc' = [pc EXCEPT ![n] = p]

\* SET with EX: the key is n's for LockTtl ticks.
Own(n) == holder' = n /\ ttl' = LockTtl

-----------------------------------------------------------------------------
\* The instance starts, and its clean-up with it.
Boot(n, d) ==
    /\ pc[n] = "off"
    /\ Goto(n, "acquire")
    /\ delay' = [delay EXCEPT ![n] = d]
    /\ UNCHANGED <<holder, ttl, left, tries, failed, deaths>>

\* Mutant: SET EX without NX.
AcquireAlways(n) ==
    /\ pc[n] = "acquire"
    /\ Own(n)
    /\ Goto(n, "renew")
    /\ UNCHANGED <<left, tries, delay, failed, deaths>>

\* aquire_lock: SET NX EX succeeds.
Acquire(n) ==
    /\ pc[n] = "acquire"
    /\ holder = Unlocked
    /\ Own(n)
    /\ Goto(n, "renew")
    /\ UNCHANGED <<left, tries, delay, failed, deaths>>

\* Mutant: one try more than the others.
RetryOnceMore(n) ==
    /\ pc[n] = "acquire"
    /\ holder # Unlocked
    /\ tries[n] <= MaxRetries
    /\ tries' = [tries EXCEPT ![n] = @ + 1]
    /\ left' = [left EXCEPT ![n] = delay[n]]
    /\ Goto(n, "wait")
    /\ UNCHANGED <<holder, ttl, delay, failed, deaths>>

\* Another node holds the lock: try again after the delay ...
Retry(n) ==
    /\ pc[n] = "acquire"
    /\ holder # Unlocked
    /\ tries[n] < MaxRetries
    /\ tries' = [tries EXCEPT ![n] = @ + 1]
    /\ left' = [left EXCEPT ![n] = delay[n]]
    /\ Goto(n, "wait")
    /\ UNCHANGED <<holder, ttl, delay, failed, deaths>>

\* ... or skip the clean-up for as long as this process lives.
GiveUp(n) ==
    /\ pc[n] = "acquire"
    /\ holder # Unlocked
    /\ tries[n] = MaxRetries
    /\ Goto(n, "over")
    /\ UNCHANGED <<holder, ttl, left, tries, delay, failed, deaths>>

\* renew_lock: SET XX EX, which succeeds if the key exists, whoever's it is.  If
\* the key has expired the clean-up returns or raises, through its finally.
Renew(n) ==
    /\ pc[n] = "renew"
    /\ IF holder = Unlocked
       THEN Goto(n, "get") /\ UNCHANGED <<holder, ttl>>
       ELSE Goto(n, "sweep") /\ Own(n)
    /\ UNCHANGED <<left, tries, delay, failed, deaths>>

\* One pass over the pool, and to sleep.
Sweep(n) ==
    /\ pc[n] = "sweep"
    /\ left' = [left EXCEPT ![n] = SleepTime]
    /\ Goto(n, "sleep")
    /\ UNCHANGED <<holder, ttl, tries, delay, failed, deaths>>

\* A sweep raises (an entry deleted under it), or the process is shut down.
Fail(n) ==
    /\ SweepMayFail
    /\ pc[n] \in {"sweep", "sleep"}
    /\ left' = [left EXCEPT ![n] = 0]
    /\ failed' = TRUE
    /\ Goto(n, "get")
    /\ UNCHANGED <<holder, ttl, tries, delay, deaths>>

\* release_lock: GET, and compare with one's own lock_id ...
Compare(n) ==
    /\ pc[n] = "get"
    /\ Goto(n, IF holder = n THEN "delete" ELSE "over")
    /\ UNCHANGED <<holder, ttl, left, tries, delay, failed, deaths>>

\* ... then DELETE, whatever the key holds by now.
Delete(n) ==
    /\ pc[n] = "delete"
    /\ holder' = Unlocked
    /\ ttl' = 0
    /\ Goto(n, "over")
    /\ UNCHANGED <<left, tries, delay, failed, deaths>>

\* Mutant: a clean-up that has waited for the lock does not try again.
WakeWithoutTrying(n) ==
    /\ pc[n] \in {"wait", "sleep"}
    /\ left[n] = 0
    /\ Goto(n, IF pc[n] = "wait" THEN "over" ELSE "renew")
    /\ UNCHANGED <<holder, ttl, left, tries, delay, failed, deaths>>

\* asyncio.sleep returns.
Wake(n) ==
    /\ pc[n] \in {"wait", "sleep"}
    /\ left[n] = 0
    /\ Goto(n, IF pc[n] = "wait" THEN "acquire" ELSE "renew")
    /\ UNCHANGED <<holder, ttl, left, tries, delay, failed, deaths>>

\* The process dies; when it boots again its lock_id is a new one.
Die(n) ==
    /\ deaths < MaxDeaths
    /\ pc[n] # "off"
    /\ deaths' = deaths + 1
    /\ Goto(n, "off")
    /\ left' = [left EXCEPT ![n] = 0]
    /\ tries' = [tries EXCEPT ![n] = 0]
    /\ delay' = [delay EXCEPT ![n] = 0]
    /\ holder' = IF holder = n THEN Ghost ELSE holder
    /\ UNCHANGED <<ttl, failed>>

\* One tick passes: sleepers come closer to waking, and the key to expiring.
Tick ==
    /\ \A n \in Node : /\ pc[n] \notin Active
                       /\ pc[n] \in {"wait", "sleep"} => left[n] > 0
    /\ left' = [n \in Node |-> IF left[n] > 0 THEN left[n] - 1 ELSE 0]
    /\ ttl' = IF ttl > 0 THEN ttl - 1 ELSE 0
    /\ holder' = IF ttl <= 1 THEN Unlocked ELSE holder
    /\ UNCHANGED <<pc, tries, delay, failed, deaths>>

-----------------------------------------------------------------------------
CleanUp(n) ==
    \/ Acquire(n) \/ Retry(n) \/ GiveUp(n) \/ Renew(n) \/ Sweep(n)
    \/ Compare(n) \/ Delete(n) \/ Wake(n)

LockNext ==
    \/ \E n \in Node, d \in Delays : Boot(n, d)
    \/ \E n \in Node : CleanUp(n) \/ Fail(n) \/ Die(n)
    \/ Tick

\* Redis answers, time passes, and a process that died is started again.
LockFairness ==
    /\ WF_lockVars(Tick)
    /\ \A n \in Node : /\ WF_lockVars(CleanUp(n))
                       /\ WF_lockVars(\E d \in Delays : Boot(n, d))

LockSpec == LockInit /\ [][LockNext]_lockVars
FairLockSpec == LockSpec /\ LockFairness

-----------------------------------------------------------------------------
(* Properties *)

Sweeping(n) == pc[n] \in Loop

\* The lock excludes: two instances never run the clean-up loop at a time, even
\* though renewing does not look at whose lock it renews.  It is so as long as
\* the lock outlives the sleep between two sweeps.
AtMostOneSweeper ==
    \A m, n \in Node : Sweeping(m) /\ Sweeping(n) => m = n

\* Unless a sweep raises, again and again some instance sweeps, whichever of them
\* crash: the retries of one that restarts last until the lock of its former
\* life has expired.
SweptForEver == []<>(\E n \in Node : failed \/ pc[n] = "sweep")

=============================================================================
