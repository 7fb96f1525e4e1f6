----------------------------- MODULE SessionPool -----------------------------
(***************************************************************************)
(* SESSION_POOL and USAGE_POOL (socket/main.py): the Socket.IO sessions    *)
(* that are logged in, and the models they are using, as two Redis hashes  *)
(* shared by all instances.                                                *)
(*                                                                         *)
(* The hashes are used through a synchronous client, so a handler keeps    *)
(* its own instance busy from one command to the next; the commands of     *)
(* different instances interleave.  `act' is what an instance has still to *)
(* send, with what it has read.                                            *)
(*                                                                         *)
(* The clean-ups are tasks of their instances, under the locks of          *)
(* SweepLock.  The session clean-up may run on several instances, since    *)
(* its lock expires while it sleeps, and ends where it cannot renew it;    *)
(* the usage clean-up renews its lock in time and runs on one.             *)
(*                                                                         *)
(* last_seen_at is either recent or older than the limit of its clean-up.  *)
(* A usage event is stamped with its number, and the stamps up to `gone'   *)
(* are older than TIMEOUT_DURATION.                                        *)
(***************************************************************************)
EXTENDS Naturals, FiniteSets

CONSTANTS
    Session,     \* Socket.IO session ids
    Instance,    \* application processes
    Model,       \* model ids
    Home,        \* session -> the instance it is connected to
    Sweeper,     \* instances that have got the lock of the session clean-up
    Keeper,      \* the instance that took the lock of the usage clean-up
    MaxUses,     \* bound: how many usage events there are
    MaxLate      \* bound: how many live sessions miss their heartbeats

ASSUME PoolAssumption ==
    Home \in [Session -> Instance] /\ Sweeper \subseteq Instance /\ Keeper \in Instance

VARIABLES
    socket,    \* session -> is its connection new, open or closed
    joining,   \* sessions whose token has been checked and account read
    pool,      \* SESSION_POOL: session -> is its last_seen_at recent
    uses,      \* USAGE_POOL: model -> session -> updated_at
    act,       \* instance -> the rest of the handler it is running
    sweepers,  \* instances whose session clean-up is running
    expiring,  \* is the usage clean-up running
    late,      \* history: live sessions that went without heartbeat
    used,      \* usage events so far
    gone       \* those that are older than TIMEOUT_DURATION

vars == <<socket, joining, pool, uses, act, sweepers, expiring, late, used, gone>>
cleanUps == <<sweepers, expiring>>

Nothing == [x \in {} |-> {}]
Idle == <<"idle">>
With(f, k, v) == [x \in DOMAIN f \cup {k} |-> IF x = k THEN v ELSE f[x]]
Without(f, k) == [x \in DOMAIN f \ {k} |-> f[x]]

Free(i) == act[i] = Idle
Do(i, next) == act' = [act EXCEPT ![i] = next]
Doing(i, name) == act[i][1] = name

-----------------------------------------------------------------------------
(* Sessions *)

Connect(s) ==
    /\ socket[s] = "new"
    /\ socket' = [socket EXCEPT ![s] = "open"]
    /\ joining' = joining \cup {s}
    /\ UNCHANGED <<pool, uses, act, cleanUps, late, used, gone>>

\* The end of connect and of user_join, which wait for the account.
Join(s) ==
    /\ s \in joining
    /\ Free(Home[s])
    /\ pool' = With(pool, s, TRUE)
    /\ joining' = joining \ {s}
    /\ UNCHANGED <<socket, uses, act, cleanUps, late, used, gone>>

\* heartbeat reads the entry, and writes it with a new last_seen_at.
Heartbeat(s) ==
    /\ socket[s] = "open" /\ s \in DOMAIN pool
    /\ Free(Home[s])
    /\ Do(Home[s], <<"beat", s>>)
    /\ UNCHANGED <<socket, joining, pool, uses, cleanUps, late, used, gone>>

Beat(i) ==
    /\ Doing(i, "beat")
    /\ pool' = With(pool, act[i][2], TRUE)
    /\ Do(i, Idle)
    /\ UNCHANGED <<socket, joining, uses, cleanUps, late, used, gone>>

\* usage: is the session known, is the model in use, by whom; then write.
Usage(s, m) ==
    /\ socket[s] = "open" /\ s \in DOMAIN pool
    /\ Free(Home[s])
    /\ used < MaxUses
    /\ used' = used + 1
    /\ Do(Home[s], <<"inuse", s, m, used + 1>>)
    /\ UNCHANGED <<socket, joining, pool, uses, cleanUps, late, gone>>

InUse(i) ==
    /\ Doing(i, "inuse")
    /\ LET m == act[i][3]
       IN  Do(i, IF m \in DOMAIN uses THEN <<"users", act[i][2], m, act[i][4]>>
                                      ELSE <<"use", act[i][2], m, act[i][4], Nothing>>)
    /\ UNCHANGED <<socket, joining, pool, uses, cleanUps, late, used, gone>>

\* A model that has gone meanwhile is a KeyError.
Users(i) ==
    /\ Doing(i, "users")
    /\ LET m == act[i][3]
       IN  Do(i, IF m \in DOMAIN uses THEN <<"use", act[i][2], m, act[i][4], uses[m]>>
                                      ELSE Idle)
    /\ UNCHANGED <<socket, joining, pool, uses, cleanUps, late, used, gone>>

Use(i) ==
    /\ Doing(i, "use")
    /\ uses' = With(uses, act[i][3], With(act[i][5], act[i][2], act[i][4]))
    /\ Do(i, Idle)
    /\ UNCHANGED <<socket, joining, pool, cleanUps, late, used, gone>>

\* disconnect does nothing for a session that is not in the pool.
Disconnect(s) ==
    /\ socket[s] = "open"
    /\ Free(Home[s])
    /\ socket' = [socket EXCEPT ![s] = "closed"]
    /\ IF s \in DOMAIN pool THEN Do(Home[s], <<"get", s>>) ELSE UNCHANGED act
    /\ UNCHANGED <<joining, pool, uses, cleanUps, late, used, gone>>

\* Reading an entry that has gone raises, and so does deleting it.
Get(i) ==
    /\ Doing(i, "get")
    /\ Do(i, IF act[i][2] \in DOMAIN pool THEN <<"del", act[i][2]>> ELSE Idle)
    /\ UNCHANGED <<socket, joining, pool, uses, cleanUps, late, used, gone>>

Del(i) ==
    /\ Doing(i, "del")
    /\ LET s == act[i][2]
       IN  /\ pool' = Without(pool, s)
           /\ Do(i, IF s \in DOMAIN pool THEN <<"models", s>> ELSE Idle)
    /\ UNCHANGED <<socket, joining, uses, cleanUps, late, used, gone>>

\* The models in use, then model by model the sessions that use it.
Models(i) ==
    /\ Doing(i, "models")
    /\ Do(i, <<"leave", act[i][2], DOMAIN uses>>)
    /\ UNCHANGED <<socket, joining, pool, uses, cleanUps, late, used, gone>>

Leave(i) ==
    /\ Doing(i, "leave")
    /\ LET s  == act[i][2]
           ms == act[i][3]
       IN  IF ms = {} THEN Do(i, Idle)
           ELSE \E m \in ms :
                  Do(i, IF m \in DOMAIN uses /\ s \in DOMAIN uses[m]
                        THEN <<"left", s, ms \ {m}, m, Without(uses[m], s)>>
                        ELSE <<"leave", s, ms \ {m}>>)
    /\ UNCHANGED <<socket, joining, pool, uses, cleanUps, late, used, gone>>

\* Mutant of Left: what is left is written back, be it empty.
LeftEmpty(i) ==
    /\ Doing(i, "left")
    /\ uses' = With(uses, act[i][4], act[i][5])
    /\ Do(i, <<"leave", act[i][2], act[i][3]>>)
    /\ UNCHANGED <<socket, joining, pool, cleanUps, late, used, gone>>

\* An empty entry is deleted; a KeyError ends the handler.
Left(i) ==
    /\ Doing(i, "left")
    /\ LET m     == act[i][4]
           conns == act[i][5]
           next  == <<"leave", act[i][2], act[i][3]>>
       IN  IF DOMAIN conns = {}
           THEN uses' = Without(uses, m) /\ Do(i, IF m \in DOMAIN uses THEN next ELSE Idle)
           ELSE uses' = With(uses, m, conns) /\ Do(i, next)
    /\ UNCHANGED <<socket, joining, pool, cleanUps, late, used, gone>>

-----------------------------------------------------------------------------
(* Clean-ups *)

\* Mutant of SweepSessions: only the instance's own sessions are visited.
SweepOwnSessions(i) ==
    /\ i \in sweepers
    /\ Free(i) /\ DOMAIN pool # {}
    /\ Do(i, <<"check", {s \in DOMAIN pool : Home[s] = i}>>)
    /\ UNCHANGED <<socket, joining, pool, uses, cleanUps, late, used, gone>>

\* periodic_session_pool_cleanup: the keys, then entry by entry.
SweepSessions(i) ==
    /\ i \in sweepers
    /\ Free(i) /\ DOMAIN pool # {}
    /\ Do(i, <<"check", DOMAIN pool>>)
    /\ UNCHANGED <<socket, joining, pool, uses, cleanUps, late, used, gone>>

\* Mutant of Check: an entry is too old when it is there.
CheckAny(i) ==
    /\ Doing(i, "check")
    /\ IF act[i][2] = {} THEN Do(i, Idle)
       ELSE \E s \in act[i][2] :
              Do(i, IF s \in DOMAIN pool THEN <<"reap", act[i][2] \ {s}, s>>
                    ELSE <<"check", act[i][2] \ {s}>>)
    /\ UNCHANGED <<socket, joining, pool, uses, cleanUps, late, used, gone>>

Check(i) ==
    /\ Doing(i, "check")
    /\ IF act[i][2] = {} THEN Do(i, Idle)
       ELSE \E s \in act[i][2] :
              Do(i, IF s \in DOMAIN pool /\ ~pool[s] THEN <<"reap", act[i][2] \ {s}, s>>
                    ELSE <<"check", act[i][2] \ {s}>>)
    /\ UNCHANGED <<socket, joining, pool, uses, cleanUps, late, used, gone>>

\* The deletion goes by what was read; if it raises the clean-up ends for good.
Reap(i) ==
    /\ Doing(i, "reap")
    /\ LET s == act[i][3]
       IN  /\ pool' = Without(pool, s)
           /\ IF s \in DOMAIN pool
              THEN Do(i, <<"check", act[i][2]>>) /\ UNCHANGED sweepers
              ELSE Do(i, Idle) /\ sweepers' = sweepers \ {i}
    /\ UNCHANGED <<socket, joining, uses, expiring, late, used, gone>>

\* Between two sweeps: the lock is no longer there to be renewed, and the
\* clean-up returns.
Quit(i) ==
    /\ i \in sweepers /\ Free(i)
    /\ sweepers' = sweepers \ {i}
    /\ UNCHANGED <<socket, joining, pool, uses, act, expiring, late, used, gone>>

\* periodic_usage_pool_cleanup: everything is read, then model by model the
\* recent entries are written back.
SweepUses ==
    /\ expiring
    /\ Free(Keeper) /\ DOMAIN uses # {}
    /\ Do(Keeper, <<"expire", uses, gone>>)
    /\ UNCHANGED <<socket, joining, pool, uses, cleanUps, late, used, gone>>

\* Mutant of Expire: a model all of whose sessions have expired is left alone.
ExpireSome(i) ==
    /\ Doing(i, "expire")
    /\ IF act[i][2] = Nothing THEN Do(i, Idle) /\ UNCHANGED <<uses, expiring>>
       ELSE \E m \in DOMAIN act[i][2] :
              LET conns  == act[i][2][m]
                  recent == [s \in {t \in DOMAIN conns : conns[t] > act[i][3]} |-> conns[s]]
              IN  /\ uses' = IF recent = Nothing THEN uses ELSE With(uses, m, recent)
                  /\ Do(i, <<"expire", Without(act[i][2], m), act[i][3]>>) /\ UNCHANGED expiring
    /\ UNCHANGED <<socket, joining, pool, sweepers, late, used, gone>>

Expire(i) ==
    /\ Doing(i, "expire")
    /\ IF act[i][2] = Nothing THEN Do(i, Idle) /\ UNCHANGED <<uses, expiring>>
       ELSE \E m \in DOMAIN act[i][2] :
              LET conns  == act[i][2][m]
                  recent == [s \in {t \in DOMAIN conns : conns[t] > act[i][3]} |-> conns[s]]
              IN  IF recent = Nothing /\ m \notin DOMAIN uses
                  THEN Do(i, Idle) /\ expiring' = FALSE /\ UNCHANGED uses
                  ELSE /\ uses' = IF recent = Nothing THEN Without(uses, m)
                                                      ELSE With(uses, m, recent)
                       /\ Do(i, <<"expire", Without(act[i][2], m), act[i][3]>>) /\ UNCHANGED expiring
    /\ UNCHANGED <<socket, joining, pool, sweepers, late, used, gone>>

-----------------------------------------------------------------------------
(* Time and crashes *)

\* SESSION_POOL_TIMEOUT has passed since s was seen.
GoOld(s) ==
    /\ s \in DOMAIN pool /\ pool[s]
    /\ socket[s] = "open" => s \notin late /\ Cardinality(late) < MaxLate
    /\ pool' = [pool EXCEPT ![s] = FALSE]
    /\ late' = IF socket[s] = "open" THEN late \cup {s} ELSE late
    /\ UNCHANGED <<socket, joining, uses, act, cleanUps, used, gone>>

\* TIMEOUT_DURATION has passed since one more usage event.
UseGoesOld ==
    /\ gone < used
    /\ gone' = gone + 1
    /\ UNCHANGED <<socket, joining, pool, uses, act, cleanUps, late, used>>

\* An instance dies with its sessions and clean-ups: nobody handles the
\* disconnection.
Crash(i) ==
    /\ \E s \in Session : Home[s] = i /\ socket[s] = "open"
    /\ socket' = [s \in Session |-> IF Home[s] = i /\ socket[s] = "open"
                                    THEN "closed" ELSE socket[s]]
    /\ joining' = {s \in joining : Home[s] # i}
    /\ Do(i, Idle)
    /\ sweepers' = sweepers \ {i}
    /\ expiring' = (expiring /\ i # Keeper)
    /\ UNCHANGED <<pool, uses, late, used, gone>>

Init ==
    /\ socket = [s \in Session |-> "new"]
    /\ joining = {}
    /\ pool = Nothing
    /\ uses = Nothing
    /\ act = [i \in Instance |-> Idle]
    /\ sweepers = Sweeper
    /\ expiring = TRUE
    /\ late = {}
    /\ used = 0
    /\ gone = 0

Command(i) ==
    \/ Beat(i) \/ InUse(i) \/ Users(i) \/ Use(i)
    \/ Get(i) \/ Del(i) \/ Models(i) \/ Leave(i) \/ Left(i)
    \/ Check(i) \/ Reap(i) \/ Expire(i)

Next ==
    \/ \E s \in Session : Connect(s) \/ Join(s) \/ Heartbeat(s) \/ Disconnect(s) \/ GoOld(s)
    \/ \E s \in Session, m \in Model : Usage(s, m)
    \/ UseGoesOld
    \/ \E i \in Instance : Command(i) \/ Crash(i) \/ SweepSessions(i) \/ Quit(i)
    \/ SweepUses

\* Redis answers, time passes, and an event loop gets round to every task
\* that has not ended: a clean-up sweeps again only while its loop goes on,
\* which it need not.
Fairness ==
    /\ \A i \in Instance : WF_vars(Command(i)) /\ SF_vars(SweepSessions(i))
    /\ \A s \in Session : SF_vars(Join(s)) /\ WF_vars(socket[s] = "closed" /\ GoOld(s))
    /\ WF_vars(UseGoesOld)
    /\ SF_vars(SweepUses)

Spec == Init /\ [][Next]_vars /\ Fairness

-----------------------------------------------------------------------------
(* Properties *)

\* The pools hold known sessions, and no model without a session.
TypeOK ==
    /\ socket \in [Session -> {"new", "open", "closed"}]
    /\ joining \subseteq Session
    /\ DOMAIN pool \subseteq Session
    /\ \A s \in DOMAIN pool : socket[s] # "new" /\ pool[s] \in BOOLEAN
    /\ \A m \in DOMAIN uses : m \in Model /\ DOMAIN uses[m] \subseteq Session

\* A model that is listed as in use has a session that uses it, whoever
\* rewrote the list from whatever copy.  (get_models_in_use)
NoEmptyUse ==
    /\ TypeOK
    /\ \A m \in DOMAIN uses : uses[m] # Nothing

\* A session that is open and has not missed its heartbeats is not reaped: its
\* entry goes only by its own disconnection.
TimelyStays ==
    [][\A s \in DOMAIN pool \ DOMAIN pool' : socket[s] = "closed" \/ s \in late]_vars

\* The entry of a connection that has closed goes in the end, also if its
\* instance died, it was never told, or the login finished after the close:
\* on whichever instance a clean-up goes on, it reaches the sessions of all.
\* Nothing is promised once the last one has ended, by a crash, by a KeyError
\* or for want of its lock; with the default timing that is after one sweep
\* (SweepLock, SweptForEver).
Reaped ==
    \A s \in Session : socket[s] = "closed" ~> s \notin DOMAIN pool \/ sweepers = {}

\* Once usage is no longer reported, every model is taken off the list of
\* models in use, though entries were written back from old copies, unless
\* a KeyError or a crash has ended the clean-up.
UsesEnd ==
    \A m \in Model : (used = MaxUses) ~> m \notin DOMAIN uses \/ ~expiring
=============================================================================
