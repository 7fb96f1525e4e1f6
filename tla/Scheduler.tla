------------------------------ MODULE Scheduler ------------------------------
(***************************************************************************)
(* The scheduler (utils/automations.py): a loop on every instance that     *)
(* claims the automations that are due and announces the calendar events   *)
(* that are near, while requests create, edit, pause, resume and delete    *)
(* both (routers/automations.py, models/automations.py, models/calendar.py).*)
(*                                                                         *)
(* A step is what one transaction does up to an await: reading rows,       *)
(* with their locks, or committing.  A commit writes the columns that      *)
(* differ from what its session read.  On PostgreSQL claim_due reads FOR   *)
(* UPDATE SKIP LOCKED; SQLite has no such lock.                            *)
(*                                                                         *)
(* The clock ticks in steps of the poll interval: every instance that is   *)
(* up makes one poll per tick, and may be late only with its               *)
(* announcements.  A recurrence rule is the set of its occurrences.        *)
(***************************************************************************)
EXTENDS Naturals, FiniteSets

CONSTANTS
    Deployment,    \* which database and which of the two features, to choose from
    Instance,      \* processes, each with its scheduler_worker_loop
    Worker,        \* slots for concurrent requests
    Automation,    \* automation ids
    Event,         \* calendar event ids
    Rule,          \* the recurrence rules requests may give, as sets of times
    Limit,         \* how many automations a poll claims (10)
    None,          \* no row, no next run, no value in the form
    MaxTime,       \* bound of the clock
    MaxRequests    \* bound: how many requests and crashes there are

ASSUME SchedulerAssumption ==
    /\ MaxTime \in Nat /\ Limit \in Nat \ {0} /\ None \notin Nat
    /\ \A r \in Rule : r \subseteq 1..MaxTime
    /\ \A d \in Deployment : /\ d.db \in {"postgresql", "sqlite"}
                             /\ d.on \subseteq {"automations", "calendar"}

VARIABLES
    deploy,     \* the deployment
    now,        \* the clock
    row,        \* automation -> None or its row
    event,      \* event -> None or its row
    loop,       \* instance -> where its poll is
    polled,     \* instances that have polled in this tick
    req,        \* worker -> the request it serves
    requests,   \* how many requests and crashes there have been
    turn,       \* history: automation -> how often next_run_at was changed
    taken,      \* history: automation -> the claims of it
    torn,       \* history: rows committed over a change not read, or left unmarked
    left,       \* history: announcements an instance had in hand at the last poll
                \* that could find the event, and died without
    dark,       \* history: ticks in which no instance polled
    since,      \* history: event -> when its start, alert or cancellation was set
    rung,       \* history: event -> the starts it has been announced for
    again       \* history: events put in hand again after their announcement

auto  == <<row, turn, taken>>
late  == <<left, dark>>
cal   == <<event, since, rung, again, late>>
sched == <<loop, polled>>
vars  == <<deploy, now, auto, cal, sched, req, requests, torn>>

Asleep == [pc |-> "asleep"]
Idle   == [op |-> "idle"]
Grace  == 1    \* SCHEDULER_POLL_INTERVAL + 5 s

\* next_run_ns: the first occurrence after t.
NextRun(r, t) ==
    LET later == {u \in r : u > t}
    IN  IF later = {} THEN None ELSE CHOOSE u \in later : \A v \in later : u <= v

\* What a session writes: the columns it has changed since it read the row.
Saved(cur, read, new) ==
    [c \in DOMAIN cur |-> IF new[c] = read[c] THEN cur[c] ELSE new[c]]

Due(a) == row[a] # None /\ row[a].active /\ row[a].next # None /\ row[a].next <= now

Locked(a) ==
    /\ deploy.db = "postgresql"
    /\ \E i \in Instance : loop[i].pc = "claim" /\ a \in DOMAIN loop[i].rows

Wrote(a, new) ==
    turn' = [turn EXCEPT ![a] = IF new.next # row[a].next THEN @ + 1 ELSE @]

-----------------------------------------------------------------------------
(* Requests about automations *)

Request(w, r) ==
    /\ req[w] = Idle
    /\ requests < MaxRequests
    /\ requests' = requests + 1
    /\ req' = [req EXCEPT ![w] = r]

\* One INSERT, with the next run computed before it.
CreateAutomation(a, r, active) ==
    /\ "automations" \in deploy.on
    /\ row[a] = None /\ turn[a] = 0
    /\ requests < MaxRequests
    /\ requests' = requests + 1
    /\ NextRun(r, now) # None
    /\ row' = [row EXCEPT ![a] = [rule |-> r, active |-> active, next |-> NextRun(r, now)]]
    /\ turn' = [turn EXCEPT ![a] = 1]
    /\ UNCHANGED <<deploy, now, taken, cal, sched, req, torn>>

\* The rule must have an occurrence to come.
AskUpdate(w, a, r, active) ==
    /\ row[a] # None
    /\ NextRun(r, now) # None
    /\ Request(w, [op |-> "update", id |-> a, seen |-> row[a], rule |-> r,
                   active |-> active, next |-> NextRun(r, now), row |-> None])
    /\ UNCHANGED <<deploy, now, auto, cal, sched, torn>>

\* The next run is computed from the rule as the router reads it.
AskToggle(w, a) ==
    /\ row[a] # None
    /\ Request(w, [op |-> "toggle", id |-> a, seen |-> row[a],
                   next |-> NextRun(row[a].rule, now), row |-> None])
    /\ UNCHANGED <<deploy, now, auto, cal, sched, torn>>

AskDelete(w, a) ==
    /\ row[a] # None
    /\ Request(w, [op |-> "delete", id |-> a, seen |-> row[a], row |-> None])
    /\ UNCHANGED <<deploy, now, auto, cal, sched, torn>>

\* The model reads the row again, in a session of its own.
FetchRow(w) ==
    /\ req[w].op \in {"update", "toggle", "delete"} /\ req[w].row = None
    /\ LET cur == row[req[w].id]
       IN  req' = [req EXCEPT ![w] = IF cur = None THEN Idle ELSE [@ EXCEPT !.row = cur]]
    /\ UNCHANGED <<deploy, now, auto, cal, sched, requests, torn>>

\* Mutant of Edited: the toggle has its two cases the wrong way round.
EditedSwapped(q) ==
    CASE q.op = "update" ->
             [rule |-> q.rule, next |-> q.next,
              active |-> IF q.active = None THEN q.row.active ELSE q.active]
      [] q.op = "toggle" ->
             [rule |-> q.row.rule, active |-> ~q.row.active,
              next |-> IF q.row.active THEN q.next ELSE None]

\* The row as the request leaves it.
Edited(q) ==
    CASE q.op = "update" ->
             [rule |-> q.rule, next |-> q.next,
              active |-> IF q.active = None THEN q.row.active ELSE q.active]
      [] q.op = "toggle" ->
             [rule |-> q.row.rule, active |-> ~q.row.active,
              next |-> IF q.row.active THEN None ELSE q.next]

\* Mutant of CommitRow: the lock of a claim is not waited for.
CommitRowUnlocked(w) ==
    /\ req[w].op \in {"update", "toggle", "delete"} /\ req[w].row # None
    /\ LET q   == req[w]
           cur == row[q.id]
           new == IF cur = None \/ q.op = "delete" THEN None
                  ELSE Saved(cur, q.row, Edited(q))
       IN  /\ row' = [row EXCEPT ![q.id] = new]
           /\ IF new = None THEN UNCHANGED turn ELSE Wrote(q.id, new)
           /\ torn' = IF new # None /\ (cur # q.seen \/ cur # q.row)
                      THEN torn \cup {q.id} ELSE torn
    /\ req' = [req EXCEPT ![w] = Idle]
    /\ UNCHANGED <<deploy, now, taken, cal, sched, requests>>

\* A row that has gone meanwhile is an error.
CommitRow(w) ==
    /\ req[w].op \in {"update", "toggle", "delete"} /\ req[w].row # None
    /\ ~Locked(req[w].id)
    /\ LET q   == req[w]
           cur == row[q.id]
           new == IF cur = None \/ q.op = "delete" THEN None
                  ELSE Saved(cur, q.row, Edited(q))
       IN  /\ row' = [row EXCEPT ![q.id] = new]
           /\ IF new = None THEN UNCHANGED turn ELSE Wrote(q.id, new)
           /\ torn' = IF new # None /\ (cur # q.seen \/ cur # q.row)
                      THEN torn \cup {q.id} ELSE torn
    /\ req' = [req EXCEPT ![w] = Idle]
    /\ UNCHANGED <<deploy, now, taken, cal, sched, requests>>

-----------------------------------------------------------------------------
(* Requests about calendar events *)

\* alert_minutes: -1, 0, or (the default too) some time before the start.
Alerts == {"never", "at the start", "ahead"}

CreateEvent(e, start, alert) ==
    /\ "calendar" \in deploy.on
    /\ event[e] = None /\ since[e] = None
    /\ requests < MaxRequests
    /\ requests' = requests + 1
    /\ event' = [event EXCEPT ![e] = [start |-> start, cancelled |-> FALSE,
                                      meta |-> [alert |-> alert, alerted |-> FALSE]]]
    /\ since' = [since EXCEPT ![e] = now]
    /\ UNCHANGED <<deploy, now, auto, rung, again, late, sched, req, torn>>

\* update_event_by_id reads the row; the form's meta is merged into the row's.
AskEvent(w, e, start, alert, cancelled) ==
    /\ event[e] # None
    /\ Request(w, [op |-> "event", id |-> e, row |-> event[e],
                   new |-> [start |-> start, cancelled |-> cancelled,
                            meta |-> [event[e].meta EXCEPT !.alert = alert]]])
    /\ UNCHANGED <<deploy, now, auto, cal, sched, torn>>

CommitEvent(w) ==
    /\ req[w].op = "event"
    /\ LET q   == req[w]
           cur == event[q.id]
       IN  IF cur = None THEN UNCHANGED <<event, since, torn>>
           ELSE /\ event' = [event EXCEPT ![q.id] = Saved(cur, q.row, q.new)]
                /\ since' = [since EXCEPT ![q.id] = now]
                /\ torn' = IF cur # q.row THEN torn \cup {q.id} ELSE torn
    /\ req' = [req EXCEPT ![w] = Idle]
    /\ UNCHANGED <<deploy, now, auto, rung, again, late, sched, requests>>

DeleteEvent(e) ==
    /\ event[e] # None
    /\ requests < MaxRequests
    /\ requests' = requests + 1
    /\ event' = [event EXCEPT ![e] = None]
    /\ UNCHANGED <<deploy, now, auto, since, rung, again, late, sched, req, torn>>

-----------------------------------------------------------------------------
(* The loop of an instance *)

Step(i, next) == loop' = [loop EXCEPT ![i] = next]

\* Mutant of Poll: rows that another claim has locked are read too.
PollLocked(i) ==
    /\ loop[i] = Asleep /\ i \notin polled
    /\ LET free == {a \in Automation :
                      "automations" \in deploy.on /\ Due(a)}
       IN  \E s \in SUBSET free :
             /\ Cardinality(s) = (IF Cardinality(free) < Limit THEN Cardinality(free) ELSE Limit)
             /\ \A a \in s, b \in free \ s : row[a].next <= row[b].next
             /\ Step(i, [pc |-> IF s = {} THEN "look" ELSE "claim",
                         rows |-> [a \in s |-> row[a]], turns |-> [a \in s |-> turn[a]]])
    /\ UNCHANGED <<deploy, now, auto, cal, polled, req, requests, torn>>

\* claim_due reads the rows that are due and not locked, the oldest first.
Poll(i) ==
    /\ loop[i] = Asleep /\ i \notin polled
    /\ LET free == {a \in Automation :
                      "automations" \in deploy.on /\ Due(a) /\ ~Locked(a)}
       IN  \E s \in SUBSET free :
             /\ Cardinality(s) = (IF Cardinality(free) < Limit THEN Cardinality(free) ELSE Limit)
             /\ \A a \in s, b \in free \ s : row[a].next <= row[b].next
             /\ Step(i, [pc |-> IF s = {} THEN "look" ELSE "claim",
                         rows |-> [a \in s |-> row[a]], turns |-> [a \in s |-> turn[a]]])
    /\ UNCHANGED <<deploy, now, auto, cal, polled, req, requests, torn>>

\* The commit, and the executions it starts.  A row that was deleted meanwhile
\* is an error: nothing is claimed.
Claim(i) ==
    /\ loop[i].pc = "claim"
    /\ LET rows == loop[i].rows
           new  == [a \in Automation |->
                      IF a \in DOMAIN rows /\ row[a] # None
                      THEN Saved(row[a], rows[a],
                                 [rows[a] EXCEPT !.next = NextRun(rows[a].rule, now)])
                      ELSE row[a]]
       IN  IF \E a \in DOMAIN rows : row[a] = None
           THEN UNCHANGED <<auto, torn>>
           ELSE /\ row' = new
                /\ turn' = [a \in Automation |->
                              IF row[a] # None /\ new[a].next # row[a].next THEN turn[a] + 1 ELSE turn[a]]
                /\ taken' = [a \in Automation |->
                               IF a \in DOMAIN rows
                               THEN taken[a] \cup {[turn |-> loop[i].turns[a], by |-> i]}
                               ELSE taken[a]]
                /\ torn' = torn \cup {a \in DOMAIN rows : row[a] # rows[a]}
    /\ Step(i, [pc |-> "look"])
    /\ UNCHANGED <<deploy, now, cal, polled, req, requests>>

\* Mutant of Upcoming: an event that has started is too late.
UpcomingNoGrace(t) ==
    {e \in Event :
        /\ event[e] # None /\ ~event[e].cancelled
        /\ event[e].start >= t
        /\ event[e].meta.alert # "never"
        /\ event[e].start <= t + (IF event[e].meta.alert = "ahead" THEN 1 ELSE 0)}

\* The last tick whose polls find the event.
LastPoll(e) == event[e].start + Grace

\* get_upcoming_events at time t.
Upcoming(t) ==
    {e \in Event :
        /\ event[e] # None /\ ~event[e].cancelled
        /\ event[e].start + Grace >= t
        /\ event[e].meta.alert # "never"
        /\ event[e].start <= t + (IF event[e].meta.alert = "ahead" THEN 1 ELSE 0)}

\* What a poll keeps of an event that it is to announce.
Copy(e) == [id |-> e, start |-> event[e].start]

\* It has been announced for that start, and nobody is about to mark it.
Settled(c) ==
    /\ c.start \in rung[c.id]
    /\ \A i \in Instance : ~(loop[i].pc = "mark" /\ loop[i].copy = c)

\* The events to announce: those whose copy has no alerted_at.
Look(i) ==
    /\ loop[i].pc = "look"
    /\ polled' = polled \cup {i}
    /\ LET found == {e \in Upcoming(now) : "calendar" \in deploy.on /\ ~event[e].meta.alerted}
           todo  == {Copy(e) : e \in found}
       IN  /\ Step(i, IF todo = {} THEN Asleep ELSE [pc |-> "alert", todo |-> todo])
           /\ again' = again \cup {e \in found : Settled(Copy(e))}
    /\ UNCHANGED <<deploy, now, auto, event, since, rung, late, req, requests, torn>>

\* The announcement, for the start in the copy; then the row is read again to
\* be marked.
Alert(i) ==
    /\ loop[i].pc = "alert"
    /\ IF loop[i].todo = {} THEN Step(i, Asleep) /\ UNCHANGED rung
       ELSE \E c \in loop[i].todo :
              /\ rung' = [rung EXCEPT ![c.id] = @ \cup {c.start}]
              /\ Step(i, [pc |-> "mark", todo |-> loop[i].todo \ {c}, copy |-> c,
                          row |-> event[c.id]])
    /\ UNCHANGED <<deploy, now, auto, event, since, again, late, polled, req, requests, torn>>

\* Mutant of Mark: the meta that is written is the one that was read.
MarkAsRead(i) ==
    /\ loop[i].pc = "mark"
    /\ Step(i, [pc |-> "alert", todo |-> loop[i].todo])
    /\ UNCHANGED <<deploy, now, auto, cal, polled, req, requests, torn>>

\* An event that has gone is not marked.
Mark(i) ==
    /\ loop[i].pc = "mark"
    /\ LET e   == loop[i].copy.id
           old == loop[i].row
       IN  IF event[e] = None \/ old = None THEN UNCHANGED <<event, torn>>
           ELSE /\ event' = [event EXCEPT ![e] = Saved(@, old, [old EXCEPT !.meta.alerted = TRUE])]
                /\ torn' = IF event[e] # old THEN torn \cup {e} ELSE torn
    /\ Step(i, [pc |-> "alert", todo |-> loop[i].todo])
    /\ UNCHANGED <<deploy, now, auto, since, rung, again, late, polled, req, requests>>

-----------------------------------------------------------------------------
(* Time and crashes *)

Tick ==
    /\ now < MaxTime
    /\ \A i \in Instance : loop[i].pc # "down" => i \in polled
    /\ now' = now + 1
    /\ polled' = {}
    /\ dark' = IF polled = {} THEN dark \cup {now} ELSE dark
    /\ UNCHANGED <<deploy, auto, event, since, rung, again, left, loop, req, requests, torn>>

\* What an instance has still to announce.
Announcing(i) == IF loop[i].pc \in {"alert", "mark"} THEN loop[i].todo ELSE {}

\* The transaction that was open, and its locks, are gone.
Crash(i) ==
    /\ requests < MaxRequests /\ loop[i].pc # "down"
    /\ requests' = requests + 1
    /\ Step(i, [pc |-> "down"])
    /\ torn' = IF loop[i].pc = "mark" THEN torn \cup {loop[i].copy.id} ELSE torn
    /\ left' = left \cup {c \in Announcing(i) : event[c.id] # None /\ LastPoll(c.id) <= now}
    /\ UNCHANGED <<deploy, now, auto, event, since, rung, again, dark, polled, req>>

Restart(i) ==
    /\ loop[i].pc = "down"
    /\ Step(i, Asleep)
    /\ UNCHANGED <<deploy, now, auto, cal, polled, req, requests, torn>>

Init ==
    /\ deploy \in Deployment
    /\ now = 0
    /\ row \in [Automation -> {None} \cup
                  (IF "automations" \in deploy.on
                   THEN {[rule |-> r, active |-> TRUE, next |-> NextRun(r, 0)] : r \in Rule}
                   ELSE {})]
    /\ event = [e \in Event |-> None]
    /\ loop = [i \in Instance |-> Asleep]
    /\ polled = {}
    /\ req = [w \in Worker |-> Idle]
    /\ requests = 0
    /\ turn = [a \in Automation |-> IF row[a] = None THEN 0 ELSE 1]
    /\ taken = [a \in Automation |-> {}]
    /\ torn = {} /\ left = {} /\ dark = {}
    /\ since = [e \in Event |-> None]
    /\ rung = [e \in Event |-> {}]
    /\ again = {}

Next ==
    \/ \E a \in Automation, r \in Rule, b \in BOOLEAN : CreateAutomation(a, r, b)
    \/ \E w \in Worker, a \in Automation, r \in Rule, b \in BOOLEAN \cup {None} :
           AskUpdate(w, a, r, b)
    \/ \E w \in Worker, a \in Automation : AskToggle(w, a) \/ AskDelete(w, a)
    \/ \E e \in Event, t \in 1..MaxTime, al \in Alerts : CreateEvent(e, t, al)
    \/ \E w \in Worker, e \in Event, t \in 1..MaxTime, al \in Alerts, c \in BOOLEAN :
           AskEvent(w, e, t, al, c)
    \/ \E e \in Event : DeleteEvent(e)
    \/ \E w \in Worker : FetchRow(w) \/ CommitRow(w) \/ CommitEvent(w)
    \/ \E i \in Instance : Poll(i) \/ Claim(i) \/ Look(i) \/ Alert(i) \/ Mark(i)
    \/ \E i \in Instance : Crash(i) \/ Restart(i)
    \/ Tick

Spec == Init /\ [][Next]_vars

-----------------------------------------------------------------------------
(* Properties *)

\* Every row is either absent or whole, and a request holds a row it has read.
TypeOK ==
    /\ now \in 0..MaxTime /\ polled \subseteq Instance
    /\ \A a \in Automation :
          row[a] # None => /\ row[a].rule \in Rule /\ row[a].active \in BOOLEAN
                           /\ row[a].next \in 1..MaxTime \cup {None}
    /\ \A e \in Event :
          event[e] # None => /\ event[e].start \in 1..MaxTime
                             /\ event[e].meta.alert \in Alerts
    /\ \A i \in Instance :
          loop[i].pc \in {"down", "asleep", "claim", "look", "alert", "mark"}

\* A run that is due is claimed by one instance, whichever poll at the same time
\* and whatever requests rewrite the row; on SQLite, without row locks, two may.
\* ("Advances next_run_at immediately so the row can never be double-claimed")
ClaimedOnce ==
    deploy.db = "postgresql" =>
        \A a \in Automation : \A c, d \in taken[a] : c.turn = d.turn => c = d

\* On PostgreSQL an automation is claimed while its row is there and active:
\* one that a request has paused or deleted does not start again.
NotWhenPaused ==
    [][\A a \in Automation :
          taken'[a] # taken[a] =>
              deploy.db = "sqlite" \/ (row[a] # None /\ row[a].active)]_vars

\* The next run of an active automation is due or the first occurrence of its
\* rule from now on, and none only when the rule has ended, unless two writers
\* of the row overlapped: no order of claims, edits and pauses skips an
\* occurrence or stops the schedule.
Scheduled ==
    /\ TypeOK
    /\ \A a \in Automation \ torn :
          row[a] # None /\ row[a].active =>
              \/ row[a].next = NextRun(row[a].rule, now)
              \/ row[a].next # None /\ row[a].next <= now

\* No poll can find e any more, which was to be announced for its start.
Awaited(e) ==
    /\ event[e] # None /\ ~event[e].cancelled /\ event[e].meta.alert # "never"
    /\ since[e] <= event[e].start /\ LastPoll(e) < now

\* It has been, or is about to be; or no instance polled in the last tick that
\* could find it, or one that found it then died.
Announced(e) ==
    \/ event[e].start \in rung[e]
    \/ \E i \in Instance : Copy(e) \in Announcing(i)
    \/ Copy(e) \in left
    \/ LastPoll(e) \in dark

\* Its alerted_at is that of an announcement for another start.
MarkedForAnother(e) ==
    event[e].meta.alerted /\ \E t \in rung[e] : t # event[e].start

\* An event that was to be announced has been, for the start it has now, or is
\* about to be, by the time it is too late for any poll to find it, however
\* polls, edits, marks and crashes interleave.  An instance that dies earlier
\* leaves it to the others.  The one exception the code makes is an event that
\* was moved after its announcement: it keeps its mark, see AlertedForStart.
\* ("'At time of event' alerts (alert_minutes=0) are not missed")
NotMissed == \A e \in Event : Awaited(e) => Announced(e) \/ MarkedForAnother(e)


\* Once an event has been announced for a start and its row marked, no poll of
\* any instance announces it for that start again, after restarts too; unless
\* the instance died before marking it, or an edit overlapped the marking and
\* wrote over its meta.  Polls that overlap may both announce it: each finds it
\* before the other has marked it.
\* ("De-duplication is DB-backed via meta.alerted_at -- survives restarts")
RungOnce == again \subseteq torn
=============================================================================
