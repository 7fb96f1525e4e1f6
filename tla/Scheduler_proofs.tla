--------------------------- MODULE Scheduler_proofs ---------------------------
(***************************************************************************)
(* What the scheduler promises, for any number of instances, requests,     *)
(* automations, events, crashes and any poll limit.  PostgreSQL's row locks*)
(* see to it that a run that is due is claimed once, and only of an        *)
(* automation that is active.  On either database the next run of an active*)
(* row stays on its schedule, every event is announced in time, and by an  *)
(* instance once, where writers of a row did not overlap.                  *)
(***************************************************************************)
EXTENDS Scheduler, WellFoundedInduction, TLAPS

-----------------------------------------------------------------------------
(* The inductive invariant *)

Whole(r) == /\ DOMAIN r = {"rule", "active", "next"}
            /\ r.rule \in Rule /\ r.next \in Nat \cup {None}

Rows == /\ now \in Nat
        /\ row = [a \in Automation |-> row[a]]
        /\ \A a \in Automation : row[a] = None \/ Whole(row[a])

\* A request brings a rule, a next run and the row it has read.
Asked(q) ==
    q.op \in {"update", "toggle", "delete"} =>
        /\ q.id \in Automation
        /\ q.op # "delete" => q.next \in Nat \cup {None}
        /\ q.op = "update" => q.rule \in Rule
        /\ q.row = None \/ Whole(q.row)

Requests == /\ req = [w \in Worker |-> req[w]]
            /\ \A w \in Worker : Asked(req[w])

\* A claim belongs to a value of next_run_at that is no more.
Taken == /\ turn \in [Automation -> Nat]
         /\ taken = [a \in Automation |-> taken[a]]
         /\ \A a \in Automation : /\ \A c \in taken[a] : c.turn \in Nat /\ c.turn < turn[a]
                                  /\ \A c, d \in taken[a] : c.turn = d.turn => c = d

\* What an instance is about to claim is as it read it, due, and locked: no
\* other instance has it.
Holds(i, a) == loop[i].pc = "claim" /\ a \in DOMAIN loop[i].rows
Claims ==
    /\ loop = [i \in Instance |-> loop[i]]
    /\ \A i \in Instance : \A a : Holds(i, a) =>
          /\ a \in Automation
          /\ row[a] = loop[i].rows[a] /\ loop[i].turns[a] = turn[a]
          /\ row[a] # None /\ row[a].active
          /\ row[a].next # None /\ row[a].next <= now
    /\ \A i, j \in Instance : \A a : Holds(i, a) /\ Holds(j, a) => i = j

LockedInv == deploy.db = "postgresql" => Rows /\ Requests /\ Taken /\ Claims

-----------------------------------------------------------------------------
(* Rules and rows *)

\* The next occurrence of a rule lies in the future, if there is one.
LEMMA NextRunLater ==
    ASSUME NEW r \in Rule, NEW t \in Nat
    PROVE  NextRun(r, t) = None \/ (NextRun(r, t) \in Nat /\ NextRun(r, t) > t)
<1> DEFINE later == {u \in r : u > t}
<1>1. later \subseteq Nat
  BY SchedulerAssumption DEF SchedulerAssumption
<1>2. CASE later = {}
  BY <1>2 DEF NextRun
<1>3. CASE later # {}
  <2>1. \E u \in later : \A v \in later : u <= v
    <3>1. PICK u \in later : \A v \in later : ~(<<v, u>> \in OpToRel(<, Nat))
      BY <1>1, <1>3, NatLessThanWellFounded, WFMin
    <3>2. \A v \in later : ~(v < u)
      BY <1>1, <3>1 DEF OpToRel
    <3> QED BY <1>1, <3>2
  <2>2. NextRun(r, t) \in later
    BY <1>3, <2>1 DEF NextRun
  <2> QED BY <1>1, <2>2
<1> QED BY <1>2, <1>3

LEMMA SavedRow ==
    ASSUME NEW cur, NEW read, NEW new, Whole(cur), Whole(new)
    PROVE  Whole(Saved(cur, read, new))
BY DEF Saved, Whole

LEMMA SavedNext ==
    ASSUME NEW cur, NEW new, Whole(cur), Whole(new)
    PROVE  Saved(cur, cur, new).next = new.next
BY DEF Saved, Whole

LEMMA EditedRow ==
    ASSUME NEW q, Asked(q), q.op \in {"update", "toggle"}, q.row # None
    PROVE  Whole(Edited(q))
BY DEF Edited, Whole, Asked

LEMMA NextRow ==
    ASSUME NEW r, Whole(r), NEW n \in Nat \cup {None}
    PROVE  Whole([r EXCEPT !.next = n]) /\ [r EXCEPT !.next = n].next = n
BY DEF Whole

LEMMA NewRow ==
    ASSUME NEW r \in Rule, NEW n \in Nat \cup {None}, NEW b
    PROVE  Whole([rule |-> r, active |-> b, next |-> n])
BY DEF Whole

LEMMA InitLocked == Init => LockedInv
<1> SUFFICES ASSUME Init PROVE LockedInv
  OBVIOUS
<1>1. \A r \in Rule : NextRun(r, 0) \in Nat \cup {None}
  BY NextRunLater
<1>2. ASSUME NEW a \in Automation, row[a] # None PROVE Whole(row[a])
  <2>1. PICK r \in Rule : row[a] = [rule |-> r, active |-> TRUE, next |-> NextRun(r, 0)]
    BY <1>2 DEF Init
  <2> QED BY <1>1, <2>1, NewRow
<1>3. Rows
  BY <1>2 DEF Init, Rows
<1>4. Requests
  BY DEF Init, Requests, Idle, Asked
<1>5. Taken
  BY DEF Init, Taken
<1>6. Claims
  BY DEF Init, Claims, Holds, Asleep
<1> QED BY <1>3, <1>4, <1>5, <1>6 DEF LockedInv

-----------------------------------------------------------------------------
(* Steps that write no row *)

\* Time may pass and polls may end; what is held stays held.
LEMMA RowsAlone ==
    ASSUME Rows, Taken, Claims, UNCHANGED <<row, turn, taken>>,
           now' \in Nat, now <= now', loop' = [i \in Instance |-> loop'[i]],
           \A i \in Instance : loop'[i] = loop[i] \/ loop'[i].pc # "claim"
    PROVE  Rows' /\ Taken' /\ Claims'
<1>1. Rows' /\ Taken'
  BY DEF Rows, Taken
<1>2. \A i \in Instance : \A a : Holds(i, a)' => Holds(i, a) /\ loop'[i] = loop[i]
  BY DEF Holds
<1>3. ASSUME NEW i \in Instance, NEW a, Holds(i, a)'
      PROVE  /\ a \in Automation /\ row'[a] = loop'[i].rows[a] /\ loop'[i].turns[a] = turn'[a]
             /\ row'[a] # None /\ row'[a].active
             /\ row'[a].next # None /\ row'[a].next <= now'
  <2>1. /\ a \in Automation /\ row[a] = loop[i].rows[a] /\ loop[i].turns[a] = turn[a]
        /\ row[a] # None /\ row[a].active
        /\ row[a].next # None /\ row[a].next <= now
        /\ loop'[i] = loop[i]
    BY <1>2, <1>3 DEF Claims
  <2>2. row[a].next \in Nat
    BY <2>1 DEF Rows, Whole
  <2>3. row[a].next <= now'
    BY <2>1, <2>2 DEF Rows
  <2> QED BY <2>1, <2>3
<1>4. Claims'
  BY <1>2, <1>3 DEF Claims
<1> QED BY <1>1, <1>4

LEMMA LoopsKeep ==
    ASSUME LockedInv, deploy.db = "postgresql",
           \/ \E i \in Instance : Look(i) \/ Alert(i) \/ Mark(i) \/ Crash(i) \/ Restart(i)
           \/ Tick
           \/ \E e \in Event, t \in 1..MaxTime, al \in Alerts : CreateEvent(e, t, al)
           \/ \E e \in Event : DeleteEvent(e)
    PROVE  LockedInv'
<1> USE DEF LockedInv
<1>1. UNCHANGED <<row, turn, taken, req, deploy>>
  BY DEF Look, Alert, Mark, Crash, Restart, Tick, CreateEvent, DeleteEvent, auto
<1>2. now' \in Nat /\ now <= now'
  <2>1. now' = now \/ now' = now + 1
    BY DEF Look, Alert, Mark, Crash, Restart, Tick, CreateEvent, DeleteEvent
  <2> QED BY <2>1 DEF Rows
<1>3. /\ loop' = [i \in Instance |-> loop'[i]]
      /\ \A i \in Instance : loop'[i] = loop[i] \/ loop'[i].pc # "claim"
  <2>1. CASE UNCHANGED loop
    BY <2>1 DEF Claims
  <2>2. ASSUME NEW i \in Instance, NEW l, l.pc # "claim", Step(i, l)
        PROVE  /\ loop' = [j \in Instance |-> loop'[j]]
               /\ \A j \in Instance : loop'[j] = loop[j] \/ loop'[j].pc # "claim"
    BY <2>2 DEF Claims, Step
  <2>3. Asleep.pc # "claim"
    BY DEF Asleep
  <2>4. CASE \E i \in Instance : Look(i)
    <3>1. PICK i \in Instance : Look(i)
      BY <2>4
    <3>2. \E todo : Step(i, Asleep) \/ Step(i, [pc |-> "alert", todo |-> todo])
      BY <3>1 DEF Look
    <3> QED BY <2>2, <2>3, <3>2
  <2>5. CASE \E i \in Instance : Alert(i)
    <3>1. PICK i \in Instance : Alert(i)
      BY <2>5
    <3>2. \E todo, e, r : \/ Step(i, Asleep)
                          \/ Step(i, [pc |-> "mark", todo |-> todo, copy |-> e, row |-> r])
      BY <3>1 DEF Alert
    <3> QED BY <2>2, <2>3, <3>2
  <2>6. CASE \E i \in Instance : Mark(i)
    BY <2>2, <2>6 DEF Mark
  <2>7. CASE \E i \in Instance : Crash(i)
    BY <2>2, <2>7 DEF Crash
  <2>8. CASE \E i \in Instance : Restart(i)
    BY <2>2, <2>3, <2>8 DEF Restart
  <2>9. CASE \/ Tick
             \/ \E e \in Event, t \in 1..MaxTime, al \in Alerts : CreateEvent(e, t, al)
             \/ \E e \in Event : DeleteEvent(e)
    BY <2>1, <2>9 DEF Tick, CreateEvent, DeleteEvent, sched
  <2> QED BY <2>4, <2>5, <2>6, <2>7, <2>8, <2>9
<1>4. Requests'
  BY <1>1 DEF Requests
<1> QED BY <1>1, <1>2, <1>3, <1>4, RowsAlone

LEMMA RequestsKeep ==
    ASSUME LockedInv, deploy.db = "postgresql", NEW w \in Worker,
           \/ \E a \in Automation, r \in Rule, b \in BOOLEAN \cup {None} : AskUpdate(w, a, r, b)
           \/ \E a \in Automation : AskToggle(w, a) \/ AskDelete(w, a)
           \/ \E e \in Event, t \in 1..MaxTime, al \in Alerts, c \in BOOLEAN :
                  AskEvent(w, e, t, al, c)
           \/ FetchRow(w) \/ CommitEvent(w)
    PROVE  LockedInv'
<1> USE DEF LockedInv
<1>1. UNCHANGED <<row, turn, taken, loop, now, deploy>>
  BY DEF AskUpdate, AskToggle, AskDelete, AskEvent, FetchRow, CommitEvent, auto, sched
<1>2. ASSUME NEW q, Asked(q), req' = [req EXCEPT ![w] = q]
      PROVE  Requests'
  BY <1>2 DEF Requests
<1>3. \A r \in Rule : NextRun(r, now) \in Nat \cup {None}
  BY NextRunLater DEF Rows
<1>4. Asked(Idle)
  BY DEF Asked, Idle
<1>5. Requests'
  <2>1. ASSUME NEW a \in Automation, NEW r \in Rule, NEW b, AskUpdate(w, a, r, b)
        PROVE  Requests'
    <3>1. Asked([op |-> "update", id |-> a, seen |-> row[a], rule |-> r,
                 active |-> b, next |-> NextRun(r, now), row |-> None])
      BY <1>3 DEF Asked
    <3> QED BY <1>2, <2>1, <3>1 DEF AskUpdate, Request
  <2>2. ASSUME NEW a \in Automation, AskToggle(w, a)
        PROVE  Requests'
    <3>1. NextRun(row[a].rule, now) \in Nat \cup {None}
      BY <1>3, <2>2 DEF AskToggle, Rows, Whole
    <3>2. Asked([op |-> "toggle", id |-> a, seen |-> row[a],
                 next |-> NextRun(row[a].rule, now), row |-> None])
      BY <3>1 DEF Asked
    <3> QED BY <1>2, <2>2, <3>2 DEF AskToggle, Request
  <2>3. ASSUME NEW a \in Automation, AskDelete(w, a)
        PROVE  Requests'
    <3>1. Asked([op |-> "delete", id |-> a, seen |-> row[a], row |-> None])
      BY DEF Asked
    <3> QED BY <1>2, <2>3, <3>1 DEF AskDelete, Request
  <2>4. ASSUME NEW e, NEW t, NEW al, NEW c, AskEvent(w, e, t, al, c)
        PROVE  Requests'
    <3>1. \E r, n : req' = [req EXCEPT ![w] = [op |-> "event", id |-> e, row |-> r, new |-> n]]
      BY <2>4 DEF AskEvent, Request
    <3>2. \A r, n : Asked([op |-> "event", id |-> e, row |-> r, new |-> n])
      BY DEF Asked
    <3> QED BY <1>2, <3>1, <3>2
  <2>5. CASE FetchRow(w)
    <3> DEFINE q   == req[w]
               cur == row[q.id]
    <3>1. Asked(q) /\ q.op \in {"update", "toggle", "delete"}
      BY <2>5 DEF Requests, FetchRow
    <3>2. req' = [req EXCEPT ![w] = IF cur = None THEN Idle ELSE [q EXCEPT !.row = cur]]
      BY <2>5 DEF FetchRow
    <3>3. cur = None \/ Whole(cur)
      BY <3>1 DEF Asked, Rows
    <3>4. Asked([q EXCEPT !.row = cur])
      BY <3>1, <3>3 DEF Asked
    <3> HIDE DEF q, cur
    <3>5. CASE cur = None
      BY <1>2, <1>4, <3>2, <3>5
    <3>6. CASE cur # None
      BY <1>2, <3>2, <3>4, <3>6
    <3> QED BY <3>5, <3>6
  <2>6. CASE CommitEvent(w)
    BY <1>2, <1>4, <2>6 DEF CommitEvent
  <2> QED BY <2>1, <2>2, <2>3, <2>4, <2>5, <2>6
<1>6. Rows' /\ Taken' /\ Claims'
  BY <1>1 DEF Rows, Taken, Claims, Holds
<1> QED BY <1>1, <1>5, <1>6

-----------------------------------------------------------------------------
(* Steps that write rows *)

\* One row is written, which nobody has locked; next_run_at counts its changes.
LEMMA WritesKeep ==
    ASSUME Rows, Taken, Claims, NEW a \in Automation, NEW new, new = None \/ Whole(new),
           \A i \in Instance : ~Holds(i, a),
           row' = [row EXCEPT ![a] = new],
           \/ turn' = turn
           \/ turn' = [turn EXCEPT ![a] = turn[a] + 1],
           UNCHANGED <<now, taken, loop>>
    PROVE  Rows' /\ Taken' /\ Claims'
<1>1. Rows'
  BY DEF Rows
<1>2. /\ turn' \in [Automation -> Nat]
      /\ \A b \in Automation : turn[b] <= turn'[b] /\ (b # a => turn'[b] = turn[b])
  BY DEF Taken
<1>3. \A b \in Automation : \A c \in taken[b] : c.turn \in Nat /\ c.turn < turn'[b]
  BY <1>2 DEF Taken
<1>4. Taken'
  BY <1>2, <1>3 DEF Taken
<1>5. \A i \in Instance : \A b : Holds(i, b)' => Holds(i, b) /\ b # a
  BY DEF Holds
<1>6. \A b \in Automation : b # a => row'[b] = row[b] /\ turn'[b] = turn[b]
  BY <1>2 DEF Rows
<1>7. Claims'
  BY <1>5, <1>6 DEF Claims
<1> QED BY <1>1, <1>4, <1>7

LEMMA CreationKeeps ==
    ASSUME LockedInv, deploy.db = "postgresql", NEW a \in Automation, NEW r \in Rule, NEW b,
           CreateAutomation(a, r, b)
    PROVE  LockedInv'
<1> USE DEF LockedInv
<1> DEFINE new == [rule |-> r, active |-> b, next |-> NextRun(r, now)]
<1>1. /\ row' = [row EXCEPT ![a] = new] /\ row[a] = None /\ turn[a] = 0
      /\ turn' = [turn EXCEPT ![a] = 1]
      /\ UNCHANGED <<deploy, now, taken, loop, req>>
  BY DEF CreateAutomation, sched
<1>2. Whole(new)
  BY NextRunLater, NewRow DEF Rows
<1>3. \A i \in Instance : ~Holds(i, a)
  BY <1>1 DEF Claims
<1>4. turn' = [turn EXCEPT ![a] = turn[a] + 1]
  BY <1>1
<1>5. Requests'
  BY <1>1 DEF Requests
<1> HIDE DEF new
<1>6. Rows' /\ Taken' /\ Claims'
  BY <1>1, <1>2, <1>3, <1>4, WritesKeep
<1> QED BY <1>1, <1>5, <1>6

\* A request waits for the lock of a claim.
LEMMA CommitKeeps ==
    ASSUME LockedInv, deploy.db = "postgresql", NEW w \in Worker, CommitRow(w)
    PROVE  LockedInv'
<1> USE DEF LockedInv
<1> DEFINE q   == req[w]
           cur == row[q.id]
           new == IF cur = None \/ q.op = "delete" THEN None
                  ELSE Saved(cur, q.row, Edited(q))
<1>1. /\ q.op \in {"update", "toggle", "delete"} /\ q.row # None /\ ~Locked(q.id)
      /\ row' = [row EXCEPT ![q.id] = new]
      /\ turn' = turn \/ Wrote(q.id, new)
      /\ req' = [req EXCEPT ![w] = Idle]
      /\ UNCHANGED <<deploy, now, taken, loop>>
  BY DEF CommitRow, sched
<1>2. Asked(q) /\ q.id \in Automation
  BY <1>1 DEF Requests, Asked
<1>3. new = None \/ Whole(new)
  <2>1. CASE cur = None \/ q.op = "delete"
    BY <2>1
  <2>2. CASE cur # None /\ q.op # "delete"
    <3>1. Whole(cur)
      BY <1>2, <2>2 DEF Rows
    <3>2. Whole(Edited(q))
      BY <1>1, <1>2, <2>2, EditedRow
    <3> QED BY <2>2, <3>1, <3>2, SavedRow
  <2> QED BY <2>1, <2>2
<1>4. \A i \in Instance : ~Holds(i, q.id)
  BY <1>1 DEF Locked, Holds
<1>5. Requests'
  BY <1>1 DEF Requests, Asked, Idle
<1> HIDE DEF q, new, cur
<1>6. \/ turn' = turn
      \/ turn' = [turn EXCEPT ![q.id] = turn[q.id] + 1]
  <2>1. CASE Wrote(q.id, new) /\ new.next # row[q.id].next
    BY <2>1 DEF Wrote
  <2>2. CASE Wrote(q.id, new) /\ new.next = row[q.id].next
    BY <1>2, <2>2 DEF Wrote, Taken
  <2> QED BY <1>1, <2>1, <2>2
<1>7. Rows' /\ Taken' /\ Claims'
  BY <1>1, <1>2, <1>3, <1>4, <1>6, WritesKeep
<1> QED BY <1>1, <1>5, <1>7

\* FOR UPDATE SKIP LOCKED: a poll takes rows that are due and that no other
\* poll holds.
LEMMA PollKeeps ==
    ASSUME LockedInv, deploy.db = "postgresql", NEW i \in Instance, Poll(i)
    PROVE  LockedInv'
<1> USE DEF LockedInv
<1>1. PICK s : /\ s \subseteq {a \in Automation : Due(a) /\ ~Locked(a)}
               /\ Step(i, [pc |-> IF s = {} THEN "look" ELSE "claim",
                           rows |-> [a \in s |-> row[a]], turns |-> [a \in s |-> turn[a]]])
  BY DEF Poll
<1>2. UNCHANGED <<row, turn, taken, req, deploy, now>>
  BY DEF Poll, auto
<1>3. Rows' /\ Requests' /\ Taken'
  BY <1>2 DEF Rows, Requests, Taken
<1>4. /\ loop' = [j \in Instance |-> loop'[j]]
      /\ \A j \in Instance : j # i => loop'[j] = loop[j]
      /\ loop'[i] = [pc |-> IF s = {} THEN "look" ELSE "claim",
                     rows |-> [a \in s |-> row[a]], turns |-> [a \in s |-> turn[a]]]
  BY <1>1 DEF Step, Claims
<1>5. /\ DOMAIN loop'[i].rows = s
      /\ \A a \in s : loop'[i].rows[a] = row[a] /\ loop'[i].turns[a] = turn[a]
  BY <1>4
<1>6. \A a \in s : /\ a \in Automation
                   /\ row[a] # None /\ row[a].active
                   /\ row[a].next # None /\ row[a].next <= now
                   /\ \A j \in Instance : ~Holds(j, a)
  BY <1>1 DEF Due, Locked, Holds
<1>7. \A a : Holds(i, a)' => a \in s
  BY <1>5 DEF Holds
<1>8. \A j \in Instance : \A a : j # i /\ Holds(j, a)' => Holds(j, a) /\ a \notin s
  BY <1>4, <1>6 DEF Holds
<1>9. Claims'
  <2>1. ASSUME NEW j \in Instance, NEW a, Holds(j, a)'
        PROVE  /\ a \in Automation
               /\ row[a] = loop'[j].rows[a] /\ loop'[j].turns[a] = turn[a]
               /\ row[a] # None /\ row[a].active
               /\ row[a].next # None /\ row[a].next <= now
    <3>1. CASE j = i
      BY <1>5, <1>6, <1>7, <2>1, <3>1
    <3>2. CASE j # i
      BY <1>4, <1>8, <2>1, <3>2 DEF Claims
    <3> QED BY <3>1, <3>2
  <2>2. ASSUME NEW j \in Instance, NEW k \in Instance, NEW a, Holds(j, a)', Holds(k, a)'
        PROVE  j = k
    BY <1>7, <1>8, <2>2 DEF Claims
  <2> QED BY <1>2, <1>4, <2>1, <2>2 DEF Claims
<1> QED BY <1>2, <1>3, <1>9

\* The commit moves next_run_at of every row it holds past the present.
LEMMA ClaimKeeps ==
    ASSUME LockedInv, deploy.db = "postgresql", NEW i \in Instance, Claim(i)
    PROVE  /\ LockedInv'
           /\ \A a \in Automation : taken'[a] # taken[a] => row[a] # None /\ row[a].active
<1> USE DEF LockedInv
<1> DEFINE rows == loop[i].rows
           moved(a) == Saved(row[a], rows[a], [rows[a] EXCEPT !.next = NextRun(rows[a].rule, now)])
           new == [a \in Automation |->
                      IF a \in DOMAIN rows /\ row[a] # None THEN moved(a) ELSE row[a]]
<1>1. /\ loop[i].pc = "claim"
      /\ Step(i, [pc |-> "look"])
      /\ UNCHANGED <<deploy, now, req>>
  BY DEF Claim
<1>2. \A a \in DOMAIN rows :
         /\ Holds(i, a) /\ a \in Automation
         /\ row[a] = rows[a] /\ loop[i].turns[a] = turn[a]
         /\ row[a] # None /\ row[a].active
         /\ row[a].next # None /\ row[a].next <= now
  BY <1>1 DEF Claims, Holds
<1>3. /\ row' = new
      /\ turn' = [a \in Automation |->
                    IF row[a] # None /\ new[a].next # row[a].next THEN turn[a] + 1 ELSE turn[a]]
      /\ taken' = [a \in Automation |->
                     IF a \in DOMAIN rows
                     THEN taken[a] \cup {[turn |-> loop[i].turns[a], by |-> i]}
                     ELSE taken[a]]
  BY <1>2 DEF Claim
\* What the claim does to a row it holds, and to the others
<1>4. ASSUME NEW a \in DOMAIN rows
      PROVE  Whole(new[a]) /\ new[a].next # row[a].next
  <2>1. Whole(row[a]) /\ new[a] = moved(a) /\ row[a] = rows[a] /\ a \in Automation
    BY <1>2 DEF Rows
  <2>2. row[a].rule \in Rule /\ row[a].next \in Nat /\ now \in Nat
    BY <1>2, <2>1 DEF Whole, Rows
  <2> DEFINE n == NextRun(row[a].rule, now)
  <2>3. n = None \/ (n \in Nat /\ n > now)
    BY <2>2, NextRunLater
  <2>4. n # row[a].next /\ n \in Nat \cup {None}
    BY <1>2, <2>2, <2>3
  <2> HIDE DEF n
  <2>5. Whole([row[a] EXCEPT !.next = n]) /\ [row[a] EXCEPT !.next = n].next = n
    BY <2>1, <2>4, NextRow
  <2>6. moved(a) = Saved(row[a], row[a], [row[a] EXCEPT !.next = n])
    BY <2>1 DEF n
  <2> DEFINE x == [row[a] EXCEPT !.next = n]
  <2> HIDE DEF x
  <2>7. Whole(moved(a)) /\ moved(a).next = n
    <3>1. moved(a) = Saved(row[a], row[a], x) /\ Whole(x) /\ x.next = n
      BY <2>5, <2>6 DEF x
    <3>2. Whole(Saved(row[a], row[a], x)) /\ Saved(row[a], row[a], x).next = x.next
      BY <2>1, <3>1, SavedRow, SavedNext
    <3> HIDE DEF moved
    <3> QED BY <3>1, <3>2
  <2> QED BY <2>1, <2>4, <2>7
<1>5. ASSUME NEW a \in Automation, a \notin DOMAIN rows
      PROVE  row'[a] = row[a] /\ turn'[a] = turn[a] /\ taken'[a] = taken[a]
  BY <1>3, <1>5
<1>6. ASSUME NEW a \in DOMAIN rows
      PROVE  /\ turn'[a] = turn[a] + 1 /\ Whole(row'[a])
             /\ taken'[a] = taken[a] \cup {[turn |-> turn[a], by |-> i]}
  <2>1. turn'[a] = turn[a] + 1
    BY <1>2, <1>3, <1>4
  <2>2. Whole(row'[a])
    BY <1>2, <1>3, <1>4
  <2>3. taken'[a] = taken[a] \cup {[turn |-> turn[a], by |-> i]}
    BY <1>2, <1>3
  <2> QED BY <2>1, <2>2, <2>3
<1>7. /\ row' = [a \in Automation |-> row'[a]] /\ taken' = [a \in Automation |-> taken'[a]]
      /\ turn' = [a \in Automation |-> turn'[a]]
  BY <1>3
<1> HIDE DEF new, moved
<1>8. Rows'
  BY <1>1, <1>5, <1>6, <1>7 DEF Rows
<1>9. Requests'
  BY <1>1 DEF Requests
<1>10. Taken'
  <2>1. \A a \in Automation : turn'[a] \in Nat
    BY <1>5, <1>6 DEF Taken
  <2>2. ASSUME NEW a \in Automation
        PROVE  /\ \A c \in taken'[a] : c.turn \in Nat /\ c.turn < turn'[a]
               /\ \A c, d \in taken'[a] : c.turn = d.turn => c = d
    <3>1. CASE a \notin DOMAIN rows
      BY <1>5, <3>1 DEF Taken
    <3>2. CASE a \in DOMAIN rows
      <4> DEFINE e == [turn |-> turn[a], by |-> i]
      <4>1. e.turn = turn[a] /\ turn[a] \in Nat
        BY DEF Taken
      <4> HIDE DEF e
      <4>2. taken'[a] = taken[a] \cup {e} /\ turn'[a] = turn[a] + 1
        BY <1>6, <3>2 DEF e
      <4>3. \A c \in taken[a] : c.turn \in Nat /\ c.turn < turn[a]
        BY DEF Taken
      <4>4. \A c \in taken'[a] : c.turn \in Nat /\ c.turn < turn'[a]
        BY <4>1, <4>2, <4>3
      <4>5. \A c \in taken[a] : c.turn # e.turn
        BY <4>1, <4>3
      <4>6. \A c, d \in taken'[a] : c.turn = d.turn => c = d
        BY <4>2, <4>5 DEF Taken
      <4> QED BY <4>4, <4>6
    <3> QED BY <3>1, <3>2
  <2> QED BY <1>7, <2>1, <2>2 DEF Taken
<1>11. Claims'
  <2>1. /\ loop' = [j \in Instance |-> loop'[j]]
        /\ \A j \in Instance : j # i => loop'[j] = loop[j]
        /\ loop'[i].pc = "look"
    BY <1>1 DEF Step, Claims
  <2>2. \A j \in Instance : \A a : Holds(j, a)' => Holds(j, a) /\ j # i
    BY <2>1 DEF Holds
  <2>3. \A j \in Instance : \A a : Holds(j, a)' => a \in Automation /\ a \notin DOMAIN rows
    BY <1>2, <2>2 DEF Claims
  <2>4. \A j \in Instance : \A a : Holds(j, a)' =>
           row'[a] = row[a] /\ turn'[a] = turn[a] /\ loop'[j] = loop[j] /\ Holds(j, a)
    BY <1>5, <2>1, <2>2, <2>3
  <2> HIDE DEF rows
  <2> QED BY <1>1, <2>1, <2>4 DEF Claims
<1>12. \A a \in Automation : taken'[a] # taken[a] => row[a] # None /\ row[a].active
  BY <1>2, <1>5
<1> QED BY <1>1, <1>8, <1>9, <1>10, <1>11, <1>12

-----------------------------------------------------------------------------
(* The theorems *)

LEMMA DeploymentStays == [Next]_vars => deploy' = deploy
BY DEF Next, vars, CreateAutomation, AskUpdate, AskToggle, AskDelete, CreateEvent, AskEvent,
       DeleteEvent, FetchRow, CommitRow, CommitEvent, Poll, Claim, Look, Alert, Mark,
       Crash, Restart, Tick

LEMMA NextLocked == LockedInv /\ [Next]_vars => LockedInv'
<1> SUFFICES ASSUME LockedInv, [Next]_vars PROVE LockedInv'
  OBVIOUS
<1>0. deploy' = deploy
  BY DeploymentStays
<1>1. CASE deploy.db # "postgresql"
  BY <1>0, <1>1 DEF LockedInv
<1>2. CASE deploy.db = "postgresql" /\ UNCHANGED vars
  BY <1>2 DEF LockedInv, vars, auto, sched, Rows, Requests, Taken, Claims, Holds
<1>3. CASE deploy.db = "postgresql" /\ Next
  BY <1>3, LoopsKeep, RequestsKeep, CreationKeeps, CommitKeeps, PollKeeps, ClaimKeeps DEF Next
<1> QED BY <1>1, <1>2, <1>3

THEOREM LockedInvariant == Spec => []LockedInv
BY InitLocked, NextLocked, PTL DEF Spec

\* On PostgreSQL no run is claimed twice.
THEOREM RunsClaimedOnce == Spec => []ClaimedOnce
<1>1. LockedInv => ClaimedOnce
  BY DEF LockedInv, Taken, ClaimedOnce
<1> QED BY <1>1, LockedInvariant, PTL

\* On PostgreSQL what is claimed is there and active.
THEOREM PausedRunsStay == Spec => NotWhenPaused
<1>1. Init => deploy \in Deployment
  BY DEF Init
<1>2. deploy \in Deployment /\ [Next]_vars => (deploy \in Deployment)'
  BY DeploymentStays
<1>3. Spec => [](deploy \in Deployment)
  BY <1>1, <1>2, PTL DEF Spec
<1>4. LockedInv /\ deploy \in Deployment /\ [Next]_vars =>
        [\A a \in Automation :
           taken'[a] # taken[a] =>
               deploy.db = "sqlite" \/ (row[a] # None /\ row[a].active)]_vars
  <2> SUFFICES ASSUME LockedInv, deploy \in Deployment, Next, deploy.db # "sqlite",
                      NEW a \in Automation, taken'[a] # taken[a]
               PROVE  row[a] # None /\ row[a].active
    OBVIOUS
  <2>1. deploy.db = "postgresql"
    BY SchedulerAssumption DEF SchedulerAssumption
  <2>2. \E i \in Instance : Claim(i)
    <3>1. ~UNCHANGED taken
      OBVIOUS
    <3> QED BY <3>1 DEF Next, CreateAutomation, AskUpdate, AskToggle, AskDelete, CreateEvent,
                AskEvent, DeleteEvent, FetchRow, CommitRow, CommitEvent, Poll, Look, Alert,
                Mark, Crash, Restart, Tick, auto
  <2> QED BY <2>1, <2>2, ClaimKeeps
<1> QED BY <1>3, <1>4, LockedInvariant, PTL DEF Spec, NotWhenPaused

-----------------------------------------------------------------------------
(* The schedule, on either database *)

\* The next run n of rule r is due at time t, or the first occurrence to come.
Fresh(n, r, t) == n = NextRun(r, t) \/ (n # None /\ n <= t)

Planned(r) == /\ DOMAIN r = {"rule", "active", "next"}
              /\ r.rule \in Rule /\ r.active \in BOOLEAN
              /\ r.next \in 1..MaxTime \cup {None}

\* The next run a request brings was computed from the rule that it brings, or
\* that it has seen in the row.
Sought(q, t) ==
    q.op \in {"update", "toggle", "delete"} =>
        /\ q.id \in Automation
        /\ q.row = None \/ Planned(q.row)
        /\ q.op = "update" => /\ q.rule \in Rule /\ q.active \in BOOLEAN \cup {None}
                              /\ q.next \in 1..MaxTime \cup {None}
                              /\ Fresh(q.next, q.rule, t)
        /\ q.op = "toggle" => /\ Planned(q.seen)
                              /\ q.next \in 1..MaxTime \cup {None}
                              /\ Fresh(q.next, q.seen.rule, t)

Kept(ro, to, t) ==
    \A a \in Automation :
        /\ ro[a] = None \/ Planned(ro[a])
        /\ a \notin to /\ ro[a] # None /\ ro[a].active => Fresh(ro[a].next, ro[a].rule, t)

PlanInv ==
    /\ now \in 0..MaxTime
    /\ row = [a \in Automation |-> row[a]] /\ Kept(row, torn, now)
    /\ req = [w \in Worker |-> req[w]] /\ \A w \in Worker : Sought(req[w], now)
    /\ loop = [i \in Instance |-> loop[i]]
    /\ \A i \in Instance : loop[i].pc = "claim" =>
          \A a \in DOMAIN loop[i].rows : a \in Automation /\ Planned(loop[i].rows[a])


\* The next occurrence, when there is one, is in the rule and the first one.
LEMMA NextRunFirst ==
    ASSUME NEW r \in Rule, NEW t \in Nat
    PROVE  LET later == {u \in r : u > t}
           IN  /\ r \subseteq 1..MaxTime
               /\ later = {} => NextRun(r, t) = None
               /\ later # {} => /\ NextRun(r, t) \in later
                                /\ \A v \in later : NextRun(r, t) <= v
<1> DEFINE later == {u \in r : u > t}
<1>1. later \subseteq Nat /\ r \subseteq 1..MaxTime
  BY SchedulerAssumption DEF SchedulerAssumption
<1>2. CASE later = {}
  BY <1>1, <1>2 DEF NextRun
<1>3. CASE later # {}
  <2>1. \E u \in later : \A v \in later : u <= v
    <3>1. PICK u \in later : \A v \in later : ~(<<v, u>> \in OpToRel(<, Nat))
      BY <1>1, <1>3, NatLessThanWellFounded, WFMin
    <3>2. \A v \in later : ~(v < u)
      BY <1>1, <3>1 DEF OpToRel
    <3> QED BY <1>1, <3>2
  <2> QED BY <1>1, <1>3, <2>1 DEF NextRun
<1> QED BY <1>2, <1>3

LEMMA NextRunFresh ==
    ASSUME NEW r \in Rule, NEW t \in Nat
    PROVE  NextRun(r, t) \in 1..MaxTime \cup {None} /\ Fresh(NextRun(r, t), r, t)
<1>1. NextRun(r, t) \in 1..MaxTime \cup {None}
  BY NextRunFirst
<1> QED BY <1>1 DEF Fresh

\* What was the first occurrence to come is due, or still the first, later on.
LEMMA FreshStays ==
    ASSUME NEW r \in Rule, NEW t \in Nat, NEW u \in Nat, t <= u,
           NEW n \in 1..MaxTime \cup {None}, Fresh(n, r, t)
    PROVE  Fresh(n, r, u)
<1>0. None \notin Nat /\ MaxTime \in Nat
  BY SchedulerAssumption DEF SchedulerAssumption
<1>1. CASE n # None /\ n <= u
  BY <1>1 DEF Fresh
<1>2. CASE n = None
  <2>1. NextRun(r, t) = None
    BY <1>2 DEF Fresh
  <2>2. {v \in r : v > t} = {}
    BY <1>0, <2>1, NextRunFirst
  <2>3. {v \in r : v > u} = {}
    BY <2>2, NextRunFirst
  <2>4. NextRun(r, u) = None
    BY <2>3, NextRunFirst
  <2> QED BY <1>2, <2>4 DEF Fresh
<1>3. CASE n # None /\ ~(n <= u)
  <2>1. n \in Nat /\ n > u
    BY <1>0, <1>3
  <2>2. n = NextRun(r, t)
    BY <1>3, <2>1 DEF Fresh
  <2> DEFINE later == {v \in r : v > t}
             after == {v \in r : v > u}
  <2>3. n \in later /\ \A v \in later : n <= v
    <3>1. later # {}
      BY <1>3, <2>2, NextRunFirst
    <3> QED BY <2>2, <3>1, NextRunFirst
  <2>4. r \subseteq Nat
    BY <1>0, NextRunFirst
  <2>5. n \in after /\ \A v \in after : v \in later
    BY <2>1, <2>3, <2>4
  <2>6. NextRun(r, u) \in after /\ \A v \in after : NextRun(r, u) <= v
    BY <2>5, NextRunFirst
  <2>7. n <= NextRun(r, u) /\ NextRun(r, u) <= n
    BY <2>3, <2>5, <2>6
  <2>8. n = NextRun(r, u)
    <3>1. n \in Nat /\ NextRun(r, u) \in Nat
      BY <2>1, <2>4, <2>6
    <3> QED BY <2>7, <3>1
  <2> QED BY <2>8 DEF Fresh
<1> QED BY <1>1, <1>2, <1>3

LEMMA SavedPlanned ==
    ASSUME NEW cur, NEW read, NEW new, Planned(cur), Planned(new)
    PROVE  LET x == Saved(cur, read, new)
           IN  /\ Planned(x)
               /\ cur = read => /\ x.next = new.next /\ x.rule = new.rule
                                /\ x.active = new.active
BY DEF Saved, Planned

LEMMA SoughtStays ==
    ASSUME NEW q, NEW t \in Nat, NEW u \in Nat, t <= u, Sought(q, t)
    PROVE  Sought(q, u)
BY FreshStays DEF Sought, Planned

LEMMA KeptStays ==
    ASSUME NEW ro, NEW to, NEW to2, NEW t \in Nat, NEW u \in Nat, t <= u,
           to \subseteq to2, Kept(ro, to, t)
    PROVE  Kept(ro, to2, u)
<1> SUFFICES ASSUME NEW a \in Automation, a \notin to2, ro[a] # None, ro[a].active
             PROVE  Fresh(ro[a].next, ro[a].rule, u)
  BY DEF Kept
<1>1. Planned(ro[a]) /\ Fresh(ro[a].next, ro[a].rule, t)
  BY DEF Kept
<1> QED BY <1>1, FreshStays DEF Planned

LEMMA InitPlan == Init => PlanInv
<1> SUFFICES ASSUME Init PROVE PlanInv
  OBVIOUS
<1>1. now = 0 /\ now \in 0..MaxTime /\ now \in Nat
  BY SchedulerAssumption DEF Init, SchedulerAssumption
<1>2. ASSUME NEW a \in Automation, row[a] # None
      PROVE  Planned(row[a]) /\ Fresh(row[a].next, row[a].rule, now)
  <2>1. PICK r \in Rule : row[a] = [rule |-> r, active |-> TRUE, next |-> NextRun(r, 0)]
    BY <1>2 DEF Init
  <2>2. NextRun(r, 0) \in 1..MaxTime \cup {None} /\ Fresh(NextRun(r, 0), r, 0)
    BY NextRunFresh
  <2> QED BY <1>1, <2>1, <2>2 DEF Planned
<1>3. Kept(row, torn, now)
  BY <1>2 DEF Kept
<1>4. row = [a \in Automation |-> row[a]]
  BY DEF Init
<1>5. Sought(Idle, now)
  BY DEF Sought, Idle
<1> QED BY <1>1, <1>3, <1>4, <1>5 DEF Init, PlanInv, Asleep

\* How the parts of the invariant come together after a step.
LEMMA PlanParts ==
    ASSUME PlanInv, now' \in 0..MaxTime, now <= now',
           row' = [a \in Automation |-> row'[a]], Kept(row', torn', now'),
           req' = [w \in Worker |-> req'[w]],
           \A w \in Worker : req'[w] = req[w] \/ Sought(req'[w], now'),
           loop' = [i \in Instance |-> loop'[i]],
           \A i \in Instance :
              \/ loop'[i] = loop[i]
              \/ loop'[i].pc = "claim" =>
                    \A a \in DOMAIN loop'[i].rows : a \in Automation /\ Planned(loop'[i].rows[a])
    PROVE  PlanInv'
<1>1. now \in Nat /\ now' \in Nat
  BY SchedulerAssumption DEF PlanInv, SchedulerAssumption
<1>2. ASSUME NEW w \in Worker PROVE Sought(req'[w], now')
  <2>1. CASE req'[w] = req[w]
    BY <1>1, <2>1, SoughtStays DEF PlanInv
  <2> QED BY <2>1
<1>3. ASSUME NEW i \in Instance, loop'[i].pc = "claim"
      PROVE  \A a \in DOMAIN loop'[i].rows : a \in Automation /\ Planned(loop'[i].rows[a])
  BY <1>3 DEF PlanInv
<1> QED BY <1>2, <1>3 DEF PlanInv

\* A step that writes no row.
LEMMA PlanQuiet ==
    ASSUME PlanInv, UNCHANGED row, torn \subseteq torn', now' \in 0..MaxTime, now <= now',
           \/ UNCHANGED req
           \/ \E w \in Worker : \E q : Sought(q, now') /\ req' = [req EXCEPT ![w] = q],
           \/ UNCHANGED loop
           \/ \E i \in Instance : \E l :
                 /\ l.pc = "claim" =>
                       \A a \in DOMAIN l.rows : a \in Automation /\ Planned(l.rows[a])
                 /\ Step(i, l)
    PROVE  PlanInv'
<1>1. now \in Nat /\ now' \in Nat
  BY SchedulerAssumption DEF PlanInv, SchedulerAssumption
<1>2. Kept(row', torn', now') /\ row' = [a \in Automation |-> row'[a]]
  BY <1>1, KeptStays DEF PlanInv
<1>3. /\ req' = [w \in Worker |-> req'[w]]
      /\ \A w \in Worker : req'[w] = req[w] \/ Sought(req'[w], now')
  BY DEF PlanInv
<1>4. /\ loop' = [i \in Instance |-> loop'[i]]
      /\ \A i \in Instance :
              \/ loop'[i] = loop[i]
              \/ loop'[i].pc = "claim" =>
                    \A a \in DOMAIN loop'[i].rows : a \in Automation /\ Planned(loop'[i].rows[a])
  BY DEF PlanInv, Step
<1> QED BY <1>2, <1>3, <1>4, PlanParts

LEMMA PlanAsks ==
    ASSUME PlanInv, NEW w \in Worker,
           \/ \E a \in Automation, r \in Rule, b \in BOOLEAN \cup {None} : AskUpdate(w, a, r, b)
           \/ \E a \in Automation : AskToggle(w, a) \/ AskDelete(w, a)
           \/ \E e \in Event, t \in 1..MaxTime, al \in Alerts, c \in BOOLEAN :
                  AskEvent(w, e, t, al, c)
           \/ FetchRow(w) \/ CommitEvent(w)
    PROVE  PlanInv'
<1>1. /\ UNCHANGED <<row, loop, now>> /\ torn \subseteq torn' /\ now \in Nat /\ now <= now'
      /\ now' \in 0..MaxTime
  <2>1. UNCHANGED <<row, loop, now>>
    BY DEF AskUpdate, AskToggle, AskDelete, AskEvent, FetchRow, CommitEvent, auto, sched
  <2>2. torn \subseteq torn'
    <3>1. CASE CommitEvent(w)
      BY <3>1 DEF CommitEvent
    <3>2. CASE UNCHANGED torn
      BY <3>2
    <3> QED BY <3>1, <3>2 DEF AskUpdate, AskToggle, AskDelete, AskEvent, FetchRow
  <2> QED BY <2>1, <2>2, SchedulerAssumption DEF PlanInv, SchedulerAssumption
<1>2. ASSUME NEW q, Sought(q, now), req' = [req EXCEPT ![w] = q]
      PROVE  PlanInv'
  BY <1>1, <1>2, PlanQuiet
<1>3. \A r \in Rule : NextRun(r, now) \in 1..MaxTime \cup {None} /\ Fresh(NextRun(r, now), r, now)
  BY <1>1, NextRunFresh
<1>4. Sought(Idle, now)
  BY DEF Sought, Idle
<1>5. ASSUME NEW a \in Automation, NEW r \in Rule, NEW b \in BOOLEAN \cup {None},
             AskUpdate(w, a, r, b)
      PROVE  PlanInv'
  <2>1. Sought([op |-> "update", id |-> a, seen |-> row[a], rule |-> r,
                active |-> b, next |-> NextRun(r, now), row |-> None], now)
    BY <1>3 DEF Sought
  <2> QED BY <1>2, <1>5, <2>1 DEF AskUpdate, Request
<1>6. ASSUME NEW a \in Automation, AskToggle(w, a)
      PROVE  PlanInv'
  <2>1. Planned(row[a])
    BY <1>6 DEF AskToggle, PlanInv, Kept
  <2>2. /\ NextRun(row[a].rule, now) \in 1..MaxTime \cup {None}
        /\ Fresh(NextRun(row[a].rule, now), row[a].rule, now)
    BY <1>3, <2>1 DEF Planned
  <2>3. Sought([op |-> "toggle", id |-> a, seen |-> row[a],
                next |-> NextRun(row[a].rule, now), row |-> None], now)
    BY <2>1, <2>2 DEF Sought
  <2> QED BY <1>2, <1>6, <2>3 DEF AskToggle, Request
<1>7. ASSUME NEW a \in Automation, AskDelete(w, a)
      PROVE  PlanInv'
  <2>1. Sought([op |-> "delete", id |-> a, seen |-> row[a], row |-> None], now)
    BY DEF Sought
  <2> QED BY <1>2, <1>7, <2>1 DEF AskDelete, Request
<1>8. ASSUME NEW e, NEW t, NEW al, NEW c, AskEvent(w, e, t, al, c)
      PROVE  PlanInv'
  <2>1. \E r, n : req' = [req EXCEPT ![w] = [op |-> "event", id |-> e, row |-> r, new |-> n]]
    BY <1>8 DEF AskEvent, Request
  <2>2. \A r, n : Sought([op |-> "event", id |-> e, row |-> r, new |-> n], now)
    BY DEF Sought
  <2> QED BY <1>2, <2>1, <2>2
<1>9. CASE FetchRow(w)
  <2> DEFINE q   == req[w]
             cur == row[q.id]
  <2>1. Sought(q, now) /\ q.op \in {"update", "toggle", "delete"}
    BY <1>9 DEF PlanInv, FetchRow
  <2>2. req' = [req EXCEPT ![w] = IF cur = None THEN Idle ELSE [q EXCEPT !.row = cur]]
    BY <1>9 DEF FetchRow
  <2>3. cur = None \/ Planned(cur)
    BY <2>1 DEF Sought, PlanInv, Kept
  <2>4. Sought([q EXCEPT !.row = cur], now)
    BY <2>1, <2>3 DEF Sought
  <2> HIDE DEF q, cur
  <2>5. CASE cur = None
    BY <1>2, <1>4, <2>2, <2>5
  <2>6. CASE cur # None
    BY <1>2, <2>2, <2>4, <2>6
  <2> QED BY <2>5, <2>6
<1>10. CASE CommitEvent(w)
  BY <1>2, <1>4, <1>10 DEF CommitEvent
<1> QED BY <1>5, <1>6, <1>7, <1>8, <1>9, <1>10

LEMMA PlanLoops ==
    ASSUME PlanInv,
           \/ \E i \in Instance : \/ Poll(i) \/ Look(i) \/ Alert(i) \/ Mark(i)
                                  \/ Crash(i) \/ Restart(i)
           \/ Tick
           \/ \E e \in Event, t \in 1..MaxTime, al \in Alerts : CreateEvent(e, t, al)
           \/ \E e \in Event : DeleteEvent(e)
    PROVE  PlanInv'
<1>1. UNCHANGED <<row, req>> /\ torn \subseteq torn'
  BY DEF Poll, Look, Alert, Mark, Crash, Restart, Tick, CreateEvent, DeleteEvent, auto
<1>2. now' \in 0..MaxTime /\ now <= now'
  <2>1. now' = now \/ (now < MaxTime /\ now' = now + 1)
    BY DEF Poll, Look, Alert, Mark, Crash, Restart, Tick, CreateEvent, DeleteEvent
  <2> QED BY <2>1, SchedulerAssumption DEF PlanInv, SchedulerAssumption
<1>3. CASE UNCHANGED loop
  BY <1>1, <1>2, <1>3, PlanQuiet
<1>4. ASSUME NEW i \in Instance, NEW l, l.pc # "claim", Step(i, l)
      PROVE  PlanInv'
  BY <1>1, <1>2, <1>4, PlanQuiet
<1>5. Asleep.pc # "claim"
  BY DEF Asleep
<1>6. ASSUME NEW i \in Instance, Poll(i) PROVE PlanInv'
  <2>1. PICK s \in SUBSET {a \in Automation : Due(a)} :
            Step(i, [pc |-> IF s = {} THEN "look" ELSE "claim",
                     rows |-> [a \in s |-> row[a]], turns |-> [a \in s |-> turn[a]]])
    BY <1>6 DEF Poll
  <2>2. \A a \in s : a \in Automation /\ Planned(row[a])
    BY <2>1 DEF Due, PlanInv, Kept
  <2> QED BY <1>1, <1>2, <2>1, <2>2, PlanQuiet
<1>7. ASSUME NEW i \in Instance, Look(i) PROVE PlanInv'
  <2>1. \E todo : Step(i, Asleep) \/ Step(i, [pc |-> "alert", todo |-> todo])
    BY <1>7 DEF Look
  <2> QED BY <1>4, <1>5, <2>1
<1>8. ASSUME NEW i \in Instance, Alert(i) PROVE PlanInv'
  <2>1. \E todo, e, r : \/ Step(i, Asleep)
                        \/ Step(i, [pc |-> "mark", todo |-> todo, copy |-> e, row |-> r])
    BY <1>8 DEF Alert
  <2> QED BY <1>4, <1>5, <2>1
<1>9. ASSUME NEW i \in Instance, Mark(i) \/ Crash(i) \/ Restart(i) PROVE PlanInv'
  BY <1>4, <1>5, <1>9 DEF Mark, Crash, Restart
<1>10. CASE \/ Tick
            \/ \E e \in Event, t \in 1..MaxTime, al \in Alerts : CreateEvent(e, t, al)
            \/ \E e \in Event : DeleteEvent(e)
  BY <1>3, <1>10 DEF Tick, CreateEvent, DeleteEvent, sched
<1> QED BY <1>6, <1>7, <1>8, <1>9, <1>10

LEMMA PlanCreation ==
    ASSUME PlanInv, NEW a \in Automation, NEW r \in Rule, NEW b \in BOOLEAN,
           CreateAutomation(a, r, b)
    PROVE  PlanInv'
<1> DEFINE new == [rule |-> r, active |-> b, next |-> NextRun(r, now)]
<1>1. /\ row' = [row EXCEPT ![a] = new] /\ UNCHANGED <<now, torn, req, loop>>
      /\ now \in 0..MaxTime /\ now \in Nat /\ now <= now'
  BY SchedulerAssumption DEF CreateAutomation, sched, PlanInv, SchedulerAssumption
<1>2. Planned(new) /\ Fresh(new.next, new.rule, now)
  BY <1>1, NextRunFresh DEF Planned
<1> HIDE DEF new
<1>3. Kept(row', torn', now') /\ row' = [c \in Automation |-> row'[c]]
  BY <1>1, <1>2 DEF PlanInv, Kept
<1> QED BY <1>1, <1>3, PlanParts DEF PlanInv

\* A commit over the row that was read leaves a next run that is due or the
\* first of the rule it leaves.
LEMMA PlanCommit ==
    ASSUME PlanInv, NEW w \in Worker, CommitRow(w)
    PROVE  PlanInv'
<1> DEFINE q   == req[w]
           cur == row[q.id]
           new == IF cur = None \/ q.op = "delete" THEN None
                  ELSE Saved(cur, q.row, Edited(q))
<1>1. /\ q.op \in {"update", "toggle", "delete"} /\ q.row # None
      /\ row' = [row EXCEPT ![q.id] = new]
      /\ torn' = IF new # None /\ (cur # q.seen \/ cur # q.row) THEN torn \cup {q.id} ELSE torn
      /\ req' = [req EXCEPT ![w] = Idle]
      /\ UNCHANGED <<now, loop>>
  BY DEF CommitRow, sched
<1>2. Sought(q, now) /\ q.id \in Automation /\ Planned(q.row)
  BY <1>1 DEF PlanInv, Sought
<1>3. CASE new = None
  <2>1. Kept(row', torn', now')
    BY <1>1, <1>2, <1>3 DEF PlanInv, Kept
  <2> HIDE DEF q, new
  <2>2. req' = [v \in Worker |-> req'[v]] /\ \A v \in Worker : req'[v] = req[v] \/ Sought(req'[v], now')
    BY <1>1 DEF PlanInv, Sought, Idle
  <2>3. row' = [c \in Automation |-> row'[c]] /\ now' \in 0..MaxTime /\ now <= now'
    BY <1>1, SchedulerAssumption DEF PlanInv, SchedulerAssumption
  <2> QED BY <1>1, <2>1, <2>2, <2>3, PlanParts DEF PlanInv
<1>4. CASE new # None
  <2>1. /\ cur # None /\ q.op \in {"update", "toggle"}
        /\ new = Saved(cur, q.row, Edited(q)) /\ Planned(cur)
    BY <1>1, <1>2, <1>4 DEF PlanInv, Kept
  <2> DEFINE ed == Edited(q)
  <2>2. Planned(ed)
    BY <1>2, <2>1 DEF Edited, Planned, Sought
  <2>3. Planned(new) /\ (cur = q.row => new.next = ed.next /\ new.rule = ed.rule
                                        /\ new.active = ed.active)
    BY <2>1, <2>2, SavedPlanned
  <2>4. q.row = q.seen /\ ed.active => Fresh(ed.next, ed.rule, now)
    <3>1. CASE q.op = "update"
      BY <1>2, <3>1 DEF Edited, Sought
    <3>2. CASE q.op = "toggle"
      BY <1>2, <3>2 DEF Edited, Sought
    <3> QED BY <2>1, <3>1, <3>2
  <2>5. q.id \notin torn' /\ new.active => Fresh(new.next, new.rule, now)
    BY <1>1, <1>4, <2>3, <2>4
  <2>6. torn \subseteq torn'
    BY <1>1
  <2> HIDE DEF q, new, ed, cur
  <2>7. Kept(row', torn', now')
    BY <1>1, <1>2, <2>3, <2>5, <2>6 DEF PlanInv, Kept
  <2>8. req' = [v \in Worker |-> req'[v]] /\ \A v \in Worker : req'[v] = req[v] \/ Sought(req'[v], now')
    BY <1>1 DEF PlanInv, Sought, Idle
  <2>9. row' = [c \in Automation |-> row'[c]] /\ now' \in 0..MaxTime /\ now <= now'
    BY <1>1, SchedulerAssumption DEF PlanInv, SchedulerAssumption
  <2> QED BY <1>1, <2>7, <2>8, <2>9, PlanParts DEF PlanInv
<1> QED BY <1>3, <1>4

\* So does a claim: the rows it has read get the first run after now.
LEMMA PlanClaim ==
    ASSUME PlanInv, NEW i \in Instance, Claim(i)
    PROVE  PlanInv'
<1> DEFINE rows   == loop[i].rows
           ran(a) == [rows[a] EXCEPT !.next = NextRun(rows[a].rule, now)]
           new    == [a \in Automation |->
                        IF a \in DOMAIN rows /\ row[a] # None
                        THEN Saved(row[a], rows[a], ran(a))
                        ELSE row[a]]
<1>1. /\ loop[i].pc = "claim" /\ Step(i, [pc |-> "look"]) /\ UNCHANGED <<now, req>>
      /\ now \in Nat /\ now <= now' /\ now' \in 0..MaxTime
  BY SchedulerAssumption DEF Claim, PlanInv, SchedulerAssumption
<1>2. \A a \in DOMAIN rows : a \in Automation /\ Planned(rows[a])
  BY <1>1 DEF PlanInv
<1>3. CASE \E a \in DOMAIN rows : row[a] = None
  <2>1. UNCHANGED <<row, torn>>
    BY <1>3 DEF Claim, auto
  <2> HIDE DEF rows, new
  <2> QED BY <1>1, <2>1, PlanQuiet
<1>4. CASE ~\E a \in DOMAIN rows : row[a] = None
  <2>1. row' = new /\ torn' = torn \cup {a \in DOMAIN rows : row[a] # rows[a]}
    BY <1>4 DEF Claim
  <2>2. ASSUME NEW a \in DOMAIN rows
        PROVE  /\ Planned(ran(a)) /\ ran(a).rule = rows[a].rule /\ ran(a).active = rows[a].active
               /\ Fresh(ran(a).next, ran(a).rule, now)
    <3>1. Planned(rows[a]) /\ rows[a].rule \in Rule
      BY <1>2 DEF Planned
    <3>2. /\ NextRun(rows[a].rule, now) \in 1..MaxTime \cup {None}
          /\ Fresh(NextRun(rows[a].rule, now), rows[a].rule, now)
      BY <1>1, <3>1, NextRunFresh
    <3> QED BY <3>1, <3>2 DEF Planned
  <2>3. \A a \in Automation : row[a] = None \/ Planned(row[a])
    BY DEF PlanInv, Kept
  <2>4. ASSUME NEW a \in DOMAIN rows
        PROVE  /\ a \in Automation /\ new[a] = Saved(row[a], rows[a], ran(a)) /\ Planned(new[a])
               /\ a \notin torn' => Fresh(new[a].next, new[a].rule, now)
    <3>1. a \in Automation /\ new[a] = Saved(row[a], rows[a], ran(a)) /\ Planned(row[a])
      BY <1>2, <1>4, <2>3
    <3>2. Planned(ran(a)) /\ Fresh(ran(a).next, ran(a).rule, now)
      BY <2>2
    <3>3. a \notin torn' => row[a] = rows[a]
      BY <2>1
    <3> HIDE DEF ran, new, rows
    <3>4. /\ Planned(Saved(row[a], rows[a], ran(a)))
          /\ row[a] = rows[a] => /\ Saved(row[a], rows[a], ran(a)).next = ran(a).next
                                 /\ Saved(row[a], rows[a], ran(a)).rule = ran(a).rule
      BY <3>1, <3>2, SavedPlanned
    <3> QED BY <3>1, <3>2, <3>3, <3>4
  <2>5. \A a \in Automation : a \notin DOMAIN rows => new[a] = row[a]
    OBVIOUS
  <2>6. new = [a \in Automation |-> new[a]]
    OBVIOUS
  <2> HIDE DEF rows, new
  <2>7. Kept(row', torn', now')
    BY <1>1, <2>1, <2>4, <2>5 DEF PlanInv, Kept
  <2>8. /\ row' = [c \in Automation |-> row'[c]] /\ req' = [w \in Worker |-> req'[w]]
        /\ loop' = [j \in Instance |-> loop'[j]]
        /\ \A j \in Instance : loop'[j] = loop[j] \/ loop'[j].pc # "claim"
    BY <1>1, <2>1, <2>6 DEF PlanInv, Step
  <2> QED BY <1>1, <2>7, <2>8, PlanParts
<1> QED BY <1>3, <1>4

LEMMA NextPlan == PlanInv /\ [Next]_vars => PlanInv'
<1> SUFFICES ASSUME PlanInv, [Next]_vars PROVE PlanInv'
  OBVIOUS
<1>1. CASE UNCHANGED vars
  BY <1>1 DEF PlanInv, vars, auto, sched
<1>2. ASSUME NEW w \in Worker,
             \/ \E a \in Automation, r \in Rule, b \in BOOLEAN \cup {None} : AskUpdate(w, a, r, b)
             \/ \E a \in Automation : AskToggle(w, a) \/ AskDelete(w, a)
             \/ \E e \in Event, t \in 1..MaxTime, al \in Alerts, c \in BOOLEAN :
                    AskEvent(w, e, t, al, c)
             \/ FetchRow(w) \/ CommitEvent(w)
      PROVE  PlanInv'
  BY <1>2, PlanAsks
<1>3. CASE \/ \E i \in Instance : \/ Poll(i) \/ Look(i) \/ Alert(i) \/ Mark(i)
                                  \/ Crash(i) \/ Restart(i)
           \/ Tick
           \/ \E e \in Event, t \in 1..MaxTime, al \in Alerts : CreateEvent(e, t, al)
           \/ \E e \in Event : DeleteEvent(e)
  BY <1>3, PlanLoops
<1>4. CASE \E a \in Automation, r \in Rule, b \in BOOLEAN : CreateAutomation(a, r, b)
  BY <1>4, PlanCreation
<1>5. CASE \E w \in Worker : CommitRow(w)
  BY <1>5, PlanCommit
<1>6. CASE \E i \in Instance : Claim(i)
  BY <1>6, PlanClaim
<1> QED BY <1>1, <1>2, <1>3, <1>4, <1>5, <1>6 DEF Next

\* On either database, for any number of automations, requests and instances:
\* the next run of an active automation is due or the first occurrence of its
\* rule, unless two writers of its row overlapped.
THEOREM PlanInvariant == Spec => []PlanInv
BY InitPlan, NextPlan, PTL DEF Spec

-----------------------------------------------------------------------------
(* The announcements *)

EventRow(r) == /\ DOMAIN r = {"start", "cancelled", "meta"}
               /\ r.start \in 1..MaxTime
               /\ DOMAIN r.meta = {"alert", "alerted"} /\ r.meta.alert \in Alerts

\* A row that is marked is of an event that was announced.
Marked(r, ru, e) == r.meta.alerted => ru[e] # {}

Events ==
    /\ event = [e \in Event |-> event[e]]
    /\ rung = [e \in Event |-> rung[e]] /\ since = [e \in Event |-> since[e]]
    /\ \A e \in Event :
          /\ rung[e] # {} => since[e] # None
          /\ event[e] # None => /\ EventRow(event[e]) /\ Marked(event[e], rung, e)
                                /\ since[e] \in Nat /\ since[e] <= now
                                /\ "calendar" \in deploy.on

\* An edit leaves the mark as it has read it.
EditOf(q, ru, si) ==
    q.op = "event" =>
        /\ q.id \in Event /\ si[q.id] # None
        /\ EventRow(q.row) /\ Marked(q.row, ru, q.id)
        /\ EventRow(q.new) /\ q.new.meta.alerted = q.row.meta.alerted

Edits == /\ req = [w \in Worker |-> req[w]]
         /\ \A w \in Worker : EditOf(req[w], rung, since)

InHand(c, si) == /\ c = [id |-> c.id, start |-> c.start]
                 /\ c.id \in Event /\ si[c.id] # None

\* What an instance has announced and is about to mark, and what it has still
\* to announce.
Ringing(l, ev, ru, si) ==
    /\ l.pc \in {"down", "asleep", "claim", "look", "alert", "mark"}
    /\ l.pc \in {"alert", "mark"} => \A c \in l.todo : InHand(c, si)
    /\ l.pc = "mark" => /\ InHand(l.copy, si) /\ l.copy.start \in ru[l.copy.id]
                        /\ l.row = None => ev[l.copy.id] = None
                        /\ l.row # None => EventRow(l.row)

Announcers == /\ loop = [i \in Instance |-> loop[i]]
              /\ \A i \in Instance : Ringing(loop[i], event, rung, since)

\* An event that has been announced is marked, or somebody is about to mark it
\* for each of the starts it has been announced for.
About(l, e, s) == l.pc = "mark" /\ l.copy = [id |-> e, start |-> s]
Unmarked(r) == r # None /\ ~r.meta.alerted

RungInv == /\ again \subseteq torn
           /\ \A e \in Event : e \notin torn /\ Unmarked(event[e]) =>
                 \A s \in rung[e] : \E i \in Instance : About(loop[i], e, s)

\* Once an instance has polled in the last tick that finds an event, the event
\* is marked, announced for the start it has, or in somebody's hands.
Handled(e) == \/ event[e].meta.alerted \/ event[e].start \in rung[e]
              \/ \E i \in Instance : Copy(e) \in Announcing(i)
              \/ Copy(e) \in left \/ LastPoll(e) \in dark
Wanted(r, t) == r # None /\ ~r.cancelled /\ r.meta.alert # "never" /\ t <= r.start
FoundInv ==
    \A e \in Event :
        /\ Wanted(event[e], since[e])
        /\ LastPoll(e) < now \/ (LastPoll(e) = now /\ polled # {})
        => Handled(e)

Clock == now \in 0..MaxTime /\ polled \subseteq Instance
AlertInv == Clock /\ Events /\ Edits /\ Announcers /\ RungInv /\ FoundInv

LEMMA LastPollTime ==
    ASSUME Events, NEW e \in Event, event[e] # None
    PROVE  LastPoll(e) \in Nat
<1>1. event[e].start \in 1..MaxTime
  BY DEF Events, EventRow
<1> QED BY <1>1, SchedulerAssumption DEF LastPoll, Grace, SchedulerAssumption

LEMMA InitAlert == Init => AlertInv
<1> SUFFICES ASSUME Init PROVE AlertInv
  OBVIOUS
<1>1. Clock
  BY SchedulerAssumption DEF Init, Clock, SchedulerAssumption
<1>2. Events /\ Edits /\ RungInv
  BY DEF Init, Events, Edits, EditOf, Idle, RungInv
<1>3. Announcers
  BY DEF Init, Announcers, Ringing, Asleep
<1>4. FoundInv
  BY DEF Init, FoundInv, Wanted
<1> QED BY <1>1, <1>2, <1>3, <1>4 DEF AlertInv

\* A step that neither changes an event nor announces one.
LEMMA AlertQuiet ==
    ASSUME AlertInv, UNCHANGED <<deploy, now, cal, polled>>, torn \subseteq torn',
           \/ UNCHANGED req
           \/ \E w \in Worker : \E q : EditOf(q, rung, since) /\ req' = [req EXCEPT ![w] = q],
           \/ UNCHANGED loop
           \/ \E i \in Instance : \E l :
                 /\ loop[i].pc \notin {"alert", "mark"}
                 /\ l.pc \in {"asleep", "claim", "look"}
                 /\ Step(i, l)
    PROVE  AlertInv'
<1> USE DEF cal, late
<1>1. Clock' /\ Events'
  BY DEF AlertInv, Clock, Events
<1>2. Edits'
  BY DEF AlertInv, Edits
<1>3. /\ loop' = [i \in Instance |-> loop'[i]]
      /\ \A i \in Instance : \/ loop'[i] = loop[i]
                             \/ /\ loop[i].pc \notin {"alert", "mark"}
                                /\ loop'[i].pc \in {"asleep", "claim", "look"}
  BY DEF AlertInv, Announcers, Step
<1>4. Announcers'
  BY <1>3 DEF AlertInv, Announcers, Ringing
<1>5. RungInv'
  BY <1>3 DEF AlertInv, RungInv, About
<1>6. \A i \in Instance : Announcing(i)' = Announcing(i)
  BY <1>3 DEF Announcing
<1>7. FoundInv'
  BY <1>6 DEF AlertInv, FoundInv, Handled, Copy, LastPoll
<1> QED BY <1>1, <1>2, <1>4, <1>5, <1>7 DEF AlertInv

LEMMA AlertAsks ==
    ASSUME AlertInv, NEW w \in Worker,
           \/ \E a \in Automation, r \in Rule, b \in BOOLEAN \cup {None} : AskUpdate(w, a, r, b)
           \/ \E a \in Automation : AskToggle(w, a) \/ AskDelete(w, a)
           \/ \E e \in Event, t \in 1..MaxTime, al \in Alerts, c \in BOOLEAN :
                  AskEvent(w, e, t, al, c)
           \/ FetchRow(w) \/ CommitRow(w)
    PROVE  AlertInv'
<1>1. /\ UNCHANGED <<deploy, now, cal, polled>> /\ UNCHANGED loop
  BY DEF AskUpdate, AskToggle, AskDelete, AskEvent, FetchRow, CommitRow, auto, sched
<1>2. torn \subseteq torn'
  <2>1. CASE CommitRow(w)
    BY <2>1 DEF CommitRow
  <2>2. CASE UNCHANGED torn
    BY <2>2
  <2> QED BY <2>1, <2>2 DEF AskUpdate, AskToggle, AskDelete, AskEvent, FetchRow
<1>3. ASSUME NEW q, EditOf(q, rung, since), req' = [req EXCEPT ![w] = q]
      PROVE  AlertInv'
  BY <1>1, <1>2, <1>3, AlertQuiet
<1>4. \A q : q.op # "event" => EditOf(q, rung, since)
  BY DEF EditOf
<1>5. CASE \/ \E a \in Automation, r \in Rule, b \in BOOLEAN \cup {None} : AskUpdate(w, a, r, b)
           \/ \E a \in Automation : AskToggle(w, a) \/ AskDelete(w, a)
  BY <1>3, <1>4, <1>5 DEF AskUpdate, AskToggle, AskDelete, Request
<1>6. ASSUME NEW e \in Event, NEW t \in 1..MaxTime, NEW al \in Alerts, NEW c \in BOOLEAN,
             AskEvent(w, e, t, al, c)
      PROVE  AlertInv'
  <2> DEFINE meta == [event[e].meta EXCEPT !.alert = al]
             q    == [op |-> "event", id |-> e, row |-> event[e],
                      new |-> [start |-> t, cancelled |-> c, meta |-> meta]]
  <2>1. event[e] # None /\ req' = [req EXCEPT ![w] = q]
    BY <1>6 DEF AskEvent, Request
  <2>2. EventRow(event[e]) /\ Marked(event[e], rung, e) /\ since[e] # None
    BY <2>1, SchedulerAssumption DEF AlertInv, Events, SchedulerAssumption
  <2>3. /\ DOMAIN meta = {"alert", "alerted"} /\ meta.alert = al
        /\ meta.alerted = event[e].meta.alerted
    BY <2>2 DEF EventRow
  <2> HIDE DEF meta
  <2>4. EditOf(q, rung, since)
    BY <2>2, <2>3 DEF EditOf, EventRow
  <2> QED BY <1>3, <2>1, <2>4
<1>7. CASE FetchRow(w)
  <2>1. \E q : q.op # "event" /\ req' = [req EXCEPT ![w] = q]
    <3> DEFINE q   == req[w]
               cur == row[q.id]
    <3>1. q.op # "event" /\ [q EXCEPT !.row = cur].op # "event" /\ Idle.op # "event"
      BY <1>7 DEF FetchRow, Idle
    <3>2. req' = [req EXCEPT ![w] = IF cur = None THEN Idle ELSE [q EXCEPT !.row = cur]]
      BY <1>7 DEF FetchRow
    <3> HIDE DEF q, cur
    <3>3. CASE cur = None
      BY <3>1, <3>2, <3>3
    <3>4. CASE cur # None
      BY <3>1, <3>2, <3>4
    <3> QED BY <3>3, <3>4
  <2> QED BY <1>3, <1>4, <2>1
<1>8. CASE CommitRow(w)
  BY <1>3, <1>4, <1>8 DEF CommitRow, Idle
<1> QED BY <1>5, <1>6, <1>7, <1>8

LEMMA AlertPolls ==
    ASSUME AlertInv,
           \/ \E a \in Automation, r \in Rule, b \in BOOLEAN : CreateAutomation(a, r, b)
           \/ \E i \in Instance : Poll(i) \/ Claim(i) \/ Restart(i)
    PROVE  AlertInv'
<1>1. UNCHANGED <<deploy, now, cal, polled>> /\ UNCHANGED req
  BY DEF CreateAutomation, Poll, Claim, Restart, sched
<1>2. torn \subseteq torn'
  <2>1. ASSUME NEW i \in Instance, Claim(i) PROVE torn \subseteq torn'
    BY <2>1 DEF Claim
  <2> QED BY <2>1 DEF CreateAutomation, Poll, Restart
<1>3. \/ UNCHANGED loop
      \/ \E i \in Instance : \E l :
            /\ loop[i].pc \notin {"alert", "mark"}
            /\ l.pc \in {"asleep", "claim", "look"}
            /\ Step(i, l)
  <2>1. CASE \E a \in Automation, r \in Rule, b \in BOOLEAN : CreateAutomation(a, r, b)
    BY <2>1 DEF CreateAutomation, sched
  <2>2. ASSUME NEW i \in Instance, Poll(i)
        PROVE  \E l : /\ loop[i].pc \notin {"alert", "mark"}
                      /\ l.pc \in {"asleep", "claim", "look"} /\ Step(i, l)
    <3>1. PICK s : Step(i, [pc |-> IF s = {} THEN "look" ELSE "claim",
                            rows |-> [a \in s |-> row[a]], turns |-> [a \in s |-> turn[a]]])
      BY <2>2 DEF Poll
    <3>2. loop[i].pc = "asleep"
      BY <2>2 DEF Poll, Asleep
    <3> QED BY <3>1, <3>2
  <2>3. ASSUME NEW i \in Instance, Claim(i) \/ Restart(i)
        PROVE  \E l : /\ loop[i].pc \notin {"alert", "mark"}
                      /\ l.pc \in {"asleep", "claim", "look"} /\ Step(i, l)
    BY <2>3 DEF Claim, Restart, Asleep
  <2> QED BY <2>1, <2>2, <2>3
<1> QED BY <1>1, <1>2, <1>3, AlertQuiet

LEMMA AlertCreation ==
    ASSUME AlertInv, NEW e \in Event, NEW t \in 1..MaxTime, NEW al \in Alerts,
           CreateEvent(e, t, al)
    PROVE  AlertInv'
<1> DEFINE new == [start |-> t, cancelled |-> FALSE, meta |-> [alert |-> al, alerted |-> FALSE]]
<1>1. /\ event[e] = None /\ since[e] = None /\ "calendar" \in deploy.on
      /\ event' = [event EXCEPT ![e] = new] /\ since' = [since EXCEPT ![e] = now]
      /\ UNCHANGED <<deploy, now, rung, again, left, dark, loop, polled, req, torn>>
  BY DEF CreateEvent, late, sched
<1>2. EventRow(new) /\ new.start = t /\ ~new.meta.alerted
  BY DEF EventRow
<1> HIDE DEF new
<1>3. now \in Nat /\ now # None /\ rung[e] = {}
  BY <1>1, SchedulerAssumption DEF AlertInv, Clock, Events, SchedulerAssumption
<1>4. /\ event'[e] = new /\ since'[e] = now
      /\ \A d \in Event : d # e => event'[d] = event[d] /\ since'[d] = since[d]
      /\ \A d \in Event : since[d] # None => since'[d] # None
  BY <1>1, <1>3 DEF AlertInv, Events
<1>5. Clock' /\ Events'
  <2>1. ASSUME NEW d \in Event, event'[d] # None
        PROVE  /\ EventRow(event'[d]) /\ Marked(event'[d], rung, d)
               /\ since'[d] \in Nat /\ since'[d] <= now
    BY <1>2, <1>3, <1>4, <2>1 DEF AlertInv, Events, Marked
  <2>2. /\ event' = [d \in Event |-> event'[d]] /\ since' = [d \in Event |-> since'[d]]
        /\ rung = [d \in Event |-> rung[d]] /\ \A d \in Event : rung[d] # {} => since'[d] # None
    BY <1>1, <1>4 DEF AlertInv, Events
  <2> QED BY <1>1, <2>1, <2>2 DEF AlertInv, Clock, Events
<1>6. Edits'
  BY <1>1, <1>4 DEF AlertInv, Edits, EditOf
<1>7. Announcers'
  <2>1. ASSUME NEW i \in Instance PROVE Ringing(loop[i], event', rung, since')
    <3>1. loop[i].pc = "mark" => loop[i].copy.id # e
      BY <1>3 DEF AlertInv, Announcers, Ringing
    <3> QED BY <1>4, <3>1 DEF AlertInv, Announcers, Ringing, InHand
  <2> QED BY <1>1, <2>1 DEF AlertInv, Announcers
<1>8. RungInv'
  <2>1. ASSUME NEW d \in Event, rung[d] # {} PROVE event'[d] = event[d]
    BY <1>3, <1>4, <2>1
  <2> QED BY <1>1, <2>1 DEF AlertInv, RungInv
<1>9. FoundInv'
  <2>1. \A i \in Instance : Announcing(i)' = Announcing(i)
    BY <1>1 DEF Announcing
  <2>2. ASSUME NEW d \in Event, d # e, Wanted(event'[d], since'[d]),
               LastPoll(d)' < now' \/ (LastPoll(d)' = now' /\ polled' # {})
        PROVE  Handled(d)'
    <3>1. LastPoll(d)' = LastPoll(d)
      BY <1>4, <2>2 DEF LastPoll
    <3> QED BY <1>1, <1>4, <2>1, <2>2, <3>1 DEF AlertInv, FoundInv, Handled, Copy
  <2>3. ~(Wanted(new, now) /\ (t + Grace < now \/ t + Grace = now))
    BY <1>2, <1>3 DEF Wanted, Grace
  <2> QED BY <1>1, <1>2, <1>4, <2>2, <2>3 DEF FoundInv, LastPoll
<1> QED BY <1>5, <1>6, <1>7, <1>8, <1>9 DEF AlertInv

LEMMA AlertEdit ==
    ASSUME AlertInv, NEW w \in Worker, CommitEvent(w)
    PROVE  AlertInv'
<1> DEFINE q   == req[w]
           e   == q.id
           cur == event[e]
           new == Saved(cur, q.row, q.new)
<1>1. /\ q.op = "event" /\ req' = [req EXCEPT ![w] = Idle]
      /\ UNCHANGED <<deploy, now, rung, again, left, dark, loop, polled>>
  BY DEF CommitEvent, late, sched
<1>2. EditOf(Idle, rung, since)
  BY DEF EditOf, Idle
<1>3. /\ e \in Event /\ since[e] # None /\ EventRow(q.row) /\ Marked(q.row, rung, e)
      /\ EventRow(q.new) /\ q.new.meta.alerted = q.row.meta.alerted
  BY <1>1 DEF AlertInv, Edits, EditOf
<1>4. CASE cur = None
  <2>1. UNCHANGED <<event, since, torn>>
    BY <1>4 DEF CommitEvent
  <2> HIDE DEF q, e
  <2> QED BY <1>1, <1>2, <2>1, AlertQuiet DEF cal, late
<1>5. CASE cur # None
  <2>1. /\ event' = [event EXCEPT ![e] = new] /\ since' = [since EXCEPT ![e] = now]
        /\ torn' = IF cur # q.row THEN torn \cup {e} ELSE torn
    BY <1>5 DEF CommitEvent
  <2>2. EventRow(cur) /\ Marked(cur, rung, e) /\ "calendar" \in deploy.on
    BY <1>3, <1>5 DEF AlertInv, Events
  <2>3. /\ EventRow(new) /\ new.meta \in {cur.meta, q.new.meta}
        /\ cur = q.row => new.meta.alerted = cur.meta.alerted
    BY <1>3, <2>2 DEF EventRow, Saved
  <2>4. Marked(new, rung, e)
    BY <1>3, <2>2, <2>3 DEF Marked
  <2>5. torn \subseteq torn' /\ (e \notin torn' => cur = q.row)
    BY <2>1
  <2>6. now \in Nat /\ now # None
    BY SchedulerAssumption DEF AlertInv, Clock, SchedulerAssumption
  <2> HIDE DEF new, cur, e, q
  <2>8. /\ event'[e] = new /\ since'[e] = now
        /\ \A d \in Event : d # e => event'[d] = event[d] /\ since'[d] = since[d]
        /\ \A d \in Event : since[d] # None => since'[d] # None
    BY <1>3, <2>1, <2>6 DEF AlertInv, Events
  <2>9. Clock' /\ Events'
    <3>1. ASSUME NEW d \in Event, event'[d] # None
          PROVE  /\ EventRow(event'[d]) /\ Marked(event'[d], rung, d)
                 /\ since'[d] \in Nat /\ since'[d] <= now
      BY <2>3, <2>4, <2>6, <2>8, <3>1 DEF AlertInv, Events
    <3>2. /\ event' = [d \in Event |-> event'[d]] /\ since' = [d \in Event |-> since'[d]]
          /\ rung = [d \in Event |-> rung[d]] /\ \A d \in Event : rung[d] # {} => since'[d] # None
      BY <2>1, <2>8 DEF AlertInv, Events
    <3> QED BY <1>1, <2>2, <3>1, <3>2 DEF AlertInv, Clock, Events
  <2>10. Edits'
    <3>1. \A v \in Worker : EditOf(req[v], rung, since')
      BY <2>8 DEF AlertInv, Edits, EditOf
    <3>2. EditOf(Idle, rung, since')
      BY DEF EditOf, Idle
    <3> QED BY <1>1, <3>1, <3>2 DEF AlertInv, Edits
  <2>11. Announcers'
    <3>1. ASSUME NEW i \in Instance PROVE Ringing(loop[i], event', rung, since')
      <4>1. loop[i].pc = "mark" /\ loop[i].row = None => loop[i].copy.id # e
        BY <1>5 DEF AlertInv, Announcers, Ringing, cur
      <4> QED BY <2>8, <4>1 DEF AlertInv, Announcers, Ringing, InHand
    <3> QED BY <1>1, <3>1 DEF AlertInv, Announcers
  <2>12. RungInv'
    <3>1. ASSUME NEW d \in Event, d \notin torn', Unmarked(event'[d]) PROVE Unmarked(event[d])
      <4>1. CASE d # e
        BY <2>8, <3>1, <4>1
      <4>2. CASE d = e
        <5>1. new.meta.alerted = cur.meta.alerted
          BY <2>3, <2>5, <3>1, <4>2
        <5> QED BY <1>5, <2>8, <3>1, <4>2, <5>1 DEF Unmarked, cur
      <4> QED BY <4>1, <4>2
    <3> QED BY <1>1, <2>5, <3>1 DEF AlertInv, RungInv
  <2>13. FoundInv'
    <3>1. \A i \in Instance : Announcing(i)' = Announcing(i)
      BY <1>1 DEF Announcing
    <3>2. ASSUME NEW d \in Event, d # e, Wanted(event'[d], since'[d]),
                 LastPoll(d)' < now' \/ (LastPoll(d)' = now' /\ polled' # {})
          PROVE  Handled(d)'
      <4>1. LastPoll(d)' = LastPoll(d)
        BY <2>8, <3>2 DEF LastPoll
      <4> QED BY <1>1, <2>8, <3>1, <3>2, <4>1 DEF AlertInv, FoundInv, Handled, Copy
    <3>3. ~(Wanted(new, now) /\ (new.start + Grace < now \/ new.start + Grace = now))
      BY <2>3, <2>6 DEF Wanted, Grace, EventRow
    <3> QED BY <1>1, <2>8, <3>2, <3>3 DEF FoundInv, LastPoll
  <2> QED BY <2>9, <2>10, <2>11, <2>12, <2>13 DEF AlertInv
<1> QED BY <1>4, <1>5

LEMMA AlertDeletion ==
    ASSUME AlertInv, NEW e \in Event, DeleteEvent(e)
    PROVE  AlertInv'
<1>1. /\ event' = [event EXCEPT ![e] = None]
      /\ UNCHANGED <<deploy, now, since, rung, again, left, dark, loop, polled, req, torn>>
  BY DEF DeleteEvent, late, sched
<1>2. event'[e] = None /\ \A d \in Event : d # e => event'[d] = event[d]
  BY <1>1 DEF AlertInv, Events
<1>3. Clock' /\ Events' /\ Edits'
  BY <1>1, <1>2 DEF AlertInv, Clock, Events, Edits
<1>4. Announcers'
  BY <1>1, <1>2 DEF AlertInv, Announcers, Ringing
<1>5. RungInv'
  BY <1>1, <1>2 DEF AlertInv, RungInv, Unmarked
<1>6. FoundInv'
  <2>1. \A i \in Instance : Announcing(i)' = Announcing(i)
    BY <1>1 DEF Announcing
  <2>2. ~Wanted(None, since[e])
    BY DEF Wanted
  <2>3. \A d \in Event : d # e => LastPoll(d)' = LastPoll(d)
    BY <1>2 DEF LastPoll
  <2> QED BY <1>1, <1>2, <2>1, <2>2, <2>3 DEF AlertInv, FoundInv, Handled, Copy
<1> QED BY <1>3, <1>4, <1>5, <1>6 DEF AlertInv

\* One instance moves on, and has to announce at most what it had.
LEMMA OneLoop ==
    ASSUME Announcers, NEW i \in Instance, NEW l, Step(i, l)
    PROVE  /\ loop' = [j \in Instance |-> loop'[j]] /\ loop'[i] = l
           /\ \A j \in Instance : j # i => loop'[j] = loop[j] /\ Announcing(j)' = Announcing(j)
BY DEF Announcers, Step, Announcing

\* The last poll that finds an event finds it, unless it is marked already.
LEMMA AlertLook ==
    ASSUME AlertInv, NEW i \in Instance, Look(i)
    PROVE  AlertInv'
<1> DEFINE found == {e \in Upcoming(now) : "calendar" \in deploy.on /\ ~event[e].meta.alerted}
           todo  == {Copy(e) : e \in found}
           l     == IF todo = {} THEN Asleep ELSE [pc |-> "alert", todo |-> todo]
<1>1. /\ loop[i].pc = "look" /\ polled' = polled \cup {i} /\ Step(i, l)
      /\ again' = again \cup {e \in found : Settled(Copy(e))}
      /\ UNCHANGED <<deploy, now, event, since, rung, left, dark, req, torn>>
  BY DEF Look, late
<1>2. /\ l.pc \in {"asleep", "alert"}
      /\ l.pc = "alert" => l.todo = todo
      /\ todo # {} => l.pc = "alert"
  BY DEF Asleep
<1>3. ASSUME NEW e \in found
      PROVE  e \in Event /\ Unmarked(event[e]) /\ InHand(Copy(e), since)
  <2>1. e \in Event /\ event[e] # None /\ ~event[e].meta.alerted
    BY DEF Upcoming
  <2>2. since[e] # None
    BY <2>1, SchedulerAssumption DEF AlertInv, Events, SchedulerAssumption
  <2> QED BY <2>1, <2>2 DEF Unmarked, InHand, Copy
<1>4. ASSUME NEW e \in Event, Wanted(event[e], since[e]), LastPoll(e) = now, ~event[e].meta.alerted
      PROVE  Copy(e) \in todo
  <2>1. EventRow(event[e]) /\ "calendar" \in deploy.on
    BY <1>4 DEF Wanted, AlertInv, Events
  <2>2. event[e].start + Grace >= now /\ event[e].start <= now + 0 /\ event[e].start <= now + 1
    BY <1>4, <2>1, SchedulerAssumption DEF LastPoll, Grace, EventRow, SchedulerAssumption
  <2>3. e \in found
    BY <1>4, <2>1, <2>2 DEF Wanted, Upcoming
  <2> QED BY <2>3
<1>10. \A c \in todo : InHand(c, since)
  BY <1>3
<1> HIDE DEF found, todo, l
<1>5. /\ loop' = [j \in Instance |-> loop'[j]] /\ loop'[i] = l
      /\ \A j \in Instance : j # i => loop'[j] = loop[j] /\ Announcing(j)' = Announcing(j)
  BY <1>1, OneLoop DEF AlertInv
<1>6. Clock' /\ Events' /\ Edits'
  BY <1>1 DEF AlertInv, Clock, Events, Edits
<1>7. Announcers'
  <2>1. Ringing(l, event, rung, since)
    <3>1. CASE l.pc = "asleep"
      BY <3>1 DEF Ringing
    <3>2. CASE l.pc = "alert"
      BY <1>2, <1>10, <3>2 DEF Ringing
    <3> QED BY <1>2, <3>1, <3>2
  <2> QED BY <1>1, <1>5, <2>1 DEF AlertInv, Announcers
<1>8. RungInv'
  <2>1. ASSUME NEW e \in found, Settled(Copy(e)) PROVE e \in torn
    <3>1. event[e].start \in rung[e]
      BY <2>1 DEF Settled, Copy
    <3>2. \A j \in Instance : ~About(loop[j], e, event[e].start)
      BY <2>1 DEF Settled, Copy, About
    <3> QED BY <1>3, <3>1, <3>2 DEF AlertInv, RungInv
  <2>2. again' \subseteq torn
    BY <1>1, <2>1 DEF AlertInv, RungInv
  <2>3. ASSUME NEW e, NEW s, NEW j \in Instance, About(loop[j], e, s)
        PROVE  About(loop'[j], e, s)
    BY <1>1, <1>5, <2>3 DEF About
  <2> QED BY <1>1, <2>2, <2>3 DEF AlertInv, RungInv
<1>9. FoundInv'
  <2>1. Announcing(i) = {} /\ (todo # {} => Announcing(i)' = todo)
    BY <1>1, <1>2, <1>5 DEF Announcing
  <2>2. ASSUME NEW e \in Event, Handled(e) PROVE Handled(e)'
    BY <1>1, <1>5, <2>1, <2>2 DEF Handled, Copy, LastPoll
  <2>3. ASSUME NEW e \in Event, Wanted(event[e], since[e]), LastPoll(e) = now
        PROVE  Handled(e)'
    <3>1. CASE event[e].meta.alerted
      <4>1. event' = event
        BY <1>1
      <4> QED BY <3>1, <4>1 DEF Handled
    <3>2. CASE ~event[e].meta.alerted
      <4>1. Copy(e) \in Announcing(i)'
        BY <1>4, <2>1, <2>3, <3>2
      <4>2. Copy(e)' = Copy(e)
        BY <1>1 DEF Copy
      <4> QED BY <4>1, <4>2 DEF Handled
    <3> QED BY <3>1, <3>2
  <2> QED BY <1>1, <2>2, <2>3 DEF AlertInv, FoundInv, LastPoll
<1> QED BY <1>6, <1>7, <1>8, <1>9 DEF AlertInv

\* An instance announces only what it has neither announced nor lost.
LEMMA AlertAlert ==
    ASSUME AlertInv, NEW i \in Instance, Alert(i)
    PROVE  AlertInv'
<1> DEFINE todo == loop[i].todo
<1>1. /\ loop[i].pc = "alert"
      /\ UNCHANGED <<deploy, now, event, since, again, left, dark, polled, req, torn>>
  BY DEF Alert, late
<1>2. \A c \in todo : InHand(c, since)
  BY <1>1 DEF AlertInv, Announcers, Ringing
<1>3. CASE todo = {}
  <2>1. Step(i, Asleep) /\ UNCHANGED rung
    BY <1>3 DEF Alert
  <2>2. /\ loop' = [j \in Instance |-> loop'[j]] /\ loop'[i] = Asleep
        /\ \A j \in Instance : j # i => loop'[j] = loop[j] /\ Announcing(j)' = Announcing(j)
    BY <2>1, OneLoop DEF AlertInv
  <2>3. Announcing(i) = {}
    BY <1>1, <1>3 DEF Announcing
  <2>4. Clock' /\ Events' /\ Edits' /\ Announcers'
    <3>1. Clock' /\ Events' /\ Edits'
      BY <1>1, <2>1 DEF AlertInv, Clock, Events, Edits
    <3>2. Ringing(Asleep, event, rung, since)
      BY DEF Ringing, Asleep
    <3> QED BY <1>1, <2>1, <2>2, <3>1, <3>2 DEF AlertInv, Announcers
  <2>5. RungInv'
    <3>1. ASSUME NEW e, NEW s, NEW j \in Instance, About(loop[j], e, s)
          PROVE  About(loop'[j], e, s)
      BY <1>1, <2>2, <3>1 DEF About
    <3> QED BY <1>1, <2>1, <3>1 DEF AlertInv, RungInv
  <2>6. ASSUME NEW e \in Event, Handled(e) PROVE Handled(e)'
    BY <1>1, <2>1, <2>2, <2>3, <2>6 DEF Handled, Copy, LastPoll
  <2>7. FoundInv'
    BY <1>1, <2>1, <2>6 DEF AlertInv, FoundInv, LastPoll
  <2> QED BY <2>4, <2>5, <2>7 DEF AlertInv
<1>4. CASE todo # {}
  <2>0. PICK c \in todo :
          /\ rung' = [rung EXCEPT ![c.id] = rung[c.id] \cup {c.start}]
          /\ Step(i, [pc |-> "mark", todo |-> todo \ {c}, copy |-> c, row |-> event[c.id]])
    BY <1>4 DEF Alert
  <2> DEFINE e == c.id
             l == [pc |-> "mark", todo |-> todo \ {c}, copy |-> c, row |-> event[e]]
  <2>1. rung' = [rung EXCEPT ![e] = rung[e] \cup {c.start}] /\ Step(i, l)
    BY <2>0
  <2>2. /\ l.pc = "mark" /\ l.todo = todo \ {c} /\ l.copy = c /\ l.row = event[e]
        /\ e \in Event /\ since[e] # None /\ c = [id |-> e, start |-> c.start]
    BY <1>2 DEF InHand
  <2> HIDE DEF e, l, todo
  <2>3. /\ rung' = [d \in Event |-> rung'[d]] /\ rung'[e] = rung[e] \cup {c.start}
        /\ \A d \in Event : d # e => rung'[d] = rung[d]
    BY <2>1, <2>2 DEF AlertInv, Events
  <2>4. \A d \in Event : rung[d] \subseteq rung'[d]
    BY <2>3
  <2>5. /\ loop' = [j \in Instance |-> loop'[j]] /\ loop'[i] = l
        /\ \A j \in Instance : j # i => loop'[j] = loop[j] /\ Announcing(j)' = Announcing(j)
    BY <2>1, OneLoop DEF AlertInv
  <2>6. Clock' /\ Events'
    BY <1>1, <2>2, <2>3, <2>4 DEF AlertInv, Clock, Events, Marked
  <2>7. Edits'
    BY <1>1, <2>4 DEF AlertInv, Edits, EditOf, Marked
  <2>8. Announcers'
    <3>1. ASSUME NEW j \in Instance, NEW m, Ringing(m, event, rung, since)
          PROVE  Ringing(m, event, rung', since)
      BY <2>4, <3>1 DEF Ringing, InHand
    <3>2. event[e] # None => EventRow(event[e])
      BY <2>2 DEF AlertInv, Events
    <3>3. /\ \A k \in l.todo : InHand(k, since)
          /\ InHand(l.copy, since) /\ l.copy.id = e /\ l.copy.start \in rung'[e]
      BY <1>2, <2>2, <2>3 DEF e, todo
    <3>4. Ringing(l, event, rung', since)
      BY <2>2, <3>2, <3>3 DEF Ringing
    <3> QED BY <1>1, <2>5, <3>1, <3>4 DEF AlertInv, Announcers
  <2>9. RungInv'
    <3>1. ASSUME NEW d, NEW s, NEW j \in Instance, About(loop[j], d, s)
          PROVE  About(loop'[j], d, s)
      BY <1>1, <2>5, <3>1 DEF About
    <3>2. About(loop'[i], e, c.start)
      BY <2>2, <2>5 DEF About
    <3>3. ASSUME NEW d \in Event, d \notin torn, Unmarked(event[d]), NEW s \in rung'[d]
          PROVE  \E j \in Instance : About(loop'[j], d, s)
      <4>1. CASE s \in rung[d]
        BY <3>1, <3>3, <4>1 DEF AlertInv, RungInv
      <4>2. CASE s \notin rung[d]
        BY <2>3, <3>2, <3>3, <4>2
      <4> QED BY <4>1, <4>2
    <3> QED BY <1>1, <3>3 DEF AlertInv, RungInv
  <2>10. FoundInv'
    <3>1. Announcing(i) = todo /\ Announcing(i)' = todo \ {c}
      BY <1>1, <2>2, <2>5 DEF Announcing, todo
    <3>2. ASSUME NEW d \in Event, Handled(d) PROVE Handled(d)'
      <4>1. Copy(d)' = Copy(d) /\ LastPoll(d)' = LastPoll(d)
        BY <1>1 DEF Copy, LastPoll
      <4>2. CASE Copy(d) = c
        <5>1. d = e /\ event[d].start = c.start
          BY <4>2 DEF Copy, e
        <5> QED BY <1>1, <2>3, <5>1 DEF Handled
      <4>3. CASE Copy(d) # c
        BY <1>1, <2>4, <2>5, <3>1, <3>2, <4>1, <4>3 DEF Handled
      <4> QED BY <4>2, <4>3
    <3> QED BY <1>1, <3>2 DEF AlertInv, FoundInv, LastPoll
  <2> QED BY <2>6, <2>7, <2>8, <2>9, <2>10 DEF AlertInv
<1> QED BY <1>3, <1>4

\* A mark over the row that was read is there for every instance to see.
LEMMA AlertMark ==
    ASSUME AlertInv, NEW i \in Instance, Mark(i)
    PROVE  AlertInv'
<1> DEFINE e    == loop[i].copy.id
           old  == loop[i].row
           todo == loop[i].todo
           l    == [pc |-> "alert", todo |-> todo]
<1>1. /\ loop[i].pc = "mark" /\ Step(i, l)
      /\ UNCHANGED <<deploy, now, since, rung, again, left, dark, polled, req>>
  BY DEF Mark, late
<1>2. /\ e \in Event /\ rung[e] # {} /\ since[e] # None
      /\ old = None => event[e] = None
      /\ old # None => EventRow(old)
      /\ \A c \in todo : InHand(c, since)
  BY <1>1 DEF AlertInv, Announcers, Ringing, InHand
<1> HIDE DEF l
<1>3. /\ loop' = [j \in Instance |-> loop'[j]] /\ loop'[i] = l
      /\ \A j \in Instance : j # i => loop'[j] = loop[j] /\ Announcing(j)' = Announcing(j)
  BY <1>1, OneLoop DEF AlertInv
<1> USE DEF l
<1>4. Announcing(i)' = Announcing(i)
  BY <1>1, <1>3 DEF Announcing
<1>5. \A j \in Instance : Announcing(j)' = Announcing(j)
  BY <1>3, <1>4
<1>6. \A ev : Ringing(l, ev, rung, since)
  BY <1>2 DEF Ringing
<1>7. ASSUME NEW d, d # e, NEW s, NEW j \in Instance, About(loop[j], d, s)
      PROVE  About(loop'[j], d, s)
  <2>1. j # i
    BY <1>7 DEF About
  <2> QED BY <1>3, <1>7, <2>1
<1>8. CASE event[e] = None \/ old = None
  <2>1. UNCHANGED <<event, torn>> /\ event[e] = None
    BY <1>2, <1>8 DEF Mark
  <2>2. Clock' /\ Events' /\ Edits'
    BY <1>1, <2>1 DEF AlertInv, Clock, Events, Edits
  <2> HIDE DEF e, old, todo, l
  <2>3. Announcers'
    BY <1>1, <1>3, <1>6, <2>1 DEF AlertInv, Announcers
  <2>4. RungInv'
    <3>1. ~Unmarked(event[e])
      BY <2>1 DEF Unmarked
    <3> QED BY <1>1, <1>7, <2>1, <3>1 DEF AlertInv, RungInv
  <2>5. FoundInv'
    BY <1>1, <1>5, <2>1 DEF AlertInv, FoundInv, Handled, Copy, LastPoll
  <2> QED BY <2>2, <2>3, <2>4, <2>5 DEF AlertInv
<1>9. CASE event[e] # None /\ old # None
  <2> DEFINE marked == [old EXCEPT !.meta.alerted = TRUE]
             new    == Saved(event[e], old, marked)
  <2>1. /\ event' = [event EXCEPT ![e] = new]
        /\ torn' = IF event[e] # old THEN torn \cup {e} ELSE torn
    BY <1>9 DEF Mark
  <2>2. EventRow(event[e]) /\ EventRow(old) /\ since[e] # None
    BY <1>2, <1>9, SchedulerAssumption DEF AlertInv, Events, SchedulerAssumption
  <2>3. EventRow(marked) /\ marked.meta.alerted
    BY <2>2 DEF EventRow
  <2>13. marked.start = old.start /\ marked.cancelled = old.cancelled
    BY <2>2 DEF EventRow
  <2> HIDE DEF marked
  <2>4. /\ EventRow(new) /\ (event[e] = old => new.meta = marked.meta)
        /\ new.start = event[e].start /\ new.cancelled = event[e].cancelled
        /\ new.meta \in {event[e].meta, marked.meta}
    BY <2>2, <2>3, <2>13 DEF EventRow, Saved
  <2>5. torn \subseteq torn' /\ (e \notin torn' => new.meta.alerted)
    BY <2>1, <2>3, <2>4
  <2> HIDE DEF new
  <2>6. /\ event' = [d \in Event |-> event'[d]] /\ event'[e] = new
        /\ \A d \in Event : d # e => event'[d] = event[d]
    BY <1>2, <2>1 DEF AlertInv, Events
  <2>7. \A d \in Event : event'[d] # None => event[d] # None
    BY <1>9, <2>6
  <2> HIDE DEF e, old, todo, l
  <2>8. Clock' /\ Edits'
    BY <1>1 DEF AlertInv, Clock, Edits
  <2>9. Events'
    <3>1. ASSUME NEW d \in Event, event'[d] # None
          PROVE  /\ EventRow(event'[d]) /\ Marked(event'[d], rung, d)
                 /\ since[d] \in Nat /\ since[d] <= now /\ "calendar" \in deploy.on
      <4>1. /\ EventRow(event[d]) /\ Marked(event[d], rung, d)
            /\ since[d] \in Nat /\ since[d] <= now /\ "calendar" \in deploy.on
        BY <2>7, <3>1 DEF AlertInv, Events
      <4>2. CASE d = e
        BY <1>2, <2>4, <2>6, <4>1, <4>2 DEF Marked
      <4>3. CASE d # e
        BY <2>6, <4>1, <4>3
      <4> QED BY <4>2, <4>3
    <3> QED BY <1>1, <2>6, <3>1 DEF AlertInv, Events
  <2>10. Announcers'
    <3>1. ASSUME NEW j \in Instance PROVE Ringing(loop[j], event', rung, since)
      <4>1. Ringing(loop[j], event, rung, since)
        BY DEF AlertInv, Announcers
      <4>2. loop[j].pc = "mark" /\ loop[j].row = None => loop[j].copy.id # e
        BY <1>9, <4>1 DEF Ringing
      <4> QED BY <1>2, <2>6, <4>1, <4>2 DEF Ringing, InHand
    <3> QED BY <1>1, <1>3, <1>6, <3>1 DEF AlertInv, Announcers
  <2>11. RungInv'
    <3>1. ASSUME NEW d \in Event, d \notin torn', Unmarked(event'[d])
          PROVE  d # e /\ Unmarked(event[d])
      <4>1. d # e
        BY <2>5, <2>6, <3>1 DEF Unmarked
      <4> QED BY <2>6, <3>1, <4>1
    <3> QED BY <1>1, <1>7, <2>5, <3>1 DEF AlertInv, RungInv
  <2>12. FoundInv'
    <3>1. ASSUME NEW d \in Event, Wanted(event'[d], since[d]),
                 LastPoll(d)' < now \/ (LastPoll(d)' = now /\ polled # {})
          PROVE  Handled(d)'
      <4>1. CASE event'[d].meta.alerted
        BY <4>1 DEF Handled
      <4>2. CASE ~event'[d].meta.alerted
        <5>1. /\ event'[d].start = event[d].start /\ event'[d].meta = event[d].meta
              /\ event'[d].cancelled = event[d].cancelled /\ event[d] # None
          <6>1. CASE d = e
            BY <1>9, <2>3, <2>4, <2>6, <4>2, <6>1
          <6>2. CASE d # e
            BY <2>6, <3>1, <6>2 DEF Wanted
          <6> QED BY <6>1, <6>2
        <5>2. LastPoll(d)' = LastPoll(d) /\ Copy(d)' = Copy(d) /\ Wanted(event[d], since[d])
          BY <3>1, <5>1 DEF LastPoll, Copy, Wanted
        <5>3. Handled(d)
          BY <3>1, <5>2 DEF AlertInv, FoundInv
        <5> QED BY <1>1, <1>5, <5>1, <5>2, <5>3 DEF Handled
      <4> QED BY <4>1, <4>2
    <3> QED BY <1>1, <3>1 DEF FoundInv
  <2> QED BY <2>8, <2>9, <2>10, <2>11, <2>12 DEF AlertInv
<1> QED BY <1>8, <1>9

\* What dies with an instance is recorded if no later poll can find it.
LEMMA AlertCrash ==
    ASSUME AlertInv, NEW i \in Instance, Crash(i)
    PROVE  AlertInv'
<1> DEFINE lost == {c \in Announcing(i) : event[c.id] # None /\ LastPoll(c.id) <= now}
           l    == [pc |-> "down"]
<1>1. /\ Step(i, l) /\ left' = left \cup lost
      /\ torn' = IF loop[i].pc = "mark" THEN torn \cup {loop[i].copy.id} ELSE torn
      /\ UNCHANGED <<deploy, now, event, since, rung, again, dark, polled, req>>
  BY DEF Crash
<1>2. l.pc = "down"
  OBVIOUS
<1> HIDE DEF l
<1>3. /\ loop' = [j \in Instance |-> loop'[j]] /\ loop'[i] = l
      /\ \A j \in Instance : j # i => loop'[j] = loop[j] /\ Announcing(j)' = Announcing(j)
  BY <1>1, OneLoop DEF AlertInv
<1>4. Clock' /\ Events' /\ Edits'
  BY <1>1 DEF AlertInv, Clock, Events, Edits
<1>5. Announcers'
  <2>1. Ringing(l, event, rung, since)
    BY <1>2 DEF Ringing
  <2> QED BY <1>1, <1>3, <2>1 DEF AlertInv, Announcers
<1>6. RungInv'
  <2>1. torn \subseteq torn'
    BY <1>1
  <2>2. ASSUME NEW e, e \notin torn', NEW s, NEW j \in Instance, About(loop[j], e, s)
        PROVE  About(loop'[j], e, s)
    <3>1. j # i
      BY <1>1, <2>2 DEF About
    <3> QED BY <1>3, <2>2, <3>1
  <2> QED BY <1>1, <2>1, <2>2 DEF AlertInv, RungInv
<1>7. FoundInv'
  <2>1. SUFFICES ASSUME NEW e \in Event, Wanted(event[e], since[e]),
                        LastPoll(e) < now \/ (LastPoll(e) = now /\ polled # {})
                 PROVE  Handled(e)'
    BY <1>1 DEF FoundInv, LastPoll
  <2>2. Handled(e)
    BY <2>1 DEF AlertInv, FoundInv
  <2>3. event[e] # None /\ LastPoll(e) <= now
    <3>1. event[e] # None /\ LastPoll(e) \in Nat /\ now \in Nat
      BY <2>1, LastPollTime, SchedulerAssumption DEF Wanted, AlertInv, Clock, SchedulerAssumption
    <3> QED BY <2>1, <3>1
  <2>4. CASE Copy(e) \in Announcing(i)
    <3>1. Copy(e) \in lost
      BY <2>3, <2>4 DEF Copy
    <3> QED BY <1>1, <3>1 DEF Handled, Copy
  <2>5. CASE Copy(e) \notin Announcing(i)
    BY <1>1, <1>3, <2>2, <2>5 DEF Handled, Copy, LastPoll
  <2> QED BY <2>4, <2>5
<1> QED BY <1>4, <1>5, <1>6, <1>7 DEF AlertInv

\* A tick in which nobody polled is dark.
LEMMA AlertTick ==
    ASSUME AlertInv, Tick
    PROVE  AlertInv'
<1>1. /\ now < MaxTime /\ now' = now + 1 /\ polled' = {}
      /\ dark' = IF polled = {} THEN dark \cup {now} ELSE dark
      /\ UNCHANGED <<deploy, event, since, rung, again, left, loop, req, torn>>
  BY DEF Tick
<1>2. now \in Nat
  BY SchedulerAssumption DEF AlertInv, Clock, SchedulerAssumption
<1>3. Clock'
  BY <1>1, <1>2, SchedulerAssumption DEF AlertInv, Clock, SchedulerAssumption
<1>4. Events'
  <2>1. \A e \in Event : since[e] \in Nat /\ since[e] <= now => since[e] <= now + 1
    BY <1>2
  <2> QED BY <1>1, <2>1 DEF AlertInv, Events
<1>5. Edits' /\ Announcers' /\ RungInv'
  BY <1>1 DEF AlertInv, Edits, Announcers, RungInv
<1>6. FoundInv'
  <2>1. SUFFICES ASSUME NEW e \in Event, Wanted(event[e], since[e]), LastPoll(e) < now + 1
                 PROVE  Handled(e)'
    BY <1>1 DEF FoundInv, LastPoll
  <2>2. LastPoll(e) \in Nat
    BY <2>1, LastPollTime DEF Wanted, AlertInv
  <2>3. LastPoll(e) < now \/ LastPoll(e) = now
    BY <1>2, <2>1, <2>2
  <2>4. Handled(e) => Handled(e)'
    BY <1>1 DEF Handled, Copy, LastPoll, Announcing
  <2>5. CASE LastPoll(e) = now /\ polled = {}
    BY <1>1, <2>5 DEF Handled, Copy, LastPoll
  <2>6. CASE ~(LastPoll(e) = now /\ polled = {})
    BY <2>1, <2>3, <2>4, <2>6 DEF AlertInv, FoundInv
  <2> QED BY <2>5, <2>6
<1> QED BY <1>3, <1>4, <1>5, <1>6 DEF AlertInv

LEMMA NextAlert == AlertInv /\ [Next]_vars => AlertInv'
<1> SUFFICES ASSUME AlertInv, [Next]_vars PROVE AlertInv'
  OBVIOUS
<1>1. CASE UNCHANGED vars
  BY <1>1, AlertQuiet DEF vars, sched
<1>2. ASSUME NEW w \in Worker,
             \/ \E a \in Automation, r \in Rule, b \in BOOLEAN \cup {None} : AskUpdate(w, a, r, b)
             \/ \E a \in Automation : AskToggle(w, a) \/ AskDelete(w, a)
             \/ \E e \in Event, t \in 1..MaxTime, al \in Alerts, c \in BOOLEAN :
                    AskEvent(w, e, t, al, c)
             \/ FetchRow(w) \/ CommitRow(w)
      PROVE  AlertInv'
  BY <1>2, AlertAsks
<1>3. CASE \/ \E a \in Automation, r \in Rule, b \in BOOLEAN : CreateAutomation(a, r, b)
           \/ \E i \in Instance : Poll(i) \/ Claim(i) \/ Restart(i)
  BY <1>3, AlertPolls
<1>4. CASE \/ \E e \in Event, t \in 1..MaxTime, al \in Alerts : CreateEvent(e, t, al)
           \/ \E w \in Worker : CommitEvent(w)
           \/ \E e \in Event : DeleteEvent(e)
  BY <1>4, AlertCreation, AlertEdit, AlertDeletion
<1>5. CASE \/ \E i \in Instance : Look(i) \/ Alert(i) \/ Mark(i) \/ Crash(i)
           \/ Tick
  BY <1>5, AlertLook, AlertAlert, AlertMark, AlertCrash, AlertTick
<1> QED BY <1>1, <1>2, <1>3, <1>4, <1>5 DEF Next

\* For any number of instances, events, edits and crashes: the announcements are
\* where the events, the marks and the polls of the tick say they are.
THEOREM AlertInvariant == Spec => []AlertInv
BY InitAlert, NextAlert, PTL DEF Spec

-----------------------------------------------------------------------------
(* What the two invariants give *)

\* claim_due, updates and toggles never skip an occurrence of an automation that
\* stays active, nor stop its schedule, unless two writers of its row overlapped.
THEOREM NeverOffSchedule == Spec => []Scheduled
<1>1. PlanInv /\ AlertInv => Scheduled
  <2> SUFFICES ASSUME PlanInv, AlertInv PROVE Scheduled
    OBVIOUS
  <2>1. TypeOK
    BY DEF TypeOK, PlanInv, Kept, Planned, AlertInv, Clock, Events, EventRow, Announcers, Ringing
  <2>2. \A a \in Automation \ torn :
            row[a] # None /\ row[a].active => Fresh(row[a].next, row[a].rule, now)
    BY DEF PlanInv, Kept
  <2> QED BY <2>1, <2>2 DEF Scheduled, Fresh
<1> QED BY <1>1, PlanInvariant, AlertInvariant, PTL

\* An event that was to be announced has been for the start it has, or is in the
\* hands of an instance, once no poll can find it, unless it bears the mark of
\* another start, all were down or one died at the last poll.
THEOREM AnnouncedInTime == Spec => []NotMissed
<1>1. ASSUME AlertInv, NEW e \in Event, Awaited(e)
      PROVE  Announced(e) \/ MarkedForAnother(e)
  <2>1. Handled(e) /\ Marked(event[e], rung, e)
    BY <1>1 DEF AlertInv, FoundInv, Wanted, Awaited, Events
  <2> QED BY <2>1 DEF Handled, Marked, Announced, MarkedForAnother
<1>2. AlertInv => NotMissed
  BY <1>1 DEF NotMissed
<1> QED BY <1>2, AlertInvariant, PTL

\* No poll of any instance announces an event again for a start it has been
\* announced and marked for, unless an instance died between the announcement
\* and the mark, or the event was edited between them.
THEOREM AnnouncedOnce == Spec => []RungOnce
<1>1. AlertInv => RungOnce
  BY DEF AlertInv, RungInv, RungOnce
<1> QED BY <1>1, AlertInvariant, PTL

=============================================================================
