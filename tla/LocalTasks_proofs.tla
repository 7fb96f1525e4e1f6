-------------------------- MODULE LocalTasks_proofs --------------------------
(***************************************************************************)
(* What the registry without Redis promises, for any number of tasks and   *)
(* stops: what runs is reachable, what has gone leaves no trace, and a     *)
(* stop ends at least the first task.                                      *)
(***************************************************************************)
EXTENDS LocalTasks, TLAPS

-----------------------------------------------------------------------------
(* The inductive invariant *)


\* A stop was given a list that was not empty, and is past the first task of
\* that list: it has ended, or the stop waits for it.
Past(s) ==
    LET q == stopper[s]
    IN  /\ q.pc # "idle" => q.found # <<>>
        /\ q.pc = "all stopped" => Done(q.found[1])
        /\ q.pc = "waiting" => Done(q.found[1]) \/ q.on = {q.found[1]}

\* What is known of a task by the state of its coroutine.
Traces(t) ==
    /\ life[t] = "unborn" => t \notin Range(listed)
    /\ life[t] = "running" => t \in Range(listed) /\ (t \in tasks \/ t \in cancelled)
    /\ life[t] = "gone" => t \notin tasks /\ t \notin Range(listed)

LocalInv ==
    /\ TypeOK
    /\ \A t \in Task : Traces(t)
    /\ \A s \in Stopper : Past(s)

\* Removing a value from a list without duplicates leaves the others.
LEMMA Removal ==
  ASSUME NEW T, NEW q \in Seq(T), IsInjective(q), NEW t
  PROVE  /\ RemoveFirst(q, t) \in Seq(T)
         /\ IsInjective(RemoveFirst(q, t))
         /\ Range(RemoveFirst(q, t)) = Range(q) \ {t}
  <1>1. CASE \E i \in 1..Len(q) : q[i] = t
    <2> DEFINE I == {i \in 1..Len(q) : q[i] = t}
    <2>1. PICK k \in 1..Len(q) : q[k] = t
      BY <1>1
    <2>2. I = {k}
      BY <2>1 DEF IsInjective
    <2>3. Min(I) = k
      BY <2>2 DEF Min
    <2>4. SelectInSeq(q, LAMBDA v : v = t) = k
      BY <2>2, <2>3 DEF SelectInSeq
    <2>5. PICK a, b : a = SubSeq(q, 1, k-1) /\ b = SubSeq(q, k+1, Len(q))
      OBVIOUS
    <2>13. a \in Seq(T) /\ Len(a) = k - 1 /\ \A i \in 1..k-1 : a[i] = q[i]
      BY <2>5
    <2>14. b \in Seq(T) /\ Len(b) = Len(q) - k /\ \A i \in 1..Len(q)-k : b[i] = q[i+k]
      BY <2>5
    <2>15. PICK r : r = a \o b
      OBVIOUS
    <2>6. RemoveFirst(q, t) = r
      BY <1>1, <2>4, <2>5, <2>15 DEF RemoveFirst, RemoveAt
    <2>7. r \in Seq(T) /\ Len(r) = Len(q) - 1
      BY <2>13, <2>14, <2>15
    <2> HIDE DEF I
    <2>8. \A i \in 1..Len(r) : r[i] = IF i < k THEN q[i] ELSE q[i+1]
      <3> SUFFICES ASSUME NEW i \in 1..Len(r) PROVE r[i] = IF i < k THEN q[i] ELSE q[i+1]
        OBVIOUS
      <3>1. CASE i < k
        <4>1. i \in 1..Len(a)
          BY <3>1, <2>7, <2>13
        <4>2. r[i] = a[i]
          BY <4>1, <2>13, <2>14, <2>15
        <4> QED BY <4>1, <4>2, <3>1, <2>13
      <3>2. CASE i >= k
        <4>1. r[i] = b[i - (k-1)]
          BY <3>2, <2>13, <2>14, <2>15
        <4>2. i - (k-1) \in 1..Len(q)-k /\ i - (k-1) + k = i + 1
          BY <3>2, <2>7
        <4> QED BY <4>1, <4>2, <3>2, <2>14
      <3> QED BY <3>1, <3>2
    <2>9. IsInjective(r)
      <3> SUFFICES ASSUME NEW i \in 1..Len(r), NEW j \in 1..Len(r), r[i] = r[j] PROVE i = j
        BY <2>7 DEF IsInjective
      <3> DEFINE at(x) == IF x < k THEN x ELSE x + 1
      <3>1. at(i) \in 1..Len(q) /\ at(j) \in 1..Len(q)
        BY <2>7
      <3>2. r[i] = q[at(i)] /\ r[j] = q[at(j)]
        BY <2>8
      <3>3. at(i) = at(j)
        <4>1. DOMAIN q = 1..Len(q)
          OBVIOUS
        <4> HIDE DEF at
        <4> QED BY <3>1, <3>2, <4>1 DEF IsInjective
      <3> QED BY <3>3
    <2>10. \A i \in DOMAIN r : r[i] \in Range(q) \ {t}
      BY <2>1, <2>7, <2>8 DEF IsInjective, Range
    <2>11. ASSUME NEW j \in DOMAIN q, q[j] # t PROVE q[j] \in Range(r)
      <3>1. CASE j < k BY <3>1, <2>7, <2>8 DEF Range
      <3>2. CASE j > k
        <4>1. j - 1 \in DOMAIN r /\ r[j - 1] = q[j]
          BY <3>2, <2>7, <2>8
        <4> QED BY <4>1 DEF Range
      <3> QED BY <3>1, <3>2, <2>1, <2>11
    <2>12. Range(r) = Range(q) \ {t}
      BY <2>10, <2>11 DEF Range
    <2> QED BY <2>6, <2>7, <2>9, <2>12
  <1>2. CASE ~(\E i \in 1..Len(q) : q[i] = t)
    <2>1. RemoveFirst(q, t) = q
      BY <1>2 DEF RemoveFirst
    <2> QED BY <1>2, <2>1 DEF Range
  <1> QED BY <1>1, <1>2

LEMMA StopFields ==
  ASSUME NEW rec \in StopCall
  PROVE  rec.at \in Nat \ {0} /\ rec.stale \in BOOLEAN /\ rec.found \in Seq(Task)
  BY DEF StopCall

LEMMA FirstOf ==
  ASSUME NEW T, NEW q \in Seq(T), q # <<>>
  PROVE  q[1] \in T
  OBVIOUS

\* create_task puts a new id at the end.
LEMMA Addition ==
  ASSUME NEW T, NEW q \in Seq(T), IsInjective(q), NEW t \in T, t \notin Range(q)
  PROVE  /\ Append(q, t) \in Seq(T)
         /\ IsInjective(Append(q, t))
         /\ Range(Append(q, t)) = Range(q) \cup {t}
  <1>1. PICK r : r = Append(q, t)
    OBVIOUS
  <1>2. r \in Seq(T) /\ Len(r) = Len(q) + 1
    BY <1>1
  <1>3. \A i \in 1..Len(r) : r[i] = IF i <= Len(q) THEN q[i] ELSE t
    BY <1>1, <1>2
  <1>4. IsInjective(r)
    <2>1. \A i \in 1..Len(q) : q[i] # t
      BY DEF Range
    <2> QED BY <2>1, <1>2, <1>3 DEF IsInjective
  <1>5. ASSUME NEW x \in Range(q) \cup {t} PROVE x \in Range(r)
    <2>1. CASE x = t
      <3>1. Len(q) + 1 \in DOMAIN r /\ r[Len(q) + 1] = t
        BY <1>2, <1>3
      <3> QED BY <3>1, <2>1 DEF Range
    <2>2. CASE x # t
      <3>1. PICK i \in DOMAIN q : q[i] = x
        BY <2>2, <1>5 DEF Range
      <3>2. i \in DOMAIN r /\ r[i] = x
        BY <3>1, <1>2, <1>3
      <3> QED BY <3>2 DEF Range
    <2> QED BY <2>1, <2>2
  <1>6. Range(r) \subseteq Range(q) \cup {t}
    BY <1>2, <1>3 DEF Range
  <1> QED BY <1>1, <1>2, <1>4, <1>5, <1>6

LEMMA LocalInit == Init => LocalInv
  <1> SUFFICES ASSUME Init PROVE LocalInv
    OBVIOUS
  <1>1. listed \in Seq(Task) /\ IsInjective(listed) /\ Range(listed) = {}
    BY DEF Init, IsInjective, Range
  <1>2. TypeOK
    BY <1>1 DEF Init, TypeOK, IdleStop, StopCall
  <1>3. \A s \in Stopper : Past(s)
    BY DEF Init, Past, IdleStop
  <1>4. \A t \in Task : Traces(t)
    BY <1>1 DEF Init, Traces
  <1> QED BY <1>2, <1>3, <1>4 DEF LocalInv

\* What is done stays done, so a stop that goes on with the same list, or that
\* waits where it was, is still past its first task.
LEMMA StillPast ==
  ASSUME LocalInv, \A t \in Task : Done(t) => Done(t)', NEW s \in Stopper,
         stopper'[s].pc = stopper[s].pc, stopper'[s].on = stopper[s].on,
         stopper'[s].found = stopper[s].found
  PROVE  Past(s)'
  <1>1. CASE stopper[s].pc = "idle"
    BY <1>1 DEF Past
  <1>2. CASE stopper[s].pc # "idle"
    <2>1. stopper[s].found # <<>> /\ stopper[s].found \in Seq(Task)
      BY <1>2 DEF LocalInv, TypeOK, Past, StopCall
    <2>2. stopper[s].found[1] \in Task
      BY <2>1
    <2> QED BY <1>2, <2>1, <2>2 DEF LocalInv, Past
  <1> QED BY <1>1, <1>2

\* cleanup_task, by a coroutine that winds up or by the callback of one that is done.
LEMMA CleaningUp ==
  ASSUME LocalInv, NEW t \in Task, CleanUp(t), NEW st \in {"finishing", "gone"},
         life' = [life EXCEPT ![t] = st], Done(t) => st = "gone",
         cancelled' = cancelled
  PROVE  LocalInv'
  <1>1. /\ listed' \in Seq(Task) /\ IsInjective(listed')
        /\ Range(listed') = Range(listed) \ {t}
    BY Removal DEF LocalInv, TypeOK, CleanUp
  <1>2. ASSUME NEW s \in Stopper
        PROVE  /\ stopper'[s] \in StopCall
               /\ stopper'[s].pc = stopper[s].pc
               /\ stopper'[s].on = stopper[s].on
               /\ stopper'[s].found = stopper[s].found
    BY DEF LocalInv, TypeOK, CleanUp, StopCall
  <1>3. TypeOK'
    BY <1>1, <1>2 DEF LocalInv, TypeOK, CleanUp
  <1>4. \A u \in Task : Traces(u)'
    BY <1>1 DEF LocalInv, TypeOK, Traces, CleanUp
  <1>5. \A u \in Task : Done(u) => Done(u)'
    BY DEF LocalInv, TypeOK, Done
  <1>6. \A s \in Stopper : Past(s)'
    BY <1>2, <1>5, StillPast
  <1> QED BY <1>3, <1>4, <1>6 DEF LocalInv

\* The loop of a stop ends, or takes a task off the dictionary and waits for it:
\* the first one, or else it has been past the first.
LEMMA Looping ==
  ASSUME LocalInv, NEW s \in Stopper,
         NEW rec \in StopCall,
         rec.found # <<>>,
         \/ Done(rec.found[1])
         \/ rec.at = 1 /\ rec.stale = FALSE /\ rec.found = listed,
         Loop(s, rec), UNCHANGED <<life, listed>>
  PROVE  LocalInv'
  <1>1. \A u \in Task : Done(u) <=> Done(u)'
    BY DEF Done
  <1>2. rec.found \in Seq(Task) /\ rec.found[1] \in Task
    <2>1. rec.found \in Seq(Task)
      BY StopFields
    <2> QED BY <2>1, FirstOf
  <1>3. \A u \in Stopper \ {s} : stopper'[u] = stopper[u]
    BY DEF Loop, LocalInv, TypeOK
  <1>4. \A u \in Stopper \ {s} : Past(u)'
    BY <1>1, <1>3, StillPast
  <1> DEFINE t == listed[rec.at]
  <1>5. CASE /\ rec.stale \/ rec.at > Len(listed)
             /\ stopper' = [stopper EXCEPT ![s] = Returned(rec, "all stopped")]
             /\ UNCHANGED <<tasks, cancelled>>
    <2>1. Done(rec.found[1])
      <3>1. listed \in Seq(Task)
        BY DEF LocalInv, TypeOK
      <3>2. CASE rec.at = 1 /\ rec.stale = FALSE /\ rec.found = listed
        <4>1. listed # <<>> /\ Len(listed) \in Nat /\ Len(listed) # 0
          BY <3>1, <3>2
        <4>2. ~(rec.at > Len(listed))
          BY <4>1, <3>2
        <4> QED BY <4>2, <3>2, <1>5
      <3> QED BY <3>2
    <2>2. Past(s)'
      BY <1>1, <1>2, <1>5, <2>1 DEF LocalInv, TypeOK, Past, StopCall, Returned
    <2>3. TypeOK'
      BY <1>5 DEF LocalInv, TypeOK, StopCall, Returned
    <2>4. \A u \in Task : Traces(u)'
      BY <1>5 DEF LocalInv, Traces
    <2> QED BY <2>2, <2>3, <2>4, <1>4 DEF LocalInv
  <1>6. CASE /\ stopper' = [stopper EXCEPT ![s] = Returned(rec, "not found")]
             /\ UNCHANGED <<tasks, cancelled>>
    <2>2. Past(s)'
      BY <1>6 DEF LocalInv, TypeOK, Past, StopCall, Returned
    <2>3. TypeOK'
      BY <1>6 DEF LocalInv, TypeOK, StopCall, Returned
    <2>4. \A u \in Task : Traces(u)'
      BY <1>6 DEF LocalInv, Traces
    <2> QED BY <2>2, <2>3, <2>4, <1>4 DEF LocalInv
  <1>7. CASE /\ t \in tasks
             /\ stopper' = [stopper EXCEPT ![s] = WaitingFor(rec, t)]
             /\ tasks' = tasks \ {t}
             /\ cancelled' = IF Done(t) THEN cancelled ELSE cancelled \cup {t}
    <2>1. t \in Task
      BY <1>7 DEF LocalInv, TypeOK
    <2>2. Past(s)'
      <3>1. /\ stopper'[s].pc = "waiting" /\ stopper'[s].on = {t}
            /\ stopper'[s].found = rec.found
        BY <1>7 DEF LocalInv, TypeOK, StopCall, WaitingFor
      <3>2. Done(rec.found[1]) \/ t = rec.found[1]
        OBVIOUS
      <3> QED BY <3>1, <3>2, <2>1, <1>1, <1>2 DEF Past
    <2>3. TypeOK'
      <3>1. WaitingFor(rec, t) \in StopCall
        <4>1. rec.at \in Nat \ {0} /\ rec.at + 1 \in Nat \ {0}
          BY StopFields
        <4> QED BY <2>1, <4>1 DEF StopCall, WaitingFor
      <3>2. cancelled' \subseteq Task /\ tasks' \subseteq Task
        BY <1>7, <2>1 DEF LocalInv, TypeOK
      <3> QED BY <1>7, <3>1, <3>2 DEF LocalInv, TypeOK
    <2>4. \A u \in Task : Traces(u)'
      BY <1>7, <2>1 DEF LocalInv, Traces, Done
    <2> QED BY <2>2, <2>3, <2>4, <1>4 DEF LocalInv
  <1> QED BY <1>5, <1>6, <1>7 DEF Loop

LEMMA LocalStep == LocalInv /\ [Next]_vars => LocalInv'
  <1> SUFFICES ASSUME LocalInv, [Next]_vars PROVE LocalInv'
    OBVIOUS
  <1>1. ASSUME NEW t \in Task, Create(t) PROVE LocalInv'
    <2>1. t \notin Range(listed)
      BY <1>1 DEF Create, LocalInv, Traces
    <2>2. /\ listed' \in Seq(Task) /\ IsInjective(listed')
          /\ Range(listed') = Range(listed) \cup {t}
      <3>1. listed \in Seq(Task) /\ IsInjective(listed) /\ listed' = Append(listed, t)
        BY <1>1 DEF Create, LocalInv, TypeOK
      <3> QED BY <2>1, <3>1, Addition
    <2>3. TypeOK'
      BY <1>1, <2>2 DEF Create, LocalInv, TypeOK
    <2>4. \A u \in Task : Traces(u)'
      BY <1>1, <2>2 DEF Create, LocalInv, TypeOK, Traces
    <2>5. \A u \in Task : Done(u) => Done(u)'
      BY <1>1 DEF Create, LocalInv, TypeOK, Done
    <2>6. \A s \in Stopper : Past(s)'
      BY <1>1, <2>5, StillPast DEF Create
    <2> QED BY <2>3, <2>4, <2>6 DEF LocalInv
  <1>2. ASSUME NEW t \in Task, WindUp(t) PROVE LocalInv'
    BY <1>2, CleaningUp DEF WindUp, Done
  <1>3. ASSUME NEW t \in Task, Callback(t) PROVE LocalInv'
    BY <1>3, CleaningUp DEF Callback
  <1>4. ASSUME NEW t \in Task, NEW how \in {"ended", "failed"}, End(t, how) PROVE LocalInv'
    <2>1. TypeOK'
      BY <1>4 DEF End, LocalInv, TypeOK
    <2>2. \A u \in Task : Traces(u)'
      BY <1>4 DEF End, LocalInv, TypeOK, Traces
    <2>3. \A u \in Task : Done(u) => Done(u)'
      BY <1>4 DEF End, LocalInv, TypeOK, Done
    <2>4. \A s \in Stopper : Past(s)'
      BY <1>4, <2>3, StillPast DEF End
    <2> QED BY <2>1, <2>2, <2>4 DEF LocalInv
  <1>5. ASSUME NEW s \in Stopper, StopItem(s) PROVE LocalInv'
    <2>1. listed \in Seq(Task) /\ listed # <<>>
      BY <1>5 DEF StopItem, LocalInv, TypeOK
    <2>2. PICK rec : rec = [IdleStop EXCEPT !.found = listed]
      OBVIOUS
    <2>4. rec = [pc |-> "idle", on |-> {}, at |-> 1, stale |-> FALSE, found |-> listed]
      BY <2>2 DEF IdleStop
    <2>3. /\ rec \in StopCall
          /\ rec.found = listed /\ rec.at = 1 /\ rec.stale = FALSE
      BY <2>1, <2>4 DEF StopCall
    <2> QED BY <1>5, <2>1, <2>2, <2>3, Looping DEF StopItem
  <1>6. ASSUME NEW s \in Stopper, Resume(s) PROVE LocalInv'
    <2>1. PICK t \in stopper[s].on :
            /\ Done(t)
            /\ IF life[t] = "failed"
               THEN /\ stopper' = [stopper EXCEPT ![s] = Returned(@, "raised")]
                    /\ UNCHANGED <<tasks, cancelled>>
               ELSE Loop(s, stopper[s])
      BY <1>6 DEF Resume
    <2>2. Waiting(s) /\ UNCHANGED <<life, listed>>
      BY <1>6 DEF Resume
    <2>3. stopper[s].found # <<>> /\ Done(stopper[s].found[1])
      BY <2>1, <2>2 DEF LocalInv, Past, Waiting
    <2>4. CASE Loop(s, stopper[s])
      <3>1. stopper[s] \in StopCall
        BY DEF LocalInv, TypeOK
      <3> QED BY <2>2, <2>3, <2>4, <3>1, Looping
    <2>5. CASE /\ stopper' = [stopper EXCEPT ![s] = Returned(@, "raised")]
               /\ UNCHANGED <<tasks, cancelled>>
      <3>1. TypeOK'
        BY <2>2, <2>5 DEF LocalInv, TypeOK, StopCall, Returned
      <3>2. \A u \in Task : Traces(u)'
        BY <2>2, <2>5 DEF LocalInv, Traces
      <3>3. \A u \in Task : Done(u) => Done(u)'
        BY <2>2 DEF Done
      <3>4. \A r \in Stopper \ {s} : Past(r)'
        BY <2>5, <3>3, StillPast DEF LocalInv, TypeOK
      <3>5. Past(s)'
        BY <2>3, <2>5 DEF LocalInv, TypeOK, Past, StopCall, Returned
      <3> QED BY <3>1, <3>2, <3>4, <3>5 DEF LocalInv
    <2> QED BY <2>1, <2>4, <2>5
  <1>7. CASE UNCHANGED vars
    BY <1>7 DEF vars, LocalInv, TypeOK, Traces, Past, Done
  <1> QED BY <1>1, <1>2, <1>3, <1>4, <1>5, <1>6, <1>7 DEF Next

THEOREM LocalInvariant == Spec => []LocalInv
  <1> QED BY LocalInit, LocalStep, PTL DEF Spec

\* Without Redis, a task that runs is in its item's list, and in the dictionary
\* unless a stop has cancelled it. (create_task, cleanup_task, stop_task)
THEOREM RunningIsReachable == Spec => []RunningReachable
  <1>1. LocalInv => RunningReachable
    BY DEF LocalInv, Traces, RunningReachable
  <1> QED BY <1>1, LocalInvariant, PTL

\* Without Redis, nothing is left of a task once its callback has run.
\* (cleanup_task)
THEOREM GoneIsForgotten == Spec => []GoneForgotten
  <1>1. LocalInv => GoneForgotten
    BY DEF LocalInv, Traces, GoneForgotten
  <1> QED BY <1>1, LocalInvariant, PTL

\* Without Redis, a stop that answers that all are stopped has ended the first
\* task of the list it was given. (stop_item_tasks)
THEOREM FirstIsStopped == Spec => []FirstStopped
  <1>1. LocalInv => FirstStopped
    BY DEF LocalInv, Past, FirstStopped
  <1> QED BY <1>1, LocalInvariant, PTL

=============================================================================
