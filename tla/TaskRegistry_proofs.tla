------------------------- MODULE TaskRegistry_proofs -------------------------
(***************************************************************************)
(* What the registry promises, for any number of instances, tasks, items,  *)
(* stop requests and restarts: the item sets stay within the hash, what    *)
(* runs is listed, and the last task of an item finds no other.            *)
(***************************************************************************)
EXTENDS TaskRegistry, TLAPS

-----------------------------------------------------------------------------
(* The inductive invariant *)

\* The calls of redis_cleanup_task by the coroutine of a task, by its done
\* callback, and by a request that stops tasks
OwnCall(t)  == clean[<<"own", t>>]
BackCall(t) == clean[<<"callback", t>>]
StopCall(s) == clean[<<"stop", s>>]

\* What a task has is settled by its creation.
Created ==
    \A t \in Task : IF life[t] = "unborn" THEN /\ home[t] = None /\ item[t] = None
                                               /\ save[t] = "none" /\ told[t] = "nothing"
                                          ELSE item[t] \in Item

\* Only tasks whose registration has landed are listed, under their item.
ListedLanded ==
    \A t \in Task :
        /\ t \in rhash => save[t] = "landed"
        /\ \A i \in Item : t \in rset[i] => t \in rhash /\ item[t] = i

\* A task cleans up after itself when it winds up, and after it has ended.
OwnCalls ==
    \A t \in Task :
        LET c == OwnCall(t)
            d == BackCall(t)
        IN  /\ c.pc # "idle" => /\ c.task = t /\ c.item = item[t] /\ save[t] = "landed"
                                /\ life[t] \in {"finishing", "ended"}
            /\ d.pc # "idle" => d.task = t /\ d.item = item[t] /\ life[t] = "ended"

\* A request stops tasks that were listed: one it does not find in the hash
\* any more has been cleaned up for good, since its registration has landed.
StopCalls ==
    \A s \in Stopper :
        LET q == stopper[s]
            c == StopCall(s)
        IN  /\ \A t \in Task : t \in q.todo => save[t] = "landed"
            /\ q.pc \in {"publish", "clean"} =>
                  /\ q.task \in Task /\ save[q.task] = "landed"
                  /\ q.found = item[q.task] \/ (q.found = None /\ q.task \notin rhash)
            /\ q.pc = "clean" => q.task \in asked
            /\ c.pc # "idle" => q.pc = "clean" /\ c.task = q.task /\ c.item = q.found

\* Whoever has taken itself off the set, or has looked for others, stays off it.
OffTheSet ==
    \A t \in Task :
        \/ OwnCall(t).pc \in {"count", "drop", "done"}
        \/ told[t] # "nothing"
        => save[t] = "landed" /\ \A i \in Item : t \notin rset[i]

\* Where some have looked and found others, one of those has yet to look.
SomebodyLooks ==
    \A i \in Item : \A t \in Task :
        item[t] = i /\ told[t] # "nothing" =>
            \E u \in Task : item[u] = i /\ told[u] \in {"none remain", "nothing"}

Calls == OwnCalls /\ StopCalls
RegistryInv == /\ TypeOK /\ Created /\ ListedLanded /\ Calls
               /\ OffTheSet /\ SomebodyLooks /\ RunningListed

-----------------------------------------------------------------------------
LEMMA Cleaners ==
    /\ \A t \in Task : <<"own", t>> \in Cleaner /\ <<"callback", t>> \in Cleaner
    /\ \A s \in Stopper : <<"stop", s>> \in Cleaner
    /\ \A c \in Cleaner : \/ \E t \in Task : c = <<"own", t>> \/ c = <<"callback", t>>
                          \/ \E s \in Stopper : c = <<"stop", s>>
BY DEF Cleaner

StopRecord == [pc : {"idle", "find", "publish", "clean"}, todo : SUBSET Task,
               task : Task \cup {None}, found : Item \cup {None}]
CallRecord == [pc : {"idle", "remove", "count", "drop", "done"},
               task : Task \cup {None}, item : Item \cup {None}]

\* A request that changes one entry keeps the types of the rest.
LEMMA ServingTypes ==
    ASSUME TypeOK, NEW s \in Stopper, NEW c \in Cleaner,
           NEW x \in StopRecord, NEW y \in CallRecord,
           stopper' = [stopper EXCEPT ![s] = x],
           clean' = clean \/ clean' = [clean EXCEPT ![c] = y],
           inbox' \subseteq Task, asked' \subseteq Task,
           UNCHANGED <<life, home, item, save, told, cancelled, listening, rhash, rset, restarts>>
    PROVE  TypeOK'
<1>1. stopper' \in [Stopper -> StopRecord]
  BY DEF TypeOK, StopRecord
<1>2. clean' \in [Cleaner -> CallRecord]
  BY DEF TypeOK, CallRecord
<1> QED BY <1>1, <1>2 DEF TypeOK, StopRecord, CallRecord

LEMMA Nones == /\ None \notin Item /\ None \notin Task /\ None \notin Instance
BY RegistryAssumption

LEMMA InitRegistry == Init => RegistryInv
<1> SUFFICES ASSUME Init PROVE RegistryInv
  OBVIOUS
<1>1. TypeOK
  BY RegistryAssumption DEF Init, TypeOK, IdleCall, IdleStop
<1>2. OwnCalls /\ OffTheSet
  BY Cleaners DEF Init, OwnCalls, OffTheSet, IdleCall, OwnCall, BackCall
<1>3. StopCalls
  BY Cleaners DEF Init, StopCalls, IdleCall, IdleStop, StopCall
<1> QED BY <1>1, <1>2, <1>3 DEF Init, RegistryInv, Created, ListedLanded, Calls,
                                SomebodyLooks, RunningListed

\* The calls of different cleaners are told apart.
LEMMA CleanersDiffer ==
    \A x, y : /\ <<"own", x>> # <<"callback", y>>
              /\ <<"own", x>> # <<"stop", y>> /\ <<"callback", x>> # <<"stop", y>>
              /\ x # y => /\ <<"own", x>> # <<"own", y>>
                          /\ <<"callback", x>> # <<"callback", y>>
                          /\ <<"stop", x>> # <<"stop", y>>
OBVIOUS

\* create_task: a new task is in nobody's way.
LEMMA CreateKeeps ==
    ASSUME RegistryInv, NEW n \in Instance, NEW t \in Task, NEW i \in Item, Create(n, t, i)
    PROVE  RegistryInv'
<1>1. TypeOK'
  BY DEF RegistryInv, Create, TypeOK
<1>2. /\ UNCHANGED <<told, rhash, rset, clean, stopper, asked>>
      /\ life[t] = "unborn" /\ life'[t] = "running" /\ item'[t] = i /\ save'[t] = "pending"
      /\ home'[t] = n
      /\ \A u \in Task : OwnCall(u)' = OwnCall(u) /\ BackCall(u)' = BackCall(u)
      /\ \A s \in Stopper : StopCall(s)' = StopCall(s)
      /\ \A u \in Task : u # t => /\ life'[u] = life[u] /\ item'[u] = item[u]
                                  /\ save'[u] = save[u] /\ home'[u] = home[u]
  BY DEF RegistryInv, Create, TypeOK, OwnCall, BackCall, StopCall
<1>3. save[t] = "none" /\ told[t] = "nothing" /\ item[t] \notin Item
  BY <1>2, Nones DEF RegistryInv, Created
<1>4. Created'
  BY <1>2 DEF RegistryInv, Created
<1>5. ListedLanded'
  BY <1>2, <1>3 DEF RegistryInv, ListedLanded
<1>6. RunningListed'
  BY <1>2 DEF RegistryInv, RunningListed
<1>7. OwnCalls'
  BY <1>2, <1>3 DEF RegistryInv, Calls, OwnCalls
<1>8. StopCalls'
  BY <1>2, <1>3 DEF RegistryInv, Calls, StopCalls
<1>9. OffTheSet'
  BY <1>2, <1>3 DEF RegistryInv, OffTheSet
<1>10. SomebodyLooks'
  <2> SUFFICES ASSUME NEW x \in Task, item'[x] \in Item, told'[x] # "nothing"
               PROVE  \E u \in Task : item'[u] = item'[x]
                                      /\ told'[u] \in {"none remain", "nothing"}
    BY DEF SomebodyLooks
  <2>1. x # t /\ item[x] = item'[x] /\ told[x] # "nothing"
    BY <1>2, <1>3
  <2>2. PICK u \in Task : item[u] = item[x] /\ told[u] \in {"none remain", "nothing"}
    BY <2>1 DEF RegistryInv, SomebodyLooks
  <2>3. u # t
    BY <2>1, <2>2, <1>3
  <2> QED BY <2>1, <2>2, <2>3, <1>2
<1> QED BY <1>1, <1>4, <1>5, <1>6, <1>7, <1>8, <1>9, <1>10 DEF RegistryInv, Calls

\* redis_save_task lists the task for the first time.
LEMMA SaveKeeps ==
    ASSUME RegistryInv, NEW t \in Task, Save(t)
    PROVE  RegistryInv'
<1>1. item[t] \in Item /\ life[t] # "unborn" /\ save[t] = "pending" /\ t \notin rhash
  BY DEF RegistryInv, Save, Created, ListedLanded
<1>2. TypeOK'
  BY <1>1 DEF RegistryInv, Save, TypeOK
<1>3. /\ UNCHANGED <<life, home, item, told, clean, stopper, asked>>
      /\ save'[t] = "landed" /\ rhash' = rhash \cup {t}
      /\ \A u \in Task : OwnCall(u)' = OwnCall(u) /\ BackCall(u)' = BackCall(u)
      /\ \A s \in Stopper : StopCall(s)' = StopCall(s)
      /\ \A u \in Task : u # t => save'[u] = save[u]
      /\ rset'[item[t]] = rset[item[t]] \cup {t}
      /\ \A i \in Item : i # item[t] => rset'[i] = rset[i]
  BY <1>1 DEF RegistryInv, Save, TypeOK, OwnCall, BackCall, StopCall
<1>4. Created'
  BY <1>1, <1>3 DEF RegistryInv, Created
<1>5. ListedLanded'
  BY <1>1, <1>3 DEF RegistryInv, ListedLanded
<1>6. RunningListed'
  BY <1>3 DEF RegistryInv, RunningListed
<1>7. OwnCalls'
  BY <1>1, <1>3 DEF RegistryInv, Calls, OwnCalls
<1>8. StopCalls'
  BY <1>1, <1>3 DEF RegistryInv, Calls, StopCalls
<1>9. OffTheSet'
  BY <1>1, <1>3 DEF RegistryInv, OffTheSet
<1>10. SomebodyLooks'
  BY <1>3 DEF RegistryInv, SomebodyLooks
<1> QED BY <1>2, <1>4, <1>5, <1>6, <1>7, <1>8, <1>9, <1>10 DEF RegistryInv, Calls

\* The end of a task: winding up, looking for others, ending without either.
LEMMA EndingKeeps ==
    ASSUME RegistryInv, NEW t \in Task, WindUp(t) \/ Check(t) \/ End(t)
    PROVE  RegistryInv'
<1>0. /\ life[t] \in {"running", "finishing"} /\ item[t] \in Item
      /\ UNCHANGED <<home, item, save, rhash, rset, stopper, asked>>
  BY DEF RegistryInv, WindUp, Check, End, Created
<1>1. TypeOK'
  <2>1. CASE WindUp(t)
    BY <2>1, <1>0, Cleaners DEF RegistryInv, WindUp, TypeOK, Call
  <2>2. CASE Check(t)
    BY <2>2, <1>0, Cleaners DEF RegistryInv, Check, TypeOK, Call
  <2>3. CASE End(t)
    BY <2>3, <1>0, Cleaners DEF RegistryInv, End, TypeOK, Call, IdleCall
  <2> QED BY <2>1, <2>2, <2>3
<1>2. /\ \A u \in Task : u # t => life'[u] = life[u] /\ told'[u] = told[u]
      /\ life'[t] \in {"finishing", "ended"}
  BY DEF RegistryInv, WindUp, Check, End, TypeOK
<1>3. /\ \A u \in Task : u # t => /\ OwnCall(u)' = OwnCall(u)
                                  /\ BackCall(u)' = BackCall(u)
      /\ \A s \in Stopper : StopCall(s)' = StopCall(s)
  BY CleanersDiffer, Cleaners DEF RegistryInv, WindUp, Check, End, TypeOK,
                                  OwnCall, BackCall, StopCall
<1>4. Created'
  BY <1>0, <1>2 DEF RegistryInv, Created
<1>5. ListedLanded'
  BY <1>0 DEF RegistryInv, ListedLanded
<1>6. RunningListed'
  BY <1>0, <1>2 DEF RegistryInv, RunningListed
<1>7. StopCalls'
  BY <1>0, <1>3 DEF RegistryInv, Calls, StopCalls
<1>8. CASE WindUp(t)
  <2>1. /\ OwnCall(t)' = Call(t, item[t])
        /\ BackCall(t)' = BackCall(t)
        /\ UNCHANGED told /\ save[t] = "landed" /\ life[t] = "running"
        /\ life'[t] = "finishing"
    BY <1>8, CleanersDiffer, Cleaners
       DEF RegistryInv, WindUp, TypeOK, OwnCall, BackCall
  <2>2. OwnCalls'
    BY <2>1, <1>0, <1>2, <1>3 DEF RegistryInv, Calls, OwnCalls, Call
  <2>3. OffTheSet'
    BY <2>1, <1>0, <1>3 DEF RegistryInv, OffTheSet, Call
  <2>4. SomebodyLooks'
    BY <2>1, <1>0 DEF RegistryInv, SomebodyLooks
  <2> QED BY <1>1, <1>4, <1>5, <1>6, <1>7, <2>2, <2>3, <2>4 DEF RegistryInv, Calls
<1>9. CASE Check(t)
  <2>1. /\ OwnCall(t)' = OwnCall(t) /\ OwnCall(t).pc = "done"
        /\ BackCall(t)' = Call(t, item[t])
        /\ life'[t] = "ended"
    BY <1>9, CleanersDiffer, Cleaners
       DEF RegistryInv, Check, TypeOK, OwnCall, BackCall
  <2>5. rset[item[t]] = {} => told'[t] = "none remain"
    BY <1>9 DEF RegistryInv, Check, TypeOK
  <2>0. save[t] = "landed" /\ \A i \in Item : t \notin rset[i]
    BY <2>1 DEF RegistryInv, OffTheSet
  <2>2. OwnCalls'
    <3>1. OwnCall(t).task = t /\ OwnCall(t).item = item[t]
      BY <2>1 DEF RegistryInv, Calls, OwnCalls
    <3>2. BackCall(t)'.task = t /\ BackCall(t)'.item = item[t]
      BY <2>1 DEF Call
    <3> QED BY <2>0, <2>1, <3>1, <3>2, <1>0, <1>2, <1>3 DEF RegistryInv, Calls, OwnCalls
  <2>3. OffTheSet'
    BY <2>0, <2>1, <1>0, <1>2, <1>3 DEF RegistryInv, OffTheSet, Call
  <2>4. SomebodyLooks'
    <3>1. CASE rset[item[t]] = {}
      BY <3>1, <2>5, <1>0, <1>2 DEF RegistryInv, SomebodyLooks
    <3>2. CASE rset[item[t]] # {}
      <4>1. PICK u \in rset[item[t]] : TRUE
        BY <3>2
      <4>2. u \in Task
        BY <4>1, <1>0 DEF RegistryInv, TypeOK
      <4>3. u # t /\ item[u] = item[t] /\ told[u] = "nothing"
        BY <4>1, <4>2, <1>0, <2>0 DEF RegistryInv, ListedLanded, OffTheSet
      <4>4. told'[u] = "nothing" /\ item'[u] = item[t] /\ item' = item
        BY <4>2, <4>3, <1>0, <1>2
      <4> SUFFICES ASSUME NEW x \in Task, item[x] \in Item, told'[x] # "nothing"
                   PROVE  \E v \in Task : item[v] = item[x]
                                          /\ told'[v] \in {"none remain", "nothing"}
        BY <4>4 DEF SomebodyLooks
      <4>5. CASE item[x] = item[t]
        BY <4>2, <4>4, <4>5
      <4>6. CASE item[x] # item[t]
        <5>1. PICK v \in Task : item[v] = item[x] /\ told[v] \in {"none remain", "nothing"}
          BY <4>6, <1>2 DEF RegistryInv, SomebodyLooks
        <5> QED BY <5>1, <4>6, <1>2
      <4> QED BY <4>5, <4>6
    <3> QED BY <3>1, <3>2
  <2> QED BY <1>1, <1>4, <1>5, <1>6, <1>7, <2>2, <2>3, <2>4 DEF RegistryInv, Calls
<1>10. CASE End(t)
  <2>1. /\ OwnCall(t)' = IdleCall
        /\ BackCall(t)' = Call(t, item[t])
        /\ UNCHANGED told
        /\ life'[t] = "ended"
    BY <1>10, CleanersDiffer, Cleaners
       DEF RegistryInv, End, TypeOK, OwnCall, BackCall
  <2>2. OwnCalls'
    BY <2>1, <1>0, <1>2, <1>3 DEF RegistryInv, Calls, OwnCalls, Call, IdleCall
  <2>3. OffTheSet'
    BY <2>1, <1>0, <1>3 DEF RegistryInv, OffTheSet, Call, IdleCall
  <2>4. SomebodyLooks'
    BY <2>1, <1>0 DEF RegistryInv, SomebodyLooks
  <2> QED BY <1>1, <1>4, <1>5, <1>6, <1>7, <2>2, <2>3, <2>4 DEF RegistryInv, Calls
<1> QED BY <1>8, <1>9, <1>10

-----------------------------------------------------------------------------
(* redis_cleanup_task *)

\* What a call removes is its own task, which may be removed: it is not
\* running, or a stop has been published for it.
LEMMA CallsKnow ==
    ASSUME RegistryInv, NEW c \in Cleaner, clean[c].pc # "idle"
    PROVE  /\ clean[c].task \in Task
           /\ \/ clean[c].item = item[clean[c].task] /\ item[clean[c].task] \in Item
              \/ clean[c].item = None /\ clean[c].task \notin rhash
           /\ life[clean[c].task] # "running" \/ clean[c].task \in asked
<1>1. ASSUME NEW t \in Task, c = <<"own", t>> \/ c = <<"callback", t>>
      PROVE  /\ clean[c].task = t /\ clean[c].item = item[t]
             /\ life[t] \in {"finishing", "ended"}
  BY <1>1 DEF RegistryInv, Calls, OwnCalls, OwnCall, BackCall
<1>2. ASSUME NEW s \in Stopper, c = <<"stop", s>>
      PROVE  /\ clean[c].task = stopper[s].task /\ clean[c].item = stopper[s].found
             /\ stopper[s].pc = "clean" /\ stopper[s].task \in asked
             /\ stopper[s].task \in Task /\ save[stopper[s].task] = "landed"
             /\ \/ stopper[s].found = item[stopper[s].task]
                \/ stopper[s].found = None /\ stopper[s].task \notin rhash
  BY <1>2 DEF RegistryInv, Calls, StopCalls, StopCall
<1>3. \A t \in Task : save[t] = "landed" \/ life[t] # "unborn" => item[t] \in Item
  BY DEF RegistryInv, Created
<1>4. CASE \E t \in Task : c = <<"own", t>> \/ c = <<"callback", t>>
  BY <1>1, <1>3, <1>4
<1>5. CASE \E s \in Stopper : c = <<"stop", s>>
  BY <1>2, <1>3, <1>5
<1> QED BY <1>4, <1>5, Cleaners

LEMMA CleanUpKeeps ==
    ASSUME RegistryInv, NEW c \in Cleaner, CleanUp(c)
    PROVE  RegistryInv'
<1> DEFINE t == clean[c].task
           i == clean[c].item
<1>1. /\ UNCHANGED <<life, home, item, save, told, cancelled, listening, inbox,
                     stopper, asked, restarts>>
      /\ clean[c].pc \in {"remove", "count", "drop"}
  BY DEF CleanUp, Remove, Count, Drop
<1>2. /\ t \in Task
      /\ (i = item[t] /\ item[t] \in Item) \/ (i = None /\ t \notin rhash)
      /\ life[t] # "running" \/ t \in asked
  BY <1>1, CallsKnow
<1>3. /\ rhash' \subseteq rhash /\ rset' \in [Item -> SUBSET Task]
      /\ \A j \in Item : rset'[j] \subseteq rset[j]
      /\ \A u \in Task : u # t => u \in rhash' <=> u \in rhash
  <2> USE DEF RegistryInv, TypeOK
  <2>0. i \in Item \/ i = None
    BY <1>2
  <2>1. CASE Remove(c)
    <3>1. rhash' = rhash \ {t}
      BY <2>1 DEF Remove
    <3>2. CASE i = None
      <4>1. rset' = rset
        BY <2>1, <3>2 DEF Remove
      <4> QED BY <3>1, <4>1
    <3>3. CASE i \in Item
      <4>1. rset' = [rset EXCEPT ![i] = @ \ {t}]
        BY <2>1, <3>3, Nones DEF Remove
      <4> QED BY <3>1, <3>3, <4>1
    <3> QED BY <2>0, <3>2, <3>3
  <2>2. CASE Count(c)
    BY <2>2 DEF Count
  <2>3. CASE Drop(c)
    BY <2>3 DEF Drop
  <2> QED BY <2>1, <2>2, <2>3 DEF CleanUp
<1>4. PICK p \in {"count", "drop", "done"} : clean' = MarkedAs(c, p)
  <2>1. CASE Remove(c)
    <3>1. clean' = MarkedAs(c, "done") \/ clean' = MarkedAs(c, "count")
      BY <2>1, Zenon DEF Remove
    <3> QED BY <3>1
  <2>2. CASE Count(c)
    <3>1. clean' = MarkedAs(c, "done") \/ clean' = MarkedAs(c, "drop")
      BY <2>2, Zenon DEF Count
    <3> QED BY <3>1
  <2>3. CASE Drop(c)
    BY <2>3 DEF Drop
  <2> QED BY <2>1, <2>2, <2>3 DEF CleanUp
<1>5. /\ clean' \in [Cleaner -> [pc : {"idle", "remove", "count", "drop", "done"},
                                 task : Task \cup {None}, item : Item \cup {None}]]
      /\ \A d \in Cleaner : d # c => clean'[d] = clean[d]
      /\ clean'[c].task = t /\ clean'[c].item = i /\ clean'[c].pc = p
  BY <1>4 DEF RegistryInv, TypeOK, MarkedAs
<1>6. \A d \in Cleaner : /\ clean'[d].task = clean[d].task
                         /\ clean'[d].item = clean[d].item
                         /\ clean'[d].pc # "idle" => clean[d].pc # "idle"
  BY <1>1, <1>5
<1>7. TypeOK'
  BY <1>1, <1>3, <1>5 DEF RegistryInv, TypeOK
<1>8. Created'
  BY <1>1 DEF RegistryInv, Created
<1>9. ListedLanded'
  <2>1. ASSUME Remove(c), NEW j \in Item PROVE t \notin rset'[j]
    <3>1. CASE t \notin rhash
      BY <3>1, <1>2, <1>3 DEF RegistryInv, ListedLanded
    <3>2. CASE i = item[t] /\ item[t] \in Item
      <4>1. rset'[i] = rset[i] \ {t}
        BY <2>1, <3>2, Nones DEF Remove, RegistryInv, TypeOK
      <4> QED BY <4>1, <3>2, <1>2, <1>3 DEF RegistryInv, ListedLanded
    <3> QED BY <3>1, <3>2, <1>2
  <2>2. CASE Remove(c)
    BY <2>1, <2>2, <1>1, <1>2, <1>3 DEF RegistryInv, ListedLanded
  <2>3. CASE Count(c) \/ Drop(c)
    <3>1. UNCHANGED rhash
      BY <2>3 DEF Count, Drop
    <3> QED BY <3>1, <1>1, <1>3 DEF RegistryInv, ListedLanded
  <2> QED BY <2>2, <2>3 DEF CleanUp
<1>10. RunningListed'
  BY <1>1, <1>2, <1>3 DEF RegistryInv, RunningListed
<1>11. /\ \A u \in Task : /\ OwnCall(u)'.task = OwnCall(u).task
                          /\ OwnCall(u)'.item = OwnCall(u).item
                          /\ OwnCall(u)'.pc # "idle" => OwnCall(u).pc # "idle"
                          /\ BackCall(u)'.task = BackCall(u).task
                          /\ BackCall(u)'.item = BackCall(u).item
                          /\ BackCall(u)'.pc # "idle" => BackCall(u).pc # "idle"
       /\ \A s \in Stopper : /\ StopCall(s)'.task = StopCall(s).task
                             /\ StopCall(s)'.item = StopCall(s).item
                             /\ StopCall(s)'.pc # "idle" => StopCall(s).pc # "idle"
  BY <1>6, Cleaners DEF OwnCall, BackCall, StopCall
<1>12. OwnCalls'
  BY <1>1, <1>11 DEF RegistryInv, Calls, OwnCalls
<1>13. StopCalls'
  BY <1>1, <1>3, <1>11 DEF RegistryInv, Calls, StopCalls
<1>14. OffTheSet'
  <2> SUFFICES ASSUME NEW u \in Task,
                      OwnCall(u)'.pc \in {"count", "drop", "done"} \/ told[u] # "nothing"
               PROVE  save[u] = "landed" /\ \A j \in Item : u \notin rset'[j]
    BY <1>1 DEF OffTheSet
  <2>1. CASE OwnCall(u).pc \in {"count", "drop", "done"} \/ told[u] # "nothing"
    BY <2>1, <1>3 DEF RegistryInv, OffTheSet
  <2>2. CASE c = <<"own", u>> /\ clean[c].pc = "remove"
    <3>1. OwnCall(u).pc # "idle" /\ t = OwnCall(u).task /\ i = OwnCall(u).item
      BY <2>2 DEF OwnCall
    <3>2. t = u /\ i = item[u] /\ save[u] = "landed"
      BY <3>1 DEF RegistryInv, Calls, OwnCalls
    <3>3. item[u] \in Item
      BY <3>2 DEF RegistryInv, Created
    <3>4. Remove(c)
      BY <2>2 DEF CleanUp, Count, Drop
    <3>5. rset'[i] = rset[i] \ {u}
      BY <3>2, <3>3, <3>4, Nones DEF Remove, RegistryInv, TypeOK
    <3> QED BY <3>2, <3>3, <3>5, <1>3 DEF RegistryInv, ListedLanded
  <2>3. c = <<"own", u>> \/ OwnCall(u)' = OwnCall(u)
    BY <1>5, Cleaners DEF OwnCall
  <2>4. CASE c = <<"own", u>> /\ clean[c].pc # "remove"
    BY <2>4, <2>1, <1>1 DEF OwnCall
  <2>5. CASE OwnCall(u)' = OwnCall(u)
    BY <2>5, <2>1
  <2> QED BY <2>2, <2>3, <2>4, <2>5
<1>15. SomebodyLooks'
  BY <1>1 DEF RegistryInv, SomebodyLooks
<1> QED BY <1>7, <1>8, <1>9, <1>10, <1>12, <1>13, <1>14, <1>15 DEF RegistryInv, Calls

-----------------------------------------------------------------------------
(* Stopping *)

LEMMA ServingKeeps ==
    ASSUME RegistryInv, NEW s \in Stopper,
           \/ \E i \in Item : StopItem(s, i)
           \/ \E t \in Task : StopOne(s, t)
           \/ Serve(s)
    PROVE  RegistryInv'
<1> DEFINE q == stopper[s]
           r == stopper'[s]
\* The invariant of the request at hand
<1>1. /\ q \in [pc : {"idle", "find", "publish", "clean"}, todo : SUBSET Task,
                task : Task \cup {None}, found : Item \cup {None}]
      /\ \A t \in Task : t \in q.todo => save[t] = "landed"
      /\ q.pc \in {"publish", "clean"} =>
            /\ q.task \in Task /\ save[q.task] = "landed"
            /\ q.found = item[q.task] \/ (q.found = None /\ q.task \notin rhash)
      /\ StopCall(s).pc # "idle" => q.pc = "clean"
  BY DEF RegistryInv, TypeOK, Calls, StopCalls
<1>2. UNCHANGED <<life, home, item, save, told, cancelled, listening, rhash, rset, restarts>>
  BY DEF StopItem, StopOne, Serve, Find, Publish, Stopped
<1>3. /\ \A t \in Task : OwnCall(t)' = OwnCall(t) /\ BackCall(t)' = BackCall(t)
      /\ \A x \in Stopper : x # s => StopCall(x)' = StopCall(x) /\ stopper'[x] = stopper[x]
  BY Cleaners, CleanersDiffer
     DEF RegistryInv, TypeOK, StopItem, StopOne, Serve, Find, Publish, Stopped,
         OwnCall, BackCall, StopCall
<1>4. asked \subseteq asked'
  BY DEF StopItem, StopOne, Serve, Find, Publish, Stopped
<1>5. Created' /\ ListedLanded'
  BY <1>2 DEF RegistryInv, Created, ListedLanded
<1>6. RunningListed' /\ SomebodyLooks'
  BY <1>2, <1>4 DEF RegistryInv, RunningListed, SomebodyLooks
<1>7. OwnCalls' /\ OffTheSet'
  BY <1>2, <1>3 DEF RegistryInv, Calls, OwnCalls, OffTheSet
\* It is enough to look at that request.
<1>8. ASSUME /\ \A t \in Task : t \in r.todo => save[t] = "landed"
             /\ r.pc \in {"publish", "clean"} =>
                   /\ r.task \in Task /\ save[r.task] = "landed"
                   /\ r.found = item[r.task] \/ (r.found = None /\ r.task \notin rhash)
             /\ r.pc = "clean" => r.task \in asked'
             /\ StopCall(s)'.pc # "idle" =>
                   r.pc = "clean" /\ StopCall(s)'.task = r.task /\ StopCall(s)'.item = r.found,
             TypeOK'
      PROVE  RegistryInv'
  <2>1. StopCalls'
    BY <1>2, <1>3, <1>4, <1>8 DEF RegistryInv, Calls, StopCalls
  <2> QED BY <1>5, <1>6, <1>7, <1>8, <2>1 DEF RegistryInv, Calls
<1>9. ASSUME NEW ts \in SUBSET Task, \A t \in ts : save[t] = "landed", q.pc = "idle",
             stopper' = [stopper EXCEPT ![s] = [IdleStop EXCEPT !.pc = "find", !.todo = ts]],
             UNCHANGED <<inbox, clean, asked>>
      PROVE  RegistryInv'
  <2>1. r = [IdleStop EXCEPT !.pc = "find", !.todo = ts] /\ StopCall(s)' = StopCall(s)
    BY <1>9 DEF RegistryInv, TypeOK, StopCall
  <2>2. r.pc = "find" /\ r.todo = ts
    BY <2>1 DEF IdleStop
  <2>3. TypeOK'
    <3>1. [IdleStop EXCEPT !.pc = "find", !.todo = ts] \in StopRecord
      BY DEF IdleStop, StopRecord
    <3>2. TypeOK /\ inbox' \subseteq Task /\ asked' \subseteq Task
      BY <1>9 DEF RegistryInv, TypeOK
    <3>3. <<"stop", s>> \in Cleaner /\ IdleCall \in CallRecord
      BY Cleaners DEF IdleCall, CallRecord
    <3> QED BY <3>1, <3>2, <3>3, <1>2, <1>9, ServingTypes
  <2>4. StopCall(s)'.pc = "idle"
    BY <1>1, <1>9, <2>1
  <2>5. r.pc \notin {"publish", "clean"}
    BY <2>2
  <2>6. \A t \in Task : t \in r.todo => save[t] = "landed"
    BY <1>9, <2>2
  <2> HIDE DEF q, r
  <2>7. r.pc # "clean" /\ ~(StopCall(s)'.pc # "idle")
    BY <2>4, <2>5
  <2> QED BY <1>8, <2>3, <2>5, <2>6, <2>7, Zenon
<1>10. ASSUME NEW i \in Item, StopItem(s, i) PROVE RegistryInv'
  <2>1. rset[i] \in SUBSET Task /\ \A t \in rset[i] : save[t] = "landed"
    BY DEF RegistryInv, TypeOK, ListedLanded
  <2> QED BY <1>9, <1>10, <2>1 DEF StopItem
<1>11. ASSUME NEW t \in Task, StopOne(s, t) PROVE RegistryInv'
  <2>1. save[t] = "landed"
    BY <1>11 DEF RegistryInv, ListedLanded, StopOne
  <2>2. {t} \in SUBSET Task /\ \A x \in {t} : save[x] = "landed"
    BY <2>1
  <2>3. /\ stopper' = [stopper EXCEPT ![s] = [IdleStop EXCEPT !.pc = "find", !.todo = {t}]]
        /\ UNCHANGED <<inbox, clean, asked>> /\ q.pc = "idle"
    BY <1>11 DEF StopOne
  <2> HIDE DEF q, r
  <2> QED BY <1>9, <2>2, <2>3
<1>12. ASSUME NEW t \in Task, Find(s, t) PROVE RegistryInv'
  <2>1. r = [q EXCEPT !.pc = "publish", !.task = t,
                      !.found = IF t \in rhash THEN item[t] ELSE None]
    BY <1>12 DEF RegistryInv, TypeOK, Find
  <2>2. /\ q.pc = "find" /\ save[t] = "landed" /\ StopCall(s)' = StopCall(s)
    BY <1>1, <1>12 DEF Find, StopCall
  <2>3. /\ r.pc = "publish" /\ r.task = t /\ r.todo = q.todo
        /\ r.found = item[t] \/ (r.found = None /\ t \notin rhash)
    BY <1>1, <2>1
  <2>4. TypeOK'
    <3>1. (IF t \in rhash THEN item[t] ELSE None) \in Item \cup {None}
      BY DEF RegistryInv, TypeOK
    <3>2. r \in StopRecord
      BY <1>1, <2>1, <3>1 DEF StopRecord
    <3>3. stopper' = [stopper EXCEPT ![s] = r]
      BY <1>12 DEF RegistryInv, TypeOK, Find
    <3>4. TypeOK /\ inbox' \subseteq Task /\ asked' \subseteq Task /\ clean' = clean
      BY <1>12 DEF Find, RegistryInv, TypeOK
    <3>5. <<"stop", s>> \in Cleaner /\ IdleCall \in CallRecord
      BY Cleaners DEF IdleCall, CallRecord
    <3> HIDE DEF r
    <3> QED BY <3>2, <3>3, <3>4, <3>5, <1>2, ServingTypes
  <2>5. StopCall(s)'.pc = "idle"
    BY <1>1, <2>2
  <2> HIDE DEF q, r
  <2> QED BY <1>1, <1>8, <2>2, <2>3, <2>4, <2>5
<1>13. CASE Publish(s)
  <2>1. r = [q EXCEPT !.pc = "clean"] /\ StopCall(s)' = Call(q.task, q.found)
    BY <1>13, Cleaners DEF RegistryInv, TypeOK, Publish, StopCall
  <2>2. q.pc = "publish" /\ asked' = asked \cup {q.task}
    BY <1>13 DEF Publish
  <2>3. r.pc = "clean" /\ r.task = q.task /\ r.found = q.found /\ r.todo = q.todo
    BY <1>1, <2>1
  <2>4. StopCall(s)'.task = q.task /\ StopCall(s)'.item = q.found
    BY <2>1 DEF Call
  <2>5. TypeOK'
    <3>1. Call(q.task, q.found) \in CallRecord
      BY <1>1, <2>2 DEF Call, CallRecord
    <3>2. r \in StopRecord
      BY <1>1, <2>1 DEF StopRecord
    <3>3. /\ clean' = [clean EXCEPT ![<<"stop", s>>] = Call(q.task, q.found)]
          /\ stopper' = [stopper EXCEPT ![s] = r]
      BY <1>13 DEF RegistryInv, TypeOK, Publish
    <3>4. inbox' \subseteq inbox \cup {q.task}
      BY <1>13 DEF Publish
    <3>5. TypeOK /\ inbox' \subseteq Task /\ asked' \subseteq Task
      BY <3>4, <1>1, <2>2 DEF RegistryInv, TypeOK
    <3>6. <<"stop", s>> \in Cleaner
      BY Cleaners
    <3> HIDE DEF q, r
    <3> QED BY <3>1, <3>2, <3>3, <3>5, <3>6, <1>2, ServingTypes
  <2> HIDE DEF q, r
  <2> QED BY <1>1, <1>8, <2>2, <2>3, <2>4, <2>5
<1>14. CASE Stopped(s)
  <2> DEFINE rest == q.todo \ {q.task}
  <2>1. r = IF rest = {} THEN IdleStop ELSE [IdleStop EXCEPT !.pc = "find", !.todo = rest]
    BY <1>14 DEF RegistryInv, TypeOK, Stopped
  <2>2. StopCall(s)' = IdleCall
    BY <1>14, Cleaners DEF RegistryInv, TypeOK, Stopped, StopCall
  <2>3. r.pc \in {"idle", "find"} /\ r.todo \subseteq q.todo
    BY <2>1 DEF IdleStop
  <2>4. StopCall(s)'.pc = "idle"
    BY <2>2 DEF IdleCall
  <2>5. TypeOK'
    <3>1. IdleCall \in CallRecord /\ IdleStop \in StopRecord
      BY DEF IdleCall, CallRecord, IdleStop, StopRecord
    <3>2. rest \in SUBSET Task
      BY <1>1
    <3>3. [IdleStop EXCEPT !.pc = "find", !.todo = rest] \in StopRecord
      BY <3>2 DEF IdleStop, StopRecord
    <3>4. r \in StopRecord
      BY <2>1, <3>1, <3>3
    <3>5. /\ clean' = [clean EXCEPT ![<<"stop", s>>] = IdleCall]
          /\ stopper' = [stopper EXCEPT ![s] = r]
      BY <1>14 DEF RegistryInv, TypeOK, Stopped
    <3>6. TypeOK /\ inbox' \subseteq Task /\ asked' \subseteq Task
      BY <1>14 DEF Stopped, RegistryInv, TypeOK
    <3>7. <<"stop", s>> \in Cleaner
      BY Cleaners
    <3> HIDE DEF r
    <3> QED BY <3>1, <3>4, <3>5, <3>6, <3>7, <1>2, ServingTypes
  <2> HIDE DEF q, r
  <2> QED BY <1>1, <1>8, <2>3, <2>4, <2>5
<1> QED BY <1>10, <1>11, <1>12, <1>13, <1>14 DEF Serve

LEMMA DeliveryKeeps ==
    ASSUME RegistryInv,
           \/ \E t \in Task : Deliver(t)
           \/ \E n \in Instance : ListenerEnds(n)
    PROVE  RegistryInv'
<1>1. /\ UNCHANGED <<life, home, item, save, told, rhash, rset, clean, stopper, asked,
                     restarts>>
      /\ cancelled' \subseteq Task /\ listening' \subseteq Instance /\ inbox' \subseteq Task
  BY DEF RegistryInv, TypeOK, Deliver, ListenerEnds
<1>2. TypeOK'
  BY <1>1 DEF RegistryInv, TypeOK
<1>3. OwnCalls' /\ StopCalls' /\ OffTheSet'
  BY <1>1 DEF RegistryInv, Calls, OwnCalls, StopCalls, OffTheSet, OwnCall, BackCall, StopCall
<1>4. Created' /\ ListedLanded' /\ RunningListed' /\ SomebodyLooks'
  BY <1>1 DEF RegistryInv, Created, ListedLanded, RunningListed, SomebodyLooks
<1> QED BY <1>2, <1>3, <1>4 DEF RegistryInv, Calls

\* A restart ends tasks, clean-ups and requests; Redis stays as it is.
LEMMA RestartKeeps ==
    ASSUME RegistryInv, NEW n \in Instance, NEW ss \in SUBSET Stopper, Restart(n, ss)
    PROVE  RegistryInv'
<1>1. /\ UNCHANGED <<home, item, told, rhash, rset, asked>>
      /\ \A t \in Task : /\ t \notin TasksOf(n) => life'[t] = life[t] /\ save'[t] = save[t]
                         /\ t \in TasksOf(n) => life'[t] = "lost"
                         /\ save[t] # "pending" => save'[t] = save[t]
                         /\ save'[t] = save[t] \/ save'[t] = "lost"
  BY DEF RegistryInv, TypeOK, Restart
<1>2. \A t \in TasksOf(n) : life[t] # "unborn"
  BY Nones DEF RegistryInv, Created, TasksOf
<1>3. \A c \in Cleaner : clean'[c] = IF c[2] \in TasksOf(n) \cup ss THEN IdleCall ELSE clean[c]
  BY DEF Restart
<1>4. /\ \A t \in Task : \/ t \notin TasksOf(n) /\ OwnCall(t)' = OwnCall(t)
                         \/ OwnCall(t)'.pc = "idle"
      /\ \A t \in Task : \/ t \notin TasksOf(n) /\ BackCall(t)' = BackCall(t)
                         \/ BackCall(t)'.pc = "idle"
      /\ \A s \in Stopper : \/ s \notin ss /\ StopCall(s)' = StopCall(s)
                            \/ StopCall(s)'.pc = "idle"
  <2>0. IdleCall.pc = "idle"
    BY DEF IdleCall
  <2>1. \A t \in Task : OwnCall(t)' = IF t \in TasksOf(n) \cup ss THEN IdleCall ELSE OwnCall(t)
    <3> TAKE t \in Task
    <3>1. <<"own", t>> \in Cleaner /\ <<"own", t>>[2] = t
      BY Cleaners
    <3> QED BY <3>1, <1>3 DEF OwnCall
  <2>2. \A t \in Task : BackCall(t)' = IF t \in TasksOf(n) \cup ss THEN IdleCall ELSE BackCall(t)
    <3> TAKE t \in Task
    <3>1. <<"callback", t>> \in Cleaner /\ <<"callback", t>>[2] = t
      BY Cleaners
    <3> QED BY <3>1, <1>3 DEF BackCall
  <2>3. \A s \in Stopper : StopCall(s)' = IF s \in TasksOf(n) \cup ss THEN IdleCall ELSE StopCall(s)
    <3> TAKE s \in Stopper
    <3>1. <<"stop", s>> \in Cleaner /\ <<"stop", s>>[2] = s
      BY Cleaners
    <3> QED BY <3>1, <1>3 DEF StopCall
  <2> HIDE DEF IdleCall
  <2> QED BY <2>0, <2>1, <2>2, <2>3
<1>5. \A s \in Stopper : stopper'[s] = IF s \in ss THEN IdleStop ELSE stopper[s]
  BY DEF Restart
<1>6. TypeOK'
  <2>1. /\ life' \in [Task -> {"unborn", "running", "finishing", "ended", "lost"}]
        /\ save' \in [Task -> {"none", "pending", "landed", "lost"}]
    BY DEF RegistryInv, TypeOK, Restart
  <2>2. IdleCall \in [pc : {"idle", "remove", "count", "drop", "done"},
                      task : Task \cup {None}, item : Item \cup {None}]
    BY DEF IdleCall
  <2>3. IdleStop \in [pc : {"idle", "find", "publish", "clean"}, todo : SUBSET Task,
                      task : Task \cup {None}, found : Item \cup {None}]
    BY DEF IdleStop
  <2>4. clean' \in [Cleaner -> [pc : {"idle", "remove", "count", "drop", "done"},
                                task : Task \cup {None}, item : Item \cup {None}]]
    BY <2>2 DEF RegistryInv, TypeOK, Restart
  <2>5. stopper' \in [Stopper -> [pc : {"idle", "find", "publish", "clean"},
                                  todo : SUBSET Task, task : Task \cup {None},
                                  found : Item \cup {None}]]
    BY <2>3 DEF RegistryInv, TypeOK, Restart
  <2>6. /\ inbox' \subseteq Task /\ listening' \subseteq Instance
        /\ restarts' \in 0..MaxRestarts /\ UNCHANGED cancelled
    <3>1. inbox' \subseteq Task /\ listening' \subseteq Instance /\ UNCHANGED cancelled
      BY DEF RegistryInv, TypeOK, Restart
    <3>2. restarts \in 0..MaxRestarts /\ restarts < MaxRestarts /\ restarts' = restarts + 1
      BY DEF RegistryInv, TypeOK, Restart
    <3>3. restarts' \in 0..MaxRestarts
      BY <3>2, RegistryAssumption
    <3> QED BY <3>1, <3>3
  <2> QED BY <1>1, <2>1, <2>4, <2>5, <2>6 DEF RegistryInv, TypeOK
<1>7. Created'
  BY <1>1, <1>2 DEF RegistryInv, Created
<1>8. ListedLanded'
  BY <1>1 DEF RegistryInv, ListedLanded
<1>9. RunningListed'
  BY <1>1 DEF RegistryInv, RunningListed
<1>10. SomebodyLooks'
  BY <1>1 DEF RegistryInv, SomebodyLooks
<1>11. OwnCalls'
  BY <1>1, <1>4 DEF RegistryInv, Calls, OwnCalls
<1>12. StopCalls'
  <2> SUFFICES ASSUME NEW s \in Stopper
               PROVE  /\ \A t \in Task : t \in stopper'[s].todo => save'[t] = "landed"
                      /\ stopper'[s].pc \in {"publish", "clean"} =>
                            /\ stopper'[s].task \in Task /\ save'[stopper'[s].task] = "landed"
                            /\ \/ stopper'[s].found = item[stopper'[s].task]
                               \/ stopper'[s].found = None /\ stopper'[s].task \notin rhash
                      /\ stopper'[s].pc = "clean" => stopper'[s].task \in asked
                      /\ StopCall(s)'.pc # "idle" => /\ stopper'[s].pc = "clean"
                                                     /\ StopCall(s)'.task = stopper'[s].task
                                                     /\ StopCall(s)'.item = stopper'[s].found
    BY <1>1 DEF StopCalls
  <2>1. CASE s \notin ss
    BY <2>1, <1>1, <1>4, <1>5 DEF RegistryInv, Calls, StopCalls
  <2>2. CASE s \in ss
    <3>1. stopper'[s].pc = "idle" /\ stopper'[s].todo = {}
      BY <2>2, <1>5 DEF IdleStop
    <3> QED BY <2>2, <3>1, <1>4
  <2> QED BY <2>1, <2>2
<1>13. OffTheSet'
  BY <1>1, <1>4 DEF RegistryInv, OffTheSet
<1> QED BY <1>6, <1>7, <1>8, <1>9, <1>10, <1>11, <1>12, <1>13 DEF RegistryInv, Calls

-----------------------------------------------------------------------------
(* The theorems *)

LEMMA NextRegistry == RegistryInv /\ [Next]_vars => RegistryInv'
<1> SUFFICES ASSUME RegistryInv, [Next]_vars PROVE RegistryInv'
  OBVIOUS
<1>1. CASE UNCHANGED vars
  <2>1. TypeOK'
    BY <1>1 DEF vars, RegistryInv, TypeOK
  <2>2. Created' /\ ListedLanded'
    BY <1>1 DEF vars, RegistryInv, Created, ListedLanded
  <2>3. OwnCalls' /\ StopCalls'
    BY <1>1 DEF vars, RegistryInv, Calls, OwnCalls, StopCalls, OwnCall, BackCall, StopCall
  <2>4. OffTheSet' /\ SomebodyLooks' /\ RunningListed'
    BY <1>1 DEF vars, RegistryInv, OffTheSet, SomebodyLooks, RunningListed, OwnCall
  <2> QED BY <2>1, <2>2, <2>3, <2>4 DEF RegistryInv, Calls
<1>2. CASE Next
  BY <1>2, CreateKeeps, SaveKeeps, EndingKeeps, CleanUpKeeps, ServingKeeps, DeliveryKeeps,
     RestartKeeps DEF Next
<1> QED BY <1>1, <1>2

THEOREM RegistryInvariant == Spec => []RegistryInv
BY InitRegistry, NextRegistry, PTL DEF Spec

\* Whatever is in the set of an item is in the hash, under that item.
THEOREM SetStaysWithinHash == Spec => []SetWithinHash
<1>1. RegistryInv => SetWithinHash
  <2> SUFFICES ASSUME RegistryInv PROVE SetWithinHash
    OBVIOUS
  <2>1. \A i \in Item : rset[i] \subseteq Task
    BY DEF RegistryInv, TypeOK
  <2> QED BY <2>1 DEF RegistryInv, ListedLanded, SetWithinHash
<1> QED BY <1>1, RegistryInvariant, PTL

\* A registered task that runs and was not stopped is listed.
THEOREM RunningStaysListed == Spec => []RunningListed
<1>1. RegistryInv => RunningListed
  BY DEF RegistryInv
<1> QED BY <1>1, RegistryInvariant, PTL

\* When all tasks of an item have looked for others, one has found none.
THEOREM LastReportsIdle == Spec => []LastOneOut
<1>1. RegistryInv => LastOneOut
  <2> SUFFICES ASSUME RegistryInv PROVE LastOneOut
    OBVIOUS
  <2>1. ASSUME NEW i \in Item, NEW t \in Task, item[t] = i,
               \A u \in Task : item[u] = i => told[u] # "nothing"
        PROVE  \E u \in Task : item[u] = i /\ told[u] = "none remain"
    <3>1. PICK u \in Task : item[u] = i /\ told[u] \in {"none remain", "nothing"}
      BY <2>1 DEF RegistryInv, SomebodyLooks
    <3> QED BY <2>1, <3>1
  <2>2. ASSUME NEW i \in Item, {t \in Task : item[t] = i} # {},
               \A t \in {u \in Task : item[u] = i} : Over(t) /\ told[t] # "nothing"
        PROVE  \E t \in {u \in Task : item[u] = i} : told[t] = "none remain"
    <3>1. PICK t \in Task : item[t] = i
      BY <2>2
    <3>2. \A u \in Task : item[u] = i => told[u] # "nothing"
      BY <2>2, Zenon
    <3> QED BY <2>1, <3>1, <3>2
  <2> QED BY <2>2, Zenon DEF LastOneOut
<1> QED BY <1>1, RegistryInvariant, PTL

-----------------------------------------------------------------------------
(* A published stop *)

AskedLanded == \A t \in asked : t \in Task /\ save[t] = "landed"
StopInv     == RegistryInv /\ AskedLanded /\ StopHolds

Ahead(t)    == t \in inbox \/ t \in cancelled \/ home[t] \notin listening
Removing(t) == \E c \in Cleaner : clean[c].pc = "remove" /\ clean[c].task = t

\* It is enough that a step brings no asked task to run without its stop ahead,
\* nor to be over and listed without a clean-up under way.
LEMMA StopStep ==
    ASSUME StopInv, RegistryInv', AskedLanded',
           \A t \in asked' : \/ life'[t] # "running"
                             \/ Ahead(t)'
                             \/ t \in asked /\ life[t] = "running" /\ (Ahead(t) => Ahead(t)'),
           \A t \in asked' : \/ ~Over(t)' \/ ~Listed(t)' \/ restarts' # 0
                             \/ Removing(t)'
                             \/ /\ t \in asked /\ Over(t) /\ Listed(t) /\ restarts = 0
                                /\ Removing(t) => Removing(t)'
    PROVE  StopInv'
<1>1. \A t \in asked : /\ life[t] = "running" => Ahead(t)
                       /\ Over(t) /\ Listed(t) /\ restarts = 0 => Removing(t)
  BY DEF StopInv, StopHolds, Ahead, Removing
<1>2. \A t \in asked' : /\ life'[t] = "running" => Ahead(t)'
                        /\ Over(t)' /\ Listed(t)' /\ restarts' = 0 => Removing(t)'
  <2> HIDE DEF Ahead, Removing, Over, Listed
  <2> QED BY <1>1
<1> QED BY <1>2 DEF StopInv, StopHolds, Ahead, Removing

\* A task for which nothing changes but what others do to others.
LEMMA StopElsewhere ==
    ASSUME StopInv, RegistryInv', AskedLanded', NEW t \in asked, t \in asked', t \in Task,
           life'[t] = life[t], home'[t] = home[t],
           Listed(t)' => Listed(t),
           t \in inbox => t \in inbox', t \in cancelled => t \in cancelled',
           listening' = listening, restarts' = restarts,
           \A c \in Cleaner : clean[c].pc = "remove" /\ clean[c].task = t => clean'[c] = clean[c]
    PROVE  /\ Ahead(t) => Ahead(t)'
           /\ Over(t)' /\ Listed(t)' /\ restarts' = 0 =>
                 /\ Over(t) /\ Listed(t) /\ restarts = 0
                 /\ Removing(t) => Removing(t)'
           /\ life'[t] = "running" => life[t] = "running"
<1>1. Ahead(t) => Ahead(t)'
  BY DEF Ahead
<1>2. Removing(t) => Removing(t)'
  BY DEF Removing
<1> QED BY <1>1, <1>2 DEF Over

LEMMA LifeKeepsStops ==
    ASSUME StopInv, RegistryInv', NEW t \in Task,
           \/ \E n \in Instance, i \in Item : Create(n, t, i)
           \/ Save(t) \/ WindUp(t) \/ Check(t) \/ End(t)
    PROVE  StopInv'
<1>0. UNCHANGED <<asked, listening, inbox, restarts>> /\ RegistryInv /\ AskedLanded /\ TypeOK
  BY DEF StopInv, RegistryInv, Create, Save, WindUp, Check, End
<1>1. AskedLanded'
  BY <1>0 DEF AskedLanded, RegistryInv, Created, TypeOK, Create, Save, WindUp, Check, End
<1>2. t \in asked => life'[t] # "running"
  BY <1>0 DEF AskedLanded, RegistryInv, Created, TypeOK, Create, Save, WindUp, Check, End
<1>3. t \in asked /\ Over(t)' => Removing(t)'
  <2>1. t \in asked => ~Save(t) /\ ~\E n \in Instance, i \in Item : Create(n, t, i)
    BY <1>0 DEF AskedLanded, RegistryInv, Created, Create, Save
  <2>2. CASE WindUp(t)
    BY <2>2, <1>0 DEF WindUp, Over, TypeOK
  <2>3. CASE Check(t) \/ End(t)
    <3>1. clean'[<<"callback", t>>] = Call(t, item[t]) /\ <<"callback", t>> \in Cleaner
      BY <2>3, <1>0, Cleaners, CleanersDiffer DEF Check, End, TypeOK
    <3> QED BY <3>1 DEF Removing, Call
  <2> QED BY <2>1, <2>2, <2>3
<1>4. ASSUME NEW u \in asked, u # t
      PROVE  /\ u \in Task /\ life'[u] = life[u] /\ home'[u] = home[u]
             /\ Listed(u)' => Listed(u)
             /\ u \in cancelled => u \in cancelled'
  <2>1. u \in Task
    BY <1>0 DEF AskedLanded
  <2>2. life'[u] = life[u] /\ home'[u] = home[u] /\ (u \in cancelled => u \in cancelled')
    BY <1>0, <1>4, <2>1 DEF TypeOK, Create, Save, WindUp, Check, End
  <2>3. Listed(u)' => Listed(u)
    <3>1. CASE Save(t)
      <4>1. rhash' = rhash \cup {t} /\ \A i \in Item : rset'[i] \subseteq rset[i] \cup {t}
        BY <3>1, <1>0 DEF Save, TypeOK
      <4> QED BY <4>1, <1>4 DEF Listed
    <3>2. CASE ~Save(t)
      BY <3>2 DEF Listed, Create, WindUp, Check, End
    <3> QED BY <3>1, <3>2
  <2> QED BY <2>1, <2>2, <2>3
<1>5. ASSUME NEW u \in asked, u # t, NEW c \in Cleaner,
             clean[c].pc = "remove", clean[c].task = u
      PROVE  clean'[c] = clean[c]
  <2>0. /\ OwnCall(t).pc = "remove" => OwnCall(t).task = t
        /\ BackCall(t).pc = "remove" => BackCall(t).task = t
    BY <1>0 DEF RegistryInv, Calls, OwnCalls
  <2>1. c # <<"own", t>> /\ c # <<"callback", t>>
    BY <1>5, <2>0 DEF OwnCall, BackCall
  <2> QED BY <2>1, <1>0 DEF TypeOK, Create, Save, WindUp, Check, End
<1>6. \A u \in asked' : u # t =>
         /\ Ahead(u) => Ahead(u)'
         /\ Over(u)' /\ Listed(u)' /\ restarts' = 0 =>
               /\ Over(u) /\ Listed(u) /\ restarts = 0
               /\ Removing(u) => Removing(u)'
         /\ life'[u] = "running" => life[u] = "running"
  <2> TAKE u \in asked'
  <2>1. CASE u # t
    <3>1. u \in asked /\ u \in asked'
      BY <1>0
    <3>2. /\ u \in Task /\ life'[u] = life[u] /\ home'[u] = home[u]
          /\ Listed(u)' => Listed(u)
          /\ u \in cancelled => u \in cancelled'
      BY <2>1, <3>1, <1>4
    <3>3. \A c \in Cleaner : clean[c].pc = "remove" /\ clean[c].task = u => clean'[c] = clean[c]
      BY <2>1, <3>1, <1>5
    <3>4. listening' = listening /\ restarts' = restarts /\ (u \in inbox => u \in inbox')
      BY <1>0
    <3> QED BY <3>1, <3>2, <3>3, <3>4, <1>1, StopElsewhere
  <2> QED BY <2>1
<1> HIDE DEF Ahead, Removing, Over, Listed
<1> QED BY <1>0, <1>1, <1>2, <1>3, <1>6, StopStep

LEMMA CleanUpKeepsStops ==
    ASSUME StopInv, RegistryInv', NEW c \in Cleaner, CleanUp(c)
    PROVE  StopInv'
<1>0. /\ UNCHANGED <<life, home, save, asked, listening, inbox, cancelled, restarts>>
      /\ RegistryInv /\ AskedLanded /\ TypeOK
  BY DEF StopInv, RegistryInv, CleanUp, Remove, Count, Drop
<1>1. AskedLanded'
  BY <1>0 DEF AskedLanded
<1>2. ASSUME NEW u \in asked, ~(Remove(c) /\ clean[c].task = u)
      PROVE  /\ Listed(u)' => Listed(u)
             /\ \A d \in Cleaner : clean[d].pc = "remove" /\ clean[d].task = u
                                   => clean'[d] = clean[d]
  <2>1. Listed(u)' => Listed(u)
    <3>1. rhash' \subseteq rhash /\ \A i \in Item : rset'[i] \subseteq rset[i]
      <4>1. CASE Remove(c)
        BY <4>1, <1>0 DEF Remove, TypeOK
      <4>2. CASE Count(c)
        BY <4>2 DEF Count
      <4>3. CASE Drop(c)
        BY <4>3, <1>0 DEF Drop, TypeOK
      <4> QED BY <4>1, <4>2, <4>3 DEF CleanUp
    <3> QED BY <3>1 DEF Listed
  <2>2. clean[c].pc = "remove" => clean[c].task # u
    BY <1>2 DEF CleanUp, Count, Drop
  <2>3. \A d \in Cleaner : d # c => clean'[d] = clean[d]
    BY <1>0 DEF CleanUp, Remove, Count, Drop, MarkedAs, TypeOK
  <2> QED BY <2>1, <2>2, <2>3
<1>3. ASSUME NEW u \in asked, Remove(c), clean[c].task = u
      PROVE  ~Listed(u)'
  <2>1. u \notin rhash'
    BY <1>3 DEF Remove
  <2>2. \A i \in Item : u \notin rset'[i]
    BY <2>1, <1>0, <1>3 DEF RegistryInv, ListedLanded, AskedLanded
  <2> QED BY <2>1, <2>2 DEF Listed
<1>4. \A u \in asked' : \/ ~Listed(u)' /\ (Ahead(u) => Ahead(u)') /\ life'[u] = life[u]
                        \/ /\ Ahead(u) => Ahead(u)'
                           /\ Over(u)' /\ Listed(u)' /\ restarts' = 0 =>
                                 /\ Over(u) /\ Listed(u) /\ restarts = 0
                                 /\ Removing(u) => Removing(u)'
                           /\ life'[u] = "running" => life[u] = "running"
  <2> TAKE u \in asked'
  <2>0. u \in asked /\ u \in asked' /\ u \in Task
    BY <1>0 DEF AskedLanded
  <2>1. CASE Remove(c) /\ clean[c].task = u
    BY <2>0, <2>1, <1>0, <1>3 DEF Ahead
  <2>2. CASE ~(Remove(c) /\ clean[c].task = u)
    BY <2>0, <2>2, <1>0, <1>1, <1>2, StopElsewhere
  <2> QED BY <2>1, <2>2
<1> HIDE DEF Ahead, Removing, Over, Listed
<1> QED BY <1>0, <1>1, <1>4, StopStep

LEMMA ServingKeepsStops ==
    ASSUME StopInv, RegistryInv', NEW s \in Stopper,
           \/ \E i \in Item : StopItem(s, i)
           \/ \E t \in Task : StopOne(s, t)
           \/ Serve(s)
    PROVE  StopInv'
<1>0. /\ UNCHANGED <<life, home, save, rhash, rset, listening, cancelled, restarts>>
      /\ inbox \subseteq inbox' /\ RegistryInv /\ AskedLanded /\ TypeOK
  BY DEF StopInv, RegistryInv, StopItem, StopOne, Serve, Find, Publish, Stopped
<1>1. CASE ~Publish(s)
  <2>1. asked' = asked /\ AskedLanded'
    BY <1>0, <1>1 DEF AskedLanded, StopItem, StopOne, Serve, Find, Stopped
  <2>2. \A c \in Cleaner : clean[c].pc = "remove" => clean'[c] = clean[c]
    BY <1>0, <1>1, Cleaners DEF StopItem, StopOne, Serve, Find, Stopped, TypeOK
  <2>3. \A u \in asked' : Listed(u)' => Listed(u)
    BY <1>0 DEF Listed
  <2>4. \A u \in asked' :
           /\ Ahead(u) => Ahead(u)'
           /\ Over(u)' /\ Listed(u)' /\ restarts' = 0 =>
                 /\ Over(u) /\ Listed(u) /\ restarts = 0
                 /\ Removing(u) => Removing(u)'
           /\ life'[u] = "running" => life[u] = "running"
    <3> TAKE u \in asked'
    <3>1. u \in asked /\ u \in asked' /\ u \in Task
      BY <2>1, <1>0 DEF AskedLanded
    <3>2. u \in inbox => u \in inbox'
      BY <1>0
    <3> QED BY <3>1, <3>2, <1>0, <2>1, <2>2, <2>3, StopElsewhere
  <2> HIDE DEF Ahead, Removing, Over, Listed
  <2> QED BY <1>0, <2>1, <2>4, StopStep
<1>2. CASE Publish(s)
  <2>0. PICK t : t = stopper[s].task
    OBVIOUS
  <2>1. /\ t \in Task /\ save[t] = "landed" /\ asked' = asked \cup {t}
        /\ StopCall(s).pc = "idle"
        /\ clean' = [clean EXCEPT ![<<"stop", s>>] = Call(t, stopper[s].found)]
        /\ t \in inbox' \/ home[t] \notin listening
    BY <1>0, <1>2, <2>0 DEF RegistryInv, Calls, StopCalls, Publish
  <2>2. AskedLanded'
    BY <2>1, <1>0 DEF AskedLanded
  <2>3. Ahead(t)' /\ Removing(t)'
    <3>1. clean'[<<"stop", s>>] = Call(t, stopper[s].found) /\ <<"stop", s>> \in Cleaner
      BY <2>1, <1>0, Cleaners DEF TypeOK
    <3>2. Removing(t)'
      BY <3>1 DEF Removing, Call
    <3> QED BY <3>2, <2>1, <1>0 DEF Ahead
  <2>4. \A c \in Cleaner : clean[c].pc = "remove" => clean'[c] = clean[c]
    BY <2>1, <1>0, Cleaners DEF TypeOK, StopCall
  <2>5. \A u \in asked' : Listed(u)' => Listed(u)
    BY <1>0 DEF Listed
  <2>6. \A u \in asked' : u # t =>
           /\ Ahead(u) => Ahead(u)'
           /\ Over(u)' /\ Listed(u)' /\ restarts' = 0 =>
                 /\ Over(u) /\ Listed(u) /\ restarts = 0
                 /\ Removing(u) => Removing(u)'
           /\ life'[u] = "running" => life[u] = "running"
    <3> TAKE u \in asked'
    <3>1. CASE u # t
      <4>1. u \in asked /\ u \in asked' /\ u \in Task
        BY <3>1, <2>1, <1>0 DEF AskedLanded
      <4>2. u \in inbox => u \in inbox'
        BY <1>0
      <4> QED BY <4>1, <4>2, <1>0, <2>2, <2>4, <2>5, StopElsewhere
    <3> QED BY <3>1
  <2>7. \A u \in asked' : u # t => u \in asked
    BY <2>1
  <2> HIDE DEF Ahead, Removing, Over, Listed
  <2> QED BY <1>0, <2>2, <2>3, <2>6, <2>7, StopStep
<1> QED BY <1>1, <1>2

LEMMA DeliveryKeepsStops ==
    ASSUME StopInv, RegistryInv',
           \/ \E t \in Task : Deliver(t)
           \/ \E n \in Instance : ListenerEnds(n)
           \/ \E n \in Instance, ss \in SUBSET Stopper : Restart(n, ss)
    PROVE  StopInv'
<1>0. /\ UNCHANGED <<home, rhash, rset, asked>> /\ RegistryInv /\ AskedLanded /\ TypeOK
  BY DEF StopInv, RegistryInv, Deliver, ListenerEnds, Restart
<1>1. AskedLanded'
  <2>1. \A u \in Task : save[u] = "landed" => save'[u] = "landed"
    <3>1. CASE \E n \in Instance, ss \in SUBSET Stopper : Restart(n, ss)
      BY <3>1 DEF Restart
    <3>2. CASE UNCHANGED save
      BY <3>2
    <3> QED BY <3>1, <3>2 DEF Deliver, ListenerEnds
  <2> QED BY <2>1, <1>0 DEF AskedLanded
<1>2. \A u \in asked' : u \in asked /\ u \in Task
  BY <1>0 DEF AskedLanded
<1>3. \A u \in asked' : life'[u] = "running" => life[u] = "running" /\ (Ahead(u) => Ahead(u)')
  <2> TAKE u \in asked'
  <2>0. u \in Task
    BY <1>2
  <2>1. ASSUME NEW t \in Task, Deliver(t), life'[u] = "running"
        PROVE  life[u] = "running" /\ (Ahead(u) => Ahead(u)')
    BY <2>0, <2>1 DEF Deliver, Ahead
  <2>2. ASSUME NEW n \in Instance, ListenerEnds(n), life'[u] = "running"
        PROVE  life[u] = "running" /\ (Ahead(u) => Ahead(u)')
    BY <2>0, <2>2 DEF ListenerEnds, Ahead, TasksOf
  <2>3. ASSUME NEW n \in Instance, NEW ss \in SUBSET Stopper, Restart(n, ss), life'[u] = "running"
        PROVE  life[u] = "running" /\ (Ahead(u) => Ahead(u)')
    <3>1. u \notin TasksOf(n) /\ life[u] = "running" /\ home[u] # n
      BY <2>0, <2>3 DEF Restart, TasksOf
    <3> QED BY <3>1, <2>3 DEF Restart, Ahead
  <2> QED BY <2>1, <2>2, <2>3
<1>4. \/ restarts' # 0
      \/ UNCHANGED <<life, rhash, rset, clean, restarts>>
  <2>1. CASE \E n \in Instance, ss \in SUBSET Stopper : Restart(n, ss)
    <3>1. restarts' = restarts + 1 /\ restarts \in 0..MaxRestarts
      BY <2>1, <1>0 DEF Restart, TypeOK
    <3> QED BY <3>1, RegistryAssumption
  <2>2. CASE ~\E n \in Instance, ss \in SUBSET Stopper : Restart(n, ss)
    BY <2>2 DEF Deliver, ListenerEnds
  <2> QED BY <2>1, <2>2
<1>5. \A u \in asked' : \/ restarts' # 0
                        \/ /\ Over(u)' => Over(u)
                           /\ Listed(u)' => Listed(u)
                           /\ restarts' = restarts
                           /\ Removing(u) => Removing(u)'
  BY <1>4 DEF Over, Listed, Removing
<1> HIDE DEF Ahead, Removing, Over, Listed
<1> QED BY <1>0, <1>1, <1>2, <1>3, <1>5, StopStep

\* A stop that has been published reaches the task, unless the listener of its
\* instance has ended; and a task that has ended does not stay listed for want
\* of a clean-up, as long as no instance restarts.
THEOREM StopsHold == Spec => []StopHolds
<1>1. Init => StopInv
  <2> SUFFICES ASSUME Init PROVE StopInv
    OBVIOUS
  <2>1. asked = {}
    BY DEF Init
  <2> QED BY <2>1, InitRegistry DEF StopInv, AskedLanded, StopHolds
<1>2. RegistryInv' /\ StopInv /\ [Next]_vars => StopInv'
  <2> SUFFICES ASSUME RegistryInv', StopInv, [Next]_vars PROVE StopInv'
    OBVIOUS
  <2>1. CASE UNCHANGED vars
    BY <2>1 DEF vars, StopInv, AskedLanded, StopHolds, Over, Listed
  <2>2. CASE Next
    BY <2>2, LifeKeepsStops, CleanUpKeepsStops, ServingKeepsStops, DeliveryKeepsStops DEF Next
  <2> QED BY <2>1, <2>2
<1>3. StopInv => StopHolds
  BY DEF StopInv
<1> QED BY <1>1, <1>2, <1>3, RegistryInvariant, PTL DEF Spec
=============================================================================
