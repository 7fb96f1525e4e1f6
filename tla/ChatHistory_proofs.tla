-------------------------- MODULE ChatHistory_proofs --------------------------
(***************************************************************************)
(* What becomes of the messages of a chat, for any number of requests,     *)
(* stale tabs, messages and crashes: the row of none is lost that no       *)
(* request deleted, and no chain of parents goes round.  As long as        *)
(* requests are alone, document and rows agree whenever none is in         *)
(* progress.                                                               *)
(***************************************************************************)
EXTENDS ChatHistory, SequenceTheorems, WellFoundedInduction, TLAPS

-----------------------------------------------------------------------------
(* The inductive invariant *)

\* Calls that delete only rows of messages some request has deleted
Careful(op, dr)   == op[1] = "unrow" => op[2] \subseteq dr
AllCareful(s, dr) == \E S : s \in Seq(S) /\ \A op \in S : Careful(op, dr)

Jobs == /\ job = [w \in Worker |-> job[w]]
        /\ \A w \in Worker : AllCareful(job[w].todo, dropped)

KeepInv == NothingLost /\ Jobs

-----------------------------------------------------------------------------
(* Sequences of calls *)

LEMMA SeqGrows ==
    ASSUME NEW S, NEW T, NEW s \in Seq(S), S \subseteq T
    PROVE  s \in Seq(T)
OBVIOUS

LEMMA CallsIn ==
    ASSUME NEW S, NEW s, s \in Seq(S), NEW dr, \A op \in S : Careful(op, dr)
    PROVE  AllCareful(s, dr)
BY DEF AllCareful

LEMMA NoCalls == \A dr : AllCareful(<<>>, dr)
<1> DEFINE S == {}
           s == <<>>
<1>1. s \in Seq(S) /\ \A dr : \A op \in S : Careful(op, dr)
  OBVIOUS
<1> HIDE DEF S, s
<1>2. \A dr : AllCareful(s, dr)
  BY <1>1, CallsIn
<1> QED BY <1>2 DEF s

LEMMA OneCall ==
    ASSUME NEW op, NEW dr, Careful(op, dr)
    PROVE  AllCareful(<<op>>, dr)
<1> DEFINE S == {op}
           s == <<op>>
<1>1. s \in Seq(S) /\ \A x \in S : Careful(x, dr)
  OBVIOUS
<1> HIDE DEF S, s
<1>2. AllCareful(s, dr)
  BY <1>1, CallsIn
<1> QED BY <1>2 DEF s

LEMMA TwoCalls ==
    ASSUME NEW a, NEW b, NEW dr, Careful(a, dr), Careful(b, dr)
    PROVE  AllCareful(<<a, b>>, dr)
<1> DEFINE S == {a, b}
           s == <<a, b>>
<1>1. s \in Seq(S) /\ \A x \in S : Careful(x, dr)
  OBVIOUS
<1> HIDE DEF S, s
<1>2. AllCareful(s, dr)
  BY <1>1, CallsIn
<1> QED BY <1>2 DEF s

LEMMA MoreCalls ==
    ASSUME NEW s, NEW t, NEW dr, AllCareful(s, dr), AllCareful(t, dr)
    PROVE  AllCareful(s \o t, dr)
<1>1. PICK S : s \in Seq(S) /\ \A op \in S : Careful(op, dr)
  BY DEF AllCareful
<1>2. PICK T : t \in Seq(T) /\ \A op \in T : Careful(op, dr)
  BY DEF AllCareful
<1>3. s \in Seq(S \cup T) /\ t \in Seq(S \cup T)
  BY <1>1, <1>2, SeqGrows
<1>4. s \o t \in Seq(S \cup T)
  BY <1>3
<1> QED BY <1>1, <1>2, <1>4 DEF AllCareful

\* A crash or a deletion elsewhere makes no call less careful.
LEMMA StayCareful ==
    ASSUME NEW s, NEW dr, NEW dr2, AllCareful(s, dr), dr \subseteq dr2
    PROVE  AllCareful(s, dr2)
BY DEF AllCareful, Careful

LEMMA LoopCareful ==
    ASSUME NEW left, NEW dr, NEW name \in {"rows", "heal"}
    PROVE  AllCareful(Loop(name, left), dr)
<1>1. Careful(<<name, left>>, dr)
  BY DEF Careful
<1> QED BY <1>1, NoCalls, OneCall DEF Loop

LEMMA UpsertCareful ==
    ASSUME NEW m, NEW patch, NEW dr
    PROVE  AllCareful(Upsert(m, patch), dr)
<1>1. Careful(<<"read">>, dr) /\ Careful(<<"upsert", m, patch>>, dr) /\ Careful(<<"write">>, dr)
  BY DEF Careful
<1> DEFINE a == <<"read">>
           b == <<"upsert", m, patch>>
           c == <<"write">>
<1>2. Upsert(m, patch) = <<a, b, c>>
  BY DEF Upsert
<1> HIDE DEF a, b, c
<1>3. Careful(a, dr) /\ Careful(b, dr) /\ Careful(c, dr)
  BY <1>1 DEF a, b, c
<1> DEFINE S == {a, b, c}
           s == <<a, b, c>>
<1>4. s \in Seq(S) /\ \A x \in S : Careful(x, dr)
  BY <1>3
<1> HIDE DEF S, s
<1>5. AllCareful(s, dr)
  BY <1>4, CallsIn
<1> QED BY <1>2, <1>5 DEF s

LEMMA TurnCareful ==
    ASSUME NEW page, NEW u, NEW p, NEW a, NEW dr
    PROVE  AllCareful(Turn(page, u, p, a), dr)
<1> DEFINE kids == {a} \cup (IF u \in Ids(page) THEN page.msgs[u].children ELSE {})
           s1 == <<<<"read">>, <<"write">>>>
           s2 == Upsert(u, Patch(p, kids))
           s3 == IF p = None THEN <<>> ELSE <<<<"link", p, {u}, FALSE>>>>
           s4 == <<<<"link", u, {a}, TRUE>>>>
           s5 == Upsert(a, Patch(u, {}))
<1>1. AllCareful(s1, dr)
  <2>1. Careful(<<"read">>, dr) /\ Careful(<<"write">>, dr)
    BY DEF Careful
  <2> QED BY <2>1, TwoCalls
<1>2. AllCareful(s2, dr) /\ AllCareful(s5, dr)
  BY UpsertCareful
<1>3. Careful(<<"link", p, {u}, FALSE>>, dr) /\ Careful(<<"link", u, {a}, TRUE>>, dr)
  BY DEF Careful
<1>4. AllCareful(s3, dr) /\ AllCareful(s4, dr)
  BY <1>3, NoCalls, OneCall
<1>5. Turn(page, u, p, a) = s1 \o s2 \o s3 \o s4 \o s5
  BY DEF Turn
<1> HIDE DEF s1, s2, s3, s4, s5
<1>6. AllCareful(s1 \o s2, dr)
  BY <1>1, <1>2, MoreCalls
<1>7. AllCareful(s1 \o s2 \o s3, dr)
  BY <1>4, <1>6, MoreCalls
<1>8. AllCareful(s1 \o s2 \o s3 \o s4, dr)
  BY <1>4, <1>7, MoreCalls
<1> QED BY <1>2, <1>5, <1>8, MoreCalls

-----------------------------------------------------------------------------
(* Steps *)

LEMMA InitKeep == Init => KeepInv
<1> SUFFICES ASSUME Init PROVE KeepInv
  OBVIOUS
<1>1. Jobs
  BY NoCalls DEF Init, Jobs, Idle
<1> QED BY <1>1 DEF Init, KeepInv, NothingLost

\* What a worker has still to do is all there is to show of its job.
LEMMA JobStep ==
    ASSUME Jobs, NEW w \in Worker, NEW todo, NEW copy, AllCareful(todo, dropped'),
           dropped \subseteq dropped', Go(w, todo, copy)
    PROVE  Jobs'
<1> DEFINE next == IF todo = <<>> THEN Idle ELSE [todo |-> todo, copy |-> copy]
<1>1. job' = [job EXCEPT ![w] = next]
  BY DEF Go
<1>2. next.todo = todo
  BY DEF Idle
<1> HIDE DEF next
<1>3. /\ job' = [v \in Worker |-> job'[v]] /\ job'[w] = next
      /\ \A v \in Worker : v # w => job'[v] = job[v]
  BY <1>1 DEF Jobs
<1>4. \A v \in Worker : AllCareful(job[v].todo, dropped')
  BY StayCareful DEF Jobs
<1>5. \A v \in Worker : AllCareful(job'[v].todo, dropped')
  BY <1>2, <1>3, <1>4
<1> QED BY <1>3, <1>5 DEF Jobs

\* The call at hand, and the calls after it
LEMMA CallAtHand ==
    ASSUME Jobs, NEW w \in Worker, Op(w)[1] # "none"
    PROVE  Careful(Op(w), dropped) /\ AllCareful(Rest(w), dropped)
<1> DEFINE s == job[w].todo
<1>1. PICK S : s \in Seq(S) /\ \A op \in S : Careful(op, dropped)
  BY DEF Jobs, AllCareful
<1>2. s # <<>> /\ Op(w) = Head(s) /\ Rest(w) = Tail(s)
  BY DEF Op, Rest
<1> HIDE DEF s
<1>3. Head(s) \in S /\ Tail(s) \in Seq(S)
  BY <1>1, <1>2
<1> QED BY <1>1, <1>2, <1>3 DEF AllCareful

LEMMA CallsKeep ==
    ASSUME KeepInv, NEW w \in Worker, Call(w)
    PROVE  KeepInv'
<1> USE DEF KeepInv
<1>0. Careful(Op(w), dropped) /\ AllCareful(Rest(w), dropped)
  <2>1. Op(w)[1] # "none"
    BY DEF Call, Read, Write, UpsertRow, Link, DeleteMessage, SaveHistory, BackfillRow,
           DeleteRows, Walk, Heal
  <2> QED BY <2>1, CallAtHand
\* Steps that touch no row
<1>1. ASSUME UNCHANGED <<rows, saved, dropped>>, NEW s, NEW copy,
             AllCareful(s, dropped), Go(w, s, copy)
      PROVE  KeepInv'
  <2>1. Jobs'
    BY <1>1, JobStep
  <2> QED BY <1>1, <2>1 DEF NothingLost
\* Steps that write a row
<1>2. ASSUME NEW m, NEW p, rows' = With(rows, m, p), saved' = saved \cup {m},
             UNCHANGED dropped, NEW s, NEW copy, AllCareful(s, dropped), Go(w, s, copy)
      PROVE  KeepInv'
  <2>1. Jobs'
    BY <1>2, JobStep
  <2>2. DOMAIN rows' = DOMAIN rows \cup {m}
    BY <1>2 DEF With
  <2> QED BY <1>2, <2>1, <2>2 DEF NothingLost
<1>3. CASE Read(w)
  BY <1>0, <1>1, <1>3 DEF Read
<1>4. CASE Write(w)
  BY <1>0, <1>1, <1>4 DEF Write
<1>5. CASE UpsertRow(w)
  <2>1. \E m, p, d : /\ rows' = With(rows, m, p) /\ saved' = saved \cup {m}
                     /\ UNCHANGED dropped /\ Go(w, Rest(w), d)
    BY <1>5 DEF UpsertRow
  <2> QED BY <1>0, <1>2, <2>1
<1>6. CASE Link(w)
  <2>1. \E s : /\ s = <<>> \/ \E p, patch : s = Upsert(p, patch)
               /\ Go(w, s \o Rest(w), Empty)
               /\ UNCHANGED <<rows, saved, dropped>>
    BY <1>6 DEF Link
  <2>2. PICK s : /\ s = <<>> \/ \E p, patch : s = Upsert(p, patch)
                 /\ Go(w, s \o Rest(w), Empty)
                 /\ UNCHANGED <<rows, saved, dropped>>
    BY <2>1
  <2>3. AllCareful(s, dropped)
    BY <2>2, NoCalls, UpsertCareful
  <2>4. AllCareful(s \o Rest(w), dropped)
    BY <1>0, <2>3, MoreCalls
  <2> QED BY <1>1, <2>2, <2>4
<1>7. CASE DeleteMessage(w)
  <2> DEFINE m == Op(w)[2]
             d == job[w].copy
  <2>1. CASE m \notin Ids(d)
    BY <1>0, <1>1, <1>7, <2>1 DEF DeleteMessage
  <2>2. CASE m \in Ids(d)
    <3>1. PICK e : /\ dropped' = dropped \cup Deletes(d, m)
                   /\ Go(w, Loop("rows", Ids(e)) \o <<<<"unrow", Deletes(d, m)>>>> \o Rest(w), e)
                   /\ UNCHANGED <<rows, saved>>
      BY <1>7, <2>2 DEF DeleteMessage
    <3>2. dropped \subseteq dropped' /\ Careful(<<"unrow", Deletes(d, m)>>, dropped')
      BY <3>1 DEF Careful
    <3> DEFINE x == <<"unrow", Deletes(d, m)>>
    <3> HIDE DEF m, d, x
    <3>3. AllCareful(Loop("rows", Ids(e)), dropped')
      BY LoopCareful
    <3>4. AllCareful(<<x>>, dropped')
      BY <3>2, OneCall DEF x
    <3>5. AllCareful(Rest(w), dropped')
      BY <1>0, <3>2, StayCareful
    <3>6. AllCareful(Loop("rows", Ids(e)) \o <<x>> \o Rest(w), dropped')
      BY <3>3, <3>4, <3>5, MoreCalls
    <3>7. Jobs'
      BY <3>1, <3>2, <3>6, JobStep DEF x
    <3> QED BY <3>1, <3>2, <3>7 DEF NothingLost
  <2> QED BY <2>1, <2>2
<1>8. CASE SaveHistory(w)
  <2>1. \E d : /\ Go(w, Loop("rows", Ids(d)) \o Rest(w), d)
               /\ UNCHANGED <<rows, saved, dropped>>
    BY <1>8 DEF SaveHistory
  <2>2. \A d : AllCareful(Loop("rows", Ids(d)) \o Rest(w), dropped)
    BY <1>0, LoopCareful, MoreCalls
  <2> QED BY <1>1, <2>1, <2>2
<1>9. CASE BackfillRow(w)
  <2>1. \E m, p, left, d : /\ rows' = With(rows, m, p) /\ saved' = saved \cup {m}
                           /\ UNCHANGED dropped /\ Go(w, Loop("rows", left) \o Rest(w), d)
    BY <1>9 DEF BackfillRow
  <2>2. \A left : AllCareful(Loop("rows", left) \o Rest(w), dropped)
    BY <1>0, LoopCareful, MoreCalls
  <2> QED BY <1>2, <2>1, <2>2
<1>10. CASE DeleteRows(w)
  <2>1. /\ rows' = Without(rows, Op(w)[2]) /\ Op(w)[1] = "unrow"
        /\ Go(w, Rest(w), Empty) /\ UNCHANGED <<saved, dropped>>
    BY <1>10 DEF DeleteRows
  <2>2. Op(w)[2] \subseteq dropped
    BY <1>0, <2>1 DEF Careful
  <2>3. DOMAIN rows' = DOMAIN rows \ Op(w)[2]
    BY <2>1 DEF Without
  <2>4. Jobs'
    BY <1>0, <2>1, JobStep
  <2> QED BY <2>1, <2>2, <2>3, <2>4 DEF NothingLost
<1>11. CASE Walk(w)
  <2>1. \E s : /\ s = <<<<"heal", Message>>>> \/ \E left : s = Loop("heal", left)
               /\ Go(w, s, Empty) /\ UNCHANGED <<rows, saved, dropped>>
    BY <1>11 DEF Walk
  <2>2. Careful(<<"heal", Message>>, dropped)
    BY DEF Careful
  <2>3. \A s : s = <<<<"heal", Message>>>> \/ (\E left : s = Loop("heal", left))
               => AllCareful(s, dropped)
    BY <2>2, OneCall, LoopCareful
  <2> QED BY <1>1, <2>1, <2>3
<1>12. CASE Heal(w)
  <2>1. \E d, left : /\ Go(w, Loop("rows", left) \o Rest(w), d)
                     /\ UNCHANGED <<rows, saved, dropped>>
    BY <1>12 DEF Heal
  <2>2. \A left : AllCareful(Loop("rows", left) \o Rest(w), dropped)
    BY <1>0, LoopCareful, MoreCalls
  <2> QED BY <1>1, <2>1, <2>2
<1> QED BY <1>3, <1>4, <1>5, <1>6, <1>7, <1>8, <1>9, <1>10, <1>11, <1>12 DEF Call

\* Whatever a request sets out to do, it deletes no row it has not dropped.
LEMMA BeginKeeps ==
    ASSUME KeepInv, NEW w \in Worker, NEW todo, NEW ids, NEW late,
           AllCareful(todo, dropped), Begin(w, todo, ids, late)
    PROVE  KeepInv'
<1>1. /\ job' = [job EXCEPT ![w] = [todo |-> todo, copy |-> Empty]]
      /\ UNCHANGED <<rows, saved, dropped>>
  BY DEF Begin
<1>2. /\ job' = [v \in Worker |-> job'[v]] /\ job'[w].todo = todo
      /\ \A v \in Worker : v # w => job'[v] = job[v]
  BY <1>1 DEF KeepInv, Jobs
<1>3. Jobs'
  BY <1>1, <1>2 DEF KeepInv, Jobs
<1> QED BY <1>1, <1>3 DEF KeepInv, NothingLost

LEMMA RequestsKeep ==
    ASSUME KeepInv, NEW w \in Worker, Request(w)
    PROVE  KeepInv'
<1> DEFINE Two(op) == <<<<"read">>, op>>
<1>0. ASSUME NEW op, Careful(op, dropped)
      PROVE  AllCareful(Two(op), dropped)
  <2>1. Careful(<<"read">>, dropped)
    BY DEF Careful
  <2> QED BY <1>0, <2>1, TwoCalls
<1>1. ASSUME NEW u \in Message, NEW a \in Message, NewChat(w, u, a)
      PROVE  KeepInv'
  <2>1. \E d : Go(w, Loop("rows", {u, a}), d) /\ UNCHANGED <<rows, saved, dropped>>
    BY <1>1 DEF NewChat
  <2>2. AllCareful(Loop("rows", {u, a}), dropped)
    BY LoopCareful
  <2>3. Jobs'
    BY <2>1, <2>2, JobStep DEF KeepInv
  <2> QED BY <2>1, <2>3 DEF KeepInv, NothingLost
<1>2. ASSUME NEW u, NEW a, NEW page, Ask(w, page, u, a)
      PROVE  KeepInv'
  <2>1. \E p, ids, late : Begin(w, Turn(page, u, p, a), ids, late)
    BY <1>2 DEF Ask
  <2> QED BY <2>1, TurnCareful, BeginKeeps
<1>3. ASSUME NEW m, NEW p, Change(w, m, p)
      PROVE  KeepInv'
  <2>1. \E patch, late : Begin(w, Upsert(m, patch), Nothing, late)
    BY <1>3 DEF Change
  <2> QED BY <2>1, UpsertCareful, BeginKeeps
<1>4. CASE Retitle(w)
  <2>1. Careful(<<"write">>, dropped)
    BY DEF Careful
  <2>2. AllCareful(<<<<"read">>, <<"write">>>>, dropped)
    BY <1>0, <2>1
  <2> QED BY <1>4, <2>2, BeginKeeps DEF Retitle
<1>5. ASSUME NEW m, Delete(w, m)
      PROVE  KeepInv'
  <2>1. Careful(<<"delete", m>>, dropped)
    BY DEF Careful
  <2>2. AllCareful(<<<<"read">>, <<"delete", m>>>>, dropped)
    BY <1>0, <2>1
  <2> QED BY <1>5, <2>2, BeginKeeps DEF Delete
<1>6. ASSUME NEW page, Save(w, page)
      PROVE  KeepInv'
  <2>1. \E d, ids, late : Begin(w, <<<<"read">>, <<"merge", d>>>>, ids, late)
    BY <1>6 DEF Save
  <2>2. \A d : AllCareful(<<<<"read">>, <<"merge", d>>>>, dropped)
    <3> TAKE d
    <3>1. Careful(<<"merge", d>>, dropped)
      BY DEF Careful
    <3> QED BY <1>0, <3>1
  <2> QED BY <2>1, <2>2, BeginKeeps
<1>7. CASE Compile(w)
  <2>1. Careful(<<"walk">>, dropped)
    BY DEF Careful
  <2> QED BY <1>7, <2>1, OneCall, BeginKeeps DEF Compile
<1> QED BY <1>1, <1>2, <1>3, <1>4, <1>5, <1>6, <1>7 DEF Request

-----------------------------------------------------------------------------
(* The theorem *)

LEMMA NextKeep == KeepInv /\ [Next]_vars => KeepInv'
<1> SUFFICES ASSUME KeepInv, [Next]_vars PROVE KeepInv'
  OBVIOUS
<1>1. CASE UNCHANGED vars \/ Load
  <2>1. UNCHANGED <<rows, saved, dropped, job>>
    BY <1>1 DEF vars, Load
  <2> QED BY <2>1 DEF KeepInv, NothingLost, Jobs
<1>2. CASE Crash
  <2>1. job' = [w \in Worker |-> Idle] /\ UNCHANGED <<rows, saved, dropped>>
    BY <1>2 DEF Crash
  <2>2. Jobs'
    BY <2>1, NoCalls DEF Jobs, Idle
  <2> QED BY <2>1, <2>2 DEF KeepInv, NothingLost
<1>3. CASE \E w \in Worker : Request(w) \/ Call(w)
  BY <1>3, RequestsKeep, CallsKeep
<1> QED BY <1>1, <1>2, <1>3 DEF Next

\* A message once saved keeps its row unless some request deleted it.
THEOREM RowsAreKept == Spec => []NothingLost
<1>1. KeepInv => NothingLost
  BY DEF KeepInv
<1> QED BY <1>1, InitKeep, NextKeep, PTL DEF Spec

-----------------------------------------------------------------------------
(* The tree: a rank for every message, higher than its parent's *)

IsParent(p, m, rank, sp) == p = None \/ (p \in sp /\ rank[p] < rank[m])
AreChildren(cs, m, rank, sp) == \A c \in cs : c \in sp /\ rank[m] < rank[c]

\* A document whose links all lead from lower to higher ranks
Placed(d, rank, sp) ==
    /\ DOMAIN d = {"msgs", "current"} /\ Ids(d) \subseteq sp /\ d.current \in Ids(d) \cup {None}
    /\ \A m \in Ids(d) : /\ IsParent(d.msgs[m].parent, m, rank, sp)
                         /\ AreChildren(d.msgs[m].children, m, rank, sp)

\* Calls that link messages this way
Led(op, rank, sp) ==
    /\ op[1] # "rows"
    /\ op[1] = "upsert" => /\ op[2] \in sp
                           /\ op[3].parent = Same \/ IsParent(op[3].parent, op[2], rank, sp)
                           /\ \/ op[3].children = Same
                              \/ AreChildren(op[3].children, op[2], rank, sp)
    /\ op[1] = "link"   => op[2] \in sp /\ AreChildren(op[3], op[2], rank, sp)
    /\ op[1] = "merge"  => Placed(op[2], rank, sp)
AllLed(s, rank, sp) == \E S : s \in Seq(S) /\ \A op \in S : Led(op, rank, sp)

\* Only the call at hand may be one that writes rows, of messages of the copy.
Leading(j, rank, sp) ==
    /\ Placed(j.copy, rank, sp)
    /\ \/ AllLed(j.todo, rank, sp)
       \/ \E R, s : /\ j.todo = <<<<"rows", R>>>> \o s /\ R \subseteq Ids(j.copy)
                    /\ AllLed(s, rank, sp)

Ranked(rank) ==
    /\ rank \in [Message -> Nat] /\ spent \subseteq Message
    /\ \A m \in spent : IsParent(asked[m], m, rank, spent)
    /\ Placed(doc, rank, spent) /\ Placed(tab, rank, spent)
    /\ DOMAIN rows \subseteq spent
    /\ \A m \in DOMAIN rows : IsParent(rows[m], m, rank, spent)
    /\ job = [w \in Worker |-> job[w]] /\ \A w \in Worker : Leading(job[w], rank, spent)

Bounded(rank) == \E n \in Nat : \A m \in spent : rank[m] < n
TreeInv == \E rank : Ranked(rank) /\ Bounded(rank)

\* There is no loop of parents where ranks fall.
LEMMA RankedNoLoop ==
    ASSUME NEW parent, NEW rank \in [Message -> Nat], NEW sp \in SUBSET Message,
           DOMAIN parent \subseteq sp,
           \A m \in DOMAIN parent : IsParent(parent[m], m, rank, sp)
    PROVE  Loops(parent) = {}
<1> SUFFICES ASSUME NEW S \in SUBSET DOMAIN parent, S # {}, \A m \in S : parent[m] \in S
             PROVE  FALSE
  BY DEF Loops
<1> DEFINE R == {rank[m] : m \in S}
<1>1. R \subseteq Nat /\ R # {}
  OBVIOUS
<1>2. PICK u \in R : \A v \in R : ~(<<v, u>> \in OpToRel(<, Nat))
  BY <1>1, NatLessThanWellFounded, WFMin
<1>3. \A v \in R : ~(v < u)
  BY <1>1, <1>2 DEF OpToRel
<1>4. PICK m \in S : u = rank[m]
  OBVIOUS
<1>5. parent[m] \in S /\ parent[m] # None /\ rank[parent[m]] < rank[m]
  BY NoMessages DEF IsParent, NoMessages
<1> QED BY <1>3, <1>4, <1>5

LEMMA TreeNoLoop == TreeInv => NoLoop
<1> SUFFICES ASSUME NEW rank, Ranked(rank) PROVE NoLoop
  BY DEF TreeInv
<1>1. Loops(rows) = {}
  BY RankedNoLoop DEF Ranked
<1>2. /\ DOMAIN Parents(doc.msgs) = Ids(doc)
      /\ \A m \in Ids(doc) : Parents(doc.msgs)[m] = doc.msgs[m].parent
  BY DEF Parents, Ids
<1>3. Loops(Parents(doc.msgs)) = {}
  BY <1>2, RankedNoLoop DEF Ranked, Placed
<1> QED BY <1>1, <1>3 DEF NoLoop

-----------------------------------------------------------------------------
(* Sequences of calls that link *)

LEMMA LedIn ==
    ASSUME NEW S, NEW s, s \in Seq(S), NEW rank, NEW sp, \A op \in S : Led(op, rank, sp)
    PROVE  AllLed(s, rank, sp)
BY DEF AllLed

LEMMA NoLed == \A rank, sp : AllLed(<<>>, rank, sp)
<1> DEFINE S == {}
           s == <<>>
<1>1. s \in Seq(S) /\ \A rank, sp : \A op \in S : Led(op, rank, sp)
  OBVIOUS
<1> HIDE DEF S, s
<1>2. \A rank, sp : AllLed(s, rank, sp)
  BY <1>1, LedIn
<1> QED BY <1>2 DEF s

LEMMA OneLed ==
    ASSUME NEW op, NEW rank, NEW sp, Led(op, rank, sp)
    PROVE  AllLed(<<op>>, rank, sp)
<1> DEFINE S == {op}
           s == <<op>>
<1>1. s \in Seq(S) /\ \A x \in S : Led(x, rank, sp)
  OBVIOUS
<1> HIDE DEF S, s
<1>2. AllLed(s, rank, sp)
  BY <1>1, LedIn
<1> QED BY <1>2 DEF s

LEMMA TwoLed ==
    ASSUME NEW a, NEW b, NEW rank, NEW sp, Led(a, rank, sp), Led(b, rank, sp)
    PROVE  AllLed(<<a, b>>, rank, sp)
<1> DEFINE S == {a, b}
           s == <<a, b>>
<1>1. s \in Seq(S) /\ \A x \in S : Led(x, rank, sp)
  OBVIOUS
<1> HIDE DEF S, s
<1>2. AllLed(s, rank, sp)
  BY <1>1, LedIn
<1> QED BY <1>2 DEF s

LEMMA ThreeLed ==
    ASSUME NEW a, NEW b, NEW c, NEW rank, NEW sp,
           Led(a, rank, sp), Led(b, rank, sp), Led(c, rank, sp)
    PROVE  AllLed(<<a, b, c>>, rank, sp)
<1> DEFINE S == {a, b, c}
           s == <<a, b, c>>
<1>1. s \in Seq(S) /\ \A x \in S : Led(x, rank, sp)
  OBVIOUS
<1> HIDE DEF S, s
<1>2. AllLed(s, rank, sp)
  BY <1>1, LedIn
<1> QED BY <1>2 DEF s

LEMMA MoreLed ==
    ASSUME NEW s, NEW t, NEW rank, NEW sp, AllLed(s, rank, sp), AllLed(t, rank, sp)
    PROVE  AllLed(s \o t, rank, sp)
<1>1. PICK S : s \in Seq(S) /\ \A op \in S : Led(op, rank, sp)
  BY DEF AllLed
<1>2. PICK T : t \in Seq(T) /\ \A op \in T : Led(op, rank, sp)
  BY DEF AllLed
<1>3. s \in Seq(S \cup T) /\ t \in Seq(S \cup T)
  BY <1>1, <1>2, SeqGrows
<1>4. s \o t \in Seq(S \cup T)
  BY <1>3
<1> QED BY <1>1, <1>2, <1>4 DEF AllLed

\* The calls that are neither rows, upsert, link nor merge link nothing.
LEMMA OtherLed ==
    ASSUME NEW op, op[1] \notin {"rows", "upsert", "link", "merge"}
    PROVE  \A rank, sp : Led(op, rank, sp)
BY DEF Led

LEMMA UpsertLed ==
    ASSUME NEW m, NEW patch, NEW rank, NEW sp, m \in sp,
           patch.parent = Same \/ IsParent(patch.parent, m, rank, sp),
           patch.children = Same \/ AreChildren(patch.children, m, rank, sp)
    PROVE  AllLed(Upsert(m, patch), rank, sp)
<1>1. Led(<<"read">>, rank, sp) /\ Led(<<"write">>, rank, sp)
  BY DEF Led
<1>2. Led(<<"upsert", m, patch>>, rank, sp)
  BY DEF Led
<1> QED BY <1>1, <1>2, ThreeLed DEF Upsert

LEMMA TurnLed ==
    ASSUME NEW page, NEW u, NEW p, NEW a, NEW rank, NEW sp, Placed(page, rank, sp),
           u \in sp, a \in sp, rank[u] < rank[a], IsParent(p, u, rank, sp)
    PROVE  AllLed(Turn(page, u, p, a), rank, sp)
<1> DEFINE kids == {a} \cup (IF u \in Ids(page) THEN page.msgs[u].children ELSE {})
           s1 == <<<<"read">>, <<"write">>>>
           s2 == Upsert(u, Patch(p, kids))
           s3 == IF p = None THEN <<>> ELSE <<<<"link", p, {u}, FALSE>>>>
           s4 == <<<<"link", u, {a}, TRUE>>>>
           s5 == Upsert(a, Patch(u, {}))
<1>1. AllLed(s1, rank, sp)
  <2>1. Led(<<"read">>, rank, sp) /\ Led(<<"write">>, rank, sp)
    BY DEF Led
  <2> QED BY <2>1, TwoLed
<1>2. AllLed(s2, rank, sp)
  <2>1. AreChildren(kids, u, rank, sp)
    BY DEF AreChildren, Placed
  <2> HIDE DEF kids
  <2> QED BY <2>1, UpsertLed DEF Patch
<1>3. AllLed(s3, rank, sp)
  <2>1. p # None => Led(<<"link", p, {u}, FALSE>>, rank, sp)
    BY DEF Led, IsParent, AreChildren
  <2> QED BY <2>1, NoLed, OneLed
<1>4. AllLed(s4, rank, sp)
  <2>1. Led(<<"link", u, {a}, TRUE>>, rank, sp)
    BY DEF Led, AreChildren
  <2> QED BY <2>1, OneLed
<1>5. AllLed(s5, rank, sp)
  BY UpsertLed DEF Patch, IsParent, AreChildren
<1>6. Turn(page, u, p, a) = s1 \o s2 \o s3 \o s4 \o s5
  BY DEF Turn
<1> HIDE DEF s1, s2, s3, s4, s5
<1>7. AllLed(s1 \o s2, rank, sp)
  BY <1>1, <1>2, MoreLed
<1>8. AllLed(s1 \o s2 \o s3, rank, sp)
  BY <1>3, <1>7, MoreLed
<1>9. AllLed(s1 \o s2 \o s3 \o s4, rank, sp)
  BY <1>4, <1>8, MoreLed
<1> QED BY <1>5, <1>6, <1>9, MoreLed

-----------------------------------------------------------------------------
(* Operations on documents keep the ranks *)

LEMMA EmptyPlaced == \A rank, sp : Placed(Empty, rank, sp)
BY DEF Placed, Empty, Nothing, Ids

LEMMA ShownPlaced ==
    ASSUME NEW d, NEW rank, NEW sp, Placed(d, rank, sp), NEW m \in Ids(d)
    PROVE  Placed([d EXCEPT !.current = m], rank, sp)
BY DEF Placed, Ids

LEMMA RepairedPlaced ==
    ASSUME NEW d, NEW rank, NEW sp, Placed(d, rank, sp), NEW e \in Repaired(d)
    PROVE  Placed(e, rank, sp)
BY ShownPlaced DEF Repaired

\* One message is put into a document.
LEMMA PutPlaced ==
    ASSUME NEW d, NEW rank, NEW sp, Placed(d, rank, sp), NEW m \in sp, NEW p, NEW cs,
           IsParent(p, m, rank, sp), AreChildren(cs, m, rank, sp)
    PROVE  LET e == [msgs |-> With(d.msgs, m, [parent |-> p, children |-> cs]), current |-> m]
           IN  /\ Placed(e, rank, sp) /\ Ids(e) = Ids(d) \cup {m} /\ e.msgs[m].parent = p
<1> DEFINE new == [parent |-> p, children |-> cs]
           e   == [msgs |-> With(d.msgs, m, new), current |-> m]
<1>1. new.parent = p /\ new.children = cs
  OBVIOUS
<1> HIDE DEF new
<1>2. /\ DOMAIN e = {"msgs", "current"} /\ e.current = m /\ Ids(e) = Ids(d) \cup {m}
      /\ \A x \in Ids(e) : e.msgs[x] = IF x = m THEN new ELSE d.msgs[x]
  BY DEF With, Ids
<1> HIDE DEF e
<1>3. Placed(e, rank, sp) /\ e.msgs[m].parent = p
  BY <1>1, <1>2 DEF Placed
<1> QED BY <1>2, <1>3 DEF e, new

LEMMA UpsertedPlaced ==
    ASSUME NEW d, NEW rank, NEW sp \in SUBSET Message, Placed(d, rank, sp), NEW m \in sp, NEW patch,
           patch.parent = Same \/ IsParent(patch.parent, m, rank, sp),
           patch.children = Same \/ AreChildren(patch.children, m, rank, sp),
           NEW e \in Upserted(d, m, patch)
    PROVE  /\ Placed(e, rank, sp) /\ Ids(e) = Ids(d) \cup {m}
           /\ IsParent(e.msgs[m].parent, m, rank, sp)
<1> DEFINE listing   == {p \in Ids(d) : m \in d.msgs[p].children}
           put(p, c) == [msgs |-> With(d.msgs, m, [parent |-> p, children |-> c]), current |-> m]
           cs(old)   == IF patch.children = Same THEN old ELSE patch.children
<1>1. AreChildren({}, m, rank, sp) /\ IsParent(None, m, rank, sp)
  BY DEF AreChildren, IsParent
<1>2. \A old : AreChildren(old, m, rank, sp) => AreChildren(cs(old), m, rank, sp)
  OBVIOUS
<1>3. \E p, c : /\ e = put(p, c) /\ IsParent(p, m, rank, sp) /\ AreChildren(c, m, rank, sp)
  <2>1. CASE m \in Ids(d)
    <3> DEFINE p == IF patch.parent = Same THEN d.msgs[m].parent ELSE patch.parent
               c == cs(d.msgs[m].children)
    <3>1. IsParent(p, m, rank, sp) /\ AreChildren(c, m, rank, sp)
      BY <1>2, <2>1 DEF Placed
    <3>2. e = put(p, c)
      BY <2>1 DEF Upserted
    <3> QED BY <3>1, <3>2
  <2>2. CASE m \notin Ids(d) /\ patch.parent \in Message
    <3>1. e = put(patch.parent, cs({}))
      BY <2>2 DEF Upserted
    <3>2. IsParent(patch.parent, m, rank, sp)
      BY <2>2, NoMessages DEF NoMessages
    <3> HIDE DEF put, cs
    <3> QED BY <1>1, <1>2, <3>1, <3>2
  <2>3. CASE m \notin Ids(d) /\ patch.parent \notin Message
    <3>1. \E p \in IF listing = {} THEN {None} ELSE listing : e = put(p, cs({}))
      BY <2>3 DEF Upserted
    <3>2. \A p \in listing : IsParent(p, m, rank, sp)
      BY DEF Placed, AreChildren, IsParent
    <3> HIDE DEF put, cs
    <3> QED BY <1>1, <1>2, <3>1, <3>2
  <2> QED BY <2>1, <2>2, <2>3
<1> QED BY <1>3, PutPlaced

LEMMA MergedPlaced ==
    ASSUME NEW d, NEW page, NEW rank, NEW sp \in SUBSET Message,
           Placed(d, rank, sp), Placed(page, rank, sp)
    PROVE  Placed(Merged(d, page), rank, sp)
<1> DEFINE ids    == Ids(d) \cup Ids(page)
           parent == [m \in ids |-> IF m \in Ids(page) THEN page.msgs[m].parent
                                                      ELSE d.msgs[m].parent]
           msgs   == [m \in ids |-> [parent |-> parent[m], children |-> {c \in ids : parent[c] = m}]]
           shown  == IF page.current \in ids THEN page.current
                     ELSE IF d.current \in ids THEN d.current ELSE None
           e      == Merged(d, page)
<1>1. e = [msgs |-> msgs, current |-> shown]
  BY DEF Merged
<1>2. ids \subseteq sp /\ shown \in ids \cup {None}
  BY DEF Placed
<1>3. ASSUME NEW m \in ids PROVE IsParent(parent[m], m, rank, sp)
  BY DEF Placed
<1>4. ASSUME NEW m \in ids PROVE AreChildren({c \in ids : parent[c] = m}, m, rank, sp)
  BY <1>2, <1>3, NoMessages DEF AreChildren, IsParent, NoMessages
<1>5. \A m \in ids : msgs[m].parent = parent[m] /\ msgs[m].children = {c \in ids : parent[c] = m}
  OBVIOUS
<1>6. DOMAIN msgs = ids
  OBVIOUS
<1> HIDE DEF ids, parent, msgs, shown, e
<1>7. DOMAIN e = {"msgs", "current"} /\ e.msgs = msgs /\ e.current = shown /\ Ids(e) = ids
  BY <1>1, <1>6 DEF Ids
<1>8. Placed(e, rank, sp)
  BY <1>2, <1>3, <1>4, <1>5, <1>7 DEF Placed
<1> QED BY <1>8 DEF e

\* A deletion hands grandchildren to a grandparent, whose rank is lower still.
LEMMA LeftPlaced ==
    ASSUME NEW d, NEW rank \in [Message -> Nat], NEW sp \in SUBSET Message,
           Placed(d, rank, sp), NEW m \in Ids(d)
    PROVE  /\ DOMAIN Left(d, m) \subseteq Ids(d)
           /\ \A x \in DOMAIN Left(d, m) :
                 /\ IsParent(Left(d, m)[x].parent, x, rank, sp)
                 /\ AreChildren(Left(d, m)[x].children, x, rank, sp)
<1> DEFINE p == d.msgs[m].parent
           G == Grandchildren(d, m)
<1>1. /\ DOMAIN Left(d, m) = Ids(d) \ Deletes(d, m)
      /\ \A x \in DOMAIN Left(d, m) :
            /\ Left(d, m)[x].parent = IF x \in G THEN p ELSE d.msgs[x].parent
            /\ Left(d, m)[x].children = IF x = p THEN (d.msgs[x].children \ {m}) \cup G
                                                 ELSE d.msgs[x].children
  BY DEF Left
<1>2. m \in sp /\ IsParent(p, m, rank, sp)
  BY DEF Placed
<1>3. \A x \in G : x \in sp /\ rank[m] < rank[x]
  <2> SUFFICES ASSUME NEW c \in d.msgs[m].children \cap Ids(d), NEW x \in d.msgs[c].children
               PROVE  x \in sp /\ rank[m] < rank[x]
    BY DEF Grandchildren
  <2>1. c \in sp /\ x \in sp /\ rank[m] < rank[c] /\ rank[c] < rank[x]
    BY DEF Placed, AreChildren
  <2>2. rank[m] \in Nat /\ rank[c] \in Nat /\ rank[x] \in Nat
    BY <1>2, <2>1
  <2> QED BY <2>1, <2>2
<1>4. \A x \in G : IsParent(p, x, rank, sp) /\ (p # None => rank[p] < rank[x])
  <2> SUFFICES ASSUME NEW x \in G, p # None PROVE p \in sp /\ rank[p] < rank[x]
    BY DEF IsParent
  <2>1. p \in sp /\ rank[p] < rank[m] /\ rank[m] < rank[x] /\ x \in sp
    BY <1>2, <1>3 DEF IsParent
  <2>2. rank[p] \in Nat /\ rank[m] \in Nat /\ rank[x] \in Nat
    BY <1>2, <2>1
  <2> QED BY <2>1, <2>2
<1>5. \A x \in Ids(d) : x # None
  BY NoMessages DEF Placed, NoMessages
<1> HIDE DEF p, G
<1> QED BY <1>1, <1>3, <1>4, <1>5 DEF Placed, AreChildren

LEMMA CutPlaced ==
    ASSUME NEW d, NEW rank \in [Message -> Nat], NEW sp \in SUBSET Message,
           Placed(d, rank, sp), NEW m \in Ids(d), NEW e \in Cut(d, m)
    PROVE  Placed(e, rank, sp)
<1> DEFINE left == Left(d, m)
<1>1. \E x : e = [msgs |-> left, current |-> x] /\ x \in DOMAIN left \cup {None}
  BY DEF Cut
<1>2. PICK x : e = [msgs |-> left, current |-> x] /\ x \in DOMAIN left \cup {None}
  BY <1>1
<1>3. DOMAIN e = {"msgs", "current"} /\ e.msgs = left /\ e.current = x /\ Ids(e) = DOMAIN left
  BY <1>2 DEF Ids
<1>4. DOMAIN left \subseteq sp
  BY LeftPlaced DEF Placed
<1> HIDE DEF left
<1> QED BY <1>2, <1>3, <1>4, LeftPlaced DEF Placed, left

-----------------------------------------------------------------------------
(* Calls keep the ranks *)

LEMMA FirstCall ==
    ASSUME NEW S, NEW s \in Seq(S), NEW x
    PROVE  /\ <<x>> \o s # <<>> /\ Head(<<x>> \o s) = x /\ Tail(<<x>> \o s) = s
<1>1. <<x>> \in Seq(S \cup {x}) /\ s \in Seq(S \cup {x})
  BY SeqGrows
<1> QED BY <1>1

LEMMA RankAhead ==
    ASSUME NEW rank, Ranked(rank), NEW w \in Worker, Op(w)[1] # "none"
    PROVE  /\ \/ Led(Op(w), rank, spent)
              \/ Op(w)[1] = "rows" /\ Op(w)[2] \subseteq Ids(job[w].copy)
           /\ AllLed(Rest(w), rank, spent) /\ Placed(job[w].copy, rank, spent)
<1> DEFINE s == job[w].todo
<1>1. Leading(job[w], rank, spent) /\ s # <<>> /\ Op(w) = Head(s) /\ Rest(w) = Tail(s)
  BY DEF Ranked, Op, Rest
<1>2. CASE AllLed(s, rank, spent)
  <2>1. PICK S : s \in Seq(S) /\ \A op \in S : Led(op, rank, spent)
    BY <1>2 DEF AllLed
  <2> HIDE DEF s
  <2>2. Head(s) \in S /\ Tail(s) \in Seq(S)
    BY <1>1, <2>1
  <2> QED BY <1>1, <2>1, <2>2 DEF AllLed, Leading
<1>3. CASE ~AllLed(s, rank, spent)
  <2>1. PICK R, t : /\ s = <<<<"rows", R>>>> \o t /\ R \subseteq Ids(job[w].copy)
                    /\ AllLed(t, rank, spent)
    BY <1>1, <1>3 DEF Leading
  <2>2. Head(s) = <<"rows", R>> /\ Tail(s) = t
    BY <2>1, FirstCall DEF AllLed
  <2> HIDE DEF s
  <2>3. Op(w) = <<"rows", R>> /\ Rest(w) = t
    BY <1>1, <2>2
  <2>4. Op(w)[1] = "rows" /\ Op(w)[2] = R
    BY <2>3
  <2> QED BY <1>1, <2>1, <2>3, <2>4 DEF Leading
<1> QED BY <1>2, <1>3

LEMMA LeadingLed ==
    ASSUME NEW todo, NEW copy, NEW rank, NEW sp, AllLed(todo, rank, sp), Placed(copy, rank, sp)
    PROVE  Leading([todo |-> todo, copy |-> copy], rank, sp)
BY DEF Leading

LEMMA LeadingRows ==
    ASSUME NEW left, NEW s, NEW copy, NEW rank, NEW sp, AllLed(s, rank, sp),
           Placed(copy, rank, sp), left \subseteq Ids(copy)
    PROVE  Leading([todo |-> Loop("rows", left) \o s, copy |-> copy], rank, sp)
<1>1. CASE left = {}
  <2>1. <<>> \o s = s
    BY DEF AllLed
  <2> QED BY <1>1, <2>1, LeadingLed DEF Loop
<1>2. CASE left # {}
  BY <1>2 DEF Loop, Leading
<1> QED BY <1>1, <1>2

LEMMA LoopJoins ==
    ASSUME NEW name, NEW left, NEW x, NEW S, NEW s \in Seq(S)
    PROVE  Loop(name, left) \o <<x>> \o s = Loop(name, left) \o (<<x>> \o s)
<1> DEFINE T == S \cup {x, <<name, left>>}
           a == Loop(name, left)
           b == <<x>>
<1>1. a \in Seq(T) /\ b \in Seq(T) /\ s \in Seq(T)
  BY SeqGrows DEF Loop
<1> HIDE DEF a, b
<1>2. (a \o b) \o s = a \o (b \o s)
  BY <1>1
<1> QED BY <1>2 DEF a, b

LEMMA CallRanked ==
    ASSUME NEW rank, Ranked(rank), NEW w \in Worker, NEW todo, NEW copy, Go(w, todo, copy),
           Leading([todo |-> todo, copy |-> copy], rank, spent), UNCHANGED <<tab, asked>>,
           Placed(doc', rank, spent), DOMAIN rows' \subseteq spent,
           \A m \in DOMAIN rows' : IsParent(rows'[m], m, rank, spent)
    PROVE  Ranked(rank)'
<1>1. Leading(Idle, rank, spent)
  BY NoLed, EmptyPlaced DEF Idle, Leading
<1> DEFINE next == IF todo = <<>> THEN Idle ELSE [todo |-> todo, copy |-> copy]
<1>2. job' = [job EXCEPT ![w] = next] /\ Leading(next, rank, spent)
  BY <1>1 DEF Go
<1> HIDE DEF next
<1>3. job' = [v \in Worker |-> job'[v]] /\ \A v \in Worker : Leading(job'[v], rank, spent)
  BY <1>2 DEF Ranked
<1>4. UNCHANGED spent
  BY DEF spent
<1> QED BY <1>3, <1>4 DEF Ranked

LEMMA CallsRanked ==
    ASSUME NEW rank, Ranked(rank), NEW w \in Worker, Call(w)
    PROVE  Ranked(rank)'
<1> DEFINE copy == job[w].copy
<1>0. /\ UNCHANGED <<tab, asked>>
      /\ \/ Led(Op(w), rank, spent)
         \/ Op(w)[1] = "rows" /\ Op(w)[2] \subseteq Ids(copy)
      /\ AllLed(Rest(w), rank, spent) /\ Placed(copy, rank, spent)
      /\ spent \in SUBSET Message /\ Placed(doc, rank, spent) /\ rank \in [Message -> Nat]
      /\ DOMAIN rows \subseteq spent /\ \A m \in DOMAIN rows : IsParent(rows[m], m, rank, spent)
  <2>1. Op(w)[1] # "none" /\ UNCHANGED <<tab, asked>>
    BY DEF Call, Read, Write, UpsertRow, Link, DeleteMessage, SaveHistory, BackfillRow,
           DeleteRows, Walk, Heal
  <2> QED BY <2>1, RankAhead DEF Ranked
<1> HIDE DEF copy
\* Steps that touch no row
<1>1. ASSUME UNCHANGED rows, Placed(doc', rank, spent), NEW s, NEW d,
             Leading([todo |-> s, copy |-> d], rank, spent), Go(w, s, d)
      PROVE  Ranked(rank)'
  BY <1>0, <1>1, CallRanked
\* Steps that write a row
<1>2. ASSUME NEW m \in spent, NEW p, IsParent(p, m, rank, spent), rows' = With(rows, m, p),
             UNCHANGED doc, NEW s, NEW d, Leading([todo |-> s, copy |-> d], rank, spent), Go(w, s, d)
      PROVE  Ranked(rank)'
  <2>1. /\ DOMAIN rows' = DOMAIN rows \cup {m}
        /\ \A x \in DOMAIN rows' : rows'[x] = IF x = m THEN p ELSE rows[x]
    BY <1>2 DEF With
  <2> QED BY <1>0, <1>2, <2>1, CallRanked
<1>3. CASE Read(w)
  <2>1. PICK d \in Repaired(doc) : doc' = d /\ Go(w, Rest(w), d) /\ UNCHANGED rows
    BY <1>3 DEF Read
  <2>2. Placed(d, rank, spent)
    BY <1>0, RepairedPlaced
  <2> QED BY <1>0, <1>1, <2>1, <2>2, LeadingLed
<1>4. CASE Write(w)
  BY <1>0, <1>1, <1>4, LeadingLed, EmptyPlaced DEF Write, copy
<1>5. CASE UpsertRow(w)
  <2> DEFINE m     == Op(w)[2]
             patch == Op(w)[3]
  <2>1. PICK d \in Upserted(copy, m, patch) :
          rows' = With(rows, m, d.msgs[m].parent) /\ Go(w, Rest(w), d) /\ UNCHANGED doc
    BY <1>5 DEF UpsertRow, copy
  <2>2. /\ m \in spent
        /\ patch.parent = Same \/ IsParent(patch.parent, m, rank, spent)
        /\ patch.children = Same \/ AreChildren(patch.children, m, rank, spent)
    BY <1>0, <1>5 DEF Led, UpsertRow
  <2> HIDE DEF m, patch
  <2>3. Placed(d, rank, spent) /\ IsParent(d.msgs[m].parent, m, rank, spent)
    BY <1>0, <2>2, UpsertedPlaced
  <2> QED BY <1>0, <1>2, <2>1, <2>2, <2>3, LeadingLed
<1>6. CASE Link(w)
  <2> DEFINE p    == Op(w)[2]
             kids == Op(w)[3]
             ops(d) == IF /\ p \in Ids(d)
                          /\ Op(w)[4] \/ ~(kids \subseteq d.msgs[p].children)
                       THEN Upsert(p, Patch(Same, d.msgs[p].children \cup kids))
                       ELSE <<>>
  <2>1. PICK d \in Repaired(doc) : doc' = d /\ Go(w, ops(d) \o Rest(w), Empty) /\ UNCHANGED rows
    BY <1>6 DEF Link
  <2>2. Placed(d, rank, spent) /\ p \in spent /\ AreChildren(kids, p, rank, spent)
    BY <1>0, <1>6, RepairedPlaced DEF Led, Link
  <2>3. AllLed(ops(d), rank, spent)
    <3>1. CASE p \in Ids(d)
      <4> DEFINE patch == Patch(Same, d.msgs[p].children \cup kids)
      <4>1. patch.parent = Same /\ AreChildren(patch.children, p, rank, spent)
        BY <2>2, <3>1 DEF Patch, Placed, AreChildren
      <4> HIDE DEF patch
      <4>2. AllLed(Upsert(p, patch), rank, spent)
        BY <2>2, <4>1, UpsertLed
      <4> QED BY <4>2, NoLed DEF patch
    <3>2. CASE p \notin Ids(d)
      BY <3>2, NoLed
    <3> QED BY <3>1, <3>2
  <2> HIDE DEF ops
  <2>4. AllLed(ops(d) \o Rest(w), rank, spent)
    BY <1>0, <2>3, MoreLed
  <2> QED BY <1>1, <2>1, <2>2, <2>4, LeadingLed, EmptyPlaced
<1>7. CASE DeleteMessage(w)
  <2> DEFINE m == Op(w)[2]
  <2>1. CASE m \notin Ids(copy)
    <3>1. Go(w, Rest(w), Empty) /\ UNCHANGED <<doc, rows>>
      BY <1>7, <2>1 DEF DeleteMessage, copy
    <3> QED BY <1>0, <1>1, <3>1, LeadingLed, EmptyPlaced
  <2>2. CASE m \in Ids(copy)
    <3> DEFINE x == <<"unrow", Deletes(copy, m)>>
    <3>1. PICK e \in Cut(copy, m) :
            doc' = e /\ Go(w, Loop("rows", Ids(e)) \o <<x>> \o Rest(w), e) /\ UNCHANGED rows
      BY <1>7, <2>2 DEF DeleteMessage, copy
    <3>2. Placed(e, rank, spent)
      BY <1>0, <2>2, CutPlaced
    <3>3. Led(x, rank, spent)
      BY DEF Led
    <3> HIDE DEF x
    <3>4. AllLed(<<x>> \o Rest(w), rank, spent)
      BY <1>0, <3>3, OneLed, MoreLed
    <3>5. Leading([todo |-> Loop("rows", Ids(e)) \o (<<x>> \o Rest(w)), copy |-> e], rank, spent)
      BY <3>2, <3>4, LeadingRows
    <3>6. Loop("rows", Ids(e)) \o <<x>> \o Rest(w) = Loop("rows", Ids(e)) \o (<<x>> \o Rest(w))
      BY <1>0, LoopJoins DEF AllLed
    <3> QED BY <1>1, <3>1, <3>2, <3>5, <3>6
  <2> QED BY <2>1, <2>2
<1>8. CASE SaveHistory(w)
  <2> DEFINE d == Merged(copy, Op(w)[2])
  <2>1. doc' = d /\ Go(w, Loop("rows", Ids(d)) \o Rest(w), d) /\ UNCHANGED rows
    BY <1>8 DEF SaveHistory, copy
  <2>2. Placed(Op(w)[2], rank, spent)
    BY <1>0, <1>8 DEF Led, SaveHistory
  <2>3. Placed(d, rank, spent)
    BY <1>0, <2>2, MergedPlaced
  <2> HIDE DEF d
  <2>4. Leading([todo |-> Loop("rows", Ids(d)) \o Rest(w), copy |-> d], rank, spent)
    BY <1>0, <2>3, LeadingRows
  <2> QED BY <1>1, <2>1, <2>3, <2>4
<1>9. CASE BackfillRow(w)
  <2>1. PICK m \in Op(w)[2] :
          /\ rows' = With(rows, m, copy.msgs[m].parent) /\ UNCHANGED doc
          /\ Go(w, Loop("rows", Op(w)[2] \ {m}) \o Rest(w), copy)
    BY <1>9 DEF BackfillRow, copy
  <2>2. Op(w)[2] \subseteq Ids(copy)
    BY <1>0, <1>9 DEF Led, BackfillRow
  <2>3. m \in spent /\ IsParent(copy.msgs[m].parent, m, rank, spent)
    BY <1>0, <2>2 DEF Placed
  <2>4. Leading([todo |-> Loop("rows", Op(w)[2] \ {m}) \o Rest(w), copy |-> copy], rank, spent)
    BY <1>0, <2>2, LeadingRows
  <2> QED BY <1>2, <2>1, <2>3, <2>4
<1>10. CASE DeleteRows(w)
  <2>1. rows' = Without(rows, Op(w)[2]) /\ Go(w, Rest(w), Empty) /\ UNCHANGED doc
    BY <1>10 DEF DeleteRows
  <2>2. DOMAIN rows' \subseteq DOMAIN rows /\ \A m \in DOMAIN rows' : rows'[m] = rows[m]
    BY <2>1 DEF Without
  <2>3. Leading([todo |-> Rest(w), copy |-> Empty], rank, spent)
    BY <1>0, LeadingLed, EmptyPlaced
  <2> QED BY <1>0, <2>1, <2>2, <2>3, CallRanked
<1>11. CASE Walk(w)
  <2>1. \E s : /\ s = <<<<"heal", Message>>>> \/ \E left : s = Loop("heal", left)
               /\ Go(w, s, Empty) /\ UNCHANGED <<doc, rows>>
    BY <1>11 DEF Walk
  <2>2. \A left : Led(<<"heal", left>>, rank, spent)
    BY DEF Led
  <2>3. \A s : s = <<<<"heal", Message>>>> \/ (\E left : s = Loop("heal", left))
               => AllLed(s, rank, spent)
    BY <2>2, OneLed, NoLed DEF Loop
  <2> QED BY <1>0, <1>1, <2>1, <2>3, LeadingLed, EmptyPlaced
<1>12. CASE Heal(w)
  <2>1. PICK d \in Repaired(doc) :
          doc' = d /\ Go(w, Loop("rows", Op(w)[2] \cap Ids(d)) \o Rest(w), d) /\ UNCHANGED rows
    BY <1>12 DEF Heal
  <2>2. Placed(d, rank, spent)
    BY <1>0, RepairedPlaced
  <2>3. Leading([todo |-> Loop("rows", Op(w)[2] \cap Ids(d)) \o Rest(w), copy |-> d], rank, spent)
    BY <1>0, <2>2, LeadingRows
  <2> QED BY <1>1, <2>1, <2>2, <2>3
<1> QED BY <1>3, <1>4, <1>5, <1>6, <1>7, <1>8, <1>9, <1>10, <1>11, <1>12 DEF Call

-----------------------------------------------------------------------------
(* Requests rank the messages they bring above all others *)

LEMMA PlacedMore ==
    ASSUME NEW rank, NEW rank2, NEW sp, NEW sp2, sp \subseteq sp2,
           \A m \in sp : rank2[m] = rank[m], NEW d, Placed(d, rank, sp)
    PROVE  Placed(d, rank2, sp2)
BY DEF Placed, IsParent, AreChildren

LEMMA LeadingMore ==
    ASSUME NEW rank, NEW rank2, NEW sp, NEW sp2, sp \subseteq sp2,
           \A m \in sp : rank2[m] = rank[m], NEW j, Leading(j, rank, sp)
    PROVE  Leading(j, rank2, sp2)
<1>1. Placed(j.copy, rank2, sp2)
  BY PlacedMore DEF Leading
<1>2. ASSUME NEW op, Led(op, rank, sp) PROVE Led(op, rank2, sp2)
  <2>1. op[1] = "merge" => Placed(op[2], rank2, sp2)
    BY <1>2, PlacedMore DEF Led
  <2> QED BY <1>2, <2>1 DEF Led, IsParent, AreChildren
<1>3. \A s : AllLed(s, rank, sp) => AllLed(s, rank2, sp2)
  BY <1>2 DEF AllLed
<1> QED BY <1>1, <1>3 DEF Leading

\* The ranks of a request's messages u and a, in this order, over those below n.
Raised(rank, u, a, n) ==
    [m \in Message |-> IF m \in spent THEN rank[m] ELSE IF m = a /\ a # u THEN n + 1 ELSE n]

LEMMA BeginRanked ==
    ASSUME NEW rank, Ranked(rank), NEW n \in Nat, \A m \in spent : rank[m] < n,
           NEW u \in Message, NEW a \in Message, NEW w \in Worker, NEW todo, NEW ids, NEW late,
           DOMAIN ids \subseteq {u, a},
           \A m \in DOMAIN ids :
              IsParent(ids[m], m, Raised(rank, u, a, n), spent \cup DOMAIN ids),
           AllLed(todo, Raised(rank, u, a, n), spent \cup DOMAIN ids),
           Begin(w, todo, ids, late)
    PROVE  TreeInv'
<1> DEFINE sp2 == spent \cup DOMAIN ids
<1>0. PICK rank2 : rank2 = Raised(rank, u, a, n)
  OBVIOUS
<1>1. /\ spent' = sp2 /\ \A m \in sp2 : asked'[m] = IF m \in spent THEN asked[m] ELSE ids[m]
      /\ job' = [job EXCEPT ![w] = [todo |-> todo, copy |-> Empty]]
      /\ tab' \in {tab, Empty} /\ UNCHANGED <<doc, rows>>
  BY DEF Begin, spent
<1>2. /\ rank2 \in [Message -> Nat] /\ \A m \in spent : rank2[m] = rank[m]
      /\ \A m \in Message : rank2[m] < n + 2
  BY <1>0 DEF Raised, Ranked
<1>3. sp2 \subseteq Message /\ spent \subseteq sp2
  BY DEF Ranked
<1> HIDE DEF sp2
<1>4. \A m \in sp2 : IsParent(asked'[m], m, rank2, sp2)
  BY <1>0, <1>1, <1>2, <1>3 DEF Ranked, IsParent, sp2
<1>5. Placed(doc', rank2, sp2) /\ Placed(tab', rank2, sp2)
  BY <1>1, <1>2, <1>3, PlacedMore, EmptyPlaced DEF Ranked
<1>6. DOMAIN rows' \subseteq sp2 /\ \A m \in DOMAIN rows' : IsParent(rows'[m], m, rank2, sp2)
  BY <1>1, <1>2, <1>3 DEF Ranked, IsParent
<1>7. \A v \in Worker : Leading(job[v], rank2, sp2)
  BY <1>2, <1>3, LeadingMore DEF Ranked
<1>8. Leading([todo |-> todo, copy |-> Empty], rank2, sp2)
  BY <1>0, LeadingLed, EmptyPlaced DEF sp2
<1>9. job' = [v \in Worker |-> job'[v]] /\ \A v \in Worker : Leading(job'[v], rank2, sp2)
  BY <1>1, <1>7, <1>8 DEF Ranked
<1>10. Ranked(rank2)'
  BY <1>1, <1>2, <1>3, <1>4, <1>5, <1>6, <1>9 DEF Ranked
<1>11. Bounded(rank2)'
  BY <1>1, <1>2, <1>3 DEF Bounded
<1> QED BY <1>10, <1>11 DEF TreeInv

\* A request that brings no message
LEMMA BeginPlain ==
    ASSUME NEW rank, Ranked(rank), Bounded(rank), NEW w \in Worker, NEW todo, NEW late,
           AllLed(todo, rank, spent), Begin(w, todo, Nothing, late)
    PROVE  TreeInv'
<1>1. /\ UNCHANGED <<doc, rows, spent>> /\ tab' \in {tab, Empty}
      /\ job' = [job EXCEPT ![w] = [todo |-> todo, copy |-> Empty]]
      /\ \A m \in spent : asked'[m] = asked[m]
  BY DEF Begin, spent, Nothing
<1>2. Leading([todo |-> todo, copy |-> Empty], rank, spent)
  BY LeadingLed, EmptyPlaced
<1>3. job' = [v \in Worker |-> job'[v]] /\ \A v \in Worker : Leading(job'[v], rank, spent)
  BY <1>1, <1>2 DEF Ranked
<1>4. Ranked(rank)'
  BY <1>1, <1>3, EmptyPlaced DEF Ranked
<1> QED BY <1>1, <1>4 DEF TreeInv, Bounded

LEMMA RequestsRanked ==
    ASSUME TreeInv, NEW w \in Worker, Request(w)
    PROVE  TreeInv'
<1>1. PICK rank : Ranked(rank) /\ Bounded(rank)
  BY DEF TreeInv
<1>2. PICK n \in Nat : \A m \in spent : rank[m] < n
  BY <1>1 DEF Bounded
<1>3. /\ spent \subseteq Message /\ rank \in [Message -> Nat]
      /\ \A page \in {doc, tab} : Placed(page, rank, spent)
      /\ \A m \in spent : IsParent(asked[m], m, rank, spent)
  BY <1>1 DEF Ranked
<1>4. ASSUME NEW op, Led(op, rank, spent)
      PROVE  AllLed(<<<<"read">>, op>>, rank, spent)
  <2>1. Led(<<"read">>, rank, spent)
    BY DEF Led
  <2> QED BY <1>4, <2>1, TwoLed
<1>5. ASSUME NEW u \in Message, NEW a \in Message, NewChat(w, u, a)
      PROVE  TreeInv'
  <2>0. PICK rank2 : rank2 = Raised(rank, u, a, n)
    OBVIOUS
  <2> DEFINE sp2 == {u, a}
             d   == [msgs    |-> [m \in {u, a} |->
                                    IF m # u THEN [parent |-> u, children |-> {}]
                                             ELSE [parent |-> None, children |-> {a} \ {u}]],
                     current |-> a]
  <2>1. /\ spent = {} /\ asked' = [m \in {u, a} |-> IF m # u THEN u ELSE None] /\ doc' = d
        /\ Go(w, Loop("rows", {u, a}), d) /\ UNCHANGED <<rows, tab>>
    BY <1>5 DEF NewChat
  <2>2. /\ rank2 \in [Message -> Nat] /\ (u # a => rank2[u] < rank2[a])
        /\ \A m \in sp2 : rank2[m] < n + 2
    BY <2>0, <2>1 DEF Raised
  <2>3. /\ DOMAIN d = {"msgs", "current"} /\ Ids(d) = sp2 /\ d.current = a
        /\ \A m \in sp2 : /\ d.msgs[m].parent = (IF m # u THEN u ELSE None)
                          /\ d.msgs[m].children = (IF m # u THEN {} ELSE {a} \ {u})
    BY DEF Ids
  <2> HIDE DEF d
  <2>4. Placed(d, rank2, sp2)
    BY <2>2, <2>3 DEF Placed, IsParent, AreChildren
  <2>5. Leading([todo |-> Loop("rows", {u, a}), copy |-> d], rank2, sp2)
    <3>1. Loop("rows", {u, a}) \o <<>> = Loop("rows", {u, a})
      BY DEF Loop
    <3> QED BY <2>3, <2>4, <3>1, NoLed, LeadingRows
  <2>6. \A v \in Worker : Leading(job[v], rank2, sp2)
    BY <1>1, <2>1, LeadingMore DEF Ranked
  <2>7. job' = [v \in Worker |-> job'[v]] /\ \A v \in Worker : Leading(job'[v], rank2, sp2)
    <3>1. job' = [job EXCEPT ![w] = IF Loop("rows", {u, a}) = <<>> THEN Idle
                                    ELSE [todo |-> Loop("rows", {u, a}), copy |-> d]]
      BY <2>1 DEF Go
    <3>2. Leading(Idle, rank2, sp2)
      BY NoLed, EmptyPlaced DEF Idle, Leading
    <3> QED BY <1>1, <2>5, <2>6, <3>1, <3>2 DEF Ranked
  <2>8. /\ spent' = sp2 /\ \A m \in sp2 : IsParent(asked'[m], m, rank2, sp2)
        /\ Placed(tab', rank2, sp2)
        /\ DOMAIN rows' \subseteq sp2 /\ \A m \in DOMAIN rows' : IsParent(rows'[m], m, rank2, sp2)
    <3>1. Placed(tab, rank2, sp2)
      BY <1>3, <2>1, PlacedMore
    <3>2. spent' = sp2 /\ \A m \in sp2 : asked'[m] = IF m # u THEN u ELSE None
      BY <2>1 DEF spent
    <3>3. DOMAIN rows = {}
      BY <1>1, <2>1 DEF Ranked
    <3> QED BY <2>1, <2>2, <3>1, <3>2, <3>3 DEF IsParent
  <2>9. Ranked(rank2)'
    BY <2>1, <2>2, <2>4, <2>7, <2>8 DEF Ranked
  <2>10. Bounded(rank2)'
    BY <2>2, <2>8 DEF Bounded
  <2> QED BY <2>9, <2>10 DEF TreeInv
<1>6. ASSUME NEW u \in Message, NEW a \in Message, NEW page \in {doc, tab}, Ask(w, page, u, a)
      PROVE  TreeInv'
  <2> DEFINE rank2 == Raised(rank, u, a, n)
  <2>0. u # a /\ Placed(page, rank, spent)
    BY <1>3, <1>6 DEF Ask
  <2>1. CASE u \in Ids(page)
    <3> DEFINE ids == [m \in {a} |-> u]
               p   == page.msgs[u].parent
    <3>1. Begin(w, Turn(page, u, p, a), ids, page # doc)
      BY <1>6, <2>1 DEF Ask
    <3>2. u \in spent /\ a \notin spent /\ DOMAIN ids = {a} /\ IsParent(p, u, rank, spent)
      BY <2>0, <2>1, <3>1 DEF Begin, Placed
    <3>3. rank2[u] < rank2[a] /\ \A m \in spent : rank2[m] = rank[m]
      BY <1>2, <1>3, <3>2 DEF Raised
    <3> HIDE DEF rank2
    <3>4. Placed(page, rank2, spent \cup {a}) /\ IsParent(p, u, rank2, spent \cup {a})
      BY <2>0, <3>2, <3>3, PlacedMore DEF IsParent
    <3>5. AllLed(Turn(page, u, p, a), rank2, spent \cup {a})
      BY <3>2, <3>3, <3>4, TurnLed
    <3>6. \A m \in DOMAIN ids : IsParent(ids[m], m, rank2, spent \cup DOMAIN ids)
      BY <3>2, <3>3 DEF IsParent
    <3> QED BY <1>1, <1>2, <3>1, <3>2, <3>5, <3>6, BeginRanked DEF rank2
  <2>2. CASE u \notin Ids(page)
    <3> DEFINE ids == [m \in {u, a} |-> IF m = a THEN u ELSE None]
    <3>1. PICK p \in Ids(page) \cup {None} : Begin(w, Turn(page, u, p, a), ids, page # doc)
      BY <1>6, <2>2 DEF Ask
    <3>2. /\ u \notin spent /\ a \notin spent /\ DOMAIN ids = {u, a}
          /\ ids[a] = u /\ ids[u] = None /\ p \in spent \cup {None}
      BY <2>0, <3>1 DEF Begin, Placed
    <3>3. /\ rank2[u] < rank2[a] /\ \A m \in spent : rank2[m] = rank[m] /\ rank[m] < rank2[u]
      BY <1>2, <1>3, <2>0, <3>2 DEF Raised
    <3> HIDE DEF rank2, ids
    <3>4. Placed(page, rank2, spent \cup {u, a}) /\ IsParent(p, u, rank2, spent \cup {u, a})
      BY <2>0, <3>2, <3>3, PlacedMore DEF IsParent
    <3>5. AllLed(Turn(page, u, p, a), rank2, spent \cup {u, a})
      BY <3>3, <3>4, TurnLed
    <3>6. \A m \in DOMAIN ids : IsParent(ids[m], m, rank2, spent \cup DOMAIN ids)
      BY <3>2, <3>3 DEF IsParent
    <3> QED BY <1>1, <1>2, <3>1, <3>2, <3>5, <3>6, BeginRanked DEF rank2
  <2> QED BY <2>1, <2>2
<1>7. ASSUME NEW m \in spent, NEW p \in {Same, asked[m]}, Change(w, m, p)
      PROVE  TreeInv'
  <2>1. \E late : Begin(w, Upsert(m, Patch(p, Same)), Nothing, late)
    BY <1>7 DEF Change
  <2>2. AllLed(Upsert(m, Patch(p, Same)), rank, spent)
    BY <1>3, UpsertLed DEF Patch
  <2> QED BY <1>1, <2>1, <2>2, BeginPlain
<1>8. CASE Retitle(w)
  <2>1. Led(<<"write">>, rank, spent)
    BY DEF Led
  <2> QED BY <1>1, <1>4, <1>8, <2>1, BeginPlain DEF Retitle
<1>9. ASSUME NEW m, Delete(w, m)
      PROVE  TreeInv'
  <2>1. Led(<<"delete", m>>, rank, spent)
    BY DEF Led
  <2>2. AllLed(<<<<"read">>, <<"delete", m>>>>, rank, spent)
    BY <1>4, <2>1
  <2> QED BY <1>1, <1>9, <2>2, BeginPlain DEF Delete
<1>10. ASSUME NEW page \in {doc, tab}, Save(w, page)
       PROVE  TreeInv'
  <2>0. Placed(page, rank, spent)
    BY <1>3
  <2>1. ASSUME NEW m \in Ids(page), NEW late,
               Begin(w, <<<<"read">>, <<"merge", [page EXCEPT !.current = m]>>>>, Nothing, late)
        PROVE  TreeInv'
    <3>1. Placed([page EXCEPT !.current = m], rank, spent)
      BY <2>0, ShownPlaced
    <3>2. Led(<<"merge", [page EXCEPT !.current = m]>>, rank, spent)
      BY <3>1 DEF Led
    <3> QED BY <1>1, <1>4, <2>1, <3>2, BeginPlain
  <2>2. ASSUME NEW m \in Message, NEW p \in Ids(page), NEW late,
               Begin(w, <<<<"read">>,
                          <<"merge", [msgs |-> With(page.msgs, m, [parent |-> p, children |-> {}]),
                                      current |-> m]>>>>, [x \in {m} |-> None], late)
        PROVE  TreeInv'
    <3> DEFINE rank2 == Raised(rank, m, m, n)
               ids   == [x \in {m} |-> None]
               e     == [msgs |-> With(page.msgs, m, [parent |-> p, children |-> {}]),
                         current |-> m]
    <3>1. m \notin spent /\ DOMAIN ids = {m} /\ ids[m] = None /\ p \in spent
      BY <2>0, <2>2 DEF Begin, Placed
    <3>2. rank2[p] < rank2[m] /\ \A x \in spent : rank2[x] = rank[x]
      BY <1>2, <1>3, <3>1 DEF Raised
    <3> HIDE DEF rank2, ids
    <3>3. Placed(page, rank2, spent \cup {m})
      BY <2>0, <3>2, PlacedMore
    <3>4. Placed(e, rank2, spent \cup {m})
      <4>1. IsParent(p, m, rank2, spent \cup {m}) /\ AreChildren({}, m, rank2, spent \cup {m})
        BY <3>1, <3>2 DEF IsParent, AreChildren
      <4> QED BY <3>3, <4>1, PutPlaced
    <3> HIDE DEF e
    <3>5. AllLed(<<<<"read">>, <<"merge", e>>>>, rank2, spent \cup {m})
      <4>1. Led(<<"read">>, rank2, spent \cup {m}) /\ Led(<<"merge", e>>, rank2, spent \cup {m})
        BY <3>4 DEF Led
      <4> QED BY <4>1, TwoLed
    <3>6. \A x \in DOMAIN ids : IsParent(ids[x], x, rank2, spent \cup DOMAIN ids)
      BY <3>1 DEF IsParent
    <3>7. Begin(w, <<<<"read">>, <<"merge", e>>>>, ids, late)
      BY <2>2 DEF e, ids
    <3> QED BY <1>1, <1>2, <3>1, <3>5, <3>6, <3>7, BeginRanked DEF rank2
  <2> QED BY <1>10, <2>1, <2>2 DEF Save
<1>11. CASE Compile(w)
  <2>1. Led(<<"walk">>, rank, spent)
    BY DEF Led
  <2> QED BY <1>1, <1>11, <2>1, OneLed, BeginPlain DEF Compile
<1> QED BY <1>5, <1>6, <1>7, <1>8, <1>9, <1>10, <1>11 DEF Request

LEMMA InitTree == Init => TreeInv
<1> SUFFICES ASSUME Init PROVE TreeInv
  OBVIOUS
<1> DEFINE rank == [m \in Message |-> 0]
<1>1. spent = {} /\ DOMAIN rows = {}
  BY DEF Init, Nothing, spent
<1>2. Leading(Idle, rank, spent)
  BY NoLed, EmptyPlaced DEF Leading, Idle
<1>3. rank \in [Message -> Nat]
  OBVIOUS
<1> HIDE DEF rank
<1>4. Ranked(rank)
  BY <1>1, <1>2, <1>3, EmptyPlaced DEF Init, Ranked
<1>5. Bounded(rank)
  BY <1>1 DEF Bounded
<1> QED BY <1>4, <1>5 DEF TreeInv

LEMMA NextTree == TreeInv /\ [Next]_vars => TreeInv'
<1> SUFFICES ASSUME TreeInv, [Next]_vars PROVE TreeInv'
  OBVIOUS
<1>1. PICK rank : Ranked(rank) /\ Bounded(rank)
  BY DEF TreeInv
<1>2. CASE UNCHANGED vars
  BY <1>1, <1>2 DEF vars, TreeInv, Ranked, Bounded, spent
<1>3. CASE Load
  <2>1. tab' = doc /\ UNCHANGED <<doc, rows, job, asked, spent>>
    BY <1>3 DEF Load, spent
  <2> QED BY <1>1, <2>1 DEF TreeInv, Ranked, Bounded
<1>4. CASE Crash
  <2>1. /\ job' = [w \in Worker |-> Idle] /\ UNCHANGED <<doc, rows, asked, spent>>
        /\ tab' \in {tab, Empty}
    BY <1>4 DEF Crash, spent
  <2>2. Leading(Idle, rank, spent)
    BY NoLed, EmptyPlaced DEF Leading, Idle
  <2> QED BY <1>1, <2>1, <2>2, EmptyPlaced DEF TreeInv, Ranked, Bounded
<1>5. ASSUME NEW w \in Worker, Call(w)
      PROVE  TreeInv'
  <2>1. Ranked(rank)'
    BY <1>1, <1>5, CallsRanked
  <2>2. UNCHANGED spent
    BY <1>5 DEF spent, Call, Read, Write, UpsertRow, Link, DeleteMessage, SaveHistory,
                BackfillRow, DeleteRows, Walk, Heal
  <2> QED BY <1>1, <2>1, <2>2 DEF TreeInv, Bounded
<1>6. CASE \E w \in Worker : Request(w)
  BY <1>6, RequestsRanked
<1> QED BY <1>2, <1>3, <1>4, <1>5, <1>6 DEF Next

LEMMA TreeInvariant == Spec => []TreeInv
BY InitTree, NextTree, PTL DEF Spec

\* For any number of messages, tabs, overlapping requests and crashes: following
\* parents ends, in the document of the chat and in its rows.
THEOREM ParentsEnd == Spec => []NoLoop
BY TreeInvariant, TreeNoLoop, PTL

-----------------------------------------------------------------------------
(* A request alone: what it has left to do fits the document it finds *)

Kids(d, m) == {c \in Ids(d) : d.msgs[c].parent = m}

Rooted(d) == /\ DOMAIN d = {"msgs", "current"} /\ Ids(d) \subseteq Message
             /\ \A m \in Ids(d) : d.msgs[m].parent \in Ids(d) \cup {None}
             /\ Ids(d) # {} => d.current \in Ids(d)
Agrees(d) == Rooted(d) /\ \A m \in Ids(d) : d.msgs[m].children = Kids(d, m)
RowsOf(d) == [m \in Ids(d) |-> d.msgs[m].parent]

\* A turn from the question u to the answer a: before it begins, and while u
\* lists a, which is not there yet, and p may not list u yet.
Asking(d, u, p, a) ==
    /\ u \in Message /\ a \in Message \ Ids(d) /\ u # a
    /\ \/ u \in Ids(d) /\ p = d.msgs[u].parent
       \/ u \notin Ids(d) /\ p \in Ids(d) \cup {None}
Listed(d, u, a) == {a} \cup (IF u \in Ids(d) THEN d.msgs[u].children ELSE {})
Bent(d, u, p, a, listed) ==
    /\ Rooted(d) /\ u \in Ids(d) /\ a \in Message \ Ids(d) /\ d.msgs[u].parent = p
    /\ ~listed => p \in Ids(d) /\ p # u
    /\ \A m \in Ids(d) : d.msgs[m].children =
          (IF m = p /\ ~listed THEN Kids(d, m) \ {u} ELSE Kids(d, m))
             \cup (IF m = u THEN {a} ELSE {})

\* A page a client may save: the messages of the document, and new ones.
PageOf(page, d) == /\ Rooted(page) /\ Ids(d) \subseteq Ids(page)
                   /\ page.current \in Ids(page)

\* Lists of calls
Then(op, s) == <<op>> \o s
Reading(s) == Then(<<"read">>, s)
Writing(s) == Then(<<"write">>, s)
Putting(m, patch, s) == Then(<<"upsert", m, patch>>, Writing(s))
Answering(u, a) == Putting(a, Patch(u, {}), <<>>)
Linking(u, a)   == Then(<<"link", u, {a}, TRUE>>, Reading(Answering(u, a)))
Placing(u, p, a) == IF p = None THEN Linking(u, a)
                    ELSE Then(<<"link", p, {u}, FALSE>>, Linking(u, a))
Questioning(u, p, a, cs) == Putting(u, Patch(p, cs), Placing(u, p, a))

\* Of message m a patch is left to write, and then s, when the document d has
\* been read: a change; the question, its parent or itself once more, or the
\* answer of a turn.
Fits(m, patch, s, d) ==
    \/ /\ Agrees(d) /\ m \in Ids(d)
       /\ \E p \in {Same, d.msgs[m].parent} : patch = Patch(p, Same)
       /\ s = <<>>
    \/ \E p, a : /\ Agrees(d) /\ Asking(d, m, p, a)
                 /\ patch = Patch(p, Listed(d, m, a)) /\ s = Placing(m, p, a)
    \/ \E u, a : /\ Bent(d, u, m, a, FALSE)
                 /\ patch = Patch(Same, d.msgs[m].children \cup {u}) /\ s = Linking(u, a)
    \/ \E p, a : /\ Bent(d, m, p, a, TRUE)
                 /\ patch = Patch(Same, d.msgs[m].children \cup {a})
                 /\ s = Reading(Answering(m, a))
    \/ \E u, p : Bent(d, u, p, m, TRUE) /\ patch = Patch(u, {}) /\ s = <<>>

\* What may be left when the document d has been read
ReadAt(t, d) ==
    \/ \E m, patch, s : Fits(m, patch, s, d) /\ t = Putting(m, patch, s)
    \/ Agrees(d) /\ t = Writing(<<>>)
    \/ \E m : Agrees(d) /\ t = Then(<<"delete", m>>, <<>>)
    \/ \E page : Agrees(d) /\ PageOf(page, d) /\ t = Then(<<"merge", page>>, <<>>)
    \/ \E u, p, a : /\ Agrees(d) /\ Asking(d, u, p, a)
                    /\ t = Writing(Reading(Questioning(u, p, a, Listed(d, u, a))))

\* What may be left when the document, not yet read, is d
At(s, d) ==
    \/ Agrees(d) /\ \/ s = <<>>
                    \/ s = Then(<<"walk">>, <<>>)
                    \/ \E L : s = Then(<<"heal", L>>, <<>>)
    \/ \E t : s = Reading(t) /\ ReadAt(t, d)
    \/ \E u, p, a : \E listed \in BOOLEAN :
          p # None /\ Bent(d, u, p, a, listed) /\ s = Then(<<"link", p, {u}, FALSE>>, Linking(u, a))
    \/ \E u, p, a : Bent(d, u, p, a, TRUE) /\ s = Linking(u, a)

\* Rows are filled in from the document, and those of deleted messages go:
\* P lack theirs, D may have one still.
Backfill(P, tail) == IF P = {} THEN tail ELSE Then(<<"rows", P>>, tail)
Dropping(D) == IF D = {} THEN <<>> ELSE Then(<<"unrow", D>>, <<>>)
Lacking(P, D, d, ro) ==
    /\ Agrees(d) /\ ro = [m \in DOMAIN ro |-> ro[m]]
    /\ P \subseteq Ids(d) /\ D \cap Ids(d) = {} /\ DOMAIN ro \subseteq Ids(d) \cup D
    /\ \A m \in Ids(d) \ P : m \in DOMAIN ro /\ ro[m] = d.msgs[m].parent
Filling(s, d, ro) == \E P, D : Lacking(P, D, d, ro) /\ s = Backfill(P, Dropping(D))

\* A request that has the calls s left and holds a copy: it has not read d yet;
\* it has; it has a new document to write, whose rows are there; or it is
\* filling in rows.
Phase(s, copy, d, ro) ==
    \/ At(s, d) /\ ro = RowsOf(d)
    \/ ReadAt(s, d) /\ ro = RowsOf(d) /\ copy = d
    \/ \E t : s = Writing(t) /\ At(t, copy) /\ ro = RowsOf(copy)
    \/ Filling(s, d, ro) /\ copy = d

Settled(d, ro) == Agrees(d) /\ ro = RowsOf(d)

\* As long as nothing disturbed a request, either none is in progress and
\* document and rows agree, or the only one is in one of these phases.
LoneInv ==
    /\ disturbed \in Nat
    /\ disturbed = 0 =>
          \/ Busy = {} /\ Settled(doc, rows)
          \/ /\ spent # {}
             /\ \E w \in Worker : Busy = {w} /\ Phase(job[w].todo, job[w].copy, doc, rows)

-----------------------------------------------------------------------------
(* Lists of calls, from the front *)

IsSeq(s) == \E S : s \in Seq(S)

LEMMA ThenSeq ==
    ASSUME NEW op, NEW s, IsSeq(s)
    PROVE  /\ IsSeq(Then(op, s)) /\ Then(op, s) # <<>>
           /\ Head(Then(op, s)) = op /\ Tail(Then(op, s)) = s
<1>1. PICK S : s \in Seq(S)
  BY DEF IsSeq
<1>2. <<op>> \in Seq(S \cup {op}) /\ s \in Seq(S \cup {op})
  BY <1>1, SeqGrows
<1>3. IsSeq(<<op>> \o s)
  BY <1>2 DEF IsSeq
<1> QED BY <1>1, <1>3, FirstCall DEF Then

LEMMA NoneSeq == IsSeq(<<>>)
<1> DEFINE s == <<>>
<1>1. s \in Seq({})
  OBVIOUS
<1> HIDE DEF s
<1>2. IsSeq(s)
  BY <1>1 DEF IsSeq
<1> QED BY <1>2 DEF s

LEMMA PuttingSeq ==
    ASSUME NEW m, NEW patch, NEW s, IsSeq(s)
    PROVE  IsSeq(Writing(s)) /\ IsSeq(Reading(s)) /\ IsSeq(Putting(m, patch, s))
BY ThenSeq DEF Writing, Reading, Putting

LEMMA TurnSeq ==
    ASSUME NEW u, NEW p, NEW a, NEW cs
    PROVE  /\ IsSeq(Answering(u, a)) /\ IsSeq(Reading(Answering(u, a))) /\ IsSeq(Linking(u, a))
           /\ IsSeq(Placing(u, p, a)) /\ IsSeq(Questioning(u, p, a, cs))
           /\ IsSeq(Reading(Questioning(u, p, a, cs)))
<1>1. IsSeq(Answering(u, a)) /\ IsSeq(Reading(Answering(u, a)))
  BY NoneSeq, PuttingSeq DEF Answering
<1>2. IsSeq(Linking(u, a))
  BY <1>1, ThenSeq DEF Linking
<1>3. IsSeq(Placing(u, p, a))
  BY <1>2, ThenSeq DEF Placing
<1> QED BY <1>1, <1>2, <1>3, PuttingSeq DEF Questioning

LEMMA FitsSeq ==
    ASSUME NEW m, NEW patch, NEW s, NEW d, Fits(m, patch, s, d)
    PROVE  IsSeq(s) /\ Rooted(d) /\ m \in Message
<1>1. \A u, p, a : /\ IsSeq(Placing(u, p, a)) /\ IsSeq(Linking(u, a))
                   /\ IsSeq(Reading(Answering(u, a))) /\ IsSeq(<<>>)
  BY TurnSeq, NoneSeq
<1>2. \A u, p, a, l : Bent(d, u, p, a, l) => /\ Rooted(d) /\ u \in Message /\ a \in Message
                                             /\ ~l => p \in Message
  BY DEF Bent, Rooted
<1>3. Agrees(d) => Rooted(d) /\ (m \in Ids(d) => m \in Message)
  BY DEF Agrees, Rooted
<1>4. \A p, a : Asking(d, m, p, a) => m \in Message
  BY DEF Asking
<1>5. IsSeq(s)
  BY <1>1 DEF Fits
<1>6. Rooted(d) /\ m \in Message
  BY <1>2, <1>3, <1>4 DEF Fits
<1> QED BY <1>5, <1>6

LEMMA ReadAtSeq ==
    ASSUME NEW t, NEW d, ReadAt(t, d)
    PROVE  IsSeq(t) /\ t # <<>> /\ Rooted(d)
<1>1. ASSUME NEW m, NEW patch, NEW s, Fits(m, patch, s, d), t = Putting(m, patch, s)
      PROVE  IsSeq(t) /\ t # <<>> /\ Rooted(d)
  <2>1. IsSeq(Writing(s))
    BY <1>1, FitsSeq, PuttingSeq
  <2> QED BY <1>1, <2>1, FitsSeq, ThenSeq DEF Putting
<1>2. \A op : IsSeq(Then(op, <<>>)) /\ Then(op, <<>>) # <<>>
  BY NoneSeq, ThenSeq
<1>3. ASSUME NEW u, NEW p, NEW a, NEW cs, t = Writing(Reading(Questioning(u, p, a, cs)))
      PROVE  IsSeq(t) /\ t # <<>>
  <2>1. IsSeq(Reading(Questioning(u, p, a, cs)))
    BY TurnSeq
  <2> QED BY <1>3, <2>1, ThenSeq DEF Writing
<1> QED BY <1>1, <1>2, <1>3 DEF ReadAt, Agrees, Writing

LEMMA AtSeq ==
    ASSUME NEW s, NEW d, At(s, d)
    PROVE  IsSeq(s) /\ Rooted(d) /\ (s = <<>> => Agrees(d))
<1>1. CASE Agrees(d) /\ \/ s = <<>>
                        \/ s = Then(<<"walk">>, <<>>)
                        \/ \E L : s = Then(<<"heal", L>>, <<>>)
  BY <1>1, NoneSeq, ThenSeq DEF Agrees
<1>2. CASE \E t : s = Reading(t) /\ ReadAt(t, d)
  BY <1>2, ReadAtSeq, ThenSeq DEF Reading
<1>3. ASSUME NEW u, NEW p, NEW a, NEW listed \in BOOLEAN, Bent(d, u, p, a, listed),
             s = Then(<<"link", p, {u}, FALSE>>, Linking(u, a))
      PROVE  IsSeq(s) /\ Rooted(d) /\ s # <<>>
  BY <1>3, TurnSeq, ThenSeq DEF Bent
<1>4. ASSUME NEW u, NEW p, NEW a, Bent(d, u, p, a, TRUE), s = Linking(u, a)
      PROVE  IsSeq(s) /\ Rooted(d) /\ s # <<>>
  <2>1. IsSeq(Reading(Answering(u, a)))
    BY TurnSeq
  <2> QED BY <1>4, <2>1, ThenSeq DEF Bent, Linking
<1> QED BY <1>1, <1>2, <1>3, <1>4, Zenon DEF At

LEMMA PairSeq ==
    ASSUME NEW a, NEW b
    PROVE  <<a>> \o <<b>> = <<a, b>>
<1> DEFINE T == {a, b}
           s == <<a, b>>
           t == <<a>> \o <<b>>
<1>1. s \in Seq(T) /\ Len(s) = 2 /\ s[1] = a /\ s[2] = b
  OBVIOUS
<1>2. t \in Seq(T) /\ Len(t) = 2
  OBVIOUS
<1>3. t[1] = a /\ t[2] = b
  OBVIOUS
<1> HIDE DEF s, t, T
<1>4. s = t
  BY <1>1, <1>2, <1>3
<1> QED BY <1>4 DEF s, t

LEMMA TripleSeq ==
    ASSUME NEW a, NEW b, NEW c
    PROVE  <<a>> \o <<b, c>> = <<a, b, c>>
<1> DEFINE T == {a, b, c}
           s == <<a, b, c>>
           t == <<a>> \o <<b, c>>
<1>1. s \in Seq(T) /\ Len(s) = 3 /\ s[1] = a /\ s[2] = b /\ s[3] = c
  OBVIOUS
<1>2. t \in Seq(T) /\ Len(t) = 3
  OBVIOUS
<1>3. t[1] = a /\ t[2] = b /\ t[3] = c
  OBVIOUS
<1> HIDE DEF s, t, T
<1>4. s = t
  BY <1>1, <1>2, <1>3
<1> QED BY <1>4 DEF s, t

LEMMA Joins ==
    ASSUME NEW r, NEW s, NEW t, IsSeq(r), IsSeq(s), IsSeq(t)
    PROVE  /\ (r \o s) \o t = r \o (s \o t) /\ IsSeq(r \o s)
           /\ <<>> \o t = t /\ t \o <<>> = t
<1>1. PICK R, S, T : r \in Seq(R) /\ s \in Seq(S) /\ t \in Seq(T)
  BY DEF IsSeq
<1> DEFINE U == R \cup S \cup T
<1>2. r \in Seq(U) /\ s \in Seq(U) /\ t \in Seq(U)
  BY <1>1, SeqGrows
<1> HIDE DEF U
<1>3. r \o s \in Seq(U) /\ (r \o s) \o t = r \o (s \o t)
  BY <1>2, ConcatAssociative
<1> QED BY <1>2, <1>3 DEF IsSeq

Two(a, b)      == <<a, b>>
Three(a, b, c) == <<a, b, c>>

LEMMA ThenTwo ==
    ASSUME NEW a, NEW b, NEW s, IsSeq(s)
    PROVE  Two(a, b) \o s = Then(a, Then(b, s))
<1> DEFINE y == <<a>>
           z == <<b>>
<1>1. y \in Seq({a}) /\ z \in Seq({b})
  OBVIOUS
<1>2. Two(a, b) = y \o z
  BY PairSeq, Zenon DEF Two
<1> HIDE DEF y, z
<1>3. (y \o z) \o s = y \o (z \o s)
  BY <1>1, Joins DEF IsSeq
<1>4. Two(a, b) \o s = y \o (z \o s)
  BY <1>2, <1>3, Zenon
<1> QED BY <1>4, Zenon DEF y, z, Then

LEMMA ThenThree ==
    ASSUME NEW a, NEW b, NEW c, NEW s, IsSeq(s)
    PROVE  Three(a, b, c) \o s = Then(a, Then(b, Then(c, s)))
<1> DEFINE y == <<a>>
           z == <<b, c>>
<1>1. y \in Seq({a}) /\ z \in Seq({b, c})
  OBVIOUS
<1>2. Three(a, b, c) = y \o z
  BY TripleSeq, Zenon DEF Three
<1>5. z = Two(b, c)
  BY DEF Two
<1> HIDE DEF y, z
<1>6. z \o s = Then(b, Then(c, s))
  <2>1. Two(b, c) \o s = Then(b, Then(c, s))
    BY ThenTwo
  <2> QED BY <1>5, <2>1
<1>3. (y \o z) \o s = y \o (z \o s)
  BY <1>1, Joins DEF IsSeq
<1>4. Three(a, b, c) \o s = y \o Then(b, Then(c, s))
  BY <1>2, <1>3, <1>6, Zenon
<1> QED BY <1>4, Zenon DEF y, Then

LEMMA UpsertCalls ==
    ASSUME NEW m, NEW patch, NEW s, IsSeq(s), NEW x, x = Upsert(m, patch)
    PROVE  x \o s = Reading(Putting(m, patch, s)) /\ IsSeq(x)
<1> DEFINE a == <<"read">>
           b == <<"upsert", m, patch>>
           c == <<"write">>
<1>1. x = Three(a, b, c) /\ Reading(Putting(m, patch, s)) = Then(a, Then(b, Then(c, s)))
  BY Zenon DEF Upsert, Reading, Putting, Writing, Three
<1> HIDE DEF a, b, c
<1>2. x \in Seq({a, b, c})
  BY <1>1 DEF Three
<1>3. x \o s = Then(a, Then(b, Then(c, s)))
  <2>1. Three(a, b, c) \o s = Then(a, Then(b, Then(c, s)))
    BY ThenThree
  <2> QED BY <1>1, <2>1
<1> QED BY <1>1, <1>2, <1>3 DEF IsSeq

LEMMA UpsertSeq ==
    ASSUME NEW m, NEW patch
    PROVE  IsSeq(Upsert(m, patch)) /\ Upsert(m, patch) = Reading(Putting(m, patch, <<>>))
<1> DEFINE x == Upsert(m, patch)
<1>1. x = Upsert(m, patch)
  OBVIOUS
<1> HIDE DEF x
<1>2. x \o <<>> = Reading(Putting(m, patch, <<>>)) /\ IsSeq(x)
  BY <1>1, UpsertCalls, NoneSeq
<1>3. x \o <<>> = x
  BY <1>2, Joins
<1> QED BY <1>1, <1>2, <1>3

LEMMA TurnCalls ==
    ASSUME NEW d, NEW u, NEW p, NEW a
    PROVE  Turn(d, u, p, a) = Reading(Writing(Reading(Questioning(u, p, a, Listed(d, u, a)))))
<1> DEFINE c4 == <<"link", p, {u}, FALSE>>
           c5 == <<"link", u, {a}, TRUE>>
           s1 == <<<<"read">>, <<"write">>>>
           s2 == Upsert(u, Patch(p, Listed(d, u, a)))
           s3 == IF p = None THEN <<>> ELSE <<c4>>
           s4 == <<c5>>
           s5 == Upsert(a, Patch(u, {}))
<1>1. Turn(d, u, p, a) = (((s1 \o s2) \o s3) \o s4) \o s5
  BY DEF Turn, Listed
<1>2. IsSeq(s2) /\ IsSeq(s5) /\ s5 = Reading(Answering(u, a))
  BY UpsertSeq DEF Answering
<1>3. s4 \o s5 = Linking(u, a) /\ IsSeq(s4 \o s5)
  BY <1>2, TurnSeq DEF Linking, Then
<1> DEFINE t3 == s3 \o (s4 \o s5)
<1>4. t3 = Placing(u, p, a) /\ IsSeq(t3)
  <2>1. <<>> \o Linking(u, a) = Linking(u, a)
    BY TurnSeq, Joins
  <2> HIDE DEF s4, s5
  <2> QED BY <1>3, <2>1, TurnSeq DEF Placing, Then
<1> DEFINE t2 == s2 \o t3
<1>5. t2 = Reading(Questioning(u, p, a, Listed(d, u, a))) /\ IsSeq(t2)
  <2>1. s2 = Upsert(u, Patch(p, Listed(d, u, a)))
    OBVIOUS
  <2> HIDE DEF s2, s3, s4, s5
  <2>2. s2 \o t3 = Reading(Putting(u, Patch(p, Listed(d, u, a)), t3))
    BY <1>4, <2>1, UpsertCalls
  <2>3. s2 \o t3 = Reading(Questioning(u, p, a, Listed(d, u, a)))
    BY <1>4, <2>2 DEF Questioning
  <2> QED BY <2>3, TurnSeq
<1>6. s1 \o t2 = Reading(Writing(t2))
  <2> DEFINE r == <<"read">>
             v == <<"write">>
  <2>1. s1 = Two(r, v) /\ Reading(Writing(t2)) = Then(r, Then(v, t2))
    BY Zenon DEF Reading, Writing, Two
  <2> HIDE DEF s1, t2, r, v
  <2> QED BY <1>5, <2>1, ThenTwo
<1>7. IsSeq(s1) /\ IsSeq(s3) /\ IsSeq(s4)
  <2>1. \A x, y : <<x, y>> \in Seq({x, y}) /\ <<x>> \in Seq({x})
    OBVIOUS
  <2>2. \A x, y : IsSeq(<<x, y>>) /\ IsSeq(<<x>>)
    BY <2>1, Zenon DEF IsSeq
  <2> QED BY <2>2, NoneSeq
<1> HIDE DEF s1, s2, s3, s4, s5, t2, t3
<1>8. ((s1 \o s2) \o s3) \o (s4 \o s5) = (((s1 \o s2) \o s3) \o s4) \o s5
  <2>1. IsSeq((s1 \o s2) \o s3)
    BY <1>2, <1>7, Joins
  <2> QED BY <1>2, <1>7, <2>1, Joins
<1>9. (s1 \o s2) \o (s3 \o (s4 \o s5)) = ((s1 \o s2) \o s3) \o (s4 \o s5)
  <2>1. IsSeq(s1 \o s2) /\ IsSeq(s4 \o s5)
    BY <1>2, <1>7, Joins
  <2> QED BY <1>7, <2>1, Joins
<1>10. s1 \o (s2 \o t3) = (s1 \o s2) \o t3
  BY <1>2, <1>4, <1>7, Joins
<1> QED BY <1>1, <1>5, <1>6, <1>8, <1>9, <1>10 DEF t2, t3

-----------------------------------------------------------------------------
(* What an upsert leaves of a document *)

Put(d, m, p, cs) == [msgs    |-> With(d.msgs, m, [parent |-> p, children |-> cs]),
                     current |-> m]

LEMMA PutFields ==
    ASSUME NEW d, Rooted(d), NEW m \in Message, NEW p, NEW cs
    PROVE  LET e == Put(d, m, p, cs)
           IN  /\ DOMAIN e = {"msgs", "current"} /\ e.current = m
               /\ Ids(e) = Ids(d) \cup {m}
               /\ e.msgs[m].parent = p /\ e.msgs[m].children = cs
               /\ \A x \in Ids(d) : x # m => e.msgs[x] = d.msgs[x]
               /\ RowsOf(e) = With(RowsOf(d), m, p)
               /\ p \in Ids(d) \cup {m, None} => Rooted(e)
<1> DEFINE e == Put(d, m, p, cs)
<1>1. DOMAIN e = {"msgs", "current"} /\ e.current = m
  BY DEF Put
<1>2. /\ Ids(e) = Ids(d) \cup {m}
      /\ e.msgs[m].parent = p /\ e.msgs[m].children = cs
      /\ \A x \in Ids(d) : x # m => e.msgs[x] = d.msgs[x]
  BY DEF Put, With, Ids
<1> HIDE DEF e
<1>3. RowsOf(e) = With(RowsOf(d), m, p)
  BY <1>2 DEF RowsOf, With
<1>4. p \in Ids(d) \cup {m, None} => Rooted(e)
  BY <1>1, <1>2 DEF Rooted
<1> QED BY <1>1, <1>2, <1>3, <1>4 DEF e

LEMMA UpsertedKnown ==
    ASSUME NEW d, NEW m \in Ids(d), NEW patch, NEW e \in Upserted(d, m, patch)
    PROVE  e = Put(d, m, IF patch.parent = Same THEN d.msgs[m].parent ELSE patch.parent,
                         IF patch.children = Same THEN d.msgs[m].children ELSE patch.children)
BY DEF Upserted, Put

LEMMA UpsertedNew ==
    ASSUME NEW d, NEW m, m \notin Ids(d), NEW patch, NEW e \in Upserted(d, m, patch),
           patch.children # Same
    PROVE  /\ patch.parent \in Message => e = Put(d, m, patch.parent, patch.children)
           /\ patch.parent \notin Message /\ (\A x \in Ids(d) : m \notin d.msgs[x].children) =>
                 e = Put(d, m, None, patch.children)
<1>1. patch.parent \in Message => e = Put(d, m, patch.parent, patch.children)
  BY DEF Upserted, Put
<1>2. ASSUME patch.parent \notin Message, \A x \in Ids(d) : m \notin d.msgs[x].children
      PROVE  e = Put(d, m, None, patch.children)
  <2>1. {x \in Ids(d) : m \in d.msgs[x].children} = {}
    BY <1>2
  <2> QED BY <1>2, <2>1 DEF Upserted, Put
<1> QED BY <1>1, <1>2

\* A document that agrees with itself agrees in any order of its parts.
LEMMA AgreesBent ==
    ASSUME NEW d, Agrees(d)
    PROVE  /\ Rooted(d) /\ None \notin Ids(d)
           /\ \A m \in Ids(d) : d.msgs[m].children = {c \in Ids(d) : d.msgs[c].parent = m}
BY NoMessages DEF Agrees, Rooted, Kids, NoMessages

LEMMA PatchFields ==
    ASSUME NEW p, NEW cs
    PROVE  Patch(p, cs).parent = p /\ Patch(p, cs).children = cs
BY DEF Patch

\* A change of a message
LEMMA ChangeFits ==
    ASSUME NEW d, Agrees(d), NEW m \in Ids(d), NEW p \in {Same, d.msgs[m].parent},
           NEW e \in Upserted(d, m, Patch(p, Same))
    PROVE  Agrees(e) /\ RowsOf(e) = With(RowsOf(d), m, e.msgs[m].parent)
<1>0. Rooted(d) /\ m \in Message
  BY DEF Agrees, Rooted
<1>1. e = Put(d, m, d.msgs[m].parent, d.msgs[m].children)
  BY UpsertedKnown, PatchFields
<1>2. /\ Ids(e) = Ids(d) /\ Rooted(e)
      /\ RowsOf(e) = With(RowsOf(d), m, e.msgs[m].parent)
      /\ \A x \in Ids(d) : e.msgs[x].parent = d.msgs[x].parent
                        /\ e.msgs[x].children = d.msgs[x].children
  <2>1. /\ DOMAIN e = {"msgs", "current"} /\ e.current = m
        /\ Ids(e) = Ids(d) \cup {m}
        /\ e.msgs[m].parent = d.msgs[m].parent /\ e.msgs[m].children = d.msgs[m].children
        /\ \A x \in Ids(d) : x # m => e.msgs[x] = d.msgs[x]
        /\ RowsOf(e) = With(RowsOf(d), m, d.msgs[m].parent)
        /\ d.msgs[m].parent \in Ids(d) \cup {m, None} => Rooted(e)
    BY <1>0, <1>1, PutFields
  <2> QED BY <1>0, <2>1 DEF Rooted
<1> QED BY <1>2 DEF Agrees, Kids

\* The question of a turn: it lists the answer already, and its parent does not
\* list it yet.
LEMMA QuestionFits ==
    ASSUME NEW d, Agrees(d), NEW u, NEW p, NEW a, Asking(d, u, p, a),
           NEW e \in Upserted(d, u, Patch(p, Listed(d, u, a)))
    PROVE  /\ Bent(e, u, p, a, u \in Ids(d) \/ p = None)
           /\ RowsOf(e) = With(RowsOf(d), u, e.msgs[u].parent)
<1> DEFINE cs == Listed(d, u, a)
<1>1. /\ Rooted(d) /\ None \notin Ids(d) /\ u \in Message /\ a \in Message \ Ids(d) /\ u # a
      /\ \A m \in Ids(d) : d.msgs[m].children = {c \in Ids(d) : d.msgs[c].parent = m}
  BY AgreesBent DEF Asking
<1>2. p \in Ids(d) \cup {None} /\ Ids(d) \subseteq Message /\ p # Same
  BY <1>1, NoMessages DEF Asking, Rooted, NoMessages
<1>3. cs \in SUBSET Message
  BY <1>1, <1>2 DEF Listed
<1>4. cs # Same
  BY <1>3, NoMessages DEF NoMessages
<1> HIDE DEF cs
<1>5. e = Put(d, u, p, cs)
  <2>1. e \in Upserted(d, u, Patch(p, cs)) /\ Patch(p, cs).parent = p /\ Patch(p, cs).children = cs
    BY PatchFields DEF cs
  <2>2. CASE u \in Ids(d)
    BY <1>2, <1>4, <2>1, <2>2, UpsertedKnown
  <2>3. CASE u \notin Ids(d) /\ p # None
    BY <1>2, <1>4, <2>1, <2>3, UpsertedNew
  <2>4. CASE u \notin Ids(d) /\ p = None
    <3>1. p \notin Message
      BY <2>4, NoMessages DEF NoMessages
    <3>2. \A x \in Ids(d) : u \notin d.msgs[x].children
      BY <1>1, <2>4
    <3> QED BY <1>4, <2>1, <2>4, <3>1, <3>2, UpsertedNew
  <2> QED BY <2>2, <2>3, <2>4
<1>6. /\ Ids(e) = Ids(d) \cup {u}
      /\ e.msgs[u].parent = p /\ e.msgs[u].children = cs
      /\ \A x \in Ids(d) : x # u => e.msgs[x] = d.msgs[x]
      /\ RowsOf(e) = With(RowsOf(d), u, p)
      /\ Rooted(e)
  BY <1>1, <1>2, <1>5, PutFields
<1>7. CASE u \in Ids(d)
  <2>1. p = d.msgs[u].parent /\ cs = {a} \cup d.msgs[u].children
    BY <1>7 DEF Asking, Listed, cs
  <2>2. \A x \in Ids(d) : e.msgs[x].parent = d.msgs[x].parent
    BY <1>6, <2>1
  <2>3. \A m \in Ids(e) : Kids(e, m) = {c \in Ids(d) : d.msgs[c].parent = m}
    BY <1>6, <1>7, <2>2 DEF Kids
  <2>4. \A m \in Ids(e) : e.msgs[m].children = Kids(e, m) \cup (IF m = u THEN {a} ELSE {})
    BY <1>1, <1>6, <1>7, <2>1, <2>3
  <2> QED BY <1>1, <1>6, <1>7, <2>4 DEF Bent
<1>8. CASE u \notin Ids(d)
  <2>1. cs = {a} /\ p # u /\ u # None
    BY <1>1, <1>2, <1>8, NoMessages DEF Listed, cs, NoMessages
  <2>2. Kids(e, u) = {}
    BY <1>1, <1>2, <1>6, <1>8, <2>1 DEF Kids, Rooted
  <2>3. \A m \in Ids(d) : Kids(e, m) = d.msgs[m].children \cup (IF m = p THEN {u} ELSE {})
    BY <1>1, <1>6, <1>8, <2>1 DEF Kids
  <2>4. ASSUME NEW m \in Ids(d)
        PROVE  e.msgs[m].children = IF m = p THEN Kids(e, m) \ {u} ELSE Kids(e, m)
    <3>1. e.msgs[m] = d.msgs[m] /\ u \notin d.msgs[m].children
      BY <1>1, <1>6, <1>8
    <3> QED BY <2>3, <3>1
  <2>5. p = None => \A m \in Ids(d) : m # p
    BY <1>1
  <2> QED BY <1>1, <1>2, <1>6, <1>8, <2>1, <2>2, <2>4, <2>5 DEF Bent
<1> QED BY <1>6, <1>7, <1>8

LEMMA BentPlaces ==
    ASSUME NEW e, NEW u, NEW p, NEW a, NEW l \in BOOLEAN, Bent(e, u, p, a, l)
    PROVE  At(Placing(u, p, a), e)
<1>1. p = None => l
  BY NoMessages DEF Bent, Rooted, NoMessages
<1>2. CASE p = None
  BY <1>1, <1>2 DEF Placing, At
<1>3. CASE p # None
  BY <1>3 DEF Placing, At
<1> QED BY <1>2, <1>3

\* The parent of the question, which is listed then
LEMMA ParentFits ==
    ASSUME NEW d, NEW u, NEW m, NEW a, Bent(d, u, m, a, FALSE),
           NEW e \in Upserted(d, m, Patch(Same, d.msgs[m].children \cup {u}))
    PROVE  Bent(e, u, m, a, TRUE) /\ RowsOf(e) = With(RowsOf(d), m, e.msgs[m].parent)
<1> DEFINE cs == d.msgs[m].children \cup {u}
<1>1. /\ Rooted(d) /\ u \in Ids(d) /\ a \in Message \ Ids(d) /\ d.msgs[u].parent = m
      /\ m \in Ids(d) /\ m # u /\ Ids(d) \subseteq Message
      /\ \A x \in Ids(d) : d.msgs[x].children =
            (IF x = m THEN Kids(d, x) \ {u} ELSE Kids(d, x)) \cup (IF x = u THEN {a} ELSE {})
  BY DEF Bent, Rooted
<1>2. cs = Kids(d, m) /\ cs \in SUBSET Message
  BY <1>1 DEF Kids
<1>3. cs # Same
  BY <1>2, NoMessages DEF NoMessages
<1>4. e = Put(d, m, d.msgs[m].parent, cs)
  <2>1. e \in Upserted(d, m, Patch(Same, cs)) /\ Patch(Same, cs).parent = Same
        /\ Patch(Same, cs).children = cs
    BY PatchFields
  <2> HIDE DEF cs
  <2> QED BY <1>1, <1>3, <2>1, UpsertedKnown
<1> HIDE DEF cs
<1>5. /\ Ids(e) = Ids(d)
      /\ e.msgs[m].parent = d.msgs[m].parent /\ e.msgs[m].children = cs
      /\ \A x \in Ids(d) : x # m => e.msgs[x] = d.msgs[x]
      /\ RowsOf(e) = With(RowsOf(d), m, d.msgs[m].parent)
      /\ Rooted(e)
  <2>1. d.msgs[m].parent \in Ids(d) \cup {m, None} /\ m \in Message
    BY <1>1 DEF Rooted
  <2>2. /\ Ids(e) = Ids(d) \cup {m}
        /\ e.msgs[m].parent = d.msgs[m].parent /\ e.msgs[m].children = cs
        /\ \A x \in Ids(d) : x # m => e.msgs[x] = d.msgs[x]
        /\ RowsOf(e) = With(RowsOf(d), m, d.msgs[m].parent)
        /\ Rooted(e)
    BY <1>1, <1>4, <2>1, PutFields
  <2> QED BY <1>1, <2>2
<1>6. \A x \in Ids(d) : e.msgs[x].parent = d.msgs[x].parent
  BY <1>5
<1>7. \A x \in Ids(d) : Kids(e, x) = Kids(d, x)
  BY <1>5, <1>6 DEF Kids
<1>8. \A x \in Ids(e) : e.msgs[x].children = Kids(e, x) \cup (IF x = u THEN {a} ELSE {})
  BY <1>1, <1>2, <1>5, <1>7
<1> QED BY <1>1, <1>5, <1>6, <1>8 DEF Bent

\* The question once more, which lists the answer
LEMMA OnceMoreFits ==
    ASSUME NEW d, NEW m, NEW p, NEW a, Bent(d, m, p, a, TRUE),
           NEW e \in Upserted(d, m, Patch(Same, d.msgs[m].children \cup {a}))
    PROVE  Bent(e, m, p, a, TRUE) /\ RowsOf(e) = With(RowsOf(d), m, e.msgs[m].parent)
<1> DEFINE cs == d.msgs[m].children \cup {a}
<1>1. /\ Rooted(d) /\ m \in Ids(d) /\ a \in Message \ Ids(d) /\ d.msgs[m].parent = p
      /\ Ids(d) \subseteq Message
      /\ \A x \in Ids(d) : d.msgs[x].children = Kids(d, x) \cup (IF x = m THEN {a} ELSE {})
  BY DEF Bent, Rooted
<1>2. cs = d.msgs[m].children /\ cs \in SUBSET Message
  BY <1>1 DEF Kids
<1>3. cs # Same
  BY <1>2, NoMessages DEF NoMessages
<1>4. e = Put(d, m, p, cs)
  <2>1. e \in Upserted(d, m, Patch(Same, cs)) /\ Patch(Same, cs).parent = Same
        /\ Patch(Same, cs).children = cs
    BY PatchFields
  <2> HIDE DEF cs
  <2> QED BY <1>1, <1>3, <2>1, UpsertedKnown
<1> HIDE DEF cs
<1>5. /\ Ids(e) = Ids(d) \cup {m}
      /\ e.msgs[m].parent = p /\ e.msgs[m].children = cs
      /\ \A x \in Ids(d) : x # m => e.msgs[x] = d.msgs[x]
      /\ RowsOf(e) = With(RowsOf(d), m, p)
      /\ Rooted(e)
  <2>1. p \in Ids(d) \cup {m, None} /\ m \in Message
    BY <1>1 DEF Rooted
  <2> QED BY <1>1, <1>4, <2>1, PutFields
<1>6. Ids(e) = Ids(d) /\ \A x \in Ids(d) : e.msgs[x].parent = d.msgs[x].parent
  BY <1>1, <1>5
<1>7. \A x \in Ids(d) : Kids(e, x) = Kids(d, x)
  BY <1>6 DEF Kids
<1>8. \A x \in Ids(e) : e.msgs[x].children = Kids(e, x) \cup (IF x = m THEN {a} ELSE {})
  BY <1>1, <1>2, <1>5, <1>6, <1>7
<1> QED BY <1>1, <1>5, <1>6, <1>8 DEF Bent

\* The answer, which its question lists already
LEMMA AnswerFits ==
    ASSUME NEW d, NEW u, NEW p, NEW m, Bent(d, u, p, m, TRUE),
           NEW e \in Upserted(d, m, Patch(u, {}))
    PROVE  Agrees(e) /\ RowsOf(e) = With(RowsOf(d), m, e.msgs[m].parent)
<1>1. /\ Rooted(d) /\ u \in Ids(d) /\ m \in Message \ Ids(d) /\ Ids(d) \subseteq Message
      /\ \A x \in Ids(d) : d.msgs[x].children = Kids(d, x) \cup (IF x = u THEN {m} ELSE {})
      /\ m # None
  BY NoMessages DEF Bent, Rooted, NoMessages
<1>2. {} # Same
  BY NoMessages DEF NoMessages
<1>3. e = Put(d, m, u, {})
  BY <1>1, <1>2, PatchFields, UpsertedNew
<1>4. /\ Ids(e) = Ids(d) \cup {m}
      /\ e.msgs[m].parent = u /\ e.msgs[m].children = {}
      /\ \A x \in Ids(d) : x # m => e.msgs[x] = d.msgs[x]
      /\ RowsOf(e) = With(RowsOf(d), m, u)
      /\ Rooted(e)
  BY <1>1, <1>3, PutFields
<1>5. Kids(e, m) = {}
  BY <1>1, <1>4 DEF Kids, Rooted
<1>6. \A x \in Ids(d) : Kids(e, x) = Kids(d, x) \cup (IF x = u THEN {m} ELSE {})
  BY <1>1, <1>4 DEF Kids
<1>7. \A x \in Ids(e) : e.msgs[x].children = Kids(e, x)
  BY <1>1, <1>4, <1>5, <1>6
<1> QED BY <1>4, <1>7 DEF Agrees

\* Whichever it is, the rest of the request fits what is written.
LEMMA UpsertFits ==
    ASSUME NEW d, NEW m, NEW patch, NEW s, Fits(m, patch, s, d), NEW e \in Upserted(d, m, patch)
    PROVE  At(s, e) /\ RowsOf(e) = With(RowsOf(d), m, e.msgs[m].parent)
<1>1. ASSUME Agrees(d), m \in Ids(d), NEW p \in {Same, d.msgs[m].parent},
             patch = Patch(p, Same), s = <<>>
      PROVE  At(s, e) /\ RowsOf(e) = With(RowsOf(d), m, e.msgs[m].parent)
  BY <1>1, ChangeFits DEF At
<1>2. ASSUME Agrees(d), NEW p, NEW a, Asking(d, m, p, a), patch = Patch(p, Listed(d, m, a)),
             s = Placing(m, p, a)
      PROVE  At(s, e) /\ RowsOf(e) = With(RowsOf(d), m, e.msgs[m].parent)
  <2> DEFINE l == m \in Ids(d) \/ p = None
  <2>1. Bent(e, m, p, a, l) /\ RowsOf(e) = With(RowsOf(d), m, e.msgs[m].parent)
    BY <1>2, QuestionFits
  <2>2. l \in BOOLEAN
    OBVIOUS
  <2> HIDE DEF l
  <2> QED BY <1>2, <2>1, <2>2, BentPlaces
<1>3. ASSUME NEW u, NEW a, Bent(d, u, m, a, FALSE),
             patch = Patch(Same, d.msgs[m].children \cup {u}), s = Linking(u, a)
      PROVE  At(s, e) /\ RowsOf(e) = With(RowsOf(d), m, e.msgs[m].parent)
  BY <1>3, ParentFits DEF At
<1>4. ASSUME NEW p, NEW a, Bent(d, m, p, a, TRUE),
             patch = Patch(Same, d.msgs[m].children \cup {a}), s = Reading(Answering(m, a))
      PROVE  At(s, e) /\ RowsOf(e) = With(RowsOf(d), m, e.msgs[m].parent)
  <2>1. Bent(e, m, p, a, TRUE) /\ RowsOf(e) = With(RowsOf(d), m, e.msgs[m].parent)
    BY <1>4, OnceMoreFits
  <2>2. ReadAt(Answering(m, a), e)
    BY <2>1 DEF ReadAt, Fits, Answering
  <2> QED BY <1>4, <2>1, <2>2 DEF At
<1>5. ASSUME NEW u, NEW p, Bent(d, u, p, m, TRUE), patch = Patch(u, {}), s = <<>>
      PROVE  At(s, e) /\ RowsOf(e) = With(RowsOf(d), m, e.msgs[m].parent)
  BY <1>5, AnswerFits DEF At
<1> QED BY <1>1, <1>2, <1>3, <1>4, <1>5, Zenon DEF Fits

-----------------------------------------------------------------------------
(* What a deletion and a merge leave of a document *)

\* The ranks of a finite tree: below any message there is a last one.
LEMMA LastOf ==
    ASSUME NEW rank \in [Message -> Nat], NEW S \in SUBSET Message, S # {},
           NEW n \in Nat, \A x \in S : rank[x] < n
    PROVE  \E x \in S : \A y \in S : rank[y] <= rank[x]
<1> DEFINE T == {k \in Nat : \A y \in S : rank[y] <= k}
<1>1. n \in T /\ T \subseteq Nat
  OBVIOUS
<1>2. PICK k \in T : \A j \in T : ~(<<j, k>> \in OpToRel(<, Nat))
  BY <1>1, NatLessThanWellFounded, WFMin
<1>3. k \in Nat /\ (\A y \in S : rank[y] <= k) /\ \A j \in T : ~(j < k)
  BY <1>1, <1>2 DEF OpToRel
<1>4. CASE \E x \in S : rank[x] = k
  BY <1>3, <1>4
<1>5. CASE \A x \in S : rank[x] # k
  <2>1. PICK x \in S : TRUE
    OBVIOUS
  <2>2. rank[x] \in Nat /\ rank[x] < k
    BY <1>3, <1>5
  <2>3. k - 1 \in Nat /\ \A y \in S : rank[y] <= k - 1
    BY <1>3, <1>5, <2>2
  <2>4. k - 1 \in T
    BY <2>3
  <2> QED BY <1>3, <2>3, <2>4
<1> QED BY <1>4, <1>5

LEMMA FirstOf ==
    ASSUME NEW rank \in [Message -> Nat], NEW S \in SUBSET Message, S # {}
    PROVE  \E x \in S : \A y \in S : ~(rank[y] < rank[x])
<1> DEFINE R == {rank[m] : m \in S}
<1>1. R \subseteq Nat /\ R # {}
  OBVIOUS
<1>2. PICK u \in R : \A v \in R : ~(<<v, u>> \in OpToRel(<, Nat))
  BY <1>1, NatLessThanWellFounded, WFMin
<1>3. \A v \in R : ~(v < u)
  BY <1>1, <1>2 DEF OpToRel
<1> QED BY <1>3

LEMMA BelowFields ==
    ASSUME NEW msgs, NEW from, from \subseteq DOMAIN msgs,
           \A x \in DOMAIN msgs : msgs[x].children \subseteq DOMAIN msgs
    PROVE  /\ from \subseteq Below(msgs, from) /\ Below(msgs, from) \subseteq DOMAIN msgs
           /\ \A x \in Below(msgs, from) : msgs[x].children \subseteq Below(msgs, from)
<1> DEFINE all    == from \cup DOMAIN msgs \cup UNION {msgs[m].children : m \in DOMAIN msgs}
           closed == {S \in SUBSET all : /\ from \subseteq S
                                         /\ \A m \in S \cap DOMAIN msgs : msgs[m].children \subseteq S}
           B      == Below(msgs, from)
<1>1. all = DOMAIN msgs
  OBVIOUS
<1>2. DOMAIN msgs \in closed
  BY <1>1
<1>3. B = {m \in all : \A S \in closed : m \in S}
  BY DEF Below
<1>4. \A S \in closed : from \subseteq S /\ \A m \in S \cap DOMAIN msgs : msgs[m].children \subseteq S
  OBVIOUS
<1> HIDE DEF all, closed, B
<1>5. from \subseteq B /\ B \subseteq DOMAIN msgs
  BY <1>1, <1>2, <1>3, <1>4
<1>6. ASSUME NEW x \in B, NEW c \in msgs[x].children PROVE c \in B
  <2>1. x \in DOMAIN msgs /\ c \in all /\ \A S \in closed : x \in S
    BY <1>1, <1>3, <1>5, <1>6
  <2> QED BY <1>3, <1>4, <1>6, <2>1
<1> QED BY <1>5, <1>6 DEF B

\* What is left after a deletion agrees with itself.
Trimmed(left, d, m) ==
    /\ DOMAIN left = Ids(d) \ Deletes(d, m)
    /\ d.msgs[m].parent \in DOMAIN left \cup {None}
    /\ \A x \in DOMAIN left : /\ left[x].parent \in DOMAIN left \cup {None}
                              /\ left[x].children = {c \in DOMAIN left : left[c].parent = x}

LEMMA LeftAgrees ==
    ASSUME NEW d, Agrees(d), NEW rank \in [Message -> Nat], NEW sp \in SUBSET Message,
           Placed(d, rank, sp), NEW m \in Ids(d)
    PROVE  Trimmed(Left(d, m), d, m)
<1> DEFINE p == d.msgs[m].parent
           G == Grandchildren(d, m)
           C == d.msgs[m].children
           left == Left(d, m)
<1>1. /\ DOMAIN left = Ids(d) \ Deletes(d, m)
      /\ \A x \in DOMAIN left :
            /\ left[x].parent = IF x \in G THEN p ELSE d.msgs[x].parent
            /\ left[x].children = IF x = p THEN (d.msgs[x].children \ {m}) \cup G
                                           ELSE d.msgs[x].children
  BY DEF Left
<1>2. /\ None \notin Ids(d)
      /\ \A x \in Ids(d) : d.msgs[x].parent \in Ids(d) \cup {None}
      /\ \A x \in Ids(d) : d.msgs[x].children = {c \in Ids(d) : d.msgs[c].parent = x}
  BY AgreesBent DEF Rooted
<1>3. /\ C = {c \in Ids(d) : d.msgs[c].parent = m}
      /\ Deletes(d, m) = {m} \cup C
      /\ G = {g \in Ids(d) : d.msgs[g].parent \in C}
  <2>1. C = {c \in Ids(d) : d.msgs[c].parent = m}
    BY <1>2
  <2>2. C \cap Ids(d) = C /\ Deletes(d, m) = {m} \cup C
    BY <2>1 DEF Deletes
  <2>3. G = Ids(d) \cap UNION {d.msgs[c].children : c \in C}
    BY <2>2 DEF Grandchildren
  <2> HIDE DEF C, G
  <2>4. ASSUME NEW g
        PROVE  g \in G <=> g \in Ids(d) /\ d.msgs[g].parent \in C
    <3>1. g \in G <=> g \in Ids(d) /\ \E c \in C : g \in d.msgs[c].children
      BY <2>3
    <3>2. \A c \in C : c \in Ids(d)
      BY <2>1
    <3>3. \A c \in C : g \in d.msgs[c].children <=> g \in Ids(d) /\ d.msgs[g].parent = c
      BY <1>2, <3>2
    <3> QED BY <3>1, <3>3
  <2>5. G = {g \in Ids(d) : d.msgs[g].parent \in C}
    BY <2>4
  <2> QED BY <2>1, <2>2, <2>5
<1>4. \A x \in Ids(d) : d.msgs[x].parent # None =>
         /\ d.msgs[x].parent \in Ids(d) /\ rank[d.msgs[x].parent] < rank[x]
  BY <1>2 DEF Placed, IsParent
<1>5. \A x \in Ids(d) : rank[x] \in Nat
  BY DEF Placed
<1>6. p \in (Ids(d) \cup {None}) /\ p # m /\ p \notin C
  <2>1. p \in Ids(d) \cup {None}
    BY <1>2
  <2>2. p # None => rank[p] < rank[m] /\ rank[p] \in Nat /\ rank[m] \in Nat
    BY <1>4, <1>5
  <2>3. p # m
    BY <1>2, <2>2
  <2>4. p \notin C
    <3> SUFFICES ASSUME p \in C PROVE FALSE
      OBVIOUS
    <3>1. p \in Ids(d) /\ d.msgs[p].parent = m /\ p # None
      BY <1>2, <1>3
    <3>2. rank[m] < rank[p]
      BY <1>2, <1>4, <3>1
    <3> QED BY <2>2, <3>1, <3>2
  <2> QED BY <2>1, <2>3, <2>4
<1>7. m \notin C /\ m \notin G /\ C \cap G = {}
  <2>1. m \notin C
    BY <1>3, <1>6
  <2>2. m \notin G
    BY <1>3, <1>6
  <2>3. \A c \in C : d.msgs[c].parent = m
    BY <1>3
  <2> QED BY <1>3, <2>1, <2>2, <2>3
<1> HIDE DEF p, G, C, left
<1>8. \A x \in DOMAIN left : left[x].parent \in DOMAIN left \cup {None}
  <2> SUFFICES ASSUME NEW x \in DOMAIN left PROVE left[x].parent \in DOMAIN left \cup {None}
    OBVIOUS
  <2>1. CASE x \in G
    BY <1>1, <1>3, <1>6, <2>1
  <2>2. CASE x \notin G
    <3>1. x \in Ids(d) /\ x \notin C /\ left[x].parent = d.msgs[x].parent
      BY <1>1, <1>3, <2>2
    <3>2. d.msgs[x].parent # m /\ d.msgs[x].parent \notin C
      BY <1>3, <2>2, <3>1
    <3> QED BY <1>1, <1>2, <1>3, <3>1, <3>2
  <2> QED BY <2>1, <2>2
<1>9. \A x \in DOMAIN left : left[x].children = {c \in DOMAIN left : left[c].parent = x}
  <2> SUFFICES ASSUME NEW x \in DOMAIN left
               PROVE  left[x].children = {c \in DOMAIN left : left[c].parent = x}
    OBVIOUS
  <2>1. x \in Ids(d) /\ x # m /\ x \notin C
    BY <1>1, <1>3
  <2>2. CASE x = p
    <3>1. left[x].children = ({c \in Ids(d) : d.msgs[c].parent = p} \ {m}) \cup G
      BY <1>1, <1>2, <2>1, <2>2
    <3>2. \A c \in Ids(d) : d.msgs[c].parent = p => c \notin C
      BY <1>3, <1>6
    <3>3. \A c : c \in ({c2 \in Ids(d) : d.msgs[c2].parent = p} \ {m}) \cup G
                 <=> c \in DOMAIN left /\ left[c].parent = p
      BY <1>1, <1>3, <1>7, <3>2
    <3> QED BY <2>2, <3>1, <3>3
  <2>3. CASE x # p
    <3>1. left[x].children = {c \in Ids(d) : d.msgs[c].parent = x}
      BY <1>1, <1>2, <2>1, <2>3
    <3>2. d.msgs[m].parent # x
      BY <2>3 DEF p
    <3>3. \A c \in Ids(d) : d.msgs[c].parent = x => c # m /\ c \notin C /\ c \notin G
      BY <1>3, <2>1, <3>2
    <3>4. \A c : c \in Ids(d) /\ d.msgs[c].parent = x <=> c \in DOMAIN left /\ left[c].parent = x
      BY <1>1, <1>3, <2>3, <3>3
    <3> QED BY <3>1, <3>4
  <2> QED BY <2>2, <2>3
<1>10. p \in DOMAIN left \cup {None}
  BY <1>1, <1>3, <1>6
<1>11. Trimmed(left, d, m)
  BY <1>1, <1>8, <1>9, <1>10 DEF p, Trimmed
<1> QED BY <1>11 DEF left

\* A leaf is found, as ranks end, and shown.
LEMMA CutAgrees ==
    ASSUME NEW d, Agrees(d), NEW rank \in [Message -> Nat], NEW sp \in SUBSET Message,
           Placed(d, rank, sp), NEW n \in Nat, \A x \in sp : rank[x] < n,
           NEW m \in Ids(d), NEW e \in Cut(d, m)
    PROVE  Agrees(e) /\ Ids(e) = Ids(d) \ Deletes(d, m)
<1> DEFINE left  == Left(d, m)
           p     == d.msgs[m].parent
           start == IF p = None THEN {x \in DOMAIN left : left[x].parent = None} ELSE {p}
           B     == Below(left, start)
           ends  == {x \in B : x \in DOMAIN left => left[x].children = {}}
<1>1. \/ ends = {} /\ e = [msgs |-> left, current |-> None]
      \/ \E x \in ends : e = [msgs |-> left, current |-> IF x \in DOMAIN left THEN x ELSE None]
  BY DEF Cut
<1>2. /\ DOMAIN left = Ids(d) \ Deletes(d, m) /\ p \in DOMAIN left \cup {None}
      /\ \A x \in DOMAIN left : /\ left[x].parent \in DOMAIN left \cup {None}
                                /\ left[x].children = {c \in DOMAIN left : left[c].parent = x}
  <2>1. Trimmed(left, d, m)
    BY LeftAgrees
  <2> HIDE DEF left
  <2> QED BY <2>1 DEF Trimmed
<1>3. DOMAIN left \subseteq Message /\ DOMAIN left \subseteq sp /\ None \notin DOMAIN left
  BY <1>2, NoMessages DEF Placed, NoMessages
<1>4. \A x \in DOMAIN left : IsParent(left[x].parent, x, rank, sp)
  BY LeftPlaced
<1> HIDE DEF left, p
<1>5. /\ start \subseteq B /\ B \subseteq DOMAIN left
      /\ \A x \in B : left[x].children \subseteq B
  <2>1. start \subseteq DOMAIN left
    BY <1>2
  <2> HIDE DEF start
  <2> QED BY <1>2, <2>1, BelowFields
<1>6. ASSUME DOMAIN left # {} PROVE start # {}
  <2>1. PICK x \in DOMAIN left : \A y \in DOMAIN left : ~(rank[y] < rank[x])
    BY <1>3, <1>6, FirstOf
  <2>2. left[x].parent = None
    BY <1>2, <1>3, <1>4, <2>1 DEF IsParent
  <2> QED BY <2>2
<1> HIDE DEF start, B
<1>7. ASSUME DOMAIN left # {} PROVE ends # {}
  <2>1. B # {} /\ B \in SUBSET Message /\ \A x \in B : rank[x] < n
    BY <1>3, <1>5, <1>6, <1>7
  <2>2. PICK x \in B : \A y \in B : rank[y] <= rank[x]
    BY <2>1, LastOf
  <2>3. ASSUME NEW c \in left[x].children PROVE FALSE
    <3>1. x \in DOMAIN left /\ c \in DOMAIN left /\ left[c].parent = x /\ c \in B /\ x # None
      BY <1>2, <1>3, <1>5, <2>2, <2>3
    <3>2. rank[x] < rank[c] /\ rank[c] <= rank[x] /\ rank[x] \in Nat /\ rank[c] \in Nat
      BY <1>3, <1>4, <2>2, <3>1 DEF IsParent
    <3> QED BY <3>2
  <2> QED BY <2>2, <2>3
<1>8. \E x : /\ e = [msgs |-> left, current |-> x]
             /\ DOMAIN left # {} => x \in DOMAIN left
  <2>1. \A x \in ends : x \in DOMAIN left
    BY <1>5
  <2> HIDE DEF ends
  <2> QED BY <1>1, <1>7, <2>1
<1>9. /\ DOMAIN e = {"msgs", "current"} /\ e.msgs = left
      /\ DOMAIN left # {} => e.current \in DOMAIN left
  BY <1>8
<1>10. Ids(e) = DOMAIN left
  BY <1>9 DEF Ids
<1>11. Rooted(e)
  BY <1>2, <1>3, <1>9, <1>10 DEF Rooted
<1> QED BY <1>2, <1>9, <1>10, <1>11 DEF Agrees, Kids

LEMMA MergedAgrees ==
    ASSUME NEW d, Agrees(d), NEW page, PageOf(page, d)
    PROVE  LET e == Merged(d, page)
           IN  Agrees(e) /\ Ids(e) = Ids(page) /\ Ids(d) \subseteq Ids(e) /\ Ids(e) # {}
<1> DEFINE ids    == Ids(d) \cup Ids(page)
           parent == [m \in ids |-> IF m \in Ids(page) THEN page.msgs[m].parent
                                                       ELSE d.msgs[m].parent]
           msgs   == [m \in ids |-> [parent |-> parent[m],
                                     children |-> {c \in ids : parent[c] = m}]]
           e      == Merged(d, page)
<1>1. Rooted(page) /\ ids = Ids(page) /\ page.current \in ids
  BY DEF PageOf
<1>2. e = [msgs |-> msgs, current |-> page.current]
  BY <1>1 DEF Merged
<1>3. /\ DOMAIN msgs = ids
      /\ \A m \in ids : /\ msgs[m].parent = page.msgs[m].parent
                        /\ msgs[m].children = {c \in ids : page.msgs[c].parent = m}
  BY <1>1
<1> HIDE DEF msgs, e
<1>4. DOMAIN e = {"msgs", "current"} /\ e.msgs = msgs /\ e.current = page.current /\ Ids(e) = ids
  BY <1>2, <1>3 DEF Ids
<1> HIDE DEF parent, ids
<1>5. Rooted(e)
  BY <1>1, <1>3, <1>4 DEF Rooted
<1>6. Agrees(e)
  BY <1>3, <1>4, <1>5 DEF Agrees, Kids
<1> QED BY <1>1, <1>4, <1>6 DEF PageOf, e

-----------------------------------------------------------------------------
(* The call at hand *)

LEMMA AtFront ==
    ASSUME NEW s, NEW d, At(s, d), s # <<>>
    PROVE  \/ Agrees(d) /\ Head(s) = <<"walk">>
           \/ Agrees(d) /\ Tail(s) = <<>> /\ \E L : Head(s) = <<"heal", L>>
           \/ Head(s) = <<"read">> /\ ReadAt(Tail(s), d)
           \/ \E u, p, a : \E l \in BOOLEAN :
                 /\ p # None /\ Bent(d, u, p, a, l)
                 /\ Head(s) = <<"link", p, {u}, FALSE>> /\ Tail(s) = Linking(u, a)
           \/ \E u, p, a : /\ Bent(d, u, p, a, TRUE) /\ Head(s) = <<"link", u, {a}, TRUE>>
                           /\ Tail(s) = Reading(Answering(u, a))
<1>1. CASE Agrees(d) /\ s = Then(<<"walk">>, <<>>)
  <2>1. Head(s) = <<"walk">>
    BY <1>1, NoneSeq, ThenSeq
  <2> QED BY <1>1, <2>1
<1>2. ASSUME Agrees(d), NEW L, s = Then(<<"heal", L>>, <<>>)
      PROVE  Tail(s) = <<>> /\ Head(s) = <<"heal", L>>
  BY <1>2, NoneSeq, ThenSeq
<1>3. ASSUME NEW t, s = Reading(t), ReadAt(t, d)
      PROVE  Head(s) = <<"read">> /\ ReadAt(Tail(s), d)
  <2>1. Head(s) = <<"read">> /\ Tail(s) = t
    BY <1>3, ReadAtSeq, ThenSeq DEF Reading
  <2> QED BY <1>3, <2>1
<1>4. ASSUME NEW u, NEW p, NEW a, s = Then(<<"link", p, {u}, FALSE>>, Linking(u, a))
      PROVE  Head(s) = <<"link", p, {u}, FALSE>> /\ Tail(s) = Linking(u, a)
  BY <1>4, TurnSeq, ThenSeq
<1>5. ASSUME NEW u, NEW a, s = Linking(u, a)
      PROVE  Head(s) = <<"link", u, {a}, TRUE>> /\ Tail(s) = Reading(Answering(u, a))
  <2>1. IsSeq(Reading(Answering(u, a)))
    BY TurnSeq
  <2> QED BY <1>5, <2>1, ThenSeq DEF Linking
<1>6. CASE Agrees(d) /\ \E L : s = Then(<<"heal", L>>, <<>>)
  BY <1>2, <1>6, Zenon
<1>7. CASE \E t : s = Reading(t) /\ ReadAt(t, d)
  BY <1>3, <1>7, Zenon
<1>8. CASE \E u, p, a : \E l \in BOOLEAN :
              p # None /\ Bent(d, u, p, a, l) /\ s = Then(<<"link", p, {u}, FALSE>>, Linking(u, a))
  BY <1>4, <1>8, Zenon
<1>9. CASE \E u, p, a : Bent(d, u, p, a, TRUE) /\ s = Linking(u, a)
  BY <1>5, <1>9, Zenon
<1> QED BY <1>1, <1>6, <1>7, <1>8, <1>9, Zenon DEF At

LEMMA ReadFront ==
    ASSUME NEW s, NEW d, ReadAt(s, d)
    PROVE  \/ \E m, patch, t : /\ Fits(m, patch, t, d) /\ Head(s) = <<"upsert", m, patch>>
                               /\ Tail(s) = Writing(t)
           \/ Head(s) = <<"write">> /\ At(Tail(s), d)
           \/ Agrees(d) /\ Tail(s) = <<>> /\ \E m : Head(s) = <<"delete", m>>
           \/ Agrees(d) /\ Tail(s) = <<>> /\ \E page : PageOf(page, d) /\ Head(s) = <<"merge", page>>
<1>1. ASSUME NEW m, NEW patch, NEW t, Fits(m, patch, t, d), s = Putting(m, patch, t)
      PROVE  Head(s) = <<"upsert", m, patch>> /\ Tail(s) = Writing(t)
  <2>1. IsSeq(Writing(t))
    BY <1>1, FitsSeq, PuttingSeq
  <2> QED BY <1>1, <2>1, ThenSeq DEF Putting
<1>2. ASSUME Agrees(d), s = Writing(<<>>)
      PROVE  Head(s) = <<"write">> /\ At(Tail(s), d)
  <2>1. Head(s) = <<"write">> /\ Tail(s) = <<>>
    BY <1>2, NoneSeq, ThenSeq DEF Writing
  <2> QED BY <1>2, <2>1 DEF At
<1>3. ASSUME NEW m, s = Then(<<"delete", m>>, <<>>)
      PROVE  Tail(s) = <<>> /\ Head(s) = <<"delete", m>>
  BY <1>3, NoneSeq, ThenSeq
<1>4. ASSUME NEW page, s = Then(<<"merge", page>>, <<>>)
      PROVE  Tail(s) = <<>> /\ Head(s) = <<"merge", page>>
  BY <1>4, NoneSeq, ThenSeq
<1>5. ASSUME NEW u, NEW p, NEW a, Agrees(d), Asking(d, u, p, a),
             s = Writing(Reading(Questioning(u, p, a, Listed(d, u, a))))
      PROVE  Head(s) = <<"write">> /\ At(Tail(s), d)
  <2> DEFINE t == Questioning(u, p, a, Listed(d, u, a))
  <2>1. Head(s) = <<"write">> /\ Tail(s) = Reading(t)
    BY <1>5, TurnSeq, ThenSeq DEF Writing
  <2>2. Fits(u, Patch(p, Listed(d, u, a)), Placing(u, p, a), d)
    BY <1>5 DEF Fits
  <2>3. ReadAt(t, d)
    BY <2>2, Zenon DEF ReadAt, Questioning
  <2> HIDE DEF t
  <2> QED BY <2>1, <2>3 DEF At
<1> QED BY <1>1, <1>2, <1>3, <1>4, <1>5, Zenon DEF ReadAt

LEMMA FillFront ==
    ASSUME NEW s, NEW d, NEW ro, Filling(s, d, ro), s # <<>>
    PROVE  \/ \E P, D : /\ P # {} /\ Lacking(P, D, d, ro) /\ Head(s) = <<"rows", P>>
                        /\ Tail(s) = Dropping(D)
           \/ \E D : Lacking({}, D, d, ro) /\ Head(s) = <<"unrow", D>> /\ Tail(s) = <<>>
<1>1. PICK P, D : Lacking(P, D, d, ro) /\ s = Backfill(P, Dropping(D))
  BY DEF Filling
<1>2. IsSeq(Dropping(D))
  BY NoneSeq, ThenSeq DEF Dropping
<1>3. CASE P # {}
  <2>1. s = Then(<<"rows", P>>, Dropping(D))
    BY <1>1, <1>3 DEF Backfill
  <2>2. Head(s) = <<"rows", P>> /\ Tail(s) = Dropping(D)
    BY <1>2, <2>1, ThenSeq
  <2> QED BY <1>1, <1>3, <2>2
<1>4. CASE P = {}
  <2>1. s = Then(<<"unrow", D>>, <<>>)
    BY <1>1, <1>4 DEF Backfill, Dropping
  <2>2. Head(s) = <<"unrow", D>> /\ Tail(s) = <<>>
    BY <2>1, NoneSeq, ThenSeq
  <2> QED BY <1>1, <1>4, <2>2
<1> QED BY <1>3, <1>4

LEMMA PhaseFront ==
    ASSUME NEW s, NEW copy, NEW d, NEW ro, Phase(s, copy, d, ro), s # <<>>
    PROVE  \/ Head(s) = <<"read">> /\ ReadAt(Tail(s), d) /\ ro = RowsOf(d)
           \/ Head(s) = <<"write">> /\ At(Tail(s), copy) /\ ro = RowsOf(copy)
           \/ \E m, patch, t : /\ Fits(m, patch, t, d) /\ Head(s) = <<"upsert", m, patch>>
                               /\ Tail(s) = Writing(t) /\ copy = d /\ ro = RowsOf(d)
           \/ \E u, p, a : \E l \in BOOLEAN :
                 /\ p # None /\ Bent(d, u, p, a, l) /\ ro = RowsOf(d)
                 /\ Head(s) = <<"link", p, {u}, FALSE>> /\ Tail(s) = Linking(u, a)
           \/ \E u, p, a : /\ Bent(d, u, p, a, TRUE) /\ Head(s) = <<"link", u, {a}, TRUE>>
                           /\ Tail(s) = Reading(Answering(u, a)) /\ ro = RowsOf(d)
           \/ /\ Settled(d, ro) /\ copy = d /\ Tail(s) = <<>>
              /\ \/ \E m : Head(s) = <<"delete", m>>
                 \/ \E page : PageOf(page, d) /\ Head(s) = <<"merge", page>>
           \/ \E P, D : /\ P # {} /\ Lacking(P, D, d, ro) /\ Head(s) = <<"rows", P>>
                        /\ Tail(s) = Dropping(D) /\ copy = d
           \/ \E D : Lacking({}, D, d, ro) /\ Head(s) = <<"unrow", D>> /\ Tail(s) = <<>>
           \/ Settled(d, ro) /\ Head(s) = <<"walk">>
           \/ Settled(d, ro) /\ Tail(s) = <<>> /\ \E L : Head(s) = <<"heal", L>>
<1>1. CASE At(s, d) /\ ro = RowsOf(d)
  BY <1>1, AtFront, Zenon DEF Settled
<1>2. CASE ReadAt(s, d) /\ ro = RowsOf(d) /\ copy = d
  BY <1>2, ReadFront, Zenon DEF Settled
<1>3. ASSUME NEW t, s = Writing(t), At(t, copy), ro = RowsOf(copy)
      PROVE  Head(s) = <<"write">> /\ At(Tail(s), copy)
  <2>1. Head(s) = <<"write">> /\ Tail(s) = t
    BY <1>3, AtSeq, ThenSeq DEF Writing
  <2> QED BY <1>3, <2>1
<1>4. CASE Filling(s, d, ro) /\ copy = d
  BY <1>4, FillFront, Zenon
<1> QED BY <1>1, <1>2, <1>3, <1>4, Zenon DEF Phase

-----------------------------------------------------------------------------
(* What a call makes of the document, the rows and the rest of the request *)

\* Whether anything is left to do or not
Lone(s, copy, d, ro) == IF s = <<>> THEN Settled(d, ro) ELSE Phase(s, copy, d, ro)

LEMMA RootedShown ==
    ASSUME NEW d, Rooted(d), NEW e \in Repaired(d)
    PROVE  e = d
BY DEF Repaired, Rooted

LEMMA ReadMoves ==
    ASSUME NEW t, NEW d, NEW ro, ReadAt(t, d), ro = RowsOf(d)
    PROVE  Lone(t, d, d, ro)
BY ReadAtSeq DEF Lone, Phase

LEMMA AtMoves ==
    ASSUME NEW s, NEW copy, NEW d, NEW ro, At(s, d), ro = RowsOf(d)
    PROVE  Lone(s, copy, d, ro)
BY AtSeq DEF Lone, Phase, Settled

LEMMA UpsertMoves ==
    ASSUME NEW m, NEW patch, NEW t, NEW d, Fits(m, patch, t, d), NEW e \in Upserted(d, m, patch)
    PROVE  Lone(Writing(t), e, d, With(RowsOf(d), m, e.msgs[m].parent))
<1>1. At(t, e) /\ RowsOf(e) = With(RowsOf(d), m, e.msgs[m].parent)
  BY UpsertFits
<1>2. Writing(t) # <<>>
  BY FitsSeq, ThenSeq DEF Writing
<1> QED BY <1>1, <1>2 DEF Lone, Phase

LEMMA FillMoves ==
    ASSUME NEW P, NEW D, NEW d, NEW ro, Lacking(P, D, d, ro)
    PROVE  Lone(Backfill(P, Dropping(D)), d, d, ro)
<1> DEFINE s == Backfill(P, Dropping(D))
<1>1. Filling(s, d, ro)
  BY DEF Filling
<1>2. ASSUME s = <<>> PROVE Settled(d, ro)
  <2>1. IsSeq(Dropping(D)) /\ (D # {} => Dropping(D) # <<>>)
    BY NoneSeq, ThenSeq DEF Dropping
  <2>2. P # {} => s # <<>>
    BY <2>1, ThenSeq DEF Backfill
  <2>3. P = {} /\ D = {}
    BY <1>2, <2>1, <2>2 DEF Backfill
  <2>4. ro = RowsOf(d)
    BY <2>3 DEF Lacking, RowsOf
  <2> QED BY <2>4 DEF Settled, Lacking
<1> HIDE DEF s
<1>3. Lone(s, d, d, ro)
  BY <1>1, <1>2 DEF Lone, Phase
<1> QED BY <1>3 DEF s

LEMMA LoopFills ==
    ASSUME NEW P, NEW t, IsSeq(t)
    PROVE  Loop("rows", P) \o t = Backfill(P, t)
<1>1. <<>> \o t = t
  BY Joins, NoneSeq
<1> QED BY <1>1 DEF Loop, Backfill, Then

LEMMA RowMoves ==
    ASSUME NEW P, NEW D, NEW d, NEW ro, Lacking(P, D, d, ro), NEW m \in P
    PROVE  Lone(Loop("rows", P \ {m}) \o Dropping(D), d, d, With(ro, m, d.msgs[m].parent))
<1> DEFINE ro2 == With(ro, m, d.msgs[m].parent)
<1>1. /\ DOMAIN ro2 = DOMAIN ro \cup {m} /\ ro2 = [x \in DOMAIN ro2 |-> ro2[x]]
      /\ \A x \in DOMAIN ro2 : ro2[x] = IF x = m THEN d.msgs[m].parent ELSE ro[x]
  BY DEF With
<1> HIDE DEF ro2
<1>2. Lacking(P \ {m}, D, d, ro2)
  BY <1>1 DEF Lacking
<1>3. IsSeq(Dropping(D))
  BY NoneSeq, ThenSeq DEF Dropping
<1>4. Loop("rows", P \ {m}) \o Dropping(D) = Backfill(P \ {m}, Dropping(D))
  BY <1>3, LoopFills
<1> QED BY <1>2, <1>4, FillMoves DEF ro2

LEMMA UnrowMoves ==
    ASSUME NEW D, NEW d, NEW ro, Lacking({}, D, d, ro), NEW copy
    PROVE  Lone(<<>>, copy, d, Without(ro, D))
<1>1. Without(ro, D) = RowsOf(d)
  BY DEF Lacking, Without, RowsOf
<1> QED BY <1>1 DEF Lone, Settled, Lacking

LEMMA DeleteMoves ==
    ASSUME NEW d, NEW ro, Settled(d, ro), NEW rank \in [Message -> Nat],
           NEW sp \in SUBSET Message, Placed(d, rank, sp), NEW n \in Nat,
           \A x \in sp : rank[x] < n, NEW m \in Ids(d), NEW e \in Cut(d, m)
    PROVE  Lone(Loop("rows", Ids(e)) \o <<<<"unrow", Deletes(d, m)>>>> \o <<>>, e, e, ro)
<1> DEFINE D == Deletes(d, m)
           x == <<"unrow", D>>
           l == Loop("rows", Ids(e))
<1>1. Agrees(e) /\ Ids(e) = Ids(d) \ D
  BY CutAgrees DEF Settled
<1>2. D # {}
  BY DEF Deletes
<1> HIDE DEF D
<1>3. Lacking(Ids(e), D, e, ro)
  BY <1>1 DEF Lacking, Settled, RowsOf
<1>4. <<x>> \o <<>> = Dropping(D)
  BY <1>2 DEF Dropping, Then
<1>5. l \o Dropping(D) = Backfill(Ids(e), Dropping(D))
  BY NoneSeq, ThenSeq, LoopFills DEF Dropping
<1> HIDE DEF x
<1>6. IsSeq(l) /\ IsSeq(<<x>>)
  <2>1. \A y : <<y>> \in Seq({y})
    OBVIOUS
  <2> QED BY <2>1, NoneSeq DEF IsSeq, Loop
<1> HIDE DEF l
<1>7. l \o <<x>> \o <<>> = l \o (<<x>> \o <<>>)
  BY <1>6, NoneSeq, Joins
<1>8. Lone(l \o <<x>> \o <<>>, e, e, ro)
  BY <1>3, <1>4, <1>5, <1>7, FillMoves
<1> QED BY <1>8 DEF l, x, D

LEMMA SaveMoves ==
    ASSUME NEW d, NEW ro, Settled(d, ro), NEW page, PageOf(page, d), NEW e, e = Merged(d, page)
    PROVE  Lone(Loop("rows", Ids(e)) \o <<>>, e, e, ro)
<1>1. Agrees(e) /\ Ids(d) \subseteq Ids(e)
  BY MergedAgrees DEF Settled
<1>2. Lacking(Ids(e), {}, e, ro)
  BY <1>1 DEF Lacking, Settled, RowsOf
<1>3. Loop("rows", Ids(e)) \o <<>> = Backfill(Ids(e), Dropping({}))
  BY NoneSeq, LoopFills DEF Dropping
<1> QED BY <1>2, <1>3, FillMoves

LEMMA HealMoves ==
    ASSUME NEW d, NEW ro, Settled(d, ro), NEW L
    PROVE  Lone(Loop("rows", L \cap Ids(d)) \o <<>>, d, d, ro)
<1>1. Lacking(L \cap Ids(d), {}, d, ro)
  BY DEF Lacking, Settled, RowsOf
<1>2. Loop("rows", L \cap Ids(d)) \o <<>> = Backfill(L \cap Ids(d), Dropping({}))
  BY NoneSeq, LoopFills DEF Dropping
<1> QED BY <1>1, <1>2, FillMoves

LEMMA WalkMoves ==
    ASSUME NEW d, NEW ro, Settled(d, ro), NEW copy
    PROVE  Lone(IF DOMAIN ro = {} THEN <<<<"heal", Message>>>>
                ELSE Loop("heal", {ro[m] : m \in DOMAIN ro} \ (DOMAIN ro \cup {None})),
                copy, d, ro)
<1>1. {ro[m] : m \in DOMAIN ro} \ (DOMAIN ro \cup {None}) = {}
  BY DEF Settled, RowsOf, Agrees, Rooted
<1>2. Lone(<<>>, copy, d, ro)
  BY DEF Lone
<1> DEFINE h == <<"heal", Message>>
<1>3. <<h>> = Then(h, <<>>)
  BY DEF Then
<1>4. At(<<h>>, d)
  <2>1. Agrees(d)
    BY DEF Settled
  <2>2. \E L : <<h>> = Then(<<"heal", L>>, <<>>)
    BY <1>3, Zenon
  <2> HIDE DEF h
  <2> QED BY <2>1, <2>2 DEF At
<1> HIDE DEF h
<1>5. Lone(<<h>>, copy, d, ro)
  BY <1>4, AtMoves DEF Settled
<1> QED BY <1>1, <1>2, <1>5 DEF Loop, h

\* The link of a question to its parent, and of an answer to its question
LEMMA LinkMoves ==
    ASSUME NEW d, NEW u, NEW p, NEW a, NEW l \in BOOLEAN, p # None, Bent(d, u, p, a, l), NEW copy
    PROVE  /\ p \in Ids(d)
           /\ {u} \subseteq d.msgs[p].children => Lone(<<>> \o Linking(u, a), copy, d, RowsOf(d))
           /\ ~({u} \subseteq d.msgs[p].children) =>
                 Lone(Upsert(p, Patch(Same, d.msgs[p].children \cup {u})) \o Linking(u, a),
                      copy, d, RowsOf(d))
<1>1. /\ Rooted(d) /\ u \in Ids(d) /\ d.msgs[u].parent = p /\ p \in Ids(d)
      /\ u \in Kids(d, p) /\ (l => u \in d.msgs[p].children)
      /\ ~l => u \notin d.msgs[p].children
  BY DEF Bent, Rooted, Kids
<1>2. ASSUME l PROVE Lone(<<>> \o Linking(u, a), copy, d, RowsOf(d))
  <2>1. <<>> \o Linking(u, a) = Linking(u, a)
    BY TurnSeq, Joins
  <2>2. At(Linking(u, a), d)
    BY <1>2 DEF At
  <2> QED BY <2>1, <2>2, AtMoves
<1>3. ASSUME ~l
      PROVE  Lone(Upsert(p, Patch(Same, d.msgs[p].children \cup {u})) \o Linking(u, a),
                  copy, d, RowsOf(d))
  <2> DEFINE patch == Patch(Same, d.msgs[p].children \cup {u})
             s     == Linking(u, a)
  <2>1. Upsert(p, patch) \o s = Reading(Putting(p, patch, s))
    <3>1. IsSeq(s)
      BY TurnSeq
    <3> HIDE DEF patch, s
    <3> DEFINE x == Upsert(p, patch)
    <3>2. x = Upsert(p, patch)
      OBVIOUS
    <3> HIDE DEF x
    <3>3. x \o s = Reading(Putting(p, patch, s))
      BY <3>1, <3>2, UpsertCalls
    <3> QED BY <3>2, <3>3
  <2>2. Fits(p, patch, s, d)
    BY <1>3 DEF Fits
  <2> HIDE DEF patch, s
  <2>3. ReadAt(Putting(p, patch, s), d)
    BY <2>2, Zenon DEF ReadAt
  <2>4. At(Upsert(p, patch) \o s, d)
    BY <2>1, <2>3, Zenon DEF At
  <2>5. Lone(Upsert(p, patch) \o s, copy, d, RowsOf(d))
    BY <2>4, AtMoves
  <2> QED BY <2>5 DEF patch, s
<1> QED BY <1>1, <1>2, <1>3

LEMMA AnswerMoves ==
    ASSUME NEW d, NEW u, NEW p, NEW a, Bent(d, u, p, a, TRUE), NEW copy
    PROVE  Lone(Upsert(u, Patch(Same, d.msgs[u].children \cup {a})) \o Reading(Answering(u, a)),
                copy, d, RowsOf(d))
<1> DEFINE patch == Patch(Same, d.msgs[u].children \cup {a})
           s     == Reading(Answering(u, a))
<1>1. Upsert(u, patch) \o s = Reading(Putting(u, patch, s))
  <2>1. IsSeq(s)
    BY TurnSeq
  <2> HIDE DEF patch, s
  <2> DEFINE x == Upsert(u, patch)
  <2>2. x = Upsert(u, patch)
    OBVIOUS
  <2> HIDE DEF x
  <2>3. x \o s = Reading(Putting(u, patch, s))
    BY <2>1, <2>2, UpsertCalls
  <2> QED BY <2>2, <2>3
<1>2. Fits(u, patch, s, d)
  BY DEF Fits
<1> HIDE DEF patch, s
<1>3. ReadAt(Putting(u, patch, s), d)
  BY <1>2, Zenon DEF ReadAt
<1>4. At(Upsert(u, patch) \o s, d)
  BY <1>1, <1>3, Zenon DEF At
<1>5. Lone(Upsert(u, patch) \o s, copy, d, RowsOf(d))
  BY <1>4, AtMoves
<1> QED BY <1>5 DEF patch, s

\* After a step of the request that is alone
LEMMA LoneStep ==
    ASSUME job = [v \in Worker |-> job[v]], disturbed' \in Nat, spent' # {},
           NEW w \in Worker, Busy \subseteq {w}, NEW s, NEW copy, Go(w, s, copy),
           Lone(s, copy, doc', rows')
    PROVE  LoneInv'
<1>1. \A v \in Worker : job'[v] = IF v # w THEN job[v] ELSE IF s = <<>> THEN Idle
                                  ELSE [todo |-> s, copy |-> copy]
  BY DEF Go
<1>2. \A v \in Worker : v # w => job[v] = Idle
  BY DEF Busy
<1>3. CASE s = <<>>
  <2>1. Busy' = {}
    BY <1>1, <1>2, <1>3 DEF Busy
  <2> QED BY <1>3, <2>1 DEF LoneInv, Lone
<1>4. CASE s # <<>>
  <2>1. job'[w].todo = s /\ job'[w].copy = copy /\ Idle.todo = <<>>
    BY <1>1, <1>4 DEF Idle
  <2>2. Busy' = {w}
    BY <1>1, <1>2, <1>4, <2>1 DEF Busy
  <2> QED BY <1>4, <2>1, <2>2 DEF LoneInv, Lone
<1> QED BY <1>3, <1>4

\* The call at hand, by its kind
Matches(op, rest, copy, d, ro) ==
    /\ op[1] = "read"   => ReadAt(rest, d) /\ ro = RowsOf(d)
    /\ op[1] = "write"  => At(rest, copy) /\ ro = RowsOf(copy)
    /\ op[1] = "upsert" => /\ \E t : Fits(op[2], op[3], t, d) /\ rest = Writing(t)
                           /\ copy = d /\ ro = RowsOf(d)
    /\ op[1] = "link"   => /\ ro = RowsOf(d)
                           /\ \/ \E u, a : \E l \in BOOLEAN :
                                    /\ op[2] # None /\ Bent(d, u, op[2], a, l)
                                    /\ op[3] = {u} /\ op[4] = FALSE /\ rest = Linking(u, a)
                              \/ \E p, a : /\ Bent(d, op[2], p, a, TRUE)
                                           /\ op[3] = {a} /\ op[4] = TRUE
                                           /\ rest = Reading(Answering(op[2], a))
    /\ op[1] \in {"delete", "merge", "heal"} => Settled(d, ro) /\ rest = <<>>
    /\ op[1] \in {"delete", "merge"}         => copy = d
    /\ op[1] = "merge"  => PageOf(op[2], d)
    /\ op[1] = "rows"   => (\E D : Lacking(op[2], D, d, ro) /\ rest = Dropping(D)) /\ copy = d
    /\ op[1] = "unrow"  => Lacking({}, op[2], d, ro) /\ rest = <<>>
    /\ op[1] = "walk"   => Settled(d, ro)

LEMMA PhaseMatches ==
    ASSUME NEW s, NEW copy, NEW d, NEW ro, Phase(s, copy, d, ro), s # <<>>
    PROVE  Matches(Head(s), Tail(s), copy, d, ro)
<1> DEFINE op   == Head(s)
           rest == Tail(s)
           Goal == Matches(op, rest, copy, d, ro)
<1>1. ASSUME op = <<"read">>, ReadAt(rest, d), ro = RowsOf(d)
      PROVE  Goal
  <2>1. op[1] = "read"
    BY <1>1
  <2> HIDE DEF op, rest
  <2> QED BY <1>1, <2>1 DEF Matches
<1>2. ASSUME op = <<"write">>, At(rest, copy), ro = RowsOf(copy)
      PROVE  Goal
  <2>1. op[1] = "write"
    BY <1>2
  <2> HIDE DEF op, rest
  <2> QED BY <1>2, <2>1 DEF Matches
<1>3. ASSUME NEW m, NEW patch, NEW t, Fits(m, patch, t, d), op = <<"upsert", m, patch>>,
             rest = Writing(t), copy = d, ro = RowsOf(d)
      PROVE  Goal
  <2>1. op[1] = "upsert" /\ op[2] = m /\ op[3] = patch
    BY <1>3
  <2> HIDE DEF op, rest
  <2> QED BY <1>3, <2>1 DEF Matches
<1>4. ASSUME NEW u, NEW p, NEW a, NEW l \in BOOLEAN, p # None, Bent(d, u, p, a, l),
             ro = RowsOf(d), op = <<"link", p, {u}, FALSE>>, rest = Linking(u, a)
      PROVE  Goal
  <2> DEFINE b == FALSE
  <2>0. op = <<"link", p, {u}, b>>
    BY <1>4
  <2> HIDE DEF op, rest, b
  <2>1. op[1] = "link" /\ op[2] = p /\ op[3] = {u} /\ op[4] = b
    BY <2>0
  <2>2. op[4] = FALSE
    BY <2>1 DEF b
  <2> QED BY <1>4, <2>1, <2>2 DEF Matches
<1>5. ASSUME NEW u, NEW p, NEW a, Bent(d, u, p, a, TRUE), op = <<"link", u, {a}, TRUE>>,
             rest = Reading(Answering(u, a)), ro = RowsOf(d)
      PROVE  Goal
  <2> DEFINE b == TRUE
  <2>0. op = <<"link", u, {a}, b>>
    BY <1>5
  <2> HIDE DEF op, rest, b
  <2>1. op[1] = "link" /\ op[2] = u /\ op[3] = {a} /\ op[4] = b
    BY <2>0
  <2>2. op[4] = TRUE
    BY <2>1 DEF b
  <2> QED BY <1>5, <2>1, <2>2 DEF Matches
<1>6. ASSUME Settled(d, ro), copy = d, rest = <<>>, NEW m, op = <<"delete", m>>
      PROVE  Goal
  <2>1. op[1] = "delete"
    BY <1>6
  <2> HIDE DEF op, rest
  <2> QED BY <1>6, <2>1 DEF Matches
<1>7. ASSUME Settled(d, ro), copy = d, rest = <<>>, NEW page, PageOf(page, d),
             op = <<"merge", page>>
      PROVE  Goal
  <2>1. op[1] = "merge" /\ op[2] = page
    BY <1>7
  <2> HIDE DEF op, rest
  <2> QED BY <1>7, <2>1 DEF Matches
<1>8. ASSUME NEW P, NEW D, Lacking(P, D, d, ro), op = <<"rows", P>>, rest = Dropping(D), copy = d
      PROVE  Goal
  <2>1. op[1] = "rows" /\ op[2] = P
    BY <1>8
  <2> HIDE DEF op, rest
  <2> QED BY <1>8, <2>1 DEF Matches
<1>9. ASSUME NEW D, Lacking({}, D, d, ro), op = <<"unrow", D>>, rest = <<>>
      PROVE  Goal
  <2>1. op[1] = "unrow" /\ op[2] = D
    BY <1>9
  <2> HIDE DEF op, rest
  <2> QED BY <1>9, <2>1 DEF Matches
<1>10. ASSUME Settled(d, ro), op = <<"walk">>
       PROVE  Goal
  <2>1. op[1] = "walk"
    BY <1>10
  <2> HIDE DEF op, rest
  <2> QED BY <1>10, <2>1 DEF Matches
<1>11. ASSUME Settled(d, ro), rest = <<>>, NEW L, op = <<"heal", L>>
       PROVE  Goal
  <2>1. op[1] = "heal"
    BY <1>11
  <2> HIDE DEF op, rest
  <2> QED BY <1>11, <2>1 DEF Matches
<1> HIDE DEF Goal
<1>12. \/ op = <<"read">> /\ ReadAt(rest, d) /\ ro = RowsOf(d)
       \/ op = <<"write">> /\ At(rest, copy) /\ ro = RowsOf(copy)
       \/ \E m, patch, t : /\ Fits(m, patch, t, d) /\ op = <<"upsert", m, patch>>
                           /\ rest = Writing(t) /\ copy = d /\ ro = RowsOf(d)
       \/ \E u, p, a : \E l \in BOOLEAN :
             /\ p # None /\ Bent(d, u, p, a, l) /\ ro = RowsOf(d)
             /\ op = <<"link", p, {u}, FALSE>> /\ rest = Linking(u, a)
       \/ \E u, p, a : /\ Bent(d, u, p, a, TRUE) /\ op = <<"link", u, {a}, TRUE>>
                       /\ rest = Reading(Answering(u, a)) /\ ro = RowsOf(d)
       \/ /\ Settled(d, ro) /\ copy = d /\ rest = <<>>
          /\ \/ \E m : op = <<"delete", m>>
             \/ \E page : PageOf(page, d) /\ op = <<"merge", page>>
       \/ \E P, D : /\ P # {} /\ Lacking(P, D, d, ro) /\ op = <<"rows", P>>
                    /\ rest = Dropping(D) /\ copy = d
       \/ \E D : Lacking({}, D, d, ro) /\ op = <<"unrow", D>> /\ rest = <<>>
       \/ Settled(d, ro) /\ op = <<"walk">>
       \/ Settled(d, ro) /\ rest = <<>> /\ \E L : op = <<"heal", L>>
  BY PhaseFront, Zenon
<1> HIDE DEF op, rest
<1>13. Goal
  BY <1>1, <1>2, <1>3, <1>4, <1>5, <1>6, <1>7, <1>8, <1>9, <1>10, <1>11, <1>12, Zenon
<1> QED BY <1>13 DEF Goal, op, rest

LEMMA CallsLone ==
    ASSUME TreeInv, LoneInv, NEW w \in Worker, Call(w), UNCHANGED disturbed
    PROVE  LoneInv'
<1>1. CASE disturbed # 0
  BY <1>1 DEF LoneInv
<1>2. CASE disturbed = 0
  <2> DEFINE copy == job[w].copy
             s    == job[w].todo
  <2>0. PICK rank : Ranked(rank) /\ Bounded(rank)
    BY DEF TreeInv
  <2>1. PICK n \in Nat : Ranked(rank) /\ \A m \in spent : rank[m] < n
    BY <2>0 DEF Bounded
  <2>2. /\ s # <<>> /\ Op(w) = Head(s) /\ Rest(w) = Tail(s) /\ UNCHANGED <<tab, asked>>
    BY DEF Call, Read, Write, UpsertRow, Link, DeleteMessage, SaveHistory, BackfillRow,
           DeleteRows, Walk, Heal, Op, Rest
  <2>3. w \in Busy
    BY <2>2 DEF Busy, Idle
  <2>4. Busy = {w} /\ Phase(s, copy, doc, rows) /\ spent # {}
    BY <1>2, <2>3 DEF LoneInv
  <2>5. Matches(Op(w), Rest(w), copy, doc, rows)
    BY <2>2, <2>4, PhaseMatches
  <2>6. ASSUME NEW t, NEW c, Go(w, t, c), Lone(t, c, doc', rows')
        PROVE  LoneInv'
    <3>1. job = [v \in Worker |-> job[v]] /\ disturbed' \in Nat /\ spent' # {}
      BY <2>1, <2>2, <2>4 DEF Ranked, LoneInv, spent
    <3> QED BY <2>4, <2>6, <3>1, LoneStep
  <2>7. /\ rank \in [Message -> Nat] /\ spent \in SUBSET Message /\ Placed(doc, rank, spent)
    BY <2>1 DEF Ranked
  <2>8. ASSUME Rooted(doc), NEW e \in Repaired(doc) PROVE e = doc
    BY <2>8, RootedShown
  <2> HIDE DEF copy, s
  <2>9. CASE Read(w)
    <3>1. ReadAt(Rest(w), doc) /\ rows = RowsOf(doc)
      BY <2>5, <2>9 DEF Matches, Read
    <3>2. PICK e \in Repaired(doc) : doc' = e /\ Go(w, Rest(w), e) /\ UNCHANGED rows
      BY <2>9 DEF Read
    <3>3. e = doc
      BY <2>8, <3>1, ReadAtSeq
    <3>4. Lone(Rest(w), doc, doc, rows)
      BY <3>1, ReadMoves
    <3> QED BY <2>6, <3>2, <3>3, <3>4
  <2>10. CASE Write(w)
    <3>1. At(Rest(w), copy) /\ rows = RowsOf(copy)
      BY <2>5, <2>10 DEF Matches, Write
    <3>2. doc' = copy /\ Go(w, Rest(w), Empty) /\ UNCHANGED rows
      BY <2>10 DEF Write, copy
    <3>3. Lone(Rest(w), Empty, copy, rows)
      BY <3>1, AtMoves
    <3> QED BY <2>6, <3>2, <3>3
  <2>11. CASE UpsertRow(w)
    <3> DEFINE m     == Op(w)[2]
               patch == Op(w)[3]
    <3>1. PICK t : /\ Fits(m, patch, t, doc) /\ Rest(w) = Writing(t)
                   /\ copy = doc /\ rows = RowsOf(doc)
      BY <2>5, <2>11 DEF Matches, UpsertRow
    <3>2. PICK e \in Upserted(copy, m, patch) :
            rows' = With(rows, m, e.msgs[m].parent) /\ Go(w, Rest(w), e) /\ UNCHANGED doc
      BY <2>11 DEF UpsertRow, copy
    <3> HIDE DEF m, patch
    <3>3. Lone(Writing(t), e, doc, With(RowsOf(doc), m, e.msgs[m].parent))
      BY <3>1, <3>2, UpsertMoves
    <3> QED BY <2>6, <3>1, <3>2, <3>3
  <2>12. CASE Link(w)
    <3> DEFINE p    == Op(w)[2]
               kids == Op(w)[3]
               more == Upsert(p, Patch(Same, doc.msgs[p].children \cup kids))
    <3>1. Rooted(doc)
      BY <2>5, <2>12 DEF Matches, Link, Bent
    <3>2. /\ UNCHANGED <<doc, rows>>
          /\ Go(w, (IF p \in Ids(doc) /\ (Op(w)[4] \/ ~(kids \subseteq doc.msgs[p].children))
                    THEN more ELSE <<>>) \o Rest(w), Empty)
      BY <2>8, <2>12, <3>1 DEF Link
    <3> HIDE DEF p, kids
    <3>3. rows = RowsOf(doc)
      BY <2>5, <2>12 DEF Matches, Link
    <3>4. ASSUME NEW u, NEW a, NEW l \in BOOLEAN, p # None, Bent(doc, u, p, a, l),
                 kids = {u}, Op(w)[4] = FALSE, Rest(w) = Linking(u, a)
          PROVE  LoneInv'
      <4>1. /\ p \in Ids(doc)
            /\ kids \subseteq doc.msgs[p].children => Lone(<<>> \o Rest(w), Empty, doc, rows)
            /\ ~(kids \subseteq doc.msgs[p].children) => Lone(more \o Rest(w), Empty, doc, rows)
        BY <3>3, <3>4, LinkMoves
      <4> HIDE DEF more
      <4>2. CASE kids \subseteq doc.msgs[p].children
        <5>1. Go(w, <<>> \o Rest(w), Empty)
          BY <3>2, <3>4, <4>2
        <5> QED BY <2>6, <3>2, <4>1, <4>2, <5>1
      <4>3. CASE ~(kids \subseteq doc.msgs[p].children)
        <5>1. Go(w, more \o Rest(w), Empty)
          BY <3>2, <4>1, <4>3
        <5> QED BY <2>6, <3>2, <4>1, <4>3, <5>1
      <4> QED BY <4>2, <4>3
    <3>5. ASSUME NEW q, NEW a, Bent(doc, p, q, a, TRUE), kids = {a}, Op(w)[4] = TRUE,
                 Rest(w) = Reading(Answering(p, a))
          PROVE  LoneInv'
      <4>1. p \in Ids(doc)
        BY <3>5 DEF Bent
      <4>2. Lone(more \o Rest(w), Empty, doc, rows)
        BY <3>3, <3>5, AnswerMoves
      <4> HIDE DEF more
      <4>3. Go(w, more \o Rest(w), Empty)
        BY <3>2, <3>5, <4>1
      <4> QED BY <2>6, <3>2, <4>2, <4>3
    <3>6. \/ \E u, a : \E l \in BOOLEAN :
                /\ p # None /\ Bent(doc, u, p, a, l)
                /\ kids = {u} /\ Op(w)[4] = FALSE /\ Rest(w) = Linking(u, a)
          \/ \E q, a : /\ Bent(doc, p, q, a, TRUE) /\ kids = {a} /\ Op(w)[4] = TRUE
                       /\ Rest(w) = Reading(Answering(p, a))
      BY <2>5, <2>12 DEF Matches, Link, p, kids
    <3> QED BY <3>4, <3>5, <3>6, Zenon
  <2>13. CASE DeleteMessage(w)
    <3> DEFINE m == Op(w)[2]
    <3>1. Settled(doc, rows) /\ Rest(w) = <<>> /\ copy = doc
      BY <2>5, <2>13 DEF Matches, DeleteMessage
    <3>2. CASE m \notin Ids(copy)
      <4>1. Go(w, <<>>, Empty) /\ UNCHANGED <<doc, rows>>
        BY <2>13, <3>1, <3>2 DEF DeleteMessage, copy
      <4>2. Lone(<<>>, Empty, doc, rows)
        BY <3>1 DEF Lone
      <4> QED BY <2>6, <4>1, <4>2
    <3>3. CASE m \in Ids(copy)
      <4>1. PICK e \in Cut(copy, m) :
              /\ doc' = e /\ UNCHANGED rows
              /\ Go(w, Loop("rows", Ids(e)) \o <<<<"unrow", Deletes(copy, m)>>>> \o Rest(w), e)
        BY <2>13, <3>3 DEF DeleteMessage, copy
      <4> HIDE DEF m
      <4>2. Lone(Loop("rows", Ids(e)) \o <<<<"unrow", Deletes(doc, m)>>>> \o <<>>, e, e, rows)
        BY <2>1, <2>7, <3>1, <3>3, <4>1, DeleteMoves
      <4> QED BY <2>6, <3>1, <4>1, <4>2
    <3> QED BY <3>2, <3>3
  <2>14. CASE SaveHistory(w)
    <3> DEFINE page == Op(w)[2]
    <3>1. Settled(doc, rows) /\ Rest(w) = <<>> /\ copy = doc /\ PageOf(page, doc)
      BY <2>5, <2>14 DEF Matches, SaveHistory
    <3>2. PICK e : /\ e = Merged(copy, page) /\ doc' = e /\ UNCHANGED rows
                   /\ Go(w, Loop("rows", Ids(e)) \o Rest(w), e)
      BY <2>14 DEF SaveHistory, copy
    <3> HIDE DEF page
    <3>3. Lone(Loop("rows", Ids(e)) \o <<>>, e, e, rows)
      BY <3>1, <3>2, SaveMoves
    <3> QED BY <2>6, <3>1, <3>2, <3>3
  <2>15. CASE BackfillRow(w)
    <3> DEFINE P == Op(w)[2]
    <3>1. PICK D : Lacking(P, D, doc, rows) /\ Rest(w) = Dropping(D) /\ copy = doc
      BY <2>5, <2>15 DEF Matches, BackfillRow
    <3>2. PICK m \in P : /\ rows' = With(rows, m, copy.msgs[m].parent) /\ UNCHANGED doc
                         /\ Go(w, Loop("rows", P \ {m}) \o Rest(w), copy)
      BY <2>15 DEF BackfillRow, copy
    <3> HIDE DEF P
    <3>3. Lone(Loop("rows", P \ {m}) \o Dropping(D), doc, doc, With(rows, m, doc.msgs[m].parent))
      BY <3>1, RowMoves
    <3> QED BY <2>6, <3>1, <3>2, <3>3
  <2>16. CASE DeleteRows(w)
    <3>1. Lacking({}, Op(w)[2], doc, rows) /\ Rest(w) = <<>>
      BY <2>5, <2>16 DEF Matches, DeleteRows
    <3>2. rows' = Without(rows, Op(w)[2]) /\ Go(w, <<>>, Empty) /\ UNCHANGED doc
      BY <2>16, <3>1 DEF DeleteRows
    <3>3. Lone(<<>>, Empty, doc, Without(rows, Op(w)[2]))
      BY <3>1, UnrowMoves
    <3> QED BY <2>6, <3>2, <3>3
  <2>17. CASE Walk(w)
    <3> DEFINE t == IF DOMAIN rows = {} THEN <<<<"heal", Message>>>>
                    ELSE Loop("heal", {rows[m] : m \in DOMAIN rows} \ (DOMAIN rows \cup {None}))
    <3>1. Settled(doc, rows)
      BY <2>5, <2>17 DEF Matches, Walk
    <3>2. Go(w, t, Empty) /\ UNCHANGED <<doc, rows>>
      BY <2>17 DEF Walk
    <3>3. Lone(t, Empty, doc, rows)
      BY <3>1, WalkMoves
    <3> HIDE DEF t
    <3> QED BY <2>6, <3>2, <3>3
  <2>18. CASE Heal(w)
    <3> DEFINE L == Op(w)[2]
    <3>1. Settled(doc, rows) /\ Rest(w) = <<>>
      BY <2>5, <2>18 DEF Matches, Heal
    <3>2. Rooted(doc)
      BY <3>1 DEF Settled, Agrees
    <3>3. UNCHANGED <<doc, rows>> /\ Go(w, Loop("rows", L \cap Ids(doc)) \o Rest(w), doc)
      BY <2>8, <2>18, <3>2 DEF Heal
    <3> HIDE DEF L
    <3>4. Lone(Loop("rows", L \cap Ids(doc)) \o <<>>, doc, doc, rows)
      BY <3>1, HealMoves
    <3> QED BY <2>6, <3>1, <3>3, <3>4
  <2> QED BY <2>9, <2>10, <2>11, <2>12, <2>13, <2>14, <2>15, <2>16, <2>17, <2>18 DEF Call
<1> QED BY <1>1, <1>2

-----------------------------------------------------------------------------
(* What a request has to do when it begins *)

LEMMA PairCalls ==
    ASSUME NEW a, NEW b
    PROVE  <<a, b>> = Then(a, Then(b, <<>>)) /\ <<a>> = Then(a, <<>>)
<1>1. \A x : <<x>> \o <<>> = <<x>>
  OBVIOUS
<1>2. <<a>> \o <<b>> = <<a, b>>
  BY PairSeq
<1> QED BY <1>1, <1>2 DEF Then

LEMMA AskFits ==
    ASSUME NEW d, Agrees(d), NEW u, NEW p, NEW a, Asking(d, u, p, a)
    PROVE  At(Turn(d, u, p, a), d)
<1> DEFINE t == Writing(Reading(Questioning(u, p, a, Listed(d, u, a))))
<1>1. Turn(d, u, p, a) = Reading(t)
  BY TurnCalls
<1>2. ReadAt(t, d)
  BY DEF ReadAt
<1> HIDE DEF t
<1> QED BY <1>1, <1>2, Zenon DEF At

LEMMA ReadFits ==
    ASSUME NEW d, Agrees(d)
    PROVE  /\ \A m \in Ids(d) : \A p \in {Same, d.msgs[m].parent} : At(Upsert(m, Patch(p, Same)), d)
           /\ At(<<<<"read">>, <<"write">>>>, d)
           /\ \A m : At(<<<<"read">>, <<"delete", m>>>>, d)
           /\ \A page : PageOf(page, d) => At(<<<<"read">>, <<"merge", page>>>>, d)
           /\ At(<<<<"walk">>>>, d)
<1>1. ASSUME NEW t, ReadAt(t, d) PROVE At(Reading(t), d)
  BY <1>1, Zenon DEF At
<1>2. ASSUME NEW m \in Ids(d), NEW p \in {Same, d.msgs[m].parent}
      PROVE  At(Upsert(m, Patch(p, Same)), d)
  <2> DEFINE patch == Patch(p, Same)
  <2>1. Fits(m, patch, <<>>, d)
    BY DEF Fits
  <2> HIDE DEF patch
  <2>2. ReadAt(Putting(m, patch, <<>>), d)
    BY <2>1, Zenon DEF ReadAt
  <2>3. Upsert(m, patch) = Reading(Putting(m, patch, <<>>))
    BY UpsertSeq
  <2>4. At(Upsert(m, patch), d)
    BY <1>1, <2>2, <2>3
  <2> QED BY <2>4 DEF patch
<1>3. ASSUME NEW op, ReadAt(Then(op, <<>>), d)
      PROVE  At(<<<<"read">>, op>>, d)
  <2>1. <<<<"read">>, op>> = Reading(Then(op, <<>>))
    BY PairCalls, Zenon DEF Reading
  <2> QED BY <1>1, <1>3, <2>1, Zenon
<1>4. ReadAt(Then(<<"write">>, <<>>), d)
  BY Zenon DEF ReadAt, Writing
<1>5. ASSUME NEW m PROVE ReadAt(Then(<<"delete", m>>, <<>>), d)
  BY Zenon DEF ReadAt
<1>6. ASSUME NEW page, PageOf(page, d) PROVE ReadAt(Then(<<"merge", page>>, <<>>), d)
  BY <1>6, Zenon DEF ReadAt
<1>7. At(<<<<"walk">>>>, d)
  <2>1. <<<<"walk">>>> = Then(<<"walk">>, <<>>)
    BY PairCalls, Zenon
  <2> QED BY <2>1, Zenon DEF At
<1>8. At(<<<<"read">>, <<"write">>>>, d)
  BY <1>3, <1>4, Zenon
<1>9. ASSUME NEW m PROVE At(<<<<"read">>, <<"delete", m>>>>, d)
  BY <1>3, <1>5, Zenon
<1>10. ASSUME NEW page, PageOf(page, d) PROVE At(<<<<"read">>, <<"merge", page>>>>, d)
  BY <1>3, <1>6, <1>10, Zenon
<1> QED BY <1>2, <1>7, <1>8, <1>9, <1>10, Zenon

LEMMA PageFits ==
    ASSUME NEW d, Agrees(d)
    PROVE  /\ \A m \in Ids(d) : PageOf([d EXCEPT !.current = m], d)
           /\ \A m \in Message, p \in Ids(d) :
                 PageOf([msgs |-> With(d.msgs, m, [parent |-> p, children |-> {}]),
                         current |-> m], d)
<1>1. ASSUME NEW m \in Ids(d) PROVE PageOf([d EXCEPT !.current = m], d)
  BY DEF PageOf, Agrees, Rooted, Ids
<1>2. ASSUME NEW m \in Message, NEW p \in Ids(d)
      PROVE  PageOf(Put(d, m, p, {}), d)
  BY PutFields DEF PageOf, Agrees
<1> QED BY <1>1, <1>2 DEF Put

LEMMA NewAgrees ==
    ASSUME NEW u \in Message, NEW a \in Message, NEW d,
           d = [msgs    |-> [m \in {u, a} |-> IF m # u THEN [parent |-> u, children |-> {}]
                                              ELSE [parent |-> None, children |-> {a} \ {u}]],
                current |-> a]
    PROVE  Agrees(d) /\ Ids(d) = {u, a}
<1>1. /\ DOMAIN d = {"msgs", "current"} /\ Ids(d) = {u, a} /\ d.current = a
      /\ \A m \in {u, a} : /\ d.msgs[m].parent = (IF m # u THEN u ELSE None)
                           /\ d.msgs[m].children = (IF m # u THEN {} ELSE {a} \ {u})
  BY DEF Ids
<1>2. Rooted(d)
  BY <1>1 DEF Rooted
<1>3. \A m \in Ids(d) : d.msgs[m].children = Kids(d, m)
  BY <1>1, NoMessages DEF Kids, NoMessages
<1> QED BY <1>1, <1>2, <1>3 DEF Agrees

LEMMA BeginLone ==
    ASSUME LoneInv, job = [v \in Worker |-> job[v]], NEW w \in Worker, NEW todo, NEW ids,
           NEW late, Begin(w, todo, ids, late), todo # <<>>,
           ~late /\ Settled(doc, rows) => At(todo, doc)
    PROVE  LoneInv'
<1>1. /\ disturbed' \in Nat /\ spent' # {} /\ UNCHANGED <<doc, rows>>
      /\ job' = [job EXCEPT ![w] = [todo |-> todo, copy |-> Empty]]
      /\ disturbed' = 0 => disturbed = 0 /\ Busy = {} /\ ~late
  BY DEF Begin, LoneInv, spent
<1>2. CASE disturbed' = 0
  <2>1. Busy = {} /\ Settled(doc, rows) /\ ~late
    BY <1>1, <1>2 DEF LoneInv
  <2>2. \A v \in Worker : v # w => job[v] = Idle
    BY <2>1 DEF Busy
  <2>3. /\ job'[w].todo = todo /\ Idle.todo = <<>>
        /\ \A v \in Worker : v # w => job'[v] = Idle
    BY <1>1, <2>2 DEF Idle
  <2>4. Busy' = {w}
    BY <2>3 DEF Busy
  <2>5. Phase(todo, job'[w].copy, doc, rows)
    BY <2>1 DEF Phase, Settled
  <2> QED BY <1>1, <2>3, <2>4, <2>5 DEF LoneInv
<1>3. CASE disturbed' # 0
  BY <1>1, <1>3 DEF LoneInv
<1> QED BY <1>2, <1>3

LEMMA RequestsLone ==
    ASSUME TreeInv, LoneInv, NEW w \in Worker, Request(w)
    PROVE  LoneInv'
<1>1. PICK rank : Ranked(rank)
  BY DEF TreeInv
<1>2. /\ job = [v \in Worker |-> job[v]] /\ Ids(doc) \subseteq spent /\ spent \subseteq Message
      /\ DOMAIN rows \subseteq spent
  BY <1>1 DEF Ranked, Placed
<1>3. Settled(doc, rows) => Agrees(doc)
  BY DEF Settled
<1>4. ASSUME NEW todo, NEW ids, NEW late, Begin(w, todo, ids, late), todo # <<>>,
             ~late /\ Agrees(doc) => At(todo, doc)
      PROVE  LoneInv'
  BY <1>2, <1>3, <1>4, BeginLone
<1>5. \A x, y : <<x, y>> # <<>> /\ <<x>> # <<>>
  OBVIOUS
<1>6. ASSUME NEW u \in Message, NEW a \in Message, NewChat(w, u, a)
      PROVE  LoneInv'
  <2>1. /\ spent = {} /\ asked' = [m \in {u, a} |-> IF m # u THEN u ELSE None]
        /\ Go(w, Loop("rows", {u, a}), doc') /\ UNCHANGED <<rows, disturbed>>
    BY <1>6 DEF NewChat
  <2>2. CASE disturbed # 0
    BY <2>1, <2>2 DEF LoneInv
  <2>3. CASE disturbed = 0
    <3>1. Busy = {} /\ Settled(doc, rows)
      BY <2>1, <2>3 DEF LoneInv
    <3>2. Agrees(doc') /\ Ids(doc') = {u, a}
      <4>1. PICK d : /\ d = doc'
                     /\ d = [msgs    |-> [m \in {u, a} |->
                                IF m # u THEN [parent |-> u, children |-> {}]
                                ELSE [parent |-> None, children |-> {a} \ {u}]],
                             current |-> a]
        BY <1>6 DEF NewChat
      <4> QED BY <4>1, NewAgrees
    <3>3. DOMAIN rows = {} /\ rows = [m \in DOMAIN rows |-> rows[m]]
      BY <1>2, <2>1, <3>1 DEF Settled, RowsOf
    <3>4. Lacking({u, a}, {}, doc', rows')
      BY <2>1, <3>2, <3>3 DEF Lacking
    <3>5. Lone(Loop("rows", {u, a}), doc', doc', rows')
      <4> DEFINE l == Loop("rows", {u, a})
      <4>1. l \o <<>> = Backfill({u, a}, Dropping({}))
        BY NoneSeq, LoopFills DEF Dropping
      <4>2. IsSeq(l)
        <5>1. \A y : <<y>> \in Seq({y})
          OBVIOUS
        <5> QED BY <5>1, NoneSeq DEF IsSeq, Loop
      <4> HIDE DEF l
      <4>3. l = Backfill({u, a}, Dropping({}))
        BY <4>1, <4>2, Joins
      <4>4. Lone(l, doc', doc', rows')
        BY <3>4, <4>3, FillMoves
      <4> QED BY <4>4 DEF l
    <3>6. spent' # {} /\ disturbed' \in Nat
      BY <2>1, <2>3 DEF spent
    <3> QED BY <1>2, <2>1, <3>1, <3>5, <3>6, LoneStep
  <2> QED BY <2>2, <2>3
<1>7. ASSUME NEW u \in Message, NEW a \in Message, NEW page \in {doc, tab}, Ask(w, page, u, a)
      PROVE  LoneInv'
  <2>1. ASSUME NEW p, NEW ids, Begin(w, Turn(page, u, p, a), ids, page # doc),
               page = doc => Asking(doc, u, p, a)
        PROVE  LoneInv'
    <3>1. Turn(page, u, p, a) # <<>>
      <4>1. Turn(page, u, p, a) = Reading(Writing(Reading(Questioning(u, p, a, Listed(page, u, a)))))
        BY TurnCalls
      <4>2. IsSeq(Writing(Reading(Questioning(u, p, a, Listed(page, u, a)))))
        BY TurnSeq, PuttingSeq, ThenSeq DEF Writing
      <4> QED BY <4>1, <4>2, ThenSeq DEF Reading
    <3>2. page = doc /\ Agrees(doc) => At(Turn(page, u, p, a), doc)
      BY <2>1, AskFits
    <3> QED BY <1>4, <2>1, <3>1, <3>2
  <2>2. CASE u \in Ids(page)
    <3>1. Begin(w, Turn(page, u, page.msgs[u].parent, a), [m \in {a} |-> u], page # doc)
      BY <1>7, <2>2 DEF Ask
    <3>2. a \notin spent /\ u # a
      BY <1>7, <3>1 DEF Begin, Ask
    <3>3. page = doc => Asking(doc, u, page.msgs[u].parent, a)
      BY <1>2, <2>2, <3>2 DEF Asking
    <3> QED BY <2>1, <3>1, <3>3
  <2>3. CASE u \notin Ids(page)
    <3>1. PICK p \in Ids(page) \cup {None} :
            Begin(w, Turn(page, u, p, a), [m \in {u, a} |-> IF m = a THEN u ELSE None], page # doc)
      BY <1>7, <2>3 DEF Ask
    <3>2. a \notin spent /\ u # a
      BY <1>7, <3>1 DEF Begin, Ask
    <3>3. page = doc => Asking(doc, u, p, a)
      BY <1>2, <2>3, <3>1, <3>2 DEF Asking
    <3> QED BY <2>1, <3>1, <3>3
  <2> QED BY <2>2, <2>3
<1>8. ASSUME NEW m \in spent, NEW p, Change(w, m, p)
      PROVE  LoneInv'
  <2> DEFINE late == m \notin Ids(doc) \/ p \notin {Same, doc.msgs[m].parent}
  <2>1. Begin(w, Upsert(m, Patch(p, Same)), Nothing, late)
    BY <1>8 DEF Change
  <2>2. Upsert(m, Patch(p, Same)) # <<>>
    BY DEF Upsert
  <2>3. ~late /\ Agrees(doc) => At(Upsert(m, Patch(p, Same)), doc)
    BY ReadFits
  <2> HIDE DEF late
  <2> QED BY <1>4, <2>1, <2>2, <2>3
<1>9. CASE Retitle(w)
  BY <1>4, <1>5, <1>9, ReadFits DEF Retitle
<1>10. ASSUME NEW m, Delete(w, m)
       PROVE  LoneInv'
  BY <1>4, <1>5, <1>10, ReadFits DEF Delete
<1>11. ASSUME NEW page \in {doc, tab}, Save(w, page)
       PROVE  LoneInv'
  <2>1. ASSUME NEW e, NEW ids, Begin(w, <<<<"read">>, <<"merge", e>>>>, ids, page # doc),
               page = doc /\ Agrees(doc) => PageOf(e, doc)
        PROVE  LoneInv'
    BY <1>4, <1>5, <2>1, ReadFits
  <2>2. CASE \E m \in Ids(page) :
                Begin(w, <<<<"read">>, <<"merge", [page EXCEPT !.current = m]>>>>, Nothing, page # doc)
    BY <2>1, <2>2, PageFits
  <2>3. CASE \E m \in Message, p \in Ids(page) :
                Begin(w, <<<<"read">>,
                           <<"merge", [msgs |-> With(page.msgs, m, [parent |-> p, children |-> {}]),
                                       current |-> m]>>>>, [x \in {m} |-> None], page # doc)
    BY <2>1, <2>3, PageFits
  <2> QED BY <1>11, <2>2, <2>3 DEF Save
<1>12. CASE Compile(w)
  BY <1>4, <1>5, <1>12, ReadFits DEF Compile
<1> QED BY <1>6, <1>7, <1>8, <1>9, <1>10, <1>11, <1>12 DEF Request

WholeInv == TreeInv /\ LoneInv

LEMMA InitLone == Init => LoneInv
<1> SUFFICES ASSUME Init PROVE LoneInv
  OBVIOUS
<1>1. Busy = {} /\ disturbed = 0
  BY DEF Init, Busy
<1>2. Ids(doc) = {} /\ DOMAIN doc = {"msgs", "current"}
  BY DEF Init, Empty, Nothing, Ids
<1>3. Agrees(doc) /\ rows = RowsOf(doc)
  BY <1>2 DEF Init, Nothing, Agrees, Rooted, RowsOf
<1> QED BY <1>1, <1>3 DEF LoneInv, Settled

LEMMA NextLone == WholeInv /\ [Next]_vars => LoneInv'
<1> SUFFICES ASSUME WholeInv, [Next]_vars PROVE LoneInv'
  OBVIOUS
<1>1. TreeInv /\ LoneInv
  BY DEF WholeInv
<1>2. CASE UNCHANGED vars \/ Load
  <2>1. UNCHANGED <<doc, rows, job, asked, disturbed>>
    BY <1>2 DEF vars, Load
  <2> QED BY <1>1, <2>1 DEF LoneInv, Busy, spent
<1>3. CASE Crash
  BY <1>1, <1>3 DEF Crash, LoneInv
<1>4. CASE \E w \in Worker : Request(w) \/ (Call(w) /\ UNCHANGED disturbed)
  BY <1>1, <1>4, RequestsLone, CallsLone
<1> QED BY <1>2, <1>3, <1>4 DEF Next

LEMMA TreeTyped == TreeInv => TypeOK
<1> SUFFICES ASSUME TreeInv PROVE TypeOK
  OBVIOUS
<1>1. PICK rank : Ranked(rank)
  BY DEF TreeInv
<1>2. \A d \in {doc, tab} \cup {job[w].copy : w \in Worker} : Placed(d, rank, spent)
  BY <1>1 DEF Ranked, Leading
<1>3. \A m \in DOMAIN rows : rows[m] \in spent \cup {None}
  BY <1>1 DEF Ranked, IsParent
<1>4. DOMAIN rows \subseteq spent
  BY <1>1 DEF Ranked
<1>5. ASSUME NEW d, Placed(d, rank, spent)
      PROVE  /\ Ids(d) \subseteq spent /\ d.current \in Ids(d) \cup {None}
             /\ \A m \in Ids(d) : /\ d.msgs[m].parent \in spent \cup {None}
                                  /\ d.msgs[m].children \subseteq spent
  BY <1>5 DEF Placed, IsParent, AreChildren
<1> QED BY <1>2, <1>3, <1>4, <1>5 DEF TypeOK

LEMMA LoneWhole == WholeInv => HistoryWhole
<1> SUFFICES ASSUME WholeInv PROVE HistoryWhole
  OBVIOUS
<1>1. TypeOK
  BY TreeTyped DEF WholeInv
<1>2. ASSUME Busy = {}, disturbed = 0
      PROVE  Settled(doc, rows)
  BY <1>2 DEF WholeInv, LoneInv
<1>3. Settled(doc, rows) =>
         /\ \A m \in Ids(doc) : doc.msgs[m].parent \in Ids(doc) \cup {None}
         /\ \A m \in Ids(doc) : doc.msgs[m].children = {c \in Ids(doc) : doc.msgs[c].parent = m}
         /\ Ids(doc) # {} => doc.current \in Ids(doc)
         /\ rows = [m \in Ids(doc) |-> doc.msgs[m].parent]
  BY DEF Settled, Agrees, Rooted, Kids, RowsOf
<1> QED BY <1>1, <1>2, <1>3 DEF HistoryWhole

\* For any messages and workers, as long as requests are alone and save fresh
\* pages: whenever none is in progress, parents and children agree, no
\* reference dangles, the shown message exists, and the rows hold exactly the
\* messages of the document.
THEOREM HistoryStaysWhole == Spec => []HistoryWhole
<1>1. Init => WholeInv
  BY InitTree, InitLone DEF WholeInv
<1>2. WholeInv /\ [Next]_vars => WholeInv'
  BY NextTree, NextLone DEF WholeInv
<1> QED BY <1>1, <1>2, LoneWhole, PTL DEF Spec

=============================================================================
