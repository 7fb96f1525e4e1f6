------------------------ MODULE SpaceRequests_proofs ------------------------
(***************************************************************************)
(* What survives when requests overlap and stop anywhere, for any number   *)
(* of accounts, spaces, datasets, assistants and requests in progress.     *)
(*                                                                         *)
(* The rows may contradict one another, and a request writes back what it  *)
(* read long ago.  The invariant therefore says nothing about agreement    *)
(* between rows: it says that there is a world, which only grows, of what  *)
(* has been decided for good (who created which space, where each dataset  *)
(* was created, who accepted an invitation to which space, which ids are   *)
(* in use), and that neither the rows nor the copies a request holds ever  *)
(* go beyond it.                                                           *)
(*                                                                         *)
(* A request is a list of calls of any length.  Move says for each call    *)
(* what the request must know to make it and what it knows after it, and   *)
(* Runs that the calls of a list can be made one after the other.  There   *)
(* is one lemma for each call (the ...Step lemmas) and one for each kind   *)
(* of request as it begins (Founded).                                      *)
(***************************************************************************)
EXTENDS SpaceRequests, SequenceTheorems, TLAPS

-----------------------------------------------------------------------------
(* What is left to do, as a first call and the calls after it *)

IsSeq(s) == \E S : s \in Seq(S)

Then(op, s) == <<op>> \o s

\* Does a search come, now or later?
Searches(s) == \E i \in 1..Len(s) : s[i][1] = "search"

\* The empty list of calls.
LEMMA NoCalls ==
    /\ IsSeq(<<>>)
    /\ ~Searches(<<>>)
    /\ \A s : IsSeq(s) => <<>> \o s = s /\ s \o <<>> = s
    /\ \A op : Then(op, <<>>) = <<op>>
<1>1. <<>> \in Seq({})
  BY EmptySeq
<1>2. IsSeq(<<>>) /\ ~Searches(<<>>)
  BY <1>1, EmptySeq DEF IsSeq, Searches
<1>3. ASSUME NEW s, IsSeq(s)  PROVE <<>> \o s = s /\ s \o <<>> = s
  <2>1. PICK S : s \in Seq(S)
    BY <1>3 DEF IsSeq
  <2> QED
    BY <2>1, ConcatEmptySeq
<1>4. ASSUME NEW op  PROVE Then(op, <<>>) = <<op>>
  <2>1. <<op>> \in Seq({op})
    OBVIOUS
  <2> QED
    BY <2>1, ConcatEmptySeq DEF Then
<1> QED
  BY <1>2, <1>3, <1>4

\* A first call and the calls after it.
LEMMA FirstCall ==
    ASSUME NEW op, NEW s, IsSeq(s)
    PROVE  /\ IsSeq(Then(op, s))
           /\ Then(op, s) # <<>>
           /\ Head(Then(op, s)) = op
           /\ Tail(Then(op, s)) = s
           /\ Searches(Then(op, s)) <=> op[1] = "search" \/ Searches(s)
<1>1. PICK S : s \in Seq(S)
  BY DEF IsSeq
<1> DEFINE T == S \cup {op}
           t == <<op>> \o s
<1>2. s \in Seq(T) /\ <<op>> \in Seq(T)
  BY <1>1, SeqMonotonic
<1>3. t \in Seq(T) /\ Len(t) = 1 + Len(s) /\ Len(s) \in Nat
  BY <1>2, ConcatProperties, LenProperties
<1>4. t[1] = op /\ \A i \in 1..Len(s) : t[i + 1] = s[i]
  <2>1. \A i \in 1..(1 + Len(s)) : t[i] = IF i <= 1 THEN <<op>>[i] ELSE s[i - 1]
    BY <1>2, ConcatProperties
  <2>2. ASSUME NEW i \in 1..Len(s)  PROVE t[i + 1] = s[i]
    <3>1. i + 1 \in 1..(1 + Len(s)) /\ ~(i + 1 <= 1) /\ i + 1 - 1 = i
      BY <1>3
    <3> HIDE DEF t
    <3> QED
      BY <2>1, <3>1
  <2> QED
    BY <2>1, <2>2, <1>3
<1>5. IsSeq(t)
  BY <1>3 DEF IsSeq
<1>6. t # <<>> /\ Head(t) = op
  BY <1>3, <1>4
<1>7. Tail(t) = s
  <2>1. Tail(t) \in Seq(T) /\ Len(Tail(t)) = Len(s)
    BY <1>3, <1>6
  <2>2. \A i \in 1..Len(Tail(t)) : Tail(t)[i] = s[i]
    BY <1>3, <1>4, <1>6, <2>1
  <2> QED
    BY <2>1, <2>2, <1>2, SeqEqual
<1>8. Searches(t) <=> op[1] = "search" \/ Searches(s)
  <2>1. ASSUME Searches(t)  PROVE op[1] = "search" \/ Searches(s)
    <3>1. PICK i \in 1..Len(t) : t[i][1] = "search"
      BY <2>1 DEF Searches
    <3>2. CASE i = 1
      BY <3>1, <3>2, <1>4
    <3>3. CASE i # 1
      <4>1. i - 1 \in 1..Len(s) /\ (i - 1) + 1 = i
        BY <3>1, <3>3, <1>3
      <4>2. t[i] = s[i - 1]
        <5> HIDE DEF t
        <5> QED
          BY <4>1, <1>4
      <4> QED
        BY <3>1, <4>1, <4>2 DEF Searches
    <3> QED
      BY <3>2, <3>3
  <2>2. ASSUME op[1] = "search"  PROVE Searches(t)
    BY <2>2, <1>3, <1>4 DEF Searches
  <2>3. ASSUME Searches(s)  PROVE Searches(t)
    <3>1. PICK i \in 1..Len(s) : s[i][1] = "search"
      BY <2>3 DEF Searches
    <3>2. i + 1 \in 1..Len(t) /\ t[i + 1] = s[i]
      BY <1>3, <1>4
    <3> QED
      BY <3>1, <3>2 DEF Searches
  <2> QED
    BY <2>1, <2>2, <2>3
<1> QED
  BY <1>5, <1>6, <1>7, <1>8 DEF Then

\* Calls put before others are made first.
LEMMA CallsBefore ==
    ASSUME NEW op, NEW p, NEW s, IsSeq(p), IsSeq(s)
    PROVE  /\ Then(op, p) \o s = Then(op, p \o s)
           /\ IsSeq(p \o s)
<1>1. PICK S : p \in Seq(S)
  BY DEF IsSeq
<1>2. PICK T : s \in Seq(T)
  BY DEF IsSeq
<1> DEFINE U == S \cup T \cup {op}
<1>3. p \in Seq(U) /\ s \in Seq(U) /\ <<op>> \in Seq(U)
  BY <1>1, <1>2, SeqMonotonic
<1> QED
  BY <1>3, ConcatAssociative, ConcatProperties DEF Then, IsSeq

\* The calls left, if any, are a first one and the rest.
LEMMA CallsLeft ==
    ASSUME NEW s, IsSeq(s), s # <<>>
    PROVE  /\ IsSeq(Tail(s))
           /\ s = Then(Head(s), Tail(s))
<1>1. PICK S : s \in Seq(S)
  BY DEF IsSeq
<1>2. Tail(s) \in Seq(S) /\ Head(s) \in S /\ Len(Tail(s)) = Len(s) - 1 /\ Len(s) \in Nat \ {0}
  BY <1>1
<1>3. <<Head(s)>> \in Seq(S)
  BY <1>2
<1> DEFINE t == <<Head(s)>> \o Tail(s)
<1>4. t \in Seq(S) /\ Len(t) = Len(s)
  BY <1>2, <1>3, ConcatProperties
<1>5. \A i \in 1..Len(t) : t[i] = s[i]
  BY <1>1, <1>2, <1>3, <1>4, ConcatProperties
<1>6. t = s
  BY <1>1, <1>4, <1>5, SeqEqual
<1> QED
  BY <1>2, <1>6 DEF Then, IsSeq

-----------------------------------------------------------------------------
(* The world: what has been decided for good.  Nothing is ever taken back   *)
(* from it, so that what a request once read keeps its meaning:             *)
(*   own     space and the user who created it                              *)
(*   data    dataset and the space it was created in                        *)
(*   adm     space and a user who accepted an invitation to it              *)
(*   ids     the ids handed out                                             *)

\* The space belongs to somebody else.
Foreign(e, s, v) == \E u \in User \ {v} : <<s, u>> \in e.own

IsWorld(e) ==
    /\ \A s, u : <<s, u>> \in e.own => s \in e.ids \cap Space /\ u \in User
    /\ \A s, u, v : <<s, u>> \in e.own /\ <<s, v>> \in e.own => u = v
    /\ \A d, s : <<d, s>> \in e.data => d \in e.ids
    /\ \A d, s, t : <<d, s>> \in e.data /\ <<d, t>> \in e.data => s = t
    /\ \A s, v : <<s, v>> \in e.adm => v \in User /\ Foreign(e, s, v)

Grows(e, k) ==
    e.own \subseteq k.own /\ e.data \subseteq k.data /\ e.adm \subseteq k.adm
    /\ e.ids \subseteq k.ids

\* v created s or was admitted to it.
Sees(e, v, s) == <<s, v>> \in e.own \/ <<s, v>> \in e.adm

IsSpace(e, s, r) ==
    /\ r \in [owner : User, members : SUBSET User, datasets : SUBSET Dataset]
    /\ <<s, r.owner>> \in e.own
    /\ r.owner \in r.members
    /\ \A v \in r.members : v = r.owner \/ <<s, v>> \in e.adm
    /\ \A d \in r.datasets : <<d, s>> \in e.data

\* Every dataset comes from a space that v sees.
FromSeen(e, v, ds) == \A d \in ds : \E s : <<d, s>> \in e.data /\ Sees(e, v, s)

\* Every dataset comes from one of the spaces in r.
FromReach(e, r, ds) == \A d \in ds : \E s \in r : <<d, s>> \in e.data

IsAgent(e, o, r) ==
    /\ r \in [owner : User, spaces : SUBSET Space, datasets : SUBSET Dataset,
              chat : BOOLEAN]
    /\ r.owner = o
    /\ FromSeen(e, o, r.datasets)

IsAgents(e, o, f) == \A a \in DOMAIN f : a \in e.ids \cap Agent /\ IsAgent(e, o, f[a])
IsSpaces(e, f)    == \A s \in DOMAIN f : IsSpace(e, s, f[s])
IsPointers(v, ps) == \A p \in ps : p.owner \in User \ {v}

Status == {"none", "pending", "accepted", "declined"}
IsInvites(e, v, f) ==
    /\ f \in [Space -> Status]
    /\ \A s \in Space : f[s] = "pending" => Foreign(e, s, v)

\* The rows as they are.
SpaceRows(e) ==
    /\ spaceRow = [u \in User |-> spaceRow[u]]
    /\ \A u \in User : /\ IsSpaces(e, spaceRow[u])
                       /\ \A s \in DOMAIN spaceRow[u] : spaceRow[u][s].owner = u
PointerRows ==
    /\ pointerRow = [u \in User |-> pointerRow[u]]
    /\ \A u \in User : IsPointers(u, pointerRow[u])
InviteRows(e) ==
    /\ inviteRow = [u \in User |-> inviteRow[u]]
    /\ \A u \in User : IsInvites(e, u, inviteRow[u])
AgentRows(e) ==
    /\ agentRow = [u \in User |-> agentRow[u]]
    /\ \A u \in User : IsAgents(e, u, agentRow[u])
Rows(e) == SpaceRows(e) /\ PointerRows /\ InviteRows(e) /\ AgentRows(e)

\* What the history says agrees with the world.
Matches(e) ==
    /\ e.ids = spent
    /\ admitted = [u \in User |-> admitted[u]]
    /\ \A s, v : <<s, v>> \in e.adm => s \in admitted[v]

-----------------------------------------------------------------------------
(* What a request knows before each call: a set of facts, tuples whose      *)
(* first component names the field of the job they are about.               *)

\* The spaces that w's completion may have searched in; all of them while it
\* works on no completion.
Reachable(w) == {s \in Space : Asking(w) => s \in reach[w]}

\* What fact f says of job j, when its completion has reached the spaces in r.
Fact(e, j, r, f) ==
    /\ f[1] = "sees"  => /\ f[2] \in User
                         /\ \A s \in DOMAIN j.seen : /\ Sees(e, f[2], s)
                                                     /\ f[2] = j.who => s \in r
    /\ f[1] = "ptr"   => IsPointers(f[2], j.ptr)
    /\ f[1] = "space" => IsSpace(e, f[2], j.space)
    /\ f[1] = "row"   => /\ IsSpaces(e, j.row)
                         /\ \A s \in DOMAIN j.row : j.row[s].owner = j.space.owner
    /\ f[1] = "mine"  => IsAgents(e, f[2], j.mine)
    /\ f[1] = "has"   => f[2] \in DOMAIN j.mine
    /\ f[1] = "kept"  => IsAgents(e, f[2], j.kept)
    /\ f[1] = "agent" => IsAgent(e, f[2], j.agent)
    /\ f[1] = "close" => f[2] = j.who \/ j.agent.spaces \subseteq r
    /\ f[1] = "drawn" => FromReach(e, r, j.agent.datasets)
    /\ f[1] = "inv"   => IsInvites(e, f[2], j.inv)
    /\ f[1] = "found" => /\ j.found.owner \in User
                         /\ FromSeen(e, j.found.owner, j.found.datasets)
                         /\ j.found.synced => FromReach(e, r, j.found.datasets)
    /\ f[1] = "owned" => <<f[2], f[3]>> \in e.own
    /\ f[1] = "adm"   => <<f[2], f[3]>> \in e.adm
    /\ f[1] = "data"  => <<f[2], f[3]>> \in e.data
    /\ f[1] = "id"    => f[2] \in e.ids \cap Agent
    /\ f[1] = "rec"   => f[2].owner \in User /\ IsAgent(e, f[2].owner, f[2].rec)

Holds(e, j, r, F) == \A f \in F : Fact(e, j, r, f)

\* The fields that fact f is about have not changed.
Same(j, k, f) ==
    /\ f[1] = "sees"  => k.seen = j.seen
    /\ f[1] = "ptr"   => k.ptr = j.ptr
    /\ f[1] = "space" => k.space = j.space
    /\ f[1] = "row"   => k.row = j.row /\ k.space = j.space
    /\ f[1] \in {"mine", "has"} => k.mine = j.mine
    /\ f[1] = "kept"  => k.kept = j.kept
    /\ f[1] \in {"agent", "close", "drawn"} => k.agent = j.agent
    /\ f[1] = "inv"   => k.inv = j.inv
    /\ f[1] = "found" => k.found = j.found

But(F, kinds)  == {f \in F : f[1] \notin kinds}
Only(F, kinds) == {f \in F : f[1] \in kinds}

-----------------------------------------------------------------------------
(* What each call of a request of u needs to know, and what is known after  *)
(* it and all that it puts before the calls that follow.                    *)

ListMove(u, op, F, G) ==
    /\ op[1] = "own" =>
          op[2] \in User /\ G \subseteq But(F, {"sees"}) \cup {<<"sees", op[2]>>}
    /\ op[1] = "ptr" =>
          /\ <<"sees", op[2]>> \in F /\ op[2] \in User
          /\ G \subseteq But(F, {"sees", "ptr"}) \cup {<<"sees", op[2]>>, <<"ptr", op[2]>>}
    /\ op[1] = "others" =>
          /\ {<<"sees", op[2]>>, <<"ptr", op[2]>>} \subseteq F
          /\ op[2] \in User /\ op[3] \subseteq User
          /\ G \subseteq But(F, {"sees"}) \cup {<<"sees", op[2]>>}
    /\ op[1] = "back" => op[2] \in User /\ G \subseteq F

SpaceMove(u, op, F, G) ==
    /\ op[1] = "create" => <<"owned", op[2], u>> \in F /\ G \subseteq F
    /\ op[1] = "load" =>
          /\ op[3][1] \in {"same", "admit", "remove", "add", "drop"}
          /\ op[3][1] = "admit" => <<"adm", op[2], op[3][2]>> \in F /\ op[3][2] \in User
          /\ op[3][1] = "remove" => \E y \in User \ {op[3][2]} : <<"owned", op[2], y>> \in F
          /\ op[3][1] = "add" => <<"data", op[3][2], op[2]>> \in F /\ op[3][2] \in Dataset
          /\ G \subseteq Only(F, {"inv"}) \cup {<<"space", op[2]>>, <<"row">>}
    /\ op[1] = "store" => {<<"space", op[2]>>, <<"row">>} \subseteq F
                          /\ G \subseteq Only(F, {"inv"})
    /\ op[1] = "fetch" =>
          /\ op[4] \in User
          /\ op[3] \in {"admit", "remove"}
          /\ op[3] = "admit" => <<"adm", op[2], op[4]>> \in F
          /\ op[3] = "remove" => \E y \in User \ {op[4]} : <<"owned", op[2], y>> \in F
          /\ G \subseteq IF op[3] = "admit" THEN Only(F, {"inv"}) ELSE {}
    /\ op[1] = "require" =>
          G \subseteq But(F, {"space", "row"})
                         \cup {<<"space", op[2]>>, <<"owned", op[2], u>>}
    /\ op[1] = "dropspace" => <<"space", op[2]>> \in F /\ G = {}

MemberMove(u, op, F, G) ==
    /\ op[1] = "mread" =>
          op[2] \in User /\ G \subseteq But(F, {"ptr"}) \cup {<<"ptr", op[2]>>}
    /\ op[1] = "mwrite" =>
          /\ <<"ptr", op[2]>> \in F
          /\ op[4] \in BOOLEAN
          /\ op[4] => op[3].owner \in User \ {op[2]}
          /\ G \subseteq But(F, {"ptr"})
    /\ op[1] = "leave" => op[3] \subseteq User /\ G \subseteq But(F, {"ptr"})
    /\ op[1] = "answer" =>
          /\ op[2] \in Space /\ op[3] \in BOOLEAN
          /\ G \subseteq {<<"inv", u>>} \cup IF op[3] THEN {<<"adm", op[2], u>>} ELSE {}
    /\ op[1] = "invite" =>
          op[3] \subseteq User /\ <<"space", op[2]>> \in F /\ G \subseteq But(F, {"inv"})
    /\ op[1] = "iwrite" =>
          /\ <<"inv", op[2]>> \in F
          /\ op[4] \in Status
          /\ op[4] = "pending" => \E y \in User \ {op[2]} : <<"owned", op[3], y>> \in F
          /\ G \subseteq But(F, {"inv"})

AgentMove(u, op, F, G) ==
    /\ op[1] = "aread" =>
          op[2] \in User /\ G \subseteq But(F, {"mine", "has"}) \cup {<<"mine", op[2]>>}
    /\ op[1] \in {"sync", "again"} =>
          /\ op[4] \in {"plain", "remove", "complete"}
          /\ {<<"mine", op[2]>>, <<"agent", op[2]>>} \subseteq F
          /\ op[2] \in User
          /\ op[4] = "remove" => <<"kept", op[2]>> \in F
          /\ op[1] = "sync" => <<"sees", op[2]>> \in F
          /\ op[1] = "sync" /\ op[4] = "complete" => <<"close", op[2]>> \in F
          /\ op[1] = "again" /\ op[4] = "complete" => <<"drawn">> \in F
          /\ G \subseteq Only(F, {"kept", "rec"})
                         \cup IF op[4] = "complete" THEN {<<"found">>} ELSE {}
    /\ op[1] = "find" => op[3] \in {"each", "detach"} /\ G = {}
    /\ op[1] \in {"each", "detach"} =>
          (\A x \in op[3] : <<"rec", x>> \in F) /\ G = {}
    /\ op[1] = "strip" =>
          {<<"mine", op[2]>>, <<"has", op[3]>>} \subseteq F /\ op[2] \in User
          /\ G \subseteq Only(F, {"rec"})
    /\ op[1] = "keep" =>
          op[2] \in User /\ G \subseteq But(F, {"kept"}) \cup {<<"kept", op[2]>>}
    /\ op[1] = "trim" => op[2] \in User /\ <<"kept", op[2]>> \in F /\ G = {}
    /\ op[1] = "copy" =>
          /\ op[3] \subseteq Space
          /\ G \subseteq But(F, {"agent", "close", "drawn"}) \cup {<<"agent", u>>}
    /\ op[1] = "check" =>
          G \subseteq But(F, {"sees", "mine", "has"}) \cup {<<"mine", u>>}
    /\ op[1] = "put" =>
          /\ {<<"agent", u>>, <<"mine", u>>} \subseteq F
          /\ op[3] \in BOOLEAN
          /\ op[3] => <<"id", op[2]>> \in F
          /\ G \subseteq But(F, {"mine", "has"})
    /\ op[1] = "dropagent" => <<"mine", u>> \in F /\ G = {}
    /\ op[1] = "pick" => <<"sees", u>> \in F /\ G \subseteq {<<"found">>}
    /\ op[1] = "search" => <<"found">> \in F /\ G = {}

Move(u, op, F, G) ==
    /\ ListMove(u, op, F, G) /\ SpaceMove(u, op, F, G)
    /\ MemberMove(u, op, F, G) /\ AgentMove(u, op, F, G)

\* The calls in s can be made one after the other by whoever knows F: X holds
\* what is known before each of them and those after it.
Runs(u, s, F) ==
    \E X : /\ <<s, F>> \in X
           /\ \A t, H : <<t, H>> \in X =>
                 \/ t = <<>>
                 \/ \E G : Move(u, Head(t), H, G) /\ <<Tail(t), G>> \in X

\* The job of a request in progress.
Fields == DOMAIN Idle
IsJob(j) == j = [x \in Fields |-> j[x]]

Sound(e, r, j) ==
    /\ IsJob(j)
    /\ j.who \in User
    /\ IsSeq(j.todo)
    /\ IsSpaces(e, j.seen)
    /\ \E F : Holds(e, j, r, F) /\ Runs(j.who, j.todo, F)

-----------------------------------------------------------------------------
(* The calls left *)

\* Whoever knows more can make a call as well.
LEMMA MoveMore ==
    ASSUME NEW u, NEW op, NEW F, NEW G, NEW H, Move(u, op, F, G), F \subseteq H
    PROVE  Move(u, op, H, G)
<1>1. /\ \A K : But(F, K) \subseteq But(H, K)
      /\ \A K : Only(F, K) \subseteq Only(H, K)
  BY DEF But, Only
<1>2. ListMove(u, op, H, G)
  BY <1>1 DEF Move, ListMove
<1>3. SpaceMove(u, op, H, G)
  BY <1>1 DEF Move, SpaceMove
<1>4. MemberMove(u, op, H, G)
  BY <1>1 DEF Move, MemberMove
<1>5. AgentMove(u, op, H, G)
  BY <1>1 DEF Move, AgentMove
<1> QED
  BY <1>2, <1>3, <1>4, <1>5 DEF Move

\* Nothing is left to do.
LEMMA RunsNone == ASSUME NEW u, NEW F  PROVE Runs(u, <<>>, F)
<1> DEFINE X == {<<<<>>, F>>}
<1>1. \A t, H : <<t, H>> \in X => t = <<>>
  OBVIOUS
<1>2. <<<<>>, F>> \in X
  OBVIOUS
<1> HIDE DEF X
<1> QED
  BY <1>1, <1>2 DEF Runs

\* A call that can be made, before others that can be made then.
LEMMA RunsThen ==
    ASSUME NEW u, NEW op, NEW s, NEW F, NEW G, IsSeq(s),
           Move(u, op, F, G), Runs(u, s, G)
    PROVE  Runs(u, Then(op, s), F)
<1>1. PICK X : /\ <<s, G>> \in X
               /\ \A t, H : <<t, H>> \in X =>
                     \/ t = <<>>
                     \/ \E K : Move(u, Head(t), H, K) /\ <<Tail(t), K>> \in X
  BY DEF Runs
<1> DEFINE t0 == Then(op, s)
           Y == X \cup {<<t0, F>>}
<1>2. Head(t0) = op /\ Tail(t0) = s
  BY FirstCall
<1> HIDE DEF t0
<1>3. ASSUME NEW t, NEW H, <<t, H>> \in Y
      PROVE  t = <<>> \/ \E K : Move(u, Head(t), H, K) /\ <<Tail(t), K>> \in Y
  <2>1. CASE <<t, H>> \in X
    BY <2>1, <1>1
  <2>2. CASE t = t0 /\ H = F
    BY <2>2, <1>1, <1>2
  <2> QED
    BY <1>3, <2>1, <2>2
<1>4. <<t0, F>> \in Y
  OBVIOUS
<1> HIDE DEF Y
<1>5. Runs(u, t0, F)
  BY <1>3, <1>4 DEF Runs
<1> QED
  BY <1>5 DEF t0

\* The next call can be made, and those after it then.
LEMMA RunsNext ==
    ASSUME NEW u, NEW s, NEW F, Runs(u, s, F), s # <<>>
    PROVE  \E G : Move(u, Head(s), F, G) /\ Runs(u, Tail(s), G)
<1>1. PICK X : /\ <<s, F>> \in X
               /\ \A t, H : <<t, H>> \in X =>
                     \/ t = <<>>
                     \/ \E K : Move(u, Head(t), H, K) /\ <<Tail(t), K>> \in X
  BY DEF Runs
<1>2. PICK G : Move(u, Head(s), F, G) /\ <<Tail(s), G>> \in X
  BY <1>1
<1>3. Runs(u, Tail(s), G)
  BY <1>1, <1>2 DEF Runs
<1> QED
  BY <1>2, <1>3

\* Whoever knows more can make the calls as well.
LEMMA RunsMore ==
    ASSUME NEW u, NEW s, NEW F, NEW H, IsSeq(s), Runs(u, s, F), F \subseteq H
    PROVE  Runs(u, s, H)
<1>1. CASE s = <<>>
  BY <1>1, RunsNone
<1>2. CASE s # <<>>
  <2>1. PICK G : Move(u, Head(s), F, G) /\ Runs(u, Tail(s), G)
    BY <1>2, RunsNext
  <2>2. Move(u, Head(s), H, G)
    BY <2>1, MoveMore
  <2>3. IsSeq(Tail(s)) /\ s = Then(Head(s), Tail(s))
    BY <1>2, CallsLeft
  <2> QED
    BY <2>1, <2>2, <2>3, RunsThen
<1> QED
  BY <1>1, <1>2

\* A loop over an empty set is left out.
LEMMA LoopBefore ==
    ASSUME NEW name, NEW x, NEW left, NEW s, IsSeq(s)
    PROVE  /\ Loop(name, x, left) \o s \in {s, Then(<<name, x, left>>, s)}
           /\ IsSeq(Loop(name, x, left))
           /\ IsSeq(Loop(name, x, left) \o s)
           /\ Searches(Loop(name, x, left) \o s) => name = "search" \/ Searches(s)
<1> DEFINE op == <<name, x, left>>
<1>1. op[1] = name
  OBVIOUS
<1>2. left = {} => Loop(name, x, left) \o s = s
  BY NoCalls DEF Loop
<1>3. left # {} => Loop(name, x, left) \o s = Then(op, s)
  <2> HIDE DEF op
  <2>1. left # {} => Loop(name, x, left) = <<op>>
    BY DEF Loop, op
  <2> QED
    BY <2>1 DEF Then
<1> HIDE DEF op
<1>4. IsSeq(Then(op, s)) /\ (Searches(Then(op, s)) => name = "search" \/ Searches(s))
  BY <1>1, FirstCall
<1>5. IsSeq(Loop(name, x, left) \o s)
      /\ (Searches(Loop(name, x, left) \o s) => name = "search" \/ Searches(s))
  BY <1>2, <1>3, <1>4
<1>6. IsSeq(Loop(name, x, left))
  <2>1. left # {} => Loop(name, x, left) = <<op>>
    BY DEF Loop, op
  <2>2. IsSeq(<<>>)
    BY NoCalls
  <2>3. IsSeq(<<op>>)
    <3>1. <<op>> \in Seq({op})
      OBVIOUS
    <3> QED
      BY <3>1 DEF IsSeq
  <2> QED
    BY <2>1, <2>2, <2>3 DEF Loop
<1>7. Loop(name, x, left) \o s \in {s, Then(op, s)}
  BY <1>2, <1>3
<1> QED
  BY <1>5, <1>6, <1>7 DEF op

\* Two calls put before others.
LEMMA TwoBefore ==
    ASSUME NEW a, NEW b, NEW s, IsSeq(s)
    PROVE  /\ <<a, b>> \o s = Then(a, Then(b, s))
           /\ <<a, b>> = Then(a, Then(b, <<>>))
           /\ IsSeq(Then(a, Then(b, s)))
<1>1. IsSeq(<<>>) /\ <<>> \o s = s
  BY NoCalls
<1>2. IsSeq(Then(b, <<>>)) /\ IsSeq(Then(b, s)) /\ IsSeq(Then(a, Then(b, s)))
  BY <1>1, FirstCall
<1>3. Then(a, Then(b, <<>>)) \o s = Then(a, Then(b, s))
  <2> DEFINE z == <<>>
  <2>1. z \o s = s
    BY <1>1
  <2>5. IsSeq(z)
    BY <1>1
  <2> HIDE DEF z
  <2>2. Then(b, z) \o s = Then(b, s)
    <3>1. Then(b, z) \o s = Then(b, z \o s)
      BY <2>5, CallsBefore
    <3> QED
      BY <2>1, <3>1
  <2>3. IsSeq(Then(b, z))
    BY <2>5, FirstCall
  <2>4. Then(a, Then(b, z)) \o s = Then(a, Then(b, s))
    <3>1. Then(a, Then(b, z)) \o s = Then(a, Then(b, z) \o s)
      BY <2>3, CallsBefore
    <3> QED
      BY <2>2, <3>1
  <2> QED
    BY <2>4 DEF z
<1>4. <<a, b>> = Then(a, Then(b, <<>>))
  <2>1. Then(b, <<>>) = <<b>>
    BY NoCalls
  <2>2. <<a, b>> = <<a>> \o <<b>>
    <3> DEFINE x == <<a>>  y == <<b>>  t == <<a, b>>
    <3>1. /\ x \in Seq({a, b}) /\ y \in Seq({a, b}) /\ t \in Seq({a, b})
          /\ Len(x) = 1 /\ Len(y) = 1 /\ Len(t) = 2
          /\ x[1] = a /\ y[1] = b /\ t[1] = a /\ t[2] = b
      OBVIOUS
    <3> HIDE DEF x, y, t
    <3>2. /\ x \o y \in Seq({a, b}) /\ Len(x \o y) = 2
          /\ \A i \in 1..2 : (x \o y)[i] = IF i <= 1 THEN x[i] ELSE y[i - 1]
      BY <3>1, ConcatProperties
    <3>3. \A i \in 1..Len(t) : t[i] = (x \o y)[i]
      BY <3>1, <3>2
    <3>4. t = x \o y
      BY <3>1, <3>2, <3>3, SeqEqual
    <3> QED
      BY <3>4 DEF x, y, t
  <2> QED
    BY <2>1, <2>2 DEF Then
<1> QED
  BY <1>2, <1>3, <1>4

\* The calls of list_spaces before others.
LEMMA ListBefore ==
    ASSUME NEW v, NEW s, IsSeq(s)
    PROVE  /\ List(v) \o s = Then(<<"own", v>>, Then(<<"ptr", v>>, s))
           /\ List(v) = Then(<<"own", v>>, Then(<<"ptr", v>>, <<>>))
           /\ IsSeq(Then(<<"own", v>>, Then(<<"ptr", v>>, s)))
<1> DEFINE a == <<"own", v>>
           b == <<"ptr", v>>
<1>1. List(v) = <<a, b>>
  BY DEF List
<1> HIDE DEF a, b
<1>2. /\ <<a, b>> \o s = Then(a, Then(b, s))
      /\ <<a, b>> = Then(a, Then(b, <<>>))
      /\ IsSeq(Then(a, Then(b, s)))
  BY TwoBefore
<1>3. /\ List(v) \o s = Then(a, Then(b, s))
      /\ List(v) = Then(a, Then(b, <<>>))
      /\ IsSeq(Then(a, Then(b, s)))
  BY <1>1, <1>2
<1> QED
  BY <1>3 DEF a, b

\* The calls that save a space before others.
LEMMA EditBefore ==
    ASSUME NEW x, NEW c, NEW s, IsSeq(s)
    PROVE  /\ Edit(x, c) \o s = Then(<<"load", x, c>>, Then(<<"store", x>>, s))
           /\ Edit(x, c) = Then(<<"load", x, c>>, Then(<<"store", x>>, <<>>))
           /\ IsSeq(Then(<<"load", x, c>>, Then(<<"store", x>>, s)))
<1> DEFINE a == <<"load", x, c>>
           b == <<"store", x>>
<1>1. Edit(x, c) = <<a, b>>
  BY DEF Edit
<1> HIDE DEF a, b
<1>2. /\ <<a, b>> \o s = Then(a, Then(b, s))
      /\ <<a, b>> = Then(a, Then(b, <<>>))
      /\ IsSeq(Then(a, Then(b, s)))
  BY TwoBefore
<1>3. /\ Edit(x, c) \o s = Then(a, Then(b, s))
      /\ Edit(x, c) = Then(a, Then(b, <<>>))
      /\ IsSeq(Then(a, Then(b, s)))
  BY <1>1, <1>2
<1> QED
  BY <1>3 DEF a, b

\* What sync_agent_chat does before others.
Syncing(o, a, mode, s) ==
    Then(<<"own", o>>, Then(<<"ptr", o>>,
    Then(<<"aread", o>>, Then(<<"sync", o, a, mode>>, s))))

\* The calls of sync_agent_chat before others.
LEMMA SyncBefore ==
    ASSUME NEW o, NEW a, NEW mode, NEW s, IsSeq(s)
    PROVE  /\ Sync(o, a, mode) \o s = Syncing(o, a, mode, s)
           /\ Sync(o, a, mode) = Syncing(o, a, mode, <<>>)
           /\ IsSeq(Sync(o, a, mode))
           /\ IsSeq(Syncing(o, a, mode, s))
           /\ Searches(Syncing(o, a, mode, s)) => Searches(s)
<1> DEFINE c == <<"aread", o>>
           d == <<"sync", o, a, mode>>
           g == <<"own", o>>
           h == <<"ptr", o>>
           p == <<c, d>>
           end == <<>>
<1>1. Sync(o, a, mode) = List(o) \o p
  BY DEF Sync
<1>2. c[1] # "search" /\ d[1] # "search" /\ g[1] # "search" /\ h[1] # "search"
  OBVIOUS
<1>3. ASSUME NEW t, IsSeq(t)  PROVE List(o) \o t = Then(g, Then(h, t))
  BY <1>3, ListBefore
<1>4. Syncing(o, a, mode, s) = Then(g, Then(h, Then(c, Then(d, s))))
      /\ Syncing(o, a, mode, <<>>) = Then(g, Then(h, Then(c, Then(d, end))))
  BY DEF Syncing
<1>5. IsSeq(end)
  BY NoCalls
<1> HIDE DEF c, d, g, h, end
<1>6. p \o s = Then(c, Then(d, s)) /\ p = Then(c, Then(d, end)) /\ IsSeq(Then(c, Then(d, s)))
  <2>1. /\ <<c, d>> \o s = Then(c, Then(d, s))
        /\ <<c, d>> = Then(c, Then(d, <<>>))
        /\ IsSeq(Then(c, Then(d, s)))
    BY TwoBefore
  <2> QED
    BY <2>1 DEF end
<1>7. IsSeq(Then(c, Then(d, end)))
  BY <1>5, FirstCall
<1> HIDE DEF p
<1>8. List(o) \o p = Then(g, Then(h, p))
  BY <1>3, <1>6, <1>7
<1>9. IsSeq(Then(g, Then(h, p))) /\ IsSeq(Then(h, p)) /\ IsSeq(p)
  BY <1>6, <1>7, FirstCall
<1>10. Then(g, Then(h, p)) \o s = Then(g, Then(h, p) \o s)
  BY <1>9, CallsBefore
<1>11. Then(h, p) \o s = Then(h, p \o s)
  BY <1>9, CallsBefore
<1>12. Sync(o, a, mode) \o s = Then(g, Then(h, Then(c, Then(d, s))))
  BY <1>1, <1>6, <1>8, <1>10, <1>11
<1>13. Sync(o, a, mode) = Then(g, Then(h, Then(c, Then(d, end))))
  BY <1>1, <1>6, <1>8
<1>14. IsSeq(Then(d, s)) /\ IsSeq(Then(c, Then(d, s))) /\ IsSeq(Then(h, Then(c, Then(d, s))))
       /\ IsSeq(Then(g, Then(h, Then(c, Then(d, s)))))
  BY FirstCall
<1>15. Searches(Then(g, Then(h, Then(c, Then(d, s))))) => Searches(s)
  BY <1>2, <1>14, FirstCall
<1> QED
  BY <1>1, <1>4, <1>8, <1>9, <1>12, <1>13, <1>14, <1>15

-----------------------------------------------------------------------------
(* What is known stays known while the world grows *)

\* More is seen, and more is reached.
LEMMA SeenMore ==
    ASSUME NEW e, NEW k, Grows(e, k)
    PROVE  /\ \A v, s : Sees(e, v, s) => Sees(k, v, s)
           /\ \A s, v : Foreign(e, s, v) => Foreign(k, s, v)
           /\ \A v, ds : FromSeen(e, v, ds) => FromSeen(k, v, ds)
           /\ \A r, q, ds : FromReach(e, r, ds) /\ r \subseteq q => FromReach(k, q, ds)
<1>1. \A v, s : Sees(e, v, s) => Sees(k, v, s)
  BY DEF Grows, Sees
<1>2. \A s, v : Foreign(e, s, v) => Foreign(k, s, v)
  BY DEF Grows, Foreign
<1>3. ASSUME NEW v, NEW ds, FromSeen(e, v, ds)  PROVE FromSeen(k, v, ds)
  BY <1>1, <1>3 DEF Grows, FromSeen
<1>4. ASSUME NEW r, NEW q, NEW ds, FromReach(e, r, ds), r \subseteq q
      PROVE  FromReach(k, q, ds)
  BY <1>4 DEF Grows, FromReach
<1> QED
  BY <1>1, <1>2, <1>3, <1>4

\* Lists stay what they are.
LEMMA ListsMore ==
    ASSUME NEW e, NEW k, Grows(e, k)
    PROVE  /\ \A s, r : IsSpace(e, s, r) => IsSpace(k, s, r)
           /\ \A f : IsSpaces(e, f) => IsSpaces(k, f)
           /\ \A o, r : IsAgent(e, o, r) => IsAgent(k, o, r)
           /\ \A o, f : IsAgents(e, o, f) => IsAgents(k, o, f)
           /\ \A v, f : IsInvites(e, v, f) => IsInvites(k, v, f)
<1>1. ASSUME NEW s, NEW r, IsSpace(e, s, r)  PROVE IsSpace(k, s, r)
  BY <1>1 DEF IsSpace, Grows
<1>2. \A f : IsSpaces(e, f) => IsSpaces(k, f)
  BY <1>1 DEF IsSpaces
<1>3. ASSUME NEW o, NEW r, IsAgent(e, o, r)  PROVE IsAgent(k, o, r)
  BY <1>3, SeenMore DEF IsAgent
<1>4. ASSUME NEW o, NEW f, IsAgents(e, o, f)  PROVE IsAgents(k, o, f)
  BY <1>3, <1>4 DEF IsAgents, Grows
<1>5. ASSUME NEW v, NEW f, IsInvites(e, v, f)  PROVE IsInvites(k, v, f)
  BY <1>5, SeenMore DEF IsInvites
<1> QED
  BY <1>1, <1>2, <1>3, <1>4, <1>5

\* The rows stay what they are.
LEMMA RowsMore ==
    ASSUME NEW e, NEW k, Grows(e, k), Rows(e)
    PROVE  Rows(k)
<1>1. SpaceRows(k)
  BY ListsMore DEF Rows, SpaceRows
<1>2. InviteRows(k)
  BY ListsMore DEF Rows, InviteRows
<1>3. AgentRows(k)
  BY ListsMore DEF Rows, AgentRows
<1> QED
  BY <1>1, <1>2, <1>3 DEF Rows

\* A fact about fields that have not changed is still one.
LEMMA FactMore ==
    ASSUME NEW e, NEW k, NEW j, NEW i, NEW r, NEW q, NEW f,
           Fact(e, j, r, f), Same(j, i, f), i.who = j.who,
           Grows(e, k), r \subseteq q
    PROVE  Fact(k, i, q, f)
<1> USE SeenMore, ListsMore DEF Same
<1>1. f[1] = "sees" =>
          /\ f[2] \in User
          /\ \A s \in DOMAIN i.seen : Sees(k, f[2], s) /\ (f[2] = i.who => s \in q)
  BY DEF Fact
<1>2. f[1] = "ptr" => IsPointers(f[2], i.ptr)
  BY DEF Fact
<1>3. f[1] = "space" => IsSpace(k, f[2], i.space)
  BY DEF Fact
<1>4. f[1] = "row" => IsSpaces(k, i.row) /\ \A s \in DOMAIN i.row : i.row[s].owner = i.space.owner
  BY DEF Fact
<1>5. f[1] = "mine" => IsAgents(k, f[2], i.mine)
  BY DEF Fact
<1>6. f[1] = "has" => f[2] \in DOMAIN i.mine
  BY DEF Fact
<1>7. f[1] = "kept" => IsAgents(k, f[2], i.kept)
  BY DEF Fact
<1>8. f[1] = "agent" => IsAgent(k, f[2], i.agent)
  BY DEF Fact
<1>9. f[1] = "close" => f[2] = i.who \/ i.agent.spaces \subseteq q
  BY DEF Fact
<1>10. f[1] = "drawn" => FromReach(k, q, i.agent.datasets)
  BY DEF Fact
<1>11. f[1] = "inv" => IsInvites(k, f[2], i.inv)
  BY DEF Fact
<1>12. f[1] = "found" =>
          /\ i.found.owner \in User
          /\ FromSeen(k, i.found.owner, i.found.datasets)
          /\ i.found.synced => FromReach(k, q, i.found.datasets)
  BY DEF Fact
<1>13. /\ f[1] = "owned" => <<f[2], f[3]>> \in k.own
       /\ f[1] = "adm"   => <<f[2], f[3]>> \in k.adm
       /\ f[1] = "data"  => <<f[2], f[3]>> \in k.data
       /\ f[1] = "id"    => f[2] \in k.ids \cap Agent
  BY DEF Fact, Grows
<1>14. f[1] = "rec" => f[2].owner \in User /\ IsAgent(k, f[2].owner, f[2].rec)
  BY DEF Fact
<1> QED
  BY <1>1, <1>2, <1>3, <1>4, <1>5, <1>6, <1>7, <1>8, <1>9, <1>10, <1>11, <1>12,
     <1>13, <1>14 DEF Fact

\* A job that has not changed is still sound.
LEMMA SoundMore ==
    ASSUME NEW e, NEW k, NEW r, NEW q, NEW j,
           Grows(e, k), r \subseteq q, Sound(e, r, j)
    PROVE  Sound(k, q, j)
<1>1. PICK F : Holds(e, j, r, F) /\ Runs(j.who, j.todo, F)
  BY DEF Sound
<1>2. \A f : Same(j, j, f)
  BY DEF Same
<1>3. Holds(k, j, q, F)
  BY <1>1, <1>2, FactMore DEF Holds
<1>4. IsSpaces(k, j.seen)
  BY ListsMore DEF Sound
<1> QED
  BY <1>1, <1>3, <1>4 DEF Sound

\* A job that goes on is sound when what it knows then is true of it.
LEMMA SoundNext ==
    ASSUME NEW e, NEW k, NEW r, NEW q, NEW j, NEW i, NEW F, NEW G,
           Grows(e, k), r \subseteq q, Holds(e, j, r, F), j.who \in User,
           IsJob(i), i.who = j.who, IsSeq(i.todo), IsSpaces(k, i.seen),
           Runs(j.who, i.todo, G),
           \A f \in G : (f \in F /\ Same(j, i, f)) \/ Fact(k, i, q, f)
    PROVE  Sound(k, q, i)
<1>1. ASSUME NEW f \in G  PROVE Fact(k, i, q, f)
  BY <1>1, FactMore DEF Holds
<1> QED
  BY <1>1 DEF Sound, Holds

-----------------------------------------------------------------------------
(* One call of one request *)

\* The fields of a job.
LEMMA JobFields ==
    Fields = {"todo", "who", "seen", "ptr", "space", "row", "mine", "kept",
              "agent", "inv", "found"}
BY DEF Fields, Idle

Jobs == job = [x \in Worker |-> job[x]]

\* The request of w is sound, if it has one.
Fine(e, w) == job[w] = Idle \/ Sound(e, Reachable(w), job[w])

\* The request of w is sound, in a world that agrees with the rows.
Ready(e, w) ==
    /\ IsWorld(e) /\ Matches(e) /\ Rows(e) /\ Jobs
    /\ Sound(e, Reachable(w), job[w])

\* A request that makes a call knows what the call needs, and knows after it
\* what the next one needs.
LEMMA Called ==
    ASSUME NEW e, NEW w \in Worker, Ready(e, w), Op(w)[1] # "none"
    PROVE  /\ job[w].todo = Then(Op(w), Rest(w))
           /\ IsSeq(Rest(w))
           /\ Searches(Rest(w)) => Searches(job[w].todo)
           /\ \E F, G : /\ Holds(e, job[w], Reachable(w), F)
                        /\ Move(job[w].who, Op(w), F, G)
                        /\ Runs(job[w].who, Rest(w), G)
<1> DEFINE s == job[w].todo
<1>1. s # <<>>
  <2>1. SUFFICES ASSUME s = <<>>  PROVE FALSE
    OBVIOUS
  <2>2. Op(w) = <<"none">>
    BY <2>1 DEF Op
  <2> QED
    BY <2>2
<1>2. Op(w) = Head(s) /\ Rest(w) = Tail(s)
  BY <1>1 DEF Op, Rest
<1>3. IsSeq(s)
  BY DEF Ready, Sound
<1>4. PICK F : Holds(e, job[w], Reachable(w), F) /\ Runs(job[w].who, s, F)
  BY DEF Ready, Sound
<1> HIDE DEF s
<1>5. s = Then(Op(w), Rest(w)) /\ IsSeq(Rest(w))
  BY <1>1, <1>2, <1>3, CallsLeft
<1>6. Searches(Rest(w)) => Searches(s)
  BY <1>5, FirstCall
<1>7. \E G : Move(job[w].who, Op(w), F, G) /\ Runs(job[w].who, Rest(w), G)
  BY <1>1, <1>2, <1>4, RunsNext
<1> QED
  BY <1>4, <1>5, <1>6, <1>7 DEF s

\* A completion loses nothing it has reached, and reaches the spaces that list
\* its asker now.
LEMMA ReachesMore ==
    ASSUME NEW w \in Worker, NEW k, Jobs, Go(w, k), History,
           Searches(k.todo) => Searches(job[w].todo)
    PROVE  /\ Reachable(w) \subseteq Reachable(w)'
           /\ spaceRow' = spaceRow /\ k.who = job[w].who =>
                \A s \in Space, o \in User :
                   s \in DOMAIN spaceRow[o] /\ job[w].who \in spaceRow[o][s].members
                     => s \in Reachable(w)'
<1>1. job'[w] = IF k.todo = <<>> THEN Idle ELSE k
  BY DEF Go, Jobs
<1>2. Asking(w)' <=> Searches(job'[w].todo)
  BY DEF Asking, Searches
<1>3. Asking(w) <=> Searches(job[w].todo)
  BY DEF Asking, Searches
<1>4. CASE ~Asking(w)'
  BY <1>4 DEF Reachable
<1>5. CASE Asking(w)'
  <2>1. job'[w] = k
    <3>1. CASE k.todo = <<>>
      <4>1. job'[w].todo = <<>>
        BY <1>1, <3>1 DEF Idle
      <4> QED
        BY <4>1, <1>2, <1>5, NoCalls
    <3> QED
      BY <1>1, <3>1
  <2>2. Asking(w)
    BY <1>2, <1>3, <1>5, <2>1
  <2>3. reach'[w] = Sights(w)' \cup reach[w]
    BY <1>5 DEF History
  <2>4. Reachable(w) = {s \in Space : s \in reach[w]}
    BY <2>2 DEF Reachable
  <2>5. Reachable(w)' = {s \in Space : s \in reach'[w]}
    BY <1>5 DEF Reachable
  <2>6. ASSUME spaceRow' = spaceRow, k.who = job[w].who, NEW s \in Space, NEW o \in User,
               s \in DOMAIN spaceRow[o], job[w].who \in spaceRow[o][s].members
        PROVE  s \in Reachable(w)'
    <3>1. s \in Sights(w)'
      BY <1>5, <2>1, <2>6 DEF Sights, Holders
    <3> QED
      BY <3>1, <2>3, <2>5
  <2> QED
    BY <2>3, <2>4, <2>5, <2>6
<1> QED
  BY <1>4, <1>5

\* A request whose next job knows what its next call needs goes on soundly.
LEMMA GoesOn ==
    ASSUME NEW e, NEW w \in Worker, NEW k, NEW F, NEW G,
           Ready(e, w), Holds(e, job[w], Reachable(w), F), Go(w, k), History,
           IsJob(k), k.who = job[w].who, IsSeq(k.todo), IsSpaces(e, k.seen),
           Runs(job[w].who, k.todo, G),
           Searches(k.todo) => Searches(job[w].todo),
           \A f \in G : \/ f \in F /\ Same(job[w], k, f)
                        \/ Fact(e, k, Reachable(w)', f)
    PROVE  Fine(e, w)'
<1>1. Reachable(w) \subseteq Reachable(w)'
  BY ReachesMore DEF Ready
<1>2. Grows(e, e)
  BY DEF Grows
<1>3. job[w].who \in User
  BY DEF Ready, Sound
<1>4. Sound(e, Reachable(w)', k)
  BY <1>1, <1>2, <1>3, SoundNext
<1>5. job'[w] = Idle \/ job'[w] = k
  BY DEF Go, Ready, Jobs
<1> QED
  BY <1>4, <1>5 DEF Fine

\* Rows that have not changed are what they were.
LEMMA RowsStay ==
    ASSUME NEW e, Rows(e), UNCHANGED rows
    PROVE  Rows(e)'
BY DEF Rows, rows, SpaceRows, PointerRows, InviteRows, AgentRows

\* list_spaces reads the asker's own spaces.
LEMMA OwnStep ==
    ASSUME NEW e, NEW w \in Worker, Ready(e, w), Own(w), History
    PROVE  Fine(e, w)' /\ Rows(e)'
<1> DEFINE j == job[w]
           v == Op(w)[2]
           k == [j EXCEPT !.todo = Rest(w), !.seen = spaceRow[v]]
<1>1. Op(w)[1] = "own" /\ Go(w, k) /\ UNCHANGED rows
  BY DEF Own
<1>2. PICK F, G : /\ Holds(e, j, Reachable(w), F)
                  /\ Move(j.who, Op(w), F, G)
                  /\ Runs(j.who, Rest(w), G)
  BY <1>1, Called
<1>3. v \in User /\ G \subseteq But(F, {"sees"}) \cup {<<"sees", v>>}
  BY <1>1, <1>2 DEF Move, ListMove, SpaceMove, MemberMove, AgentMove
<1>4. IsSeq(Rest(w)) /\ (Searches(Rest(w)) => Searches(j.todo))
  BY <1>1, Called
<1>5. /\ IsJob(k) /\ k.todo = Rest(w) /\ k.who = j.who /\ k.seen = spaceRow[v]
      /\ \A f \in But(F, {"sees"}) : f \in F /\ Same(j, k, f)
  <2>1. IsJob(j)
    BY DEF Ready, Sound
  <2> HIDE DEF j, v
  <2>2. IsJob(k)
    BY <2>1, JobFields DEF IsJob
  <2>3. /\ k.todo = Rest(w) /\ k.who = j.who /\ k.seen = spaceRow[v]
        /\ k.ptr = j.ptr /\ k.space = j.space /\ k.row = j.row /\ k.mine = j.mine
        /\ k.kept = j.kept /\ k.agent = j.agent /\ k.inv = j.inv /\ k.found = j.found
    BY <2>1, JobFields DEF IsJob
  <2> HIDE DEF k
  <2>4. \A f \in But(F, {"sees"}) : f \in F /\ Same(j, k, f)
    BY <2>3 DEF But, Same
  <2> QED
    BY <2>2, <2>3, <2>4
<1>6. IsSpaces(e, spaceRow[v]) /\ \A s \in DOMAIN spaceRow[v] : spaceRow[v][s].owner = v
  BY <1>3 DEF Ready, Rows, SpaceRows
<1> HIDE DEF k
<1>7. Fact(e, k, Reachable(w)', <<"sees", v>>)
  <2>1. ASSUME NEW s \in DOMAIN spaceRow[v]
        PROVE  Sees(e, v, s) /\ (v = k.who => s \in Reachable(w)')
    <3>1. IsSpace(e, s, spaceRow[v][s]) /\ spaceRow[v][s].owner = v
      BY <1>6 DEF IsSpaces
    <3>2. Sees(e, v, s) /\ v \in spaceRow[v][s].members /\ s \in Space
      BY <3>1 DEF Sees, IsSpace, Ready, IsWorld
    <3>3. spaceRow' = spaceRow
      BY <1>1 DEF rows
    <3> QED
      BY <1>1, <1>3, <1>4, <1>5, <3>2, <3>3, ReachesMore DEF Ready
  <2> QED
    BY <1>3, <1>5, <2>1 DEF Fact
<1>8. Fine(e, w)'
  BY <1>1, <1>2, <1>3, <1>4, <1>5, <1>6, <1>7, GoesOn
<1> QED
  BY <1>1, <1>8, RowsStay DEF Ready

\* A request that gives up is over.
LEMMA Aborted ==
    ASSUME NEW e, NEW w \in Worker, Ready(e, w), Abort(w)
    PROVE  Fine(e, w)'
BY DEF Ready, Jobs, Abort, Fine

\* A list that is empty.
LEMMA EmptyList ==
    /\ DOMAIN Nothing = {}
    /\ \A e : IsSpaces(e, Nothing)
    /\ \A e, o : IsAgents(e, o, Nothing)
BY DEF Nothing, IsSpaces, IsAgents

\* require_space_owner takes what the caller has seen of its own space.
LEMMA RequireStep ==
    ASSUME NEW e, NEW w \in Worker, Ready(e, w), Require(w), History
    PROVE  Fine(e, w)' /\ Rows(e)'
<1> DEFINE j == job[w]
           s == Op(w)[2]
           k == [j EXCEPT !.todo = Rest(w), !.space = j.seen[s]]
<1>1. Op(w)[1] = "require" /\ UNCHANGED rows
  BY DEF Require
<1> SUFFICES ASSUME Go(w, k), s \in DOMAIN j.seen, j.seen[s].owner = j.who
             PROVE  Fine(e, w)'
  BY <1>1, Aborted, RowsStay DEF Require, Ready
<1>2. PICK F, G : /\ Holds(e, j, Reachable(w), F)
                  /\ Move(j.who, Op(w), F, G)
                  /\ Runs(j.who, Rest(w), G)
  BY <1>1, Called
<1>3. IsSeq(Rest(w)) /\ (Searches(Rest(w)) => Searches(j.todo))
  BY <1>1, Called
<1>4. G \subseteq But(F, {"space", "row"}) \cup {<<"space", s>>, <<"owned", s, j.who>>}
  BY <1>1, <1>2 DEF Move, ListMove, SpaceMove, MemberMove, AgentMove
<1>5. /\ IsJob(k)
      /\ k.todo = Rest(w) /\ k.who = j.who /\ k.seen = j.seen /\ k.ptr = j.ptr
      /\ k.space = j.seen[s] /\ k.row = j.row /\ k.mine = j.mine /\ k.kept = j.kept
      /\ k.agent = j.agent /\ k.inv = j.inv /\ k.found = j.found
  <2>1. IsJob(j)
    BY DEF Ready, Sound
  <2> HIDE DEF j, s
  <2>2. IsJob(k)
    BY <2>1, JobFields DEF IsJob
  <2> QED
    BY <2>1, <2>2, JobFields DEF IsJob
<1> HIDE DEF k
<1>6. \A f \in But(F, {"space", "row"}) : f \in F /\ Same(j, k, f)
  BY <1>5 DEF But, Only, Same
<1>7. IsSpaces(e, j.seen)
  BY DEF Ready, Sound
<1>8. IsSpace(e, s, j.seen[s])
  BY <1>7 DEF IsSpaces
<1>9. Fact(e, k, Reachable(w)', <<"space", s>>)
  BY <1>5, <1>8 DEF Fact
<1>10. Fact(e, k, Reachable(w)', <<"owned", s, j.who>>)
  BY <1>8 DEF Fact, IsSpace
<1> QED
  BY <1>2, <1>4, <1>3, <1>5, <1>6, <1>7, <1>9, <1>10, GoesOn

\* A membership list is read to be written back.
LEMMA ReadPointersStep ==
    ASSUME NEW e, NEW w \in Worker, Ready(e, w), ReadPointers(w), History
    PROVE  Fine(e, w)' /\ Rows(e)'
<1> DEFINE j == job[w]
           v == Op(w)[2]
           k == [j EXCEPT !.todo = Rest(w), !.ptr = pointerRow[v]]
<1>1. Op(w)[1] = "mread" /\ Go(w, k) /\ UNCHANGED rows
  BY DEF ReadPointers
<1>2. PICK F, G : /\ Holds(e, j, Reachable(w), F)
                  /\ Move(j.who, Op(w), F, G)
                  /\ Runs(j.who, Rest(w), G)
  BY <1>1, Called
<1>3. IsSeq(Rest(w)) /\ (Searches(Rest(w)) => Searches(j.todo))
  BY <1>1, Called
<1>4. v \in User /\ G \subseteq But(F, {"ptr"}) \cup {<<"ptr", v>>}
  BY <1>1, <1>2 DEF Move, ListMove, SpaceMove, MemberMove, AgentMove
<1>5. /\ IsJob(k)
      /\ k.todo = Rest(w) /\ k.who = j.who /\ k.seen = j.seen /\ k.ptr = pointerRow[v]
      /\ k.space = j.space /\ k.row = j.row /\ k.mine = j.mine /\ k.kept = j.kept
      /\ k.agent = j.agent /\ k.inv = j.inv /\ k.found = j.found
  <2>1. IsJob(j)
    BY DEF Ready, Sound
  <2> HIDE DEF j, v
  <2>2. IsJob(k)
    BY <2>1, JobFields DEF IsJob
  <2> QED
    BY <2>1, <2>2, JobFields DEF IsJob
<1> HIDE DEF k
<1>6. \A f \in But(F, {"ptr"}) : f \in F /\ Same(j, k, f)
  BY <1>5 DEF But, Only, Same
<1>7. IsSpaces(e, j.seen)
  BY DEF Ready, Sound
<1>8. Fact(e, k, Reachable(w)', <<"ptr", v>>)
  BY <1>4, <1>5 DEF Fact, Ready, Rows, PointerRows
<1>9. Fine(e, w)'
  BY <1>1, <1>2, <1>4, <1>3, <1>5, <1>6, <1>7, <1>8, GoesOn
<1> QED
  BY <1>1, <1>9, RowsStay DEF Ready

\* A list of assistants is read to be written back.
LEMMA ReadAgentsStep ==
    ASSUME NEW e, NEW w \in Worker, Ready(e, w), ReadAgents(w), History
    PROVE  Fine(e, w)' /\ Rows(e)'
<1> DEFINE j == job[w]
           v == Op(w)[2]
           k == [j EXCEPT !.todo = Rest(w), !.mine = agentRow[v]]
<1>1. Op(w)[1] = "aread" /\ Go(w, k) /\ UNCHANGED rows
  BY DEF ReadAgents
<1>2. PICK F, G : /\ Holds(e, j, Reachable(w), F)
                  /\ Move(j.who, Op(w), F, G)
                  /\ Runs(j.who, Rest(w), G)
  BY <1>1, Called
<1>3. IsSeq(Rest(w)) /\ (Searches(Rest(w)) => Searches(j.todo))
  BY <1>1, Called
<1>4. v \in User /\ G \subseteq But(F, {"mine", "has"}) \cup {<<"mine", v>>}
  BY <1>1, <1>2 DEF Move, ListMove, SpaceMove, MemberMove, AgentMove
<1>5. /\ IsJob(k)
      /\ k.todo = Rest(w) /\ k.who = j.who /\ k.seen = j.seen /\ k.ptr = j.ptr
      /\ k.space = j.space /\ k.row = j.row /\ k.mine = agentRow[v] /\ k.kept = j.kept
      /\ k.agent = j.agent /\ k.inv = j.inv /\ k.found = j.found
  <2>1. IsJob(j)
    BY DEF Ready, Sound
  <2> HIDE DEF j, v
  <2>2. IsJob(k)
    BY <2>1, JobFields DEF IsJob
  <2> QED
    BY <2>1, <2>2, JobFields DEF IsJob
<1> HIDE DEF k
<1>6. \A f \in But(F, {"mine", "has"}) : f \in F /\ Same(j, k, f)
  BY <1>5 DEF But, Only, Same
<1>7. IsSpaces(e, j.seen)
  BY DEF Ready, Sound
<1>8. Fact(e, k, Reachable(w)', <<"mine", v>>)
  BY <1>4, <1>5 DEF Fact, Ready, Rows, AgentRows
<1>9. Fine(e, w)'
  BY <1>1, <1>2, <1>4, <1>3, <1>5, <1>6, <1>7, <1>8, GoesOn
<1> QED
  BY <1>1, <1>9, RowsStay DEF Ready

\* remove_space_member keeps the member's list until its assistants are done.
LEMMA KeepStep ==
    ASSUME NEW e, NEW w \in Worker, Ready(e, w), Keep(w), History
    PROVE  Fine(e, w)' /\ Rows(e)'
<1> DEFINE j == job[w]
           v == Op(w)[2]
           k == [j EXCEPT !.todo = Rest(w), !.kept = agentRow[v]]
<1>1. Op(w)[1] = "keep" /\ Go(w, k) /\ UNCHANGED rows
  BY DEF Keep
<1>2. PICK F, G : /\ Holds(e, j, Reachable(w), F)
                  /\ Move(j.who, Op(w), F, G)
                  /\ Runs(j.who, Rest(w), G)
  BY <1>1, Called
<1>3. IsSeq(Rest(w)) /\ (Searches(Rest(w)) => Searches(j.todo))
  BY <1>1, Called
<1>4. v \in User /\ G \subseteq But(F, {"kept"}) \cup {<<"kept", v>>}
  BY <1>1, <1>2 DEF Move, ListMove, SpaceMove, MemberMove, AgentMove
<1>5. /\ IsJob(k)
      /\ k.todo = Rest(w) /\ k.who = j.who /\ k.seen = j.seen /\ k.ptr = j.ptr
      /\ k.space = j.space /\ k.row = j.row /\ k.mine = j.mine /\ k.kept = agentRow[v]
      /\ k.agent = j.agent /\ k.inv = j.inv /\ k.found = j.found
  <2>1. IsJob(j)
    BY DEF Ready, Sound
  <2> HIDE DEF j, v
  <2>2. IsJob(k)
    BY <2>1, JobFields DEF IsJob
  <2> QED
    BY <2>1, <2>2, JobFields DEF IsJob
<1> HIDE DEF k
<1>6. \A f \in But(F, {"kept"}) : f \in F /\ Same(j, k, f)
  BY <1>5 DEF But, Only, Same
<1>7. IsSpaces(e, j.seen)
  BY DEF Ready, Sound
<1>8. Fact(e, k, Reachable(w)', <<"kept", v>>)
  BY <1>4, <1>5 DEF Fact, Ready, Rows, AgentRows
<1>9. Fine(e, w)'
  BY <1>1, <1>2, <1>4, <1>3, <1>5, <1>6, <1>7, <1>8, GoesOn
<1> QED
  BY <1>1, <1>9, RowsStay DEF Ready

\* get_owned_agent copies a record of the caller's.
LEMMA CopyStep ==
    ASSUME NEW e, NEW w \in Worker, Ready(e, w), Copy(w), History
    PROVE  Fine(e, w)' /\ Rows(e)'
<1> DEFINE j == job[w]
           a == Op(w)[2]
           rec == [agentRow[j.who][a] EXCEPT !.spaces = Op(w)[3]]
           k == [j EXCEPT !.todo = Rest(w), !.agent = rec]
<1>1. Op(w)[1] = "copy" /\ UNCHANGED rows
  BY DEF Copy
<1> SUFFICES ASSUME Go(w, k), a \in DOMAIN agentRow[j.who]
             PROVE  Fine(e, w)'
  BY <1>1, Aborted, RowsStay DEF Copy, Ready
<1>2. PICK F, G : /\ Holds(e, j, Reachable(w), F)
                  /\ Move(j.who, Op(w), F, G)
                  /\ Runs(j.who, Rest(w), G)
  BY <1>1, Called
<1>3. IsSeq(Rest(w)) /\ (Searches(Rest(w)) => Searches(j.todo))
  BY <1>1, Called
<1>4. /\ Op(w)[3] \subseteq Space
      /\ G \subseteq But(F, {"agent", "close", "drawn"}) \cup {<<"agent", j.who>>}
  BY <1>1, <1>2 DEF Move, ListMove, SpaceMove, MemberMove, AgentMove
<1>5. /\ IsJob(k)
      /\ k.todo = Rest(w) /\ k.who = j.who /\ k.seen = j.seen /\ k.ptr = j.ptr
      /\ k.space = j.space /\ k.row = j.row /\ k.mine = j.mine /\ k.kept = j.kept
      /\ k.agent = rec /\ k.inv = j.inv /\ k.found = j.found
  <2>1. IsJob(j)
    BY DEF Ready, Sound
  <2> HIDE DEF j, a, rec
  <2>2. IsJob(k)
    BY <2>1, JobFields DEF IsJob
  <2> QED
    BY <2>1, <2>2, JobFields DEF IsJob
<1> HIDE DEF k
<1>6. \A f \in But(F, {"agent", "close", "drawn"}) : f \in F /\ Same(j, k, f)
  BY <1>5 DEF But, Only, Same
<1>7. IsSpaces(e, j.seen) /\ j.who \in User
  BY DEF Ready, Sound
<1>8. IsAgent(e, j.who, agentRow[j.who][a])
  BY <1>7 DEF Ready, Rows, AgentRows, IsAgents
<1>9. IsAgent(e, j.who, rec)
  BY <1>4, <1>8 DEF IsAgent
<1>10. Fact(e, k, Reachable(w)', <<"agent", j.who>>)
  BY <1>5, <1>9 DEF Fact
<1>11. \A f \in G : (f \in F /\ Same(j, k, f)) \/ Fact(e, k, Reachable(w)', f)
  BY <1>4, <1>6, <1>10
<1> QED
  BY <1>2, <1>3, <1>5, <1>7, <1>11, GoesOn

\* create_agent and update_agent read the caller's list.
LEMMA CheckStep ==
    ASSUME NEW e, NEW w \in Worker, Ready(e, w), Check(w), History
    PROVE  Fine(e, w)' /\ Rows(e)'
<1> DEFINE j == job[w]
           k == [j EXCEPT !.todo = Rest(w), !.seen = Nothing, !.mine = agentRow[j.who]]
<1>1. Op(w)[1] = "check" /\ UNCHANGED rows
  BY DEF Check
<1> SUFFICES ASSUME Go(w, k)
             PROVE  Fine(e, w)'
  BY <1>1, Aborted, RowsStay DEF Check, Ready
<1>2. PICK F, G : /\ Holds(e, j, Reachable(w), F)
                  /\ Move(j.who, Op(w), F, G)
                  /\ Runs(j.who, Rest(w), G)
  BY <1>1, Called
<1>3. IsSeq(Rest(w)) /\ (Searches(Rest(w)) => Searches(j.todo))
  BY <1>1, Called
<1>4. G \subseteq But(F, {"sees", "mine", "has"}) \cup {<<"mine", j.who>>}
  BY <1>1, <1>2 DEF Move, ListMove, SpaceMove, MemberMove, AgentMove
<1>5. /\ IsJob(k)
      /\ k.todo = Rest(w) /\ k.who = j.who /\ k.seen = Nothing /\ k.ptr = j.ptr
      /\ k.space = j.space /\ k.row = j.row /\ k.kept = j.kept /\ k.agent = j.agent
      /\ k.inv = j.inv /\ k.found = j.found
      /\ k.mine = agentRow[j.who]
  <2>1. IsJob(j)
    BY DEF Ready, Sound
  <2> HIDE DEF j
  <2>2. IsJob(k)
    BY <2>1, JobFields DEF IsJob
  <2> QED
    BY <2>1, <2>2, JobFields DEF IsJob
<1> HIDE DEF k
<1>6. \A f \in But(F, {"sees", "mine", "has"}) : f \in F /\ Same(j, k, f)
  BY <1>5 DEF But, Only, Same
<1>7. j.who \in User
  BY DEF Ready, Sound
<1>8. IsAgents(e, j.who, agentRow[j.who])
  BY <1>7 DEF Ready, Rows, AgentRows
<1>9. Fact(e, k, Reachable(w)', <<"mine", j.who>>)
  BY <1>5, <1>8 DEF Fact
<1>10. IsSpaces(e, k.seen)
  BY <1>5, EmptyList
<1>11. \A f \in G : (f \in F /\ Same(j, k, f)) \/ Fact(e, k, Reachable(w)', f)
  BY <1>4, <1>6, <1>9
<1> QED
  BY <1>2, <1>3, <1>5, <1>10, <1>11, GoesOn

\* The datasets found are searched.
LEMMA SearchStep ==
    ASSUME NEW e, NEW w \in Worker, Ready(e, w), Search(w), History
    PROVE  Fine(e, w)' /\ Rows(e)'
<1> DEFINE j == job[w]
           k == [j EXCEPT !.todo = Rest(w)]
<1>1. Op(w)[1] = "search" /\ Go(w, k) /\ UNCHANGED rows
  BY DEF Search
<1>2. PICK F, G : /\ Holds(e, j, Reachable(w), F)
                  /\ Move(j.who, Op(w), F, G)
                  /\ Runs(j.who, Rest(w), G)
  BY <1>1, Called
<1>3. IsSeq(Rest(w)) /\ (Searches(Rest(w)) => Searches(j.todo))
  BY <1>1, Called
<1>4. G = {}
  BY <1>1, <1>2 DEF Move, ListMove, SpaceMove, MemberMove, AgentMove
<1>5. /\ IsJob(k)
      /\ k.todo = Rest(w) /\ k.who = j.who /\ k.seen = j.seen /\ k.ptr = j.ptr
      /\ k.space = j.space /\ k.row = j.row /\ k.mine = j.mine /\ k.kept = j.kept
      /\ k.agent = j.agent /\ k.inv = j.inv /\ k.found = j.found
  <2>1. IsJob(j)
    BY DEF Ready, Sound
  <2> HIDE DEF j
  <2>2. IsJob(k)
    BY <2>1, JobFields DEF IsJob
  <2> QED
    BY <2>1, <2>2, JobFields DEF IsJob
<1> HIDE DEF k
<1>7. IsSpaces(e, j.seen)
  BY DEF Ready, Sound
<1>9. Fine(e, w)'
  BY <1>1, <1>2, <1>4, <1>3, <1>5, <1>7, GoesOn
<1> QED
  BY <1>1, <1>9, RowsStay DEF Ready

\* A copy of a space that is changed is still one.
LEMMA ChangedSpace ==
    ASSUME NEW e, NEW s, NEW r, NEW c, IsSpace(e, s, r),
           c[1] \in {"same", "admit", "remove", "add", "drop"},
           c[1] = "admit"  => c[2] \in User /\ <<s, c[2]>> \in e.adm,
           c[1] = "remove" => c[2] # r.owner,
           c[1] = "add"    => c[2] \in Dataset /\ <<c[2], s>> \in e.data
    PROVE  IsSpace(e, s, Changed(r, c)) /\ Changed(r, c).owner = r.owner
<1>1. r \in [owner : User, members : SUBSET User, datasets : SUBSET Dataset]
  BY DEF IsSpace
<1>2. CASE c[1] = "same"
  BY <1>2 DEF Changed
<1>3. CASE c[1] = "admit"
  BY <1>1, <1>3 DEF Changed, IsSpace
<1>4. CASE c[1] = "remove"
  BY <1>1, <1>4 DEF Changed, IsSpace
<1>5. CASE c[1] = "add"
  BY <1>1, <1>5 DEF Changed, IsSpace
<1>6. CASE c[1] = "drop"
  BY <1>1, <1>6 DEF Changed, IsSpace
<1> QED
  BY <1>2, <1>3, <1>4, <1>5, <1>6

\* The copy read earlier is changed and its owner's list is read.
LEMMA LoadStep ==
    ASSUME NEW e, NEW w \in Worker, Ready(e, w), Load(w), History
    PROVE  Fine(e, w)' /\ Rows(e)'
<1> DEFINE j == job[w]
           s == Op(w)[2]
           c == Op(w)[3]
           sp == Changed(j.seen[s], c)
           row == spaceRow[j.seen[s].owner]
           k == [j EXCEPT !.todo = Rest(w), !.seen = Nothing, !.space = sp, !.row = row]
<1>1. Op(w)[1] = "load" /\ UNCHANGED rows
  BY DEF Load
<1> SUFFICES ASSUME Go(w, k), s \in DOMAIN j.seen
             PROVE  Fine(e, w)'
  BY <1>1, Aborted, RowsStay DEF Load, Ready
<1>2. PICK F, G : /\ Holds(e, j, Reachable(w), F)
                  /\ Move(j.who, Op(w), F, G)
                  /\ Runs(j.who, Rest(w), G)
  BY <1>1, Called
<1>3. IsSeq(Rest(w)) /\ (Searches(Rest(w)) => Searches(j.todo))
  BY <1>1, Called
<1>4. /\ c[1] \in {"same", "admit", "remove", "add", "drop"}
      /\ c[1] = "admit" => <<"adm", s, c[2]>> \in F /\ c[2] \in User
      /\ c[1] = "remove" => \E y \in User \ {c[2]} : <<"owned", s, y>> \in F
      /\ c[1] = "add" => <<"data", c[2], s>> \in F /\ c[2] \in Dataset
      /\ G \subseteq Only(F, {"inv"}) \cup {<<"space", s>>, <<"row">>}
  BY <1>1, <1>2 DEF Move, ListMove, SpaceMove, MemberMove, AgentMove
<1>5. /\ IsJob(k)
      /\ k.todo = Rest(w) /\ k.who = j.who /\ k.seen = Nothing /\ k.ptr = j.ptr
      /\ k.space = sp /\ k.row = row /\ k.mine = j.mine /\ k.kept = j.kept
      /\ k.agent = j.agent /\ k.inv = j.inv /\ k.found = j.found
  <2>1. IsJob(j)
    BY DEF Ready, Sound
  <2> HIDE DEF j, s, c, sp, row
  <2>2. IsJob(k)
    BY <2>1, JobFields DEF IsJob
  <2> QED
    BY <2>1, <2>2, JobFields DEF IsJob
<1> HIDE DEF k
<1>6. \A f \in Only(F, {"inv"}) : f \in F /\ Same(j, k, f)
  BY <1>5 DEF But, Only, Same
<1>7. IsSpace(e, s, j.seen[s])
  BY DEF Ready, Sound, IsSpaces
<1>8. IsSpace(e, s, sp) /\ sp.owner = j.seen[s].owner /\ j.seen[s].owner \in User
  <2>1. \A x : <<"adm", s, x>> \in F => <<s, x>> \in e.adm
    BY <1>2 DEF Holds, Fact
  <2>2. \A x : <<"owned", s, x>> \in F => <<s, x>> \in e.own
    BY <1>2 DEF Holds, Fact
  <2>3. \A x : <<"data", x, s>> \in F => <<x, s>> \in e.data
    BY <1>2 DEF Holds, Fact
  <2>6. <<s, j.seen[s].owner>> \in e.own
    BY <1>7 DEF IsSpace
  <2>7. \A x, y : <<s, x>> \in e.own /\ <<s, y>> \in e.own => x = y
    BY DEF Ready, IsWorld
  <2>4. c[1] = "remove" => c[2] # j.seen[s].owner
    <3> HIDE DEF s, c, j
    <3> QED
      BY <1>4, <2>2, <2>6, <2>7
  <2>5. j.seen[s].owner \in User
    BY <1>7 DEF IsSpace
  <2>8. c[1] = "admit" => c[2] \in User /\ <<s, c[2]>> \in e.adm
    BY <1>4, <2>1
  <2>9. c[1] = "add" => c[2] \in Dataset /\ <<c[2], s>> \in e.data
    BY <1>4, <2>3
  <2>10. c[1] \in {"same", "admit", "remove", "add", "drop"}
    BY <1>4
  <2> DEFINE r == j.seen[s]
  <2>12. IsSpace(e, s, r) /\ (c[1] = "remove" => c[2] # r.owner) /\ sp = Changed(r, c)
    BY <1>7, <2>4
  <2> HIDE DEF s, c, j, r, sp
  <2>13. IsSpace(e, s, Changed(r, c)) /\ Changed(r, c).owner = r.owner
    BY <2>8, <2>9, <2>10, <2>12, ChangedSpace
  <2>11. IsSpace(e, s, sp) /\ sp.owner = j.seen[s].owner
    BY <2>12, <2>13 DEF r
  <2> QED
    BY <2>5, <2>11
<1>9. IsSpaces(e, row) /\ \A x \in DOMAIN row : row[x].owner = sp.owner
  BY <1>8 DEF Ready, Rows, SpaceRows
<1>10. Fact(e, k, Reachable(w)', <<"space", s>>)
  BY <1>5, <1>8 DEF Fact
<1>11. Fact(e, k, Reachable(w)', <<"row">>)
  <2> HIDE DEF row, sp
  <2> QED
    BY <1>5, <1>9 DEF Fact
<1>12. IsSpaces(e, k.seen)
  BY <1>5, EmptyList
<1>13. \A f \in G : (f \in F /\ Same(j, k, f)) \/ Fact(e, k, Reachable(w)', f)
  BY <1>4, <1>6, <1>10, <1>11
<1> QED
  BY <1>2, <1>3, <1>5, <1>12, <1>13, GoesOn

\* The calls that list_spaces still has to make.
LEMMA RunsListing ==
    ASSUME NEW u, NEW v \in User, NEW left \in SUBSET User, NEW seen, NEW ptr,
           NEW s, NEW H, IsSeq(s), Runs(u, s, H), {<<"sees", v>>, <<"ptr", v>>} \subseteq H,
           H \subseteq But(H, {"sees"}) \cup {<<"sees", v>>}
    PROVE  /\ Runs(u, Listing(v, left, seen, ptr, s), H)
           /\ IsSeq(Listing(v, left, seen, ptr, s))
           /\ Searches(Listing(v, left, seen, ptr, s)) => Searches(s)
<1> DEFINE a == <<"others", v, left>>
           b == <<"back", v>>
<1>1. Move(u, a, H, H) /\ Move(u, b, H, H)
  BY DEF Move, ListMove, SpaceMove, MemberMove, AgentMove
<1>2. a[1] # "search" /\ b[1] # "search"
  OBVIOUS
<1> HIDE DEF a, b
<1>3. Listing(v, left, seen, ptr, s) \in {Then(a, s), Then(b, s), s}
  BY DEF Listing, Then, a, b
<1>4. IsSeq(Then(a, s)) /\ IsSeq(Then(b, s))
      /\ (Searches(Then(a, s)) => Searches(s)) /\ (Searches(Then(b, s)) => Searches(s))
  BY <1>2, FirstCall
<1>5. Runs(u, Then(a, s), H) /\ Runs(u, Then(b, s), H)
  BY <1>1, RunsThen
<1> QED
  BY <1>3, <1>4, <1>5

\* list_spaces reads the asker's membership list.
LEMMA PointersStep ==
    ASSUME NEW e, NEW w \in Worker, Ready(e, w), Pointers(w), History
    PROVE  Fine(e, w)' /\ Rows(e)'
<1> DEFINE j == job[w]
           v == Op(w)[2]
           ptr == pointerRow[v]
           left == {p.owner : p \in ptr} \ {v}
           todo == Listing(v, left, j.seen, ptr, Rest(w))
           k == [j EXCEPT !.ptr = ptr, !.todo = todo]
<1>1. Op(w)[1] = "ptr" /\ Go(w, k) /\ UNCHANGED rows
  BY DEF Pointers
<1>2. PICK F, G : /\ Holds(e, j, Reachable(w), F)
                  /\ Move(j.who, Op(w), F, G)
                  /\ Runs(j.who, Rest(w), G)
  BY <1>1, Called
<1>3. IsSeq(Rest(w)) /\ (Searches(Rest(w)) => Searches(j.todo))
  BY <1>1, Called
<1>4. /\ <<"sees", v>> \in F /\ v \in User
      /\ G \subseteq But(F, {"sees", "ptr"}) \cup {<<"sees", v>>, <<"ptr", v>>}
  BY <1>1, <1>2 DEF Move, ListMove, SpaceMove, MemberMove, AgentMove
<1>5. /\ IsJob(k)
      /\ k.todo = todo /\ k.who = j.who /\ k.seen = j.seen /\ k.ptr = ptr
      /\ k.space = j.space /\ k.row = j.row /\ k.mine = j.mine /\ k.kept = j.kept
      /\ k.agent = j.agent /\ k.inv = j.inv /\ k.found = j.found
  <2>1. IsJob(j)
    BY DEF Ready, Sound
  <2> HIDE DEF j, v, ptr, todo
  <2>2. IsJob(k)
    BY <2>1, JobFields DEF IsJob
  <2> QED
    BY <2>1, <2>2, JobFields DEF IsJob
<1> HIDE DEF k
<1>6. \A f \in But(F, {"ptr"}) : f \in F /\ Same(j, k, f)
  BY <1>5 DEF But, Only, Same
<1>7. IsSpaces(e, j.seen)
  BY DEF Ready, Sound
<1>8. IsPointers(v, ptr)
  BY <1>4 DEF Ready, Rows, PointerRows
<1>9. left \in SUBSET User
  BY <1>8 DEF IsPointers
<1> DEFINE H == G \cup {<<"sees", v>>, <<"ptr", v>>}
<1>10. Runs(j.who, Rest(w), H)
  BY <1>2, <1>3, RunsMore
<1>11. Runs(j.who, todo, H) /\ IsSeq(todo) /\ (Searches(todo) => Searches(j.todo))
  <2>1. {<<"sees", v>>, <<"ptr", v>>} \subseteq H /\ H \subseteq But(H, {"sees"}) \cup {<<"sees", v>>}
    BY <1>4 DEF But
  <2> HIDE DEF left, ptr, v, j, H
  <2> QED
    BY <1>4, <1>3, <1>9, <1>10, <2>1, RunsListing
<1>12. Fact(e, k, Reachable(w)', <<"ptr", v>>)
  <2> HIDE DEF ptr
  <2> QED
    BY <1>5, <1>8 DEF Fact
<1>13. <<"sees", v>> \in But(F, {"ptr"}) /\ But(F, {"sees", "ptr"}) \subseteq But(F, {"ptr"})
  BY <1>4 DEF But
<1>14. \A f \in H : (f \in F /\ Same(j, k, f)) \/ Fact(e, k, Reachable(w)', f)
  BY <1>4, <1>6, <1>12, <1>13
<1> HIDE DEF H, todo
<1>15. Fine(e, w)'
  BY <1>1, <1>2, <1>5, <1>7, <1>11, <1>14, GoesOn
<1> QED
  BY <1>1, <1>15, RowsStay DEF Ready

\* list_spaces reads the list of one owner the asker has a pointer to.
LEMMA OthersStep ==
    ASSUME NEW e, NEW w \in Worker, Ready(e, w), Others(w), History
    PROVE  Fine(e, w)' /\ Rows(e)'
<1> DEFINE j == job[w]
           v == Op(w)[2]
<1>1. Op(w)[1] = "others" /\ UNCHANGED rows
  BY DEF Others
<1>2. PICK F, G : /\ Holds(e, j, Reachable(w), F)
                  /\ Move(j.who, Op(w), F, G)
                  /\ Runs(j.who, Rest(w), G)
  BY <1>1, Called
<1>3. IsSeq(Rest(w)) /\ (Searches(Rest(w)) => Searches(j.todo))
  BY <1>1, Called
<1>4. /\ {<<"sees", v>>, <<"ptr", v>>} \subseteq F
      /\ v \in User /\ Op(w)[3] \subseteq User
      /\ G \subseteq But(F, {"sees"}) \cup {<<"sees", v>>}
  BY <1>1, <1>2 DEF Move, ListMove, SpaceMove, MemberMove, AgentMove
<1>20. PICK o \in Op(w)[3] :
         LET mine == {s \in DOMAIN spaceRow[o] : /\ Pair(o, s) \in j.ptr
                                                 /\ v \in spaceRow[o][s].members}
             seen == [s \in DOMAIN j.seen \cup mine |->
                        IF s \in mine THEN spaceRow[o][s] ELSE j.seen[s]]
         IN  Go(w, [j EXCEPT !.seen = seen,
                      !.todo = Listing(v, Op(w)[3] \ {o}, seen, j.ptr, Rest(w))])
  BY DEF Others
<1> DEFINE mine == {s \in DOMAIN spaceRow[o] : /\ Pair(o, s) \in j.ptr
                                               /\ v \in spaceRow[o][s].members}
           seen == [s \in DOMAIN j.seen \cup mine |->
                      IF s \in mine THEN spaceRow[o][s] ELSE j.seen[s]]
           todo == Listing(v, Op(w)[3] \ {o}, seen, j.ptr, Rest(w))
           k == [j EXCEPT !.seen = seen, !.todo = todo]
<1>21. Go(w, k)
  BY <1>20
<1>5. /\ IsJob(k)
      /\ k.todo = todo /\ k.who = j.who /\ k.seen = seen /\ k.ptr = j.ptr
      /\ k.space = j.space /\ k.row = j.row /\ k.mine = j.mine /\ k.kept = j.kept
      /\ k.agent = j.agent /\ k.inv = j.inv /\ k.found = j.found
  <2>1. IsJob(j)
    BY DEF Ready, Sound
  <2> HIDE DEF j, v, seen, todo, mine
  <2>2. IsJob(k)
    BY <2>1, JobFields DEF IsJob
  <2> QED
    BY <2>1, <2>2, JobFields DEF IsJob
<1> HIDE DEF k
<1>6. \A f \in But(F, {"sees"}) : f \in F /\ Same(j, k, f)
  BY <1>5 DEF But, Only, Same
<1>7. IsSpaces(e, j.seen)
  BY DEF Ready, Sound
<1>8. IsSpaces(e, spaceRow[o])
  BY <1>4 DEF Ready, Rows, SpaceRows
<1>9. IsSpaces(e, seen)
  BY <1>7, <1>8 DEF IsSpaces
<1> DEFINE H == G \cup {<<"sees", v>>, <<"ptr", v>>}
<1>10. Runs(j.who, Rest(w), H)
  BY <1>2, <1>3, RunsMore
<1>11. Runs(j.who, todo, H) /\ IsSeq(todo) /\ (Searches(todo) => Searches(j.todo))
  <2> DEFINE left == Op(w)[3] \ {o}
  <2>1. left \in SUBSET User
    BY <1>4
  <2>3. {<<"sees", v>>, <<"ptr", v>>} \subseteq H /\ H \subseteq But(H, {"sees"}) \cup {<<"sees", v>>}
    BY <1>4 DEF But
  <2> HIDE DEF left, v, j, seen, H
  <2>2. todo = Listing(v, left, seen, j.ptr, Rest(w))
    BY DEF left
  <2> HIDE DEF todo
  <2> QED
    BY <1>4, <1>3, <1>10, <2>1, <2>2, <2>3, RunsListing
<1>12. \A s \in DOMAIN j.seen : Sees(e, v, s) /\ (v = j.who => s \in Reachable(w))
  BY <1>2, <1>4 DEF Holds, Fact
<1>13. Searches(k.todo) => Searches(j.todo)
  BY <1>5, <1>11
<1>14. Reachable(w) \subseteq Reachable(w)'
  BY <1>13, <1>21, ReachesMore DEF Ready
<1>15. ASSUME NEW s \in mine
       PROVE  Sees(e, v, s) /\ (v = j.who => s \in Reachable(w)')
  <2>1. IsSpace(e, s, spaceRow[o][s]) /\ v \in spaceRow[o][s].members /\ s \in DOMAIN spaceRow[o]
    BY <1>8 DEF IsSpaces
  <2>2. Sees(e, v, s) /\ s \in Space
    BY <2>1 DEF IsSpace, Sees, Ready, IsWorld
  <2>3. spaceRow' = spaceRow
    BY <1>1 DEF rows
  <2> QED
    BY <1>4, <1>5, <1>13, <1>21, <2>1, <2>2, <2>3, ReachesMore DEF Ready
<1>16. Fact(e, k, Reachable(w)', <<"sees", v>>)
  <2>1. \A s \in DOMAIN seen : Sees(e, v, s) /\ (v = k.who => s \in Reachable(w)')
    BY <1>5, <1>12, <1>14, <1>15
  <2> HIDE DEF seen
  <2> QED
    BY <1>4, <1>5, <2>1 DEF Fact
<1>17. <<"ptr", v>> \in But(F, {"sees"})
  BY <1>4 DEF But
<1>18. \A f \in H : (f \in F /\ Same(j, k, f)) \/ Fact(e, k, Reachable(w)', f)
  BY <1>4, <1>6, <1>16, <1>17
<1> HIDE DEF H, todo, seen
<1>19. Fine(e, w)'
  BY <1>2, <1>5, <1>9, <1>11, <1>18, <1>21, GoesOn
<1> QED
  BY <1>1, <1>19, RowsStay DEF Ready

-----------------------------------------------------------------------------
(* Calls that put others before the rest *)

\* Two lists of calls before others.
LEMMA BothBefore ==
    ASSUME NEW op, NEW p, NEW s, IsSeq(p), IsSeq(s)
    PROVE  /\ <<op>> \o p \o s = Then(op, p \o s)
           /\ IsSeq(Then(op, p \o s))
<1>1. Then(op, p) \o s = Then(op, p \o s) /\ IsSeq(p \o s)
  BY CallsBefore
<1>2. IsSeq(Then(op, p \o s))
  BY <1>1, FirstCall
<1> QED
  BY <1>1, <1>2 DEF Then

\* The calls of sync_agent_chat before two lists of calls.
LEMMA SyncBeforeBoth ==
    ASSUME NEW o, NEW a, NEW mode, NEW p, NEW s, IsSeq(p), IsSeq(s)
    PROVE  Sync(o, a, mode) \o p \o s = Syncing(o, a, mode, p \o s)
<1> DEFINE q == Sync(o, a, mode)
<1>1. IsSeq(q)
  BY NoCalls, SyncBefore
<1>2. \A t : IsSeq(t) => q \o t = Syncing(o, a, mode, t)
  BY SyncBefore
<1> HIDE DEF q
<1>3. PICK Q, P, S : q \in Seq(Q) /\ p \in Seq(P) /\ s \in Seq(S)
  BY <1>1 DEF IsSeq
<1> DEFINE U == Q \cup P \cup S
<1>4. q \in Seq(U) /\ p \in Seq(U) /\ s \in Seq(U)
  BY <1>3, SeqMonotonic
<1>5. (q \o p) \o s = q \o (p \o s) /\ p \o s \in Seq(U)
  BY <1>4, ConcatAssociative, ConcatProperties
<1>6. IsSeq(p \o s)
  BY <1>5 DEF IsSeq
<1>7. q \o (p \o s) = Syncing(o, a, mode, p \o s)
  BY <1>2, <1>6
<1> QED
  BY <1>5, <1>7 DEF q

\* sync_agent_chat can be called by whoever holds a record of the owner's.
LEMMA RunsSync ==
    ASSUME NEW u, NEW o \in User, NEW a, NEW mode \in {"plain", "remove", "complete"},
           NEW s, NEW F, NEW G, IsSeq(s), Runs(u, s, G),
           <<"agent", o>> \in F,
           mode = "remove" => <<"kept", o>> \in F,
           mode = "complete" => <<"close", o>> \in F,
           G \subseteq Only(F, {"kept", "rec"})
                       \cup IF mode = "complete" THEN {<<"found">>} ELSE {}
    PROVE  Runs(u, Syncing(o, a, mode, s), F)
<1> DEFINE K == Only(F, {"kept", "rec", "agent", "close"})
           F1 == K \cup {<<"sees", o>>}
           F2 == K \cup {<<"sees", o>>, <<"ptr", o>>}
           F3 == K \cup {<<"sees", o>>, <<"mine", o>>}
           c1 == <<"own", o>>
           c2 == <<"ptr", o>>
           c3 == <<"aread", o>>
           c4 == <<"sync", o, a, mode>>
<1>1. K \subseteq F /\ (\A K2 : K2 \cap {"kept", "rec", "agent", "close"} = {} => K \subseteq But(F, K2))
  BY DEF Only, But
<1>2. Move(u, c1, F, F1)
  BY <1>1 DEF Move, ListMove, SpaceMove, MemberMove, AgentMove
<1>3. Move(u, c2, F1, F2)
  <2>1. K \subseteq But(F1, {"sees", "ptr"})
    BY DEF Only, But
  <2> HIDE DEF K
  <2> QED
    BY <2>1 DEF Move, ListMove, SpaceMove, MemberMove, AgentMove
<1>4. Move(u, c3, F2, F3)
  <2>1. K \cup {<<"sees", o>>} \subseteq But(F2, {"mine", "has"})
    BY DEF Only, But
  <2> HIDE DEF K
  <2> QED
    BY <2>1 DEF Move, ListMove, SpaceMove, MemberMove, AgentMove
<1>5. Move(u, c4, F3, G)
  <2>1. Only(F, {"kept", "rec"}) \subseteq Only(F3, {"kept", "rec"})
    BY DEF Only
  <2>2. /\ <<"agent", o>> \in F3
        /\ mode = "remove" => <<"kept", o>> \in F3
        /\ mode = "complete" => <<"close", o>> \in F3
    BY DEF Only
  <2>3. <<"mine", o>> \in F3 /\ <<"sees", o>> \in F3
    OBVIOUS
  <2> HIDE DEF F3
  <2> QED
    BY <2>1, <2>2, <2>3 DEF Move, ListMove, SpaceMove, MemberMove, AgentMove
<1> HIDE DEF c1, c2, c3, c4, F1, F2, F3
<1>6. /\ IsSeq(Then(c4, s)) /\ IsSeq(Then(c3, Then(c4, s)))
      /\ IsSeq(Then(c2, Then(c3, Then(c4, s))))
  BY FirstCall
<1>7. Runs(u, Then(c4, s), F3)
  BY <1>5, RunsThen
<1>8. Runs(u, Then(c3, Then(c4, s)), F2)
  BY <1>4, <1>6, <1>7, RunsThen
<1>9. Runs(u, Then(c2, Then(c3, Then(c4, s))), F1)
  BY <1>3, <1>6, <1>8, RunsThen
<1>10. Runs(u, Then(c1, Then(c2, Then(c3, Then(c4, s)))), F)
  BY <1>2, <1>6, <1>9, RunsThen
<1> QED
  BY <1>10 DEF Syncing, c1, c2, c3, c4

\* delete_space goes on to the next member.
LEMMA LeaveStep ==
    ASSUME NEW e, NEW w \in Worker, Ready(e, w), Leave(w), History
    PROVE  Fine(e, w)' /\ Rows(e)'
<1> DEFINE j == job[w]
           s == Op(w)[2]
<1>1. Op(w)[1] = "leave" /\ UNCHANGED rows
  BY DEF Leave
<1>2. PICK F, G : /\ Holds(e, j, Reachable(w), F)
                  /\ Move(j.who, Op(w), F, G)
                  /\ Runs(j.who, Rest(w), G)
  BY <1>1, Called
<1>3. IsSeq(Rest(w)) /\ (Searches(Rest(w)) => Searches(j.todo))
  BY <1>1, Called
<1>4. Op(w)[3] \subseteq User /\ G \subseteq But(F, {"ptr"})
  BY <1>1, <1>2 DEF Move, ListMove, SpaceMove, MemberMove, AgentMove
<1>20. PICK m \in Op(w)[3] :
         Go(w, [j EXCEPT !.ptr = pointerRow[m],
                  !.todo = <<<<"mwrite", m, Pair(j.who, s), FALSE>>>>
                           \o Loop("leave", s, Op(w)[3] \ {m}) \o Rest(w)])
  BY DEF Leave
<1> DEFINE left == Op(w)[3] \ {m}
           a == <<"mwrite", m, Pair(j.who, s), FALSE>>
           more == Loop("leave", s, left)
           todo == <<a>> \o more \o Rest(w)
           k == [j EXCEPT !.ptr = pointerRow[m], !.todo = todo]
<1>21. Go(w, k)
  BY <1>20
<1>5. /\ IsJob(k)
      /\ k.todo = todo /\ k.who = j.who /\ k.seen = j.seen /\ k.ptr = pointerRow[m]
      /\ k.space = j.space /\ k.row = j.row /\ k.mine = j.mine /\ k.kept = j.kept
      /\ k.agent = j.agent /\ k.inv = j.inv /\ k.found = j.found
  <2>1. IsJob(j)
    BY DEF Ready, Sound
  <2> HIDE DEF j, todo
  <2>2. IsJob(k)
    BY <2>1, JobFields DEF IsJob
  <2> QED
    BY <2>1, <2>2, JobFields DEF IsJob
<1> HIDE DEF k
<1>6. \A f \in But(F, {"ptr"}) : f \in F /\ Same(j, k, f)
  BY <1>5 DEF But, Only, Same
<1>7. IsSpaces(e, j.seen)
  BY DEF Ready, Sound
<1> DEFINE H == G \cup {<<"ptr", m>>}
<1>8. Runs(j.who, more \o Rest(w), G) /\ IsSeq(more) /\ IsSeq(more \o Rest(w))
      /\ (Searches(more \o Rest(w)) => Searches(Rest(w)))
  <2> DEFINE c == <<"leave", s, left>>
  <2>1. Move(j.who, c, G, G)
    <3>1. G \subseteq But(G, {"ptr"})
      BY <1>4 DEF But
    <3> QED
      BY <1>4, <3>1 DEF Move, ListMove, SpaceMove, MemberMove, AgentMove
  <2>2. /\ more \o Rest(w) \in {Rest(w), Then(c, Rest(w))}
        /\ IsSeq(more) /\ IsSeq(more \o Rest(w))
        /\ Searches(more \o Rest(w)) => "leave" = "search" \/ Searches(Rest(w))
    <3> HIDE DEF left, s
    <3> QED
      BY <1>3, LoopBefore
  <2> HIDE DEF c, left, more, j
  <2>3. Runs(j.who, Then(c, Rest(w)), G)
    BY <1>2, <1>3, <2>1, RunsThen
  <2> QED
    BY <1>2, <2>2, <2>3
<1>9. Move(j.who, a, H, G)
  <2>1. G \subseteq But(H, {"ptr"})
    BY <1>4 DEF But
  <2>2. <<"ptr", m>> \in H
    OBVIOUS
  <2> HIDE DEF H
  <2> QED
    BY <2>1, <2>2 DEF Move, ListMove, SpaceMove, MemberMove, AgentMove
<1>10. Runs(j.who, todo, H) /\ IsSeq(todo) /\ (Searches(todo) => Searches(j.todo))
  <2>1. a[1] # "search"
    OBVIOUS
  <2> HIDE DEF a, more, H, j
  <2>2. todo = Then(a, more \o Rest(w)) /\ IsSeq(todo)
    <3>1. IsSeq(more) /\ IsSeq(Rest(w))
      BY <1>3, <1>8
    <3>2. /\ <<a>> \o more \o Rest(w) = Then(a, more \o Rest(w))
          /\ IsSeq(Then(a, more \o Rest(w)))
      BY <3>1, BothBefore
    <3> QED
      BY <3>2
  <2> HIDE DEF todo
  <2>3. Runs(j.who, todo, H)
    BY <1>8, <1>9, <2>2, RunsThen
  <2>4. Searches(todo) => Searches(j.todo)
    BY <1>3, <1>8, <2>1, <2>2, FirstCall
  <2> QED
    BY <2>2, <2>3, <2>4
<1>11. Fact(e, k, Reachable(w)', <<"ptr", m>>)
  BY <1>4, <1>5 DEF Fact, Ready, Rows, PointerRows
<1>12. \A f \in H : (f \in F /\ Same(j, k, f)) \/ Fact(e, k, Reachable(w)', f)
  BY <1>4, <1>6, <1>11
<1> HIDE DEF H, todo
<1>13. Fine(e, w)'
  BY <1>2, <1>5, <1>7, <1>10, <1>12, <1>21, GoesOn
<1> QED
  BY <1>1, <1>13, RowsStay DEF Ready

\* The next account on the list is invited, unless the copy lists it already.
LEMMA InviteStep ==
    ASSUME NEW e, NEW w \in Worker, Ready(e, w), Invite(w), History
    PROVE  Fine(e, w)' /\ Rows(e)'
<1> DEFINE j == job[w]
           s == Op(w)[2]
           left == Op(w)[3] \ j.space.members
<1>1. Op(w)[1] = "invite" /\ UNCHANGED rows
  BY DEF Invite
<1>2. PICK F, G : /\ Holds(e, j, Reachable(w), F)
                  /\ Move(j.who, Op(w), F, G)
                  /\ Runs(j.who, Rest(w), G)
  BY <1>1, Called
<1>3. IsSeq(Rest(w)) /\ (Searches(Rest(w)) => Searches(j.todo))
  BY <1>1, Called
<1>4. Op(w)[3] \subseteq User /\ <<"space", s>> \in F /\ G \subseteq But(F, {"inv"})
  BY <1>1, <1>2 DEF Move, ListMove, SpaceMove, MemberMove, AgentMove
<1>7. IsSpaces(e, j.seen)
  BY DEF Ready, Sound
<1>20. CASE left = {}
  <2> DEFINE k == [j EXCEPT !.todo = Rest(w)]
  <2>4. Go(w, k)
    BY <1>20 DEF Invite
  <2>5. /\ IsJob(k)
        /\ k.todo = Rest(w) /\ k.who = j.who /\ k.seen = j.seen /\ k.ptr = j.ptr
        /\ k.space = j.space /\ k.row = j.row /\ k.mine = j.mine /\ k.kept = j.kept
        /\ k.agent = j.agent /\ k.inv = j.inv /\ k.found = j.found
    <3>1. IsJob(j)
      BY DEF Ready, Sound
    <3> HIDE DEF j, s, left
    <3>2. IsJob(k)
      BY <3>1, JobFields DEF IsJob
    <3> QED
      BY <3>1, <3>2, JobFields DEF IsJob
  <2> HIDE DEF k
  <2>6. \A f \in But(F, {"inv"}) : f \in F /\ Same(j, k, f)
    BY <2>5 DEF But, Only, Same
  <2>7. Fine(e, w)'
    BY <1>2, <1>4, <1>3, <1>7, <2>4, <2>5, <2>6, GoesOn
  <2> QED
    BY <1>1, <2>7, RowsStay DEF Ready
<1>21. CASE left # {}
  <2>1. PICK v \in left :
          Go(w, [j EXCEPT !.inv = inviteRow[v],
                   !.todo = <<<<"iwrite", v, s, "pending">>>>
                            \o Loop("invite", s, left \ {v}) \o Rest(w)])
    BY <1>21 DEF Invite
  <2> DEFINE a == <<"iwrite", v, s, "pending">>
             more == Loop("invite", s, left \ {v})
             todo == <<a>> \o more \o Rest(w)
             k == [j EXCEPT !.inv = inviteRow[v], !.todo = todo]
  <2>4. Go(w, k)
    BY <2>1
  <2>5. /\ IsJob(k)
        /\ k.todo = todo /\ k.who = j.who /\ k.seen = j.seen /\ k.ptr = j.ptr
        /\ k.space = j.space /\ k.row = j.row /\ k.mine = j.mine /\ k.kept = j.kept
        /\ k.agent = j.agent /\ k.inv = inviteRow[v] /\ k.found = j.found
    <3>1. IsJob(j)
      BY DEF Ready, Sound
    <3> HIDE DEF j, s, left, todo
    <3>2. IsJob(k)
      BY <3>1, JobFields DEF IsJob
    <3> QED
      BY <3>1, <3>2, JobFields DEF IsJob
  <2> HIDE DEF k
  <2>6. \A f \in But(F, {"inv"}) : f \in F /\ Same(j, k, f)
    BY <2>5 DEF But, Only, Same
  <2>7. v \in User /\ v \notin j.space.members
    BY <1>4
  <2>8. IsSpace(e, s, j.space)
    BY <1>2, <1>4 DEF Holds, Fact
  <2> DEFINE y == j.space.owner
             H == G \cup {<<"space", s>>}
             F1 == H \cup {<<"inv", v>>, <<"owned", s, y>>}
             c == <<"invite", s, left \ {v}>>
  <2>9. y \in User \ {v} /\ <<s, y>> \in e.own
    BY <2>7, <2>8 DEF IsSpace
  <2>10. Move(j.who, c, H, G)
    <3>1. G \subseteq But(H, {"inv"}) /\ <<"space", s>> \in H /\ left \ {v} \subseteq User
      BY <1>4 DEF But
    <3> HIDE DEF H
    <3> QED
      BY <3>1 DEF Move, ListMove, SpaceMove, MemberMove, AgentMove
  <2>11. Move(j.who, a, F1, H)
    <3>1. /\ H \subseteq But(F1, {"inv"}) /\ <<"inv", v>> \in F1
          /\ <<"owned", s, y>> \in F1
      BY <1>4 DEF But
    <3> HIDE DEF H, F1, y
    <3> QED
      BY <2>9, <3>1 DEF Move, ListMove, SpaceMove, MemberMove, AgentMove, Status
  <2>12. /\ more \o Rest(w) \in {Rest(w), Then(c, Rest(w))}
         /\ IsSeq(more) /\ IsSeq(more \o Rest(w))
         /\ Searches(more \o Rest(w)) => "invite" = "search" \/ Searches(Rest(w))
    <3> HIDE DEF left, s
    <3> QED
      BY <1>3, LoopBefore
  <2>13. a[1] # "search"
    OBVIOUS
  <2>14. Fact(e, k, Reachable(w)', <<"inv", v>>)
    BY <2>5, <2>7 DEF Fact, Ready, Rows, InviteRows
  <2>15. Fact(e, k, Reachable(w)', <<"owned", s, y>>)
    BY <2>9 DEF Fact
  <2>16. <<"space", s>> \in But(F, {"inv"})
    BY <1>4 DEF But
  <2>17. \A f \in F1 : (f \in F /\ Same(j, k, f)) \/ Fact(e, k, Reachable(w)', f)
    BY <1>4, <2>6, <2>14, <2>15, <2>16
  <2>18. G \subseteq H
    OBVIOUS
  <2> HIDE DEF a, c, more, H, F1, y, j
  <2>19. Runs(j.who, more \o Rest(w), H)
    <3>1. Runs(j.who, Then(c, Rest(w)), H)
      BY <1>2, <1>3, <2>10, RunsThen
    <3>2. Runs(j.who, Rest(w), H)
      BY <1>2, <1>3, <2>18, RunsMore
    <3> QED
      BY <2>12, <3>1, <3>2
  <2>20. todo = Then(a, more \o Rest(w)) /\ IsSeq(todo)
    <3>1. /\ <<a>> \o more \o Rest(w) = Then(a, more \o Rest(w))
          /\ IsSeq(Then(a, more \o Rest(w)))
      BY <1>3, <2>12, BothBefore
    <3> QED
      BY <3>1
  <2> HIDE DEF todo
  <2>21. Runs(j.who, todo, F1)
    BY <2>11, <2>12, <2>19, <2>20, RunsThen
  <2>22. Searches(todo) => Searches(j.todo)
    BY <1>3, <2>12, <2>13, <2>20, FirstCall
  <2> USE DEF j
  <2>23. Fine(e, w)'
    BY <1>2, <1>7, <2>4, <2>5, <2>17, <2>20, <2>21, <2>22, GoesOn
  <2> QED
    BY <1>1, <2>23, RowsStay DEF Ready
<1> QED
  BY <1>20, <1>21

\* The assistants that draw on a space are found, with their records.
LEMMA FindAgentsStep ==
    ASSUME NEW e, NEW w \in Worker, Ready(e, w), FindAgents(w), History
    PROVE  Fine(e, w)' /\ Rows(e)'
<1> DEFINE j == job[w]
           s == Op(w)[2]
           left == {[owner |-> p[1], id |-> p[2], rec |-> agentRow[p[1]][p[2]]] : p \in
                      {q \in User \X Agent : /\ q[2] \in DOMAIN agentRow[q[1]]
                                             /\ s \in agentRow[q[1]][q[2]].spaces}}
           todo == Loop(Op(w)[3], s, left) \o Rest(w)
           k == [j EXCEPT !.space = Nothing, !.todo = todo]
<1>1. Op(w)[1] = "find" /\ Go(w, k) /\ UNCHANGED rows
  BY DEF FindAgents
<1>2. PICK F, G : /\ Holds(e, j, Reachable(w), F)
                  /\ Move(j.who, Op(w), F, G)
                  /\ Runs(j.who, Rest(w), G)
  BY <1>1, Called
<1>3. IsSeq(Rest(w)) /\ (Searches(Rest(w)) => Searches(j.todo))
  BY <1>1, Called
<1>4. Op(w)[3] \in {"each", "detach"} /\ G = {}
  BY <1>1, <1>2 DEF Move, ListMove, SpaceMove, MemberMove, AgentMove
<1>5. /\ IsJob(k)
      /\ k.todo = todo /\ k.who = j.who /\ k.seen = j.seen /\ k.ptr = j.ptr
      /\ k.space = Nothing /\ k.row = j.row /\ k.mine = j.mine /\ k.kept = j.kept
      /\ k.agent = j.agent /\ k.inv = j.inv /\ k.found = j.found
  <2>1. IsJob(j)
    BY DEF Ready, Sound
  <2> HIDE DEF j, s, left, todo
  <2>2. IsJob(k)
    BY <2>1, JobFields DEF IsJob
  <2> QED
    BY <2>1, <2>2, JobFields DEF IsJob
<1> HIDE DEF k
<1>7. IsSpaces(e, j.seen)
  BY DEF Ready, Sound
<1> DEFINE H == {<<"rec", x>> : x \in left}
           c == <<Op(w)[3], s, left>>
<1>8. Move(j.who, c, H, {})
  <2>1. \A x \in left : <<"rec", x>> \in H
    OBVIOUS
  <2> HIDE DEF H, left
  <2> QED
    BY <1>4, <2>1 DEF Move, ListMove, SpaceMove, MemberMove, AgentMove
<1>9. ASSUME NEW x \in left
      PROVE  x.owner \in User /\ IsAgent(e, x.owner, x.rec)
  <2>1. PICK p \in User \X Agent :
          /\ p[2] \in DOMAIN agentRow[p[1]]
          /\ x = [owner |-> p[1], id |-> p[2], rec |-> agentRow[p[1]][p[2]]]
    OBVIOUS
  <2>2. IsAgent(e, p[1], agentRow[p[1]][p[2]])
    BY <2>1 DEF Ready, Rows, AgentRows, IsAgents
  <2> QED
    BY <2>1, <2>2
<1>10. \A f \in H : Fact(e, k, Reachable(w)', f)
  <2> HIDE DEF left
  <2>1. SUFFICES ASSUME NEW x \in left
                 PROVE  Fact(e, k, Reachable(w)', <<"rec", x>>)
    OBVIOUS
  <2> QED
    BY <1>9 DEF Fact
<1>11. /\ todo \in {Rest(w), Then(c, Rest(w))}
       /\ IsSeq(todo)
       /\ Searches(todo) => Op(w)[3] = "search" \/ Searches(Rest(w))
  <2> HIDE DEF left, s
  <2> QED
    BY <1>3, LoopBefore
<1> HIDE DEF todo, c, H
<1>12. Runs(j.who, todo, H)
  <2>1. Runs(j.who, Then(c, Rest(w)), H)
    BY <1>2, <1>4, <1>3, <1>8, RunsThen
  <2>2. Runs(j.who, Rest(w), H)
    BY <1>2, <1>4, <1>3, RunsMore
  <2> QED
    BY <1>11, <2>1, <2>2
<1>13. Searches(todo) => Searches(j.todo)
  BY <1>4, <1>3, <1>11
<1>14. Fine(e, w)'
  BY <1>1, <1>2, <1>5, <1>7, <1>10, <1>11, <1>12, <1>13, GoesOn
<1> QED
  BY <1>1, <1>14, RowsStay DEF Ready
\* The next assistant found is synchronized, with its record as it was found.
LEMMA EachStep ==
    ASSUME NEW e, NEW w \in Worker, Ready(e, w), Each(w), History
    PROVE  Fine(e, w)' /\ Rows(e)'
<1> DEFINE j == job[w]
           s == Op(w)[2]
<1>1. Op(w)[1] = "each" /\ UNCHANGED rows
  BY DEF Each
<1>2. PICK F, G : /\ Holds(e, j, Reachable(w), F)
                  /\ Move(j.who, Op(w), F, G)
                  /\ Runs(j.who, Rest(w), G)
  BY <1>1, Called
<1>3. IsSeq(Rest(w)) /\ (Searches(Rest(w)) => Searches(j.todo))
  BY <1>1, Called
<1>4. (\A x \in Op(w)[3] : <<"rec", x>> \in F) /\ G = {}
  BY <1>1, <1>2 DEF Move, ListMove, SpaceMove, MemberMove, AgentMove
<1>20. PICK x \in Op(w)[3] :
         Go(w, [j EXCEPT !.agent = x.rec,
                  !.todo = Sync(x.owner, x.id, "plain")
                           \o Loop("each", s, Op(w)[3] \ {x}) \o Rest(w)])
  BY DEF Each
<1> DEFINE left == Op(w)[3] \ {x}
           more == Loop("each", s, left)
           todo == Sync(x.owner, x.id, "plain") \o more \o Rest(w)
           k == [j EXCEPT !.agent = x.rec, !.todo = todo]
<1>21. Go(w, k)
  BY <1>20
<1>5. /\ IsJob(k)
      /\ k.todo = todo /\ k.who = j.who /\ k.seen = j.seen /\ k.ptr = j.ptr
      /\ k.space = j.space /\ k.row = j.row /\ k.mine = j.mine /\ k.kept = j.kept
      /\ k.agent = x.rec /\ k.inv = j.inv /\ k.found = j.found
  <2>1. IsJob(j)
    BY DEF Ready, Sound
  <2> HIDE DEF j, todo
  <2>2. IsJob(k)
    BY <2>1, JobFields DEF IsJob
  <2> QED
    BY <2>1, <2>2, JobFields DEF IsJob
<1> HIDE DEF k
<1>6. \A f \in But(F, {"agent", "close", "drawn"}) : f \in F /\ Same(j, k, f)
  BY <1>5 DEF But, Only, Same
<1>7. IsSpaces(e, j.seen)
  BY DEF Ready, Sound
<1>8. x.owner \in User /\ IsAgent(e, x.owner, x.rec)
  BY <1>2, <1>4 DEF Holds, Fact
<1> DEFINE H == {<<"rec", y>> : y \in left}
           F1 == H \cup {<<"agent", x.owner>>}
           c == <<"each", s, left>>
<1>9. Move(j.who, c, H, {})
  <2>1. \A y \in left : <<"rec", y>> \in H
    OBVIOUS
  <2> HIDE DEF H, left
  <2> QED
    BY <2>1 DEF Move, ListMove, SpaceMove, MemberMove, AgentMove
<1>10. /\ more \o Rest(w) \in {Rest(w), Then(c, Rest(w))}
       /\ IsSeq(more) /\ IsSeq(more \o Rest(w))
       /\ Searches(more \o Rest(w)) => "each" = "search" \/ Searches(Rest(w))
  <2> HIDE DEF left, s
  <2> QED
    BY <1>3, LoopBefore
<1>11. \A f \in F1 : (f \in F /\ Same(j, k, f)) \/ Fact(e, k, Reachable(w)', f)
  <2>1. H \subseteq But(F, {"agent", "close", "drawn"})
    BY <1>4 DEF But
  <2>2. Fact(e, k, Reachable(w)', <<"agent", x.owner>>)
    BY <1>5, <1>8 DEF Fact
  <2> HIDE DEF H
  <2> QED
    BY <1>6, <2>1, <2>2
<1>12. H \subseteq Only(F1, {"kept", "rec"})
  BY DEF Only
<1>13. <<"agent", x.owner>> \in F1
  OBVIOUS
<1> HIDE DEF more, H, F1, c, j, left
<1>14. Runs(j.who, more \o Rest(w), H)
  <2>1. Runs(j.who, Then(c, Rest(w)), H)
    BY <1>2, <1>4, <1>3, <1>9, RunsThen
  <2>2. Runs(j.who, Rest(w), H)
    BY <1>2, <1>4, <1>3, RunsMore
  <2> QED
    BY <1>10, <2>1, <2>2
<1>15. todo = Syncing(x.owner, x.id, "plain", more \o Rest(w))
  BY <1>3, <1>10, SyncBeforeBoth
<1> HIDE DEF todo
<1>16. Runs(j.who, todo, F1)
  BY <1>8, <1>10, <1>12, <1>13, <1>14, <1>15, RunsSync
<1>17. IsSeq(todo) /\ (Searches(todo) => Searches(j.todo))
  BY <1>3, <1>10, <1>15, SyncBefore
<1> USE DEF j
<1>18. Fine(e, w)'
  BY <1>2, <1>5, <1>7, <1>11, <1>16, <1>17, <1>21, GoesOn
<1> QED
  BY <1>1, <1>18, RowsStay DEF Ready

\* delete_space takes the next assistant found from its owner's list as it is now.
LEMMA DetachStep ==
    ASSUME NEW e, NEW w \in Worker, Ready(e, w), Detach(w), History
    PROVE  Fine(e, w)' /\ Rows(e)'
<1> DEFINE j == job[w]
           s == Op(w)[2]
<1>1. Op(w)[1] = "detach" /\ UNCHANGED rows
  BY DEF Detach
<1>2. PICK F, G : /\ Holds(e, j, Reachable(w), F)
                  /\ Move(j.who, Op(w), F, G)
                  /\ Runs(j.who, Rest(w), G)
  BY <1>1, Called
<1>3. IsSeq(Rest(w)) /\ (Searches(Rest(w)) => Searches(j.todo))
  BY <1>1, Called
<1>4. (\A x \in Op(w)[3] : <<"rec", x>> \in F) /\ G = {}
  BY <1>1, <1>2 DEF Move, ListMove, SpaceMove, MemberMove, AgentMove
<1>7. IsSpaces(e, j.seen)
  BY DEF Ready, Sound
<1>8. PICK x \in Op(w)[3] :
        LET then == Loop("detach", s, Op(w)[3] \ {x}) \o Rest(w)
        IN  IF x.id \in DOMAIN agentRow[x.owner]
            THEN Go(w, [j EXCEPT !.mine = agentRow[x.owner],
                          !.todo = <<<<"strip", x.owner, x.id, s>>>> \o then])
            ELSE Go(w, [j EXCEPT !.todo = then])
  BY DEF Detach
<1> DEFINE left == Op(w)[3] \ {x}
           then == Loop("detach", s, left) \o Rest(w)
           H == {<<"rec", y>> : y \in left}
           c == <<"detach", s, left>>
<1>9. Move(j.who, c, H, {})
  <2>1. \A y \in left : <<"rec", y>> \in H
    OBVIOUS
  <2> HIDE DEF H, left
  <2> QED
    BY <2>1 DEF Move, ListMove, SpaceMove, MemberMove, AgentMove
<1>10. /\ then \in {Rest(w), Then(c, Rest(w))}
       /\ IsSeq(then)
       /\ Searches(then) => Searches(Rest(w))
  <2> HIDE DEF left, s
  <2>1. Searches(then) => "detach" = "search" \/ Searches(Rest(w))
    BY <1>3, LoopBefore
  <2>2. then \in {Rest(w), Then(c, Rest(w))} /\ IsSeq(then)
    BY <1>3, LoopBefore
  <2> QED
    BY <2>1, <2>2
<1>11. H \subseteq But(F, {"mine", "has"})
  BY <1>4 DEF But
<1>12. Runs(j.who, then, H)
  <2> HIDE DEF then, c, H
  <2>1. Runs(j.who, Then(c, Rest(w)), H)
    BY <1>2, <1>4, <1>3, <1>9, RunsThen
  <2>2. Runs(j.who, Rest(w), H)
    BY <1>2, <1>4, <1>3, RunsMore
  <2> QED
    BY <1>10, <2>1, <2>2
<1>20. CASE x.id \notin DOMAIN agentRow[x.owner]
  <2> DEFINE k == [j EXCEPT !.todo = then]
  <2>1. Go(w, k)
    BY <1>8, <1>20
  <2>5. /\ IsJob(k)
        /\ k.todo = then /\ k.who = j.who /\ k.seen = j.seen /\ k.ptr = j.ptr
        /\ k.space = j.space /\ k.row = j.row /\ k.mine = j.mine /\ k.kept = j.kept
        /\ k.agent = j.agent /\ k.inv = j.inv /\ k.found = j.found
    <3>1. IsJob(j)
      BY DEF Ready, Sound
    <3> HIDE DEF j, s, then, H
    <3>2. IsJob(k)
      BY <3>1, JobFields DEF IsJob
    <3> QED
      BY <3>1, <3>2, JobFields DEF IsJob
  <2> HIDE DEF k
  <2>6. \A f \in But(F, {"mine", "has"}) : f \in F /\ Same(j, k, f)
    BY <2>5 DEF But, Only, Same
  <2>7. Fine(e, w)'
    BY <1>2, <1>3, <1>7, <1>10, <1>11, <1>12, <2>1, <2>5, <2>6, GoesOn
  <2> QED
    BY <1>1, <2>7, RowsStay DEF Ready
<1>21. CASE x.id \in DOMAIN agentRow[x.owner]
  <2> DEFINE a == <<"strip", x.owner, x.id, s>>
             todo == <<a>> \o then
             k == [j EXCEPT !.mine = agentRow[x.owner], !.todo = todo]
             o == x.owner
             F1 == H \cup {<<"mine", o>>, <<"has", x.id>>}
  <2>1. Go(w, k)
    BY <1>8, <1>21
  <2>5. /\ IsJob(k)
        /\ k.todo = todo /\ k.who = j.who /\ k.seen = j.seen /\ k.ptr = j.ptr
        /\ k.space = j.space /\ k.row = j.row /\ k.kept = j.kept /\ k.agent = j.agent
        /\ k.inv = j.inv /\ k.found = j.found
        /\ k.mine = agentRow[x.owner]
    <3>1. IsJob(j)
      BY DEF Ready, Sound
    <3> HIDE DEF j, s, then, H, todo
    <3>2. IsJob(k)
      BY <3>1, JobFields DEF IsJob
    <3> QED
      BY <3>1, <3>2, JobFields DEF IsJob
  <2> HIDE DEF k
  <2>6. \A f \in But(F, {"mine", "has"}) : f \in F /\ Same(j, k, f)
    BY <2>5 DEF But, Only, Same
  <2>7. o \in User
    BY <1>2, <1>4 DEF Holds, Fact
  <2>8. Move(j.who, a, F1, H)
    <3>1. H \subseteq Only(F1, {"rec"})
      BY DEF H, Only
    <3>2. <<"mine", o>> \in F1 /\ <<"has", x.id>> \in F1
      OBVIOUS
    <3> HIDE DEF F1
    <3> QED
      BY <2>7, <3>1, <3>2 DEF Move, ListMove, SpaceMove, MemberMove, AgentMove
  <2>9. \A f \in F1 : (f \in F /\ Same(j, k, f)) \/ Fact(e, k, Reachable(w)', f)
    <3>1. Fact(e, k, Reachable(w)', <<"mine", o>>)
      BY <2>5, <2>7 DEF Fact, Ready, Rows, AgentRows
    <3>2. Fact(e, k, Reachable(w)', <<"has", x.id>>)
      BY <2>5, <1>21 DEF Fact
    <3> QED
      BY <1>11, <2>6, <3>1, <3>2
  <2>10. a[1] # "search"
    OBVIOUS
  <2>11. todo = Then(a, then)
    BY DEF todo, Then
  <2> HIDE DEF a, F1, H, then, todo, j
  <2>12. IsSeq(todo) /\ (Searches(todo) => Searches(j.todo))
    BY <1>3, <1>10, <2>10, <2>11, FirstCall
  <2>14. Runs(j.who, todo, F1)
    BY <1>10, <1>12, <2>8, <2>11, RunsThen
  <2> USE DEF j
  <2>13. Fine(e, w)'
    BY <1>2, <1>7, <2>1, <2>5, <2>9, <2>12, <2>14, GoesOn
  <2> QED
    BY <1>1, <2>13, RowsStay DEF Ready
<1> QED
  BY <1>20, <1>21

\* A completion takes an assistant that its asker may use, and synchronizes it.
LEMMA PickStep ==
    ASSUME NEW e, NEW w \in Worker, Ready(e, w), Pick(w), History
    PROVE  Fine(e, w)' /\ Rows(e)'
<1> DEFINE j == job[w]
           a == Op(w)[2]
           os == {o \in User : /\ a \in DOMAIN agentRow[o]
                               /\ \/ o = j.who
                                  \/ /\ agentRow[o][a].spaces # {}
                                     /\ agentRow[o][a].spaces \subseteq DOMAIN j.seen}
<1>1. Op(w)[1] = "pick" /\ UNCHANGED rows
  BY DEF Pick
<1> SUFFICES ASSUME NEW o \in os,
                    Go(w, [j EXCEPT !.seen = Nothing, !.agent = agentRow[o][a],
                             !.todo = Sync(o, a, "complete") \o Rest(w)])
             PROVE  Fine(e, w)'
  BY <1>1, Aborted, RowsStay DEF Pick, Ready
<1>2. PICK F, G : /\ Holds(e, j, Reachable(w), F)
                  /\ Move(j.who, Op(w), F, G)
                  /\ Runs(j.who, Rest(w), G)
  BY <1>1, Called
<1>3. IsSeq(Rest(w)) /\ (Searches(Rest(w)) => Searches(j.todo))
  BY <1>1, Called
<1>4. <<"sees", j.who>> \in F /\ G \subseteq {<<"found">>}
  BY <1>1, <1>2 DEF Move, ListMove, SpaceMove, MemberMove, AgentMove
<1> DEFINE todo == Sync(o, a, "complete") \o Rest(w)
           rec == agentRow[o][a]
           k == [j EXCEPT !.seen = Nothing, !.agent = rec, !.todo = todo]
<1>20. Go(w, k)
  OBVIOUS
<1>5. /\ IsJob(k)
      /\ k.todo = todo /\ k.who = j.who /\ k.seen = Nothing /\ k.ptr = j.ptr
      /\ k.space = j.space /\ k.row = j.row /\ k.mine = j.mine /\ k.kept = j.kept
      /\ k.agent = rec /\ k.inv = j.inv /\ k.found = j.found
  <2>1. IsJob(j)
    BY DEF Ready, Sound
  <2> HIDE DEF j, a, rec, todo
  <2>2. IsJob(k)
    BY <2>1, JobFields DEF IsJob
  <2> QED
    BY <2>1, <2>2, JobFields DEF IsJob
<1> HIDE DEF k
<1>7. IsSpaces(e, k.seen)
  BY <1>5, EmptyList
<1>8. o \in User /\ IsAgent(e, o, rec)
  BY DEF Ready, Rows, AgentRows, IsAgents
<1>9. todo = Syncing(o, a, "complete", Rest(w)) /\ IsSeq(todo)
      /\ (Searches(todo) => Searches(j.todo))
  <2>1. todo = Syncing(o, a, "complete", Rest(w))
    BY <1>3, SyncBefore
  <2> HIDE DEF todo, j, a
  <2>2. IsSeq(todo) /\ (Searches(todo) => Searches(Rest(w)))
    BY <1>3, <2>1, SyncBefore
  <2> QED
    BY <1>3, <2>1, <2>2
<1> DEFINE H == {<<"agent", o>>, <<"close", o>>}
<1>10. Runs(j.who, todo, H)
  <2>1. <<"agent", o>> \in H /\ <<"close", o>> \in H
    OBVIOUS
  <2>2. G \subseteq Only(H, {"kept", "rec"}) \cup {<<"found">>}
    BY <1>4
  <2> HIDE DEF H, todo, j, os
  <2>3. Runs(j.who, Syncing(o, a, "complete", Rest(w)), H)
    BY <1>2, <1>3, <1>8, <2>1, <2>2, RunsSync
  <2> QED
    BY <1>9, <2>3
<1>11. Reachable(w) \subseteq Reachable(w)'
  BY <1>5, <1>9, <1>20, ReachesMore DEF Ready
<1>12. Fact(e, k, Reachable(w)', <<"close", o>>)
  <2>1. \A x \in DOMAIN j.seen : x \in Reachable(w)
    BY <1>2, <1>4 DEF Holds, Fact
  <2>2. o = j.who \/ rec.spaces \subseteq Reachable(w)'
    BY <1>11, <2>1
  <2> HIDE DEF os
  <2> QED
    BY <1>5, <2>2 DEF Fact
<1>13. Fact(e, k, Reachable(w)', <<"agent", o>>)
  <2> HIDE DEF os
  <2> QED
    BY <1>5, <1>8 DEF Fact
<1>14. \A f \in H : (f \in F /\ Same(j, k, f)) \/ Fact(e, k, Reachable(w)', f)
  BY <1>12, <1>13
<1> HIDE DEF H, todo, os
<1> QED
  BY <1>2, <1>5, <1>7, <1>9, <1>10, <1>14, <1>20, GoesOn
-----------------------------------------------------------------------------
(* Calls that lead from what is known before them to what is known after   *)

\* Whoever knows F can make the calls in p, and knows G then.
Leads(u, p, F, G) ==
    /\ IsSeq(p)
    /\ \A s : IsSeq(s) /\ Runs(u, s, G) => IsSeq(p \o s) /\ Runs(u, p \o s, F)

\* There is no search among the calls in p.
Quiet(p) == IsSeq(p) /\ \A s : IsSeq(s) => (Searches(p \o s) => Searches(s))

\* A sequence that begins like one and goes on like another.
LEMMA ConcatEqual ==
    ASSUME NEW S, NEW p \in Seq(S), NEW q \in Seq(S), NEW t \in Seq(S),
           Len(t) = Len(p) + Len(q),
           \A i \in 1..Len(t) : t[i] = IF i <= Len(p) THEN p[i] ELSE q[i - Len(p)]
    PROVE  t = p \o q
<1>1. /\ p \o q \in Seq(S) /\ Len(p \o q) = Len(p) + Len(q)
      /\ \A i \in 1..(Len(p) + Len(q)) :
            (p \o q)[i] = IF i <= Len(p) THEN p[i] ELSE q[i - Len(p)]
  BY ConcatProperties
<1> DEFINE z == p \o q
<1>2. z \in Seq(S) /\ Len(z) = Len(t) /\ \A i \in 1..Len(t) : t[i] = z[i]
  BY <1>1
<1> HIDE DEF z
<1>3. t = z
  BY <1>2, SeqEqual
<1> QED
  BY <1>3 DEF z

\* Short lists of calls, as two lists.
LEMMA InTwo ==
    ASSUME NEW a, NEW b, NEW c, NEW d
    PROVE  /\ <<a, b>> = <<a>> \o <<b>>
           /\ <<a, b, c>> = <<a>> \o <<b, c>>
           /\ <<a, b, c, d>> = <<a, b>> \o <<c, d>>
<1> DEFINE S == {a, b, c, d}
           p == <<a>>  q == <<b>>  r == <<a, b>>  s == <<b, c>>  t == <<c, d>>
           x == <<a, b, c>>  y == <<a, b, c, d>>
<1>1. /\ p \in Seq(S) /\ Len(p) = 1 /\ p[1] = a
      /\ q \in Seq(S) /\ Len(q) = 1 /\ q[1] = b
      /\ r \in Seq(S) /\ Len(r) = 2 /\ r[1] = a /\ r[2] = b
  OBVIOUS
<1>2. /\ s \in Seq(S) /\ Len(s) = 2 /\ s[1] = b /\ s[2] = c
      /\ t \in Seq(S) /\ Len(t) = 2 /\ t[1] = c /\ t[2] = d
  OBVIOUS
<1>3. /\ x \in Seq(S) /\ Len(x) = 3 /\ x[1] = a /\ x[2] = b /\ x[3] = c
      /\ y \in Seq(S) /\ Len(y) = 4 /\ y[1] = a /\ y[2] = b /\ y[3] = c /\ y[4] = d
  OBVIOUS
<1> HIDE DEF p, q, r, s, t, x, y, S
<1>4. r = p \o q
  <2>1. /\ Len(r) = Len(p) + Len(q)
        /\ \A i \in 1..Len(r) : r[i] = IF i <= Len(p) THEN p[i] ELSE q[i - Len(p)]
    BY <1>1
  <2> QED
    BY <1>1, <2>1, ConcatEqual
<1>5. x = p \o s
  <2>1. /\ Len(x) = Len(p) + Len(s)
        /\ \A i \in 1..Len(x) : x[i] = IF i <= Len(p) THEN p[i] ELSE s[i - Len(p)]
    BY <1>1, <1>2, <1>3
  <2> QED
    BY <1>1, <1>2, <1>3, <2>1, ConcatEqual
<1>6. y = r \o t
  <2>1. /\ Len(y) = Len(r) + Len(t)
        /\ \A i \in 1..Len(y) : y[i] = IF i <= Len(r) THEN r[i] ELSE t[i - Len(r)]
    BY <1>1, <1>2, <1>3
  <2> QED
    BY <1>1, <1>2, <1>3, <2>1, ConcatEqual
<1> QED
  BY <1>4, <1>5, <1>6 DEF p, q, r, s, t, x, y

\* Lists of calls one after the other, with others after them.
LEMMA Grouped ==
    ASSUME NEW p, NEW q, NEW s, IsSeq(p), IsSeq(q), IsSeq(s)
    PROVE  IsSeq(p \o q) /\ (p \o q) \o s = p \o (q \o s) /\ IsSeq(q \o s)
<1>1. PICK P, Q, S : p \in Seq(P) /\ q \in Seq(Q) /\ s \in Seq(S)
  BY DEF IsSeq
<1> DEFINE U == P \cup Q \cup S
<1>2. p \in Seq(U) /\ q \in Seq(U) /\ s \in Seq(U)
  BY <1>1, SeqMonotonic
<1> HIDE DEF U
<1>3. (p \o q) \o s = p \o (q \o s) /\ p \o q \in Seq(U) /\ q \o s \in Seq(U)
  BY <1>2, ConcatAssociative, ConcatProperties
<1> QED
  BY <1>3 DEF IsSeq

\* One call.
LEMMA LeadsOne ==
    ASSUME NEW u, NEW a, NEW F, NEW G, Move(u, a, F, G)
    PROVE  Leads(u, <<a>>, F, G) /\ (a[1] # "search" => Quiet(<<a>>))
<1>1. \A s : <<a>> \o s = Then(a, s)
  BY DEF Then
<1>2. IsSeq(<<a>>)
  <2>1. IsSeq(<<>>) /\ <<a>> = Then(a, <<>>)
    BY NoCalls
  <2> QED
    BY <2>1, FirstCall
<1>3. ASSUME NEW s, IsSeq(s), Runs(u, s, G)
      PROVE  IsSeq(Then(a, s)) /\ Runs(u, Then(a, s), F)
  BY <1>3, FirstCall, RunsThen
<1>4. ASSUME NEW s, IsSeq(s), a[1] # "search"
      PROVE  Searches(Then(a, s)) => Searches(s)
  BY <1>4, FirstCall
<1>5. Leads(u, <<a>>, F, G)
  BY <1>1, <1>2, <1>3 DEF Leads
<1>6. a[1] # "search" => Quiet(<<a>>)
  BY <1>1, <1>2, <1>4 DEF Quiet
<1> QED
  BY <1>5, <1>6

\* Two lists of calls.
LEMMA LeadsBoth ==
    ASSUME NEW u, NEW p, NEW q, NEW F, NEW G, NEW H, Leads(u, p, F, G), Leads(u, q, G, H)
    PROVE  Leads(u, p \o q, F, H) /\ (Quiet(p) /\ Quiet(q) => Quiet(p \o q))
<1>1. IsSeq(p) /\ IsSeq(q)
  BY DEF Leads
<1>2. IsSeq(p \o q)
  <2>1. IsSeq(<<>>)
    BY NoCalls
  <2> QED
    BY <1>1, <2>1, Grouped
<1>3. ASSUME NEW s, IsSeq(s), Runs(u, s, H)
      PROVE  IsSeq((p \o q) \o s) /\ Runs(u, (p \o q) \o s, F)
  <2>1. IsSeq(q \o s) /\ Runs(u, q \o s, G)
    BY <1>3 DEF Leads
  <2>2. IsSeq(p \o (q \o s)) /\ Runs(u, p \o (q \o s), F)
    BY <2>1 DEF Leads
  <2>3. (p \o q) \o s = p \o (q \o s)
    BY <1>1, <1>3, Grouped
  <2> QED
    BY <2>2, <2>3
<1>4. ASSUME NEW s, IsSeq(s), Quiet(p), Quiet(q)
      PROVE  Searches((p \o q) \o s) => Searches(s)
  <2>4. IsSeq(q \o s)
    BY <1>1, <1>4, Grouped
  <2>1. (p \o q) \o s = p \o (q \o s)
    BY <1>1, <1>4, Grouped
  <2>2. Searches(p \o (q \o s)) => Searches(q \o s)
    BY <1>4, <2>4 DEF Quiet
  <2>3. Searches(q \o s) => Searches(s)
    BY <1>4 DEF Quiet
  <2> QED
    BY <2>1, <2>2, <2>3
<1>5. Leads(u, p \o q, F, H)
  BY <1>2, <1>3 DEF Leads
<1>6. Quiet(p) /\ Quiet(q) => Quiet(p \o q)
  BY <1>2, <1>4 DEF Quiet
<1> QED
  BY <1>5, <1>6

\* Two calls.
LEMMA LeadsTwo ==
    ASSUME NEW u, NEW a, NEW b, NEW F, NEW G, NEW H, Move(u, a, F, G), Move(u, b, G, H)
    PROVE  /\ Leads(u, <<a, b>>, F, H)
           /\ a[1] # "search" /\ b[1] # "search" => Quiet(<<a, b>>)
<1>1. Leads(u, <<a>>, F, G) /\ (a[1] # "search" => Quiet(<<a>>))
  BY LeadsOne
<1>2. Leads(u, <<b>>, G, H) /\ (b[1] # "search" => Quiet(<<b>>))
  BY LeadsOne
<1> DEFINE p == <<a>>  q == <<b>>
<1>3. <<a, b>> = p \o q
  BY InTwo
<1> HIDE DEF p, q
<1>4. Leads(u, p \o q, F, H) /\ (Quiet(p) /\ Quiet(q) => Quiet(p \o q))
  BY <1>1, <1>2, LeadsBoth DEF p, q
<1> QED
  BY <1>1, <1>2, <1>3, <1>4 DEF p, q

\* A list of calls that ends a request.
LEMMA LeadsAway ==
    ASSUME NEW u, NEW p, NEW F, NEW G, Leads(u, p, F, G)
    PROVE  Runs(u, p, F) /\ IsSeq(p)
<1>1. IsSeq(p) /\ IsSeq(<<>>) /\ Runs(u, <<>>, G)
  BY NoCalls, RunsNone DEF Leads
<1>2. p \o <<>> = p
  BY <1>1, NoCalls
<1>3. Runs(u, p \o <<>>, F)
  BY <1>1 DEF Leads
<1> QED
  BY <1>1, <1>2, <1>3
\* list_spaces can always be called, and says what its asker sees.
LEMMA LeadsList ==
    ASSUME NEW u, NEW v \in User, NEW F, NEW G,
           G \subseteq But(F, {"sees", "ptr"}) \cup {<<"sees", v>>, <<"ptr", v>>}
    PROVE  Leads(u, List(v), F, G) /\ Quiet(List(v))
<1> DEFINE a == <<"own", v>>
           b == <<"ptr", v>>
           H == But(F, {"sees"}) \cup {<<"sees", v>>}
<1>1. Move(u, a, F, H)
  BY DEF Move, ListMove, SpaceMove, MemberMove, AgentMove
<1>2. Move(u, b, H, G)
  <2>1. But(F, {"sees", "ptr"}) \subseteq But(H, {"sees", "ptr"}) /\ <<"sees", v>> \in H
    BY DEF But
  <2> HIDE DEF H
  <2> QED
    BY <2>1 DEF Move, ListMove, SpaceMove, MemberMove, AgentMove
<1>3. a[1] # "search" /\ b[1] # "search" /\ List(v) = <<a, b>>
  BY DEF List
<1> HIDE DEF a, b, H
<1> QED
  BY <1>1, <1>2, <1>3, LeadsTwo

\* F is ground enough to make change c of space s.
Grounded(s, c, F) ==
    /\ c[1] \in {"same", "admit", "remove", "add", "drop"}
    /\ c[1] = "admit"  => <<"adm", s, c[2]>> \in F /\ c[2] \in User
    /\ c[1] = "remove" => \E y \in User \ {c[2]} : <<"owned", s, y>> \in F
    /\ c[1] = "add"    => <<"data", c[2], s>> \in F /\ c[2] \in Dataset

\* A space can be saved with a change that the request knows the ground of.
LEMMA LeadsEdit ==
    ASSUME NEW u, NEW s, NEW c, NEW F, NEW G,
           Grounded(s, c, F), G \subseteq Only(F, {"inv"})
    PROVE  Leads(u, Edit(s, c), F, G) /\ Quiet(Edit(s, c))
<1> DEFINE a == <<"load", s, c>>
           b == <<"store", s>>
           H == G \cup {<<"space", s>>, <<"row">>}
<1>1. Move(u, a, F, H)
  BY DEF Grounded, Move, ListMove, SpaceMove, MemberMove, AgentMove
<1>2. Move(u, b, H, G)
  <2>1. G \subseteq Only(H, {"inv"})
    BY DEF Only
  <2>2. {<<"space", s>>, <<"row">>} \subseteq H
    OBVIOUS
  <2> HIDE DEF H
  <2> QED
    BY <2>1, <2>2 DEF Move, ListMove, SpaceMove, MemberMove, AgentMove
<1>3. a[1] # "search" /\ b[1] # "search" /\ Edit(s, c) = <<a, b>>
  BY DEF Edit
<1> HIDE DEF a, b, H
<1> QED
  BY <1>1, <1>2, <1>3, LeadsTwo

\* The space of an invitation is found at its owner, for a member to be let in
\* or taken out.
LEMMA FetchStep ==
    ASSUME NEW e, NEW w \in Worker, Ready(e, w), Fetch(w), History
    PROVE  Fine(e, w)' /\ Rows(e)'
<1> DEFINE j == job[w]
           s == Op(w)[2]
           v == Op(w)[4]
           holders == {o \in User : s \in DOMAIN spaceRow[o]}
           let(o) == (IF v \in spaceRow[o][s].members THEN <<>> ELSE Edit(s, <<"admit", v>>))
                     \o <<<<"mread", v>>, <<"mwrite", v, Pair(o, s), TRUE>>>>
           out(o) == Edit(s, <<"remove", v>>)
                     \o <<<<"mread", v>>, <<"mwrite", v, Pair(o, s), FALSE>>,
                          <<"keep", v>>, <<"trim", v, s>>>>
           then(o) == IF Op(w)[3] = "admit" THEN let(o) ELSE out(o)
<1>1. Op(w)[1] = "fetch" /\ UNCHANGED rows
  BY DEF Fetch
<1> SUFFICES ASSUME NEW o \in holders,
                    Go(w, [j EXCEPT !.seen = spaceRow[o], !.todo = then(o) \o Rest(w)])
             PROVE  Fine(e, w)'
  BY <1>1, Aborted, RowsStay DEF Fetch, Ready
<1>2. PICK F, G : /\ Holds(e, j, Reachable(w), F)
                  /\ Move(j.who, Op(w), F, G)
                  /\ Runs(j.who, Rest(w), G)
  BY <1>1, Called
<1>3. IsSeq(Rest(w)) /\ (Searches(Rest(w)) => Searches(j.todo))
  BY <1>1, Called
<1>4. /\ v \in User
      /\ Op(w)[3] \in {"admit", "remove"}
      /\ Op(w)[3] = "admit" => <<"adm", s, v>> \in F
      /\ Op(w)[3] = "remove" => \E y \in User \ {v} : <<"owned", s, y>> \in F
      /\ G \subseteq IF Op(w)[3] = "admit" THEN Only(F, {"inv"}) ELSE {}
  BY <1>1, <1>2 DEF Move, ListMove, SpaceMove, MemberMove, AgentMove
<1> DEFINE p == then(o)
           todo == p \o Rest(w)
           k == [j EXCEPT !.seen = spaceRow[o], !.todo = todo]
<1>20. Go(w, k)
  OBVIOUS
<1>5. /\ IsJob(k)
      /\ k.todo = todo /\ k.who = j.who /\ k.seen = spaceRow[o] /\ k.ptr = j.ptr
      /\ k.space = j.space /\ k.row = j.row /\ k.mine = j.mine /\ k.kept = j.kept
      /\ k.agent = j.agent /\ k.inv = j.inv /\ k.found = j.found
  <2>1. IsJob(j)
    BY DEF Ready, Sound
  <2> HIDE DEF j, s, v, p, todo, holders
  <2>2. IsJob(k)
    BY <2>1, JobFields DEF IsJob
  <2> QED
    BY <2>1, <2>2, JobFields DEF IsJob
<1> HIDE DEF k
<1>6. \A f \in But(F, {"sees"}) : f \in F /\ Same(j, k, f)
  BY <1>5 DEF But, Only, Same
<1>7. IsSpaces(e, spaceRow[o]) /\ o \in User /\ s \in DOMAIN spaceRow[o]
  BY DEF Ready, Rows, SpaceRows
<1>8. <<s, o>> \in e.own
  BY <1>7 DEF Ready, Rows, SpaceRows, IsSpaces, IsSpace
<1> DEFINE a == <<"mread", v>>
<1>9. CASE Op(w)[3] = "admit"
  <2> DEFINE b == <<"mwrite", v, Pair(o, s), TRUE>>
             H == G \cup {<<"adm", s, v>>}
             K == G \cup {<<"ptr", v>>}
  <2>1. G \subseteq Only(F, {"inv"})
    BY <1>4, <1>9
  <2>2. o # v
    <3>1. <<s, v>> \in e.adm
      BY <1>2, <1>4, <1>9 DEF Holds, Fact
    <3>2. PICK x \in User \ {v} : <<s, x>> \in e.own
      BY <3>1 DEF Ready, IsWorld, Foreign
    <3>3. x = o
      BY <1>8, <3>2 DEF Ready, IsWorld
    <3> QED
      BY <3>2, <3>3
  <2>3. Pair(o, s).owner \in User \ {v}
    BY <1>7, <2>2 DEF Pair
  <2>4. Move(j.who, a, G, K)
    <3>1. K \subseteq But(G, {"ptr"}) \cup {<<"ptr", v>>}
      BY <2>1 DEF But, Only
    <3> HIDE DEF K
    <3> QED
      BY <1>4, <3>1 DEF Move, ListMove, SpaceMove, MemberMove, AgentMove
  <2>5. Move(j.who, b, K, G)
    <3>1. G \subseteq But(K, {"ptr"}) /\ <<"ptr", v>> \in K
      BY <2>1 DEF But, Only
    <3> HIDE DEF K
    <3> QED
      BY <2>3, <3>1 DEF Move, ListMove, SpaceMove, MemberMove, AgentMove
  <2>6. Leads(j.who, <<a, b>>, G, G) /\ Quiet(<<a, b>>)
    <3>1. a[1] # "search" /\ b[1] # "search"
      OBVIOUS
    <3> HIDE DEF a, b, K, j
    <3> QED
      BY <2>4, <2>5, <3>1, LeadsTwo
  <2>7. Leads(j.who, Edit(s, <<"admit", v>>), H, G) /\ Quiet(Edit(s, <<"admit", v>>))
    <3> DEFINE c == <<"admit", v>>
    <3>1. c[1] = "admit" /\ c[2] = v
      OBVIOUS
    <3>2. G \subseteq Only(H, {"inv"}) /\ <<"adm", s, v>> \in H
      BY <2>1 DEF Only
    <3> HIDE DEF c, j, s, H
    <3>3. Grounded(s, c, H)
      BY <1>4, <3>1, <3>2 DEF Grounded
    <3>4. Leads(j.who, Edit(s, c), H, G) /\ Quiet(Edit(s, c))
      BY <3>2, <3>3, LeadsEdit
    <3> QED
      BY <3>4 DEF c
  <2> DEFINE q == Edit(s, <<"admit", v>>)
             m == <<a, b>>
  <2>8. p \in {<<>> \o m, q \o m}
    BY <1>9
  <2> HIDE DEF q, m, p, a, b, H, j
  <2>9. Leads(j.who, q \o m, H, G) /\ Quiet(q \o m)
    BY <2>6, <2>7, LeadsBoth DEF q, m
  <2>10. Leads(j.who, m, G, G) /\ Quiet(m) /\ <<>> \o m = m
    <3>1. IsSeq(m)
      BY <2>6 DEF Leads, m
    <3> QED
      BY <2>6, <3>1, NoCalls DEF m
  <2>11. Quiet(p) /\ (Leads(j.who, p, G, G) \/ Leads(j.who, p, H, G))
    BY <2>8, <2>9, <2>10
  <2>12. IsSeq(todo) /\ (Runs(j.who, todo, G) \/ Runs(j.who, todo, H))
         /\ (Searches(todo) => Searches(Rest(w)))
    BY <1>2, <1>3, <2>11 DEF Leads, Quiet
  <2> HIDE DEF todo
  <2>13. Runs(j.who, todo, H)
    <3>1. G \subseteq H
      BY DEF H
    <3> QED
      BY <2>12, <3>1, RunsMore
  <2>14. \A f \in H : f \in F /\ Same(j, k, f)
    <3>1. H \subseteq But(F, {"sees"})
      BY <1>4, <1>9, <2>1 DEF But, Only, H
    <3> QED
      BY <1>6, <3>1
  <2> USE DEF j
  <2> QED
    BY <1>2, <1>3, <1>5, <1>7, <1>20, <2>12, <2>13, <2>14, GoesOn
<1>10. CASE Op(w)[3] = "remove"
  <2> DEFINE b == <<"mwrite", v, Pair(o, s), FALSE>>
             c == <<"keep", v>>
             d == <<"trim", v, s>>
  <2>1. PICK y \in User \ {v} : <<"owned", s, y>> \in F
    BY <1>4, <1>10
  <2> DEFINE H == {<<"owned", s, y>>}
             K == {<<"ptr", v>>}
             N == {<<"kept", v>>}
  <2>2. Move(j.who, a, {}, K)
    BY <1>4 DEF Move, ListMove, SpaceMove, MemberMove, AgentMove
  <2>3. Move(j.who, b, K, {})
    BY <1>4 DEF Move, ListMove, SpaceMove, MemberMove, AgentMove
  <2>4. Move(j.who, c, {}, N)
    BY <1>4 DEF Move, ListMove, SpaceMove, MemberMove, AgentMove
  <2>5. Move(j.who, d, N, {})
    BY <1>4 DEF Move, ListMove, SpaceMove, MemberMove, AgentMove
  <2>6. Leads(j.who, <<a, b>>, {}, {}) /\ Quiet(<<a, b>>)
    <3>1. a[1] # "search" /\ b[1] # "search"
      OBVIOUS
    <3> HIDE DEF a, b, K, j
    <3> QED
      BY <2>2, <2>3, <3>1, LeadsTwo
  <2>7. Leads(j.who, <<c, d>>, {}, {}) /\ Quiet(<<c, d>>)
    <3>1. c[1] # "search" /\ d[1] # "search"
      OBVIOUS
    <3> HIDE DEF c, d, N, j
    <3> QED
      BY <2>4, <2>5, <3>1, LeadsTwo
  <2>8. Leads(j.who, Edit(s, <<"remove", v>>), H, {}) /\ Quiet(Edit(s, <<"remove", v>>))
    <3> DEFINE x == <<"remove", v>>
    <3>1. x[1] = "remove" /\ x[2] = v
      OBVIOUS
    <3>2. y \in User \ {v} /\ <<"owned", s, y>> \in H
      OBVIOUS
    <3> HIDE DEF x, j, s, H
    <3>3. Grounded(s, x, H)
      BY <3>1, <3>2 DEF Grounded
    <3>4. Leads(j.who, Edit(s, x), H, {}) /\ Quiet(Edit(s, x))
      BY <3>3, LeadsEdit
    <3> QED
      BY <3>4 DEF x
  <2> DEFINE q == Edit(s, <<"remove", v>>)
             m == <<a, b>>
             n == <<c, d>>
             z == <<a, b, c, d>>
  <2>9. p = q \o z
    BY <1>10
  <2>10. z = m \o n
    <3> HIDE DEF a, b, c, d
    <3> QED
      BY InTwo
  <2> HIDE DEF q, m, n, z, p, a, b, c, d, H, j
  <2>11. Leads(j.who, z, {}, {}) /\ Quiet(z)
    BY <2>6, <2>7, <2>10, LeadsBoth DEF m, n
  <2>12. Leads(j.who, p, H, {}) /\ Quiet(p)
    BY <2>8, <2>9, <2>11, LeadsBoth DEF q
  <2>13. Runs(j.who, Rest(w), {})
    <3>1. G = {}
      BY <1>4, <1>10
    <3> QED
      BY <1>2, <3>1
  <2>14. IsSeq(todo) /\ Runs(j.who, todo, H) /\ (Searches(todo) => Searches(Rest(w)))
    BY <1>3, <2>12, <2>13 DEF Leads, Quiet
  <2> HIDE DEF todo
  <2>15. \A f \in H : f \in F /\ Same(j, k, f)
    BY <2>1 DEF H, Same
  <2> USE DEF j
  <2> QED
    BY <1>2, <1>3, <1>5, <1>7, <1>20, <2>14, <2>15, GoesOn
<1> QED
  BY <1>4, <1>9, <1>10
-----------------------------------------------------------------------------
(* Rows written *)

\* A space list is written.
LEMMA SpacesWritten ==
    ASSUME NEW e, NEW v, NEW f, Rows(e), IsSpaces(e, f),
           \A s \in DOMAIN f : f[s].owner = v,
           spaceRow' = [spaceRow EXCEPT ![v] = f],
           UNCHANGED <<pointerRow, inviteRow, agentRow>>
    PROVE  Rows(e)'
<1>1. SpaceRows(e)'
  BY DEF Rows, SpaceRows
<1> QED
  BY <1>1 DEF Rows, PointerRows, InviteRows, AgentRows

\* A membership list is written.
LEMMA PointersWritten ==
    ASSUME NEW e, NEW v, NEW f, Rows(e), IsPointers(v, f),
           pointerRow' = [pointerRow EXCEPT ![v] = f],
           UNCHANGED <<spaceRow, inviteRow, agentRow>>
    PROVE  Rows(e)'
<1>1. PointerRows'
  BY DEF Rows, PointerRows
<1> QED
  BY <1>1 DEF Rows, SpaceRows, InviteRows, AgentRows

\* A list of invitations is written.
LEMMA InvitesWritten ==
    ASSUME NEW e, NEW v, NEW f, Rows(e), IsInvites(e, v, f),
           inviteRow' = [inviteRow EXCEPT ![v] = f],
           UNCHANGED <<spaceRow, pointerRow, agentRow>>
    PROVE  Rows(e)'
<1>1. InviteRows(e)'
  BY DEF Rows, InviteRows
<1> QED
  BY <1>1 DEF Rows, SpaceRows, PointerRows, AgentRows

\* A list of assistants is written.
LEMMA AgentsWritten ==
    ASSUME NEW e, NEW v, NEW f, Rows(e), IsAgents(e, v, f),
           agentRow' = [agentRow EXCEPT ![v] = f],
           UNCHANGED <<spaceRow, pointerRow, inviteRow>>
    PROVE  Rows(e)'
<1>1. AgentRows(e)'
  BY DEF Rows, AgentRows
<1> QED
  BY <1>1 DEF Rows, SpaceRows, PointerRows, InviteRows

\* list_spaces writes back the pointers that lead somewhere.
LEMMA BackStep ==
    ASSUME NEW e, NEW w \in Worker, Ready(e, w), Back(w), History
    PROVE  Fine(e, w)' /\ Rows(e)'
<1> DEFINE j == job[w]
           v == Op(w)[2]
           k == [j EXCEPT !.todo = Rest(w), !.ptr = {}]
<1>1. /\ Op(w)[1] = "back" /\ Go(w, k)
      /\ pointerRow' = [pointerRow EXCEPT ![v] = Valid(j.seen, v)]
      /\ UNCHANGED <<spaceRow, inviteRow, agentRow>>
  BY DEF Back
<1>2. PICK F, G : /\ Holds(e, j, Reachable(w), F)
                  /\ Move(j.who, Op(w), F, G)
                  /\ Runs(j.who, Rest(w), G)
  BY <1>1, Called
<1>3. IsSeq(Rest(w)) /\ (Searches(Rest(w)) => Searches(j.todo))
  BY <1>1, Called
<1>4. v \in User /\ G \subseteq F
  BY <1>1, <1>2 DEF Move, ListMove, SpaceMove, MemberMove, AgentMove
<1>5. /\ IsJob(k)
      /\ k.todo = Rest(w) /\ k.who = j.who /\ k.seen = j.seen /\ k.ptr = {}
      /\ k.space = j.space /\ k.row = j.row /\ k.mine = j.mine /\ k.kept = j.kept
      /\ k.agent = j.agent /\ k.inv = j.inv /\ k.found = j.found
  <2>1. IsJob(j)
    BY DEF Ready, Sound
  <2> HIDE DEF j, v
  <2>2. IsJob(k)
    BY <2>1, JobFields DEF IsJob
  <2> QED
    BY <2>1, <2>2, JobFields DEF IsJob
<1> HIDE DEF k
<1>6. \A f \in But(F, {"ptr"}) : f \in F /\ Same(j, k, f)
  BY <1>5 DEF But, Only, Same
<1>7. IsSpaces(e, j.seen)
  BY DEF Ready, Sound
<1>8. \A f \in G : (f \in F /\ Same(j, k, f)) \/ Fact(e, k, Reachable(w)', f)
  <2>1. SUFFICES ASSUME NEW f \in G, f[1] = "ptr"
                 PROVE  Fact(e, k, Reachable(w)', f)
    BY <1>4, <1>6 DEF But
  <2>2. IsPointers(f[2], k.ptr)
    BY <1>5 DEF IsPointers
  <2> QED
    BY <2>1, <2>2 DEF Fact
<1>9. Fine(e, w)'
  BY <1>1, <1>2, <1>3, <1>5, <1>7, <1>8, GoesOn
<1>10. IsPointers(v, Valid(j.seen, v))
  <2>1. \A s \in DOMAIN j.seen : j.seen[s].owner \in User
    BY <1>7 DEF IsSpaces, IsSpace
  <2> HIDE DEF j, v
  <2> QED
    BY <2>1 DEF IsPointers, Valid, Pair
<1> QED
  BY <1>1, <1>9, <1>10, PointersWritten DEF Ready

\* create_space writes the caller's list with the new space.
LEMMA CreateStep ==
    ASSUME NEW e, NEW w \in Worker, Ready(e, w), Create(w), History
    PROVE  Fine(e, w)' /\ Rows(e)'
<1> DEFINE j == job[w]
           u == j.who
           s == Op(w)[2]
           new == [owner |-> u, members |-> {u}, datasets |-> {}]
           list == With(OwnPart(j.seen, u), s, new)
           k == [j EXCEPT !.todo = Rest(w)]
<1>1. /\ Op(w)[1] = "create" /\ Go(w, k)
      /\ spaceRow' = [spaceRow EXCEPT ![u] = list]
      /\ UNCHANGED <<pointerRow, inviteRow, agentRow>>
  BY DEF Create
<1>2. PICK F, G : /\ Holds(e, j, Reachable(w), F)
                  /\ Move(j.who, Op(w), F, G)
                  /\ Runs(j.who, Rest(w), G)
  BY <1>1, Called
<1>3. IsSeq(Rest(w)) /\ (Searches(Rest(w)) => Searches(j.todo))
  BY <1>1, Called
<1>4. <<"owned", s, u>> \in F /\ G \subseteq F
  BY <1>1, <1>2 DEF Move, ListMove, SpaceMove, MemberMove, AgentMove
<1>5. /\ IsJob(k)
      /\ k.todo = Rest(w) /\ k.who = j.who /\ k.seen = j.seen /\ k.ptr = j.ptr
      /\ k.space = j.space /\ k.row = j.row /\ k.mine = j.mine /\ k.kept = j.kept
      /\ k.agent = j.agent /\ k.inv = j.inv /\ k.found = j.found
  <2>1. IsJob(j)
    BY DEF Ready, Sound
  <2> HIDE DEF j, s, u, list
  <2>2. IsJob(k)
    BY <2>1, JobFields DEF IsJob
  <2> QED
    BY <2>1, <2>2, JobFields DEF IsJob
<1> HIDE DEF k
<1>6. \A f \in F : f \in F /\ Same(j, k, f)
  BY <1>5 DEF But, Only, Same
<1>7. IsSpaces(e, j.seen) /\ u \in User
  BY DEF Ready, Sound
<1>8. Fine(e, w)'
  BY <1>1, <1>2, <1>4, <1>3, <1>5, <1>6, <1>7, GoesOn
<1>9. <<s, u>> \in e.own
  BY <1>2, <1>4 DEF Holds, Fact
<1>10. IsSpace(e, s, new) /\ new.owner = u
  BY <1>7, <1>9 DEF IsSpace
<1>11. \A x \in DOMAIN list : IsSpace(e, x, list[x]) /\ list[x].owner = u
  <2> HIDE DEF new, u, j
  <2> QED
    BY <1>7, <1>10 DEF With, OwnPart, IsSpaces
<1>12. IsSpaces(e, list)
  BY <1>11 DEF IsSpaces
<1> HIDE DEF list, u
<1> QED
  BY <1>1, <1>8, <1>11, <1>12, SpacesWritten DEF Ready

\* save_space writes its owner's list with the copy in it.
LEMMA StoreStep ==
    ASSUME NEW e, NEW w \in Worker, Ready(e, w), Store(w), History
    PROVE  Fine(e, w)' /\ Rows(e)'
<1> DEFINE j == job[w]
           s == Op(w)[2]
           v == j.space.owner
           list == With(j.row, s, j.space)
           k == [j EXCEPT !.todo = Rest(w), !.row = Nothing]
<1>1. /\ Op(w)[1] = "store" /\ Go(w, k)
      /\ spaceRow' = [spaceRow EXCEPT ![v] = list]
      /\ UNCHANGED <<pointerRow, inviteRow, agentRow>>
  BY DEF Store
<1>2. PICK F, G : /\ Holds(e, j, Reachable(w), F)
                  /\ Move(j.who, Op(w), F, G)
                  /\ Runs(j.who, Rest(w), G)
  BY <1>1, Called
<1>3. IsSeq(Rest(w)) /\ (Searches(Rest(w)) => Searches(j.todo))
  BY <1>1, Called
<1>4. {<<"space", s>>, <<"row">>} \subseteq F /\ G \subseteq Only(F, {"inv"})
  BY <1>1, <1>2 DEF Move, ListMove, SpaceMove, MemberMove, AgentMove
<1>5. /\ IsJob(k)
      /\ k.todo = Rest(w) /\ k.who = j.who /\ k.seen = j.seen /\ k.ptr = j.ptr
      /\ k.space = j.space /\ k.row = Nothing /\ k.mine = j.mine /\ k.kept = j.kept
      /\ k.agent = j.agent /\ k.inv = j.inv /\ k.found = j.found
  <2>1. IsJob(j)
    BY DEF Ready, Sound
  <2> HIDE DEF j, s, v, list
  <2>2. IsJob(k)
    BY <2>1, JobFields DEF IsJob
  <2> QED
    BY <2>1, <2>2, JobFields DEF IsJob
<1> HIDE DEF k
<1>6. \A f \in Only(F, {"inv"}) : f \in F /\ Same(j, k, f)
  BY <1>5 DEF But, Only, Same
<1>7. IsSpaces(e, j.seen)
  BY DEF Ready, Sound
<1>8. Fine(e, w)'
  BY <1>1, <1>2, <1>4, <1>3, <1>5, <1>6, <1>7, GoesOn
<1>9. IsSpace(e, s, j.space)
  BY <1>2, <1>4 DEF Holds, Fact
<1>10. IsSpaces(e, j.row) /\ \A x \in DOMAIN j.row : j.row[x].owner = v
  BY <1>2, <1>4 DEF Holds, Fact
<1>11. \A x \in DOMAIN list : IsSpace(e, x, list[x]) /\ list[x].owner = v
  <2> HIDE DEF j
  <2> QED
    BY <1>9, <1>10 DEF With, IsSpaces
<1>12. IsSpaces(e, list)
  BY <1>11 DEF IsSpaces
<1> HIDE DEF list, v
<1> QED
  BY <1>1, <1>8, <1>11, <1>12, SpacesWritten DEF Ready

\* A membership list is written back with one pointer more or less.
LEMMA WritePointersStep ==
    ASSUME NEW e, NEW w \in Worker, Ready(e, w), WritePointers(w), History
    PROVE  Fine(e, w)' /\ Rows(e)'
<1> DEFINE j == job[w]
           v == Op(w)[2]
           p == Op(w)[3]
           list == IF Op(w)[4] THEN j.ptr \cup {p} ELSE j.ptr \ {p}
           k == [j EXCEPT !.todo = Rest(w), !.ptr = {}]
<1>1. /\ Op(w)[1] = "mwrite" /\ Go(w, k)
      /\ pointerRow' = [pointerRow EXCEPT ![v] = list]
      /\ UNCHANGED <<spaceRow, inviteRow, agentRow>>
  BY DEF WritePointers
<1>2. PICK F, G : /\ Holds(e, j, Reachable(w), F)
                  /\ Move(j.who, Op(w), F, G)
                  /\ Runs(j.who, Rest(w), G)
  BY <1>1, Called
<1>3. IsSeq(Rest(w)) /\ (Searches(Rest(w)) => Searches(j.todo))
  BY <1>1, Called
<1>4. /\ <<"ptr", v>> \in F
      /\ Op(w)[4] => p.owner \in User \ {v}
      /\ G \subseteq But(F, {"ptr"})
  BY <1>1, <1>2 DEF Move, ListMove, SpaceMove, MemberMove, AgentMove
<1>5. /\ IsJob(k)
      /\ k.todo = Rest(w) /\ k.who = j.who /\ k.seen = j.seen /\ k.ptr = {}
      /\ k.space = j.space /\ k.row = j.row /\ k.mine = j.mine /\ k.kept = j.kept
      /\ k.agent = j.agent /\ k.inv = j.inv /\ k.found = j.found
  <2>1. IsJob(j)
    BY DEF Ready, Sound
  <2> HIDE DEF j, v, p, list
  <2>2. IsJob(k)
    BY <2>1, JobFields DEF IsJob
  <2> QED
    BY <2>1, <2>2, JobFields DEF IsJob
<1> HIDE DEF k
<1>6. \A f \in But(F, {"ptr"}) : f \in F /\ Same(j, k, f)
  BY <1>5 DEF But, Only, Same
<1>7. IsSpaces(e, j.seen)
  BY DEF Ready, Sound
<1>8. Fine(e, w)'
  BY <1>1, <1>2, <1>4, <1>3, <1>5, <1>6, <1>7, GoesOn
<1>9. IsPointers(v, j.ptr)
  BY <1>2, <1>4 DEF Holds, Fact
<1>10. IsPointers(v, list)
  BY <1>4, <1>9 DEF IsPointers
<1> HIDE DEF list, v
<1> QED
  BY <1>1, <1>8, <1>10, PointersWritten DEF Ready

\* A list of invitations is written back with a new status.
LEMMA WriteInvitationsStep ==
    ASSUME NEW e, NEW w \in Worker, Ready(e, w), WriteInvitations(w), History
    PROVE  Fine(e, w)' /\ Rows(e)'
<1> DEFINE j == job[w]
           v == Op(w)[2]
           s == Op(w)[3]
           st == Op(w)[4]
           list == [j.inv EXCEPT ![s] = st]
           k == [j EXCEPT !.todo = Rest(w), !.inv = Nothing]
<1>1. /\ Op(w)[1] = "iwrite" /\ Go(w, k)
      /\ inviteRow' = [inviteRow EXCEPT ![v] = list]
      /\ UNCHANGED <<spaceRow, pointerRow, agentRow>>
  BY DEF WriteInvitations
<1>2. PICK F, G : /\ Holds(e, j, Reachable(w), F)
                  /\ Move(j.who, Op(w), F, G)
                  /\ Runs(j.who, Rest(w), G)
  BY <1>1, Called
<1>3. IsSeq(Rest(w)) /\ (Searches(Rest(w)) => Searches(j.todo))
  BY <1>1, Called
<1>4. /\ <<"inv", v>> \in F
      /\ st \in Status
      /\ st = "pending" => \E y \in User \ {v} : <<"owned", s, y>> \in F
      /\ G \subseteq But(F, {"inv"})
  BY <1>1, <1>2 DEF Move, ListMove, SpaceMove, MemberMove, AgentMove
<1>5. /\ IsJob(k)
      /\ k.todo = Rest(w) /\ k.who = j.who /\ k.seen = j.seen /\ k.ptr = j.ptr
      /\ k.space = j.space /\ k.row = j.row /\ k.mine = j.mine /\ k.kept = j.kept
      /\ k.agent = j.agent /\ k.inv = Nothing /\ k.found = j.found
  <2>1. IsJob(j)
    BY DEF Ready, Sound
  <2> HIDE DEF j, v, s, st, list
  <2>2. IsJob(k)
    BY <2>1, JobFields DEF IsJob
  <2> QED
    BY <2>1, <2>2, JobFields DEF IsJob
<1> HIDE DEF k
<1>6. \A f \in But(F, {"inv"}) : f \in F /\ Same(j, k, f)
  BY <1>5 DEF But, Only, Same
<1>7. IsSpaces(e, j.seen)
  BY DEF Ready, Sound
<1>8. Fine(e, w)'
  BY <1>1, <1>2, <1>4, <1>3, <1>5, <1>6, <1>7, GoesOn
<1>9. IsInvites(e, v, j.inv)
  BY <1>2, <1>4 DEF Holds, Fact
<1>10. st = "pending" => Foreign(e, s, v)
  <2>1. \A y : <<"owned", s, y>> \in F => <<s, y>> \in e.own
    BY <1>2 DEF Holds, Fact
  <2> HIDE DEF s, v, st
  <2> QED
    BY <1>4, <2>1 DEF Foreign
<1>11. IsInvites(e, v, list)
  <2> HIDE DEF s, v, st, j
  <2> QED
    BY <1>4, <1>9, <1>10 DEF IsInvites
<1> HIDE DEF list, v
<1> QED
  BY <1>1, <1>8, <1>11, InvitesWritten DEF Ready

\* A record of the caller's is written, new or in place of the old one.
LEMMA PutStep ==
    ASSUME NEW e, NEW w \in Worker, Ready(e, w), Put(w), History
    PROVE  Fine(e, w)' /\ Rows(e)'
<1> DEFINE j == job[w]
           u == j.who
           a == Op(w)[2]
           list == IF Op(w)[3] THEN With(j.mine, a, j.agent) ELSE Replaced(j.mine, a, j.agent)
           k == [j EXCEPT !.todo = Rest(w), !.mine = Nothing]
<1>1. /\ Op(w)[1] = "put" /\ Go(w, k)
      /\ agentRow' = [agentRow EXCEPT ![u] = list]
      /\ UNCHANGED <<spaceRow, pointerRow, inviteRow>>
  BY DEF Put
<1>2. PICK F, G : /\ Holds(e, j, Reachable(w), F)
                  /\ Move(j.who, Op(w), F, G)
                  /\ Runs(j.who, Rest(w), G)
  BY <1>1, Called
<1>3. IsSeq(Rest(w)) /\ (Searches(Rest(w)) => Searches(j.todo))
  BY <1>1, Called
<1>4. /\ <<"agent", u>> \in F /\ <<"mine", u>> \in F
      /\ Op(w)[3] \in BOOLEAN
      /\ Op(w)[3] => <<"id", a>> \in F
      /\ G \subseteq But(F, {"mine", "has"})
  BY <1>1, <1>2 DEF Move, ListMove, SpaceMove, MemberMove, AgentMove
<1>5. /\ IsJob(k)
      /\ k.todo = Rest(w) /\ k.who = j.who /\ k.seen = j.seen /\ k.ptr = j.ptr
      /\ k.space = j.space /\ k.row = j.row /\ k.mine = Nothing /\ k.kept = j.kept
      /\ k.agent = j.agent /\ k.inv = j.inv /\ k.found = j.found
  <2>1. IsJob(j)
    BY DEF Ready, Sound
  <2> HIDE DEF j, u, a, list
  <2>2. IsJob(k)
    BY <2>1, JobFields DEF IsJob
  <2> QED
    BY <2>1, <2>2, JobFields DEF IsJob
<1> HIDE DEF k
<1>6. \A f \in But(F, {"mine", "has"}) : f \in F /\ Same(j, k, f)
  BY <1>5 DEF But, Only, Same
<1>7. IsSpaces(e, j.seen)
  BY DEF Ready, Sound
<1>8. Fine(e, w)'
  BY <1>1, <1>2, <1>4, <1>3, <1>5, <1>6, <1>7, GoesOn
<1>9. IsAgent(e, u, j.agent) /\ IsAgents(e, u, j.mine)
  BY <1>2, <1>4 DEF Holds, Fact
<1>10. Op(w)[3] => a \in e.ids \cap Agent
  <2>1. <<"id", a>> \in F => a \in e.ids \cap Agent
    BY <1>2 DEF Holds, Fact
  <2> HIDE DEF a
  <2> QED
    BY <1>4, <2>1
<1>11. IsAgents(e, u, list)
  <2>1. Op(w)[3] => IsAgents(e, u, With(j.mine, a, j.agent))
    <3> HIDE DEF a, u, j
    <3> QED
      BY <1>9, <1>10 DEF IsAgents, With
  <2>2. IsAgents(e, u, Replaced(j.mine, a, j.agent))
    <3> HIDE DEF a, u, j
    <3> QED
      BY <1>9 DEF IsAgents, Replaced
  <2> QED
    BY <1>4, <2>1, <2>2
<1> HIDE DEF list, u
<1> QED
  BY <1>1, <1>8, <1>11, AgentsWritten DEF Ready

\* A record of the caller's is deleted.
LEMMA DropAgentStep ==
    ASSUME NEW e, NEW w \in Worker, Ready(e, w), DropAgent(w), History
    PROVE  Fine(e, w)' /\ Rows(e)'
<1> DEFINE j == job[w]
           u == j.who
           list == Without(j.mine, Op(w)[2])
           k == [j EXCEPT !.todo = Rest(w)]
<1>1. /\ Op(w)[1] = "dropagent" /\ Go(w, k)
      /\ agentRow' = [agentRow EXCEPT ![u] = list]
      /\ UNCHANGED <<spaceRow, pointerRow, inviteRow>>
  BY DEF DropAgent
<1>2. PICK F, G : /\ Holds(e, j, Reachable(w), F)
                  /\ Move(j.who, Op(w), F, G)
                  /\ Runs(j.who, Rest(w), G)
  BY <1>1, Called
<1>3. IsSeq(Rest(w)) /\ (Searches(Rest(w)) => Searches(j.todo))
  BY <1>1, Called
<1>4. <<"mine", u>> \in F /\ G = {}
  BY <1>1, <1>2 DEF Move, ListMove, SpaceMove, MemberMove, AgentMove
<1>5. /\ IsJob(k)
      /\ k.todo = Rest(w) /\ k.who = j.who /\ k.seen = j.seen /\ k.ptr = j.ptr
      /\ k.space = j.space /\ k.row = j.row /\ k.mine = j.mine /\ k.kept = j.kept
      /\ k.agent = j.agent /\ k.inv = j.inv /\ k.found = j.found
  <2>1. IsJob(j)
    BY DEF Ready, Sound
  <2> HIDE DEF j, u, list
  <2>2. IsJob(k)
    BY <2>1, JobFields DEF IsJob
  <2> QED
    BY <2>1, <2>2, JobFields DEF IsJob
<1> HIDE DEF k
<1>7. IsSpaces(e, j.seen)
  BY DEF Ready, Sound
<1>8. Fine(e, w)'
  BY <1>1, <1>2, <1>4, <1>3, <1>5, <1>7, GoesOn
<1>9. IsAgents(e, u, j.mine)
  BY <1>2, <1>4 DEF Holds, Fact
<1>10. IsAgents(e, u, list)
  BY <1>9 DEF IsAgents, Without
<1> HIDE DEF list, u
<1> QED
  BY <1>1, <1>8, <1>10, AgentsWritten DEF Ready
-----------------------------------------------------------------------------
(* sync_agent_chat *)

\* What the caller of sync_agent_chat does with its result.
LEMMA Finished ==
    ASSUME NEW e, NEW w \in Worker, NEW F, NEW G, NEW o \in User, NEW a,
           NEW mode \in {"plain", "remove", "complete"}, NEW rec, NEW raised \in BOOLEAN,
           Ready(e, w), History, Op(w)[1] # "none",
           Holds(e, job[w], Reachable(w), F), Runs(job[w].who, Rest(w), G),
           <<"agent", o>> \in F, IsAgent(e, o, rec),
           mode = "remove" => <<"kept", o>> \in F,
           mode = "complete" /\ ~raised => FromReach(e, Reachable(w), rec.datasets),
           G \subseteq Only(F, {"kept", "rec"})
                       \cup IF mode = "complete" THEN {<<"found">>} ELSE {},
           Go(w, Done(w, a, mode, rec, raised))
    PROVE  Fine(e, w)'
<1> DEFINE j == job[w]
           k == [j EXCEPT !.todo = Rest(w), !.seen = Nothing, !.mine = Nothing, !.agent = Nothing]
<1>4. IsSeq(Rest(w)) /\ (Searches(Rest(w)) => Searches(j.todo))
  BY Called
<1>5. /\ IsJob(k)
      /\ k.todo = Rest(w) /\ k.who = j.who /\ k.seen = Nothing /\ k.ptr = j.ptr
      /\ k.space = j.space /\ k.row = j.row /\ k.mine = Nothing /\ k.kept = j.kept
      /\ k.agent = Nothing /\ k.inv = j.inv /\ k.found = j.found
  <2>1. IsJob(j)
    BY DEF Ready, Sound
  <2> HIDE DEF j
  <2>2. IsJob(k)
    BY <2>1, JobFields DEF IsJob
  <2> QED
    BY <2>1, <2>2, JobFields DEF IsJob
<1> HIDE DEF k
<1>6. \A f \in Only(F, {"kept", "rec"}) : f \in F /\ Same(j, k, f)
  BY <1>5 DEF But, Only, Same
<1>7. IsSpaces(e, k.seen)
  BY <1>5, EmptyList
<1>8. IsAgent(e, o, j.agent)
  BY DEF Holds, Fact
<1>9. CASE mode = "plain"
  <2>1. Go(w, k)
    BY <1>9 DEF Done, k
  <2> QED
    BY <1>4, <1>5, <1>6, <1>7, <1>9, <2>1, GoesOn
<1>10. CASE mode = "remove"
  <2> DEFINE r == IF raised THEN [j.agent EXCEPT !.datasets = {}] ELSE rec
             kept == [k.kept EXCEPT ![a] = r]
             i == [k EXCEPT !.kept = kept]
  <2>1. Go(w, i)
    <3>1. Done(w, a, mode, rec, raised) = i
      BY <1>10 DEF Done, k
    <3> QED
      BY <3>1
  <2>2. IsAgent(e, o, r)
    BY <1>8 DEF IsAgent, FromSeen
  <2>3. IsAgents(e, o, j.kept)
    BY <1>10 DEF Holds, Fact
  <2>4. ASSUME NEW x, IsAgents(e, x, j.kept)
        PROVE  IsAgents(e, x, kept)
    <3>1. ASSUME NEW b \in DOMAIN j.kept  PROVE x = o /\ b \in e.ids \cap Agent
      BY <2>3, <2>4 DEF IsAgents, IsAgent
    <3> HIDE DEF r, j
    <3> QED
      BY <1>5, <2>2, <2>4, <3>1 DEF IsAgents
  <2> HIDE DEF kept
  <2>5. /\ IsJob(i)
        /\ i.todo = k.todo /\ i.who = k.who /\ i.seen = k.seen /\ i.kept = kept
    BY <1>5, JobFields DEF IsJob
  <2> HIDE DEF i
  <2>6. \A f \in G : (f \in F /\ Same(j, i, f)) \/ Fact(e, i, Reachable(w)', f)
    <3>1. SUFFICES ASSUME NEW f \in Only(F, {"kept", "rec"})
                   PROVE  (f \in F /\ Same(j, i, f)) \/ Fact(e, i, Reachable(w)', f)
      BY <1>10
    <3>2. CASE f[1] = "rec"
      BY <3>2 DEF Same, Only
    <3>3. CASE f[1] = "kept"
      <4>1. IsAgents(e, f[2], j.kept)
        BY <3>3 DEF Only, Holds, Fact
      <4>2. IsAgents(e, f[2], i.kept)
        BY <2>4, <2>5, <4>1
      <4> QED
        BY <3>3, <4>2 DEF Fact
    <3> QED
      BY <3>2, <3>3 DEF Only
  <2> QED
    BY <1>4, <1>5, <1>7, <2>1, <2>5, <2>6, GoesOn
<1>11. CASE mode = "complete"
  <2> DEFINE found == [datasets |-> IF raised THEN j.agent.datasets ELSE rec.datasets,
                       owner |-> rec.owner, synced |-> ~raised]
             i == [k EXCEPT !.found = found]
  <2>1. Go(w, i)
    <3>1. Done(w, a, mode, rec, raised) = i
      BY <1>11 DEF Done, k
    <3> QED
      BY <3>1
  <2>2. /\ found.owner = o
        /\ FromSeen(e, o, found.datasets)
        /\ found.synced => ~raised /\ found.datasets = rec.datasets
    BY <1>8 DEF IsAgent
  <2> HIDE DEF found
  <2>5. /\ IsJob(i)
        /\ i.todo = k.todo /\ i.who = k.who /\ i.seen = k.seen /\ i.kept = k.kept
        /\ i.found = found
    BY <1>5, JobFields DEF IsJob
  <2> HIDE DEF i
  <2>3. Reachable(w) \subseteq Reachable(w)'
    BY <1>4, <1>5, <2>1, <2>5, ReachesMore DEF Ready
  <2>4. found.synced => FromReach(e, Reachable(w)', found.datasets)
    <3>1. Grows(e, e)
      BY DEF Grows
    <3>2. FromReach(e, Reachable(w), rec.datasets) => FromReach(e, Reachable(w)', rec.datasets)
      BY <2>3, <3>1, SeenMore
    <3> QED
      BY <1>11, <2>2, <3>2
  <2>6. Fact(e, i, Reachable(w)', <<"found">>)
    BY <2>2, <2>4, <2>5 DEF Fact
  <2>7. \A f \in Only(F, {"kept", "rec"}) : f \in F /\ Same(j, i, f)
    BY <1>5, <2>5 DEF Only, Same
  <2>8. \A f \in G : (f \in F /\ Same(j, i, f)) \/ Fact(e, i, Reachable(w)', f)
    BY <1>11, <2>6, <2>7
  <2> QED
    BY <1>4, <1>5, <1>7, <2>1, <2>5, <2>8, GoesOn
<1> QED
  BY <1>9, <1>10, <1>11

\* A record of the owner's in place of another is still one.
LEMMA RecordReplaced ==
    ASSUME NEW e, NEW o, NEW f, NEW a, NEW rec, IsAgents(e, o, f), IsAgent(e, o, rec)
    PROVE  IsAgents(e, o, Replaced(f, a, rec))
BY DEF IsAgents, Replaced

\* sync_agent_chat saves the record once more.
LEMMA SyncAgainStep ==
    ASSUME NEW e, NEW w \in Worker, Ready(e, w), SyncAgain(w), History
    PROVE  Fine(e, w)' /\ Rows(e)'
<1> DEFINE j == job[w]
           o == Op(w)[2]
           a == Op(w)[3]
           mode == Op(w)[4]
<1>1. /\ Op(w)[1] = "again" /\ Go(w, Done(w, a, mode, j.agent, FALSE))
      /\ agentRow' = [agentRow EXCEPT ![o] = Replaced(j.mine, a, j.agent)]
      /\ UNCHANGED <<spaceRow, pointerRow, inviteRow>>
  BY DEF SyncAgain
<1>2. PICK F, G : /\ Holds(e, j, Reachable(w), F)
                  /\ Move(j.who, Op(w), F, G)
                  /\ Runs(j.who, Rest(w), G)
  BY <1>1, Called
<1>3. IsSeq(Rest(w)) /\ (Searches(Rest(w)) => Searches(j.todo))
  BY <1>1, Called
<1>4. /\ mode \in {"plain", "remove", "complete"}
      /\ {<<"mine", o>>, <<"agent", o>>} \subseteq F
      /\ o \in User
      /\ mode = "remove" => <<"kept", o>> \in F
      /\ mode = "complete" => <<"drawn">> \in F
      /\ G \subseteq Only(F, {"kept", "rec"})
                     \cup IF mode = "complete" THEN {<<"found">>} ELSE {}
  BY <1>1, <1>2 DEF Move, ListMove, SpaceMove, MemberMove, AgentMove
<1>5. IsAgent(e, o, j.agent) /\ IsAgents(e, o, j.mine)
  BY <1>2, <1>4 DEF Holds, Fact
<1>6. mode = "complete" => FromReach(e, Reachable(w), j.agent.datasets)
  BY <1>2, <1>4 DEF Holds, Fact
<1>7. Fine(e, w)'
  <2> DEFINE rec == j.agent
             raised == FALSE
  <2>1. raised \in BOOLEAN /\ ~raised /\ IsAgent(e, o, rec) /\ Op(w)[1] # "none"
        /\ Go(w, Done(w, a, mode, rec, raised))
        /\ (mode = "complete" /\ ~raised => FromReach(e, Reachable(w), rec.datasets))
    BY <1>1, <1>5, <1>6
  <2> HIDE DEF o, a, mode, rec, raised
  <2> QED
    BY <1>2, <1>4, <2>1, Finished
<1>8. IsAgents(e, o, Replaced(j.mine, a, j.agent))
  BY <1>5, RecordReplaced
<1> HIDE DEF o, a, j
<1> QED
  BY <1>1, <1>7, <1>8, AgentsWritten DEF Ready
\* What sync_agent_chat records are datasets of spaces that the owner sees.
LEMMA DatasetsDrawn ==
    ASSUME NEW e, NEW w \in Worker, NEW F, NEW o, NEW ss,
           Holds(e, job[w], Reachable(w), F), IsSpaces(e, job[w].seen), <<"sees", o>> \in F
    PROVE  /\ DatasetIds(w, ss) \subseteq Dataset
           /\ FromSeen(e, o, DatasetIds(w, ss))
           /\ (o = job[w].who \/ ss \subseteq Reachable(w)) =>
                 FromReach(e, Reachable(w), DatasetIds(w, ss))
<1> DEFINE j == job[w]
           ds == DatasetIds(w, ss)
<1>1. \A s \in DOMAIN j.seen : Sees(e, o, s) /\ (o = j.who => s \in Reachable(w))
  BY DEF Holds, Fact
<1>2. ASSUME NEW d \in ds
      PROVE  \E s \in ss \cap DOMAIN j.seen : <<d, s>> \in e.data /\ d \in Dataset
  <2>1. PICK s \in ss \cap DOMAIN j.seen : d \in j.seen[s].datasets
    BY <1>2 DEF DatasetIds
  <2> QED
    BY <2>1 DEF IsSpaces, IsSpace
<1> HIDE DEF j, ds
<1>3. ds \subseteq Dataset
  BY <1>2
<1>4. FromSeen(e, o, ds)
  BY <1>1, <1>2 DEF FromSeen
<1>5. o = j.who \/ ss \subseteq Reachable(w) => FromReach(e, Reachable(w), ds)
  BY <1>1, <1>2 DEF FromReach
<1> QED
  BY <1>3, <1>4, <1>5 DEF j, ds

\* sync_agent_chat saves the datasets found, and RAGFlow takes them or refuses.
LEMMA SyncAgentStep ==
    ASSUME NEW e, NEW w \in Worker, Ready(e, w), SyncAgent(w), History
    PROVE  Fine(e, w)' /\ Rows(e)'
<1> DEFINE j == job[w]
           o == Op(w)[2]
           a == Op(w)[3]
           mode == Op(w)[4]
           ds == DatasetIds(w, j.agent.spaces)
           rec == [j.agent EXCEPT !.datasets = ds]
           new == [rec EXCEPT !.chat = @ \/ ds # {}]
           c == <<"aread", o>>
           d == <<"again", o, a, mode>>
           todo == <<c, d>> \o Rest(w)
           k == [j EXCEPT !.seen = Nothing, !.mine = Nothing, !.agent = new, !.todo = todo]
<1>1. /\ Op(w)[1] = "sync"
      /\ agentRow' = [agentRow EXCEPT ![o] = Replaced(j.mine, a, rec)]
      /\ Go(w, k) \/ Go(w, Done(w, a, mode, rec, TRUE))
      /\ UNCHANGED <<spaceRow, pointerRow, inviteRow>>
  BY DEF SyncAgent
<1>2. PICK F, G : /\ Holds(e, j, Reachable(w), F)
                  /\ Move(j.who, Op(w), F, G)
                  /\ Runs(j.who, Rest(w), G)
  BY <1>1, Called
<1>3. IsSeq(Rest(w)) /\ (Searches(Rest(w)) => Searches(j.todo))
  BY <1>1, Called
<1>4. /\ mode \in {"plain", "remove", "complete"}
      /\ {<<"mine", o>>, <<"agent", o>>, <<"sees", o>>} \subseteq F
      /\ o \in User
      /\ mode = "remove" => <<"kept", o>> \in F
      /\ mode = "complete" => <<"close", o>> \in F
      /\ G \subseteq Only(F, {"kept", "rec"})
                     \cup IF mode = "complete" THEN {<<"found">>} ELSE {}
  BY <1>1, <1>2 DEF Move, ListMove, SpaceMove, MemberMove, AgentMove
<1>7. IsSpaces(e, j.seen)
  BY DEF Ready, Sound
<1>8. IsAgent(e, o, j.agent) /\ IsAgents(e, o, j.mine)
  BY <1>2, <1>4 DEF Holds, Fact
<1>9. /\ ds \subseteq Dataset /\ FromSeen(e, o, ds)
      /\ mode = "complete" => FromReach(e, Reachable(w), ds)
  <2>1. mode = "complete" => o = j.who \/ j.agent.spaces \subseteq Reachable(w)
    BY <1>2, <1>4 DEF Holds, Fact
  <2> DEFINE ss == j.agent.spaces
  <2>2. mode = "complete" => o = job[w].who \/ ss \subseteq Reachable(w)
    BY <2>1
  <2>3. ds = DatasetIds(w, ss) /\ <<"sees", o>> \in F
    BY <1>4
  <2> HIDE DEF ss, ds, mode, o
  <2>4. /\ DatasetIds(w, ss) \subseteq Dataset
        /\ FromSeen(e, o, DatasetIds(w, ss))
        /\ (o = job[w].who \/ ss \subseteq Reachable(w)) =>
              FromReach(e, Reachable(w), DatasetIds(w, ss))
    BY <1>2, <1>7, <2>3, DatasetsDrawn
  <2> QED
    BY <2>2, <2>3, <2>4
<1> HIDE DEF ds
<1>10. IsAgent(e, o, rec) /\ rec.datasets = ds
  BY <1>8, <1>9 DEF IsAgent
<1>11. IsAgent(e, o, new) /\ new.datasets = ds
  <2> DEFINE b == rec.chat \/ ds # {}
  <2>1. b \in BOOLEAN
    OBVIOUS
  <2>2. new = [rec EXCEPT !.chat = b]
    OBVIOUS
  <2> HIDE DEF b, rec, new
  <2> QED
    BY <1>10, <2>1, <2>2 DEF IsAgent
<1>20. ASSUME Go(w, Done(w, a, mode, rec, TRUE))  PROVE Fine(e, w)'
  <2> DEFINE raised == TRUE
  <2>1. /\ raised \in BOOLEAN /\ Op(w)[1] # "none" /\ Go(w, Done(w, a, mode, rec, raised))
        /\ mode = "complete" /\ ~raised => FromReach(e, Reachable(w), rec.datasets)
    BY <1>1, <1>20
  <2> HIDE DEF o, a, mode, rec, raised
  <2> QED
    BY <1>2, <1>4, <1>10, <2>1, Finished
<1>21. ASSUME Go(w, k)  PROVE Fine(e, w)'
  <2> DEFINE K == Only(F, {"kept", "rec"})
             H == K \cup {<<"agent", o>>} \cup IF mode = "complete" THEN {<<"drawn">>} ELSE {}
             N == H \cup {<<"mine", o>>}
  <2>5. /\ IsJob(k)
        /\ k.todo = todo /\ k.who = j.who /\ k.seen = Nothing /\ k.ptr = j.ptr
        /\ k.space = j.space /\ k.row = j.row /\ k.mine = Nothing /\ k.kept = j.kept
        /\ k.agent = new /\ k.inv = j.inv /\ k.found = j.found
    <3>1. IsJob(j)
      BY DEF Ready, Sound
    <3> HIDE DEF j, o, a, mode, rec, new, todo, K, H
    <3>2. IsJob(k)
      BY <3>1, JobFields DEF IsJob
    <3> QED
      BY <3>1, <3>2, JobFields DEF IsJob
  <2> HIDE DEF k
  <2>6. \A f \in K : f \in F /\ Same(j, k, f)
    BY <2>5 DEF But, Only, Same
  <2>7. IsSpaces(e, k.seen)
    BY <2>5, EmptyList
  <2>8. Move(j.who, c, H, N)
    <3>1. H \subseteq But(H, {"mine", "has"})
      BY DEF But, Only, K, H
    <3> HIDE DEF H, o, mode
    <3> QED
      BY <1>4, <3>1 DEF Move, ListMove, SpaceMove, MemberMove, AgentMove
  <2>9. Move(j.who, d, N, G)
    <3>1. /\ K \subseteq Only(N, {"kept", "rec"})
          /\ {<<"mine", o>>, <<"agent", o>>} \subseteq N
          /\ mode = "complete" => <<"drawn">> \in N
      BY DEF Only, K, H
    <3>2. mode = "remove" => <<"kept", o>> \in Only(N, {"kept", "rec"})
      BY <1>4, <3>1 DEF Only, K
    <3>3. Only(N, {"kept", "rec"}) \subseteq N
      BY DEF Only
    <3>4. G \subseteq Only(N, {"kept", "rec"})
                      \cup IF mode = "complete" THEN {<<"found">>} ELSE {}
      BY <1>4, <3>1 DEF K
    <3> HIDE DEF N, o, a, mode
    <3> QED
      BY <1>4, <3>1, <3>2, <3>3, <3>4 DEF Move, ListMove, SpaceMove, MemberMove, AgentMove
  <2>10. Leads(j.who, <<c, d>>, H, G) /\ Quiet(<<c, d>>)
    <3>1. c[1] # "search" /\ d[1] # "search"
      OBVIOUS
    <3> HIDE DEF c, d, H, N, j
    <3> QED
      BY <2>8, <2>9, <3>1, LeadsTwo
  <2>11. IsSeq(todo) /\ Runs(j.who, todo, H) /\ (Searches(todo) => Searches(j.todo))
    <3> DEFINE p == <<c, d>>
    <3>1. todo = p \o Rest(w) /\ Leads(j.who, p, H, G) /\ Quiet(p)
      BY <2>10 DEF todo
    <3> HIDE DEF p, H, j
    <3> QED
      BY <1>2, <1>3, <3>1 DEF Leads, Quiet
  <2>12. Reachable(w) \subseteq Reachable(w)'
    BY <1>21, <2>5, <2>11, ReachesMore DEF Ready
  <2>13. Fact(e, k, Reachable(w)', <<"agent", o>>)
    BY <1>11, <2>5 DEF Fact
  <2>14. mode = "complete" => Fact(e, k, Reachable(w)', <<"drawn">>)
    <3>1. Grows(e, e)
      BY DEF Grows
    <3>2. mode = "complete" => FromReach(e, Reachable(w)', ds)
      BY <1>9, <2>12, <3>1, SeenMore
    <3> QED
      BY <1>11, <2>5, <3>2 DEF Fact
  <2>15. \A f \in H : (f \in F /\ Same(j, k, f)) \/ Fact(e, k, Reachable(w)', f)
    BY <2>6, <2>13, <2>14 DEF H, K
  <2> HIDE DEF H, todo
  <2> QED
    BY <1>2, <1>21, <2>5, <2>7, <2>11, <2>15, GoesOn
<1>22. IsAgents(e, o, Replaced(j.mine, a, rec))
  BY <1>8, <1>10, RecordReplaced
<1>23. Fine(e, w)'
  BY <1>1, <1>20, <1>21
<1> HIDE DEF o, a, j, rec, k
<1> QED
  BY <1>1, <1>22, <1>23, AgentsWritten DEF Ready
-----------------------------------------------------------------------------
(* Rows written before more calls *)

\* delete_space takes the space out of one assistant, which is synchronized if
\* it has a chat and a space left.
LEMMA StripStep ==
    ASSUME NEW e, NEW w \in Worker, Ready(e, w), Strip(w), History
    PROVE  Fine(e, w)' /\ Rows(e)'
<1> DEFINE j == job[w]
           o == Op(w)[2]
           a == Op(w)[3]
           rec == [j.mine[a] EXCEPT !.spaces = @ \ {Op(w)[4]}]
           todo == Sync(o, a, "plain") \o Rest(w)
           k1 == [j EXCEPT !.mine = Nothing, !.agent = rec, !.todo = todo]
           k2 == [j EXCEPT !.mine = Nothing, !.todo = Rest(w)]
<1>1. /\ Op(w)[1] = "strip" /\ (Go(w, k1) \/ Go(w, k2))
      /\ agentRow' = [agentRow EXCEPT ![o] = Replaced(j.mine, a, rec)]
      /\ UNCHANGED <<spaceRow, pointerRow, inviteRow>>
  BY DEF Strip
<1>2. PICK F, G : /\ Holds(e, j, Reachable(w), F)
                  /\ Move(j.who, Op(w), F, G)
                  /\ Runs(j.who, Rest(w), G)
  BY <1>1, Called
<1>3. IsSeq(Rest(w)) /\ (Searches(Rest(w)) => Searches(j.todo))
  BY <1>1, Called
<1>4. /\ <<"mine", o>> \in F /\ <<"has", a>> \in F /\ o \in User
      /\ G \subseteq Only(F, {"rec"})
  BY <1>1, <1>2 DEF Move, ListMove, SpaceMove, MemberMove, AgentMove
<1>7. IsSpaces(e, j.seen)
  BY DEF Ready, Sound
<1>8. IsAgents(e, o, j.mine) /\ a \in DOMAIN j.mine
  BY <1>2, <1>4 DEF Holds, Fact
<1>9. IsAgent(e, o, rec)
  <2>1. IsAgent(e, o, j.mine[a])
    BY <1>8 DEF IsAgents
  <2> HIDE DEF o, a, j
  <2> QED
    BY <2>1 DEF IsAgent
<1>20. ASSUME Go(w, k1)  PROVE Fine(e, w)'
  <2> DEFINE k == k1
             H == G \cup {<<"agent", o>>}
  <2>4. Go(w, k)
    BY <1>20
  <2>5. /\ IsJob(k)
        /\ k.todo = todo /\ k.who = j.who /\ k.seen = j.seen /\ k.ptr = j.ptr
        /\ k.space = j.space /\ k.row = j.row /\ k.mine = Nothing /\ k.kept = j.kept
        /\ k.agent = rec /\ k.inv = j.inv /\ k.found = j.found
    <3>1. IsJob(j)
      BY DEF Ready, Sound
    <3> HIDE DEF j, o, a, rec, todo
    <3>2. IsJob(k)
      BY <3>1, JobFields DEF IsJob
    <3> QED
      BY <3>1, <3>2, JobFields DEF IsJob
  <2> HIDE DEF k
  <2>6. \A f \in Only(F, {"rec"}) : f \in F /\ Same(j, k, f)
    BY <2>5 DEF But, Only, Same
  <2>7. todo = Syncing(o, a, "plain", Rest(w)) /\ IsSeq(todo)
        /\ (Searches(todo) => Searches(j.todo))
    <3>1. todo = Syncing(o, a, "plain", Rest(w))
      BY <1>3, SyncBefore
    <3> HIDE DEF todo, j, a, o
    <3>2. IsSeq(todo) /\ (Searches(todo) => Searches(Rest(w)))
      BY <1>3, <3>1, SyncBefore
    <3> QED
      BY <1>3, <3>1, <3>2
  <2>8. Runs(j.who, todo, H)
    <3>1. <<"agent", o>> \in H
      OBVIOUS
    <3>2. G \subseteq Only(H, {"kept", "rec"})
      BY <1>4 DEF Only
    <3> HIDE DEF H, todo, j, o, a
    <3>3. Runs(j.who, Syncing(o, a, "plain", Rest(w)), H)
      BY <1>2, <1>4, <1>3, <3>1, <3>2, RunsSync
    <3> QED
      BY <2>7, <3>3
  <2>9. \A f \in H : (f \in F /\ Same(j, k, f)) \/ Fact(e, k, Reachable(w)', f)
    <3>1. Fact(e, k, Reachable(w)', <<"agent", o>>)
      <4> HIDE DEF rec, o
      <4> QED
        BY <1>9, <2>5 DEF Fact
    <3> QED
      BY <1>4, <2>6, <3>1
  <2> HIDE DEF H, todo
  <2> QED
    BY <1>2, <1>7, <2>4, <2>5, <2>7, <2>8, <2>9, GoesOn
<1>21. ASSUME Go(w, k2)  PROVE Fine(e, w)'
  <2> DEFINE k == k2
  <2>4. Go(w, k)
    BY <1>21
  <2>5. /\ IsJob(k)
        /\ k.todo = Rest(w) /\ k.who = j.who /\ k.seen = j.seen /\ k.ptr = j.ptr
        /\ k.space = j.space /\ k.row = j.row /\ k.mine = Nothing /\ k.kept = j.kept
        /\ k.agent = j.agent /\ k.inv = j.inv /\ k.found = j.found
    <3>1. IsJob(j)
      BY DEF Ready, Sound
    <3> HIDE DEF j, o, a, rec, todo
    <3>2. IsJob(k)
      BY <3>1, JobFields DEF IsJob
    <3> QED
      BY <3>1, <3>2, JobFields DEF IsJob
  <2> HIDE DEF k
  <2>6. \A f \in Only(F, {"rec"}) : f \in F /\ Same(j, k, f)
    BY <2>5 DEF But, Only, Same
  <2> QED
    BY <1>2, <1>4, <1>3, <1>7, <2>4, <2>5, <2>6, GoesOn
<1>22. IsAgents(e, o, Replaced(j.mine, a, rec))
  BY <1>8, <1>9, RecordReplaced
<1>23. Fine(e, w)'
  BY <1>1, <1>20, <1>21
<1> HIDE DEF o, a, j, rec, k1, k2
<1> QED
  BY <1>1, <1>22, <1>23, AgentsWritten DEF Ready

\* remove_space_member takes the next assistant of the member's list, or
\* writes the list when all are done.
LEMMA TrimStep ==
    ASSUME NEW e, NEW w \in Worker, Ready(e, w), Trim(w), History
    PROVE  Fine(e, w)' /\ Rows(e)'
<1> DEFINE j == job[w]
           m == Op(w)[2]
           s == Op(w)[3]
           left == {a \in DOMAIN j.kept : s \in j.kept[a].spaces}
<1>1. Op(w)[1] = "trim" /\ UNCHANGED <<spaceRow, pointerRow, inviteRow>>
  BY DEF Trim
<1>2. PICK F, G : /\ Holds(e, j, Reachable(w), F)
                  /\ Move(j.who, Op(w), F, G)
                  /\ Runs(j.who, Rest(w), G)
  BY <1>1, Called
<1>3. IsSeq(Rest(w)) /\ (Searches(Rest(w)) => Searches(j.todo))
  BY <1>1, Called
<1>4. m \in User /\ <<"kept", m>> \in F /\ G = {}
  BY <1>1, <1>2 DEF Move, ListMove, SpaceMove, MemberMove, AgentMove
<1>7. IsSpaces(e, j.seen)
  BY DEF Ready, Sound
<1>8. IsAgents(e, m, j.kept)
  BY <1>2, <1>4 DEF Holds, Fact
<1>20. CASE left = {}
  <2> DEFINE k == [j EXCEPT !.todo = Rest(w), !.kept = Nothing]
  <2>4. Go(w, k) /\ agentRow' = [agentRow EXCEPT ![m] = j.kept]
    BY <1>20 DEF Trim
  <2>5. /\ IsJob(k)
        /\ k.todo = Rest(w) /\ k.who = j.who /\ k.seen = j.seen /\ k.ptr = j.ptr
        /\ k.space = j.space /\ k.row = j.row /\ k.mine = j.mine /\ k.kept = Nothing
        /\ k.agent = j.agent /\ k.inv = j.inv /\ k.found = j.found
    <3>1. IsJob(j)
      BY DEF Ready, Sound
    <3> HIDE DEF j, m, s, left
    <3>2. IsJob(k)
      BY <3>1, JobFields DEF IsJob
    <3> QED
      BY <3>1, <3>2, JobFields DEF IsJob
  <2> HIDE DEF k
  <2>7. Fine(e, w)'
    BY <1>2, <1>4, <1>3, <1>7, <2>4, <2>5, GoesOn
  <2> QED
    BY <1>1, <1>8, <2>4, <2>7, AgentsWritten DEF Ready
<1>21. CASE left # {}
  <2>1. /\ agentRow' = agentRow
        /\ \E a \in left :
             Go(w, [j EXCEPT !.agent = [j.kept[a] EXCEPT !.spaces = @ \ {s}],
                             !.todo = Sync(m, a, "remove") \o j.todo])
    BY <1>21 DEF Trim
  <2>2. PICK a \in left :
          Go(w, [j EXCEPT !.agent = [j.kept[a] EXCEPT !.spaces = @ \ {s}],
                          !.todo = Sync(m, a, "remove") \o j.todo])
    BY <2>1
  <2> DEFINE rec == [j.kept[a] EXCEPT !.spaces = @ \ {s}]
             todo == Sync(m, a, "remove") \o j.todo
             k == [j EXCEPT !.agent = rec, !.todo = todo]
             H == {<<"kept", m>>}
             K == {<<"kept", m>>, <<"agent", m>>}
  <2>4. Go(w, k)
    BY <2>2
  <2>5. /\ IsJob(k)
        /\ k.todo = todo /\ k.who = j.who /\ k.seen = j.seen /\ k.ptr = j.ptr
        /\ k.space = j.space /\ k.row = j.row /\ k.mine = j.mine /\ k.kept = j.kept
        /\ k.agent = rec /\ k.inv = j.inv /\ k.found = j.found
    <3>1. IsJob(j)
      BY DEF Ready, Sound
    <3> HIDE DEF j, m, s, left, rec, todo
    <3>2. IsJob(k)
      BY <3>1, JobFields DEF IsJob
    <3> QED
      BY <3>1, <3>2, JobFields DEF IsJob
  <2> HIDE DEF k
  <2>6. \A f \in But(F, {"agent", "close", "drawn"}) : f \in F /\ Same(j, k, f)
    BY <2>5 DEF But, Only, Same
  <2>7. IsAgent(e, m, rec)
    <3>1. IsAgent(e, m, j.kept[a])
      BY <1>8 DEF IsAgents
    <3> HIDE DEF m, j, left, s
    <3> QED
      BY <3>1 DEF IsAgent
  <2>8. j.todo = Then(Op(w), Rest(w)) /\ IsSeq(j.todo)
    BY <1>1, Called DEF Ready, Sound
  <2>9. Runs(j.who, j.todo, H)
    <3>1. Move(j.who, Op(w), H, G)
      BY <1>1, <1>4 DEF Move, ListMove, SpaceMove, MemberMove, AgentMove
    <3> HIDE DEF H, j
    <3> QED
      BY <1>2, <1>3, <2>8, <3>1, RunsThen
  <2>10. todo = Syncing(m, a, "remove", j.todo) /\ IsSeq(todo)
         /\ (Searches(todo) => Searches(j.todo))
    <3>1. todo = Syncing(m, a, "remove", j.todo)
      BY <2>8, SyncBefore
    <3> HIDE DEF todo, j, m
    <3>2. IsSeq(todo) /\ (Searches(todo) => Searches(j.todo))
      BY <2>8, <3>1, SyncBefore
    <3> QED
      BY <3>1, <3>2
  <2>11. Runs(j.who, todo, K)
    <3>1. <<"agent", m>> \in K /\ <<"kept", m>> \in K /\ H \subseteq Only(K, {"kept", "rec"})
      BY DEF Only
    <3> HIDE DEF H, K, todo, j, m
    <3>2. Runs(j.who, Syncing(m, a, "remove", j.todo), K)
      BY <1>4, <2>8, <2>9, <3>1, RunsSync
    <3> QED
      BY <2>10, <3>2
  <2>12. \A f \in K : (f \in F /\ Same(j, k, f)) \/ Fact(e, k, Reachable(w)', f)
    <3>1. Fact(e, k, Reachable(w)', <<"agent", m>>)
      <4> HIDE DEF rec, m
      <4> QED
        BY <2>5, <2>7 DEF Fact
    <3>2. <<"kept", m>> \in But(F, {"agent", "close", "drawn"})
      BY <1>4 DEF But
    <3> QED
      BY <2>6, <3>1, <3>2
  <2> HIDE DEF K, todo
  <2>13. Fine(e, w)'
    BY <1>2, <1>7, <2>4, <2>5, <2>10, <2>11, <2>12, GoesOn
  <2>14. UNCHANGED rows
    BY <1>1, <2>1 DEF rows
  <2> QED
    BY <2>13, <2>14, RowsStay DEF Ready
<1> QED
  BY <1>20, <1>21

\* delete_space writes the caller's list without the space, and goes on to its
\* members.
LEMMA DropSpaceStep ==
    ASSUME NEW e, NEW w \in Worker, Ready(e, w), DropSpace(w), History
    PROVE  Fine(e, w)' /\ Rows(e)'
<1> DEFINE j == job[w]
           u == j.who
           s == Op(w)[2]
           left == j.space.members \ {u}
           list == Without(OwnPart(j.seen, u), s)
           todo == Loop("leave", s, left) \o Rest(w)
           k == [j EXCEPT !.seen = Nothing, !.space = Nothing, !.todo = todo]
<1>1. /\ Op(w)[1] = "dropspace" /\ Go(w, k)
      /\ spaceRow' = [spaceRow EXCEPT ![u] = list]
      /\ UNCHANGED <<pointerRow, inviteRow, agentRow>>
  BY DEF DropSpace
<1>2. PICK F, G : /\ Holds(e, j, Reachable(w), F)
                  /\ Move(j.who, Op(w), F, G)
                  /\ Runs(j.who, Rest(w), G)
  BY <1>1, Called
<1>3. IsSeq(Rest(w)) /\ (Searches(Rest(w)) => Searches(j.todo))
  BY <1>1, Called
<1>4. <<"space", s>> \in F /\ G = {}
  BY <1>1, <1>2 DEF Move, ListMove, SpaceMove, MemberMove, AgentMove
<1>5. /\ IsJob(k)
      /\ k.todo = todo /\ k.who = j.who /\ k.seen = Nothing /\ k.ptr = j.ptr
      /\ k.space = Nothing /\ k.row = j.row /\ k.mine = j.mine /\ k.kept = j.kept
      /\ k.agent = j.agent /\ k.inv = j.inv /\ k.found = j.found
  <2>1. IsJob(j)
    BY DEF Ready, Sound
  <2> HIDE DEF j, s, u, left, list, todo
  <2>2. IsJob(k)
    BY <2>1, JobFields DEF IsJob
  <2> QED
    BY <2>1, <2>2, JobFields DEF IsJob
<1> HIDE DEF k
<1>7. IsSpaces(e, j.seen)
  BY DEF Ready, Sound
<1>8. left \subseteq User
  BY <1>2, <1>4 DEF Holds, Fact, IsSpace
<1> DEFINE c == <<"leave", s, left>>
<1>9. Move(j.who, c, {}, {})
  BY <1>8 DEF Move, ListMove, SpaceMove, MemberMove, AgentMove
<1>10. /\ todo \in {Rest(w), Then(c, Rest(w))}
       /\ IsSeq(todo)
       /\ Searches(todo) => Searches(Rest(w))
  <2> HIDE DEF left, s
  <2>1. Searches(todo) => "leave" = "search" \/ Searches(Rest(w))
    BY <1>3, LoopBefore
  <2>2. todo \in {Rest(w), Then(c, Rest(w))} /\ IsSeq(todo)
    BY <1>3, LoopBefore
  <2> QED
    BY <2>1, <2>2
<1>11. \A x \in DOMAIN list : IsSpace(e, x, list[x]) /\ list[x].owner = u
  <2> HIDE DEF u, j
  <2> QED
    BY <1>7 DEF Without, OwnPart, IsSpaces
<1>12. IsSpaces(e, list)
  BY <1>11 DEF IsSpaces
<1>13. IsSpaces(e, k.seen)
  BY <1>5, EmptyList
<1> HIDE DEF todo, c, list, u
<1>14. Runs(j.who, todo, {})
  <2>1. Runs(j.who, Then(c, Rest(w)), {})
    BY <1>2, <1>4, <1>3, <1>9, RunsThen
  <2> QED
    BY <1>2, <1>4, <1>10, <2>1
<1>15. Fine(e, w)'
  BY <1>1, <1>2, <1>3, <1>5, <1>10, <1>13, <1>14, GoesOn
<1> QED
  BY <1>1, <1>11, <1>12, <1>15, SpacesWritten DEF Ready
-----------------------------------------------------------------------------
(* Calls with which the world grows *)

\* An invitation that is pending is answered.
LEMMA AnswerStep ==
    ASSUME NEW e, NEW w \in Worker, Ready(e, w), Answer(w), History
    PROVE  \E m : Grows(e, m) /\ IsWorld(m) /\ Matches(m)' /\ Rows(m)' /\ Fine(m, w)'
<1> DEFINE j == job[w]
           u == j.who
           s == Op(w)[2]
           k == [j EXCEPT !.todo = Rest(w), !.inv = inviteRow[u]]
<1>1. Op(w)[1] = "answer" /\ UNCHANGED <<rows, spent>>
  BY DEF Answer
<1>20. CASE Abort(w) /\ admitted' = admitted
  <2>1. Fine(e, w)'
    BY <1>20, Aborted
  <2>2. Rows(e)'
    BY <1>1, RowsStay DEF Ready
  <2>3. Grows(e, e) /\ IsWorld(e) /\ Matches(e)'
    BY <1>1, <1>20 DEF Ready, Matches, Grows
  <2> QED
    BY <2>1, <2>2, <2>3
<1>21. CASE /\ Go(w, k)
            /\ admitted' = IF Op(w)[3] THEN [admitted EXCEPT ![u] = @ \cup {s}] ELSE admitted
            /\ inviteRow[u][s] = "pending"
  <2>1. PICK m : m = [own |-> e.own, data |-> e.data, ids |-> e.ids,
                      adm |-> e.adm \cup IF Op(w)[3] THEN {<<s, u>>} ELSE {}]
    OBVIOUS
  <2>2. PICK F, G : /\ Move(j.who, Op(w), F, G)
                    /\ Runs(j.who, Rest(w), G)
    BY <1>1, Called
  <2>4. IsSeq(Rest(w))
    BY <1>1, Called
  <2>3. /\ s \in Space /\ Op(w)[3] \in BOOLEAN
        /\ G \subseteq {<<"inv", u>>} \cup IF Op(w)[3] THEN {<<"adm", s, u>>} ELSE {}
    BY <1>1, <2>2 DEF Move, ListMove, SpaceMove, MemberMove, AgentMove
  <2>20. Go(w, k)
    BY <1>21
  <2>5. /\ IsJob(k)
        /\ k.todo = Rest(w) /\ k.who = j.who /\ k.seen = j.seen /\ k.ptr = j.ptr
        /\ k.space = j.space /\ k.row = j.row /\ k.mine = j.mine /\ k.kept = j.kept
        /\ k.agent = j.agent /\ k.inv = inviteRow[u] /\ k.found = j.found
    <3>1. IsJob(j)
      BY DEF Ready, Sound
    <3> HIDE DEF j, s, u
    <3>2. IsJob(k)
      BY <3>1, JobFields DEF IsJob
    <3> QED
      BY <3>1, <3>2, JobFields DEF IsJob
  <2> HIDE DEF k
  <2>7. IsSpaces(e, j.seen) /\ u \in User
    BY DEF Ready, Sound
  <2>8. IsInvites(e, u, inviteRow[u]) /\ Foreign(e, s, u)
    BY <1>21, <2>3, <2>7 DEF Ready, Rows, InviteRows, IsInvites
  <2>9. Grows(e, m) /\ IsWorld(m)
    <3>1. Grows(e, m)
      BY <2>1 DEF Grows
    <3>2. \A x, v : Foreign(e, x, v) => Foreign(m, x, v)
      BY <3>1, SeenMore
    <3>3. ASSUME NEW x, NEW v, <<x, v>> \in m.adm  PROVE v \in User /\ Foreign(m, x, v)
      <4>1. CASE <<x, v>> \in e.adm
        BY <3>2, <4>1 DEF Ready, IsWorld
      <4>2. CASE x = s /\ v = u
        BY <2>7, <2>8, <3>2, <4>2
      <4> QED
        BY <2>1, <3>3, <4>1, <4>2
    <3> QED
      BY <2>1, <3>1, <3>3 DEF Ready, IsWorld
  <2>10. Matches(m)'
    <3>1. ASSUME NEW x, NEW v, <<x, v>> \in m.adm  PROVE x \in admitted'[v]
      <4>1. CASE <<x, v>> \in e.adm
        <5>1. v \in User /\ x \in admitted[v]
          BY <4>1 DEF Ready, IsWorld, Matches
        <5> QED
          BY <1>21, <5>1 DEF Ready, Matches
      <4>2. CASE Op(w)[3] /\ x = s /\ v = u
        BY <1>21, <2>7, <4>2 DEF Ready, Matches
      <4> QED
        BY <2>1, <3>1, <4>1, <4>2
    <3>2. admitted' = [v \in User |-> admitted'[v]]
      BY <1>21 DEF Ready, Matches
    <3>3. m.ids = spent'
      BY <1>1, <2>1 DEF Ready, Matches
    <3> QED
      BY <3>1, <3>2, <3>3 DEF Matches
  <2>11. Op(w)[3] => <<s, u>> \in m.adm
    BY <2>1
  <2>12. Rows(m)'
    <3>1. Rows(m)
      BY <2>9, RowsMore DEF Ready
    <3> QED
      BY <1>1, <3>1, RowsStay
  <2>13. \A f \in G : Fact(m, k, Reachable(w)', f)
    <3>1. Fact(m, k, Reachable(w)', <<"inv", u>>)
      BY <2>5, <2>8, <2>9, ListsMore DEF Fact
    <3>2. Op(w)[3] => Fact(m, k, Reachable(w)', <<"adm", s, u>>)
      BY <2>11 DEF Fact
    <3> QED
      BY <2>3, <3>1, <3>2
  <2>14. IsSpaces(m, k.seen)
    BY <2>5, <2>7, <2>9, ListsMore
  <2>15. Sound(m, Reachable(w)', k)
    BY <2>2, <2>4, <2>5, <2>7, <2>13, <2>14 DEF Sound, Holds
  <2>16. Fine(m, w)'
    <3>1. job'[w] = Idle \/ job'[w] = k
      BY <2>20 DEF Go, Ready, Jobs
    <3> QED
      BY <2>15, <3>1 DEF Fine
  <2> QED
    BY <2>9, <2>10, <2>12, <2>16
<1> QED
  BY <1>20, <1>21 DEF Answer
-----------------------------------------------------------------------------
(* The requests: each can make all its calls, from what it knows first *)

\* sync_agent_chat before other calls.
LEMMA LeadsSync ==
    ASSUME NEW u, NEW o \in User, NEW a, NEW mode \in {"plain", "remove", "complete"},
           NEW F, NEW G, <<"agent", o>> \in F,
           mode = "remove" => <<"kept", o>> \in F,
           mode = "complete" => <<"close", o>> \in F,
           G \subseteq Only(F, {"kept", "rec"})
                       \cup IF mode = "complete" THEN {<<"found">>} ELSE {}
    PROVE  Leads(u, Sync(o, a, mode), F, G)
<1> DEFINE p == Sync(o, a, mode)
<1>1. IsSeq(p)
  BY NoCalls, SyncBefore
<1>2. ASSUME NEW s, IsSeq(s), Runs(u, s, G)
      PROVE  IsSeq(p \o s) /\ Runs(u, p \o s, F)
  <2>1. p \o s = Syncing(o, a, mode, s) /\ IsSeq(Syncing(o, a, mode, s))
    BY <1>2, SyncBefore
  <2>2. Runs(u, Syncing(o, a, mode, s), F)
    BY <1>2, RunsSync
  <2> QED
    BY <2>1, <2>2
<1> HIDE DEF p
<1>3. Leads(u, p, F, G)
  BY <1>1, <1>2 DEF Leads
<1> QED
  BY <1>3 DEF p

\* get_spaces, and creating a space.
LEMMA ListCalls ==
    ASSUME NEW u \in User, NEW s
    PROVE  /\ Leads(u, List(u), {}, {})
           /\ Leads(u, List(u) \o <<<<"create", s>>>>, {<<"owned", s, u>>}, {})
<1>1. Leads(u, List(u), {}, {})
  BY LeadsList
<1> DEFINE F == {<<"owned", s, u>>}
           a == <<"create", s>>
<1>2. Leads(u, List(u), F, F)
  <2>1. F \subseteq But(F, {"sees", "ptr"}) \cup {<<"sees", u>>, <<"ptr", u>>}
    BY DEF But
  <2> HIDE DEF F
  <2> QED
    BY <2>1, LeadsList
<1>3. Leads(u, <<a>>, F, {})
  <2>1. Move(u, a, F, {})
    BY DEF Move, ListMove, SpaceMove, MemberMove, AgentMove
  <2> HIDE DEF F, a
  <2> QED
    BY <2>1, LeadsOne
<1>4. Leads(u, List(u) \o <<a>>, F, {})
  <2> DEFINE p == List(u)
             q == <<a>>
  <2>1. Leads(u, p, F, F) /\ Leads(u, q, F, {})
    BY <1>2, <1>3
  <2> HIDE DEF F, a, p, q
  <2>2. Leads(u, p \o q, F, {})
    BY <2>1, LeadsBoth
  <2> QED
    BY <2>2 DEF p, q
<1> QED
  BY <1>1, <1>4 DEF F, a

\* delete_space.
LEMMA DeleteCalls ==
    ASSUME NEW u \in User, NEW s
    PROVE  Leads(u, List(u) \o <<<<"require", s>>>> \o List(u)
                    \o <<<<"dropspace", s>>, <<"find", s, "detach">>>>, {}, {})
<1> DEFINE F == {<<"space", s>>}
           a == <<"require", s>>
           b == <<"dropspace", s>>
           c == <<"find", s, "detach">>
<1>1. Leads(u, List(u), {}, {})
  BY LeadsList
<1>2. Leads(u, <<a>>, {}, F)
  <2>1. Move(u, a, {}, F)
    BY DEF Move, ListMove, SpaceMove, MemberMove, AgentMove
  <2> HIDE DEF F, a
  <2> QED
    BY <2>1, LeadsOne
<1>3. Leads(u, List(u), F, F)
  <2>1. F \subseteq But(F, {"sees", "ptr"}) \cup {<<"sees", u>>, <<"ptr", u>>}
    BY DEF But
  <2> HIDE DEF F
  <2> QED
    BY <2>1, LeadsList
<1>4. Leads(u, <<b, c>>, F, {})
  <2>1. Move(u, b, F, {})
    BY DEF Move, ListMove, SpaceMove, MemberMove, AgentMove
  <2>2. Move(u, c, {}, {})
    BY DEF Move, ListMove, SpaceMove, MemberMove, AgentMove
  <2> HIDE DEF F, b, c
  <2> QED
    BY <2>1, <2>2, LeadsTwo
<1> DEFINE l == List(u)
           p == <<a>>
           q == <<b, c>>
<1>5. /\ Leads(u, l, {}, {}) /\ Leads(u, p, {}, F) /\ Leads(u, l, F, F)
      /\ Leads(u, q, F, {})
  BY <1>1, <1>2, <1>3, <1>4
<1> HIDE DEF F, a, b, c, l, p, q
<1>6. Leads(u, l \o p, {}, F)
  BY <1>5, LeadsBoth
<1> DEFINE x == l \o p
<1>7. Leads(u, x, {}, F)
  BY <1>6
<1> HIDE DEF x
<1>8. Leads(u, x \o l, {}, F)
  BY <1>5, <1>7, LeadsBoth
<1> DEFINE y == x \o l
<1>9. Leads(u, y, {}, F)
  BY <1>8
<1> HIDE DEF y
<1>10. Leads(u, y \o q, {}, {})
  BY <1>5, <1>9, LeadsBoth
<1> QED
  BY <1>10 DEF y, x, l, p, q, a, b, c

\* update_space, and the addition and removal of a dataset.
LEMMA EditCalls ==
    ASSUME NEW u \in User, NEW s, NEW c, NEW F, Grounded(s, c, F), Only(F, {"sees", "ptr"}) = {}
    PROVE  /\ Leads(u, List(u) \o Edit(s, c), F, {})
           /\ Leads(u, List(u) \o Edit(s, c) \o OnSpace(s), F, {})
<1> DEFINE a == <<"find", s, "each">>
<1>1. Leads(u, List(u), F, F)
  <2>1. F \subseteq But(F, {"sees", "ptr"}) \cup {<<"sees", u>>, <<"ptr", u>>}
    BY DEF But, Only
  <2> QED
    BY <2>1, LeadsList
<1>2. Leads(u, Edit(s, c), F, {})
  BY LeadsEdit
<1>3. Leads(u, <<a>>, {}, {})
  <2>1. Move(u, a, {}, {})
    BY DEF Move, ListMove, SpaceMove, MemberMove, AgentMove
  <2> HIDE DEF a
  <2> QED
    BY <2>1, LeadsOne
<1> DEFINE l == List(u)
           p == Edit(s, c)
           q == OnSpace(s)
<1>4. Leads(u, l, F, F) /\ Leads(u, p, F, {}) /\ Leads(u, q, {}, {})
  BY <1>1, <1>2, <1>3 DEF OnSpace
<1> HIDE DEF a, l, p, q
<1>5. Leads(u, l \o p, F, {})
  BY <1>4, LeadsBoth
<1> DEFINE x == l \o p
<1>6. Leads(u, x, F, {})
  BY <1>5
<1> HIDE DEF x
<1>7. Leads(u, x \o q, F, {})
  BY <1>4, <1>6, LeadsBoth
<1> QED
  BY <1>5, <1>7 DEF x, l, p, q

\* respond_to_space_invitation.
LEMMA AnswerCalls ==
    ASSUME NEW u \in User, NEW s \in Space
    PROVE  /\ Leads(u, <<<<"answer", s, TRUE>>, <<"fetch", s, "admit", u>>,
                         <<"iwrite", u, s, "accepted">>>>, {}, {})
           /\ Leads(u, <<<<"answer", s, FALSE>>, <<"iwrite", u, s, "declined">>>>, {}, {})
<1> DEFINE a == <<"answer", s, TRUE>>
           b == <<"fetch", s, "admit", u>>
           c == <<"iwrite", u, s, "accepted">>
           d == <<"answer", s, FALSE>>
           f == <<"iwrite", u, s, "declined">>
           F == {<<"inv", u>>, <<"adm", s, u>>}
           G == {<<"inv", u>>}
<1>1. Move(u, a, {}, F)
  BY DEF Move, ListMove, SpaceMove, MemberMove, AgentMove
<1>2. Move(u, b, F, G)
  <2>1. <<"adm", s, u>> \in F /\ G \subseteq Only(F, {"inv"})
    BY DEF Only
  <2> HIDE DEF F, G
  <2> QED
    BY <2>1 DEF Move, ListMove, SpaceMove, MemberMove, AgentMove
<1>3. Move(u, c, G, {}) /\ Move(u, f, G, {})
  BY DEF Move, ListMove, SpaceMove, MemberMove, AgentMove, Status
<1>4. Move(u, d, {}, G)
  BY DEF Move, ListMove, SpaceMove, MemberMove, AgentMove
<1> HIDE DEF a, b, c, d, f, F, G
<1>5. Leads(u, <<a>>, {}, F) /\ Leads(u, <<b, c>>, F, {})
  BY <1>1, <1>2, <1>3, LeadsOne, LeadsTwo
<1>6. Leads(u, <<d, f>>, {}, {})
  BY <1>3, <1>4, LeadsTwo
<1> DEFINE p == <<a>>
           q == <<b, c>>
           z == <<a, b, c>>
<1>7. z = p \o q
  BY InTwo
<1>8. Leads(u, p, {}, F) /\ Leads(u, q, F, {})
  BY <1>5
<1> HIDE DEF p, q, z
<1>9. Leads(u, z, {}, {})
  BY <1>7, <1>8, LeadsBoth
<1> QED
  BY <1>6, <1>9 DEF z, a, b, c, d, f

\* invite_space_members and remove_space_member.
LEMMA MemberCalls ==
    ASSUME NEW u \in User, NEW s
    PROVE  /\ \A us \in SUBSET User :
                 Leads(u, List(u) \o <<<<"require", s>>, <<"invite", s, us>>>>, {}, {})
           /\ \A m \in User \ {u} :
                 Leads(u, List(u) \o <<<<"require", s>>, <<"fetch", s, "remove", m>>>>, {}, {})
<1> DEFINE l == List(u)
           a == <<"require", s>>
           F == {<<"space", s>>, <<"owned", s, u>>}
<1>1. Leads(u, l, {}, {})
  BY LeadsList
<1>2. Move(u, a, {}, F)
  BY DEF Move, ListMove, SpaceMove, MemberMove, AgentMove
<1>3. ASSUME NEW us \in SUBSET User
      PROVE  Leads(u, l \o <<a, <<"invite", s, us>>>>, {}, {})
  <2> DEFINE b == <<"invite", s, us>>
             q == <<a, b>>
  <2>1. Move(u, b, F, {})
    BY DEF Move, ListMove, SpaceMove, MemberMove, AgentMove
  <2> HIDE DEF a, b, F, l
  <2>2. Leads(u, q, {}, {})
    BY <1>2, <2>1, LeadsTwo
  <2> HIDE DEF q
  <2>3. Leads(u, l \o q, {}, {})
    BY <1>1, <2>2, LeadsBoth
  <2> QED
    BY <2>3 DEF q, b
<1>4. ASSUME NEW m \in User \ {u}
      PROVE  Leads(u, l \o <<a, <<"fetch", s, "remove", m>>>>, {}, {})
  <2> DEFINE b == <<"fetch", s, "remove", m>>
             q == <<a, b>>
  <2>1. Move(u, b, F, {})
    BY DEF Move, ListMove, SpaceMove, MemberMove, AgentMove
  <2> HIDE DEF a, b, F, l
  <2>2. Leads(u, q, {}, {})
    BY <1>2, <2>1, LeadsTwo
  <2> HIDE DEF q
  <2>3. Leads(u, l \o q, {}, {})
    BY <1>1, <2>2, LeadsBoth
  <2> QED
    BY <2>3 DEF q, b
<1> QED
  BY <1>3, <1>4 DEF l, a

\* delete_agent and generate_agent_chat_completion.
LEMMA AgentCalls ==
    ASSUME NEW u \in User, NEW a
    PROVE  /\ Leads(u, <<<<"copy", a, {}>>, <<"aread", u>>, <<"dropagent", a>>>>, {}, {})
           /\ Leads(u, List(u) \o <<<<"pick", a>>, <<"search">>>>, {}, {})
<1> DEFINE b == <<"copy", a, {}>>
           c == <<"aread", u>>
           d == <<"dropagent", a>>
           F == {<<"mine", u>>}
<1>1. Move(u, b, {}, {}) /\ Move(u, c, {}, F) /\ Move(u, d, F, {})
  BY DEF Move, ListMove, SpaceMove, MemberMove, AgentMove
<1> HIDE DEF b, c, d, F
<1>2. Leads(u, <<b>>, {}, {}) /\ Leads(u, <<c, d>>, {}, {})
  BY <1>1, LeadsOne, LeadsTwo
<1> DEFINE p == <<b>>
           q == <<c, d>>
           z == <<b, c, d>>
<1>3. z = p \o q
  BY InTwo
<1>4. Leads(u, p, {}, {}) /\ Leads(u, q, {}, {})
  BY <1>2
<1> HIDE DEF p, q, z
<1>5. Leads(u, z, {}, {})
  BY <1>3, <1>4, LeadsBoth
<1> DEFINE x == <<"pick", a>>
           y == <<"search">>
           G == {<<"sees", u>>}
           H == {<<"found">>}
           l == List(u)
           m == <<x, y>>
<1>6. Leads(u, l, {}, G)
  <2>1. G \subseteq But({}, {"sees", "ptr"}) \cup {<<"sees", u>>, <<"ptr", u>>}
    OBVIOUS
  <2> HIDE DEF G
  <2> QED
    BY <2>1, LeadsList
<1>7. Move(u, x, G, H) /\ Move(u, y, H, {})
  BY DEF Move, ListMove, SpaceMove, MemberMove, AgentMove
<1> HIDE DEF x, y, G, H, l
<1>8. Leads(u, m, G, {})
  BY <1>7, LeadsTwo
<1> HIDE DEF m
<1>9. Leads(u, l \o m, {}, {})
  BY <1>6, <1>8, LeadsBoth
<1> QED
  BY <1>5, <1>9 DEF z, b, c, d, l, m, x, y

\* update_agent and create_agent.
LEMMA SaveCalls ==
    ASSUME NEW u \in User, NEW a, NEW ss \in SUBSET Space
    PROVE  /\ Leads(u, <<<<"copy", a, ss>>>> \o List(u)
                       \o <<<<"check">>, <<"put", a, FALSE>>>> \o Sync(u, a, "plain"), {}, {})
           /\ Leads(u, List(u) \o <<<<"check">>, <<"put", a, TRUE>>>> \o Sync(u, a, "plain"),
                    {<<"agent", u>>, <<"id", a>>}, {})
<1> DEFINE b == <<"copy", a, ss>>
           c == <<"check">>
           d == <<"put", a, FALSE>>
           f == <<"put", a, TRUE>>
           A == {<<"agent", u>>}
           B == {<<"agent", u>>, <<"mine", u>>}
           C == {<<"agent", u>>, <<"id", a>>}
           D == {<<"agent", u>>, <<"mine", u>>, <<"id", a>>}
           l == List(u)
           y == Sync(u, a, "plain")
<1>1. Move(u, b, {}, A)
  BY DEF Move, ListMove, SpaceMove, MemberMove, AgentMove
<1>2. Leads(u, l, A, A) /\ Leads(u, l, C, C)
  <2>1. /\ A \subseteq But(A, {"sees", "ptr"}) \cup {<<"sees", u>>, <<"ptr", u>>}
        /\ C \subseteq But(C, {"sees", "ptr"}) \cup {<<"sees", u>>, <<"ptr", u>>}
    BY DEF But
  <2> HIDE DEF A, C
  <2> QED
    BY <2>1, LeadsList
<1>3. Move(u, c, A, B) /\ Move(u, c, C, D)
  BY DEF Move, ListMove, SpaceMove, MemberMove, AgentMove, But
<1>4. Move(u, d, B, A) /\ Move(u, f, D, A)
  <2>1. A \subseteq But(B, {"mine", "has"}) /\ A \subseteq But(D, {"mine", "has"})
    BY DEF But
  <2> HIDE DEF A
  <2> QED
    BY <2>1 DEF Move, ListMove, SpaceMove, MemberMove, AgentMove
<1>5. Leads(u, y, A, {})
  <2> DEFINE mode == "plain"
  <2>1. mode \in {"plain", "remove", "complete"} /\ mode # "remove" /\ mode # "complete"
        /\ <<"agent", u>> \in A
    OBVIOUS
  <2> HIDE DEF A, mode
  <2>2. Leads(u, Sync(u, a, mode), A, {})
    BY <2>1, LeadsSync
  <2> QED
    BY <2>2 DEF mode
<1> HIDE DEF b, c, d, f, A, B, C, D, l, y
<1>6. Leads(u, <<b>>, {}, A) /\ Leads(u, <<c, d>>, A, A) /\ Leads(u, <<c, f>>, C, A)
  BY <1>1, <1>3, <1>4, LeadsOne, LeadsTwo
<1> DEFINE p == <<b>>
           q == <<c, d>>
           r == <<c, f>>
           x == p \o l
           z == l \o r
<1>7. Leads(u, p, {}, A) /\ Leads(u, q, A, A) /\ Leads(u, r, C, A)
  BY <1>6
<1> HIDE DEF p, q, r
<1>8. Leads(u, x, {}, A) /\ Leads(u, z, C, A)
  BY <1>2, <1>7, LeadsBoth
<1> HIDE DEF x, z
<1>9. Leads(u, x \o q, {}, A) /\ Leads(u, z \o y, C, {})
  BY <1>5, <1>7, <1>8, LeadsBoth
<1> DEFINE i == x \o q
<1>10. Leads(u, i, {}, A)
  BY <1>9
<1> HIDE DEF i
<1>11. Leads(u, i \o y, {}, {})
  BY <1>5, <1>10, LeadsBoth
<1> QED
  BY <1>9, <1>11 DEF i, x, z, p, q, r, l, y, b, c, d, f, C

\* m is e with the new ids I, spaces O of user u and datasets D.
Enlarged(e, m, I, O, D, u) ==
    /\ I \cap e.ids = {}
    /\ \A s, v : <<s, v>> \in O => s \in I \cap Space /\ v = u
    /\ \A d, s : <<d, s>> \in D => d \in I
    /\ \A d, s, t : <<d, s>> \in D /\ <<d, t>> \in D => s = t
    /\ m.own = e.own \cup O /\ m.data = e.data \cup D /\ m.adm = e.adm
    /\ m.ids = e.ids \cup I
-----------------------------------------------------------------------------
(* A request begins *)

\* New ids, for a space, a dataset of a space or an assistant, enlarge the world.
LEMMA WorldMore ==
    ASSUME NEW e, NEW m, NEW I, NEW O, NEW D, NEW u \in User, IsWorld(e),
           Enlarged(e, m, I, O, D, u)
    PROVE  IsWorld(m) /\ Grows(e, m)
<1> USE DEF Enlarged
<1>1. Grows(e, m)
  BY DEF Grows
<1>2. \A s, v : <<s, v>> \in m.own => s \in m.ids \cap Space /\ v \in User
  BY DEF IsWorld
<1>3. ASSUME NEW s, NEW v, NEW x, <<s, v>> \in m.own, <<s, x>> \in m.own
      PROVE  v = x
  BY <1>3 DEF IsWorld
<1>4. \A d, s : <<d, s>> \in m.data => d \in m.ids
  BY DEF IsWorld
<1>5. ASSUME NEW d, NEW s, NEW t, <<d, s>> \in m.data, <<d, t>> \in m.data
      PROVE  s = t
  BY <1>5 DEF IsWorld
<1>6. \A s, v : <<s, v>> \in m.adm => v \in User /\ Foreign(m, s, v)
  BY <1>1, SeenMore DEF IsWorld
<1> QED
  BY <1>1, <1>2, <1>3, <1>4, <1>5, <1>6 DEF IsWorld

\* The calls of each request.
Creating(u, s)    == List(u) \o <<<<"create", s>>>>
Deleting(u, s)    == List(u) \o <<<<"require", s>>>> \o List(u)
                     \o <<<<"dropspace", s>>, <<"find", s, "detach">>>>
Renaming(u, s)    == List(u) \o Edit(s, <<"same">>)
Accepting(u, s)   == <<<<"answer", s, TRUE>>, <<"fetch", s, "admit", u>>,
                       <<"iwrite", u, s, "accepted">>>>
Declining(u, s)   == <<<<"answer", s, FALSE>>, <<"iwrite", u, s, "declined">>>>
Inviting(u, s, v) == List(u) \o <<<<"require", s>>, <<"invite", s, v>>>>
Removing(u, s, v) == List(u) \o <<<<"require", s>>, <<"fetch", s, "remove", v>>>>
Adding(u, s, d)   == List(u) \o Edit(s, <<"add", d>>) \o OnSpace(s)
Dropping(u, s, d) == List(u) \o Edit(s, <<"drop", d>>) \o OnSpace(s)
Discarding(u, a)  == <<<<"copy", a, {}>>, <<"aread", u>>, <<"dropagent", a>>>>
Completing(u, a)  == List(u) \o <<<<"pick", a>>, <<"search">>>>
Updating(u, a, v) == <<<<"copy", a, v>>>> \o List(u)
                     \o <<<<"check">>, <<"put", a, FALSE>>>> \o Sync(u, a, "plain")
Adopting(u, a)    == List(u) \o <<<<"check">>, <<"put", a, TRUE>>>> \o Sync(u, a, "plain")

\* The requests of u that create nothing.
Simple(u) ==
    {List(u)}
    \cup (UNION {{Deleting(u, s), Renaming(u, s), Accepting(u, s), Declining(u, s)} :
                 s \in Space})
    \cup (UNION {{Inviting(u, s, us) : us \in SUBSET User} : s \in Space})
    \cup (UNION {{Removing(u, s, m) : m \in User \ {u}} : s \in Space})
    \cup (UNION {{Dropping(u, s, d) : d \in Dataset} : s \in Space})
    \cup (UNION {{Discarding(u, a), Completing(u, a)} : a \in Agent})
    \cup (UNION {{Updating(u, a, ss) : ss \in SUBSET Space} : a \in Agent})

\* They can make all their calls, knowing nothing first.
LEMMA SimpleRuns ==
    ASSUME NEW u \in User, NEW todo \in Simple(u)
    PROVE  Runs(u, todo, {}) /\ IsSeq(todo)
<1>1. Leads(u, List(u), {}, {})
  BY ListCalls
<1>2. ASSUME NEW s \in Space
      PROVE  /\ Leads(u, Deleting(u, s), {}, {}) /\ Leads(u, Renaming(u, s), {}, {})
             /\ Leads(u, Accepting(u, s), {}, {}) /\ Leads(u, Declining(u, s), {}, {})
  <2>1. Leads(u, Deleting(u, s), {}, {})
    BY DeleteCalls DEF Deleting
  <2>2. Leads(u, Renaming(u, s), {}, {})
    <3> DEFINE c == <<"same">>
    <3>1. Grounded(s, c, {}) /\ Only({}, {"sees", "ptr"}) = {}
      BY DEF Grounded, Only
    <3>2. Renaming(u, s) = List(u) \o Edit(s, c)
      BY DEF Renaming
    <3> HIDE DEF c
    <3>3. Leads(u, List(u) \o Edit(s, c), {}, {})
      BY <3>1, EditCalls
    <3> QED
      BY <3>2, <3>3
  <2>3. Leads(u, Accepting(u, s), {}, {}) /\ Leads(u, Declining(u, s), {}, {})
    BY AnswerCalls DEF Accepting, Declining
  <2> QED
    BY <2>1, <2>2, <2>3
<1>3. \A s : \A us \in SUBSET User : Leads(u, Inviting(u, s, us), {}, {})
  BY MemberCalls DEF Inviting
<1>4. \A s : \A m \in User \ {u} : Leads(u, Removing(u, s, m), {}, {})
  BY MemberCalls DEF Removing
<1>5. ASSUME NEW s, NEW d \in Dataset
      PROVE  Leads(u, Dropping(u, s, d), {}, {})
  <2> DEFINE c == <<"drop", d>>
  <2>1. Grounded(s, c, {}) /\ Only({}, {"sees", "ptr"}) = {}
    BY DEF Grounded, Only
  <2>2. Dropping(u, s, d) = List(u) \o Edit(s, c) \o OnSpace(s)
    BY DEF Dropping
  <2> HIDE DEF c
  <2>3. Leads(u, List(u) \o Edit(s, c) \o OnSpace(s), {}, {})
    BY <2>1, EditCalls
  <2> QED
    BY <2>2, <2>3
<1>6. \A a : Leads(u, Discarding(u, a), {}, {}) /\ Leads(u, Completing(u, a), {}, {})
  BY AgentCalls DEF Discarding, Completing
<1>7. \A a : \A ss \in SUBSET Space : Leads(u, Updating(u, a, ss), {}, {})
  BY SaveCalls DEF Updating
<1>8. Leads(u, todo, {}, {})
  BY <1>1, <1>2, <1>3, <1>4, <1>5, <1>6, <1>7 DEF Simple
<1> QED
  BY <1>8, LeadsAway

\* Every request is one of those, or creates a space, a dataset or an assistant.
LEMMA Requests ==
    ASSUME NEW u, NEW r \in SpaceRequests(u) \cup AgentRequests(u)
    PROVE  \/ \E todo \in Simple(u) : r = Plain(todo)
           \/ \E s \in Space : r = Request(Creating(u, s), {s}, Nothing)
           \/ \E s \in Space, d \in Dataset : r = Request(Adding(u, s, d), {d}, Nothing)
           \/ \E a \in Agent, ss \in SUBSET Space :
                 r = Request(Adopting(u, a), {a}, Draft(u, ss))
<1> DEFINE Other(s) ==
             {Plain(Deleting(u, s)), Plain(Renaming(u, s)), Plain(Accepting(u, s)),
              Plain(Declining(u, s))}
             \cup {Plain(Inviting(u, s, us)) : us \in (SUBSET User) \ {{}}}
             \cup {Plain(Removing(u, s, m)) : m \in User \ {u}}
             \cup {Request(Adding(u, s, d), {d}, Nothing) : d \in Dataset}
             \cup {Plain(Dropping(u, s, d)) : d \in Dataset}
           Using(a) ==
             {Plain(Discarding(u, a)), Plain(Completing(u, a))}
             \cup {Plain(Updating(u, a, ss)) : ss \in (SUBSET (spent \cap Space)) \ {{}}}
<1>1. SpaceRequests(u) =
        {Plain(List(u))}
        \cup {Request(Creating(u, s), {s}, Nothing) : s \in Space}
        \cup (UNION {Other(s) : s \in spent \cap Space})
  BY DEF SpaceRequests, Creating, Deleting, Renaming, Accepting, Declining, Inviting,
         Removing, Adding, Dropping
<1>2. AgentRequests(u) =
        (UNION {Using(a) : a \in spent \cap Agent})
        \cup {Request(Adopting(u, a), {a}, Draft(u, ss)) :
                a \in Agent, ss \in (SUBSET (spent \cap Space)) \ {{}}}
  BY DEF AgentRequests, Discarding, Completing, Updating, Adopting
<1>3. CASE r \in SpaceRequests(u)
  <2>1. CASE r = Plain(List(u))
    BY <2>1 DEF Simple
  <2>2. CASE \E s \in Space : r = Request(Creating(u, s), {s}, Nothing)
    BY <2>2
  <2>3. ASSUME NEW s \in Space,
               \/ r \in {Plain(Deleting(u, s)), Plain(Renaming(u, s)), Plain(Accepting(u, s)),
                        Plain(Declining(u, s))}
               \/ \E us \in SUBSET User : r = Plain(Inviting(u, s, us))
               \/ \E m \in User \ {u} : r = Plain(Removing(u, s, m))
               \/ \E d \in Dataset : r = Plain(Dropping(u, s, d))
        PROVE  \E todo \in Simple(u) : r = Plain(todo)
    BY <2>3 DEF Simple
  <2>4. \/ r = Plain(List(u))
        \/ \E s \in Space : r = Request(Creating(u, s), {s}, Nothing)
        \/ \E s \in Space :
              \/ r \in {Plain(Deleting(u, s)), Plain(Renaming(u, s)), Plain(Accepting(u, s)),
                       Plain(Declining(u, s))}
              \/ \E us \in SUBSET User : r = Plain(Inviting(u, s, us))
              \/ \E m \in User \ {u} : r = Plain(Removing(u, s, m))
              \/ \E d \in Dataset : r = Plain(Dropping(u, s, d))
              \/ \E d \in Dataset : r = Request(Adding(u, s, d), {d}, Nothing)
    <3>1. \/ r = Plain(List(u))
          \/ \E s \in Space : r = Request(Creating(u, s), {s}, Nothing)
          \/ \E s \in Space : r \in Other(s)
      <4> HIDE DEF Other
      <4> QED
        BY <1>1, <1>3
    <3> QED
      BY <3>1
  <2> QED
    BY <2>1, <2>2, <2>3, <2>4
<1>4. CASE r \in AgentRequests(u)
  <2>1. ASSUME NEW a \in Agent,
               \/ r = Plain(Discarding(u, a)) \/ r = Plain(Completing(u, a))
               \/ \E ss \in SUBSET Space : r = Plain(Updating(u, a, ss))
        PROVE  \E todo \in Simple(u) : r = Plain(todo)
    BY <2>1 DEF Simple
  <2>2. \E a \in Agent :
          \/ r = Plain(Discarding(u, a)) \/ r = Plain(Completing(u, a))
          \/ \E ss \in SUBSET Space : r = Plain(Updating(u, a, ss))
          \/ \E ss \in SUBSET Space : r = Request(Adopting(u, a), {a}, Draft(u, ss))
    <3>1. \/ \E a \in Agent : r \in Using(a)
          \/ \E a \in Agent, ss \in SUBSET Space :
                r = Request(Adopting(u, a), {a}, Draft(u, ss))
      <4> DEFINE New(a, ss) == Request(Adopting(u, a), {a}, Draft(u, ss))
                 All == UNION {Using(a) : a \in spent \cap Agent}
                 sets == (SUBSET (spent \cap Space)) \ {{}}
                 made == {New(a, ss) : a \in Agent, ss \in sets}
      <4>1. AgentRequests(u) = All \cup made
        BY <1>2
      <4> HIDE DEF Using, New, sets
      <4>2. r \in made => \E a \in Agent, ss \in sets : r = New(a, ss)
        OBVIOUS
      <4>3. r \in All => \E a \in Agent : r \in Using(a)
        OBVIOUS
      <4>4. r \in All \/ r \in made
        BY <1>4, <4>1
      <4>5. sets \subseteq SUBSET Space
        BY DEF sets
      <4>6. r \in made => \E a \in Agent, ss \in SUBSET Space : r = New(a, ss)
        BY <4>2, <4>5
      <4> HIDE DEF All, made
      <4> QED
        BY <4>3, <4>4, <4>6 DEF New
    <3> QED
      BY <3>1
  <2> QED
    BY <2>1, <2>2
<1> QED
  BY <1>3, <1>4

\* What a request knows when it begins: the record it was sent, and what has
\* been made for it.
Given(m, rec, f) ==
    /\ f[1] \in {"agent", "owned", "data", "id"}
    /\ f[1] = "agent" => IsAgent(m, f[2], rec)
    /\ f[1] = "owned" => <<f[2], f[3]>> \in m.own
    /\ f[1] = "data"  => <<f[2], f[3]>> \in m.data
    /\ f[1] = "id"    => f[2] \in m.ids \cap Agent

\* The request r of u can make its calls in a world that e may become.
FoundedIn(e, u, r) ==
    \E m, F : /\ Grows(e, m) /\ IsWorld(m)
              /\ m.ids = spent \cup r.ids /\ m.adm = e.adm
              /\ IsSeq(r.todo) /\ Runs(u, r.todo, F)
              /\ \A f \in F : Given(m, r.agent, f)

\* Every request can make its calls in the world that it makes.
LEMMA Founded ==
    ASSUME NEW e, IsWorld(e), e.ids = spent, NEW u \in User,
           NEW r \in SpaceRequests(u) \cup AgentRequests(u), r.ids \cap spent = {}
    PROVE  FoundedIn(e, u, r)
<1>1. CASE \E todo \in Simple(u) : r = Plain(todo)
  <2>1. PICK todo \in Simple(u) : r = Plain(todo)
    BY <1>1
  <2>2. r.todo = todo /\ r.ids = {}
    BY <2>1 DEF Plain, Request
  <2>3. Runs(u, todo, {}) /\ IsSeq(todo)
    BY SimpleRuns
  <2>4. Grows(e, e) /\ e.ids = spent \cup r.ids
    BY <2>2 DEF Grows
  <2> QED
    BY <2>2, <2>3, <2>4 DEF FoundedIn
<1>2. ASSUME NEW s \in Space, r = Request(Creating(u, s), {s}, Nothing)
      PROVE  FoundedIn(e, u, r)
  <2> DEFINE O == {<<s, u>>}
             F == {<<"owned", s, u>>}
  <2>1. PICK m : m = [own |-> e.own \cup O, data |-> e.data, adm |-> e.adm,
                      ids |-> e.ids \cup {s}]
    OBVIOUS
  <2>2. r.todo = Creating(u, s) /\ r.ids = {s}
    BY <1>2 DEF Request
  <2>3. IsWorld(m) /\ Grows(e, m)
    <3> DEFINE D == {}
               I == {s}
    <3>1. Enlarged(e, m, I, O, D, u)
      BY <2>1, <2>2 DEF Enlarged
    <3> HIDE DEF O, D, I
    <3> QED
      BY <3>1, WorldMore
  <2>4. Leads(u, Creating(u, s), F, {})
    BY ListCalls DEF Creating
  <2>5. Given(m, r.agent, <<"owned", s, u>>)
    BY <2>1 DEF Given
  <2>6. IsSeq(r.todo) /\ Runs(u, r.todo, F)
    BY <2>2, <2>4, LeadsAway
  <2>7. m.ids = spent \cup r.ids /\ m.adm = e.adm /\ \A f \in F : Given(m, r.agent, f)
    BY <2>1, <2>2, <2>5
  <2> HIDE DEF F
  <2> QED
    BY <2>3, <2>6, <2>7 DEF FoundedIn
<1>3. ASSUME NEW s \in Space, NEW d \in Dataset,
             r = Request(Adding(u, s, d), {d}, Nothing)
      PROVE  FoundedIn(e, u, r)
  <2> DEFINE D == {<<d, s>>}
             F == {<<"data", d, s>>}
             c == <<"add", d>>
  <2>1. PICK m : m = [own |-> e.own, data |-> e.data \cup D, adm |-> e.adm,
                      ids |-> e.ids \cup {d}]
    OBVIOUS
  <2>2. r.todo = Adding(u, s, d) /\ r.ids = {d}
    BY <1>3 DEF Request
  <2>3. IsWorld(m) /\ Grows(e, m)
    <3> DEFINE O == {}
               I == {d}
    <3>1. Enlarged(e, m, I, O, D, u)
      BY <2>1, <2>2 DEF Enlarged
    <3> HIDE DEF O, D, I
    <3> QED
      BY <3>1, WorldMore
  <2>4. Leads(u, Adding(u, s, d), F, {})
    <3>1. Grounded(s, c, F) /\ Only(F, {"sees", "ptr"}) = {}
      BY DEF Grounded, Only
    <3>2. Adding(u, s, d) = List(u) \o Edit(s, c) \o OnSpace(s)
      BY DEF Adding
    <3> HIDE DEF c, F
    <3>3. Leads(u, List(u) \o Edit(s, c) \o OnSpace(s), F, {})
      BY <3>1, EditCalls
    <3> QED
      BY <3>2, <3>3
  <2>5. Given(m, r.agent, <<"data", d, s>>)
    BY <2>1 DEF Given
  <2>6. IsSeq(r.todo) /\ Runs(u, r.todo, F)
    BY <2>2, <2>4, LeadsAway
  <2>7. m.ids = spent \cup r.ids /\ m.adm = e.adm /\ \A f \in F : Given(m, r.agent, f)
    BY <2>1, <2>2, <2>5
  <2> HIDE DEF F
  <2> QED
    BY <2>3, <2>6, <2>7 DEF FoundedIn
<1>4. ASSUME NEW a \in Agent, NEW ss \in SUBSET Space,
             r = Request(Adopting(u, a), {a}, Draft(u, ss))
      PROVE  FoundedIn(e, u, r)
  <2> DEFINE F == {<<"agent", u>>, <<"id", a>>}
  <2>1. PICK m : m = [own |-> e.own, data |-> e.data, adm |-> e.adm,
                      ids |-> e.ids \cup {a}]
    OBVIOUS
  <2>2. r.todo = Adopting(u, a) /\ r.ids = {a} /\ r.agent = Draft(u, ss)
    BY <1>4 DEF Request
  <2>3. IsWorld(m) /\ Grows(e, m)
    <3> DEFINE O == {}
               D == {}
               I == {a}
    <3>1. Enlarged(e, m, I, O, D, u)
      BY <2>1, <2>2 DEF Enlarged
    <3> HIDE DEF O, D, I
    <3> QED
      BY <3>1, WorldMore
  <2>4. Leads(u, Adopting(u, a), F, {})
    BY SaveCalls DEF Adopting
  <2>5. Given(m, r.agent, <<"agent", u>>)
    <3>1. IsAgent(m, u, Draft(u, ss))
      BY DEF IsAgent, Draft, FromSeen
    <3> QED
      BY <2>2, <3>1 DEF Given
  <2>6. Given(m, r.agent, <<"id", a>>)
    BY <2>1 DEF Given
  <2>7. IsSeq(r.todo) /\ Runs(u, r.todo, F)
    BY <2>2, <2>4, LeadsAway
  <2>8. m.ids = spent \cup r.ids /\ m.adm = e.adm /\ \A f \in F : Given(m, r.agent, f)
    BY <2>1, <2>2, <2>5, <2>6
  <2> HIDE DEF F
  <2> QED
    BY <2>3, <2>7, <2>8 DEF FoundedIn
<1>5. \/ \E todo \in Simple(u) : r = Plain(todo)
      \/ \E s \in Space : r = Request(Creating(u, s), {s}, Nothing)
      \/ \E s \in Space, d \in Dataset : r = Request(Adding(u, s, d), {d}, Nothing)
      \/ \E a \in Agent, ss \in SUBSET Space :
            r = Request(Adopting(u, a), {a}, Draft(u, ss))
  BY Requests
<1>6. CASE \E s \in Space, d \in Dataset : r = Request(Adding(u, s, d), {d}, Nothing)
  BY <1>3, <1>6
<1>7. CASE \E a \in Agent, ss \in SUBSET Space :
              r = Request(Adopting(u, a), {a}, Draft(u, ss))
  BY <1>4, <1>7
<1> QED
  BY <1>1, <1>2, <1>5, <1>6, <1>7

\* A request begins.
LEMMA BeginStep ==
    ASSUME NEW e, NEW w \in Worker, NEW u \in User,
           IsWorld(e), Matches(e), Rows(e), Jobs, Begin(w, u), History
    PROVE  \E m : /\ Grows(e, m) /\ IsWorld(m) /\ Matches(m)' /\ Rows(m)' /\ Fine(m, w)'
                  /\ \A x \in Worker \ {w} : job'[x] = job[x]
<1>1. PICK r \in SpaceRequests(u) \cup AgentRequests(u) :
        /\ r.ids \cap spent = {}
        /\ spent' = spent \cup r.ids
        /\ job' = [job EXCEPT ![w] =
                     [Idle EXCEPT !.todo = r.todo, !.who = u, !.agent = r.agent]]
  BY DEF Begin
<1>2. PICK m, F : /\ Grows(e, m) /\ IsWorld(m)
                  /\ m.ids = spent \cup r.ids /\ m.adm = e.adm
                  /\ IsSeq(r.todo) /\ Runs(u, r.todo, F)
                  /\ \A f \in F : Given(m, r.agent, f)
  BY <1>1, Founded DEF Matches, FoundedIn
<1> DEFINE k == [Idle EXCEPT !.todo = r.todo, !.who = u, !.agent = r.agent]
<1>3. /\ IsJob(k) /\ k.todo = r.todo /\ k.who = u /\ k.agent = r.agent /\ k.seen = Nothing
  <2>1. IsJob(Idle)
    BY DEF IsJob, Fields, Idle
  <2>2. Idle.seen = Nothing
    BY DEF Idle
  <2> QED
    BY <2>1, <2>2, JobFields DEF IsJob
<1> HIDE DEF k
<1>4. \A f \in F : Fact(m, k, Reachable(w)', f)
  <2>1. SUFFICES ASSUME NEW f \in F
                 PROVE  Fact(m, k, Reachable(w)', f)
    OBVIOUS
  <2>2. Given(m, k.agent, f)
    BY <1>2, <1>3
  <2>3. CASE f[1] = "agent"
    BY <2>2, <2>3 DEF Given, Fact
  <2>4. CASE f[1] \in {"owned", "data", "id"}
    BY <2>2, <2>4 DEF Given, Fact
  <2> QED
    BY <2>2, <2>3, <2>4 DEF Given
<1>5. Sound(m, Reachable(w)', k)
  BY <1>2, <1>3, <1>4, EmptyList DEF Sound, Holds
<1>6. job'[w] = k /\ \A x \in Worker \ {w} : job'[x] = job[x]
  BY <1>1 DEF Jobs, k
<1>7. Fine(m, w)'
  BY <1>5, <1>6 DEF Fine
<1>8. admitted' = admitted /\ UNCHANGED rows
  BY DEF Begin
<1>9. Matches(m)'
  BY <1>1, <1>2, <1>8 DEF Matches
<1>10. Rows(m)'
  BY <1>2, <1>8, RowsMore, RowsStay
<1> QED
  BY <1>2, <1>6, <1>7, <1>9, <1>10
-----------------------------------------------------------------------------
(* Every step *)

\* What every call leaves alone, and that an idle worker makes none.
Calls(w) ==
    /\ Op(w)[1] # "none"
    /\ \E k : job' = [job EXCEPT ![w] = k]
    /\ spent' = spent
    /\ ~Answer(w) => admitted' = admitted

\* A call changes one job; only answering an invitation adds to `admitted'.
LEMMA OneCall == ASSUME NEW w, Step(w)  PROVE Calls(w)
<1> USE DEF Calls, Go, Abort
<1>1. CASE Own(w)
  BY <1>1 DEF Own
<1>2. CASE Pointers(w)
  BY <1>2 DEF Pointers
<1>3. CASE Others(w)
  BY <1>3 DEF Others
<1>4. CASE Back(w)
  BY <1>4 DEF Back
<1>5. CASE Create(w)
  BY <1>5 DEF Create
<1>6. CASE Load(w)
  BY <1>6 DEF Load
<1>7. CASE Store(w)
  BY <1>7 DEF Store
<1>8. CASE Fetch(w)
  BY <1>8 DEF Fetch
<1>9. CASE Require(w)
  BY <1>9 DEF Require
<1>10. CASE ReadPointers(w)
  BY <1>10 DEF ReadPointers
<1>11. CASE WritePointers(w)
  BY <1>11 DEF WritePointers
<1>12. CASE Leave(w)
  BY <1>12 DEF Leave
<1>13. CASE DropSpace(w)
  BY <1>13 DEF DropSpace
<1>14. CASE Answer(w)
  BY <1>14 DEF Answer
<1>15. CASE Invite(w)
  BY <1>15 DEF Invite
<1>16. CASE WriteInvitations(w)
  BY <1>16 DEF WriteInvitations
<1>17. CASE ReadAgents(w)
  BY <1>17 DEF ReadAgents
<1>18. CASE SyncAgent(w)
  BY <1>18 DEF SyncAgent
<1>19. CASE SyncAgain(w)
  BY <1>19 DEF SyncAgain
<1>20. CASE FindAgents(w)
  BY <1>20 DEF FindAgents
<1>21. CASE Each(w)
  BY <1>21 DEF Each
<1>22. CASE Detach(w)
  BY <1>22 DEF Detach
<1>23. CASE Strip(w)
  BY <1>23 DEF Strip
<1>24. CASE Keep(w)
  BY <1>24 DEF Keep
<1>25. CASE Trim(w)
  BY <1>25 DEF Trim
<1>26. CASE Copy(w)
  BY <1>26 DEF Copy
<1>27. CASE Check(w)
  BY <1>27 DEF Check
<1>28. CASE Put(w)
  BY <1>28 DEF Put
<1>29. CASE DropAgent(w)
  BY <1>29 DEF DropAgent
<1>30. CASE Pick(w)
  BY <1>30 DEF Pick
<1>31. CASE Search(w)
  BY <1>31 DEF Search
<1> QED
  BY <1>1, <1>2, <1>3, <1>4, <1>5, <1>6, <1>7, <1>8, <1>9, <1>10, <1>11, <1>12,
     <1>13, <1>14, <1>15, <1>16, <1>17, <1>18, <1>19, <1>20, <1>21, <1>22, <1>23, <1>24,
     <1>25, <1>26, <1>27, <1>28, <1>29, <1>30, <1>31 DEF Step

\* The request that makes a call stays sound, in a world that may have grown.
LEMMA CallSound ==
    ASSUME NEW e, NEW w \in Worker, Ready(e, w), Step(w), History
    PROVE  \E m : Grows(e, m) /\ IsWorld(m) /\ Matches(m)' /\ Rows(m)' /\ Fine(m, w)'
<1>1. CASE Answer(w)
  BY <1>1, AnswerStep
<1>2. CASE ~Answer(w)
  <2>1. Calls(w)
    BY OneCall
  <2>2. Matches(e)'
    BY <1>2, <2>1 DEF Calls, Matches, Ready
  <2>3. Grows(e, e) /\ IsWorld(e)
    BY DEF Grows, Ready
  <2>4. Own(w) \/ Pointers(w) \/ Others(w) \/ Back(w) \/ Create(w)
         => Fine(e, w)' /\ Rows(e)'
    BY OwnStep, PointersStep, OthersStep, BackStep, CreateStep
  <2>5. Load(w) \/ Store(w) \/ Fetch(w) \/ Require(w) \/ ReadPointers(w)
         => Fine(e, w)' /\ Rows(e)'
    BY LoadStep, StoreStep, FetchStep, RequireStep, ReadPointersStep
  <2>6. WritePointers(w) \/ Leave(w) \/ DropSpace(w) \/ Invite(w) \/ WriteInvitations(w)
         => Fine(e, w)' /\ Rows(e)'
    BY WritePointersStep, LeaveStep, DropSpaceStep, InviteStep, WriteInvitationsStep
  <2>7. ReadAgents(w) \/ SyncAgent(w) \/ SyncAgain(w) \/ FindAgents(w) \/ Each(w)
         => Fine(e, w)' /\ Rows(e)'
    BY ReadAgentsStep, SyncAgentStep, SyncAgainStep, FindAgentsStep, EachStep
  <2>8. Detach(w) \/ Strip(w) \/ Keep(w) \/ Trim(w) \/ Copy(w)
         => Fine(e, w)' /\ Rows(e)'
    BY DetachStep, StripStep, KeepStep, TrimStep, CopyStep
  <2>9. Check(w) \/ Put(w) \/ DropAgent(w) \/ Pick(w) \/ Search(w)
         => Fine(e, w)' /\ Rows(e)'
    BY CheckStep, PutStep, DropAgentStep, PickStep, SearchStep
  <2>10. Fine(e, w)' /\ Rows(e)'
    BY <1>2, <2>4, <2>5, <2>6, <2>7, <2>8, <2>9 DEF Step
  <2> QED
    BY <2>2, <2>3, <2>10
<1> QED
  BY <1>1, <1>2

\* A request that makes no call stays sound when another makes one.
LEMMA OthersSound ==
    ASSUME NEW e, NEW m, NEW x \in Worker, Fine(e, x), job'[x] = job[x],
           Grows(e, m), History
    PROVE  Fine(m, x)'
<1>1. CASE job[x] = Idle
  BY <1>1 DEF Fine
<1>2. CASE Sound(e, Reachable(x), job[x])
  <2>1. Asking(x)' <=> Asking(x)
    BY DEF Asking
  <2>2. Asking(x)' => reach[x] \subseteq reach'[x]
    BY DEF History
  <2>3. Reachable(x) \subseteq Reachable(x)'
    BY <2>1, <2>2 DEF Reachable
  <2>4. Sound(m, Reachable(x)', job[x])
    BY <1>2, <2>3, SoundMore
  <2> QED
    BY <2>4 DEF Fine
<1> QED
  BY <1>1, <1>2 DEF Fine

-----------------------------------------------------------------------------
(* The invariant *)

\* In some world, the rows say nothing that it does not, and every request in
\* progress knows what its calls need.
Agreed(e) ==
    /\ IsWorld(e) /\ Matches(e) /\ Rows(e) /\ Jobs
    /\ \A w \in Worker : Fine(e, w)
Inv == \E e : Agreed(e)

\* Nothing has been decided at first.
LEMMA InvInit == Init => Inv
<1> SUFFICES ASSUME Init  PROVE Inv
  OBVIOUS
<1>1. PICK e : e = [own |-> {}, data |-> {}, adm |-> {}, ids |-> {}]
  OBVIOUS
<1>2. IsWorld(e) /\ Matches(e)
  BY <1>1 DEF IsWorld, Matches, Init
<1>3. SpaceRows(e)
  BY DEF SpaceRows, IsSpaces, Init, Nothing
<1>4. PointerRows
  BY DEF PointerRows, IsPointers, Init
<1>5. InviteRows(e)
  BY DEF InviteRows, IsInvites, Status, Init
<1>6. AgentRows(e)
  BY DEF AgentRows, IsAgents, Init, Nothing
<1>7. Jobs /\ \A w \in Worker : Fine(e, w)
  BY DEF Jobs, Fine, Init
<1> QED
  BY <1>2, <1>3, <1>4, <1>5, <1>6, <1>7 DEF Inv, Agreed, Rows

\* Whatever the order of the calls, and wherever the process dies, the world
\* only grows and every request stays sound.
LEMMA InvNext == ASSUME Inv, [Next]_vars  PROVE Inv'
<1>1. PICK e : Agreed(e)
  BY DEF Inv
<1>2. ASSUME NEW w \in Worker, NEW u \in User, Begin(w, u), History  PROVE Inv'
  <2>1. PICK m : /\ Grows(e, m) /\ IsWorld(m) /\ Matches(m)' /\ Rows(m)' /\ Fine(m, w)'
                 /\ \A x \in Worker \ {w} : job'[x] = job[x]
    BY <1>1, <1>2, BeginStep DEF Agreed
  <2>2. ASSUME NEW x \in Worker, x # w  PROVE Fine(m, x)'
    BY <1>1, <1>2, <2>1, <2>2, OthersSound DEF Agreed
  <2>3. Jobs'
    BY <1>1, <1>2 DEF Begin, Agreed, Jobs
  <2> QED
    BY <2>1, <2>2, <2>3 DEF Inv, Agreed
<1>3. ASSUME NEW w \in Worker, Step(w), History  PROVE Inv'
  <2>1. Calls(w)
    BY <1>3, OneCall
  <2>2. job[w] # Idle
    <3>1. SUFFICES ASSUME job[w] = Idle  PROVE FALSE
      OBVIOUS
    <3>2. job[w].todo = <<>>
      BY <3>1 DEF Idle
    <3> QED
      BY <2>1, <3>2 DEF Calls, Op
  <2>3. Ready(e, w)
    BY <1>1, <2>2 DEF Ready, Agreed, Fine
  <2>4. PICK m : Grows(e, m) /\ IsWorld(m) /\ Matches(m)' /\ Rows(m)' /\ Fine(m, w)'
    BY <1>3, <2>3, CallSound
  <2>5. Jobs' /\ \A x \in Worker \ {w} : job'[x] = job[x]
    BY <1>1, <2>1 DEF Calls, Agreed, Jobs
  <2>6. ASSUME NEW x \in Worker, x # w  PROVE Fine(m, x)'
    BY <1>1, <1>3, <2>4, <2>5, <2>6, OthersSound DEF Agreed
  <2> QED
    BY <2>4, <2>5, <2>6 DEF Inv, Agreed
<1>4. ASSUME Crash  PROVE Inv'
  <2>1. Matches(e)'
    BY <1>1, <1>4 DEF Crash, Agreed, Matches
  <2>2. Rows(e)'
    BY <1>1, <1>4, RowsStay DEF Crash, Agreed
  <2>3. Jobs' /\ \A w \in Worker : Fine(e, w)'
    BY <1>4 DEF Crash, Jobs, Fine
  <2> QED
    BY <1>1, <2>1, <2>2, <2>3 DEF Inv, Agreed
<1>5. ASSUME UNCHANGED vars  PROVE Inv'
  <2>1. UNCHANGED rows /\ UNCHANGED <<spent, job, admitted, reach>>
    BY <1>5 DEF vars
  <2>2. Matches(e)' /\ Jobs'
    BY <1>1, <2>1 DEF Agreed, Matches, Jobs
  <2>3. Rows(e)'
    BY <1>1, <2>1, RowsStay DEF Agreed
  <2>4. \A w \in Worker : Fine(e, w)'
    BY <1>1, <2>1 DEF Agreed, Fine, Reachable, Asking
  <2> QED
    BY <1>1, <2>2, <2>3, <2>4 DEF Inv, Agreed
<1> QED
  BY <1>2, <1>3, <1>4, <1>5 DEF Next

\* Every reachable state agrees with some world.
LEMMA AlwaysInv == Spec => []Inv
BY InvInit, InvNext, PTL DEF Spec

\* However requests interleave and wherever they stop: the rows keep their
\* shape, and somebody who sees another's space was once invited to it and
\* accepted.  (respond_to_space_invitation, add_space_member, list_spaces)
THEOREM AlwaysAdmittedOnly == Spec => []AdmittedOnly
<1>1. ASSUME Inv  PROVE AdmittedOnly
  <2>1. PICK e : Agreed(e)
    BY <1>1 DEF Inv
  <2>2. ASSUME NEW u \in User, NEW s \in DOMAIN spaceRow[u]
        PROVE  /\ s \in spent \cap Space /\ spaceRow[u][s].owner = u
               /\ \A v \in spaceRow[u][s].members : v = u \/ s \in admitted[v]
    <3>1. IsSpace(e, s, spaceRow[u][s]) /\ spaceRow[u][s].owner = u
      BY <2>1 DEF Agreed, Rows, SpaceRows, IsSpaces
    <3> QED
      BY <2>1, <3>1 DEF Agreed, IsSpace, IsWorld, Matches
  <2>3. ASSUME NEW u \in User, NEW a \in DOMAIN agentRow[u]
        PROVE  a \in spent \cap Agent /\ agentRow[u][a].owner = u
    BY <2>1 DEF Agreed, Rows, AgentRows, IsAgents, IsAgent, Matches
  <2>4. \A u \in User : \A p \in pointerRow[u] : p.owner \in User \ {u}
    BY <2>1 DEF Agreed, Rows, PointerRows, IsPointers
  <2>5. inviteRow \in [User -> [Space -> {"none", "pending", "accepted", "declined"}]]
    BY <2>1 DEF Agreed, Rows, InviteRows, IsInvites, Status
  <2>6. ASSUME NEW u \in User, NEW s \in VisibleNow(u)
        PROVE  s \in DOMAIN spaceRow[u] \cup admitted[u]
    <3>1. \/ s \in DOMAIN spaceRow[u]
          \/ \E o \in User : s \in DOMAIN spaceRow[o] /\ u \in spaceRow[o][s].members
      BY DEF VisibleNow, Holders
    <3> QED
      BY <2>2, <3>1
  <2> QED
    BY <2>2, <2>3, <2>4, <2>5, <2>6 DEF AdmittedOnly, TypeOK
<1> QED
  BY <1>1, AlwaysInv, PTL

\* What a completion searches in spaces that still exist is of spaces that the
\* assistant's owner was admitted to; and, unless RAGFlow refused, of spaces
\* whose member the person asking was at some time since the request began.
\* (get_agent, sync_agent_chat, generate_agent_chat_completion)
THEOREM AlwaysRetrievedFromSeen == Spec => []RetrievedFromSeen
<1>1. ASSUME Inv  PROVE RetrievedFromSeen
  <2>1. PICK e : Agreed(e)
    BY <1>1 DEF Inv
  <2> SUFFICES ASSUME NEW w \in Worker, Op(w)[1] = "search",
                      NEW o \in User, NEW s \in DOMAIN spaceRow[o],
                      job[w].found.datasets \cap spaceRow[o][s].datasets # {}
               PROVE  /\ job[w].found.owner = o \/ s \in admitted[job[w].found.owner]
                      /\ job[w].found.synced => s \in reach[w]
    BY DEF RetrievedFromSeen
  <2>2. Ready(e, w)
    <3>1. SUFFICES job[w] # Idle
      BY <2>1 DEF Ready, Agreed, Fine
    <3>2. SUFFICES ASSUME job[w] = Idle  PROVE FALSE
      OBVIOUS
    <3>3. job[w].todo = <<>>
      BY <3>2 DEF Idle
    <3>4. Op(w) = <<"none">>
      BY <3>3 DEF Op
    <3> QED
      BY <3>4
  <2>3. PICK F, G : /\ Holds(e, job[w], Reachable(w), F)
                    /\ Move(job[w].who, Op(w), F, G)
    BY <2>2, Called
  <2>4. <<"found">> \in F
    BY <2>3 DEF Move, AgentMove
  <2> DEFINE found == job[w].found
  <2>5. /\ found.owner \in User
        /\ FromSeen(e, found.owner, found.datasets)
        /\ found.synced => FromReach(e, Reachable(w), found.datasets)
    BY <2>3, <2>4 DEF Holds, Fact
  <2>6. Asking(w)
    <3>1. job[w].todo = Then(Op(w), Rest(w)) /\ IsSeq(Rest(w))
      BY <2>2, Called
    <3>2. Searches(job[w].todo)
      BY <3>1, FirstCall
    <3> QED
      BY <3>2 DEF Asking, Searches
  <2>7. PICK d \in found.datasets : d \in spaceRow[o][s].datasets
    OBVIOUS
  <2>8. IsSpace(e, s, spaceRow[o][s]) /\ spaceRow[o][s].owner = o
    BY <2>1 DEF Agreed, Rows, SpaceRows, IsSpaces
  <2>9. <<d, s>> \in e.data /\ <<s, o>> \in e.own
    BY <2>7, <2>8 DEF IsSpace
  <2>10. \A t : <<d, t>> \in e.data => t = s
    BY <2>1, <2>9 DEF Agreed, IsWorld
  <2>11. Sees(e, found.owner, s)
    BY <2>5, <2>7, <2>10 DEF FromSeen
  <2>12. found.owner = o \/ s \in admitted[found.owner]
    BY <2>1, <2>9, <2>11 DEF Agreed, IsWorld, Matches, Sees
  <2>13. found.synced => s \in reach[w]
    BY <2>5, <2>6, <2>7, <2>10 DEF FromReach, Reachable
  <2> QED
    BY <2>12, <2>13
<1> QED
  BY <1>1, AlwaysInv, PTL
=============================================================================
