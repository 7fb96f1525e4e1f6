---------------------------- MODULE SpaceRequests ----------------------------
(***************************************************************************)
(* The requests of SpaceSharing, await by await.                           *)
(*                                                                         *)
(* Spaces, memberships, invitations and assistants are rows of the Config  *)
(* table, one list per user.  Every read and every write of a row is a     *)
(* database call of its own, so a request is a sequence of steps that may  *)
(* interleave with those of another request, and it may stop between any   *)
(* two when its process dies.  A request is kept as the sequence `todo' of *)
(* the calls it still has to make, with what it has read so far.           *)
(*                                                                         *)
(* While requests do not overlap, this module implements SpaceSharing      *)
(* (Whole!Spec).  When they do, every list is written back from an earlier *)
(* read; the other properties say what survives that.                      *)
(***************************************************************************)
EXTENDS Naturals, SequencesExt

CONSTANTS
    User, Space, Dataset, Agent,   \* as in SpaceSharing
    Worker,                        \* requests that may be in progress
    Traffic                        \* the amounts of requests looked at

\* spaces: how many are ever created.  overlaps: how often a request may begin
\* beside another, or the process may die.
ASSUME RequestsAssumption == Traffic \subseteq [spaces : Nat, overlaps : Nat]

VARIABLES
    spaceRow,     \* user -> its own spaces
    pointerRow,   \* user -> its membership list, pairs of owner and space
    inviteRow,    \* user -> space -> status of its invitation
    agentRow,     \* user -> its own assistants
    spent,        \* ids handed out
    job,          \* worker -> the request it is running
    traffic,      \* the amount at hand; it does not change
    disturbed,    \* how often requests have overlapped or died so far
    admitted,     \* history: user -> spaces it was invited to and accepted
    reach,        \* history: worker -> spaces its asker has belonged to meanwhile
    settled       \* history: the state of SpaceSharing between requests

rows == <<spaceRow, pointerRow, inviteRow, agentRow>>
vars == <<rows, spent, job, traffic, disturbed, admitted, reach, settled>>

Nothing == [x \in {} |-> {}]
Idle == [todo |-> <<>>, who |-> "nobody", seen |-> Nothing, ptr |-> {},
         space |-> Nothing, row |-> Nothing, mine |-> Nothing, kept |-> Nothing,
         agent |-> Nothing, inv |-> Nothing, found |-> Nothing]

Busy == {w \in Worker : job[w] # Idle}
\* The call that worker w makes next: its name, then its arguments.
Op(w) == IF job[w].todo = <<>> THEN <<"none">> ELSE Head(job[w].todo)
Rest(w) == Tail(job[w].todo)

\* The worker goes on with job record j; one that has nothing to do is idle.
Go(w, j) == job' = [job EXCEPT ![w] = IF j.todo = <<>> THEN Idle ELSE j]
\* An HTTPException that the request does not catch.
Abort(w) == job' = [job EXCEPT ![w] = Idle]

\* A loop over the set `left', in any order: nothing when it is empty.
Loop(name, x, left) == IF left = {} THEN <<>> ELSE <<<<name, x, left>>>>

Without(f, k) == [x \in DOMAIN f \ {k} |-> f[x]]
With(f, k, v) == [x \in DOMAIN f \cup {k} |-> IF x = k THEN v ELSE f[x]]

-----------------------------------------------------------------------------
(* list_spaces: own spaces, pointers, the lists of their owners, and the   *)
(* pointers that lead somewhere written back if that changes them.         *)

List(v) == <<<<"own", v>>, <<"ptr", v>>>>

Own(w) ==
    /\ Op(w)[1] = "own"
    /\ Go(w, [job[w] EXCEPT !.todo = Rest(w), !.seen = spaceRow[Op(w)[2]]])
    /\ UNCHANGED <<rows, spent, admitted>>

Pair(o, s) == [owner |-> o, space |-> s]

\* What is written back, when all owners in `left' have been read.
Valid(seen, v) == {Pair(seen[s].owner, s) : s \in {t \in DOMAIN seen : seen[t].owner # v}}

Listing(v, left, seen, ptr, rest) ==
    IF left # {} THEN <<<<"others", v, left>>>> \o rest
    ELSE IF Valid(seen, v) # ptr THEN <<<<"back", v>>>> \o rest
    ELSE rest

Pointers(w) ==
    /\ Op(w)[1] = "ptr"
    /\ LET v    == Op(w)[2]
           ptr  == pointerRow[v]
           left == {p.owner : p \in ptr} \ {v}
       IN  Go(w, [job[w] EXCEPT !.ptr = ptr,
                    !.todo = Listing(v, left, job[w].seen, ptr, Rest(w))])
    /\ UNCHANGED <<rows, spent, admitted>>

Others(w) ==
    /\ Op(w)[1] = "others"
    /\ LET v == Op(w)[2]
       IN  \E o \in Op(w)[3] :
              LET mine == {s \in DOMAIN spaceRow[o] : /\ Pair(o, s) \in job[w].ptr
                                                      /\ v \in spaceRow[o][s].members}
                  seen == [s \in DOMAIN job[w].seen \cup mine |->
                             IF s \in mine THEN spaceRow[o][s] ELSE job[w].seen[s]]
              IN  Go(w, [job[w] EXCEPT !.seen = seen,
                           !.todo = Listing(v, Op(w)[3] \ {o}, seen, job[w].ptr, Rest(w))])
    /\ UNCHANGED <<rows, spent, admitted>>

Back(w) ==
    /\ Op(w)[1] = "back"
    /\ pointerRow' = [pointerRow EXCEPT ![Op(w)[2]] = Valid(job[w].seen, Op(w)[2])]
    /\ Go(w, [job[w] EXCEPT !.todo = Rest(w), !.ptr = {}])
    /\ UNCHANGED <<spaceRow, inviteRow, agentRow, spent, admitted>>

-----------------------------------------------------------------------------
(* Saving a space *)

OwnPart(seen, u) == [s \in {t \in DOMAIN seen : seen[t].owner = u} |-> seen[s]]

\* create_space writes the caller's own list with one more.
Create(w) ==
    /\ Op(w)[1] = "create"
    /\ LET u == job[w].who
           s == Op(w)[2]
       IN  /\ spaceRow' = [spaceRow EXCEPT ![u] =
                             With(OwnPart(job[w].seen, u), s,
                                  [owner |-> u, members |-> {u}, datasets |-> {}])]
           /\ Go(w, [job[w] EXCEPT !.todo = Rest(w)])
    /\ UNCHANGED <<pointerRow, inviteRow, agentRow, spent, admitted>>

Changed(r, change) ==
    CASE change[1] = "same"   -> r
      [] change[1] = "admit"  -> [r EXCEPT !.members = @ \cup {change[2]}]
      [] change[1] = "remove" -> [r EXCEPT !.members = @ \ {change[2]}]
      [] change[1] = "add"    -> [r EXCEPT !.datasets = @ \cup {change[2]}]
      [] change[1] = "drop"   -> [r EXCEPT !.datasets = @ \ {change[2]}]

Edit(s, change) == <<<<"load", s, change>>, <<"store", s>>>>

\* The copy read earlier is changed, and save_space reads its owner's list.
\* A space or a dataset that was not seen is a 404; RAGFlow may refuse too.
Load(w) ==
    /\ Op(w)[1] = "load"
    /\ LET s     == Op(w)[2]
           c     == Op(w)[3]
           j     == job[w]
           known == /\ s \in DOMAIN j.seen
                    /\ c[1] = "drop" => c[2] \in j.seen[s].datasets
       IN  \/ /\ known
              /\ Go(w, [j EXCEPT !.todo = Rest(w), !.seen = Nothing,
                          !.space = Changed(j.seen[s], c),
                          !.row = spaceRow[j.seen[s].owner]])
           \/ /\ known => c[1] \in {"same", "add", "drop"}
              /\ Abort(w)
    /\ UNCHANGED <<rows, spent, admitted>>

\* save_space writes the list with the copy in it, appended if it has gone.
Store(w) ==
    /\ Op(w)[1] = "store"
    /\ spaceRow' = [spaceRow EXCEPT ![job[w].space.owner] =
                      With(job[w].row, Op(w)[2], job[w].space)]
    /\ Go(w, [job[w] EXCEPT !.todo = Rest(w), !.row = Nothing])
    /\ UNCHANGED <<pointerRow, inviteRow, agentRow, spent, admitted>>

\* get_owned_space, for add_space_member and remove_space_member.  Accepting
\* saves no space when the member is there already.
Fetch(w) ==
    /\ Op(w)[1] = "fetch"
    /\ LET s       == Op(w)[2]
           v       == Op(w)[4]
           holders == {o \in User : s \in DOMAIN spaceRow[o]}
           then(o) ==
             IF Op(w)[3] = "admit"
             THEN (IF v \in spaceRow[o][s].members THEN <<>> ELSE Edit(s, <<"admit", v>>))
                  \o <<<<"mread", v>>, <<"mwrite", v, Pair(o, s), TRUE>>>>
             ELSE Edit(s, <<"remove", v>>)
                  \o <<<<"mread", v>>, <<"mwrite", v, Pair(o, s), FALSE>>,
                       <<"keep", v>>, <<"trim", v, s>>>>
       IN  IF holders = {} THEN Abort(w)
           ELSE \E o \in holders :
                  Go(w, [job[w] EXCEPT !.seen = spaceRow[o], !.todo = then(o) \o Rest(w)])
    /\ UNCHANGED <<rows, spent, admitted>>

\* require_space_owner: the caller must own the space it names.
Require(w) ==
    /\ Op(w)[1] = "require"
    /\ LET s == Op(w)[2]
       IN  IF s \in DOMAIN job[w].seen /\ job[w].seen[s].owner = job[w].who
           THEN Go(w, [job[w] EXCEPT !.todo = Rest(w), !.space = job[w].seen[s]])
           ELSE Abort(w)
    /\ UNCHANGED <<rows, spent, admitted>>

-----------------------------------------------------------------------------
(* Memberships and invitations: read the list, write the list *)

ReadPointers(w) ==
    /\ Op(w)[1] = "mread"
    /\ Go(w, [job[w] EXCEPT !.todo = Rest(w), !.ptr = pointerRow[Op(w)[2]]])
    /\ UNCHANGED <<rows, spent, admitted>>

WritePointers(w) ==
    /\ Op(w)[1] = "mwrite"
    /\ LET v == Op(w)[2]
           p == Op(w)[3]
       IN  pointerRow' = [pointerRow EXCEPT ![v] =
                            IF Op(w)[4] THEN job[w].ptr \cup {p} ELSE job[w].ptr \ {p}]
    /\ Go(w, [job[w] EXCEPT !.todo = Rest(w), !.ptr = {}])
    /\ UNCHANGED <<spaceRow, inviteRow, agentRow, spent, admitted>>

\* delete_space: the members of the copy read first, one by one.
Leave(w) ==
    /\ Op(w)[1] = "leave"
    /\ LET s    == Op(w)[2]
           u    == job[w].who
       IN  \E m \in Op(w)[3] :
             Go(w, [job[w] EXCEPT !.ptr = pointerRow[m],
                      !.todo = <<<<"mwrite", m, Pair(u, s), FALSE>>>>
                               \o Loop("leave", s, Op(w)[3] \ {m}) \o Rest(w)])
    /\ UNCHANGED <<rows, spent, admitted>>

\* save_spaces without the deleted space.
DropSpace(w) ==
    /\ Op(w)[1] = "dropspace"
    /\ LET s    == Op(w)[2]
           u    == job[w].who
           left == job[w].space.members \ {u}
       IN  /\ spaceRow' = [spaceRow EXCEPT ![u] =
                             Without(OwnPart(job[w].seen, u), s)]
           /\ Go(w, [job[w] EXCEPT !.seen = Nothing, !.space = Nothing,
                       !.todo = Loop("leave", s, left) \o Rest(w)])
    /\ UNCHANGED <<pointerRow, inviteRow, agentRow, spent, admitted>>

\* Mutant of Answer: any invitation can be answered.
AnswerAny(w) ==
    /\ Op(w)[1] = "answer"
    /\ LET u == job[w].who
           s == Op(w)[2]
       IN  /\ Go(w, [job[w] EXCEPT !.todo = Rest(w), !.inv = inviteRow[u]])
           /\ admitted' = IF Op(w)[3] /\ inviteRow[u][s] = "pending"
                          THEN [admitted EXCEPT ![u] = @ \cup {s}] ELSE admitted
    /\ UNCHANGED <<rows, spent>>

\* respond_to_space_invitation needs a pending invitation.
Answer(w) ==
    /\ Op(w)[1] = "answer"
    /\ LET u == job[w].who
           s == Op(w)[2]
       IN  IF inviteRow[u][s] # "pending" THEN Abort(w) /\ admitted' = admitted
           ELSE /\ Go(w, [job[w] EXCEPT !.todo = Rest(w), !.inv = inviteRow[u]])
                /\ admitted' = IF Op(w)[3]
                               THEN [admitted EXCEPT ![u] = @ \cup {s}] ELSE admitted
    /\ UNCHANGED <<rows, spent>>

\* Inviting passes over the accounts that the copy of the space lists.
Invite(w) ==
    /\ Op(w)[1] = "invite"
    /\ LET s    == Op(w)[2]
           left == Op(w)[3] \ job[w].space.members
       IN  IF left = {} THEN Go(w, [job[w] EXCEPT !.todo = Rest(w)])
           ELSE \E v \in left :
                  Go(w, [job[w] EXCEPT !.inv = inviteRow[v],
                           !.todo = <<<<"iwrite", v, s, "pending">>>>
                                    \o Loop("invite", s, left \ {v}) \o Rest(w)])
    /\ UNCHANGED <<rows, spent, admitted>>

WriteInvitations(w) ==
    /\ Op(w)[1] = "iwrite"
    /\ LET v  == Op(w)[2]
           s  == Op(w)[3]
           st == Op(w)[4]
       IN  inviteRow' = [inviteRow EXCEPT ![v] = [job[w].inv EXCEPT ![s] = st]]
    /\ Go(w, [job[w] EXCEPT !.todo = Rest(w), !.inv = Nothing])
    /\ UNCHANGED <<spaceRow, pointerRow, agentRow, spent, admitted>>

-----------------------------------------------------------------------------
(* Assistants *)

\* sync_agent_chat: the datasets of the spaces its owner sees are saved, then
\* RAGFlow is called, then the record is saved once more.  `mode' says what
\* the caller does when RAGFlow refuses and the call raises.
Sync(o, a, mode) ==
    List(o) \o <<<<"aread", o>>, <<"sync", o, a, mode>>>>

ReadAgents(w) ==
    /\ Op(w)[1] = "aread"
    /\ Go(w, [job[w] EXCEPT !.todo = Rest(w), !.mine = agentRow[Op(w)[2]]])
    /\ UNCHANGED <<rows, spent, admitted>>

Replaced(mine, a, rec) == [x \in DOMAIN mine |-> IF x = a THEN rec ELSE mine[x]]

\* Mutant of Done: an assistant that RAGFlow refused keeps its datasets.
DoneKept(w, a, mode, rec, raised) ==
    LET j == [job[w] EXCEPT !.todo = Rest(w), !.seen = Nothing,
                            !.mine = Nothing, !.agent = Nothing]
    IN  CASE mode = "plain"    -> j
          [] mode = "remove"   -> [j EXCEPT !.kept[a] = IF raised THEN job[w].agent ELSE rec]
          [] mode = "complete" ->
                [j EXCEPT !.found =
                   [datasets |-> IF raised THEN job[w].agent.datasets ELSE rec.datasets,
                    owner |-> rec.owner, synced |-> ~raised]]

\* The end of sync_agent_chat with record rec, or by raising.
Done(w, a, mode, rec, raised) ==
    LET j == [job[w] EXCEPT !.todo = Rest(w), !.seen = Nothing,
                            !.mine = Nothing, !.agent = Nothing]
    IN  CASE mode = "plain"    -> j
          [] mode = "remove"   ->
                [j EXCEPT !.kept[a] = IF raised THEN [job[w].agent EXCEPT !.datasets = {}]
                                                ELSE rec]
          [] mode = "complete" ->
                [j EXCEPT !.found =
                   [datasets |-> IF raised THEN job[w].agent.datasets ELSE rec.datasets,
                    owner |-> rec.owner, synced |-> ~raised]]

\* Mutant of DatasetIds: the spaces are looked up without list_spaces.
DatasetIdsAnywhere(w, ss) ==
    UNION {UNION {spaceRow[o][s].datasets : s \in ss \cap DOMAIN spaceRow[o]} : o \in User}

\* dataset_ids_for_spaces
DatasetIds(w, ss) ==
    UNION {job[w].seen[s].datasets : s \in ss \cap DOMAIN job[w].seen}

SyncAgent(w) ==
    /\ Op(w)[1] = "sync"
    /\ LET o    == Op(w)[2]
           a    == Op(w)[3]
           mode == Op(w)[4]
           j    == job[w]
           ds   == DatasetIds(w, j.agent.spaces)
           rec  == [j.agent EXCEPT !.datasets = ds]
       IN  /\ agentRow' = [agentRow EXCEPT ![o] = Replaced(j.mine, a, rec)]
           /\ \/ Go(w, [j EXCEPT !.seen = Nothing, !.mine = Nothing,
                          !.agent = [rec EXCEPT !.chat = @ \/ ds # {}],
                          !.todo = <<<<"aread", o>>, <<"again", o, a, mode>>>> \o Rest(w)])
              \/ ds # {} /\ Go(w, Done(w, a, mode, rec, TRUE))
    /\ UNCHANGED <<spaceRow, pointerRow, inviteRow, spent, admitted>>

SyncAgain(w) ==
    /\ Op(w)[1] = "again"
    /\ LET o    == Op(w)[2]
           a    == Op(w)[3]
       IN  /\ agentRow' = [agentRow EXCEPT ![o] = Replaced(job[w].mine, a, job[w].agent)]
           /\ Go(w, Done(w, a, Op(w)[4], job[w].agent, FALSE))
    /\ UNCHANGED <<spaceRow, pointerRow, inviteRow, spent, admitted>>

\* agent_records_for_space, for _sync_agents_for_space and delete_space.
FindAgents(w) ==
    /\ Op(w)[1] = "find"
    /\ LET s    == Op(w)[2]
           left == {[owner |-> p[1], id |-> p[2], rec |-> agentRow[p[1]][p[2]]] : p \in
                      {q \in User \X Agent : /\ q[2] \in DOMAIN agentRow[q[1]]
                                             /\ s \in agentRow[q[1]][q[2]].spaces}}
       IN  Go(w, [job[w] EXCEPT !.space = Nothing, !.todo =
                    Loop(Op(w)[3], s, left) \o Rest(w)])
    /\ UNCHANGED <<rows, spent, admitted>>

\* _sync_agents_for_space takes the records as they were found.
Each(w) ==
    /\ Op(w)[1] = "each"
    /\ \E x \in Op(w)[3] :
          Go(w, [job[w] EXCEPT !.agent = x.rec,
                   !.todo = Sync(x.owner, x.id, "plain")
                            \o Loop("each", Op(w)[2], Op(w)[3] \ {x}) \o Rest(w)])
    /\ UNCHANGED <<rows, spent, admitted>>

\* delete_space reads each owner's list again.
Detach(w) ==
    /\ Op(w)[1] = "detach"
    /\ \E x \in Op(w)[3] :
          LET then == Loop("detach", Op(w)[2], Op(w)[3] \ {x}) \o Rest(w)
          IN  IF x.id \in DOMAIN agentRow[x.owner]
              THEN Go(w, [job[w] EXCEPT !.mine = agentRow[x.owner],
                            !.todo = <<<<"strip", x.owner, x.id, Op(w)[2]>>>> \o then])
              ELSE Go(w, [job[w] EXCEPT !.todo = then])
    /\ UNCHANGED <<rows, spent, admitted>>

Strip(w) ==
    /\ Op(w)[1] = "strip"
    /\ LET o   == Op(w)[2]
           a   == Op(w)[3]
           rec == [job[w].mine[a] EXCEPT !.spaces = @ \ {Op(w)[4]}]
       IN  /\ agentRow' = [agentRow EXCEPT ![o] = Replaced(job[w].mine, a, rec)]
           /\ Go(w, IF rec.chat /\ rec.spaces # {}
                    THEN [job[w] EXCEPT !.mine = Nothing, !.agent = rec,
                                        !.todo = Sync(o, a, "plain") \o Rest(w)]
                    ELSE [job[w] EXCEPT !.mine = Nothing, !.todo = Rest(w)])
    /\ UNCHANGED <<spaceRow, pointerRow, inviteRow, spent, admitted>>

\* remove_space_member: the member's list is read, its assistants on the
\* space are synchronized one by one, and the list as read, with what became
\* of them, is written.
Keep(w) ==
    /\ Op(w)[1] = "keep"
    /\ Go(w, [job[w] EXCEPT !.todo = Rest(w), !.kept = agentRow[Op(w)[2]]])
    /\ UNCHANGED <<rows, spent, admitted>>

Trim(w) ==
    /\ Op(w)[1] = "trim"
    /\ LET m    == Op(w)[2]
           s    == Op(w)[3]
           left == {a \in DOMAIN job[w].kept : s \in job[w].kept[a].spaces}
       IN  IF left = {}
           THEN /\ agentRow' = [agentRow EXCEPT ![m] = job[w].kept]
                /\ Go(w, [job[w] EXCEPT !.todo = Rest(w), !.kept = Nothing])
           ELSE /\ \E a \in left :
                     Go(w, [job[w] EXCEPT
                              !.agent = [job[w].kept[a] EXCEPT !.spaces = @ \ {s}],
                              !.todo = Sync(m, a, "remove") \o job[w].todo])
                /\ agentRow' = agentRow
    /\ UNCHANGED <<spaceRow, pointerRow, inviteRow, spent, admitted>>

\* get_owned_agent; an update puts its new spaces into this copy.
Copy(w) ==
    /\ Op(w)[1] = "copy"
    /\ LET u == job[w].who
           a == Op(w)[2]
       IN  IF a \notin DOMAIN agentRow[u] THEN Abort(w)
           ELSE Go(w, [job[w] EXCEPT !.todo = Rest(w),
                         !.agent = [agentRow[u][a] EXCEPT !.spaces = Op(w)[3]]])
    /\ UNCHANGED <<rows, spent, admitted>>

\* create_agent and update_agent refuse unknown spaces, then read the list.
Check(w) ==
    /\ Op(w)[1] = "check"
    /\ LET j == job[w]
       IN  IF j.agent.spaces \subseteq DOMAIN j.seen
           THEN Go(w, [j EXCEPT !.todo = Rest(w), !.seen = Nothing, !.mine = agentRow[j.who]])
           ELSE Abort(w)
    /\ UNCHANGED <<rows, spent, admitted>>

Put(w) ==
    /\ Op(w)[1] = "put"
    /\ LET j == job[w]
           a == Op(w)[2]
       IN  /\ agentRow' = [agentRow EXCEPT ![j.who] =
                             IF Op(w)[3] THEN With(j.mine, a, j.agent)
                                         ELSE Replaced(j.mine, a, j.agent)]
           /\ Go(w, [j EXCEPT !.todo = Rest(w), !.mine = Nothing])
    /\ UNCHANGED <<spaceRow, pointerRow, inviteRow, spent, admitted>>

DropAgent(w) ==
    /\ Op(w)[1] = "dropagent"
    /\ agentRow' = [agentRow EXCEPT ![job[w].who] = Without(job[w].mine, Op(w)[2])]
    /\ Go(w, [job[w] EXCEPT !.todo = Rest(w)])
    /\ UNCHANGED <<spaceRow, pointerRow, inviteRow, spent, admitted>>

\* get_agent: list_agents reads every list after the asker's spaces.
Pick(w) ==
    /\ Op(w)[1] = "pick"
    /\ LET j  == job[w]
           a  == Op(w)[2]
           os == {o \in User : /\ a \in DOMAIN agentRow[o]
                               /\ \/ o = j.who
                                  \/ /\ agentRow[o][a].spaces # {}
                                     /\ agentRow[o][a].spaces \subseteq DOMAIN j.seen}
       IN  IF os = {} THEN Abort(w)
           ELSE \E o \in os : Go(w, [j EXCEPT !.seen = Nothing, !.agent = agentRow[o][a],
                                 !.todo = Sync(o, a, "complete") \o Rest(w)])
    /\ UNCHANGED <<rows, spent, admitted>>

\* search_datasets, with the datasets found.
Search(w) ==
    /\ Op(w)[1] = "search"
    /\ Go(w, [job[w] EXCEPT !.todo = Rest(w)])
    /\ UNCHANGED <<rows, spent, admitted>>

-----------------------------------------------------------------------------
(* The requests *)

Request(todo, ids, rec) == [todo |-> todo, ids |-> ids, agent |-> rec]
Plain(todo) == Request(todo, {}, Nothing)
Draft(u, ss) == [owner |-> u, spaces |-> ss, datasets |-> {}, chat |-> FALSE]

OnSpace(s) == <<<<"find", s, "each">>>>

SpaceRequests(u) ==
    {Plain(List(u))}
    \cup {Request(List(u) \o <<<<"create", s>>>>, {s}, Nothing) : s \in Space}
    \cup UNION {
      {Plain(List(u) \o <<<<"require", s>>>> \o List(u)
             \o <<<<"dropspace", s>>, <<"find", s, "detach">>>>),
       Plain(List(u) \o Edit(s, <<"same">>)),
       Plain(<<<<"answer", s, TRUE>>, <<"fetch", s, "admit", u>>,
               <<"iwrite", u, s, "accepted">>>>),
       Plain(<<<<"answer", s, FALSE>>, <<"iwrite", u, s, "declined">>>>)}
      \cup {Plain(List(u) \o <<<<"require", s>>, <<"invite", s, us>>>>) :
              us \in (SUBSET User) \ {{}}}
      \cup {Plain(List(u) \o <<<<"require", s>>, <<"fetch", s, "remove", m>>>>) :
              m \in User \ {u}}
      \cup {Request(List(u) \o Edit(s, <<"add", d>>) \o OnSpace(s), {d}, Nothing) :
              d \in Dataset}
      \cup {Plain(List(u) \o Edit(s, <<"drop", d>>) \o OnSpace(s)) : d \in Dataset}
      : s \in spent \cap Space}

AgentRequests(u) ==
    (UNION {
      {Plain(<<<<"copy", a, {}>>, <<"aread", u>>, <<"dropagent", a>>>>),
       Plain(List(u) \o <<<<"pick", a>>, <<"search">>>>)}
      \cup {Plain(<<<<"copy", a, ss>>>> \o List(u)
                  \o <<<<"check">>, <<"put", a, FALSE>>>> \o Sync(u, a, "plain")) :
              ss \in (SUBSET (spent \cap Space)) \ {{}}}
      : a \in spent \cap Agent})
    \cup {Request(List(u) \o <<<<"check">>, <<"put", a, TRUE>>>> \o Sync(u, a, "plain"),
                  {a}, Draft(u, ss)) :
            a \in Agent, ss \in (SUBSET (spent \cap Space)) \ {{}}}

Begin(w, u) ==
    /\ job[w] = Idle
    /\ Busy # {} => disturbed < traffic.overlaps
    /\ disturbed' = IF Busy # {} THEN disturbed + 1 ELSE disturbed
    /\ \E r \in SpaceRequests(u) \cup AgentRequests(u) :
          /\ r.ids \cap spent = {}
          /\ Cardinality((spent \cup r.ids) \cap Space) <= traffic.spaces
          /\ spent' = spent \cup r.ids
          /\ job' = [job EXCEPT ![w] =
                       [Idle EXCEPT !.todo = r.todo, !.who = u, !.agent = r.agent]]
    /\ UNCHANGED <<rows, admitted>>

\* The process dies, and every request in progress with it.
Crash ==
    /\ Busy # {}
    /\ disturbed < traffic.overlaps
    /\ disturbed' = disturbed + 1
    /\ job' = [w \in Worker |-> Idle]
    /\ UNCHANGED <<rows, spent, admitted>>

-----------------------------------------------------------------------------
(* History *)

Holders(s) == {o \in User : s \in DOMAIN spaceRow[o]}

\* What u sees of the rows as they are: SpaceSharing's Visible.
VisibleNow(u) ==
    DOMAIN spaceRow[u] \cup
    {s \in Space : \E o \in Holders(s) :
        Pair(o, s) \in pointerRow[u] /\ u \in spaceRow[o][s].members}

Merged(row, id) == row[CHOOSE o \in User : id \in DOMAIN row[o]][id]

\* The state of SpaceSharing that the rows stand for.
Now ==
    LET ss == UNION {DOMAIN spaceRow[o] : o \in User}
        as == UNION {DOMAIN agentRow[o] : o \in User}
    IN  [spaces     |-> [s \in ss |-> Merged(spaceRow, s)],
         pointers   |-> [u \in User |-> {p.space : p \in pointerRow[u]}],
         invitation |-> inviteRow,
         agents     |-> [a \in as |-> Merged(agentRow, a)],
         spent      |-> ss \cup as \cup
                         UNION {Merged(spaceRow, s).datasets : s \in ss}]

\* `settled' is kept only where requests run one at a time.
OneAtATime == traffic.overlaps = 0
Asking(w) == \E i \in 1..Len(job[w].todo) : job[w].todo[i][1] = "search"
\* While a completion is worked on: the spaces that list its asker as a member
Sights(w) == IF Asking(w)
             THEN {s \in Space : \E o \in Holders(s) : job[w].who \in spaceRow[o][s].members}
             ELSE {}

History ==
    /\ reach' = [w \in Worker |-> Sights(w)' \cup IF Asking(w)' THEN reach[w] ELSE {}]
    /\ settled' = IF OneAtATime /\ Busy' = {}
                  THEN [Now' EXCEPT !.spent = @ \cup settled.spent] ELSE settled

Init ==
    /\ spaceRow = [u \in User |-> Nothing]
    /\ pointerRow = [u \in User |-> {}]
    /\ inviteRow = [u \in User |-> [s \in Space |-> "none"]]
    /\ agentRow = [u \in User |-> Nothing]
    /\ spent = {}
    /\ job = [w \in Worker |-> Idle]
    /\ traffic \in Traffic
    /\ disturbed = 0
    /\ admitted = [u \in User |-> {}]
    /\ reach = [w \in Worker |-> {}]
    /\ settled = Now

Step(w) ==
    \/ Own(w) \/ Pointers(w) \/ Others(w) \/ Back(w)
    \/ Create(w) \/ Load(w) \/ Store(w) \/ Fetch(w) \/ Require(w)
    \/ ReadPointers(w) \/ WritePointers(w) \/ Leave(w) \/ DropSpace(w)
    \/ Answer(w) \/ Invite(w) \/ WriteInvitations(w)
    \/ ReadAgents(w) \/ SyncAgent(w) \/ SyncAgain(w)
    \/ FindAgents(w) \/ Each(w) \/ Detach(w) \/ Strip(w) \/ Keep(w) \/ Trim(w)
    \/ Copy(w) \/ Check(w) \/ Put(w) \/ DropAgent(w) \/ Pick(w) \/ Search(w)

Next ==
    /\ \/ \E w \in Worker, u \in User : Begin(w, u)
       \/ \E w \in Worker : Step(w) /\ UNCHANGED disturbed
       \/ Crash
    /\ UNCHANGED traffic
    /\ History

Spec == Init /\ [][Next]_vars

-----------------------------------------------------------------------------
(* Properties *)

\* Every row keeps its shape: owners keep only their own spaces and
\* assistants, and statuses are those the requests know.
TypeOK ==
    /\ \A u \in User : \A s \in DOMAIN spaceRow[u] :
          s \in spent \cap Space /\ spaceRow[u][s].owner = u
    /\ \A u \in User : \A a \in DOMAIN agentRow[u] :
          a \in spent \cap Agent /\ agentRow[u][a].owner = u
    /\ \A u \in User : \A p \in pointerRow[u] : p.owner \in User \ {u}
    /\ inviteRow \in [User -> [Space -> {"none", "pending", "accepted", "declined"}]]

\* Requests that do not overlap do what SpaceSharing says: each one, with all
\* the lists it reads and writes back, is one of its steps or none.
Whole == INSTANCE SpaceSharing WITH
    spaces     <- settled.spaces,
    pointers   <- settled.pointers,
    invitation <- settled.invitation,
    agents     <- settled.agents,
    spent      <- settled.spent
AtomicWhenAlone == Whole!Spec

\* However requests interleave and wherever they stop: somebody who sees
\* another's space was once invited to it and accepted.
\* (respond_to_space_invitation, add_space_member, list_spaces)
AdmittedOnly ==
    /\ TypeOK
    /\ \A u \in User : VisibleNow(u) \subseteq DOMAIN spaceRow[u] \cup admitted[u]

\* What a completion searches in spaces that still exist is of spaces that the
\* assistant's owner was admitted to; and unless RAGFlow refused to take the
\* datasets just looked up, when those recorded earlier are searched, of spaces
\* whose member the person asking was at some time since the request began.
\* (get_agent, sync_agent_chat, generate_agent_chat_completion)
RetrievedFromSeen ==
    \A w \in Worker : Op(w)[1] = "search" =>
        \A o \in User : \A s \in DOMAIN spaceRow[o] :
            LET found == job[w].found
            IN  found.datasets \cap spaceRow[o][s].datasets # {} =>
                    /\ found.owner = o \/ s \in admitted[found.owner]
                    /\ found.synced => s \in reach[w]
=============================================================================
