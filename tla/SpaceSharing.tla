---------------------------- MODULE SpaceSharing ----------------------------
(***************************************************************************)
(* Sharing of RAGFlow knowledge spaces and assistants                      *)
(* (internal/ragflow_knowledge.py, routers/ragflow.py, and the RAGFlow     *)
(* branch of internal/agents.py).                                          *)
(*                                                                         *)
(* A space is stored under its owner with the list of its members; every   *)
(* member also keeps a pointer to it; an assistant ("agent") is stored     *)
(* under its owner with the spaces it is attached to and the datasets that *)
(* retrieval searches.  All of it lives in rows of the Config table, one   *)
(* list per user.  Here a list keyed by id is a function whose domain is   *)
(* the set of ids it holds.                                                *)
(*                                                                         *)
(* One action is one whole request.  The RAGFlow server may refuse any     *)
(* call; the argument `up' of an action is the set of agents whose chat    *)
(* RAGFlow agrees to create or update during the request.  Interleavings   *)
(* of requests are the subject of SpaceRequests.                           *)
(***************************************************************************)
EXTENDS FiniteSets

CONSTANTS
    User,     \* account ids
    Space,    \* space ids, as new_id() produces them
    Dataset,  \* dataset ids, as RAGFlow produces them
    Agent     \* assistant ids, as new_id() produces them

VARIABLES
    spaces,      \* space id -> its record in its owner's list
    pointers,    \* user -> the spaces its membership list points to
    invitation,  \* user -> space -> the status of the invitation, if any
    agents,      \* agent id -> its record in its owner's list
    spent        \* the ids handed out so far; uuid4 and RAGFlow repeat none

vars == <<spaces, pointers, invitation, agents, spent>>

SpaceRecord == [owner : User, members : SUBSET User, datasets : SUBSET Dataset]
AgentRecord == [owner : User, spaces : SUBSET Space,
                datasets : SUBSET Dataset, chat : BOOLEAN]
Status      == {"none", "pending", "accepted", "declined"}

-----------------------------------------------------------------------------
(* Reading the lists *)

\* list_spaces: u's own spaces, and those u points to that list u as a member.
Visible(sp, pt, u) ==
    {s \in DOMAIN sp : \/ sp[s].owner = u
                       \/ s \in pt[u] /\ u \in sp[s].members}

\* What list_spaces writes back as u's membership list.
ValidPointers(sp, pt, u) ==
    {s \in Visible(sp, pt, u) : sp[s].owner # u}

\* The membership lists after list_spaces has run for each of the users us.
Listed(sp, pt, us) ==
    [u \in User |-> IF u \in us THEN ValidPointers(sp, pt, u) ELSE pt[u]]

\* dataset_ids_for_spaces
DatasetsFor(sp, pt, u, ss) ==
    UNION {sp[s].datasets : s \in ss \cap Visible(sp, pt, u)}

\* Mutant of VisibleAgents: one visible space is enough.
VisibleAgentsAnySpace(u) ==
    {a \in DOMAIN agents :
        \/ agents[a].owner = u
        \/ agents[a].spaces \cap Visible(spaces, pointers, u) # {}}

\* list_agents: u's own assistants, and those of others whose spaces u sees.
VisibleAgents(u) ==
    {a \in DOMAIN agents :
        \/ agents[a].owner = u
        \/ /\ agents[a].spaces # {}
           /\ agents[a].spaces \subseteq Visible(spaces, pointers, u)}

\* Mutant of AgentsOn: agents without a RAGFlow chat are passed over.
AgentsOnWithChat(s) == {a \in DOMAIN agents : s \in agents[a].spaces /\ agents[a].chat}

\* agent_records_for_space
AgentsOn(s) == {a \in DOMAIN agents : s \in agents[a].spaces}

-----------------------------------------------------------------------------
(* sync_agent_chat *)

\* sync_agent_chat calls RAGFlow only when there are datasets to attach, and
\* raises when RAGFlow refuses.
SyncRaises(sp, pt, r, ok) ==
    DatasetsFor(sp, pt, r.owner, r.spaces) # {} /\ ~ok

\* Mutant of Synced: nothing is saved until RAGFlow has agreed.
SyncedAfterRagflow(sp, pt, r, ok) ==
    LET ds == DatasetsFor(sp, pt, r.owner, r.spaces)
    IN  IF ds # {} /\ ~ok THEN r
        ELSE [r EXCEPT !.datasets = ds, !.chat = @ \/ ds # {}]

\* The record sync_agent_chat leaves stored: the datasets are saved before
\* RAGFlow is called, the chat id only when the call succeeds.
Synced(sp, pt, r, ok) ==
    LET ds == DatasetsFor(sp, pt, r.owner, r.spaces)
    IN  [r EXCEPT !.datasets = ds, !.chat = @ \/ (ds # {} /\ ok)]

\* _sync_agents_for_space, for the agents on s
SyncedOn(s, sp, up) ==
    [a \in DOMAIN agents |->
        IF a \in AgentsOn(s) THEN Synced(sp, pointers, agents[a], a \in up)
                             ELSE agents[a]]

OwnersOn(s) == {agents[a].owner : a \in AgentsOn(s)}

-----------------------------------------------------------------------------
Init ==
    /\ spaces = [s \in {} |-> {}]
    /\ pointers = [u \in User |-> {}]
    /\ invitation = [u \in User |-> [s \in Space |-> "none"]]
    /\ agents = [a \in {} |-> {}]
    /\ spent = {}

\* GET /spaces, /agents and the other listings: list_spaces drops the
\* pointers that no longer lead to a space.
ListSpaces(u) ==
    /\ pointers' = Listed(spaces, pointers, {u})
    /\ UNCHANGED <<spaces, invitation, agents, spent>>

CreateSpace(u, s) ==
    /\ s \notin spent
    /\ spaces' = [x \in DOMAIN spaces \cup {s} |->
                    IF x = s
                    THEN [owner |-> u, members |-> {u}, datasets |-> {}]
                    ELSE spaces[x]]
    /\ pointers' = Listed(spaces, pointers, {u})
    /\ spent' = spent \cup {s}
    /\ UNCHANGED <<invitation, agents>>

\* DELETE /spaces/{id}.  RAGFlow's answers to delete_dataset are ignored.
\* Only an agent that has a chat and keeps a space is synchronized.
DeleteSpace(u, s, up) ==
    LET left      == [x \in DOMAIN spaces \ {s} |-> spaces[x]]
        listed    == Listed(spaces, pointers, {u})
        pts       == [m \in User |->
                        IF m \in spaces[s].members \ {u}
                        THEN listed[m] \ {s} ELSE listed[m]]
        strip(a)  == [agents[a] EXCEPT !.spaces = @ \ {s}]
        synced(a) == agents[a].chat /\ strip(a).spaces # {}
        syncers   == {agents[a].owner : a \in {b \in AgentsOn(s) : synced(b)}}
    IN  /\ s \in DOMAIN spaces
        /\ spaces[s].owner = u
        /\ spaces' = left
        /\ agents' = [a \in DOMAIN agents |->
                        IF a \notin AgentsOn(s) THEN agents[a]
                        ELSE IF synced(a)
                             THEN Synced(left, pts, strip(a), a \in up)
                             ELSE strip(a)]
        /\ pointers' = Listed(left, pts, syncers)
        /\ UNCHANGED <<invitation, spent>>

\* Mutant of InviteMembers: current members are invited again.
InviteMembersAgain(u, s, us) ==
    /\ s \in DOMAIN spaces
    /\ spaces[s].owner = u
    /\ us # {}
    /\ invitation' = [v \in User |->
                        IF v \in us THEN [invitation[v] EXCEPT ![s] = "pending"]
                                    ELSE invitation[v]]
    /\ pointers' = Listed(spaces, pointers, {u})
    /\ UNCHANGED <<spaces, agents, spent>>

\* POST /spaces/{id}/member-invitations.  us is the part of form.user_ids
\* handled before the request ends, by success or by an unknown account.
InviteMembers(u, s, us) ==
    /\ s \in DOMAIN spaces
    /\ spaces[s].owner = u
    /\ us # {}
    /\ us \cap spaces[s].members = {}
    /\ invitation' = [v \in User |->
                        IF v \in us THEN [invitation[v] EXCEPT ![s] = "pending"]
                                    ELSE invitation[v]]
    /\ pointers' = Listed(spaces, pointers, {u})
    /\ UNCHANGED <<spaces, agents, spent>>

\* Mutant of DeclineInvitation: a status no other request knows.
DeclineInvitationUnknown(u, s) ==
    /\ invitation[u][s] = "pending"
    /\ invitation' = [invitation EXCEPT ![u][s] = "rejected"]
    /\ UNCHANGED <<spaces, pointers, agents, spent>>

DeclineInvitation(u, s) ==
    /\ invitation[u][s] = "pending"
    /\ invitation' = [invitation EXCEPT ![u][s] = "declined"]
    /\ UNCHANGED <<spaces, pointers, agents, spent>>

\* Mutant of AcceptInvitation: an invitation already answered works again.
AcceptInvitationTwice(u, s) ==
    /\ invitation[u][s] # "none"
    /\ s \in DOMAIN spaces
    /\ spaces' = [spaces EXCEPT ![s].members = @ \cup {u}]
    /\ pointers' = [pointers EXCEPT ![u] = @ \cup {s}]
    /\ invitation' = [invitation EXCEPT ![u][s] = "accepted"]
    /\ UNCHANGED <<agents, spent>>

\* Mutant of AddSpaceMember: only the owner's list learns of the member.
AddSpaceMemberOneSided(u, s) ==
    /\ s \in DOMAIN spaces
    /\ spaces' = [spaces EXCEPT ![s].members = @ \cup {u}]
    /\ pointers' = pointers

\* add_space_member: the space's list and the member's both learn of the other.
AddSpaceMember(u, s) ==
    /\ s \in DOMAIN spaces
    /\ spaces' = [spaces EXCEPT ![s].members = @ \cup {u}]
    /\ pointers' = [pointers EXCEPT ![u] = @ \cup {s}]

\* Accepting runs add_space_member; when the space is gone it raises 404
\* before anything is written.
AcceptInvitation(u, s) ==
    /\ invitation[u][s] = "pending"
    /\ AddSpaceMember(u, s)
    /\ invitation' = [invitation EXCEPT ![u][s] = "accepted"]
    /\ UNCHANGED <<agents, spent>>

\* DELETE /spaces/{id}/members/{m}: remove_space_member.  The member's agents
\* lose the space; one whose synchronization raises is left with no dataset.
RemoveSpaceMember(u, s, m, up) ==
    LET sp        == [spaces EXCEPT ![s].members = @ \ {m}]
        pts       == [Listed(spaces, pointers, {u}) EXCEPT ![m] = @ \ {s}]
        mine      == {a \in AgentsOn(s) : agents[a].owner = m}
        strip(a)  == [agents[a] EXCEPT !.spaces = @ \ {s}]
        after(a)  == IF SyncRaises(sp, pts, strip(a), a \in up)
                     THEN [strip(a) EXCEPT !.datasets = {}]
                     ELSE Synced(sp, pts, strip(a), a \in up)
    IN  /\ s \in DOMAIN spaces
        /\ spaces[s].owner = u
        /\ m # u
        /\ spaces' = sp
        /\ pointers' = Listed(sp, pts, IF mine = {} THEN {} ELSE {m})
        /\ agents' = [a \in DOMAIN agents |->
                        IF a \in mine THEN after(a) ELSE agents[a]]
        /\ UNCHANGED <<invitation, spent>>

\* POST /spaces/{id}/datasets, by any member.  When RAGFlow refuses the
\* dataset the request raises before anything is written.
CreateDataset(u, s, d, up) ==
    LET sp  == [spaces EXCEPT ![s].datasets = @ \cup {d}]
    IN  /\ s \in Visible(spaces, pointers, u)
        /\ d \notin spent
        /\ spaces' = sp
        /\ agents' = SyncedOn(s, sp, up)
        /\ pointers' = Listed(sp, pointers, {u} \cup OwnersOn(s))
        /\ spent' = spent \cup {d}
        /\ UNCHANGED invitation

\* DELETE /datasets/{id}, by any member of the space that holds it.
DeleteDataset(u, s, d, up) ==
    LET sp  == [spaces EXCEPT ![s].datasets = @ \ {d}]
    IN  /\ s \in Visible(spaces, pointers, u)
        /\ d \in spaces[s].datasets
        /\ spaces' = sp
        /\ agents' = SyncedOn(s, sp, up)
        /\ pointers' = Listed(sp, pointers, {u} \cup OwnersOn(s))
        /\ UNCHANGED <<invitation, spent>>

CreateAgent(u, a, ss, up) ==
    /\ a \notin spent
    /\ ss # {}
    /\ ss \subseteq Visible(spaces, pointers, u)
    /\ agents' = [x \in DOMAIN agents \cup {a} |->
                    IF x = a
                    THEN Synced(spaces, pointers,
                                [owner |-> u, spaces |-> ss, datasets |-> {},
                                 chat |-> FALSE], a \in up)
                    ELSE agents[x]]
    /\ pointers' = Listed(spaces, pointers, {u})
    /\ spent' = spent \cup {a}
    /\ UNCHANGED <<spaces, invitation>>

UpdateAgent(u, a, ss, up) ==
    /\ a \in DOMAIN agents
    /\ agents[a].owner = u
    /\ ss # {}
    /\ ss \subseteq Visible(spaces, pointers, u)
    /\ agents' = [agents EXCEPT ![a] =
                    Synced(spaces, pointers, [@ EXCEPT !.spaces = ss], a \in up)]
    /\ pointers' = Listed(spaces, pointers, {u})
    /\ UNCHANGED <<spaces, invitation, spent>>

DeleteAgent(u, a) ==
    /\ a \in DOMAIN agents
    /\ agents[a].owner = u
    /\ agents' = [x \in DOMAIN agents \ {a} |-> agents[x]]
    /\ UNCHANGED <<spaces, pointers, invitation, spent>>

\* The datasets generate_agent_chat_completion searches: the synchronized
\* ones, or, when sync_agent_chat raises, the ones read before it.
Retrieved(a, ok) ==
    IF SyncRaises(spaces, pointers, agents[a], ok)
    THEN agents[a].datasets
    ELSE Synced(spaces, pointers, agents[a], ok).datasets

\* A chat completion with agent a synchronizes it on behalf of its owner.
Complete(u, a, up) ==
    /\ a \in VisibleAgents(u)
    /\ agents' = [agents EXCEPT ![a] = Synced(spaces, pointers, @, a \in up)]
    /\ pointers' = Listed(spaces, pointers, {u, agents[a].owner})
    /\ UNCHANGED <<spaces, invitation, spent>>

Next ==
    \/ \E u \in User : ListSpaces(u)
    \/ \E u \in User, s \in Space : CreateSpace(u, s)
    \/ \E u \in User, s \in Space, up \in SUBSET Agent : DeleteSpace(u, s, up)
    \/ \E u \in User, s \in Space, us \in SUBSET User : InviteMembers(u, s, us)
    \/ \E u \in User, s \in Space : DeclineInvitation(u, s)
    \/ \E u \in User, s \in Space : AcceptInvitation(u, s)
    \/ \E u, m \in User, s \in Space, up \in SUBSET Agent :
            RemoveSpaceMember(u, s, m, up)
    \/ \E u \in User, s \in Space, d \in Dataset, up \in SUBSET Agent :
            CreateDataset(u, s, d, up)
    \/ \E u \in User, s \in Space, d \in Dataset, up \in SUBSET Agent :
            DeleteDataset(u, s, d, up)
    \/ \E u \in User, a \in Agent, ss \in SUBSET Space, up \in SUBSET Agent :
            CreateAgent(u, a, ss, up)
    \/ \E u \in User, a \in Agent, ss \in SUBSET Space, up \in SUBSET Agent :
            UpdateAgent(u, a, ss, up)
    \/ \E u \in User, a \in Agent : DeleteAgent(u, a)
    \/ \E u \in User, a \in Agent, up \in SUBSET Agent : Complete(u, a, up)

Spec == Init /\ [][Next]_vars

-----------------------------------------------------------------------------
(* Properties *)

\* Every list keeps its shape: records under known ids, ids handed out once.
TypeOK ==
    /\ DOMAIN spaces \subseteq Space
    /\ spaces \in [DOMAIN spaces -> SpaceRecord]
    /\ pointers \in [User -> SUBSET Space]
    /\ invitation \in [User -> [Space -> Status]]
    /\ DOMAIN agents \subseteq Agent
    /\ agents \in [DOMAIN agents -> AgentRecord]
    /\ spent \subseteq Space \cup Dataset \cup Agent

\* The two sides of a membership agree between requests: a user points to a
\* space of another owner exactly when that space lists the user as a member,
\* so no pointer outlives its space and no member is left without a pointer.
\* (add_space_member, remove_space_member and delete_space each write both.)
MembershipAgrees ==
    /\ \A u \in User : pointers[u] \subseteq DOMAIN spaces
    /\ \A u \in User, s \in DOMAIN spaces :
          spaces[s].owner # u =>
            (s \in pointers[u] <=> u \in spaces[s].members)

\* Membership comes from an accepted invitation and only from one: a member
\* who is not the owner never holds a pending invitation to decline, nor a
\* declined one.  (invite_space_members, respond_to_space_invitation)
MemberAccepted ==
    \A s \in DOMAIN spaces : \A u \in spaces[s].members :
        spaces[s].owner # u => invitation[u][s] = "accepted"

\* An assistant is only ever attached to spaces its owner can still see,
\* whatever members were removed and spaces deleted since it was configured.
AgentSpacesVisible ==
    \A a \in DOMAIN agents :
        agents[a].spaces \subseteq Visible(spaces, pointers, agents[a].owner)

\* A dataset belongs to one space.
OneHome ==
    \A s, t \in DOMAIN spaces :
        spaces[s].datasets \cap spaces[t].datasets # {} => s = t

\* The dataset list stored with an assistant reaches into no living space the
\* assistant is not attached to, also after RAGFlow refused to synchronize.
AgentDatasetsCovered ==
    \A a \in DOMAIN agents, s \in DOMAIN spaces :
        agents[a].datasets \cap spaces[s].datasets # {} => s \in agents[a].spaces

\* A completion searches, in living spaces, only datasets of spaces the person
\* asking can see: also through somebody else's assistant, and also when the
\* synchronization raises and the dataset list read before it is used.
\* (list_agents, generate_agent_chat_completion)
RetrievalWithinReach ==
    \A u \in User : \A a \in VisibleAgents(u) : \A ok \in BOOLEAN :
        \A s \in DOMAIN spaces :
            Retrieved(a, ok) \cap spaces[s].datasets # {}
                => s \in Visible(spaces, pointers, u)

\* A user comes to see a space only by creating it or by accepting a pending
\* invitation to it.
SeenByInvitation ==
    [][\A u \in User :
        \A s \in Visible(spaces', pointers', u) \ Visible(spaces, pointers, u) :
            \/ s \notin spent
            \/ invitation[u][s] = "pending" /\ invitation'[u][s] = "accepted"]_vars

=============================================================================
