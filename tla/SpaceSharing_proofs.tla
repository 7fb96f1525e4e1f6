------------------------- MODULE SpaceSharing_proofs -------------------------
(***************************************************************************)
(* Proofs about SpaceSharing, for any accounts, spaces, datasets and       *)
(* assistants.                                                             *)
(*                                                                         *)
(* The inductive invariant is SharingInv.  It is stated through predicates *)
(* on a pair of values <<sp, pt>> (the space lists and the membership      *)
(* lists), because a request goes through intermediate values of both:     *)
(* what the lemmas say of a pair is used for the values before the request *)
(* and for the values its synchronizations read.                           *)
(***************************************************************************)
EXTENDS SpaceSharing, TLAPS

\* The space lists and the membership lists are well formed and agree.
WellShared(sp, pt) ==
    /\ DOMAIN sp \subseteq Space
    /\ sp \in [DOMAIN sp -> SpaceRecord]
    /\ pt \in [User -> SUBSET Space]
    /\ \A u \in User : pt[u] \subseteq DOMAIN sp
    /\ \A u \in User, s \in DOMAIN sp :
          sp[s].owner # u => (s \in pt[u] <=> u \in sp[s].members)

\* No dataset belongs to two spaces.
OneHomeIn(sp) ==
    \A s, t \in DOMAIN sp : sp[s].datasets \cap sp[t].datasets # {} => s = t

\* The datasets ds reach into no living space outside ss.
Covered(sp, ss, ds) ==
    \A s \in DOMAIN sp : ds \cap sp[s].datasets # {} => s \in ss

\* A stored assistant is attached to spaces its owner sees and reaches no others.
AgentFits(sp, pt, r) ==
    /\ r \in AgentRecord
    /\ r.spaces \subseteq Visible(sp, pt, r.owner)
    /\ Covered(sp, r.spaces, r.datasets)

\* The ids in use have been handed out.
UsedAreSpent ==
    /\ spent \subseteq Space \cup Dataset \cup Agent
    /\ DOMAIN spaces \subseteq spent
    /\ DOMAIN agents \subseteq spent
    /\ \A s \in DOMAIN spaces : spaces[s].datasets \subseteq spent
    /\ \A a \in DOMAIN agents : agents[a].datasets \subseteq spent

\* Invitations are well formed, and every member has accepted one.
InvitationsFit ==
    /\ invitation \in [User -> [Space -> Status]]
    /\ MemberAccepted

\* The inductive invariant.
SharingInv ==
    /\ WellShared(spaces, pointers)
    /\ OneHomeIn(spaces)
    /\ DOMAIN agents \subseteq Agent
    /\ agents = [a \in DOMAIN agents |-> agents[a]]
    /\ \A a \in DOMAIN agents : AgentFits(spaces, pointers, agents[a])
    /\ UsedAreSpent
    /\ InvitationsFit

-----------------------------------------------------------------------------
(* Facts about the operators of the model *)

\* list_spaces drops no pointer that leads to a space, so what a user sees is
\* the same before and after it.
LEMMA ListedVisible ==
    ASSUME NEW sp, NEW pt, NEW us, NEW v \in User
    PROVE  Visible(sp, Listed(sp, pt, us), v) = Visible(sp, pt, v)
BY DEF Visible, Listed, ValidPointers

\* list_spaces keeps the lists in agreement.
LEMMA ListedWell ==
    ASSUME NEW sp, NEW pt, NEW us, WellShared(sp, pt)
    PROVE  WellShared(sp, Listed(sp, pt, us))
<1> DEFINE lp == Listed(sp, pt, us)
<1>1. \A u \in User : ValidPointers(sp, pt, u) \subseteq pt[u] \cap DOMAIN sp
  BY DEF Visible, ValidPointers
<1>2. lp \in [User -> SUBSET Space] /\ \A u \in User : lp[u] \subseteq DOMAIN sp
  BY <1>1 DEF WellShared, Listed
<1>3. ASSUME NEW u \in User, NEW s \in DOMAIN sp, sp[s].owner # u
      PROVE  s \in lp[u] <=> u \in sp[s].members
  BY <1>3 DEF WellShared, Listed, ValidPointers, Visible
<1> QED
  BY <1>2, <1>3 DEF WellShared

\* An assistant fits after list_spaces when it did before.
LEMMA ListedFits ==
    ASSUME NEW sp, NEW pt, NEW us, NEW r, AgentFits(sp, pt, r)
    PROVE  AgentFits(sp, Listed(sp, pt, us), r)
<1>1. r.owner \in User
  BY DEF AgentFits, AgentRecord
<1> QED
  BY <1>1, ListedVisible DEF AgentFits

\* What sync_agent_chat stores.
LEMMA SyncedShape ==
    ASSUME NEW sp, NEW pt, NEW r \in AgentRecord, NEW ok \in BOOLEAN,
           WellShared(sp, pt)
    PROVE  LET q == Synced(sp, pt, r, ok)
           IN  /\ q \in AgentRecord
               /\ q.owner = r.owner
               /\ q.spaces = r.spaces
               /\ q.datasets = DatasetsFor(sp, pt, r.owner, r.spaces)
<1>1. DatasetsFor(sp, pt, r.owner, r.spaces) \subseteq Dataset
  BY DEF DatasetsFor, Visible, WellShared, SpaceRecord
<1> QED
  BY <1>1 DEF Synced, AgentRecord

\* The datasets of a set of spaces reach into no other space.
LEMMA DatasetsForCovered ==
    ASSUME NEW sp, NEW pt, NEW u, NEW ss, OneHomeIn(sp)
    PROVE  Covered(sp, ss, DatasetsFor(sp, pt, u, ss))
BY DEF OneHomeIn, Covered, DatasetsFor, Visible

\* A synchronized assistant fits when its spaces are visible to its owner.
LEMMA SyncedFits ==
    ASSUME NEW sp, NEW pt, NEW r \in AgentRecord, NEW ok \in BOOLEAN,
           WellShared(sp, pt), OneHomeIn(sp),
           r.spaces \subseteq Visible(sp, pt, r.owner)
    PROVE  AgentFits(sp, pt, Synced(sp, pt, r, ok))
<1> DEFINE q == Synced(sp, pt, r, ok)
<1>1. q \in AgentRecord /\ q.owner = r.owner /\ q.spaces = r.spaces
  BY SyncedShape
<1>2. q.datasets = DatasetsFor(sp, pt, r.owner, r.spaces)
  BY SyncedShape
<1>3. Covered(sp, q.spaces, q.datasets)
  BY <1>1, <1>2, DatasetsForCovered
<1> QED
  BY <1>1, <1>3 DEF AgentFits

\* Synchronizing hands out no dataset id.
LEMMA SyncedSpent ==
    ASSUME NEW sp, NEW pt, NEW r \in AgentRecord, NEW ok \in BOOLEAN, NEW ids,
           WellShared(sp, pt), \A s \in DOMAIN sp : sp[s].datasets \subseteq ids
    PROVE  Synced(sp, pt, r, ok).datasets \subseteq ids
<1>1. DatasetsFor(sp, pt, r.owner, r.spaces) \subseteq ids
  BY DEF DatasetsFor, Visible
<1> QED
  BY <1>1, SyncedShape

-----------------------------------------------------------------------------
(* The invariant holds initially and is preserved by every request *)

LEMMA InitSharing == Init => SharingInv
BY DEF Init, SharingInv, WellShared, OneHomeIn, UsedAreSpent, InvitationsFit,
       MemberAccepted, Status

\* Requests that only list the spaces of some users change no other list.
LEMMA ListingKeeps ==
    ASSUME SharingInv, NEW us, pointers' = Listed(spaces, pointers, us),
           UNCHANGED spaces
    PROVE  /\ WellShared(spaces', pointers')
           /\ OneHomeIn(spaces')
           /\ \A r : AgentFits(spaces, pointers, r)
                     => AgentFits(spaces', pointers', r)
BY ListedWell, ListedFits DEF SharingInv

LEMMA ListSpacesKeeps ==
    ASSUME SharingInv, NEW u \in User, ListSpaces(u)
    PROVE  SharingInv'
<1>1. /\ pointers' = Listed(spaces, pointers, {u})
      /\ UNCHANGED <<spaces, invitation, agents, spent>>
  BY DEF ListSpaces
<1>2. /\ WellShared(spaces', pointers')
      /\ OneHomeIn(spaces')
      /\ \A a \in DOMAIN agents : AgentFits(spaces', pointers', agents[a])
  BY <1>1, ListingKeeps DEF SharingInv
<1> QED
  BY <1>1, <1>2 DEF SharingInv, UsedAreSpent, InvitationsFit, MemberAccepted

LEMMA CreateSpaceKeeps ==
    ASSUME SharingInv, NEW u \in User, NEW s \in Space, CreateSpace(u, s)
    PROVE  SharingInv'
<1> DEFINE new == [owner |-> u, members |-> {u}, datasets |-> {}]
<1>1. /\ s \notin DOMAIN spaces
      /\ spaces' = [x \in DOMAIN spaces \cup {s} |-> IF x = s THEN new ELSE spaces[x]]
      /\ pointers' = Listed(spaces, pointers, {u})
      /\ spent' = spent \cup {s}
      /\ UNCHANGED <<invitation, agents>>
  BY DEF CreateSpace, SharingInv, UsedAreSpent
<1>2. \A x \in DOMAIN spaces : x # s /\ spaces'[x] = spaces[x]
  BY <1>1
<1>3. spaces'[s] = new /\ DOMAIN spaces' = DOMAIN spaces \cup {s}
  BY <1>1
<1>4. WellShared(spaces, pointers')
  BY <1>1, ListedWell DEF SharingInv
<1>5. WellShared(spaces', pointers')
  <2>1. spaces' \in [DOMAIN spaces' -> SpaceRecord] /\ DOMAIN spaces' \subseteq Space
    BY <1>1, <1>2, <1>3, <1>4 DEF WellShared, SpaceRecord
  <2>2. ASSUME NEW v \in User, NEW x \in DOMAIN spaces', spaces'[x].owner # v
        PROVE  x \in pointers'[v] <=> v \in spaces'[x].members
    <3>1. CASE x = s
      BY <1>1, <1>3, <1>4, <2>2, <3>1 DEF WellShared
    <3>2. CASE x # s
      BY <1>2, <1>3, <1>4, <2>2, <3>2 DEF WellShared
    <3> QED
      BY <3>1, <3>2
  <2> QED
    BY <2>1, <2>2, <1>3, <1>4 DEF WellShared
<1>6. OneHomeIn(spaces')
  BY <1>2, <1>3 DEF OneHomeIn, SharingInv
<1>7. ASSUME NEW a \in DOMAIN agents
      PROVE  AgentFits(spaces', pointers', agents'[a])
  <2>1. AgentFits(spaces, pointers', agents[a])
    BY <1>1, ListedFits DEF SharingInv
  <2>2. Visible(spaces, pointers', agents[a].owner)
          \subseteq Visible(spaces', pointers', agents[a].owner)
    BY <1>2, <1>3 DEF Visible
  <2>3. Covered(spaces', agents[a].spaces, agents[a].datasets)
    BY <2>1, <1>2, <1>3 DEF Covered, AgentFits
  <2> QED
    BY <2>1, <2>2, <2>3, <1>1 DEF AgentFits
<1>8. UsedAreSpent'
  BY <1>1, <1>2, <1>3 DEF SharingInv, UsedAreSpent
<1>9. InvitationsFit'
  BY <1>1, <1>2, <1>3 DEF SharingInv, InvitationsFit, MemberAccepted
<1> QED
  BY <1>1, <1>5, <1>6, <1>7, <1>8, <1>9 DEF SharingInv

\* Requests that change invitations only, or list spaces besides.
LEMMA InviteMembersKeeps ==
    ASSUME SharingInv, NEW u \in User, NEW s \in Space, NEW us \in SUBSET User,
           InviteMembers(u, s, us)
    PROVE  SharingInv'
<1>1. /\ pointers' = Listed(spaces, pointers, {u})
      /\ UNCHANGED <<spaces, agents, spent>>
      /\ us \cap spaces[s].members = {}
      /\ invitation' = [v \in User |->
                          IF v \in us THEN [invitation[v] EXCEPT ![s] = "pending"]
                                      ELSE invitation[v]]
  BY DEF InviteMembers
<1>2. /\ WellShared(spaces', pointers')
      /\ OneHomeIn(spaces')
      /\ \A a \in DOMAIN agents : AgentFits(spaces', pointers', agents[a])
  BY <1>1, ListingKeeps DEF SharingInv
<1>3. invitation' \in [User -> [Space -> Status]]
  BY <1>1 DEF SharingInv, InvitationsFit, Status
<1>4. ASSUME NEW x \in DOMAIN spaces, NEW v \in spaces[x].members,
             spaces[x].owner # v
      PROVE  invitation'[v][x] = "accepted"
  <2>1. v \in User /\ x \in Space
    BY DEF SharingInv, WellShared, SpaceRecord
  <2>2. invitation[v][x] = "accepted"
    BY <1>4 DEF SharingInv, InvitationsFit, MemberAccepted
  <2> QED
    BY <1>1, <2>1, <2>2 DEF SharingInv, InvitationsFit
<1>5. InvitationsFit'
  BY <1>1, <1>3, <1>4 DEF InvitationsFit, MemberAccepted
<1> QED
  BY <1>1, <1>2, <1>5 DEF SharingInv, UsedAreSpent

LEMMA DeclineInvitationKeeps ==
    ASSUME SharingInv, NEW u \in User, NEW s \in Space, DeclineInvitation(u, s)
    PROVE  SharingInv'
<1>1. /\ UNCHANGED <<spaces, pointers, agents, spent>>
      /\ invitation[u][s] = "pending"
      /\ invitation' = [invitation EXCEPT ![u][s] = "declined"]
  BY DEF DeclineInvitation
<1>2. invitation' \in [User -> [Space -> Status]]
  BY <1>1 DEF SharingInv, InvitationsFit, Status
<1>3. ASSUME NEW x \in DOMAIN spaces, NEW v \in spaces[x].members,
             spaces[x].owner # v
      PROVE  invitation'[v][x] = "accepted"
  <2>1. v \in User /\ x \in Space
    BY DEF SharingInv, WellShared, SpaceRecord
  <2>2. invitation[v][x] = "accepted"
    BY <1>3 DEF SharingInv, InvitationsFit, MemberAccepted
  <2> QED
    BY <1>1, <2>1, <2>2 DEF SharingInv, InvitationsFit
<1>4. InvitationsFit'
  BY <1>1, <1>2, <1>3 DEF InvitationsFit, MemberAccepted
<1> QED
  BY <1>1, <1>4 DEF SharingInv, UsedAreSpent

LEMMA AcceptInvitationKeeps ==
    ASSUME SharingInv, NEW u \in User, NEW s \in Space, AcceptInvitation(u, s)
    PROVE  SharingInv'
<1>1. /\ s \in DOMAIN spaces
      /\ spaces' = [spaces EXCEPT ![s].members = @ \cup {u}]
      /\ pointers' = [pointers EXCEPT ![u] = @ \cup {s}]
      /\ invitation' = [invitation EXCEPT ![u][s] = "accepted"]
      /\ UNCHANGED <<agents, spent>>
  BY DEF AcceptInvitation, AddSpaceMember
<1>2. /\ DOMAIN spaces' = DOMAIN spaces
      /\ spaces' \in [DOMAIN spaces' -> SpaceRecord]
      /\ \A x \in DOMAIN spaces : /\ spaces'[x].owner = spaces[x].owner
                                  /\ spaces'[x].datasets = spaces[x].datasets
                                  /\ spaces'[x].members =
                                       spaces[x].members \cup (IF x = s THEN {u} ELSE {})
  BY <1>1 DEF SharingInv, WellShared, SpaceRecord
<1>3. WellShared(spaces', pointers')
  BY <1>1, <1>2 DEF SharingInv, WellShared
<1>4. OneHomeIn(spaces')
  BY <1>2 DEF SharingInv, OneHomeIn
<1>5. ASSUME NEW a \in DOMAIN agents
      PROVE  AgentFits(spaces', pointers', agents'[a])
  <2>1. AgentFits(spaces, pointers, agents[a]) /\ agents[a].owner \in User
    BY DEF SharingInv, AgentFits, AgentRecord
  <2>2. \A v \in User : pointers[v] \subseteq pointers'[v]
    BY <1>1 DEF SharingInv, WellShared
  <2>3. Visible(spaces, pointers, agents[a].owner)
          \subseteq Visible(spaces', pointers', agents[a].owner)
    BY <1>2, <2>1, <2>2 DEF Visible
  <2> QED
    BY <1>1, <1>2, <2>1, <2>3 DEF AgentFits, Covered
<1>6. UsedAreSpent'
  BY <1>1, <1>2 DEF SharingInv, UsedAreSpent
<1>7. InvitationsFit'
  <2>1. invitation' \in [User -> [Space -> Status]]
    BY <1>1 DEF SharingInv, InvitationsFit, Status
  <2>2. ASSUME NEW x \in DOMAIN spaces', NEW v \in spaces'[x].members,
               spaces'[x].owner # v
        PROVE  invitation'[v][x] = "accepted"
    <3>1. v \in User /\ x \in Space
      BY <1>3 DEF WellShared, SpaceRecord
    <3>2. CASE x = s /\ v = u
      BY <1>1, <3>1, <3>2 DEF SharingInv, InvitationsFit
    <3>3. CASE ~(x = s /\ v = u)
      <4>1. invitation[v][x] = "accepted"
        BY <1>2, <2>2, <3>3 DEF SharingInv, InvitationsFit, MemberAccepted
      <4> QED
        BY <1>1, <3>1, <3>3, <4>1 DEF SharingInv, InvitationsFit
    <3> QED
      BY <3>2, <3>3
  <2> QED
    BY <2>1, <2>2 DEF InvitationsFit, MemberAccepted
<1> QED
  BY <1>1, <1>3, <1>4, <1>5, <1>6, <1>7 DEF SharingInv

\* Deleting a space: its pointers go, and each agent on it loses it.
LEMMA DeleteSpaceKeeps ==
    ASSUME SharingInv, NEW u \in User, NEW s \in Space, NEW up \in SUBSET Agent,
           DeleteSpace(u, s, up)
    PROVE  SharingInv'
<1> DEFINE left      == [x \in DOMAIN spaces \ {s} |-> spaces[x]]
           listed    == Listed(spaces, pointers, {u})
           pts       == [m \in User |-> IF m \in spaces[s].members \ {u}
                                        THEN listed[m] \ {s} ELSE listed[m]]
           strip(a)  == [agents[a] EXCEPT !.spaces = @ \ {s}]
           synced(a) == agents[a].chat /\ strip(a).spaces # {}
           syncers   == {agents[a].owner : a \in {b \in AgentsOn(s) : synced(b)}}
<1>1. /\ s \in DOMAIN spaces
      /\ spaces[s].owner = u
      /\ spaces' = left
      /\ agents' = [a \in DOMAIN agents |->
                       IF a \notin AgentsOn(s) THEN agents[a]
                       ELSE IF synced(a) THEN Synced(left, pts, strip(a), a \in up)
                                         ELSE strip(a)]
      /\ pointers' = Listed(left, pts, syncers)
      /\ UNCHANGED <<invitation, spent>>
  BY DEF DeleteSpace
<1>2. /\ DOMAIN left = DOMAIN spaces \ {s}
      /\ \A x \in DOMAIN left : left[x] = spaces[x]
  OBVIOUS
<1>3. WellShared(spaces, listed)
  BY ListedWell DEF SharingInv
<1>4. WellShared(left, pts)
  <2>1. left \in [DOMAIN left -> SpaceRecord] /\ DOMAIN left \subseteq Space
    BY <1>2, <1>3 DEF WellShared
  <2>2. s \notin listed[u]
    BY <1>1 DEF Listed, ValidPointers
  <2>3. ASSUME NEW v \in User
        PROVE  pts[v] = listed[v] \ {s}
    <3>1. CASE v = u
      BY <2>2, <3>1
    <3>2. CASE v # u
      BY <1>1, <1>3, <3>2 DEF WellShared
    <3> QED
      BY <3>1, <3>2
  <2> HIDE DEF left, listed
  <2>4. pts \in [User -> SUBSET Space]
    BY <1>3, <2>3 DEF WellShared
  <2>5. ASSUME NEW v \in User, NEW x \in DOMAIN left, left[x].owner # v
        PROVE  x \in pts[v] <=> v \in left[x].members
    BY <1>2, <1>3, <2>3, <2>5 DEF WellShared
  <2>6. \A v \in User : pts[v] \subseteq DOMAIN left
    BY <1>2, <1>3, <2>3 DEF WellShared
  <2> QED
    BY <2>1, <2>4, <2>5, <2>6 DEF WellShared
<1>5. OneHomeIn(left)
  BY <1>2 DEF SharingInv, OneHomeIn
<1>6. ASSUME NEW v \in User
      PROVE  Visible(left, pts, v) = Visible(spaces, pointers, v) \ {s}
  <2>1. Visible(spaces, listed, v) = Visible(spaces, pointers, v)
    BY ListedVisible
  <2>2. Visible(left, pts, v) = Visible(spaces, listed, v) \ {s}
    <3> HIDE DEF left, listed
    <3> QED
      BY <1>2 DEF Visible
  <2> QED
    BY <2>1, <2>2
<1>7. ASSUME NEW a \in DOMAIN agents
      PROVE  AgentFits(left, pts, agents'[a])
  <2>1. AgentFits(spaces, pointers, agents[a])
    BY DEF SharingInv
  <2>2. /\ strip(a) \in AgentRecord
        /\ strip(a).owner = agents[a].owner
        /\ strip(a).datasets = agents[a].datasets
        /\ strip(a).spaces = agents[a].spaces \ {s}
        /\ agents[a].owner \in User
    BY <2>1 DEF AgentFits, AgentRecord
  <2>3. strip(a).spaces \subseteq Visible(left, pts, strip(a).owner)
    BY <1>6, <2>1, <2>2 DEF AgentFits
  <2>4. AgentFits(left, pts, strip(a))
    BY <1>2, <2>1, <2>2, <2>3 DEF AgentFits, Covered
  <2>5. AgentFits(left, pts, Synced(left, pts, strip(a), a \in up))
    <3> DEFINE ok == a \in up
    <3>1. ok \in BOOLEAN
      OBVIOUS
    <3> HIDE DEF left, pts, strip, ok
    <3>2. AgentFits(left, pts, Synced(left, pts, strip(a), ok))
      BY <1>4, <1>5, <2>2, <2>3, <3>1, SyncedFits
    <3> QED
      BY <3>2 DEF ok
  <2>6. s \notin agents[a].spaces => AgentFits(left, pts, agents[a])
    <3>1. s \notin agents[a].spaces =>
            agents[a].spaces \subseteq Visible(left, pts, agents[a].owner)
      BY <1>6, <2>1, <2>2 DEF AgentFits
    <3> QED
      BY <3>1, <1>2, <2>1 DEF AgentFits, Covered
  <2> QED
    BY <1>1, <2>4, <2>5, <2>6 DEF AgentsOn
<1>8. /\ WellShared(spaces', pointers')
      /\ \A a \in DOMAIN agents : AgentFits(spaces', pointers', agents'[a])
  BY <1>1, <1>4, <1>7, ListedWell, ListedFits
<1>9. ASSUME NEW a \in DOMAIN agents
      PROVE  agents'[a].datasets \subseteq spent
  <2>1. agents[a] \in AgentRecord /\ agents[a].datasets \subseteq spent
    BY DEF SharingInv, UsedAreSpent, AgentFits
  <2>2. strip(a) \in AgentRecord /\ strip(a).datasets \subseteq spent
    BY <2>1 DEF AgentRecord
  <2>3. \A x \in DOMAIN left : left[x].datasets \subseteq spent
    BY <1>2 DEF SharingInv, UsedAreSpent
  <2>4. Synced(left, pts, strip(a), a \in up).datasets \subseteq spent
    <3> DEFINE ok == a \in up
    <3>1. ok \in BOOLEAN
      OBVIOUS
    <3> HIDE DEF left, pts, strip, ok
    <3>2. Synced(left, pts, strip(a), ok).datasets \subseteq spent
      BY <1>4, <2>2, <2>3, <3>1, SyncedSpent
    <3> QED
      BY <3>2 DEF ok
  <2>5. \/ agents'[a] = agents[a]
        \/ agents'[a] = strip(a)
        \/ agents'[a] = Synced(left, pts, strip(a), a \in up)
    <3> HIDE DEF left, pts, strip, synced
    <3> QED
      BY <1>1
  <2> QED
    BY <2>1, <2>2, <2>4, <2>5
<1>10. UsedAreSpent'
  BY <1>1, <1>2, <1>9 DEF SharingInv, UsedAreSpent
<1>11. InvitationsFit'
  BY <1>1, <1>2 DEF SharingInv, InvitationsFit, MemberAccepted
<1> QED
  BY <1>1, <1>5, <1>8, <1>10, <1>11 DEF SharingInv

\* Removing a member: both sides of the membership go, and the member's agents
\* on the space lose it.
LEMMA RemoveSpaceMemberKeeps ==
    ASSUME SharingInv, NEW u \in User, NEW m \in User, NEW s \in Space,
           NEW up \in SUBSET Agent, RemoveSpaceMember(u, s, m, up)
    PROVE  SharingInv'
<1> DEFINE sp        == [spaces EXCEPT ![s].members = @ \ {m}]
           listed    == Listed(spaces, pointers, {u})
           pts       == [listed EXCEPT ![m] = @ \ {s}]
           mine      == {a \in AgentsOn(s) : agents[a].owner = m}
           strip(a)  == [agents[a] EXCEPT !.spaces = @ \ {s}]
           sync(a)   == Synced(sp, pts, strip(a), a \in up)
           after(a)  == IF SyncRaises(sp, pts, strip(a), a \in up)
                        THEN [strip(a) EXCEPT !.datasets = {}]
                        ELSE sync(a)
<1>1. /\ s \in DOMAIN spaces
      /\ spaces[s].owner = u
      /\ m # u
      /\ spaces' = sp
      /\ pointers' = Listed(sp, pts, IF mine = {} THEN {} ELSE {m})
      /\ agents' = [a \in DOMAIN agents |-> IF a \in mine THEN after(a) ELSE agents[a]]
      /\ UNCHANGED <<invitation, spent>>
  BY DEF RemoveSpaceMember
<1>2. WellShared(spaces, listed)
  BY ListedWell DEF SharingInv
<1>3. /\ DOMAIN sp = DOMAIN spaces
      /\ sp \in [DOMAIN sp -> SpaceRecord]
      /\ \A x \in DOMAIN spaces : /\ sp[x].owner = spaces[x].owner
                                  /\ sp[x].datasets = spaces[x].datasets
                                  /\ sp[x].members = spaces[x].members
                                                       \ (IF x = s THEN {m} ELSE {})
  <2>1. spaces \in [DOMAIN spaces -> SpaceRecord]
    BY DEF SharingInv, WellShared
  <2>2. /\ DOMAIN sp = DOMAIN spaces
        /\ \A x \in DOMAIN spaces :
              sp[x] = IF x = s THEN [spaces[s] EXCEPT !.members = @ \ {m}] ELSE spaces[x]
        /\ sp = [x \in DOMAIN spaces |-> sp[x]]
    BY <2>1
  <2> HIDE DEF sp
  <2>3. \A x \in DOMAIN spaces :
          /\ sp[x] \in SpaceRecord
          /\ sp[x].owner = spaces[x].owner
          /\ sp[x].datasets = spaces[x].datasets
          /\ sp[x].members = spaces[x].members \ (IF x = s THEN {m} ELSE {})
    BY <2>1, <2>2 DEF SpaceRecord
  <2> QED
    BY <2>2, <2>3
<1>4. /\ pts \in [User -> SUBSET Space]
      /\ \A v \in User : pts[v] = listed[v] \ (IF v = m THEN {s} ELSE {})
  BY <1>2 DEF WellShared
<1> HIDE DEF sp, listed, pts, strip
<1>5. WellShared(sp, pts)
  BY <1>2, <1>3, <1>4 DEF WellShared
<1>6. OneHomeIn(sp)
  BY <1>3 DEF SharingInv, OneHomeIn
<1>7. ASSUME NEW v \in User
      PROVE  Visible(sp, pts, v) = Visible(spaces, pointers, v)
                                     \ (IF v = m THEN {s} ELSE {})
  <2>1. Visible(spaces, listed, v) = Visible(spaces, pointers, v)
    BY ListedVisible DEF listed
  <2>2. Visible(sp, pts, v) = Visible(spaces, listed, v) \ (IF v = m THEN {s} ELSE {})
    BY <1>1, <1>2, <1>3, <1>4 DEF Visible, WellShared
  <2> QED
    BY <2>1, <2>2
<1>8. ASSUME NEW a \in DOMAIN agents
      PROVE  AgentFits(sp, pts, agents'[a]) /\ agents'[a].datasets \subseteq spent
  <2>1. /\ AgentFits(spaces, pointers, agents[a])
        /\ agents[a].owner \in User
        /\ agents[a].datasets \subseteq spent
    BY DEF SharingInv, UsedAreSpent, AgentFits, AgentRecord
  <2>2. CASE a \in mine
    <3>1. /\ strip(a) \in AgentRecord
          /\ strip(a).owner = m
          /\ strip(a).spaces = agents[a].spaces \ {s}
      BY <2>1, <2>2 DEF strip, AgentFits, AgentRecord
    <3>2. strip(a).spaces \subseteq Visible(sp, pts, strip(a).owner)
      BY <1>7, <2>1, <2>2, <3>1 DEF AgentFits
    <3> DEFINE ok == a \in up
               none == [strip(a) EXCEPT !.datasets = {}]
    <3>3. ok \in BOOLEAN
      OBVIOUS
    <3>4. \A x \in DOMAIN sp : sp[x].datasets \subseteq spent
      BY <1>3 DEF SharingInv, UsedAreSpent
    <3>5. /\ none \in AgentRecord
          /\ none.owner = strip(a).owner
          /\ none.spaces = strip(a).spaces
          /\ none.datasets = {}
      BY <3>1 DEF AgentRecord
    <3>6. agents'[a] = none \/ agents'[a] = Synced(sp, pts, strip(a), ok)
      BY <1>1, <2>2
    <3> HIDE DEF ok, none, mine
    <3>7. AgentFits(sp, pts, none) /\ none.datasets \subseteq spent
      BY <3>2, <3>5 DEF AgentFits, Covered
    <3>8. AgentFits(sp, pts, Synced(sp, pts, strip(a), ok))
      BY <1>5, <1>6, <3>1, <3>2, <3>3, SyncedFits
    <3>9. Synced(sp, pts, strip(a), ok).datasets \subseteq spent
      BY <1>5, <3>1, <3>3, <3>4, SyncedSpent
    <3> QED
      BY <3>6, <3>7, <3>8, <3>9
  <2>3. CASE a \notin mine
    <3>1. agents'[a] = agents[a]
      BY <1>1, <2>3
    <3>2. agents[a].owner = m => s \notin agents[a].spaces
      BY <2>3 DEF AgentsOn
    <3>3. agents[a].spaces \subseteq Visible(sp, pts, agents[a].owner)
      BY <1>7, <2>1, <3>2 DEF AgentFits
    <3> QED
      BY <1>3, <2>1, <3>1, <3>3 DEF AgentFits, Covered
  <2> QED
    BY <2>2, <2>3
<1>9. /\ WellShared(spaces', pointers')
      /\ \A a \in DOMAIN agents : AgentFits(spaces', pointers', agents'[a])
  BY <1>1, <1>5, <1>8, ListedWell, ListedFits
<1>10. UsedAreSpent'
  BY <1>1, <1>3, <1>8 DEF SharingInv, UsedAreSpent
<1>11. InvitationsFit'
  BY <1>1, <1>3 DEF SharingInv, InvitationsFit, MemberAccepted
<1> QED
  BY <1>1, <1>6, <1>9, <1>10, <1>11 DEF SharingInv

\* The space lists with ds as the datasets of s.
WithDatasets(s, ds) == [spaces EXCEPT ![s].datasets = ds]

\* What a change of datasets leaves true; ids are the ids handed out after it.
DatasetsChanged(ids) ==
    /\ WellShared(spaces', pointers')
    /\ OneHomeIn(spaces')
    /\ DOMAIN spaces' = DOMAIN spaces
    /\ DOMAIN agents' = DOMAIN agents
    /\ agents' = [a \in DOMAIN agents |-> agents'[a]]
    /\ \A a \in DOMAIN agents : /\ AgentFits(spaces', pointers', agents'[a])
                                /\ agents'[a].datasets \subseteq ids
    /\ \A x \in DOMAIN spaces : /\ spaces'[x].datasets \subseteq ids
                                /\ spaces'[x].owner = spaces[x].owner
                                /\ spaces'[x].members = spaces[x].members

\* Changing the datasets of one space and synchronizing the agents on it.
LEMMA DatasetChangeKeeps ==
    ASSUME SharingInv, NEW s \in DOMAIN spaces, NEW ds \in SUBSET Dataset,
           NEW us, NEW ids, NEW up \in SUBSET Agent,
           spaces' = WithDatasets(s, ds),
           agents' = SyncedOn(s, spaces', up),
           pointers' = Listed(spaces', pointers, us),
           \A x \in DOMAIN spaces : x # s => ds \cap spaces[x].datasets = {},
           \A a \in DOMAIN agents :
              s \notin agents[a].spaces => ds \cap agents[a].datasets = {},
           spent \subseteq ids, ds \subseteq ids
    PROVE  DatasetsChanged(ids)
<1>1. spaces \in [DOMAIN spaces -> SpaceRecord]
  BY DEF SharingInv, WellShared
<1>2. /\ DOMAIN spaces' = DOMAIN spaces
      /\ spaces' = [x \in DOMAIN spaces |-> spaces'[x]]
      /\ \A x \in DOMAIN spaces :
            spaces'[x] = IF x = s THEN [spaces[s] EXCEPT !.datasets = ds] ELSE spaces[x]
  BY <1>1 DEF WithDatasets
<1>3. \A x \in DOMAIN spaces :
        /\ spaces'[x] \in SpaceRecord
        /\ spaces'[x].owner = spaces[x].owner
        /\ spaces'[x].members = spaces[x].members
        /\ spaces'[x].datasets = IF x = s THEN ds ELSE spaces[x].datasets
  BY <1>1, <1>2 DEF SpaceRecord
<1>4. WellShared(spaces', pointers)
  BY <1>2, <1>3 DEF SharingInv, WellShared
<1>5. OneHomeIn(spaces')
  BY <1>2, <1>3 DEF SharingInv, OneHomeIn
<1>6. \A v : Visible(spaces', pointers, v) = Visible(spaces, pointers, v)
  BY <1>2, <1>3 DEF Visible
<1>7. \A x \in DOMAIN spaces' : spaces'[x].datasets \subseteq ids
  BY <1>2, <1>3 DEF SharingInv, UsedAreSpent
<1>8. ASSUME NEW a \in DOMAIN agents
      PROVE  /\ AgentFits(spaces', pointers, agents'[a])
             /\ agents'[a].datasets \subseteq ids
  <2>1. /\ AgentFits(spaces, pointers, agents[a])
        /\ agents[a] \in AgentRecord
        /\ agents[a].datasets \subseteq ids
    BY DEF SharingInv, UsedAreSpent, AgentFits
  <2>2. agents[a].spaces \subseteq Visible(spaces', pointers, agents[a].owner)
    BY <1>6, <2>1 DEF AgentFits
  <2>3. CASE s \in agents[a].spaces
    <3> DEFINE ok == a \in up
    <3>1. ok \in BOOLEAN
      OBVIOUS
    <3>2. agents'[a] = Synced(spaces', pointers, agents[a], ok)
      BY <2>3 DEF SyncedOn, AgentsOn
    <3> HIDE DEF ok
    <3>3. AgentFits(spaces', pointers, Synced(spaces', pointers, agents[a], ok))
      BY <1>4, <1>5, <2>1, <2>2, <3>1, SyncedFits
    <3>4. Synced(spaces', pointers, agents[a], ok).datasets \subseteq ids
      BY <1>4, <1>7, <2>1, <3>1, SyncedSpent
    <3> QED
      BY <3>2, <3>3, <3>4
  <2>4. CASE s \notin agents[a].spaces
    <3>1. agents'[a] = agents[a]
      BY <2>4 DEF SyncedOn, AgentsOn
    <3>2. Covered(spaces', agents[a].spaces, agents[a].datasets)
      BY <1>2, <1>3, <2>1, <2>4 DEF AgentFits, Covered
    <3> QED
      BY <2>1, <2>2, <3>1, <3>2 DEF AgentFits
  <2> QED
    BY <2>3, <2>4
<1>9. /\ WellShared(spaces', pointers')
      /\ \A a \in DOMAIN agents : AgentFits(spaces', pointers', agents'[a])
  BY <1>4, <1>8, ListedWell, ListedFits
<1>10. DOMAIN agents' = DOMAIN agents /\ agents' = [a \in DOMAIN agents |-> agents'[a]]
  BY DEF SyncedOn
<1> QED
  BY <1>2, <1>3, <1>5, <1>7, <1>8, <1>9, <1>10 DEF DatasetsChanged

LEMMA CreateDatasetKeeps ==
    ASSUME SharingInv, NEW u \in User, NEW s \in Space, NEW d \in Dataset,
           NEW up \in SUBSET Agent, CreateDataset(u, s, d, up)
    PROVE  SharingInv'
<1> DEFINE ds == spaces[s].datasets \cup {d}
           ids == spent \cup {d}
<1>1. /\ s \in DOMAIN spaces
      /\ d \notin spent
      /\ spaces' = WithDatasets(s, ds)
      /\ agents' = SyncedOn(s, spaces', up)
      /\ pointers' = Listed(spaces', pointers, {u} \cup OwnersOn(s))
      /\ spent' = ids
      /\ UNCHANGED invitation
  BY DEF CreateDataset, Visible, WithDatasets
<1>2. ds \in SUBSET Dataset /\ spent \subseteq ids /\ ds \subseteq ids
  BY <1>1 DEF SharingInv, WellShared, SpaceRecord, UsedAreSpent
<1>3. \A x \in DOMAIN spaces : x # s => ds \cap spaces[x].datasets = {}
  BY <1>1 DEF SharingInv, OneHomeIn, UsedAreSpent
<1>4. \A a \in DOMAIN agents :
        s \notin agents[a].spaces => ds \cap agents[a].datasets = {}
  BY <1>1 DEF SharingInv, AgentFits, Covered, UsedAreSpent
<1>5. ids \subseteq Space \cup Dataset \cup Agent
  BY DEF SharingInv, UsedAreSpent
<1> HIDE DEF ds, ids
<1>6. DatasetsChanged(ids)
  BY <1>1, <1>2, <1>3, <1>4, DatasetChangeKeeps
<1>7. UsedAreSpent'
  BY <1>1, <1>2, <1>5, <1>6 DEF SharingInv, UsedAreSpent, DatasetsChanged
<1>8. InvitationsFit'
  BY <1>1, <1>6 DEF SharingInv, InvitationsFit, MemberAccepted, DatasetsChanged
<1> QED
  BY <1>6, <1>7, <1>8 DEF SharingInv, DatasetsChanged

LEMMA DeleteDatasetKeeps ==
    ASSUME SharingInv, NEW u \in User, NEW s \in Space, NEW d \in Dataset,
           NEW up \in SUBSET Agent, DeleteDataset(u, s, d, up)
    PROVE  SharingInv'
<1> DEFINE ds == spaces[s].datasets \ {d}
<1>1. /\ s \in DOMAIN spaces
      /\ spaces' = WithDatasets(s, ds)
      /\ agents' = SyncedOn(s, spaces', up)
      /\ pointers' = Listed(spaces', pointers, {u} \cup OwnersOn(s))
      /\ UNCHANGED <<invitation, spent>>
  BY DEF DeleteDataset, Visible, WithDatasets
<1>2. ds \in SUBSET Dataset /\ ds \subseteq spent
  BY <1>1 DEF SharingInv, WellShared, SpaceRecord, UsedAreSpent
<1>3. \A x \in DOMAIN spaces : x # s => ds \cap spaces[x].datasets = {}
  BY <1>1 DEF SharingInv, OneHomeIn
<1>4. \A a \in DOMAIN agents :
        s \notin agents[a].spaces => ds \cap agents[a].datasets = {}
  BY <1>1 DEF SharingInv, AgentFits, Covered
<1> HIDE DEF ds
<1>5. DatasetsChanged(spent)
  BY <1>1, <1>2, <1>3, <1>4, DatasetChangeKeeps
<1>6. UsedAreSpent'
  BY <1>1, <1>5 DEF SharingInv, UsedAreSpent, DatasetsChanged
<1>7. InvitationsFit'
  BY <1>1, <1>5 DEF SharingInv, InvitationsFit, MemberAccepted, DatasetsChanged
<1> QED
  BY <1>5, <1>6, <1>7 DEF SharingInv, DatasetsChanged

\* The ids of the stored agents are known and have been handed out.
LEMMA AgentIds == SharingInv => DOMAIN agents \subseteq Agent \cap spent
BY DEF SharingInv, UsedAreSpent

\* Agent b is stored as q and the others are left alone; ids are only added.
OneAgentStored(b, q) ==
    /\ DOMAIN agents' \subseteq Agent \cap spent'
    /\ agents' = [a \in DOMAIN agents' |-> agents'[a]]
    /\ \A a \in DOMAIN agents' : \/ a \in DOMAIN agents /\ agents'[a] = agents[a]
                                 \/ a = b /\ agents'[a] = q
    /\ spent \subseteq spent'
    /\ spent' \subseteq Space \cup Dataset \cup Agent

\* Storing one synchronized agent.
LEMMA OneAgentKeeps ==
    ASSUME SharingInv, NEW us, NEW r \in AgentRecord, NEW ok \in BOOLEAN, NEW b,
           r.spaces \subseteq Visible(spaces, pointers, r.owner),
           OneAgentStored(b, Synced(spaces, pointers, r, ok)),
           pointers' = Listed(spaces, pointers, us),
           UNCHANGED <<spaces, invitation>>
    PROVE  SharingInv'
<1> DEFINE q == Synced(spaces, pointers, r, ok)
<1>1. AgentFits(spaces, pointers, q)
  BY SyncedFits DEF SharingInv
<1>2. q.datasets \subseteq spent
  BY SyncedSpent DEF SharingInv, UsedAreSpent
<1> HIDE DEF q
<1>3. /\ WellShared(spaces', pointers')
      /\ OneHomeIn(spaces')
      /\ \A x : AgentFits(spaces, pointers, x) => AgentFits(spaces', pointers', x)
  BY ListingKeeps
<1>4. \A a \in DOMAIN agents' : /\ AgentFits(spaces', pointers', agents'[a])
                                /\ agents'[a].datasets \subseteq spent'
  BY <1>1, <1>2, <1>3 DEF SharingInv, UsedAreSpent, OneAgentStored, q
<1>5. UsedAreSpent'
  BY <1>4 DEF SharingInv, UsedAreSpent, OneAgentStored
<1>6. InvitationsFit'
  BY DEF SharingInv, InvitationsFit, MemberAccepted
<1> QED
  BY <1>3, <1>4, <1>5, <1>6 DEF SharingInv, OneAgentStored

LEMMA CreateAgentKeeps ==
    ASSUME SharingInv, NEW u \in User, NEW a \in Agent, NEW ss \in SUBSET Space,
           NEW up \in SUBSET Agent, CreateAgent(u, a, ss, up)
    PROVE  SharingInv'
<1> DEFINE r == [owner |-> u, spaces |-> ss, datasets |-> {}, chat |-> FALSE]
           ok == a \in up
           q == Synced(spaces, pointers, r, ok)
<1>1. /\ ss \subseteq Visible(spaces, pointers, u)
      /\ agents' = [x \in DOMAIN agents \cup {a} |-> IF x = a THEN q ELSE agents[x]]
      /\ pointers' = Listed(spaces, pointers, {u})
      /\ spent' = spent \cup {a}
      /\ UNCHANGED <<spaces, invitation>>
  BY DEF CreateAgent
<1>2. r \in AgentRecord /\ r.owner = u /\ r.spaces = ss /\ ok \in BOOLEAN
  BY DEF AgentRecord
<1> HIDE DEF r, ok
<1>3. /\ DOMAIN agents' = DOMAIN agents \cup {a}
      /\ agents' = [x \in DOMAIN agents' |-> agents'[x]]
      /\ \A x \in DOMAIN agents' : \/ x \in DOMAIN agents /\ agents'[x] = agents[x]
                                   \/ x = a /\ agents'[x] = q
  BY <1>1
<1>4. spent \subseteq spent' /\ spent' \subseteq Space \cup Dataset \cup Agent
  BY <1>1 DEF SharingInv, UsedAreSpent
<1>5. DOMAIN agents' \subseteq Agent \cap spent'
  <2>1. DOMAIN agents \subseteq Agent \cap spent
    BY AgentIds
  <2>2. DOMAIN agents' = DOMAIN agents \cup {a}
    BY <1>3
  <2>3. spent' = spent \cup {a}
    BY <1>1
  <2> QED
    BY <2>1, <2>2, <2>3
<1>6. OneAgentStored(a, q)
  BY <1>3, <1>4, <1>5 DEF OneAgentStored
<1> QED
  BY <1>1, <1>2, <1>6, OneAgentKeeps

LEMMA UpdateAgentKeeps ==
    ASSUME SharingInv, NEW u \in User, NEW a \in Agent, NEW ss \in SUBSET Space,
           NEW up \in SUBSET Agent, UpdateAgent(u, a, ss, up)
    PROVE  SharingInv'
<1> DEFINE r == [agents[a] EXCEPT !.spaces = ss]
           ok == a \in up
           q == Synced(spaces, pointers, r, ok)
<1>1. /\ a \in DOMAIN agents
      /\ agents[a].owner = u
      /\ ss \subseteq Visible(spaces, pointers, u)
      /\ agents' = [agents EXCEPT ![a] = q]
      /\ pointers' = Listed(spaces, pointers, {u})
      /\ UNCHANGED <<spaces, invitation, spent>>
  BY DEF UpdateAgent
<1>2. agents[a] \in AgentRecord
  BY <1>1 DEF SharingInv, AgentFits
<1>3. r \in AgentRecord /\ r.owner = u /\ r.spaces = ss /\ ok \in BOOLEAN
  BY <1>1, <1>2 DEF AgentRecord
<1> HIDE DEF r, ok
<1>4. /\ DOMAIN agents' = DOMAIN agents
      /\ agents' = [x \in DOMAIN agents' |-> agents'[x]]
      /\ \A x \in DOMAIN agents' : \/ x \in DOMAIN agents /\ agents'[x] = agents[x]
                                   \/ x = a /\ agents'[x] = q
  BY <1>1 DEF SharingInv
<1>5. spent \subseteq spent' /\ spent' \subseteq Space \cup Dataset \cup Agent
  BY <1>1 DEF SharingInv, UsedAreSpent
<1>6. DOMAIN agents' \subseteq Agent \cap spent'
  <2>1. DOMAIN agents \subseteq Agent \cap spent
    BY AgentIds
  <2>2. DOMAIN agents' = DOMAIN agents
    BY <1>4
  <2>3. spent' = spent
    BY <1>1
  <2> QED
    BY <2>1, <2>2, <2>3
<1>7. OneAgentStored(a, q)
  BY <1>4, <1>5, <1>6 DEF OneAgentStored
<1> QED
  BY <1>1, <1>3, <1>7, OneAgentKeeps

LEMMA CompleteKeeps ==
    ASSUME SharingInv, NEW u \in User, NEW a \in Agent, NEW up \in SUBSET Agent,
           Complete(u, a, up)
    PROVE  SharingInv'
<1> DEFINE r == agents[a]
           ok == a \in up
           q == Synced(spaces, pointers, r, ok)
<1>1. /\ a \in DOMAIN agents
      /\ agents' = [agents EXCEPT ![a] = q]
      /\ pointers' = Listed(spaces, pointers, {u, agents[a].owner})
      /\ UNCHANGED <<spaces, invitation, spent>>
  BY DEF Complete, VisibleAgents
<1>2. /\ r \in AgentRecord
      /\ r.spaces \subseteq Visible(spaces, pointers, r.owner)
      /\ ok \in BOOLEAN
  BY <1>1 DEF SharingInv, AgentFits
<1> HIDE DEF r, ok
<1>3. /\ DOMAIN agents' = DOMAIN agents
      /\ agents' = [x \in DOMAIN agents' |-> agents'[x]]
      /\ \A x \in DOMAIN agents' : \/ x \in DOMAIN agents /\ agents'[x] = agents[x]
                                   \/ x = a /\ agents'[x] = q
  BY <1>1 DEF SharingInv
<1>4. spent \subseteq spent' /\ spent' \subseteq Space \cup Dataset \cup Agent
  BY <1>1 DEF SharingInv, UsedAreSpent
<1>5. DOMAIN agents' \subseteq Agent \cap spent'
  <2>1. DOMAIN agents \subseteq Agent \cap spent
    BY AgentIds
  <2>2. DOMAIN agents' = DOMAIN agents
    BY <1>3
  <2>3. spent' = spent
    BY <1>1
  <2> QED
    BY <2>1, <2>2, <2>3
<1>6. OneAgentStored(a, q)
  BY <1>3, <1>4, <1>5 DEF OneAgentStored
<1> QED
  BY <1>1, <1>2, <1>6, OneAgentKeeps

LEMMA DeleteAgentKeeps ==
    ASSUME SharingInv, NEW u \in User, NEW a \in Agent, DeleteAgent(u, a)
    PROVE  SharingInv'
<1>1. /\ agents' = [x \in DOMAIN agents \ {a} |-> agents[x]]
      /\ UNCHANGED <<spaces, pointers, invitation, spent>>
  BY DEF DeleteAgent
<1>2. /\ DOMAIN agents' = DOMAIN agents \ {a}
      /\ agents' = [x \in DOMAIN agents' |-> agents'[x]]
      /\ \A x \in DOMAIN agents' : agents'[x] = agents[x]
  BY <1>1
<1>3. UsedAreSpent'
  BY <1>1, <1>2 DEF SharingInv, UsedAreSpent
<1>4. InvitationsFit'
  BY <1>1 DEF SharingInv, InvitationsFit, MemberAccepted
<1> QED
  BY <1>1, <1>2, <1>3, <1>4 DEF SharingInv

-----------------------------------------------------------------------------
(* The theorems *)

LEMMA NextSharing == SharingInv /\ [Next]_vars => SharingInv'
<1> SUFFICES ASSUME SharingInv, [Next]_vars
             PROVE  SharingInv'
  OBVIOUS
<1>1. CASE UNCHANGED vars
  BY <1>1 DEF vars, SharingInv, UsedAreSpent, InvitationsFit, MemberAccepted
<1>2. CASE Next
  BY <1>2, ListSpacesKeeps, CreateSpaceKeeps, DeleteSpaceKeeps, InviteMembersKeeps,
     DeclineInvitationKeeps, AcceptInvitationKeeps, RemoveSpaceMemberKeeps,
     CreateDatasetKeeps, DeleteDatasetKeeps, CreateAgentKeeps, UpdateAgentKeeps,
     DeleteAgentKeeps, CompleteKeeps DEF Next
<1> QED
  BY <1>1, <1>2

\* The inductive invariant holds in every state of every behaviour.
THEOREM SharingInvariant == Spec => []SharingInv
BY InitSharing, NextSharing, PTL DEF Spec

\* Every list keeps its shape.
THEOREM TypeCorrect == Spec => []TypeOK
<1>1. SharingInv => TypeOK
  BY DEF SharingInv, WellShared, AgentFits, UsedAreSpent, InvitationsFit, TypeOK
<1> QED
  BY <1>1, SharingInvariant, PTL

\* The owner's member list and the member's pointer agree between requests.
THEOREM MembershipCorrect == Spec => []MembershipAgrees
<1>1. SharingInv => MembershipAgrees
  BY DEF SharingInv, WellShared, MembershipAgrees
<1> QED
  BY <1>1, SharingInvariant, PTL

\* Whoever is a member of a space of somebody else has accepted an invitation
\* to it, and has not declined it since.
THEOREM MembersAccepted == Spec => []MemberAccepted
<1>1. SharingInv => MemberAccepted
  BY DEF SharingInv, InvitationsFit
<1> QED
  BY <1>1, SharingInvariant, PTL

\* Assistants stay attached to spaces that their owners see.
THEOREM AgentsVisible == Spec => []AgentSpacesVisible
<1>1. SharingInv => AgentSpacesVisible
  BY DEF SharingInv, AgentFits, AgentSpacesVisible
<1> QED
  BY <1>1, SharingInvariant, PTL

\* The datasets stored for an assistant stay within its spaces.
THEOREM AgentsCovered == Spec => []AgentDatasetsCovered
<1>1. SharingInv => AgentDatasetsCovered
  BY DEF SharingInv, AgentFits, Covered, AgentDatasetsCovered
<1> QED
  BY <1>1, SharingInvariant, PTL

\* A completion searches no living space the person asking cannot see.
THEOREM RetrievalCorrect == Spec => []RetrievalWithinReach
<1>1. SharingInv => RetrievalWithinReach
  <2> SUFFICES ASSUME SharingInv, NEW u \in User, NEW a \in VisibleAgents(u),
                      NEW ok \in BOOLEAN, NEW s \in DOMAIN spaces,
                      Retrieved(a, ok) \cap spaces[s].datasets # {}
               PROVE  s \in Visible(spaces, pointers, u)
    BY DEF RetrievalWithinReach
  <2>1. /\ a \in DOMAIN agents
        /\ AgentFits(spaces, pointers, agents[a])
        /\ agents[a] \in AgentRecord
    BY DEF VisibleAgents, SharingInv, AgentFits
  <2> DEFINE q == Synced(spaces, pointers, agents[a], ok)
  <2>2. /\ AgentFits(spaces, pointers, q)
        /\ q.spaces = agents[a].spaces
    BY <2>1, SyncedFits, SyncedShape DEF SharingInv, AgentFits
  <2>3. Retrieved(a, ok) = agents[a].datasets \/ Retrieved(a, ok) = q.datasets
    BY DEF Retrieved
  <2> HIDE DEF q
  <2>4. s \in agents[a].spaces
    BY <2>1, <2>2, <2>3 DEF AgentFits, Covered
  <2>5. agents[a].spaces \subseteq Visible(spaces, pointers, u)
    BY <2>1 DEF VisibleAgents, AgentFits
  <2> QED
    BY <2>4, <2>5
<1> QED
  BY <1>1, SharingInvariant, PTL
-----------------------------------------------------------------------------
(* Who comes to see a space *)

\* Who sees a space can be read off the owner's list alone.
LEMMA SeenInList ==
    ASSUME NEW sp, NEW pt, WellShared(sp, pt), NEW u \in User, NEW s
    PROVE  s \in Visible(sp, pt, u) <=>
              s \in DOMAIN sp /\ (sp[s].owner = u \/ u \in sp[s].members)
BY DEF Visible, WellShared

\* A user who comes to see a space has created it or has just accepted a
\* pending invitation to it.
LEMMA ComesToSee ==
    ASSUME SharingInv, SharingInv', [Next]_vars, NEW u \in User,
           NEW s \in Visible(spaces', pointers', u) \ Visible(spaces, pointers, u)
    PROVE  \/ s \notin spent
           \/ invitation[u][s] = "pending" /\ invitation'[u][s] = "accepted"
<1> DEFINE Seen(sp) == s \in DOMAIN sp /\ (sp[s].owner = u \/ u \in sp[s].members)
<1>1. WellShared(spaces, pointers) /\ WellShared(spaces', pointers')
  BY DEF SharingInv
<1>2. ~Seen(spaces) /\ Seen(spaces')
  BY <1>1, SeenInList
<1>3. /\ \A t \in DOMAIN spaces : spaces[t] \in SpaceRecord
      /\ invitation \in [User -> [Space -> Status]]
  BY <1>1 DEF WellShared, SharingInv, InvitationsFit
<1>4. CASE spaces' = spaces
  BY <1>2, <1>4
<1>5. ASSUME NEW v \in User, NEW t \in Space, CreateSpace(v, t)
      PROVE  s \notin spent
  BY <1>2, <1>5 DEF CreateSpace
<1>6. ASSUME NEW v \in User, NEW t \in Space, NEW up \in SUBSET Agent,
             DeleteSpace(v, t, up)
      PROVE  FALSE
  BY <1>2, <1>6 DEF DeleteSpace
<1>7. ASSUME NEW v \in User, NEW t \in Space, AcceptInvitation(v, t)
      PROVE  invitation[u][s] = "pending" /\ invitation'[u][s] = "accepted"
  <2>1. /\ t \in DOMAIN spaces
        /\ spaces' = [spaces EXCEPT ![t].members = @ \cup {v}]
        /\ invitation[v][t] = "pending"
        /\ invitation' = [invitation EXCEPT ![v][t] = "accepted"]
    BY <1>7 DEF AcceptInvitation, AddSpaceMember
  <2>2. s = t /\ u = v
    BY <1>2, <1>3, <2>1 DEF SpaceRecord
  <2> QED
    BY <1>3, <2>1, <2>2
<1>8. ASSUME NEW v \in User, NEW m \in User, NEW t \in Space,
             NEW up \in SUBSET Agent, RemoveSpaceMember(v, t, m, up)
      PROVE  FALSE
  <2>1. /\ t \in DOMAIN spaces
        /\ spaces' = [spaces EXCEPT ![t].members = @ \ {m}]
    BY <1>8 DEF RemoveSpaceMember
  <2> QED
    BY <1>2, <1>3, <2>1 DEF SpaceRecord
<1>9. ASSUME NEW v \in User, NEW t \in Space, NEW d \in Dataset,
             NEW up \in SUBSET Agent,
             CreateDataset(v, t, d, up) \/ DeleteDataset(v, t, d, up)
      PROVE  FALSE
  <2>1. /\ t \in DOMAIN spaces
        /\ \E ds : spaces' = [spaces EXCEPT ![t].datasets = ds]
    BY <1>9 DEF CreateDataset, DeleteDataset, Visible
  <2>2. PICK ds : spaces' = [spaces EXCEPT ![t].datasets = ds]
    BY <2>1
  <2>3. /\ DOMAIN spaces' = DOMAIN spaces
        /\ \A x \in DOMAIN spaces : /\ spaces'[x].owner = spaces[x].owner
                                    /\ spaces'[x].members = spaces[x].members
    BY <1>3, <2>2 DEF SpaceRecord
  <2> QED
    BY <1>2, <2>3
<1>10. CASE UNCHANGED vars
  BY <1>4, <1>10 DEF vars
<1>11. CASE Next
  BY <1>4, <1>5, <1>6, <1>7, <1>8, <1>9, <1>11
     DEF Next, ListSpaces, InviteMembers, DeclineInvitation, CreateAgent,
         UpdateAgent, DeleteAgent, Complete
<1> QED
  BY <1>10, <1>11

\* A user comes to see a space only by creating it or by accepting a pending
\* invitation to it: no other request shows anybody anything new.
THEOREM SeenOnlyByInvitation == Spec => SeenByInvitation
<1> DEFINE Step ==
      \A u \in User :
        \A s \in Visible(spaces', pointers', u) \ Visible(spaces, pointers, u) :
            \/ s \notin spent
            \/ invitation[u][s] = "pending" /\ invitation'[u][s] = "accepted"
<1>1. SharingInv /\ SharingInv' /\ [Next]_vars => [Step]_vars
  BY ComesToSee
<1> QED
  BY <1>1, SharingInvariant, PTL DEF Spec, SeenByInvitation

=============================================================================
