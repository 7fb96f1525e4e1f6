------------------------------ MODULE YdocSync ------------------------------
(***************************************************************************)
(* One collaboratively edited document: class YdocManager (socket/         *)
(* utils.py) under the ydoc:document:* handlers and the disconnect handler *)
(* (socket/main.py).                                                       *)
(*                                                                         *)
(* The manager keeps the log of the document's Yjs updates and the set of  *)
(* the sessions that have it open.  An update is a model value; what an    *)
(* entry of the log contributes is a set of updates (a snapshot squashes   *)
(* several), and a client's document is the set of updates it has merged:  *)
(* Yjs merges commute and are idempotent.                                  *)
(*                                                                         *)
(* One action is one Redis command, or what the handler does between two   *)
(* awaits.  In memory the manager's coroutines never suspend: a handler    *)
(* that has started on the manager goes on alone (Calm).                   *)
(***************************************************************************)
EXTENDS Naturals, Sequences, FiniteSets

CONSTANTS
    Client,     \* sessions that may open the document
    Update,     \* Yjs updates
    Deployment, \* the ways the server may be deployed and the document used
    None

\* redis: are the log and the users in Redis, or in memory?  threshold:
\* COMPACTION_THRESHOLD.  leave: may sessions leave the document?  joins and
\* edits bound how often it is opened and how many updates are made.
ASSUME YdocAssumption ==
    /\ Deployment \subseteq [redis : BOOLEAN, threshold : Nat \ {0}, leave : BOOLEAN,
                       joins : Nat, edits : Nat]
    /\ None \notin Client

VARIABLES
    deployed,  \* the deployment at hand; it does not change
    member,    \* client -> where its joining or leaving of the document is
    users,     \* the manager's set of users
    log,       \* the manager's updates
    know,      \* client -> the updates its document has merged
    wire,      \* client -> the broadcasts on their way to it
    handling,  \* update -> where the handler of its ydoc:document:update is
    by,        \* update -> the client that made it
    seen,      \* update -> the log its handler read for compaction
    joins,     \* how often a session has joined
    accepted,  \* history: the updates logged since the document was last given up
    exposed,   \* history: those logged while a compaction was being written
    raced      \* history: the sessions that joined while it was being given up

history == <<joins, accepted, exposed, raced>>
docVars == <<deployed, member, users, log, know, wire, handling, by, seen, history>>

State(l) == UNION {l[i] : i \in DOMAIN l}

\* The Socket.IO room: who a broadcast goes to.
Room    == {c \in Client : member[c] \in {"entered", "in", "leaving"}}
\* Updates are made in any order, but no more of them than the deployment's.
MayEdit == Cardinality({u \in Update : handling[u] # "unsent"}) < deployed.edits

Present == {c \in Client : member[c] \in {"entered", "in"}}

\* Nobody is in the middle of what runs without suspension in memory.
InChain(h) == h \in {"joining", "entered", "leaving", "cut", "clearing", "dropping",
                     "counting", "reading", "writing", "casting"}
Calm == /\ \A c \in Client : ~InChain(member[c])
        /\ \A u \in Update : ~InChain(handling[u])

DocTypeOK ==
    /\ deployed \in Deployment
    /\ member \in [Client -> {"out", "joining", "entered", "in", "leaving",
                              "looking", "cut", "clearing", "dropping"}]
    /\ users \subseteq Client
    /\ log \in Seq(SUBSET Update)
    /\ know \in [Client -> SUBSET Update]
    /\ wire \in [Client -> SUBSET Update]
    /\ handling \in [Update -> {"unsent", "checking", "counting", "reading",
                                "writing", "casting", "done"}]
    /\ by \in [Update -> Client \cup {None}]
    /\ \A u \in Update : by[u] = None <=> handling[u] = "unsent"
    /\ seen \in [Update -> Seq(SUBSET Update)]
    /\ accepted \subseteq Update

DocInit ==
    /\ deployed \in Deployment
    /\ member = [c \in Client |-> "out"]
    /\ users = {}
    /\ log = <<>>
    /\ know = [c \in Client |-> {}]
    /\ wire = [c \in Client |-> {}]
    /\ handling = [u \in Update |-> "unsent"]
    /\ by = [u \in Update |-> None]
    /\ seen = [u \in Update |-> <<>>]
    /\ joins = 0 /\ accepted = {} /\ exposed = {} /\ raced = {}

Becomes(c, m) == member' = [member EXCEPT ![c] = m]
Moves(u, h)   == handling' = [handling EXCEPT ![u] = h]

-----------------------------------------------------------------------------
(* Joining *)

\* ydoc:document:join, past its checks: add_user
JoinDocument(c) ==
    /\ member[c] = "out"
    /\ joins < deployed.joins
    /\ joins' = joins + 1
    /\ Becomes(c, "joining")
    /\ users' = users \cup {c}
    /\ raced' = IF \E d \in Client : member[d] \in {"clearing", "dropping"}
                THEN raced \cup {c} ELSE raced \ {c}
    /\ UNCHANGED <<deployed, log, know, wire, handling, by, seen, accepted, exposed>>

\* sio.enter_room
Enter(c) ==
    /\ member[c] = "joining"
    /\ Becomes(c, "entered")
    /\ UNCHANGED <<deployed, users, log, know, wire, handling, by, seen, history>>

\* Mutant: LRANGE 0 -2, which leaves the last entry out.
ReadShort(c) ==
    /\ member[c] = "entered"
    /\ Becomes(c, "in")
    /\ know' = [know EXCEPT ![c] = @ \cup State(SubSeq(log, 1, Len(log) - 1))]
    /\ UNCHANGED <<deployed, users, log, wire, handling, by, seen, history>>

\* get_updates, and the state sent to the session
Read(c) ==
    /\ member[c] = "entered"
    /\ Becomes(c, "in")
    /\ know' = [know EXCEPT ![c] = @ \cup State(log)]
    /\ UNCHANGED <<deployed, users, log, wire, handling, by, seen, history>>

-----------------------------------------------------------------------------
(* Editing *)

\* The client edits and sends the update.  The handler sees the sender in the
\* room, and awaits the note and the grants to check write permission.
Edit(c, u) ==
    /\ member[c] = "in"
    /\ handling[u] = "unsent" /\ MayEdit
    /\ Moves(u, "checking")
    /\ by' = [by EXCEPT ![u] = c]
    /\ know' = [know EXCEPT ![c] = @ \cup {u}]
    /\ UNCHANGED <<deployed, member, users, log, wire, seen, history>>

\* append_to_updates: RPUSH; the sender may have left meanwhile.
Store(u) ==
    /\ handling[u] = "checking"
    /\ Moves(u, "counting")
    /\ log' = Append(log, {u})
    /\ accepted' = accepted \cup {u}
    /\ exposed' = IF \E v \in Update : handling[v] = "writing"
                  THEN exposed \cup {u} ELSE exposed
    /\ UNCHANGED <<deployed, member, users, know, wire, by, seen, joins, raced>>

\* LLEN against the threshold
Count(u) ==
    /\ handling[u] = "counting"
    /\ Moves(u, IF Len(log) >= deployed.threshold THEN "reading" ELSE "casting")
    /\ UNCHANGED <<deployed, member, users, log, know, wire, by, seen, history>>

\* _compact_updates: LRANGE, and nothing to do for a log of one entry
ReadLog(u) ==
    /\ handling[u] = "reading"
    /\ seen' = [seen EXCEPT ![u] = log]
    /\ Moves(u, IF Len(log) <= 1 THEN "casting" ELSE "writing")
    /\ UNCHANGED <<deployed, member, users, log, know, wire, by, history>>

\* Mutant: the second half starts one entry too late.
SquashedShort(l) ==
    LET mid == Len(l) \div 2
    IN  <<State(SubSeq(l, 1, mid))>> \o SubSeq(l, mid + 2, Len(l))

\* The oldest half squashed into one snapshot, followed by the rest
Squashed(l) ==
    LET mid == Len(l) \div 2
    IN  <<State(SubSeq(l, 1, mid))>> \o SubSeq(l, mid + 1, Len(l))

\* DELETE and RPUSH in one MULTI: the log becomes what was read, squashed.
Compact(u) ==
    /\ handling[u] = "writing"
    /\ log' = Squashed(seen[u])
    /\ seen' = [seen EXCEPT ![u] = <<>>]
    /\ Moves(u, "casting")
    /\ UNCHANGED <<deployed, member, users, know, wire, by, history>>

\* Broadcast to the room, the sender excepted
Cast(u) ==
    /\ handling[u] = "casting"
    /\ wire' = [c \in Client |-> IF c \in Room \ {by[u]} THEN wire[c] \cup {u}
                                 ELSE wire[c]]
    /\ Moves(u, "done")
    /\ UNCHANGED <<deployed, member, users, log, know, by, seen, history>>

Receive(c, u) ==
    /\ u \in wire[c]
    /\ wire' = [wire EXCEPT ![c] = @ \ {u}]
    /\ know' = [know EXCEPT ![c] = @ \cup {u}]
    /\ UNCHANGED <<deployed, member, users, log, handling, by, seen, history>>

-----------------------------------------------------------------------------
(* Leaving *)

\* A client that goes keeps nothing of the document.
Closes(c) == /\ know' = [know EXCEPT ![c] = {}]
             /\ wire' = [wire EXCEPT ![c] = {}]

\* ydoc:document:leave: remove_user
LeaveDocument(c) ==
    /\ deployed.leave
    /\ member[c] = "in"
    /\ Becomes(c, "leaving")
    /\ users' = users \ {c}
    /\ UNCHANGED <<deployed, log, know, wire, handling, by, seen, history>>

\* sio.leave_room, then the others are told
LeaveRoom(c) ==
    /\ member[c] = "leaving"
    /\ Becomes(c, "looking")
    /\ Closes(c)
    /\ UNCHANGED <<deployed, users, log, handling, by, seen, history>>

\* disconnect: remove_user_from_all_documents takes the user off the set
LoseConnection(c) ==
    /\ deployed.leave
    /\ member[c] = "in"
    /\ Becomes(c, "cut")
    /\ users' = users \ {c}
    /\ Closes(c)
    /\ UNCHANGED <<deployed, log, handling, by, seen, history>>

\* Is anybody left?  A leaving session also asks whether the document exists.
Look(c) ==
    /\ member[c] \in {"looking", "cut"}
    /\ Becomes(c, IF users = {} /\ (member[c] = "looking" => log # <<>>)
                  THEN "clearing" ELSE "out")
    /\ UNCHANGED <<deployed, users, log, know, wire, handling, by, seen, history>>

\* clear_document: DELETE of the updates ...
ClearLog(c) ==
    /\ member[c] = "clearing"
    /\ Becomes(c, "dropping")
    /\ log' = <<>>
    /\ accepted' = IF Present \subseteq raced THEN {} ELSE accepted
    /\ UNCHANGED <<deployed, users, know, wire, handling, by, seen, joins, exposed, raced>>

\* ... and of the users
ClearUsers(c) ==
    /\ member[c] = "dropping"
    /\ Becomes(c, "out")
    /\ users' = {}
    /\ UNCHANGED <<deployed, log, know, wire, handling, by, seen, history>>

-----------------------------------------------------------------------------
Starts(c)    == \/ JoinDocument(c) \/ LeaveDocument(c) \/ Look(c) \/ LoseConnection(c)
                \/ \E u \in Update : Edit(c, u)
Continues(c) == Enter(c) \/ Read(c) \/ LeaveRoom(c) \/ ClearLog(c) \/ ClearUsers(c)
Handles(u)   == Count(u) \/ ReadLog(u) \/ Compact(u) \/ Cast(u)

\* In memory, what starts or resumes waits until the handler that runs suspends.
DocNext ==
    \/ \E c \in Client : Continues(c) \/ (member[c] = "cut" /\ Look(c))
    \/ \E u \in Update : Handles(u)
    \/ (deployed.redis \/ Calm) /\ \E c \in Client : Starts(c)
    \/ (deployed.redis \/ Calm) /\ \E u \in Update : Store(u)
    \/ \E c \in Client, u \in Update : Receive(c, u)

DocSpec == DocInit /\ [][DocNext]_docVars

-----------------------------------------------------------------------------
(* Properties *)

\* As long as a session has the document open, the log holds every update that
\* was ever accepted, compacted or not, whoever else joins and leaves.  Two
\* races in Redis are left out, and no more than them: an update logged while a
\* compaction was about to write back what it had read before, and a session
\* that joined between the decision to give the document up and its end.
\* (append_to_updates, _compact_updates, clear_document)
NothingLost ==
    /\ DocTypeOK
    /\ Present \ raced # {} => accepted \ exposed \subseteq State(log)

\* When no update is being handled and no broadcast is under way to it, a
\* session in the document has merged every update accepted: those it did not
\* read when it joined were broadcast to it, in whatever order things happened.
\* Its own updates excepted: a session that leaves and comes back while one of
\* them is being checked is not sent it.
CaughtUp ==
    \A c \in Client :
        /\ member[c] = "in" /\ wire[c] = {} /\ c \notin raced
        /\ \A u \in Update : handling[u] \in {"unsent", "checking", "done"}
        => {u \in accepted \ exposed : by[u] # c} \subseteq know[c]

=============================================================================
