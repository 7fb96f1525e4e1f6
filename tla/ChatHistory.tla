----------------------------- MODULE ChatHistory -----------------------------
(***************************************************************************)
(* The messages of one chat (models/chats.py, models/chat_messages.py,     *)
(* routers/chats.py, and the part of main.py that saves a turn).           *)
(*                                                                         *)
(* Messages form a tree.  They are stored twice: in the JSON document of   *)
(* the chat, which is read and written whole, and as rows of chat_message, *)
(* one by one.  A request is a sequence of database calls; requests of     *)
(* several tabs, and the task that streams an answer, interleave between   *)
(* them.  Contents are left out: what counts is which messages there are   *)
(* and how they are linked.  Child lists are sets here; where the code     *)
(* takes the last child, the model takes any.                              *)
(***************************************************************************)
EXTENDS Naturals, Sequences, FiniteSets

CONSTANTS
    Message,       \* message ids, made up by the clients
    None,          \* no message
    Same,          \* in a patch: the field stays as it is
    Worker,        \* requests that may be in progress
    MaxDisturbed,  \* how often a request may begin beside another, use a
                   \* stale tab, be late, or die
    Crowd          \* how many messages there may be once one has

ASSUME NoMessages == /\ None \notin Message /\ Same \notin Message \cup {None}
                     /\ \A S \in SUBSET Message : S # Same

VARIABLES
    doc,        \* the document: messages by id, and history.currentId
    rows,       \* chat_message: id -> parent
    tab,        \* a browser tab's copy of the document
    job,        \* worker -> calls still to make, and the document it read
    asked,      \* message ids used so far -> the question it answers, if any
    saved,      \* history: messages whose row was written
    dropped,    \* history: messages some request deleted
    disturbed   \* how often requests were not alone

vars == <<doc, rows, tab, job, asked, saved, dropped, disturbed>>

spent == DOMAIN asked

Nothing == [x \in {} |-> {}]
Empty == [msgs |-> Nothing, current |-> None]
Idle == [todo |-> <<>>, copy |-> Empty]
Busy == {w \in Worker : job[w] # Idle}
Ids(d) == DOMAIN d.msgs

Op(w) == IF job[w].todo = <<>> THEN <<"none">> ELSE Head(job[w].todo)
Rest(w) == Tail(job[w].todo)
Go(w, todo, copy) ==
    job' = [job EXCEPT ![w] = IF todo = <<>> THEN Idle ELSE [todo |-> todo, copy |-> copy]]
Loop(name, left) == IF left = {} THEN <<>> ELSE <<<<name, left>>>>

With(f, k, v) == [x \in DOMAIN f \cup {k} |-> IF x = k THEN v ELSE f[x]]
Without(f, ks) == [x \in DOMAIN f \ ks |-> f[x]]

-----------------------------------------------------------------------------
(* Operations on a document *)

\* _repair_chat_current_id: what get_chat_by_id may find, and write back.
\* The latest leaf is shown when the current message has gone.
Repaired(d) ==
    LET leaves == {m \in Ids(d) : d.msgs[m].children = {}}
    IN  IF d.current \in Ids(d) \/ leaves = {} THEN {d}
        ELSE {[d EXCEPT !.current = m] : m \in leaves}

Patch(p, cs) == [parent |-> p, children |-> cs]

\* Mutant of Upserted: a new message is put under the message shown last.
UpsertedUnderCurrent(d, m, patch) ==
    LET old  == IF m \in Ids(d) THEN d.msgs[m] ELSE [parent |-> None, children |-> {}]
        new  == [parent   |-> IF m \in Ids(d) /\ patch.parent = Same THEN old.parent ELSE d.current,
                 children |-> IF patch.children = Same THEN old.children ELSE patch.children]
    IN  {[msgs |-> With(d.msgs, m, new), current |-> m]}

\* upsert_message_to_chat_by_id_and_message_id.  A message that is not there
\* is created, under whichever message lists it if the patch names no parent.
Upserted(d, m, patch) ==
    LET listing == {p \in Ids(d) : m \in d.msgs[p].children}
        cs(old) == IF patch.children = Same THEN old ELSE patch.children
        put(p, c) == [msgs    |-> With(d.msgs, m, [parent |-> p, children |-> c]),
                      current |-> m]
    IN  IF m \in Ids(d)
        THEN {put(IF patch.parent = Same THEN d.msgs[m].parent ELSE patch.parent,
                  cs(d.msgs[m].children))}
        ELSE IF patch.parent \in Message THEN {put(patch.parent, cs({}))}
        ELSE {put(p, cs({})) : p \in IF listing = {} THEN {None} ELSE listing}

\* merge_history: the client's messages over those stored, children computed
\* from the parents, the client's current message if it is there.
Merged(d, page) ==
    LET ids == Ids(d) \cup Ids(page)
        parent == [m \in ids |-> IF m \in Ids(page) THEN page.msgs[m].parent
                                                    ELSE d.msgs[m].parent]
    IN  [msgs    |-> [m \in ids |-> [parent   |-> parent[m],
                                     children |-> {c \in ids : parent[c] = m}]],
         current |-> IF page.current \in ids THEN page.current
                     ELSE IF d.current \in ids THEN d.current ELSE None]

\* The messages at or below those in `from', following the child lists.
Below(msgs, from) ==
    LET all    == from \cup DOMAIN msgs \cup UNION {msgs[m].children : m \in DOMAIN msgs}
        closed == {S \in SUBSET all : /\ from \subseteq S
                                      /\ \A m \in S \cap DOMAIN msgs : msgs[m].children \subseteq S}
    IN  {m \in all : \A S \in closed : m \in S}

\* delete_message_from_history deletes a message with its children, and hands
\* its grandchildren to its parent.
Deletes(d, m) == {m} \cup (d.msgs[m].children \cap Ids(d))

Grandchildren(d, m) ==
    Ids(d) \cap UNION {d.msgs[c].children : c \in d.msgs[m].children \cap Ids(d)}

\* Mutant of Left: the grandchildren are not listed by their new parent.
LeftUnlisted(d, m) ==
    LET p == d.msgs[m].parent
    IN  [x \in Ids(d) \ Deletes(d, m) |->
           [parent   |-> IF x \in Grandchildren(d, m) THEN p ELSE d.msgs[x].parent,
            children |-> IF x = p THEN d.msgs[x].children \ {m} ELSE d.msgs[x].children]]

Left(d, m) ==
    LET p == d.msgs[m].parent
    IN  [x \in Ids(d) \ Deletes(d, m) |->
           [parent   |-> IF x \in Grandchildren(d, m) THEN p ELSE d.msgs[x].parent,
            children |-> IF x = p THEN (d.msgs[x].children \ {m}) \cup Grandchildren(d, m)
                                  ELSE d.msgs[x].children]]

\* A leaf below the parent is shown, or any leaf when a root was deleted.
Cut(d, m) ==
    LET left  == Left(d, m)
        p     == d.msgs[m].parent
        start == IF p = None THEN {x \in DOMAIN left : left[x].parent = None} ELSE {p}
        ends  == {x \in Below(left, start) : x \in DOMAIN left => left[x].children = {}}
    IN  IF ends = {} THEN {[msgs |-> left, current |-> None]}
        ELSE {[msgs |-> left, current |-> IF x \in DOMAIN left THEN x ELSE None] : x \in ends}

-----------------------------------------------------------------------------
(* Calls *)

\* get_chat_by_id
Read(w) ==
    /\ Op(w)[1] = "read"
    /\ \E d \in Repaired(doc) :
          /\ doc' = d
          /\ Go(w, Rest(w), d)
    /\ UNCHANGED <<rows, tab, asked, saved, dropped>>

\* update_chat_by_id
Write(w) ==
    /\ Op(w)[1] = "write"
    /\ doc' = job[w].copy
    /\ Go(w, Rest(w), Empty)
    /\ UNCHANGED <<rows, tab, asked, saved, dropped>>

\* The upsert of one message writes its row first.
UpsertRow(w) ==
    /\ Op(w)[1] = "upsert"
    /\ LET m == Op(w)[2]
       IN  \E d \in Upserted(job[w].copy, m, Op(w)[3]) :
              /\ rows' = With(rows, m, d.msgs[m].parent)
              /\ saved' = saved \cup {m}
              /\ Go(w, Rest(w), d)
    /\ UNCHANGED <<doc, tab, asked, dropped>>

Upsert(m, patch) == <<<<"read">>, <<"upsert", m, patch>>, <<"write">>>>

\* A message's children are read, and written back with more if need be.
Link(w) ==
    /\ Op(w)[1] = "link"
    /\ LET p    == Op(w)[2]
           kids == Op(w)[3]
       IN  \E d \in Repaired(doc) :
              /\ doc' = d
              /\ Go(w, (IF /\ p \in Ids(d)
                           /\ Op(w)[4] \/ ~(kids \subseteq d.msgs[p].children)
                        THEN Upsert(p, Patch(Same, d.msgs[p].children \cup kids))
                        ELSE <<>>) \o Rest(w), Empty)
    /\ UNCHANGED <<rows, tab, asked, saved, dropped>>

\* delete_message_from_chat_by_id_and_message_id: document, rows, deletion.
DeleteMessage(w) ==
    /\ Op(w)[1] = "delete"
    /\ LET m == Op(w)[2]
           d == job[w].copy
       IN  IF m \notin Ids(d)
           THEN Go(w, Rest(w), Empty) /\ UNCHANGED <<doc, dropped>>
           ELSE \E e \in Cut(d, m) :
                  /\ doc' = e
                  /\ dropped' = dropped \cup Deletes(d, m)
                  /\ Go(w, Loop("rows", Ids(e)) \o <<<<"unrow", Deletes(d, m)>>>> \o Rest(w), e)
    /\ UNCHANGED <<rows, tab, asked, saved>>

\* Mutant of SaveHistory: rows of messages the client does not know are deleted.
SaveHistoryInferring(w) ==
    /\ Op(w)[1] = "merge"
    /\ LET d == Merged(job[w].copy, Op(w)[2])
       IN  /\ doc' = d
           /\ Go(w, Loop("rows", Ids(d)) \o <<<<"unrow", Ids(d) \ Ids(Op(w)[2])>>>> \o Rest(w), d)
    /\ UNCHANGED <<rows, tab, asked, saved, dropped>>

\* POST /chats/{id}: merge, write, then reconcile_messages_by_chat_id.
SaveHistory(w) ==
    /\ Op(w)[1] = "merge"
    /\ LET d == Merged(job[w].copy, Op(w)[2])
       IN  /\ doc' = d
           /\ Go(w, Loop("rows", Ids(d)) \o Rest(w), d)
    /\ UNCHANGED <<rows, tab, asked, saved, dropped>>

\* backfill_messages_by_chat_id, one row at a time.
BackfillRow(w) ==
    /\ Op(w)[1] = "rows"
    /\ \E m \in Op(w)[2] :
          /\ rows' = With(rows, m, job[w].copy.msgs[m].parent)
          /\ saved' = saved \cup {m}
          /\ Go(w, Loop("rows", Op(w)[2] \ {m}) \o Rest(w), job[w].copy)
    /\ UNCHANGED <<doc, tab, asked, dropped>>

\* delete_message_ids_by_chat_id
DeleteRows(w) ==
    /\ Op(w)[1] = "unrow"
    /\ rows' = Without(rows, Op(w)[2])
    /\ Go(w, Rest(w), Empty)
    /\ UNCHANGED <<doc, tab, asked, saved, dropped>>

\* get_messages_map_by_chat_id reads the rows; without any it takes the
\* document, and where a parent is missing it looks for it there.
Walk(w) ==
    /\ Op(w)[1] = "walk"
    /\ LET unresolved == {rows[m] : m \in DOMAIN rows} \ (DOMAIN rows \cup {None})
       IN  Go(w, IF DOMAIN rows = {} THEN <<<<"heal", Message>>>>
                 ELSE Loop("heal", unresolved), Empty)
    /\ UNCHANGED <<doc, rows, tab, asked, saved, dropped>>

Heal(w) ==
    /\ Op(w)[1] = "heal"
    /\ \E d \in Repaired(doc) :
          /\ doc' = d
          /\ Go(w, Loop("rows", Op(w)[2] \cap Ids(d)) \o Rest(w), d)
    /\ UNCHANGED <<rows, tab, asked, saved, dropped>>

-----------------------------------------------------------------------------
(* Requests *)

\* A worker begins.  It is alone if no other runs and `late' does not hold.
\* ids are new messages, with the questions they answer.
Begin(w, todo, ids, late) ==
    LET alone == Busy = {} /\ ~late
    IN  /\ job[w] = Idle
        /\ spent # {}
        /\ DOMAIN ids \cap spent = {}
        /\ alone \/ disturbed < MaxDisturbed
        /\ disturbed' = IF alone THEN disturbed ELSE disturbed + 1
        /\ asked' = [m \in spent \cup DOMAIN ids |->
                       IF m \in spent THEN asked[m] ELSE ids[m]]
        /\ disturbed' > 0 => Cardinality(spent \cup DOMAIN ids) <= Crowd
        /\ job' = [job EXCEPT ![w] = [todo |-> todo, copy |-> Empty]]
        /\ tab' = IF disturbed' = MaxDisturbed THEN Empty ELSE tab
        /\ UNCHANGED <<doc, rows, saved, dropped>>

\* insert_new_chat, with a question u, or with a question and the
\* placeholder of its answer a.
NewChat(w, u, a) ==
    /\ spent = {}
    /\ asked' = [m \in {u, a} |-> IF m # u THEN u ELSE None]
    /\ doc' = [msgs    |-> [m \in {u, a} |->
                              IF m # u THEN [parent |-> u, children |-> {}]
                                       ELSE [parent |-> None, children |-> {a} \ {u}]],
               current |-> a]
    /\ Go(w, Loop("rows", {u, a}), doc')
    /\ UNCHANGED <<rows, tab, saved, dropped, disturbed>>

\* A turn in an existing chat, as the page shows it: chat-level fields, the
\* question with its child list, the link from its parent, the link to the
\* answer, the placeholder of the answer.
Turn(page, u, p, a) ==
    LET kids == {a} \cup (IF u \in Ids(page) THEN page.msgs[u].children ELSE {})
    IN  <<<<"read">>, <<"write">>>> \o Upsert(u, Patch(p, kids))
        \o (IF p = None THEN <<>> ELSE <<<<"link", p, {u}, FALSE>>>>)
        \o <<<<"link", u, {a}, TRUE>>>> \o Upsert(a, Patch(u, {}))

\* A new question under p, or a new answer to a question there is already.
Ask(w, page, u, a) ==
    /\ u # a
    /\ IF u \in Ids(page)
       THEN Begin(w, Turn(page, u, page.msgs[u].parent, a),
                  [m \in {a} |-> u], page # doc)
       ELSE \E p \in Ids(page) \cup {None} :
              Begin(w, Turn(page, u, p, a),
                    [m \in {u, a} |-> IF m = a THEN u ELSE None], page # doc)

\* Edits, streamed parts of an answer, summaries; an error names the question.
\* It is late if the message, or the question, has gone.
Change(w, m, p) ==
    Begin(w, Upsert(m, Patch(p, Same)), Nothing,
          m \notin Ids(doc) \/ p \notin {Same, doc.msgs[m].parent})

\* Titles, tags, statuses: the document is read and written.
Retitle(w) == Begin(w, <<<<"read">>, <<"write">>>>, Nothing, FALSE)

Delete(w, m) == Begin(w, <<<<"read">>, <<"delete", m>>>>, Nothing, FALSE)

\* The client saves its page, with another current message or a new message.
Save(w, page) ==
    \/ \E m \in Ids(page) :
          Begin(w, <<<<"read">>, <<"merge", [page EXCEPT !.current = m]>>>>, Nothing, page # doc)
    \/ \E m \in Message, p \in Ids(page) :
          Begin(w, <<<<"read">>,
                     <<"merge", [msgs |-> With(page.msgs, m, [parent |-> p, children |-> {}]),
                                 current |-> m]>>>>, [x \in {m} |-> None], page # doc)

Compile(w) == Begin(w, <<<<"walk">>>>, Nothing, FALSE)

\* A second tab loads the chat.
Load ==
    /\ disturbed < MaxDisturbed
    /\ Busy = {} /\ Cardinality(spent) <= Crowd
    /\ tab' = doc
    /\ UNCHANGED <<doc, rows, job, asked, saved, dropped, disturbed>>

Crash ==
    /\ Busy # {} /\ Cardinality(spent) <= Crowd
    /\ disturbed < MaxDisturbed
    /\ disturbed' = disturbed + 1
    /\ job' = [w \in Worker |-> Idle]
    /\ tab' = IF disturbed' = MaxDisturbed THEN Empty ELSE tab
    /\ UNCHANGED <<doc, rows, asked, saved, dropped>>

Init ==
    /\ doc = Empty
    /\ rows = Nothing
    /\ tab = Empty
    /\ job = [w \in Worker |-> Idle]
    /\ asked = Nothing /\ saved = {} /\ dropped = {}
    /\ disturbed = 0

Call(w) ==
    \/ Read(w) \/ Write(w) \/ UpsertRow(w) \/ Link(w) \/ DeleteMessage(w)
    \/ SaveHistory(w) \/ BackfillRow(w) \/ DeleteRows(w) \/ Walk(w) \/ Heal(w)

Request(w) ==
    \/ \E u, a \in Message : NewChat(w, u, a)
    \/ \E u, a \in Message, page \in {doc, tab} : Ask(w, page, u, a)
    \/ \E m \in spent, p \in {Same} \cup spent :
          p \in {Same, asked[m]} /\ Change(w, m, p)
    \/ Retitle(w)
    \/ \E m \in spent : Delete(w, m)
    \/ \E page \in {doc, tab} : Save(w, page)
    \/ Compile(w)

Next ==
    \/ \E w \in Worker : Request(w) \/ (Call(w) /\ UNCHANGED disturbed)
    \/ Load
    \/ Crash

Spec == Init /\ [][Next]_vars

-----------------------------------------------------------------------------
(* Properties *)

\* The document and its copies map known ids to a parent and to children.
TypeOK ==
    LET Documents == {doc, tab} \cup {job[w].copy : w \in Worker}
    IN  /\ \A d \in Documents :
             /\ Ids(d) \subseteq spent
             /\ d.current \in Ids(d) \cup {None}
             /\ \A m \in Ids(d) : /\ d.msgs[m].parent \in spent \cup {None}
                                  /\ d.msgs[m].children \subseteq spent
        /\ DOMAIN rows \subseteq spent
        /\ \A m \in DOMAIN rows : rows[m] \in spent \cup {None}

\* While requests are alone and pages fresh: between two requests parents and
\* children agree, no reference dangles, the shown message exists, and the
\* rows hold exactly the messages of the document, with the same parents.
HistoryWhole ==
    /\ TypeOK
    /\ Busy = {} /\ disturbed = 0 =>
          /\ \A m \in Ids(doc) : doc.msgs[m].parent \in Ids(doc) \cup {None}
          /\ \A m \in Ids(doc) : doc.msgs[m].children = {c \in Ids(doc) : doc.msgs[c].parent = m}
          /\ Ids(doc) # {} => doc.current \in Ids(doc)
          /\ rows = [m \in Ids(doc) |-> doc.msgs[m].parent]

\* Whatever overlaps, and however stale the page a client saves: a message
\* once saved keeps its row unless some request deleted it.
\* ("without inferring deletes from missing IDs")
NothingLost == saved \subseteq DOMAIN rows \cup dropped

\* Following parents ends, in the document and in the rows: no sequence of
\* deletions and stale saves ties the tree into a loop, a set of messages that
\* following parents never leaves.
Parents(f) == [m \in DOMAIN f |-> f[m].parent]
Loops(parent) == {S \in SUBSET DOMAIN parent : S # {} /\ \A m \in S : parent[m] \in S}
NoLoop == Loops(Parents(doc.msgs)) = {} /\ Loops(rows) = {}
=============================================================================
