--------------------------- MODULE KnowledgeFiles ---------------------------
(***************************************************************************)
(* Files and the knowledge bases they are searched in.                     *)
(*                                                                         *)
(* What a file is lives in three places that no transaction spans: its row *)
(* (models/files.py), its links to knowledge bases (models/knowledge.py)   *)
(* and its chunks in the vector database: a collection of its own, and one *)
(* per knowledge base.  process_file (routers/retrieval.py) reads some of  *)
(* them and writes the others; uploading, editing, adding, updating,       *)
(* removing and deleting a file (routers/files.py, routers/knowledge.py)   *)
(* are calls around it.                                                    *)
(*                                                                         *)
(* A request is a job with a program counter, one step per await on the    *)
(* database or on the vector database, so requests interleave between any  *)
(* two, and a process may die with all its jobs.  Any call on the vector   *)
(* database may fail; what its driver (dbs/chroma.py) or the caller makes  *)
(* of that is an action of its own.  The chunks that one call inserts for  *)
(* a file are one chunk, whose hash is its content.  The deployment is one *)
(* whose database enforces foreign keys, with embedding on.                *)
(***************************************************************************)
EXTENDS Naturals, FiniteSets

CONSTANTS
    File, Base, Content,
    Worker,        \* requests that may be in progress
    Own,           \* stands for the collection file-<id> of the file at hand
    None,
    Traffic,       \* the amounts of requests, of overlaps and crashes, and of failures
                   \* of the vector database, looked at
    MaxLinked      \* bound: how many links there are at first

ASSUME KnowledgeAssumption ==
    /\ Own \notin Base
    /\ File \cap Base = {}
    /\ None \notin Content \cup Base \cup File
    /\ Traffic \subseteq [requests : Nat, disturbances : Nat, faults : Nat]
    /\ MaxLinked \in Nat

VARIABLES
    files,      \* file -> its row, or why there is none
    linked,     \* the knowledge_file table: pairs of base and file
    chunks,     \* what the vector database holds
    job,        \* worker -> the request it is running
    traffic,    \* what may still happen
    together,   \* history: the sets of files whose requests have overlapped
    lost,       \* history: files whose request died
    troubled,   \* history: <<base, file>> that failed to be indexed again
    shorn,      \* history: <<base, file>> that lost chunks by their hash
    kept,       \* history: <<collection, file>> with chunks that were to go, or
                \* to be inserted whole
    unchecked   \* history: <<base, file>> inserted without a look at duplicates

store   == <<files, linked, chunks>>
history == <<together, lost>>
excused == <<troubled, shorn, kept, unchecked>>
vars    == <<store, job, traffic, history, excused>>

Row(status, content, hash) == [status |-> status, content |-> content, hash |-> hash]
Missing(why) == Row(why, None, None)
Exists(f) == files[f].status \in {"pending", "completed", "failed"}

Chunks(k, f) == {c \in chunks : c.in = k /\ c.file = f}
\* Where the collection k of a file is: its own, or a base's.
Place(k, f) == IF k = Own THEN f ELSE k

Idle == [pc |-> "idle", kind |-> "none", file |-> None, base |-> None,
         given |-> None, source |-> None, text |-> None, docs |-> {}, old |-> {},
         left |-> {}, plan |-> {}, hash |-> None, ask |-> None, whole |-> FALSE]

Busy == {w \in Worker : job[w] # Idle}
At(w, pc) == job[w].pc = pc
Go(w, j) == job' = [job EXCEPT ![w] = IF j.pc = "done" THEN Idle ELSE j]
Then(w, pc) == Go(w, [job[w] EXCEPT !.pc = pc])
\* process_file ends, and its caller goes on at pc.
Return(w, pc) == Go(w, [job[w] EXCEPT !.pc = pc, !.given = None, !.text = None, !.docs = {}])

\* The files a request is about.
About(j) == IF j.kind = "batch" THEN {p[2] : p \in j.plan}
            ELSE IF j.kind \in {"reset", "reindex"} THEN File ELSE {j.file}

\* A new insert is told from those still stored and those still remembered.
Fresh ==
    LET known == {c.id : c \in chunks} \cup UNION {job[w].old : w \in Worker}
    IN  CHOOSE n \in 1..(Cardinality(known) + 1) : n \notin known

-----------------------------------------------------------------------------
(* process_file *)

\* A call of process_file into collection k, with content given or None.
Process(j, k, given) == [j EXCEPT !.pc = "read", !.base = k, !.given = given]

\* What the caller does when process_file has returned (ok) or raised.
After(j, ok) ==
    CASE j.kind = "edit" /\ j.base # Own -> IF ok /\ j.old # {} THEN "drop" ELSE "next"
      [] j.kind = "edit" /\ j.base = Own -> "bases"
      [] j.kind = "reindex"              -> "next"
      [] j.kind = "add"    /\ ok         -> "link"
      [] j.kind = "upload" /\ j.base = Own /\ ~ok -> "mark"
      [] j.kind = "upload" /\ j.base = Own /\ ok /\ j.ask # None -> "link"
      [] OTHER -> "done"

\* Files.get_file_by_id; a file that has gone is an error that changes nothing.
Read(w) ==
    LET j == job[w] IN
    /\ At(w, "read")
    /\ IF Exists(j.file)
       THEN Go(w, [j EXCEPT !.pc = "gather", !.text = files[j.file].content])
       ELSE Return(w, After(j, FALSE))
    /\ UNCHANGED <<store, excused>>

\* The documents: the content given, which first deletes the file's own
\* collection; or for a base the file's own chunks, else the content of its
\* row; or what the loader makes of the stored file, whatever the file's own
\* collection holds.
Gather(w) ==
    LET j == job[w]
        own == {c.content : c \in Chunks(j.file, j.file)}
    IN
    /\ At(w, "gather")
    /\ \/ /\ j.given # None
          /\ chunks' = chunks \ Chunks(j.file, j.file)
          /\ kept' = kept \ {<<j.file, j.file>>}
          /\ Go(w, [j EXCEPT !.pc = "write", !.docs = {j.given}, !.text = j.given])
       \/ /\ j.given = None /\ j.base # Own
          /\ Go(w, [j EXCEPT !.pc = "write",
                             !.docs = IF own # {} THEN own ELSE {j.text} \ {None}])
          /\ UNCHANGED <<chunks, kept>>
       \/ /\ j.given = None /\ j.base = Own
          /\ \/ /\ Go(w, [j EXCEPT !.pc = "write", !.docs = {j.source}, !.text = j.source])
                /\ kept' = IF own \subseteq {j.source} THEN kept
                           ELSE kept \cup {<<j.file, j.file>>}
             \/ Then(w, "fail") /\ UNCHANGED kept
          /\ UNCHANGED chunks
    /\ UNCHANGED <<files, linked, troubled, shorn, unchecked>>

\* delete_collection raises, which is passed over: the old chunks stay.
GatherOverOld(w) ==
    LET j == job[w] IN
    /\ At(w, "gather")
    /\ j.given # None /\ Chunks(j.file, j.file) # {}
    /\ kept' = kept \cup {<<j.file, j.file>>}
    /\ Go(w, [j EXCEPT !.pc = "write", !.docs = {j.given}, !.text = j.given])
    /\ UNCHANGED <<store, troubled, shorn, unchecked>>

\* query returns nothing: the row is used though there are chunks.
GatherBlind(w) ==
    LET j == job[w] IN
    /\ At(w, "gather")
    /\ j.given = None /\ j.base # Own
    /\ Go(w, [j EXCEPT !.pc = "write", !.docs = {j.text} \ {None}])
    /\ UNCHANGED <<store, excused>>

\* The row gets the content of which the chunks are made.
Write(w) ==
    LET j == job[w] IN
    /\ At(w, "write")
    /\ files' = IF Exists(j.file) THEN [files EXCEPT ![j.file].content = j.text] ELSE files
    /\ Then(w, "check")
    /\ UNCHANGED <<linked, chunks, excused>>

\* Mutant: nobody asks whether the content is there already.
TakenByNone(j) == {}

\* The files that the collection already has this content from.
Taken(j) == {c.file : c \in {d \in chunks : /\ d.in = Place(j.base, j.file)
                                            /\ d.hash = j.text /\ j.text # None}}

\* Where a job goes with documents it may insert: a file whose own collection
\* exists is not inserted again.
Admitted(j) == IF j.base = Own /\ Chunks(j.file, j.file) # {} THEN "record" ELSE "insert"

\* save_docs_to_vector_db up to the embedding: content another file brought in
\* is refused (the first chunk found decides), as are empty documents.
Check(w) ==
    LET j == job[w] IN
    /\ At(w, "check")
    /\ \/ /\ Taken(j) \ {j.file} # {} \/ j.docs = {}
          /\ Then(w, "fail")
       \/ /\ Taken(j) = {} \/ j.file \in Taken(j)
          /\ j.docs # {}
          /\ Then(w, Admitted(j))
    /\ UNCHANGED <<store, excused>>

\* query returns nothing, so nothing is refused.
CheckBlind(w) ==
    LET j == job[w] IN
    /\ At(w, "check")
    /\ j.docs # {}
    /\ Then(w, Admitted(j))
    /\ unchecked' = unchecked \cup {<<Place(j.base, j.file), j.file>>}
    /\ UNCHANGED <<store, troubled, shorn, kept>>

\* has_collection raises.
CheckFails(w) ==
    /\ At(w, "check")
    /\ Then(w, "fail")
    /\ UNCHANGED <<store, excused>>

\* The chunks made of a job's documents
Made(j) == {[id |-> Fresh, in |-> Place(j.base, j.file), file |-> j.file,
             content |-> x, hash |-> j.text] : x \in j.docs}

\* Embedding, which may fail, and the insert
Insert(w) ==
    LET j == job[w] IN
    /\ At(w, "insert")
    /\ \/ /\ chunks' = chunks \cup Made(j)
          /\ Then(w, "record")
       \/ /\ Then(w, "fail")
          /\ UNCHANGED chunks
    /\ UNCHANGED <<files, linked, excused>>

\* insert goes batch by batch, and one of them raises: the others stay.
InsertPart(w) ==
    LET j == job[w] IN
    /\ At(w, "insert")
    /\ chunks' = chunks \cup Made(j)
    /\ kept' = kept \cup {<<Place(j.base, j.file), j.file>>}
    /\ Then(w, "fail")
    /\ UNCHANGED <<files, linked, troubled, shorn, unchecked>>

\* Status and hash, in a session of their own
Record(w) ==
    LET j == job[w] IN
    /\ At(w, "record")
    /\ files' = IF Exists(j.file)
                THEN [files EXCEPT ![j.file] = [@ EXCEPT !.status = "completed",
                                                         !.hash = j.text]]
                ELSE files
    /\ Return(w, After(j, TRUE))
    /\ UNCHANGED <<linked, chunks, excused>>

\* The except clause: failed, and the hash cleared for another upload
Fail(w) ==
    LET j == job[w] IN
    /\ At(w, "fail")
    /\ files' = IF Exists(j.file)
                THEN [files EXCEPT ![j.file] = [@ EXCEPT !.status = "failed",
                                                         !.hash = None]]
                ELSE files
    /\ troubled' = troubled \cup ({<<j.base, j.file>>} \ {<<Own, j.file>>})
    /\ Return(w, After(j, FALSE))
    /\ UNCHANGED <<linked, chunks, shorn, kept, unchecked>>

-----------------------------------------------------------------------------
(* The calls around it *)

\* process_uploaded_file: the handler's own except clause
Mark(w) ==
    LET j == job[w] IN
    /\ At(w, "mark")
    /\ files' = IF Exists(j.file) THEN [files EXCEPT ![j.file].status = "failed"] ELSE files
    /\ Then(w, "done")
    /\ UNCHANGED <<linked, chunks, excused>>

\* Mutant: nothing is said of a video that is kept as it is.
KeepMediaSilently(w) ==
    LET j == job[w] IN
    /\ At(w, "media")
    /\ Then(w, IF j.ask # None THEN "link" ELSE "done")
    /\ UNCHANGED <<store, excused>>

\* A video is kept as it is.
KeepMedia(w) ==
    LET j == job[w] IN
    /\ At(w, "media")
    /\ files' = IF Exists(j.file) THEN [files EXCEPT ![j.file].status = "completed"] ELSE files
    /\ Then(w, IF j.ask # None THEN "link" ELSE "done")
    /\ UNCHANGED <<linked, chunks, excused>>

\* add_file_to_knowledge_by_id: fails silently on a link that exists already,
\* and on a file that does not exist any more.  An upload links first and
\* processes afterwards.
Link(w) ==
    LET j == job[w]
        k == IF j.kind = "upload" THEN j.ask ELSE j.base
    IN
    /\ At(w, "link")
    /\ linked' = IF Exists(j.file) THEN linked \cup {<<k, j.file>>} ELSE linked
    /\ Go(w, IF j.kind = "upload" THEN Process(j, k, None) ELSE [j EXCEPT !.pc = "done"])
    /\ UNCHANGED <<files, chunks, excused>>

\* Mutant: an edit reaches no knowledge base.
BasesUntouched(w) ==
    LET j == job[w] IN
    /\ At(w, "bases")
    /\ Go(w, [j EXCEPT !.pc = "next",
                       !.left = IF j.kind = "edit" THEN {}
                                ELSE {k \in Base : <<k, j.file>> \in linked}])
    /\ UNCHANGED <<store, excused>>

\* get_knowledges_by_file_id, for an edit and for a deletion
Bases(w) ==
    LET j == job[w] IN
    /\ At(w, "bases")
    /\ Go(w, [j EXCEPT !.pc = "next",
                       !.left = {k \in Base : <<k, j.file>> \in linked}])
    /\ UNCHANGED <<store, excused>>

\* The next base of an edit (its old chunks are looked up first), of a
\* deletion, or the next file or base of a reindexing; or the end of the loop.
Turn(w) ==
    LET j == job[w] IN
    /\ At(w, "next")
    /\ \/ /\ j.kind \in {"edit", "delete"}
          /\ \E k \in j.left :
                Go(w, [j EXCEPT !.pc = IF j.kind = "edit" THEN "find" ELSE "unlink",
                                !.base = k, !.left = @ \ {k}])
       \/ /\ j.kind = "reindex"
          /\ \E p \in j.plan :
                /\ p[1] = j.base
                /\ Go(w, [Process(j, p[1], None) EXCEPT !.file = p[2],
                                                        !.plan = @ \ {p}])
       \/ /\ j.kind = "reindex"
          /\ \A p \in j.plan : p[1] # j.base
          /\ \E k \in j.left : Go(w, [j EXCEPT !.pc = "empty", !.base = k,
                                               !.left = @ \ {k}])
       \/ /\ j.left = {} /\ j.plan = {}
          /\ Then(w, IF j.kind = "delete" THEN "droprow" ELSE "done")
    /\ UNCHANGED <<store, excused>>

\* Mutant: an edit deletes the old chunks before the file is added again.
FindAndDrop(w) ==
    LET j == job[w] IN
    /\ At(w, "find")
    /\ Go(w, Process(j, j.base, None))
    /\ chunks' = chunks \ Chunks(j.base, j.file)
    /\ UNCHANGED <<files, linked, excused>>

\* An edit: the chunks of the file in the base before it is added again
Find(w) ==
    LET j == job[w] IN
    /\ At(w, "find")
    /\ Go(w, [Process(j, j.base, None) EXCEPT
                !.old = {c.id : c \in Chunks(j.base, j.file)}])
    /\ UNCHANGED <<store, excused>>

\* query returns nothing: no chunk is going to be deleted.
FindBlind(w) ==
    LET j == job[w] IN
    /\ At(w, "find")
    /\ kept' = IF Chunks(j.base, j.file) = {} THEN kept ELSE kept \cup {<<j.base, j.file>>}
    /\ Go(w, [Process(j, j.base, None) EXCEPT !.old = {}])
    /\ UNCHANGED <<store, troubled, shorn, unchecked>>

\* ... which are deleted, by id, after it has been
Drop(w) ==
    LET j == job[w] IN
    /\ At(w, "drop")
    /\ chunks' = chunks \ {c \in Chunks(j.base, j.file) : c.id \in j.old}
    /\ Go(w, [j EXCEPT !.pc = "next", !.old = {}])
    /\ UNCHANGED <<files, linked, excused>>

\* delete passes over what fails: they stay beside the new ones.
DropFails(w) ==
    LET j == job[w] IN
    /\ At(w, "drop")
    /\ kept' = kept \cup {<<j.base, j.file>>}
    /\ Go(w, [j EXCEPT !.pc = "next", !.old = {}])
    /\ UNCHANGED <<store, troubled, shorn, unchecked>>

\* remove_file_from_knowledge_by_id
Unlink(w) ==
    LET j == job[w] IN
    /\ At(w, "unlink")
    /\ linked' = linked \ {<<j.base, j.file>>}
    /\ Then(w, "purge")
    /\ UNCHANGED <<files, chunks, excused>>

\* Mutant: the chunks of the file are left, but for those with its hash.
PurgeNone(w) ==
    LET j == job[w] IN
    /\ At(w, "purge")
    /\ troubled' = troubled \ {<<j.base, j.file>>}
    /\ shorn' = shorn \ {<<j.base, j.file>>}
    /\ kept' = kept \ {<<j.base, j.file>>}
    /\ Go(w, IF j.kind = "update" THEN Process(j, j.base, None)
             ELSE [j EXCEPT !.pc = "purgehash"])
    /\ UNCHANGED <<store, unchecked>>

\* The chunks of the file are deleted from the base, by its id ...
Purge(w) ==
    LET j == job[w] IN
    /\ At(w, "purge")
    /\ chunks' = chunks \ Chunks(j.base, j.file)
    /\ troubled' = troubled \ {<<j.base, j.file>>}
    /\ shorn' = shorn \ {<<j.base, j.file>>}
    /\ kept' = kept \ {<<j.base, j.file>>}
    /\ Go(w, IF j.kind = "update" THEN Process(j, j.base, None)
             ELSE [j EXCEPT !.pc = "purgehash"])
    /\ UNCHANGED <<files, linked, unchecked>>

\* delete passes over what fails, and the request goes on.
PurgeFails(w) ==
    LET j == job[w] IN
    /\ At(w, "purge")
    /\ kept' = kept \cup {<<j.base, j.file>>}
    /\ Go(w, IF j.kind = "update" THEN Process(j, j.base, None)
             ELSE [j EXCEPT !.pc = "purgehash"])
    /\ UNCHANGED <<store, troubled, shorn, unchecked>>

AfterPurge(j) == IF j.kind = "delete" THEN "next" ELSE IF j.whole THEN "dropown" ELSE "done"

\* ... and by the hash its row had when the request began, whosesoever they are
PurgeHash(w) ==
    LET j    == job[w]
        gone == {c \in chunks : c.in = j.base /\ c.hash = j.hash /\ j.hash # None}
    IN
    /\ At(w, "purgehash")
    /\ chunks' = chunks \ gone
    /\ shorn' = shorn \cup {<<j.base, c.file>> : c \in gone}
    /\ Then(w, AfterPurge(j))
    /\ UNCHANGED <<files, linked, troubled, kept, unchecked>>

PurgeHashFails(w) ==
    /\ At(w, "purgehash")
    /\ Then(w, AfterPurge(job[w]))
    /\ UNCHANGED <<store, excused>>

\* remove_file_from_knowledge_by_id and sync_knowledge_cleanup delete the
\* file's own collection; delete_file_by_id asks for the deletion of no chunk
\* of it, which deletes none.  sync_knowledge_cleanup leaves the row to a user
\* who does not own the file.
DropOwn(w) ==
    LET j == job[w] IN
    /\ At(w, "dropown")
    /\ chunks' = chunks \ Chunks(j.file, j.file)
    /\ Then(w, "droprow") \/ Then(w, "done")
    /\ UNCHANGED <<files, linked, excused>>

DropOwnFails(w) ==
    /\ At(w, "dropown")
    /\ Then(w, "droprow") \/ Then(w, "done")
    /\ UNCHANGED <<store, excused>>

\* Files.delete_file_by_id; the links go with the row.
DropRow(w) ==
    LET j == job[w] IN
    /\ At(w, "droprow")
    /\ files' = IF Exists(j.file)
                THEN [files EXCEPT ![j.file] = Missing(IF j.kind = "delete" THEN "deleted"
                                                                            ELSE "removed")]
                ELSE files
    /\ linked' = {p \in linked : p[2] # j.file}
    /\ Then(w, "done")
    /\ UNCHANGED <<chunks, excused>>

\* delete_collection of a base, for a reset and for a reindexing
Empty(w) ==
    LET j == job[w] IN
    /\ At(w, "empty")
    /\ chunks' = {c \in chunks : c.in # j.base}
    /\ troubled' = {p \in troubled : p[1] # j.base}
    /\ shorn' = {p \in shorn : p[1] # j.base}
    /\ kept' = {p \in kept : p[1] # j.base}
    /\ Then(w, IF j.kind = "reset" THEN "unlinkall" ELSE "next")
    /\ UNCHANGED <<files, linked, unchecked>>

\* It raises: a reset goes on, and a reindexing leaves the base as it was.
EmptyFails(w) ==
    LET j == job[w] IN
    /\ At(w, "empty")
    /\ \/ /\ j.kind = "reset"
          /\ kept' = kept \cup {<<j.base, c.file>> : c \in {d \in chunks : d.in = j.base}}
          /\ Then(w, "unlinkall")
       \/ /\ j.kind = "reindex"
          /\ Go(w, [j EXCEPT !.pc = "next", !.plan = {p \in @ : p[1] # j.base}])
          /\ UNCHANGED kept
    /\ UNCHANGED <<store, troubled, shorn, unchecked>>

\* reset_knowledge_by_id
UnlinkAll(w) ==
    LET j == job[w] IN
    /\ At(w, "unlinkall")
    /\ linked' = {p \in linked : p[1] # j.base}
    /\ Then(w, "done")
    /\ UNCHANGED <<files, chunks, excused>>

\* process_files_batch: all files in one insert, without hashes, so nothing is
\* refused; when it fails, no row and no link is written.
BatchInsert(w) ==
    LET j == job[w]
        new == {p \in j.plan : p[1] # None}
    IN
    /\ At(w, "batchinsert")
    /\ \/ /\ new # {}
          /\ chunks' = chunks \cup
               {[id |-> Fresh, in |-> j.base, file |-> p[2], content |-> p[1],
                 hash |-> None] : p \in new}
          /\ Go(w, [j EXCEPT !.pc = "batchrow", !.left = j.plan])
       \/ /\ Then(w, "done")
          /\ UNCHANGED chunks
    /\ UNCHANGED <<files, linked, excused>>

\* Some files' chunks are inserted before a batch raises.
BatchPart(w) ==
    LET j == job[w] IN
    /\ At(w, "batchinsert")
    /\ \E some \in SUBSET {p \in j.plan : p[1] # None} :
          /\ chunks' = chunks \cup
               {[id |-> Fresh, in |-> j.base, file |-> p[2], content |-> p[1],
                 hash |-> None] : p \in some}
          /\ kept' = kept \cup {<<j.base, p[2]>> : p \in some}
    /\ Then(w, "done")
    /\ UNCHANGED <<files, linked, troubled, shorn, unchecked>>

\* update_file_by_id: hash and content, not the status
BatchRow(w) ==
    LET j == job[w] IN
    /\ At(w, "batchrow")
    /\ \E p \in j.left :
          /\ files' = IF Exists(p[2])
                      THEN [files EXCEPT ![p[2]] = [@ EXCEPT !.content = p[1], !.hash = p[1]]]
                      ELSE files
          /\ Go(w, [j EXCEPT !.left = IF @ = {p} THEN j.plan ELSE @ \ {p},
                             !.pc = IF j.left = {p} THEN "batchlink" ELSE @])
    /\ UNCHANGED <<linked, chunks, excused>>

BatchLink(w) ==
    LET j == job[w] IN
    /\ At(w, "batchlink")
    /\ \E p \in j.left :
          /\ linked' = IF Exists(p[2]) THEN linked \cup {<<j.base, p[2]>>} ELSE linked
          /\ Go(w, [j EXCEPT !.left = @ \ {p}, !.pc = IF j.left = {p} THEN "done" ELSE @])
    /\ UNCHANGED <<files, chunks, excused>>

-----------------------------------------------------------------------------
(* Requests *)

\* Worker w takes request j; whose files are being worked on is remembered.
Start(w, j) ==
    /\ job[w] = Idle
    /\ traffic.requests > 0
    /\ Busy # {} => traffic.disturbances > 0
    /\ job' = [job EXCEPT ![w] = j]
    /\ traffic' = [traffic EXCEPT !.requests = @ - 1,
                                  !.disturbances = IF Busy = {} THEN @ ELSE @ - 1]
    /\ together' = together \cup
           UNION {{{f, g} : f \in About(j), g \in About(job[v])} : v \in Busy}
    /\ UNCHANGED <<linked, chunks, lost, excused>>

\* upload_file_handler inserts the row, pending, and leaves the rest to a
\* background task.
Upload(w) ==
    \E f \in File, k \in Base \cup {None} :
        /\ files[f].status = "unused"
        /\ files' = [files EXCEPT ![f] = Row("pending", None, None)]
        /\ \/ \E c \in Content :
                Start(w, [Process(Idle, Own, None) EXCEPT
                            !.kind = "upload", !.file = f, !.source = c, !.ask = k])
           \/ Start(w, [Idle EXCEPT !.pc = "media", !.kind = "upload", !.file = f, !.ask = k])

\* update_file_data_content_by_id.  An empty content is none to process_file,
\* which loads the stored file again: c is what the loader makes of it then.
Edit(w) ==
    \E f \in File, c \in Content :
        /\ Exists(f)
        /\ \/ Start(w, [Process(Idle, Own, c) EXCEPT !.kind = "edit", !.file = f])
           \/ Start(w, [Process(Idle, Own, None) EXCEPT !.kind = "edit", !.file = f,
                                                        !.source = c])
        /\ UNCHANGED files

\* add_file_to_knowledge_by_id, and update_file_from_knowledge_by_id for a
\* file that is linked
AddOrUpdate(w) ==
    \E f \in File, k \in Base :
        /\ Exists(f)
        /\ \/ Start(w, [Process(Idle, k, None) EXCEPT !.kind = "add", !.file = f])
           \/ /\ <<k, f>> \in linked
              /\ Start(w, [Idle EXCEPT !.pc = "purge", !.kind = "update",
                                       !.file = f, !.base = k])
        /\ UNCHANGED files

\* remove_file_from_knowledge_by_id, which deletes the file if asked to, and
\* sync_knowledge_cleanup, which always does, and does not ask for a link
Remove(w) ==
    \E f \in File, k \in Base, whole \in BOOLEAN :
        /\ Exists(f)
        /\ <<k, f>> \in linked \/ whole
        /\ Start(w, [Idle EXCEPT !.pc = "unlink", !.kind = "remove", !.file = f,
                                 !.base = k, !.hash = files[f].hash, !.whole = whole])
        /\ UNCHANGED files

\* delete_file_by_id of routers/files.py
Delete(w) ==
    \E f \in File :
        /\ Exists(f)
        /\ Start(w, [Idle EXCEPT !.pc = "bases", !.kind = "delete", !.file = f,
                                 !.hash = files[f].hash])
        /\ UNCHANGED files

\* add_files_to_knowledge_batch, of the files that are not linked yet
Batch(w) ==
    \E fs \in SUBSET File, k \in Base :
        LET new == {f \in fs : <<k, f>> \notin linked} IN
        /\ \A f \in fs : Exists(f)
        /\ new # {}
        /\ Start(w, [Idle EXCEPT !.pc = "batchinsert", !.kind = "batch", !.base = k,
                                 !.plan = {<<files[f].content, f>> : f \in new}])
        /\ UNCHANGED files

\* reset_knowledge_by_id and reindex_knowledge_files
ResetOrReindex(w) ==
    /\ \/ \E k \in Base :
            Start(w, [Idle EXCEPT !.pc = "empty", !.kind = "reset", !.base = k])
       \/ Start(w, [Idle EXCEPT !.pc = "next", !.kind = "reindex", !.left = Base,
                                !.plan = linked])
    /\ UNCHANGED files

\* The process dies with its requests; a restart takes none of them up again.
Crash ==
    /\ Busy # {}
    /\ traffic.disturbances > 0
    /\ traffic' = [traffic EXCEPT !.disturbances = @ - 1]
    /\ job' = [w \in Worker |-> Idle]
    /\ lost' = lost \cup UNION {About(job[w]) : w \in Busy}
    /\ UNCHANGED <<store, together, excused>>

-----------------------------------------------------------------------------
\* Some files have been uploaded, and some of them added to knowledge bases,
\* which refuse the same content twice.
Init ==
    \E start \in [File -> Content \cup {None}] :
        LET there  == {f \in File : start[f] # None}
            chunk(k, f) == [id |-> 0, in |-> k, file |-> f, content |-> start[f],
                            hash |-> start[f]]
        IN
        /\ files = [f \in File |-> IF f \in there THEN Row("completed", start[f], start[f])
                                                  ELSE Missing("unused")]
        /\ linked \in SUBSET (Base \X there)
        /\ Cardinality(linked) <= MaxLinked
        /\ \A p, q \in linked : p[1] = q[1] /\ start[p[2]] = start[q[2]] => p = q
        /\ chunks = {chunk(f, f) : f \in there} \cup {chunk(p[1], p[2]) : p \in linked}
        /\ job = [w \in Worker |-> Idle]
        /\ traffic \in Traffic
        /\ together = {} /\ lost = {}
        /\ troubled = {} /\ shorn = {} /\ kept = {} /\ unchecked = {}

Asks(w) == \/ Upload(w) \/ Edit(w) \/ AddOrUpdate(w) \/ Remove(w) \/ Delete(w)
           \/ Batch(w) \/ ResetOrReindex(w)

\* A step of a request that goes as it should, or that raises and says so ...
Works(w) ==
    \/ Read(w) \/ Gather(w) \/ Write(w) \/ Check(w) \/ Insert(w) \/ Record(w) \/ Fail(w)
    \/ Mark(w) \/ KeepMedia(w) \/ Link(w) \/ Bases(w) \/ Turn(w) \/ Find(w) \/ Drop(w)
    \/ Unlink(w) \/ Purge(w) \/ PurgeHash(w) \/ DropOwn(w) \/ DropRow(w)
    \/ Empty(w) \/ UnlinkAll(w) \/ BatchInsert(w) \/ BatchRow(w) \/ BatchLink(w)

\* ... or in which the vector database fails
Falters(w) ==
    \/ GatherOverOld(w) \/ GatherBlind(w) \/ CheckBlind(w) \/ CheckFails(w)
    \/ InsertPart(w) \/ FindBlind(w) \/ DropFails(w) \/ PurgeFails(w)
    \/ PurgeHashFails(w) \/ DropOwnFails(w) \/ EmptyFails(w) \/ BatchPart(w)

Step(w) ==
    /\ \/ Works(w) /\ UNCHANGED traffic
       \/ /\ Falters(w)
          /\ traffic.faults > 0
          /\ traffic' = [traffic EXCEPT !.faults = @ - 1]
    /\ UNCHANGED history

Next == Crash \/ \E w \in Worker : Asks(w) \/ Step(w)

Spec == Init /\ [][Next]_vars

-----------------------------------------------------------------------------
(* Properties *)

TypeOK ==
    /\ files \in [File -> [status : {"unused", "pending", "completed", "failed",
                                    "deleted", "removed"},
                          content : Content \cup {None}, hash : Content \cup {None}]]
    /\ linked \subseteq Base \X {f \in File : Exists(f)}
    /\ \A c \in chunks : /\ c.in \in Base \cup {c.file}
                         /\ c.content \in Content

Quiet(f) == \A w \in Worker : f \notin About(job[w])
\* No two requests worked on the file at the same time, and none of them died.
Alone(f) == {f} \notin together /\ f \notin lost
Contents(k, f) == {c.content : c \in Chunks(k, f)}

\* When nobody works on a file, what is found of it is its content, all of it
\* and nothing older, in every base it is linked to; and its own collection,
\* from which it will be added to others, holds nothing else.  Left out are a
\* base in which indexing it has failed, or from which another file of the same
\* content was removed (that deletes by hash), and a collection that kept
\* chunks because the vector database failed.  An edit with an empty content
\* leaves the file's own collection as it was beside a row loaded anew: then no
\* base is right until the next edit.
\* (process_file, update_file_data_content_by_id: "Without this the old
\* embeddings remain ... and RAG returns both stale and current data")
Searchable ==
    /\ TypeOK
    /\ \A f \in File : Exists(f) /\ Quiet(f) /\ Alone(f) /\ <<f, f>> \notin kept =>
          /\ Contents(f, f) \subseteq {files[f].content}
          /\ \A k \in Base : <<k, f>> \in linked \ (troubled \cup shorn \cup kept) =>
                Contents(k, f) = {files[f].content} \ {None}

\* A file that has been taken out of a base, or deleted, is not found there any
\* more, though every call that deletes or inserts may fail and be passed over:
\* what stays then is on record in `kept', and goes with the next deletion
\* that succeeds.  Left out is a file deleted while it was removed from another
\* base.  (remove_file_from_knowledge_by_id, delete_file_by_id)
Forgotten ==
    \A f \in File, k \in Base :
        /\ <<k, f>> \notin linked \cup kept
        /\ files[f].status # "removed"
        /\ Quiet(f) /\ Alone(f)
        => Chunks(k, f) = {}

\* "so a failed reindex keeps the KB usable": however edits, additions and
\* uploads of a file interleave and fail, none of them takes the last of its
\* chunks out of a base; only a request that removes, deletes, updates, resets
\* or reindexes does.  Again files that lost chunks by their hash are left out.
KeptUsable ==
    [][\A k \in Base, f \in File :
          Chunks(k, f) # {} /\ Chunks(k, f)' = {} /\ <<k, f>> \notin shorn =>
             \E w \in Worker : /\ job'[w] # job[w]
                               /\ job[w].kind \in {"remove", "delete", "update",
                                                   "reset", "reindex"}]_vars

\* "If different file_id, this is a duplicate - block it": a base has the same
\* content from two files only if their requests overlapped, the query for
\* duplicates failed, or one of them came in a batch.
NoDuplicates ==
    \A c, d \in chunks :
        c.in = d.in /\ c.hash = d.hash /\ c.hash # None /\ c.file # d.file =>
            \/ {c.file, d.file} \in together
            \/ <<c.in, c.file>> \in unchecked \/ <<c.in, d.file>> \in unchecked

\* A file is shown as being processed only while it is: every way out of the
\* background task reports an end, unless the process dies.
\* (process_uploaded_file, get_pending_files_for_knowledge)
StillProcessed ==
    \A f \in File : Exists(f) /\ f \notin lost /\ files[f].status = "pending" =>
        \E w \in Worker : job[w].kind = "upload" /\ job[w].file = f

=============================================================================
