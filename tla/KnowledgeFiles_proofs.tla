------------------------- MODULE KnowledgeFiles_proofs -------------------------
(***************************************************************************)
(* What files and knowledge bases promise, for any number of files, bases, *)
(* contents, requests, overlaps and crashes: a file that is shown as being *)
(* processed is being processed; what is searched is the present content of*)
(* what is linked, all of it and nothing else; what was taken out is not   *)
(* found; and a request that fails does not take the last of a file's      *)
(* chunks out of a base.                                                   *)
(***************************************************************************)
EXTENDS KnowledgeFiles, FiniteSetTheorems, TLAPS

-----------------------------------------------------------------------------
(* The inductive invariant *)

Shaped(j) == {"pc", "kind", "file", "base", "given", "source", "text", "docs", "old",
              "left", "plan", "hash", "ask", "whole"} \subseteq DOMAIN j

\* Where the background task of an upload has yet to write an end
Owing(j) ==
    /\ j.kind = "upload"
    /\ \/ /\ j.pc \in {"read", "gather", "write", "check", "insert", "record", "fail"}
          /\ j.base = Own
       \/ j.pc \in {"mark", "media"}

Shapes ==
    /\ files = [f \in File |-> files[f]] /\ \A f \in File : "status" \in DOMAIN files[f]
    /\ job = [w \in Worker |-> job[w]] /\ \A w \in Worker : Shaped(job[w])

Ends == \A f \in File : files[f].status = "pending" /\ f \notin lost =>
            \E w \in Worker : Owing(job[w]) /\ job[w].file = f

PendingInv == Shapes /\ Ends

LEMMA IdleShaped == Shaped(Idle) /\ Idle.pc = "idle" /\ Idle.kind = "none"
BY DEF Shaped, Idle

LEMMA InitPending == Init => PendingInv
<1> SUFFICES ASSUME Init PROVE PendingInv
  OBVIOUS
<1>1. PICK start \in [File -> Content \cup {None}] :
        files = [f \in File |-> IF f \in {g \in File : start[g] # None}
                                THEN Row("completed", start[f], start[f])
                                ELSE Missing("unused")]
  BY DEF Init
<1>2. \A f \in File : "status" \in DOMAIN files[f] /\ files[f].status # "pending"
  BY <1>1 DEF Row, Missing
<1>3. Shapes
  BY <1>1, <1>2, IdleShaped DEF Init, Shapes
<1> QED BY <1>2, <1>3 DEF PendingInv, Ends

-----------------------------------------------------------------------------
(* One step of a request *)

\* The steps, each with the ways in which the vector database may fail in it
Gathers(w)      == Gather(w) \/ GatherOverOld(w) \/ GatherBlind(w)
Checks(w)       == Check(w) \/ CheckBlind(w) \/ CheckFails(w)
Inserts(w)      == Insert(w) \/ InsertPart(w)
Finds(w)        == Find(w) \/ FindBlind(w)
Drops(w)        == Drop(w) \/ DropFails(w)
Purges(w)       == Purge(w) \/ PurgeFails(w)
HashPurges(w)   == PurgeHash(w) \/ PurgeHashFails(w)
OwnDrops(w)     == DropOwn(w) \/ DropOwnFails(w)
Empties(w)      == Empty(w) \/ EmptyFails(w)
BatchInserts(w) == BatchInsert(w) \/ BatchPart(w)

LEMMA StepIs ==
    ASSUME NEW w \in Worker, Step(w)
    PROVE  /\ UNCHANGED history
           /\ \/ Read(w) \/ Gathers(w) \/ Write(w) \/ Checks(w) \/ Inserts(w)
              \/ Record(w) \/ Fail(w) \/ Mark(w) \/ KeepMedia(w) \/ Link(w) \/ Bases(w)
              \/ Turn(w) \/ Finds(w) \/ Drops(w) \/ Unlink(w) \/ Purges(w)
              \/ HashPurges(w) \/ OwnDrops(w) \/ DropRow(w) \/ Empties(w)
              \/ UnlinkAll(w) \/ BatchInserts(w) \/ BatchRow(w) \/ BatchLink(w)
BY DEF Step, Works, Falters, Gathers, Checks, Inserts, Finds, Drops, Purges, HashPurges,
       OwnDrops, Empties, BatchInserts

\* No file becomes pending.
StatusesStay ==
    /\ files' = [f \in File |-> files'[f]]
    /\ \A f \in File : /\ "status" \in DOMAIN files'[f]
                       /\ files'[f].status = "pending" => files[f].status = "pending"

\* What the request has to do next is all there is to show: if it owed an end
\* to a file that is still pending, it goes on owing it.
LEMMA RequestStep ==
    ASSUME PendingInv, NEW w \in Worker, NEW next, Shaped(next), Go(w, next),
           StatusesStay, UNCHANGED lost,
           \A f \in File : /\ Owing(job[w]) /\ job[w].file = f
                           /\ files'[f].status = "pending"
                           => Owing(next) /\ next.file = f
    PROVE  PendingInv'
<1>1. /\ job' = [v \in Worker |-> job'[v]]
      /\ \A v \in Worker : v # w => job'[v] = job[v]
      /\ job'[w] = IF next.pc = "done" THEN Idle ELSE next
  BY DEF Go, PendingInv, Shapes
<1>2. next.pc # "done" => job'[w] = next
  BY <1>1
<1>3. Shaped(job'[w])
  BY <1>1, IdleShaped
<1>4. Shapes'
  BY <1>1, <1>3 DEF PendingInv, Shapes, StatusesStay
<1>5. ASSUME NEW f \in File, files'[f].status = "pending", f \notin lost
      PROVE  \E v \in Worker : Owing(job'[v]) /\ job'[v].file = f
  <2>1. PICK v \in Worker : Owing(job[v]) /\ job[v].file = f
    BY <1>5 DEF PendingInv, Ends, StatusesStay
  <2>2. CASE v # w
    BY <1>1, <2>1, <2>2
  <2>3. CASE v = w
    <3>1. Owing(next) /\ next.file = f
      BY <1>5, <2>1, <2>3
    <3>2. next.pc # "done"
      BY <3>1 DEF Owing
    <3> QED BY <1>2, <3>1, <3>2
  <2> QED BY <2>2, <2>3
<1> QED BY <1>4, <1>5 DEF PendingInv, Ends

\* A request that owes nothing may do whatever it likes but make a file pending.
LEMMA OtherStep ==
    ASSUME PendingInv, NEW w \in Worker, NEW next, Shaped(next), Go(w, next),
           StatusesStay, UNCHANGED lost, ~Owing(job[w])
    PROVE  PendingInv'
BY RequestStep

LEMMA SameStatuses ==
    ASSUME PendingInv, UNCHANGED files
    PROVE  StatusesStay
BY DEF PendingInv, Shapes, StatusesStay

\* An end written to the row of a file that exists
LEMMA StatusWritten ==
    ASSUME PendingInv, NEW f, NEW r, "status" \in DOMAIN r, r.status # "pending",
           files' = IF Exists(f) THEN [files EXCEPT ![f] = r] ELSE files
    PROVE  /\ StatusesStay
           /\ f \in File => files'[f].status # "pending"
<1>1. CASE Exists(f)
  <2>1. files' = [files EXCEPT ![f] = r]
    BY <1>1
  <2> QED BY <2>1 DEF PendingInv, Shapes, StatusesStay
<1>2. CASE ~Exists(f)
  <2>1. files' = files
    BY <1>2
  <2> QED BY <1>2, <2>1, SameStatuses DEF Exists
<1> QED BY <1>1, <1>2

\* Content and hash written to the row of a file
LEMMA StatusKept ==
    ASSUME PendingInv, NEW f, NEW r,
           f \in File => "status" \in DOMAIN r /\ r.status = files[f].status,
           files' = IF Exists(f) THEN [files EXCEPT ![f] = r] ELSE files
    PROVE  StatusesStay
<1>1. CASE Exists(f)
  <2>1. files' = [files EXCEPT ![f] = r]
    BY <1>1
  <2> QED BY <2>1 DEF PendingInv, Shapes, StatusesStay
<1>2. CASE ~Exists(f)
  BY <1>2, SameStatuses
<1> QED BY <1>1, <1>2

\* process_file, and the end of the background task
LEMMA ProcessingKeeps ==
    ASSUME PendingInv, NEW w \in Worker, UNCHANGED lost,
           \/ Read(w) \/ Gathers(w) \/ Write(w) \/ Checks(w) \/ Inserts(w)
           \/ Record(w) \/ Fail(w) \/ Mark(w) \/ KeepMedia(w)
    PROVE  PendingInv'
<1> DEFINE j == job[w]
<1>0. Shaped(j)
  BY DEF PendingInv, Shapes
<1>00. \A f \in File : "status" \in DOMAIN files[f]
  BY DEF PendingInv, Shapes
\* Steps to another step that owes the same
<1>1. ASSUME NEW next, Go(w, next), StatusesStay, Shaped(next),
             next.kind = j.kind, next.file = j.file, next.base = j.base,
             next.pc \in {"gather", "write", "check", "insert", "record", "fail"},
             j.pc \notin {"mark", "media"}
      PROVE  PendingInv'
  <2>1. Owing(j) => Owing(next)
    BY <1>1 DEF Owing
  <2> QED BY <1>1, <2>1, RequestStep
\* Steps that settle the status
<1>2. ASSUME NEW next, Go(w, next), StatusesStay, Shaped(next),
             j.file \in File => files'[j.file].status # "pending"
      PROVE  PendingInv'
  BY <1>2, RequestStep
<1>3. CASE Read(w)
  <2>1. StatusesStay
    BY <1>3, SameStatuses DEF Read, store
  <2>2. CASE Exists(j.file)
    <3> DEFINE next == [j EXCEPT !.pc = "gather", !.text = files[j.file].content]
    <3>1. Go(w, next) /\ j.pc = "read"
      BY <1>3, <2>2 DEF Read, At
    <3>2. Shaped(next) /\ next.kind = j.kind /\ next.file = j.file /\ next.base = j.base
          /\ next.pc = "gather"
      BY <1>0 DEF Shaped
    <3> HIDE DEF next, j
    <3> QED BY <1>1, <2>1, <3>1, <3>2
  <2>3. CASE ~Exists(j.file)
    <3> DEFINE next == [j EXCEPT !.pc = After(j, FALSE), !.given = None, !.text = None,
                                 !.docs = {}]
    <3>1. Go(w, next) /\ UNCHANGED files
      BY <1>3, <2>3 DEF Read, Return, store
    <3>2. Shaped(next)
      BY <1>0 DEF Shaped
    <3>3. files'[j.file].status # "pending"
      BY <2>3, <3>1 DEF Exists
    <3> HIDE DEF next, j
    <3> QED BY <1>2, <2>1, <3>1, <3>2, <3>3
  <2> QED BY <2>2, <2>3
<1>4. CASE Gathers(w)
  <2>1. StatusesStay /\ j.pc = "gather"
    BY <1>4, SameStatuses DEF Gathers, Gather, GatherOverOld, GatherBlind, At, store
  <2>2. \E docs, text :
           \/ Go(w, [j EXCEPT !.pc = "write", !.docs = docs, !.text = text])
           \/ Go(w, [j EXCEPT !.pc = "write", !.docs = docs])
           \/ Go(w, [j EXCEPT !.pc = "fail"])
    BY <1>4 DEF Gathers, Gather, GatherOverOld, GatherBlind, Then
  <2>3. ASSUME NEW docs, NEW text,
               Go(w, [j EXCEPT !.pc = "write", !.docs = docs, !.text = text])
        PROVE  PendingInv'
    <3> DEFINE next == [j EXCEPT !.pc = "write", !.docs = docs, !.text = text]
    <3>2. Shaped(next) /\ next.kind = j.kind /\ next.file = j.file /\ next.base = j.base
          /\ next.pc = "write" /\ Go(w, next)
      BY <1>0, <2>3 DEF Shaped
    <3> HIDE DEF next, j
    <3> QED BY <1>1, <2>1, <3>2
  <2>4. ASSUME NEW docs, Go(w, [j EXCEPT !.pc = "write", !.docs = docs])
        PROVE  PendingInv'
    <3> DEFINE next == [j EXCEPT !.pc = "write", !.docs = docs]
    <3>2. Shaped(next) /\ next.kind = j.kind /\ next.file = j.file /\ next.base = j.base
          /\ next.pc = "write" /\ Go(w, next)
      BY <1>0, <2>4 DEF Shaped
    <3> HIDE DEF next, j
    <3> QED BY <1>1, <2>1, <3>2
  <2>5. CASE Go(w, [j EXCEPT !.pc = "fail"])
    <3> DEFINE next == [j EXCEPT !.pc = "fail"]
    <3>2. Shaped(next) /\ next.kind = j.kind /\ next.file = j.file /\ next.base = j.base
          /\ next.pc = "fail" /\ Go(w, next)
      BY <1>0, <2>5 DEF Shaped
    <3> HIDE DEF next, j
    <3> QED BY <1>1, <2>1, <3>2
  <2> QED BY <2>2, <2>3, <2>4, <2>5
\* Steps that only move the program counter
<1>5. ASSUME NEW pc \in {"check", "insert", "record", "fail"}, Then(w, pc), StatusesStay,
             j.pc \notin {"mark", "media"}
      PROVE  PendingInv'
  <2> DEFINE next == [j EXCEPT !.pc = pc]
  <2>1. Shaped(next) /\ next.kind = j.kind /\ next.file = j.file /\ next.base = j.base
        /\ next.pc = pc /\ Go(w, next)
    BY <1>0, <1>5 DEF Shaped, Then
  <2> HIDE DEF next, j
  <2> QED BY <1>1, <1>5, <2>1
<1>6. CASE Write(w)
  <2>1. Then(w, "check") /\ j.pc = "write"
    BY <1>6 DEF Write, At
  <2>2. files' = IF Exists(j.file)
                 THEN [files EXCEPT ![j.file] = [files[j.file] EXCEPT !.content = j.text]]
                 ELSE files
    BY <1>6 DEF Write
  <2> DEFINE r == [files[j.file] EXCEPT !.content = j.text]
  <2>3. j.file \in File => "status" \in DOMAIN r /\ r.status = files[j.file].status
    BY <1>00
  <2> HIDE DEF r
  <2>4. StatusesStay
    BY <2>2, <2>3, StatusKept DEF r
  <2> QED BY <1>5, <2>1, <2>4
<1>7. CASE Checks(w) \/ Inserts(w)
  <2>1. UNCHANGED files /\ j.pc \in {"check", "insert"}
    BY <1>7 DEF Checks, Check, CheckBlind, CheckFails, Inserts, Insert, InsertPart, At, store
  <2>2. \E pc \in {"insert", "record", "fail"} : Then(w, pc)
    BY <1>7 DEF Checks, Check, CheckBlind, CheckFails, Inserts, Insert, InsertPart, Admitted
  <2> QED BY <1>5, <2>1, <2>2, SameStatuses
<1>8. CASE Record(w) \/ Fail(w)
  <2>1. \E pc : Return(w, pc)
    BY <1>8 DEF Record, Fail
  <2>2. \E st \in {"completed", "failed"} : \E h :
           files' = IF Exists(j.file)
                    THEN [files EXCEPT ![j.file] = [files[j.file] EXCEPT !.status = st,
                                                                         !.hash = h]]
                    ELSE files
    BY <1>8 DEF Record, Fail
  <2>03. PICK st \in {"completed", "failed"} : \E h :
           files' = IF Exists(j.file)
                    THEN [files EXCEPT ![j.file] = [files[j.file] EXCEPT !.status = st,
                                                                         !.hash = h]]
                    ELSE files
    BY <2>2
  <2>3. PICK h :
           files' = IF Exists(j.file)
                    THEN [files EXCEPT ![j.file] = [files[j.file] EXCEPT !.status = st,
                                                                         !.hash = h]]
                    ELSE files
    BY <2>03
  <2> DEFINE r == [files[j.file] EXCEPT !.status = st, !.hash = h]
  <2>4. j.file \in File => "status" \in DOMAIN r /\ r.status = st
    BY <1>00
  <2>5. j.file \notin File => StatusesStay
    BY <2>3 DEF PendingInv, Shapes, StatusesStay
  <2>6. j.file \in File => StatusesStay /\ files'[j.file].status # "pending"
    <3> HIDE DEF r
    <3> QED BY <2>3, <2>4, StatusWritten DEF r
  <2>7. PICK pc : Return(w, pc)
    BY <2>1
  <2> DEFINE next == [j EXCEPT !.pc = pc, !.given = None, !.text = None, !.docs = {}]
  <2>8. Go(w, next) /\ Shaped(next)
    BY <1>0, <2>7 DEF Return, Shaped
  <2> HIDE DEF next, j
  <2> QED BY <1>2, <2>5, <2>6, <2>8
<1>9. CASE Mark(w) \/ KeepMedia(w)
  <2>1. \E pc : Then(w, pc)
    BY <1>9 DEF Mark, KeepMedia
  <2>2. \E st \in {"completed", "failed"} :
           files' = IF Exists(j.file)
                    THEN [files EXCEPT ![j.file] = [files[j.file] EXCEPT !.status = st]]
                    ELSE files
    BY <1>9 DEF Mark, KeepMedia
  <2>3. PICK st \in {"completed", "failed"} :
           files' = IF Exists(j.file)
                    THEN [files EXCEPT ![j.file] = [files[j.file] EXCEPT !.status = st]]
                    ELSE files
    BY <2>2
  <2> DEFINE r == [files[j.file] EXCEPT !.status = st]
  <2>4. j.file \in File => "status" \in DOMAIN r /\ r.status = st
    BY <1>00
  <2>5. j.file \notin File => StatusesStay
    BY <2>3 DEF PendingInv, Shapes, StatusesStay
  <2>6. j.file \in File => StatusesStay /\ files'[j.file].status # "pending"
    <3> HIDE DEF r
    <3> QED BY <2>3, <2>4, StatusWritten DEF r
  <2>7. PICK pc : Then(w, pc)
    BY <2>1
  <2> DEFINE next == [j EXCEPT !.pc = pc]
  <2>8. Go(w, next) /\ Shaped(next)
    BY <1>0, <2>7 DEF Then, Shaped
  <2> HIDE DEF next, j
  <2> QED BY <1>2, <2>5, <2>6, <2>8
<1> QED BY <1>3, <1>4, <1>6, <1>7, <1>8, <1>9

\* The calls around process_file owe no end: a file reaches them settled.
LEMMA CallsKeep ==
    ASSUME PendingInv, NEW w \in Worker, UNCHANGED lost,
           \/ Link(w) \/ Bases(w) \/ Turn(w) \/ Finds(w) \/ Drops(w)
           \/ Unlink(w) \/ Purges(w) \/ HashPurges(w) \/ OwnDrops(w) \/ DropRow(w)
           \/ Empties(w) \/ UnlinkAll(w) \/ BatchInserts(w) \/ BatchRow(w) \/ BatchLink(w)
    PROVE  PendingInv'
<1> DEFINE j == job[w]
<1>0. Shaped(j) /\ \A f \in File : "status" \in DOMAIN files[f]
  BY DEF PendingInv, Shapes
<1>1. ~Owing(j)
  BY DEF Owing, Link, Bases, Turn, Finds, Find, FindBlind, Drops, Drop, DropFails, Unlink,
       Purges, Purge, PurgeFails, HashPurges, PurgeHash, PurgeHashFails, OwnDrops, DropOwn,
       DropOwnFails, DropRow, Empties, Empty, EmptyFails, UnlinkAll, BatchInserts,
       BatchInsert, BatchPart, BatchRow, BatchLink, At
<1>2. StatusesStay
  <2>1. CASE UNCHANGED files
    BY <2>1, SameStatuses
  <2>2. CASE DropRow(w)
    <3>1. \E why \in {"deleted", "removed"} :
             files' = IF Exists(j.file) THEN [files EXCEPT ![j.file] = Missing(why)] ELSE files
      BY <2>2 DEF DropRow
    <3>2. \A why \in {"deleted", "removed"} :
             "status" \in DOMAIN Missing(why) /\ Missing(why).status # "pending"
      BY DEF Missing, Row
    <3> HIDE DEF j
    <3> QED BY <3>1, <3>2, StatusWritten
  <2>3. CASE BatchRow(w)
    <3>1. PICK p \in j.left :
             files' = IF Exists(p[2])
                      THEN [files EXCEPT ![p[2]] = [files[p[2]] EXCEPT !.content = p[1],
                                                                       !.hash = p[1]]]
                      ELSE files
      BY <2>3 DEF BatchRow
    <3> DEFINE f == p[2]
               r == [files[f] EXCEPT !.content = p[1], !.hash = p[1]]
    <3>2. f \in File => "status" \in DOMAIN r /\ r.status = files[f].status
      BY <1>0
    <3>3. files' = IF Exists(f) THEN [files EXCEPT ![f] = r] ELSE files
      BY <3>1
    <3> HIDE DEF f, r, j
    <3> QED BY <3>2, <3>3, StatusKept
  <2> QED BY <2>1, <2>2, <2>3 DEF Link, Bases, Turn, Finds, Find, FindBlind, Drops, Drop,
       DropFails, Unlink, Purges, Purge, PurgeFails, HashPurges, PurgeHash, PurgeHashFails,
       OwnDrops, DropOwn, DropOwnFails, Empties, Empty, EmptyFails, UnlinkAll, BatchInserts,
       BatchInsert, BatchPart, BatchLink, store
\* Any step that changes fields of the job leaves it its shape.
<1>3. ASSUME NEW next, Go(w, next), DOMAIN next = DOMAIN j
      PROVE  PendingInv'
  <2>1. Shaped(next)
    BY <1>0, <1>3 DEF Shaped
  <2> HIDE DEF j
  <2> QED BY <1>1, <1>2, <1>3, <2>1, OtherStep DEF j
<1>4. ASSUME NEW pc, Then(w, pc) PROVE PendingInv'
  BY <1>3, <1>4 DEF Then
<1>5. CASE \/ Unlink(w) \/ OwnDrops(w) \/ DropRow(w) \/ Empties(w) \/ UnlinkAll(w)
           \/ HashPurges(w)
  <2>1. \E pc, p : Then(w, pc) \/ Go(w, [j EXCEPT !.pc = "next", !.plan = p])
    BY <1>5 DEF Unlink, OwnDrops, DropOwn, DropOwnFails, DropRow, Empties, Empty, EmptyFails,
         UnlinkAll, HashPurges, PurgeHash, PurgeHashFails
  <2> QED BY <1>3, <1>4, <2>1
<1>6. CASE Link(w)
  <2>1. \E k : Go(w, Process(j, k, None)) \/ Go(w, [j EXCEPT !.pc = "done"])
    BY <1>6 DEF Link
  <2>2. \A k : DOMAIN Process(j, k, None) = DOMAIN j
    BY DEF Process
  <2> QED BY <1>3, <2>1, <2>2
<1>7. CASE Purges(w)
  <2>1. Go(w, Process(j, j.base, None)) \/ Go(w, [j EXCEPT !.pc = "purgehash"])
    BY <1>7 DEF Purges, Purge, PurgeFails
  <2>2. DOMAIN Process(j, j.base, None) = DOMAIN j
    BY DEF Process
  <2> QED BY <1>3, <2>1, <2>2
<1>8. CASE Bases(w) \/ Drops(w)
  <2>1. \E l : \/ Go(w, [j EXCEPT !.pc = "next", !.left = l])
               \/ Go(w, [j EXCEPT !.pc = "next", !.old = {}])
    BY <1>8 DEF Bases, Drops, Drop, DropFails
  <2> QED BY <1>3, <2>1
<1>9. CASE Finds(w)
  <2>1. \E o : Go(w, [Process(j, j.base, None) EXCEPT !.old = o])
    BY <1>9 DEF Finds, Find, FindBlind
  <2>2. \A o : DOMAIN [Process(j, j.base, None) EXCEPT !.old = o] = DOMAIN j
    BY DEF Process
  <2> QED BY <1>3, <2>1, <2>2
<1>10. CASE Turn(w)
  <2>1. \/ \E pc, k : Go(w, [j EXCEPT !.pc = pc, !.base = k, !.left = @ \ {k}])
        \/ \E p : Go(w, [Process(j, p[1], None) EXCEPT !.file = p[2], !.plan = @ \ {p}])
        \/ \E pc : Then(w, pc)
    BY <1>10 DEF Turn
  <2>2. \A p : DOMAIN [Process(j, p[1], None) EXCEPT !.file = p[2], !.plan = @ \ {p}] = DOMAIN j
    BY DEF Process
  <2> QED BY <1>3, <1>4, <2>1, <2>2
<1>11. CASE BatchInserts(w)
  <2>1. \/ \E l : Go(w, [j EXCEPT !.pc = "batchrow", !.left = l])
        \/ \E pc : Then(w, pc)
    BY <1>11 DEF BatchInserts, BatchInsert, BatchPart
  <2> QED BY <1>3, <1>4, <2>1
<1>12. CASE BatchRow(w) \/ BatchLink(w)
  <2>1. \E l, pc : \/ Go(w, [j EXCEPT !.left = l, !.pc = pc])
    BY <1>12 DEF BatchRow, BatchLink
  <2> QED BY <1>3, <2>1
<1> QED BY <1>5, <1>6, <1>7, <1>8, <1>9, <1>10, <1>11, <1>12

-----------------------------------------------------------------------------
(* Requests and crashes *)

LEMMA AsksKeep ==
    ASSUME PendingInv, NEW w \in Worker, Asks(w)
    PROVE  PendingInv'
<1>1. ASSUME NEW j, Shaped(j), Start(w, j),
             files' = [f \in File |-> files'[f]],
             \A f \in File : /\ "status" \in DOMAIN files'[f]
                             /\ files'[f].status = "pending" =>
                                   \/ files[f].status = "pending"
                                   \/ Owing(j) /\ j.file = f
      PROVE  PendingInv'
  <2>1. /\ job[w] = Idle /\ UNCHANGED lost /\ job' = [v \in Worker |-> job'[v]]
        /\ job'[w] = j /\ \A v \in Worker : v # w => job'[v] = job[v]
    BY <1>1 DEF Start, PendingInv, Shapes
  <2>2. Shapes'
    BY <1>1, <2>1 DEF PendingInv, Shapes
  <2>3. ~Owing(job[w])
    BY <2>1, IdleShaped DEF Owing
  <2>4. ASSUME NEW f \in File, files'[f].status = "pending", f \notin lost
        PROVE  \E v \in Worker : Owing(job'[v]) /\ job'[v].file = f
    <3>1. CASE Owing(j) /\ j.file = f
      BY <2>1, <3>1
    <3>2. CASE files[f].status = "pending"
      <4>1. PICK v \in Worker : Owing(job[v]) /\ job[v].file = f
        BY <2>4, <3>2 DEF PendingInv, Ends
      <4> QED BY <2>1, <2>3, <4>1
    <3> QED BY <1>1, <2>4, <3>1, <3>2
  <2> QED BY <2>1, <2>2, <2>4 DEF PendingInv, Ends
<1>2. ASSUME NEW j, DOMAIN j = DOMAIN Idle, Start(w, j), UNCHANGED files
      PROVE  PendingInv'
  <2>1. Shaped(j)
    BY <1>2, IdleShaped DEF Shaped
  <2> QED BY <1>1, <1>2, <2>1 DEF PendingInv, Shapes
<1>3. CASE Upload(w)
  <2>0. PICK f \in File : \E k :
           /\ files' = [files EXCEPT ![f] = Row("pending", None, None)]
           /\ \/ \E c \in Content :
                    Start(w, [Process(Idle, Own, None) EXCEPT
                                !.kind = "upload", !.file = f, !.source = c, !.ask = k])
              \/ Start(w, [Idle EXCEPT !.pc = "media", !.kind = "upload", !.file = f, !.ask = k])
    BY <1>3 DEF Upload
  <2>1. PICK k :
           /\ files' = [files EXCEPT ![f] = Row("pending", None, None)]
           /\ \/ \E c \in Content :
                    Start(w, [Process(Idle, Own, None) EXCEPT
                                !.kind = "upload", !.file = f, !.source = c, !.ask = k])
              \/ Start(w, [Idle EXCEPT !.pc = "media", !.kind = "upload", !.file = f, !.ask = k])
    BY <2>0
  <2>2. \E j : Start(w, j) /\ Shaped(j) /\ Owing(j) /\ j.file = f
    <3>1. ASSUME NEW c
          PROVE  LET j == [Process(Idle, Own, None) EXCEPT
                             !.kind = "upload", !.file = f, !.source = c, !.ask = k]
                 IN  Shaped(j) /\ Owing(j) /\ j.file = f
      BY DEF Process, Idle, Shaped, Owing
    <3>2. LET j == [Idle EXCEPT !.pc = "media", !.kind = "upload", !.file = f, !.ask = k]
          IN  Shaped(j) /\ Owing(j) /\ j.file = f
      BY DEF Idle, Shaped, Owing
    <3> QED BY <2>1, <3>1, <3>2
  <2>3. /\ files' = [g \in File |-> files'[g]] /\ "status" \in DOMAIN files'[f]
        /\ \A g \in File : g # f => files'[g] = files[g]
    BY <2>1 DEF PendingInv, Shapes, Row
  <2> QED BY <1>1, <2>2, <2>3 DEF PendingInv, Shapes
<1>4. CASE Edit(w)
  <2>1. /\ UNCHANGED files
        /\ \E f, c : \/ Start(w, [Process(Idle, Own, c) EXCEPT !.kind = "edit", !.file = f])
                     \/ Start(w, [Process(Idle, Own, None) EXCEPT !.kind = "edit", !.file = f,
                                                                  !.source = c])
    BY <1>4 DEF Edit
  <2>2. \A f, c :
           /\ DOMAIN [Process(Idle, Own, c) EXCEPT !.kind = "edit", !.file = f] = DOMAIN Idle
           /\ DOMAIN [Process(Idle, Own, None) EXCEPT !.kind = "edit", !.file = f, !.source = c]
                 = DOMAIN Idle
    BY DEF Process
  <2> QED BY <1>2, <2>1, <2>2
<1>5. CASE AddOrUpdate(w)
  <2>1. /\ UNCHANGED files
        /\ \E f, k : \/ Start(w, [Process(Idle, k, None) EXCEPT !.kind = "add", !.file = f])
                     \/ Start(w, [Idle EXCEPT !.pc = "purge", !.kind = "update",
                                              !.file = f, !.base = k])
    BY <1>5 DEF AddOrUpdate
  <2>2. \A f, k : DOMAIN [Process(Idle, k, None) EXCEPT !.kind = "add", !.file = f] = DOMAIN Idle
    BY DEF Process
  <2> QED BY <1>2, <2>1, <2>2
<1>6. CASE Remove(w) \/ Delete(w) \/ Batch(w)
  <2>1. UNCHANGED files
    BY <1>6 DEF Remove, Delete, Batch
  <2>2. \E f, k, h, x, p :
           \/ Start(w, [Idle EXCEPT !.pc = "unlink", !.kind = "remove", !.file = f,
                                    !.base = k, !.hash = h, !.whole = x])
           \/ Start(w, [Idle EXCEPT !.pc = "bases", !.kind = "delete", !.file = f, !.hash = h])
           \/ Start(w, [Idle EXCEPT !.pc = "batchinsert", !.kind = "batch", !.base = k,
                                    !.plan = p])
    BY <1>6 DEF Remove, Delete, Batch
  <2> QED BY <1>2, <2>1, <2>2
<1>7. CASE ResetOrReindex(w)
  <2>1. /\ UNCHANGED files
        /\ \E k : \/ Start(w, [Idle EXCEPT !.pc = "empty", !.kind = "reset", !.base = k])
                  \/ Start(w, [Idle EXCEPT !.pc = "next", !.kind = "reindex", !.left = Base,
                                           !.plan = linked])
    BY <1>7 DEF ResetOrReindex
  <2> QED BY <1>2, <2>1
<1> QED BY <1>3, <1>4, <1>5, <1>6, <1>7 DEF Asks

\* A crash takes every request with it, and remembers their files.
LEMMA CrashKeeps ==
    ASSUME PendingInv, Crash
    PROVE  PendingInv'
<1>1. /\ job' = [w \in Worker |-> Idle] /\ UNCHANGED files
      /\ lost' = lost \cup UNION {About(job[w]) : w \in Busy}
  BY DEF Crash, store
<1>2. Shapes'
  BY <1>1, IdleShaped DEF PendingInv, Shapes
<1>3. ASSUME NEW w \in Worker, Owing(job[w])
      PROVE  job[w].file \in UNION {About(job[v]) : v \in Busy}
  <2>1. job[w] # Idle
    BY <1>3, IdleShaped DEF Owing
  <2>2. job[w].file \in About(job[w])
    BY <1>3 DEF Owing, About
  <2> QED BY <2>1, <2>2 DEF Busy
<1>4. \A f \in File : ~(files'[f].status = "pending" /\ f \notin lost')
  BY <1>1, <1>3 DEF PendingInv, Ends
<1> QED BY <1>2, <1>4 DEF PendingInv, Ends

-----------------------------------------------------------------------------
(* The theorem *)

LEMMA NextPending == PendingInv /\ [Next]_vars => PendingInv'
<1> SUFFICES ASSUME PendingInv, [Next]_vars PROVE PendingInv'
  OBVIOUS
<1>1. CASE UNCHANGED vars
  BY <1>1 DEF vars, store, history, PendingInv, Shapes, Ends
<1>2. ASSUME NEW w \in Worker, Step(w) PROVE PendingInv'
  BY <1>2, ProcessingKeeps, CallsKeep, StepIs DEF history
<1>3. CASE Next
  BY <1>2, <1>3, AsksKeep, CrashKeeps DEF Next
<1> QED BY <1>1, <1>3

\* A file that is shown as being processed is, unless its process died.
THEOREM PendingMeansProcessing == Spec => []StillProcessed
<1>1. PendingInv => StillProcessed
  BY DEF PendingInv, Ends, Owing, StillProcessed
<1> QED BY <1>1, InitPending, NextPending, PTL DEF Spec

-----------------------------------------------------------------------------
(* What the requests are *)

Working == {"read", "gather", "write", "check", "insert", "record", "fail"}

\* What a request of each kind may be doing, and with what
Legal(j) ==
    \/ j = Idle
    \/ /\ j.kind = "upload" /\ j.file \in File /\ j.given = None /\ j.ask \in Base \cup {None}
       /\ \/ j.pc \in Working /\ j.base = Own /\ j.source \in Content
          \/ j.pc \in Working /\ j.base \in Base
          \/ j.pc \in {"mark", "media"}
          \/ j.pc = "link" /\ j.ask \in Base
    \/ /\ j.kind = "edit" /\ j.file \in File /\ j.left \subseteq Base /\ j.plan = {}
       /\ \/ j.pc \in Working /\ j.base = Own
             /\ (j.given \in Content \/ (j.given = None /\ j.source \in Content))
          \/ j.pc \in Working /\ j.base \in Base /\ j.given = None
          \/ j.pc = "bases" /\ j.base = Own
          \/ j.pc = "next"
          \/ j.pc \in {"find", "drop"} /\ j.base \in Base
    \/ /\ j.kind = "add" /\ j.file \in File /\ j.base \in Base /\ j.given = None
       /\ j.pc \in Working \cup {"link"}
    \/ /\ j.kind = "update" /\ j.file \in File /\ j.base \in Base /\ j.given = None
       /\ j.pc \in Working \cup {"purge"}
    \/ /\ j.kind = "remove" /\ j.file \in File /\ j.base \in Base
       /\ j.pc \in {"unlink", "purge", "purgehash", "dropown", "droprow"}
    \/ /\ j.kind = "delete" /\ j.file \in File /\ j.left \subseteq Base /\ j.plan = {}
       /\ \/ j.pc \in {"bases", "next", "droprow"}
          \/ j.pc \in {"unlink", "purge", "purgehash"} /\ j.base \in Base
    \/ /\ j.kind = "batch" /\ j.base \in Base
       /\ j.plan \subseteq (Content \cup {None}) \X File /\ j.left \subseteq j.plan
       /\ j.pc \in {"batchinsert", "batchrow", "batchlink"}
    \/ /\ j.kind = "reset" /\ j.base \in Base
       /\ j.pc \in {"empty", "unlinkall"}
    \/ /\ j.kind = "reindex" /\ j.given = None
       /\ j.plan \subseteq Base \X File /\ j.left \subseteq Base
       /\ \/ j.pc = "next"
          \/ j.pc = "empty" /\ j.base \in Base
          \/ j.pc \in Working /\ j.base \in Base /\ j.file \in File

Proper(j) ==
    /\ Shaped(j)
    /\ j.text \in Content \cup {None} /\ j.docs \subseteq Content
    /\ Legal(j)

JobsOK == job = [w \in Worker |-> job[w]] /\ \A w \in Worker : Proper(job[w])

\* Requests in progress have overlapped.
Overlap == \A w, v \in Worker : w # v /\ job[w] # Idle /\ job[v] # Idle =>
              \A f \in About(job[w]), g \in About(job[v]) : {f, g} \in together

\* Nothing is known of a file that has not been uploaded.
Unused == \A f \in File : files[f].status = "unused" =>
             /\ \A c \in chunks : c.file # f
             /\ \A p \in linked : p[2] # f
             /\ \A w \in Worker : job[w].kind \in {"reset", "reindex"} \/ f \notin About(job[w])

BasicInv == TypeOK /\ JobsOK /\ Overlap

\* A request takes a step.
Moves(w, next) ==
    /\ job' = [v \in Worker |-> job'[v]]
    /\ \A v \in Worker : v # w => job'[v] = job[v]
    /\ job'[w] = IF next.pc = "done" THEN Idle ELSE next

LEMMA GoMoves ==
    ASSUME JobsOK, NEW w \in Worker, NEW next, Go(w, next)
    PROVE  Moves(w, next)
BY DEF JobsOK, Go, Moves

LEMMA AfterIs ==
    ASSUME NEW j, NEW ok \in BOOLEAN
    PROVE  /\ j.kind = "edit" /\ j.base # Own => After(j, ok) = IF ok /\ j.old # {} THEN "drop" ELSE "next"
           /\ j.kind = "edit" /\ j.base = Own => After(j, ok) = "bases"
           /\ j.kind = "reindex" => After(j, ok) = "next"
           /\ j.kind = "add" => After(j, ok) = IF ok THEN "link" ELSE "done"
           /\ j.kind = "update" => After(j, ok) = "done"
           /\ j.kind = "upload" /\ j.base = Own /\ ~ok => After(j, ok) = "mark"
           /\ j.kind = "upload" /\ j.base = Own /\ ok =>
                 After(j, ok) = IF j.ask # None THEN "link" ELSE "done"
           /\ j.kind = "upload" /\ j.base # Own => After(j, ok) = "done"
BY DEF After

\* The request goes on with the same business.
Same(j, next) ==
    /\ next.kind = j.kind
    /\ j.kind # "reindex" => next.file = j.file /\ next.plan = j.plan
\* ... and in order
Fine(j, next) == Same(j, next) /\ Shaped(next) /\ (next.pc = "done" \/ Proper(next))

LEMMA ReturnFine ==
    ASSUME NEW j, Proper(j), j.pc \in Working, NEW ok \in BOOLEAN, KnowledgeAssumption
    PROVE  Fine(j, [j EXCEPT !.pc = After(j, ok), !.given = None, !.text = None, !.docs = {}])
<1> DEFINE next == [j EXCEPT !.pc = After(j, ok), !.given = None, !.text = None, !.docs = {}]
<1>1. /\ Shaped(next) /\ Same(j, next) /\ next.text = None /\ next.docs = {}
      /\ next.pc = After(j, ok) /\ next.given = None
      /\ next.left = j.left /\ next.base = j.base /\ next.ask = j.ask /\ next.source = j.source
      /\ next.file = j.file /\ next.plan = j.plan /\ next.kind = j.kind
  BY DEF Proper, Shaped, Same
<1>2. j.kind \in {"upload", "edit", "add", "update", "reindex"}
  BY DEF Proper, Legal, Working, Idle
<1> HIDE DEF next
<1>3. next.pc = "done" \/ Legal(next)
  <2>1. CASE j.kind = "upload"
    BY <1>1, <2>1, AfterIs DEF Proper, Legal, Working, Idle, KnowledgeAssumption
  <2>2. CASE j.kind = "edit"
    BY <1>1, <2>2, AfterIs DEF Proper, Legal, Working, Idle, KnowledgeAssumption
  <2>3. CASE j.kind \in {"add", "update", "reindex"}
    BY <1>1, <2>3, AfterIs DEF Proper, Legal, Working, Idle
  <2> QED BY <1>2, <2>1, <2>2, <2>3
<1> QED BY <1>1, <1>3 DEF Fine, Proper, next

\* process_file
LEMMA IndexingFine ==
    ASSUME TypeOK, JobsOK, NEW w \in Worker, KnowledgeAssumption,
           \/ Read(w) \/ Gathers(w) \/ Write(w) \/ Checks(w) \/ Inserts(w) \/ Record(w) \/ Fail(w)
    PROVE  \E next : Go(w, next) /\ Fine(job[w], next)
<1> DEFINE j == job[w]
<1>1. Proper(j) /\ j.pc \in Working
  BY DEF JobsOK, Read, Gathers, Gather, GatherOverOld, GatherBlind, Write, Checks, Check,
       CheckBlind, CheckFails, Inserts, Insert, InsertPart, Record, Fail, At, Working
<1>2. ASSUME NEW ok \in BOOLEAN, Return(w, After(j, ok))
      PROVE  \E next : Go(w, next) /\ Fine(j, next)
  BY <1>1, <1>2, ReturnFine DEF Return
<1>3. ASSUME NEW pc \in Working, pc # "read", NEW docs, NEW text, docs \subseteq Content,
             text \in Content \cup {None}, pc \notin {"gather"}
      PROVE  /\ Fine(j, [j EXCEPT !.pc = pc])
             /\ Fine(j, [j EXCEPT !.pc = pc, !.docs = docs])
             /\ Fine(j, [j EXCEPT !.pc = pc, !.docs = docs, !.text = text])
  <2>1. ASSUME NEW next, Shaped(next), next.kind = j.kind, next.file = j.file,
               next.base = j.base, next.given = j.given, next.source = j.source,
               next.left = j.left, next.plan = j.plan, next.ask = j.ask, next.pc = pc,
               next.docs \subseteq Content, next.text \in Content \cup {None}
        PROVE  Fine(j, next)
    <3> HIDE DEF j
    <3>1. j # Idle /\ pc # "done"
      BY <1>1, <1>3 DEF Idle, Working
    <3>2. Legal(next)
      BY <1>1, <1>3, <2>1, <3>1 DEF Proper, Legal, Working
    <3> QED BY <1>1, <2>1, <3>2 DEF Fine, Same, Proper
  <2>2. LET n == [j EXCEPT !.pc = pc] IN
        /\ Shaped(n) /\ n.kind = j.kind /\ n.file = j.file /\ n.base = j.base
        /\ n.given = j.given /\ n.source = j.source /\ n.left = j.left
        /\ n.plan = j.plan /\ n.ask = j.ask /\ n.pc = pc /\ n.docs = j.docs /\ n.text = j.text
    BY <1>1 DEF Proper, Shaped
  <2>3. LET n == [j EXCEPT !.pc = pc, !.docs = docs] IN
        /\ Shaped(n) /\ n.kind = j.kind /\ n.file = j.file /\ n.base = j.base
        /\ n.given = j.given /\ n.source = j.source /\ n.left = j.left
        /\ n.plan = j.plan /\ n.ask = j.ask /\ n.pc = pc /\ n.docs = docs /\ n.text = j.text
    BY <1>1 DEF Proper, Shaped
  <2>4. LET n == [j EXCEPT !.pc = pc, !.docs = docs, !.text = text] IN
        /\ Shaped(n) /\ n.kind = j.kind /\ n.file = j.file /\ n.base = j.base
        /\ n.given = j.given /\ n.source = j.source /\ n.left = j.left
        /\ n.plan = j.plan /\ n.ask = j.ask /\ n.pc = pc /\ n.docs = docs /\ n.text = text
    BY <1>1 DEF Proper, Shaped
  <2>5. j.docs \subseteq Content /\ j.text \in Content \cup {None}
    BY <1>1 DEF Proper
  <2> HIDE DEF j
  <2> QED BY <1>3, <2>1, <2>2, <2>3, <2>4, <2>5
<1>4. CASE Read(w)
  <2>1. CASE Exists(j.file)
    <3> DEFINE next == [j EXCEPT !.pc = "gather", !.text = files[j.file].content]
    <3>1. Go(w, next)
      BY <1>4, <2>1 DEF Read
    <3>2. j.file \in File
      BY <1>1 DEF Proper, Legal, Working, Idle
    <3>3. files[j.file].content \in Content \cup {None}
      BY <3>2 DEF TypeOK
    <3>4. /\ Shaped(next) /\ next.kind = j.kind /\ next.file = j.file /\ next.base = j.base
          /\ next.given = j.given /\ next.source = j.source /\ next.left = j.left
          /\ next.plan = j.plan /\ next.ask = j.ask /\ next.pc = "gather"
          /\ next.docs = j.docs /\ next.text = files[j.file].content
      BY <1>1 DEF Proper, Shaped
    <3> HIDE DEF next, j
    <3>5. Legal(next)
      BY <1>1, <3>4 DEF Proper, Legal, Working, Idle
    <3>6. Fine(j, next)
      BY <1>1, <3>3, <3>4, <3>5 DEF Fine, Same, Proper
    <3> QED BY <3>1, <3>6 DEF j
  <2>2. CASE ~Exists(j.file)
    BY <1>2, <1>4, <2>2 DEF Read
  <2> QED BY <2>1, <2>2
<1>5. CASE Gathers(w)
  <2>1. \E docs \in SUBSET Content, text \in Content \cup {None} :
           \/ Go(w, [j EXCEPT !.pc = "write", !.docs = docs, !.text = text])
           \/ Go(w, [j EXCEPT !.pc = "write", !.docs = docs])
           \/ Go(w, [j EXCEPT !.pc = "fail"])
    <3>1. CASE j.given # None
      <4>1. j.given \in Content
        BY <1>1, <3>1 DEF Proper, Legal, Working, Idle
      <4>2. Go(w, [j EXCEPT !.pc = "write", !.docs = {j.given}, !.text = j.given])
        BY <1>5, <3>1 DEF Gathers, Gather, GatherOverOld, GatherBlind
      <4> QED BY <4>1, <4>2
    <3>2. CASE j.given = None /\ j.base # Own
      <4> DEFINE own == {c.content : c \in Chunks(j.file, j.file)}
                 row == {j.text} \ {None}
      <4>1. own \subseteq Content /\ row \subseteq Content
        BY <1>1 DEF TypeOK, Chunks, Proper
      <4>2. \E docs \in {own, row} : Go(w, [j EXCEPT !.pc = "write", !.docs = docs])
        BY <1>5, <3>2 DEF Gathers, Gather, GatherOverOld, GatherBlind
      <4> HIDE DEF own, row
      <4> QED BY <4>1, <4>2
    <3>3. CASE j.given = None /\ j.base = Own
      <4>1. j.source \in Content
        BY <1>1, <3>3 DEF Proper, Legal, Working, Idle, KnowledgeAssumption
      <4>2. \/ Go(w, [j EXCEPT !.pc = "write", !.docs = {j.source}, !.text = j.source])
            \/ Go(w, [j EXCEPT !.pc = "fail"])
        BY <1>5, <3>3 DEF Gathers, Gather, GatherOverOld, GatherBlind, Then
      <4> QED BY <4>1, <4>2
    <3> QED BY <3>1, <3>2, <3>3
  <2> QED BY <1>3, <2>1 DEF Working
<1>6. CASE Write(w)
  BY <1>3, <1>6 DEF Write, Then, Working
<1>7. CASE Checks(w) \/ Inserts(w)
  <2>1. \E pc \in {"insert", "record", "fail"} : Then(w, pc)
    BY <1>7 DEF Checks, Check, CheckBlind, CheckFails, Inserts, Insert, InsertPart, Admitted
  <2> QED BY <1>3, <2>1 DEF Then, Working
<1>8. CASE Record(w) \/ Fail(w)
  BY <1>2, <1>8 DEF Record, Fail
<1> QED BY <1>4, <1>5, <1>6, <1>7, <1>8

\* The calls around it
LEMMA ProcessFine ==
    ASSUME NEW j, Proper(j), NEW k,
           \/ j.kind \in {"add", "update", "upload", "edit"} /\ k \in Base
           \/ j.kind = "reindex" /\ k \in Base /\ j.file \in File
    PROVE  LET next == Process(j, k, None) IN
           /\ Fine(j, next) /\ next.pc = "read" /\ next.base = k /\ next.given = None
           /\ next.kind = j.kind /\ next.file = j.file /\ next.left = j.left
           /\ next.plan = j.plan /\ next.ask = j.ask /\ next.source = j.source
           /\ next.text = j.text /\ next.docs = j.docs /\ next.old = j.old
<1> DEFINE next == Process(j, k, None)
<1>1. /\ Shaped(next) /\ next.pc = "read" /\ next.base = k /\ next.given = None
      /\ next.kind = j.kind /\ next.file = j.file /\ next.left = j.left
      /\ next.plan = j.plan /\ next.ask = j.ask /\ next.source = j.source
      /\ next.text = j.text /\ next.docs = j.docs /\ next.old = j.old
  BY DEF Process, Proper, Shaped
<1> HIDE DEF next
<1>2. Legal(next)
  BY <1>1 DEF Proper, Legal, Working, Idle
<1>3. Fine(j, next)
  BY <1>1, <1>2 DEF Fine, Same, Proper
<1> QED BY <1>1, <1>3 DEF next

LEMMA PcFine ==
    ASSUME NEW j, Proper(j), NEW pc,
           \/ pc = "done"
           \/ Legal([j EXCEPT !.pc = pc])
    PROVE  LET next == [j EXCEPT !.pc = pc] IN
           /\ Fine(j, next) /\ next.pc = pc
           /\ next.kind = j.kind /\ next.file = j.file /\ next.base = j.base
           /\ next.left = j.left /\ next.plan = j.plan /\ next.ask = j.ask
           /\ next.source = j.source /\ next.given = j.given
           /\ next.text = j.text /\ next.docs = j.docs /\ next.old = j.old
           /\ next.hash = j.hash /\ next.whole = j.whole
<1> DEFINE next == [j EXCEPT !.pc = pc]
<1>1. /\ Shaped(next) /\ next.pc = pc
      /\ next.kind = j.kind /\ next.file = j.file /\ next.base = j.base
      /\ next.left = j.left /\ next.plan = j.plan /\ next.ask = j.ask
      /\ next.source = j.source /\ next.given = j.given
      /\ next.text = j.text /\ next.docs = j.docs /\ next.old = j.old
      /\ next.hash = j.hash /\ next.whole = j.whole
  BY DEF Proper, Shaped
<1> HIDE DEF next
<1>2. Fine(j, next)
  BY <1>1 DEF Fine, Same, Proper, next
<1> QED BY <1>1, <1>2 DEF next

\* A request may go on at pc if it is one of its kind that needs nothing more.
LEMMA PcLegal ==
    ASSUME NEW j, Proper(j), j # Idle, NEW pc,
           \/ j.kind = "upload" /\ pc = "link" /\ j.ask \in Base
           \/ j.kind = "remove" /\ pc \in {"unlink", "purge", "purgehash", "dropown", "droprow"}
           \/ j.kind = "delete" /\ pc \in {"next", "droprow"}
           \/ j.kind = "delete" /\ pc \in {"purge", "purgehash"} /\ j.base \in Base
           \/ j.kind = "reset" /\ pc = "unlinkall"
           \/ j.kind = "reindex" /\ pc = "next"
    PROVE  Legal([j EXCEPT !.pc = pc])
<1> DEFINE next == [j EXCEPT !.pc = pc]
<1>1. /\ next.pc = pc
      /\ next.kind = j.kind /\ next.file = j.file /\ next.base = j.base
      /\ next.left = j.left /\ next.plan = j.plan /\ next.ask = j.ask
      /\ next.source = j.source /\ next.given = j.given
  BY DEF Proper, Shaped
<1> HIDE DEF next
<1>2. Legal(next)
  BY <1>1 DEF Proper, Legal
<1> QED BY <1>2 DEF next

LEMMA CallsFine ==
    ASSUME TypeOK, JobsOK, NEW w \in Worker, KnowledgeAssumption,
           \/ Mark(w) \/ KeepMedia(w) \/ Link(w) \/ Bases(w) \/ Turn(w) \/ Finds(w) \/ Drops(w)
           \/ Unlink(w) \/ Purges(w) \/ HashPurges(w) \/ OwnDrops(w) \/ DropRow(w)
           \/ Empties(w) \/ UnlinkAll(w) \/ BatchInserts(w) \/ BatchRow(w) \/ BatchLink(w)
    PROVE  \E next : Go(w, next) /\ Fine(job[w], next)
<1> DEFINE j == job[w]
           Goal == \E next : Go(w, next) /\ Fine(j, next)
<1>1. Proper(j)
  BY DEF JobsOK
<1>2. j # Idle
  <2>1. j.pc \in {"mark", "media", "link", "bases", "next", "find", "drop", "unlink", "purge",
                  "purgehash", "dropown", "droprow", "empty", "unlinkall", "batchinsert",
                  "batchrow", "batchlink"}
    BY DEF Mark, KeepMedia, Link, Bases, Turn, Finds, Find, FindBlind, Drops, Drop, DropFails,
         Unlink, Purges, Purge, PurgeFails, HashPurges, PurgeHash, PurgeHashFails, OwnDrops,
         DropOwn, DropOwnFails, DropRow, Empties, Empty, EmptyFails, UnlinkAll, BatchInserts,
         BatchInsert, BatchPart, BatchRow, BatchLink, At
  <2> QED BY <2>1, IdleShaped
<1>3. ASSUME NEW pc, Then(w, pc), pc = "done" \/ Legal([j EXCEPT !.pc = pc])
      PROVE  Goal
  BY <1>1, <1>3, PcFine DEF Then
<1>4. ASSUME NEW next, Go(w, next), Shaped(next), next.kind = j.kind, next.file = j.file,
             next.plan = j.plan, next.base = j.base, next.given = j.given,
             next.ask = j.ask, next.source = j.source, next.text = j.text, next.docs = j.docs,
             next.pc = "done" \/ Legal(next)
      PROVE  Goal
  <2>1. Fine(j, next)
    BY <1>1, <1>4 DEF Fine, Same, Proper
  <2> QED BY <1>4, <2>1
<1>5. CASE Mark(w)
  BY <1>3, <1>5 DEF Mark
<1>6. CASE KeepMedia(w)
  <2>1. j.pc = "media" /\ Then(w, IF j.ask # None THEN "link" ELSE "done")
    BY <1>6 DEF KeepMedia, At
  <2>2. j.kind = "upload" /\ j.ask \in Base \cup {None}
    BY <1>1, <2>1 DEF Proper, Legal, Working, Idle
  <2> QED BY <1>1, <1>2, <1>3, <2>1, <2>2, PcLegal
<1>7. CASE Link(w)
  <2>1. j.pc = "link"
    BY <1>7 DEF Link, At
  <2>2. \/ j.kind = "upload" /\ j.ask \in Base /\ Go(w, Process(j, j.ask, None))
        \/ j.kind = "add" /\ Then(w, "done")
    BY <1>1, <1>7, <2>1 DEF Link, Then, Proper, Legal, Working, Idle
  <2> QED BY <1>1, <1>3, <2>2, ProcessFine
<1>8. CASE Bases(w)
  <2>1. PICK l \in SUBSET Base : Go(w, [j EXCEPT !.pc = "next", !.left = l])
    BY <1>8 DEF Bases
  <2> DEFINE next == [j EXCEPT !.pc = "next", !.left = l]
  <2>2. /\ Shaped(next) /\ next.kind = j.kind /\ next.file = j.file
        /\ next.plan = j.plan /\ next.base = j.base /\ next.given = j.given
        /\ next.ask = j.ask /\ next.source = j.source /\ next.text = j.text
        /\ next.docs = j.docs /\ next.pc = "next" /\ next.left = l
    BY <1>1 DEF Proper, Shaped
  <2>3. j.pc = "bases"
    BY <1>8 DEF Bases, At
  <2> HIDE DEF next, j
  <2>4. Legal(next)
    BY <1>1, <2>2, <2>3 DEF Proper, Legal, Working, Idle
  <2> QED BY <1>4, <2>1, <2>2, <2>4 DEF next, j
<1>9. CASE Finds(w)
  <2>1. PICK o : Go(w, [Process(j, j.base, None) EXCEPT !.old = o])
    BY <1>9 DEF Finds, Find, FindBlind
  <2> DEFINE p == Process(j, j.base, None)
             next == [p EXCEPT !.old = o]
  <2>2. j.pc = "find" /\ j.kind = "edit" /\ j.base \in Base
    BY <1>1, <1>9 DEF Finds, Find, FindBlind, At, Proper, Legal, Working, Idle
  <2>3. Fine(j, p) /\ p.kind = j.kind /\ p.file = j.file /\ p.plan = j.plan /\ p.pc = "read"
        /\ p.left = j.left /\ p.given = None /\ p.base = j.base
    BY <1>1, <2>2, ProcessFine
  <2> HIDE DEF p
  <2>4. /\ Shaped(next) /\ next.kind = p.kind /\ next.file = p.file /\ next.base = p.base
        /\ next.plan = p.plan /\ next.given = p.given /\ next.left = p.left
        /\ next.text = p.text /\ next.docs = p.docs /\ next.pc = "read"
    BY <2>3 DEF Fine, Shaped
  <2> HIDE DEF next, j
  <2>5. Legal(next)
    BY <1>1, <2>2, <2>3, <2>4 DEF Proper, Legal, Working, Idle
  <2>6. Fine(j, next)
    BY <2>3, <2>4, <2>5 DEF Fine, Same, Proper
  <2> QED BY <2>1, <2>6 DEF next, p, j
<1>10. CASE Drops(w)
  <2> DEFINE next == [j EXCEPT !.pc = "next", !.old = {}]
  <2>1. Go(w, next) /\ j.pc = "drop"
    BY <1>10 DEF Drops, Drop, DropFails, At
  <2>2. /\ Shaped(next) /\ next.kind = j.kind /\ next.file = j.file
        /\ next.plan = j.plan /\ next.base = j.base /\ next.given = j.given
        /\ next.ask = j.ask /\ next.source = j.source /\ next.text = j.text
        /\ next.docs = j.docs /\ next.pc = "next" /\ next.left = j.left
    BY <1>1 DEF Proper, Shaped
  <2> HIDE DEF next, j
  <2>3. Legal(next)
    BY <1>1, <2>1, <2>2 DEF Proper, Legal, Working, Idle
  <2> QED BY <1>4, <2>1, <2>2, <2>3 DEF j
<1>11. CASE Unlink(w) \/ HashPurges(w) \/ OwnDrops(w) \/ DropRow(w)
  <2>1. \E pc : /\ Then(w, pc)
                /\ \/ pc = "done"
                   \/ j.kind = "remove" /\ pc \in {"purge", "dropown", "droprow"}
                   \/ j.kind = "delete" /\ pc = "next"
                   \/ j.kind = "delete" /\ pc = "purge" /\ j.base \in Base
    <3>1. CASE Unlink(w)
      BY <1>1, <3>1 DEF Unlink, At, Proper, Legal, Working, Idle
    <3>2. CASE HashPurges(w)
      BY <1>1, <3>2 DEF HashPurges, PurgeHash, PurgeHashFails, AfterPurge, At, Proper, Legal,
                        Working, Idle
    <3>3. CASE OwnDrops(w)
      BY <1>1, <3>3 DEF OwnDrops, DropOwn, DropOwnFails, At, Proper, Legal, Working, Idle
    <3>4. CASE DropRow(w)
      BY <3>4 DEF DropRow
    <3> QED BY <1>11, <3>1, <3>2, <3>3, <3>4
  <2> QED BY <1>1, <1>2, <1>3, <2>1, PcLegal
<1>012. CASE EmptyFails(w) /\ j.kind = "reindex"
  <2> DEFINE plan == {p \in j.plan : p[1] # j.base}
             next == [j EXCEPT !.pc = "next", !.plan = plan]
  <2>1. Go(w, next) /\ plan \subseteq j.plan
    BY <1>012 DEF EmptyFails
  <2>2. /\ Shaped(next) /\ next.kind = j.kind
        /\ next.plan = plan /\ next.given = j.given /\ next.text = j.text
        /\ next.docs = j.docs /\ next.pc = "next" /\ next.left = j.left
    BY <1>1 DEF Proper, Shaped
  <2> HIDE DEF plan, next, j
  <2>3. Legal(next)
    BY <1>1, <1>2, <1>012, <2>1, <2>2 DEF Proper, Legal, Idle
  <2>4. Fine(j, next)
    BY <1>1, <1>012, <2>2, <2>3 DEF Fine, Same, Proper
  <2> QED BY <2>1, <2>4 DEF j
<1>12. CASE (Empties(w) \/ UnlinkAll(w)) /\ ~(EmptyFails(w) /\ j.kind = "reindex")
  <2>1. \E pc : /\ Then(w, pc)
                /\ \/ pc = "done"
                   \/ j.kind = "reset" /\ pc = "unlinkall"
                   \/ j.kind = "reindex" /\ pc = "next"
    BY <1>1, <1>12 DEF Empties, Empty, EmptyFails, UnlinkAll, At, Proper, Legal, Working, Idle
  <2> QED BY <1>1, <1>2, <1>3, <2>1, PcLegal
<1>13. CASE Purges(w)
  <2>1. j.pc = "purge" /\ j.kind \in {"update", "remove", "delete"} /\ j.base \in Base
    BY <1>1, <1>13 DEF Purges, Purge, PurgeFails, At, Proper, Legal, Working, Idle
  <2>2. \/ j.kind = "update" /\ Go(w, Process(j, j.base, None))
        \/ j.kind \in {"remove", "delete"} /\ Then(w, "purgehash")
    BY <1>13, <2>1 DEF Purges, Purge, PurgeFails, Then
  <2> QED BY <1>1, <1>2, <1>3, <2>1, <2>2, PcLegal, ProcessFine
<1>14. CASE BatchInserts(w)
  <2>1. CASE Then(w, "done")
    BY <1>3, <2>1
  <2>2. CASE Go(w, [j EXCEPT !.pc = "batchrow", !.left = j.plan])
    <3> DEFINE next == [j EXCEPT !.pc = "batchrow", !.left = j.plan]
    <3>1. Go(w, next) /\ j.pc = "batchinsert"
      BY <1>14, <2>2 DEF BatchInserts, BatchInsert, BatchPart, At
    <3>2. /\ Shaped(next) /\ next.kind = j.kind /\ next.file = j.file
          /\ next.plan = j.plan /\ next.base = j.base /\ next.given = j.given
          /\ next.ask = j.ask /\ next.source = j.source /\ next.text = j.text
          /\ next.docs = j.docs /\ next.pc = "batchrow" /\ next.left = j.plan
      BY <1>1 DEF Proper, Shaped
    <3> HIDE DEF next, j
    <3>3. Legal(next)
      BY <1>1, <3>1, <3>2 DEF Proper, Legal, Working, Idle
    <3> QED BY <1>4, <3>1, <3>2, <3>3 DEF j
  <2> QED BY <1>14, <2>1, <2>2 DEF BatchInserts, BatchInsert, BatchPart
<1>15. CASE BatchRow(w) \/ BatchLink(w)
  <2>0. j.pc \in {"batchrow", "batchlink"}
    BY <1>15 DEF BatchRow, BatchLink, At
  <2>1. /\ j.kind = "batch" /\ j.base \in Base /\ j.left \subseteq j.plan
        /\ j.plan \subseteq (Content \cup {None}) \X File
    BY <1>1, <2>0 DEF Proper, Legal, Working, Idle
  <2>2. \E l, pc : /\ Go(w, [j EXCEPT !.left = l, !.pc = pc])
                   /\ l \subseteq j.plan /\ pc \in {"batchrow", "batchlink", "done"}
    <3>0. ASSUME NEW l, NEW pc \in {"batchrow", "batchlink", "done"},
                 Go(w, [j EXCEPT !.left = l, !.pc = pc]), l = j.plan \/ l \subseteq j.left
          PROVE  \E m, c : /\ Go(w, [j EXCEPT !.left = m, !.pc = c])
                           /\ m \subseteq j.plan /\ c \in {"batchrow", "batchlink", "done"}
      BY <2>1, <3>0
    <3>1. CASE BatchRow(w)
      <4>1. PICK q \in j.left :
               Go(w, [j EXCEPT !.left = IF j.left = {q} THEN j.plan ELSE j.left \ {q},
                               !.pc = IF j.left = {q} THEN "batchlink" ELSE j.pc])
        BY <3>1 DEF BatchRow
      <4>2. CASE j.left = {q}
        BY <3>0, <4>1, <4>2
      <4>3. CASE j.left # {q}
        BY <2>0, <3>0, <4>1, <4>3
      <4> QED BY <4>2, <4>3
    <3>2. CASE BatchLink(w)
      <4>1. PICK q \in j.left :
               Go(w, [j EXCEPT !.left = j.left \ {q},
                               !.pc = IF j.left = {q} THEN "done" ELSE j.pc])
        BY <3>2 DEF BatchLink
      <4>2. CASE j.left = {q}
        BY <2>1, <3>0, <4>1, <4>2
      <4>3. CASE j.left # {q}
        BY <2>0, <2>1, <3>0, <4>1, <4>3
      <4> QED BY <4>2, <4>3
    <3> QED BY <1>15, <3>1, <3>2
  <2>02. PICK l : \E pc : /\ Go(w, [j EXCEPT !.left = l, !.pc = pc])
                   /\ l \subseteq j.plan /\ pc \in {"batchrow", "batchlink", "done"}
    BY <2>2
  <2>3. PICK pc : /\ Go(w, [j EXCEPT !.left = l, !.pc = pc])
                  /\ l \subseteq j.plan /\ pc \in {"batchrow", "batchlink", "done"}
    BY <2>02
  <2> DEFINE next == [j EXCEPT !.left = l, !.pc = pc]
  <2>4. /\ Shaped(next) /\ next.kind = j.kind /\ next.file = j.file
        /\ next.plan = j.plan /\ next.base = j.base /\ next.given = j.given
        /\ next.ask = j.ask /\ next.source = j.source /\ next.text = j.text
        /\ next.docs = j.docs /\ next.pc = pc /\ next.left = l
    BY <1>1 DEF Proper, Shaped
  <2> HIDE DEF next, j
  <2>5. next.pc = "done" \/ Legal(next)
    BY <1>1, <2>1, <2>3, <2>4 DEF Legal
  <2> QED BY <1>4, <2>3, <2>4, <2>5 DEF next, j
<1>16. CASE Turn(w)
  <2>1. j.pc = "next" /\ j.kind \in {"edit", "delete", "reindex"} /\ j.left \subseteq Base
    <3>1. j.pc = "next"
      BY <1>16 DEF Turn, At
    <3> QED BY <1>1, <3>1 DEF Proper, Legal, Working, Idle
  <2>2. ASSUME NEW k \in Base, NEW pc,
               \/ j.kind = "edit" /\ pc = "find"
               \/ j.kind = "delete" /\ pc = "unlink"
               \/ j.kind = "reindex" /\ pc = "empty",
               Go(w, [j EXCEPT !.pc = pc, !.base = k, !.left = @ \ {k}])
        PROVE  Goal
    <3> DEFINE next == [j EXCEPT !.pc = pc, !.base = k, !.left = @ \ {k}]
    <3>1. /\ Shaped(next) /\ next.kind = j.kind /\ next.file = j.file
          /\ next.plan = j.plan /\ next.base = k /\ next.given = j.given
          /\ next.text = j.text /\ next.docs = j.docs /\ next.pc = pc /\ next.left = j.left \ {k}
      BY <1>1 DEF Proper, Shaped
    <3> HIDE DEF next, j
    <3>2. Legal(next)
      BY <1>1, <2>1, <2>2, <3>1 DEF Proper, Legal, Working, Idle
    <3>3. Fine(j, next)
      BY <1>1, <3>1, <3>2 DEF Fine, Same, Proper
    <3> QED BY <2>2, <3>3 DEF next, j
  <2> DEFINE Taking(p) == [Process(j, p[1], None) EXCEPT !.file = p[2], !.plan = @ \ {p}]
  <2>3. ASSUME NEW p \in j.plan, j.kind = "reindex", Go(w, Taking(p))
        PROVE  Goal
    <3> DEFINE q == Process(j, p[1], None)
               next == [q EXCEPT !.file = p[2], !.plan = @ \ {p}]
    <3>1. p[1] \in Base /\ p[2] \in File /\ j.plan \subseteq Base \X File /\ j.given = None
      BY <1>1, <2>3 DEF Proper, Legal, Idle
    <3>2. /\ Shaped(q) /\ q.kind = j.kind /\ q.plan = j.plan /\ q.base = p[1] /\ q.given = None
          /\ q.text = j.text /\ q.docs = j.docs /\ q.pc = "read" /\ q.left = j.left
      BY <1>1 DEF Proper, Shaped, Process
    <3> HIDE DEF q
    <3>3. /\ Shaped(next) /\ next.kind = q.kind /\ next.file = p[2]
          /\ next.plan = q.plan \ {p} /\ next.base = q.base /\ next.given = q.given
          /\ next.text = q.text /\ next.docs = q.docs /\ next.pc = q.pc /\ next.left = q.left
      BY <3>2 DEF Shaped
    <3> HIDE DEF next, j
    <3>4. Legal(next)
      BY <2>1, <2>3, <3>1, <3>2, <3>3 DEF Legal, Working
    <3>5. Fine(j, next)
      BY <1>1, <2>3, <3>2, <3>3, <3>4 DEF Fine, Same, Proper
    <3> QED BY <2>3, <3>5 DEF next, q, j
  <2>4. ASSUME NEW pc, Then(w, pc),
               \/ pc = "done"
               \/ j.kind = "delete" /\ pc = "droprow"
        PROVE  Goal
    BY <1>1, <1>2, <1>3, <2>4, PcLegal
  <2>5. CASE j.kind \in {"edit", "delete"} /\ \E k \in j.left :
                Go(w, [j EXCEPT !.pc = IF j.kind = "edit" THEN "find" ELSE "unlink",
                                !.base = k, !.left = @ \ {k}])
    BY <2>1, <2>2, <2>5
  <2>6. CASE j.kind = "reindex" /\ \E k \in j.left :
                Go(w, [j EXCEPT !.pc = "empty", !.base = k, !.left = @ \ {k}])
    BY <2>1, <2>2, <2>6
  <2>7. CASE j.kind = "reindex" /\ \E p \in j.plan : Go(w, Taking(p))
    <3> HIDE DEF Taking
    <3> QED BY <2>3, <2>7
  <2>8. CASE j.kind = "delete" /\ Then(w, "droprow")
    BY <2>4, <2>8
  <2>9. CASE Then(w, "done")
    BY <2>4, <2>9
  <2> USE <1>16 DEF Turn
  <2>10. \/ j.kind \in {"edit", "delete"} /\ \E k \in j.left :
                Go(w, [j EXCEPT !.pc = IF j.kind = "edit" THEN "find" ELSE "unlink",
                                !.base = k, !.left = @ \ {k}])
         \/ j.kind = "reindex" /\ \E p \in j.plan : Go(w, Taking(p))
         \/ j.kind = "reindex" /\ \E k \in j.left :
                Go(w, [j EXCEPT !.pc = "empty", !.base = k, !.left = @ \ {k}])
         \/ Then(w, IF j.kind = "delete" THEN "droprow" ELSE "done")
    OBVIOUS
  <2>11. Then(w, IF j.kind = "delete" THEN "droprow" ELSE "done") =>
            \/ j.kind = "delete" /\ Then(w, "droprow")
            \/ Then(w, "done")
    OBVIOUS
  <2> QED BY <2>5, <2>6, <2>7, <2>8, <2>9, <2>10, <2>11
<1> QED BY <1>5, <1>6, <1>7, <1>8, <1>9, <1>10, <1>11, <1>012, <1>12, <1>13, <1>14, <1>15, <1>16

LEMMA StepFine ==
    ASSUME TypeOK, JobsOK, NEW w \in Worker, Step(w), KnowledgeAssumption
    PROVE  job[w] # Idle /\ \E next : Go(w, next) /\ Fine(job[w], next)
<1>1. \E next : Go(w, next) /\ Fine(job[w], next)
  <2>1. CASE \/ Read(w) \/ Gathers(w) \/ Write(w) \/ Checks(w) \/ Inserts(w) \/ Record(w) \/ Fail(w)
    BY <2>1, IndexingFine
  <2>2. CASE \/ Mark(w) \/ KeepMedia(w) \/ Link(w) \/ Bases(w) \/ Turn(w) \/ Finds(w) \/ Drops(w)
             \/ Unlink(w) \/ Purges(w) \/ HashPurges(w) \/ OwnDrops(w) \/ DropRow(w)
             \/ Empties(w) \/ UnlinkAll(w) \/ BatchInserts(w) \/ BatchRow(w) \/ BatchLink(w)
    BY <2>2, CallsFine
  <2> QED BY <2>1, <2>2, StepIs
<1>2. job[w].pc \in Working \cup
         {"mark", "media", "link", "bases", "next", "find", "drop", "unlink", "purge",
          "purgehash", "dropown", "droprow", "empty", "unlinkall", "batchinsert",
          "batchrow", "batchlink"}
  BY StepIs DEF Read, Gathers, Gather, GatherOverOld, GatherBlind, Write, Checks, Check,
       CheckBlind, CheckFails, Inserts, Insert, InsertPart, Record, Fail, Mark, KeepMedia,
       Link, Bases, Turn, Finds, Find, FindBlind, Drops, Drop, DropFails, Unlink, Purges,
       Purge, PurgeFails, HashPurges, PurgeHash, PurgeHashFails, OwnDrops, DropOwn,
       DropOwnFails, DropRow, Empties, Empty, EmptyFails, UnlinkAll, BatchInserts,
       BatchInsert, BatchPart, BatchRow, BatchLink, At, Working
<1> QED BY <1>1, <1>2, IdleShaped DEF Working

\* A request stays about the same files.
LEMMA AboutSame ==
    ASSUME NEW j, NEW next, Same(j, next)
    PROVE  About(next) = About(j)
BY DEF Same, About

LEMMA AboutIdle == About(Idle) = {None}
BY DEF About, Idle

-----------------------------------------------------------------------------
(* Requests are made and go on; what they are stays in order *)

\* A request begins with a call of process_file, or around it.
Opening(j) == /\ Proper(j) /\ j # Idle
              /\ j.pc \in {"read", "media", "purge", "unlink", "bases", "batchinsert",
                           "empty", "next"}
              /\ j.old = {} /\ (j.kind = "edit" => j.base = Own)

LEMMA AsksFine ==
    ASSUME TypeOK, JobsOK, NEW w \in Worker, Asks(w), KnowledgeAssumption
    PROVE  \E j : Start(w, j) /\ Opening(j)
<1>0. Shaped(Idle)
  BY IdleShaped
<1>1. CASE Upload(w)
  <2>0. PICK f \in File : \E k \in Base \cup {None} :
           \/ \E c \in Content :
                    Start(w, [Process(Idle, Own, None) EXCEPT
                                !.kind = "upload", !.file = f, !.source = c, !.ask = k])
           \/ Start(w, [Idle EXCEPT !.pc = "media", !.kind = "upload", !.file = f, !.ask = k])
    BY <1>1 DEF Upload
  <2>1. PICK k \in Base \cup {None} :
           \/ \E c \in Content :
                    Start(w, [Process(Idle, Own, None) EXCEPT
                                !.kind = "upload", !.file = f, !.source = c, !.ask = k])
           \/ Start(w, [Idle EXCEPT !.pc = "media", !.kind = "upload", !.file = f, !.ask = k])
    BY <2>0
  <2>2. ASSUME NEW c \in Content
        PROVE  LET j == [Process(Idle, Own, None) EXCEPT
                           !.kind = "upload", !.file = f, !.source = c, !.ask = k]
               IN  Opening(j)
    BY DEF Opening, Process, Idle, Proper, Shaped, Legal, Working
  <2>3. LET j == [Idle EXCEPT !.pc = "media", !.kind = "upload", !.file = f, !.ask = k]
        IN  Opening(j)
    BY DEF Opening, Idle, Proper, Shaped, Legal
  <2> QED BY <2>1, <2>2, <2>3
<1>2. CASE Edit(w)
  <2>0. PICK f \in File : \E c \in Content :
           \/ Start(w, [Process(Idle, Own, c) EXCEPT !.kind = "edit", !.file = f])
           \/ Start(w, [Process(Idle, Own, None) EXCEPT !.kind = "edit", !.file = f,
                                                        !.source = c])
    BY <1>2 DEF Edit
  <2>1. PICK c \in Content :
           \/ Start(w, [Process(Idle, Own, c) EXCEPT !.kind = "edit", !.file = f])
           \/ Start(w, [Process(Idle, Own, None) EXCEPT !.kind = "edit", !.file = f,
                                                        !.source = c])
    BY <2>0
  <2>02. ASSUME NEW j, Shaped(j), j.kind = "edit", j.file = f, j.pc = "read", j.base = Own,
                j.given = c \/ (j.given = None /\ j.source = c),
                j.left = {}, j.plan = {}, j.text = None, j.docs = {}, j.old = {}
         PROVE  Opening(j)
    <3>1. j # Idle
      BY <2>02 DEF Idle
    <3> QED BY <2>02, <3>1 DEF Opening, Proper, Legal, Working
  <2>2. CASE Start(w, [Process(Idle, Own, c) EXCEPT !.kind = "edit", !.file = f])
    <3> DEFINE j == [Process(Idle, Own, c) EXCEPT !.kind = "edit", !.file = f]
    <3>1. /\ Shaped(j) /\ j.kind = "edit" /\ j.file = f /\ j.pc = "read" /\ j.base = Own
          /\ j.given = c /\ j.left = {} /\ j.plan = {} /\ j.text = None /\ j.docs = {}
          /\ j.old = {}
      BY DEF Process, Idle, Shaped
    <3>2. Start(w, j)
      BY <2>2
    <3> HIDE DEF j
    <3> QED BY <2>02, <3>1, <3>2
  <2>3. CASE Start(w, [Process(Idle, Own, None) EXCEPT !.kind = "edit", !.file = f,
                                                      !.source = c])
    <3> DEFINE j == [Process(Idle, Own, None) EXCEPT !.kind = "edit", !.file = f, !.source = c]
    <3>1. /\ Shaped(j) /\ j.kind = "edit" /\ j.file = f /\ j.pc = "read" /\ j.base = Own
          /\ j.given = None /\ j.source = c /\ j.left = {} /\ j.plan = {} /\ j.text = None
          /\ j.docs = {} /\ j.old = {}
      BY DEF Process, Idle, Shaped
    <3>2. Start(w, j)
      BY <2>3
    <3> HIDE DEF j
    <3> QED BY <2>02, <3>1, <3>2
  <2> QED BY <2>1, <2>2, <2>3
<1>3. CASE AddOrUpdate(w)
  <2>1. PICK f \in File, k \in Base :
           \/ Start(w, [Process(Idle, k, None) EXCEPT !.kind = "add", !.file = f])
           \/ Start(w, [Idle EXCEPT !.pc = "purge", !.kind = "update", !.file = f, !.base = k])
    BY <1>3 DEF AddOrUpdate
  <2>2. LET j == [Process(Idle, k, None) EXCEPT !.kind = "add", !.file = f]
        IN  Opening(j)
    BY DEF Opening, Process, Idle, Proper, Shaped, Legal, Working
  <2>3. LET j == [Idle EXCEPT !.pc = "purge", !.kind = "update", !.file = f, !.base = k]
        IN  Opening(j)
    BY DEF Opening, Idle, Proper, Shaped, Legal, Working
  <2> QED BY <2>1, <2>2, <2>3
<1>4. CASE Remove(w)
  <2>1. PICK f \in File, k \in Base, whole \in BOOLEAN :
           Start(w, [Idle EXCEPT !.pc = "unlink", !.kind = "remove", !.file = f,
                                 !.base = k, !.hash = files[f].hash, !.whole = whole])
    BY <1>4 DEF Remove
  <2>2. LET j == [Idle EXCEPT !.pc = "unlink", !.kind = "remove", !.file = f,
                              !.base = k, !.hash = files[f].hash, !.whole = whole]
        IN  Opening(j)
    BY DEF Opening, Idle, Proper, Shaped, Legal, Working
  <2> QED BY <2>1, <2>2
<1>5. CASE Delete(w)
  <2>1. PICK f \in File :
           Start(w, [Idle EXCEPT !.pc = "bases", !.kind = "delete", !.file = f,
                                 !.hash = files[f].hash])
    BY <1>5 DEF Delete
  <2>2. LET j == [Idle EXCEPT !.pc = "bases", !.kind = "delete", !.file = f,
                              !.hash = files[f].hash]
        IN  Opening(j)
    BY DEF Opening, Idle, Proper, Shaped, Legal, Working
  <2> QED BY <2>1, <2>2
<1>6. CASE Batch(w)
  <2>1. PICK k \in Base, p \in SUBSET ((Content \cup {None}) \X File) :
           Start(w, [Idle EXCEPT !.pc = "batchinsert", !.kind = "batch", !.base = k, !.plan = p])
    <3>1. PICK fs \in SUBSET File, k \in Base :
             Start(w, [Idle EXCEPT !.pc = "batchinsert", !.kind = "batch", !.base = k,
                         !.plan = {<<files[f].content, f>> :
                                     f \in {g \in fs : <<k, g>> \notin linked}}])
      BY <1>6 DEF Batch
    <3>2. {<<files[f].content, f>> : f \in {g \in fs : <<k, g>> \notin linked}}
             \in SUBSET ((Content \cup {None}) \X File)
      <4>1. \A f \in File : files[f].content \in Content \cup {None}
        BY DEF TypeOK
      <4>2. \A f \in fs : <<files[f].content, f>> \in (Content \cup {None}) \X File
        BY <4>1
      <4> HIDE <4>1
      <4> QED BY <4>2
    <3> QED BY <3>1, <3>2
  <2>2. LET j == [Idle EXCEPT !.pc = "batchinsert", !.kind = "batch", !.base = k, !.plan = p]
        IN  Opening(j)
    BY DEF Opening, Idle, Proper, Shaped, Legal, Working
  <2> QED BY <2>1, <2>2
<1>7. CASE ResetOrReindex(w)
  <2>1. \/ \E k \in Base :
              Start(w, [Idle EXCEPT !.pc = "empty", !.kind = "reset", !.base = k])
        \/ Start(w, [Idle EXCEPT !.pc = "next", !.kind = "reindex", !.left = Base,
                                 !.plan = linked])
    BY <1>7 DEF ResetOrReindex
  <2>2. ASSUME NEW k \in Base
        PROVE  LET j == [Idle EXCEPT !.pc = "empty", !.kind = "reset", !.base = k]
               IN  Opening(j)
    BY DEF Opening, Idle, Proper, Shaped, Legal, Working
  <2>3. LET j == [Idle EXCEPT !.pc = "next", !.kind = "reindex", !.left = Base, !.plan = linked]
        IN  Opening(j)
    <3>1. linked \subseteq Base \X File
      BY DEF TypeOK
    <3> QED BY <3>1 DEF Opening, Idle, Proper, Shaped, Legal, Working
  <2> QED BY <2>1, <2>2, <2>3
<1> QED BY <1>1, <1>2, <1>3, <1>4, <1>5, <1>6, <1>7 DEF Asks

LEMMA StepJobs ==
    ASSUME BasicInv, NEW w \in Worker, Step(w), KnowledgeAssumption
    PROVE  /\ JobsOK' /\ Overlap'
           /\ \A v \in Worker : v # w => job'[v] = job[v]
           /\ job[w] # Idle
           /\ job'[w] # Idle => Same(job[w], job'[w]) /\ About(job'[w]) = About(job[w])
<1>1. job[w] # Idle /\ UNCHANGED together
  BY StepFine, StepIs DEF BasicInv, history
<1>2. PICK next : Go(w, next) /\ Fine(job[w], next)
  BY StepFine DEF BasicInv
<1>3. Moves(w, next)
  BY <1>2, GoMoves DEF BasicInv
<1>4. Proper(Idle)
  BY IdleShaped DEF Proper, Legal, Idle
<1>5. JobsOK'
  <2>1. \A v \in Worker : Proper(job'[v])
    BY <1>2, <1>3, <1>4 DEF Moves, Fine, BasicInv, JobsOK
  <2> QED BY <1>3, <2>1 DEF Moves, JobsOK, Proper, Shaped, Legal, About
<1>6. job'[w] # Idle => Same(job[w], job'[w]) /\ About(job'[w]) = About(job[w])
  BY <1>2, <1>3, AboutSame DEF Moves, Fine
<1>7. Overlap'
  <2>1. \A v \in Worker : v # w => job'[v] = job[v]
    BY <1>3 DEF Moves
  <2> SUFFICES ASSUME NEW u \in Worker, NEW v \in Worker, u # v, job'[u] # Idle, job'[v] # Idle,
                      NEW f \in About(job'[u]), NEW g \in About(job'[v])
               PROVE  {f, g} \in together
    BY <1>1 DEF Overlap, About
  <2>2. job[u] # Idle /\ f \in About(job[u]) /\ job[v] # Idle /\ g \in About(job[v])
    BY <1>1, <1>6, <2>1
  <2> QED BY <2>2 DEF BasicInv, Overlap
<1> QED BY <1>1, <1>3, <1>5, <1>6, <1>7 DEF Moves

LEMMA StartJobs ==
    ASSUME BasicInv, NEW w \in Worker, NEW j, Start(w, j), Opening(j)
    PROVE  /\ JobsOK' /\ Overlap'
           /\ \A v \in Worker : v # w => job'[v] = job[v]
           /\ job[w] = Idle /\ job'[w] = j
<1>1. /\ job[w] = Idle /\ job' = [job EXCEPT ![w] = j]
      /\ together' = together \cup
             UNION {{{f, g} : f \in About(j), g \in About(job[v])} : v \in Busy}
  BY DEF Start
<1>2. /\ \A v \in Worker : v # w => job'[v] = job[v]
      /\ job'[w] = j /\ job' = [v \in Worker |-> job'[v]]
  BY <1>1 DEF BasicInv, JobsOK
<1>3. JobsOK'
  BY <1>2 DEF BasicInv, JobsOK, Opening, Proper, Shaped, Legal, About
<1>4. ASSUME NEW v \in Worker, v # w, job[v] # Idle,
             NEW f \in About(j), NEW g \in About(job[v])
      PROVE  {f, g} \in together' /\ {g, f} \in together'
  <2>1. v \in Busy
    BY <1>4 DEF Busy
  <2>2. {f, g} \in {{e, h} : e \in About(j), h \in About(job[v])}
    OBVIOUS
  <2>3. {f, g} \in together'
    BY <1>1, <2>1, <2>2
  <2>4. {f, g} = {g, f}
    OBVIOUS
  <2> QED BY <2>3, <2>4
<1>5. Overlap'
  <2> SUFFICES ASSUME NEW u \in Worker, NEW v \in Worker, u # v, job'[u] # Idle, job'[v] # Idle,
                      NEW f \in About(job'[u]), NEW g \in About(job'[v])
               PROVE  {f, g} \in together'
    BY DEF Overlap, About
  <2>1. CASE u = w
    BY <1>2, <1>4, <2>1
  <2>2. CASE v = w
    BY <1>2, <1>4, <2>2
  <2>3. CASE u # w /\ v # w
    <3>1. {f, g} \in together
      BY <1>2, <2>3 DEF BasicInv, Overlap
    <3> QED BY <1>1, <3>1
  <2> QED BY <2>1, <2>2, <2>3
<1> QED BY <1>1, <1>2, <1>3, <1>5

-----------------------------------------------------------------------------
(* Rows, links and chunks stay in order *)

Rows == [status : {"unused", "pending", "completed", "failed", "deleted", "removed"},
         content : Content \cup {None}, hash : Content \cup {None}]

RowsOK  == files \in [File -> Rows]
LinksOK == linked \subseteq Base \X {f \in File : Exists(f)}
ChunksOK == \A c \in chunks : c.in \in Base \cup {c.file} /\ c.content \in Content

LEMMA TypeParts == TypeOK <=> RowsOK /\ LinksOK /\ ChunksOK
BY DEF TypeOK, RowsOK, Rows, LinksOK, ChunksOK

LEMMA RowFields ==
    ASSUME NEW r \in Rows
    PROVE  /\ r.content \in Content \cup {None} /\ r.hash \in Content \cup {None}
           /\ \A c \in Content \cup {None} : [r EXCEPT !.content = c] \in Rows
           /\ \A c, h \in Content \cup {None} :
                 [r EXCEPT !.content = c, !.hash = h] \in Rows
           /\ \A st \in {"completed", "failed"}, h \in Content \cup {None} :
                 /\ [r EXCEPT !.status = st] \in Rows
                 /\ [r EXCEPT !.status = st, !.hash = h] \in Rows
BY DEF Rows

\* Writing to a row that exists
LEMMA RowUpdated ==
    ASSUME RowsOK, NEW f \in File, NEW r \in Rows,
           files[f].status \in {"pending", "completed", "failed"} =>
              r.status \in {"pending", "completed", "failed"},
           files' = IF Exists(f) THEN [files EXCEPT ![f] = r] ELSE files
    PROVE  /\ RowsOK'
           /\ \A g \in File : Exists(g)' <=> Exists(g)
BY DEF RowsOK, Exists

LEMMA FileOf ==
    ASSUME NEW j, Proper(j), j.pc \in Working \cup {"mark", "media", "link", "find", "drop",
                                  "unlink", "purge", "purgehash", "dropown", "droprow"}
    PROVE  j.file \in File
BY DEF Proper, Legal, Working, Idle

LEMMA StepRows ==
    ASSUME TypeOK, JobsOK, NEW w \in Worker, Step(w), KnowledgeAssumption
    PROVE  RowsOK' /\ ((\A g \in File : Exists(g)' <=> Exists(g)) \/ DropRow(w))
<1> DEFINE j == job[w]
<1>1. RowsOK /\ Proper(j)
  BY TypeParts DEF JobsOK
<1>2. CASE UNCHANGED files
  BY <1>1, <1>2 DEF RowsOK, Exists
<1>3. CASE Write(w) \/ Record(w) \/ Fail(w) \/ Mark(w) \/ KeepMedia(w)
  <2>1. j.file \in File
    <3>1. j.pc \in Working \cup {"mark", "media"}
      BY <1>3 DEF Write, Record, Fail, Mark, KeepMedia, At, Working
    <3> QED BY <1>1, <3>1, FileOf
  <2>2. files[j.file] \in Rows /\ j.text \in Content \cup {None}
    BY <1>1, <2>1 DEF RowsOK, Proper
  <2>3. \E r : /\ r \in Rows
               /\ files[j.file].status \in {"pending", "completed", "failed"} =>
                     r.status \in {"pending", "completed", "failed"}
               /\ files' = IF Exists(j.file) THEN [files EXCEPT ![j.file] = r] ELSE files
    <3>1. CASE Write(w)
      <4> DEFINE r == [files[j.file] EXCEPT !.content = j.text]
      <4>1. r \in Rows /\ r.status = files[j.file].status
        BY <2>2, RowFields DEF Rows
      <4>2. files' = IF Exists(j.file) THEN [files EXCEPT ![j.file] = r] ELSE files
        BY <3>1 DEF Write
      <4> HIDE DEF r, j
      <4> QED BY <4>1, <4>2
    <3>2. CASE Record(w) \/ Fail(w)
      <4>1. PICK st \in {"completed", "failed"}, h \in {j.text, None} :
               files' = IF Exists(j.file)
                        THEN [files EXCEPT ![j.file] = [files[j.file] EXCEPT !.status = st,
                                                                             !.hash = h]]
                        ELSE files
        BY <3>2 DEF Record, Fail
      <4> DEFINE r == [files[j.file] EXCEPT !.status = st, !.hash = h]
      <4>2. r \in Rows /\ r.status = st
        BY <2>2, RowFields DEF Rows
      <4> HIDE DEF r, j
      <4> QED BY <4>1, <4>2 DEF r
    <3>3. CASE Mark(w) \/ KeepMedia(w)
      <4>1. PICK st \in {"completed", "failed"} :
               files' = IF Exists(j.file)
                        THEN [files EXCEPT ![j.file] = [files[j.file] EXCEPT !.status = st]]
                        ELSE files
        BY <3>3 DEF Mark, KeepMedia
      <4> DEFINE r == [files[j.file] EXCEPT !.status = st]
      <4>2. r \in Rows /\ r.status = st
        BY <2>2, RowFields DEF Rows
      <4> HIDE DEF r, j
      <4> QED BY <4>1, <4>2 DEF r
    <3> QED BY <1>3, <3>1, <3>2, <3>3
  <2> QED BY <1>1, <2>1, <2>3, RowUpdated
<1>4. CASE BatchRow(w)
  <2>1. PICK p \in j.left :
           files' = IF Exists(p[2])
                    THEN [files EXCEPT ![p[2]] = [files[p[2]] EXCEPT !.content = p[1],
                                                                     !.hash = p[1]]]
                    ELSE files
    BY <1>4 DEF BatchRow
  <2>2. p[1] \in Content \cup {None} /\ p[2] \in File
    <3>1. j.pc = "batchrow"
      BY <1>4 DEF BatchRow, At
    <3> QED BY <1>1, <3>1 DEF Proper, Legal, Working, Idle
  <2> DEFINE f == p[2]
             r == [files[f] EXCEPT !.content = p[1], !.hash = p[1]]
  <2>3. r \in Rows /\ r.status = files[f].status
    <3>1. files[f] \in Rows
      BY <1>1, <2>2 DEF RowsOK
    <3>2. r \in Rows
      BY <2>2, <3>1, RowFields
    <3>3. r.status = files[f].status
      BY <3>1 DEF Rows
    <3> QED BY <3>2, <3>3
  <2>4. files' = IF Exists(f) THEN [files EXCEPT ![f] = r] ELSE files
    BY <2>1
  <2> HIDE DEF f, r
  <2>5. f \in File
    BY <2>2 DEF f
  <2> QED BY <1>1, <2>3, <2>4, <2>5, RowUpdated
<1>5. CASE DropRow(w)
  <2>1. PICK why \in {"deleted", "removed"} :
           files' = IF Exists(j.file) THEN [files EXCEPT ![j.file] = Missing(why)] ELSE files
    BY <1>5 DEF DropRow
  <2>2. Missing(why) \in Rows
    BY DEF Missing, Row, Rows
  <2> QED BY <1>1, <1>5, <2>1, <2>2 DEF RowsOK
<1> QED BY <1>2, <1>3, <1>4, <1>5, StepIs DEF Read, Gathers, Gather, GatherOverOld,
     GatherBlind, Checks, Check, CheckBlind, CheckFails, Inserts, Insert, InsertPart, Link,
     Bases, Turn, Finds, Find, FindBlind, Drops, Drop, DropFails, Unlink, Purges, Purge,
     PurgeFails, HashPurges, PurgeHash, PurgeHashFails, OwnDrops, DropOwn, DropOwnFails,
     Empties, Empty, EmptyFails, UnlinkAll, BatchInserts, BatchInsert, BatchPart, BatchLink,
     store

LEMMA StepLinks ==
    ASSUME TypeOK, JobsOK, NEW w \in Worker, Step(w), KnowledgeAssumption
    PROVE  LinksOK'
<1> DEFINE j == job[w]
<1>1. LinksOK /\ Proper(j)
  BY TypeParts DEF JobsOK
<1>2. CASE DropRow(w)
  <2>1. \A f \in File : f # j.file /\ Exists(f) => Exists(f)'
    BY <1>2, TypeParts DEF DropRow, Exists, RowsOK
  <2>2. linked' = {p \in linked : p[2] # j.file}
    BY <1>2 DEF DropRow
  <2> QED BY <1>1, <2>1, <2>2 DEF LinksOK
<1>3. ASSUME ~DropRow(w) PROVE \A g \in File : Exists(g)' <=> Exists(g)
  BY <1>3, StepRows
<1>4. CASE ~DropRow(w) /\ linked' \subseteq linked
  BY <1>1, <1>3, <1>4 DEF LinksOK
<1>5. ASSUME NEW k \in Base, NEW f \in File, ~DropRow(w),
             linked' = IF Exists(f) THEN linked \cup {<<k, f>>} ELSE linked
      PROVE  LinksOK'
  BY <1>1, <1>3, <1>5 DEF LinksOK
<1>6. CASE Link(w)
  <2>1. j.pc = "link"
    BY <1>6 DEF Link, At
  <2>2. /\ j.file \in File
        /\ IF j.kind = "upload" THEN j.ask \in Base ELSE j.base \in Base
    BY <1>1, <2>1 DEF Proper, Legal, Working, Idle
  <2>3. ~DropRow(w)
    BY <2>1 DEF DropRow, At
  <2> QED BY <1>5, <1>6, <2>2, <2>3 DEF Link
<1>7. CASE BatchLink(w)
  <2>1. j.pc = "batchlink"
    BY <1>7 DEF BatchLink, At
  <2>2. j.base \in Base /\ \A p \in j.left : p[2] \in File
    BY <1>1, <2>1 DEF Proper, Legal, Working, Idle
  <2>3. ~DropRow(w)
    BY <2>1 DEF DropRow, At
  <2>4. PICK p \in j.left :
           linked' = IF Exists(p[2]) THEN linked \cup {<<j.base, p[2]>>} ELSE linked
    BY <1>7 DEF BatchLink
  <2> QED BY <1>5, <2>2, <2>3, <2>4
<1>8. linked' \subseteq linked \/ Link(w) \/ BatchLink(w)
  BY StepIs DEF Read, Gathers, Gather, GatherOverOld, GatherBlind, Write, Checks, Check,
       CheckBlind, CheckFails, Inserts, Insert, InsertPart, Record, Fail, Mark, KeepMedia,
       Bases, Turn, Finds, Find, FindBlind, Drops, Drop, DropFails, Unlink, Purges, Purge,
       PurgeFails, HashPurges, PurgeHash, PurgeHashFails, OwnDrops, DropOwn, DropOwnFails,
       DropRow, Empties, Empty, EmptyFails, UnlinkAll, BatchInserts, BatchInsert, BatchPart,
       BatchRow, store
<1> QED BY <1>2, <1>4, <1>6, <1>7, <1>8

LEMMA StepChunks ==
    ASSUME TypeOK, JobsOK, NEW w \in Worker, Step(w), KnowledgeAssumption
    PROVE  ChunksOK'
<1> DEFINE j == job[w]
<1>1. ChunksOK /\ Proper(j)
  BY TypeParts DEF JobsOK
<1>2. CASE chunks' \subseteq chunks
  BY <1>1, <1>2 DEF ChunksOK
<1>3. CASE Inserts(w)
  <2>1. j.pc = "insert"
    BY <1>3 DEF Inserts, Insert, InsertPart, At
  <2>2. (j.base = Own \/ j.base \in Base) /\ j.docs \subseteq Content
    BY <1>1, <2>1 DEF Proper, Legal, Working, Idle
  <2>3. Place(j.base, j.file) \in Base \cup {j.file}
    BY <2>2 DEF Place
  <2>4. \/ chunks' = chunks
        \/ chunks' = chunks \cup
               {[id |-> Fresh, in |-> Place(j.base, j.file), file |-> j.file,
                 content |-> x, hash |-> j.text] : x \in j.docs}
    BY <1>3 DEF Inserts, Insert, InsertPart, Made
  <2> HIDE DEF j
  <2> QED BY <1>1, <2>2, <2>3, <2>4 DEF ChunksOK
<1>4. CASE BatchInserts(w)
  <2>1. j.pc = "batchinsert"
    BY <1>4 DEF BatchInserts, BatchInsert, BatchPart, At
  <2>2. j.base \in Base /\ j.plan \subseteq (Content \cup {None}) \X File
    BY <1>1, <2>1 DEF Proper, Legal, Working, Idle
  <2>3. \/ chunks' = chunks
        \/ \E some \in SUBSET {q \in j.plan : q[1] # None} :
              chunks' = chunks \cup
                 {[id |-> Fresh, in |-> j.base, file |-> p[2], content |-> p[1],
                   hash |-> None] : p \in some}
    BY <1>4 DEF BatchInserts, BatchInsert, BatchPart
  <2>4. \A p \in {q \in j.plan : q[1] # None} : p[1] \in Content
    BY <2>2
  <2> HIDE DEF j
  <2> QED BY <1>1, <2>2, <2>3, <2>4 DEF ChunksOK
<1>5. chunks' \subseteq chunks \/ Inserts(w) \/ BatchInserts(w)
  BY StepIs DEF Read, Gathers, Gather, GatherOverOld, GatherBlind, Write, Checks, Check,
       CheckBlind, CheckFails, Record, Fail, Mark, KeepMedia, Link, Bases, Turn, Finds, Find,
       FindBlind, Drops, Drop, DropFails, Unlink, Purges, Purge, PurgeFails, HashPurges,
       PurgeHash, PurgeHashFails, OwnDrops, DropOwn, DropOwnFails, DropRow, Empties, Empty,
       EmptyFails, UnlinkAll, BatchRow, BatchLink, store
<1> QED BY <1>2, <1>3, <1>4, <1>5

LEMMA StepBasic ==
    ASSUME BasicInv, NEW w \in Worker, Step(w), KnowledgeAssumption
    PROVE  BasicInv'
<1>1. TypeOK'
  <2>1. RowsOK' /\ LinksOK' /\ ChunksOK'
    BY StepRows, StepLinks, StepChunks DEF BasicInv
  <2> QED BY <2>1 DEF TypeOK, RowsOK, Rows, LinksOK, ChunksOK, Exists
<1> QED BY <1>1, StepJobs DEF BasicInv

LEMMA AsksBasic ==
    ASSUME BasicInv, NEW w \in Worker, Asks(w), KnowledgeAssumption
    PROVE  BasicInv'
<1>1. JobsOK' /\ Overlap'
  BY AsksFine, StartJobs DEF BasicInv
<1>2. UNCHANGED <<linked, chunks>>
  <2>1. PICK j : Start(w, j)
    BY AsksFine DEF BasicInv
  <2> QED BY <2>1 DEF Start
<1>3. RowsOK' /\ \A f \in File : Exists(f) => Exists(f)'
  <2>1. CASE UNCHANGED files
    BY <2>1, TypeParts DEF BasicInv, RowsOK, Exists
  <2>2. CASE Upload(w)
    <3>1. PICK f \in File : files[f].status = "unused"
                            /\ files' = [files EXCEPT ![f] = Row("pending", None, None)]
      BY <2>2 DEF Upload
    <3>2. Row("pending", None, None) \in Rows
      BY DEF Row, Rows
    <3> QED BY <3>1, <3>2, TypeParts DEF BasicInv, RowsOK, Exists, Row
  <2> QED BY <2>1, <2>2 DEF Asks, Edit, AddOrUpdate, Remove, Delete, Batch, ResetOrReindex
<1>4. LinksOK' /\ ChunksOK'
  BY <1>2, <1>3, TypeParts DEF BasicInv, LinksOK, ChunksOK
<1>5. TypeOK'
  BY <1>3, <1>4 DEF TypeOK, RowsOK, Rows, LinksOK, ChunksOK, Exists
<1> QED BY <1>1, <1>5 DEF BasicInv

LEMMA CrashBasic ==
    ASSUME BasicInv, Crash
    PROVE  BasicInv'
<1>1. job' = [w \in Worker |-> Idle] /\ UNCHANGED <<files, linked, chunks, together>>
  BY DEF Crash, store
<1>2. Proper(Idle)
  BY IdleShaped DEF Proper, Legal, Idle
<1>3. JobsOK'
  BY <1>1, <1>2 DEF JobsOK, Proper, Shaped, Legal
<1>4. Overlap'
  BY <1>1 DEF Overlap
<1>5. TypeOK'
  BY <1>1 DEF BasicInv, TypeOK, Exists
<1> QED BY <1>3, <1>4, <1>5 DEF BasicInv

LEMMA NextBasic == BasicInv /\ KnowledgeAssumption /\ [Next]_vars => BasicInv'
<1> SUFFICES ASSUME BasicInv, KnowledgeAssumption, [Next]_vars PROVE BasicInv'
  OBVIOUS
<1>1. CASE UNCHANGED vars
  BY <1>1 DEF vars, store, history, BasicInv, TypeOK, Exists, JobsOK, Proper, Shaped, Legal,
              Overlap, About
<1>2. CASE Next
  BY <1>2, StepBasic, AsksBasic, CrashBasic DEF Next
<1> QED BY <1>1, <1>2

LEMMA InitBasic == Init /\ KnowledgeAssumption => BasicInv
<1> SUFFICES ASSUME Init, KnowledgeAssumption PROVE BasicInv
  OBVIOUS
<1>1. PICK start \in [File -> Content \cup {None}] :
        /\ files = [f \in File |-> IF f \in {g \in File : start[g] # None}
                                   THEN Row("completed", start[f], start[f])
                                   ELSE Missing("unused")]
        /\ linked \in SUBSET (Base \X {g \in File : start[g] # None})
        /\ chunks = {[id |-> 0, in |-> f, file |-> f, content |-> start[f], hash |-> start[f]] :
                       f \in {g \in File : start[g] # None}}
                \cup {[id |-> 0, in |-> p[1], file |-> p[2], content |-> start[p[2]],
                       hash |-> start[p[2]]] : p \in linked}
  BY DEF Init
<1>2. RowsOK
  BY <1>1 DEF RowsOK, Rows, Row, Missing
<1>3. \A f \in File : start[f] # None => Exists(f)
  BY <1>1 DEF Exists, Row
<1>4. LinksOK
  BY <1>1, <1>3 DEF LinksOK
<1>5. ChunksOK
  <2> SUFFICES ASSUME NEW c \in chunks PROVE c.in \in Base \cup {c.file} /\ c.content \in Content
    BY DEF ChunksOK
  <2>1. CASE \E f \in {g \in File : start[g] # None} :
               c = [id |-> 0, in |-> f, file |-> f, content |-> start[f], hash |-> start[f]]
    BY <2>1
  <2>2. CASE \E p \in linked : c = [id |-> 0, in |-> p[1], file |-> p[2], content |-> start[p[2]],
                                    hash |-> start[p[2]]]
    BY <1>1, <2>2
  <2> QED BY <1>1, <2>1, <2>2
<1>6. Proper(Idle)
  BY IdleShaped DEF Proper, Legal, Idle
<1>7. JobsOK /\ Overlap
  BY <1>6 DEF Init, JobsOK, Overlap
<1> QED BY <1>2, <1>4, <1>5, <1>7, TypeParts DEF BasicInv

-----------------------------------------------------------------------------
(* Where a request is after a step *)

LEMMA PcAfter ==
    ASSUME JobsOK, NEW w \in Worker, NEW next, Go(w, next), Shaped(next)
    PROVE  job'[w].pc = IF next.pc = "done" THEN "idle" ELSE next.pc
BY GoMoves, IdleShaped DEF Moves

LEMMA ThenPc ==
    ASSUME JobsOK, NEW w \in Worker, NEW pc, Then(w, pc)
    PROVE  job'[w].pc = IF pc = "done" THEN "idle" ELSE pc
<1> DEFINE next == [job[w] EXCEPT !.pc = pc]
<1>1. Go(w, next) /\ Shaped(next) /\ next.pc = pc
  BY DEF Then, JobsOK, Proper, Shaped
<1> HIDE DEF next
<1> QED BY <1>1, PcAfter

LEMMA ReturnPc ==
    ASSUME JobsOK, NEW w \in Worker, NEW ok \in BOOLEAN, Return(w, After(job[w], ok))
    PROVE  /\ job'[w].pc \in {"drop", "next", "bases", "link", "mark", "idle"}
           /\ job'[w].pc = "drop" => ok
<1> DEFINE next == [job[w] EXCEPT !.pc = After(job[w], ok), !.given = None, !.text = None,
                                  !.docs = {}]
<1>1. Go(w, next) /\ Shaped(next) /\ next.pc = After(job[w], ok)
  BY DEF Return, JobsOK, Proper, Shaped
<1>2. /\ After(job[w], ok) \in {"drop", "next", "bases", "link", "mark", "done"}
      /\ After(job[w], ok) = "drop" => ok
  BY DEF After
<1> HIDE DEF next
<1> QED BY <1>1, <1>2, PcAfter

\* Which step brings a request to a step of process_file.
LEMMA Arrives ==
    ASSUME JobsOK, NEW w \in Worker, Step(w)
    PROVE  /\ job'[w].pc = "read" => \/ Link(w) \/ Purges(w) \/ Finds(w)
                                     \/ Turn(w) /\ job[w].kind = "reindex"
           /\ job'[w].pc = "gather" => Read(w)
           /\ job'[w].pc = "write" => Gathers(w)
           /\ job'[w].pc = "check" => Write(w)
           /\ job'[w].pc = "insert" => Checks(w)
           /\ job'[w].pc = "record" => Checks(w) \/ Inserts(w)
           /\ job'[w].pc = "drop" => Record(w)
           /\ job'[w].pc = "fail" => Gathers(w) \/ Checks(w) \/ Inserts(w)
<1> DEFINE j == job[w]
           P == job'[w].pc
           Far == {"mark", "link", "bases", "next", "find", "unlink", "purge", "purgehash",
                   "dropown", "droprow", "empty", "unlinkall", "batchrow", "batchlink", "idle"}
<1>0. Shaped(j)
  BY DEF JobsOK, Proper
<1>1. CASE Read(w)
  <2>1. CASE Exists(j.file)
    <3>1. Go(w, [j EXCEPT !.pc = "gather", !.text = files[j.file].content])
      BY <1>1, <2>1 DEF Read
    <3>2. LET n == [j EXCEPT !.pc = "gather", !.text = files[j.file].content]
          IN  Shaped(n) /\ n.pc = "gather"
      BY <1>0 DEF Shaped
    <3>3. P = "gather"
      BY <3>1, <3>2, PcAfter
    <3> QED BY <1>1, <3>3
  <2>2. CASE ~Exists(j.file)
    <3>1. Return(w, After(j, FALSE))
      BY <1>1, <2>2 DEF Read
    <3>2. P \in {"next", "bases", "link", "mark", "idle"}
      BY <3>1, ReturnPc
    <3> QED BY <1>1, <3>2
  <2> QED BY <2>1, <2>2
<1>2. CASE Gathers(w)
  <2>1. \E docs, text :
           \/ Go(w, [j EXCEPT !.pc = "write", !.docs = docs, !.text = text])
           \/ Go(w, [j EXCEPT !.pc = "write", !.docs = docs])
           \/ Then(w, "fail")
    BY <1>2 DEF Gathers, Gather, GatherOverOld, GatherBlind
  <2>2. ASSUME NEW docs, NEW text
        PROVE  LET n == [j EXCEPT !.pc = "write", !.docs = docs]
                   m == [j EXCEPT !.pc = "write", !.docs = docs, !.text = text]
               IN  Shaped(n) /\ n.pc = "write" /\ Shaped(m) /\ m.pc = "write"
    BY <1>0 DEF Shaped
  <2>3. P \in {"write", "fail"}
    <3>0. PICK docs : \E text :
             \/ Go(w, [j EXCEPT !.pc = "write", !.docs = docs, !.text = text])
             \/ Go(w, [j EXCEPT !.pc = "write", !.docs = docs])
             \/ Then(w, "fail")
      BY <2>1
    <3>1. PICK text :
             \/ Go(w, [j EXCEPT !.pc = "write", !.docs = docs, !.text = text])
             \/ Go(w, [j EXCEPT !.pc = "write", !.docs = docs])
             \/ Then(w, "fail")
      BY <3>0
    <3>2. CASE Then(w, "fail")
      BY <3>2, ThenPc
    <3>3. ASSUME NEW next, Go(w, next), Shaped(next), next.pc = "write" PROVE P = "write"
      BY <3>3, PcAfter
    <3> HIDE DEF P
    <3> QED BY <2>2, <3>1, <3>2, <3>3
  <2> QED BY <1>2, <2>3
<1>3. CASE Write(w)
  <2>1. P = "check"
    BY <1>3, ThenPc DEF Write
  <2> QED BY <1>3, <2>1
<1>4. CASE Checks(w)
  <2>1. \E pc \in {"fail", "record", "insert"} : Then(w, pc)
    BY <1>4 DEF Checks, Check, CheckBlind, CheckFails, Admitted
  <2>2. P \in {"fail", "record", "insert"}
    BY <2>1, ThenPc
  <2> QED BY <1>4, <2>2
<1>5. CASE Inserts(w)
  <2>1. P \in {"record", "fail"}
    BY <1>5, ThenPc DEF Inserts, Insert, InsertPart
  <2> QED BY <1>5, <2>1
<1>6. CASE Record(w) \/ Fail(w)
  <2>1. /\ P \in {"drop", "next", "bases", "link", "mark", "idle"}
        /\ P = "drop" => Record(w)
    BY <1>6, ReturnPc DEF Record, Fail
  <2> QED BY <1>6, <2>1
<1>7. ASSUME P \in Far PROVE P \notin {"read", "gather", "write", "check", "insert", "record", "drop", "fail"}
  BY <1>7
<1>08. CASE EmptyFails(w) /\ j.kind = "reindex"
  <2> DEFINE plan == {p \in j.plan : p[1] # j.base}
             next == [j EXCEPT !.pc = "next", !.plan = plan]
  <2>1. Go(w, next)
    BY <1>08 DEF EmptyFails
  <2>2. Shaped(next) /\ next.pc = "next"
    BY <1>0 DEF Shaped
  <2> HIDE DEF next
  <2>3. P = "next"
    BY <2>1, <2>2, PcAfter
  <2> QED BY <1>7, <2>3
<1>8. CASE /\ \/ Mark(w) \/ KeepMedia(w) \/ Unlink(w) \/ HashPurges(w) \/ OwnDrops(w)
              \/ DropRow(w) \/ Empties(w) \/ UnlinkAll(w)
           /\ ~(EmptyFails(w) /\ j.kind = "reindex")
  <2>1. \E pc \in Far \cup {"done"} : Then(w, pc)
    BY <1>8 DEF Mark, KeepMedia, Unlink, HashPurges, PurgeHash, PurgeHashFails, OwnDrops, DropOwn, DropOwnFails, DropRow, Empties, Empty, EmptyFails, UnlinkAll, AfterPurge
  <2>2. P \in Far
    BY <2>1, ThenPc
  <2> QED BY <1>7, <2>2
<1>9. ASSUME NEW next, Go(w, next), Shaped(next), next.pc \in Far \cup {"done"} PROVE P \in Far
  BY <1>9, PcAfter
<1>10. ASSUME NEW k PROVE Shaped(Process(j, k, None)) /\ Process(j, k, None).pc = "read"
  BY <1>0 DEF Process, Shaped
<1>11. CASE Link(w)
  <2>1. (\E k : Go(w, Process(j, k, None))) \/ Then(w, "done")
    BY <1>11 DEF Link, Then
  <2>2. P = "read" \/ P \in Far
    BY <1>10, <2>1, ThenPc, PcAfter
  <2> QED BY <1>7, <1>11, <2>2
<1>12. CASE Purges(w)
  <2>1. (\E k : Go(w, Process(j, k, None))) \/ Then(w, "purgehash")
    BY <1>12 DEF Purges, Purge, PurgeFails, Then
  <2>2. P = "read" \/ P \in Far
    BY <1>10, <2>1, ThenPc, PcAfter
  <2> QED BY <1>7, <1>12, <2>2
<1>13. CASE Bases(w) \/ Drops(w)
  <2>1. \E l : \/ Go(w, [j EXCEPT !.pc = "next", !.left = l])
               \/ Go(w, [j EXCEPT !.pc = "next", !.old = {}])
    BY <1>13 DEF Bases, Drops, Drop, DropFails
  <2>2. ASSUME NEW l
        PROVE  LET n == [j EXCEPT !.pc = "next", !.left = l]
                   m == [j EXCEPT !.pc = "next", !.old = {}]
               IN  Shaped(n) /\ n.pc = "next" /\ Shaped(m) /\ m.pc = "next"
    BY <1>0 DEF Shaped
  <2>3. P \in Far
    BY <1>9, <2>1, <2>2
  <2> QED BY <1>7, <2>3
<1>14. CASE Finds(w)
  <2>1. \E k, o : Go(w, [Process(j, k, None) EXCEPT !.old = o])
    BY <1>14 DEF Finds, Find, FindBlind
  <2>2. ASSUME NEW k, NEW o
        PROVE  LET n == [Process(j, k, None) EXCEPT !.old = o]
               IN  Shaped(n) /\ n.pc = "read"
    BY <1>10 DEF Shaped
  <2>3. P = "read"
    <3>1. PICK k : \E o : Go(w, [Process(j, k, None) EXCEPT !.old = o])
      BY <2>1
    <3>2. PICK o : Go(w, [Process(j, k, None) EXCEPT !.old = o])
      BY <3>1
    <3> DEFINE n == [Process(j, k, None) EXCEPT !.old = o]
    <3>3. Go(w, n) /\ Shaped(n) /\ n.pc = "read"
      BY <2>2, <3>2
    <3> HIDE DEF n
    <3> QED BY <3>3, PcAfter
  <2> QED BY <1>14, <2>3
<1>15. CASE Turn(w)
  <2>1. \/ \E k, pc : /\ Go(w, [j EXCEPT !.pc = pc, !.base = k, !.left = @ \ {k}])
                      /\ pc \in {"find", "unlink", "empty"}
        \/ /\ j.kind = "reindex"
           /\ \E p : Go(w, [Process(j, p[1], None) EXCEPT !.file = p[2], !.plan = @ \ {p}])
        \/ Then(w, IF j.kind = "delete" THEN "droprow" ELSE "done")
    BY <1>15 DEF Turn
  <2>2. ASSUME NEW k, NEW pc, pc \in {"find", "unlink", "empty"}
        PROVE  LET n == [j EXCEPT !.pc = pc, !.base = k, !.left = @ \ {k}]
               IN  Shaped(n) /\ n.pc = pc
    BY <1>0 DEF Shaped
  <2>3. ASSUME NEW p
        PROVE  LET n == [Process(j, p[1], None) EXCEPT !.file = p[2], !.plan = @ \ {p}]
               IN  Shaped(n) /\ n.pc = "read"
    BY <1>10 DEF Shaped
  <2>4. P \in Far \/ (j.kind = "reindex" /\ P = "read")
    <3>1. CASE \E k, pc : /\ Go(w, [j EXCEPT !.pc = pc, !.base = k, !.left = @ \ {k}])
                          /\ pc \in {"find", "unlink", "empty"}
      <4>1. PICK k, pc : /\ Go(w, [j EXCEPT !.pc = pc, !.base = k, !.left = @ \ {k}])
                         /\ pc \in {"find", "unlink", "empty"}
        BY <3>1
      <4> QED BY <1>9, <2>2, <4>1
    <3>2. CASE /\ j.kind = "reindex"
               /\ \E p : Go(w, [Process(j, p[1], None) EXCEPT !.file = p[2], !.plan = @ \ {p}])
      <4>1. PICK p : Go(w, [Process(j, p[1], None) EXCEPT !.file = p[2], !.plan = @ \ {p}])
        BY <3>2
      <4> QED BY <2>3, <3>2, <4>1, PcAfter
    <3>3. CASE Then(w, IF j.kind = "delete" THEN "droprow" ELSE "done")
      <4>1. Then(w, "droprow") \/ Then(w, "done")
        BY <3>3
      <4> QED BY <4>1, ThenPc
    <3> QED BY <2>1, <3>1, <3>2, <3>3
  <2>5. CASE P \in Far
    BY <1>7, <2>5
  <2>6. CASE j.kind = "reindex" /\ P = "read"
    BY <1>15, <2>6
  <2> QED BY <2>4, <2>5, <2>6
<1>16. CASE BatchInserts(w) \/ BatchRow(w) \/ BatchLink(w)
  <2>1. \/ Then(w, "done")
        \/ \E l, pc : /\ Go(w, [j EXCEPT !.pc = pc, !.left = l])
                      /\ pc \in {"batchrow", "batchlink", "done"}
        \/ \E l, pc : /\ Go(w, [j EXCEPT !.left = l, !.pc = pc])
                      /\ pc \in {"batchrow", "batchlink", "done"}
    <3>1. CASE BatchInserts(w)
      BY <3>1 DEF BatchInserts, BatchInsert, BatchPart
    <3>2. CASE BatchRow(w)
      <4>1. PICK q : Go(w, [j EXCEPT !.left = IF @ = {q} THEN j.plan ELSE @ \ {q},
                                     !.pc = IF j.left = {q} THEN "batchlink" ELSE @])
                     /\ j.pc = "batchrow"
        BY <3>2 DEF BatchRow, At
      <4>2. (IF j.left = {q} THEN "batchlink" ELSE j.pc) \in {"batchrow", "batchlink", "done"}
        BY <4>1
      <4> QED BY <4>1, <4>2
    <3>3. CASE BatchLink(w)
      <4>1. PICK q : Go(w, [j EXCEPT !.left = @ \ {q}, !.pc = IF j.left = {q} THEN "done" ELSE @])
                     /\ j.pc = "batchlink"
        BY <3>3 DEF BatchLink, At
      <4>2. (IF j.left = {q} THEN "done" ELSE j.pc) \in {"batchrow", "batchlink", "done"}
        BY <4>1
      <4> QED BY <4>1, <4>2
    <3> QED BY <1>16, <3>1, <3>2, <3>3
  <2>2. ASSUME NEW l, NEW pc
        PROVE  LET n == [j EXCEPT !.left = l, !.pc = pc]
                   m == [j EXCEPT !.pc = pc, !.left = l]
               IN  Shaped(n) /\ n.pc = pc /\ Shaped(m) /\ m.pc = pc
    BY <1>0 DEF Shaped
  <2>3. P \in Far
    <3>1. ASSUME NEW l, NEW pc \in {"batchrow", "batchlink", "done"},
                 \/ Go(w, [j EXCEPT !.pc = pc, !.left = l])
                 \/ Go(w, [j EXCEPT !.left = l, !.pc = pc])
          PROVE  P \in Far
      <4> DEFINE n == [j EXCEPT !.left = l, !.pc = pc]
                 m == [j EXCEPT !.pc = pc, !.left = l]
      <4>1. Shaped(n) /\ n.pc = pc /\ Shaped(m) /\ m.pc = pc /\ (Go(w, m) \/ Go(w, n))
        BY <2>2, <3>1
      <4>2. pc \in Far \cup {"done"}
        OBVIOUS
      <4> HIDE DEF n, m, P, Far
      <4> QED BY <1>9, <4>1, <4>2
    <3>2. CASE Then(w, "done")
      BY <3>2, ThenPc
    <3> HIDE DEF P, Far
    <3> QED BY <2>1, <3>1, <3>2
  <2> QED BY <1>7, <2>3
<1> HIDE DEF P
<1> QED BY <1>1, <1>2, <1>3, <1>4, <1>5, <1>6, <1>08, <1>8, <1>11, <1>12, <1>13, <1>14, <1>15, <1>16,
     StepIs DEF P

LEMMA AsksPc ==
    ASSUME BasicInv, NEW w \in Worker, Asks(w), KnowledgeAssumption
    PROVE  Opening(job'[w]) /\ \A v \in Worker : v # w => job'[v] = job[v]
BY AsksFine, StartJobs DEF BasicInv

-----------------------------------------------------------------------------
(* The same content from two files *)

\* Two files with requests that overlapped, or one of which was not looked at
Excused(k, f, g, overlaps, blind) ==
    {f, g} \in overlaps \/ <<k, f>> \in blind \/ <<k, g>> \in blind

LEMMA ExcusedEither ==
    ASSUME NEW k, NEW f, NEW g, NEW overlaps, NEW blind, Excused(k, f, g, overlaps, blind)
    PROVE  Excused(k, g, f, overlaps, blind)
<1>1. {f, g} = {g, f}
  OBVIOUS
<1> QED BY <1>1 DEF Excused

\* What an insert that is under way will not find beside it
Checked ==
    \A w \in Worker : job[w].pc = "insert" /\ job[w].text # None =>
       \A d \in chunks : /\ d.in = Place(job[w].base, job[w].file)
                         /\ d.hash = job[w].text /\ d.file # job[w].file
                         => Excused(d.in, job[w].file, d.file, together, unchecked)

DupInv == NoDuplicates /\ Checked

LEMMA InitDup == Init => DupInv
<1> SUFFICES ASSUME Init PROVE DupInv
  OBVIOUS
<1>1. PICK start \in [File -> Content \cup {None}] :
        /\ linked \in SUBSET (Base \X {g \in File : start[g] # None})
        /\ \A p, q \in linked : p[1] = q[1] /\ start[p[2]] = start[q[2]] => p = q
        /\ chunks = {[id |-> 0, in |-> f, file |-> f, content |-> start[f], hash |-> start[f]] :
                       f \in {g \in File : start[g] # None}}
                \cup {[id |-> 0, in |-> p[1], file |-> p[2], content |-> start[p[2]],
                       hash |-> start[p[2]]] : p \in linked}
  BY DEF Init
<1>2. NoDuplicates
  <2> SUFFICES ASSUME NEW c \in chunks, NEW d \in chunks, c.in = d.in, c.hash = d.hash
               PROVE  c.file = d.file
    BY DEF NoDuplicates
  <2>0. KnowledgeAssumption
    BY KnowledgeAssumption
  <2>1. ASSUME NEW e \in chunks
        PROVE  /\ e.hash = start[e.file]
               /\ \/ e.in = e.file /\ e.file \in File
                  \/ <<e.in, e.file>> \in linked /\ e.in \in Base
    BY <1>1
  <2>2. CASE c.in = c.file /\ c.file \in File
    <3>1. d.in \notin Base
      BY <2>0, <2>2 DEF KnowledgeAssumption
    <3> QED BY <2>1, <2>2, <3>1
  <2>3. CASE <<c.in, c.file>> \in linked /\ c.in \in Base
    <3>1. <<d.in, d.file>> \in linked
      BY <2>0, <2>1, <2>3 DEF KnowledgeAssumption
    <3> DEFINE p == <<c.in, c.file>>
               q == <<d.in, d.file>>
    <3>2. p[1] = q[1] /\ start[p[2]] = start[q[2]]
      BY <2>1
    <3>3. p = q
      BY <1>1, <2>3, <3>1, <3>2
    <3> QED BY <3>3
  <2> QED BY <2>1, <2>2, <2>3
<1>3. Checked
  BY IdleShaped DEF Init, Checked
<1> QED BY <1>2, <1>3 DEF DupInv

\* Chunks are not added, and no insert begins.
LEMMA FewerChunks ==
    ASSUME DupInv, chunks' \subseteq chunks,
           together \subseteq together', unchecked \subseteq unchecked',
           \A v \in Worker : job'[v].pc = "insert" => job'[v] = job[v]
    PROVE  DupInv'
<1>1. NoDuplicates'
  BY DEF DupInv, NoDuplicates
<1>2. Checked'
  <2> SUFFICES ASSUME NEW v \in Worker, job'[v].pc = "insert", job'[v].text # None,
                      NEW d \in chunks', d.in = Place(job'[v].base, job'[v].file),
                      d.hash = job'[v].text, d.file # job'[v].file
               PROVE  Excused(d.in, job'[v].file, d.file, together', unchecked')
    BY DEF Checked, Place
  <2>1. job'[v] = job[v] /\ d \in chunks
    OBVIOUS
  <2> HIDE DEF Place
  <2>2. Excused(d.in, job[v].file, d.file, together, unchecked)
    BY <2>1 DEF DupInv, Checked
  <2> QED BY <2>1, <2>2 DEF Excused
<1> QED BY <1>1, <1>2 DEF DupInv

\* A request that indexes a file is about it.
LEMMA FileAbout ==
    ASSUME NEW j, Proper(j), j.pc \in Working
    PROVE  j.file \in About(j) /\ j.file \in File /\ j # Idle
<1>1. j.kind # "batch" /\ j.file \in File
  BY DEF Proper, Legal, Working, Idle
<1>2. j # Idle
  BY IdleShaped DEF Working
<1> QED BY <1>1, <1>2 DEF About

LEMMA CheckDup ==
    ASSUME BasicInv, DupInv, NEW w \in Worker, Checks(w), UNCHANGED together
    PROVE  DupInv'
<1> DEFINE j == job[w]
           Allowed == \/ Taken(j) = {} \/ j.file \in Taken(j)
                      \/ <<Place(j.base, j.file), j.file>> \in unchecked'
<1>1. Proper(j) /\ j.pc = "check" /\ UNCHANGED chunks /\ JobsOK /\ unchecked \subseteq unchecked'
  BY DEF BasicInv, JobsOK, Checks, Check, CheckBlind, CheckFails, At, store, excused
<1>2. \/ Then(w, "fail")
      \/ Then(w, "record")
      \/ Then(w, "insert") /\ Allowed
  BY DEF Checks, Check, CheckBlind, CheckFails, Admitted
<1>3. CASE Then(w, "fail") \/ Then(w, "record")
  <2>1. job'[w].pc # "insert"
    BY <1>1, <1>3, ThenPc
  <2>2. \A v \in Worker : v # w => job'[v] = job[v]
    BY <1>1, <1>3, GoMoves DEF Then, Moves
  <2> QED BY <1>1, <2>1, <2>2, FewerChunks
<1>4. CASE Then(w, "insert") /\ Allowed
  <2> DEFINE next == [j EXCEPT !.pc = "insert"]
  <2>1. /\ next.pc = "insert" /\ next.file = j.file /\ next.base = j.base /\ next.text = j.text
        /\ Go(w, next)
    BY <1>1, <1>4 DEF Proper, Shaped, Then
  <2> HIDE DEF next
  <2>2. job'[w] = next /\ \A v \in Worker : v # w => job'[v] = job[v]
    BY <1>1, <2>1, GoMoves DEF Moves
  <2>3. NoDuplicates'
    BY <1>1 DEF DupInv, NoDuplicates
  <2>4. Checked'
    <3> SUFFICES ASSUME NEW v \in Worker, job'[v].pc = "insert", job'[v].text # None,
                        NEW d \in chunks, d.in = Place(job'[v].base, job'[v].file),
                        d.hash = job'[v].text, d.file # job'[v].file
                 PROVE  Excused(d.in, job'[v].file, d.file, together', unchecked')
      BY <1>1 DEF Checked, Place
    <3> HIDE DEF Place
    <3>1. CASE v # w
      <4>1. job'[v] = job[v]
        BY <2>2, <3>1
      <4> QED BY <1>1, <4>1 DEF DupInv, Checked, Excused
    <3>02. CASE v = w /\ <<Place(j.base, j.file), j.file>> \in unchecked'
      BY <2>1, <2>2, <3>02 DEF Excused
    <3>2. CASE v = w /\ (Taken(j) = {} \/ j.file \in Taken(j))
      <4> HIDE DEF j
      <4>1. d.file \in Taken(j)
        BY <2>1, <2>2, <3>2 DEF Taken
      <4>2. PICK c \in chunks : /\ c.file = j.file /\ c.in = Place(j.base, j.file)
                                /\ c.hash = j.text /\ j.text # None
        BY <3>2, <4>1 DEF Taken
      <4>3. Excused(d.in, c.file, d.file, together, unchecked)
        <5>1. c.in = d.in /\ c.hash = d.hash /\ c.hash # None /\ c.file # d.file
          BY <2>1, <2>2, <3>2, <4>2
        <5> QED BY <5>1 DEF DupInv, NoDuplicates, Excused
      <4> QED BY <1>1, <2>1, <2>2, <3>2, <4>2, <4>3 DEF Excused
    <3> QED BY <1>4, <3>1, <3>02, <3>2
  <2> QED BY <2>3, <2>4 DEF DupInv
<1> QED BY <1>2, <1>3, <1>4

LEMMA InsertDup ==
    ASSUME BasicInv, DupInv, NEW w \in Worker, Inserts(w), UNCHANGED together
    PROVE  DupInv'
<1> DEFINE j == job[w]
<1>1. Proper(j) /\ j.pc = "insert" /\ JobsOK /\ UNCHANGED unchecked
  BY DEF BasicInv, JobsOK, Inserts, Insert, InsertPart, At, excused
<1>2. job'[w].pc # "insert" /\ \A v \in Worker : v # w => job'[v] = job[v]
  <2>1. \E pc \in {"record", "fail"} : Then(w, pc)
    BY DEF Inserts, Insert, InsertPart
  <2> QED BY <1>1, <2>1, ThenPc, GoMoves DEF Then, Moves
<1>3. CASE chunks' = chunks
  BY <1>1, <1>2, <1>3, FewerChunks
<1>4. CASE chunks' = chunks \cup
               {[id |-> Fresh, in |-> Place(j.base, j.file), file |-> j.file,
                 content |-> x, hash |-> j.text] : x \in j.docs}
  <2>0. j.file \in About(j) /\ j # Idle
    BY <1>1, FileAbout DEF Working
  <2> HIDE DEF j
  <2>1. \A c \in chunks' : \/ c \in chunks
                           \/ /\ c.in = Place(j.base, j.file) /\ c.file = j.file
                              /\ c.hash = j.text
    BY <1>4
  <2>2. \A d \in chunks : /\ d.in = Place(j.base, j.file) /\ d.hash = j.text /\ j.text # None
                          /\ d.file # j.file
                          => Excused(d.in, j.file, d.file, together, unchecked)
    BY <1>1 DEF DupInv, Checked, j
  <2>3. NoDuplicates'
    <3> SUFFICES ASSUME NEW c \in chunks', NEW d \in chunks', c.in = d.in, c.hash = d.hash,
                        c.hash # None, c.file # d.file
                 PROVE  Excused(c.in, c.file, d.file, together, unchecked)
      BY <1>1 DEF NoDuplicates, Excused
    <3>1. CASE c \in chunks /\ d \in chunks
      BY <3>1 DEF DupInv, NoDuplicates, Excused
    <3>2. CASE c \notin chunks
      BY <2>1, <2>2, <3>2
    <3>3. CASE d \notin chunks
      <4>1. Excused(d.in, d.file, c.file, together, unchecked)
        BY <2>1, <2>2, <3>3
      <4> QED BY <4>1, ExcusedEither
    <3> QED BY <3>1, <3>2, <3>3
  <2>4. Checked'
    <3> SUFFICES ASSUME NEW v \in Worker, job'[v].pc = "insert", job'[v].text # None,
                        NEW d \in chunks', d.in = Place(job'[v].base, job'[v].file),
                        d.hash = job'[v].text, d.file # job'[v].file
                 PROVE  Excused(d.in, job'[v].file, d.file, together, unchecked)
      BY <1>1 DEF Checked, Place, Excused
    <3> HIDE DEF Place
    <3>1. v # w /\ job'[v] = job[v]
      BY <1>2
    <3>2. CASE d \in chunks
      BY <3>1, <3>2 DEF DupInv, Checked
    <3>3. CASE d \notin chunks
      <4>1. d.file = j.file
        BY <2>1, <3>3
      <4>2. Proper(job[v]) /\ job[v].pc \in Working
        BY <3>1 DEF BasicInv, JobsOK, Working
      <4>3. job[v].file \in About(job[v]) /\ job[v] # Idle
        BY <4>2, FileAbout
      <4> QED BY <2>0, <3>1, <4>1, <4>3 DEF BasicInv, Overlap, Excused, j
    <3> QED BY <3>2, <3>3
  <2> QED BY <2>3, <2>4 DEF DupInv
<1> QED BY <1>3, <1>4 DEF Inserts, Insert, InsertPart, Made

LEMMA BatchDup ==
    ASSUME BasicInv, DupInv, NEW w \in Worker, BatchInserts(w), Step(w), UNCHANGED together,
           KnowledgeAssumption
    PROVE  DupInv'
<1>1. (\A c \in chunks' : c \in chunks \/ c.hash = None) /\ UNCHANGED unchecked
  BY DEF BatchInserts, BatchInsert, BatchPart, excused
<1>2. NoDuplicates'
  BY <1>1 DEF DupInv, NoDuplicates
<1>3. \A v \in Worker : job'[v].pc = "insert" => job'[v] = job[v]
  <2>1. ~Checks(w)
    BY DEF BatchInserts, BatchInsert, BatchPart, Checks, Check, CheckBlind, CheckFails, At
  <2> QED BY <2>1, Arrives, StepJobs DEF BasicInv
<1>4. Checked'
  <2> SUFFICES ASSUME NEW v \in Worker, job'[v].pc = "insert", job'[v].text # None,
                      NEW d \in chunks', d.in = Place(job'[v].base, job'[v].file),
                      d.hash = job'[v].text, d.file # job'[v].file
               PROVE  Excused(d.in, job'[v].file, d.file, together', unchecked')
    BY DEF Checked, Place
  <2> HIDE DEF Place
  <2>1. job'[v] = job[v] /\ d \in chunks
    BY <1>1, <1>3
  <2> QED BY <1>1, <2>1 DEF DupInv, Checked, Excused
<1> QED BY <1>2, <1>4 DEF DupInv

LEMMA NextDup == BasicInv /\ DupInv /\ KnowledgeAssumption /\ [Next]_vars => DupInv'
<1> SUFFICES ASSUME BasicInv, DupInv, KnowledgeAssumption, [Next]_vars PROVE DupInv'
  OBVIOUS
<1>1. CASE UNCHANGED vars
  BY <1>1, FewerChunks DEF vars, store, history, excused
<1>2. ASSUME NEW w \in Worker, Step(w) PROVE DupInv'
  <2>0. UNCHANGED together
    BY <1>2, StepIs DEF history
  <2>00. unchecked \subseteq unchecked'
    BY <1>2, StepIs DEF Read, Gathers, Gather, GatherOverOld, GatherBlind, Write, Checks,
         Check, CheckBlind, CheckFails, Inserts, Insert, InsertPart, Record, Fail, Mark,
         KeepMedia, Link, Bases, Turn, Finds, Find, FindBlind, Drops, Drop, DropFails, Unlink,
         Purges, Purge, PurgeFails, HashPurges, PurgeHash, PurgeHashFails, OwnDrops, DropOwn,
         DropOwnFails, DropRow, Empties, Empty, EmptyFails, UnlinkAll, BatchInserts,
         BatchInsert, BatchPart, BatchRow, BatchLink, excused
  <2>1. CASE chunks' \subseteq chunks /\ ~Checks(w)
    <3>1. \A v \in Worker : job'[v].pc = "insert" => job'[v] = job[v]
      BY <1>2, <2>1, Arrives, StepJobs DEF BasicInv
    <3> QED BY <2>0, <2>00, <2>1, <3>1, FewerChunks
  <2>2. chunks' \subseteq chunks \/ Inserts(w) \/ BatchInserts(w)
    BY <1>2, StepIs DEF Read, Gathers, Gather, GatherOverOld, GatherBlind, Write, Checks,
         Check, CheckBlind, CheckFails, Record, Fail, Mark, KeepMedia, Link, Bases, Turn,
         Finds, Find, FindBlind, Drops, Drop, DropFails, Unlink, Purges, Purge, PurgeFails,
         HashPurges, PurgeHash, PurgeHashFails, OwnDrops, DropOwn, DropOwnFails, DropRow,
         Empties, Empty, EmptyFails, UnlinkAll, BatchRow, BatchLink, store
  <2> QED BY <1>2, <2>0, <2>1, <2>2, CheckDup, InsertDup, BatchDup
<1>3. ASSUME NEW w \in Worker, Asks(w) PROVE DupInv'
  <2>1. PICK j : Start(w, j) /\ Opening(j)
    BY <1>3, AsksFine DEF BasicInv
  <2>2. UNCHANGED <<chunks, unchecked>> /\ together \subseteq together'
    BY <2>1 DEF Start, excused
  <2>3. job'[w].pc # "insert" /\ \A v \in Worker : v # w => job'[v] = job[v]
    BY <1>3, AsksPc DEF Opening
  <2> QED BY <2>2, <2>3, FewerChunks
<1>4. CASE Crash
  <2>1. /\ job' = [w \in Worker |-> Idle] /\ UNCHANGED <<chunks, together, unchecked>>
    BY <1>4 DEF Crash, store, excused
  <2> QED BY <2>1, FewerChunks, IdleShaped
<1> QED BY <1>1, <1>2, <1>3, <1>4 DEF Next

\* A base has the same content from two files only if their requests
\* overlapped, the query for duplicates failed for one of them, or one of them
\* came in a batch.
THEOREM DuplicatesRefused == Spec => []NoDuplicates
<1> USE KnowledgeAssumption
<1>1. Init => BasicInv /\ DupInv
  BY InitBasic, InitDup
<1>2. BasicInv /\ DupInv /\ [Next]_vars => BasicInv' /\ DupInv'
  BY NextBasic, NextDup
<1>3. DupInv => NoDuplicates
  BY DEF DupInv
<1> QED BY <1>1, <1>2, <1>3, PTL DEF Spec

-----------------------------------------------------------------------------
(* What the steps of process_file do to the request *)

\* All but the step, the text, the documents and what was given stays.
Still(j, next) ==
    /\ Shaped(next)
    /\ next.kind = j.kind /\ next.file = j.file /\ next.base = j.base /\ next.old = j.old
    /\ next.left = j.left /\ next.plan = j.plan /\ next.ask = j.ask
    /\ next.source = j.source /\ next.hash = j.hash /\ next.whole = j.whole

LEMMA ThenDoes ==
    ASSUME JobsOK, NEW w \in Worker, NEW pc, Then(w, pc)
    PROVE  \E next : /\ Moves(w, next) /\ Still(job[w], next) /\ next.pc = pc
                     /\ next.text = job[w].text /\ next.docs = job[w].docs
                     /\ next.given = job[w].given
<1> DEFINE next == [job[w] EXCEPT !.pc = pc]
<1>1. /\ Go(w, next) /\ Still(job[w], next) /\ next.pc = pc
      /\ next.text = job[w].text /\ next.docs = job[w].docs /\ next.given = job[w].given
  BY DEF Then, JobsOK, Proper, Shaped, Still
<1> HIDE DEF next
<1> QED BY <1>1, GoMoves

LEMMA ReturnDoes ==
    ASSUME JobsOK, NEW w \in Worker, NEW pc, Return(w, pc)
    PROVE  \E next : Moves(w, next) /\ Still(job[w], next) /\ next.pc = pc
                     /\ next.given = None
<1> DEFINE next == [job[w] EXCEPT !.pc = pc, !.given = None, !.text = None, !.docs = {}]
<1>1. Go(w, next) /\ Still(job[w], next) /\ next.pc = pc /\ next.given = None
  BY DEF Return, JobsOK, Proper, Shaped, Still
<1> HIDE DEF next
<1> QED BY <1>1, GoMoves

LEMMA ReadDoes ==
    ASSUME JobsOK, NEW w \in Worker, Read(w)
    PROVE  /\ UNCHANGED <<files, linked, chunks, excused>> /\ job[w].pc = "read"
           /\ \E next : /\ Moves(w, next) /\ Still(job[w], next)
                        /\ \/ /\ Exists(job[w].file) /\ next.pc = "gather"
                              /\ next.text = files[job[w].file].content
                              /\ next.docs = job[w].docs /\ next.given = job[w].given
                           \/ ~Exists(job[w].file) /\ next.pc = After(job[w], FALSE)
<1> DEFINE next == [job[w] EXCEPT !.pc = "gather", !.text = files[job[w].file].content]
<1>1. UNCHANGED <<files, linked, chunks, excused>> /\ job[w].pc = "read"
  BY DEF Read, store, At
<1>2. CASE Exists(job[w].file)
  <2>1. /\ Go(w, next) /\ Still(job[w], next) /\ next.pc = "gather"
        /\ next.text = files[job[w].file].content
        /\ next.docs = job[w].docs /\ next.given = job[w].given
    BY <1>2 DEF Read, JobsOK, Proper, Shaped, Still
  <2> HIDE DEF next
  <2> QED BY <1>1, <1>2, <2>1, GoMoves
<1>3. CASE ~Exists(job[w].file)
  <2>1. Return(w, After(job[w], FALSE))
    BY <1>3 DEF Read
  <2> QED BY <1>1, <1>3, <2>1, ReturnDoes
<1> QED BY <1>2, <1>3

LEMMA GatherDoes ==
    ASSUME JobsOK, NEW w \in Worker, Gathers(w)
    PROVE  LET j == job[w]
               own == {c.content : c \in Chunks(j.file, j.file)}
           IN
           /\ UNCHANGED <<files, linked, troubled, shorn, unchecked>> /\ j.pc = "gather"
           /\ \E next :
                 /\ Moves(w, next) /\ Still(j, next) /\ next.given = j.given
                 /\ \/ /\ j.given # None /\ next.pc = "write"
                       /\ \/ /\ chunks' = chunks \ Chunks(j.file, j.file)
                             /\ kept' = kept \ {<<j.file, j.file>>}
                          \/ UNCHANGED chunks /\ kept' = kept \cup {<<j.file, j.file>>}
                       /\ next.docs = {j.given} /\ next.text = j.given
                    \/ /\ j.given = None /\ j.base # Own /\ next.pc = "write"
                       /\ UNCHANGED <<chunks, kept>>
                       /\ next.docs = {j.text} \ {None} \/ (own # {} /\ next.docs = own)
                       /\ next.text = j.text
                    \/ /\ j.given = None /\ j.base = Own /\ next.pc = "write"
                       /\ UNCHANGED chunks
                       /\ kept' = (IF own \subseteq {j.source} THEN kept
                                   ELSE kept \cup {<<j.file, j.file>>})
                       /\ next.docs = {j.source} /\ next.text = j.source
                    \/ /\ j.given = None /\ j.base = Own /\ next.pc = "fail"
                       /\ UNCHANGED <<chunks, kept>>
<1> DEFINE j == job[w]
           own == {c.content : c \in Chunks(j.file, j.file)}
<1>1. UNCHANGED <<files, linked, troubled, shorn, unchecked>> /\ j.pc = "gather" /\ Shaped(j)
  BY DEF Gathers, Gather, GatherOverOld, GatherBlind, At, JobsOK, Proper, store, excused
<1>2. CASE j.given # None
  <2> DEFINE next == [j EXCEPT !.pc = "write", !.docs = {j.given}, !.text = j.given]
  <2>1. /\ Go(w, next) /\ Still(j, next) /\ next.pc = "write" /\ next.given = j.given
        /\ \/ /\ chunks' = chunks \ Chunks(j.file, j.file)
              /\ kept' = kept \ {<<j.file, j.file>>}
           \/ UNCHANGED chunks /\ kept' = kept \cup {<<j.file, j.file>>}
        /\ next.docs = {j.given} /\ next.text = j.given
    BY <1>1, <1>2 DEF Gathers, Gather, GatherOverOld, GatherBlind, Shaped, Still, store
  <2> HIDE DEF next
  <2> QED BY <1>1, <1>2, <2>1, GoMoves
<1>3. CASE j.given = None /\ j.base # Own
  <2>1. PICK docs : /\ Go(w, [j EXCEPT !.pc = "write", !.docs = docs])
                    /\ docs = {j.text} \ {None} \/ (own # {} /\ docs = own)
                    /\ UNCHANGED <<chunks, kept>>
    <3>1. CASE Gather(w)
      BY <1>1, <1>3, <3>1 DEF Gather
    <3>2. CASE GatherBlind(w)
      BY <1>1, <1>3, <3>2 DEF GatherBlind, store, excused
    <3> QED BY <1>3, <3>1, <3>2 DEF Gathers, GatherOverOld
  <2> DEFINE next == [j EXCEPT !.pc = "write", !.docs = docs]
  <2>2. /\ Still(j, next) /\ next.pc = "write" /\ next.given = j.given
        /\ next.docs = docs /\ next.text = j.text /\ Go(w, next)
    BY <1>1, <2>1 DEF Shaped, Still
  <2> HIDE DEF next
  <2> QED BY <1>1, <1>3, <2>1, <2>2, GoMoves
<1>4. CASE j.given = None /\ j.base = Own
  <2> DEFINE next == [j EXCEPT !.pc = "write", !.docs = {j.source}, !.text = j.source]
  <2>1. /\ UNCHANGED chunks
        /\ \/ /\ Go(w, next)
              /\ kept' = (IF own \subseteq {j.source} THEN kept
                          ELSE kept \cup {<<j.file, j.file>>})
           \/ Then(w, "fail") /\ UNCHANGED kept
    BY <1>1, <1>4 DEF Gathers, Gather, GatherOverOld, GatherBlind
  <2> HIDE DEF own
  <2>2. /\ Still(j, next) /\ next.pc = "write" /\ next.given = j.given
        /\ next.docs = {j.source} /\ next.text = j.source
    BY <1>1 DEF Shaped, Still
  <2> HIDE DEF next
  <2>3. CASE /\ Go(w, next)
              /\ kept' = (IF own \subseteq {j.source} THEN kept
                          ELSE kept \cup {<<j.file, j.file>>})
    BY <1>1, <1>4, <2>1, <2>2, <2>3, GoMoves DEF own
  <2>4. CASE Then(w, "fail") /\ UNCHANGED kept
    BY <1>1, <1>4, <2>1, <2>4, ThenDoes
  <2> QED BY <2>1, <2>3, <2>4
<1> QED BY <1>2, <1>3, <1>4

LEMMA CheckDoes ==
    ASSUME JobsOK, NEW w \in Worker, Checks(w)
    PROVE  LET j == job[w] IN
           /\ UNCHANGED <<files, linked, chunks, troubled, shorn, kept>> /\ j.pc = "check"
           /\ \E next :
                 /\ Moves(w, next) /\ Still(j, next) /\ next.given = j.given
                 /\ next.text = j.text /\ next.docs = j.docs
                 /\ \/ next.pc = "fail"
                    \/ /\ next.pc = "insert" /\ j.docs # {}
                       /\ j.base = Own => Chunks(j.file, j.file) = {}
                    \/ /\ next.pc = "record" /\ j.docs # {} /\ j.base = Own
                       /\ Chunks(j.file, j.file) # {}
<1> DEFINE j == job[w]
<1>1. UNCHANGED <<files, linked, chunks, troubled, shorn, kept>> /\ j.pc = "check"
  BY DEF Checks, Check, CheckBlind, CheckFails, At, store, excused
<1>2. \/ Then(w, "fail")
      \/ Then(w, "insert") /\ j.docs # {} /\ (j.base = Own => Chunks(j.file, j.file) = {})
      \/ Then(w, "record") /\ j.docs # {} /\ j.base = Own /\ Chunks(j.file, j.file) # {}
  <2>1. \/ Then(w, "fail")
        \/ /\ j.docs # {}
           /\ Then(w, IF j.base = Own /\ Chunks(j.file, j.file) # {} THEN "record" ELSE "insert")
    BY DEF Checks, Check, CheckBlind, CheckFails, Admitted
  <2>2. CASE j.base = Own /\ Chunks(j.file, j.file) # {}
    BY <2>1, <2>2
  <2>3. CASE ~(j.base = Own /\ Chunks(j.file, j.file) # {})
    BY <2>1, <2>3
  <2> QED BY <2>2, <2>3
<1>3. CASE Then(w, "fail")
  BY <1>1, <1>3, ThenDoes
<1>4. CASE Then(w, "insert") /\ j.docs # {} /\ (j.base = Own => Chunks(j.file, j.file) = {})
  BY <1>1, <1>4, ThenDoes
<1>5. CASE Then(w, "record") /\ j.docs # {} /\ j.base = Own /\ Chunks(j.file, j.file) # {}
  BY <1>1, <1>5, ThenDoes
<1> QED BY <1>2, <1>3, <1>4, <1>5

LEMMA InsertDoes ==
    ASSUME JobsOK, NEW w \in Worker, Inserts(w)
    PROVE  LET j == job[w] IN
           /\ UNCHANGED <<files, linked, troubled, shorn, unchecked>> /\ j.pc = "insert"
           /\ \E next :
                 /\ Moves(w, next) /\ Still(j, next) /\ next.given = j.given
                 /\ next.text = j.text /\ next.docs = j.docs
                 /\ \/ next.pc = "fail" /\ UNCHANGED <<chunks, kept>>
                    \/ /\ next.pc = "fail" /\ chunks' = chunks \cup Made(j)
                       /\ kept' = kept \cup {<<Place(j.base, j.file), j.file>>}
                    \/ /\ next.pc = "record" /\ chunks' = chunks \cup Made(j)
                       /\ UNCHANGED kept
<1> DEFINE j == job[w]
<1>1. UNCHANGED <<files, linked, troubled, shorn, unchecked>> /\ j.pc = "insert"
  BY DEF Inserts, Insert, InsertPart, At, excused
<1>2. \/ Then(w, "fail") /\ UNCHANGED <<chunks, kept>>
      \/ /\ Then(w, "fail") /\ chunks' = chunks \cup Made(j)
         /\ kept' = kept \cup {<<Place(j.base, j.file), j.file>>}
      \/ Then(w, "record") /\ chunks' = chunks \cup Made(j) /\ UNCHANGED kept
  BY DEF Inserts, Insert, InsertPart, excused
<1>3. CASE Then(w, "fail") /\ UNCHANGED <<chunks, kept>>
  BY <1>1, <1>3, ThenDoes
<1>5. CASE /\ Then(w, "fail") /\ chunks' = chunks \cup Made(j)
           /\ kept' = kept \cup {<<Place(j.base, j.file), j.file>>}
  BY <1>1, <1>5, ThenDoes
<1>4. CASE Then(w, "record") /\ chunks' = chunks \cup Made(j) /\ UNCHANGED kept
  <2>1. PICK next : /\ Moves(w, next) /\ Still(j, next) /\ next.given = j.given
                    /\ next.text = j.text /\ next.docs = j.docs /\ next.pc = "record"
    BY <1>4, ThenDoes
  <2> QED BY <1>1, <1>4, <2>1
<1> QED BY <1>2, <1>3, <1>4, <1>5

LEMMA WriteDoes ==
    ASSUME JobsOK, NEW w \in Worker, Write(w)
    PROVE  LET j == job[w] IN
           /\ UNCHANGED <<linked, chunks, excused>> /\ j.pc = "write"
           /\ files' = IF Exists(j.file) THEN [files EXCEPT ![j.file].content = j.text] ELSE files
           /\ \E next : /\ Moves(w, next) /\ Still(j, next) /\ next.given = j.given
                        /\ next.text = j.text /\ next.docs = j.docs /\ next.pc = "check"
<1>1. Then(w, "check")
  BY DEF Write
<1> QED BY <1>1, ThenDoes DEF Write, At

LEMMA RecordDoes ==
    ASSUME JobsOK, NEW w \in Worker, Record(w)
    PROVE  LET j == job[w] IN
           /\ UNCHANGED <<linked, chunks, excused>> /\ j.pc = "record"
           /\ \E next : Moves(w, next) /\ Still(j, next) /\ next.pc = After(j, TRUE)
<1>1. Return(w, After(job[w], TRUE))
  BY DEF Record
<1> QED BY <1>1, ReturnDoes DEF Record, At

LEMMA FailDoes ==
    ASSUME JobsOK, NEW w \in Worker, Fail(w)
    PROVE  LET j == job[w] IN
           /\ UNCHANGED <<linked, chunks, shorn, kept, unchecked>> /\ j.pc = "fail"
           /\ troubled' = troubled \cup ({<<j.base, j.file>>} \ {<<Own, j.file>>})
           /\ \E next : Moves(w, next) /\ Still(j, next) /\ next.pc = After(j, FALSE)
<1>1. Return(w, After(job[w], FALSE))
  BY DEF Fail
<1> QED BY <1>1, ReturnDoes DEF Fail, At

\* In short: as long as it indexes, a request keeps to its business.
LEMMA IndexingStill ==
    ASSUME JobsOK, NEW w \in Worker,
           \/ Read(w) \/ Gathers(w) \/ Write(w) \/ Checks(w) \/ Inserts(w) \/ Record(w) \/ Fail(w)
    PROVE  \E next : Moves(w, next) /\ Still(job[w], next)
<1>1. CASE Read(w)
  BY <1>1, ReadDoes
<1>2. CASE Gathers(w)
  BY <1>2, GatherDoes
<1>3. CASE Write(w)
  BY <1>3, WriteDoes
<1>4. CASE Checks(w)
  BY <1>4, CheckDoes
<1>5. CASE Inserts(w)
  BY <1>5, InsertDoes
<1>6. CASE Record(w)
  BY <1>6, RecordDoes
<1>7. CASE Fail(w)
  BY <1>7, FailDoes
<1> QED BY <1>1, <1>2, <1>3, <1>4, <1>5, <1>6, <1>7

-----------------------------------------------------------------------------
(* What the calls around it do to the request *)

LEMMA ProcessDoes ==
    ASSUME JobsOK, NEW w \in Worker, NEW k, Go(w, Process(job[w], k, None))
    PROVE  LET j == job[w] IN
           \E next : /\ Moves(w, next) /\ Shaped(next) /\ next.pc = "read" /\ next.base = k
                     /\ next.given = None
                     /\ next.kind = j.kind /\ next.file = j.file /\ next.old = j.old
                     /\ next.left = j.left /\ next.plan = j.plan /\ next.ask = j.ask
                     /\ next.source = j.source /\ next.hash = j.hash /\ next.whole = j.whole
<1> DEFINE j == job[w]
           next == Process(j, k, None)
<1>1. /\ Go(w, next) /\ Shaped(next) /\ next.pc = "read" /\ next.base = k
      /\ next.given = None
      /\ next.kind = j.kind /\ next.file = j.file /\ next.old = j.old
      /\ next.left = j.left /\ next.plan = j.plan /\ next.ask = j.ask
      /\ next.source = j.source /\ next.hash = j.hash /\ next.whole = j.whole
  BY DEF Process, JobsOK, Proper, Shaped
<1> HIDE DEF next
<1> QED BY <1>1, GoMoves

LEMMA BasesDoes ==
    ASSUME JobsOK, NEW w \in Worker, Bases(w)
    PROVE  LET j == job[w] IN
           /\ UNCHANGED <<files, linked, chunks, excused>> /\ j.pc = "bases"
           /\ \E next : /\ Moves(w, next) /\ Shaped(next) /\ next.pc = "next"
                        /\ next.kind = j.kind /\ next.file = j.file /\ next.old = j.old
                        /\ next.left = {k \in Base : <<k, j.file>> \in linked}
                        /\ next.plan = j.plan /\ next.base = j.base
<1> DEFINE j == job[w]
           bases == {k \in Base : <<k, j.file>> \in linked}
           next == [j EXCEPT !.pc = "next", !.left = bases]
<1>1. Go(w, next) /\ UNCHANGED <<files, linked, chunks, excused>> /\ j.pc = "bases"
  BY DEF Bases, store, At
<1> HIDE DEF bases
<1>2. /\ Shaped(next) /\ next.pc = "next" /\ next.left = bases
      /\ next.kind = j.kind /\ next.file = j.file /\ next.old = j.old
      /\ next.plan = j.plan /\ next.base = j.base
  BY DEF JobsOK, Proper, Shaped
<1> HIDE DEF next
<1> QED BY <1>1, <1>2, GoMoves DEF bases

LEMMA FindDoes ==
    ASSUME JobsOK, NEW w \in Worker, Finds(w)
    PROVE  LET j == job[w] IN
           /\ UNCHANGED <<files, linked, chunks, troubled, shorn, unchecked>> /\ j.pc = "find"
           /\ \E next : /\ Moves(w, next) /\ Shaped(next) /\ next.pc = "read"
                        /\ \/ /\ next.old = {c.id : c \in Chunks(j.base, j.file)}
                              /\ UNCHANGED kept
                           \/ /\ next.old = {}
                              /\ kept' = (IF Chunks(j.base, j.file) = {} THEN kept
                                          ELSE kept \cup {<<j.base, j.file>>})
                        /\ next.kind = j.kind /\ next.file = j.file /\ next.base = j.base
                        /\ next.left = j.left /\ next.plan = j.plan
<1> DEFINE j == job[w]
           p == Process(j, j.base, None)
<1>0. PICK ids :
         /\ Go(w, [p EXCEPT !.old = ids])
         /\ \/ ids = {c.id : c \in Chunks(j.base, j.file)} /\ UNCHANGED kept
            \/ ids = {} /\ kept' = (IF Chunks(j.base, j.file) = {} THEN kept
                                    ELSE kept \cup {<<j.base, j.file>>})
  <2>1. CASE Find(w)
    BY <2>1 DEF Find, excused
  <2>2. CASE FindBlind(w)
    BY <2>2 DEF FindBlind
  <2> QED BY <2>1, <2>2 DEF Finds
<1> DEFINE next == [p EXCEPT !.old = ids]
<1>1. /\ Go(w, next) /\ j.pc = "find"
      /\ UNCHANGED <<files, linked, chunks, troubled, shorn, unchecked>>
  BY <1>0 DEF Finds, Find, FindBlind, store, excused, At
<1>2. /\ Shaped(p) /\ p.pc = "read" /\ p.kind = j.kind /\ p.file = j.file /\ p.base = j.base
      /\ p.left = j.left /\ p.plan = j.plan
  BY DEF JobsOK, Proper, Shaped, Process
<1> HIDE DEF p
<1>3. /\ Shaped(next) /\ next.pc = "read" /\ next.old = ids
      /\ next.kind = j.kind /\ next.file = j.file /\ next.base = j.base
      /\ next.left = j.left /\ next.plan = j.plan
  BY <1>2 DEF Shaped
<1> HIDE DEF next
<1> QED BY <1>0, <1>1, <1>3, GoMoves

LEMMA DropDoes ==
    ASSUME JobsOK, NEW w \in Worker, Drops(w)
    PROVE  LET j == job[w] IN
           /\ UNCHANGED <<files, linked, troubled, shorn, unchecked>> /\ j.pc = "drop"
           /\ \/ /\ chunks' = chunks \ {c \in Chunks(j.base, j.file) : c.id \in j.old}
                 /\ UNCHANGED kept
              \/ UNCHANGED chunks /\ kept' = kept \cup {<<j.base, j.file>>}
           /\ \E next : /\ Moves(w, next) /\ Shaped(next) /\ next.pc = "next" /\ next.old = {}
                        /\ next.kind = j.kind /\ next.file = j.file /\ next.base = j.base
                        /\ next.left = j.left /\ next.plan = j.plan
<1> DEFINE j == job[w]
           next == [j EXCEPT !.pc = "next", !.old = {}]
<1>1. /\ Go(w, next) /\ j.pc = "drop"
      /\ UNCHANGED <<files, linked, troubled, shorn, unchecked>>
      /\ \/ /\ chunks' = chunks \ {c \in Chunks(j.base, j.file) : c.id \in j.old}
            /\ UNCHANGED kept
         \/ UNCHANGED chunks /\ kept' = kept \cup {<<j.base, j.file>>}
  BY DEF Drops, Drop, DropFails, At, store, excused
<1>2. /\ Shaped(next) /\ next.pc = "next" /\ next.old = {}
      /\ next.kind = j.kind /\ next.file = j.file /\ next.base = j.base
      /\ next.left = j.left /\ next.plan = j.plan
  BY DEF JobsOK, Proper, Shaped
<1> HIDE DEF next
<1> QED BY <1>1, <1>2, GoMoves

LEMMA TurnDoes ==
    ASSUME JobsOK, NEW w \in Worker, Turn(w)
    PROVE  LET j == job[w] IN
           /\ UNCHANGED <<files, linked, chunks, excused>> /\ j.pc = "next"
           /\ \E next :
                 /\ Moves(w, next) /\ Shaped(next) /\ next.kind = j.kind /\ next.old = j.old
                 /\ \/ /\ j.kind \in {"edit", "delete"} /\ next.base \in j.left
                       /\ next.pc = (IF j.kind = "edit" THEN "find" ELSE "unlink")
                       /\ next.file = j.file /\ next.plan = j.plan
                       /\ next.left = j.left \ {next.base}
                    \/ /\ j.kind = "reindex" /\ next.pc = "read" /\ next.base = j.base
                       /\ <<next.base, next.file>> \in j.plan
                       /\ next.plan = j.plan \ {<<next.base, next.file>>}
                       /\ next.left = j.left
                    \/ /\ j.kind = "reindex" /\ next.pc = "empty"
                       /\ \A p \in j.plan : p[1] # j.base
                       /\ next.base \in j.left /\ next.left = j.left \ {next.base}
                       /\ next.file = j.file /\ next.plan = j.plan
                    \/ /\ j.left = {} /\ j.plan = {}
                       /\ next.pc = (IF j.kind = "delete" THEN "droprow" ELSE "done")
                       /\ next.file = j.file /\ next.plan = j.plan
                       /\ next.left = j.left /\ next.base = j.base
<1> DEFINE j == job[w]
           Taking(p) == [Process(j, p[1], None) EXCEPT !.file = p[2], !.plan = @ \ {p}]
           To(k, pc) == [j EXCEPT !.pc = pc, !.base = k, !.left = @ \ {k}]
<1>1. UNCHANGED <<files, linked, chunks, excused>> /\ j.pc = "next" /\ Proper(j)
  BY DEF Turn, store, At, JobsOK
<1>2. ASSUME NEW k \in j.left, NEW pc, Go(w, To(k, pc))
      PROVE  \E next : /\ Moves(w, next) /\ Shaped(next) /\ next.kind = j.kind
                       /\ next.old = j.old /\ next.base = k /\ next.pc = pc
                       /\ next.file = j.file /\ next.plan = j.plan /\ next.left = j.left \ {k}
  <2> DEFINE next == [j EXCEPT !.pc = pc, !.base = k, !.left = @ \ {k}]
  <2>1. /\ Shaped(next) /\ next.kind = j.kind
        /\ next.old = j.old /\ next.base = k /\ next.pc = pc
        /\ next.file = j.file /\ next.plan = j.plan /\ next.left = j.left \ {k}
    BY <1>1 DEF Proper, Shaped
  <2>2. Go(w, next)
    BY <1>2
  <2> HIDE DEF next
  <2> QED BY <2>1, <2>2, GoMoves
<1>3. CASE j.kind \in {"edit", "delete"} /\ \E k \in j.left :
                Go(w, [j EXCEPT !.pc = IF j.kind = "edit" THEN "find" ELSE "unlink",
                                !.base = k, !.left = @ \ {k}])
  <2> DEFINE pc == IF j.kind = "edit" THEN "find" ELSE "unlink"
  <2>0. \E k \in j.left : Go(w, To(k, pc))
    BY <1>3
  <2>1. PICK k \in j.left : Go(w, To(k, pc))
    <3> HIDE DEF To
    <3> QED BY <2>0
  <2>2. PICK next : /\ Moves(w, next) /\ Shaped(next) /\ next.kind = j.kind
                    /\ next.old = j.old /\ next.base = k
                    /\ next.pc = pc
                    /\ next.file = j.file /\ next.plan = j.plan /\ next.left = j.left \ {k}
    <3> HIDE DEF pc, To
    <3> QED BY <1>2, <2>1
  <2> QED BY <1>1, <1>3, <2>2
<1>4. CASE /\ j.kind = "reindex" /\ \A p \in j.plan : p[1] # j.base
           /\ \E k \in j.left : Go(w, [j EXCEPT !.pc = "empty", !.base = k, !.left = @ \ {k}])
  <2>0. \E k \in j.left : Go(w, To(k, "empty"))
    BY <1>4
  <2>1. PICK k \in j.left : Go(w, To(k, "empty"))
    <3> HIDE DEF To
    <3> QED BY <2>0
  <2>2. PICK next : /\ Moves(w, next) /\ Shaped(next) /\ next.kind = j.kind
                    /\ next.old = j.old /\ next.base = k /\ next.pc = "empty"
                    /\ next.file = j.file /\ next.plan = j.plan /\ next.left = j.left \ {k}
    <3> HIDE DEF To
    <3> QED BY <1>2, <2>1
  <2> QED BY <1>1, <1>4, <2>2
<1>5. CASE j.kind = "reindex" /\ \E p \in j.plan : p[1] = j.base /\ Go(w, Taking(p))
  <2>1. PICK p \in j.plan : p[1] = j.base /\ Go(w, Taking(p))
    <3> HIDE DEF Taking
    <3> QED BY <1>5
  <2> DEFINE q == Process(j, p[1], None)
             next == [q EXCEPT !.file = p[2], !.plan = @ \ {p}]
  <2>2. /\ Shaped(q) /\ q.pc = "read" /\ q.kind = j.kind /\ q.old = j.old /\ q.base = j.base
        /\ q.left = j.left /\ q.plan = j.plan
    BY <1>1, <2>1 DEF Proper, Shaped, Process
  <2>3. Go(w, next)
    BY <2>1
  <2> HIDE DEF q
  <2>4. /\ Shaped(next) /\ next.pc = "read" /\ next.kind = j.kind /\ next.old = j.old
        /\ next.base = j.base /\ next.left = j.left /\ next.plan = j.plan \ {p}
        /\ next.file = p[2]
    BY <2>2 DEF Shaped
  <2>5. p = <<j.base, p[2]>>
    BY <1>1, <1>5, <2>1 DEF Proper, Legal, Idle
  <2> HIDE DEF next, Taking
  <2>6. Moves(w, next)
    BY <2>3, GoMoves
  <2> QED BY <1>1, <1>5, <2>1, <2>4, <2>5, <2>6
<1>6. CASE j.left = {} /\ j.plan = {} /\ Then(w, IF j.kind = "delete" THEN "droprow" ELSE "done")
  <2>1. PICK next : /\ Moves(w, next) /\ Still(j, next)
                    /\ next.pc = (IF j.kind = "delete" THEN "droprow" ELSE "done")
    BY <1>6, ThenDoes
  <2> QED BY <1>1, <1>6, <2>1 DEF Still
<1>7. \/ j.kind \in {"edit", "delete"} /\ \E k \in j.left :
                Go(w, [j EXCEPT !.pc = IF j.kind = "edit" THEN "find" ELSE "unlink",
                                !.base = k, !.left = @ \ {k}])
      \/ /\ j.kind = "reindex" /\ \A p \in j.plan : p[1] # j.base
         /\ \E k \in j.left : Go(w, [j EXCEPT !.pc = "empty", !.base = k, !.left = @ \ {k}])
      \/ j.kind = "reindex" /\ \E p \in j.plan : p[1] = j.base /\ Go(w, Taking(p))
      \/ j.left = {} /\ j.plan = {} /\ Then(w, IF j.kind = "delete" THEN "droprow" ELSE "done")
  BY DEF Turn
<1> QED BY <1>3, <1>4, <1>5, <1>6, <1>7

\* The chunks that a batch inserts for some of its files
Batched(j, some) == {[id |-> Fresh, in |-> j.base, file |-> p[2], content |-> p[1],
                      hash |-> None] : p \in some}

LEMMA BatchDoes ==
    ASSUME JobsOK, NEW w \in Worker, BatchInserts(w) \/ BatchRow(w) \/ BatchLink(w)
    PROVE  LET j == job[w] IN
           \E next : /\ Moves(w, next) /\ Shaped(next)
                     /\ next.kind = j.kind /\ next.old = j.old /\ next.base = j.base
                     /\ next.file = j.file /\ next.plan = j.plan
                     /\ BatchInserts(w) => \E some \in SUBSET {p \in j.plan : p[1] # None} :
                           /\ chunks' = chunks \cup Batched(j, some)
                           /\ \/ /\ next.pc = "done"
                                 /\ \/ some = {} /\ UNCHANGED kept
                                    \/ kept' = kept \cup {<<j.base, p[2]>> : p \in some}
                              \/ /\ next.pc = "batchrow" /\ next.left = j.plan
                                 /\ some = {p \in j.plan : p[1] # None}
                                 /\ UNCHANGED kept
                     /\ BatchRow(w) => \E p \in j.left :
                           /\ files' = IF Exists(p[2])
                                       THEN [files EXCEPT ![p[2]] = [files[p[2]] EXCEPT
                                                               !.content = p[1], !.hash = p[1]]]
                                       ELSE files
                           /\ \/ next.pc = "batchlink" /\ next.left = j.plan
                              \/ next.pc = "batchrow" /\ next.left = j.left \ {p}
                     /\ BatchLink(w) => \E p \in j.left :
                           /\ linked' = IF Exists(p[2]) THEN linked \cup {<<j.base, p[2]>>}
                                        ELSE linked
                           /\ next.left = j.left \ {p}
                           /\ next.pc = (IF j.left = {p} THEN "done" ELSE "batchlink")
<1> DEFINE j == job[w]
<1>1. Shaped(j)
  BY DEF JobsOK, Proper
<1>2. CASE BatchInserts(w)
  <2>1. ~BatchRow(w) /\ ~BatchLink(w)
    BY <1>2 DEF BatchInserts, BatchInsert, BatchPart, BatchRow, BatchLink, At
  <2> DEFINE All == {p \in j.plan : p[1] # None}
  <2>2. CASE /\ Then(w, "done")
             /\ \E some \in SUBSET All :
                   /\ chunks' = chunks \cup Batched(j, some)
                   /\ \/ some = {} /\ UNCHANGED kept
                      \/ kept' = kept \cup {<<j.base, p[2]>> : p \in some}
    <3>1. PICK next : Moves(w, next) /\ Still(j, next) /\ next.pc = "done"
      BY <2>2, ThenDoes
    <3>2. PICK some \in SUBSET All :
             /\ chunks' = chunks \cup Batched(j, some)
             /\ \/ some = {} /\ UNCHANGED kept
                \/ kept' = kept \cup {<<j.base, p[2]>> : p \in some}
      BY <2>2
    <3> QED BY <2>1, <2>2, <3>1, <3>2 DEF Still
  <2>3. CASE /\ Go(w, [j EXCEPT !.pc = "batchrow", !.left = j.plan])
             /\ chunks' = chunks \cup Batched(j, All) /\ UNCHANGED kept
    <3> DEFINE next == [j EXCEPT !.pc = "batchrow", !.left = j.plan]
    <3>1. Go(w, next)
      BY <2>3
    <3>2. /\ Shaped(next) /\ next.kind = j.kind /\ next.old = j.old /\ next.base = j.base
          /\ next.file = j.file /\ next.plan = j.plan
          /\ next.pc = "batchrow" /\ next.left = j.plan
      BY <1>1 DEF Shaped
    <3> HIDE DEF next
    <3>3. Moves(w, next)
      BY <3>1, GoMoves
    <3> QED BY <2>1, <2>3, <3>2, <3>3
  <2>4. CASE BatchInsert(w)
    <3>1. \/ /\ chunks' = chunks \cup Batched(j, All) /\ UNCHANGED kept
             /\ Go(w, [j EXCEPT !.pc = "batchrow", !.left = j.plan])
          \/ Then(w, "done") /\ UNCHANGED <<chunks, kept>>
      BY <2>4 DEF BatchInsert, Batched, excused
    <3>2. Batched(j, {}) = {}
      BY DEF Batched
    <3> HIDE DEF All
    <3>3. chunks' = chunks => chunks' = chunks \cup Batched(j, {})
      BY <3>2
    <3> QED BY <2>2, <2>3, <3>1, <3>3
  <2>5. CASE BatchPart(w)
    BY <2>2, <2>5 DEF BatchPart, Batched
  <2> QED BY <1>2, <2>4, <2>5 DEF BatchInserts
<1>3. ASSUME NEW l, NEW pc
      PROVE  LET n == [j EXCEPT !.left = l, !.pc = pc] IN
             /\ Shaped(n) /\ n.kind = j.kind /\ n.old = j.old /\ n.base = j.base
             /\ n.file = j.file /\ n.plan = j.plan /\ n.pc = pc /\ n.left = l
  BY <1>1 DEF Shaped
<1>4. CASE BatchRow(w)
  <2>1. ~BatchInserts(w) /\ ~BatchLink(w) /\ j.pc = "batchrow"
    BY <1>4 DEF BatchInserts, BatchInsert, BatchPart, BatchRow, BatchLink, At
  <2>2. PICK p \in j.left :
           /\ files' = IF Exists(p[2])
                       THEN [files EXCEPT ![p[2]] = [files[p[2]] EXCEPT
                                               !.content = p[1], !.hash = p[1]]]
                       ELSE files
           /\ Go(w, [j EXCEPT !.left = IF j.left = {p} THEN j.plan ELSE j.left \ {p},
                              !.pc = IF j.left = {p} THEN "batchlink" ELSE j.pc])
    BY <1>4 DEF BatchRow
  <2> DEFINE l == IF j.left = {p} THEN j.plan ELSE j.left \ {p}
             pc == IF j.left = {p} THEN "batchlink" ELSE j.pc
             next == [j EXCEPT !.left = l, !.pc = pc]
  <2>3. \/ pc = "batchlink" /\ l = j.plan
        \/ pc = "batchrow" /\ l = j.left \ {p}
    BY <2>1
  <2>4. Go(w, next)
    BY <2>2
  <2> HIDE DEF l, pc
  <2>5. /\ Shaped(next) /\ next.kind = j.kind /\ next.old = j.old /\ next.base = j.base
        /\ next.file = j.file /\ next.plan = j.plan /\ next.pc = pc /\ next.left = l
    BY <1>3
  <2> HIDE DEF next
  <2>6. Moves(w, next)
    BY <2>4, GoMoves
  <2> QED BY <2>1, <2>2, <2>3, <2>5, <2>6
<1>5. CASE BatchLink(w)
  <2>1. ~BatchInserts(w) /\ ~BatchRow(w) /\ j.pc = "batchlink"
    BY <1>5 DEF BatchInserts, BatchInsert, BatchPart, BatchRow, BatchLink, At
  <2>2. PICK p \in j.left :
           /\ linked' = IF Exists(p[2]) THEN linked \cup {<<j.base, p[2]>>} ELSE linked
           /\ Go(w, [j EXCEPT !.left = j.left \ {p},
                              !.pc = IF j.left = {p} THEN "done" ELSE j.pc])
    BY <1>5 DEF BatchLink
  <2> DEFINE l == j.left \ {p}
             pc == IF j.left = {p} THEN "done" ELSE j.pc
             next == [j EXCEPT !.left = l, !.pc = pc]
  <2>3. pc = (IF j.left = {p} THEN "done" ELSE "batchlink")
    BY <2>1
  <2>4. Go(w, next)
    BY <2>2
  <2> HIDE DEF pc
  <2>5. /\ Shaped(next) /\ next.kind = j.kind /\ next.old = j.old /\ next.base = j.base
        /\ next.file = j.file /\ next.plan = j.plan /\ next.pc = pc /\ next.left = l
    BY <1>3
  <2> HIDE DEF next
  <2>6. Moves(w, next)
    BY <2>4, GoMoves
  <2>7. next.left = j.left \ {p} /\ next.pc = (IF j.left = {p} THEN "done" ELSE "batchlink")
    BY <2>3, <2>5
  <2>8. BatchLink(w) => \E q \in j.left :
           /\ linked' = IF Exists(q[2]) THEN linked \cup {<<j.base, q[2]>>} ELSE linked
           /\ next.left = j.left \ {q}
           /\ next.pc = (IF j.left = {q} THEN "done" ELSE "batchlink")
    BY <2>2, <2>7
  <2> QED BY <2>1, <2>5, <2>6, <2>8
<1> QED BY <1>2, <1>4, <1>5

LEMMA EmptiesDoes ==
    ASSUME JobsOK, NEW w \in Worker, Empties(w)
    PROVE  LET j == job[w] IN
           /\ UNCHANGED <<files, linked, unchecked>> /\ j.pc = "empty"
           /\ \E next : /\ Moves(w, next) /\ Shaped(next)
                        /\ next.pc = (IF j.kind = "reset" THEN "unlinkall" ELSE "next")
                        /\ next.kind = j.kind /\ next.file = j.file /\ next.base = j.base
                        /\ next.old = j.old /\ next.left = j.left
                        /\ \/ next.plan = j.plan
                           \/ /\ j.kind = "reindex" /\ UNCHANGED <<store, excused>>
                              /\ next.plan = {p \in j.plan : p[1] # j.base}
<1> DEFINE j == job[w]
<1>1. UNCHANGED <<files, linked, unchecked>> /\ j.pc = "empty" /\ Shaped(j)
  BY DEF Empties, Empty, EmptyFails, At, JobsOK, Proper, store
<1>2. CASE Then(w, IF j.kind = "reset" THEN "unlinkall" ELSE "next")
  BY <1>1, <1>2, ThenDoes DEF Still
<1>3. CASE /\ j.kind = "reindex" /\ UNCHANGED <<store, excused>>
           /\ Go(w, [j EXCEPT !.pc = "next", !.plan = {p \in @ : p[1] # j.base}])
  <2> DEFINE next == [j EXCEPT !.pc = "next", !.plan = {p \in @ : p[1] # j.base}]
  <2>1. /\ Go(w, next) /\ Shaped(next) /\ next.pc = "next" /\ next.kind = j.kind
        /\ next.file = j.file /\ next.base = j.base /\ next.old = j.old
        /\ next.left = j.left /\ next.plan = {p \in j.plan : p[1] # j.base}
    BY <1>1, <1>3 DEF Shaped
  <2> HIDE DEF next
  <2> QED BY <1>1, <1>3, <2>1, GoMoves
<1>4. CASE Empty(w)
  BY <1>2, <1>4 DEF Empty
<1>5. CASE EmptyFails(w)
  BY <1>2, <1>3, <1>5 DEF EmptyFails, excused
<1> QED BY <1>4, <1>5 DEF Empties

-----------------------------------------------------------------------------
(* What an edit leaves of a file *)

\* The identifiers that are stored or remembered, of which there are finitely
\* many, so that a new one is new
Ids == {c.id : c \in chunks} \cup UNION {job[w].old : w \in Worker}

\* An edit that adds the file to a base again, its old chunks known
Replacing(w) == /\ job[w].kind = "edit" /\ job[w].base \in Base
                /\ job[w].pc \in Working \cup {"drop"}
Known(w) == {c \in Chunks(job[w].base, job[w].file) : c.id \in job[w].old}

\* Of two edits of a file in a base, the later one knows all chunks that the
\* earlier one knew, as far as they are still there.
Nested ==
    \A w, v \in Worker : /\ Replacing(w) /\ Replacing(v)
                         /\ job[w].base = job[v].base /\ job[w].file = job[v].file
                         => Known(w) \subseteq Known(v) \/ Known(v) \subseteq Known(w)

\* When it comes to dropping the old chunks, there is a new one.
Renewed ==
    \A w \in Worker : /\ Replacing(w) /\ job[w].pc \in {"record", "drop"}
                      /\ <<job[w].base, job[w].file>> \notin shorn
                      => \/ Chunks(job[w].base, job[w].file) = {}
                         \/ \E c \in Chunks(job[w].base, job[w].file) : c.id \notin job[w].old

\* Nothing is inserted that is empty.
Filled == \A w \in Worker : job[w].pc = "insert" => job[w].docs # {}

KeptInv == IsFiniteSet(Ids) /\ Filled /\ Nested /\ Renewed

LEMMA FreshIsNew ==
    ASSUME IsFiniteSet(Ids)
    PROVE  Fresh \notin Ids
<1> DEFINE n == Cardinality(Ids)
<1>1. n \in Nat
  BY FS_CardinalityType
<1>2. IsFiniteSet(1..(n + 1)) /\ Cardinality(1..(n + 1)) = n + 1
  BY <1>1, FS_Interval
<1>3. \E m \in 1..(n + 1) : m \notin Ids
  <2>1. ASSUME 1..(n + 1) \subseteq Ids PROVE FALSE
    <3>1. Cardinality(1..(n + 1)) <= n
      BY <2>1, FS_Subset
    <3> QED BY <1>1, <1>2, <3>1
  <2> QED BY <2>1
<1>4. Fresh = CHOOSE m \in 1..(n + 1) : m \notin Ids
  BY DEF Fresh, Ids
<1> HIDE DEF n
<1> QED BY <1>3, <1>4

\* What a request remembers of old chunks
LEMMA OldAfter ==
    ASSUME JobsOK, NEW w \in Worker, Step(w)
    PROVE  /\ \A v \in Worker : v # w => job'[v] = job[v]
           /\ \/ job'[w].old \subseteq job[w].old
              \/ /\ Find(w) /\ UNCHANGED chunks
                 /\ job'[w].old = {c.id : c \in Chunks(job[w].base, job[w].file)}
                 /\ job'[w].base = job[w].base /\ job'[w].file = job[w].file
<1>0. Idle.old = {}
  BY DEF Idle
<1>1. ASSUME NEW next, Moves(w, next), next.old = job[w].old \/ next.old = {}
      PROVE  /\ \A v \in Worker : v # w => job'[v] = job[v]
             /\ job'[w].old \subseteq job[w].old
  BY <1>0, <1>1 DEF Moves
<1>2. CASE \/ Read(w) \/ Gathers(w) \/ Write(w) \/ Checks(w) \/ Inserts(w) \/ Record(w) \/ Fail(w)
  BY <1>1, <1>2, IndexingStill DEF Still
<1>3. CASE \/ Mark(w) \/ KeepMedia(w) \/ Unlink(w) \/ HashPurges(w) \/ OwnDrops(w) \/ DropRow(w)
           \/ UnlinkAll(w)
  <2>1. \E pc : Then(w, pc)
    BY <1>3 DEF Mark, KeepMedia, Unlink, HashPurges, PurgeHash, PurgeHashFails, OwnDrops,
         DropOwn, DropOwnFails, DropRow, UnlinkAll
  <2> QED BY <1>1, <2>1, ThenDoes DEF Still
<1>11. CASE Empties(w)
  <2>1. \E next : Moves(w, next) /\ next.old = job[w].old
    BY <1>11, EmptiesDoes
  <2> QED BY <1>1, <2>1
<1>4. CASE Link(w)
  <2>1. (\E k : Go(w, Process(job[w], k, None))) \/ Then(w, "done")
    BY <1>4 DEF Link, Then
  <2> QED BY <1>1, <2>1, ThenDoes, ProcessDoes DEF Still
<1>5. CASE Purges(w)
  <2>1. (\E k : Go(w, Process(job[w], k, None))) \/ Then(w, "purgehash")
    BY <1>5 DEF Purges, Purge, PurgeFails, Then
  <2> QED BY <1>1, <2>1, ThenDoes, ProcessDoes DEF Still
<1>6. CASE Bases(w)
  BY <1>1, <1>6, BasesDoes
<1>7. CASE Turn(w)
  <2>1. \E next : Moves(w, next) /\ next.old = job[w].old
    BY <1>7, TurnDoes
  <2> QED BY <1>1, <2>1
<1>8. CASE Finds(w)
  <2> DEFINE p == Process(job[w], job[w].base, None)
  <2>1. /\ Shaped(p) /\ p.base = job[w].base /\ p.file = job[w].file /\ p.pc = "read"
    BY DEF JobsOK, Proper, Shaped, Process
  <2>2. PICK ids : /\ Go(w, [p EXCEPT !.old = ids])
                   /\ \/ Find(w) /\ ids = {c.id : c \in Chunks(job[w].base, job[w].file)}
                      \/ ids = {}
    BY <1>8 DEF Finds, Find, FindBlind
  <2> DEFINE next == [p EXCEPT !.old = ids]
  <2> HIDE DEF p
  <2>3. /\ Go(w, next) /\ next.old = ids /\ next.base = job[w].base
        /\ next.file = job[w].file /\ next.pc = "read"
    BY <2>1, <2>2 DEF Shaped
  <2> HIDE DEF next
  <2>4. Moves(w, next)
    BY <2>3, GoMoves
  <2>5. UNCHANGED chunks
    BY <1>8, FindDoes
  <2> QED BY <1>1, <2>2, <2>3, <2>4, <2>5 DEF Moves
<1>9. CASE Drops(w)
  BY <1>1, <1>9, DropDoes
<1>10. CASE BatchInserts(w) \/ BatchRow(w) \/ BatchLink(w)
  <2>1. \E next : Moves(w, next) /\ next.old = job[w].old
    BY <1>10, BatchDoes
  <2> QED BY <1>1, <2>1
<1> QED BY <1>2, <1>3, <1>4, <1>5, <1>6, <1>7, <1>8, <1>9, <1>10, <1>11, StepIs

\* A request that adds a file to a base again has begun to, or goes on.
LEMMA ReplacingAfter ==
    ASSUME JobsOK, NEW w \in Worker, Step(w), Replacing(w)'
    PROVE  \/ Finds(w) /\ job'[w].pc = "read"
           \/ /\ Replacing(w) /\ ~Finds(w)
              /\ job'[w].base = job[w].base /\ job'[w].file = job[w].file
              /\ job'[w].old = job[w].old
<1>1. job'[w] # Idle /\ job'[w].kind = "edit" /\ job'[w].pc \in Working \cup {"drop"}
  BY IdleShaped DEF Replacing
<1>2. CASE \/ Read(w) \/ Gathers(w) \/ Write(w) \/ Checks(w) \/ Inserts(w) \/ Record(w) \/ Fail(w)
  <2>1. PICK next : Moves(w, next) /\ Still(job[w], next)
    BY <1>2, IndexingStill
  <2>2. job'[w] = next
    BY <1>1, <2>1 DEF Moves
  <2>3. job[w].pc \in Working /\ job[w].pc # "find"
    BY <1>2 DEF Read, Gathers, Gather, GatherOverOld, GatherBlind, Write, Checks, Check,
         CheckBlind, CheckFails, Inserts, Insert, InsertPart, Record, Fail, At, Working
  <2> QED BY <2>1, <2>2, <2>3 DEF Replacing, Still, Finds, Find, FindBlind, At
<1>3. CASE Finds(w)
  <2>1. PICK next : Moves(w, next) /\ next.pc = "read"
    BY <1>3, FindDoes
  <2> QED BY <1>3, <2>1 DEF Moves
<1>4. ASSUME ~Finds(w),
             ~(\/ Read(w) \/ Gathers(w) \/ Write(w) \/ Checks(w) \/ Inserts(w) \/ Record(w) \/ Fail(w))
      PROVE  FALSE
  <2>1. job'[w].pc = "read"
    BY <1>1, <1>4, Arrives DEF Working
  <2>2. Link(w) \/ Purges(w) \/ (Turn(w) /\ job[w].kind = "reindex")
    BY <1>4, <2>1, Arrives
  <2>3. Proper(job[w])
    BY DEF JobsOK
  <2>4. CASE Link(w)
    <3>1. (\E k : Go(w, Process(job[w], k, None))) \/ Then(w, "done")
      BY <2>4 DEF Link, Then
    <3>2. job'[w].kind = job[w].kind
      BY <1>1, <3>1, ThenDoes, ProcessDoes DEF Still, Moves
    <3>3. job[w].pc = "link"
      BY <2>4 DEF Link, At
    <3> QED BY <1>1, <2>3, <3>2, <3>3 DEF Proper, Legal, Working, Idle
  <2>5. CASE Purges(w)
    <3>1. (\E k : Go(w, Process(job[w], k, None))) \/ Then(w, "purgehash")
      BY <2>5 DEF Purges, Purge, PurgeFails, Then
    <3>2. job'[w].kind = job[w].kind
      BY <1>1, <3>1, ThenDoes, ProcessDoes DEF Still, Moves
    <3>3. job[w].pc = "purge"
      BY <2>5 DEF Purges, Purge, PurgeFails, At
    <3> QED BY <1>1, <2>3, <3>2, <3>3 DEF Proper, Legal, Working, Idle
  <2>6. CASE Turn(w) /\ job[w].kind = "reindex"
    <3>1. PICK next : Moves(w, next) /\ next.kind = job[w].kind
      BY <2>6, TurnDoes
    <3> QED BY <1>1, <2>6, <3>1 DEF Moves
  <2> QED BY <2>2, <2>4, <2>5, <2>6
<1> QED BY <1>2, <1>3, <1>4

\* What becomes of the chunks
LEMMA ChunksAfter ==
    ASSUME JobsOK, NEW w \in Worker, Step(w)
    PROVE  \/ chunks' \subseteq chunks
           \/ /\ Inserts(w) \/ BatchInserts(w)
              /\ chunks \subseteq chunks'
              /\ \A c \in chunks' : c \in chunks \/ c.id = Fresh
<1>1. CASE Inserts(w)
  <2>1. UNCHANGED chunks \/ chunks' = chunks \cup Made(job[w])
    BY <1>1, InsertDoes
  <2> HIDE DEF Fresh, Place
  <2> QED BY <1>1, <2>1 DEF Made
<1>2. CASE BatchInserts(w)
  <2>1. \E some : chunks' = chunks \cup Batched(job[w], some)
    BY <1>2, BatchDoes
  <2> HIDE DEF Fresh
  <2> QED BY <1>2, <2>1 DEF Batched
<1>3. CASE ~Inserts(w) /\ ~BatchInserts(w)
  BY <1>3, StepIs DEF Read, Gathers, Gather, GatherOverOld, GatherBlind, Write, Checks, Check,
       CheckBlind, CheckFails, Record, Fail, Mark, KeepMedia, Link, Bases, Turn, Finds, Find,
       FindBlind, Drops, Drop, DropFails, Unlink, Purges, Purge, PurgeFails, HashPurges,
       PurgeHash, PurgeHashFails, OwnDrops, DropOwn, DropOwnFails, DropRow, Empties, Empty,
       EmptyFails, UnlinkAll, BatchRow, BatchLink, store
<1> QED BY <1>1, <1>2, <1>3

LEMMA StepIds ==
    ASSUME JobsOK, IsFiniteSet(Ids), NEW w \in Worker, Step(w)
    PROVE  IsFiniteSet(Ids)'
<1>1. Ids' \subseteq Ids \cup {Fresh}
  <2>1. \A c \in chunks' : c.id \in Ids \cup {Fresh}
    BY ChunksAfter DEF Ids
  <2>2. \A v \in Worker : job'[v].old \subseteq Ids
    <3>1. job'[w].old \subseteq Ids
      BY OldAfter DEF Ids, Chunks
    <3>2. \A v \in Worker : v # w => job'[v].old \subseteq Ids
      BY OldAfter DEF Ids
    <3> QED BY <3>1, <3>2
  <2> HIDE DEF Fresh
  <2> QED BY <2>1, <2>2 DEF Ids
<1>2. IsFiniteSet(Ids \cup {Fresh})
  BY FS_AddElement
<1> HIDE DEF Ids
<1> QED BY <1>1, <1>2, FS_Subset

\* What a step takes of a file from a base: nothing; its old chunks, at the end
\* of an edit; those with a hash, which is remembered; or all of them.
LEMMA ChunksLost ==
    ASSUME JobsOK, KnowledgeAssumption, NEW w \in Worker, Step(w), NEW k \in Base, NEW f \in File
    PROVE  \/ /\ Chunks(k, f) \subseteq Chunks(k, f)'
              /\ <<k, f>> \in shorn => <<k, f>> \in shorn'
           \/ /\ Drops(w) /\ UNCHANGED shorn
              /\ Chunks(k, f)' = Chunks(k, f) \ Known(w)
           \/ PurgeHash(w) /\ <<k, f>> \in shorn'
           \/ (Purge(w) \/ Empty(w)) /\ Chunks(k, f)' = {}
<1>0. Proper(job[w])
  BY DEF JobsOK
<1>1. CASE Gathers(w) \/ OwnDrops(w)
  <2>1. UNCHANGED shorn
    BY <1>1, GatherDoes DEF OwnDrops, DropOwn, DropOwnFails, excused
  <2>2. job[w].file \in File
    BY <1>0, <1>1 DEF Gathers, Gather, GatherOverOld, GatherBlind, OwnDrops, DropOwn,
         DropOwnFails, At, Proper, Legal, Working, Idle
  <2>3. chunks \ Chunks(job[w].file, job[w].file) \subseteq chunks'
    BY <1>1 DEF Gathers, Gather, GatherOverOld, GatherBlind, OwnDrops, DropOwn, DropOwnFails,
                store
  <2>4. job[w].file # k
    BY <2>2 DEF KnowledgeAssumption
  <2> QED BY <2>1, <2>3, <2>4 DEF Chunks
<1>2. CASE Drops(w)
  BY <1>2 DEF Drops, Drop, DropFails, Known, Chunks, excused, store
<1>7. ASSUME UNCHANGED <<chunks, shorn>>
      PROVE  Chunks(k, f) \subseteq Chunks(k, f)' /\ (<<k, f>> \in shorn => <<k, f>> \in shorn')
  BY <1>7 DEF Chunks
<1>8. CASE PurgeHashFails(w) \/ PurgeFails(w) \/ EmptyFails(w)
  BY <1>7, <1>8 DEF PurgeHashFails, PurgeFails, EmptyFails, store, excused
<1>3. CASE PurgeHash(w)
  <2> DEFINE gone == {c \in chunks : /\ c.in = job[w].base /\ c.hash = job[w].hash
                                     /\ job[w].hash # None}
  <2>1. /\ chunks' = chunks \ gone
        /\ shorn' = shorn \cup {<<job[w].base, c.file>> : c \in gone}
    BY <1>3 DEF PurgeHash
  <2>2. CASE \E c \in gone : c \in Chunks(k, f)
    <3>1. PICK c \in gone : c \in Chunks(k, f)
      BY <2>2
    <3>2. <<job[w].base, c.file>> = <<k, f>>
      BY <3>1 DEF Chunks
    <3> HIDE DEF gone
    <3> QED BY <1>3, <2>1, <3>1, <3>2
  <2>3. CASE \A c \in gone : c \notin Chunks(k, f)
    <3> HIDE DEF gone
    <3> QED BY <2>1, <2>3 DEF Chunks
  <2> QED BY <2>2, <2>3
<1>4. CASE Purge(w)
  <2>1. CASE job[w].base = k /\ job[w].file = f
    BY <1>4, <2>1 DEF Purge, Chunks
  <2>2. CASE ~(job[w].base = k /\ job[w].file = f)
    <3>1. Chunks(k, f) \subseteq Chunks(k, f)'
      BY <1>4, <2>2 DEF Purge, Chunks
    <3>2. <<k, f>> # <<job[w].base, job[w].file>>
      BY <2>2
    <3>3. shorn' = shorn \ {<<job[w].base, job[w].file>>}
      BY <1>4 DEF Purge
    <3> QED BY <3>1, <3>2, <3>3
  <2> QED BY <2>1, <2>2
<1>5. CASE Empty(w)
  <2>1. CASE job[w].base = k
    BY <1>5, <2>1 DEF Empty, Chunks
  <2>2. CASE job[w].base # k
    BY <1>5, <2>2 DEF Empty, Chunks
  <2> QED BY <2>1, <2>2
<1>6. CASE ~(Gathers(w) \/ OwnDrops(w) \/ Drops(w) \/ HashPurges(w) \/ Purges(w) \/ Empties(w))
  <2>1. UNCHANGED shorn
    BY <1>6, StepIs DEF Read, Write, Checks, Check, CheckBlind, CheckFails, Inserts, Insert,
         InsertPart, Record, Fail, Mark, KeepMedia, Link, Bases, Turn, Finds, Find, FindBlind,
         Unlink, DropRow, UnlinkAll, BatchInserts, BatchInsert, BatchPart, BatchRow,
         BatchLink, store, excused
  <2>2. chunks \subseteq chunks'
    <3>1. CASE Inserts(w)
      BY <3>1, InsertDoes
    <3>2. CASE BatchInserts(w)
      <4>1. \E some : chunks' = chunks \cup Batched(job[w], some)
        BY <3>2, BatchDoes
      <4> QED BY <4>1
    <3>3. CASE ~Inserts(w) /\ ~BatchInserts(w)
      BY <1>6, <3>3, StepIs DEF Read, Write, Checks, Check, CheckBlind, CheckFails, Record,
           Fail, Mark, KeepMedia, Link, Bases, Turn, Finds, Find, FindBlind, Unlink, DropRow,
           UnlinkAll, BatchRow, BatchLink, store
    <3> QED BY <3>1, <3>2, <3>3
  <2> QED BY <2>1, <2>2 DEF Chunks
<1> QED BY <1>1, <1>2, <1>3, <1>4, <1>5, <1>6, <1>8 DEF Purges, HashPurges, Empties

\* The chunks that an edit knows do not become more.
LEMMA KnownAfter ==
    ASSUME JobsOK, IsFiniteSet(Ids), NEW w \in Worker, Step(w), NEW v \in Worker,
           Replacing(v), job'[v].base = job[v].base, job'[v].file = job[v].file,
           job'[v].old = job[v].old
    PROVE  Known(v)' = Known(v) \cap chunks'
<1>1. \A c \in chunks' : c \in chunks \/ c.id \notin job[v].old
  <2>1. Fresh \notin job[v].old
    BY FreshIsNew DEF Ids
  <2> HIDE DEF Fresh
  <2> QED BY <2>1, ChunksAfter
<1> QED BY <1>1 DEF Known, Chunks

LEMMA StepNested ==
    ASSUME JobsOK, IsFiniteSet(Ids), Nested, NEW u \in Worker, Step(u)
    PROVE  Nested'
<1> SUFFICES ASSUME NEW w \in Worker, NEW v \in Worker, Replacing(w)', Replacing(v)',
                    job'[w].base = job'[v].base, job'[w].file = job'[v].file
             PROVE  Known(w)' \subseteq Known(v)' \/ Known(v)' \subseteq Known(w)'
  BY DEF Nested
<1>1. ASSUME NEW x \in Worker, Replacing(x)'
      PROVE  \/ /\ Finds(u) /\ x = u
                /\ \/ Known(u)' = {}
                   \/ \A y \in Worker : /\ job'[y].base = job'[u].base
                                        /\ job'[y].file = job'[u].file
                                        => Known(y)' \subseteq Known(u)'
             \/ /\ Replacing(x) /\ job'[x].base = job[x].base /\ job'[x].file = job[x].file
                /\ job'[x].old = job[x].old
  <2>1. CASE x # u
    <3>1. job'[x] = job[x]
      BY <2>1, OldAfter
    <3> QED BY <1>1, <3>1 DEF Replacing
  <2>2. CASE x = u /\ Finds(u)
    <3>1. PICK next : /\ Moves(u, next) /\ next.pc = "read"
                      /\ \/ next.old = {c.id : c \in Chunks(job[u].base, job[u].file)}
                         \/ next.old = {}
                      /\ next.file = job[u].file /\ next.base = job[u].base
      BY <2>2, FindDoes
    <3>0. job'[u] = next /\ UNCHANGED chunks
      BY <2>2, <3>1, FindDoes DEF Moves
    <3>5. CASE next.old = {}
      BY <2>2, <3>0, <3>5 DEF Known
    <3>2. CASE next.old # {}
     <4>2. /\ job'[u].old = {c.id : c \in Chunks(job[u].base, job[u].file)}
          /\ job'[u].file = job[u].file /\ job'[u].base = job[u].base /\ UNCHANGED chunks
      BY <3>0, <3>1, <3>2
     <4>3. Known(u)' = Chunks(job[u].base, job[u].file)
      BY <4>2 DEF Known, Chunks
     <4>4. \A y \in Worker : job'[y].base = job'[u].base /\ job'[y].file = job'[u].file
                            => Known(y)' \subseteq Chunks(job[u].base, job[u].file)
      BY <4>2 DEF Known, Chunks
     <4> QED BY <2>2, <4>3, <4>4
    <3> QED BY <3>2, <3>5
  <2>3. CASE x = u /\ ~Finds(u)
    BY <1>1, <2>3, ReplacingAfter
  <2> QED BY <2>1, <2>2, <2>3
<1>2. CASE Finds(u) /\ (w = u \/ v = u)
  <2>1. job[u].pc = "find"
    BY <1>2 DEF Finds, Find, FindBlind, At
  <2>2. ~Replacing(u)
    BY <2>1 DEF Replacing, Working
  <2> QED BY <1>1, <1>2, <2>2
<1>3. CASE ~(Finds(u) /\ (w = u \/ v = u))
  <2>1. /\ Replacing(w) /\ job'[w].base = job[w].base /\ job'[w].file = job[w].file
        /\ job'[w].old = job[w].old
    BY <1>1, <1>3
  <2>2. /\ Replacing(v) /\ job'[v].base = job[v].base /\ job'[v].file = job[v].file
        /\ job'[v].old = job[v].old
    BY <1>1, <1>3
  <2>3. Known(w)' = Known(w) \cap chunks' /\ Known(v)' = Known(v) \cap chunks'
    BY <2>1, <2>2, KnownAfter
  <2>4. Known(w) \subseteq Known(v) \/ Known(v) \subseteq Known(w)
    BY <2>1, <2>2 DEF Nested
  <2> QED BY <2>3, <2>4
<1> QED BY <1>2, <1>3

LEMMA StepFilled ==
    ASSUME JobsOK, Filled, NEW w \in Worker, Step(w)
    PROVE  Filled'
<1> SUFFICES ASSUME NEW v \in Worker, job'[v].pc = "insert" PROVE job'[v].docs # {}
  BY DEF Filled
<1>1. CASE v = w
  <2>1. Checks(w)
    BY <1>1, Arrives
  <2>2. PICK next : /\ Moves(w, next) /\ next.docs = job[w].docs
                    /\ \/ next.pc \in {"fail", "record"}
                       \/ next.pc = "insert" /\ job[w].docs # {}
    BY <2>1, CheckDoes
  <2> QED BY <1>1, <2>2 DEF Moves
<1>2. CASE v # w
  BY <1>2, OldAfter DEF Filled
<1> QED BY <1>1, <1>2

\* An insert leaves a chunk that no edit knows.
LEMMA InsertRenews ==
    ASSUME JobsOK, KnowledgeAssumption, IsFiniteSet(Ids), Filled, NEW w \in Worker, Inserts(w),
           job'[w].pc = "record", NEW k \in Base, NEW f, job[w].base = k, job[w].file = f
    PROVE  \E c \in Chunks(k, f)' : c.id \notin job[w].old
<1> DEFINE j == job[w]
<1>1. PICK next :
        /\ Moves(w, next) /\ j.pc = "insert"
        /\ next.pc = "fail" \/ chunks' = chunks \cup Made(j)
  BY InsertDoes
<1>2. next.pc # "fail"
  BY <1>1 DEF Moves
<1>3. PICK x \in j.docs : TRUE
  BY <1>1 DEF Filled
<1> DEFINE c == [id |-> Fresh, in |-> Place(j.base, j.file), file |-> j.file,
                 content |-> x, hash |-> j.text]
<1>4. c \in chunks'
  BY <1>1, <1>2, <1>3 DEF Made
<1>5. Place(j.base, j.file) = j.base
  BY DEF Place, KnowledgeAssumption
<1>6. c.id = Fresh /\ c.in = j.base /\ c.file = j.file
  BY <1>5
<1>7. Fresh \notin j.old
  BY FreshIsNew DEF Ids
<1> HIDE DEF c, Fresh
<1>8. c \in Chunks(k, f)'
  BY <1>4, <1>6 DEF Chunks
<1> QED BY <1>6, <1>7, <1>8

LEMMA StepRenewed ==
    ASSUME JobsOK, KnowledgeAssumption, KeptInv, ChunksOK, NEW u \in Worker, Step(u)
    PROVE  Renewed'
<1> SUFFICES ASSUME NEW w \in Worker, Replacing(w)', job'[w].pc \in {"record", "drop"},
                    NEW k, NEW f, k = job'[w].base, f = job'[w].file,
                    <<k, f>> \notin shorn', Chunks(k, f)' # {}
             PROVE  \E c \in Chunks(k, f)' : c.id \notin job'[w].old
  BY DEF Renewed, Chunks
<1>1. /\ Replacing(w) /\ job'[w].base = job[w].base /\ job'[w].file = job[w].file
      /\ job'[w].old = job[w].old
  <2>1. CASE w # u
    <3>1. job'[w] = job[w]
      BY <2>1, OldAfter
    <3> QED BY <3>1 DEF Replacing
  <2>2. CASE w = u
    BY <2>2, ReplacingAfter
  <2> QED BY <2>1, <2>2
<1>2. k \in Base /\ f \in File /\ k # Own
  BY <1>1 DEF Replacing, JobsOK, Proper, Legal, Working, Idle, KnowledgeAssumption
<1>3. CASE w = u /\ Inserts(u)
  <2>1. job'[w].pc = "record"
    <3>1. job'[w].pc = "drop" => Record(w)
      BY <1>3, Arrives
    <3>2. ~Record(w)
      BY <1>3 DEF Inserts, Insert, InsertPart, Record, At
    <3> QED BY <3>1, <3>2
  <2>2. IsFiniteSet(Ids) /\ Filled
    BY DEF KeptInv
  <2>3. \E c \in Chunks(k, f)' : c.id \notin job[w].old
    BY <1>1, <1>2, <1>3, <2>1, <2>2, InsertRenews
  <2> QED BY <1>1, <2>3
<1>4. CASE ~(w = u /\ Inserts(u))
  <2>1. job[w].pc \in {"record", "drop"} /\ (w = u => Record(u))
    <3>1. CASE w = u
      <4>1. Record(u) \/ Checks(u)
        BY <1>4, <3>1, Arrives
      <4>2. CASE Checks(u)
        <5>1. job[u].base # Own
          BY <1>1, <1>2, <3>1
        <5>2. PICK next : Moves(u, next) /\ next.pc \in {"fail", "insert"}
          BY <4>2, <5>1, CheckDoes
        <5> QED BY <3>1, <5>2 DEF Moves
      <4>3. CASE Record(u)
        BY <3>1, <4>3 DEF Record, At
      <4> QED BY <4>1, <4>2, <4>3
    <3>2. CASE w # u
      BY <3>2, OldAfter
    <3> QED BY <3>1, <3>2
  <2>2. \/ /\ Chunks(k, f) \subseteq Chunks(k, f)'
           /\ <<k, f>> \in shorn => <<k, f>> \in shorn'
        \/ /\ Drops(u) /\ UNCHANGED shorn
           /\ Chunks(k, f)' = Chunks(k, f) \ Known(u)
    BY <1>1, <1>2, ChunksLost
  <2>3. <<k, f>> \notin shorn
    BY <1>1, <2>2
  <2>4. Chunks(k, f) = {} \/ \E c \in Chunks(k, f) : c.id \notin job[w].old
    BY <1>1, <2>1, <2>3 DEF KeptInv, Renewed
  <2>5. CASE Chunks(k, f) \subseteq Chunks(k, f)' /\ Chunks(k, f) # {}
    BY <1>1, <2>4, <2>5
  <2>6. CASE Chunks(k, f) = {}
    <3>1. PICK c \in Chunks(k, f)' : TRUE
      BY <1>1
    <3>2. c \in chunks' /\ c \notin chunks
      BY <2>6, <3>1 DEF Chunks
    <3>3. c.id = Fresh
      BY <3>2, ChunksAfter
    <3>4. Fresh \notin job[w].old
      BY FreshIsNew DEF Ids, KeptInv
    <3> HIDE DEF Fresh
    <3> QED BY <1>1, <3>1, <3>3, <3>4
  <2>7. CASE Drops(u) /\ Chunks(k, f)' = Chunks(k, f) \ Known(u)
    <3>1. Replacing(u) /\ w # u
      <4>1. Proper(job[u]) /\ job[u].pc = "drop"
        BY <2>7 DEF JobsOK, Drops, Drop, DropFails, At
      <4>2. ~Record(u)
        BY <4>1 DEF Record, At
      <4> QED BY <2>1, <4>1, <4>2 DEF Replacing, Proper, Legal, Working, Idle
    <3>2. CASE job[u].base = k /\ job[u].file = f
      <4>1. Known(w) \subseteq Known(u) \/ Known(u) \subseteq Known(w)
        BY <1>1, <3>1, <3>2 DEF KeptInv, Nested
      <4>2. CASE Known(w) \subseteq Known(u)
        <5>1. PICK c \in Chunks(k, f)' : TRUE
          BY <1>1
        <5>2. c.id \notin job[w].old
          BY <1>1, <2>7, <4>2, <5>1 DEF Known
        <5> QED BY <1>1, <5>1, <5>2
      <4>3. CASE Known(u) \subseteq Known(w)
        <5>1. PICK c \in Chunks(k, f) : c.id \notin job[w].old
          BY <1>1, <2>4, <2>7
        <5>2. c \in Chunks(k, f)'
          BY <1>1, <2>7, <4>3, <5>1 DEF Known
        <5> QED BY <1>1, <5>1, <5>2
      <4> QED BY <4>1, <4>2, <4>3
    <3>3. CASE ~(job[u].base = k /\ job[u].file = f)
      <4>1. Chunks(k, f)' = Chunks(k, f)
        BY <2>7, <3>3 DEF Known, Chunks
      <4> QED BY <1>1, <2>4, <4>1
    <3> QED BY <3>2, <3>3
  <2> QED BY <2>2, <2>5, <2>6, <2>7
<1> QED BY <1>3, <1>4

LEMMA InitKept == Init => KeptInv
<1> SUFFICES ASSUME Init PROVE KeptInv
  OBVIOUS
<1>1. /\ \A c \in chunks : c.id = 0
      /\ job = [w \in Worker |-> Idle]
  BY DEF Init
<1>2. Ids \subseteq {0}
  BY <1>1 DEF Ids, Idle
<1>3. IsFiniteSet({0})
  BY FS_Singleton
<1>4. IsFiniteSet(Ids)
  BY <1>2, <1>3, FS_Subset
<1>5. \A w \in Worker : job[w].pc = "idle" /\ job[w].kind = "none"
  BY <1>1, IdleShaped
<1> QED BY <1>4, <1>5 DEF KeptInv, Nested, Renewed, Replacing, Filled

LEMMA AsksAnew ==
    ASSUME BasicInv, NEW w \in Worker, Asks(w), KnowledgeAssumption
    PROVE  job'[w].old = {} /\ ~Replacing(w)'
<1>1. Opening(job'[w])
  BY AsksPc
<1> QED BY <1>1 DEF Opening, Replacing, KnowledgeAssumption

LEMMA NextKept == BasicInv /\ KeptInv /\ KnowledgeAssumption /\ [Next]_vars => KeptInv'
<1> SUFFICES ASSUME BasicInv, KeptInv, KnowledgeAssumption, [Next]_vars PROVE KeptInv'
  OBVIOUS
<1>0. JobsOK /\ ChunksOK
  BY TypeParts DEF BasicInv
<1>1. CASE UNCHANGED vars
  BY <1>1 DEF vars, store, history, excused, KeptInv, Ids, Filled, Nested, Renewed, Replacing,
              Known, Chunks
<1>2. ASSUME NEW w \in Worker, Step(w) PROVE KeptInv'
  BY <1>0, <1>2, StepIds, StepFilled, StepNested, StepRenewed DEF KeptInv
\* A request that begins remembers nothing and replaces nothing.
<1>3. ASSUME UNCHANGED <<chunks, excused>>,
             \A v \in Worker : \/ job'[v] = job[v]
                               \/ /\ job'[v].old = {} /\ job'[v].pc # "insert"
                                  /\ ~Replacing(v)'
      PROVE  KeptInv'
  <2>1. IsFiniteSet(Ids)'
    <3>1. Ids' \subseteq Ids
      BY <1>3 DEF Ids
    <3> QED BY <3>1, FS_Subset DEF KeptInv
  <2>2. Filled'
    BY <1>3 DEF KeptInv, Filled
  <2>3. \A v \in Worker : Replacing(v)' => job'[v] = job[v] /\ Replacing(v) /\ Known(v)' = Known(v)
    BY <1>3 DEF Replacing, Known, Chunks
  <2>4. Nested'
    BY <2>3 DEF KeptInv, Nested
  <2>5. Renewed'
    <3> SUFFICES ASSUME NEW w \in Worker, Replacing(w)', job'[w].pc \in {"record", "drop"},
                    NEW k, NEW f, k = job'[w].base, f = job'[w].file,
                    <<k, f>> \notin shorn', Chunks(k, f)' # {}
             PROVE  \E c \in Chunks(k, f)' : c.id \notin job'[w].old
      BY DEF Renewed, Chunks
    <3>1. UNCHANGED shorn /\ job'[w] = job[w] /\ Replacing(w)
      BY <1>3, <2>3 DEF excused
    <3>2. Chunks(k, f)' = Chunks(k, f)
      BY <1>3 DEF Chunks
    <3> QED BY <3>1, <3>2 DEF KeptInv, Renewed
  <2> QED BY <2>1, <2>2, <2>4, <2>5 DEF KeptInv
<1>4. ASSUME NEW w \in Worker, Asks(w) PROVE KeptInv'
  <2>1. PICK j : Start(w, j) /\ Opening(j)
    BY <1>0, <1>4, AsksFine DEF BasicInv
  <2>2. UNCHANGED <<chunks, excused>>
    BY <2>1 DEF Start
  <2>3. Opening(job'[w]) /\ \A v \in Worker : v # w => job'[v] = job[v]
    BY <1>4, AsksPc
  <2>4. job'[w].pc # "insert"
    BY <2>3 DEF Opening
  <2>5. job'[w].old = {} /\ ~Replacing(w)'
    BY <1>4, AsksAnew
  <2> QED BY <1>3, <2>2, <2>3, <2>4, <2>5
<1>5. CASE Crash
  <2>1. /\ job' = [w \in Worker |-> Idle] /\ UNCHANGED <<chunks, excused>>
    BY <1>5 DEF Crash, store
  <2>2. \A v \in Worker : job'[v] = Idle
    BY <2>1
  <2>3. Idle.old = {}
    BY DEF Idle
  <2>4. \A v \in Worker : job'[v].old = {} /\ job'[v].pc # "insert" /\ ~Replacing(v)'
    BY <2>2, <2>3, IdleShaped DEF Replacing
  <2> QED BY <1>3, <2>1, <2>4
<1> QED BY <1>1, <1>2, <1>4, <1>5 DEF Next

\* However edits, additions and uploads of a file interleave and fail, none of
\* them takes the last of its chunks out of a base (process_file; the edit of
\* update_file_data_content_by_id, which deletes the old chunks by their ids
\* after it has inserted the new ones).
THEOREM LastChunksKept == Spec => KeptUsable
<1> USE KnowledgeAssumption
<1>1. Init => BasicInv /\ KeptInv
  BY InitBasic, InitKept
<1>2. BasicInv /\ KeptInv /\ [Next]_vars => BasicInv' /\ KeptInv'
  BY NextBasic, NextKept
<1>3. ASSUME BasicInv, KeptInv, [Next]_vars, NEW k \in Base, NEW f \in File,
             Chunks(k, f) # {}, Chunks(k, f)' = {}, <<k, f>> \notin shorn
      PROVE  \E w \in Worker : /\ job'[w] # job[w]
                               /\ job[w].kind \in {"remove", "delete", "update",
                                                   "reset", "reindex"}
  <2>1. chunks' # chunks
    BY <1>3 DEF Chunks
  <2>2. PICK w \in Worker : Step(w)
    <3>1. ~(UNCHANGED vars) /\ ~Crash
      BY <2>1 DEF vars, store, Crash
    <3>2. \A w \in Worker : ~Asks(w)
      <4>1. ASSUME NEW w \in Worker, Asks(w) PROVE chunks' = chunks
        <5>1. PICK j : Start(w, j)
          BY <1>3, <4>1, AsksFine DEF BasicInv
        <5> QED BY <5>1 DEF Start
      <4> QED BY <2>1, <4>1
    <3> QED BY <1>3, <3>1, <3>2 DEF Next
  <2>3. Proper(job[w]) /\ JobsOK
    BY <1>3 DEF BasicInv, JobsOK
  <2>4. \/ Drops(w) /\ Chunks(k, f)' = Chunks(k, f) \ Known(w)
        \/ PurgeHash(w) \/ Purge(w) \/ Empty(w)
    BY <1>3, <2>2, <2>3, ChunksLost
  <2>5. CASE Drops(w) /\ Chunks(k, f)' = Chunks(k, f) \ Known(w)
    <3>1. job[w].pc = "drop"
      BY <2>5 DEF Drops, Drop, DropFails, At
    <3>2. Replacing(w)
      BY <2>3, <3>1 DEF Replacing, Proper, Legal, Working, Idle
    <3>3. job[w].base = k /\ job[w].file = f
      BY <1>3, <2>5 DEF Known, Chunks
    <3>4. PICK c \in Chunks(k, f) : c.id \notin job[w].old
      BY <1>3, <3>1, <3>2, <3>3 DEF KeptInv, Renewed
    <3>5. c \in Chunks(k, f)'
      BY <2>5, <3>4 DEF Known
    <3> QED BY <1>3, <3>5
  <2>6. ASSUME NEW pc, Then(w, pc), pc # job[w].pc, pc # "done" \/ job[w] # Idle
        PROVE  job'[w] # job[w]
    <3>1. PICK next : Moves(w, next) /\ next.pc = pc
      BY <2>3, <2>6, ThenDoes
    <3> QED BY <2>6, <3>1 DEF Moves
  <2>7. CASE PurgeHash(w)
    <3>1. job[w].pc = "purgehash" /\ job[w] # Idle /\ job[w].kind \in {"remove", "delete"}
      BY <2>3, <2>7, IdleShaped DEF PurgeHash, AfterPurge, At, Proper, Legal,
           Working
    <3>2. \E pc \in {"next", "dropown", "done"} : Then(w, pc)
      BY <2>7 DEF PurgeHash, AfterPurge
    <3> QED BY <2>6, <3>1, <3>2
  <2>8. CASE Empty(w)
    <3>1. job[w].pc = "empty" /\ job[w] # Idle /\ job[w].kind \in {"reset", "reindex"}
      BY <2>3, <2>8, IdleShaped DEF Empty, At, Proper, Legal, Working
    <3>2. \E pc \in {"next", "unlinkall"} : Then(w, pc)
      BY <2>8 DEF Empty
    <3> QED BY <2>6, <3>1, <3>2
  <2>9. CASE Purge(w)
    <3>1. job[w].pc = "purge" /\ job[w].kind \in {"remove", "delete", "update"}
      BY <2>3, <2>9, IdleShaped DEF Purge, At, Proper, Legal, Working
    <3>2. job'[w].pc # "purge"
      <4>1. (\E k1 : Go(w, Process(job[w], k1, None))) \/ Then(w, "purgehash")
        BY <2>9 DEF Purge, Then
      <4> QED BY <2>3, <4>1, ThenDoes, ProcessDoes, IdleShaped DEF Moves
    <3> QED BY <3>1, <3>2
  <2> QED BY <2>4, <2>5, <2>7, <2>8, <2>9
<1>4. BasicInv /\ KeptInv /\ [Next]_vars =>
        [\A k \in Base, f \in File :
          Chunks(k, f) # {} /\ Chunks(k, f)' = {} /\ <<k, f>> \notin shorn =>
             \E w \in Worker : /\ job'[w] # job[w]
                               /\ job[w].kind \in {"remove", "delete", "update",
                                                   "reset", "reindex"}]_vars
  BY <1>3
<1> QED BY <1>1, <1>2, <1>4, PTL DEF Spec, KeptUsable

-----------------------------------------------------------------------------
(* What is stored of a file that no two requests worked on *)

Adding == {"read", "gather", "write", "check", "insert"}

Clear(k, f)  == <<k, f>> \notin troubled \cup shorn \cup kept /\ <<f, f>> \notin kept
Within(k, f) == Contents(k, f) \subseteq {files[f].content}
Right(k, f)  == Contents(k, f) = {files[f].content} \ {None}

\* Request j is going to make f right in k, to which it is linked ...
Off(j, k, f) ==
    \/ j.kind = "edit" /\ j.base = Own /\ j.pc \notin {"next", "done"}
    \/ j.kind = "edit" /\ k \in j.left
    \/ /\ j.kind \in {"edit", "update", "upload"} /\ j.base = k
       /\ j.pc \in Working \cup {"find", "drop"}
    \/ j.kind = "reset" /\ j.pc = "unlinkall" /\ j.base = k
    \/ j.kind = "reindex" /\ j.base = k /\ j.pc \in Working /\ j.file = f
    \/ /\ j.kind = "reindex" /\ j.base = k /\ j.pc \in Working \cup {"next"}
       /\ <<k, f>> \in j.plan

\* ... or to link it, or to take it out, where it is not linked.
May(j, k, f) ==
    /\ j.base = k
    /\ \/ j.kind = "add" /\ j.pc \in {"record", "link"}
       \/ j.kind \in {"remove", "delete"} /\ j.pc = "purge"
       \/ j.kind = "batch" /\ j.pc = "batchrow"
       \/ j.kind = "batch" /\ j.pc = "batchlink" /\ \E p \in j.left : p[2] = f

\* The row of f and its own collection, and what j knows of them
OnRow(j, f) ==
    /\ Exists(f) /\ <<f, f>> \notin kept => Within(f, f)
    /\ files[f].status = "unused" => Chunks(f, f) = {}
    /\ /\ j.kind \in {"upload", "edit", "add", "update", "remove", "delete", "batch"}
       /\ j.pc # "done"
       => Exists(f)
    /\ j.kind = "batch" => \A p \in j.plan : p[2] = f => p[1] = files[f].content
    /\ j.pc \in Working /\ j.file = f =>
         /\ Exists(f)
         /\ j.base = Own =>
              /\ j.kind = "upload" /\ j.pc \in {"read", "gather"} => Chunks(f, f) = {}
              /\ j.pc \in {"write", "check", "insert"} =>
                   /\ j.docs = {j.text}
                   /\ <<f, f>> \notin kept => Contents(f, f) \subseteq {j.text}
              /\ j.pc \in {"check", "insert"} => j.text = files[f].content
         /\ j.base \in Base =>
              /\ j.pc \in {"gather", "write", "check", "insert"} => j.text = files[f].content
              /\ j.pc \in {"write", "check", "insert"} /\ <<f, f>> \notin kept =>
                   j.docs \subseteq {files[f].content}

\* What j knows of the link of f to k
Linking(j, k, f) ==
    /\ j.kind = "upload" /\ (j.base \notin Base \/ j.pc \in {"mark", "media", "link"}) =>
         <<k, f>> \notin linked
    /\ j.kind \in {"upload", "edit", "update"} /\ j.base = k => <<k, f>> \in linked
    /\ j.kind = "edit" /\ k \in j.left => <<k, f>> \in linked
    /\ j.kind = "delete" /\ <<k, f>> \in linked =>
         \/ j.pc = "bases"
         \/ j.pc # "droprow" /\ k \in j.left
         \/ j.pc = "unlink" /\ j.base = k
    /\ j.kind \in {"remove", "delete"} /\ j.pc = "purge" /\ j.base = k => <<k, f>> \notin linked
    /\ j.kind = "reindex" =>
         /\ j.base = k => k \notin j.left
         /\ <<k, f>> \in j.plan => <<k, f>> \in linked
         /\ j.pc \in Working /\ j.file = f /\ j.base = k =>
              <<k, f>> \in linked /\ <<k, f>> \notin j.plan
         /\ <<k, f>> \in linked /\ (k \in j.left \/ (j.pc = "empty" /\ j.base = k)) =>
              <<k, f>> \in j.plan
    /\ j.kind = "batch" /\ j.base = k /\ j.pc = "batchinsert" => <<k, f>> \notin linked

\* What j knows of the chunks of f in the base k it is working on
Holding(j, k, f) ==
    /\ j.kind = "reset" /\ j.pc = "unlinkall" => Chunks(k, f) = {} \/ <<k, f>> \in kept
    /\ j.kind = "reindex" /\ j.pc \in Working \cup {"next"} /\ <<k, f>> \in j.plan =>
         Chunks(k, f) = {}
    /\ j.kind = "batch" /\ j.pc \in {"batchrow", "batchlink"} /\ Clear(k, f) => Right(k, f)
    /\ j.kind = "add" /\ j.pc = "link" /\ Clear(k, f) => Right(k, f)
    /\ j.kind = "add" /\ j.pc \in Adding /\ Clear(k, f) => Within(k, f)
    /\ j.kind \in {"upload", "update", "reindex"} /\ j.file = f /\ j.pc \in Adding =>
         Chunks(k, f) = {} \/ <<k, f>> \in kept
    /\ j.kind # "edit" /\ j.file = f /\ j.pc = "record" /\ Clear(k, f) => Right(k, f)
    /\ j.kind = "edit" /\ j.pc \in Adding =>
         <<k, f>> \in kept \/ \A c \in Chunks(k, f) : c.id \in j.old
    /\ j.kind = "edit" /\ j.pc \in {"record", "drop"} /\ Clear(k, f) =>
         /\ \A c \in Chunks(k, f) : c.id \in j.old \/ c.content = files[f].content
         /\ \E c \in Chunks(k, f) : c.id \notin j.old

Found(j, k, f) ==
    /\ <<k, f>> \in linked /\ Clear(k, f) => Right(k, f) \/ Off(j, k, f)
    /\ <<k, f>> \notin linked \cup kept /\ files[f].status # "removed" =>
         Chunks(k, f) = {} \/ May(j, k, f)

InBase(j, k, f) == Found(j, k, f) /\ Linking(j, k, f) /\ (j.base = k => Holding(j, k, f))

Sound(j, f) == OnRow(j, f) /\ \A k \in Base : InBase(j, k, f)

\* The request about f, or Idle where there is none
Business(f) == {j \in {job[w] : w \in Worker} : f \in About(j)} \cup {j \in {Idle} : Quiet(f)}

AloneInv == \A f \in File : Alone(f) => \A j \in Business(f) : Sound(j, f)

\* A step that leaves f alone, but for chunks deleted by their hash
SparedIn(k, f) ==
    /\ <<k, f>> \in linked' <=> <<k, f>> \in linked
    /\ <<k, f>> \in kept' <=> <<k, f>> \in kept
    /\ Chunks(k, f)' \subseteq Chunks(k, f)
    /\ Clear(k, f)' => Clear(k, f) /\ Chunks(k, f)' = Chunks(k, f)

Spared(f) ==
    /\ files'[f] = files[f]
    /\ Chunks(f, f)' = Chunks(f, f)
    /\ <<f, f>> \in kept' <=> <<f, f>> \in kept
    /\ \A k \in Base : SparedIn(k, f)

LEMMA SparedSound ==
    ASSUME NEW f \in File, Spared(f), NEW j, Sound(j, f)
    PROVE  Sound(j, f)'
<1>1. OnRow(j, f)'
  BY DEF Spared, Sound, OnRow, Exists, Within, Contents, Chunks
<1>2. ASSUME NEW k \in Base PROVE InBase(j, k, f)'
  <2>1. files'[f] = files[f] /\ SparedIn(k, f) /\ InBase(j, k, f)
    BY DEF Spared, Sound
  <2>2. Clear(k, f)' => (Right(k, f)' <=> Right(k, f)) /\ (Within(k, f)' <=> Within(k, f))
    BY <2>1 DEF SparedIn, Right, Within, Contents
  <2>3. Found(j, k, f)'
    BY <2>1, <2>2 DEF SparedIn, InBase, Found, Off, May
  <2>4. Linking(j, k, f)'
    BY <2>1 DEF SparedIn, InBase, Linking
  <2>5. ASSUME j.base = k PROVE Holding(j, k, f)'
    <3>1. Holding(j, k, f)
      BY <2>1, <2>5 DEF InBase
    <3> QED BY <2>1, <2>2, <3>1 DEF SparedIn, Holding
  <2> QED BY <2>3, <2>4, <2>5 DEF InBase
<1> QED BY <1>1, <1>2 DEF Sound

LEMMA StoreSpared ==
    ASSUME NEW f \in File, UNCHANGED <<files, linked, chunks, troubled, shorn, kept>>
    PROVE  Spared(f)
BY DEF Spared, SparedIn, Chunks, Clear

LEMMA NothingSpared ==
    ASSUME NEW f \in File, UNCHANGED <<files, linked, chunks, excused>>
    PROVE  Spared(f)
BY StoreSpared DEF excused

\* Chunks deleted by their hash spare every file that loses none.
LEMMA HashSpared ==
    ASSUME JobsOK, KnowledgeAssumption, NEW w \in Worker, NEW f \in File, PurgeHash(w)
    PROVE  Spared(f)
<1> DEFINE j == job[w]
           gone == {c \in chunks : c.in = j.base /\ c.hash = j.hash /\ j.hash # None}
<1>1. /\ UNCHANGED <<files, linked, troubled, kept>> /\ chunks' = chunks \ gone
      /\ shorn' = shorn \cup {<<j.base, c.file>> : c \in gone}
  BY DEF PurgeHash
<1>2. j.base \in Base
  BY DEF PurgeHash, At, JobsOK, Proper, Legal, Working, Idle
<1>3. Chunks(f, f)' = Chunks(f, f)
  BY <1>1, <1>2 DEF Chunks, KnowledgeAssumption
<1>4. ASSUME NEW k \in Base PROVE SparedIn(k, f)
  <2>1. (Clear(k, f)' => Clear(k, f)) /\ Chunks(k, f)' \subseteq Chunks(k, f)
    BY <1>1 DEF Clear, Chunks
  <2>2. CASE \E c \in gone : c \in Chunks(k, f)
    <3>1. PICK c \in gone : c \in Chunks(k, f)
      BY <2>2
    <3>2. <<j.base, c.file>> = <<k, f>>
      BY <3>1 DEF Chunks
    <3>3. ~Clear(k, f)'
      <4> HIDE DEF gone
      <4> QED BY <1>1, <3>1, <3>2 DEF Clear
    <3> QED BY <1>1, <2>1, <3>3 DEF SparedIn
  <2>3. CASE \A c \in gone : c \notin Chunks(k, f)
    <3>1. Chunks(k, f)' = Chunks(k, f)
      <4> HIDE DEF gone
      <4> QED BY <1>1, <2>3 DEF Chunks
    <3> QED BY <1>1, <2>1, <3>1 DEF SparedIn
  <2> QED BY <2>2, <2>3
<1> QED BY <1>1, <1>3, <1>4 DEF Spared

\* Steps of a request that is working on another file, or on none
LEMMA SparedByOne ==
    ASSUME JobsOK, RowsOK, KnowledgeAssumption, NEW w \in Worker, NEW f \in File, Step(w),
           job[w].file # f, job[w].kind # "batch", ~Empties(w), ~UnlinkAll(w)
    PROVE  Spared(f)
<1> DEFINE j == job[w]
<1>0. Proper(j) /\ j.file # f
  BY DEF JobsOK
<1>1. CASE Read(w) \/ Checks(w) \/ Bases(w) \/ Turn(w)
  BY <1>1, StoreSpared DEF Read, Checks, Check, CheckBlind, CheckFails, Bases, Turn, store,
       excused
<1>2. ASSUME UNCHANGED <<linked, chunks, shorn, kept>>, NEW r,
             files' = IF Exists(j.file) THEN [files EXCEPT ![j.file] = r] ELSE files,
             troubled \subseteq troubled', \A k : <<k, f>> \in troubled' => <<k, f>> \in troubled
      PROVE  Spared(f)
  <2>1. files'[f] = files[f]
    BY <1>0, <1>2 DEF RowsOK
  <2>2. \A k \in Base : Clear(k, f)' <=> Clear(k, f)
    BY <1>2 DEF Clear
  <2> QED BY <1>2, <2>1, <2>2 DEF Spared, SparedIn, Chunks
<1>3. CASE Write(w) \/ Record(w) \/ Mark(w) \/ KeepMedia(w)
  <2>1. /\ UNCHANGED <<linked, chunks, excused>>
        /\ \E r : files' = IF Exists(j.file) THEN [files EXCEPT ![j.file] = r] ELSE files
    BY <1>3 DEF Write, Record, Mark, KeepMedia
  <2> QED BY <1>2, <2>1 DEF excused
<1>4. CASE Fail(w)
  <2>1. /\ UNCHANGED <<linked, chunks, shorn, kept>>
        /\ \E r : files' = IF Exists(j.file) THEN [files EXCEPT ![j.file] = r] ELSE files
        /\ troubled' = troubled \cup ({<<j.base, j.file>>} \ {<<Own, j.file>>})
    BY <1>4 DEF Fail
  <2>2. \A k : <<k, f>> # <<j.base, j.file>>
    BY <1>0
  <2>3. troubled \subseteq troubled' /\ \A k : <<k, f>> \in troubled' => <<k, f>> \in troubled
    BY <2>1, <2>2
  <2> QED BY <1>2, <2>1, <2>3
\* The chunks of other files come and go.
<1>5. ASSUME UNCHANGED <<files, linked>>, \A c : c.file = f => (c \in chunks' <=> c \in chunks),
             \A k : <<k, f>> \in kept' <=> <<k, f>> \in kept,
             \A k : <<k, f>> \in troubled' <=> <<k, f>> \in troubled,
             \A k : <<k, f>> \in shorn' <=> <<k, f>> \in shorn
      PROVE  Spared(f)
  <2>1. \A k : Chunks(k, f)' = Chunks(k, f)
    BY <1>5 DEF Chunks
  <2> QED BY <1>5, <2>1 DEF Spared, SparedIn, Clear
<1>6. CASE Gathers(w) \/ Drops(w) \/ OwnDrops(w) \/ Finds(w)
  <2>1. /\ UNCHANGED <<files, linked, troubled, shorn>>
        /\ \E x : kept' \in {kept, kept \cup {<<x, j.file>>}, kept \ {<<x, j.file>>}}
    BY <1>6 DEF Gathers, Gather, GatherOverOld, GatherBlind, Drops, Drop, DropFails, OwnDrops,
         DropOwn, DropOwnFails, Finds, Find, FindBlind, store, excused
  <2>2. \A c : c.file = f => (c \in chunks' <=> c \in chunks)
    BY <1>0, <1>6 DEF Gathers, Gather, GatherOverOld, GatherBlind, Drops, Drop, DropFails,
         OwnDrops, DropOwn, DropOwnFails, Finds, Find, FindBlind, store, Chunks
  <2>3. \A k : <<k, f>> \in kept' <=> <<k, f>> \in kept
    BY <1>0, <2>1
  <2> QED BY <1>5, <2>1, <2>2, <2>3
<1>7. CASE Inserts(w)
  <2>1. /\ UNCHANGED <<files, linked, troubled, shorn>>
        /\ UNCHANGED chunks \/ chunks' = chunks \cup Made(j)
        /\ kept' \in {kept, kept \cup {<<Place(j.base, j.file), j.file>>}}
    BY <1>7, InsertDoes
  <2>2. \A c \in Made(j) : c.file = j.file
    BY DEF Made
  <2> HIDE DEF j
  <2>3. \A c : c.file = f => (c \in chunks' <=> c \in chunks)
    BY <1>0, <2>1, <2>2
  <2>4. \A k : <<k, f>> \in kept' <=> <<k, f>> \in kept
    BY <1>0, <2>1
  <2> QED BY <1>5, <2>1, <2>3, <2>4
<1>8. CASE Purges(w)
  <2>1. /\ UNCHANGED <<files, linked>>
        /\ \/ /\ chunks' = chunks \ Chunks(j.base, j.file)
              /\ troubled' = troubled \ {<<j.base, j.file>>}
              /\ shorn' = shorn \ {<<j.base, j.file>>}
              /\ kept' = kept \ {<<j.base, j.file>>}
           \/ UNCHANGED <<chunks, troubled, shorn>> /\ kept' = kept \cup {<<j.base, j.file>>}
    BY <1>8 DEF Purges, Purge, PurgeFails, store
  <2>2. \A k : <<k, f>> # <<j.base, j.file>>
    BY <1>0
  <2>3. /\ \A k : <<k, f>> \in kept' <=> <<k, f>> \in kept
        /\ \A k : <<k, f>> \in troubled' <=> <<k, f>> \in troubled
        /\ \A k : <<k, f>> \in shorn' <=> <<k, f>> \in shorn
    BY <2>1, <2>2
  <2>4. \A c : c.file = f => (c \in chunks' <=> c \in chunks)
    BY <1>0, <2>1 DEF Chunks
  <2> QED BY <1>5, <2>1, <2>3, <2>4
<1>9. CASE HashPurges(w)
  BY <1>9, HashSpared, NothingSpared DEF HashPurges, PurgeHashFails, store
<1>10. CASE Link(w) \/ Unlink(w) \/ DropRow(w)
  <2>1. UNCHANGED <<chunks, excused>>
    BY <1>10 DEF Link, Unlink, DropRow
  <2>2. files'[f] = files[f]
    BY <1>0, <1>10 DEF Link, Unlink, DropRow, RowsOK
  <2>3. \A k \in Base : <<k, f>> \in linked' <=> <<k, f>> \in linked
    BY <1>0, <1>10 DEF Link, Unlink, DropRow
  <2> QED BY <2>1, <2>2, <2>3 DEF Spared, SparedIn, Chunks, Clear, excused
<1>11. ~(BatchInserts(w) \/ BatchRow(w) \/ BatchLink(w))
  <2>1. j.pc \notin {"batchinsert", "batchrow", "batchlink"}
    BY <1>0 DEF Proper, Legal, Working, Idle
  <2> QED BY <2>1 DEF BatchInserts, BatchInsert, BatchPart, BatchRow, BatchLink, At
<1> QED BY <1>1, <1>3, <1>4, <1>6, <1>7, <1>8, <1>9, <1>10, <1>11, StepIs

LEMMA SparedByBatch ==
    ASSUME JobsOK, RowsOK, NEW w \in Worker, NEW f \in File, job[w].kind = "batch",
           BatchInserts(w) \/ BatchRow(w) \/ BatchLink(w), \A p \in job[w].plan : p[2] # f
    PROVE  Spared(f)
<1> DEFINE j == job[w]
<1>0. j.left \subseteq j.plan /\ UNCHANGED <<troubled, shorn>>
      /\ (~BatchInserts(w) => UNCHANGED kept)
  <2>1. Proper(j)
    BY DEF JobsOK
  <2>2. j.left \subseteq j.plan
    BY <2>1 DEF Proper, Legal, Idle
  <2>3. UNCHANGED <<troubled, shorn>> /\ (~BatchInserts(w) => UNCHANGED kept)
    BY DEF BatchInserts, BatchInsert, BatchPart, BatchRow, BatchLink, excused
  <2> QED BY <2>2, <2>3
<1>1. CASE BatchInserts(w)
  <2>1. /\ UNCHANGED <<files, linked>>
        /\ \E some \in SUBSET j.plan :
              /\ chunks' = chunks \cup Batched(j, some)
              /\ UNCHANGED kept \/ kept' = kept \cup {<<j.base, p[2]>> : p \in some}
    <3>1. UNCHANGED <<files, linked>>
      BY <1>1 DEF BatchInserts, BatchInsert, BatchPart
    <3>2. \E some \in SUBSET {p \in j.plan : p[1] # None} :
              /\ chunks' = chunks \cup Batched(j, some)
              /\ \/ some = {} /\ UNCHANGED kept
                 \/ kept' = kept \cup {<<j.base, p[2]>> : p \in some}
                 \/ UNCHANGED kept
      BY <1>1, BatchDoes
    <3> QED BY <3>1, <3>2
  <2>2. PICK some \in SUBSET j.plan :
              /\ chunks' = chunks \cup Batched(j, some)
              /\ UNCHANGED kept \/ kept' = kept \cup {<<j.base, p[2]>> : p \in some}
    BY <2>1
  <2>3. \A c \in Batched(j, some) : c.file # f
    BY DEF Batched
  <2>4. \A k : Chunks(k, f)' = Chunks(k, f)
    BY <2>2, <2>3 DEF Chunks
  <2>5. \A k : <<k, f>> \in kept' <=> <<k, f>> \in kept
    BY <2>2
  <2> QED BY <1>0, <2>1, <2>4, <2>5 DEF Spared, SparedIn, Clear
<1>2. CASE BatchRow(w)
  <2>1. UNCHANGED <<linked, chunks>> /\ files'[f] = files[f]
    BY <1>0, <1>2 DEF BatchRow, RowsOK
  <2>2. UNCHANGED kept
    BY <1>2 DEF BatchRow, excused
  <2> QED BY <1>0, <2>1, <2>2 DEF Spared, SparedIn, Clear, Chunks
<1>3. CASE BatchLink(w)
  <2>1. /\ UNCHANGED <<files, chunks, kept>>
        /\ \A k : <<k, f>> \in linked' <=> <<k, f>> \in linked
    BY <1>0, <1>3 DEF BatchLink, excused
  <2> QED BY <1>0, <2>1 DEF Spared, SparedIn, Clear, Chunks
<1> QED BY <1>1, <1>2, <1>3

\* A request that has ended leaves things in order behind it.
Ended(next) == next.pc = "done" /\ next.kind = "edit" => next.left = {}

LEMMA DoneSound ==
    ASSUME NEW f, NEW next, next.pc = "done", Ended(next), Sound(next, f)', KnowledgeAssumption
    PROVE  Sound(Idle, f)'
<1>1. OnRow(Idle, f)'
  BY IdleShaped DEF Sound, OnRow, Working
<1>2. ASSUME NEW k \in Base PROVE InBase(Idle, k, f)'
  <2>1. Idle.base = None /\ None # k /\ Idle.pc = "idle" /\ Idle.kind = "none"
    BY DEF Idle, KnowledgeAssumption
  <2>2. Found(next, k, f)'
    BY DEF Sound, InBase
  <2>3. ~Off(next, k, f)' /\ ~May(next, k, f)'
    BY DEF Off, May, Working, Ended
  <2> QED BY <2>1, <2>2, <2>3 DEF InBase, Found, Linking
<1> QED BY <1>1, <1>2 DEF Sound

\* A reindexing, as long as it indexes another file
LEMMA ReindexOther ==
    ASSUME NEW f \in File, NEW j, NEW next, Still(j, next), j.kind = "reindex", j.file # f,
           j.pc \in Working, next.pc \in Working \cup {"next"}, Sound(j, f)'
    PROVE  Sound(next, f)'
<1>1. OnRow(next, f)'
  BY DEF Sound, OnRow, Still, Working
<1>2. ASSUME NEW k \in Base PROVE InBase(next, k, f)'
  <2>1. InBase(j, k, f)'
    BY DEF Sound
  <2>2. Found(next, k, f)'
    BY <2>1 DEF InBase, Found, Off, May, Still, Working
  <2>3. Linking(next, k, f)'
    BY <2>1 DEF InBase, Linking, Still, Working
  <2>4. Holding(j, k, f)' /\ j.base = k => Holding(next, k, f)'
    BY DEF Holding, Still, Working, Adding
  <2> QED BY <2>1, <2>2, <2>3, <2>4 DEF InBase, Still
<1> QED BY <1>1, <1>2 DEF Sound

LEMMA IndexingOther ==
    ASSUME JobsOK, RowsOK, KnowledgeAssumption, NEW w \in Worker, NEW f \in File, Step(w),
           NEW j, j = job[w], f \in About(j), j.file # f, Sound(j, f),
           \/ Read(w) \/ Gathers(w) \/ Write(w) \/ Checks(w) \/ Inserts(w) \/ Record(w) \/ Fail(w)
    PROVE  \E next : Moves(w, next) /\ Ended(next) /\ Sound(next, f)'
<1>1. Proper(j) /\ j.pc \in Working
  BY DEF JobsOK, Read, Gathers, Gather, GatherOverOld, GatherBlind, Write, Checks, Check,
       CheckBlind, CheckFails, Inserts, Insert, InsertPart, Record, Fail, At, Working
<1>2. j.kind = "reindex"
  BY <1>1 DEF Proper, Legal, Working, Idle, About
<1>3. Spared(f)
  <2>1. ~Empties(w) /\ ~UnlinkAll(w)
    BY <1>1 DEF Empties, Empty, EmptyFails, UnlinkAll, At, Working
  <2> QED BY <1>2, <2>1, SparedByOne
<1>4. Sound(j, f)'
  BY <1>3, SparedSound
<1>5. \A ok \in BOOLEAN : After(j, ok) = "next"
  BY <1>2, AfterIs
<1>6. \E next : /\ Moves(w, next) /\ Still(j, next)
                /\ next.pc \in {"gather", "write", "fail", "check", "insert", "record", "next"}
  <2>1. CASE Read(w)
    BY <1>5, <2>1, ReadDoes
  <2>2. CASE Gathers(w)
    BY <2>2, GatherDoes
  <2>3. CASE Write(w)
    BY <2>3, WriteDoes
  <2>4. CASE Checks(w)
    BY <2>4, CheckDoes
  <2>5. CASE Inserts(w)
    BY <2>5, InsertDoes
  <2>6. CASE Record(w)
    BY <1>5, <2>6, RecordDoes
  <2>7. CASE Fail(w)
    BY <1>5, <2>7, FailDoes
  <2> QED BY <2>1, <2>2, <2>3, <2>4, <2>5, <2>6, <2>7
<1>7. PICK next : /\ Moves(w, next) /\ Still(j, next)
                  /\ next.pc \in {"gather", "write", "fail", "check", "insert", "record", "next"}
  BY <1>6
<1>8. Sound(next, f)'
  BY <1>1, <1>2, <1>4, <1>7, ReindexOther DEF Working
<1> QED BY <1>2, <1>7, <1>8 DEF Ended, Still

LEMMA ReadSound ==
    ASSUME JobsOK, KnowledgeAssumption, NEW w \in Worker, NEW f \in File, Read(w),
           NEW j, j = job[w], j.file = f, Sound(j, f)
    PROVE  \E next : Moves(w, next) /\ Ended(next) /\ Sound(next, f)'
<1>1. Proper(j) /\ j.pc = "read"
  BY ReadDoes DEF JobsOK
<1>2. Exists(f) /\ UNCHANGED <<files, linked, chunks, excused>>
  BY <1>1, ReadDoes DEF Sound, OnRow, Working
<1>3. PICK next : /\ Moves(w, next) /\ Still(j, next) /\ next.pc = "gather"
                  /\ next.text = files[f].content
  BY <1>2, ReadDoes
<1>4. Sound(j, f)'
  BY <1>2, NothingSpared, SparedSound
<1>5. OnRow(next, f)'
  BY <1>1, <1>2, <1>3, <1>4 DEF Sound, OnRow, Still, Working
<1>6. ASSUME NEW k \in Base PROVE InBase(next, k, f)'
  <2>1. InBase(j, k, f)'
    BY <1>4 DEF Sound
  <2>2. Found(next, k, f)'
    BY <1>1, <1>3, <2>1 DEF InBase, Found, Off, May, Still, Working
  <2>3. Linking(next, k, f)'
    BY <1>1, <1>3, <2>1 DEF InBase, Linking, Still, Working
  <2>4. Holding(j, k, f)' /\ j.base = k => Holding(next, k, f)'
    BY <1>1, <1>3 DEF Holding, Still, Working, Adding
  <2> QED BY <1>3, <2>1, <2>2, <2>3, <2>4 DEF InBase, Still
<1> QED BY <1>3, <1>5, <1>6 DEF Sound, Ended

LEMMA GatherSound ==
    ASSUME JobsOK, ChunksOK, KnowledgeAssumption, NEW w \in Worker, NEW f \in File, Gathers(w),
           NEW j, j = job[w], j.file = f, Sound(j, f)
    PROVE  \E next : Moves(w, next) /\ Ended(next) /\ Sound(next, f)'
<1> DEFINE own == {c.content : c \in Chunks(f, f)}
<1>1. /\ Proper(j) /\ j.pc = "gather" /\ UNCHANGED <<files, linked, troubled, shorn>>
      /\ Exists(f) /\ f \notin Base
  BY GatherDoes DEF JobsOK, Sound, OnRow, Working, KnowledgeAssumption
<1>2. PICK next :
        /\ Moves(w, next) /\ Still(j, next) /\ next.pc \in {"write", "fail"}
        /\ \/ /\ j.given # None /\ next.pc = "write"
              /\ \/ /\ chunks' = chunks \ Chunks(f, f)
                    /\ kept' = kept \ {<<f, f>>}
                 \/ UNCHANGED chunks /\ kept' = kept \cup {<<f, f>>}
              /\ next.docs = {j.given} /\ next.text = j.given
           \/ /\ j.given = None /\ j.base # Own /\ next.pc = "write"
              /\ UNCHANGED <<chunks, kept>>
              /\ next.docs = {j.text} \ {None} \/ (own # {} /\ next.docs = own)
              /\ next.text = j.text
           \/ /\ j.given = None /\ j.base = Own /\ next.pc = "write"
              /\ UNCHANGED chunks
              /\ kept' = (IF own \subseteq {j.source} THEN kept ELSE kept \cup {<<f, f>>})
              /\ next.docs = {j.source} /\ next.text = j.source
           \/ /\ j.given = None /\ j.base = Own /\ next.pc = "fail"
              /\ UNCHANGED <<chunks, kept>>
  BY GatherDoes
<1> HIDE DEF own
<1>3. /\ Chunks(f, f)' \subseteq Chunks(f, f)
      /\ j.given # None => Chunks(f, f)' = {} \/ <<f, f>> \in kept'
      /\ j.given = None => Chunks(f, f)' = Chunks(f, f)
      /\ j.given = None => (<<f, f>> \in kept => <<f, f>> \in kept')
      /\ \A k \in Base : /\ Chunks(k, f)' = Chunks(k, f)
                         /\ <<k, f>> \in kept' <=> <<k, f>> \in kept
  BY <1>1, <1>2 DEF Chunks
<1>4. /\ j.given # None => j.kind = "edit" /\ j.base = Own
      /\ j.base = Own => j.kind \in {"upload", "edit"}
      /\ j.base \in Base \cup {Own}
  BY <1>1 DEF Proper, Legal, Working, Idle, KnowledgeAssumption
<1>5. OnRow(next, f)'
  <2>1. /\ <<f, f>> \notin kept' => Within(f, f)'
        /\ files'[f].status = "unused" => Chunks(f, f)' = {}
    BY <1>1, <1>3 DEF Sound, OnRow, Within, Contents
  <2>2. ASSUME next.base = Own, next.pc = "write"
        PROVE  /\ next.docs = {next.text}
               /\ <<f, f>> \notin kept' => Contents(f, f)' \subseteq {next.text}
    <3>1. CASE j.given # None
      BY <1>2, <1>3, <3>1 DEF Contents
    <3>2. CASE j.given = None
      <4>1. j.base = Own
        BY <1>2, <2>2 DEF Still
      <4>2. /\ next.docs = {j.source} /\ next.text = j.source
            /\ kept' = (IF own \subseteq {j.source} THEN kept ELSE kept \cup {<<f, f>>})
        BY <1>2, <2>2, <3>2, <4>1
      <4>3. Contents(f, f)' = own
        BY <1>3, <3>2 DEF Contents, own
      <4> QED BY <4>2, <4>3
    <3> QED BY <3>1, <3>2
  <2>3. ASSUME next.base \in Base, next.pc = "write"
        PROVE  /\ next.text = files[f].content
               /\ <<f, f>> \notin kept' => next.docs \subseteq {files[f].content}
    <3>1. j.base = next.base /\ next.base # Own
      BY <1>2, <2>3 DEF Still, KnowledgeAssumption
    <3>2. j.given = None
      BY <1>4, <3>1
    <3>3. /\ j.text = files[f].content
          /\ <<f, f>> \notin kept => own \subseteq {files[f].content}
      BY <1>1, <2>3, <3>1 DEF Sound, OnRow, Within, Contents, Working, own
    <3> QED BY <1>2, <3>1, <3>2, <3>3
  <2> QED BY <1>1, <1>2, <2>1, <2>2, <2>3 DEF Sound, OnRow, Exists, Still, Working
<1>6. ASSUME NEW k \in Base PROVE InBase(next, k, f)'
  <2>1. InBase(j, k, f) /\ k # Own
    BY DEF Sound, KnowledgeAssumption
  <2>2. /\ Chunks(k, f)' = Chunks(k, f) /\ (<<k, f>> \in kept' <=> <<k, f>> \in kept)
        /\ Right(k, f)' <=> Right(k, f)
        /\ Within(k, f)' <=> Within(k, f)
    BY <1>1, <1>3 DEF Right, Within, Contents
  <2>3. j.given = None => (Clear(k, f)' => Clear(k, f))
    BY <1>1, <1>3, <2>2 DEF Clear
  <2>4. Found(next, k, f)'
    <3>1. <<k, f>> \in linked' /\ Clear(k, f)' => Right(k, f)' \/ Off(next, k, f)'
      <4>1. CASE j.given # None
        <5>1. next.kind = "edit" /\ next.base = Own /\ next.pc \notin {"next", "done"}
          BY <1>2, <1>4, <4>1 DEF Still
        <5> QED BY <5>1 DEF Off
      <4>2. CASE j.given = None
        <5>1. Off(j, k, f) => Off(next, k, f)
          BY <1>1, <1>2 DEF Off, Still, Working
        <5> QED BY <1>1, <2>1, <2>2, <2>3, <4>2, <5>1 DEF InBase, Found, Off
      <4> QED BY <4>1, <4>2
    <3>2. ~May(j, k, f)
      BY <1>1 DEF May
    <3> QED BY <1>1, <2>1, <2>2, <3>1, <3>2 DEF InBase, Found
  <2>5. Linking(next, k, f)'
    BY <1>1, <1>2, <2>1 DEF InBase, Linking, Still, Working
  <2>6. ASSUME next.base = k PROVE Holding(next, k, f)'
    <3>1. j.base = k /\ Holding(j, k, f) /\ j.given = None
      BY <1>2, <1>4, <2>1, <2>6 DEF InBase, Still
    <3> QED BY <1>1, <1>2, <2>2, <2>3, <3>1 DEF Holding, Still, Working, Adding
  <2> QED BY <2>4, <2>5, <2>6 DEF InBase
<1> QED BY <1>2, <1>5, <1>6 DEF Sound, Ended

LEMMA WriteSound ==
    ASSUME JobsOK, RowsOK, KnowledgeAssumption, NEW w \in Worker, NEW f \in File, Write(w),
           NEW j, j = job[w], j.file = f, Sound(j, f)
    PROVE  \E next : Moves(w, next) /\ Ended(next) /\ Sound(next, f)'
<1>1. /\ Proper(j) /\ j.pc = "write" /\ UNCHANGED <<linked, chunks, excused>> /\ Exists(f)
  BY WriteDoes DEF JobsOK, Sound, OnRow, Working
<1>2. PICK next : /\ Moves(w, next) /\ Still(j, next) /\ next.pc = "check"
                  /\ next.text = j.text /\ next.docs = j.docs
  BY WriteDoes
<1>3. files'[f].content = j.text /\ files'[f].status = files[f].status
  <2>1. files' = [files EXCEPT ![f].content = j.text]
    BY <1>1, WriteDoes
  <2> QED BY <2>1 DEF RowsOK, Rows
<1>4. /\ j.base = Own => j.kind \in {"upload", "edit"}
      /\ j.base \in Base \cup {Own}
  BY <1>1 DEF Proper, Legal, Working, Idle, KnowledgeAssumption
<1>5. j.base \in Base => /\ j.text = files[f].content
                         /\ <<f, f>> \notin kept => j.docs \subseteq {files[f].content}
  BY <1>1 DEF Sound, OnRow, Working
<1>6. j.base = Own => /\ j.docs = {j.text}
                      /\ <<f, f>> \notin kept => Contents(f, f) \subseteq {j.text}
  BY <1>1 DEF Sound, OnRow, Working
<1>7. OnRow(next, f)'
  <2>0. UNCHANGED kept
    BY <1>1 DEF excused
  <2>1. /\ <<f, f>> \notin kept' => Within(f, f)'
        /\ Exists(f)' /\ files'[f].status # "unused"
        /\ \A k : Chunks(k, f)' = Chunks(k, f) /\ Contents(k, f)' = Contents(k, f)
    BY <1>1, <1>3, <1>4, <1>5, <1>6, <2>0 DEF Sound, OnRow, Within, Contents, Chunks, Exists
  <2>2. next.kind # "batch"
    BY <1>1, <1>2 DEF Proper, Legal, Idle, Still
  <2> QED BY <1>2, <1>3, <1>5, <1>6, <2>0, <2>1, <2>2 DEF OnRow, Still, Working
<1>8. ASSUME NEW k \in Base PROVE InBase(next, k, f)'
  <2>1. InBase(j, k, f) /\ Chunks(k, f)' = Chunks(k, f)
    BY <1>1 DEF Sound, Chunks
  <2>2. Found(next, k, f)'
    <3>1. CASE j.base \in Base
      <4>1. files'[f].content = files[f].content
        BY <1>3, <1>5, <3>1
      <4> QED BY <1>1, <1>2, <1>3, <2>1, <4>1
              DEF InBase, Found, Off, May, Still, Working, Right, Contents, Clear, excused
    <3>2. CASE j.base = Own
      <4>1. j.kind = "edit" \/ <<k, f>> \notin linked
        BY <1>4, <2>1, <3>2 DEF InBase, Linking, KnowledgeAssumption
      <4> QED BY <1>1, <1>2, <1>3, <2>1, <3>2, <4>1
              DEF InBase, Found, Off, May, Still, Working, excused
    <3> QED BY <1>4, <3>1, <3>2
  <2>3. Linking(next, k, f)'
    BY <1>1, <1>2, <2>1 DEF InBase, Linking, Still, Working
  <2>4. ASSUME next.base = k PROVE Holding(next, k, f)'
    <3>1. j.base = k /\ Holding(j, k, f) /\ files'[f].content = files[f].content
      BY <1>2, <1>3, <1>5, <2>1, <2>4 DEF InBase, Still
    <3> QED BY <1>1, <1>2, <2>1, <3>1
            DEF Holding, Still, Working, Adding, Right, Within, Contents, Clear, excused
  <2> QED BY <2>2, <2>3, <2>4 DEF InBase
<1> QED BY <1>2, <1>7, <1>8 DEF Sound, Ended

LEMMA CheckSound ==
    ASSUME JobsOK, KnowledgeAssumption, NEW w \in Worker, NEW f \in File, Checks(w),
           NEW j, j = job[w], j.file = f, Sound(j, f)
    PROVE  \E next : Moves(w, next) /\ Ended(next) /\ Sound(next, f)'
<1>1. Proper(j) /\ j.pc = "check"
      /\ UNCHANGED <<files, linked, chunks, troubled, shorn, kept>>
  BY CheckDoes DEF JobsOK
<1>2. PICK next : /\ Moves(w, next) /\ Still(j, next)
                  /\ next.text = j.text /\ next.docs = j.docs
                  /\ next.pc \in {"fail", "insert", "record"}
                  /\ next.pc = "record" => j.base = Own
  BY CheckDoes
<1>3. Sound(j, f)'
  BY <1>1, StoreSpared, SparedSound
<1>4. OnRow(next, f)'
  BY <1>1, <1>2, <1>3 DEF Sound, OnRow, Still, Working
<1>5. ASSUME NEW k \in Base PROVE InBase(next, k, f)'
  <2>1. InBase(j, k, f)' /\ k # Own
    BY <1>3 DEF Sound, KnowledgeAssumption
  <2>2. Found(next, k, f)'
    BY <1>1, <1>2, <2>1 DEF InBase, Found, Off, May, Still, Working
  <2>3. Linking(next, k, f)'
    BY <1>1, <1>2, <2>1 DEF InBase, Linking, Still, Working
  <2>4. Holding(j, k, f)' /\ j.base = k => Holding(next, k, f)'
    BY <1>1, <1>2, <2>1 DEF Holding, Still, Working, Adding
  <2> QED BY <1>2, <2>1, <2>2, <2>3, <2>4 DEF InBase, Still
<1> QED BY <1>2, <1>4, <1>5 DEF Sound, Ended

LEMMA InsertSound ==
    ASSUME JobsOK, ChunksOK, KeptInv, KnowledgeAssumption, NEW w \in Worker, NEW f \in File,
           Inserts(w), NEW j, j = job[w], j.file = f, Sound(j, f)
    PROVE  \E next : Moves(w, next) /\ Ended(next) /\ Sound(next, f)'
<1> DEFINE in == Place(j.base, f)
<1>1. /\ Proper(j) /\ j.pc = "insert" /\ UNCHANGED <<files, linked, troubled, shorn>>
      /\ Exists(f)
      /\ f \notin Base /\ j.docs # {} /\ j.docs \subseteq Content /\ None \notin Content
  BY InsertDoes
     DEF JobsOK, Sound, OnRow, Working, KnowledgeAssumption, KeptInv, Filled, Proper
<1>2. PICK next : /\ Moves(w, next) /\ Still(j, next)
                  /\ next.text = j.text /\ next.docs = j.docs
                  /\ \/ next.pc = "fail" /\ UNCHANGED <<chunks, kept>>
                     \/ /\ next.pc = "fail" /\ chunks' = chunks \cup Made(j)
                        /\ kept' = kept \cup {<<in, f>>}
                     \/ /\ next.pc = "record" /\ chunks' = chunks \cup Made(j)
                        /\ UNCHANGED kept
  BY InsertDoes
<1>3. /\ j.base = Own => j.kind \in {"upload", "edit"} /\ in = f
      /\ j.base \in Base => in = j.base
      /\ j.base \in Base \cup {Own}
  BY <1>1 DEF Proper, Legal, Working, Idle, KnowledgeAssumption, Place
<1>4. /\ j.base = Own => /\ j.docs = {files[f].content}
                         /\ <<f, f>> \notin kept => Contents(f, f) \subseteq {files[f].content}
      /\ j.base \in Base /\ <<f, f>> \notin kept => j.docs = {files[f].content}
  BY <1>1 DEF Sound, OnRow, Working
<1>5. ASSUME next.pc = "fail", UNCHANGED <<chunks, kept>>
      PROVE  Sound(next, f)'
  <2>2. Sound(j, f)'
    BY <1>1, <1>5, StoreSpared, SparedSound
  <2>3. OnRow(next, f)'
    BY <1>1, <1>2, <1>5, <2>2 DEF Sound, OnRow, Still, Working
  <2>4. ASSUME NEW k \in Base PROVE InBase(next, k, f)'
    <3>1. InBase(j, k, f)'
      BY <2>2 DEF Sound
    <3>2. Found(next, k, f)'
      BY <1>1, <1>2, <1>5, <3>1 DEF InBase, Found, Off, May, Still, Working
    <3>3. Linking(next, k, f)'
      BY <1>1, <1>2, <1>5, <3>1 DEF InBase, Linking, Still, Working
    <3>4. Holding(j, k, f)' /\ j.base = k => Holding(next, k, f)'
      BY <1>1, <1>2, <1>5, <3>1 DEF Holding, Still, Working, Adding
    <3> QED BY <1>2, <3>1, <3>2, <3>3, <3>4 DEF InBase, Still
  <2> QED BY <2>3, <2>4 DEF Sound
\* The chunks are there, and it is recorded, or it is known that they may stay.
<1>6. ASSUME chunks' = chunks \cup Made(j),
             \/ next.pc = "fail" /\ kept' = kept \cup {<<in, f>>}
             \/ next.pc = "record" /\ UNCHANGED kept
      PROVE  Sound(next, f)'
  <2>2. \A c \in Made(j) : c.id = Fresh /\ c.in = in /\ c.file = f /\ c.content \in j.docs
    BY DEF Made
  <2>3. \E c : c \in Made(j)
    <3>1. PICK x : x \in j.docs
      BY <1>1
    <3> QED BY <3>1 DEF Made
  <2>4. <<f, f>> \notin kept => files[f].content \in Content
    BY <1>1, <1>3, <1>4
  <2> HIDE DEF in
  <2>5. /\ Chunks(in, f)' = Chunks(in, f) \cup Made(j)
        /\ \A k : k # in => Chunks(k, f)' = Chunks(k, f)
    BY <1>6, <2>2 DEF Chunks
  <2>05. /\ \A k : <<k, f>> \in kept => <<k, f>> \in kept'
         /\ \A k : k # in => (<<k, f>> \in kept' <=> <<k, f>> \in kept)
    BY <1>6
  <2>6. OnRow(next, f)'
    <3>1. <<f, f>> \notin kept' => Within(f, f)'
      <4>1. CASE j.base = Own
        BY <1>1, <1>3, <1>4, <2>2, <2>5, <2>05, <4>1 DEF Within, Contents
      <4>2. CASE j.base \in Base
        <5>1. Chunks(f, f)' = Chunks(f, f)
          BY <1>1, <1>3, <2>5, <4>2
        <5> QED BY <1>1, <2>05, <5>1 DEF Sound, OnRow, Within, Contents
      <4> QED BY <1>3, <4>1, <4>2
    <3>2. next.kind # "batch" /\ Exists(f)' /\ files'[f].status # "unused"
      BY <1>1, <1>2 DEF Proper, Legal, Idle, Still, Exists
    <3> QED BY <1>6, <3>1, <3>2 DEF OnRow, Working
  <2>7. ASSUME NEW k \in Base PROVE InBase(next, k, f)'
    <3>1. InBase(j, k, f)
      BY DEF Sound
    <3>2. Linking(next, k, f)'
      BY <1>1, <1>2, <1>6, <3>1 DEF InBase, Linking, Still, Working
    <3>02. Clear(k, f)' => Clear(k, f)
      BY <1>1, <2>05 DEF Clear
    <3>3. CASE k # j.base
      <4>1. Chunks(k, f)' = Chunks(k, f) /\ (<<k, f>> \in kept' <=> <<k, f>> \in kept)
        BY <1>1, <1>3, <2>5, <2>05, <3>3
      <4>2. Right(k, f)' <=> Right(k, f)
        BY <1>1, <4>1 DEF Right, Contents
      <4>3. Off(j, k, f) => Off(next, k, f)
        BY <1>1, <1>2, <1>6, <3>3 DEF Off, Still, Working
      <4>4. ~May(j, k, f)
        BY <3>3 DEF May
      <4>5. Found(next, k, f)'
        BY <1>1, <3>1, <3>02, <4>1, <4>2, <4>3, <4>4 DEF InBase, Found, Off
      <4> QED BY <1>2, <3>2, <3>3, <4>5 DEF InBase, Still
    <3>4. CASE k = j.base
      <4>1. in = k /\ Holding(j, k, f)
        BY <1>3, <3>1, <3>4 DEF InBase
      <4>01. Clear(k, f)' => next.pc = "record" /\ UNCHANGED kept /\ <<f, f>> \notin kept
        BY <1>6, <4>1 DEF Clear
      <4>02. next.pc = "fail" => <<k, f>> \in kept'
        BY <1>6, <4>1
      <4>2. <<f, f>> \notin kept => Contents(k, f)' = Contents(k, f) \cup {files[f].content}
        BY <1>4, <2>2, <2>3, <2>5, <3>4, <4>1 DEF Contents
      <4>4. ASSUME Contents(k, f) \subseteq {files[f].content}, Clear(k, f)' PROVE Right(k, f)'
        BY <1>1, <2>4, <4>01, <4>2, <4>4 DEF Right
      <4>5. j.kind # "edit" /\ Clear(k, f)' => Right(k, f)'
        <5>1. CASE j.kind = "add"
          BY <1>1, <3>02, <4>1, <4>4, <5>1 DEF Holding, Adding, Within
        <5>2. CASE j.kind \in {"upload", "update", "reindex"}
          <6>1. Clear(k, f) => <<k, f>> \notin kept
            BY DEF Clear
          <6> QED BY <1>1, <3>02, <4>1, <4>4, <5>2, <6>1 DEF Holding, Adding, Contents
        <5> QED BY <1>1, <5>1, <5>2 DEF Proper, Legal, Working, Idle
      <4>6. Found(next, k, f)'
        <5>1. <<k, f>> \in linked \/ j.kind = "add"
          BY <1>1, <3>1, <3>4 DEF InBase, Linking, Proper, Legal, Working, Idle
        <5>2. j.kind = "edit" => Off(next, k, f)
          BY <1>2, <1>6, <3>4 DEF Off, Still, Working
        <5>3. j.kind = "add" /\ next.pc = "record" => May(next, k, f)
          BY <1>2, <3>4 DEF May, Still
        <5> QED BY <1>1, <1>6, <4>02, <4>5, <5>1, <5>2, <5>3 DEF Found, Off, May
      <4>7. Holding(next, k, f)'
        <5>1. ASSUME j.kind = "edit", Clear(k, f)'
              PROVE  /\ \A c \in Chunks(k, f)' : c.id \in j.old \/ c.content = files[f].content
                     /\ \E c \in Chunks(k, f)' : c.id \notin j.old
          <6>0. <<k, f>> \notin kept
            BY <3>02, <5>1 DEF Clear
          <6>1. \A c \in Chunks(k, f) : c.id \in j.old
            BY <1>1, <4>1, <5>1, <6>0 DEF Holding, Adding
          <6>2. Fresh \notin j.old
            BY FreshIsNew DEF KeptInv, Ids
          <6>3. \A c \in Made(j) : c.content = files[f].content
            BY <1>4, <2>2, <3>4, <4>01, <5>1
          <6> HIDE DEF Fresh
          <6> QED BY <2>2, <2>3, <2>5, <4>1, <6>1, <6>2, <6>3
        <5>2. j.kind = "reindex" => <<k, f>> \notin j.plan
          BY <1>1, <3>1, <3>4 DEF InBase, Linking, Working
        <5>3. j.kind \notin {"reset", "batch"}
          BY <1>1 DEF Proper, Legal, Working, Idle
        <5> QED BY <1>1, <1>2, <1>6, <4>5, <5>1, <5>2, <5>3 DEF Holding, Still, Adding
      <4> QED BY <3>2, <4>6, <4>7 DEF InBase
    <3> QED BY <3>3, <3>4
  <2> QED BY <2>6, <2>7 DEF Sound
<1>7. Sound(next, f)'
  BY <1>2, <1>5, <1>6
<1> QED BY <1>2, <1>7 DEF Ended

\* Its row is written to, but its content stays.
LEMMA RowSound ==
    ASSUME NEW f \in File, Exists(f), Exists(f)', files'[f].content = files[f].content,
           UNCHANGED <<linked, chunks, shorn, kept>>, troubled \subseteq troubled',
           NEW j, Sound(j, f)
    PROVE  Sound(j, f)'
<1>1. \A k : Chunks(k, f)' = Chunks(k, f) /\ (Clear(k, f)' => Clear(k, f))
  BY DEF Chunks, Clear
<1>2. \A k : /\ Contents(k, f)' = Contents(k, f)
             /\ (Right(k, f)' <=> Right(k, f)) /\ (Within(k, f)' <=> Within(k, f))
  BY <1>1 DEF Right, Within, Contents
<1>3. OnRow(j, f)'
  BY <1>1, <1>2 DEF Sound, OnRow, Exists
<1>4. ASSUME NEW k \in Base PROVE InBase(j, k, f)'
  <2>1. InBase(j, k, f)
    BY DEF Sound
  <2>2. Found(j, k, f)'
    BY <1>1, <1>2, <2>1 DEF InBase, Found, Off, May, Exists
  <2>3. Linking(j, k, f)'
    BY <2>1 DEF InBase, Linking
  <2>4. Holding(j, k, f) => Holding(j, k, f)'
    BY <1>1, <1>2 DEF Holding
  <2> QED BY <2>1, <2>2, <2>3, <2>4 DEF InBase
<1> QED BY <1>3, <1>4 DEF Sound

LEMMA RecordSound ==
    ASSUME JobsOK, RowsOK, ChunksOK, KnowledgeAssumption, NEW w \in Worker, NEW f \in File,
           Record(w), NEW j, j = job[w], j.file = f, Sound(j, f)
    PROVE  \E next : Moves(w, next) /\ Ended(next) /\ Sound(next, f)'
<1>1. /\ Proper(j) /\ j.pc = "record" /\ UNCHANGED <<linked, chunks, excused>> /\ Exists(f)
      /\ Own \notin Base /\ None \notin Content
  BY RecordDoes DEF JobsOK, Sound, OnRow, Working, KnowledgeAssumption
<1>2. PICK next : Moves(w, next) /\ Still(j, next) /\ next.pc = After(j, TRUE)
  BY RecordDoes
<1>3. Exists(f)' /\ files'[f].content = files[f].content
  <2>1. files' = [files EXCEPT ![f] = [@ EXCEPT !.status = "completed", !.hash = j.text]]
    BY <1>1 DEF Record
  <2> QED BY <2>1 DEF RowsOK, Rows, Exists
<1>4. Sound(j, f)'
  BY <1>1, <1>3, RowSound DEF excused
<1>5. \/ j.kind = "edit" /\ j.base = Own /\ next.pc = "bases"
      \/ j.kind = "edit" /\ j.base \in Base /\ next.pc = (IF j.old # {} THEN "drop" ELSE "next")
      \/ j.kind = "reindex" /\ j.base \in Base /\ next.pc = "next"
      \/ j.kind = "add" /\ j.base \in Base /\ next.pc = "link"
      \/ j.kind = "update" /\ j.base \in Base /\ next.pc = "done"
      \/ j.kind = "upload" /\ j.base = Own /\ next.pc \in {"link", "done"}
      \/ j.kind = "upload" /\ j.base \in Base /\ next.pc = "done"
  <2>1. \/ j.kind \in {"edit", "upload"} /\ j.base = Own
        \/ j.kind \in {"edit", "upload", "reindex", "add", "update"} /\ j.base \in Base
    BY <1>1 DEF Proper, Legal, Working, Idle
  <2>2. j.base \in Base => j.base # Own
    BY <1>1
  <2> QED BY <1>2, <2>1, <2>2, AfterIs
<1>6. OnRow(next, f)'
  <2>1. next.kind # "batch" /\ next.pc \notin Working
    BY <1>2, <1>5 DEF Still, Working
  <2> QED BY <1>3, <1>4, <2>1 DEF Sound, OnRow
<1>7. ASSUME NEW k \in Base PROVE InBase(next, k, f)'
  <2>1. InBase(j, k, f)' /\ k # Own
    BY <1>1, <1>4 DEF Sound
  <2>2. Linking(next, k, f)'
    BY <1>1, <1>2, <1>5, <2>1 DEF InBase, Linking, Still, Working
  <2>3. CASE j.base # k
    <3>1. Found(next, k, f)'
      BY <1>1, <1>2, <1>5, <2>1, <2>3 DEF InBase, Found, Off, May, Still, Working
    <3> QED BY <1>2, <2>2, <2>3, <3>1 DEF InBase, Still
  <2>4. CASE j.base = k
    <3>1. Holding(j, k, f)'
      BY <2>1, <2>4 DEF InBase
    <3>2. Holding(next, k, f)'
      BY <1>1, <1>2, <1>5, <2>1, <2>4, <3>1 DEF Holding, Still, Working, Adding
    <3>3. ASSUME j.kind = "edit", j.old = {}, Clear(k, f)' PROVE Right(k, f)'
      <4>1. /\ \A c \in Chunks(k, f)' : c.content = files'[f].content
            /\ \E c \in Chunks(k, f)' : TRUE
        BY <1>1, <3>1, <3>3 DEF Holding
      <4>2. \A c \in Chunks(k, f)' : c.content \in Content
        BY <1>1 DEF ChunksOK, Chunks
      <4> QED BY <1>1, <4>1, <4>2 DEF Right, Contents
    <3>4. j.kind # "edit" /\ Clear(k, f)' => Right(k, f)'
      BY <1>1, <3>1 DEF Holding
    <3>5. Found(next, k, f)'
      BY <1>1, <1>2, <1>5, <2>1, <2>4, <3>3, <3>4 DEF InBase, Found, Off, May, Still, Working
    <3> QED BY <2>2, <3>2, <3>5 DEF InBase
  <2> QED BY <2>3, <2>4
<1>8. Ended(next)
  BY <1>2, <1>5 DEF Ended, Still
<1> QED BY <1>2, <1>6, <1>7, <1>8 DEF Sound

LEMMA FailSound ==
    ASSUME JobsOK, RowsOK, KnowledgeAssumption, NEW w \in Worker, NEW f \in File,
           Fail(w), NEW j, j = job[w], j.file = f, Sound(j, f)
    PROVE  \E next : Moves(w, next) /\ Ended(next) /\ Sound(next, f)'
<1>1. /\ Proper(j) /\ j.pc = "fail" /\ UNCHANGED <<linked, chunks, shorn, kept>> /\ Exists(f)
      /\ Own \notin Base
      /\ troubled' = troubled \cup ({<<j.base, f>>} \ {<<Own, f>>})
  BY FailDoes DEF JobsOK, Sound, OnRow, Working, KnowledgeAssumption
<1>2. PICK next : Moves(w, next) /\ Still(j, next) /\ next.pc = After(j, FALSE)
  BY FailDoes
<1>3. Exists(f)' /\ files'[f].content = files[f].content
  <2>1. files' = [files EXCEPT ![f] = [@ EXCEPT !.status = "failed", !.hash = None]]
    BY <1>1 DEF Fail
  <2> QED BY <2>1 DEF RowsOK, Rows, Exists
<1>4. Sound(j, f)'
  BY <1>1, <1>3, RowSound
<1>5. \/ j.kind = "edit" /\ j.base = Own /\ next.pc = "bases"
      \/ j.kind \in {"edit", "reindex"} /\ j.base \in Base /\ next.pc = "next"
      \/ j.kind \in {"add", "update", "upload"} /\ j.base \in Base /\ next.pc = "done"
      \/ j.kind = "upload" /\ j.base = Own /\ next.pc = "mark"
  <2>1. \/ j.kind \in {"edit", "upload"} /\ j.base = Own
        \/ j.kind \in {"edit", "upload", "reindex", "add", "update"} /\ j.base \in Base
    BY <1>1 DEF Proper, Legal, Working, Idle
  <2>2. j.base \in Base => j.base # Own
    BY <1>1
  <2> QED BY <1>2, <2>1, <2>2, AfterIs
<1>6. OnRow(next, f)'
  <2>1. next.kind # "batch" /\ next.pc \notin Working
    BY <1>2, <1>5 DEF Still, Working
  <2> QED BY <1>3, <1>4, <2>1 DEF Sound, OnRow
<1>7. ASSUME NEW k \in Base PROVE InBase(next, k, f)'
  <2>1. InBase(j, k, f)' /\ k # Own
    BY <1>1, <1>4 DEF Sound
  <2>2. Linking(next, k, f)'
    BY <1>1, <1>2, <1>5, <2>1 DEF InBase, Linking, Still, Working
  <2>3. CASE j.base # k
    <3>1. Found(next, k, f)'
      BY <1>1, <1>2, <1>5, <2>1, <2>3 DEF InBase, Found, Off, May, Still, Working
    <3> QED BY <1>2, <2>2, <2>3, <3>1 DEF InBase, Still
  <2>4. CASE j.base = k
    <3>1. Holding(j, k, f)'
      BY <2>1, <2>4 DEF InBase
    <3>2. Holding(next, k, f)'
      BY <1>1, <1>2, <1>5, <2>1, <2>4, <3>1 DEF Holding, Still, Working, Adding
    <3>3. ~Clear(k, f)'
      <4>1. <<k, f>> # <<Own, f>>
        BY <2>1
      <4> QED BY <1>1, <2>4, <4>1 DEF Clear
    <3>5. Found(next, k, f)'
      BY <1>1, <1>2, <1>5, <2>1, <2>4, <3>3 DEF InBase, Found, May, Still
    <3> QED BY <2>2, <3>2, <3>5 DEF InBase
  <2> QED BY <2>3, <2>4
<1>8. Ended(next)
  BY <1>2, <1>5 DEF Ended, Still
<1> QED BY <1>2, <1>6, <1>7, <1>8 DEF Sound

\* A step of process_file
LEMMA IndexingSound ==
    ASSUME BasicInv, KeptInv, KnowledgeAssumption, NEW w \in Worker, NEW f \in File, Step(w),
           NEW j, j = job[w], f \in About(j), Sound(j, f),
           \/ Read(w) \/ Gathers(w) \/ Write(w) \/ Checks(w) \/ Inserts(w) \/ Record(w) \/ Fail(w)
    PROVE  \E next : Moves(w, next) /\ Ended(next) /\ Sound(next, f)'
<1>1. JobsOK /\ RowsOK /\ ChunksOK
  BY TypeParts DEF BasicInv
<1>2. CASE j.file # f
  BY <1>1, <1>2, IndexingOther
<1>3. CASE j.file = f
  BY <1>1, <1>3, ReadSound, GatherSound, WriteSound, CheckSound, InsertSound, RecordSound,
     FailSound
<1> QED BY <1>2, <1>3

-----------------------------------------------------------------------------
(* The steps around process_file *)

LEMMA UploadSound ==
    ASSUME JobsOK, RowsOK, KnowledgeAssumption, NEW w \in Worker, NEW f \in File,
           Mark(w) \/ KeepMedia(w), NEW j, j = job[w], f \in About(j), Sound(j, f)
    PROVE  \E next : Moves(w, next) /\ Ended(next) /\ Sound(next, f)'
<1>1. Proper(j) /\ j.pc \in {"mark", "media"} /\ UNCHANGED <<linked, chunks, excused>>
  BY DEF JobsOK, Mark, KeepMedia, At
<1>2. j.kind = "upload" /\ j.file = f
  BY <1>1 DEF Proper, Legal, Working, Idle, About
<1>3. PICK next : /\ Moves(w, next) /\ Still(j, next)
                  /\ \/ next.pc = "done"
                     \/ next.pc = "link"
  <2>1. Then(w, "done") \/ Then(w, "link")
    BY DEF Mark, KeepMedia
  <2> QED BY <2>1, ThenDoes
<1>4. Exists(f) /\ Exists(f)' /\ files'[f].content = files[f].content
  <2>1. Exists(f)
    BY <1>1, <1>2 DEF Sound, OnRow
  <2>2. \E st \in {"failed", "completed"} : files' = [files EXCEPT ![f].status = st]
    BY <1>2, <2>1 DEF Mark, KeepMedia
  <2> QED BY <2>1, <2>2 DEF RowsOK, Rows, Exists
<1>5. Sound(j, f)'
  BY <1>1, <1>4, RowSound DEF excused
<1>6. OnRow(next, f)'
  BY <1>1, <1>2, <1>3, <1>5 DEF Sound, OnRow, Still, Working
<1>7. ASSUME NEW k \in Base PROVE InBase(next, k, f)'
  <2>1. InBase(j, k, f)'
    BY <1>5 DEF Sound
  <2>2. Found(next, k, f)'
    BY <1>1, <1>2, <1>3, <2>1 DEF InBase, Found, Off, May, Still, Working
  <2>3. Linking(next, k, f)'
    BY <1>1, <1>2, <1>3, <2>1 DEF InBase, Linking, Still, Working
  <2>4. Holding(next, k, f)'
    BY <1>2, <1>3 DEF Holding, Still, Adding
  <2> QED BY <1>3, <2>2, <2>3, <2>4 DEF InBase, Still
<1> QED BY <1>2, <1>3, <1>6, <1>7 DEF Sound, Ended, Still

LEMMA LinkSound ==
    ASSUME JobsOK, KnowledgeAssumption, NEW w \in Worker, NEW f \in File,
           Link(w), NEW j, j = job[w], f \in About(j), Sound(j, f)
    PROVE  \E next : Moves(w, next) /\ Ended(next) /\ Sound(next, f)'
<1>1. Proper(j) /\ j.pc = "link" /\ UNCHANGED <<files, chunks, excused>>
  BY DEF JobsOK, Link, At
<1>2. /\ j.file = f
      /\ \/ j.kind = "upload" /\ j.ask \in Base
         \/ j.kind = "add" /\ j.base \in Base
  BY <1>1 DEF Proper, Legal, Working, Idle, About
<1>3. Exists(f)
  BY <1>1, <1>2 DEF Sound, OnRow
<1>4. /\ \A k : Chunks(k, f)' = Chunks(k, f)
      /\ \A k : Clear(k, f)' <=> Clear(k, f)
      /\ UNCHANGED kept
  BY <1>1 DEF Chunks, Clear, excused
<1>5. /\ \A k : Right(k, f)' <=> Right(k, f)
      /\ \A k : Within(k, f)' <=> Within(k, f)
  BY <1>1, <1>4 DEF Right, Within, Contents
<1>6. CASE j.kind = "upload"
  <2>1. linked' = linked \cup {<<j.ask, f>>} /\ Go(w, Process(j, j.ask, None))
    BY <1>2, <1>3, <1>6 DEF Link
  <2>2. PICK next : /\ Moves(w, next) /\ next.pc = "read" /\ next.base = j.ask
                    /\ next.kind = j.kind /\ next.file = j.file
    BY <2>1, ProcessDoes
  <2>3. OnRow(next, f)'
    BY <1>1, <1>2, <1>3, <1>4, <1>5, <1>6, <2>2, KnowledgeAssumption
       DEF Sound, OnRow, Exists, Working
  <2>4. ASSUME NEW k \in Base PROVE InBase(next, k, f)'
    <3>1. <<k, f>> \notin linked /\ (Chunks(k, f) = {} \/ <<k, f>> \in kept)
      <4>1. InBase(j, k, f)
        BY DEF Sound
      <4>2. <<k, f>> \notin linked
        BY <1>1, <1>6, <4>1 DEF InBase, Linking
      <4>3. files[f].status # "removed"
        BY <1>3 DEF Exists
      <4> QED BY <1>6, <4>1, <4>2, <4>3 DEF InBase, Found, May
    <3>2. <<k, f>> \in linked' <=> k = j.ask
      BY <2>1, <3>1
    <3>3. Found(next, k, f)'
      BY <1>4, <1>6, <2>2, <3>1, <3>2 DEF Found, Off, Working, Clear
    <3>4. Linking(next, k, f)'
      BY <1>2, <1>6, <2>2, <3>2 DEF Linking
    <3>5. Holding(next, k, f)'
      BY <1>4, <1>6, <2>2, <3>1 DEF Holding
    <3> QED BY <3>3, <3>4, <3>5 DEF InBase
  <2> QED BY <2>2, <2>3, <2>4 DEF Sound, Ended
<1>7. CASE j.kind = "add"
  <2>1. linked' = linked \cup {<<j.base, f>>} /\ Then(w, "done")
    BY <1>2, <1>3, <1>7 DEF Link, Then
  <2>2. PICK next : Moves(w, next) /\ Still(j, next) /\ next.pc = "done"
    BY <2>1, ThenDoes
  <2>3. OnRow(next, f)'
    BY <1>1, <1>2, <1>3, <1>4, <1>5, <1>7, <2>2 DEF Sound, OnRow, Exists, Working, Still
  <2>4. ASSUME NEW k \in Base PROVE InBase(next, k, f)'
    <3>1. InBase(j, k, f)
      BY DEF Sound
    <3>2. \/ k = j.base /\ <<k, f>> \in linked'
          \/ k # j.base /\ (<<k, f>> \in linked' <=> <<k, f>> \in linked)
      BY <2>1
    <3>3. k = j.base /\ Clear(k, f) => Right(k, f)
      BY <1>1, <1>7, <3>1 DEF InBase, Holding
    <3>4. Found(next, k, f)'
      BY <1>1, <1>4, <1>5, <1>7, <2>2, <3>1, <3>2, <3>3 DEF InBase, Found, Off, May
    <3>5. Linking(next, k, f)' /\ Holding(next, k, f)'
      BY <1>7, <2>2 DEF Linking, Holding, Still, Adding
    <3> QED BY <3>4, <3>5 DEF InBase
  <2> QED BY <1>7, <2>2, <2>3, <2>4 DEF Sound, Ended, Still
<1> QED BY <1>2, <1>6, <1>7

LEMMA BasesSound ==
    ASSUME JobsOK, KnowledgeAssumption, NEW w \in Worker, NEW f \in File,
           Bases(w), NEW j, j = job[w], f \in About(j), Sound(j, f)
    PROVE  \E next : Moves(w, next) /\ Ended(next) /\ Sound(next, f)'
<1>1. Proper(j) /\ j.pc = "bases" /\ UNCHANGED <<files, linked, chunks, excused>>
  BY BasesDoes DEF JobsOK
<1>2. /\ j.file = f
      /\ \/ j.kind = "edit" /\ j.base = Own
         \/ j.kind = "delete"
  BY <1>1 DEF Proper, Legal, Working, Idle, About
<1>3. Sound(j, f)'
  BY <1>1, NothingSpared, SparedSound
<1>4. PICK next : /\ Moves(w, next) /\ next.pc = "next" /\ next.kind = j.kind
                  /\ next.file = j.file /\ next.base = j.base /\ next.plan = j.plan
                  /\ next.left = {k \in Base : <<k, j.file>> \in linked}
  BY BasesDoes
<1>5. OnRow(next, f)'
  BY <1>1, <1>2, <1>3, <1>4 DEF Sound, OnRow, Working
<1>6. ASSUME NEW k \in Base PROVE InBase(next, k, f)'
  <2>1. InBase(j, k, f)' /\ k # Own
    BY <1>3 DEF Sound, KnowledgeAssumption
  <2>2. k \in next.left <=> <<k, f>> \in linked'
    BY <1>1, <1>2, <1>4
  <2>3. Found(next, k, f)'
    BY <1>1, <1>2, <1>4, <2>1, <2>2 DEF InBase, Found, Off, May, Working
  <2>4. Linking(next, k, f)'
    BY <1>2, <1>4, <2>1, <2>2 DEF Linking, Working
  <2>5. Holding(next, k, f)'
    BY <1>2, <1>4 DEF Holding, Adding
  <2> QED BY <2>3, <2>4, <2>5 DEF InBase
<1> QED BY <1>4, <1>5, <1>6 DEF Sound, Ended

LEMMA FindSound ==
    ASSUME JobsOK, KnowledgeAssumption, NEW w \in Worker, NEW f \in File,
           Finds(w), NEW j, j = job[w], f \in About(j), Sound(j, f)
    PROVE  \E next : Moves(w, next) /\ Ended(next) /\ Sound(next, f)'
<1>1. /\ Proper(j) /\ j.pc = "find"
      /\ UNCHANGED <<files, linked, chunks, troubled, shorn>>
  BY FindDoes DEF JobsOK
<1>2. /\ j.file = f /\ j.kind = "edit" /\ j.base \in Base /\ j.base # Own
      /\ f \notin Base
  BY <1>1 DEF Proper, Legal, Working, Idle, About, KnowledgeAssumption
<1>3. PICK next : /\ Moves(w, next) /\ next.pc = "read" /\ next.kind = j.kind
                  /\ next.file = j.file /\ next.base = j.base /\ next.plan = j.plan
                  /\ next.left = j.left
                  /\ \/ /\ next.old = {c.id : c \in Chunks(j.base, j.file)}
                        /\ UNCHANGED kept
                     \/ /\ next.old = {}
                        /\ kept' = (IF Chunks(j.base, j.file) = {} THEN kept
                                    ELSE kept \cup {<<j.base, j.file>>})
  BY FindDoes
<1>4. /\ \A k : Chunks(k, f)' = Chunks(k, f) /\ Contents(k, f)' = Contents(k, f)
      /\ \A k : k # j.base => (<<k, f>> \in kept' <=> <<k, f>> \in kept)
      /\ <<j.base, f>> \in kept => <<j.base, f>> \in kept'
      /\ j.base # f
  BY <1>1, <1>2, <1>3 DEF Chunks, Contents
<1>5. OnRow(next, f)'
  BY <1>1, <1>2, <1>3, <1>4 DEF Sound, OnRow, Working, Exists, Within
<1>6. ASSUME NEW k \in Base PROVE InBase(next, k, f)'
  <2>1. InBase(j, k, f)
    BY DEF Sound
  <2>2. Found(next, k, f)'
    <3>1. Right(k, f)' <=> Right(k, f)
      BY <1>1, <1>4 DEF Right
    <3>2. Clear(k, f)' => Clear(k, f)
      BY <1>1, <1>4 DEF Clear
    <3>3. Off(j, k, f) => Off(next, k, f)
      BY <1>1, <1>2, <1>3 DEF Off, Working
    <3>4. ~May(j, k, f)
      BY <1>2 DEF May
    <3> QED BY <1>1, <1>4, <2>1, <3>1, <3>2, <3>3, <3>4 DEF InBase, Found, Off
  <2>3. Linking(next, k, f)'
    BY <1>1, <1>2, <1>3, <2>1 DEF InBase, Linking, Working
  <2>4. next.base = k => <<k, f>> \in kept' \/ \A c \in Chunks(k, f)' : c.id \in next.old
    BY <1>2, <1>3, <1>4
  <2>5. next.base = k => Holding(next, k, f)'
    BY <1>2, <1>3, <2>4 DEF Holding
  <2> QED BY <2>2, <2>3, <2>5 DEF InBase
<1> QED BY <1>3, <1>5, <1>6 DEF Sound, Ended

LEMMA DropSound ==
    ASSUME JobsOK, ChunksOK, KnowledgeAssumption, NEW w \in Worker, NEW f \in File,
           Drops(w), NEW j, j = job[w], f \in About(j), Sound(j, f)
    PROVE  \E next : Moves(w, next) /\ Ended(next) /\ Sound(next, f)'
<1>1. /\ Proper(j) /\ j.pc = "drop" /\ UNCHANGED <<files, linked, troubled, shorn>>
      /\ \/ /\ chunks' = chunks \ {c \in Chunks(j.base, j.file) : c.id \in j.old}
            /\ UNCHANGED kept
         \/ UNCHANGED chunks /\ kept' = kept \cup {<<j.base, j.file>>}
  BY DropDoes DEF JobsOK
<1>2. /\ j.file = f /\ j.kind = "edit" /\ j.base \in Base /\ j.base # Own
      /\ f \notin Base /\ None \notin Content
  BY <1>1 DEF Proper, Legal, Working, Idle, About, KnowledgeAssumption
<1>3. PICK next : /\ Moves(w, next) /\ next.pc = "next" /\ next.kind = j.kind
                  /\ next.file = j.file /\ next.base = j.base /\ next.plan = j.plan
                  /\ next.left = j.left
  BY DropDoes
<1>4. /\ \A k : k # j.base => /\ Chunks(k, f)' = Chunks(k, f)
                              /\ <<k, f>> \in kept' <=> <<k, f>> \in kept
                              /\ Clear(k, f)' <=> Clear(k, f)
      /\ \/ /\ Chunks(j.base, f)' = {c \in Chunks(j.base, f) : c.id \notin j.old}
            /\ Clear(j.base, f)' <=> Clear(j.base, f)
         \/ <<j.base, f>> \in kept'
  BY <1>1, <1>2 DEF Chunks, Clear
<1>5. OnRow(next, f)'
  BY <1>1, <1>2, <1>3, <1>4 DEF Sound, OnRow, Working, Exists, Within, Contents
<1>6. ASSUME NEW k \in Base PROVE InBase(next, k, f)'
  <2>1. InBase(j, k, f)
    BY DEF Sound
  <2>2. Linking(next, k, f)'
    BY <1>1, <1>2, <1>3, <2>1 DEF InBase, Linking, Working
  <2>3. Holding(next, k, f)'
    BY <1>2, <1>3 DEF Holding, Adding
  <2>4. CASE k # j.base
    <3>1. Right(k, f)' <=> Right(k, f)
      BY <1>1, <1>4, <2>4 DEF Right, Contents
    <3>2. Found(next, k, f)'
      BY <1>1, <1>2, <1>3, <1>4, <2>1, <2>4, <3>1 DEF InBase, Found, Off, May
    <3> QED BY <2>2, <2>3, <3>2 DEF InBase
  <2>5. CASE k = j.base
    <3>1. Holding(j, k, f) /\ <<k, f>> \in linked
      BY <1>2, <2>1, <2>5 DEF InBase, Linking
    <3>2. ASSUME Clear(k, f)' PROVE Right(k, f)'
      <4>1. Chunks(k, f)' = {c \in Chunks(k, f) : c.id \notin j.old} /\ Clear(k, f)
        BY <1>4, <2>5, <3>2 DEF Clear
      <4>2. /\ \A c \in Chunks(k, f)' : c.content = files[f].content
            /\ \E c \in Chunks(k, f)' : TRUE
        BY <1>1, <1>2, <3>1, <4>1 DEF Holding
      <4>3. \A c \in Chunks(k, f)' : c.content \in Content
        BY <4>1 DEF ChunksOK, Chunks
      <4> QED BY <1>1, <1>2, <4>2, <4>3 DEF Right, Contents
    <3>3. Found(next, k, f)'
      BY <1>1, <3>1, <3>2 DEF Found
    <3> QED BY <2>2, <2>3, <3>3 DEF InBase
  <2> QED BY <2>4, <2>5
<1> QED BY <1>3, <1>5, <1>6 DEF Sound, Ended

LEMMA TurnSound ==
    ASSUME JobsOK, LinksOK, KnowledgeAssumption, NEW w \in Worker, NEW f \in File,
           Turn(w), NEW j, j = job[w], f \in About(j), Sound(j, f)
    PROVE  \E next : Moves(w, next) /\ Ended(next) /\ Sound(next, f)'
<1>1. Proper(j) /\ j.pc = "next" /\ UNCHANGED <<files, linked, chunks, excused>>
  BY TurnDoes DEF JobsOK
<1>2. /\ j.kind \in {"edit", "delete", "reindex"} /\ j.left \subseteq Base
      /\ j.kind # "reindex" => j.file = f
      /\ j.kind = "reindex" => j.plan \subseteq Base \X File
  BY <1>1 DEF Proper, Legal, Working, Idle, About
<1>3. Sound(j, f)'
  BY <1>1, NothingSpared, SparedSound
<1>4. PICK next :
        /\ Moves(w, next) /\ next.kind = j.kind
        /\ \/ /\ j.kind \in {"edit", "delete"} /\ next.base \in j.left
              /\ next.pc = (IF j.kind = "edit" THEN "find" ELSE "unlink")
              /\ next.file = j.file /\ next.plan = j.plan
              /\ next.left = j.left \ {next.base}
           \/ /\ j.kind = "reindex" /\ next.pc = "read" /\ next.base = j.base
              /\ <<next.base, next.file>> \in j.plan
              /\ next.plan = j.plan \ {<<next.base, next.file>>}
              /\ next.left = j.left
           \/ /\ j.kind = "reindex" /\ next.pc = "empty"
              /\ \A p \in j.plan : p[1] # j.base
              /\ next.base \in j.left /\ next.left = j.left \ {next.base}
              /\ next.file = j.file /\ next.plan = j.plan
           \/ /\ j.left = {} /\ j.plan = {}
              /\ next.pc = (IF j.kind = "delete" THEN "droprow" ELSE "done")
              /\ next.file = j.file /\ next.plan = j.plan
              /\ next.left = j.left /\ next.base = j.base
  BY TurnDoes
<1>5. CASE j.kind \in {"edit", "delete"} /\ next.base \in j.left
           /\ next.pc = (IF j.kind = "edit" THEN "find" ELSE "unlink")
           /\ next.left = j.left \ {next.base}
  <2>1. \/ next.pc = "find" /\ j.kind = "edit"
        \/ next.pc = "unlink" /\ j.kind = "delete"
    BY <1>5
  <2>2. OnRow(next, f)'
    BY <1>1, <1>2, <1>3, <1>4, <2>1 DEF Sound, OnRow, Working
  <2>3. ASSUME NEW k \in Base PROVE InBase(next, k, f)'
    <3>1. InBase(j, k, f)' /\ k # Own
      BY <1>3 DEF Sound, KnowledgeAssumption
    <3>2. Found(next, k, f)'
      BY <1>1, <1>4, <1>5, <2>1, <3>1 DEF InBase, Found, Off, May, Working
    <3>3. Linking(next, k, f)'
      BY <1>1, <1>4, <1>5, <2>1, <3>1 DEF InBase, Linking
    <3>4. Holding(next, k, f)'
      BY <1>4, <2>1 DEF Holding, Adding
    <3> QED BY <3>2, <3>3, <3>4 DEF InBase
  <2> QED BY <1>4, <1>5, <2>1, <2>2, <2>3 DEF Sound, Ended
<1>6. CASE /\ j.kind = "reindex" /\ next.pc = "read" /\ next.base = j.base
           /\ <<next.base, next.file>> \in j.plan
           /\ next.plan = j.plan \ {<<next.base, next.file>>}
           /\ next.left = j.left
  <2>1. j.base \in Base
    BY <1>2, <1>6
  <2>2. InBase(j, j.base, f)'
    BY <1>3, <2>1 DEF Sound
  <2>3. next.file = f => Exists(f)'
    <3>1. next.file = f => <<j.base, f>> \in linked'
      BY <1>6, <2>2 DEF InBase, Linking
    <3>2. \A p \in linked : Exists(p[2])
      BY DEF LinksOK
    <3> QED BY <1>1, <3>1, <3>2 DEF Exists
  <2>4. OnRow(next, f)'
    BY <1>3, <1>4, <1>6, <2>1, <2>3, KnowledgeAssumption DEF Sound, OnRow, Working, KnowledgeAssumption
  <2>5. ASSUME NEW k \in Base PROVE InBase(next, k, f)'
    <3>1. InBase(j, k, f)'
      BY <1>3 DEF Sound
    <3>2. <<k, f>> \in next.plan <=> <<k, f>> \in j.plan /\ ~(k = j.base /\ next.file = f)
      BY <1>6
    <3>3. k = j.base /\ next.file = f => <<k, f>> \in j.plan
      BY <1>6
    <3>4. Found(next, k, f)'
      BY <1>1, <1>4, <1>6, <3>1, <3>2, <3>3 DEF InBase, Found, Off, May, Working
    <3>5. Linking(next, k, f)'
      BY <1>1, <1>4, <1>6, <3>1, <3>2, <3>3 DEF InBase, Linking
    <3>6. k = j.base => Holding(next, k, f)'
      BY <1>1, <1>4, <1>6, <3>1, <3>2, <3>3 DEF InBase, Holding, Working, Adding
    <3> QED BY <1>6, <3>4, <3>5, <3>6 DEF InBase
  <2> QED BY <1>4, <1>6, <2>4, <2>5 DEF Sound, Ended
<1>7. CASE /\ j.kind = "reindex" /\ next.pc = "empty"
           /\ \A p \in j.plan : p[1] # j.base
           /\ next.base \in j.left /\ next.left = j.left \ {next.base}
           /\ next.plan = j.plan
  <2>1. OnRow(next, f)'
    BY <1>3, <1>4, <1>7 DEF Sound, OnRow, Working
  <2>2. ASSUME NEW k \in Base PROVE InBase(next, k, f)'
    <3>1. InBase(j, k, f)'
      BY <1>3 DEF Sound
    <3>2. k = j.base => <<k, f>> \notin j.plan
      BY <1>7
    <3>3. Found(next, k, f)'
      BY <1>1, <1>4, <1>7, <3>1, <3>2 DEF InBase, Found, Off, May, Working
    <3>4. Linking(next, k, f)'
      BY <1>1, <1>4, <1>7, <3>1 DEF InBase, Linking, Working
    <3>5. Holding(next, k, f)'
      BY <1>4, <1>7 DEF Holding, Working, Adding
    <3> QED BY <3>3, <3>4, <3>5 DEF InBase
  <2> QED BY <1>4, <1>7, <2>1, <2>2 DEF Sound, Ended
<1>8. CASE /\ j.left = {} /\ j.plan = {}
           /\ next.pc = (IF j.kind = "delete" THEN "droprow" ELSE "done")
           /\ next.file = j.file /\ next.plan = j.plan
           /\ next.left = j.left /\ next.base = j.base
  <2>1. \/ next.pc = "droprow" /\ j.kind = "delete"
        \/ next.pc = "done" /\ j.kind # "delete"
    BY <1>8
  <2>2. OnRow(next, f)'
    BY <1>1, <1>2, <1>3, <1>4, <1>8, <2>1 DEF Sound, OnRow, Working
  <2>3. ASSUME NEW k \in Base PROVE InBase(next, k, f)'
    <3>1. InBase(j, k, f)'
      BY <1>3 DEF Sound
    <3>2. Found(next, k, f)'
      BY <1>1, <1>2, <1>4, <1>8, <2>1, <3>1 DEF InBase, Found, Off, May, Working
    <3>3. Linking(next, k, f)'
      BY <1>1, <1>2, <1>4, <1>8, <2>1, <3>1 DEF InBase, Linking, Working
    <3>4. Holding(next, k, f)'
      BY <1>2, <1>4, <2>1 DEF Holding, Working, Adding
    <3> QED BY <3>2, <3>3, <3>4 DEF InBase
  <2> QED BY <1>4, <1>8, <2>2, <2>3 DEF Sound, Ended
<1> QED BY <1>4, <1>5, <1>6, <1>7, <1>8

LEMMA UnlinkSound ==
    ASSUME JobsOK, KnowledgeAssumption, NEW w \in Worker, NEW f \in File,
           Unlink(w), NEW j, j = job[w], f \in About(j), Sound(j, f)
    PROVE  \E next : Moves(w, next) /\ Ended(next) /\ Sound(next, f)'
<1>1. /\ Proper(j) /\ j.pc = "unlink" /\ UNCHANGED <<files, chunks, excused>>
      /\ Then(w, "purge")
  BY DEF JobsOK, Unlink, At
<1>2. j.file = f /\ j.kind \in {"remove", "delete"} /\ j.base \in Base
  BY <1>1 DEF Proper, Legal, Working, Idle, About
<1>3. /\ <<j.base, f>> \notin linked'
      /\ \A k : k # j.base => (<<k, f>> \in linked' <=> <<k, f>> \in linked)
  BY <1>2 DEF Unlink
<1>4. PICK next : Moves(w, next) /\ Still(j, next) /\ next.pc = "purge"
  BY <1>1, ThenDoes
<1>5. /\ \A k : Chunks(k, f)' = Chunks(k, f) /\ (Clear(k, f)' <=> Clear(k, f))
      /\ \A k : Right(k, f)' <=> Right(k, f)
      /\ UNCHANGED kept
  BY <1>1 DEF Chunks, Clear, Right, Contents, excused
<1>6. OnRow(next, f)'
  BY <1>1, <1>2, <1>4, <1>5 DEF Sound, OnRow, Still, Working, Exists, Within, Contents
<1>7. ASSUME NEW k \in Base PROVE InBase(next, k, f)'
  <2>1. InBase(j, k, f)
    BY DEF Sound
  <2>2. Found(next, k, f)'
    BY <1>1, <1>2, <1>3, <1>4, <1>5, <2>1 DEF InBase, Found, Off, May, Still
  <2>3. Linking(next, k, f)'
    BY <1>1, <1>2, <1>3, <1>4, <2>1 DEF InBase, Linking, Still
  <2>4. Holding(next, k, f)'
    BY <1>2, <1>4 DEF Holding, Still
  <2> QED BY <2>2, <2>3, <2>4 DEF InBase
<1> QED BY <1>4, <1>6, <1>7 DEF Sound, Ended

LEMMA PurgeSound ==
    ASSUME JobsOK, KnowledgeAssumption, NEW w \in Worker, NEW f \in File,
           Purges(w), NEW j, j = job[w], f \in About(j), Sound(j, f)
    PROVE  \E next : Moves(w, next) /\ Ended(next) /\ Sound(next, f)'
<1>1. /\ Proper(j) /\ j.pc = "purge" /\ UNCHANGED <<files, linked>>
      /\ \/ /\ chunks' = chunks \ Chunks(j.base, j.file)
            /\ troubled' = troubled \ {<<j.base, j.file>>}
            /\ shorn' = shorn \ {<<j.base, j.file>>}
            /\ kept' = kept \ {<<j.base, j.file>>}
         \/ UNCHANGED <<chunks, troubled, shorn>> /\ kept' = kept \cup {<<j.base, j.file>>}
  BY DEF JobsOK, Purges, Purge, PurgeFails, At, store
<1>2. /\ j.file = f /\ j.kind \in {"remove", "delete", "update"} /\ j.base \in Base
      /\ f \notin Base
  BY <1>1 DEF Proper, Legal, Working, Idle, About, KnowledgeAssumption
<1>3. PICK next : /\ Moves(w, next) /\ next.kind = j.kind /\ next.file = j.file
                  /\ next.base = j.base /\ next.left = j.left /\ next.plan = j.plan
                  /\ \/ j.kind = "update" /\ next.pc = "read"
                     \/ j.kind # "update" /\ next.pc = "purgehash"
  <2>1. CASE j.kind = "update"
    <3>1. Go(w, Process(j, j.base, None))
      BY <2>1 DEF Purges, Purge, PurgeFails
    <3> QED BY <2>1, <3>1, ProcessDoes
  <2>2. CASE j.kind # "update"
    <3>1. Then(w, "purgehash")
      BY <2>2 DEF Purges, Purge, PurgeFails, Then
    <3> QED BY <2>2, <3>1, ThenDoes DEF Still
  <2> QED BY <2>1, <2>2
<1>4. /\ Chunks(j.base, f)' = {} \/ <<j.base, f>> \in kept'
      /\ \A k : k # j.base => /\ Chunks(k, f)' = Chunks(k, f)
                              /\ <<k, f>> \in kept' <=> <<k, f>> \in kept
      /\ f # j.base
  BY <1>1, <1>2 DEF Chunks
<1>5. \A k : k # j.base => /\ Clear(k, f)' <=> Clear(k, f)
                           /\ Right(k, f)' <=> Right(k, f)
  BY <1>1, <1>2, <1>4 DEF Clear, Right, Contents
<1>6. OnRow(next, f)'
  <2>1. Chunks(f, f)' = Chunks(f, f) /\ (<<f, f>> \in kept' <=> <<f, f>> \in kept)
    BY <1>2, <1>4
  <2>2. j.base # Own
    BY <1>2 DEF KnowledgeAssumption
  <2> QED BY <1>1, <1>2, <1>3, <2>1, <2>2
          DEF Sound, OnRow, Working, Exists, Within, Contents
<1>7. ASSUME NEW k \in Base PROVE InBase(next, k, f)'
  <2>1. InBase(j, k, f)
    BY DEF Sound
  <2>2. Found(next, k, f)'
    <3>1. CASE k = j.base
      <4>1. j.kind = "update" => Off(next, k, f)
        BY <1>2, <1>3, <3>1 DEF Off, Working
      <4>2. j.kind # "update" => <<k, f>> \notin linked
        BY <1>1, <1>2, <2>1, <3>1 DEF InBase, Linking
      <4> QED BY <1>1, <1>4, <3>1, <4>1, <4>2 DEF Found, Off
    <3>2. CASE k # j.base
      BY <1>1, <1>2, <1>3, <1>4, <1>5, <2>1, <3>2 DEF InBase, Found, Off, May
    <3> QED BY <3>1, <3>2
  <2>3. Linking(next, k, f)'
    BY <1>1, <1>2, <1>3, <2>1 DEF InBase, Linking
  <2>4. next.base = k => Holding(next, k, f)'
    BY <1>2, <1>3, <1>4 DEF Holding
  <2> QED BY <2>2, <2>3, <2>4 DEF InBase
<1> QED BY <1>3, <1>6, <1>7 DEF Sound, Ended

LEMMA HashSound ==
    ASSUME JobsOK, KnowledgeAssumption, NEW w \in Worker, NEW f \in File,
           HashPurges(w), NEW j, j = job[w], f \in About(j), Sound(j, f)
    PROVE  \E next : Moves(w, next) /\ Ended(next) /\ Sound(next, f)'
<1>1. Proper(j) /\ j.pc = "purgehash"
  BY DEF JobsOK, HashPurges, PurgeHash, PurgeHashFails, At
<1>2. j.kind \in {"remove", "delete"}
  BY <1>1 DEF Proper, Legal, Working, Idle
<1>3. PICK next : Moves(w, next) /\ Still(j, next) /\ next.pc \in {"next", "dropown", "done"}
  <2>1. \E pc \in {"next", "dropown", "done"} : Then(w, pc)
    BY DEF HashPurges, PurgeHash, PurgeHashFails, AfterPurge
  <2> QED BY <2>1, ThenDoes
<1>4. Sound(j, f)'
  <2>1. Spared(f)
    BY HashSpared, NothingSpared DEF HashPurges, PurgeHashFails, store
  <2> QED BY <2>1, SparedSound
<1>5. OnRow(next, f)'
  BY <1>1, <1>2, <1>3, <1>4 DEF Sound, OnRow, Still, Working
<1>6. ASSUME NEW k \in Base PROVE InBase(next, k, f)'
  <2>1. InBase(j, k, f)'
    BY <1>4 DEF Sound
  <2>2. Found(next, k, f)'
    BY <1>1, <1>2, <1>3, <2>1 DEF InBase, Found, Off, May, Still
  <2>3. Linking(next, k, f)'
    BY <1>1, <1>2, <1>3, <2>1 DEF InBase, Linking, Still
  <2>4. Holding(next, k, f)'
    BY <1>2, <1>3 DEF Holding, Still
  <2> QED BY <2>2, <2>3, <2>4 DEF InBase
<1> QED BY <1>2, <1>3, <1>5, <1>6 DEF Sound, Ended, Still

LEMMA OwnSound ==
    ASSUME JobsOK, KnowledgeAssumption, NEW w \in Worker, NEW f \in File,
           OwnDrops(w), NEW j, j = job[w], f \in About(j), Sound(j, f)
    PROVE  \E next : Moves(w, next) /\ Ended(next) /\ Sound(next, f)'
<1>1. /\ Proper(j) /\ j.pc = "dropown" /\ UNCHANGED <<files, linked, excused>>
      /\ UNCHANGED chunks \/ chunks' = chunks \ Chunks(j.file, j.file)
      /\ Then(w, "droprow") \/ Then(w, "done")
  BY DEF JobsOK, OwnDrops, DropOwn, DropOwnFails, At, store
<1>2. j.file = f /\ j.kind = "remove" /\ f \notin Base
  BY <1>1 DEF Proper, Legal, Working, Idle, About, KnowledgeAssumption
<1>3. PICK next : Moves(w, next) /\ Still(j, next) /\ next.pc \in {"droprow", "done"}
  BY <1>1, ThenDoes
<1>4. /\ Chunks(f, f)' = {} \/ Chunks(f, f)' = Chunks(f, f)
      /\ UNCHANGED kept
      /\ \A k \in Base : /\ Chunks(k, f)' = Chunks(k, f)
                         /\ Clear(k, f)' <=> Clear(k, f)
                         /\ Right(k, f)' <=> Right(k, f)
  BY <1>1, <1>2 DEF Chunks, Clear, Right, Contents, excused
<1>5. OnRow(next, f)'
  BY <1>1, <1>2, <1>3, <1>4 DEF Sound, OnRow, Still, Working, Exists, Within, Contents
<1>6. ASSUME NEW k \in Base PROVE InBase(next, k, f)'
  <2>1. InBase(j, k, f)
    BY DEF Sound
  <2>2. Found(next, k, f)'
    BY <1>1, <1>2, <1>3, <1>4, <2>1 DEF InBase, Found, Off, May, Still
  <2>3. Linking(next, k, f)' /\ Holding(next, k, f)'
    BY <1>2, <1>3 DEF Linking, Holding, Still
  <2> QED BY <2>2, <2>3 DEF InBase
<1> QED BY <1>2, <1>3, <1>5, <1>6 DEF Sound, Ended, Still

LEMMA RowGone ==
    ASSUME JobsOK, RowsOK, KnowledgeAssumption, NEW w \in Worker, NEW f \in File,
           DropRow(w), NEW j, j = job[w], f \in About(j), Sound(j, f)
    PROVE  \E next : Moves(w, next) /\ Ended(next) /\ Sound(next, f)'
<1>1. /\ Proper(j) /\ j.pc = "droprow" /\ UNCHANGED <<chunks, excused>> /\ Then(w, "done")
  BY DEF JobsOK, DropRow, At
<1>2. j.file = f /\ j.kind \in {"remove", "delete"}
  BY <1>1 DEF Proper, Legal, Working, Idle, About
<1>3. PICK next : Moves(w, next) /\ Still(j, next) /\ next.pc = "done"
  BY <1>1, ThenDoes
<1>4. /\ Exists(f) /\ ~Exists(f)' /\ files'[f].status # "unused"
      /\ j.kind = "remove" => files'[f].status = "removed"
      /\ \A k : <<k, f>> \notin linked'
  <2>1. Exists(f)
    BY <1>1, <1>2 DEF Sound, OnRow
  <2>2. files' = [files EXCEPT ![f] = Missing(IF j.kind = "delete" THEN "deleted" ELSE "removed")]
    BY <1>2, <2>1 DEF DropRow
  <2>3. files'[f].status = (IF j.kind = "delete" THEN "deleted" ELSE "removed")
    BY <2>2 DEF RowsOK, Missing, Row
  <2>4. linked' = {p \in linked : p[2] # f}
    BY <1>2 DEF DropRow
  <2> QED BY <1>2, <2>1, <2>3, <2>4 DEF Exists
<1>5. OnRow(next, f)'
  BY <1>2, <1>3, <1>4 DEF OnRow, Still, Working
<1>6. ASSUME NEW k \in Base PROVE InBase(next, k, f)'
  <2>1. InBase(j, k, f)
    BY DEF Sound
  <2>2. j.kind = "delete" => Chunks(k, f) = {} \/ <<k, f>> \in kept
    <3>1. j.kind = "delete" => <<k, f>> \notin linked
      BY <1>1, <2>1 DEF InBase, Linking
    <3>2. files[f].status # "removed"
      BY <1>4 DEF Exists
    <3> QED BY <1>1, <2>1, <3>1, <3>2 DEF InBase, Found, May
  <2>3. Chunks(k, f)' = Chunks(k, f) /\ UNCHANGED kept
    BY <1>1 DEF Chunks, excused
  <2>4. Found(next, k, f)'
    BY <1>2, <1>4, <2>2, <2>3 DEF Found
  <2>5. Linking(next, k, f)' /\ Holding(next, k, f)'
    BY <1>2, <1>3, <1>4 DEF Linking, Holding, Still
  <2> QED BY <2>4, <2>5 DEF InBase
<1> QED BY <1>2, <1>3, <1>5, <1>6 DEF Sound, Ended, Still

\* A whole base is emptied, or has its links deleted.
LEMMA EmptySound ==
    ASSUME JobsOK, KnowledgeAssumption, NEW w \in Worker, NEW f \in File,
           Empties(w), NEW j, j = job[w], Sound(j, f)
    PROVE  \E next : Moves(w, next) /\ Ended(next) /\ Sound(next, f)'
<1>1. /\ Proper(j) /\ j.pc = "empty" /\ UNCHANGED <<files, linked>>
  BY DEF JobsOK, Empties, Empty, EmptyFails, At, store
<1>2. j.kind \in {"reset", "reindex"} /\ j.base \in Base /\ f \notin Base
  BY <1>1 DEF Proper, Legal, Working, Idle, KnowledgeAssumption
<1>3. ASSUME NEW next, Moves(w, next), Still(j, next),
             \/ j.kind = "reset" /\ next.pc = "unlinkall"
             \/ j.kind = "reindex" /\ next.pc = "next",
             Chunks(j.base, f)' = {} \/ (j.kind = "reset" /\ <<j.base, f>> \in kept'),
             \A k : k # j.base => /\ Chunks(k, f)' = Chunks(k, f)
                                  /\ <<k, f>> \in kept' <=> <<k, f>> \in kept
                                  /\ <<k, f>> \in troubled' <=> <<k, f>> \in troubled
                                  /\ <<k, f>> \in shorn' <=> <<k, f>> \in shorn
      PROVE  Ended(next) /\ Sound(next, f)'
  <2>1. /\ Chunks(f, f)' = Chunks(f, f) /\ (<<f, f>> \in kept' <=> <<f, f>> \in kept)
    BY <1>2, <1>3
  <2>2. \A k : k # j.base => /\ Clear(k, f)' <=> Clear(k, f)
                             /\ Right(k, f)' <=> Right(k, f)
    BY <1>1, <1>3, <2>1 DEF Clear, Right, Contents
  <2>3. OnRow(next, f)'
    BY <1>1, <1>2, <1>3, <2>1 DEF Sound, OnRow, Working, Exists, Within, Contents, Still
  <2>4. ASSUME NEW k \in Base PROVE InBase(next, k, f)'
    <3>1. InBase(j, k, f)
      BY DEF Sound
    <3>2. Linking(next, k, f)'
      BY <1>1, <1>2, <1>3, <3>1 DEF InBase, Linking, Still, Working
    <3>3. CASE k = j.base
      <4>1. j.kind = "reindex" /\ <<k, f>> \in linked => <<k, f>> \in j.plan
        BY <1>1, <3>1, <3>3 DEF InBase, Linking
      <4>2. Found(next, k, f)'
        BY <1>1, <1>2, <1>3, <3>3, <4>1 DEF Found, Off, Still
      <4>3. Holding(next, k, f)'
        BY <1>2, <1>3, <3>3 DEF Holding, Still, Adding
      <4> QED BY <3>2, <4>2, <4>3 DEF InBase
    <3>4. CASE k # j.base
      <4>1. Found(next, k, f)'
        BY <1>1, <1>2, <1>3, <2>2, <3>1, <3>4 DEF InBase, Found, Off, May, Still
      <4> QED BY <1>3, <3>2, <3>4, <4>1 DEF InBase, Still
    <3> QED BY <3>3, <3>4
  <2> QED BY <1>2, <1>3, <2>3, <2>4 DEF Sound, Ended
<1>4. CASE Empty(w)
  <2>1. /\ chunks' = {c \in chunks : c.in # j.base}
        /\ troubled' = {p \in troubled : p[1] # j.base}
        /\ shorn' = {p \in shorn : p[1] # j.base}
        /\ kept' = {p \in kept : p[1] # j.base}
    BY <1>4 DEF Empty
  <2>2. PICK next : /\ Moves(w, next) /\ Still(j, next)
                    /\ \/ j.kind = "reset" /\ next.pc = "unlinkall"
                       \/ j.kind = "reindex" /\ next.pc = "next"
    <3>1. Then(w, IF j.kind = "reset" THEN "unlinkall" ELSE "next")
      BY <1>4 DEF Empty
    <3> QED BY <1>2, <3>1, ThenDoes
  <2>3. Chunks(j.base, f)' = {} /\ \A k : k # j.base => Chunks(k, f)' = Chunks(k, f)
    BY <2>1 DEF Chunks
  <2>4. \A k : k # j.base => /\ <<k, f>> \in kept' <=> <<k, f>> \in kept
                             /\ <<k, f>> \in troubled' <=> <<k, f>> \in troubled
                             /\ <<k, f>> \in shorn' <=> <<k, f>> \in shorn
    BY <2>1
  <2> QED BY <1>3, <2>2, <2>3, <2>4
<1>5. CASE EmptyFails(w) /\ j.kind = "reset"
  <2>1. /\ UNCHANGED <<chunks, troubled, shorn>> /\ Then(w, "unlinkall")
        /\ kept' = kept \cup {<<j.base, c.file>> : c \in {d \in chunks : d.in = j.base}}
    BY <1>5 DEF EmptyFails, store
  <2>2. PICK next : Moves(w, next) /\ Still(j, next) /\ next.pc = "unlinkall"
    BY <2>1, ThenDoes
  <2>3. \A k : Chunks(k, f)' = Chunks(k, f)
    BY <2>1 DEF Chunks
  <2>4. Chunks(j.base, f)' = {} \/ <<j.base, f>> \in kept'
    BY <2>1, <2>3 DEF Chunks
  <2>5. \A k : k # j.base => (<<k, f>> \in kept' <=> <<k, f>> \in kept)
    BY <2>1
  <2> QED BY <1>3, <1>5, <2>1, <2>2, <2>3, <2>4, <2>5
\* A base that could not be emptied is left out, with its links and its chunks.
<1>6. CASE EmptyFails(w) /\ j.kind = "reindex"
  <2> DEFINE next == [j EXCEPT !.pc = "next", !.plan = {p \in @ : p[1] # j.base}]
  <2>1. UNCHANGED <<files, linked, chunks, excused>> /\ Go(w, next)
    BY <1>6 DEF EmptyFails, store, excused
  <2>2. /\ next.pc = "next" /\ next.kind = j.kind /\ next.base = j.base
        /\ next.file = j.file /\ next.left = j.left
        /\ \A k : <<k, f>> \in next.plan <=> <<k, f>> \in j.plan /\ k # j.base
    BY <1>1 DEF Proper, Shaped
  <2> HIDE DEF next
  <2>3. Moves(w, next)
    BY <2>1, GoMoves
  <2>4. Sound(j, f)'
    BY <2>1, NothingSpared, SparedSound
  <2>5. OnRow(next, f)'
    BY <1>6, <2>2, <2>4 DEF Sound, OnRow, Working
  <2>6. ASSUME NEW k \in Base PROVE InBase(next, k, f)'
    <3>1. InBase(j, k, f)'
      BY <2>4 DEF Sound
    <3>2. Found(next, k, f)'
      BY <1>1, <1>6, <2>2, <3>1 DEF InBase, Found, Off, May, Working
    <3>3. Linking(next, k, f)'
      BY <1>1, <1>6, <2>2, <3>1 DEF InBase, Linking, Working
    <3>4. next.base = k => Holding(next, k, f)'
      BY <1>6, <2>2 DEF Holding, Working, Adding
    <3> QED BY <3>2, <3>3, <3>4 DEF InBase
  <2> QED BY <2>2, <2>3, <2>5, <2>6 DEF Sound, Ended
<1> QED BY <1>2, <1>4, <1>5, <1>6 DEF Empties

LEMMA UnlinkAllSound ==
    ASSUME JobsOK, KnowledgeAssumption, NEW w \in Worker, NEW f \in File,
           UnlinkAll(w), NEW j, j = job[w], Sound(j, f)
    PROVE  \E next : Moves(w, next) /\ Ended(next) /\ Sound(next, f)'
<1>1. /\ Proper(j) /\ j.pc = "unlinkall" /\ UNCHANGED <<files, chunks, excused>>
      /\ Then(w, "done")
      /\ linked' = {p \in linked : p[1] # j.base}
  BY DEF JobsOK, UnlinkAll, At
<1>2. j.kind = "reset" /\ j.base \in Base
  BY <1>1 DEF Proper, Legal, Working, Idle
<1>3. PICK next : Moves(w, next) /\ Still(j, next) /\ next.pc = "done"
  BY <1>1, ThenDoes
<1>4. /\ \A k : Chunks(k, f)' = Chunks(k, f) /\ (Clear(k, f)' <=> Clear(k, f))
      /\ \A k : Right(k, f)' <=> Right(k, f)
      /\ UNCHANGED kept
  BY <1>1 DEF Chunks, Clear, Right, Contents, excused
<1>5. OnRow(next, f)'
  BY <1>1, <1>2, <1>3, <1>4 DEF Sound, OnRow, Still, Working, Exists, Within, Contents
<1>6. ASSUME NEW k \in Base PROVE InBase(next, k, f)'
  <2>1. InBase(j, k, f)
    BY DEF Sound
  <2>2. k = j.base => Chunks(k, f) = {} \/ <<k, f>> \in kept
    BY <1>1, <1>2, <2>1 DEF InBase, Holding
  <2>3. <<k, f>> \in linked' <=> <<k, f>> \in linked /\ k # j.base
    BY <1>1
  <2>4. Found(next, k, f)'
    BY <1>1, <1>2, <1>3, <1>4, <2>1, <2>2, <2>3 DEF InBase, Found, Off, May, Still
  <2>5. Linking(next, k, f)' /\ Holding(next, k, f)'
    BY <1>2, <1>3 DEF Linking, Holding, Still
  <2> QED BY <2>4, <2>5 DEF InBase
<1> QED BY <1>2, <1>3, <1>5, <1>6 DEF Sound, Ended, Still
\* A batch: the chunks first, then the rows, then the links
LEMMA BatchSound ==
    ASSUME JobsOK, RowsOK, KnowledgeAssumption, NEW w \in Worker, NEW f \in File,
           BatchInserts(w) \/ BatchRow(w) \/ BatchLink(w),
           NEW j, j = job[w], f \in About(j), Sound(j, f)
    PROVE  \E next : Moves(w, next) /\ Ended(next) /\ Sound(next, f)'
<1>1. /\ j.kind = "batch" /\ j.base \in Base /\ j.left \subseteq j.plan
      /\ j.plan \subseteq (Content \cup {None}) \X File
      /\ j.pc \in {"batchinsert", "batchrow", "batchlink"}
  <2>1. Proper(j) /\ j.pc \in {"batchinsert", "batchrow", "batchlink"}
    BY DEF JobsOK, BatchInserts, BatchInsert, BatchPart, BatchRow, BatchLink, At
  <2> QED BY <2>1 DEF Proper, Legal, Working, Idle
<1>2. /\ Exists(f) /\ files[f].status # "removed"
      /\ \E p \in j.plan : p[2] = f
      /\ \A p \in j.plan : p[2] = f => p[1] = files[f].content
  BY <1>1 DEF Sound, OnRow, Exists, About
<1>3. PICK next :
        /\ Moves(w, next) /\ Shaped(next)
        /\ next.kind = job[w].kind /\ next.old = job[w].old /\ next.base = job[w].base
        /\ next.file = job[w].file /\ next.plan = job[w].plan
        /\ BatchInserts(w) => \E some \in SUBSET {p \in job[w].plan : p[1] # None} :
              /\ chunks' = chunks \cup Batched(job[w], some)
              /\ \/ /\ next.pc = "done"
                    /\ \/ some = {} /\ UNCHANGED kept
                       \/ kept' = kept \cup {<<job[w].base, p[2]>> : p \in some}
                 \/ /\ next.pc = "batchrow" /\ next.left = job[w].plan
                    /\ some = {p \in job[w].plan : p[1] # None}
                    /\ UNCHANGED kept
        /\ BatchRow(w) => \E p \in job[w].left :
              /\ files' = IF Exists(p[2])
                          THEN [files EXCEPT ![p[2]] = [files[p[2]] EXCEPT
                                                  !.content = p[1], !.hash = p[1]]]
                          ELSE files
              /\ \/ next.pc = "batchlink" /\ next.left = job[w].plan
                 \/ next.pc = "batchrow" /\ next.left = job[w].left \ {p}
        /\ BatchLink(w) => \E p \in job[w].left :
              /\ linked' = IF Exists(p[2]) THEN linked \cup {<<job[w].base, p[2]>>}
                           ELSE linked
              /\ next.left = job[w].left \ {p}
              /\ next.pc = (IF job[w].left = {p} THEN "done" ELSE "batchlink")
  BY BatchDoes
<1>4. Ended(next)
  BY <1>1, <1>3 DEF Ended
<1>5. OnRow(j, f)' => OnRow(next, f)'
  <2>1. next.pc \in {"batchrow", "batchlink", "done"}
    BY <1>1, <1>3 DEF BatchInserts, BatchInsert, BatchPart, BatchRow, BatchLink, At
  <2> QED BY <1>1, <1>3, <2>1 DEF OnRow, Working, Exists
<1>6. CASE BatchInserts(w)
  <2>1. UNCHANGED <<files, linked, troubled, shorn>> /\ j.pc = "batchinsert"
    BY <1>6 DEF BatchInserts, BatchInsert, BatchPart, At, excused
  <2>2. <<j.base, f>> \notin linked /\ (Chunks(j.base, f) = {} \/ <<j.base, f>> \in kept)
    BY <1>1, <1>2, <2>1 DEF Sound, InBase, Found, Linking, May
  <2>3. f # j.base
    BY <1>1 DEF KnowledgeAssumption
  <2>04. PICK some \in SUBSET {p \in job[w].plan : p[1] # None} :
              /\ chunks' = chunks \cup Batched(job[w], some)
              /\ \/ /\ next.pc = "done"
                    /\ \/ some = {} /\ UNCHANGED kept
                       \/ kept' = kept \cup {<<job[w].base, p[2]>> : p \in some}
                 \/ /\ next.pc = "batchrow" /\ next.left = job[w].plan
                    /\ some = {p \in job[w].plan : p[1] # None}
                    /\ UNCHANGED kept
    BY <1>3, <1>6, Zenon
  <2>4. /\ some \subseteq {p \in j.plan : p[1] # None}
        /\ chunks' = chunks \cup Batched(j, some)
        /\ \/ /\ next.pc = "done"
              /\ \/ some = {} /\ UNCHANGED kept
                 \/ kept' = kept \cup {<<j.base, p[2]>> : p \in some}
           \/ /\ next.pc = "batchrow" /\ next.left = j.plan
              /\ some = {p \in j.plan : p[1] # None}
              /\ UNCHANGED kept
    BY <2>04
  <2>5. /\ \A c \in Batched(j, some) : /\ c.in = j.base
                                       /\ \E p \in some : c.file = p[2] /\ c.content = p[1]
        /\ \A p \in some : \E c \in Batched(j, some) : /\ c.in = j.base /\ c.file = p[2]
                                                       /\ c.content = p[1]
    <3> DEFINE chunk(p) == [id |-> Fresh, in |-> j.base, file |-> p[2],
                            content |-> p[1], hash |-> None]
    <3>1. Batched(j, some) = {chunk(p) : p \in some}
      BY DEF Batched
    <3>2. \A p : chunk(p).in = j.base /\ chunk(p).file = p[2] /\ chunk(p).content = p[1]
      OBVIOUS
    <3> HIDE DEF chunk
    <3>3. \A c \in Batched(j, some) : \E p \in some : c = chunk(p)
      BY <3>1
    <3>4. \A p \in some : chunk(p) \in Batched(j, some)
      BY <3>1
    <3> QED BY <3>2, <3>3, <3>4
  <2>6. \A k : k # j.base => /\ Chunks(k, f)' = Chunks(k, f)
                             /\ <<k, f>> \in kept' <=> <<k, f>> \in kept
    BY <2>4, <2>5 DEF Chunks
  <2>7. OnRow(j, f)'
    BY <1>1, <2>1, <2>3, <2>6 DEF Sound, OnRow, Exists, Within, Contents, Working
  <2>8. ASSUME NEW k \in Base PROVE InBase(next, k, f)'
    <3>1. InBase(j, k, f)
      BY DEF Sound
    <3>2. CASE k # j.base
      <4>1. Right(k, f)' <=> Right(k, f)
        BY <2>1, <2>6, <3>2 DEF Right, Contents
      <4>2. Clear(k, f)' <=> Clear(k, f)
        BY <2>1, <2>3, <2>6, <3>2 DEF Clear
      <4> QED BY <1>1, <1>3, <2>1, <2>6, <3>1, <3>2, <4>1, <4>2
              DEF InBase, Found, Linking, Off, May
    \* It failed: the chunks that were inserted are on record.
    <3>3. CASE k = j.base /\ next.pc = "done"
      <4>1. Chunks(k, f)' = {} \/ <<k, f>> \in kept'
        <5>1. CASE \E p \in some : p[2] = f
          BY <2>4, <3>3, <5>1
        <5>2. CASE \A p \in some : p[2] # f
          <6>1. Chunks(k, f)' = Chunks(k, f)
            BY <2>4, <2>5, <5>2 DEF Chunks
          <6>2. <<k, f>> \in kept => <<k, f>> \in kept'
            BY <2>4
          <6> QED BY <2>2, <3>3, <6>1, <6>2
        <5> QED BY <5>1, <5>2
      <4> QED BY <1>1, <1>3, <2>1, <2>2, <3>3, <4>1 DEF InBase, Found, Linking, Holding
    <3>4. CASE k = j.base /\ next.pc = "batchrow"
      <4>1. /\ UNCHANGED kept /\ next.left = j.plan
            /\ some = {p \in j.plan : p[1] # None}
        BY <2>4, <3>4
      <4>2. ASSUME Clear(k, f)' PROVE Right(k, f)'
        <5>1. Chunks(k, f) = {}
          BY <2>2, <3>4, <4>1, <4>2 DEF Clear
        <5>2. \A c \in Chunks(k, f)' : c.content = files[f].content /\ files[f].content # None
          <6> SUFFICES ASSUME NEW c \in chunks', c.in = k, c.file = f
                       PROVE  c.content = files[f].content /\ files[f].content # None
            BY DEF Chunks
          <6>1. c \in Batched(j, some)
            BY <2>4, <5>1 DEF Chunks
          <6>2. PICK p \in some : c.file = p[2] /\ c.content = p[1]
            BY <2>5, <6>1
          <6> QED BY <1>2, <4>1, <6>2
        <5>3. files[f].content # None =>
                 \E c \in Chunks(k, f)' : c.content = files[f].content
          <6> SUFFICES ASSUME files[f].content # None
                       PROVE  \E c \in Chunks(k, f)' : c.content = files[f].content
            OBVIOUS
          <6>1. PICK p \in some : p[2] = f /\ p[1] = files[f].content
            BY <1>2, <4>1
          <6>2. PICK c \in Batched(j, some) : /\ c.in = j.base /\ c.file = p[2]
                                              /\ c.content = p[1]
            BY <2>5, <6>1
          <6> QED BY <2>4, <3>4, <6>1, <6>2 DEF Chunks
        <5> QED BY <2>1, <5>2, <5>3 DEF Right, Contents
      <4> QED BY <1>1, <1>3, <2>1, <2>2, <3>4, <4>1, <4>2
              DEF InBase, Found, Linking, Holding, May
    <3> QED BY <2>4, <3>2, <3>3, <3>4
  <2> QED BY <1>3, <1>4, <1>5, <2>7, <2>8 DEF Sound
<1>7. CASE BatchRow(w)
  <2>1. UNCHANGED <<linked, chunks, excused>> /\ j.pc = "batchrow"
    BY <1>7 DEF BatchRow, At
  <2>2. PICK p \in j.left :
          /\ files' = IF Exists(p[2])
                      THEN [files EXCEPT ![p[2]] = [files[p[2]] EXCEPT
                                              !.content = p[1], !.hash = p[1]]]
                      ELSE files
          /\ \/ next.pc = "batchlink" /\ next.left = j.plan
             \/ next.pc = "batchrow" /\ next.left = j.left \ {p}
    BY <1>3, <1>7
  <2>3. Exists(f)' /\ files'[f].content = files[f].content
    <3>1. CASE p[2] = f
      <4>1. p[1] = files[f].content /\ Exists(f)
        BY <1>1, <1>2, <2>2, <3>1
      <4>2. files[f] \in Rows
        BY DEF RowsOK
      <4>3. files'[f] = [files[f] EXCEPT !.content = p[1], !.hash = p[1]]
        BY <2>2, <3>1, <4>1 DEF RowsOK
      <4> QED BY <4>1, <4>2, <4>3 DEF Rows, Exists
    <3>2. CASE p[2] # f
      BY <1>2, <2>2, <3>2 DEF RowsOK, Exists
    <3> QED BY <3>1, <3>2
  <2>4. Sound(j, f)'
    BY <1>2, <2>1, <2>3, RowSound DEF excused
  <2>5. ASSUME NEW k \in Base PROVE InBase(next, k, f)'
    <3>1. InBase(j, k, f)'
      BY <2>4 DEF Sound
    <3>2. Found(next, k, f)'
      <4>1. ~Off(j, k, f)
        BY <1>1 DEF Off
      <4>2. May(j, k, f) => May(next, k, f)
        BY <1>1, <1>2, <1>3, <2>1, <2>2 DEF May
      <4> QED BY <3>1, <4>1, <4>2 DEF InBase, Found, Off, May
    <3>3. Linking(next, k, f)'
      BY <1>1, <1>3, <2>2 DEF Linking
    <3>4. next.base = k => Holding(next, k, f)'
      BY <1>1, <1>3, <2>1, <2>2, <3>1 DEF InBase, Holding
    <3> QED BY <3>2, <3>3, <3>4 DEF InBase
  <2> QED BY <1>3, <1>4, <1>5, <2>4, <2>5 DEF Sound
<1>8. CASE BatchLink(w)
  <2>1. UNCHANGED <<files, chunks, excused>> /\ j.pc = "batchlink"
    BY <1>8 DEF BatchLink, At
  <2>2. PICK p \in j.left :
          /\ linked' = IF Exists(p[2]) THEN linked \cup {<<j.base, p[2]>>} ELSE linked
          /\ next.left = j.left \ {p}
          /\ next.pc = (IF j.left = {p} THEN "done" ELSE "batchlink")
    BY <1>3, <1>8
  <2>3. OnRow(j, f)'
    BY <2>1 DEF Sound, OnRow, Exists, Within, Contents, Chunks, excused
  <2>4. ASSUME NEW k \in Base PROVE InBase(next, k, f)'
    <3>1. InBase(j, k, f)
      BY DEF Sound
    <3>2. /\ Chunks(k, f)' = Chunks(k, f)
          /\ Right(k, f)' <=> Right(k, f)
          /\ Clear(k, f)' <=> Clear(k, f)
          /\ UNCHANGED kept
      BY <2>1 DEF Chunks, Right, Contents, Clear, excused
    <3>3. j.base = k => (Clear(k, f) => Right(k, f))
      BY <1>1, <2>1, <3>1 DEF InBase, Holding
    <3>4. Found(next, k, f)'
      <4>1. CASE <<k, f>> \in linked'
        <5>1. <<k, f>> \in linked \/ k = j.base
          BY <2>2, <4>1
        <5>2. ~Off(j, k, f)
          BY <1>1 DEF Off
        <5> QED BY <3>1, <3>2, <3>3, <4>1, <5>1, <5>2 DEF InBase, Found
      <4>2. CASE <<k, f>> \notin linked'
        <5>1. <<k, f>> \notin linked /\ (k = j.base => p[2] # f)
          BY <1>2, <2>2, <4>2
        <5>2. May(j, k, f) => May(next, k, f)
          BY <1>1, <1>3, <2>1, <2>2, <5>1 DEF May
        <5> QED BY <2>1, <3>1, <3>2, <4>2, <5>1, <5>2 DEF InBase, Found, May
      <4> QED BY <4>1, <4>2
    <3>5. Linking(next, k, f)'
      BY <1>1, <1>3, <2>2 DEF Linking
    <3>6. next.base = k => Holding(next, k, f)'
      BY <1>1, <1>3, <2>2, <3>2, <3>3 DEF Holding
    <3> QED BY <3>4, <3>5, <3>6 DEF InBase
  <2> QED BY <1>3, <1>4, <1>5, <2>3, <2>4 DEF Sound
<1> QED BY <1>6, <1>7, <1>8

\* A step of the request that is about f
LEMMA AtWorkSound ==
    ASSUME BasicInv, KeptInv, KnowledgeAssumption, NEW w \in Worker, NEW f \in File, Step(w),
           NEW j, j = job[w], f \in About(j), Sound(j, f)
    PROVE  \E next : Moves(w, next) /\ Ended(next) /\ Sound(next, f)'
<1>1. JobsOK /\ RowsOK /\ LinksOK /\ ChunksOK
  BY TypeParts DEF BasicInv
<1>2. CASE \/ Read(w) \/ Gathers(w) \/ Write(w) \/ Checks(w) \/ Inserts(w) \/ Record(w) \/ Fail(w)
  BY <1>2, IndexingSound
<1>3. CASE Mark(w) \/ KeepMedia(w)
  BY <1>1, <1>3, UploadSound
<1>4. CASE Link(w)
  BY <1>1, <1>4, LinkSound
<1>5. CASE Bases(w)
  BY <1>1, <1>5, BasesSound
<1>6. CASE Turn(w)
  BY <1>1, <1>6, TurnSound
<1>7. CASE Finds(w)
  BY <1>1, <1>7, FindSound
<1>8. CASE Drops(w)
  BY <1>1, <1>8, DropSound
<1>9. CASE Unlink(w)
  BY <1>1, <1>9, UnlinkSound
<1>10. CASE Purges(w)
  BY <1>1, <1>10, PurgeSound
<1>11. CASE HashPurges(w)
  BY <1>1, <1>11, HashSound
<1>12. CASE OwnDrops(w)
  BY <1>1, <1>12, OwnSound
<1>13. CASE DropRow(w)
  BY <1>1, <1>13, RowGone
<1>14. CASE Empties(w)
  BY <1>1, <1>14, EmptySound
<1>15. CASE UnlinkAll(w)
  BY <1>1, <1>15, UnlinkAllSound
<1>16. CASE BatchInserts(w) \/ BatchRow(w) \/ BatchLink(w)
  BY <1>1, <1>16, BatchSound
<1> QED BY <1>2, <1>3, <1>4, <1>5, <1>6, <1>7, <1>8, <1>9, <1>10, <1>11, <1>12, <1>13,
           <1>14, <1>15, <1>16, StepIs

\* A step of a request that is not
LEMMA ElsewhereSpared ==
    ASSUME JobsOK, RowsOK, KnowledgeAssumption, NEW w \in Worker, NEW f \in File, Step(w),
           f \notin About(job[w])
    PROVE  Spared(f)
<1>1. Proper(job[w])
  BY DEF JobsOK
<1>2. CASE job[w].kind = "batch"
  <2>1. job[w].pc \in {"batchinsert", "batchrow", "batchlink"}
    BY <1>1, <1>2 DEF Proper, Legal, Working, Idle
  <2>2. BatchInserts(w) \/ BatchRow(w) \/ BatchLink(w)
    BY <2>1, StepIs DEF Read, Gathers, Gather, GatherOverOld, GatherBlind, Write, Checks,
         Check, CheckBlind, CheckFails, Inserts, Insert, InsertPart, Record, Fail, Mark,
         KeepMedia, Link, Bases, Turn, Finds, Find, FindBlind, Drops, Drop, DropFails, Unlink,
         Purges, Purge, PurgeFails, HashPurges, PurgeHash, PurgeHashFails, OwnDrops, DropOwn,
         DropOwnFails, DropRow, Empties, Empty, EmptyFails, UnlinkAll, At
  <2>3. \A p \in job[w].plan : p[2] # f
    BY <1>2 DEF About
  <2> QED BY <1>2, <2>2, <2>3, SparedByBatch
<1>3. CASE job[w].kind # "batch"
  <2>1. job[w].kind \notin {"reset", "reindex"} /\ job[w].file # f
    BY <1>3 DEF About
  <2>2. job[w].pc \notin {"empty", "unlinkall"}
    BY <1>1, <2>1 DEF Proper, Legal, Working, Idle
  <2>3. ~Empties(w) /\ ~UnlinkAll(w)
    BY <2>2 DEF Empties, Empty, EmptyFails, UnlinkAll, At
  <2> QED BY <1>3, <2>1, <2>3, SparedByOne
<1> QED BY <1>2, <1>3

LEMMA BusinessIs ==
    ASSUME NEW f \in File, NEW r, KnowledgeAssumption
    PROVE  /\ r \in Business(f) <=> \/ \E v \in Worker : r = job[v] /\ f \in About(r)
                                    \/ r = Idle /\ \A v \in Worker : f \notin About(job[v])
           /\ r \in Business(f)' <=> \/ \E v \in Worker : r = job'[v] /\ f \in About(r)
                                     \/ r = Idle /\ \A v \in Worker : f \notin About(job'[v])
           /\ f \notin About(Idle)
BY AboutIdle DEF Business, Quiet, KnowledgeAssumption

LEMMA StepSound ==
    ASSUME BasicInv, KeptInv, AloneInv, KnowledgeAssumption, NEW w \in Worker, Step(w)
    PROVE  AloneInv'
<1> SUFFICES ASSUME NEW f \in File, Alone(f)', NEW r, r \in Business(f)' PROVE Sound(r, f)'
  BY DEF AloneInv
<1>1. Alone(f)
  BY StepIs DEF history, Alone
<1>2. /\ \A v \in Worker : v # w => job'[v] = job[v]
      /\ job[w] # Idle
      /\ job'[w] # Idle => About(job'[w]) = About(job[w])
  BY StepJobs
<1>3. \A j \in Business(f) : Sound(j, f)
  BY <1>1 DEF AloneInv
<1>4. JobsOK /\ RowsOK
  BY TypeParts DEF BasicInv
<1>5. CASE f \in About(job[w])
  <2>1. \A v \in Worker : v # w => f \notin About(job[v])
    <3> SUFFICES ASSUME NEW v \in Worker, v # w, f \in About(job[v]) PROVE FALSE
      OBVIOUS
    <3>1. job[v] # Idle
      BY BusinessIs
    <3>2. {f, f} \in together
      BY <1>2, <1>5, <3>1 DEF BasicInv, Overlap
    <3>3. {f, f} = {f}
      OBVIOUS
    <3> QED BY <1>1, <3>2, <3>3 DEF Alone
  <2>2. PICK j : j = job[w]
    OBVIOUS
  <2>3. Sound(j, f) /\ f \in About(j)
    BY <1>3, <1>5, <2>2, BusinessIs
  <2>4. PICK next : Moves(w, next) /\ Ended(next) /\ Sound(next, f)'
    BY <2>2, <2>3, AtWorkSound
  <2>5. job'[w] = IF next.pc = "done" THEN Idle ELSE next
    BY <2>4 DEF Moves
  <2>6. CASE next.pc = "done"
    <3>1. r = Idle
      BY <1>2, <2>1, <2>5, <2>6, BusinessIs
    <3>2. Sound(Idle, f)'
      BY <2>4, <2>6, DoneSound
    <3> QED BY <3>1, <3>2
  <2>7. CASE next.pc # "done"
    <3>1. r = next
      BY <1>2, <1>5, <2>1, <2>5, <2>7, BusinessIs
    <3> QED BY <2>4, <3>1
  <2> QED BY <2>6, <2>7
<1>6. CASE f \notin About(job[w])
  <2>1. Spared(f)
    BY <1>4, <1>6, ElsewhereSpared
  <2>2. r \in Business(f)
    BY <1>2, <1>6, BusinessIs
  <2> QED BY <1>3, <2>1, <2>2, SparedSound
<1> QED BY <1>5, <1>6

\* What is stored of a file that nobody is working on
LEMMA Settled ==
    ASSUME NEW f \in File, Sound(Idle, f), KnowledgeAssumption
    PROVE  /\ Exists(f) /\ <<f, f>> \notin kept => Within(f, f)
           /\ files[f].status = "unused" => Chunks(f, f) = {}
           /\ \A k \in Base :
                 /\ <<k, f>> \in linked /\ Clear(k, f) => Right(k, f)
                 /\ <<k, f>> \notin linked \cup kept /\ files[f].status # "removed" =>
                       Chunks(k, f) = {}
                 /\ Exists(f) /\ Clear(k, f) => Within(k, f)
<1>1. \A k \in Base : /\ <<k, f>> \in linked /\ Clear(k, f) => Right(k, f)
                      /\ <<k, f>> \notin linked \cup kept /\ files[f].status # "removed" =>
                            Chunks(k, f) = {}
  BY DEF Sound, InBase, Found, Off, May, Idle, Working, KnowledgeAssumption
<1>2. \A k \in Base : Exists(f) /\ Clear(k, f) => Within(k, f)
  BY <1>1 DEF Exists, Right, Within, Contents, Clear
<1> QED BY <1>1, <1>2 DEF Sound, OnRow

\* A request about it begins.
LEMMA OpeningSound ==
    ASSUME NEW f \in File, Sound(Idle, f), KnowledgeAssumption, NEW j,
           \/ /\ j.kind = "edit" /\ j.pc = "read" /\ j.base = Own /\ j.left = {} /\ Exists(f)
           \/ /\ j.kind = "add" /\ j.pc = "read" /\ j.base \in Base /\ Exists(f)
           \/ /\ j.kind = "update" /\ j.pc = "purge" /\ <<j.base, f>> \in linked /\ Exists(f)
           \/ /\ j.kind = "remove" /\ j.pc = "unlink" /\ Exists(f)
           \/ /\ j.kind = "delete" /\ j.pc = "bases" /\ Exists(f)
           \/ /\ j.kind = "batch" /\ j.pc = "batchinsert" /\ <<j.base, f>> \notin linked
              /\ Exists(f) /\ \A p \in j.plan : p[2] = f => p[1] = files[f].content
           \/ /\ j.kind = "reset" /\ j.pc = "empty"
           \/ /\ j.kind = "reindex" /\ j.pc = "next" /\ j.base = None /\ j.left = Base
              /\ j.plan = linked
    PROVE  Sound(j, f)
<1>1. OnRow(j, f)
  BY Settled DEF OnRow, Working, KnowledgeAssumption
<1>2. ASSUME NEW k \in Base PROVE InBase(j, k, f)
  <2>1. Found(j, k, f)
    BY Settled DEF Found
  <2>2. Linking(j, k, f)
    BY DEF Linking, Working, KnowledgeAssumption
  <2>3. j.base = k => Holding(j, k, f)
    BY Settled DEF Holding, Adding, Working, KnowledgeAssumption
  <2> QED BY <2>1, <2>2, <2>3 DEF InBase
<1> QED BY <1>1, <1>2 DEF Sound

LEMMA UploadingSound ==
    ASSUME NEW f \in File, Sound(Idle, f), RowsOK, LinksOK, KnowledgeAssumption, NEW j,
           j.kind = "upload", j.pc \in {"read", "media"}, j.base \notin Base, j.file = f,
           files[f].status = "unused", UNCHANGED <<linked, chunks, excused>>,
           files' = [files EXCEPT ![f] = Row("pending", None, None)]
    PROVE  Sound(j, f)'
<1>1. /\ Chunks(f, f) = {}
      /\ \A k \in Base : /\ <<k, f>> \notin linked
                         /\ <<k, f>> \notin kept => Chunks(k, f) = {}
  BY Settled DEF LinksOK, Exists
<1>2. /\ Chunks(f, f)' = {}
      /\ \A k \in Base : /\ <<k, f>> \notin linked'
                         /\ <<k, f>> \notin kept' => Chunks(k, f)' = {}
  BY <1>1 DEF Chunks, excused
<1>3. files'[f].status = "pending"
  BY DEF RowsOK, Row
<1>4. OnRow(j, f)'
  BY <1>2, <1>3 DEF OnRow, Exists, Within, Contents, Working
<1>5. ASSUME NEW k \in Base PROVE InBase(j, k, f)'
  BY <1>2, <1>3 DEF InBase, Found, Linking
<1> QED BY <1>4, <1>5 DEF Sound

LEMMA StartSound ==
    ASSUME BasicInv, AloneInv, KnowledgeAssumption, NEW w \in Worker, NEW j,
           Start(w, j), Opening(j),
           \A f \in File : f \notin About(j) => Spared(f),
           \A f \in File : f \in About(j) /\ Sound(Idle, f) => Sound(j, f)'
    PROVE  AloneInv'
<1> SUFFICES ASSUME NEW f \in File, Alone(f)', NEW r, r \in Business(f)' PROVE Sound(r, f)'
  BY DEF AloneInv
<1>1. /\ together' = together \cup
             UNION {{{e, g} : e \in About(j), g \in About(job[v])} : v \in Busy}
      /\ UNCHANGED lost
  BY DEF Start
<1>2. Alone(f)
  BY <1>1 DEF Alone
<1>3. /\ \A v \in Worker : v # w => job'[v] = job[v]
      /\ job[w] = Idle /\ job'[w] = j
  BY StartJobs
<1>4. \A q \in Business(f) : Sound(q, f)
  BY <1>2 DEF AloneInv
<1>5. CASE f \in About(j)
  <2>1. \A v \in Worker : f \notin About(job[v])
    <3> SUFFICES ASSUME NEW v \in Worker, f \in About(job[v]) PROVE FALSE
      OBVIOUS
    <3>1. v \in Busy
      BY BusinessIs DEF Busy
    <3>2. {f, f} \in {{e, g} : e \in About(j), g \in About(job[v])}
      BY <1>5
    <3>3. {f} \in together'
      BY <1>1, <3>1, <3>2
    <3> QED BY <3>3 DEF Alone
  <2>2. Sound(Idle, f)
    BY <1>4, <2>1, BusinessIs
  <2>3. r = j
    BY <1>3, <1>5, <2>1, BusinessIs
  <2> QED BY <1>5, <2>2, <2>3
<1>6. CASE f \notin About(j)
  <2>1. r \in Business(f)
    BY <1>3, <1>6, BusinessIs
  <2> QED BY <1>4, <1>6, <2>1, SparedSound
<1> QED BY <1>5, <1>6

\* Requests that leave everything as it is when they begin
LEMMA AskingSound ==
    ASSUME BasicInv, AloneInv, KnowledgeAssumption, NEW w \in Worker, Asks(w), NEW j, Start(w, j),
           UNCHANGED files,
           \A f \in About(j) :
               \/ /\ j.kind = "edit" /\ j.pc = "read" /\ j.base = Own /\ j.left = {} /\ Exists(f)
               \/ /\ j.kind = "add" /\ j.pc = "read" /\ j.base \in Base /\ Exists(f)
               \/ /\ j.kind = "update" /\ j.pc = "purge" /\ <<j.base, f>> \in linked /\ Exists(f)
               \/ /\ j.kind = "remove" /\ j.pc = "unlink" /\ Exists(f)
               \/ /\ j.kind = "delete" /\ j.pc = "bases" /\ Exists(f)
               \/ /\ j.kind = "batch" /\ j.pc = "batchinsert" /\ <<j.base, f>> \notin linked
                  /\ Exists(f) /\ \A p \in j.plan : p[2] = f => p[1] = files[f].content
               \/ /\ j.kind = "reset" /\ j.pc = "empty"
               \/ /\ j.kind = "reindex" /\ j.pc = "next" /\ j.base = None /\ j.left = Base
                  /\ j.plan = linked
    PROVE  AloneInv'
<1>1. Opening(j)
  <2>1. PICK i : Start(w, i) /\ Opening(i)
    BY AsksFine DEF BasicInv
  <2>2. i = j
    BY <2>1 DEF Start, BasicInv, JobsOK
  <2> QED BY <2>1, <2>2
<1>2. \A f \in File : Spared(f)
  BY NothingSpared DEF Start
<1>3. ASSUME NEW f \in File, f \in About(j), Sound(Idle, f) PROVE Sound(j, f)'
  <2>1. Sound(j, f)
    BY <1>3, OpeningSound
  <2> QED BY <1>2, <2>1, SparedSound
<1> QED BY <1>1, <1>2, <1>3, StartSound

LEMMA UploadStarts ==
    ASSUME BasicInv, AloneInv, KnowledgeAssumption, NEW w \in Worker, Asks(w), NEW j, Start(w, j),
           NEW f \in File, files[f].status = "unused",
           files' = [files EXCEPT ![f] = Row("pending", None, None)],
           j.kind = "upload", j.pc \in {"read", "media"}, j.base \notin Base, j.file = f
    PROVE  AloneInv'
<1>1. Opening(j)
  <2>1. PICK i : Start(w, i) /\ Opening(i)
    BY AsksFine DEF BasicInv
  <2>2. i = j
    BY <2>1 DEF Start, BasicInv, JobsOK
  <2> QED BY <2>1, <2>2
<1>2. RowsOK /\ LinksOK /\ UNCHANGED <<linked, chunks, excused>> /\ About(j) = {f}
  BY TypeParts DEF BasicInv, Start, About
<1>3. ASSUME NEW g \in File, g \notin About(j) PROVE Spared(g)
  <2>1. files'[g] = files[g]
    BY <1>2, <1>3 DEF RowsOK
  <2> QED BY <1>2, <2>1 DEF Spared, SparedIn, Chunks, Clear, excused
<1>4. ASSUME NEW g \in File, g \in About(j), Sound(Idle, g) PROVE Sound(j, g)'
  BY <1>2, <1>4, UploadingSound
<1> QED BY <1>1, <1>3, <1>4, StartSound

LEMMA AsksSound ==
    ASSUME BasicInv, AloneInv, KnowledgeAssumption, NEW w \in Worker, Asks(w)
    PROVE  AloneInv'
<1>1. CASE Upload(w)
  <2>0. PICK f \in File : \E k \in Base \cup {None} :
        /\ files[f].status = "unused"
        /\ files' = [files EXCEPT ![f] = Row("pending", None, None)]
        /\ \/ \E c \in Content :
                Start(w, [Process(Idle, Own, None) EXCEPT
                            !.kind = "upload", !.file = f, !.source = c, !.ask = k])
           \/ Start(w, [Idle EXCEPT !.pc = "media", !.kind = "upload", !.file = f, !.ask = k])
    BY <1>1 DEF Upload
  <2>1. PICK k \in Base \cup {None} :
        /\ files[f].status = "unused"
        /\ files' = [files EXCEPT ![f] = Row("pending", None, None)]
        /\ \/ \E c \in Content :
                Start(w, [Process(Idle, Own, None) EXCEPT
                            !.kind = "upload", !.file = f, !.source = c, !.ask = k])
           \/ Start(w, [Idle EXCEPT !.pc = "media", !.kind = "upload", !.file = f, !.ask = k])
    BY <2>0
  <2>2. ASSUME NEW c \in Content,
               Start(w, [Process(Idle, Own, None) EXCEPT
                            !.kind = "upload", !.file = f, !.source = c, !.ask = k])
        PROVE  AloneInv'
    <3>1. PICK j : j = [Process(Idle, Own, None) EXCEPT
                            !.kind = "upload", !.file = f, !.source = c, !.ask = k]
      OBVIOUS
    <3>2. j.kind = "upload" /\ j.pc = "read" /\ j.base = Own /\ j.file = f
      BY <3>1 DEF Process, Idle
    <3> QED BY <2>1, <2>2, <3>1, <3>2, UploadStarts DEF KnowledgeAssumption
  <2>3. ASSUME Start(w, [Idle EXCEPT !.pc = "media", !.kind = "upload", !.file = f, !.ask = k])
        PROVE  AloneInv'
    <3>1. PICK j : j = [Idle EXCEPT !.pc = "media", !.kind = "upload", !.file = f, !.ask = k]
      OBVIOUS
    <3>2. j.kind = "upload" /\ j.pc = "media" /\ j.base = None /\ j.file = f
      BY <3>1 DEF Idle
    <3> QED BY <2>1, <2>3, <3>1, <3>2, UploadStarts DEF KnowledgeAssumption
  <2> QED BY <2>1, <2>2, <2>3
<1>2. CASE Edit(w)
  <2>1. PICK f \in File, c \in Content :
          /\ Exists(f) /\ UNCHANGED files
          /\ \/ Start(w, [Process(Idle, Own, c) EXCEPT !.kind = "edit", !.file = f])
             \/ Start(w, [Process(Idle, Own, None) EXCEPT !.kind = "edit", !.file = f,
                                                          !.source = c])
    BY <1>2 DEF Edit
  <2>2. PICK j : /\ Start(w, j)
                 /\ \/ j = [Process(Idle, Own, c) EXCEPT !.kind = "edit", !.file = f]
                    \/ j = [Process(Idle, Own, None) EXCEPT !.kind = "edit", !.file = f,
                                                            !.source = c]
    BY <2>1
  <2>3. j.kind = "edit" /\ j.pc = "read" /\ j.base = Own /\ j.left = {} /\ About(j) = {f}
    BY <2>2 DEF Process, Idle, About
  <2> QED BY <2>1, <2>2, <2>3, AskingSound
<1>3. CASE AddOrUpdate(w)
  <2>1. PICK f \in File, k \in Base :
        /\ Exists(f) /\ UNCHANGED files
        /\ \/ Start(w, [Process(Idle, k, None) EXCEPT !.kind = "add", !.file = f])
           \/ /\ <<k, f>> \in linked
              /\ Start(w, [Idle EXCEPT !.pc = "purge", !.kind = "update",
                                       !.file = f, !.base = k])
    BY <1>3 DEF AddOrUpdate
  <2>2. ASSUME Start(w, [Process(Idle, k, None) EXCEPT !.kind = "add", !.file = f])
        PROVE  AloneInv'
    <3>1. PICK j : j = [Process(Idle, k, None) EXCEPT !.kind = "add", !.file = f]
      OBVIOUS
    <3>2. j.kind = "add" /\ j.pc = "read" /\ j.base = k /\ About(j) = {f}
      BY <3>1 DEF Process, Idle, About
    <3> QED BY <2>1, <2>2, <3>1, <3>2, AskingSound
  <2>3. ASSUME <<k, f>> \in linked,
               Start(w, [Idle EXCEPT !.pc = "purge", !.kind = "update", !.file = f, !.base = k])
        PROVE  AloneInv'
    <3>1. PICK j : j = [Idle EXCEPT !.pc = "purge", !.kind = "update", !.file = f, !.base = k]
      OBVIOUS
    <3>2. j.kind = "update" /\ j.pc = "purge" /\ j.base = k /\ About(j) = {f}
      BY <3>1 DEF Idle, About
    <3> QED BY <2>1, <2>3, <3>1, <3>2, AskingSound
  <2> QED BY <2>1, <2>2, <2>3
<1>4. CASE Remove(w)
  <2>1. PICK f \in File, k \in Base, whole \in BOOLEAN :
          /\ Exists(f) /\ UNCHANGED files
          /\ Start(w, [Idle EXCEPT !.pc = "unlink", !.kind = "remove", !.file = f,
                                   !.base = k, !.hash = files[f].hash, !.whole = whole])
    BY <1>4 DEF Remove
  <2>2. PICK j : j = [Idle EXCEPT !.pc = "unlink", !.kind = "remove", !.file = f,
                                   !.base = k, !.hash = files[f].hash, !.whole = whole]
    OBVIOUS
  <2>3. j.kind = "remove" /\ j.pc = "unlink" /\ About(j) = {f}
    BY <2>2 DEF Idle, About
  <2> QED BY <2>1, <2>2, <2>3, AskingSound
<1>5. CASE Delete(w)
  <2>1. PICK f \in File :
          /\ Exists(f) /\ UNCHANGED files
          /\ Start(w, [Idle EXCEPT !.pc = "bases", !.kind = "delete", !.file = f,
                                   !.hash = files[f].hash])
    BY <1>5 DEF Delete
  <2>2. PICK j : j = [Idle EXCEPT !.pc = "bases", !.kind = "delete", !.file = f,
                                   !.hash = files[f].hash]
    OBVIOUS
  <2>3. j.kind = "delete" /\ j.pc = "bases" /\ About(j) = {f}
    BY <2>2 DEF Idle, About
  <2> QED BY <2>1, <2>2, <2>3, AskingSound
<1>6. CASE Batch(w)
  <2>1. PICK fs \in SUBSET File, k \in Base :
          /\ \A f \in fs : Exists(f)
          /\ UNCHANGED files
          /\ Start(w, [Idle EXCEPT !.pc = "batchinsert", !.kind = "batch", !.base = k,
                         !.plan = {<<files[f].content, f>> :
                                     f \in {g \in fs : <<k, g>> \notin linked}}])
    BY <1>6 DEF Batch
  <2>2. PICK plan : plan = {<<files[f].content, f>> : f \in {g \in fs : <<k, g>> \notin linked}}
    OBVIOUS
  <2>3. PICK j : j = [Idle EXCEPT !.pc = "batchinsert", !.kind = "batch", !.base = k,
                                  !.plan = plan]
    OBVIOUS
  <2>4. /\ j.kind = "batch" /\ j.pc = "batchinsert" /\ j.base = k /\ j.plan = plan
        /\ About(j) = {p[2] : p \in plan}
    BY <2>3 DEF Idle, About
  <2>5. \A p \in plan : /\ p[1] = files[p[2]].content /\ p[2] \in fs
                        /\ <<k, p[2]>> \notin linked
    <3> SUFFICES ASSUME NEW p \in plan
                 PROVE  /\ p[1] = files[p[2]].content /\ p[2] \in fs
                        /\ <<k, p[2]>> \notin linked
      OBVIOUS
    <3>1. PICK f \in {g \in fs : <<k, g>> \notin linked} : p = <<files[f].content, f>>
      BY <2>2
    <3>2. p[1] = files[f].content /\ p[2] = f
      BY <3>1
    <3> QED BY <3>1, <3>2
  <2>6. \A f \in About(j) : Exists(f) /\ <<k, f>> \notin linked
    BY <2>1, <2>4, <2>5
  <2>7. \A f \in About(j) : \A p \in j.plan : p[2] = f => p[1] = files[f].content
    BY <2>4, <2>5
  <2>8. Start(w, j) /\ UNCHANGED files
    BY <2>1, <2>2, <2>3
  <2> QED BY <2>4, <2>6, <2>7, <2>8, AskingSound
<1>7. CASE ResetOrReindex(w)
  <2>1. /\ UNCHANGED files
        /\ \/ \E k \in Base :
                 Start(w, [Idle EXCEPT !.pc = "empty", !.kind = "reset", !.base = k])
           \/ Start(w, [Idle EXCEPT !.pc = "next", !.kind = "reindex", !.left = Base,
                                    !.plan = linked])
    BY <1>7 DEF ResetOrReindex
  <2>2. ASSUME NEW k \in Base,
               Start(w, [Idle EXCEPT !.pc = "empty", !.kind = "reset", !.base = k])
        PROVE  AloneInv'
    <3>1. PICK j : j = [Idle EXCEPT !.pc = "empty", !.kind = "reset", !.base = k]
      OBVIOUS
    <3>2. j.kind = "reset" /\ j.pc = "empty"
      BY <3>1 DEF Idle
    <3> QED BY <2>1, <2>2, <3>1, <3>2, AskingSound
  <2>3. ASSUME Start(w, [Idle EXCEPT !.pc = "next", !.kind = "reindex", !.left = Base,
                                     !.plan = linked])
        PROVE  AloneInv'
    <3>1. PICK j : j = [Idle EXCEPT !.pc = "next", !.kind = "reindex", !.left = Base,
                                     !.plan = linked]
      OBVIOUS
    <3>2. j.kind = "reindex" /\ j.pc = "next" /\ j.base = None /\ j.left = Base /\ j.plan = linked
      BY <3>1 DEF Idle
    <3> QED BY <2>1, <2>3, <3>1, <3>2, AskingSound
  <2> QED BY <2>1, <2>2, <2>3
<1> QED BY <1>1, <1>2, <1>3, <1>4, <1>5, <1>6, <1>7 DEF Asks

\* Whoever works on a file when the process dies does not leave it alone.
LEMMA CrashSound ==
    ASSUME AloneInv, KnowledgeAssumption, Crash
    PROVE  AloneInv'
<1> SUFFICES ASSUME NEW f \in File, Alone(f)', NEW r, r \in Business(f)' PROVE Sound(r, f)'
  BY DEF AloneInv
<1>1. /\ UNCHANGED <<files, linked, chunks, excused, together>>
      /\ job' = [v \in Worker |-> Idle]
      /\ lost' = lost \cup UNION {About(job[w]) : w \in Busy}
  BY DEF Crash, store
<1>2. Alone(f) /\ \A v \in Worker : f \notin About(job[v])
  BY <1>1, BusinessIs DEF Alone, Busy
<1>3. r = Idle
  BY <1>1, BusinessIs
<1>4. Sound(Idle, f)
  BY <1>2, BusinessIs DEF AloneInv
<1>5. Spared(f)
  BY <1>1, NothingSpared
<1> QED BY <1>3, <1>4, <1>5, SparedSound

LEMMA InitAlone == Init /\ KnowledgeAssumption => AloneInv
<1> SUFFICES ASSUME Init, KnowledgeAssumption, NEW f \in File, NEW r, r \in Business(f)
             PROVE  Sound(r, f)
  BY DEF AloneInv
<1>1. PICK start \in [File -> Content \cup {None}] :
        LET there == {g \in File : start[g] # None}
            chunk(k, g) == [id |-> 0, in |-> k, file |-> g, content |-> start[g],
                            hash |-> start[g]]
        IN  /\ files = [g \in File |-> IF g \in there THEN Row("completed", start[g], start[g])
                                       ELSE Missing("unused")]
            /\ linked \in SUBSET (Base \X there)
            /\ chunks = {chunk(g, g) : g \in there} \cup {chunk(p[1], p[2]) : p \in linked}
  BY DEF Init
<1> DEFINE there == {g \in File : start[g] # None}
           chunk(k, g) == [id |-> 0, in |-> k, file |-> g, content |-> start[g],
                           hash |-> start[g]]
<1>2. r = Idle
  <2>1. \A v \in Worker : job[v] = Idle
    BY DEF Init
  <2> QED BY <2>1, BusinessIs
<1>3. /\ files[f].content = start[f]
      /\ f \in there => files[f].status = "completed"
      /\ f \notin there => files[f].status = "unused"
  BY <1>1 DEF Row, Missing
<1>4. \A c \in chunks : c.file = f =>
         f \in there /\ c.content = start[f] /\ (c.in = f \/ <<c.in, f>> \in linked)
  <2> SUFFICES ASSUME NEW c \in chunks, c.file = f
               PROVE  f \in there /\ c.content = start[f] /\ (c.in = f \/ <<c.in, f>> \in linked)
    OBVIOUS
  <2>1. CASE \E g \in there : c = chunk(g, g)
    BY <2>1
  <2>2. CASE \E p \in linked : c = chunk(p[1], p[2])
    <3>1. PICK p \in linked : c = chunk(p[1], p[2])
      BY <2>2
    <3>2. /\ p = <<p[1], p[2]>> /\ p[2] \in there
      BY <1>1, <3>1
    <3>3. c.in = p[1] /\ c.file = p[2] /\ c.content = start[p[2]]
      BY <3>1
    <3> QED BY <3>2, <3>3
  <2> QED BY <1>1, <2>1, <2>2
<1>5. \A k \in Base : <<k, f>> \in linked =>
         f \in there /\ \E c \in Chunks(k, f) : c.content = start[f]
  <2> SUFFICES ASSUME NEW k \in Base, <<k, f>> \in linked
               PROVE  f \in there /\ \E c \in Chunks(k, f) : c.content = start[f]
    OBVIOUS
  <2>1. PICK c : c = chunk(k, f)
    OBVIOUS
  <2>2. PICK p \in linked : p = <<k, f>>
    OBVIOUS
  <2>3. chunk(p[1], p[2]) = c
    BY <2>1, <2>2
  <2>4. c \in chunks
    BY <1>1, <2>3
  <2>5. c.in = k /\ c.file = f /\ c.content = start[f]
    BY <2>1
  <2> QED BY <1>1, <2>4, <2>5 DEF Chunks
<1>6. OnRow(Idle, f)
  BY <1>3, <1>4 DEF OnRow, Within, Contents, Chunks, Idle, Working
<1>7. ASSUME NEW k \in Base PROVE InBase(Idle, k, f)
  <2>1. Idle.base = None /\ Idle.kind = "none" /\ None # k /\ k # f
    BY DEF Idle, KnowledgeAssumption
  <2>2. <<k, f>> \in linked => Right(k, f)
    BY <1>3, <1>4, <1>5 DEF Right, Contents, Chunks
  <2>3. <<k, f>> \notin linked => Chunks(k, f) = {}
    BY <1>4, <2>1 DEF Chunks
  <2> QED BY <2>1, <2>2, <2>3 DEF InBase, Found, Linking
<1> QED BY <1>2, <1>6, <1>7 DEF Sound

LEMMA NextAlone ==
    BasicInv /\ KeptInv /\ AloneInv /\ KnowledgeAssumption /\ [Next]_vars => AloneInv'
<1> SUFFICES ASSUME BasicInv, KeptInv, AloneInv, KnowledgeAssumption, [Next]_vars PROVE AloneInv'
  OBVIOUS
<1>1. CASE Crash
  BY <1>1, CrashSound
<1>2. ASSUME NEW w \in Worker, Asks(w) PROVE AloneInv'
  BY <1>2, AsksSound
<1>3. ASSUME NEW w \in Worker, Step(w) PROVE AloneInv'
  BY <1>3, StepSound
<1>4. CASE UNCHANGED vars
  <2> SUFFICES ASSUME NEW f \in File, Alone(f)', NEW r, r \in Business(f)' PROVE Sound(r, f)'
    BY DEF AloneInv
  <2>1. /\ UNCHANGED <<files, linked, chunks, excused>> /\ job' = job
        /\ Alone(f)
    BY <1>4 DEF vars, store, history, Alone
  <2>2. r \in Business(f)
    BY <2>1, BusinessIs
  <2>3. Sound(r, f)
    BY <2>1, <2>2 DEF AloneInv
  <2>4. Spared(f)
    BY <2>1, NothingSpared
  <2> QED BY <2>3, <2>4, SparedSound
<1> QED BY <1>1, <1>2, <1>3, <1>4 DEF Next

\* AloneInv says what a request leaves behind, and what it finds.
LEMMA AloneAlways == Spec => [](BasicInv /\ AloneInv)
<1>1. Init => BasicInv /\ KeptInv /\ AloneInv
  BY InitBasic, InitKept, InitAlone, KnowledgeAssumption
<1>2. BasicInv /\ KeptInv /\ AloneInv /\ [Next]_vars => (BasicInv /\ KeptInv /\ AloneInv)'
  BY NextBasic, NextKept, NextAlone, KnowledgeAssumption
<1> QED BY <1>1, <1>2, PTL DEF Spec

\* Searchable: a file that nobody works on, and that no two requests worked on
\* at once, is found in every base it is linked to, with its content and with
\* nothing older, whatever the vector database failed to do on the way, unless
\* one of its collections is on record as not having been emptied or filled,
\* or as left beside a row that an edit with no content loaded anew.
THEOREM FoundAsItIs == Spec => []Searchable
<1>1. BasicInv /\ AloneInv => Searchable
  <2> SUFFICES ASSUME BasicInv, AloneInv, NEW f \in File, Exists(f), Quiet(f), Alone(f),
                      <<f, f>> \notin kept
               PROVE  /\ Contents(f, f) \subseteq {files[f].content}
                      /\ \A k \in Base : <<k, f>> \in linked \ (troubled \cup shorn \cup kept) =>
                            Contents(k, f) = {files[f].content} \ {None}
    BY DEF Searchable, BasicInv
  <2>1. Sound(Idle, f)
    BY DEF AloneInv, Business
  <2> QED BY <2>1, Settled, KnowledgeAssumption DEF Within, Right, Clear
<1> QED BY <1>1, AloneAlways, PTL

\* Forgotten: nothing is found of such a file in a base it was taken out of, nor
\* in any base once it has been deleted, unless chunks of it are on record as
\* having stayed there when the vector database failed.
THEOREM GoneIsNotFound == Spec => []Forgotten
<1>1. BasicInv /\ AloneInv => Forgotten
  <2> SUFFICES ASSUME BasicInv, AloneInv, NEW f \in File, NEW k \in Base,
                      <<k, f>> \notin linked \cup kept, files[f].status # "removed",
                      Quiet(f), Alone(f)
               PROVE  Chunks(k, f) = {}
    BY DEF Forgotten
  <2>1. Sound(Idle, f)
    BY DEF AloneInv, Business
  <2> QED BY <2>1, Settled, KnowledgeAssumption
<1> QED BY <1>1, AloneAlways, PTL

=============================================================================
