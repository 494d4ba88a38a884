---------------------------- MODULE StorageProofs ----------------------------
(***************************************************************************)
(* Proofs about Documents and BackupService, for any documents, requests,  *)
(* windows and retention rules, and for every way a call may fail.         *)
(***************************************************************************)
EXTENDS Documents, BackupService, TLAPS

-----------------------------------------------------------------------------
(* Documents.                                                              *)

\* The calls a request awaits with a document in hand.
Calls == {"put", "write", "copy", "get", "mark", "window", "fetch", "restore",
          "rewrite", "discard", "purge", "delete", "archive"}
Labels == Calls \cup {"idle", "sweep", "done", "failed"}
Operations == {"upload", "addVersion", "softDelete", "recover", "purgeExpired", "applyDueRetention"}

\* What the proof needs of the types; keys, bytes and backups play no part in it.
TypeInv ==
    /\ history \in [Docs -> Seq(Int)]
    /\ deletedAt \in [Docs -> Int]
    /\ marks \in [Docs -> SUBSET Int]
    /\ pc \in [Requests -> Labels]
    /\ op \in [Requests -> Operations \cup {None}]
    /\ doc \in [Requests -> Docs \cup {None}]
    /\ seen \in [Requests -> Int]
    /\ DOMAIN queue = Requests
    /\ \A r \in Requests : \A e \in queue[r] : e[1] \in Docs /\ e[2] \in Int
    /\ clock \in Nat

\* A trash mark is one of the marks the document ever had, and none is of the future.
MarksInv ==
    /\ \A d \in Docs : deletedAt[d] # NotDeleted => deletedAt[d] \in marks[d]
    /\ \A d \in Docs : \A m \in marks[d] : m <= clock

\* The window of mark m of document d is over.
Lapsed(d, m) == m \in marks[d] /\ clock > m + Window

\* A request that has a document in hand holds what it needs to know of its mark.
HandInv(r) ==
    /\ pc[r] \in Calls => doc[r] \in Docs
    /\ pc[r] = "window" => seen[r] \in marks[doc[r]]
    /\ pc[r] \in {"purge", "delete"} => Lapsed(doc[r], seen[r])
    /\ op[r] = "purgeExpired" => \A e \in queue[r] : Lapsed(e[1], e[2])

Inv == TypeInv /\ MarksInv /\ \A r \in Requests : HandInv(r)

\* The rows, the marks and what the requests have read of them stay.
Quiet == UNCHANGED <<deletedAt, marks, op, doc, seen, queue, clock>>

\* Going on with the same document keeps the invariant, but into a purge.
LEMMA QuietStep ==
    ASSUME Inv, NEW r \in Requests, NEW label \in Labels, Quiet, Goto(r, label),
           history' \in [Docs -> Seq(Int)],
           label \in Calls => doc[r] \in Docs,
           label = "window" => seen[r] \in marks[doc[r]],
           label \in {"purge", "delete"} => Lapsed(doc[r], seen[r])
    PROVE  Inv'
<1>1. TypeInv'
  BY DEF Inv, TypeInv, Quiet, Goto
<1>2. MarksInv'
  BY DEF Inv, MarksInv, Quiet
<1>3. ASSUME NEW q \in Requests PROVE HandInv(q)'
  <2>1. HandInv(q)
    BY DEF Inv
  <2>2. CASE q = r
    <3>1. pc'[q] = label
      BY <2>2 DEF Goto, Inv, TypeInv
    <3> QED  BY <2>1, <2>2, <3>1 DEF HandInv, Quiet, Lapsed, Calls
  <2>3. CASE q # r
    <3>1. pc'[q] = pc[q]
      BY <2>3 DEF Goto, Inv, TypeInv
    <3> QED  BY <2>1, <3>1 DEF HandInv, Quiet, Lapsed
  <2> QED  BY <2>2, <2>3
<1> QED  BY <1>1, <1>2, <1>3 DEF Inv

\* So does a step within one call.
LEMMA StandStill ==
    ASSUME Inv, Quiet, UNCHANGED pc, history' \in [Docs -> Seq(Int)]
    PROVE  Inv'
<1>1. TypeInv' /\ MarksInv'
  BY DEF Inv, TypeInv, MarksInv, Quiet
<1>2. ASSUME NEW q \in Requests PROVE HandInv(q)'
  BY DEF Inv, HandInv, Quiet, Lapsed
<1> QED  BY <1>1, <1>2 DEF Inv

\* A request that comes in reads the row as it is.
LEMMA BeginStep ==
    ASSUME Inv, NEW r \in Requests, NEW d \in Docs, NEW o \in Operations, Begin(r, o, d),
           o # "purgeExpired", NEW s \in Int, seen' = [seen EXCEPT ![r] = s],
           NEW label \in Labels, Goto(r, label), label \notin {"purge", "delete"},
           label = "window" => s \in marks[d]
    PROVE  Inv'
<1>1. /\ UNCHANGED <<history, deletedAt, marks, queue, clock>>
      /\ op' = [op EXCEPT ![r] = o] /\ doc' = [doc EXCEPT ![r] = d]
  BY DEF Begin, rows
<1>2. TypeInv'
  BY <1>1 DEF Inv, TypeInv, Goto
<1>3. MarksInv'
  BY <1>1 DEF Inv, MarksInv
<1>4. ASSUME NEW q \in Requests PROVE HandInv(q)'
  <2>1. HandInv(q)
    BY DEF Inv
  <2>2. CASE q = r
    <3>1. pc'[q] = label /\ doc'[q] = d /\ seen'[q] = s /\ op'[q] = o
      BY <1>1, <2>2 DEF Goto, Inv, TypeInv
    <3> QED  BY <1>1, <3>1 DEF HandInv
  <2>3. CASE q # r
    <3>1. pc'[q] = pc[q] /\ doc'[q] = doc[q] /\ seen'[q] = seen[q] /\ op'[q] = op[q]
      BY <1>1, <2>3 DEF Goto, Inv, TypeInv
    <3> QED  BY <1>1, <2>1, <3>1 DEF HandInv, Lapsed
  <2> QED  BY <2>2, <2>3
<1> QED  BY <1>2, <1>3, <1>4 DEF Inv

LEMMA Begins ==
    ASSUME Inv, NEW r \in Requests, NEW d \in Docs,
           BeginUpload(r, d) \/ BeginAddVersion(r, d) \/ BeginSoftDelete(r, d) \/ BeginRecover(r, d)
    PROVE  Inv'
<1>1. CASE BeginUpload(r, d)
  <2>1. Begin(r, "upload", d) /\ seen' = [seen EXCEPT ![r] = 0] /\ Goto(r, "put")
    BY <1>1 DEF BeginUpload
  <2>2. PICK s \in Int : s = 0
    OBVIOUS
  <2>3. seen' = [seen EXCEPT ![r] = s]
    BY <2>1, <2>2
  <2> QED  BY <2>1, <2>3, BeginStep DEF Labels, Calls, Operations
<1>2. CASE BeginAddVersion(r, d)
  <2>1. Len(history[d]) \in Int
    BY DEF Inv, TypeInv
  <2> QED  BY <1>2, <2>1, BeginStep DEF BeginAddVersion, Labels, Calls, Operations
<1>3. CASE BeginSoftDelete(r, d)
  <2>1. seen[r] \in Int /\ seen' = [seen EXCEPT ![r] = seen[r]]
    BY <1>3 DEF BeginSoftDelete, Inv, TypeInv
  <2>2. Begin(r, "softDelete", d) /\ Goto(r, "copy")
    BY <1>3 DEF BeginSoftDelete
  <2> QED  BY <2>1, <2>2, BeginStep DEF Labels, Calls, Operations
<1>4. CASE BeginRecover(r, d)
  <2>1. deletedAt[d] \in Int /\ deletedAt[d] \in marks[d]
    BY <1>4 DEF BeginRecover, Inv, TypeInv, MarksInv
  <2>2. /\ Begin(r, "recover", d) /\ Goto(r, "window")
        /\ seen' = [seen EXCEPT ![r] = deletedAt[d]]
    BY <1>4 DEF BeginRecover
  <2> QED  BY <2>1, <2>2, BeginStep DEF Labels, Calls, Operations
<1> QED  BY <1>1, <1>2, <1>3, <1>4

\* The trash mark of a document is set or cleared; the marks it had are kept.
LEMMA MarkStep ==
    ASSUME Inv, NEW r \in Requests, NEW d \in Docs, NEW m \in Int,
           deletedAt' = [deletedAt EXCEPT ![d] = m],
           m = NotDeleted \/ m = clock,
           marks' = IF m = NotDeleted THEN marks ELSE [marks EXCEPT ![d] = @ \cup {m}],
           UNCHANGED <<op, doc, seen, queue, clock>>, history' \in [Docs -> Seq(Int)],
           NEW label \in Labels, label \notin {"window", "purge", "delete"}, Goto(r, label), doc[r] \in Docs
    PROVE  Inv'
<1>1. /\ marks' \in [Docs -> SUBSET Int]
      /\ \A e \in Docs : marks[e] \subseteq marks'[e] /\ marks'[e] \subseteq marks[e] \cup {clock}
      /\ m # NotDeleted => m \in marks'[d]
  BY DEF Inv, TypeInv
<1>2. TypeInv'
  BY <1>1 DEF Inv, TypeInv, Goto
<1>3. MarksInv'
  <2>1. ASSUME NEW e \in Docs, deletedAt'[e] # NotDeleted PROVE deletedAt'[e] \in marks'[e]
    BY <1>1, <2>1 DEF Inv, TypeInv, MarksInv
  <2>2. ASSUME NEW e \in Docs, NEW n \in marks'[e] PROVE n <= clock'
    BY <1>1 DEF Inv, TypeInv, MarksInv
  <2> QED  BY <2>1, <2>2 DEF MarksInv
<1>4. ASSUME NEW q \in Requests PROVE HandInv(q)'
  <2>1. HandInv(q) /\ \A e \in queue[q] : e[1] \in Docs
    BY DEF Inv, TypeInv
  <2>2. pc'[q] = (IF q = r THEN label ELSE pc[q])
    BY DEF Goto, Inv, TypeInv
  <2>3. CASE q = r
    BY <1>1, <2>1, <2>2, <2>3 DEF HandInv, Lapsed
  <2>4. CASE q # r
    BY <1>1, <2>1, <2>2, <2>4 DEF HandInv, Lapsed
  <2> QED  BY <2>3, <2>4
<1> QED  BY <1>2, <1>3, <1>4 DEF Inv

-----------------------------------------------------------------------------
\* The calls with a document in hand, none of which sets its mark.
LEMMA Awaits ==
    ASSUME Inv, NEW r \in Requests,
           \/ Put(r) \/ Write(r) \/ Copy(r) \/ Get(r) \/ Capture(r) \/ CheckWindow(r) \/ Fetch(r)
           \/ Restore(r) \/ Rewrite(r) \/ Discard(r) \/ Purge(r) \/ Delete(r) \/ SweepEnds(r) \/ MarkArchived(r) \/ Fail(r)
    PROVE  Inv'
<1> USE DEF rows, locals
<1>0. /\ HandInv(r) /\ history \in [Docs -> Seq(Int)] /\ seen[r] \in Int /\ pc[r] \in Labels
      /\ pc \in [Requests -> Labels]
  BY DEF Inv, TypeInv
<1>1. CASE Put(r)
  <2>1. Quiet /\ Goto(r, "write") /\ doc[r] \in Docs /\ history' = history
    BY <1>0, <1>1 DEF Put, Quiet, ghosts, HandInv, Calls
  <2> QED  BY <1>0, <2>1, QuietStep DEF Labels, Calls
<1>2. CASE Write(r)
  <2>1. Quiet /\ doc[r] \in Docs
    BY <1>0, <1>2 DEF Write, Quiet, HandInv, Calls
  <2>2. history' \in [Docs -> Seq(Int)]
    <3>1. seen[r] + 1 \in Int /\ history[doc[r]] \in Seq(Int)
      BY <1>0, <2>1
    <3>2. Append(history[doc[r]], seen[r] + 1) \in Seq(Int)
      BY <3>1
    <3>3. \/ history' = history
          \/ history' = [history EXCEPT ![doc[r]] = Append(history[doc[r]], seen[r] + 1)]
      BY <1>2 DEF Write
    <3> QED  BY <1>0, <3>2, <3>3
  <2>3. Goto(r, "done") \/ Goto(r, "failed")
    BY <1>2 DEF Write
  <2> QED  BY <2>1, <2>2, <2>3, QuietStep DEF Labels, Calls
<1>3. CASE Copy(r)
  <2>1. Quiet /\ Goto(r, "get") /\ doc[r] \in Docs /\ history' = history
    BY <1>0, <1>3 DEF Copy, Quiet, ghosts, HandInv, Calls
  <2> QED  BY <1>0, <2>1, QuietStep DEF Labels, Calls
<1>4. CASE Get(r)
  <2>1. Quiet /\ history' = history /\ (Goto(r, "failed") \/ UNCHANGED pc)
    BY <1>4 DEF Get, Quiet, ghosts
  <2> QED  BY <1>0, <2>1, QuietStep, StandStill DEF Labels, Calls
<1>5. CASE Capture(r)
  <2>1. Quiet /\ Goto(r, "mark") /\ doc[r] \in Docs /\ history' = history
    BY <1>0, <1>5 DEF Capture, Quiet, ghosts, HandInv, Calls
  <2> QED  BY <1>0, <2>1, QuietStep DEF Labels, Calls
<1>6. CASE CheckWindow(r)
  <2>1. /\ Quiet /\ doc[r] \in Docs /\ history' = history /\ seen[r] \in marks[doc[r]]
        /\ Goto(r, IF WithinWindow(seen[r], clock) THEN "fetch" ELSE "purge")
    BY <1>0, <1>6 DEF CheckWindow, Quiet, ghosts, HandInv, Calls
  <2>2. seen[r] <= clock /\ clock \in Int
    BY <2>1 DEF Inv, MarksInv, TypeInv
  <2>3. CASE WithinWindow(seen[r], clock)
    BY <1>0, <2>1, <2>3, QuietStep DEF Labels, Calls
  <2>4. CASE ~ WithinWindow(seen[r], clock)
    <3>1. Lapsed(doc[r], seen[r])
      BY <1>0, <2>1, <2>2, <2>4, DocumentsAssumption DEF WithinWindow, Lapsed
    <3> QED  BY <1>0, <2>1, <2>4, <3>1, QuietStep DEF Labels, Calls
  <2> QED  BY <2>3, <2>4
<1>7. CASE Fetch(r)
  <2>1. Quiet /\ Goto(r, "restore") /\ doc[r] \in Docs /\ history' = history
    BY <1>0, <1>7 DEF Fetch, Quiet, ghosts, HandInv, Calls
  <2> QED  BY <1>0, <2>1, QuietStep DEF Labels, Calls
<1>8. CASE Restore(r) \/ Delete(r) \/ Rewrite(r)
  <2>1. Quiet /\ history' = history /\ (UNCHANGED pc \/ (pc[r] \in Calls /\ (Goto(r, "rewrite") \/ Goto(r, "restore"))))
    BY <1>8 DEF Restore, Rewrite, Delete, Quiet, ghosts, Calls
  <2>2. CASE UNCHANGED pc
    BY <1>0, <2>1, <2>2, StandStill
  <2>3. CASE pc[r] \in Calls /\ (Goto(r, "rewrite") \/ Goto(r, "restore"))
    BY <1>0, <2>1, <2>3, QuietStep DEF Labels, Calls, HandInv
  <2> QED  BY <2>1, <2>2, <2>3
<1>9. CASE Discard(r)
  <2>1. Quiet /\ Goto(r, Finished(r)) /\ history' = history
    BY <1>9 DEF Discard, Quiet, ghosts
  <2>2. Finished(r) \in {"sweep", "done"}
    BY DEF Finished
  <2> QED  BY <1>0, <2>1, <2>2, QuietStep DEF Labels, Calls
<1>10. CASE Purge(r)
  <2>1. /\ Quiet /\ Goto(r, "delete") /\ doc[r] \in Docs /\ history' = history
        /\ Lapsed(doc[r], seen[r])
    BY <1>0, <1>10 DEF Purge, Quiet, ghosts, HandInv, Calls
  <2> QED  BY <1>0, <2>1, QuietStep DEF Labels, Calls
<1>11. CASE SweepEnds(r)
  <2>1. Quiet /\ Goto(r, "done") /\ history' = history
    BY <1>11 DEF SweepEnds, Quiet, ghosts
  <2> QED  BY <1>0, <2>1, QuietStep DEF Labels, Calls
<1>12. CASE MarkArchived(r)
  <2>1. Quiet /\ Goto(r, "sweep") /\ history' = history
    BY <1>12 DEF MarkArchived, Quiet, ghosts
  <2> QED  BY <1>0, <2>1, QuietStep DEF Labels, Calls
<1>13. CASE Fail(r)
  <2>1. Quiet /\ Goto(r, "failed") /\ history' = history
    BY <1>13 DEF Fail, Quiet, ghosts
  <2> QED  BY <1>0, <2>1, QuietStep DEF Labels, Calls
<1> QED  BY <1>1, <1>2, <1>3, <1>4, <1>5, <1>6, <1>7, <1>8, <1>9, <1>10, <1>11, <1>12, <1>13

\* Marking, recovering and removing the document in hand.
LEMMA Marks ==
    ASSUME Inv, NEW r \in Requests, MarkDeleted(r) \/ ClearDeleted(r) \/ Remove(r)
    PROVE  Inv'
<1> USE DEF rows, locals
<1>0. /\ HandInv(r) /\ history \in [Docs -> Seq(Int)] /\ clock \in Int /\ NotDeleted \in Int /\ clock # NotDeleted
      /\ pc \in [Requests -> Labels] /\ deletedAt \in [Docs -> Int]
  BY DEF Inv, TypeInv, NotDeleted
<1>1. ASSUME MarkDeleted(r), Exists(doc[r]) PROVE Inv'
  <2>1. /\ UNCHANGED <<op, doc, seen, queue, clock, history>> /\ doc[r] \in Docs
        /\ deletedAt' = [deletedAt EXCEPT ![doc[r]] = clock]
        /\ marks' = [marks EXCEPT ![doc[r]] = @ \cup {clock}]
        /\ Goto(r, Finished(r))
    BY <1>0, <1>1 DEF MarkDeleted, HandInv, Calls
  <2>2. Finished(r) \in {"sweep", "done"}
    BY DEF Finished
  <2> QED  BY <1>0, <1>1, <2>1, <2>2, MarkStep DEF Labels, Calls
<1>2. ASSUME MarkDeleted(r), ~ Exists(doc[r]) PROVE Inv'
  <2>1. Quiet /\ history' = history /\ (Goto(r, "sweep") \/ Goto(r, "failed"))
    BY <1>2 DEF MarkDeleted, Quiet
  <2> QED  BY <1>0, <2>1, QuietStep DEF Labels, Calls
<1>3. CASE ClearDeleted(r)
  <2>1. /\ UNCHANGED <<op, doc, seen, queue, clock, history, marks>> /\ doc[r] \in Docs
        /\ deletedAt' = [deletedAt EXCEPT ![doc[r]] = NotDeleted]
        /\ Goto(r, "discard") \/ Goto(r, "failed")
    BY <1>0, <1>3 DEF ClearDeleted, HandInv, Calls, ghosts
  <2> QED  BY <1>0, <2>1, MarkStep DEF Labels, Calls
<1>4. CASE Remove(r)
  <2>1. /\ UNCHANGED <<op, doc, seen, queue, clock, marks>> /\ doc[r] \in Docs
        /\ deletedAt' = [deletedAt EXCEPT ![doc[r]] = NotDeleted]
        /\ history' = [history EXCEPT ![doc[r]] = <<>>]
        /\ Goto(r, "discard")
    BY <1>0, <1>4 DEF Remove, HandInv, Calls, ghosts
  <2>2. history' \in [Docs -> Seq(Int)]
    BY <1>0, <2>1
  <2> QED  BY <1>0, <2>1, <2>2, MarkStep DEF Labels, Calls
<1> QED  BY <1>1, <1>2, <1>3, <1>4

-----------------------------------------------------------------------------
\* A sweep lists the rows in the trash, or others, as they are.
LEMMA SweepBegins ==
    ASSUME Inv, NEW r \in Requests, BeginPurgeExpired(r) \/ BeginRetention(r)
    PROVE  Inv'
<1> USE DEF rows
<1>0. /\ UNCHANGED <<history, deletedAt, marks, doc, seen, clock>>
      /\ Goto(r, "sweep")
      /\ \E o \in {"purgeExpired", "applyDueRetention"} : op' = [op EXCEPT ![r] = o]
      /\ \E s : queue' = [queue EXCEPT ![r] = s]
  BY DEF BeginPurgeExpired, BeginRetention
<1>1. \A e \in queue'[r] : /\ e[1] \in Docs /\ e[2] \in Int
                           /\ op'[r] = "purgeExpired" => Lapsed(e[1], e[2])
  <2>1. CASE BeginPurgeExpired(r)
    <3> DEFINE expired == {d \in Docs : /\ Exists(d) /\ deletedAt[d] # NotDeleted
                                        /\ ~ WithinWindow(deletedAt[d], clock)}
    <3>1. queue'[r] = {<<d, deletedAt[d], HeadOf(d)>> : d \in expired}
      BY <2>1 DEF BeginPurgeExpired, Inv, TypeInv
    <3>2. ASSUME NEW d \in expired PROVE deletedAt[d] \in Int /\ Lapsed(d, deletedAt[d])
      <4>1. deletedAt[d] \in marks[d] /\ deletedAt[d] <= clock /\ deletedAt[d] \in Int /\ clock \in Int
        BY DEF Inv, MarksInv, TypeInv
      <4>2. ~ WithinWindow(deletedAt[d], clock)
        OBVIOUS
      <4> QED  BY <4>1, <4>2, DocumentsAssumption DEF WithinWindow, Lapsed
    <3>3. expired \subseteq Docs
      OBVIOUS
    <3> HIDE DEF expired
    <3> QED  BY <3>1, <3>2, <3>3
  <2>2. CASE BeginRetention(r)
    <3> DEFINE due == {d \in Docs : /\ Exists(d) /\ deletedAt[d] = NotDeleted /\ ~ archived[d]
                                    /\ RetentionOf[d].until <= clock}
    <3>1. queue'[r] = {<<d, NotDeleted, HeadOf(d)>> : d \in due} /\ op'[r] = "applyDueRetention"
      BY <2>2 DEF BeginRetention, Inv, TypeInv
    <3>2. due \subseteq Docs /\ NotDeleted \in Int
      BY DEF NotDeleted
    <3> HIDE DEF due
    <3> QED  BY <3>1, <3>2
  <2> QED  BY <2>1, <2>2
<1>2. TypeInv'
  <2>1. DOMAIN queue' = Requests /\ \A q \in Requests \ {r} : queue'[q] = queue[q]
    BY <1>0 DEF Inv, TypeInv
  <2>2. \A q \in Requests : \A e \in queue'[q] : e[1] \in Docs /\ e[2] \in Int
    BY <1>1, <2>1 DEF Inv, TypeInv
  <2>3. op' \in [Requests -> Operations \cup {None}] /\ pc' \in [Requests -> Labels]
    BY <1>0 DEF Inv, TypeInv, Goto, Operations, Labels
  <2> QED  BY <1>0, <2>1, <2>2, <2>3 DEF Inv, TypeInv
<1>3. MarksInv'
  BY <1>0 DEF Inv, MarksInv
<1>4. ASSUME NEW q \in Requests PROVE HandInv(q)'
  <2>1. CASE q = r
    <3>1. pc'[q] = "sweep"
      BY <1>0, <2>1 DEF Goto, Inv, TypeInv
    <3> QED  BY <1>0, <1>1, <2>1, <3>1 DEF HandInv, Lapsed, Calls
  <2>2. CASE q # r
    <3>1. pc'[q] = pc[q] /\ op'[q] = op[q] /\ queue'[q] = queue[q]
      BY <1>0, <2>2 DEF Goto, Inv, TypeInv
    <3> QED  BY <1>0, <3>1 DEF Inv, HandInv, Lapsed
  <2> QED  BY <2>1, <2>2
<1> QED  BY <1>2, <1>3, <1>4 DEF Inv

\* The next document of a sweep comes with the mark it was listed with.
LEMMA Visits ==
    ASSUME Inv, NEW r \in Requests, Visit(r)
    PROVE  Inv'
<1> USE DEF rows, ghosts
<1>1. PICK e \in queue[r] :
         /\ doc' = [doc EXCEPT ![r] = e[1]] /\ seen' = [seen EXCEPT ![r] = e[2]]
         /\ queue' = [queue EXCEPT ![r] = @ \ {e}]
         /\ Goto(r, IF op[r] = "purgeExpired" THEN "purge"
                    ELSE IF RetentionOf[e[1]].action = "archive" THEN "archive" ELSE "copy")
  BY DEF Visit
<1>2. UNCHANGED <<history, deletedAt, marks, op, clock>>
  BY DEF Visit
<1>3. e[1] \in Docs /\ e[2] \in Int /\ (op[r] = "purgeExpired" => Lapsed(e[1], e[2]))
  BY <1>1 DEF Inv, TypeInv, HandInv
<1>4. PICK label \in {"purge", "archive", "copy"} :
         Goto(r, label) /\ (label = "purge" <=> op[r] = "purgeExpired")
  BY <1>1
<1>5. DOMAIN queue' = Requests /\ \A q \in Requests : queue'[q] \subseteq queue[q]
  BY <1>1 DEF Inv, TypeInv
<1>6. TypeInv'
  BY <1>1, <1>2, <1>3, <1>4, <1>5 DEF Inv, TypeInv, Goto, Labels, Calls
<1>7. MarksInv'
  BY <1>2 DEF Inv, MarksInv
<1>8. ASSUME NEW q \in Requests PROVE HandInv(q)'
  <2>1. HandInv(q)
    BY DEF Inv
  <2>2. CASE q = r
    <3>1. pc'[q] = label /\ doc'[q] = e[1] /\ seen'[q] = e[2]
      BY <1>1, <1>4, <2>2 DEF Goto, Inv, TypeInv
    <3> QED  BY <1>2, <1>3, <1>4, <1>5, <2>1, <2>2, <3>1 DEF HandInv, Lapsed
  <2>3. CASE q # r
    <3>1. pc'[q] = pc[q] /\ doc'[q] = doc[q] /\ seen'[q] = seen[q] /\ queue'[q] = queue[q]
      BY <1>1, <1>4, <2>3 DEF Goto, Inv, TypeInv
    <3> QED  BY <1>2, <2>1, <3>1 DEF HandInv, Lapsed
  <2> QED  BY <2>2, <2>3
<1> QED  BY <1>6, <1>7, <1>8 DEF Inv

LEMMA Ticks ==
    ASSUME Inv, Tick
    PROVE  Inv'
<1> USE DEF rows, locals, ghosts
<1>1. /\ UNCHANGED <<history, deletedAt, marks, pc, op, doc, seen, queue>>
      /\ clock \in Nat /\ clock' = clock + 1
  BY DEF Tick, Inv, TypeInv
<1>2. TypeInv'
  BY <1>1 DEF Inv, TypeInv
<1>3. MarksInv'
  BY <1>1 DEF Inv, MarksInv, TypeInv
<1>4. ASSUME NEW d \in Docs, NEW m \in Int, Lapsed(d, m) PROVE Lapsed(d, m)'
  BY <1>1, <1>4, DocumentsAssumption DEF Lapsed
<1>5. ASSUME NEW q \in Requests PROVE HandInv(q)'
  <2>1. HandInv(q) /\ seen[q] \in Int /\ \A e \in queue[q] : e[1] \in Docs /\ e[2] \in Int
    BY DEF Inv, TypeInv
  <2>2. pc[q] \in {"purge", "delete"} => Lapsed(doc[q], seen[q])'
    BY <1>1, <1>4, <2>1 DEF HandInv, Calls
  <2>3. op[q] = "purgeExpired" => \A e \in queue[q] : Lapsed(e[1], e[2])'
    BY <1>1, <1>4, <2>1 DEF HandInv
  <2> QED  BY <1>1, <2>1, <2>2, <2>3 DEF HandInv
<1> QED  BY <1>2, <1>3, <1>5 DEF Inv

-----------------------------------------------------------------------------
LEMMA Initially == Init => Inv
<1> SUFFICES ASSUME Init PROVE Inv
  OBVIOUS
<1>1. TypeInv
  BY DocumentsAssumption DEF Init, TypeInv, NotDeleted, Labels, Operations
<1>2. MarksInv /\ \A r \in Requests : HandInv(r)
  BY DEF Init, MarksInv, HandInv, Calls
<1> QED  BY <1>1, <1>2 DEF Inv

LEMMA Preserved == Inv /\ [Next]_vars => Inv'
<1> SUFFICES ASSUME Inv, [Next]_vars PROVE Inv'
  OBVIOUS
<1>1. CASE Tick
  BY <1>1, Ticks
<1>2. ASSUME NEW r \in Requests, Step(r) PROVE Inv'
  BY <1>2, Begins, Awaits, Marks, SweepBegins, Visits DEF Step
<1>3. CASE UNCHANGED vars
  BY <1>3, StandStill DEF vars, rows, locals, ghosts, Quiet, Inv, TypeInv
<1> QED  BY <1>1, <1>2, <1>3 DEF Next

\* The version rows of a document go in one call only, with its mark lapsed.
LEMMA RowsGo ==
    ASSUME Inv, [Next]_vars, NEW d \in Docs, history[d] # <<>>, history'[d] = <<>>
    PROVE  \E m \in marks[d] : clock > m + Window
<1> USE DEF rows, ghosts
<1>0. history \in [Docs -> Seq(Int)] /\ seen \in [Requests -> Int]
  BY DEF Inv, TypeInv
<1>1. history' # history
  OBVIOUS
<1>2. PICK r \in Requests : Step(r)
  BY <1>1 DEF Next, Tick, vars
<1>3. Write(r) \/ Remove(r)
  BY <1>1, <1>2 DEF Step, Begin, BeginUpload, BeginAddVersion, BeginSoftDelete, BeginRecover, Put, Copy,
     Get, Capture, MarkDeleted, CheckWindow, Fetch, Restore, Rewrite, ClearDeleted, Discard, Purge, Delete,
     BeginPurgeExpired, BeginRetention, Visit, SweepEnds, MarkArchived, Fail
<1>4. ~ Write(r)
  <2> SUFFICES ASSUME Write(r) PROVE FALSE
    OBVIOUS
  <2>1. history' = [history EXCEPT ![doc[r]] = Append(history[doc[r]], seen[r] + 1)]
    BY <1>1 DEF Write
  <2>2. doc[r] = d
    BY <1>0, <2>1
  <2>3. Append(history[d], seen[r] + 1) # <<>>
    BY <1>0
  <2> QED  BY <1>0, <2>1, <2>2, <2>3
<1>5. history' = [history EXCEPT ![doc[r]] = <<>>] /\ pc[r] = "delete"
  BY <1>3, <1>4 DEF Remove
<1>6. doc[r] = d
  BY <1>0, <1>5
<1>7. Lapsed(doc[r], seen[r])
  BY <1>5 DEF Inv, HandInv
<1> QED  BY <1>6, <1>7 DEF Lapsed

\* No document is removed for good before the recovery window of one of its
\* deletions is over, whatever requests race with the purge and whatever fails.
THEOREM PurgeWaitsForTheWindow == Spec => PurgedOnlyAfterWindow
<1>1. Inv /\ [Next]_vars =>
        [\A d \in Docs : history[d] # <<>> /\ history'[d] = <<>> =>
            \E m \in marks[d] : clock > m + Window]_vars
  BY RowsGo
<1> QED  BY <1>1, Initially, Preserved, PTL DEF Spec, PurgedOnlyAfterWindow

-----------------------------------------------------------------------------
\* The copies of a document's bytes, in the object store, in the backups and in hand.
Copies == [Keys -> Requests \cup {Original, None}]

CopiesTypeInv ==
    /\ bytes \in [Docs -> Copies] /\ backup \in [Docs -> Copies \cup {None}]
    /\ got \in [Requests -> Copies] /\ DOMAIN todo = Requests /\ DOMAIN head = Requests
    /\ written \in [Docs -> Seq(Requests \cup {Original})] /\ contended \subseteq Docs

Versions(d) == 1..Len(history[d])
\* Every version is there as it was uploaded: in the object store, in the backup.
Whole(d) == \A i \in Versions(d) : bytes[d][i] = written[d][i]
Backed(d) == backup[d] \in Copies /\ \A i \in Versions(d) : backup[d][i] = written[d][i]
Trashed(d) == deletedAt[d] # NotDeleted
Recoverable(d) == WithinWindow(deletedAt[d], clock)

\* What holds of a document nobody worked on concurrently, at whatever call the last
\* request broke off.
SoundInv(d) ==
    /\ Exists(d) => /\ Len(written[d]) = Len(history[d]) /\ Len(history[d]) <= MaxVersions
                    /\ \A i \in Versions(d) : history[d][i] = i
    /\ Exists(d) /\ ~ Trashed(d) => Whole(d)
    /\ Trashed(d) => /\ Exists(d) /\ \A i \in Versions(d) : bytes[d][i] \in {written[d][i], None}
                     /\ Recoverable(d) => Backed(d)

\* How far the request that has such a document in hand has come with it.
CallInv(r, d) ==
    /\ pc[r] \in {"put", "write"} => /\ ~ Trashed(d) /\ (op[r] = "upload" <=> ~ Exists(d))
                                     /\ seen[r] = Len(history[d]) /\ seen[r] + 1 \in Keys
    /\ pc[r] = "write" => bytes[d][seen[r] + 1] = r
    /\ pc[r] \in {"copy", "get", "mark"} => ~ Trashed(d) /\ Exists(d)
    /\ pc[r] = "copy" => head[r] \in Versions(d)
    /\ pc[r] = "get" => \A i \in Versions(d) : i \in todo[r] \/ got[r][i] = written[d][i]
    /\ pc[r] \in {"mark", "fetch", "restore", "rewrite"} => Backed(d)
    /\ pc[r] \in {"window", "fetch", "restore", "rewrite", "purge", "delete"} => Trashed(d)
    /\ pc[r] = "window" => seen[r] = deletedAt[d]
    /\ pc[r] \in {"restore", "rewrite"} =>
           \A i \in Versions(d) : \/ bytes[d][i] = written[d][i]
                                  \/ i \in todo[r] /\ got[r][i] = written[d][i]
    /\ pc[r] = "rewrite" => bytes[d][head[r]] = None
    /\ pc[r] \in {"purge", "delete"} => ~ Recoverable(d)
    /\ pc[r] = "discard" => ~ Trashed(d)

\* The documents a sweep has listed and not visited are as it found them.
ListedInv(r) ==
    /\ pc[r] = "idle" => doc[r] = None /\ queue[r] = {}
    /\ \A e, f \in queue[r] : e[1] = f[1] => e = f
    /\ \A e \in queue[r] : e[1] # doc[r]
    /\ Active(r) => \A e \in queue[r] :
           e[1] \notin contended =>
               /\ Exists(e[1]) /\ e[3] \in Versions(e[1])
               /\ op[r] = "purgeExpired" => Trashed(e[1]) /\ ~ Recoverable(e[1])
               /\ op[r] # "purgeExpired" => ~ Trashed(e[1])

AloneInv == \A d \in Docs \ contended : \A r, q \in Requests : WorksOn(r, d) /\ WorksOn(q, d) => r = q

CopiesInv ==
    /\ CopiesTypeInv /\ AloneInv
    /\ \A d \in Docs \ contended : SoundInv(d)
    /\ \A r \in Requests : ListedInv(r)
    /\ \A r \in Requests : pc[r] \in Calls /\ doc[r] \notin contended => CallInv(r, doc[r])

\* The stores keep all they have of a document; a request stays where it is.
SameDoc(d) == /\ history'[d] = history[d] /\ deletedAt'[d] = deletedAt[d] /\ bytes'[d] = bytes[d]
              /\ backup'[d] = backup[d] /\ written'[d] = written[d]
SameRequest(r) == /\ pc'[r] = pc[r] /\ op'[r] = op[r] /\ seen'[r] = seen[r] /\ head'[r] = head[r]
                  /\ todo'[r] = todo[r] /\ got'[r] = got[r]

LEMMA SoundSame ==
    ASSUME NEW d \in Docs, SameDoc(d), clock' = clock, SoundInv(d)
    PROVE  SoundInv(d)'
BY DEF SameDoc, SoundInv, Exists, Versions, Whole, Backed, Trashed, Recoverable, WithinWindow

LEMMA CallSame ==
    ASSUME NEW r \in Requests, NEW d \in Docs, SameDoc(d), SameRequest(r), clock' = clock, CallInv(r, d)
    PROVE  CallInv(r, d)'
BY DEF SameDoc, SameRequest, CallInv, Exists, Versions, Backed, Trashed, Recoverable, WithinWindow

\* A request that goes on with the document in hand disturbs no other one.
LEMMA HandStep ==
    ASSUME Inv, CopiesInv, NEW r \in Requests, pc[r] \in Calls, NEW d \in Docs, d = doc[r],
           NEW label \in Labels, label # "idle", pc' = [pc EXCEPT ![r] = label],
           UNCHANGED <<op, doc, seen, queue, clock, contended>>,
           \A q \in Requests \ {r} : todo'[q] = todo[q] /\ got'[q] = got[q] /\ head'[q] = head[q],
           \A e \in Docs \ {d} : SameDoc(e),
           CopiesTypeInv',
           d \notin contended => SoundInv(d)',
           d \notin contended /\ label \in Calls => CallInv(r, d)'
    PROVE  CopiesInv'
<1>0. /\ pc \in [Requests -> Labels] /\ \A q \in Requests : pc[q] \in Calls => doc[q] \in Docs
      /\ \A q \in Requests : \A e \in queue[q] : e[1] \in Docs
      /\ AloneInv
  BY DEF Inv, TypeInv, HandInv, CopiesInv
<1>1. pc'[r] = label /\ \A q \in Requests \ {r} : pc'[q] = pc[q]
  BY <1>0
<1>2. ASSUME NEW q \in Requests, NEW e, WorksOn(q, e)' PROVE WorksOn(q, e)
  BY <1>1, <1>2 DEF WorksOn, Active, Calls
<1>3. WorksOn(r, d)
  BY DEF WorksOn, Active, Calls
<1>4. AloneInv'
  <2> SUFFICES ASSUME NEW e \in Docs \ contended, NEW p \in Requests, NEW q \in Requests,
                      WorksOn(p, e)', WorksOn(q, e)'
               PROVE  p = q
    BY DEF AloneInv
  <2> QED  BY <1>0, <1>2 DEF AloneInv
<1>5. ASSUME NEW e \in Docs \ contended PROVE SoundInv(e)'
  BY <1>5, SoundSame DEF CopiesInv
<1>6. ASSUME NEW q \in Requests PROVE ListedInv(q)'
  <2>1. ListedInv(q)
    BY DEF CopiesInv
  <2>2. pc'[q] = "idle" => pc[q] = "idle"
    BY <1>1
  <2>3. ASSUME Active(q)', NEW e \in queue[q], e[1] \notin contended
        PROVE  /\ Exists(e[1])' /\ e[3] \in Versions(e[1])'
               /\ op[q] = "purgeExpired" => Trashed(e[1])' /\ ~ Recoverable(e[1])'
               /\ op[q] # "purgeExpired" => ~ Trashed(e[1])'
    <3>1. Active(q)
      BY <1>1, <2>3 DEF Active, Calls
    <3>2. e[1] \in Docs /\ WorksOn(q, e[1])
      BY <1>0, <2>3, <3>1 DEF WorksOn
    <3>3. e[1] # d
      BY <1>0, <1>3, <2>1, <2>3, <3>2 DEF ListedInv, AloneInv
    <3>4. SameDoc(e[1])
      BY <3>2, <3>3
    <3> QED  BY <2>1, <2>3, <3>1, <3>4 DEF ListedInv, SameDoc, Exists, Versions, Trashed, Recoverable, WithinWindow
  <2> QED  BY <2>1, <2>2, <2>3 DEF ListedInv
<1>7. ASSUME NEW q \in Requests, pc'[q] \in Calls, doc[q] \notin contended PROVE CallInv(q, doc[q])'
  <2>1. CASE q = r
    BY <1>1, <1>7, <2>1
  <2>2. CASE q # r
    <3>1. pc[q] \in Calls /\ doc[q] \in Docs /\ CallInv(q, doc[q])
      BY <1>0, <1>1, <1>7, <2>2 DEF CopiesInv
    <3>2. doc[q] # d
      BY <1>0, <1>3, <1>7, <2>2, <3>1 DEF AloneInv, WorksOn, Active, Calls
    <3>3. PICK c \in Docs : c = doc[q]
      BY <3>1
    <3>4. SameDoc(c) /\ SameRequest(q)
      BY <1>1, <2>2, <3>2, <3>3 DEF SameRequest
    <3>5. CallInv(q, c)'
      BY <3>1, <3>3, <3>4, CallSame
    <3> QED  BY <3>3, <3>5
  <2> QED  BY <2>1, <2>2
<1> QED  BY <1>4, <1>5, <1>6, <1>7 DEF CopiesInv

\* Neither does one that only reads.
LEMMA ReadStep ==
    ASSUME Inv, CopiesInv, NEW r \in Requests, pc[r] \in Calls, NEW d \in Docs, d = doc[r],
           NEW label \in Labels, label # "idle", pc' = [pc EXCEPT ![r] = label],
           UNCHANGED <<history, deletedAt, bytes, backup, written, op, doc, seen, head, queue, clock, contended>>,
           DOMAIN todo' = Requests, got' \in [Requests -> Copies],
           \A q \in Requests \ {r} : todo'[q] = todo[q] /\ got'[q] = got[q],
           d \notin contended /\ label \in Calls => CallInv(r, d)'
    PROVE  CopiesInv'
<1>1. CopiesTypeInv'
  BY DEF CopiesInv, CopiesTypeInv
<1>2. \A e \in Docs : SameDoc(e)
  BY DEF SameDoc
<1>3. d \notin contended => SoundInv(d)'
  BY <1>2, SoundSame DEF CopiesInv
<1> QED  BY <1>1, <1>2, <1>3, HandStep

\* What the leaves below start from: the document in hand and what is known of it.
LEMMA InHand ==
    ASSUME Inv, CopiesInv, NEW r \in Requests, pc[r] \in Calls
    PROVE  /\ doc[r] \in Docs /\ seen[r] \in Int /\ pc \in [Requests -> Labels]
           /\ got[r] \in Copies /\ bytes[doc[r]] \in Copies
           /\ history[doc[r]] \in Seq(Int) /\ written[doc[r]] \in Seq(Requests \cup {Original})
           /\ doc[r] \notin contended => SoundInv(doc[r]) /\ CallInv(r, doc[r])
BY DEF Inv, TypeInv, HandInv, CopiesInv, CopiesTypeInv

LEMMA Copying ==
    ASSUME Inv, CopiesInv, NEW r \in Requests, Copy(r)
    PROVE  CopiesInv'
<1> USE DEF rows, ghosts
<1>1. pc[r] \in Calls /\ pc[r] = "copy"
  BY DEF Copy, Calls
<1>2. PICK d \in Docs : d = doc[r]
  BY <1>1, InHand
<1>3. /\ pc' = [pc EXCEPT ![r] = "get"] /\ todo' = [todo EXCEPT ![r] = KeysOf(d) \cup {head[r]}]
      /\ got' = [got EXCEPT ![r] = NoBytes]
      /\ UNCHANGED <<history, deletedAt, bytes, backup, written, op, doc, seen, head, queue, clock, contended>>
  BY <1>2 DEF Copy, Goto
<1>4. NoBytes \in Copies
  BY DEF NoBytes, Copies
<1>5. /\ DOMAIN todo' = Requests /\ got' \in [Requests -> Copies] /\ todo'[r] = KeysOf(d) \cup {head[r]}
      /\ \A q \in Requests \ {r} : todo'[q] = todo[q] /\ got'[q] = got[q]
  BY <1>3, <1>4 DEF CopiesInv, CopiesTypeInv
<1>6. ASSUME d \notin contended PROVE CallInv(r, d)'
  <2>1. SoundInv(d) /\ CallInv(r, d) /\ history[d] \in Seq(Int) /\ pc'[r] = "get"
    BY <1>1, <1>2, <1>3, <1>6, InHand
  <2>2. \A i \in Versions(d) : history[d][i] = i /\ i \in KeysOf(d)
    BY <1>1, <2>1 DEF SoundInv, CallInv, Versions, KeysOf
  <2>3. ~ Trashed(d) /\ Exists(d)
    BY <1>1, <2>1 DEF CallInv
  <2>4. /\ pc'[r] = "get" /\ ~ Trashed(d)' /\ Exists(d)' /\ \A i \in Versions(d)' : i \in todo'[r]
    BY <1>3, <1>5, <2>1, <2>2, <2>3 DEF Trashed, Exists, Versions
  <2> QED  BY <2>4 DEF CallInv
<1> QED  BY <1>1, <1>2, <1>3, <1>5, <1>6, ReadStep DEF Labels, Calls

LEMMA Getting ==
    ASSUME Inv, CopiesInv, NEW r \in Requests, Get(r)
    PROVE  CopiesInv'
<1> USE DEF rows, ghosts
<1>1. pc[r] \in Calls /\ pc[r] = "get"
  BY DEF Get, Calls
<1>2. PICK d \in Docs : d = doc[r]
  BY <1>1, InHand
<1>3. UNCHANGED <<history, deletedAt, bytes, backup, written, op, doc, seen, head, queue, clock, contended>>
  BY DEF Get
<1>4. CASE Goto(r, "failed") /\ UNCHANGED <<todo, got>>
  <2>1. /\ pc' = [pc EXCEPT ![r] = "failed"] /\ DOMAIN todo' = Requests /\ got' \in [Requests -> Copies]
        /\ \A q \in Requests \ {r} : todo'[q] = todo[q] /\ got'[q] = got[q]
    BY <1>4 DEF Goto, CopiesInv, CopiesTypeInv
  <2> QED  BY <1>1, <1>2, <1>3, <2>1, ReadStep DEF Labels, Calls
<1>5. ASSUME NEW k \in todo[r], bytes[d][k] # None, got' = [got EXCEPT ![r][k] = bytes[d][k]],
             todo' = [todo EXCEPT ![r] = @ \ {k}], UNCHANGED pc
      PROVE  CopiesInv'
  <2>1. /\ todo'[r] = todo[r] \ {k} /\ got'[r] = [got[r] EXCEPT ![k] = bytes[d][k]]
        /\ DOMAIN todo' = Requests /\ DOMAIN got' = Requests
        /\ \A q \in Requests \ {r} : todo'[q] = todo[q] /\ got'[q] = got[q]
    BY <1>5 DEF CopiesInv, CopiesTypeInv
  <2>2. got[r] \in Copies /\ bytes[d] \in Copies
    BY <1>1, <1>2, InHand
  <2>3. got'[r] \in Copies /\ \A i \in Keys : got'[r][i] = IF i = k THEN bytes[d][k] ELSE got[r][i]
    BY <2>1, <2>2 DEF Copies
  <2>4. got' \in [Requests -> Copies]
    <3>1. \A q \in Requests : got'[q] \in Copies
      BY <2>1, <2>3 DEF CopiesInv, CopiesTypeInv
    <3>2. got' = [q \in Requests |-> got'[q]]
      BY <1>5 DEF CopiesInv, CopiesTypeInv
    <3> QED  BY <3>1, <3>2
  <2>5. ASSUME d \notin contended PROVE CallInv(r, d)'
    <3>1. SoundInv(d) /\ CallInv(r, d) /\ history[d] \in Seq(Int)
      BY <1>1, <1>2, <2>5, InHand
    <3>2. ~ Trashed(d) /\ Exists(d) /\ Whole(d) /\ Len(history[d]) <= MaxVersions /\ Len(history[d]) \in Nat
      BY <1>1, <3>1 DEF CallInv, SoundInv
    <3>3. \A i \in Versions(d) : i \in Keys /\ bytes[d][i] = written[d][i]
      BY <3>2, DocumentsAssumption DEF Whole, Versions, Keys
    <3>4. \A i \in Versions(d) : i \in todo[r] \/ got[r][i] = written[d][i]
      BY <1>1, <3>1 DEF CallInv
    <3>5. \A i \in Versions(d) : i \in todo'[r] \/ got'[r][i] = written[d][i]
      BY <2>1, <2>3, <3>3, <3>4
    <3>6. /\ pc'[r] = "get" /\ ~ Trashed(d)' /\ Exists(d)'
          /\ \A i \in Versions(d)' : i \in todo'[r] \/ got'[r][i] = written'[d][i]
      BY <1>1, <1>3, <1>5, <3>2, <3>5 DEF Trashed, Exists, Versions
    <3> QED  BY <3>6 DEF CallInv
  <2>6. pc' = [pc EXCEPT ![r] = "get"]
    BY <1>1, <1>5, InHand
  <2> QED  BY <1>1, <1>2, <1>3, <2>1, <2>4, <2>5, <2>6, ReadStep DEF Labels, Calls
<1> QED  BY <1>2, <1>4, <1>5 DEF Get

LEMMA Fetching ==
    ASSUME Inv, CopiesInv, NEW r \in Requests, Fetch(r)
    PROVE  CopiesInv'
<1> USE DEF rows, ghosts
<1>1. pc[r] \in Calls /\ pc[r] = "fetch"
  BY DEF Fetch, Calls
<1>2. PICK d \in Docs : d = doc[r]
  BY <1>1, InHand
<1>3. /\ pc' = [pc EXCEPT ![r] = "restore"]
      /\ got' = [got EXCEPT ![r] = IF backup[d] = None THEN NoBytes ELSE backup[d]]
      /\ todo' = [todo EXCEPT ![r] = {k \in Keys : backup[d] # None /\ backup[d][k] # None}]
      /\ UNCHANGED <<history, deletedAt, bytes, backup, written, op, doc, seen, head, queue, clock, contended>>
  BY <1>2 DEF Fetch, Goto
<1>4. /\ NoBytes \in Copies /\ (backup[d] # None => backup[d] \in Copies) /\ None \notin Copies
  BY DocumentsAssumption DEF NoBytes, Copies, CopiesInv, CopiesTypeInv, Keys
<1>5. /\ DOMAIN todo' = Requests /\ got' \in [Requests -> Copies]
      /\ todo'[r] = {k \in Keys : backup[d] # None /\ backup[d][k] # None}
      /\ got'[r] = IF backup[d] = None THEN NoBytes ELSE backup[d]
      /\ \A q \in Requests \ {r} : todo'[q] = todo[q] /\ got'[q] = got[q]
  BY <1>3, <1>4 DEF CopiesInv, CopiesTypeInv
<1>6. ASSUME d \notin contended PROVE CallInv(r, d)'
  <2>1. SoundInv(d) /\ CallInv(r, d) /\ history[d] \in Seq(Int) /\ written[d] \in Seq(Requests \cup {Original})
        /\ pc'[r] = "restore"
    BY <1>1, <1>2, <1>3, <1>6, InHand
  <2>2. Trashed(d) /\ Backed(d) /\ Exists(d) /\ Len(written[d]) = Len(history[d]) /\ Len(history[d]) <= MaxVersions
    BY <1>1, <2>1 DEF CallInv, SoundInv
  <2>3. \A i \in Versions(d) : i \in Keys /\ backup[d][i] = written[d][i] /\ backup[d] # None /\ written[d][i] # None
    <3>1. \A i \in Versions(d) : i \in Keys /\ written[d][i] \in Requests \cup {Original}
      <4> SUFFICES ASSUME NEW i \in Versions(d) PROVE i \in Keys /\ written[d][i] \in Requests \cup {Original}
        OBVIOUS
      <4>1. Len(history[d]) \in Nat /\ i \in 1..Len(history[d])
        BY <2>1 DEF Versions
      <4>2. i \in 1..Len(written[d])
        BY <2>2, <4>1
      <4>3. i \in 1..MaxVersions
        BY <2>2, <4>1, DocumentsAssumption
      <4> QED  BY <2>1, <4>2, <4>3 DEF Keys
    <3> QED  BY <1>4, <2>2, <3>1, DocumentsAssumption DEF Backed
  <2>4. \A i \in Versions(d) : i \in todo'[r] /\ got'[r][i] = written[d][i]
    BY <1>5, <2>3
  <2>5. /\ pc'[r] = "restore" /\ Trashed(d)' /\ Backed(d)'
        /\ \A i \in Versions(d)' : i \in todo'[r] /\ got'[r][i] = written'[d][i]
    BY <1>3, <2>1, <2>2, <2>4 DEF Trashed, Backed, Versions
  <2> QED  BY <2>5 DEF CallInv
<1> QED  BY <1>1, <1>2, <1>3, <1>5, <1>6, ReadStep DEF Labels, Calls

\* The calls that read, and the ones that break off.
LEMMA Reading ==
    ASSUME Inv, CopiesInv, NEW r \in Requests,
           CheckWindow(r) \/ Purge(r) \/ MarkArchived(r) \/ (Fail(r) /\ pc[r] \in Calls)
    PROVE  CopiesInv'
<1> USE DEF rows, locals, ghosts
<1>1. pc[r] \in Calls
  BY DEF CheckWindow, Purge, MarkArchived, Calls
<1>2. PICK d \in Docs : d = doc[r]
  BY <1>1, InHand
<1>3. UNCHANGED <<history, deletedAt, bytes, backup, written, op, doc, seen, head, queue, clock, contended, got>>
  BY DEF CheckWindow, Purge, MarkArchived, Fail
<1>4. pc \in [Requests -> Labels] /\ got \in [Requests -> Copies] /\ DOMAIN todo = Requests
  BY DEF Inv, TypeInv, CopiesInv, CopiesTypeInv
<1>5. CASE CheckWindow(r)
  <2>1. PICK label \in {"fetch", "purge"} :
           pc' = [pc EXCEPT ![r] = label] /\ (label = "fetch" <=> WithinWindow(seen[r], clock))
    BY <1>5 DEF CheckWindow, Goto
  <2>2. UNCHANGED todo
    BY <1>5 DEF CheckWindow
  <2>3. ASSUME d \notin contended PROVE CallInv(r, d)'
    <3>1. SoundInv(d) /\ CallInv(r, d) /\ pc[r] = "window"
      BY <1>1, <1>2, <1>5, <2>3, InHand DEF CheckWindow
    <3>2. seen[r] = deletedAt[d] /\ Trashed(d) /\ (Recoverable(d) => Backed(d))
      BY <3>1 DEF CallInv, SoundInv
    <3>3. pc'[r] = label /\ Trashed(d) /\ (label = "fetch" => Backed(d)) /\ (label = "purge" => ~ Recoverable(d))
      BY <1>4, <2>1, <3>2 DEF Recoverable
    <3>4. pc'[r] = label /\ Trashed(d)' /\ (label = "fetch" => Backed(d)') /\ (label = "purge" => ~ Recoverable(d)')
      BY <1>3, <3>3 DEF Trashed, Backed, Recoverable, Versions
    <3> QED  BY <2>1, <3>4 DEF CallInv
  <2> QED  BY <1>1, <1>2, <1>3, <1>4, <2>1, <2>2, <2>3, ReadStep DEF Labels, Calls
<1>6. CASE Purge(r)
  <2>1. pc[r] = "purge" /\ pc' = [pc EXCEPT ![r] = "delete"] /\ todo' = [todo EXCEPT ![r] = KeysOf(d) \cup {head[r]}]
    BY <1>2, <1>6 DEF Purge, Goto
  <2>2. ASSUME d \notin contended PROVE CallInv(r, d)'
    <3>1. CallInv(r, d) /\ pc'[r] = "delete"
      BY <1>1, <1>2, <1>4, <2>1, <2>2, InHand
    <3>2. Trashed(d) /\ ~ Recoverable(d)
      BY <2>1, <3>1 DEF CallInv
    <3>3. Trashed(d)' /\ ~ Recoverable(d)'
      BY <1>3, <3>2 DEF Trashed, Recoverable
    <3> QED  BY <3>1, <3>3 DEF CallInv
  <2>3. DOMAIN todo' = Requests /\ \A q \in Requests \ {r} : todo'[q] = todo[q]
    BY <1>4, <2>1
  <2> QED  BY <1>1, <1>2, <1>3, <1>4, <2>1, <2>2, <2>3, ReadStep DEF Labels, Calls
<1>7. CASE MarkArchived(r) \/ Fail(r)
  <2>1. PICK label \in {"sweep", "failed"} : pc' = [pc EXCEPT ![r] = label]
    BY <1>7 DEF MarkArchived, Fail, Goto
  <2>2. UNCHANGED todo
    BY <1>7 DEF MarkArchived, Fail
  <2> QED  BY <1>1, <1>2, <1>3, <1>4, <2>1, <2>2, ReadStep DEF Labels, Calls
<1> QED  BY <1>5, <1>6, <1>7

\* What is known of a version of a sound document.
LEMMA VersionsAre ==
    ASSUME CopiesInv, NEW d \in Docs, history[d] \in Seq(Int), SoundInv(d), Exists(d)
    PROVE  \A i \in Versions(d) : i \in Keys /\ written[d][i] # None
<1> SUFFICES ASSUME NEW i \in Versions(d) PROVE i \in Keys /\ written[d][i] # None
  OBVIOUS
<1>1. Len(history[d]) \in Nat /\ i \in 1..Len(history[d]) /\ Len(history[d]) <= MaxVersions
      /\ Len(written[d]) = Len(history[d])
  BY DEF Versions, SoundInv
<1>2. written[d] \in Seq(Requests \cup {Original})
  BY DEF CopiesInv, CopiesTypeInv
<1>3. written[d][i] \in Requests \cup {Original}
  BY <1>1, <1>2
<1>4. i \in 1..MaxVersions
  BY <1>1, DocumentsAssumption
<1> QED  BY <1>3, <1>4, DocumentsAssumption DEF Keys

\* One object of the document in hand is written or deleted.
LEMMA OneObject ==
    ASSUME CopiesInv, NEW d \in Docs, NEW k, NEW v, k \in Keys => v \in Requests \cup {Original, None},
           bytes' = [bytes EXCEPT ![d][k] = v],
           UNCHANGED <<backup, got, head, written, contended>>, DOMAIN todo' = Requests
    PROVE  /\ CopiesTypeInv'
           /\ \A i \in Keys : bytes'[d][i] = IF i = k THEN v ELSE bytes[d][i]
           /\ \A e \in Docs \ {d} : bytes'[e] = bytes[e]
<1>1. bytes \in [Docs -> Copies] /\ bytes[d] \in Copies
  BY DEF CopiesInv, CopiesTypeInv
<1>2. bytes'[d] = [bytes[d] EXCEPT ![k] = v] /\ \A e \in Docs \ {d} : bytes'[e] = bytes[e]
  BY <1>1
<1>3. bytes'[d] \in Copies /\ \A i \in Keys : bytes'[d][i] = IF i = k THEN v ELSE bytes[d][i]
  BY <1>1, <1>2 DEF Copies
<1>4. bytes' \in [Docs -> Copies]
  <2>1. \A e \in Docs : bytes'[e] \in Copies
    BY <1>1, <1>2, <1>3
  <2>2. bytes' = [e \in Docs |-> bytes'[e]]
    BY <1>1
  <2> QED  BY <2>1, <2>2
<1> QED  BY <1>2, <1>3, <1>4 DEF CopiesInv, CopiesTypeInv

LEMMA Putting ==
    ASSUME Inv, CopiesInv, NEW r \in Requests, Put(r)
    PROVE  CopiesInv'
<1> USE DEF rows, locals, ghosts
<1>1. pc[r] \in Calls /\ pc[r] = "put"
  BY DEF Put, Calls
<1>2. PICK d \in Docs : d = doc[r]
  BY <1>1, InHand
<1>3. PICK k : k = seen[r] + 1
  OBVIOUS
<1>4. /\ pc' = [pc EXCEPT ![r] = "write"] /\ bytes' = [bytes EXCEPT ![d][k] = r]
      /\ UNCHANGED <<history, deletedAt, backup, written, op, doc, seen, head, todo, got, queue, clock, contended>>
  BY <1>2, <1>3 DEF Put, Goto
<1>5. /\ CopiesTypeInv'
      /\ \A i \in Keys : bytes'[d][i] = IF i = k THEN r ELSE bytes[d][i]
      /\ \A e \in Docs \ {d} : bytes'[e] = bytes[e]
  <2>1. DOMAIN todo' = Requests
    BY <1>4 DEF CopiesInv, CopiesTypeInv
  <2> QED  BY <1>4, <2>1, OneObject
<1>6. ASSUME d \notin contended PROVE SoundInv(d)' /\ CallInv(r, d)'
  <2>1. SoundInv(d) /\ CallInv(r, d) /\ history[d] \in Seq(Int) /\ pc'[r] = "write"
    BY <1>1, <1>2, <1>4, <1>6, InHand
  <2>2. /\ ~ Trashed(d) /\ k = Len(history[d]) + 1 /\ k \in Keys
        /\ op[r] = "upload" <=> ~ Exists(d)
        /\ seen[r] = Len(history[d]) /\ seen[r] + 1 \in Keys
    BY <1>1, <1>3, <2>1 DEF CallInv
  <2>3. ASSUME Exists(d), NEW i \in Versions(d) PROVE bytes'[d][i] = written[d][i]
    <3>1. i \in Keys /\ i # k
      BY <2>1, <2>2, <2>3, VersionsAre DEF Versions
    <3> QED  BY <1>5, <2>1, <2>2, <2>3, <3>1 DEF SoundInv, Whole
  <2>4. SoundInv(d)'
    BY <1>4, <2>1, <2>2, <2>3 DEF SoundInv, Exists, Trashed, Whole, Versions
  <2>5. bytes'[d][seen[r] + 1] = r
    BY <1>3, <1>5, <2>2
  <2>6. CallInv(r, d)'
    BY <1>4, <2>1, <2>2, <2>5 DEF CallInv, Trashed, Exists
  <2> QED  BY <2>4, <2>6
<1>7. \A e \in Docs \ {d} : SameDoc(e)
  BY <1>4, <1>5 DEF SameDoc
<1> QED  BY <1>1, <1>2, <1>4, <1>5, <1>6, <1>7, HandStep DEF Labels, Calls

LEMMA Writing ==
    ASSUME Inv, CopiesInv, NEW r \in Requests, Write(r)
    PROVE  CopiesInv'
<1> USE DEF rows, locals, ghosts
<1>1. pc[r] \in Calls /\ pc[r] = "write"
  BY DEF Write, Calls
<1>2. PICK d \in Docs : d = doc[r]
  BY <1>1, InHand
<1>3. PICK k : k = seen[r] + 1
  OBVIOUS
<1>4. UNCHANGED <<deletedAt, bytes, backup, op, doc, seen, head, todo, got, queue, clock, contended>>
  BY DEF Write
<1>5. CASE pc' = [pc EXCEPT ![r] = "failed"] /\ UNCHANGED <<history, written>>
  <2>1. /\ DOMAIN todo' = Requests /\ got' \in [Requests -> Copies]
        /\ \A q \in Requests \ {r} : todo'[q] = todo[q] /\ got'[q] = got[q]
    BY <1>4 DEF CopiesInv, CopiesTypeInv
  <2> QED  BY <1>1, <1>2, <1>4, <1>5, <2>1, ReadStep DEF Labels, Calls
<1>6. CASE /\ history' = [history EXCEPT ![d] = Append(@, k)] /\ pc' = [pc EXCEPT ![r] = "done"]
           /\ written' = [written EXCEPT ![d] = IF op[r] = "upload" THEN <<r>> ELSE Append(@, r)]
  <2>1. history \in [Docs -> Seq(Int)] /\ written \in [Docs -> Seq(Requests \cup {Original})]
    BY DEF Inv, TypeInv, CopiesInv, CopiesTypeInv
  <2>2. /\ history'[d] = Append(history[d], k)
        /\ written'[d] = IF op[r] = "upload" THEN <<r>> ELSE Append(written[d], r)
        /\ \A e \in Docs \ {d} : history'[e] = history[e] /\ written'[e] = written[e]
    BY <1>6, <2>1
  <2>3. written' \in [Docs -> Seq(Requests \cup {Original})]
    <3>1. Append(written[d], r) \in Seq(Requests \cup {Original}) /\ <<r>> \in Seq(Requests \cup {Original})
      BY <2>1
    <3> QED  BY <1>6, <2>1, <3>1
  <2>4. CopiesTypeInv'
    BY <1>4, <2>3 DEF CopiesInv, CopiesTypeInv
  <2>5. ASSUME d \notin contended PROVE SoundInv(d)'
    <3>1. SoundInv(d) /\ CallInv(r, d) /\ history[d] \in Seq(Int) /\ written[d] \in Seq(Requests \cup {Original})
      BY <1>1, <1>2, <2>5, InHand
    <3>2. /\ ~ Trashed(d) /\ k = Len(history[d]) + 1 /\ k \in Keys /\ bytes[d][k] = r
          /\ op[r] = "upload" => Len(history[d]) = 0
          /\ op[r] # "upload" => Len(written[d]) = Len(history[d])
      BY <1>1, <1>3, <3>1 DEF CallInv, SoundInv, Exists
    <3>3. k \in Nat /\ k <= MaxVersions /\ k \in Int /\ Len(history[d]) \in Nat
      BY <3>1, <3>2, DocumentsAssumption DEF Keys
    <3>4. /\ Len(history'[d]) = k /\ Len(written'[d]) = k
          /\ \A i \in 1..k : /\ history'[d][i] = IF i = k THEN k ELSE history[d][i]
                             /\ written'[d][i] = IF i = k THEN r ELSE written[d][i]
      BY <2>2, <3>1, <3>2, <3>3
    <3>5. ASSUME NEW i \in 1..k, i # k PROVE history[d][i] = i /\ bytes[d][i] = written[d][i]
      <4>1. i \in Versions(d) /\ Len(history[d]) # 0
        BY <3>2, <3>3, <3>5 DEF Versions
      <4>2. Exists(d)
        BY <3>1, <4>1 DEF Exists
      <4> QED  BY <3>1, <3>2, <4>1, <4>2 DEF SoundInv, Whole
    <3>6. \A i \in 1..k : history'[d][i] = i /\ bytes[d][i] = written'[d][i]
      BY <3>2, <3>4, <3>5
    <3>7. ~ Trashed(d)' /\ Versions(d)' = 1..k
      BY <1>4, <3>2, <3>4 DEF Trashed, Versions
    <3> QED  BY <1>4, <3>3, <3>4, <3>6, <3>7 DEF SoundInv, Whole
  <2>6. \A e \in Docs \ {d} : SameDoc(e)
    BY <1>4, <2>2 DEF SameDoc
  <2> QED  BY <1>1, <1>2, <1>4, <1>6, <2>4, <2>5, <2>6, HandStep DEF Labels, Calls
<1> QED  BY <1>2, <1>3, <1>5, <1>6 DEF Write, Goto

LEMMA Capturing ==
    ASSUME Inv, CopiesInv, NEW r \in Requests, Capture(r)
    PROVE  CopiesInv'
<1> USE DEF rows, locals, ghosts
<1>1. pc[r] \in Calls /\ pc[r] = "get" /\ todo[r] = {}
  BY DEF Capture, Calls
<1>2. PICK d \in Docs : d = doc[r]
  BY <1>1, InHand
<1>3. /\ pc' = [pc EXCEPT ![r] = "mark"] /\ backup' = [backup EXCEPT ![d] = got[r]]
      /\ UNCHANGED <<history, deletedAt, bytes, written, op, doc, seen, head, todo, got, queue, clock, contended>>
  BY <1>2 DEF Capture, Goto
<1>4. got[r] \in Copies
  BY <1>1, InHand
<1>5. CopiesTypeInv' /\ backup'[d] = got[r] /\ \A e \in Docs \ {d} : backup'[e] = backup[e]
  BY <1>3, <1>4 DEF CopiesInv, CopiesTypeInv
<1>6. ASSUME d \notin contended PROVE SoundInv(d)' /\ CallInv(r, d)'
  <2>1. SoundInv(d) /\ CallInv(r, d) /\ pc'[r] = "mark"
    BY <1>1, <1>2, <1>3, <1>6, InHand
  <2>2. ~ Trashed(d) /\ Exists(d) /\ \A i \in Versions(d) : got[r][i] = written[d][i]
    BY <1>1, <2>1 DEF CallInv
  <2>3. ~ Trashed(d)' /\ Exists(d)' /\ Backed(d)'
    BY <1>3, <1>4, <1>5, <2>2 DEF Trashed, Exists, Backed, Versions
  <2>4. SoundInv(d)'
    BY <1>3, <2>1, <2>2, <2>3 DEF SoundInv, Exists, Trashed, Whole, Versions
  <2> QED  BY <2>1, <2>3, <2>4 DEF CallInv
<1>7. \A e \in Docs \ {d} : SameDoc(e)
  BY <1>3, <1>5 DEF SameDoc
<1> QED  BY <1>1, <1>2, <1>3, <1>5, <1>6, <1>7, HandStep DEF Labels, Calls

LEMMA Trashing ==
    ASSUME Inv, CopiesInv, NEW r \in Requests, MarkDeleted(r)
    PROVE  CopiesInv'
<1> USE DEF rows, locals, ghosts
<1>1. pc[r] \in Calls /\ pc[r] = "mark"
  BY DEF MarkDeleted, Calls
<1>2. PICK d \in Docs : d = doc[r]
  BY <1>1, InHand
<1>3. UNCHANGED <<history, bytes, backup, written, op, doc, seen, head, todo, got, queue, clock, contended>>
  BY DEF MarkDeleted
<1>4. CopiesTypeInv' /\ deletedAt \in [Docs -> Int] /\ clock \in Nat /\ clock # NotDeleted
  BY <1>3 DEF CopiesInv, CopiesTypeInv, Inv, TypeInv, NotDeleted
<1>5. PICK label \in {"sweep", "done", "failed"} : pc' = [pc EXCEPT ![r] = label]
  BY DEF MarkDeleted, Goto, Finished
<1>6. /\ deletedAt' = deletedAt \/ deletedAt' = [deletedAt EXCEPT ![d] = clock]
      /\ Exists(d) => deletedAt' = [deletedAt EXCEPT ![d] = clock]
  BY <1>2 DEF MarkDeleted
<1>7. ASSUME d \notin contended PROVE SoundInv(d)'
  <2>1. SoundInv(d) /\ CallInv(r, d)
    BY <1>1, <1>2, <1>7, InHand
  <2>2. ~ Trashed(d) /\ Exists(d) /\ Backed(d) /\ Whole(d)
    BY <1>1, <2>1 DEF CallInv, SoundInv
  <2>3. Trashed(d)' /\ Exists(d)' /\ Backed(d)' /\ Whole(d)'
    BY <1>3, <1>4, <1>6, <2>2 DEF Trashed, Exists, Backed, Whole, Versions
  <2> QED  BY <1>3, <2>1, <2>3 DEF SoundInv, Exists, Versions, Whole
<1>8. \A e \in Docs \ {d} : SameDoc(e)
  BY <1>3, <1>4, <1>6 DEF SameDoc
<1> QED  BY <1>1, <1>2, <1>3, <1>4, <1>5, <1>7, <1>8, HandStep DEF Labels, Calls

\* An object of the backup that is there needs no put, one that is not does.
LEMMA Restoring ==
    ASSUME Inv, CopiesInv, NEW r \in Requests, Restore(r)
    PROVE  CopiesInv'
<1> USE DEF rows, locals, ghosts
<1>1. pc[r] \in Calls /\ pc[r] = "restore"
  BY DEF Restore, Calls
<1>2. PICK d \in Docs : d = doc[r]
  BY <1>1, InHand
<1>3. UNCHANGED <<history, deletedAt, bytes, backup, written, op, doc, seen, got, queue, clock, contended>>
  BY DEF Restore
<1>4. PICK k \in todo[r] :
         IF bytes[d][k] = None
         THEN pc' = [pc EXCEPT ![r] = "rewrite"] /\ head' = [head EXCEPT ![r] = k] /\ todo' = todo
         ELSE todo' = [todo EXCEPT ![r] = @ \ {k}] /\ pc' = pc /\ head' = head
  BY <1>2 DEF Restore, Goto
<1>5. PICK label \in {"restore", "rewrite"} :
         /\ pc' = [pc EXCEPT ![r] = label]
         /\ label = "rewrite" => bytes[d][k] = None /\ head' = [head EXCEPT ![r] = k] /\ todo' = todo
         /\ label = "restore" => /\ bytes[d][k] # None /\ head' = head
                                 /\ todo' = [todo EXCEPT ![r] = @ \ {k}]
  BY <1>1, <1>4, InHand
<1>6. /\ DOMAIN todo' = Requests /\ DOMAIN head' = Requests
      /\ \A q \in Requests \ {r} : todo'[q] = todo[q] /\ got'[q] = got[q] /\ head'[q] = head[q]
      /\ label = "rewrite" => head'[r] = k /\ todo'[r] = todo[r]
      /\ label = "restore" => todo'[r] = todo[r] \ {k}
  BY <1>3, <1>5 DEF CopiesInv, CopiesTypeInv
<1>7. CopiesTypeInv'
  BY <1>3, <1>6 DEF CopiesInv, CopiesTypeInv
<1>8. \A e \in Docs : SameDoc(e)
  BY <1>3 DEF SameDoc
<1>9. ASSUME d \notin contended PROVE SoundInv(d)' /\ CallInv(r, d)'
  <2>1. SoundInv(d) /\ CallInv(r, d) /\ history[d] \in Seq(Int) /\ pc'[r] = label
    BY <1>1, <1>2, <1>5, <1>9, InHand
  <2>2. SoundInv(d)'
    BY <1>3, <1>8, <2>1, SoundSame
  <2>3. /\ Trashed(d) /\ Backed(d) /\ Exists(d)
        /\ \A i \in Versions(d) : /\ bytes[d][i] \in {written[d][i], None}
                                  /\ bytes[d][i] = written[d][i] \/ (i \in todo[r] /\ got[r][i] = written[d][i])
    BY <1>1, <2>1 DEF CallInv, SoundInv
  <2>4. \A i \in Versions(d) : bytes[d][i] = written[d][i] \/ (i \in todo'[r] /\ got[r][i] = written[d][i])
    BY <1>5, <1>6, <2>3
  <2>5. Trashed(d)' /\ Backed(d)' /\ Versions(d)' = Versions(d) /\ (label = "rewrite" => bytes'[d][head'[r]] = None)
    BY <1>3, <1>5, <1>6, <2>3 DEF Trashed, Backed, Versions
  <2>6. CallInv(r, d)'
    BY <1>3, <2>1, <2>4, <2>5 DEF CallInv
  <2> QED  BY <2>2, <2>6
<1> QED  BY <1>1, <1>2, <1>3, <1>5, <1>6, <1>7, <1>8, <1>9, HandStep DEF Labels, Calls

LEMMA Rewriting ==
    ASSUME Inv, CopiesInv, NEW r \in Requests, Rewrite(r)
    PROVE  CopiesInv'
<1> USE DEF rows, locals, ghosts
<1>1. pc[r] \in Calls /\ pc[r] = "rewrite"
  BY DEF Rewrite, Calls
<1>2. PICK d \in Docs : d = doc[r]
  BY <1>1, InHand
<1>3. PICK k : k = head[r]
  OBVIOUS
<1>4. /\ bytes' = [bytes EXCEPT ![d][k] = got[r][k]] /\ todo' = [todo EXCEPT ![r] = @ \ {k}]
      /\ pc' = [pc EXCEPT ![r] = "restore"]
      /\ UNCHANGED <<history, deletedAt, backup, written, op, doc, seen, head, got, queue, clock, contended>>
  BY <1>2, <1>3 DEF Rewrite, Goto
<1>5. got[r] \in Copies /\ DOMAIN todo = Requests
  BY <1>1, <1>2, InHand DEF CopiesInv, CopiesTypeInv
<1>6. DOMAIN todo' = Requests /\ todo'[r] = todo[r] \ {k} /\ \A q \in Requests \ {r} : todo'[q] = todo[q]
  BY <1>4, <1>5
<1>7. /\ CopiesTypeInv'
      /\ \A i \in Keys : bytes'[d][i] = IF i = k THEN got[r][k] ELSE bytes[d][i]
      /\ \A e \in Docs \ {d} : bytes'[e] = bytes[e]
  <2>1. k \in Keys => got[r][k] \in Requests \cup {Original, None}
    BY <1>5 DEF Copies
  <2> QED  BY <1>4, <1>6, <2>1, OneObject
<1>8. ASSUME d \notin contended PROVE SoundInv(d)' /\ CallInv(r, d)'
  <2>1. SoundInv(d) /\ CallInv(r, d) /\ history[d] \in Seq(Int) /\ pc'[r] = "restore"
    BY <1>1, <1>2, <1>4, <1>8, InHand
  <2>2. /\ Trashed(d) /\ Backed(d) /\ Exists(d) /\ bytes[d][k] = None
        /\ \A i \in Versions(d) : /\ bytes[d][i] \in {written[d][i], None}
                                  /\ bytes[d][i] = written[d][i] \/ (i \in todo[r] /\ got[r][i] = written[d][i])
    BY <1>1, <1>3, <2>1 DEF CallInv, SoundInv
  <2>3. \A i \in Versions(d) : i \in Keys /\ written[d][i] # None
    BY <2>1, <2>2, VersionsAre
  <2>4. \A i \in Versions(d) : /\ bytes'[d][i] \in {written[d][i], None}
                               /\ bytes'[d][i] = written[d][i] \/ (i \in todo'[r] /\ got[r][i] = written[d][i])
    BY <1>6, <1>7, <2>2, <2>3
  <2>5. Trashed(d)' /\ Backed(d)' /\ Exists(d)' /\ Versions(d)' = Versions(d)
    BY <1>4, <2>2 DEF Trashed, Backed, Exists, Versions
  <2>6. SoundInv(d)'
    BY <1>4, <2>1, <2>2, <2>4, <2>5 DEF SoundInv, Exists
  <2>7. CallInv(r, d)'
    BY <1>4, <2>1, <2>4, <2>5 DEF CallInv
  <2> QED  BY <2>6, <2>7
<1>9. \A e \in Docs \ {d} : SameDoc(e)
  BY <1>4, <1>7 DEF SameDoc
<1> QED  BY <1>1, <1>2, <1>4, <1>6, <1>7, <1>8, <1>9, HandStep DEF Labels, Calls

LEMMA Clearing ==
    ASSUME Inv, CopiesInv, NEW r \in Requests, ClearDeleted(r)
    PROVE  CopiesInv'
<1> USE DEF rows, locals, ghosts
<1>1. pc[r] \in Calls /\ pc[r] = "restore" /\ todo[r] = {}
  BY DEF ClearDeleted, Calls
<1>2. PICK d \in Docs : d = doc[r]
  BY <1>1, InHand
<1>3. /\ UNCHANGED <<history, bytes, backup, written, op, doc, seen, head, todo, got, queue, clock, contended>>
      /\ deletedAt' = [deletedAt EXCEPT ![d] = NotDeleted]
  BY <1>2 DEF ClearDeleted
<1>4. PICK label \in {"discard", "failed"} : pc' = [pc EXCEPT ![r] = label]
  BY DEF ClearDeleted, Goto
<1>5. /\ CopiesTypeInv' /\ deletedAt'[d] = NotDeleted /\ pc'[r] = label
      /\ \A e \in Docs \ {d} : deletedAt'[e] = deletedAt[e]
  BY <1>3, <1>4 DEF CopiesInv, CopiesTypeInv, Inv, TypeInv
<1>6. ASSUME d \notin contended PROVE SoundInv(d)' /\ (label \in Calls => CallInv(r, d)')
  <2>1. SoundInv(d) /\ CallInv(r, d)
    BY <1>1, <1>2, <1>6, InHand
  <2>2. Whole(d)
    BY <1>1, <2>1 DEF CallInv, Whole
  <2>3. ~ Trashed(d)' /\ Whole(d)'
    BY <1>3, <1>5, <2>2 DEF Trashed, Whole, Versions
  <2>4. SoundInv(d)'
    BY <1>3, <2>1, <2>3 DEF SoundInv, Exists, Versions
  <2>5. label \in Calls => CallInv(r, d)'
    BY <1>4, <1>5, <2>3 DEF CallInv, Calls
  <2> QED  BY <2>4, <2>5
<1>7. \A e \in Docs \ {d} : SameDoc(e)
  BY <1>3, <1>5 DEF SameDoc
<1> QED  BY <1>1, <1>2, <1>3, <1>4, <1>5, <1>6, <1>7, HandStep DEF Labels, Calls

LEMMA Discarding ==
    ASSUME Inv, CopiesInv, NEW r \in Requests, Discard(r)
    PROVE  CopiesInv'
<1> USE DEF rows, locals, ghosts
<1>1. pc[r] \in Calls /\ pc[r] = "discard"
  BY DEF Discard, Calls
<1>2. PICK d \in Docs : d = doc[r]
  BY <1>1, InHand
<1>3. /\ UNCHANGED <<history, deletedAt, bytes, written, op, doc, seen, head, todo, got, queue, clock, contended>>
      /\ backup' = [backup EXCEPT ![d] = None]
  BY <1>2 DEF Discard
<1>4. PICK label \in {"sweep", "done"} : pc' = [pc EXCEPT ![r] = label]
  BY DEF Discard, Goto, Finished
<1>5. CopiesTypeInv' /\ \A e \in Docs \ {d} : backup'[e] = backup[e]
  BY <1>3 DEF CopiesInv, CopiesTypeInv
<1>6. ASSUME d \notin contended PROVE SoundInv(d)'
  <2>1. SoundInv(d) /\ ~ Trashed(d)
    BY <1>1, <1>2, <1>6, InHand DEF CallInv
  <2> QED  BY <1>3, <2>1 DEF SoundInv, Exists, Trashed, Whole, Versions
<1>7. \A e \in Docs \ {d} : SameDoc(e)
  BY <1>3, <1>5 DEF SameDoc
<1> QED  BY <1>1, <1>2, <1>3, <1>4, <1>5, <1>6, <1>7, HandStep DEF Labels, Calls

LEMMA Deleting ==
    ASSUME Inv, CopiesInv, NEW r \in Requests, Delete(r)
    PROVE  CopiesInv'
<1> USE DEF rows, locals, ghosts
<1>1. pc[r] \in Calls /\ pc[r] = "delete"
  BY DEF Delete, Calls
<1>2. PICK d \in Docs : d = doc[r]
  BY <1>1, InHand
<1>3. PICK k \in todo[r] : bytes' = [bytes EXCEPT ![d][k] = None] /\ todo' = [todo EXCEPT ![r] = @ \ {k}]
  BY <1>2 DEF Delete
<1>4. UNCHANGED <<history, deletedAt, backup, written, pc, op, doc, seen, head, got, queue, clock, contended>>
  BY DEF Delete
<1>5. DOMAIN todo' = Requests /\ \A q \in Requests \ {r} : todo'[q] = todo[q]
  BY <1>3 DEF CopiesInv, CopiesTypeInv
<1>6. /\ CopiesTypeInv'
      /\ \A i \in Keys : bytes'[d][i] = IF i = k THEN None ELSE bytes[d][i]
      /\ \A e \in Docs \ {d} : bytes'[e] = bytes[e]
  BY <1>3, <1>4, <1>5, OneObject
<1>7. ASSUME d \notin contended PROVE SoundInv(d)' /\ CallInv(r, d)'
  <2>1. SoundInv(d) /\ CallInv(r, d) /\ history[d] \in Seq(Int) /\ pc'[r] = "delete"
    BY <1>1, <1>2, <1>4, <1>7, InHand
  <2>2. /\ Trashed(d) /\ ~ Recoverable(d) /\ Exists(d)
        /\ \A i \in Versions(d) : bytes[d][i] \in {written[d][i], None}
    BY <1>1, <2>1 DEF CallInv, SoundInv
  <2>3. \A i \in Versions(d) : bytes'[d][i] \in {written[d][i], None}
    BY <1>6, <2>1, <2>2, VersionsAre
  <2>4. Trashed(d)' /\ ~ Recoverable(d)' /\ Exists(d)' /\ Versions(d)' = Versions(d)
    BY <1>4, <2>2 DEF Trashed, Recoverable, Exists, Versions
  <2> QED  BY <1>4, <2>1, <2>2, <2>3, <2>4 DEF SoundInv, CallInv, Exists
<1>8. \A e \in Docs \ {d} : SameDoc(e)
  BY <1>4, <1>6 DEF SameDoc
<1>9. pc' = [pc EXCEPT ![r] = "delete"]
  BY <1>1, <1>4, InHand
<1>10. \A q \in Requests \ {r} : todo'[q] = todo[q] /\ got'[q] = got[q]
  BY <1>4, <1>5
<1>11. d \notin contended => SoundInv(d)' /\ CallInv(r, d)'
  BY <1>7
<1>12. UNCHANGED <<op, doc, seen, head, queue, clock, contended>> /\ CopiesTypeInv'
  BY <1>4, <1>6
<1> QED  BY <1>1, <1>2, <1>8, <1>9, <1>10, <1>11, <1>12, HandStep DEF Labels, Calls

LEMMA Removing ==
    ASSUME Inv, CopiesInv, NEW r \in Requests, Remove(r)
    PROVE  CopiesInv'
<1> USE DEF rows, locals, ghosts
<1>1. pc[r] \in Calls
  BY DEF Remove, Calls
<1>2. PICK d \in Docs : d = doc[r]
  BY <1>1, InHand
<1>3. /\ UNCHANGED <<bytes, backup, written, op, doc, seen, head, todo, got, queue, clock, contended>>
      /\ history' = [history EXCEPT ![d] = <<>>] /\ deletedAt' = [deletedAt EXCEPT ![d] = NotDeleted]
      /\ pc' = [pc EXCEPT ![r] = "discard"]
  BY <1>2 DEF Remove, Goto
<1>4. /\ CopiesTypeInv' /\ history'[d] = <<>> /\ deletedAt'[d] = NotDeleted /\ pc'[r] = "discard"
      /\ \A e \in Docs \ {d} : history'[e] = history[e] /\ deletedAt'[e] = deletedAt[e]
  BY <1>3 DEF CopiesInv, CopiesTypeInv, Inv, TypeInv
<1>5. SoundInv(d)' /\ CallInv(r, d)'
  BY <1>4 DEF SoundInv, CallInv, Exists, Trashed
<1>6. \A e \in Docs \ {d} : SameDoc(e)
  BY <1>3, <1>4 DEF SameDoc
<1> QED  BY <1>1, <1>2, <1>3, <1>4, <1>5, <1>6, HandStep DEF Labels, Calls

-----------------------------------------------------------------------------
\* A request takes documents up, from the outside or from its list: those that
\* another one works on are contended from then on.
LEMMA TakeUp ==
    ASSUME Inv, CopiesInv, NEW r \in Requests, pc[r] \in {"idle", "sweep"},
           NEW label \in Labels, label # "idle", pc' = [pc EXCEPT ![r] = label],
           UNCHANGED <<history, deletedAt, bytes, backup, written, todo, got, clock>>, DOMAIN head' = Requests,
           \A q \in Requests \ {r} : /\ op'[q] = op[q] /\ doc'[q] = doc[q] /\ seen'[q] = seen[q]
                                     /\ head'[q] = head[q] /\ queue'[q] = queue[q],
           contended \subseteq contended', contended' \subseteq Docs,
           \A e \in Docs \ contended' : WorksOn(r, e)' => \A q \in Requests \ {r} : ~ WorksOn(q, e),
           ListedInv(r)',
           NEW d \in Docs \cup {None}, doc'[r] = d, label \in Calls => d \in Docs,
           label \in Calls /\ d \notin contended' => CallInv(r, d)'
    PROVE  CopiesInv'
<1>0. /\ pc \in [Requests -> Labels] /\ \A q \in Requests : pc[q] \in Calls => doc[q] \in Docs
      /\ \A q \in Requests : \A e \in queue[q] : e[1] \in Docs
      /\ AloneInv
  BY DEF Inv, TypeInv, HandInv, CopiesInv
<1>1. pc'[r] = label /\ \A q \in Requests \ {r} : pc'[q] = pc[q]
  BY <1>0
<1>2. \A e \in Docs : SameDoc(e)
  BY DEF SameDoc
<1>3. CopiesTypeInv'
  BY DEF CopiesInv, CopiesTypeInv
<1>4. ASSUME NEW q \in Requests \ {r}, NEW e PROVE WorksOn(q, e)' <=> WorksOn(q, e)
  BY <1>1 DEF WorksOn, Active
<1>5. AloneInv'
  <2> SUFFICES ASSUME NEW e \in Docs \ contended', NEW p \in Requests, NEW q \in Requests,
                      WorksOn(p, e)', WorksOn(q, e)'
               PROVE  p = q
    BY DEF AloneInv
  <2>1. CASE p = r \/ q = r
    BY <1>4, <2>1
  <2>2. CASE p # r /\ q # r
    BY <1>0, <1>4, <2>2 DEF AloneInv
  <2> QED  BY <2>1, <2>2
<1>6. ASSUME NEW e \in Docs \ contended' PROVE SoundInv(e)'
  BY <1>2, <1>6, SoundSame DEF CopiesInv
<1>7. ASSUME NEW q \in Requests PROVE ListedInv(q)'
  <2>1. CASE q # r
    <3>1. ListedInv(q)
      BY DEF CopiesInv
    <3>2. Active(q)' <=> Active(q)
      BY <1>1, <2>1 DEF Active
    <3> QED  BY <1>1, <2>1, <3>1, <3>2 DEF ListedInv, Exists, Versions, Trashed, Recoverable, WithinWindow
  <2> QED  BY <2>1
<1>8. ASSUME NEW q \in Requests, NEW c \in Docs, c = doc'[q], pc'[q] \in Calls, c \notin contended'
      PROVE  CallInv(q, c)'
  <2>1. CASE q = r
    BY <1>1, <1>8, <2>1
  <2>2. CASE q # r
    <3>1. CallInv(q, c)
      BY <1>0, <1>1, <1>8, <2>2 DEF CopiesInv
    <3>2. SameDoc(c) /\ SameRequest(q)
      BY <1>1, <1>2, <2>2 DEF SameRequest
    <3> QED  BY <3>1, <3>2, CallSame
  <2> QED  BY <2>1, <2>2
<1>9. \A q \in Requests : pc'[q] \in Calls => doc'[q] \in Docs
  BY <1>0, <1>1
<1>10. \A q \in Requests : pc'[q] \in Calls /\ doc'[q] \notin contended' => CallInv(q, doc[q])'
  <2> SUFFICES ASSUME NEW q \in Requests, pc'[q] \in Calls, doc'[q] \notin contended' PROVE CallInv(q, doc[q])'
    OBVIOUS
  <2>1. PICK c \in Docs : c = doc'[q]
    BY <1>9
  <2>2. CallInv(q, c)'
    BY <1>8, <2>1
  <2> QED  BY <2>1, <2>2
<1> QED  BY <1>3, <1>5, <1>6, <1>7, <1>10 DEF CopiesInv

\* A request that comes in for one document.
LEMMA OneBegins ==
    ASSUME Inv, CopiesInv, NEW r \in Requests, NEW d \in Docs, NEW o \in Operations, Begin(r, o, d),
           NEW label \in Calls, Goto(r, label), NEW s \in Int, seen' = [seen EXCEPT ![r] = s],
           d \notin contended' => CallInv(r, d)'
    PROVE  CopiesInv'
<1>1. /\ pc[r] = "idle" /\ pc' = [pc EXCEPT ![r] = label]
      /\ UNCHANGED <<history, deletedAt, bytes, backup, written, todo, got, queue, clock>>
      /\ op' = [op EXCEPT ![r] = o] /\ doc' = [doc EXCEPT ![r] = d] /\ head' = [head EXCEPT ![r] = HeadOf(d)]
      /\ contended' = contended \cup {e \in {d} : \/ o = "upload" /\ Exists(e)
                                                  \/ \E q \in Requests \ {r} : WorksOn(q, e)}
  BY DEF Begin, Goto, Contend, rows
<1>2. /\ doc \in [Requests -> Docs \cup {None}] /\ DOMAIN head = Requests /\ contended \subseteq Docs
      /\ op \in [Requests -> Operations \cup {None}] /\ seen \in [Requests -> Int] /\ ListedInv(r)
  BY DEF Inv, TypeInv, CopiesInv, CopiesTypeInv
<1>3. queue'[r] = {} /\ doc'[r] = d
  BY <1>1, <1>2 DEF ListedInv
<1>4. \A e \in Docs \ contended' : WorksOn(r, e)' => \A q \in Requests \ {r} : ~ WorksOn(q, e)
  BY <1>1, <1>3 DEF WorksOn
<1>5. ListedInv(r)'
  BY <1>1, <1>3 DEF ListedInv, Inv, TypeInv, Labels, Calls
<1>6. /\ contended \subseteq contended' /\ contended' \subseteq Docs /\ DOMAIN head' = Requests
      /\ \A q \in Requests \ {r} : /\ op'[q] = op[q] /\ doc'[q] = doc[q] /\ seen'[q] = seen[q]
                                   /\ head'[q] = head[q] /\ queue'[q] = queue[q]
  BY <1>1, <1>2
<1>7. label \in Labels /\ label # "idle" /\ pc[r] \in {"idle", "sweep"}
  BY <1>1 DEF Labels, Calls
<1> QED  BY <1>1, <1>3, <1>4, <1>5, <1>6, <1>7, TakeUp

LEMMA ComingIn ==
    ASSUME Inv, CopiesInv, NEW r \in Requests, NEW d \in Docs,
           BeginUpload(r, d) \/ BeginAddVersion(r, d) \/ BeginSoftDelete(r, d) \/ BeginRecover(r, d)
    PROVE  CopiesInv'
<1>0. /\ history[d] \in Seq(Int) /\ deletedAt[d] \in Int /\ DOMAIN head = Requests
      /\ pc \in [Requests -> Labels] /\ seen \in [Requests -> Int] /\ op \in [Requests -> Operations \cup {None}]
      /\ d \notin contended => SoundInv(d)
  BY DEF Inv, TypeInv, CopiesInv, CopiesTypeInv
<1>1. ASSUME NEW o \in Operations, Begin(r, o, d), NEW label \in Calls, Goto(r, label)
      PROVE  /\ UNCHANGED <<history, deletedAt, bytes, backup, written, clock>>
             /\ op'[r] = o /\ head'[r] = HeadOf(d) /\ pc'[r] = label
             /\ contended \subseteq contended' /\ (o = "upload" /\ Exists(d) => d \in contended')
  BY <1>0, <1>1 DEF Begin, Contend, Goto, rows
<1>2. CASE BeginUpload(r, d)
  <2>1. Begin(r, "upload", d) /\ seen' = [seen EXCEPT ![r] = 0] /\ Goto(r, "put")
    BY <1>2 DEF BeginUpload
  <2>2. /\ UNCHANGED <<history, deletedAt, bytes, backup, written, clock>>
        /\ op'[r] = "upload" /\ pc'[r] = "put" /\ seen'[r] = 0
        /\ contended \subseteq contended' /\ (Exists(d) => d \in contended')
    BY <1>0, <1>1, <2>1 DEF Operations, Calls
  <2>3. ASSUME d \notin contended' PROVE CallInv(r, d)'
    <3>1. ~ Exists(d) /\ ~ Trashed(d) /\ Len(history[d]) = 0
      BY <1>0, <2>2, <2>3 DEF SoundInv, Exists
    <3>2. 0 + 1 \in Keys
      BY DocumentsAssumption DEF Keys
    <3>3. /\ ~ Trashed(d)' /\ ~ Exists(d)' /\ seen'[r] = Len(history'[d])
          /\ seen'[r] + 1 \in Keys /\ op'[r] = "upload"
      BY <2>2, <3>1, <3>2 DEF Trashed, Exists
    <3> QED  BY <2>2, <3>3 DEF CallInv
  <2>4. PICK s \in Int : s = 0
    OBVIOUS
  <2>5. seen' = [seen EXCEPT ![r] = s]
    BY <2>1, <2>4
  <2> QED  BY <2>1, <2>3, <2>5, OneBegins DEF Operations, Calls
<1>3. CASE BeginAddVersion(r, d)
  <2>1. /\ Begin(r, "addVersion", d) /\ seen' = [seen EXCEPT ![r] = Len(history[d])] /\ Goto(r, "put")
        /\ Exists(d) /\ ~ Trashed(d) /\ Len(history[d]) < MaxVersions /\ Len(history[d]) \in Nat
    BY <1>0, <1>3 DEF BeginAddVersion, Trashed
  <2>2. /\ UNCHANGED <<history, deletedAt, bytes, backup, written, clock>>
        /\ contended \subseteq contended' /\ op'[r] = "addVersion" /\ pc'[r] = "put" /\ seen'[r] = Len(history[d])
    BY <1>0, <1>1, <2>1 DEF Operations, Calls
  <2>3. ASSUME d \notin contended' PROVE CallInv(r, d)'
    <3>1. Len(history[d]) + 1 \in Keys
      BY <1>0, <2>1, <2>2, <2>3, DocumentsAssumption DEF SoundInv, Keys
    <3>2. /\ ~ Trashed(d)' /\ Exists(d)' /\ op'[r] # "upload" /\ seen'[r] = Len(history'[d])
          /\ seen'[r] + 1 \in Keys
      BY <2>1, <2>2, <3>1 DEF Trashed, Exists
    <3> QED  BY <2>2, <3>2 DEF CallInv
  <2>4. PICK s \in Int : s = Len(history[d])
    BY <2>1
  <2>5. seen' = [seen EXCEPT ![r] = s]
    BY <2>1, <2>4
  <2> QED  BY <2>1, <2>3, <2>5, OneBegins DEF Operations, Calls
<1>4. CASE BeginSoftDelete(r, d)
  <2>1. Begin(r, "softDelete", d) /\ Goto(r, "copy") /\ Exists(d) /\ ~ Trashed(d) /\ UNCHANGED seen
    BY <1>4 DEF BeginSoftDelete, Trashed
  <2>2. /\ UNCHANGED <<history, deletedAt, bytes, backup, written, clock>>
        /\ contended \subseteq contended' /\ pc'[r] = "copy" /\ head'[r] = HeadOf(d)
    BY <1>1, <2>1 DEF Operations, Calls
  <2>3. ASSUME d \notin contended' PROVE CallInv(r, d)'
    <3>1. HeadOf(d) \in Versions(d)
      BY <1>0, <2>1, <2>2, <2>3 DEF HeadOf, Exists, SoundInv, Versions
    <3>2. ~ Trashed(d)' /\ Exists(d)' /\ head'[r] \in Versions(d)'
      BY <2>1, <2>2, <3>1 DEF Trashed, Exists, Versions
    <3> QED  BY <2>2, <3>2 DEF CallInv
  <2>4. seen[r] \in Int /\ seen' = [seen EXCEPT ![r] = seen[r]]
    BY <1>0, <2>1
  <2> QED  BY <2>1, <2>3, <2>4, OneBegins DEF Operations, Calls
<1>5. CASE BeginRecover(r, d)
  <2>1. /\ Begin(r, "recover", d) /\ seen' = [seen EXCEPT ![r] = deletedAt[d]] /\ Goto(r, "window")
        /\ Trashed(d)
    BY <1>5 DEF BeginRecover, Trashed
  <2>2. /\ UNCHANGED <<history, deletedAt, bytes, backup, written, clock>>
        /\ pc'[r] = "window" /\ seen'[r] = deletedAt'[d]
    BY <1>0, <1>1, <2>1 DEF Operations, Calls
  <2>3. CallInv(r, d)'
    BY <2>1, <2>2 DEF CallInv, Trashed
  <2> QED  BY <1>0, <2>1, <2>3, OneBegins DEF Operations, Calls
<1> QED  BY <1>2, <1>3, <1>4, <1>5

\* A sweep lists the documents as it finds them.
LEMMA ComingSweeps ==
    ASSUME Inv, CopiesInv, NEW r \in Requests, BeginPurgeExpired(r) \/ BeginRetention(r)
    PROVE  CopiesInv'
<1>1. PICK ds : ds = IF BeginPurgeExpired(r)
                     THEN {d \in Docs : /\ Exists(d) /\ deletedAt[d] # NotDeleted
                                        /\ ~ WithinWindow(deletedAt[d], clock)}
                     ELSE {d \in Docs : /\ Exists(d) /\ deletedAt[d] = NotDeleted /\ ~ archived[d]
                                        /\ RetentionOf[d].until <= clock}
  OBVIOUS
<1>2. PICK o \in {"purgeExpired", "applyDueRetention"} :
         /\ op' = [op EXCEPT ![r] = o]
         /\ queue' = [queue EXCEPT ![r] = {<<d, deletedAt[d], HeadOf(d)>> : d \in ds}]
         /\ ds \subseteq {d \in Docs : /\ Exists(d)
                                       /\ o = "purgeExpired" => Trashed(d) /\ ~ Recoverable(d)
                                       /\ o # "purgeExpired" => ~ Trashed(d)}
  <2>1. CASE BeginPurgeExpired(r)
    <3>1. ds = {d \in Docs : Exists(d) /\ deletedAt[d] # NotDeleted /\ ~ WithinWindow(deletedAt[d], clock)}
      BY <1>1, <2>1
    <3>2. /\ op' = [op EXCEPT ![r] = "purgeExpired"]
          /\ queue' = [queue EXCEPT ![r] = {<<d, deletedAt[d], HeadOf(d)>> : d \in ds}]
      BY <2>1, <3>1 DEF BeginPurgeExpired
    <3> QED  BY <3>1, <3>2 DEF Trashed, Recoverable
  <2>2. CASE ~ BeginPurgeExpired(r)
    <3>1. ds = {d \in Docs : /\ Exists(d) /\ deletedAt[d] = NotDeleted /\ ~ archived[d]
                             /\ RetentionOf[d].until <= clock}
      BY <1>1, <2>2
    <3>2. /\ op' = [op EXCEPT ![r] = "applyDueRetention"]
          /\ queue' = [queue EXCEPT ![r] = {<<d, NotDeleted, HeadOf(d)>> : d \in ds}]
      BY <2>2, <3>1 DEF BeginRetention
    <3>3. {<<d, NotDeleted, HeadOf(d)>> : d \in ds} = {<<d, deletedAt[d], HeadOf(d)>> : d \in ds}
      BY <3>1
    <3> QED  BY <3>1, <3>2, <3>3 DEF Trashed
  <2> QED  BY <2>1, <2>2
<1>3. /\ pc[r] = "idle" /\ pc' = [pc EXCEPT ![r] = "sweep"]
      /\ UNCHANGED <<history, deletedAt, bytes, backup, written, doc, seen, head, todo, got, clock>>
      /\ contended' = contended \cup {e \in ds : \E q \in Requests \ {r} : WorksOn(q, e)}
  BY <1>1 DEF BeginPurgeExpired, BeginRetention, Goto, Contend, rows
<1>4. /\ op \in [Requests -> Operations \cup {None}] /\ DOMAIN queue = Requests /\ contended \subseteq Docs
      /\ DOMAIN head = Requests /\ ListedInv(r) /\ pc \in [Requests -> Labels]
      /\ \A d \in Docs \ contended : SoundInv(d)
      /\ \A d \in Docs : history[d] \in Seq(Int)
  BY DEF Inv, TypeInv, CopiesInv, CopiesTypeInv
<1>5. doc[r] = None /\ queue'[r] = {<<d, deletedAt[d], HeadOf(d)>> : d \in ds} /\ op'[r] = o /\ pc'[r] = "sweep"
  BY <1>2, <1>3, <1>4 DEF ListedInv
<1>6. \A e \in queue'[r] : /\ e[1] \in ds /\ e[2] = deletedAt[e[1]] /\ e[3] = HeadOf(e[1])
                           /\ e = <<e[1], e[2], e[3]>>
  BY <1>5
<1>7. \A e \in Docs \ contended' : WorksOn(r, e)' => \A q \in Requests \ {r} : ~ WorksOn(q, e)
  BY <1>3, <1>5, <1>6, DocumentsAssumption DEF WorksOn
<1>8. ListedInv(r)'
  <2>1. \A e, f \in queue'[r] : e[1] = f[1] => e = f
    BY <1>6
  <2>2. \A e \in queue'[r] : e[1] # doc'[r]
    BY <1>2, <1>3, <1>5, <1>6, DocumentsAssumption
  <2>3. ASSUME NEW e \in queue'[r], e[1] \notin contended'
        PROVE  /\ Exists(e[1])' /\ e[3] \in Versions(e[1])'
               /\ op'[r] = "purgeExpired" => Trashed(e[1])' /\ ~ Recoverable(e[1])'
               /\ op'[r] # "purgeExpired" => ~ Trashed(e[1])'
    <3>1. PICK d \in Docs : d = e[1]
      BY <1>2, <1>6
    <3>2. /\ Exists(d) /\ SoundInv(d) /\ history[d] \in Seq(Int)
          /\ op'[r] = "purgeExpired" => Trashed(d) /\ ~ Recoverable(d)
          /\ op'[r] # "purgeExpired" => ~ Trashed(d)
      BY <1>2, <1>3, <1>4, <1>5, <1>6, <2>3, <3>1
    <3>3. HeadOf(d) \in Versions(d)
      BY <3>2 DEF HeadOf, Exists, SoundInv, Versions
    <3>4. /\ Exists(d)' /\ e[3] \in Versions(d)'
          /\ op'[r] = "purgeExpired" => Trashed(d)' /\ ~ Recoverable(d)'
          /\ op'[r] # "purgeExpired" => ~ Trashed(d)'
      BY <1>3, <1>6, <3>1, <3>2, <3>3 DEF Exists, Versions, Trashed, Recoverable
    <3> QED  BY <3>1, <3>4
  <2> QED  BY <1>5, <2>1, <2>2, <2>3 DEF ListedInv
<1>9. /\ contended \subseteq contended' /\ contended' \subseteq Docs /\ DOMAIN head' = Requests
      /\ doc'[r] = None /\ "sweep" \notin Calls /\ "sweep" \in Labels
      /\ \A q \in Requests \ {r} : /\ op'[q] = op[q] /\ doc'[q] = doc[q] /\ seen'[q] = seen[q]
                                   /\ head'[q] = head[q] /\ queue'[q] = queue[q]
  BY <1>2, <1>3, <1>4, <1>5 DEF Calls, Labels
<1> QED  BY <1>3, <1>7, <1>8, <1>9, TakeUp

\* The next document of a sweep is as it was listed, unless another request had it.
LEMMA Visiting ==
    ASSUME Inv, CopiesInv, NEW r \in Requests, Visit(r)
    PROVE  CopiesInv'
<1> USE DEF rows, ghosts
<1>0. /\ pc \in [Requests -> Labels] /\ doc \in [Requests -> Docs \cup {None}] /\ seen \in [Requests -> Int]
      /\ DOMAIN queue = Requests /\ DOMAIN head = Requests /\ \A e \in queue[r] : e[1] \in Docs
      /\ ListedInv(r) /\ AloneInv /\ contended \subseteq Docs
  BY DEF Inv, TypeInv, CopiesInv, CopiesTypeInv
<1>1. PICK e \in queue[r] :
         /\ doc' = [doc EXCEPT ![r] = e[1]] /\ seen' = [seen EXCEPT ![r] = e[2]]
         /\ head' = [head EXCEPT ![r] = e[3]] /\ queue' = [queue EXCEPT ![r] = @ \ {e}]
         /\ Goto(r, IF op[r] = "purgeExpired" THEN "purge"
                    ELSE IF RetentionOf[e[1]].action = "archive" THEN "archive" ELSE "copy")
  BY DEF Visit
<1>2. PICK label \in {"purge", "archive", "copy"} :
         pc' = [pc EXCEPT ![r] = label] /\ (label = "purge" <=> op[r] = "purgeExpired")
  BY <1>1 DEF Goto
<1>3. /\ UNCHANGED <<history, deletedAt, bytes, backup, written, op, todo, got, clock, contended>> /\ pc[r] = "sweep"
  BY DEF Visit
<1>4. PICK d \in Docs : d = e[1]
  BY <1>0
<1>5. /\ doc'[r] = d /\ head'[r] = e[3] /\ queue'[r] = queue[r] \ {e} /\ pc'[r] = label /\ DOMAIN head' = Requests
      /\ \A q \in Requests \ {r} : /\ op'[q] = op[q] /\ doc'[q] = doc[q] /\ seen'[q] = seen[q]
                                   /\ head'[q] = head[q] /\ queue'[q] = queue[q]
  BY <1>0, <1>1, <1>2, <1>3, <1>4
<1>6. Active(r)
  BY <1>3 DEF Active
<1>7. \A c \in Docs \ contended' : WorksOn(r, c)' => \A q \in Requests \ {r} : ~ WorksOn(q, c)
  <2> SUFFICES ASSUME NEW c \in Docs \ contended, WorksOn(r, c)' PROVE \A q \in Requests \ {r} : ~ WorksOn(q, c)
    BY <1>3
  <2>1. WorksOn(r, c)
    BY <1>4, <1>5, <1>6 DEF WorksOn
  <2> QED  BY <1>0, <2>1 DEF AloneInv
<1>8. ListedInv(r)'
  <2>1. \A f, g \in queue'[r] : f[1] = g[1] => f = g
    BY <1>0, <1>5 DEF ListedInv
  <2>2. \A f \in queue'[r] : f[1] # doc'[r]
    BY <1>0, <1>1, <1>4, <1>5 DEF ListedInv
  <2>3. ASSUME NEW f \in queue'[r], f[1] \notin contended
        PROVE  /\ Exists(f[1])' /\ f[3] \in Versions(f[1])'
               /\ op'[r] = "purgeExpired" => Trashed(f[1])' /\ ~ Recoverable(f[1])'
               /\ op'[r] # "purgeExpired" => ~ Trashed(f[1])'
    BY <1>0, <1>3, <1>5, <1>6, <2>3 DEF ListedInv, Exists, Versions, Trashed, Recoverable
  <2>4. pc'[r] # "idle"
    BY <1>2, <1>5
  <2> QED  BY <1>3, <2>1, <2>2, <2>3, <2>4 DEF ListedInv
<1>9. ASSUME d \notin contended PROVE CallInv(r, d)'
  <2>1. /\ Exists(d) /\ e[3] \in Versions(d)
        /\ op[r] = "purgeExpired" => Trashed(d) /\ ~ Recoverable(d)
        /\ op[r] # "purgeExpired" => ~ Trashed(d)
    BY <1>0, <1>4, <1>6, <1>9 DEF ListedInv
  <2>2. /\ Exists(d)' /\ head'[r] \in Versions(d)'
        /\ label = "purge" => Trashed(d)' /\ ~ Recoverable(d)'
        /\ label # "purge" => ~ Trashed(d)'
    BY <1>2, <1>3, <1>5, <2>1 DEF Exists, Versions, Trashed, Recoverable
  <2> QED  BY <1>2, <1>5, <2>2 DEF CallInv
<1>10. label \in Labels /\ label # "idle" /\ pc[r] \in {"idle", "sweep"}
  BY <1>3 DEF Labels, Calls
<1>11. contended \subseteq contended' /\ contended' \subseteq Docs /\ (d \notin contended' => CallInv(r, d)')
  BY <1>0, <1>3, <1>9
<1> QED  BY <1>2, <1>3, <1>5, <1>7, <1>8, <1>10, <1>11, TakeUp

\* A sweep ends, or breaks off between two documents.
LEMMA SweepsEnd ==
    ASSUME Inv, CopiesInv, NEW r \in Requests, pc[r] = "sweep", SweepEnds(r) \/ Fail(r)
    PROVE  CopiesInv'
<1> USE DEF rows, locals, ghosts
<1>0. /\ pc \in [Requests -> Labels] /\ doc \in [Requests -> Docs \cup {None}] /\ DOMAIN head = Requests
      /\ ListedInv(r) /\ contended \subseteq Docs
  BY DEF Inv, TypeInv, CopiesInv, CopiesTypeInv
<1>1. PICK label \in {"done", "failed"} : pc' = [pc EXCEPT ![r] = label]
  BY DEF SweepEnds, Fail, Goto
<1>2. UNCHANGED <<history, deletedAt, bytes, backup, written, op, doc, seen, head, todo, got, queue, clock, contended>>
  BY DEF SweepEnds, Fail
<1>3. pc'[r] = label /\ label \in Labels /\ label # "idle" /\ label \notin Calls /\ pc[r] \in {"idle", "sweep"}
  BY <1>0, <1>1 DEF Labels, Calls
<1>4. ~ Active(r)'
  BY <1>1, <1>3 DEF Active
<1>5. ListedInv(r)'
  BY <1>0, <1>2, <1>3, <1>4 DEF ListedInv
<1>6. \A c \in Docs \ contended' : WorksOn(r, c)' => \A q \in Requests \ {r} : ~ WorksOn(q, c)
  BY <1>4 DEF WorksOn
<1>7. PICK d \in Docs \cup {None} : d = doc'[r]
  BY <1>0, <1>2
<1> QED  BY <1>0, <1>1, <1>2, <1>3, <1>5, <1>6, <1>7, TakeUp

\* Time only closes recovery windows: no mark is of the future.
LEMMA TimePasses ==
    ASSUME Inv, CopiesInv, Tick
    PROVE  CopiesInv'
<1> USE DEF rows, locals, ghosts
<1>0. /\ clock \in Nat /\ \A e \in Docs : deletedAt[e] \in Int
      /\ \A q \in Requests : pc[q] \in Calls => doc[q] \in Docs
      /\ \A q \in Requests : \A e \in queue[q] : e[1] \in Docs
  BY DEF Inv, TypeInv, HandInv
<1>1. /\ UNCHANGED <<history, deletedAt, bytes, backup, written, pc, op, doc, seen, head, todo, got, queue, contended>>
      /\ clock' = clock + 1
  BY DEF Tick
<1>2. ASSUME NEW e \in Docs, Trashed(e) PROVE Recoverable(e)' => Recoverable(e)
  <2>1. deletedAt[e] \in Int /\ deletedAt[e] <= clock
    BY <1>0, <1>2 DEF Trashed, Inv, MarksInv
  <2> QED  BY <1>0, <1>1, <2>1, DocumentsAssumption DEF Recoverable, WithinWindow
<1>3. CopiesTypeInv' /\ AloneInv'
  BY <1>1 DEF CopiesInv, CopiesTypeInv, AloneInv, WorksOn, Active
<1>4. ASSUME NEW e \in Docs \ contended PROVE SoundInv(e)'
  BY <1>1, <1>2, <1>4 DEF CopiesInv, SoundInv, Exists, Versions, Whole, Backed, Trashed
<1>5. ASSUME NEW q \in Requests PROVE ListedInv(q)'
  <2>1. ListedInv(q)
    BY DEF CopiesInv
  <2>2. ASSUME Active(q)', NEW e \in queue[q], e[1] \notin contended
        PROVE  /\ Exists(e[1])' /\ e[3] \in Versions(e[1])'
               /\ op[q] = "purgeExpired" => Trashed(e[1])' /\ ~ Recoverable(e[1])'
               /\ op[q] # "purgeExpired" => ~ Trashed(e[1])'
    <3>1. PICK c \in Docs : c = e[1]
      BY <1>0
    <3>2. Active(q)
      BY <1>1, <2>2 DEF Active
    <3>3. /\ Exists(c) /\ e[3] \in Versions(c)
          /\ op[q] = "purgeExpired" => Trashed(c) /\ ~ Recoverable(c)
          /\ op[q] # "purgeExpired" => ~ Trashed(c)
      BY <2>1, <2>2, <3>1, <3>2 DEF ListedInv
    <3>4. /\ Exists(c)' /\ e[3] \in Versions(c)'
          /\ op[q] = "purgeExpired" => Trashed(c)' /\ ~ Recoverable(c)'
          /\ op[q] # "purgeExpired" => ~ Trashed(c)'
      BY <1>1, <1>2, <3>3 DEF Exists, Versions, Trashed
    <3> QED  BY <3>1, <3>4
  <2> QED  BY <1>1, <2>1, <2>2 DEF ListedInv
<1>6. ASSUME NEW q \in Requests, pc[q] \in Calls, doc[q] \notin contended PROVE CallInv(q, doc[q])'
  <2>1. PICK c \in Docs : c = doc[q]
    BY <1>0, <1>6
  <2>2. CallInv(q, c)
    BY <1>6, <2>1 DEF CopiesInv
  <2>3. pc[q] \in {"purge", "delete"} => ~ Recoverable(c)'
    BY <1>2, <2>2 DEF CallInv
  <2>4. CallInv(q, c)'
    BY <1>1, <2>2, <2>3 DEF CallInv, Exists, Versions, Backed, Trashed
  <2>5. doc'[q] = c
    BY <1>1, <2>1
  <2> QED  BY <2>4, <2>5
<1> QED  BY <1>1, <1>3, <1>4, <1>5, <1>6 DEF CopiesInv

LEMMA CopiesInitially == Init => CopiesInv
<1> SUFFICES ASSUME Init PROVE CopiesInv
  OBVIOUS
<1>1. Original1 \in Copies /\ NoBytes \in Copies
  BY DEF Original1, NoBytes, Copies
<1>2. CopiesTypeInv
  <2>1. bytes \in [Docs -> Copies] /\ got \in [Requests -> Copies]
    BY <1>1 DEF Init
  <2>2. written \in [Docs -> Seq(Requests \cup {Original})]
    <3>1. <<Original>> \in Seq(Requests \cup {Original}) /\ <<>> \in Seq(Requests \cup {Original})
      OBVIOUS
    <3> QED  BY <3>1 DEF Init
  <2>3. backup \in [Docs -> Copies \cup {None}] /\ DOMAIN todo = Requests /\ DOMAIN head = Requests
        /\ contended \subseteq Docs
    BY DEF Init
  <2> QED  BY <2>1, <2>2, <2>3 DEF CopiesTypeInv
<1>3. AloneInv
  BY DEF Init, AloneInv, WorksOn, Active
<1>4. ASSUME NEW d \in Docs PROVE SoundInv(d)
  <2>1. deletedAt[d] = NotDeleted
    BY DEF Init
  <2>2. CASE d \in Uploaded
    <3>1. history[d] = <<1>> /\ written[d] = <<Original>> /\ bytes[d] = Original1
      BY <2>2 DEF Init
    <3>2. 1 \in Keys /\ Original1[1] = Original
      BY DocumentsAssumption DEF Original1, Keys
    <3>3. MaxVersions >= 1 /\ Versions(d) = {1}
      BY <3>1, DocumentsAssumption DEF Versions
    <3> QED  BY <2>1, <3>1, <3>2, <3>3 DEF SoundInv, Exists, Trashed, Whole
  <2>3. CASE d \notin Uploaded
    BY <2>1, <2>3 DEF Init, SoundInv, Exists, Trashed
  <2> QED  BY <2>2, <2>3
<1>5. \A r \in Requests : ListedInv(r)
  BY DEF Init, ListedInv
<1>6. \A r \in Requests : pc[r] \notin Calls
  BY DEF Init, Calls
<1> QED  BY <1>2, <1>3, <1>4, <1>5, <1>6 DEF CopiesInv

LEMMA CopiesKept == Inv /\ CopiesInv /\ [Next]_vars => CopiesInv'
<1> SUFFICES ASSUME Inv, CopiesInv, [Next]_vars PROVE CopiesInv'
  OBVIOUS
<1>1. CASE Tick
  BY <1>1, TimePasses
<1>2. ASSUME NEW r \in Requests, Step(r) PROVE CopiesInv'
  <2>1. CASE \E d \in Docs : BeginUpload(r, d) \/ BeginAddVersion(r, d) \/ BeginSoftDelete(r, d) \/ BeginRecover(r, d)
    BY <2>1, ComingIn
  <2>2. CASE Put(r) \/ Write(r)
    BY <2>2, Putting, Writing
  <2>3. CASE Copy(r) \/ Get(r) \/ Capture(r) \/ MarkDeleted(r)
    BY <2>3, Copying, Getting, Capturing, Trashing
  <2>4. CASE CheckWindow(r) \/ Purge(r) \/ MarkArchived(r)
    BY <2>4, Reading
  <2>5. CASE Fetch(r) \/ Restore(r) \/ Rewrite(r) \/ ClearDeleted(r) \/ Discard(r)
    BY <2>5, Fetching, Restoring, Rewriting, Clearing, Discarding
  <2>6. CASE Delete(r) \/ Remove(r)
    BY <2>6, Deleting, Removing
  <2>7. CASE BeginPurgeExpired(r) \/ BeginRetention(r)
    BY <2>7, ComingSweeps
  <2>8. CASE Visit(r)
    BY <2>8, Visiting
  <2>9. CASE SweepEnds(r)
    BY <2>9, SweepsEnd DEF SweepEnds
  <2>10. CASE Fail(r)
    <3>1. pc[r] \in Calls \/ pc[r] = "sweep"
      BY <2>10 DEF Fail, Active, Inv, TypeInv, Labels
    <3> QED  BY <2>10, <3>1, Reading, SweepsEnd
  <2> QED  BY <1>2, <2>1, <2>2, <2>3, <2>4, <2>5, <2>6, <2>7, <2>8, <2>9, <2>10 DEF Step
<1>3. CASE UNCHANGED vars
  <2>1. /\ UNCHANGED <<history, deletedAt, bytes, backup, written, pc, op, doc, seen, head, todo, got, queue, contended>>
        /\ UNCHANGED clock
    BY <1>3 DEF vars, rows, locals, ghosts
  <2>2. CopiesTypeInv' /\ AloneInv'
    BY <2>1 DEF CopiesInv, CopiesTypeInv, AloneInv, WorksOn, Active
  <2>3. \A e \in Docs : SameDoc(e)
    BY <2>1 DEF SameDoc
  <2>4. \A q \in Requests : SameRequest(q)
    BY <2>1 DEF SameRequest
  <2>5. ASSUME NEW e \in Docs \ contended PROVE SoundInv(e)'
    BY <2>1, <2>3, SoundSame DEF CopiesInv
  <2>6. ASSUME NEW q \in Requests PROVE ListedInv(q)'
    BY <2>1 DEF CopiesInv, ListedInv, Active, Exists, Versions, Trashed, Recoverable
  <2>7. ASSUME NEW q \in Requests, pc[q] \in Calls, doc[q] \notin contended PROVE CallInv(q, doc[q])'
    <3>1. PICK c \in Docs : c = doc[q]
      BY <2>7 DEF Inv, HandInv
    <3>2. CallInv(q, c)'
      BY <2>1, <2>3, <2>4, <2>7, <3>1, CallSame DEF CopiesInv
    <3>3. doc'[q] = c
      BY <2>1, <3>1
    <3> QED  BY <3>2, <3>3
  <2> QED  BY <2>1, <2>2, <2>5, <2>6, <2>7 DEF CopiesInv
<1> QED  BY <1>1, <1>2, <1>3 DEF Next

\* The bytes of every version of a document nobody worked on concurrently, and whose
\* id no upload was given while it was there, can be had as they were uploaded, from
\* the store or, while it can be recovered, from the backup, at whatever call an
\* upload, a deletion, a recovery or a sweep stopped.
THEOREM HistoryStaysRetrievable == Spec => []HistoryRetrievable
<1>1. Init => Inv /\ CopiesInv
  BY Initially, CopiesInitially
<1>2. Inv /\ CopiesInv /\ [Next]_vars => (Inv /\ CopiesInv)'
  BY Preserved, CopiesKept
<1>3. Inv /\ CopiesInv => HistoryRetrievable
  <2> SUFFICES ASSUME Inv, CopiesInv, NEW d \in Docs \ contended, NEW i \in DOMAIN history[d]
               PROVE  /\ deletedAt[d] = NotDeleted => bytes[d][history[d][i]] = written[d][i]
                      /\ deletedAt[d] # NotDeleted /\ WithinWindow(deletedAt[d], clock) =>
                             backup[d] # None /\ backup[d][history[d][i]] = written[d][i]
    BY DEF HistoryRetrievable
  <2>1. history[d] \in Seq(Int) /\ SoundInv(d)
    BY DEF Inv, TypeInv, CopiesInv
  <2>2. i \in Versions(d) /\ Exists(d)
    BY <2>1 DEF Versions, Exists
  <2>3. history[d][i] = i
    BY <2>1, <2>2 DEF SoundInv
  <2>4. None \notin Copies
    BY DocumentsAssumption DEF Copies, Keys
  <2> QED  BY <2>1, <2>2, <2>3, <2>4 DEF SoundInv, Whole, Backed, Trashed, Recoverable
<1> QED  BY <1>1, <1>2, <1>3, PTL DEF Spec

-----------------------------------------------------------------------------
(* BackupService.                                                          *)

Phases == {"idle", "capture", "put", "verify", "record", "read", "restore", "remove", "next", "delete", "done"}
\* Where a job takes a backup, where it has captured the live store, where it reads one
\* back and where it removes one.
TakingUp == {"capture", "put", "verify", "record"}
Taken == {"put", "verify", "record"}
ReadingBack == {"read", "restore"}
TakingDown == {"remove", "delete"}
CatalogEntries == [point : Nat, created : Nat, checksum : Nat \cup {None}, status : {None, "verified", "failed"}]

BackupTypeInv ==
    /\ now \in Nat /\ live \in Nat /\ writes \in Nat
    /\ DOMAIN snapshot = BackupIds /\ DOMAIN catalog = BackupIds /\ DOMAIN held = Requests
    /\ phase \in [Requests -> Phases] /\ DOMAIN kind = Requests
    /\ DOMAIN draft = Requests /\ DOMAIN chosen = Requests /\ sweep \in [Requests -> SUBSET BackupIds]
    /\ captured \in [BackupIds -> SUBSET Nat]

\* A job has what the code has in hand at the call it awaits.
HoldsInHand(j) ==
    /\ phase[j] \in TakingUp \cup ReadingBack => draft[j] \in CatalogEntries /\ chosen[j] \in BackupIds
    /\ phase[j] \in TakingDown => chosen[j] \in BackupIds
    /\ phase[j] \notin TakingUp \cup ReadingBack \cup TakingDown => chosen[j] = None
    /\ phase[j] \in Taken \cup ReadingBack => draft[j].checksum \in captured[chosen[j]]
    /\ phase[j] = "restore" => held[j] = draft[j].checksum
    /\ phase[j] \in TakingUp \cup TakingDown \cup {"next"} => kind[j] # "restore"
    /\ phase[j] \notin TakingDown \cup {"next"} => sweep[j] = {}

\* What a job knows of the stores, unless its backup's id was given to another.
Knows(j) ==
    /\ phase[j] = "record" /\ chosen[j] \notin reused /\ draft[j].status = "verified" =>
         snapshot[chosen[j]] \in {draft[j].checksum, Damaged}
    /\ phase[j] = "delete" /\ chosen[j] \notin reused => catalog[chosen[j]] = None

Takes(j, b) == phase[j] \in TakingUp /\ chosen[j] = b
JobInv == \A j \in Requests : HoldsInHand(j) /\ Knows(j)

\* A backup whose id nobody re-used is not listed yet, and nobody else changes it.
AloneWithId == \A j \in Requests, b \in BackupIds \ reused :
    Takes(j, b) => catalog[b] = None /\ \A i \in Requests \ {j} : ~ ChangesBackup(i, b)

EntryInv(b) ==
    /\ catalog[b] # None => catalog[b] \in CatalogEntries /\ catalog[b].checksum \in captured[b]
    /\ catalog[b] # None /\ b \notin reused /\ catalog[b].status = "verified" =>
         snapshot[b] \in {catalog[b].checksum, Damaged}
CatalogInv == \A b \in BackupIds : EntryInv(b)

BackupInv == BackupTypeInv /\ JobInv /\ AloneWithId /\ CatalogInv

LEMMA BackupInvInit ==
    ASSUME BackupAssumption, BackupInit PROVE BackupInv
<1> USE DEF BackupInit, Phases, TakingUp, Taken, ReadingBack, TakingDown
<1>1. BackupTypeInv
  BY DEF BackupTypeInv
<1>2. JobInv /\ AloneWithId
  BY DEF JobInv, HoldsInHand, Knows, AloneWithId, Takes
<1>3. CatalogInv
  BY DEF CatalogInv, EntryInv
<1> QED  BY <1>1, <1>2, <1>3 DEF BackupInv

\* A job takes a step: it disturbs the bytes and the entry only of a backup it changes.
LEMMA JobStep ==
    ASSUME BackupInv, NEW j \in Requests, BackupTypeInv',
           \A i \in Requests \ {j} :
               /\ phase'[i] = phase[i] /\ kind'[i] = kind[i] /\ draft'[i] = draft[i]
               /\ chosen'[i] = chosen[i] /\ held'[i] = held[i] /\ sweep'[i] = sweep[i],
           \A b \in BackupIds : captured[b] \subseteq captured'[b],
           reused \subseteq reused',
           HoldsInHand(j)', Knows(j)',
           \A b \in BackupIds \ reused' : ChangesBackup(j, b)' =>
               ChangesBackup(j, b) \/ \A i \in Requests : ~ Takes(i, b),
           \A b \in BackupIds \ reused' : Takes(j, b)' =>
               /\ catalog'[b] = catalog[b]
               /\ Takes(j, b) \/ (catalog[b] = None /\ \A i \in Requests : ~ ChangesBackup(i, b)),
           \A b \in BackupIds \ reused' :
               snapshot'[b] = snapshot[b] \/ (ChangesBackup(j, b) /\ catalog[b] = None /\ catalog'[b] = None),
           \A b \in BackupIds : catalog'[b] \in {catalog[b], None} \/ (Takes(j, b) /\ EntryInv(b)')
    PROVE  BackupInv'
<1>1. ASSUME NEW i \in Requests \ {j}, NEW b \in BackupIds
      PROVE  (ChangesBackup(i, b)' <=> ChangesBackup(i, b)) /\ (Takes(i, b)' <=> Takes(i, b))
  BY DEF ChangesBackup, Running, Takes
<1>2. ASSUME NEW i \in Requests, NEW b \in BackupIds, Takes(i, b) PROVE ChangesBackup(i, b)
  <2>1. HoldsInHand(i)
    BY DEF BackupInv, JobInv
  <2> QED  BY <1>2, <2>1 DEF Takes, ChangesBackup, Running, HoldsInHand, TakingUp
<1>3. ASSUME NEW i \in Requests \ {j} PROVE HoldsInHand(i)' /\ Knows(i)'
  <2>1. HoldsInHand(i) /\ Knows(i)
    BY DEF BackupInv, JobInv
  <2>2. /\ phase'[i] = phase[i] /\ kind'[i] = kind[i] /\ draft'[i] = draft[i]
        /\ chosen'[i] = chosen[i] /\ held'[i] = held[i] /\ sweep'[i] = sweep[i]
    OBVIOUS
  <2>3. HoldsInHand(i)'
    BY <2>1, <2>2 DEF HoldsInHand, TakingUp, Taken, ReadingBack
  <2>4. ASSUME phase[i] = "record", chosen[i] \notin reused' PROVE snapshot'[chosen[i]] = snapshot[chosen[i]]
    <3>1. chosen[i] \in BackupIds \ reused' /\ Takes(i, chosen[i])
      BY <2>1, <2>4 DEF HoldsInHand, Takes, TakingUp
    <3>2. ~ ChangesBackup(j, chosen[i])
      BY <3>1 DEF BackupInv, AloneWithId
    <3> QED  BY <3>1, <3>2
  <2>5. ASSUME phase[i] = "delete", chosen[i] \notin reused' PROVE catalog'[chosen[i]] = None
    <3>1. chosen[i] \in BackupIds \ reused' /\ ChangesBackup(i, chosen[i])
      BY <2>1, <2>5 DEF HoldsInHand, ChangesBackup, Running, TakingUp, TakingDown
    <3>2. ~ Takes(j, chosen[i])
      BY <3>1 DEF BackupInv, AloneWithId
    <3>3. catalog[chosen[i]] = None
      BY <2>1, <2>5, <3>1 DEF Knows
    <3> QED  BY <3>1, <3>2, <3>3
  <2>6. Knows(i)'
    <3>1. ASSUME phase'[i] = "record", chosen'[i] \notin reused', draft'[i].status = "verified"
          PROVE  snapshot'[chosen'[i]] \in {draft'[i].checksum, Damaged}
      BY <2>1, <2>2, <2>4, <3>1 DEF Knows
    <3>2. ASSUME phase'[i] = "delete", chosen'[i] \notin reused' PROVE catalog'[chosen'[i]] = None
      BY <2>2, <2>5, <3>2
    <3> QED  BY <3>1, <3>2 DEF Knows
  <2> QED  BY <2>3, <2>6
<1>4. JobInv'
  BY <1>3 DEF JobInv
<1>5. AloneWithId'
  <2> SUFFICES ASSUME NEW i \in Requests, NEW b \in BackupIds \ reused', Takes(i, b)'
               PROVE  catalog'[b] = None /\ \A k \in Requests \ {i} : ~ ChangesBackup(k, b)'
    BY DEF AloneWithId
  <2>1. CASE i = j
    <3>1. catalog[b] = None /\ \A k \in Requests \ {j} : ~ ChangesBackup(k, b)
      BY <2>1 DEF BackupInv, AloneWithId
    <3> QED  BY <1>1, <2>1, <3>1
  <2>2. CASE i # j
    <3>1. Takes(i, b)
      BY <1>1, <2>2
    <3>2. catalog[b] = None /\ \A k \in Requests \ {i} : ~ ChangesBackup(k, b)
      BY <3>1 DEF BackupInv, AloneWithId
    <3>3. ~ Takes(j, b)
      BY <1>2, <2>2, <3>2
    <3>4. ~ ChangesBackup(j, b)'
      BY <2>2, <3>1, <3>2
    <3> QED  BY <1>1, <3>2, <3>3, <3>4
  <2> QED  BY <2>1, <2>2
<1>6. CatalogInv'
  <2> SUFFICES ASSUME NEW b \in BackupIds PROVE EntryInv(b)'
    BY DEF CatalogInv
  <2>1. EntryInv(b)
    BY DEF BackupInv, CatalogInv
  <2>2. CASE catalog'[b] = catalog[b]
    BY <2>1, <2>2 DEF EntryInv
  <2>3. CASE catalog'[b] = None
    BY <2>3 DEF EntryInv
  <2> QED  BY <2>2, <2>3
<1> QED  BY <1>4, <1>5, <1>6 DEF BackupInv

\* A job moves on and leaves the stores alone: it changes no backup but a listed one it did not change before.
LEMMA JobMoves ==
    ASSUME BackupInv, NEW j \in Requests, BackupTypeInv', UNCHANGED <<snapshot, catalog, captured, reused>>,
           \A i \in Requests \ {j} :
               /\ phase'[i] = phase[i] /\ kind'[i] = kind[i] /\ draft'[i] = draft[i]
               /\ chosen'[i] = chosen[i] /\ held'[i] = held[i] /\ sweep'[i] = sweep[i],
           HoldsInHand(j)', Knows(j)',
           \A b \in BackupIds : ChangesBackup(j, b)' => ChangesBackup(j, b) \/ catalog[b] # None,
           \A b \in BackupIds : Takes(j, b)' => Takes(j, b)
    PROVE  BackupInv'
<1>1. \A b \in BackupIds : captured[b] \subseteq captured'[b]
  OBVIOUS
<1>2. ASSUME NEW b \in BackupIds \ reused', catalog[b] # None PROVE \A i \in Requests : ~ Takes(i, b)
  BY <1>2 DEF BackupInv, AloneWithId
<1>3. \A b \in BackupIds \ reused' : ChangesBackup(j, b)' => ChangesBackup(j, b) \/ \A i \in Requests : ~ Takes(i, b)
  BY <1>2
<1>4. reused \subseteq reused'
  OBVIOUS
<1>5. \A b \in BackupIds \ reused' : Takes(j, b)' =>
          /\ catalog'[b] = catalog[b]
          /\ Takes(j, b) \/ (catalog[b] = None /\ \A i \in Requests : ~ ChangesBackup(i, b))
  OBVIOUS
<1>6. \A b \in BackupIds \ reused' :
          snapshot'[b] = snapshot[b] \/ (ChangesBackup(j, b) /\ catalog[b] = None /\ catalog'[b] = None)
  OBVIOUS
<1>7. \A b \in BackupIds : catalog'[b] \in {catalog[b], None} \/ (Takes(j, b) /\ EntryInv(b)')
  OBVIOUS
<1> QED  BY <1>1, <1>3, <1>4, <1>5, <1>6, <1>7, JobStep

\* What a job that is over leaves.
LEMMA JobOver ==
    ASSUME BackupTypeInv, NEW j \in Requests, JobEnds(j)
    PROVE  /\ phase' \in [Requests -> Phases] /\ DOMAIN kind' = Requests /\ DOMAIN draft' = Requests
           /\ DOMAIN chosen' = Requests /\ DOMAIN held' = Requests /\ sweep' \in [Requests -> SUBSET BackupIds]
           /\ \A i \in Requests \ {j} :
                 /\ phase'[i] = phase[i] /\ kind'[i] = kind[i] /\ draft'[i] = draft[i]
                 /\ chosen'[i] = chosen[i] /\ held'[i] = held[i] /\ sweep'[i] = sweep[i]
           /\ HoldsInHand(j)' /\ Knows(j)'
           /\ \A b : ~ ChangesBackup(j, b)' /\ ~ Takes(j, b)'
<1> USE DEF Phases, TakingUp, Taken, ReadingBack, TakingDown
<1>1. /\ phase' \in [Requests -> Phases] /\ phase'[j] = "done" /\ sweep'[j] = {} /\ chosen'[j] = None
      /\ sweep' \in [Requests -> SUBSET BackupIds]
      /\ DOMAIN kind' = Requests /\ DOMAIN draft' = Requests
      /\ DOMAIN chosen' = Requests /\ DOMAIN held' = Requests
  BY DEF JobEnds, JobAwaits, BackupTypeInv
<1>2. \A i \in Requests \ {j} :
          /\ phase'[i] = phase[i] /\ kind'[i] = kind[i] /\ draft'[i] = draft[i]
          /\ chosen'[i] = chosen[i] /\ held'[i] = held[i] /\ sweep'[i] = sweep[i]
  BY DEF JobEnds, JobAwaits, BackupTypeInv
<1>3. HoldsInHand(j)' /\ Knows(j)'
  BY <1>1 DEF HoldsInHand, Knows
<1>4. \A b : ~ ChangesBackup(j, b)' /\ ~ Takes(j, b)'
  BY <1>1 DEF ChangesBackup, Running, Takes
<1> QED  BY <1>1, <1>2, <1>3, <1>4

\* The steps of a backup.
LEMMA BackupsKeep ==
    ASSUME BackupAssumption, BackupInv, NEW j \in Requests,
           BeginBackup(j) \/ CaptureLive(j) \/ PutSnapshot(j) \/ VerifyStored(j) \/ RecordBackup(j)
    PROVE  BackupInv'
<1> USE DEF stores, outside, told
<1>1. BackupTypeInv /\ HoldsInHand(j) /\ Knows(j)
  BY DEF BackupInv, JobInv
<1>2. CASE BeginBackup(j)
  <2>1. PICK b \in BackupIds, t \in 0..MaxBackupTime :
          /\ chosen' = [chosen EXCEPT ![j] = b]
          /\ draft' = [draft EXCEPT ![j] = [point |-> t, created |-> now, checksum |-> None, status |-> None]]
          /\ reused' = IF b \in Listed \/ \E i \in Requests : ChangesBackup(i, b) THEN reused \cup {b} ELSE reused
    BY <1>2 DEF BeginBackup
  <2>2. PICK d \in CatalogEntries : draft' = [draft EXCEPT ![j] = d]
    <3>1. t \in Nat /\ now \in Nat
      BY <1>1, <2>1 DEF BackupTypeInv, BackupAssumption
    <3>2. [point |-> t, created |-> now, checksum |-> None, status |-> None] \in CatalogEntries
      BY <3>1 DEF CatalogEntries
    <3> QED  BY <2>1, <3>2
  <2>3. /\ phase[j] = "idle" /\ JobAwaits(j, "capture") /\ kind' = [kind EXCEPT ![j] = "backup"]
        /\ UNCHANGED <<now, live, writes, snapshot, catalog, held, sweep, captured>>
    BY <1>2 DEF BeginBackup, Start
  <2>4. /\ phase'[j] = "capture" /\ kind'[j] = "backup" /\ draft'[j] = d /\ chosen'[j] = b /\ sweep'[j] = {}
        /\ \A i \in Requests \ {j} :
             /\ phase'[i] = phase[i] /\ kind'[i] = kind[i] /\ draft'[i] = draft[i]
             /\ chosen'[i] = chosen[i] /\ held'[i] = held[i] /\ sweep'[i] = sweep[i]
    BY <1>1, <2>1, <2>2, <2>3 DEF JobAwaits, BackupTypeInv, HoldsInHand, TakingDown
  <2>5. BackupTypeInv'
    BY <1>1, <2>1, <2>2, <2>3 DEF JobAwaits, BackupTypeInv, Phases
  <2>6. HoldsInHand(j)' /\ Knows(j)'
    BY <2>4 DEF HoldsInHand, Knows, TakingUp, Taken, ReadingBack, TakingDown
  <2>7. \A c : ChangesBackup(j, c)' \/ Takes(j, c)' => c = b
    BY <2>4 DEF ChangesBackup, Takes
  <2>8. b \notin reused' => catalog[b] = None /\ \A i \in Requests : ~ ChangesBackup(i, b)
    BY <2>1 DEF Listed
  <2>9. b \notin reused' => \A i \in Requests : ~ Takes(i, b)
    <3>1. ASSUME NEW i \in Requests, Takes(i, b) PROVE ChangesBackup(i, b)
      <4>1. HoldsInHand(i)
        BY DEF BackupInv, JobInv
      <4> QED  BY <3>1, <4>1 DEF Takes, ChangesBackup, Running, HoldsInHand, TakingUp
    <3> QED  BY <2>8, <3>1
  <2>10. reused \subseteq reused' /\ \A c \in BackupIds : captured[c] \subseteq captured'[c]
    BY <2>1, <2>3
  <2> QED  BY <2>3, <2>4, <2>5, <2>6, <2>7, <2>8, <2>9, <2>10, JobStep
<1>3. CASE CaptureLive(j)
  <2>1. PICK c \in BackupIds : c = chosen[j]
    BY <1>1, <1>3 DEF CaptureLive, HoldsInHand, TakingUp
  <2>2. draft[j] \in CatalogEntries /\ live \in Nat /\ phase[j] = "capture"
    BY <1>1, <1>3 DEF CaptureLive, HoldsInHand, TakingUp, BackupTypeInv
  <2>3. PICK d : d = [draft[j] EXCEPT !.checksum = live]
    OBVIOUS
  <2>4. d \in CatalogEntries /\ d.checksum = live
    BY <2>2, <2>3 DEF CatalogEntries
  <2>5. /\ JobAwaits(j, "put") /\ draft' = [draft EXCEPT ![j] = d]
        /\ captured' = [captured EXCEPT ![c] = @ \cup {live}]
        /\ UNCHANGED <<now, live, writes, snapshot, catalog, kind, chosen, held, sweep, reused>>
    BY <1>3, <2>1, <2>3 DEF CaptureLive
  <2>6. /\ phase'[j] = "put" /\ draft'[j] = d /\ live \in captured'[c]
        /\ \A b \in BackupIds : captured[b] \subseteq captured'[b]
        /\ \A i \in Requests \ {j} : phase'[i] = phase[i] /\ draft'[i] = draft[i]
    BY <1>1, <2>5 DEF JobAwaits, BackupTypeInv
  <2>7. BackupTypeInv'
    BY <1>1, <2>2, <2>5 DEF JobAwaits, BackupTypeInv, Phases
  <2>8. kind[j] # "restore" /\ sweep[j] = {}
    BY <1>1, <2>2 DEF HoldsInHand, TakingUp, TakingDown
  <2>9. HoldsInHand(j)' /\ Knows(j)'
    BY <2>1, <2>4, <2>5, <2>6, <2>8 DEF HoldsInHand, Knows, TakingUp, Taken, ReadingBack, TakingDown
  <2>10. \A b : (ChangesBackup(j, b)' => ChangesBackup(j, b)) /\ (Takes(j, b)' => Takes(j, b))
    BY <2>2, <2>5, <2>6 DEF ChangesBackup, Running, Takes, TakingUp
  <2> QED  BY <2>5, <2>6, <2>7, <2>9, <2>10, JobStep
<1>4. CASE PutSnapshot(j)
  <2>1. PICK c \in BackupIds : c = chosen[j]
    BY <1>1, <1>4 DEF PutSnapshot, HoldsInHand, TakingUp
  <2>2. PICK s : snapshot' = [snapshot EXCEPT ![c] = s]
    BY <1>4, <2>1 DEF PutSnapshot
  <2>3. /\ phase[j] = "put" /\ JobAwaits(j, "verify")
        /\ UNCHANGED <<now, live, writes, catalog, kind, draft, chosen, held, sweep, captured, reused>>
    BY <1>4 DEF PutSnapshot
  <2>4. phase'[j] = "verify" /\ \A i \in Requests \ {j} : phase'[i] = phase[i]
    BY <1>1, <2>3 DEF JobAwaits, BackupTypeInv
  <2>5. BackupTypeInv'
    BY <1>1, <2>2, <2>3 DEF JobAwaits, BackupTypeInv, Phases
  <2>6. HoldsInHand(j)' /\ Knows(j)'
    BY <1>1, <2>3, <2>4 DEF HoldsInHand, Knows, TakingUp, Taken, ReadingBack, TakingDown
  <2>7. \A b : (ChangesBackup(j, b)' => ChangesBackup(j, b)) /\ (Takes(j, b)' => Takes(j, b))
    BY <2>3, <2>4 DEF ChangesBackup, Running, Takes, TakingUp
  <2>8. Takes(j, c) /\ ChangesBackup(j, c)
    BY <1>1, <2>1, <2>3 DEF Takes, ChangesBackup, Running, HoldsInHand, TakingUp
  <2>9. c \notin reused => catalog[c] = None
    BY <2>8 DEF BackupInv, AloneWithId
  <2>10. \A b \in BackupIds \ reused' :
           snapshot'[b] = snapshot[b] \/ (ChangesBackup(j, b) /\ catalog[b] = None /\ catalog'[b] = None)
    BY <1>1, <2>2, <2>3, <2>8, <2>9 DEF BackupTypeInv
  <2> QED  BY <2>3, <2>4, <2>5, <2>6, <2>7, <2>10, JobStep
<1>5. CASE VerifyStored(j)
  <2>1. phase[j] = "verify" /\ draft[j] \in CatalogEntries /\ chosen[j] \in BackupIds /\ draft[j].checksum \in captured[chosen[j]]
    BY <1>1, <1>5 DEF VerifyStored, HoldsInHand, TakingUp, Taken
  <2>2. PICK d : d = [draft[j] EXCEPT !.status = IF Verifies(snapshot[chosen[j]], draft[j].checksum) THEN "verified" ELSE "failed"]
    OBVIOUS
  <2>3. /\ d \in CatalogEntries /\ d.checksum = draft[j].checksum
        /\ d.status = "verified" => snapshot[chosen[j]] = d.checksum
    BY <2>1, <2>2 DEF CatalogEntries, Verifies
  <2>4. /\ JobAwaits(j, "record") /\ draft' = [draft EXCEPT ![j] = d]
        /\ UNCHANGED <<now, live, writes, snapshot, catalog, kind, chosen, held, sweep, captured, reused>>
    BY <1>5, <2>2 DEF VerifyStored
  <2>5. phase'[j] = "record" /\ draft'[j] = d /\ \A i \in Requests \ {j} : phase'[i] = phase[i] /\ draft'[i] = draft[i]
    BY <1>1, <2>4 DEF JobAwaits, BackupTypeInv
  <2>6. BackupTypeInv'
    BY <1>1, <2>4 DEF JobAwaits, BackupTypeInv, Phases
  <2>7. kind[j] # "restore" /\ sweep[j] = {}
    BY <1>1, <2>1 DEF HoldsInHand, TakingUp, TakingDown
  <2>8. HoldsInHand(j)' /\ Knows(j)'
    BY <2>1, <2>3, <2>4, <2>5, <2>7 DEF HoldsInHand, Knows, TakingUp, Taken, ReadingBack, TakingDown
  <2>9. \A b : (ChangesBackup(j, b)' => ChangesBackup(j, b)) /\ (Takes(j, b)' => Takes(j, b))
    BY <2>1, <2>4, <2>5 DEF ChangesBackup, Running, Takes, TakingUp
  <2> QED  BY <2>4, <2>5, <2>6, <2>8, <2>9, JobMoves
<1>6. CASE RecordBackup(j)
  <2>1. PICK c \in BackupIds : c = chosen[j]
    BY <1>1, <1>6 DEF RecordBackup, HoldsInHand, TakingUp
  <2>2. /\ phase[j] = "record" /\ JobEnds(j) /\ catalog' = [catalog EXCEPT ![c] = draft[j]]
        /\ UNCHANGED <<now, live, writes, snapshot, captured, reused>>
    BY <1>6, <2>1 DEF RecordBackup
  <2>3. BackupTypeInv'
    BY <1>1, <2>2, JobOver DEF BackupTypeInv
  <2>4. Takes(j, c) /\ catalog'[c] = draft[j] /\ \A b \in BackupIds \ {c} : catalog'[b] = catalog[b]
    BY <1>1, <2>1, <2>2 DEF Takes, TakingUp, BackupTypeInv
  <2>5. EntryInv(c)'
    BY <1>1, <2>1, <2>2, <2>4 DEF EntryInv, HoldsInHand, Knows, TakingUp, Taken
  <2>6. /\ HoldsInHand(j)' /\ Knows(j)' /\ \A b : ~ ChangesBackup(j, b)' /\ ~ Takes(j, b)'
        /\ \A i \in Requests \ {j} :
             /\ phase'[i] = phase[i] /\ kind'[i] = kind[i] /\ draft'[i] = draft[i]
             /\ chosen'[i] = chosen[i] /\ held'[i] = held[i] /\ sweep'[i] = sweep[i]
    BY <1>1, <2>2, JobOver
  <2>7. \A b \in BackupIds : catalog'[b] \in {catalog[b], None} \/ (Takes(j, b) /\ EntryInv(b)')
    BY <2>4, <2>5
  <2> QED  BY <2>2, <2>3, <2>6, <2>7, JobStep
<1> QED  BY <1>2, <1>3, <1>4, <1>5, <1>6

\* The steps of a restore, and a job that stops: the restore has what it verified.
LEMMA RestoresKeep ==
    ASSUME BackupAssumption, BackupInv, NEW j \in Requests,
           BeginRestore(j) \/ ReadVerified(j) \/ RestoreLive(j) \/ Abort(j)
    PROVE  BackupInv'
<1> USE DEF stores, outside, told
<1>1. BackupTypeInv /\ HoldsInHand(j) /\ Knows(j)
  BY DEF BackupInv, JobInv
<1>2. CASE BeginRestore(j)
  <2>1. PICK b \in Listed \cup Selectable(None) \cup UNION {Selectable(t) : t \in 0..now} :
           chosen' = [chosen EXCEPT ![j] = b] /\ draft' = [draft EXCEPT ![j] = catalog[b]]
    BY <1>2 DEF BeginRestore
  <2>2. b \in BackupIds /\ catalog[b] \in CatalogEntries /\ catalog[b].checksum \in captured[b]
    BY <2>1 DEF Selectable, Listed, BackupInv, CatalogInv, EntryInv
  <2>3. /\ phase[j] = "idle" /\ JobAwaits(j, "read") /\ kind' = [kind EXCEPT ![j] = "restore"]
        /\ UNCHANGED <<now, live, writes, snapshot, catalog, held, sweep, captured, reused>>
    BY <1>2 DEF BeginRestore, Start
  <2>4. /\ phase'[j] = "read" /\ kind'[j] = "restore" /\ chosen'[j] = b /\ draft'[j] = catalog[b] /\ sweep'[j] = {}
        /\ \A i \in Requests \ {j} :
             /\ phase'[i] = phase[i] /\ kind'[i] = kind[i] /\ draft'[i] = draft[i] /\ chosen'[i] = chosen[i]
    BY <1>1, <2>1, <2>3 DEF JobAwaits, BackupTypeInv, HoldsInHand, TakingDown
  <2>5. BackupTypeInv'
    BY <1>1, <2>1, <2>3 DEF JobAwaits, BackupTypeInv, Phases
  <2>6. HoldsInHand(j)' /\ Knows(j)'
    BY <2>2, <2>3, <2>4 DEF HoldsInHand, Knows, TakingUp, Taken, ReadingBack, TakingDown
  <2>7. \A c : ~ ChangesBackup(j, c)' /\ ~ Takes(j, c)'
    BY <2>4 DEF ChangesBackup, Takes, TakingUp
  <2> QED  BY <2>3, <2>4, <2>5, <2>6, <2>7, JobMoves
<1>3. CASE ReadVerified(j)
  <2>1. phase[j] = "read" /\ UNCHANGED <<now, live, writes, snapshot, catalog, captured, reused>>
    BY <1>3 DEF ReadVerified
  <2>2. CASE /\ JobAwaits(j, "restore") /\ Verifies(snapshot[chosen[j]], draft[j].checksum)
             /\ held' = [held EXCEPT ![j] = snapshot[chosen[j]]] /\ UNCHANGED <<kind, draft, chosen, sweep>>
    <3>1. /\ phase'[j] = "restore" /\ held'[j] = draft[j].checksum
          /\ \A i \in Requests \ {j} : phase'[i] = phase[i] /\ held'[i] = held[i]
      BY <1>1, <2>2 DEF JobAwaits, Verifies, BackupTypeInv
    <3>2. BackupTypeInv'
      BY <1>1, <2>1, <2>2 DEF JobAwaits, BackupTypeInv, Phases
    <3>3. HoldsInHand(j)' /\ Knows(j)'
      BY <1>1, <2>1, <2>2, <3>1 DEF HoldsInHand, Knows, TakingUp, Taken, ReadingBack, TakingDown
    <3>4. \A b : (ChangesBackup(j, b)' => ChangesBackup(j, b)) /\ (Takes(j, b)' => Takes(j, b))
      BY <2>1, <2>2, <3>1 DEF ChangesBackup, Running, Takes, TakingUp
    <3> QED  BY <2>1, <2>2, <3>1, <3>2, <3>3, <3>4, JobMoves
  <2>3. CASE JobEnds(j)
    <3>1. BackupTypeInv'
      BY <1>1, <2>1, <2>3, JobOver DEF BackupTypeInv
    <3> QED  BY <1>1, <2>1, <2>3, <3>1, JobOver, JobMoves
  <2> QED  BY <1>3, <2>2, <2>3 DEF ReadVerified
<1>4. CASE RestoreLive(j)
  <2>1. phase[j] = "restore" /\ live' = held[j] /\ JobEnds(j) /\ UNCHANGED <<now, writes, snapshot, catalog, captured, reused>>
    BY <1>4 DEF RestoreLive
  <2>2. live' \in Nat
    <3>1. live' \in captured[chosen[j]] /\ chosen[j] \in BackupIds
      BY <1>1, <2>1 DEF HoldsInHand, ReadingBack
    <3> QED  BY <1>1, <3>1 DEF BackupTypeInv
  <2>3. BackupTypeInv'
    BY <1>1, <2>1, <2>2, JobOver DEF BackupTypeInv
  <2> QED  BY <1>1, <2>1, <2>3, JobOver, JobMoves
<1>5. CASE Abort(j)
  <2>1. JobEnds(j) /\ UNCHANGED <<now, live, writes, snapshot, catalog, captured, reused>>
    BY <1>5 DEF Abort
  <2>2. BackupTypeInv'
    BY <1>1, <2>1, JobOver DEF BackupTypeInv
  <2> QED  BY <1>1, <2>1, <2>2, JobOver, JobMoves
<1> QED  BY <1>2, <1>3, <1>4, <1>5

\* The steps of a discard and of a purge: the entry goes before the bytes.
LEMMA RemovalsKeep ==
    ASSUME BackupAssumption, BackupInv, NEW j \in Requests,
           BeginDiscard(j) \/ BeginPurge(j) \/ NextExpired(j) \/ RemoveRecord(j) \/ DeleteBytes(j)
    PROVE  BackupInv'
<1> USE DEF stores, outside, told
<1>1. BackupTypeInv /\ HoldsInHand(j) /\ Knows(j)
  BY DEF BackupInv, JobInv
<1>2. CASE BeginDiscard(j)
  <2>1. PICK b \in Listed : chosen' = [chosen EXCEPT ![j] = b]
    BY <1>2 DEF BeginDiscard
  <2>2. /\ phase[j] = "idle" /\ JobAwaits(j, "remove") /\ kind' = [kind EXCEPT ![j] = "discard"]
        /\ UNCHANGED <<now, live, writes, snapshot, catalog, draft, held, sweep, captured, reused>>
    BY <1>2 DEF BeginDiscard, Start
  <2>3. /\ phase'[j] = "remove" /\ kind'[j] = "discard" /\ chosen'[j] = b /\ sweep'[j] = {}
        /\ \A i \in Requests \ {j} : phase'[i] = phase[i] /\ kind'[i] = kind[i] /\ chosen'[i] = chosen[i]
    BY <1>1, <2>1, <2>2 DEF JobAwaits, BackupTypeInv, HoldsInHand, TakingDown
  <2>4. BackupTypeInv'
    BY <1>1, <2>1, <2>2 DEF JobAwaits, BackupTypeInv, Phases
  <2>5. HoldsInHand(j)' /\ Knows(j)'
    BY <2>1, <2>3 DEF HoldsInHand, Knows, TakingUp, Taken, ReadingBack, TakingDown, Listed
  <2>6. \A c : (ChangesBackup(j, c)' => catalog[c] # None) /\ ~ Takes(j, c)'
    BY <2>1, <2>3 DEF ChangesBackup, Takes, TakingUp, Listed
  <2> QED  BY <2>2, <2>3, <2>4, <2>5, <2>6, JobMoves
<1>3. CASE BeginPurge(j)
  <2>1. PICK T \in SUBSET Listed : sweep' = [sweep EXCEPT ![j] = T]
    BY <1>3 DEF BeginPurge
  <2>2. /\ phase[j] = "idle" /\ JobAwaits(j, "next") /\ kind' = [kind EXCEPT ![j] = "purge"]
        /\ UNCHANGED <<now, live, writes, snapshot, catalog, draft, chosen, held, captured, reused>>
    BY <1>3 DEF BeginPurge, Start
  <2>3. /\ phase'[j] = "next" /\ kind'[j] = "purge" /\ sweep'[j] = T /\ chosen'[j] = None
        /\ \A i \in Requests \ {j} : phase'[i] = phase[i] /\ kind'[i] = kind[i] /\ sweep'[i] = sweep[i]
    BY <1>1, <2>1, <2>2 DEF JobAwaits, BackupTypeInv, HoldsInHand, TakingUp, ReadingBack, TakingDown
  <2>4. BackupTypeInv'
    BY <1>1, <2>1, <2>2 DEF JobAwaits, BackupTypeInv, Phases, Listed
  <2>5. HoldsInHand(j)' /\ Knows(j)'
    BY <2>3 DEF HoldsInHand, Knows, TakingUp, Taken, ReadingBack, TakingDown
  <2>6. \A c \in BackupIds : (ChangesBackup(j, c)' => catalog[c] # None) /\ ~ Takes(j, c)'
    <3>1. chosen'[j] = None /\ None \notin BackupIds
      BY <1>1, <2>2 DEF HoldsInHand, TakingUp, ReadingBack, TakingDown, BackupAssumption
    <3> QED  BY <2>1, <2>3, <3>1 DEF ChangesBackup, Takes, TakingUp, Listed
  <2> QED  BY <2>2, <2>3, <2>4, <2>5, <2>6, JobMoves
<1>4. CASE NextExpired(j)
  <2>1. phase[j] = "next" /\ UNCHANGED <<now, live, writes, snapshot, catalog, captured, reused>>
    BY <1>4 DEF NextExpired
  <2>2. CASE JobEnds(j)
    <3>1. BackupTypeInv'
      BY <1>1, <2>1, <2>2, JobOver DEF BackupTypeInv
    <3> QED  BY <1>1, <2>1, <2>2, <3>1, JobOver, JobMoves
  <2>3. CASE \E b \in sweep[j] : /\ chosen' = [chosen EXCEPT ![j] = b] /\ sweep' = [sweep EXCEPT ![j] = @ \ {b}]
                                 /\ JobAwaits(j, "remove") /\ UNCHANGED <<kind, draft, held>>
    <3>1. PICK b \in sweep[j] : /\ chosen' = [chosen EXCEPT ![j] = b] /\ sweep' = [sweep EXCEPT ![j] = @ \ {b}]
                                /\ JobAwaits(j, "remove") /\ UNCHANGED <<kind, draft, held>>
      BY <2>3
    <3>2. /\ phase'[j] = "remove" /\ chosen'[j] = b /\ sweep'[j] \subseteq sweep[j] /\ b \in BackupIds
          /\ \A i \in Requests \ {j} : phase'[i] = phase[i] /\ chosen'[i] = chosen[i] /\ sweep'[i] = sweep[i]
      BY <1>1, <3>1 DEF JobAwaits, BackupTypeInv
    <3>3. BackupTypeInv'
      BY <1>1, <2>1, <3>1 DEF JobAwaits, BackupTypeInv, Phases
    <3>4. kind[j] # "restore"
      BY <1>1, <2>1 DEF HoldsInHand
    <3>5. HoldsInHand(j)' /\ Knows(j)'
      BY <3>1, <3>2, <3>4 DEF HoldsInHand, Knows, TakingUp, Taken, ReadingBack, TakingDown
    <3>6. \A c : (ChangesBackup(j, c)' => ChangesBackup(j, c)) /\ ~ Takes(j, c)'
      BY <2>1, <3>1, <3>2 DEF ChangesBackup, Running, Takes, TakingUp
    <3> QED  BY <2>1, <3>1, <3>2, <3>3, <3>5, <3>6, JobMoves
  <2> QED  BY <1>4, <2>2, <2>3 DEF NextExpired
<1>5. CASE RemoveRecord(j)
  <2>1. PICK c \in BackupIds : c = chosen[j]
    BY <1>1, <1>5 DEF RemoveRecord, HoldsInHand, TakingDown
  <2>2. /\ phase[j] = "remove" /\ JobAwaits(j, "delete") /\ catalog' = [catalog EXCEPT ![c] = None]
        /\ UNCHANGED <<now, live, writes, snapshot, kind, draft, chosen, held, sweep, captured, reused>>
    BY <1>5, <2>1 DEF RemoveRecord
  <2>3. /\ phase'[j] = "delete" /\ catalog'[c] = None /\ \A b \in BackupIds : catalog'[b] \in {catalog[b], None}
        /\ \A i \in Requests \ {j} : phase'[i] = phase[i]
    BY <1>1, <2>2 DEF JobAwaits, BackupTypeInv
  <2>4. BackupTypeInv'
    BY <1>1, <2>2 DEF JobAwaits, BackupTypeInv, Phases
  <2>5. kind[j] # "restore"
    BY <1>1, <2>2 DEF HoldsInHand, TakingDown
  <2>6. HoldsInHand(j)' /\ Knows(j)'
    BY <2>1, <2>2, <2>3, <2>5 DEF HoldsInHand, Knows, TakingUp, Taken, ReadingBack, TakingDown
  <2>7. \A b : (ChangesBackup(j, b)' => ChangesBackup(j, b)) /\ ~ Takes(j, b)'
    BY <2>2, <2>3 DEF ChangesBackup, Running, Takes, TakingUp
  <2> QED  BY <2>2, <2>3, <2>4, <2>6, <2>7, JobStep
<1>6. CASE DeleteBytes(j)
  <2>1. PICK c \in BackupIds : c = chosen[j]
    BY <1>1, <1>6 DEF DeleteBytes, HoldsInHand, TakingDown
  <2>2. /\ phase[j] = "delete" /\ snapshot' = [snapshot EXCEPT ![c] = None]
        /\ UNCHANGED <<now, live, writes, catalog, captured, reused>>
    BY <1>6, <2>1 DEF DeleteBytes
  <2>3. ChangesBackup(j, c) /\ (c \notin reused => catalog[c] = None)
    BY <1>1, <2>1, <2>2 DEF ChangesBackup, Running, HoldsInHand, Knows, TakingDown
  <2>4. \A b \in BackupIds \ reused' :
           snapshot'[b] = snapshot[b] \/ (ChangesBackup(j, b) /\ catalog[b] = None /\ catalog'[b] = None)
    BY <1>1, <2>2, <2>3 DEF BackupTypeInv
  <2>5. CASE kind[j] = "purge" /\ JobAwaits(j, "next") /\ chosen' = [chosen EXCEPT ![j] = None] /\ UNCHANGED <<kind, draft, held, sweep>>
    <3>1. /\ phase'[j] = "next" /\ chosen'[j] = None
          /\ \A i \in Requests \ {j} : phase'[i] = phase[i] /\ chosen'[i] = chosen[i]
      BY <1>1, <2>5 DEF JobAwaits, BackupTypeInv
    <3>2. BackupTypeInv'
      BY <1>1, <2>2, <2>5 DEF JobAwaits, BackupTypeInv, Phases
    <3>3. HoldsInHand(j)' /\ Knows(j)'
      BY <2>5, <3>1 DEF HoldsInHand, Knows, TakingUp, Taken, ReadingBack, TakingDown
    <3>4. \A b \in BackupIds : (ChangesBackup(j, b)' => ChangesBackup(j, b)) /\ ~ Takes(j, b)'
      BY <2>2, <2>5, <3>1 DEF ChangesBackup, Running, Takes, TakingUp, BackupAssumption
    <3> QED  BY <2>2, <2>4, <2>5, <3>1, <3>2, <3>3, <3>4, JobStep
  <2>6. CASE JobEnds(j)
    <3>1. BackupTypeInv'
      BY <1>1, <2>2, <2>6, JobOver DEF BackupTypeInv
    <3>2. /\ HoldsInHand(j)' /\ Knows(j)' /\ \A b : ~ ChangesBackup(j, b)' /\ ~ Takes(j, b)'
          /\ \A i \in Requests \ {j} :
               /\ phase'[i] = phase[i] /\ kind'[i] = kind[i] /\ draft'[i] = draft[i]
               /\ chosen'[i] = chosen[i] /\ held'[i] = held[i] /\ sweep'[i] = sweep[i]
      BY <1>1, <2>6, JobOver
    <3> QED  BY <2>2, <2>4, <3>1, <3>2, JobStep
  <2> QED  BY <1>6, <2>5, <2>6 DEF DeleteBytes
<1> QED  BY <1>2, <1>3, <1>4, <1>5, <1>6

LEMMA BackupInvStep ==
    ASSUME BackupAssumption, BackupInv, [BackupNext]_backupVars PROVE BackupInv'
<1> USE DEF stores, outside, jobVars, told
<1>1. ASSUME UNCHANGED <<catalog, phase, kind, draft, chosen, held, sweep, captured, reused>>,
             now' \in Nat, live' \in Nat, writes' \in Nat, DOMAIN snapshot' = BackupIds,
             \A b \in BackupIds : snapshot'[b] \in {snapshot[b], Damaged}
      PROVE  BackupInv'
  <2>1. BackupTypeInv'
    BY <1>1 DEF BackupInv, BackupTypeInv
  <2>2. ASSUME NEW j \in Requests PROVE HoldsInHand(j)' /\ Knows(j)'
    <3>1. HoldsInHand(j) /\ Knows(j)
      BY DEF BackupInv, JobInv
    <3>2. HoldsInHand(j)'
      BY <1>1, <3>1 DEF HoldsInHand
    <3>3. phase[j] = "record" => chosen[j] \in BackupIds
      BY <3>1 DEF HoldsInHand, TakingUp
    <3> QED  BY <1>1, <3>1, <3>2, <3>3 DEF Knows
  <2>3. AloneWithId'
    BY <1>1 DEF BackupInv, AloneWithId, Takes, ChangesBackup, Running
  <2>4. CatalogInv'
    BY <1>1 DEF BackupInv, CatalogInv, EntryInv
  <2> QED  BY <2>1, <2>2, <2>3, <2>4 DEF BackupInv, JobInv
<1>2. CASE BackupTick \/ Use \/ UNCHANGED backupVars
  <2>1. UNCHANGED <<snapshot, catalog, phase, kind, draft, chosen, held, sweep, captured, reused>>
    BY <1>2 DEF BackupTick, Use, backupVars
  <2>2. now' \in Nat /\ live' \in Nat /\ writes' \in Nat /\ DOMAIN snapshot' = BackupIds
    BY <1>2 DEF BackupTick, Use, backupVars, BackupInv, BackupTypeInv
  <2> QED  BY <1>1, <2>1, <2>2
<1>3. CASE Rot
  <2>1. /\ UNCHANGED <<now, live, writes, catalog, phase, kind, draft, chosen, held, sweep, captured, reused>>
        /\ DOMAIN snapshot' = BackupIds /\ \A b \in BackupIds : snapshot'[b] \in {snapshot[b], Damaged}
    BY <1>3 DEF Rot, BackupInv, BackupTypeInv
  <2>2. now' \in Nat /\ live' \in Nat /\ writes' \in Nat
    BY <2>1 DEF BackupInv, BackupTypeInv
  <2> QED  BY <1>1, <2>1, <2>2
<1> QED  BY <1>2, <1>3, BackupsKeep, RestoresKeep, RemovalsKeep DEF BackupNext

\* Whatever jobs overlap, fail or die, whatever ids backups are given and whatever the
\* object store damages: only what a backup of the id captured is ever restored, and a
\* backup whose id was not given anew while it was in use is in the catalog as verified
\* only as long as no discard and no purge has taken its bytes.
THEOREM RestoresAreFaithful ==
    ASSUME BackupAssumption PROVE BackupSpec => []RestoresWhatWasCaptured
<1>1. BackupInit => BackupInv
  BY BackupInvInit
<1>2. BackupInv /\ [BackupNext]_backupVars => BackupInv'
  BY BackupInvStep
<1>3. BackupInv => RestoresWhatWasCaptured
  BY DEF BackupInv, JobInv, HoldsInHand, ReadingBack, CatalogInv, EntryInv, RestoresWhatWasCaptured, Listed
<1> QED  BY <1>1, <1>2, <1>3, PTL DEF BackupSpec
=============================================================================
