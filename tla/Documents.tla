------------------------------ MODULE Documents ------------------------------
(***************************************************************************)
(* The Document_Management_Service (src/services/core/src/                 *)
(* document-management/document-management-service.ts): uploads, versions, *)
(* the trash with its recovery window, retention and purge.  A request is  *)
(* a sequence of awaited calls on three stores that share no transaction,  *)
(* the metadata rows, the object bytes and the backups; requests interleave*)
(* at each await, and each await may reject or be the last one of a        *)
(* process that dies, which leaves the request where it was.  The content  *)
(* of an upload is the request that uploads it.  The audit rows and the    *)
(* ingestion events are never read back; they are awaits like the others.  *)
(***************************************************************************)
EXTENDS Integers, Sequences, FiniteSets, StoreRequests

CONSTANTS
    Docs,
    Uploaded,       \* the documents that are there at the start, at version 1
    Window,         \* recoveryWindowMs
    RetentionOf,    \* document -> [action: "archive" | "delete", until: time]
    MayFail,        \* TRUE when a call may reject or the process may die
    MaxVersions     \* bound

ASSUME DocumentsAssumption ==
    /\ Window \in Nat /\ MaxVersions \in Nat \ {0} /\ MaxTime \in Nat /\ MaxInFlight \in Nat
    /\ None \notin Requests \cup Docs \cup {Original} /\ Uploaded \subseteq Docs
    /\ None \notin [1..MaxVersions -> Requests \cup {Original, None}]       \* a copy is not null
    /\ RetentionOf \in [Docs -> [action : {"archive", "delete"}, until : Nat]]

Keys == 1..MaxVersions      \* objectKeyFor: the key of a document's bytes ends in a version number
NotDeleted == -1

VARIABLES
    history,     \* the version rows: document -> sequence of keys; <<>> when there is no row
    deletedAt,   \* the trash mark of the row
    archived,
    bytes,       \* the object store: document -> key -> content or None
    backup,      \* the backup store: document -> a copy of the bytes, or None
    pc, op, doc, \* of each request: where it is, what it does, on which document
    seen, head,  \* what it read of the row: the version for an upload, the mark for a purge; the
                 \* head's key (and then the key a recovery is about to put back)
    todo, got,   \* the keys it still has to visit, and the bytes it holds
    queue,       \* the rows a sweep has listed and not visited yet: <<document, mark, head>>
    clock,
    written,     \* history: the content of each version as it was uploaded
    marks,       \* history: every trash mark a document ever had
    contended    \* history: the documents two requests worked on at once, and those whose
                 \* id an upload was given while their row was there

rows == <<history, deletedAt, archived>>
locals == <<op, doc, seen, head, todo, got, queue>>
ghosts == <<written, marks, contended>>
vars == <<rows, bytes, backup, pc, locals, clock, ghosts>>

Original1 == [k \in Keys |-> IF k = 1 THEN Original ELSE None]
NoBytes == [k \in Keys |-> None]
Exists(d) == history[d] # <<>>
HeadOf(d) == IF Exists(d) THEN history[d][Len(history[d])] ELSE 1
KeysOf(d) == {history[d][i] : i \in DOMAIN history[d]}

Init ==
    /\ history = [d \in Docs |-> IF d \in Uploaded THEN <<1>> ELSE <<>>] /\ deletedAt = [d \in Docs |-> NotDeleted]
    /\ archived = [d \in Docs |-> FALSE]
    /\ bytes = [d \in Docs |-> IF d \in Uploaded THEN Original1 ELSE NoBytes] /\ backup = [d \in Docs |-> None]
    /\ pc = [r \in Requests |-> "idle"] /\ op = [r \in Requests |-> None]
    /\ doc = [r \in Requests |-> None] /\ seen = [r \in Requests |-> NotDeleted]
    /\ head = [r \in Requests |-> 1]
    /\ todo = [r \in Requests |-> {}] /\ got = [r \in Requests |-> NoBytes]
    /\ queue = [r \in Requests |-> {}]
    /\ clock = 0
    /\ written = [d \in Docs |-> IF d \in Uploaded THEN <<Original>> ELSE <<>>] /\ marks = [d \in Docs |-> {}] /\ contended = {}

Active(r) == pc[r] \notin {"idle", "done", "failed"}
InFlight == {r \in Requests : Active(r)}
WorksOn(r, d) == Active(r) /\ (doc[r] = d \/ \E e \in queue[r] : e[1] = d)
Contend(r, o, ds) ==
    contended' = contended \cup {d \in ds : \/ o = "upload" /\ Exists(d)
                                            \/ \E q \in Requests \ {r} : WorksOn(q, d)}
Goto(r, label) == pc' = [pc EXCEPT ![r] = label]
IsSweep(r) == op[r] \in {"purgeExpired", "applyDueRetention"}
Finished(r) == IF IsSweep(r) THEN "sweep" ELSE "done"   \* the next document of a sweep, or the end

-----------------------------------------------------------------------------
\* Mutant of WithinWindow: the deadline itself is outside, and so is the instant before.
WithinWindowShort(mark, now) == mark <= now /\ now < mark + Window

\* isWithinRecoveryWindow, inclusive at both ends.
WithinWindow(mark, now) == mark <= now /\ now <= mark + Window

\* A request comes in: requireDocument / requireDeletedDocument reads the row
\* and fails closed.  A request that is denied, or finds no row, changes nothing.
Begin(r, o, d) ==
    /\ pc[r] = "idle" /\ Cardinality(InFlight) < MaxInFlight
    /\ op' = [op EXCEPT ![r] = o] /\ doc' = [doc EXCEPT ![r] = d]
    /\ head' = [head EXCEPT ![r] = HeadOf(d)]
    /\ Contend(r, o, {d})
    /\ UNCHANGED <<rows, bytes, backup, todo, got, queue, clock, written, marks>>

\* upload takes the id it is given, or generates one, and reads no row: the id may be
\* that of a document which is there, in the trash or not, or in the making.
BeginUpload(r, d) ==
    /\ Begin(r, "upload", d)
    /\ seen' = [seen EXCEPT ![r] = 0] /\ Goto(r, "put")

BeginAddVersion(r, d) ==
    /\ Exists(d) /\ deletedAt[d] = NotDeleted /\ Len(history[d]) < MaxVersions
    /\ Begin(r, "addVersion", d)
    /\ seen' = [seen EXCEPT ![r] = Len(history[d])] /\ Goto(r, "put")

BeginSoftDelete(r, d) ==
    /\ Exists(d) /\ deletedAt[d] = NotDeleted
    /\ Begin(r, "softDelete", d)
    /\ Goto(r, "copy") /\ UNCHANGED seen

BeginRecover(r, d) ==
    /\ Exists(d) /\ deletedAt[d] # NotDeleted
    /\ Begin(r, "recover", d)
    /\ seen' = [seen EXCEPT ![r] = deletedAt[d]] /\ Goto(r, "window")
-----------------------------------------------------------------------------
\* upload and addVersion: the bytes go to the key of the version that was read
\* plus one, over whatever is there.
Put(r) ==
    /\ pc[r] = "put"
    /\ bytes' = [bytes EXCEPT ![doc[r]][seen[r] + 1] = r]
    /\ Goto(r, "write")
    /\ UNCHANGED <<rows, backup, locals, clock, ghosts>>

\* createDocument, which the primary key rejects when there is a row by now; or
\* addVersion, which gives the version the number after the head of the row as it is
\* now (in the trash or not), and finds no row to add it to when it is gone.
Write(r) ==
    /\ pc[r] = "write"
    /\ IF op[r] = "upload" <=> ~ Exists(doc[r])
       THEN /\ history' = [history EXCEPT ![doc[r]] = Append(@, seen[r] + 1)]
            /\ written' = [written EXCEPT ![doc[r]] = IF op[r] = "upload" THEN <<r>> ELSE Append(@, r)]
            /\ Goto(r, "done")
       ELSE Goto(r, "failed") /\ UNCHANGED <<history, written>>
    /\ UNCHANGED <<deletedAt, archived, bytes, backup, locals, clock, marks, contended>>

\* Mutant of Copy: only the head is copied.
CopyHead(r) ==
    /\ pc[r] = "copy"
    /\ todo' = [todo EXCEPT ![r] = {head[r]}]
    /\ got' = [got EXCEPT ![r] = NoBytes]
    /\ Goto(r, "get")
    /\ UNCHANGED <<rows, bytes, backup, op, doc, seen, head, queue, clock, ghosts>>

\* captureBackup: the keys of listVersions and of the row that was read.
Copy(r) ==
    /\ pc[r] = "copy"
    /\ todo' = [todo EXCEPT ![r] = KeysOf(doc[r]) \cup {head[r]}]
    /\ got' = [got EXCEPT ![r] = NoBytes]
    /\ Goto(r, "get")
    /\ UNCHANGED <<rows, bytes, backup, op, doc, seen, head, queue, clock, ghosts>>

\* One objects.get; an object that is not there makes it throw.
Get(r) ==
    /\ pc[r] = "get"
    /\ \E k \in todo[r] :
         IF bytes[doc[r]][k] = None
         THEN Goto(r, "failed") /\ UNCHANGED <<todo, got>>
         ELSE /\ got' = [got EXCEPT ![r][k] = bytes[doc[r]][k]]
              /\ todo' = [todo EXCEPT ![r] = @ \ {k}]
              /\ UNCHANGED pc
    /\ UNCHANGED <<rows, bytes, backup, op, doc, seen, head, queue, clock, ghosts>>

\* backup.capture.
Capture(r) ==
    /\ pc[r] = "get" /\ todo[r] = {}
    /\ backup' = [backup EXCEPT ![doc[r]] = got[r]]
    /\ Goto(r, "mark")
    /\ UNCHANGED <<rows, bytes, locals, clock, ghosts>>

\* markDeleted with the time of the call.  softDelete throws when the row is
\* gone; the retention sweep does not look.
MarkDeleted(r) ==
    /\ pc[r] = "mark"
    /\ IF Exists(doc[r])
       THEN /\ deletedAt' = [deletedAt EXCEPT ![doc[r]] = clock]
            /\ marks' = [marks EXCEPT ![doc[r]] = @ \cup {clock}]
            /\ Goto(r, Finished(r))
       ELSE /\ Goto(r, IF IsSweep(r) THEN "sweep" ELSE "failed")
            /\ UNCHANGED <<deletedAt, marks>>
    /\ UNCHANGED <<history, archived, bytes, backup, locals, clock, written, contended>>
-----------------------------------------------------------------------------
\* recover, after the access check: inside the window it restores, past it it purges.
CheckWindow(r) ==
    /\ pc[r] = "window"
    /\ Goto(r, IF WithinWindow(seen[r], clock) THEN "fetch" ELSE "purge")
    /\ UNCHANGED <<rows, bytes, backup, locals, clock, ghosts>>

\* restoreFromBackup: backup.fetch; without a backup there is nothing to put back.
Fetch(r) ==
    /\ pc[r] = "fetch"
    /\ got' = [got EXCEPT ![r] = IF backup[doc[r]] = None THEN NoBytes ELSE backup[doc[r]]]
    /\ todo' = [todo EXCEPT ![r] = {k \in Keys : backup[doc[r]] # None /\ backup[doc[r]][k] # None}]
    /\ Goto(r, "restore")
    /\ UNCHANGED <<rows, bytes, backup, op, doc, seen, head, queue, clock, ghosts>>

\* objects.exists: the next object of the backup, to be put back when it is not there.
Restore(r) ==
    /\ pc[r] = "restore"
    /\ \E k \in todo[r] :
         IF bytes[doc[r]][k] = None
         THEN Goto(r, "rewrite") /\ head' = [head EXCEPT ![r] = k] /\ UNCHANGED todo
         ELSE todo' = [todo EXCEPT ![r] = @ \ {k}] /\ UNCHANGED <<pc, head>>
    /\ UNCHANGED <<rows, bytes, backup, op, doc, seen, got, queue, clock, ghosts>>

\* objects.put, over whatever is there by now.
Rewrite(r) ==
    /\ pc[r] = "rewrite"
    /\ bytes' = [bytes EXCEPT ![doc[r]][head[r]] = got[r][head[r]]]
    /\ todo' = [todo EXCEPT ![r] = @ \ {head[r]}]
    /\ Goto(r, "restore")
    /\ UNCHANGED <<rows, backup, op, doc, seen, head, got, queue, clock, ghosts>>

\* clearDeleted; a row that is gone makes recover throw.
ClearDeleted(r) ==
    /\ pc[r] = "restore" /\ todo[r] = {}
    /\ deletedAt' = [deletedAt EXCEPT ![doc[r]] = NotDeleted]
    /\ Goto(r, IF Exists(doc[r]) THEN "discard" ELSE "failed")
    /\ UNCHANGED <<history, archived, bytes, backup, locals, clock, ghosts>>

\* backup.discard, after a restore and after a purge.
Discard(r) ==
    /\ pc[r] = "discard"
    /\ backup' = [backup EXCEPT ![doc[r]] = None]
    /\ Goto(r, Finished(r))
    /\ UNCHANGED <<rows, bytes, locals, clock, ghosts>>

-----------------------------------------------------------------------------
\* purgeDocument: listVersions.
Purge(r) ==
    /\ pc[r] = "purge"
    /\ todo' = [todo EXCEPT ![r] = KeysOf(doc[r]) \cup {head[r]}]
    /\ Goto(r, "delete")
    /\ UNCHANGED <<rows, bytes, backup, op, doc, seen, head, got, queue, clock, ghosts>>

\* One objects.delete.
Delete(r) ==
    /\ pc[r] = "delete"
    /\ \E k \in todo[r] :
         /\ bytes' = [bytes EXCEPT ![doc[r]][k] = None]
         /\ todo' = [todo EXCEPT ![r] = @ \ {k}]
    /\ UNCHANGED <<rows, backup, pc, op, doc, seen, head, got, queue, clock, ghosts>>

\* documents.remove: the row and its versions.
Remove(r) ==
    /\ pc[r] = "delete" /\ todo[r] = {}
    /\ history' = [history EXCEPT ![doc[r]] = <<>>]
    /\ deletedAt' = [deletedAt EXCEPT ![doc[r]] = NotDeleted]
    /\ archived' = [archived EXCEPT ![doc[r]] = FALSE]
    /\ Goto(r, "discard")
    /\ UNCHANGED <<bytes, backup, locals, clock, ghosts>>
-----------------------------------------------------------------------------
\* purgeExpired: the trash is listed and the clock read once.
BeginPurgeExpired(r) ==
    /\ pc[r] = "idle" /\ Cardinality(InFlight) < MaxInFlight
    /\ LET expired == {d \in Docs : /\ Exists(d) /\ deletedAt[d] # NotDeleted
                                    /\ ~ WithinWindow(deletedAt[d], clock)}
       IN  /\ queue' = [queue EXCEPT ![r] = {<<d, deletedAt[d], HeadOf(d)>> : d \in expired}]
           /\ Contend(r, "purgeExpired", expired)
    /\ op' = [op EXCEPT ![r] = "purgeExpired"] /\ Goto(r, "sweep")
    /\ UNCHANGED <<rows, bytes, backup, doc, seen, head, todo, got, clock, written, marks>>

\* applyDueRetention: the active documents past their retention date, listed once.
BeginRetention(r) ==
    /\ pc[r] = "idle" /\ Cardinality(InFlight) < MaxInFlight
    /\ LET due == {d \in Docs : /\ Exists(d) /\ deletedAt[d] = NotDeleted /\ ~ archived[d]
                                /\ RetentionOf[d].until <= clock}
       IN  /\ queue' = [queue EXCEPT ![r] = {<<d, NotDeleted, HeadOf(d)>> : d \in due}]
           /\ Contend(r, "applyDueRetention", due)
    /\ op' = [op EXCEPT ![r] = "applyDueRetention"] /\ Goto(r, "sweep")
    /\ UNCHANGED <<rows, bytes, backup, doc, seen, head, todo, got, clock, written, marks>>

\* The next document of a sweep, as it was listed.
Visit(r) ==
    /\ pc[r] = "sweep"
    /\ \E e \in queue[r] :
         /\ doc' = [doc EXCEPT ![r] = e[1]] /\ seen' = [seen EXCEPT ![r] = e[2]]
         /\ head' = [head EXCEPT ![r] = e[3]]
         /\ queue' = [queue EXCEPT ![r] = @ \ {e}]
         /\ Goto(r, IF op[r] = "purgeExpired" THEN "purge"
                    ELSE IF RetentionOf[e[1]].action = "archive" THEN "archive" ELSE "copy")
    /\ UNCHANGED <<rows, bytes, backup, op, todo, got, clock, ghosts>>

SweepEnds(r) ==
    /\ pc[r] = "sweep" /\ queue[r] = {}
    /\ Goto(r, "done")
    /\ UNCHANGED <<rows, bytes, backup, locals, clock, ghosts>>

\* markArchived, after the Compliance_Manager was told.
MarkArchived(r) ==
    /\ pc[r] = "archive"
    /\ archived' = [archived EXCEPT ![doc[r]] = Exists(doc[r])]
    /\ Goto(r, "sweep")
    /\ UNCHANGED <<history, deletedAt, bytes, backup, locals, clock, ghosts>>
-----------------------------------------------------------------------------
\* An awaited call rejects, or the process dies with the request.
Fail(r) ==
    /\ MayFail /\ Active(r)
    /\ Goto(r, "failed")
    /\ UNCHANGED <<rows, bytes, backup, locals, clock, ghosts>>

Tick ==
    /\ clock < MaxTime /\ clock' = clock + 1
    /\ UNCHANGED <<rows, bytes, backup, pc, locals, ghosts>>

Step(r) ==
    \/ \E d \in Docs : BeginUpload(r, d) \/ BeginAddVersion(r, d) \/ BeginSoftDelete(r, d) \/ BeginRecover(r, d)
    \/ Put(r) \/ Write(r)
    \/ Copy(r) \/ Get(r) \/ Capture(r) \/ MarkDeleted(r)
    \/ CheckWindow(r) \/ Fetch(r) \/ Restore(r) \/ Rewrite(r) \/ ClearDeleted(r) \/ Discard(r)
    \/ Purge(r) \/ Delete(r) \/ Remove(r)
    \/ BeginPurgeExpired(r) \/ BeginRetention(r) \/ Visit(r) \/ SweepEnds(r) \/ MarkArchived(r)
    \/ Fail(r)

Next == Tick \/ \E r \in Requests : Step(r)

Spec == Init /\ [][Next]_vars
-----------------------------------------------------------------------------
\* As long as requests work on a document one at a time, and no upload is given the id
\* of a row that is there, the bytes of each of its versions stay retrievable as they
\* were uploaded, whatever request failed half-way: those of a live document in the
\* object store, those of a trashed one in its backup while it can be recovered.
HistoryRetrievable ==
    \A d \in Docs \ contended :
        \A i \in DOMAIN history[d] :
            /\ deletedAt[d] = NotDeleted => bytes[d][history[d][i]] = written[d][i]
            /\ deletedAt[d] # NotDeleted /\ WithinWindow(deletedAt[d], clock) =>
                   backup[d] # None /\ backup[d][history[d][i]] = written[d][i]

\* However requests interleave, a document is only ever removed for good once
\* the whole recovery window of a deletion under its id is over.
PurgedOnlyAfterWindow ==
    [][\A d \in Docs : history[d] # <<>> /\ history'[d] = <<>> =>
            \E m \in marks[d] : clock > m + Window]_vars

\* types.ts: prior versions are never mutated or removed, so the full history is
\* always retrievable: here of the versions that addVersion made.
VersionsKeepTheirBytes ==
    \A d \in Docs : \A i \in DOMAIN history[d] \ {1} :
        deletedAt[d] = NotDeleted => bytes[d][history[d][i]] = written[d][i]
=============================================================================
