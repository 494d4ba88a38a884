---------------------------- MODULE BackupService ----------------------------
(***************************************************************************)
(* The Backup_Service (src/services/core/src/backup/backup-service.ts) of  *)
(* one target: backups, restores, discards and retention sweeps, each a    *)
(* sequence of awaited calls on the live store, the object store that      *)
(* keeps the snapshots and the catalog.  They interleave with each other   *)
(* and with writes to the live store; any call may reject and the process  *)
(* may die; the object store may lose or damage what it keeps.  A backup's *)
(* id may be the caller's, and one that is in use.  The live store's state *)
(* is the number of writes made to it; audit entries are left out.         *)
(***************************************************************************)
EXTENDS Integers, FiniteSets, ServiceRequests

CONSTANTS
    BackupIds,
    Damaged,
    Retention,                      \* retentionMs
    MaxBackupTime, MaxWrites        \* bounds

BackupAssumption ==
    /\ None \notin Requests \cup BackupIds \cup {Damaged} /\ Damaged \notin Nat
    /\ Retention \in Nat /\ MaxBackupTime \in Nat /\ MaxWrites \in Nat /\ MaxInFlight \in Nat

VARIABLES
    now, live, writes,
    snapshot,    \* the object store: backup -> the state it holds, Damaged or None
    catalog,     \* backup -> [point, created, checksum, status], or None
    phase, kind, \* of each job: the call it awaits, and the operation
    draft,       \* the catalog entry a backup is to write, or a restore has read
    chosen,      \* the id of the backup it works on
    held,        \* the snapshot a restore has read
    sweep,       \* the backups a retention sweep has still to remove
    captured,    \* history: backup -> the states captured under its id
    reused       \* history: the ids a backup was given while they were in use

backupVars == <<now, live, writes, snapshot, catalog, phase, kind, draft, chosen, held, sweep, captured, reused>>
stores == <<snapshot, catalog>>
jobVars == <<phase, kind, draft, chosen, held, sweep>>
outside == <<now, live, writes>>
told == <<captured, reused>>

BackupInit ==
    /\ now = 0 /\ live = 0 /\ writes = 0
    /\ snapshot = [b \in BackupIds |-> None] /\ catalog = [b \in BackupIds |-> None]
    /\ phase = [j \in Requests |-> "idle"] /\ kind = [j \in Requests |-> None] /\ draft = [j \in Requests |-> None]
    /\ chosen = [j \in Requests |-> None] /\ held = [j \in Requests |-> None] /\ sweep = [j \in Requests |-> {}]
    /\ captured = [b \in BackupIds |-> {}] /\ reused = {}

Running == {j \in Requests : phase[j] \notin {"idle", "done"}}
JobAwaits(j, call) == phase' = [phase EXCEPT ![j] = call]
JobEnds(j) ==
    /\ JobAwaits(j, "done") /\ kind' = [kind EXCEPT ![j] = None] /\ draft' = [draft EXCEPT ![j] = None]
    /\ chosen' = [chosen EXCEPT ![j] = None] /\ held' = [held EXCEPT ![j] = None] /\ sweep' = [sweep EXCEPT ![j] = {}]
Listed == {b \in BackupIds : catalog[b] # None}
\* A backup, a discard or a purge of that id is under way.
ChangesBackup(j, b) == j \in Running /\ kind[j] # "restore" /\ (chosen[j] = b \/ b \in sweep[j])

BackupTick ==
    /\ now < MaxBackupTime /\ now' = now + 1
    /\ UNCHANGED <<live, writes, stores, jobVars, told>>

\* The application writes to the live store.
Use ==
    /\ writes < MaxWrites /\ writes' = writes + 1 /\ live' = writes + 1
    /\ UNCHANGED <<now, stores, jobVars, told>>

\* A snapshot rots in the object store.
Rot ==
    /\ \E b \in BackupIds : snapshot[b] # None /\ snapshot' = [snapshot EXCEPT ![b] = Damaged]
    /\ UNCHANGED <<outside, catalog, jobVars, told>>

-----------------------------------------------------------------------------
\* The guards on how many jobs there are at once.
Start(j, o, call) ==
    /\ phase[j] = "idle" /\ Cardinality(Running) < MaxInFlight
    /\ kind' = [kind EXCEPT ![j] = o] /\ JobAwaits(j, call)

\* backup: the id is a generated one or the caller's, which nothing checks; the
\* recovery point is the clock's or the caller's, the creation time the clock's.
BeginBackup(j) ==
    /\ Start(j, "backup", "capture")
    /\ \E b \in BackupIds, t \in 0..MaxBackupTime :
         /\ chosen' = [chosen EXCEPT ![j] = b]
         /\ draft' = [draft EXCEPT ![j] = [point |-> t, created |-> now, checksum |-> None, status |-> None]]
         /\ reused' = IF b \in Listed \/ \E i \in Requests : ChangesBackup(i, b) THEN reused \cup {b} ELSE reused
    /\ UNCHANGED <<outside, stores, held, sweep, captured>>

CaptureLive(j) ==
    /\ phase[j] = "capture"
    /\ draft' = [draft EXCEPT ![j].checksum = live]
    /\ captured' = [captured EXCEPT ![chosen[j]] = @ \cup {live}]
    /\ JobAwaits(j, "put")
    /\ UNCHANGED <<outside, stores, kind, chosen, held, sweep, reused>>

\* objectStore.put, over what the id's key holds: what is stored may differ from what was put.
PutSnapshot(j) ==
    /\ phase[j] = "put"
    /\ \E s \in {draft[j].checksum, Damaged} : snapshot' = [snapshot EXCEPT ![chosen[j]] = s]
    /\ JobAwaits(j, "verify")
    /\ UNCHANGED <<outside, catalog, kind, draft, chosen, held, sweep, told>>

\* Mutant of Verifies: the bytes only have to be there.
VerifiesPresence(s, checksum) == s # None

\* The checksum of the bytes that were read back is the recorded one.
Verifies(s, checksum) == s = checksum

VerifyStored(j) ==
    /\ phase[j] = "verify"
    /\ draft' = [draft EXCEPT ![j].status = IF Verifies(snapshot[chosen[j]], draft[j].checksum) THEN "verified" ELSE "failed"]
    /\ JobAwaits(j, "record")
    /\ UNCHANGED <<outside, stores, kind, chosen, held, sweep, told>>

\* records.put, which inserts or replaces.
RecordBackup(j) ==
    /\ phase[j] = "record"
    /\ catalog' = [catalog EXCEPT ![chosen[j]] = draft[j]]
    /\ JobEnds(j)
    /\ UNCHANGED <<outside, snapshot, told>>

-----------------------------------------------------------------------------
\* compareMostRecentFirst; ids have no order, which leaves ties open.
MoreRecent(a, b) == \/ catalog[a].point > catalog[b].point
                    \/ catalog[a].point = catalog[b].point /\ catalog[a].created > catalog[b].created

\* resolveRestoreTarget: an explicit id, whatever its status; else the most
\* recent verified backup at or before the recovery point, or of all.
Selectable(cutoff) ==
    LET usable == {b \in Listed : catalog[b].status = "verified" /\ (cutoff = None \/ catalog[b].point <= cutoff)}
    IN  {b \in usable : ~ \E a \in usable : MoreRecent(a, b)}

BeginRestore(j) ==
    /\ \E b \in Listed \cup Selectable(None) \cup UNION {Selectable(t) : t \in 0..now} :
         chosen' = [chosen EXCEPT ![j] = b] /\ draft' = [draft EXCEPT ![j] = catalog[b]]
    /\ Start(j, "restore", "read")
    /\ UNCHANGED <<outside, stores, held, sweep, told>>

\* readVerified: bytes that are gone or that do not have the checksum of the
\* record as it was read make the restore fail.
ReadVerified(j) ==
    /\ phase[j] = "read"
    /\ LET bytes == snapshot[chosen[j]]
       IN  IF draft[j].status = "verified" /\ Verifies(bytes, draft[j].checksum)
           THEN /\ JobAwaits(j, "restore") /\ held' = [held EXCEPT ![j] = bytes]
                /\ UNCHANGED <<kind, draft, chosen, sweep>>
           ELSE JobEnds(j)
    /\ UNCHANGED <<outside, stores, told>>

\* source.restore.
RestoreLive(j) ==
    /\ phase[j] = "restore"
    /\ live' = held[j]
    /\ JobEnds(j)
    /\ UNCHANGED <<now, writes, stores, told>>

-----------------------------------------------------------------------------
\* discard finds the record; purgeExpired lists the catalog once, with one reading of the clock.
BeginDiscard(j) ==
    /\ \E b \in Listed : chosen' = [chosen EXCEPT ![j] = b]
    /\ Start(j, "discard", "remove")
    /\ UNCHANGED <<outside, stores, draft, held, sweep, told>>

RetentionExpired(at, t) == t > at + Retention

BeginPurge(j) ==
    /\ Start(j, "purge", "next")
    /\ sweep' = [sweep EXCEPT ![j] = {b \in Listed : RetentionExpired(catalog[b].created, now)}]
    /\ UNCHANGED <<outside, stores, draft, chosen, held, told>>

NextExpired(j) ==
    /\ phase[j] = "next"
    /\ IF sweep[j] = {} THEN JobEnds(j)
       ELSE \E b \in sweep[j] :
              /\ chosen' = [chosen EXCEPT ![j] = b] /\ sweep' = [sweep EXCEPT ![j] = @ \ {b}]
              /\ JobAwaits(j, "remove")
              /\ UNCHANGED <<kind, draft, held>>
    /\ UNCHANGED <<outside, stores, told>>

\* Mutant of RemoveRecord: the bytes go first.
RemoveBytesFirst(j) ==
    /\ phase[j] = "remove"
    /\ snapshot' = [snapshot EXCEPT ![chosen[j]] = None]
    /\ JobAwaits(j, "delete")
    /\ UNCHANGED <<outside, catalog, kind, draft, chosen, held, sweep, told>>

\* records.remove, and after it objectStore.delete.
RemoveRecord(j) ==
    /\ phase[j] = "remove"
    /\ catalog' = [catalog EXCEPT ![chosen[j]] = None]
    /\ JobAwaits(j, "delete")
    /\ UNCHANGED <<outside, snapshot, kind, draft, chosen, held, sweep, told>>

DeleteBytes(j) ==
    /\ phase[j] = "delete"
    /\ snapshot' = [snapshot EXCEPT ![chosen[j]] = None]
    /\ \/ /\ kind[j] = "purge" /\ JobAwaits(j, "next") /\ chosen' = [chosen EXCEPT ![j] = None]
          /\ UNCHANGED <<kind, draft, held, sweep>>
       \/ kind[j] = "discard" /\ JobEnds(j)
    /\ UNCHANGED <<outside, catalog, told>>

\* A call rejects, or the process dies with the job.
Abort(j) ==
    /\ j \in Running /\ JobEnds(j)
    /\ UNCHANGED <<outside, stores, told>>

BackupNext ==
    \/ BackupTick \/ Use \/ Rot
    \/ \E j \in Requests :
         \/ BeginBackup(j) \/ CaptureLive(j) \/ PutSnapshot(j) \/ VerifyStored(j) \/ RecordBackup(j)
         \/ BeginRestore(j) \/ ReadVerified(j) \/ RestoreLive(j)
         \/ BeginDiscard(j) \/ BeginPurge(j) \/ NextExpired(j) \/ RemoveRecord(j) \/ DeleteBytes(j)
         \/ Abort(j)

BackupSpec == BackupInit /\ [][BackupNext]_backupVars
-----------------------------------------------------------------------------
\* Through crashes, damaged snapshots and purges under way, and whatever ids
\* backups were given: the only thing that is ever restored is what a backup of
\* that id captured, undamaged and as its record says; and a backup whose id was
\* not given anew while it was in use has not lost its bytes to a discard or a
\* purge as long as the catalog lists it as verified: it can be restored unless
\* the object store itself damaged it.
RestoresWhatWasCaptured ==
    /\ \A j \in Requests : phase[j] = "restore" => held[j] = draft[j].checksum /\ held[j] \in captured[chosen[j]]
    /\ \A b \in Listed \ reused :
         catalog[b].status = "verified" => snapshot[b] \in {catalog[b].checksum, Damaged}
=============================================================================
