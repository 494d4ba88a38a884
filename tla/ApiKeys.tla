------------------------------- MODULE ApiKeys -------------------------------
(***************************************************************************)
(* The API_Key_Manager (src/services/core/src/api-keys/                    *)
(* api-key-manager.ts) over its store: creation, revocation, rotation and  *)
(* the count-then-record limit on the uses of a key.  A key is known by    *)
(* the request that minted it.  Raw keys and hashes are left out: a client *)
(* presents a key of the store.  The audit rows are never read back.       *)
(***************************************************************************)
EXTENDS Integers, FiniteSets, StoreRequests

CONSTANTS
    Limit, RateWindow           \* requestsPerWindow and windowSeconds

KeyIds == Requests \cup {Original}
Never == MaxTime + 1
KeyRecords == [active : BOOLEAN, from : KeyIds \cup {None}, expires : Nat]

KeysAssumption ==
    /\ Limit \in Nat \ {0} /\ RateWindow \in Nat /\ MaxTime \in Nat /\ MaxInFlight \in Nat \ {0}
    /\ Original \notin Requests /\ None \notin KeyIds /\ None \notin KeyRecords

VARIABLES
    time,
    records,    \* key -> [active, from, expires], or None
    usages,     \* the recorded uses: [by, key, at]
    await, task, \* of each request: the call it awaits, and the operation
    subject,    \* the key it works on
    usedAt      \* the clock it read for a use

keyLocals == <<await, task, subject, usedAt>>
keyVars == <<time, records, usages, await, task, subject, usedAt>>

KeysInit ==
    /\ time = 0
    /\ records = [k \in KeyIds |-> IF k = Original THEN [active |-> TRUE, from |-> None, expires |-> Never]
                                   ELSE None]
    /\ usages = {}
    /\ await = [r \in Requests |-> "idle"] /\ task = [r \in Requests |-> None]
    /\ subject = [r \in Requests |-> None] /\ usedAt = [r \in Requests |-> 0]

Pending(r) == await[r] \notin {"idle", "done", "failed"}
Expired(k) == records[k].expires <= time

\* authenticate, for a key of the store.
Authenticates(k) == records[k] # None /\ records[k].active /\ ~ Expired(k)

BeginTask(r, what, k, next) ==
    /\ await[r] = "idle" /\ Cardinality({q \in Requests : Pending(q)}) < MaxInFlight
    /\ task' = [task EXCEPT ![r] = what] /\ subject' = [subject EXCEPT ![r] = k]
    /\ await' = [await EXCEPT ![r] = next]
Resume(r, next) == await' = [await EXCEPT ![r] = next] /\ UNCHANGED <<task, subject, usedAt>>

\* normalizeExpiry admits an instant of the future.
Expiries == {t \in 1..Never : t > time}
-----------------------------------------------------------------------------
\* create and revoke are one write each.
Create(r) ==
    /\ BeginTask(r, "create", r, "done")
    /\ \E t \in Expiries : records' = [records EXCEPT ![r] = [active |-> TRUE, from |-> None, expires |-> t]]
    /\ UNCHANGED <<time, usages, usedAt>>

Revoke(r, k) ==
    /\ records[k] # None /\ BeginTask(r, "revoke", k, "done")
    /\ records' = [records EXCEPT ![k].active = FALSE]
    /\ UNCHANGED <<time, usages, usedAt>>

\* Mutant of BeginRotate: the old key is deactivated before its replacement is there.
DeactivateFirst(r, k) ==
    /\ records[k] # None /\ BeginTask(r, "rotate", k, "insert")
    /\ records' = [records EXCEPT ![k].active = FALSE]
    /\ UNCHANGED <<time, usages, usedAt>>

\* rotate reads the key, which may be inactive by now, ...
BeginRotate(r, k) ==
    /\ records[k] # None /\ BeginTask(r, "rotate", k, "insert")
    /\ UNCHANGED <<time, records, usages, usedAt>>

\* ... inserts the replacement, with the expiry of the key or one of its own, ...
Insert(r) ==
    /\ await[r] = "insert"
    /\ \E t \in Expiries \cup {records[subject[r]].expires} :
          records' = [records EXCEPT ![r] = [active |-> TRUE, from |-> subject[r], expires |-> t]]
    /\ Resume(r, "deactivate")
    /\ UNCHANGED <<time, usages>>

\* ... and deactivates the key it read.
Deactivate(r) ==
    /\ await[r] = "deactivate"
    /\ records' = [records EXCEPT ![subject[r]].active = FALSE]
    /\ Resume(r, "done")
    /\ UNCHANGED <<time, usages>>
-----------------------------------------------------------------------------
\* recordUse reads the key and then the clock, ...
BeginUse(r, k) ==
    /\ records[k] # None /\ BeginTask(r, "use", k, "count")
    /\ usedAt' = [usedAt EXCEPT ![r] = time]
    /\ UNCHANGED <<time, records, usages>>

\* countUsagesSince, from the start of the rolling window on.
UsesSince(k, start) == {u \in usages : u.key = k /\ u.at >= start}

\* Mutant of Count: one use too many passes.
CountPastLimit(r) ==
    /\ await[r] = "count"
    /\ Resume(r, IF Cardinality(UsesSince(subject[r], usedAt[r] - RateWindow)) > Limit
                 THEN "failed" ELSE "record")
    /\ UNCHANGED <<time, records, usages>>

\* ... counts the uses of the window, and rejects at the limit, ...
Count(r) ==
    /\ await[r] = "count"
    /\ Resume(r, IF Cardinality(UsesSince(subject[r], usedAt[r] - RateWindow)) >= Limit
                 THEN "failed" ELSE "record")
    /\ UNCHANGED <<time, records, usages>>

\* ... and appends its own, with the instant it read before it counted.
RecordUsage(r) ==
    /\ await[r] = "record"
    /\ usages' = usages \cup {[by |-> r, key |-> subject[r], at |-> usedAt[r]]}
    /\ Resume(r, "done")
    /\ UNCHANGED <<time, records>>

\* An awaited call rejects, or the process dies with the request.
Die(r) ==
    /\ Pending(r) /\ Resume(r, "failed")
    /\ UNCHANGED <<time, records, usages>>

Advance ==
    /\ time < MaxTime /\ time' = time + 1
    /\ UNCHANGED <<records, usages, keyLocals>>

KeysNext ==
    \/ Advance
    \/ \E r \in Requests :
         \/ Create(r) \/ Insert(r) \/ Deactivate(r) \/ Count(r) \/ RecordUsage(r) \/ Die(r)
         \/ \E k \in KeyIds : Revoke(r, k) \/ BeginRotate(r, k) \/ BeginUse(r, k)

KeysSpec == KeysInit /\ [][KeysNext]_keyVars
-----------------------------------------------------------------------------
\* The uses recorded of a key in any stretch as long as its window exceed the
\* limit by no more than the requests that are counted at the same time, less one.
UsesWithinLimit ==
    \A k \in KeyIds : \A t \in 0..MaxTime :
        Cardinality({u \in usages : u.key = k /\ u.at \in t..(t + RateWindow)}) <= Limit + MaxInFlight - 1

\* A key nobody revoked only stops working, before its expiry, when a replacement
\* for it was stored: whatever fails half-way through a rotation and however
\* rotations overlap, the owner is not left with no key.
RotationHandsOver ==
    \A k \in KeyIds :
        records[k] # None /\ ~ Expired(k) /\ ~ Authenticates(k) =>
            \/ \E r \in Requests : task[r] = "revoke" /\ subject[r] = k
            \/ \E j \in KeyIds : records[j] # None /\ records[j].from = k
=============================================================================
