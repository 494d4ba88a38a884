---------------------------- MODULE AccessProofs ----------------------------
(***************************************************************************)
(* Proofs about the credentials of a user: API keys and sessions, for any  *)
(* number of requests, keys, sessions and devices, any lifetimes and any   *)
(* rate limit.                                                             *)
(***************************************************************************)
EXTENDS ApiKeys, Sessions, FiniteSetTheorems, TLAPS

-----------------------------------------------------------------------------
(* Rotation of API keys.                                                   *)


KeysTypeInv ==
    /\ time \in Nat
    /\ records \in [KeyIds -> KeyRecords \cup {None}]
    /\ DOMAIN await = Requests /\ DOMAIN task = Requests /\ DOMAIN subject = Requests

Stored(k) == records[k] # None
Replaced(k) == \E j \in KeyIds : Stored(j) /\ records[j].from = k
Revoked(k) == \E r \in Requests : await[r] # "idle" /\ task[r] = "revoke" /\ subject[r] = k

\* A request stores its key once, and a rotation deactivates the key it replaced.
KeyStageInv(r) ==
    /\ await[r] \in {"idle", "insert"} => ~ Stored(r)
    /\ await[r] \in {"insert", "deactivate"} => subject[r] \in KeyIds /\ Stored(subject[r])
    /\ await[r] = "deactivate" => Stored(r) /\ records[r].from = subject[r]

KeysInv ==
    /\ KeysTypeInv
    /\ \A r \in Requests : KeyStageInv(r)
    /\ \A k \in KeyIds : Stored(k) => records[k].active \/ Revoked(k) \/ Replaced(k)

LEMMA KeysInitially == ASSUME KeysAssumption, KeysInit PROVE KeysInv
<1>1. /\ records[Original] = [active |-> TRUE, from |-> None, expires |-> Never]
      /\ \A k \in Requests : records[k] = None
      /\ records = [k \in KeyIds |-> records[k]]
  BY DEF KeysInit, KeyIds, KeysAssumption
<1>2. records[Original] \in KeyRecords
  <2>1. Never \in Nat
    BY DEF Never, KeysAssumption
  <2> QED  BY <1>1, <2>1 DEF KeyRecords
<1>3. KeysTypeInv
  BY <1>1, <1>2 DEF KeysTypeInv, KeysInit, KeyIds
<1>4. \A r \in Requests : KeyStageInv(r)
  BY <1>1 DEF KeyStageInv, Stored, KeysInit
<1>5. ASSUME NEW k \in KeyIds, Stored(k) PROVE records[k].active
  BY <1>1, <1>5 DEF Stored, KeyIds
<1> QED  BY <1>3, <1>4, <1>5 DEF KeysInv

\* A step of a request that stores no key: what replaced or revoked a key is still there.
LEMMA NothingStored ==
    ASSUME KeysAssumption, KeysInv, NEW r \in Requests, UNCHANGED <<time, records>>,
           DOMAIN await' = Requests, DOMAIN task' = Requests, DOMAIN subject' = Requests,
           \A q \in Requests \ {r} : /\ await'[q] = await[q]
                                     /\ task'[q] = task[q] /\ subject'[q] = subject[q],
           await'[r] # "idle", KeyStageInv(r)',
           await[r] # "idle" => task'[r] = task[r] /\ subject'[r] = subject[r]
    PROVE  KeysInv'
<1>1. KeysTypeInv'
  BY DEF KeysInv, KeysTypeInv
<1>2. \A q \in Requests : KeyStageInv(q)'
  BY DEF KeysInv, KeyStageInv, Stored
<1>3. ASSUME NEW k \in KeyIds, Stored(k)' PROVE records'[k].active \/ Revoked(k)' \/ Replaced(k)'
  <2>1. records'[k].active \/ Revoked(k) \/ Replaced(k)
    BY <1>3 DEF KeysInv, Stored
  <2>2. Revoked(k) => Revoked(k)'
    BY DEF Revoked
  <2>3. Replaced(k) => Replaced(k)'
    BY DEF Replaced, Stored
  <2> QED  BY <2>1, <2>2, <2>3
<1> QED  BY <1>1, <1>2, <1>3 DEF KeysInv

\* A step of r that stores or deactivates the key `id`: no other record changes, and a
\* key that is inactive afterwards has its reason.
LEMMA OneStored ==
    ASSUME KeysAssumption, KeysInv, NEW r \in Requests, UNCHANGED time, NEW id \in KeyIds, NEW record \in KeyRecords,
           records' = [records EXCEPT ![id] = record],
           DOMAIN await' = Requests, DOMAIN task' = Requests, DOMAIN subject' = Requests,
           \A q \in Requests \ {r} : /\ await'[q] = await[q]
                                     /\ task'[q] = task[q] /\ subject'[q] = subject[q],
           await'[r] # "idle", KeyStageInv(r)',
           await[r] # "idle" => task'[r] = task[r] /\ subject'[r] = subject[r],
           Stored(id) => record.from = records[id].from,
           ~ Stored(id) => id = r,
           record.active \/ Revoked(id)' \/ Replaced(id)'
    PROVE  KeysInv'
<1>1. /\ KeysTypeInv'
      /\ records'[id] = record /\ \A k \in KeyIds \ {id} : records'[k] = records[k]
      /\ record # None
  BY DEF KeysInv, KeysTypeInv, KeysAssumption
<1>2. \A k \in KeyIds : /\ Stored(k) => Stored(k)' /\ records'[k].from = records[k].from
                        /\ k # r => Stored(k)' = Stored(k)
  BY <1>1 DEF Stored
<1>3. ASSUME NEW q \in Requests PROVE KeyStageInv(q)'
  <2>1. q \in KeyIds /\ KeyStageInv(q)
    BY DEF KeyIds, KeysInv
  <2> QED  BY <1>2, <2>1 DEF KeyStageInv
<1>4. ASSUME NEW k \in KeyIds, Stored(k)' PROVE records'[k].active \/ Revoked(k)' \/ Replaced(k)'
  <2>1. CASE k = id
    BY <1>1, <2>1
  <2>2. CASE k # id
    <3>1. Stored(k) /\ records'[k] = records[k]
      BY <1>1, <1>4, <2>2 DEF Stored
    <3>2. records[k].active \/ Revoked(k) \/ Replaced(k)
      BY <3>1 DEF KeysInv
    <3>3. Revoked(k) => Revoked(k)'
      BY DEF Revoked
    <3>4. Replaced(k) => Replaced(k)'
      BY <1>2 DEF Replaced
    <3> QED  BY <3>1, <3>2, <3>3, <3>4
  <2> QED  BY <2>1, <2>2
<1> QED  BY <1>1, <1>3, <1>4 DEF KeysInv

-----------------------------------------------------------------------------
\* The locals after a step of r that begins an operation, or resumes one.
Moved(r, what, k, next) ==
    /\ DOMAIN await' = Requests /\ DOMAIN task' = Requests /\ DOMAIN subject' = Requests
    /\ await'[r] = next /\ task'[r] = what /\ subject'[r] = k
    /\ \A q \in Requests \ {r} : await'[q] = await[q] /\ task'[q] = task[q] /\ subject'[q] = subject[q]

LEMMA Begun ==
    ASSUME KeysTypeInv, NEW r \in Requests, NEW what, NEW k, NEW next, BeginTask(r, what, k, next)
    PROVE  Moved(r, what, k, next) /\ await[r] = "idle"
BY DEF KeysTypeInv, BeginTask, Moved

LEMMA Resumed ==
    ASSUME KeysTypeInv, NEW r \in Requests, NEW next, Resume(r, next)
    PROVE  Moved(r, task[r], subject[r], next)
BY DEF KeysTypeInv, Resume, Moved

LEMMA Creates == ASSUME KeysAssumption, KeysInv, NEW r \in Requests, Create(r) PROVE KeysInv'
<1>1. PICK t \in Expiries : records' = [records EXCEPT ![r] = [active |-> TRUE, from |-> None, expires |-> t]]
  BY DEF Create
<1> DEFINE record == [active |-> TRUE, from |-> None, expires |-> t]
<1>2. /\ UNCHANGED time /\ Moved(r, "create", r, "done") /\ await[r] = "idle"
      /\ ~ Stored(r) /\ r \in KeyIds
  BY Begun DEF KeysInv, Create, KeyStageInv, KeyIds
<1>3. record \in KeyRecords /\ record.active
  BY DEF KeyRecords, Expiries, KeysAssumption, Never
<1>4. records' = [records EXCEPT ![r] = record]
  BY <1>1
<1> HIDE DEF record
<1>5. KeyStageInv(r)'
  BY <1>2 DEF Moved, KeyStageInv
<1> QED  BY <1>2, <1>3, <1>4, <1>5, OneStored DEF Moved

LEMMA Inserts == ASSUME KeysAssumption, KeysInv, NEW r \in Requests, Insert(r) PROVE KeysInv'
<1>0. /\ KeysTypeInv /\ await[r] = "insert" /\ UNCHANGED time
      /\ ~ Stored(r) /\ r \in KeyIds /\ subject[r] \in KeyIds /\ Stored(subject[r]) /\ subject[r] # r
  BY DEF KeysInv, Insert, KeyStageInv, KeyIds
<1>1. PICK t \in Expiries \cup {records[subject[r]].expires} :
         records' = [records EXCEPT ![r] = [active |-> TRUE, from |-> subject[r], expires |-> t]]
  BY DEF Insert
<1> DEFINE record == [active |-> TRUE, from |-> subject[r], expires |-> t]
<1>2. Moved(r, task[r], subject[r], "deactivate")
  BY <1>0, Resumed DEF Insert
<1>3. record \in KeyRecords /\ record.active /\ record.from = subject[r]
  <2>1. records[subject[r]] \in KeyRecords
    BY <1>0 DEF KeysTypeInv, Stored
  <2>2. t \in Nat
    BY <2>1 DEF KeyRecords, Expiries, KeysAssumption, Never
  <2> QED  BY <1>0, <2>2 DEF KeyRecords
<1>4. records' = [records EXCEPT ![r] = record]
  BY <1>1
<1> HIDE DEF record
<1>5. KeyStageInv(r)'
  <2>1. records'[r] = record /\ records'[subject[r]] = records[subject[r]] /\ record # None
    BY <1>0, <1>3, <1>4 DEF KeysTypeInv, KeysAssumption
  <2> QED  BY <1>0, <1>2, <1>3, <2>1 DEF Moved, KeyStageInv, Stored
<1> QED  BY <1>0, <1>2, <1>3, <1>4, <1>5, OneStored DEF Moved

\* Revoking a key, or deactivating the one a rotation replaced.
LEMMA Deactivates ==
    ASSUME KeysAssumption, KeysInv, NEW r \in Requests,
           (\E k \in KeyIds : Revoke(r, k)) \/ Deactivate(r)
    PROVE  KeysInv'
<1> DEFINE inactive(k) == [records[k] EXCEPT !.active = FALSE]
<1>0. KeysTypeInv
  BY DEF KeysInv
<1>1. ASSUME NEW k \in KeyIds, Stored(k)
      PROVE  inactive(k) \in KeyRecords /\ inactive(k).from = records[k].from
  <2>1. records[k] \in KeyRecords
    BY <1>0, <1>1 DEF KeysTypeInv, Stored
  <2> QED  BY <2>1 DEF KeyRecords
<1>2. ASSUME NEW k \in KeyIds, Revoke(r, k) PROVE KeysInv'
  <2>1. /\ Stored(k) /\ UNCHANGED time /\ Moved(r, "revoke", k, "done") /\ await[r] = "idle"
        /\ records' = [records EXCEPT ![k] = inactive(k)]
    BY <1>0, <1>2, Begun DEF Revoke, Stored
  <2>2. inactive(k) \in KeyRecords /\ inactive(k).from = records[k].from
    BY <1>1, <2>1
  <2> HIDE DEF inactive
  <2>3. KeyStageInv(r)' /\ Revoked(k)'
    BY <2>1 DEF Moved, KeyStageInv, Revoked
  <2> QED  BY <2>1, <2>2, <2>3, OneStored DEF Moved
<1>3. CASE Deactivate(r)
  <2>0. PICK k \in KeyIds : k = subject[r]
    BY <1>3 DEF Deactivate, KeysInv, KeyStageInv
  <2>1. /\ await[r] = "deactivate" /\ UNCHANGED time /\ Moved(r, task[r], k, "done")
        /\ records' = [records EXCEPT ![k] = inactive(k)]
        /\ Stored(k) /\ Stored(r) /\ records[r].from = k /\ r \in KeyIds
    BY <1>0, <2>0, <1>3, Resumed DEF Deactivate, KeysInv, KeyStageInv, KeyIds
  <2>2. inactive(k) \in KeyRecords /\ inactive(k).from = records[k].from
    BY <1>1, <2>1
  <2> HIDE DEF inactive
  <2>3. KeyStageInv(r)'
    BY <2>1 DEF Moved, KeyStageInv
  <2>4. Replaced(k)'
    <3>1. records'[k] = inactive(k) /\ inactive(k) # None /\ \A j \in KeyIds \ {k} : records'[j] = records[j]
      BY <1>0, <2>1, <2>2 DEF KeysTypeInv, KeysAssumption
    <3>2. Stored(r)' /\ records'[r].from = k
      BY <2>1, <2>2, <3>1 DEF Stored
    <3> QED  BY <2>1, <3>2 DEF Replaced
  <2>5. await[r] # "idle" => task'[r] = task[r] /\ subject'[r] = subject[r]
    BY <2>0, <2>1 DEF Moved
  <2> QED  BY <2>1, <2>2, <2>3, <2>4, <2>5, OneStored DEF Moved
<1> QED  BY <1>2, <1>3

LEMMA Others ==
    ASSUME KeysAssumption, KeysInv, NEW r \in Requests,
           \/ Count(r) \/ RecordUsage(r) \/ Die(r)
           \/ \E k \in KeyIds : BeginRotate(r, k) \/ BeginUse(r, k)
    PROVE  KeysInv'
<1>0. KeysTypeInv /\ KeyStageInv(r)
  BY DEF KeysInv
<1>1. CASE Count(r) \/ RecordUsage(r) \/ Die(r)
  <2>1. PICK next \in {"failed", "record", "done"} : Resume(r, next)
    BY <1>1 DEF Count, RecordUsage, Die
  <2>2. UNCHANGED <<time, records>> /\ await[r] # "idle"
    BY <1>1 DEF Count, RecordUsage, Die, Pending
  <2>3. Moved(r, task[r], subject[r], next)
    BY <1>0, <2>1, Resumed
  <2>4. KeyStageInv(r)'
    BY <2>3 DEF Moved, KeyStageInv
  <2> QED  BY <2>2, <2>3, <2>4, NothingStored DEF Moved
<1>2. ASSUME NEW k \in KeyIds, BeginRotate(r, k) \/ BeginUse(r, k) PROVE KeysInv'
  <2>1. PICK what \in {"rotate", "use"}, next \in {"insert", "count"} : BeginTask(r, what, k, next)
    BY <1>2 DEF BeginRotate, BeginUse
  <2>2. UNCHANGED <<time, records>> /\ Stored(k)
    BY <1>2 DEF BeginRotate, BeginUse, Stored
  <2>3. Moved(r, what, k, next) /\ await[r] = "idle"
    BY <1>0, <2>1, Begun
  <2>4. KeyStageInv(r)'
    BY <1>0, <2>2, <2>3 DEF Moved, KeyStageInv, Stored
  <2> QED  BY <2>2, <2>3, <2>4, NothingStored DEF Moved
<1> QED  BY <1>1, <1>2

LEMMA KeysPreserved == ASSUME KeysAssumption, KeysInv, [KeysNext]_keyVars PROVE KeysInv'
<1>1. CASE Advance \/ UNCHANGED keyVars
  <2>1. UNCHANGED <<records, await, task, subject>> /\ time' \in Nat
    BY <1>1 DEF Advance, keyVars, keyLocals, KeysInv, KeysTypeInv
  <2>2. KeysTypeInv'
    BY <2>1 DEF KeysInv, KeysTypeInv
  <2>3. /\ \A r \in Requests : KeyStageInv(r)'
        /\ \A k \in KeyIds : Stored(k)' => records'[k].active \/ Revoked(k)' \/ Replaced(k)'
    BY <2>1 DEF KeysInv, KeyStageInv, Stored, Revoked, Replaced
  <2> QED  BY <2>2, <2>3 DEF KeysInv
<1>2. CASE KeysNext /\ ~ Advance
  BY <1>2, Creates, Inserts, Deactivates, Others DEF KeysNext
<1> QED  BY <1>1, <1>2

\* A key that nobody revoked and that has not expired authenticates, or a replacement
\* for it is stored: at every step of every rotation, however many overlap and
\* wherever one of them dies.  (api-key-manager.ts rotate.)
THEOREM RotationsHandOver == ASSUME KeysAssumption PROVE KeysSpec => []RotationHandsOver
<1>1. KeysInit => KeysInv
  BY KeysInitially
<1>2. KeysInv /\ [KeysNext]_keyVars => KeysInv'
  BY KeysPreserved
<1>3. KeysInv => RotationHandsOver
  <2> SUFFICES ASSUME KeysInv, NEW k \in KeyIds, Stored(k), ~ records[k].active
               PROVE  (\E r \in Requests : task[r] = "revoke" /\ subject[r] = k) \/ Replaced(k)
    BY DEF RotationHandsOver, Authenticates, Stored, Replaced
  <2> QED  BY DEF KeysInv, Revoked
<1> QED  BY <1>1, <1>2, <1>3, PTL DEF KeysSpec

-----------------------------------------------------------------------------
(* The limit on the uses of a key.                                         *)

InProgress == {q \in Requests : Pending(q)}

\* The uses of k recorded in the window that starts at t, and the requests that have
\* been let through to record one more.
Used(k, t) == {u \in usages : u.key = k /\ u.at \in t..(t + RateWindow)}
LetThrough(k, t) ==
    {r \in Requests : await[r] = "record" /\ subject[r] = k /\ usedAt[r] \in t..(t + RateWindow)}

UseTypeInv ==
    /\ time \in Nat
    /\ DOMAIN await = Requests /\ DOMAIN subject = Requests
    /\ usedAt \in [Requests -> Nat]
    /\ IsFiniteSet(usages)
    /\ IsFiniteSet(InProgress) /\ Cardinality(InProgress) <= MaxInFlight

\* Who has been let through counts as much as who has recorded.
WithinLimit(k, t) == Cardinality(Used(k, t)) + Cardinality(LetThrough(k, t)) <= Limit + MaxInFlight - 1

UseInv ==
    /\ UseTypeInv
    /\ \A k \in KeyIds : \A t \in Nat : WithinLimit(k, t)

LEMMA SetsAreFinite ==
    ASSUME UseTypeInv, NEW k, NEW t
    PROVE  /\ IsFiniteSet(Used(k, t)) /\ IsFiniteSet(LetThrough(k, t))
           /\ Cardinality(Used(k, t)) \in Nat /\ Cardinality(LetThrough(k, t)) \in Nat
           /\ Cardinality(LetThrough(k, t)) <= Cardinality(InProgress)
<1>1. Used(k, t) \subseteq usages /\ LetThrough(k, t) \subseteq InProgress
  BY DEF Used, LetThrough, InProgress, Pending
<1>2. IsFiniteSet(usages) /\ IsFiniteSet(InProgress)
  BY DEF UseTypeInv
<1> QED  BY <1>1, <1>2, FS_Subset, FS_CardinalityType

LEMMA UseInitially == ASSUME KeysAssumption, KeysInit PROVE UseInv
<1>1. InProgress = {}
  BY DEF KeysInit, InProgress, Pending
<1>2. UseTypeInv
  BY <1>1, FS_EmptySet DEF UseTypeInv, KeysInit, KeysAssumption
<1>3. ASSUME NEW k \in KeyIds, NEW t \in Nat PROVE WithinLimit(k, t)
  <2>1. Used(k, t) = {} /\ LetThrough(k, t) = {}
    BY DEF KeysInit, Used, LetThrough
  <2> QED  BY <2>1, FS_EmptySet DEF WithinLimit, KeysAssumption
<1> QED  BY <1>2, <1>3 DEF UseInv

\* A step of r that begins an operation or goes on with one, and lets nobody through.
LEMMA NobodyLetThrough ==
    ASSUME KeysAssumption, UseInv, UNCHANGED <<time, usages>>, UseTypeInv',
           \A q \in Requests : await'[q] = "record" =>
               await[q] = "record" /\ subject'[q] = subject[q] /\ usedAt'[q] = usedAt[q]
    PROVE  UseInv'
<1> SUFFICES ASSUME NEW k \in KeyIds, NEW t \in Nat PROVE WithinLimit(k, t)'
  BY DEF UseInv
<1>1. Used(k, t)' = Used(k, t) /\ LetThrough(k, t)' \subseteq LetThrough(k, t)
  BY DEF Used, LetThrough
<1>2. Cardinality(LetThrough(k, t)') <= Cardinality(LetThrough(k, t))
  BY <1>1, SetsAreFinite, FS_Subset DEF UseInv
<1>3. Cardinality(LetThrough(k, t)') \in Nat /\ Cardinality(LetThrough(k, t)) \in Nat /\ Cardinality(Used(k, t)) \in Nat
  <2>1. IsFiniteSet(LetThrough(k, t)')
    BY <1>1, SetsAreFinite, FS_Subset DEF UseInv
  <2> QED  BY <2>1, SetsAreFinite, FS_CardinalityType DEF UseInv
<1> QED  BY <1>1, <1>2, <1>3 DEF UseInv, WithinLimit, KeysAssumption

\* Only the beginning of an operation puts a request under way, and the cap admits it.
LEMMA CapKept ==
    ASSUME KeysAssumption, UseTypeInv, NEW r \in Requests, DOMAIN await' = Requests,
           \A q \in Requests \ {r} : await'[q] = await[q],
           Cardinality(InProgress) < MaxInFlight \/ Pending(r)
    PROVE  IsFiniteSet(InProgress') /\ Cardinality(InProgress') <= MaxInFlight
<1>1. InProgress' \subseteq InProgress \cup {r}
  BY DEF InProgress, Pending
<1>2. IsFiniteSet(InProgress) /\ Cardinality(InProgress) \in Nat /\ Cardinality(InProgress) <= MaxInFlight
  BY FS_CardinalityType DEF UseTypeInv
<1>3. /\ IsFiniteSet(InProgress \cup {r})
      /\ Cardinality(InProgress \cup {r}) = IF r \in InProgress THEN Cardinality(InProgress)
                                                               ELSE Cardinality(InProgress) + 1
  BY <1>2, FS_AddElement
<1>4. Cardinality(InProgress \cup {r}) <= MaxInFlight
  BY <1>2, <1>3 DEF InProgress, KeysAssumption
<1>5. /\ IsFiniteSet(InProgress') /\ Cardinality(InProgress') \in Nat
      /\ Cardinality(InProgress') <= Cardinality(InProgress \cup {r})
  BY <1>1, <1>3, FS_Subset, FS_CardinalityType
<1>6. Cardinality(InProgress \cup {r}) \in Nat
  BY <1>3, FS_CardinalityType
<1> QED  BY <1>4, <1>5, <1>6 DEF KeysAssumption

LEMMA BeginsUnderCap ==
    ASSUME KeysAssumption, UseInv, NEW r \in Requests, NEW what, NEW k, NEW next \in {"done", "insert", "count"},
           BeginTask(r, what, k, next), UNCHANGED <<time, usages>>,
           usedAt' = usedAt \/ usedAt' = [usedAt EXCEPT ![r] = time]
    PROVE  UseInv'
<1>1. /\ Cardinality(InProgress) < MaxInFlight
      /\ DOMAIN await' = Requests /\ DOMAIN subject' = Requests /\ await'[r] = next
      /\ \A q \in Requests \ {r} : await'[q] = await[q] /\ subject'[q] = subject[q] /\ usedAt'[q] = usedAt[q]
      /\ usedAt' \in [Requests -> Nat]
  BY DEF BeginTask, UseInv, UseTypeInv, InProgress
<1>2. UseTypeInv'
  BY <1>1, CapKept DEF UseInv, UseTypeInv
<1> QED  BY <1>1, <1>2, NobodyLetThrough

LEMMA ResumesUnderCap ==
    ASSUME KeysAssumption, UseInv, NEW r \in Requests, NEW next, Resume(r, next), Pending(r), UNCHANGED time
    PROVE  /\ UNCHANGED <<subject, usedAt>> /\ await'[r] = next
           /\ \A q \in Requests \ {r} : await'[q] = await[q]
           /\ IsFiniteSet(usages') => UseTypeInv'
<1>1. /\ DOMAIN await' = Requests /\ UNCHANGED <<subject, usedAt>> /\ await'[r] = next
      /\ \A q \in Requests \ {r} : await'[q] = await[q]
  BY DEF Resume, UseInv, UseTypeInv
<1>2. IsFiniteSet(InProgress') /\ Cardinality(InProgress') <= MaxInFlight
  BY <1>1, CapKept DEF UseInv
<1> QED  BY <1>1, <1>2 DEF UseInv, UseTypeInv

\* A request is let through only while the window that ends with its instant is below the
\* limit; whoever else is let through with it is under way.
LEMMA CountsFirst == ASSUME KeysAssumption, UseInv, NEW r \in Requests, Count(r) PROVE UseInv'
<1> DEFINE past == UsesSince(subject[r], usedAt[r] - RateWindow)
           next == IF Cardinality(past) >= Limit THEN "failed" ELSE "record"
<1>1. /\ await[r] = "count" /\ Pending(r) /\ UNCHANGED <<time, records, usages>> /\ Resume(r, next)
      /\ IsFiniteSet(usages)
  BY DEF Count, Pending, UseInv, UseTypeInv
<1> HIDE DEF next
<1>2. /\ UNCHANGED <<subject, usedAt>> /\ await'[r] = next
      /\ \A q \in Requests \ {r} : await'[q] = await[q]
      /\ UseTypeInv'
  BY <1>1, ResumesUnderCap
<1>3. CASE next = "failed"
  BY <1>1, <1>2, <1>3, NobodyLetThrough
<1>4. CASE next = "record" /\ Cardinality(past) < Limit
  <2> SUFFICES ASSUME NEW k \in KeyIds, NEW t \in Nat PROVE WithinLimit(k, t)'
    BY <1>2 DEF UseInv
  <2>1. Used(k, t)' = Used(k, t)
    BY <1>1 DEF Used
  <2>2. CASE subject[r] = k /\ usedAt[r] \in t..(t + RateWindow)
    <3>1. Used(k, t) \subseteq past
      <4>1. usedAt[r] - RateWindow <= t
        BY <2>2 DEF KeysAssumption, UseInv, UseTypeInv
      <4>2. ASSUME NEW u \in Used(k, t) PROVE u \in usages /\ u.key = k /\ u.at >= usedAt[r] - RateWindow
        <5>1. u \in usages /\ u.key = k /\ u.at \in t..(t + RateWindow)
          BY <4>2 DEF Used
        <5>2. usedAt[r] \in Nat /\ RateWindow \in Nat
          BY DEF KeysAssumption, UseInv, UseTypeInv
        <5> QED  BY <4>1, <5>1, <5>2
      <4> QED  BY <2>2, <4>2 DEF UsesSince
    <3>2. past \subseteq usages
      BY DEF UsesSince
    <3>3. IsFiniteSet(past) /\ Cardinality(past) \in Nat
      BY <1>1, <3>2, FS_Subset, FS_CardinalityType
    <3> HIDE DEF past
    <3>4. Cardinality(Used(k, t)) \in Nat /\ Cardinality(Used(k, t)) <= Cardinality(past)
      BY <3>1, <3>3, FS_Subset, FS_CardinalityType
    <3>5. /\ Cardinality(LetThrough(k, t)') \in Nat
          /\ Cardinality(LetThrough(k, t)') <= Cardinality(InProgress')
          /\ Cardinality(InProgress') <= MaxInFlight
          /\ Cardinality(InProgress') \in Nat
      <4>1. /\ LetThrough(k, t)' \subseteq InProgress' /\ IsFiniteSet(InProgress')
            /\ Cardinality(InProgress') <= MaxInFlight
        BY <1>2 DEF UseTypeInv, LetThrough, InProgress, Pending
      <4> QED  BY <4>1, FS_Subset, FS_CardinalityType
    <3> QED  BY <1>4, <2>1, <3>3, <3>4, <3>5 DEF WithinLimit, KeysAssumption
  <2>3. CASE ~ (subject[r] = k /\ usedAt[r] \in t..(t + RateWindow))
    <3>1. LetThrough(k, t)' = LetThrough(k, t)
      BY <1>1, <1>2, <2>3 DEF LetThrough
    <3> QED  BY <2>1, <3>1 DEF UseInv, WithinLimit
  <2> QED  BY <2>2, <2>3
<1>5. Cardinality(past) \in Nat
  <2>1. past \subseteq usages
    BY DEF UsesSince
  <2> QED  BY <1>1, <2>1, FS_Subset, FS_CardinalityType
<1> QED  BY <1>3, <1>4, <1>5 DEF next, KeysAssumption

LEMMA OneMore ==
    ASSUME NEW S, NEW x, IsFiniteSet(S)
    PROVE  Cardinality(S \cup {x}) \in Nat /\ Cardinality(S \cup {x}) <= Cardinality(S) + 1
<1>1. Cardinality(S) \in Nat /\ IsFiniteSet(S \cup {x})
  BY FS_CardinalityType, FS_AddElement
<1>2. Cardinality(S \cup {x}) = IF x \in S THEN Cardinality(S) ELSE Cardinality(S) + 1
  BY FS_AddElement
<1> QED  BY <1>1, <1>2

\* Recording a use turns one that was let through into one that is recorded.
LEMMA RecordsLast == ASSUME KeysAssumption, UseInv, NEW r \in Requests, RecordUsage(r) PROVE UseInv'
<1> DEFINE use == [by |-> r, key |-> subject[r], at |-> usedAt[r]]
<1>1. /\ await[r] = "record" /\ Pending(r) /\ UNCHANGED time /\ Resume(r, "done")
      /\ usages' = usages \cup {use} /\ IsFiniteSet(usages)
  BY DEF RecordUsage, Pending, UseInv, UseTypeInv
<1>2. /\ UNCHANGED <<subject, usedAt>> /\ await'[r] = "done"
      /\ \A q \in Requests \ {r} : await'[q] = await[q]
      /\ UseTypeInv'
  BY <1>1, ResumesUnderCap, FS_AddElement
<1> SUFFICES ASSUME NEW k \in KeyIds, NEW t \in Nat PROVE WithinLimit(k, t)'
  BY <1>2 DEF UseInv
<1>3. LetThrough(k, t)' = LetThrough(k, t) \ {r}
  BY <1>2 DEF LetThrough
<1>4. /\ IsFiniteSet(Used(k, t)) /\ Cardinality(Used(k, t)) \in Nat
      /\ IsFiniteSet(LetThrough(k, t)) /\ Cardinality(LetThrough(k, t)) \in Nat
      /\ WithinLimit(k, t)
  BY SetsAreFinite DEF UseInv
<1>5. Cardinality(LetThrough(k, t)') = IF r \in LetThrough(k, t) THEN Cardinality(LetThrough(k, t)) - 1
                                                              ELSE Cardinality(LetThrough(k, t))
  BY <1>3, <1>4, FS_RemoveElement
<1>6. CASE subject[r] = k /\ usedAt[r] \in t..(t + RateWindow)
  <2>1. r \in LetThrough(k, t) /\ Used(k, t)' = Used(k, t) \cup {use}
    BY <1>1, <1>6 DEF LetThrough, Used
  <2> HIDE DEF use
  <2>2. /\ Cardinality(Used(k, t)') \in Nat
        /\ Cardinality(Used(k, t)') <= Cardinality(Used(k, t)) + 1
    BY <1>4, <2>1, OneMore
  <2> QED  BY <1>4, <1>5, <2>1, <2>2 DEF WithinLimit, KeysAssumption
<1>7. CASE ~ (subject[r] = k /\ usedAt[r] \in t..(t + RateWindow))
  <2>1. r \notin LetThrough(k, t) /\ Used(k, t)' = Used(k, t)
    BY <1>1, <1>7 DEF LetThrough, Used
  <2> QED  BY <1>4, <1>5, <2>1 DEF WithinLimit
<1> QED  BY <1>6, <1>7

LEMMA UsesPreserved == ASSUME KeysAssumption, UseInv, [KeysNext]_keyVars PROVE UseInv'
<1>1. CASE Advance \/ UNCHANGED keyVars
  <2>1. UNCHANGED <<usages, await, subject, usedAt>> /\ time' \in Nat
    BY <1>1 DEF Advance, keyVars, keyLocals, UseInv, UseTypeInv
  <2> QED
    BY <2>1 DEF UseInv, UseTypeInv, InProgress, Pending, WithinLimit, Used, LetThrough
<1>2. ASSUME NEW r \in Requests,
             Create(r) \/ \E k \in KeyIds : Revoke(r, k) \/ BeginRotate(r, k) \/ BeginUse(r, k)
      PROVE  UseInv'
  <2>1. \E what \in {"create", "revoke", "rotate", "use"}, k \in KeyIds, next \in {"done", "insert", "count"} :
          BeginTask(r, what, k, next)
    BY <1>2 DEF Create, Revoke, BeginRotate, BeginUse, KeyIds
  <2>2. UNCHANGED <<time, usages>> /\ (usedAt' = usedAt \/ usedAt' = [usedAt EXCEPT ![r] = time])
    BY <1>2 DEF Create, Revoke, BeginRotate, BeginUse
  <2> QED  BY <2>1, <2>2, BeginsUnderCap
<1>3. ASSUME NEW r \in Requests, Insert(r) \/ Deactivate(r) \/ Die(r) PROVE UseInv'
  <2>1. PICK next \in {"deactivate", "done", "failed"} : Resume(r, next)
    BY <1>3 DEF Insert, Deactivate, Die
  <2>2. Pending(r) /\ UNCHANGED <<time, usages>> /\ IsFiniteSet(usages)
    BY <1>3 DEF Insert, Deactivate, Die, Pending, UseInv, UseTypeInv
  <2>3. /\ UNCHANGED <<subject, usedAt>> /\ await'[r] = next
        /\ \A q \in Requests \ {r} : await'[q] = await[q]
        /\ UseTypeInv'
    BY <2>1, <2>2, ResumesUnderCap
  <2> QED  BY <2>2, <2>3, NobodyLetThrough
<1> QED
  BY <1>1, <1>2, <1>3, CountsFirst, RecordsLast DEF KeysNext

\* In no stretch as long as the window are more uses of a key recorded than the limit
\* and the requests counted at the same time account for, whatever their order and for
\* a clock that goes on between the count and the record.  (recordUse.)
THEOREM UsesStayWithinLimit == ASSUME KeysAssumption PROVE KeysSpec => []UsesWithinLimit
<1>1. ASSUME UseInv PROVE UsesWithinLimit
  <2> SUFFICES ASSUME NEW k \in KeyIds, NEW t \in 0..MaxTime
               PROVE  Cardinality(Used(k, t)) <= Limit + MaxInFlight - 1
    BY DEF UsesWithinLimit, Used
  <2>1. /\ Cardinality(Used(k, t)) \in Nat /\ Cardinality(LetThrough(k, t)) \in Nat
        /\ Cardinality(Used(k, t)) + Cardinality(LetThrough(k, t)) <= Limit + MaxInFlight - 1
    BY <1>1, SetsAreFinite DEF UseInv, WithinLimit
  <2> QED  BY <2>1 DEF KeysAssumption
<1> QED  BY UseInitially, UsesPreserved, <1>1, PTL DEF KeysSpec

-----------------------------------------------------------------------------
(* Sessions.                                                               *)


Labels == {"idle", "verified", "list", "write", "done", "failed"}
Touching == {"signIn", "validate", "refresh"}

SessionsTypeInv ==
    /\ instant \in Nat /\ deactivated \in BOOLEAN
    /\ sessions \in [Ids -> Records \cup {None}]
    /\ at \in [Requests -> Labels]
    /\ call \in [Requests -> Touching \cup Endings \cup {None}]
    /\ target = [r \in Requests |-> target[r]]
    /\ readAt \in [Requests -> Nat]
    /\ updates = [r \in Requests |-> updates[r]]
    /\ \A r \in Requests : \A u \in updates[r] : u[1] \in Ids /\ u[2] \in Records
    /\ asked \in [Requests -> SUBSET Ids]
    /\ overlap \in [Requests -> SUBSET Requests] /\ DOMAIN after = Requests

\* Where a request is tells what it may still write.
SessionStageInv(r) ==
    /\ at[r] # "write" => updates[r] = {}
    /\ \A u \in updates[r] :
         /\ (call[r] \in Endings /\ u[2].revoked) \/ Touches(r, u[1])
         /\ u[1] \in Exist \/ (call[r] = "signIn" /\ u[1] = r)
    /\ at[r] = "verified" => call[r] = "signIn"
    /\ at[r] = "list" => call[r] \in Endings
    /\ at[r] # "idle" /\ call[r] = "signIn" => target[r] = r
    /\ at[r] = "idle" => r \notin Exist
    /\ at[r] \in {"idle", "list"} \/ call[r] \notin Endings => asked[r] = {}
    /\ asked[r] \subseteq Exist
    /\ readAt[r] <= instant
    /\ at[r] = "done" /\ call[r] = "deactivateUser" => deactivated

\* A revocation under way knows every request under way.
OverlapInv ==
    /\ \A r, q \in Busy : call[r] \in Endings /\ q # r => q \in overlap[r]
    /\ \A r \in Requests : \A q \in overlap[r] : at[q] # "idle"

InHand(s) == \E q \in Requests : Touches(q, s) /\ at[q] \in {"verified", "write"}
Overlapped(r, s) == \E q \in overlap[r] : Touches(q, s)

\* What a revocation is to end has ended or is among what it has still to write,
\* and nobody else has it in hand.
EndInv(r) ==
    at[r] \in {"write", "done"} =>
        \A s \in asked[r] :
            \/ Overlapped(r, s)
            \/ (~ Usable(s) \/ \E u \in updates[r] : u[1] = s) /\ ~ InHand(s)

\* What a deactivation did not list is not there and nobody is to establish it, or
\* its sign-in came in after the deactivation had returned.
Later(r, s) == s \in Requests /\ at[s] # "idle" /\ r \in after[s]
Unborn(s) == s \notin Exist /\ ~ InHand(s)

NewInv(r) ==
    at[r] \in {"write", "done"} /\ call[r] = "deactivateUser" =>
        \A s \in Ids \ asked[r] : Overlapped(r, s) \/ Unborn(s) \/ Later(r, s)

SessionsInv ==
    /\ SessionsTypeInv /\ OverlapInv
    /\ \A r \in Requests : SessionStageInv(r) /\ EndInv(r) /\ NewInv(r)

LEMMA SessionsInitially == ASSUME SessionsAssumption, SessionsInit PROVE SessionsInv
<1>1. SessionsTypeInv
  <2>1. PICK d \in Devices : sessions = [s \in Ids |-> IF s = Original THEN Opened(d) ELSE None]
    BY DEF SessionsInit
  <2>2. Opened(d) \in Records
    <3>1. instant + AccessTtl \in Nat /\ instant + RefreshTtl \in Nat
      BY DEF SessionsInit, SessionsAssumption
    <3> QED  BY <3>1 DEF Opened, Records
  <2>3. sessions \in [Ids -> Records \cup {None}]
    BY <2>1, <2>2
  <2> QED  BY <2>3 DEF SessionsInit, SessionsTypeInv, Labels
<1>2. ASSUME NEW r \in Requests
      PROVE  /\ at[r] = "idle" /\ updates[r] = {} /\ asked[r] = {} /\ overlap[r] = {}
             /\ readAt[r] = 0 /\ instant = 0 /\ r \notin Exist
  BY DEF SessionsInit, Exist, Ids, SessionsAssumption
<1>3. OverlapInv
  BY <1>2 DEF OverlapInv, Busy
<1>4. ASSUME NEW r \in Requests PROVE SessionStageInv(r) /\ EndInv(r) /\ NewInv(r)
  BY <1>2 DEF SessionStageInv, EndInv, NewInv
<1> QED  BY <1>1, <1>3, <1>4 DEF SessionsInv

-----------------------------------------------------------------------------
\* What a handler has checked and assigned when its request comes in.
Admitted(r, what, whom, next, W, A, t) ==
    /\ at[r] = "idle" /\ UNCHANGED <<instant, sessions, deactivated>>
    /\ what \in Touching \cup Endings /\ next \in Labels \ {"idle"}
    /\ A \subseteq Exist /\ t \in Nat /\ t <= instant
    /\ call' = [call EXCEPT ![r] = what] /\ target' = [target EXCEPT ![r] = whom]
    /\ at' = [at EXCEPT ![r] = next]
    /\ overlap' = Meeting(r, what) /\ after' = [after EXCEPT ![r] = Deactivations]
    /\ updates' = [updates EXCEPT ![r] = W] /\ asked' = [asked EXCEPT ![r] = A]
    /\ readAt' = [readAt EXCEPT ![r] = t]
    /\ \A u \in W : /\ u[1] \in Exist /\ u[2] \in Records
                    /\ (what \in Endings /\ u[2].revoked) \/ (what \in Touching /\ whom = u[1])
    /\ next # "write" => W = {}
    /\ what \notin Endings \/ next = "list" => A = {}
    /\ next = "list" => what \in Endings
    /\ what = "deactivateUser" => next \notin {"write", "done"}
    /\ what = "signIn" => whom = r /\ next = "verified"
    /\ next = "verified" => what = "signIn"
    /\ what \in Touching /\ next = "write" => whom \in Exist /\ Usable(whom)
    /\ next \in {"write", "done"} => \A s \in A : ~ Usable(s) \/ \E u \in W : u[1] = s

LEMMA OpenStep ==
    ASSUME SessionsAssumption, SessionsInv, NEW r \in Requests,
           NEW what, NEW whom, NEW next, NEW W, NEW A, NEW t,
           Admitted(r, what, whom, next, W, A, t)
    PROVE  SessionsInv'
<1> USE DEF SessionsInv, Admitted, Meeting
<1>1. SessionsTypeInv'
  <2>1. target' = [q \in Requests |-> target'[q]] /\ updates' = [q \in Requests |-> updates'[q]]
    BY DEF SessionsTypeInv
  <2>2. ASSUME NEW q \in Requests, NEW u \in updates'[q] PROVE u[1] \in Ids /\ u[2] \in Records
    <3>1. DOMAIN updates = Requests
      BY DEF SessionsTypeInv
    <3>2. CASE q = r
      <4>0. updates'[r] = W
        BY <3>1
      <4>1. u \in W
        BY <3>2, <4>0
      <4>2. u[1] \in Exist /\ u[2] \in Records
        BY <4>1
      <4> QED  BY <4>2 DEF Exist
    <3>3. CASE q # r
      BY <3>1, <3>3 DEF SessionsTypeInv
    <3> QED  BY <3>2, <3>3
  <2>3. A \in SUBSET Ids /\ Busy \in SUBSET Requests
    BY DEF Exist, Busy
  <2>4. asked' \in [Requests -> SUBSET Ids] /\ overlap' \in [Requests -> SUBSET Requests]
    BY <2>3 DEF SessionsTypeInv
  <2> QED  BY <2>1, <2>2, <2>4 DEF SessionsTypeInv
<1>2. /\ at'[r] = next /\ call'[r] = what /\ target'[r] = whom /\ updates'[r] = W /\ asked'[r] = A
      /\ readAt'[r] = t
      /\ \A q \in Requests \ {r} : /\ at'[q] = at[q] /\ call'[q] = call[q] /\ target'[q] = target[q]
                                  /\ updates'[q] = updates[q] /\ asked'[q] = asked[q] /\ readAt'[q] = readAt[q]
  BY DEF SessionsTypeInv
<1>3. Exist' = Exist /\ \A s \in Ids : Usable(s)' = Usable(s)
  BY DEF Exist, Usable, IsPast
<1>4. \A q \in Requests \ {r} : \A s \in Ids : Touches(q, s)' = Touches(q, s)
  BY <1>2 DEF Touches
<1>5. OverlapInv'
  <2>1. Busy' \subseteq Busy \cup {r} /\ r \notin Busy /\ Busy \subseteq Requests
    BY <1>2 DEF Busy
  <2>2. ASSUME NEW p \in Busy', NEW q \in Busy', call'[p] \in Endings, q # p PROVE q \in overlap'[p]
    BY <1>2, <2>1, <2>2 DEF OverlapInv
  <2>3. ASSUME NEW p \in Requests, NEW q \in overlap'[p] PROVE at'[q] # "idle"
    <3>1. CASE q = r
      BY <1>2, <3>1
    <3>2. CASE q # r
      <4>1. q \in Busy \/ q \in overlap[p]
        BY <3>2
      <4> QED  BY <1>2, <3>2, <4>1 DEF OverlapInv, Busy, SessionsTypeInv
    <3> QED  BY <3>1, <3>2
  <2> QED  BY <2>2, <2>3 DEF OverlapInv
<1>6. ASSUME NEW q \in Requests PROVE SessionStageInv(q)'
  <2>1. CASE q = r
    BY <1>2, <1>3, <2>1 DEF SessionStageInv, Touches, Touching
  <2>2. CASE q # r
    <3>1. SessionStageInv(q) /\ \A u \in updates[q] : u[1] \in Ids
      BY DEF SessionsTypeInv
    <3> QED  BY <1>2, <1>3, <1>4, <2>2, <3>1 DEF SessionStageInv
  <2> QED  BY <2>1, <2>2
\* A session comes into hand only when it is usable, or when it is new.
<1>7. ASSUME NEW s \in Ids, InHand(s)', ~ InHand(s)
      PROVE  /\ Touches(r, s)'
             /\ (s = r /\ next = "verified") \/ (s \in Exist /\ Usable(s))
  <2>1. PICK q \in Requests : Touches(q, s)' /\ at'[q] \in {"verified", "write"}
    BY <1>7 DEF InHand
  <2>2. q = r
    BY <1>2, <1>4, <1>7, <2>1 DEF InHand
  <2>3. what \in Touching /\ whom = s /\ next \in {"verified", "write"}
    BY <1>2, <2>1, <2>2 DEF Touches, Touching
  <2>4. CASE next = "verified"
    BY <2>1, <2>2, <2>3, <2>4
  <2>5. CASE next = "write"
    <3>1. whom \in Exist /\ Usable(whom)
      BY <2>3, <2>5
    <3> QED  BY <2>1, <2>2, <2>3, <3>1
  <2> QED  BY <2>3, <2>4, <2>5
<1>8. ASSUME NEW q \in Requests, q # r, NEW s \in Ids, Overlapped(q, s) PROVE Overlapped(q, s)'
  <2>1. PICK p \in overlap[q] : Touches(p, s)
    BY <1>8 DEF Overlapped
  <2>2. p # r /\ p \in Requests
    BY DEF OverlapInv, SessionsTypeInv
  <2>3. p \in overlap'[q]
    BY <1>8
  <2> QED  BY <1>4, <2>1, <2>2, <2>3 DEF Overlapped
<1>9. ASSUME NEW q \in Requests, q # r, q \in Busy, call[q] \in Endings, NEW s \in Ids, Touches(r, s)'
      PROVE  Overlapped(q, s)'
  BY <1>9 DEF Overlapped
<1>10. ASSUME NEW q \in Requests PROVE EndInv(q)'
  <2>1. CASE q = r
    <3> SUFFICES ASSUME next \in {"write", "done"}, NEW s \in A
                 PROVE  Overlapped(r, s)' \/ ((~ Usable(s)' \/ \E u \in W : u[1] = s) /\ ~ InHand(s)')
      BY <1>2, <2>1 DEF EndInv
    <3>1. what \in Endings /\ s \in Ids
      BY DEF Exist
    <3>2. ~ Touches(r, s)'
      BY <1>2, <3>1 DEF Touches, Endings
    <3>3. CASE InHand(s)'
      <4>1. PICK p \in Requests : Touches(p, s)' /\ at'[p] \in {"verified", "write"}
        BY <3>3 DEF InHand
      <4>2. p # r
        BY <3>2, <4>1
      <4>3. p \in Busy
        BY <1>2, <4>1, <4>2 DEF Busy
      <4>4. p \in overlap'[r]
        BY <3>1, <4>3
      <4> QED  BY <4>1, <4>4 DEF Overlapped
    <3>4. CASE ~ InHand(s)'
      BY <1>3, <3>1, <3>4
    <3> QED  BY <3>3, <3>4
  <2>2. CASE q # r
    <3> SUFFICES ASSUME at[q] \in {"write", "done"}, NEW s \in asked[q]
                 PROVE  Overlapped(q, s)' \/ ((~ Usable(s)' \/ \E u \in updates[q] : u[1] = s) /\ ~ InHand(s)')
      BY <1>2, <2>2 DEF EndInv
    <3>1. EndInv(q) /\ SessionStageInv(q) /\ s \in Ids /\ s \in Exist /\ call[q] \in Endings
      BY DEF SessionStageInv, SessionsTypeInv
    <3>2. CASE Overlapped(q, s)
      BY <1>8, <2>2, <3>1, <3>2
    <3>3. CASE ~ Overlapped(q, s) /\ ~ InHand(s)'
      BY <1>3, <3>1, <3>3 DEF EndInv
    <3>4. CASE ~ Overlapped(q, s) /\ InHand(s)'
      <4>1. ~ InHand(s) /\ (~ Usable(s) \/ \E u \in updates[q] : u[1] = s)
        BY <3>1, <3>4 DEF EndInv
      <4>2. Touches(r, s)' /\ (s = r \/ Usable(s))
        BY <1>7, <3>1, <3>4, <4>1
      <4>3. s # r
        BY <3>1 DEF SessionStageInv
      <4>4. updates[q] # {}
        BY <4>1, <4>2, <4>3
      <4>5. q \in Busy
        BY <3>1, <4>4 DEF SessionStageInv, Busy
      <4> QED  BY <1>9, <2>2, <3>1, <4>2, <4>5
    <3> QED  BY <3>2, <3>3, <3>4
  <2> QED  BY <2>1, <2>2
<1>11. ASSUME NEW q \in Requests PROVE NewInv(q)'
  <2>1. CASE q = r
    BY <1>2, <2>1 DEF NewInv
  <2>2. CASE q # r
    <3> SUFFICES ASSUME at[q] \in {"write", "done"}, call[q] = "deactivateUser", NEW s \in Ids \ asked[q]
                 PROVE  Overlapped(q, s)' \/ Unborn(s)' \/ Later(q, s)'
      BY <1>2, <2>2 DEF NewInv
    <3>1. NewInv(q) /\ SessionStageInv(q)
      OBVIOUS
    <3>2. CASE Overlapped(q, s)
      BY <1>8, <2>2, <3>2
    <3>3. CASE Unborn(s) /\ ~ InHand(s)'
      BY <1>3, <3>3 DEF Unborn
    <3>4. CASE Unborn(s) /\ InHand(s)'
      <4>1. Touches(r, s)' /\ s = r
        BY <1>7, <3>4 DEF Unborn
      <4>2. CASE at[q] = "write"
        <5>1. q \in Busy /\ call[q] \in Endings
          BY <4>2 DEF Busy, Endings
        <5> QED  BY <1>9, <2>2, <4>1, <5>1
      <4>3. CASE at[q] = "done"
        BY <1>2, <2>2, <4>1, <4>3 DEF Later, Deactivations, Returned, SessionsTypeInv
      <4> QED  BY <4>2, <4>3
    <3>5. CASE Later(q, s)
      BY <1>2, <3>5 DEF Later, SessionsTypeInv
    <3> QED  BY <3>1, <3>2, <3>3, <3>4, <3>5 DEF NewInv
  <2> QED  BY <2>1, <2>2
<1> QED  BY <1>1, <1>5, <1>6, <1>10, <1>11

-----------------------------------------------------------------------------
\* What each handler has checked as it comes in.
LEMMA Opens ==
    ASSUME SessionsAssumption, SessionsInv, NEW r \in Requests,
           \/ Verify(r)
           \/ \E s \in Exist : Validate(r, s) \/ Refresh(r, s) \/ SignOut(r, s)
           \/ \E d \in Devices : BeginMany(r, "revokeDevice", d)
           \/ BeginMany(r, "deactivateUser", None)
    PROVE  SessionsInv'
<1> USE DEF Open
<1>0. /\ readAt[r] \in Nat /\ readAt[r] <= instant /\ instant \in Nat
      /\ readAt' = readAt => readAt' = [readAt EXCEPT ![r] = readAt[r]]
  BY DEF SessionsInv, SessionsTypeInv, SessionStageInv
<1>1. at[r] = "idle" => /\ updates[r] = {} /\ asked[r] = {}
                        /\ updates' = updates => updates' = [updates EXCEPT ![r] = {}]
                        /\ asked' = asked => asked' = [asked EXCEPT ![r] = {}]
  BY DEF SessionsInv, SessionsTypeInv, SessionStageInv
<1>2. CASE Verify(r)
  <2>1. at' = [at EXCEPT ![r] = "verified"] /\ after' = [after EXCEPT ![r] = Deactivations]
    BY <1>2 DEF Verify
  <2>2. /\ at[r] = "idle" /\ UNCHANGED <<instant, sessions, deactivated>>
        /\ call' = [call EXCEPT ![r] = "signIn"] /\ target' = [target EXCEPT ![r] = r]
        /\ updates' = [updates EXCEPT ![r] = {}] /\ asked' = [asked EXCEPT ![r] = {}]
        /\ readAt' = [readAt EXCEPT ![r] = readAt[r]]
    BY <1>0, <1>1, <1>2 DEF Verify
  <2>3. overlap' = Meeting(r, "signIn")
    BY <1>2 DEF Verify
  <2>4. Admitted(r, "signIn", r, "verified", {}, {}, readAt[r])
    <3>1. "signIn" \in Touching /\ "signIn" \notin Endings /\ "verified" \in Labels \ {"idle"}
      BY DEF Touching, Endings, Labels
    <3> QED  BY <1>0, <2>1, <2>2, <2>3, <3>1 DEF Admitted
  <2> QED  BY <2>4, OpenStep
<1>3. ASSUME NEW s \in Exist, Validate(r, s) \/ Refresh(r, s) PROVE SessionsInv'
  <2>0. sessions[s] \in Records /\ s \in Ids
    BY DEF SessionsInv, SessionsTypeInv, Exist
  <2>1. PICK what \in {"validate", "refresh"}, next \in {"failed", "write"}, record \in Records :
           /\ call' = [call EXCEPT ![r] = what] /\ at' = [at EXCEPT ![r] = next]
           /\ updates' = [updates EXCEPT ![r] = IF next = "write" THEN {<<s, record>>} ELSE {}]
           /\ next = "write" => Usable(s)
           /\ overlap' = Meeting(r, what) /\ after' = [after EXCEPT ![r] = Deactivations]
    <3>1. CASE Validate(r, s)
      BY <2>0, <3>1 DEF Validate, OpenToWrite, Usable, Exist
    <3>2. CASE Refresh(r, s)
      <4>1. Reissued(s) \in Records
        <5>1. instant + AccessTtl \in Nat
          BY <1>0 DEF SessionsAssumption
        <5> QED  BY <2>0, <5>1 DEF Reissued, Records
      <4> QED  BY <2>0, <3>2, <4>1 DEF Refresh, OpenToWrite, Usable, Exist
    <3> QED  BY <1>3, <3>1, <3>2
  <2>2. /\ at[r] = "idle" /\ UNCHANGED <<instant, sessions, deactivated>>
        /\ target' = [target EXCEPT ![r] = s] /\ asked' = [asked EXCEPT ![r] = {}]
        /\ readAt' = [readAt EXCEPT ![r] = readAt[r]]
    BY <1>0, <1>1, <1>3 DEF Validate, Refresh, OpenToWrite
  <2> DEFINE W == IF next = "write" THEN {<<s, record>>} ELSE {}
  <2>3. /\ updates' = [updates EXCEPT ![r] = W]
        /\ next # "write" => W = {}
        /\ \A u \in W : u[1] = s /\ u[2] \in Records
    BY <2>1
  <2> HIDE DEF W
  <2>4. Admitted(r, what, s, next, W, {}, readAt[r])
    <3>1. what \in Touching /\ what \notin Endings /\ what # "signIn" /\ next \in Labels \ {"idle"}
      BY DEF Touching, Endings, Labels
    <3> QED  BY <1>0, <2>1, <2>2, <2>3, <3>1 DEF Admitted
  <2> QED  BY <2>4, OpenStep
<1>4. ASSUME NEW s \in Exist, SignOut(r, s) PROVE SessionsInv'
  <2>0. sessions[s] \in Records /\ s \in Ids
    BY DEF SessionsInv, SessionsTypeInv, Exist
  <2>1. PICK next \in {"done", "write"} :
           /\ at' = [at EXCEPT ![r] = next]
           /\ updates' = [updates EXCEPT ![r] = IF next = "write" THEN {<<s, RevokedFrom(sessions[s])>>} ELSE {}]
           /\ next = "done" => sessions[s].revoked
    BY <1>4 DEF SignOut
  <2>2. /\ at[r] = "idle" /\ UNCHANGED <<instant, sessions, deactivated>>
        /\ call' = [call EXCEPT ![r] = "signOut"] /\ target' = [target EXCEPT ![r] = s]
        /\ asked' = [asked EXCEPT ![r] = {s}]
        /\ readAt' = [readAt EXCEPT ![r] = readAt[r]]
        /\ overlap' = Meeting(r, "signOut") /\ after' = [after EXCEPT ![r] = Deactivations]
    BY <1>0, <1>4 DEF SignOut
  <2> DEFINE W == IF next = "write" THEN {<<s, RevokedFrom(sessions[s])>>} ELSE {}
  <2>3. RevokedFrom(sessions[s]) \in Records /\ RevokedFrom(sessions[s]).revoked
    BY <2>0 DEF RevokedFrom, Records
  <2>4. /\ updates' = [updates EXCEPT ![r] = W]
        /\ next # "write" => W = {}
        /\ \A u \in W : u[1] = s /\ u[2] \in Records /\ u[2].revoked
        /\ next = "write" => \E u \in W : u[1] = s
    <3>1. CASE next = "write"
      <4>1. W = {<<s, RevokedFrom(sessions[s])>>}
        BY <3>1
      <4> QED  BY <2>1, <2>3, <3>1, <4>1
    <3>2. CASE next = "done"
      BY <2>1, <3>2
    <3> QED  BY <3>1, <3>2
  <2>5. next = "done" => ~ Usable(s)
    BY <2>1 DEF Usable
  <2> HIDE DEF W
  <2>6. \A t \in {s} : ~ Usable(t) \/ \E u \in W : u[1] = t
    <3>1. ~ Usable(s) \/ \E u \in W : u[1] = s
      <4>1. CASE next = "write"
        BY <2>4, <4>1
      <4>2. CASE next = "done"
        BY <2>5, <4>2
      <4> QED  BY <4>1, <4>2
    <3> QED  BY <3>1, Zenon
  <2>7. Admitted(r, "signOut", s, next, W, {s}, readAt[r])
    <3>1. "signOut" \in Endings /\ "signOut" \notin Touching /\ next \in Labels \ {"idle"}
      BY DEF Touching, Endings, Labels
    <3> QED  BY <1>0, <2>1, <2>2, <2>4, <2>6, <3>1 DEF Admitted
  <2> QED  BY <2>7, OpenStep
<1>5. ASSUME NEW what \in {"revokeDevice", "deactivateUser"}, NEW d, BeginMany(r, what, d) PROVE SessionsInv'
  <2>1. /\ at[r] = "idle" /\ UNCHANGED <<instant, sessions, deactivated>>
        /\ call' = [call EXCEPT ![r] = what] /\ target' = [target EXCEPT ![r] = d]
        /\ at' = [at EXCEPT ![r] = "list"]
        /\ updates' = [updates EXCEPT ![r] = {}] /\ asked' = [asked EXCEPT ![r] = {}]
        /\ readAt' = [readAt EXCEPT ![r] = instant]
        /\ overlap' = Meeting(r, what) /\ after' = [after EXCEPT ![r] = Deactivations]
    BY <1>1, <1>5 DEF BeginMany
  <2>2. Admitted(r, what, d, "list", {}, {}, instant)
    <3>1. what \in Endings /\ what \notin Touching /\ what # "signIn" /\ "list" \in Labels \ {"idle"}
      BY DEF Touching, Endings, Labels
    <3> QED  BY <1>0, <2>1, <3>1 DEF Admitted
  <2> QED  BY <2>2, OpenStep
<1> QED  BY <1>2, <1>3, <1>4, <1>5

-----------------------------------------------------------------------------
\* A request goes on, or time does, without a record being written.
Onward(r) ==
    /\ UNCHANGED <<sessions, call, target, overlap, after>>
    /\ at[r] # "idle" /\ at'[r] # "idle"
    /\ \A q \in Requests \ {r} : /\ at'[q] = at[q] /\ updates'[q] = updates[q]
                                 /\ asked'[q] = asked[q] /\ readAt'[q] = readAt[q]
    /\ r \in Busy' => r \in Busy
    /\ \A s \in Ids : Touches(r, s) /\ at'[r] \in {"verified", "write"} => at[r] \in {"verified", "write"}
    /\ instant \in Nat /\ instant' \in Nat /\ instant <= instant'
    /\ deactivated => deactivated'

LEMMA OnwardStep ==
    ASSUME SessionsAssumption, SessionsInv, NEW r \in Requests, Onward(r),
           SessionsTypeInv', SessionStageInv(r)', EndInv(r)', NewInv(r)'
    PROVE  SessionsInv'
<1> USE DEF SessionsInv
<1>1. /\ Exist' = Exist
      /\ \A s \in Ids : Usable(s)' => Usable(s)
  <2>1. \A s \in Ids : sessions[s] # None => sessions[s].expires \in Nat
    BY DEF SessionsTypeInv, Records
  <2> QED  BY <2>1 DEF Onward, Exist, Usable, IsPast
<1>2. \A q \in Requests : \A s \in Ids : Touches(q, s)' = Touches(q, s)
  BY DEF Onward, Touches
<1>3. \A q \in Requests : \A s \in Ids : Overlapped(q, s) => Overlapped(q, s)'
  <2>1. \A q \in Requests : overlap'[q] = overlap[q] /\ overlap[q] \subseteq Requests
    BY DEF Onward, SessionsTypeInv
  <2> QED  BY <1>2, <2>1 DEF Overlapped
<1>4. \A s \in Ids : InHand(s)' => InHand(s)
  BY <1>2 DEF Onward, InHand
<1>5. OverlapInv'
  <2>1. Busy' \subseteq Busy /\ \A q \in Requests : at[q] # "idle" => at'[q] # "idle"
    BY DEF Onward, Busy
  <2> QED  BY <2>1 DEF Onward, OverlapInv, SessionsTypeInv
<1>6. ASSUME NEW q \in Requests \ {r} PROVE SessionStageInv(q)' /\ EndInv(q)' /\ NewInv(q)'
  <2>1. /\ at'[q] = at[q] /\ updates'[q] = updates[q] /\ asked'[q] = asked[q] /\ readAt'[q] = readAt[q]
        /\ call'[q] = call[q] /\ target'[q] = target[q] /\ readAt[q] \in Nat
    BY DEF Onward, SessionsTypeInv
  <2>2. SessionStageInv(q) /\ EndInv(q) /\ NewInv(q) /\ \A u \in updates[q] : u[1] \in Ids
    BY DEF SessionsTypeInv
  <2>3. SessionStageInv(q)'
    <3>1. readAt'[q] <= instant'
      BY <2>1, <2>2 DEF Onward, SessionStageInv
    <3> QED  BY <1>1, <1>2, <2>1, <2>2, <3>1 DEF Onward, SessionStageInv
  <2>4. asked[q] \subseteq Ids
    BY DEF SessionsTypeInv
  <2>5. EndInv(q)'
    BY <1>1, <1>3, <1>4, <2>1, <2>2, <2>4 DEF EndInv
  <2>6. \A s : Later(q, s) => Later(q, s)'
    BY DEF Onward, Later
  <2>7. NewInv(q)'
    BY <1>1, <1>3, <1>4, <2>1, <2>2, <2>6 DEF NewInv, Unborn
  <2> QED  BY <2>3, <2>5, <2>7
<1> QED  BY <1>5, <1>6

LEMMA GoesOn ==
    ASSUME SessionsAssumption, SessionsInv, NEW r \in Requests,
           Establish(r) \/ Finish(r) \/ Abandon(r)
    PROVE  SessionsInv'
<1>0. /\ instant \in Nat /\ SessionStageInv(r) /\ EndInv(r) /\ NewInv(r)
      /\ at \in [Requests -> Labels] /\ SessionsTypeInv
  BY DEF SessionsInv, SessionsTypeInv
<1>1. CASE Establish(r)
  <2>1. PICK d \in Devices : updates' = [updates EXCEPT ![r] = {<<r, Opened(d)>>}]
    BY <1>1 DEF Establish
  <2>2. /\ UNCHANGED <<instant, sessions, deactivated, call, target, readAt, asked, overlap, after>>
        /\ at[r] = "verified" /\ at' = [at EXCEPT ![r] = "write"]
    BY <1>1 DEF Establish
  <2>3. Opened(d) \in Records
    <3>1. instant + AccessTtl \in Nat /\ instant + RefreshTtl \in Nat
      BY <1>0 DEF SessionsAssumption
    <3> QED  BY <3>1 DEF Opened, Records
  <2> DEFINE W == {<<r, Opened(d)>>}
  <2>4. \A u \in W : u[1] = r /\ u[2] \in Records
    BY <2>3
  <2>5. updates' = [updates EXCEPT ![r] = W]
    BY <2>1
  <2> HIDE DEF W
  <2>6. /\ at'[r] = "write" /\ updates'[r] = W
        /\ \A q \in Requests \ {r} : at'[q] = at[q] /\ updates'[q] = updates[q]
    BY <1>0, <2>2, <2>5 DEF SessionsTypeInv
  <2>7. call[r] = "signIn" /\ target[r] = r /\ asked[r] = {} /\ Touches(r, r)
    BY <1>0, <2>2 DEF SessionStageInv, Endings, Touches
  <2>8. SessionsTypeInv'
    <3>1. ASSUME NEW q \in Requests, NEW u \in updates'[q] PROVE u[1] \in Ids /\ u[2] \in Records
      BY <1>0, <2>4, <2>6, <3>1 DEF SessionsTypeInv, Ids
    <3>2. updates' = [q \in Requests |-> updates'[q]] /\ at' \in [Requests -> Labels]
      BY <1>0, <2>2, <2>5 DEF SessionsTypeInv, Labels
    <3> QED  BY <1>0, <2>2, <3>1, <3>2 DEF SessionsTypeInv
  <2>9. SessionStageInv(r)'
    BY <1>0, <2>2, <2>4, <2>6, <2>7 DEF SessionStageInv, Touches, Exist, Endings
  <2>10. EndInv(r)' /\ NewInv(r)'
    BY <2>2, <2>7 DEF EndInv, NewInv
  <2>11. Onward(r)
    BY <1>0, <2>2, <2>6 DEF Onward, Busy
  <2> QED  BY <2>8, <2>9, <2>10, <2>11, OnwardStep
<1>2. CASE Finish(r)
  <2>1. /\ at[r] = "write" /\ updates[r] = {} /\ at' = [at EXCEPT ![r] = "done"]
        /\ UNCHANGED <<instant, sessions, call, target, readAt, updates, asked, overlap, after>>
    BY <1>2 DEF Finish
  <2>2. deactivated' = (deactivated \/ call[r] = "deactivateUser")
    BY <1>2 DEF Finish
  <2>3. deactivated' \in BOOLEAN /\ (deactivated => deactivated') /\ (call[r] = "deactivateUser" => deactivated')
    BY <2>2, Zenon
  <2>4. at'[r] = "done" /\ \A q \in Requests \ {r} : at'[q] = at[q]
    BY <1>0, <2>1
  <2>5. SessionsTypeInv'
    BY <1>0, <2>1, <2>3 DEF SessionsTypeInv, Labels
  <2>6. SessionStageInv(r)'
    BY <1>0, <2>1, <2>3, <2>4 DEF SessionStageInv, Touches, Exist
  <2>7. Onward(r)
    <3>1. r \in Busy
      BY <2>1 DEF Busy
    <3> QED  BY <1>0, <2>1, <2>3, <2>4, <3>1 DEF Onward
  <2>8. EndInv(r)' /\ NewInv(r)'
    <3>1. \A s \in Ids : /\ Overlapped(r, s)' = Overlapped(r, s) /\ (InHand(s)' => InHand(s))
                         /\ Usable(s)' = Usable(s)
      BY <2>1, <2>4 DEF Overlapped, InHand, Touches, Usable, IsPast
    <3>2. asked[r] \subseteq Ids /\ Exist' = Exist
      BY <1>0, <2>1 DEF SessionsTypeInv, Exist
    <3>3. EndInv(r)'
      BY <1>0, <2>1, <3>1, <3>2 DEF EndInv
    <3>4. NewInv(r)'
      BY <1>0, <2>1, <3>1, <3>2 DEF NewInv, Unborn, Later
    <3> QED  BY <3>3, <3>4
  <2> QED  BY <2>5, <2>6, <2>7, <2>8, OnwardStep
<1>3. CASE Abandon(r)
  <2>1. /\ r \in Busy /\ at' = [at EXCEPT ![r] = "failed"] /\ updates' = [updates EXCEPT ![r] = {}]
        /\ UNCHANGED <<instant, sessions, deactivated, call, target, readAt, asked, overlap, after>>
    BY <1>3 DEF Abandon
  <2>2. /\ at'[r] = "failed" /\ updates'[r] = {}
        /\ \A q \in Requests \ {r} : at'[q] = at[q] /\ updates'[q] = updates[q]
    BY <1>0, <2>1 DEF SessionsTypeInv
  <2>3. SessionsTypeInv'
    <3>1. updates' = [q \in Requests |-> updates'[q]] /\ at' \in [Requests -> Labels]
      BY <1>0, <2>1 DEF SessionsTypeInv, Labels
    <3>2. ASSUME NEW q \in Requests, NEW u \in updates'[q] PROVE u[1] \in Ids /\ u[2] \in Records
      BY <1>0, <2>2, <3>2 DEF SessionsTypeInv
    <3> QED  BY <1>0, <2>1, <3>1, <3>2 DEF SessionsTypeInv
  <2>4. at[r] \notin {"idle", "done", "failed"}
    BY <2>1 DEF Busy
  <2>5. SessionStageInv(r)'
    BY <1>0, <2>1, <2>2, <2>4 DEF SessionStageInv, Exist
  <2>6. EndInv(r)' /\ NewInv(r)'
    BY <2>2 DEF EndInv, NewInv
  <2>7. Onward(r)
    BY <1>0, <2>1, <2>2, <2>4 DEF Onward
  <2> QED  BY <2>3, <2>5, <2>6, <2>7, OnwardStep
<1> QED  BY <1>1, <1>2, <1>3

\* A revocation lists: whoever has a session in hand now is known to it.
LEMMA Lists == ASSUME SessionsAssumption, SessionsInv, NEW r \in Requests, List(r) PROVE SessionsInv'
<1> DEFINE named == {s \in Exist : call[r] = "revokeDevice" => sessions[s].device = target[r]}
           W == {<<s, RevokedFrom(sessions[s])>> : s \in {t \in named : IsActive(sessions[t], readAt[r])}}
<1>0. /\ instant \in Nat /\ SessionStageInv(r) /\ at \in [Requests -> Labels] /\ SessionsTypeInv /\ OverlapInv
  BY DEF SessionsInv, SessionsTypeInv
<1>1. /\ at[r] = "list" /\ at' = [at EXCEPT ![r] = "write"] /\ readAt' = [readAt EXCEPT ![r] = 0]
      /\ updates' = [updates EXCEPT ![r] = W] /\ asked' = [asked EXCEPT ![r] = named]
      /\ UNCHANGED <<instant, sessions, deactivated, call, target, overlap, after>>
  BY DEF List
<1>2. named \subseteq Exist /\ Exist \subseteq Ids /\ (call[r] = "deactivateUser" => Exist \subseteq named)
  BY DEF Exist
<1>3. \A u \in W : u[1] \in Exist /\ u[2] \in Records /\ u[2].revoked
  <2> SUFFICES ASSUME NEW s \in Exist
               PROVE  RevokedFrom(sessions[s]) \in Records /\ RevokedFrom(sessions[s]).revoked
    BY <1>2
  <2>1. sessions[s] \in Records
    BY <1>0 DEF SessionsTypeInv, Exist
  <2> QED  BY <2>1 DEF RevokedFrom, Records
<1>4. ASSUME NEW s \in named PROVE ~ Usable(s) \/ \E u \in W : u[1] = s
  <2>1. sessions[s] \in Records /\ readAt[r] \in Nat /\ readAt[r] <= instant
    BY <1>0, <1>2 DEF SessionsTypeInv, Exist, SessionStageInv
  <2>2. Usable(s) => IsActive(sessions[s], readAt[r])
    <3>1. ~ IsPast(sessions[s].expires) => sessions[s].expires > readAt[r]
      BY <1>0, <2>1 DEF IsPast, Records
    <3> QED  BY <3>1 DEF Usable, IsActive
  <2>3. IsActive(sessions[s], readAt[r]) => <<s, RevokedFrom(sessions[s])>> \in W
    OBVIOUS
  <2> QED  BY <2>2, <2>3
<1> HIDE DEF named, W
<1>5. /\ at'[r] = "write" /\ updates'[r] = W /\ asked'[r] = named /\ readAt'[r] = 0
      /\ \A q \in Requests \ {r} : /\ at'[q] = at[q] /\ updates'[q] = updates[q]
                                   /\ asked'[q] = asked[q] /\ readAt'[q] = readAt[q]
  BY <1>0, <1>1 DEF SessionsTypeInv
<1>6. call[r] \in Endings /\ call[r] \notin Touching
  BY <1>0, <1>1 DEF SessionStageInv, Endings, Touching
<1>7. SessionsTypeInv'
  <2>1. updates' = [q \in Requests |-> updates'[q]] /\ at' \in [Requests -> Labels]
    BY <1>0, <1>1 DEF SessionsTypeInv, Labels
  <2>2. ASSUME NEW q \in Requests, NEW u \in updates'[q] PROVE u[1] \in Ids /\ u[2] \in Records
    BY <1>0, <1>2, <1>3, <1>5, <2>2 DEF SessionsTypeInv
  <2>3. readAt' \in [Requests -> Nat] /\ asked' \in [Requests -> SUBSET Ids]
    BY <1>0, <1>1, <1>2 DEF SessionsTypeInv
  <2> QED  BY <1>0, <1>1, <2>1, <2>2, <2>3 DEF SessionsTypeInv
<1>8. SessionStageInv(r)'
  <2>1. /\ 0 <= instant /\ Exist' = Exist /\ call[r] # "signIn"
    BY <1>0, <1>1, <1>6 DEF Exist, Endings
  <2> QED  BY <1>0, <1>1, <1>2, <1>3, <1>5, <1>6, <2>1 DEF SessionStageInv
<1>9. \A s \in Ids : InHand(s)' => Overlapped(r, s)'
  <2> SUFFICES ASSUME NEW s \in Ids, NEW q \in Requests, Touches(q, s)', at'[q] \in {"verified", "write"}
               PROVE  Overlapped(r, s)'
    BY DEF InHand
  <2>1. q # r
    BY <1>1, <1>6 DEF Touches, Touching
  <2>2. q \in Busy /\ r \in Busy
    BY <1>1, <1>5, <2>1 DEF Busy
  <2>3. q \in overlap'[r]
    BY <1>0, <1>1, <1>6, <2>1, <2>2 DEF OverlapInv
  <2> QED  BY <2>3 DEF Overlapped
<1>10. EndInv(r)'
  <2>1. \A s \in named : s \in Ids /\ Usable(s)' = Usable(s)
    BY <1>1, <1>2 DEF Usable, IsPast
  <2> QED  BY <1>4, <1>5, <1>9, <2>1 DEF EndInv
<1>11. NewInv(r)'
  BY <1>1, <1>2, <1>5, <1>9 DEF NewInv, Unborn, Later, Exist
<1>12. Onward(r)
  BY <1>0, <1>1, <1>5, <1>6 DEF Onward, Touches, Touching, Busy
<1> QED  BY <1>7, <1>8, <1>10, <1>11, <1>12, OnwardStep

\* Nobody who has a session in hand writes it when a revocation counts on its end.
LEMMA Updates == ASSUME SessionsAssumption, SessionsInv, NEW r \in Requests, Update(r) PROVE SessionsInv'
<1>0. /\ SessionStageInv(r) /\ SessionsTypeInv /\ OverlapInv
  BY DEF SessionsInv
<1>1. PICK u \in updates[r] :
        /\ sessions' = [sessions EXCEPT ![u[1]] = u[2]]
        /\ updates' = [updates EXCEPT ![r] = updates[r] \ {u}]
  BY DEF Update
<1>2. /\ at[r] = "write"
      /\ UNCHANGED <<instant, deactivated, at, call, target, readAt, asked, overlap, after>>
  BY DEF Update
<1> DEFINE id == u[1]
<1>3. /\ id \in Ids /\ u[2] \in Records
      /\ (call[r] \in Endings /\ u[2].revoked) \/ Touches(r, id)
      /\ id \in Exist \/ (call[r] = "signIn" /\ id = r)
  BY <1>0 DEF SessionsTypeInv, SessionStageInv
<1>4. /\ sessions'[id] = u[2] /\ \A s \in Ids \ {id} : sessions'[s] = sessions[s]
      /\ updates'[r] = updates[r] \ {u} /\ \A q \in Requests \ {r} : updates'[q] = updates[q]
  BY <1>0, <1>1, <1>3 DEF SessionsTypeInv
<1>5. u[2] # None
  BY <1>3 DEF SessionsAssumption
<1> HIDE DEF id
<1>6. Exist' = Exist \cup {id}
  BY <1>3, <1>4, <1>5 DEF Exist
<1>7. /\ \A q \in Requests : \A s \in Ids : /\ Touches(q, s)' = Touches(q, s)
                                          /\ Overlapped(q, s)' = Overlapped(q, s)
      /\ \A s \in Ids : InHand(s)' = InHand(s)
      /\ \A s \in Ids \ {id} : Usable(s)' = Usable(s)
  BY <1>2, <1>4 DEF Touches, Overlapped, InHand, Usable, IsPast
<1>8. SessionsTypeInv'
  <2>1. updates' = [q \in Requests |-> updates'[q]] /\ sessions' \in [Ids -> Records \cup {None}]
    BY <1>0, <1>1, <1>3 DEF SessionsTypeInv, id
  <2>2. ASSUME NEW q \in Requests, NEW v \in updates'[q] PROVE v[1] \in Ids /\ v[2] \in Records
    BY <1>0, <1>4, <2>2 DEF SessionsTypeInv
  <2> QED  BY <1>0, <1>2, <2>1, <2>2 DEF SessionsTypeInv
<1>9. OverlapInv'
  BY <1>0, <1>2 DEF OverlapInv, Busy
<1>10. ASSUME NEW q \in Requests PROVE SessionStageInv(q)'
  <2>1. SessionStageInv(q) /\ updates'[q] \subseteq updates[q] /\ \A v \in updates[q] : v[1] \in Ids
    BY <1>0, <1>4 DEF SessionsInv, SessionsTypeInv
  <2>2. at[q] = "idle" => q # id
    BY <1>2, <1>3, <2>1 DEF SessionStageInv
  <2> QED  BY <1>2, <1>6, <1>7, <2>1, <2>2 DEF SessionStageInv
<1>11. ASSUME NEW q \in Requests PROVE EndInv(q)'
  <2> SUFFICES ASSUME at[q] \in {"write", "done"}, NEW s \in asked[q], ~ Overlapped(q, s)
               PROVE  (~ Usable(s)' \/ \E v \in updates'[q] : v[1] = s) /\ ~ InHand(s)'
    BY <1>0, <1>2, <1>7 DEF EndInv, SessionsTypeInv
  <2>1. /\ s \in Ids /\ ~ InHand(s)
        /\ ~ Usable(s) \/ \E v \in updates[q] : v[1] = s
    BY <1>0 DEF SessionsInv, EndInv, SessionsTypeInv
  <2>2. CASE s = id
    <3>1. ~ Touches(r, id)
      BY <1>2, <2>1, <2>2 DEF InHand
    <3>2. u[2].revoked
      BY <1>3, <3>1
    <3>3. ~ Usable(s)'
      BY <1>4, <2>2, <3>2 DEF Usable
    <3> QED  BY <1>7, <2>1, <3>3
  <2>3. CASE s # id
    <3>1. (\E v \in updates[q] : v[1] = s) => \E v \in updates'[q] : v[1] = s
      BY <1>4, <2>3 DEF id
    <3> QED  BY <1>7, <2>1, <2>3, <3>1
  <2> QED  BY <2>2, <2>3
<1>12. ASSUME NEW q \in Requests PROVE NewInv(q)'
  <2> SUFFICES ASSUME at[q] \in {"write", "done"}, call[q] = "deactivateUser",
                      NEW s \in Ids \ asked[q], ~ Overlapped(q, s), ~ Later(q, s)
               PROVE  Unborn(s)'
    BY <1>2, <1>7 DEF NewInv, Later
  <2>1. Unborn(s)
    BY DEF SessionsInv, NewInv
  <2>2. CASE s = id
    <3>1. id \notin Exist /\ ~ Touches(r, id)
      BY <1>2, <2>1, <2>2 DEF Unborn, InHand
    <3>2. call[r] = "signIn" /\ id = r /\ call[r] \notin Endings
      BY <1>3, <3>1 DEF Endings
    <3> QED  BY <1>3, <3>1, <3>2
  <2>3. CASE s # id
    BY <1>6, <1>7, <2>1, <2>3 DEF Unborn
  <2> QED  BY <2>2, <2>3
<1> QED  BY <1>8, <1>9, <1>10, <1>11, <1>12 DEF SessionsInv

LEMMA Passes == ASSUME SessionsAssumption, SessionsInv, Pass PROVE SessionsInv'
<1>0. /\ instant' = instant + 1 /\ instant \in Nat /\ SessionsTypeInv /\ OverlapInv
      /\ UNCHANGED <<sessions, deactivated, at, call, target, readAt, updates, asked, overlap, after>>
  BY DEF SessionsInv, SessionsTypeInv, Pass, sessionLocals
<1>1. /\ Exist' = Exist /\ Busy' = Busy
      /\ \A s \in Ids : Usable(s)' => Usable(s)
  <2>1. \A s \in Ids : sessions[s] # None => sessions[s].expires \in Nat
    BY <1>0 DEF SessionsTypeInv, Records
  <2> QED  BY <1>0, <2>1 DEF Exist, Busy, Usable, IsPast
<1>2. /\ \A q \in Requests : \A s \in Ids : Touches(q, s)' = Touches(q, s) /\ Overlapped(q, s)' = Overlapped(q, s)
      /\ \A s \in Ids : InHand(s)' = InHand(s)
  BY <1>0 DEF Touches, Overlapped, InHand
<1>3. SessionsTypeInv'
  BY <1>0 DEF SessionsTypeInv
<1>4. OverlapInv'
  BY <1>0, <1>1 DEF OverlapInv
<1>5. ASSUME NEW q \in Requests PROVE SessionStageInv(q)' /\ EndInv(q)' /\ NewInv(q)'
  <2>1. /\ SessionStageInv(q) /\ EndInv(q) /\ NewInv(q) /\ readAt[q] \in Nat /\ asked[q] \subseteq Ids
        /\ \A u \in updates[q] : u[1] \in Ids
    BY <1>0 DEF SessionsInv, SessionsTypeInv
  <2>2. SessionStageInv(q)'
    <3>1. readAt'[q] <= instant'
      BY <1>0, <2>1 DEF SessionStageInv
    <3> QED  BY <1>0, <1>1, <1>2, <2>1, <3>1 DEF SessionStageInv
  <2>3. EndInv(q)'
    BY <1>0, <1>1, <1>2, <2>1 DEF EndInv
  <2>4. NewInv(q)'
    BY <1>0, <1>1, <1>2, <2>1 DEF NewInv, Unborn, Later
  <2> QED  BY <2>2, <2>3, <2>4
<1> QED  BY <1>3, <1>4, <1>5 DEF SessionsInv

-----------------------------------------------------------------------------
LEMMA SessionsPreserved == ASSUME SessionsAssumption, SessionsInv, [SessionsNext]_sessionVars PROVE SessionsInv'
<1>1. CASE UNCHANGED sessionVars
  <2>1. UNCHANGED <<instant, sessions, deactivated, at, call, target, readAt, updates, asked, overlap, after>>
    BY <1>1 DEF sessionVars, sessionLocals
  <2>2. SessionsTypeInv' = SessionsTypeInv /\ OverlapInv' = OverlapInv
    BY <2>1 DEF SessionsTypeInv, OverlapInv, Busy
  <2>3. \A q \in Requests : SessionStageInv(q)' = SessionStageInv(q) /\ EndInv(q)' = EndInv(q) /\ NewInv(q)' = NewInv(q)
    BY <2>1 DEF SessionStageInv, EndInv, NewInv, Exist, Touches, Overlapped, InHand, Usable, IsPast, Unborn, Later
  <2> QED  BY <2>2, <2>3 DEF SessionsInv
<1>2. CASE Pass
  BY <1>2, Passes
<1>3. ASSUME NEW r \in Requests, Establish(r) \/ List(r) \/ Update(r) \/ Finish(r) \/ Abandon(r) PROVE SessionsInv'
  BY <1>3, GoesOn, Lists, Updates
<1>4. ASSUME NEW r \in Requests,
             \/ Verify(r)
             \/ \E s \in Exist : Validate(r, s) \/ Refresh(r, s) \/ SignOut(r, s)
             \/ \E d \in Devices : BeginMany(r, "revokeDevice", d)
             \/ BeginMany(r, "deactivateUser", None)
      PROVE  SessionsInv'
  BY <1>4, Opens
<1> QED  BY <1>1, <1>2, <1>3, <1>4 DEF SessionsNext

\* A revocation that has returned holds: the sessions it named are over and no later
\* validate or refresh brings them back, unless a request that overlapped with the
\* revocation had the session in hand.  (auth-service.ts signOut and refresh,
\* device-manager.ts revokeDevice.)
THEOREM RevokedStaysRevoked == ASSUME SessionsAssumption PROVE SessionsSpec => []RevocationHolds
<1>1. SessionsInit => SessionsInv
  BY SessionsInitially
<1>2. SessionsInv /\ [SessionsNext]_sessionVars => SessionsInv'
  BY SessionsPreserved
<1>3. SessionsInv => RevocationHolds
  BY DEF SessionsInv, SessionStageInv, EndInv, RevocationHolds, Returned, Overlapped, InHand
<1> QED  BY <1>1, <1>2, <1>3, PTL DEF SessionsSpec

\* A deactivation that has returned leaves the user no usable session of those that
\* were there before or came up meanwhile, but for those a request that overlapped
\* with it wrote; the sessions that are left are of sign-ins that came in later.
\* (device-manager.ts deactivateUser.)
THEOREM DeactivatedStaysOut == ASSUME SessionsAssumption PROVE SessionsSpec => []DeactivationEndsAll
<1>1. SessionsInit => SessionsInv
  BY SessionsInitially
<1>2. SessionsInv /\ [SessionsNext]_sessionVars => SessionsInv'
  BY SessionsPreserved
<1>3. SessionsInv => DeactivationEndsAll
  <2> SUFFICES ASSUME SessionsInv, NEW r \in Requests, at[r] = "done", call[r] = "deactivateUser",
                      NEW s \in Ids, Usable(s)
               PROVE  Overlapped(r, s) \/ (s \in Requests /\ r \in after[s])
    BY DEF DeactivationEndsAll, Deactivations, Returned, Overlapped
  <2>1. SessionStageInv(r) /\ EndInv(r) /\ NewInv(r)
    BY DEF SessionsInv
  <2>2. CASE s \in asked[r]
    BY <2>1, <2>2 DEF EndInv, SessionStageInv
  <2>3. CASE s \notin asked[r]
    BY <2>1, <2>3 DEF NewInv, Unborn, Later, Exist, Usable
  <2> QED  BY <2>2, <2>3
<1> QED  BY <1>1, <1>2, <1>3, PTL DEF SessionsSpec
=============================================================================
