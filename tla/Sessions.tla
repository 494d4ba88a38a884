------------------------------- MODULE Sessions -------------------------------
(***************************************************************************)
(* The sessions of one user, shared by the Auth_Service                    *)
(* (src/services/core/src/auth/auth-service.ts) and the Device_Manager     *)
(* (src/services/core/src/device/device-manager.ts).  Every operation      *)
(* reads whole records from the session store, decides, and writes whole   *)
(* records back later: `updates` holds what a request has still to write.  *)
(* A session is known by the request that established it; of its access    *)
(* token only the expiry is kept, and a client presents the current one.   *)
(* lastActiveAt only orders a listing and is left out, as are hashing,     *)
(* audit rows, identity links and the enrolment of factors.                *)
(***************************************************************************)
EXTENDS Integers, FiniteSets, StoreRequests

CONSTANTS
    Devices,
    AccessTtl, RefreshTtl   \* the lifetimes of the two tokens

Records == [device : Devices, accessExpires : Nat, expires : Nat, revoked : BOOLEAN]

SessionsAssumption ==
    /\ AccessTtl \in Nat \ {0} /\ RefreshTtl \in Nat \ {0}
    /\ MaxTime \in Nat /\ MaxInFlight \in Nat \ {0}
    /\ Devices # {} /\ None \notin Requests \cup {Original} /\ None \notin Records /\ Original \notin Requests

Ids == Requests \cup {Original}

VARIABLES
    instant,
    sessions,        \* id -> a record, or None
    deactivated,     \* the mark of the Device_Manager's DeactivationStore
    at, call,        \* of each request: the call it awaits, and the operation
    target,          \* the session or device it is about
    readAt,          \* the instant it read before it listed the sessions
    updates,         \* <<id, record>>: what it has still to write
    asked,           \* history: the sessions a revocation is to end
    overlap,         \* history: the requests a revocation overlapped with
    after            \* history: the deactivations that had returned when a request came in

sessionLocals == <<at, call, target, readAt, updates>>
sessionVars == <<instant, sessions, deactivated, sessionLocals, asked, overlap, after>>

Opened(device) ==
    [device |-> device, accessExpires |-> instant + AccessTtl, expires |-> instant + RefreshTtl, revoked |-> FALSE]

SessionsInit ==
    /\ instant = 0 /\ deactivated = FALSE
    /\ \E d \in Devices : sessions = [s \in Ids |-> IF s = Original THEN Opened(d) ELSE None]
    /\ at = [r \in Requests |-> "idle"] /\ call = [r \in Requests |-> None]
    /\ target = [r \in Requests |-> None] /\ readAt = [r \in Requests |-> 0]
    /\ updates = [r \in Requests |-> {}] /\ asked = [r \in Requests |-> {}]
    /\ overlap = [r \in Requests |-> {}] /\ after = [r \in Requests |-> {}]

Exist == {s \in Ids : sessions[s] # None}
Busy == {r \in Requests : at[r] \notin {"idle", "done", "failed"}}
IsPast(t) == t <= instant

\* Mutant of IsActive: a session counts as over when its access token has expired.
IsActiveByToken(record, t) == ~ record.revoked /\ record.accessExpires > t

\* DeviceManager.isActive.
IsActive(record, t) == ~ record.revoked /\ record.expires > t

RevokedFrom(record) == [record EXCEPT !.revoked = TRUE]

Endings == {"signOut", "revokeDevice", "deactivateUser"}

Returned(r) == at[r] = "done"
Deactivations == {q \in Requests : Returned(q) /\ call[q] = "deactivateUser"}

\* `overlap` once r has come in: a revocation meets those under way, and they meet r.
Meeting(r, what) ==
    [q \in Requests |-> IF q = r THEN {b \in Busy : what \in Endings}
                      ELSE overlap[q] \cup {x \in {r} : q \in Busy /\ call[q] \in Endings}]

\* A request comes in.
Open(r, what, subject, next) ==
    /\ at[r] = "idle" /\ Cardinality(Busy) < MaxInFlight
    /\ call' = [call EXCEPT ![r] = what] /\ target' = [target EXCEPT ![r] = subject]
    /\ at' = [at EXCEPT ![r] = next]
    /\ overlap' = Meeting(r, what) /\ after' = [after EXCEPT ![r] = Deactivations]
    /\ UNCHANGED <<instant, sessions, deactivated>>

\* One that goes on to write `records`, or to fail when there is nothing to write.
OpenToWrite(r, what, subject, accepted, records) ==
    /\ Open(r, what, subject, IF accepted THEN "write" ELSE "failed")
    /\ updates' = [updates EXCEPT ![r] = IF accepted THEN records ELSE {}]
    /\ UNCHANGED readAt
-----------------------------------------------------------------------------
\* A sign-in: the identity provider verifies the credentials; nothing consults
\* the deactivation mark, ...
Verify(r) ==
    /\ Open(r, "signIn", r, "verified")
    /\ UNCHANGED <<readAt, updates, asked>>

\* ... a second factor is checked, and the session gets its tokens and lifetimes.
Establish(r) ==
    /\ at[r] = "verified"
    /\ \E d \in Devices : updates' = [updates EXCEPT ![r] = {<<r, Opened(d)>>}]
    /\ at' = [at EXCEPT ![r] = "write"]
    /\ UNCHANGED <<instant, sessions, deactivated, call, target, readAt, asked, overlap, after>>

\* validate resolves the session of an access token, and writes it back with
\* nothing but its lastActiveAt advanced.
Validate(r, s) ==
    /\ OpenToWrite(r, "validate", s,
                   ~ sessions[s].revoked /\ ~ IsPast(sessions[s].expires) /\ ~ IsPast(sessions[s].accessExpires),
                   {<<s, sessions[s]>>})
    /\ UNCHANGED asked

Reissued(s) == [sessions[s] EXCEPT !.accessExpires = instant + AccessTtl]

\* Mutant of Refresh: a revoked session is not refused.
RefreshRevoked(r, s) ==
    /\ OpenToWrite(r, "refresh", s, ~ IsPast(sessions[s].expires), {<<s, Reissued(s)>>})
    /\ UNCHANGED asked

\* refresh gives the session it read another access token.
Refresh(r, s) ==
    /\ OpenToWrite(r, "refresh", s, ~ sessions[s].revoked /\ ~ IsPast(sessions[s].expires),
                   {<<s, Reissued(s)>>})
    /\ UNCHANGED asked

\* signOut, and revokeSession, which does the same: a revoked session makes it return.
SignOut(r, s) ==
    /\ Open(r, "signOut", s, IF sessions[s].revoked THEN "done" ELSE "write")
    /\ updates' = [updates EXCEPT ![r] = IF sessions[s].revoked THEN {} ELSE {<<s, RevokedFrom(sessions[s])>>}]
    /\ asked' = [asked EXCEPT ![r] = {s}]
    /\ UNCHANGED readAt

\* revokeDevice and deactivateUser read the clock ...
BeginMany(r, what, d) ==
    /\ Open(r, what, d, "list")
    /\ readAt' = [readAt EXCEPT ![r] = instant]
    /\ UNCHANGED <<updates, asked>>

\* ... and list the sessions of the user, of which they keep the active ones.
List(r) ==
    /\ at[r] = "list"
    /\ LET named == {s \in Exist : call[r] = "revokeDevice" => sessions[s].device = target[r]}
       IN  /\ updates' = [updates EXCEPT ![r] =
                 {<<s, RevokedFrom(sessions[s])>> : s \in {t \in named : IsActive(sessions[t], readAt[r])}}]
           /\ asked' = [asked EXCEPT ![r] = named]
    /\ at' = [at EXCEPT ![r] = "write"] /\ readAt' = [readAt EXCEPT ![r] = 0]
    /\ UNCHANGED <<instant, sessions, deactivated, call, target, overlap, after>>

\* SessionStore.update, and create: the whole record replaces the one that is there.
Update(r) ==
    /\ at[r] = "write"
    /\ \E u \in updates[r] :
         /\ sessions' = [sessions EXCEPT ![u[1]] = u[2]]
         /\ updates' = [updates EXCEPT ![r] = @ \ {u}]
    /\ UNCHANGED <<instant, deactivated, at, call, target, readAt, asked, overlap, after>>

\* After the last update deactivateUser marks the account; the others return.
Finish(r) ==
    /\ at[r] = "write" /\ updates[r] = {}
    /\ deactivated' = (deactivated \/ call[r] = "deactivateUser")
    /\ at' = [at EXCEPT ![r] = "done"]
    /\ UNCHANGED <<instant, sessions, call, target, readAt, updates, asked, overlap, after>>

\* An awaited call rejects, or the process dies with the request.
Abandon(r) ==
    /\ r \in Busy
    /\ at' = [at EXCEPT ![r] = "failed"]
    /\ updates' = [updates EXCEPT ![r] = {}]
    /\ UNCHANGED <<instant, sessions, deactivated, call, target, readAt, asked, overlap, after>>

Pass ==
    /\ instant < MaxTime /\ instant' = instant + 1
    /\ UNCHANGED <<sessions, deactivated, sessionLocals, asked, overlap, after>>

SessionsNext ==
    \/ Pass
    \/ \E r \in Requests :
         \/ Verify(r) \/ Establish(r) \/ List(r) \/ Update(r) \/ Finish(r) \/ Abandon(r)
         \/ \E s \in Exist : Validate(r, s) \/ Refresh(r, s) \/ SignOut(r, s)
         \/ \E d \in Devices : BeginMany(r, "revokeDevice", d)
         \/ BeginMany(r, "deactivateUser", None)

SessionsSpec == SessionsInit /\ [][SessionsNext]_sessionVars
-----------------------------------------------------------------------------
Touches(q, s) == call[q] \in {"signIn", "validate", "refresh"} /\ target[q] = s
Usable(s) == sessions[s] # None /\ ~ sessions[s].revoked /\ ~ IsPast(sessions[s].expires)

\* What a sign-out or a revocation was to end has ended when it returns, and no
\* later request on it goes through.  The store keeps the last record written:
\* only a request that had the session in hand while it was revoked can bring it back.
RevocationHolds ==
    \A r \in Requests : Returned(r) =>
        \A s \in asked[r] :
            \/ \E q \in overlap[r] : Touches(q, s)
            \/ ~ Usable(s) /\ \A q \in Requests : Touches(q, s) => at[q] # "write"

\* Once a deactivation has returned, of all the sessions that were there before or
\* came up meanwhile the user has none left, but for those that a request under way
\* at the same time held or established.  A sign-in that comes in later opens a
\* session all the same: the mark is written, and the Auth_Service does not read it.
DeactivationEndsAll ==
    \A r \in Deactivations, s \in Ids :
        Usable(s) => \/ \E q \in overlap[r] : Touches(q, s)
                     \/ s \in Requests /\ r \in after[s]
=============================================================================
