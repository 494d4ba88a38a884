------------------------------ MODULE WebCache ------------------------------
(***************************************************************************)
(* The Web_Cache_Manager (src/services/core/src/web-cache/                 *)
(* web-cache-manager.ts): get-or-compute over a remote cache store, with a *)
(* registry of the computations in flight so that concurrent identical     *)
(* requests share one provider call.  A value is known by the number of    *)
(* the computation, or of the put, it comes from.                          *)
(***************************************************************************)
EXTENDS Integers, FiniteSets, NullValue

CONSTANTS
    Keys,
    Calls,         \* dedupeSearch / dedupeScrape calls
    CacheMayFail,       \* what may reject: subset of {"compute", "write"}
    MaxEvents,     \* bound: puts and expiries
    Rejected       \* what a call that throws returns

WebCacheAssumption ==
    /\ MaxEvents \in Nat /\ CacheMayFail \subseteq {"compute", "write"}
    /\ None # Rejected /\ None \notin Calls

VARIABLES
    store,     \* the cache store: key -> value or None
    inFlight,  \* the registry: key -> the call that computes, or None
    callAt, key,   \* of each call
    seen,      \* what the store answered the call
    joined,    \* the call whose computation it awaits (its own, or a shared one)
    comp,      \* the computation a call started: its state
    value,     \* the value it produced
    result,    \* what a call returned: a value, Rejected or None
    overAtStart, \* history: the computations that were over as the call came in
    produced, events

cacheVars == <<store, inFlight, callAt, key, seen, joined, comp, value, result, overAtStart, produced, events>>

CacheInit ==
    /\ store = [k \in Keys |-> None]
    /\ inFlight = [k \in Keys |-> None]
    /\ callAt = [c \in Calls |-> "idle"] /\ key \in [Calls -> Keys]
    /\ seen = [c \in Calls |-> None] /\ joined = [c \in Calls |-> None]
    /\ comp = [c \in Calls |-> "none"] /\ value = [c \in Calls |-> None]
    /\ result = [c \in Calls |-> None] /\ overAtStart = [c \in Calls |-> {}]
    /\ produced = 0 /\ events = 0

Over == {c \in Calls : comp[c] \in {"resolved", "rejected"}}

-----------------------------------------------------------------------------
\* Mutant of Receive: the registry is not consulted.
ReceiveAlone(c, got) ==
    IF got # None
    THEN /\ result' = [result EXCEPT ![c] = got] /\ callAt' = [callAt EXCEPT ![c] = "done"]
         /\ UNCHANGED <<inFlight, joined, comp>>
    ELSE /\ joined' = [joined EXCEPT ![c] = c]
         /\ comp' = [comp EXCEPT ![c] = "computing"]
         /\ inFlight' = [inFlight EXCEPT ![key[c]] = c]
         /\ callAt' = [callAt EXCEPT ![c] = "awaiting"]
         /\ UNCHANGED result

\* The store's answer is there: a hit, a computation to share, or one to start.
Receive(c, got) ==
    IF got # None
    THEN /\ result' = [result EXCEPT ![c] = got] /\ callAt' = [callAt EXCEPT ![c] = "done"]
         /\ UNCHANGED <<inFlight, joined, comp>>
    ELSE /\ callAt' = [callAt EXCEPT ![c] = "awaiting"]
         /\ UNCHANGED result
         /\ IF inFlight[key[c]] # None
            THEN joined' = [joined EXCEPT ![c] = inFlight[key[c]]] /\ UNCHANGED <<inFlight, comp>>
            ELSE /\ joined' = [joined EXCEPT ![c] = c]
                 /\ comp' = [comp EXCEPT ![c] = "computing"]
                 /\ inFlight' = [inFlight EXCEPT ![key[c]] = c]

\* getOrCompute asks the store, which reads its entry; the answer takes time.
Lookup(c) ==
    /\ callAt[c] = "idle"
    /\ overAtStart' = [overAtStart EXCEPT ![c] = Over]
    /\ seen' = [seen EXCEPT ![c] = store[key[c]]]
    /\ callAt' = [callAt EXCEPT ![c] = "looking"]
    /\ UNCHANGED <<store, inFlight, key, joined, comp, value, result, produced, events>>

Answer(c) ==
    /\ callAt[c] = "looking"
    /\ Receive(c, seen[c])
    /\ UNCHANGED <<store, key, seen, value, overAtStart, produced, events>>

\* Mutant of Finish: the registry keeps a computation that failed.
FinishKept(c, outcome) ==
    /\ comp' = [comp EXCEPT ![c] = outcome]
    /\ inFlight' = IF outcome = "resolved" THEN [inFlight EXCEPT ![key[c]] = None] ELSE inFlight

\* The computation is over: the finally clause of the call that started it runs
\* before a later call can have looked at the registry.
Finish(c, outcome) ==
    /\ comp' = [comp EXCEPT ![c] = outcome]
    /\ inFlight' = [inFlight EXCEPT ![key[c]] = None]

\* compute: the provider answers or fails.
Compute(c) ==
    /\ comp[c] = "computing"
    /\ \/ /\ produced' = produced + 1
          /\ value' = [value EXCEPT ![c] = produced + 1]
          /\ comp' = [comp EXCEPT ![c] = "writing"]
          /\ UNCHANGED inFlight
       \/ /\ "compute" \in CacheMayFail
          /\ Finish(c, "rejected")
          /\ UNCHANGED <<value, produced>>
    /\ UNCHANGED <<store, callAt, key, seen, joined, result, overAtStart, events>>

\* writeEntry; its rejection is that of the computation.
Write(c) ==
    /\ comp[c] = "writing"
    /\ \/ store' = [store EXCEPT ![key[c]] = value[c]] /\ Finish(c, "resolved")
       \/ "write" \in CacheMayFail /\ Finish(c, "rejected") /\ UNCHANGED store
    /\ UNCHANGED <<callAt, key, seen, joined, value, result, overAtStart, produced, events>>

\* Mutant of Settle: only the call that computed is answered.
SettleOwner(c) ==
    /\ callAt[c] = "awaiting" /\ joined[c] = c /\ comp[c] \in {"resolved", "rejected"}
    /\ result' = [result EXCEPT ![c] = IF comp[c] = "resolved" THEN value[c] ELSE Rejected]
    /\ callAt' = [callAt EXCEPT ![c] = "done"]
    /\ UNCHANGED <<store, inFlight, key, seen, joined, comp, value, overAtStart, produced, events>>

\* The call goes on after the computation it awaits.
Settle(c) ==
    LET d == joined[c] IN
    /\ callAt[c] = "awaiting" /\ comp[d] \in {"resolved", "rejected"}
    /\ result' = [result EXCEPT ![c] = IF comp[d] = "resolved" THEN value[d] ELSE Rejected]
    /\ callAt' = [callAt EXCEPT ![c] = "done"]
    /\ UNCHANGED <<store, inFlight, key, seen, joined, comp, value, overAtStart, produced, events>>

\* putSearch / putScrape, and the store letting an entry expire.
Put(k) ==
    /\ events < MaxEvents /\ events' = events + 1
    /\ produced' = produced + 1
    /\ store' = [store EXCEPT ![k] = produced + 1]
    /\ UNCHANGED <<inFlight, callAt, key, seen, joined, comp, value, result, overAtStart>>

Expire(k) ==
    /\ events < MaxEvents /\ events' = events + 1
    /\ store[k] # None
    /\ store' = [store EXCEPT ![k] = None]
    /\ UNCHANGED <<inFlight, callAt, key, seen, joined, comp, value, result, overAtStart, produced>>

CallStep(c) == Lookup(c) \/ Answer(c) \/ Compute(c) \/ Write(c) \/ Settle(c)

CacheNext ==
    \/ \E c \in Calls : CallStep(c)
    \/ \E k \in Keys : Put(k) \/ Expire(k)

CacheSpec == CacheInit /\ [][CacheNext]_cacheVars

\* The store and the provider answer every call.
CacheFairSpec ==
    /\ CacheSpec
    /\ \A c \in Calls : WF_cacheVars(CallStep(c))

-----------------------------------------------------------------------------
(* Properties.                                                             *)

\* Single flight: of one key, never two computations are under way.
SingleFlight ==
    \A c, d \in Calls :
        (c # d /\ key[c] = key[d] /\ comp[c] \in {"computing", "writing"})
            => comp[d] \notin {"computing", "writing"}

\* "A later request recomputes after a failure rather than reusing a rejected
\* promise": a call is rejected only by a computation that was not over yet when
\* the call came in.
FailureNotReused ==
    \A c \in Calls : result[c] = Rejected => joined[c] \notin overAtStart[c]

\* Every call settles.
CallsSettle == \A c \in Calls : (callAt[c] # "idle") ~> (callAt[c] = "done")
=============================================================================
