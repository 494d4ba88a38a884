-------------------------- MODULE ProviderHealth --------------------------
(***************************************************************************)
(* The provider health checker (src/services/core/src/providers/           *)
(* health-checker.ts) over the model registry (model-registry.ts).  A      *)
(* round, scheduled or on demand, asks every provider for its health; each *)
(* answer is applied to the provider's models as it arrives.  Meanwhile    *)
(* providers come and go, the catalog is reloaded, polling is stopped and  *)
(* started, and on-demand rounds overlap scheduled ones.                   *)
(***************************************************************************)
EXTENDS Integers, FiniteSets

CONSTANTS
    Providers,
    Configs,       \* the catalogs `load` is called with: model id -> [provider, available]
    Rounds,        \* rounds that may be under way at the same time
    MaxChanges,    \* bound: changes of each provider's health
    MaxLoads,      \* bound: reloads of the catalog
    MaxStops       \* bound: stops of the polling loop

HealthAssumption == MaxChanges \in [Providers -> Nat]

VARIABLES
    health,    \* external: whether each provider is well, and after how many changes
    catalog,   \* the registered models, as configured
    available, \* the registered models marked available
    polling,   \* whether the periodic loop runs
    inFlight,  \* the checker's inFlight flag
    kind,      \* "scheduled" or "onDemand", for each round
    check,     \* round, provider -> the state of its health check
    applied,   \* history: per provider, the change its last scheduled answer knew of
    loads, stops

vars == <<health, catalog, available, polling, inFlight, kind, check, applied, loads, stops>>
registry == <<catalog, available, loads>>
loop == <<polling, inFlight, stops>>
rounds == <<kind, check, applied>>

Idle == [pc |-> "idle", healthy |-> FALSE, change |-> 0]
Asked == [pc |-> "asked", healthy |-> FALSE, change |-> 0]

Enabled(c) == {m \in DOMAIN c : c[m].available}

Init ==
    /\ health = [p \in Providers |-> [well |-> TRUE, change |-> 0]]
    /\ catalog \in Configs
    /\ available = Enabled(catalog)
    /\ polling = FALSE /\ inFlight = FALSE
    /\ kind = [r \in Rounds |-> "onDemand"]
    /\ check = [r \in Rounds |-> [p \in Providers |-> Idle]]
    /\ applied = [p \in Providers |-> 0]
    /\ loads = 0 /\ stops = 0

-----------------------------------------------------------------------------
HealthChanges(p) ==
    /\ health[p].change < MaxChanges[p]
    /\ health' = [health EXCEPT ![p] = [well |-> ~health[p].well, change |-> health[p].change + 1]]
    /\ UNCHANGED <<registry, loop, rounds>>

StartPolling ==
    /\ ~polling /\ polling' = TRUE
    /\ UNCHANGED <<health, registry, inFlight, stops, rounds>>

\* stop cancels the timer; a round under way goes on.
StopPolling ==
    /\ polling /\ polling' = FALSE
    /\ stops < MaxStops /\ stops' = stops + 1
    /\ UNCHANGED <<health, registry, inFlight, rounds>>

RoundOver(r) == \A p \in Providers : check[r][p].pc = "idle"

\* checkAll: every provider is asked at once.
AskAll(r, k) ==
    /\ RoundOver(r)
    /\ kind' = [kind EXCEPT ![r] = k]
    /\ check' = [check EXCEPT ![r] = [p \in Providers |-> Asked]]
    /\ UNCHANGED applied

\* Mutant of Tick: a slow round is not waited for.
TickAlways(r) ==
    /\ polling
    /\ inFlight' = TRUE
    /\ AskAll(r, "scheduled")
    /\ UNCHANGED <<health, registry, polling, stops>>

\* The timer fires: a tick during a scheduled round is skipped.
Tick(r) ==
    /\ polling /\ ~inFlight
    /\ inFlight' = TRUE
    /\ AskAll(r, "scheduled")
    /\ UNCHANGED <<health, registry, polling, stops>>

CheckAll(r) ==
    /\ AskAll(r, "onDemand")
    /\ UNCHANGED <<health, registry, loop>>

\* The provider answers the check with its health of this moment.
Answer(r, p) ==
    /\ check[r][p].pc = "asked"
    /\ check' = [check EXCEPT ![r][p] = [pc |-> "answered", healthy |-> health[p].well,
                                         change |-> health[p].change]]
    /\ UNCHANGED <<health, registry, loop, kind, applied>>

ModelsOf(p) == {m \in DOMAIN catalog : catalog[m].provider = p}

\* Mutant of Marked: a provider that is well again stays out of routing.
MarkedDown(p, healthy) == IF healthy THEN available ELSE available \ ModelsOf(p)

Marked(p, healthy) == IF healthy THEN available \cup ModelsOf(p) ELSE available \ ModelsOf(p)

\* The answer (a rejection counts as unhealthy) arrives and is applied; the last
\* answer of a scheduled round clears the flag.
Apply(r, p) ==
    /\ check[r][p].pc = "answered"
    /\ available' = Marked(p, check[r][p].healthy)
    /\ applied' = IF kind[r] = "scheduled" THEN [applied EXCEPT ![p] = check[r][p].change] ELSE applied
    /\ check' = [check EXCEPT ![r][p] = Idle]
    /\ inFlight' = IF kind[r] = "scheduled" /\ \A q \in Providers \ {p} : check[r][q].pc = "idle"
                   THEN FALSE ELSE inFlight
    /\ UNCHANGED <<health, catalog, polling, kind, loads, stops>>

\* load replaces the catalog, and with it what the checks had found.
Load(c) ==
    /\ loads < MaxLoads /\ loads' = loads + 1
    /\ catalog' = c
    /\ available' = Enabled(c)
    /\ UNCHANGED <<health, loop, rounds>>

Next ==
    \/ \E p \in Providers : HealthChanges(p)
    \/ StartPolling \/ StopPolling
    \/ \E r \in Rounds : Tick(r) \/ CheckAll(r)
    \/ \E r \in Rounds, p \in Providers : Answer(r, p) \/ Apply(r, p)
    \/ \E c \in Configs : Load(c)

Spec == Init /\ [][Next]_vars

\* The loop is started and its timer keeps firing; every check settles.
FairSpec ==
    /\ Spec
    /\ WF_vars(StartPolling) /\ SF_vars(\E r \in Rounds : Tick(r))
    /\ \A r \in Rounds, p \in Providers : WF_vars(Answer(r, p)) /\ WF_vars(Apply(r, p))

-----------------------------------------------------------------------------
(* Properties.                                                             *)

\* "A slow check never causes overlapping rounds to pile up", nor does the loop
\* ever let an older answer of its own overwrite a newer one, across stops, restarts
\* and reloads.  (On-demand rounds are not guarded: their answers may arrive late.)
ScheduledInOrder == [][\A p \in Providers : applied'[p] >= applied[p]]_vars

\* Availability follows health: once the providers stay as they are, the models
\* that are routable are, for good, those of the providers that are well.
Converges ==
    <>[](available = {m \in DOMAIN catalog : health[catalog[m].provider].well})
=============================================================================
