---------------------------- MODULE ModelRouter ----------------------------
(***************************************************************************)
(* One chat request through the Model_Router (src/services/core/src/router *)
(* /fallback.ts, hybrid-routing-layer.ts, model-permission-resolver.ts,    *)
(* access/model-access.ts): the permitted and routable models, explicit    *)
(* routing or Auto Mode, the fallback chain and its attempts.  The health  *)
(* checker changes availability while the request is under way.            *)
(***************************************************************************)
EXTENDS Integers, Sequences, FiniteSets, SequencesExt, FiniteSetsExt

CONSTANTS
    Catalog,        \* the models, in listing order: [id, tier, vision]
    Principals,     \* [viewer, premium, allowed (the Allow_List, {} for none)]
    Requests,       \* [model (an id or "auto"), image, verdict of the heuristics]
    Classified,     \* what the model-based classifier may answer
    MaxAttempts     \* the attempt cap

Tiers == {"economy", "standard", "premium"}

RouterAssumption ==
    /\ Catalog \in Seq([id : STRING, tier : Tiers, vision : BOOLEAN])
    /\ MaxAttempts \in Nat \ {0}

VARIABLES
    marked,     \* the ids of the models marked available in the registry
    principal, request,
    routeAt,    \* where the request stands
    routable,   \* the routable permitted models, as read at the start
    selected,   \* the decision's model, an index of Catalog
    chain,      \* the models still to be tried
    failed,     \* failedAttempts
    answered,   \* history: the models whose provider completed an answer
    recorded    \* the models an outcome was recorded for

routerVars == <<marked, principal, request, routeAt, routable, selected, chain, failed,
                answered, recorded>>

Models == DOMAIN Catalog
IdOf(m) == Catalog[m].id
Rank(tier) == CASE tier = "economy" -> 0 [] tier = "standard" -> 1 [] tier = "premium" -> 2
TierRank(m) == Rank(Catalog[m].tier)

-----------------------------------------------------------------------------
(* checkModelAccess and permittedModels.                                   *)

\* Mutant of MayUse: an Allow_List opens the models that are on it.
MayUseListed(p, m) ==
    \/ IdOf(m) \in p.allowed
    \/ /\ p.viewer => Catalog[m].tier = "economy"
       /\ Catalog[m].tier = "premium" => p.premium
       /\ p.allowed = {}

MayUse(p, m) ==
    /\ p.viewer => Catalog[m].tier = "economy"
    /\ Catalog[m].tier = "premium" => p.premium
    /\ p.allowed # {} => IdOf(m) \in p.allowed

Permitted(p) == {m \in Models : MayUse(p, m)}

-----------------------------------------------------------------------------
(* The order of candidates: nearest tier, then cheaper, then as listed.    *)

Distance(m, rank) == IF TierRank(m) >= rank THEN TierRank(m) - rank ELSE rank - TierRank(m)

Nearer(m, n, rank) ==
    \/ Distance(m, rank) < Distance(n, rank)
    \/ /\ Distance(m, rank) = Distance(n, rank)
       /\ TierRank(m) < TierRank(n) \/ (TierRank(m) = TierRank(n) /\ m < n)

Candidates(model, image) ==
    {m \in routable \ {model} : image => Catalog[m].vision}

\* The candidates in that order.
NearestFirst(S, rank) ==
    {order \in [1..Cardinality(S) -> S] :
        \A i, j \in DOMAIN order : i < j => Nearer(order[i], order[j], rank)}

\* buildFallbackChain, cut to the attempt cap: the selected model, then the others.
FallbackChain(model, others) ==
    LET full == <<model>> \o others
    IN  SubSeq(full, 1, IF Len(full) < MaxAttempts THEN Len(full) ELSE MaxAttempts)

-----------------------------------------------------------------------------
RouterInit ==
    /\ marked \in SUBSET {IdOf(m) : m \in Models}
    /\ principal \in Principals /\ request \in Requests
    /\ routeAt = "called" /\ routable = {} /\ selected = 0
    /\ chain = <<>> /\ failed = <<>> /\ answered = {} /\ recorded = <<>>

\* route, up to its first await: the permitted models, and an explicit model.
Begin ==
    /\ routeAt = "called"
    /\ routable' = {m \in Permitted(principal) : IdOf(m) \in marked}
    /\ IF request.model = "auto" THEN routeAt' = "classifying" /\ UNCHANGED selected
       ELSE \/ /\ \A m \in Models : IdOf(m) # request.model
               /\ routeAt' = "notFound" /\ UNCHANGED selected
            \/ \E m \in Models :
                  /\ IdOf(m) = request.model
                  /\ IF MayUse(principal, m) THEN routeAt' = "chaining" /\ selected' = m
                     ELSE routeAt' = "notAuthorized" /\ UNCHANGED selected
    /\ UNCHANGED <<marked, principal, request, chain, failed, answered, recorded>>

\* classify: image input, then the heuristics, then the classifier (which may
\* not answer "vision").
Classes ==
    IF request.image THEN {"vision"}
    ELSE IF request.verdict # "simple" THEN {request.verdict}
    ELSE {IF c = "vision" THEN "simple" ELSE c : c \in Classified}

TierFor(class) == CASE class = "simple" -> "economy"
                    [] class = "complex_reasoning" -> "premium"
                    [] class = "code" -> "standard"

\* selectModel: the first vision model, or the one of the nearest tier.
Eligible(class) == IF class = "vision" THEN {m \in routable : Catalog[m].vision} ELSE routable

Best(class, m) ==
    \A n \in Eligible(class) \ {m} :
        IF class = "vision" THEN m < n ELSE Nearer(m, n, Rank(TierFor(class)))

AutoSelect ==
    /\ routeAt = "classifying"
    /\ \E class \in Classes :
          IF Eligible(class) = {} THEN routeAt' = "noEligible" /\ UNCHANGED selected
          ELSE /\ selected' \in {m \in Eligible(class) : Best(class, m)}
               /\ routeAt' = "chaining"
    /\ UNCHANGED <<marked, principal, request, routable, chain, failed, answered, recorded>>

\* The model-based classifier rejects, and the request with it.
ClassifierRejects ==
    /\ routeAt = "classifying" /\ ~request.image /\ request.verdict = "simple"
    /\ routeAt' = "classifierFailed"
    /\ UNCHANGED <<marked, principal, request, routable, selected, chain, failed,
                   answered, recorded>>

BuildChain ==
    /\ routeAt = "chaining"
    /\ \E others \in NearestFirst(Candidates(selected, request.image), TierRank(selected)) :
          chain' = FallbackChain(selected, others)
    /\ routeAt' = "attempting"
    /\ UNCHANGED <<marked, principal, request, routable, selected, failed, answered, recorded>>

\* The attempt is noted as failed and the loop goes on to the next model.
Fail ==
    /\ failed' = Append(failed, Head(chain))
    /\ chain' = Tail(chain)
    /\ routeAt' = IF Len(chain) = 1 THEN "exhausted" ELSE "attempting"

\* runAttempt: the provider completes its answer, fails, or times out.
AttemptSucceeds ==
    /\ routeAt = "attempting"
    /\ answered' = answered \cup {Head(chain)}
    /\ routeAt' = "recording"
    /\ UNCHANGED <<marked, principal, request, routable, selected, chain, failed, recorded>>

AttemptFails ==
    /\ routeAt = "attempting"
    /\ Fail
    /\ UNCHANGED <<marked, principal, request, routable, selected, answered, recorded>>

\* Mutant of Recorded: the outcome is booked on the model first selected.
RecordedSelected ==
    /\ routeAt = "recording"
    /\ recorded' = Append(recorded, selected)
    /\ routeAt' = "returned"
    /\ UNCHANGED <<marked, principal, request, routable, selected, chain, failed, answered>>

Recorded ==
    /\ routeAt = "recording"
    /\ recorded' = Append(recorded, Head(chain))
    /\ routeAt' = "returned"
    /\ UNCHANGED <<marked, principal, request, routable, selected, chain, failed, answered>>

\* recorder.record rejects inside the attempt's try: it counts as a failure of
\* the model that has just answered.
RecorderRejects ==
    /\ routeAt = "recording"
    /\ Fail
    /\ UNCHANGED <<marked, principal, request, routable, selected, answered, recorded>>

\* The health checker marks a model, at any moment.
AvailabilityChanges ==
    /\ routeAt \in {"classifying", "chaining", "attempting"}
    /\ \E m \in Models : marked' = SymDiff({IdOf(m)}, marked)
    /\ UNCHANGED <<principal, request, routeAt, routable, selected, chain, failed, answered, recorded>>

RouterNext ==
    \/ Begin \/ AutoSelect \/ ClassifierRejects \/ BuildChain
    \/ AttemptSucceeds \/ AttemptFails \/ Recorded \/ RecorderRejects
    \/ AvailabilityChanges

RouterSpec == RouterInit /\ [][RouterNext]_routerVars

-----------------------------------------------------------------------------
(* Properties.                                                             *)

\* The models handed to a provider so far, in order.
Tried == failed \o (IF routeAt \in {"attempting", "recording", "returned"} THEN <<Head(chain)>> ELSE <<>>)

\* Authorization survives the fallback: no request ever reaches a model above the
\* principal's role, Premium grant or Allow_List.
OnlyPermittedTried ==
    \A i \in DOMAIN Tried :
        LET model == Catalog[Tried[i]] IN
        /\ principal.viewer => model.tier = "economy"
        /\ model.tier = "premium" => principal.premium
        /\ principal.allowed # {} => model.id \in principal.allowed

\* "Records the outcome of the first success": a provider that has answered is
\* the last one called unless its outcome could not be recorded, and it is the one
\* on record.
FirstSuccessServes ==
    LET served == answered \ ToSet(failed) IN
    /\ Cardinality(served) <= 1
    /\ routeAt = "returned" => served = ToSet(recorded)
=============================================================================
