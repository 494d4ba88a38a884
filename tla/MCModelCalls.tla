----------------------------- MODULE MCModelCalls -----------------------------
(* One instance each of the components that decide which model is called, and  *)
(* how often: health polling and the registry, the router, the agent runtime.  *)
(* They have no variable in common; a behaviour is one of the component `part` *)
(* names, the others stay in an initial state.                                 *)
EXTENDS ProviderHealth, ModelRouter, AgentRuntime, TLC

CONSTANTS h1, h2
VARIABLE part

Entry(id, tier, vision) == [id |-> id, tier |-> tier, vision |-> vision]
Actor(viewer, premium, allowed) == [viewer |-> viewer, premium |-> premium, allowed |-> allowed]
Served(p, on) == [provider |-> p, available |-> on]

\* The router's catalog, its callers and their requests.
MCCatalog == <<Entry("opus", "premium", TRUE), Entry("mini", "economy", FALSE),
               Entry("flash", "economy", TRUE), Entry("sonnet", "standard", FALSE)>>
MCPrincipals == {Actor(FALSE, TRUE, {}), Actor(FALSE, FALSE, {}), Actor(TRUE, TRUE, {}),
                 Actor(TRUE, FALSE, {"opus", "flash"}), Actor(FALSE, TRUE, {"opus", "mini", "sonnet"})}
MCRequests == [model : {"auto", "opus", "sonnet", "unlisted"}, image : BOOLEAN,
               verdict : {"simple", "code", "complex_reasoning"}]
MCClassified == {"simple", "code", "complex_reasoning", "vision"}

\* The catalogs that are loaded into the registry.
MCConfigs == {"m1" :> Served("p1", TRUE) @@ "m2" :> Served("p1", FALSE) @@ "m3" :> Served("p2", TRUE),
              "m2" :> Served("p2", TRUE) @@ "m3" :> Served("p2", TRUE)}

\* How often each provider goes down or comes back.
MCMaxChanges == [p \in Providers |-> IF p = "p1" THEN 2 ELSE 1]

\* The tool calls of an agent.
MCAgentCalls == {[gate |-> "plain", cost |-> 0], [gate |-> "plain", cost |-> 2],
                 [gate |-> "destructive", cost |-> 1], [gate |-> "notAllowed", cost |-> 1],
                 [gate |-> "unknown", cost |-> 0], [gate |-> "invalid", cost |-> 1]}

ASSUME ModelCallsAssumption == AgentAssumption /\ RouterAssumption /\ HealthAssumption

\* While the router is not the part that runs it has one request, and the registry
\* one catalog.
OneRequest ==
    /\ marked = {} /\ principal = Actor(FALSE, TRUE, {})
    /\ request = [model |-> "auto", image |-> FALSE, verdict |-> "code"]

MCInit ==
    /\ part \in {"health", "router", "agent"}
    /\ IF part = "router" THEN TRUE ELSE OneRequest
    /\ RouterInit
    /\ IF part = "health" THEN TRUE ELSE catalog = CHOOSE c \in Configs : TRUE
    /\ Init /\ AgentInit

MCNext ==
    \/ part = "health" /\ Next /\ UNCHANGED <<part, routerVars, agentVars>>
    \/ part = "router" /\ RouterNext /\ UNCHANGED <<part, vars, agentVars>>
    \/ part = "agent" /\ AgentNext /\ UNCHANGED <<part, vars, routerVars>>

MCSpec == MCInit /\ [][MCNext]_<<part, vars, routerVars, agentVars>>

\* The fairness of each component's FairSpec.
MCFairSpec ==
    /\ MCSpec
    /\ WF_vars(part = "health" /\ StartPolling) /\ SF_vars(part = "health" /\ \E r \in Rounds : Tick(r))
    /\ \A r \in Rounds, p \in Providers :
          WF_vars(part = "health" /\ Answer(r, p)) /\ WF_vars(part = "health" /\ Apply(r, p))
    /\ WF_agentVars(part = "agent" /\ Run)
-----------------------------------------------------------------------------
\* What must happen in the end is asked of the part that runs.
AgentTerminates == part = "agent" => RunTerminates
RoutableConverges == part = "health" => Converges
=============================================================================
