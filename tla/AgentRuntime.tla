--------------------------- MODULE AgentRuntime ---------------------------
(***************************************************************************)
(* One run of the Agent_Runtime (src/services/core/src/agent/              *)
(* agent-runtime.ts): plan, act, observe, iterate, under a step limit, a   *)
(* time limit and a budget cap.  Between any two awaits the user may       *)
(* cancel and the clock may move; the model, a tool, the approver and the  *)
(* event sink each answer, or reject.                                      *)
(***************************************************************************)
EXTENDS Integers, Sequences, FiniteSets

CONSTANTS
    Calls,          \* the tool calls the model may ask for
    MaxSteps,       \* the step limit
    MaxDuration,    \* the time limit
    BudgetCap,      \* the budget cap
    PortsFail,      \* ports that may reject: subset of {"approval", "events"}
    MaxTime         \* bound: the last instant of the clock

Gates == {"unknown", "notAllowed", "invalid", "destructive", "plain"}

AgentAssumption ==
    /\ MaxSteps \in Nat \ {0} /\ MaxDuration \in Nat \ {0}
    /\ BudgetCap \in Nat /\ MaxTime \in Nat
    /\ Calls \subseteq [gate : Gates, cost : Nat]

VARIABLES
    runAt,      \* where the run stands
    clock,      \* time since the run started
    cancelled,  \* what the cancellation seam reports
    call,       \* the tool call being executed
    steps,      \* the recorded steps
    spent,      \* accumulatedCost
    invoked,    \* history: the tool calls dispatched, with their step and whether
                \* the user had cancelled by then
    status      \* the status the run ends with

agentVars == <<runAt, clock, cancelled, call, steps, spent, invoked, status>>

NoCall == [gate |-> "unknown", cost |-> 0]

AgentInit ==
    /\ runAt = "starting" /\ clock = 0 /\ cancelled = FALSE
    /\ call = NoCall /\ steps = <<>> /\ spent = 0
    /\ invoked = {} /\ status = "none"

Stop(s) == runAt' = "finishing" /\ status' = s

-----------------------------------------------------------------------------
(* The run loop.                                                           *)

\* Mutant of StepLimitReached: the comparison lets one step more through.
StepLimitPassed == Len(steps) > MaxSteps

StepLimitReached == Len(steps) >= MaxSteps

TimeLimitReached == clock >= MaxDuration

\* Mutant of LoopHead: cancellation is looked at before the first turn only.
LoopHeadCancelsEarly ==
    /\ runAt = "looping"
    /\ IF cancelled /\ steps = <<>> THEN Stop("cancelled")
       ELSE IF TimeLimitReached THEN Stop("stopped_time_limit")
       ELSE IF StepLimitReached THEN Stop("stopped_step_limit")
       ELSE runAt' = "deciding" /\ UNCHANGED status
    /\ UNCHANGED <<clock, cancelled, call, steps, spent, invoked>>

\* The head of the loop: cancellation, the time and the step limit, in order.
LoopHead ==
    /\ runAt = "looping"
    /\ IF cancelled THEN Stop("cancelled")
       ELSE IF TimeLimitReached THEN Stop("stopped_time_limit")
       ELSE IF StepLimitReached THEN Stop("stopped_step_limit")
       ELSE runAt' = "deciding" /\ UNCHANGED status
    /\ UNCHANGED <<clock, cancelled, call, steps, spent, invoked>>

\* The model answers: a tool call, the final answer, or an error.
Decide ==
    /\ runAt = "deciding"
    /\ \/ \E c \in Calls : call' = c /\ runAt' = "gating" /\ UNCHANGED status
       \/ \E s \in {"completed", "failed"} : Stop(s) /\ UNCHANGED call
    /\ UNCHANGED <<clock, cancelled, steps, spent, invoked>>

\* finish: the step is recorded and, in the same go, the event is emitted.
Record(outcome) ==
    /\ steps' = Append(steps, [gate |-> call.gate, cost |-> call.cost, outcome |-> outcome])
    /\ runAt' = "emitting"

\* Mutant of Gate: an unknown tool takes the model back to the loop unrecorded.
GateUnrecorded ==
    /\ runAt = "gating"
    /\ CASE call.gate = "unknown"     -> runAt' = "looping" /\ UNCHANGED steps
         [] call.gate = "notAllowed"  -> Record("denied")
         [] call.gate = "invalid"     -> Record("invalid_input")
         [] call.gate = "destructive" -> runAt' = "approving" /\ UNCHANGED steps
         [] call.gate = "plain"       -> runAt' = "dispatching" /\ UNCHANGED steps
    /\ UNCHANGED <<clock, cancelled, call, spent, invoked, status>>

\* executeToolStep, up to the approval: unknown tools, the Allow_List, the schema.
Gate ==
    /\ runAt = "gating"
    /\ CASE call.gate = "unknown"     -> Record("unknown_tool")
         [] call.gate = "notAllowed"  -> Record("denied")
         [] call.gate = "invalid"     -> Record("invalid_input")
         [] call.gate = "destructive" -> runAt' = "approving" /\ UNCHANGED steps
         [] call.gate = "plain"       -> runAt' = "dispatching" /\ UNCHANGED steps
    /\ UNCHANGED <<clock, cancelled, call, spent, invoked, status>>

\* Mutant of Approve: the tool is handed the call before the answer is there.
ApproveLate ==
    /\ runAt = "approving"
    /\ invoked' = invoked \cup {[step |-> Len(steps) + 1, gate |-> call.gate, late |-> cancelled]}
    /\ \/ runAt' = "running" /\ UNCHANGED steps
       \/ Record("approval_denied")
    /\ UNCHANGED <<clock, cancelled, call, spent, status>>

\* The approver answers.
Approve ==
    /\ runAt = "approving"
    /\ \/ runAt' = "dispatching" /\ UNCHANGED steps
       \/ Record("approval_denied")
    /\ UNCHANGED <<clock, cancelled, call, spent, invoked, status>>

\* requestApproval rejects: it is awaited outside of every try of the run.
ApproveRejects ==
    /\ "approval" \in PortsFail /\ runAt = "approving"
    /\ runAt' = "rejected"
    /\ UNCHANGED <<clock, cancelled, call, steps, spent, invoked, status>>

\* The tool is handed the call; it returns or throws.
Dispatch ==
    /\ runAt = "dispatching"
    /\ invoked' = invoked \cup {[step |-> Len(steps) + 1, gate |-> call.gate, late |-> cancelled]}
    /\ runAt' = "running"
    /\ UNCHANGED <<clock, cancelled, call, steps, spent, status>>

ToolSettles ==
    /\ runAt = "running"
    /\ \E outcome \in {"ok", "error"} : Record(outcome)
    /\ UNCHANGED <<clock, cancelled, call, spent, invoked, status>>

BudgetReached(cost) == cost >= BudgetCap

\* The step's event is out; its cost is added and held against the cap.
StepEmitted ==
    /\ runAt = "emitting"
    /\ spent' = spent + call.cost
    /\ IF BudgetReached(spent') THEN Stop("stopped_budget_cap")
       ELSE runAt' = "looping" /\ UNCHANGED status
    /\ UNCHANGED <<clock, cancelled, call, steps, invoked>>

\* run_started and run_finished.
Started ==
    /\ runAt = "starting" /\ runAt' = "looping"
    /\ UNCHANGED <<clock, cancelled, call, steps, spent, invoked, status>>

Finished ==
    /\ runAt = "finishing" /\ runAt' = "returned"
    /\ UNCHANGED <<clock, cancelled, call, steps, spent, invoked, status>>

\* The event sink rejects, and the run with it, whatever was done so far.
EmitRejects ==
    /\ "events" \in PortsFail /\ runAt \in {"starting", "emitting", "finishing"}
    /\ runAt' = "rejected"
    /\ UNCHANGED <<clock, cancelled, call, steps, spent, invoked, status>>

Run == Started \/ LoopHead \/ Decide \/ Gate \/ Approve \/ Dispatch \/ ToolSettles
       \/ StepEmitted \/ Finished

Cancel ==
    /\ ~cancelled /\ cancelled' = TRUE
    /\ UNCHANGED <<runAt, clock, call, steps, spent, invoked, status>>

Advance ==
    /\ clock < MaxTime /\ clock' = clock + 1
    /\ UNCHANGED <<runAt, cancelled, call, steps, spent, invoked, status>>

AgentNext == Run \/ ApproveRejects \/ EmitRejects \/ Cancel \/ Advance

AgentSpec == AgentInit /\ [][AgentNext]_agentVars

\* The model, the tools, the approver and the sink all answer in the end.
AgentFairSpec == AgentSpec /\ WF_agentVars(Run)

-----------------------------------------------------------------------------
(* Properties.                                                             *)

\* Property 34 of the design: the run stops at the first boundary it reaches.
\* It records at most MaxSteps steps, what it spends passes the cap by less than
\* one step, and the status names a limit only if that limit was the first.
StopsAtFirstBoundary ==
    /\ Len(steps) <= MaxSteps
    /\ spent # 0 => \E i \in DOMAIN steps :
                       spent < BudgetCap + steps[i].cost \/ spent = steps[i].cost
    /\ status = "stopped_step_limit" => Len(steps) = MaxSteps /\ spent < BudgetCap
    /\ status = "stopped_time_limit" => clock >= MaxDuration /\ (spent < BudgetCap \/ steps = <<>>)
    /\ status = "stopped_budget_cap" => spent >= BudgetCap
    /\ status = "cancelled" => cancelled

\* Cancellation is cooperative: once the user has cancelled, at most the one tool
\* call that was already decided on is still dispatched.
CancelStopsTools == Cardinality({t \in invoked : t.late}) <= 1

\* A tool that ran is a step of the run, and a call that a gate stopped never
\* ran: whenever the run is between two steps or over, the dispatched calls are
\* the steps whose outcome is that of a tool.
ToolsRunAreRecorded ==
    /\ \A t \in invoked : t.gate \in {"plain", "destructive"}
    /\ runAt \in {"looping", "finishing", "returned"} =>
          {t.step : t \in invoked} = {i \in DOMAIN steps : steps[i].outcome \in {"ok", "error"}}

\* The run ends, even if the clock stands still and the model never finishes.
RunTerminates == <>(runAt \in {"returned", "rejected"})
=============================================================================
