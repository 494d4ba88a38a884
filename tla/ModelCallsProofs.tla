--------------------------- MODULE ModelCallsProofs ---------------------------
(***************************************************************************)
(* For any catalog, principal, number of providers, tool calls and limits: *)
(* what an agent run may do at its limits and after a cancellation, what   *)
(* the router may hand to a provider, and the order of health answers.     *)
(***************************************************************************)
EXTENDS ProviderHealth, ModelRouter, AgentRuntime, FiniteSetTheorems, TLAPS

-----------------------------------------------------------------------------
(* The agent run.                                                          *)

Acting == {"deciding", "gating", "approving", "dispatching", "running"}
Over == {"finishing", "returned", "rejected"}
Statuses == {"none", "completed", "failed", "cancelled", "stopped_time_limit",
             "stopped_step_limit", "stopped_budget_cap"}
Outcomes == {"unknown_tool", "denied", "invalid_input", "approval_denied", "ok", "error"}

AgentTypeOK ==
    /\ runAt \in {"starting", "looping", "emitting"} \cup Acting \cup Over
    /\ clock \in Nat /\ cancelled \in BOOLEAN
    /\ call \in [gate : Gates, cost : Nat]
    /\ steps \in Seq([gate : Gates, cost : Nat, outcome : Outcomes])
    /\ spent \in Nat /\ status \in Statuses
    /\ invoked \in SUBSET [step : Nat, gate : Gates, late : BOOLEAN]

\* Between the steps the cap is not reached, but for a cap of zero before the first one.
UnderCap(n) == spent < BudgetCap \/ (n = 0 /\ spent = 0)

LimitsInv ==
    /\ runAt \in Acting => Len(steps) < MaxSteps
    /\ runAt = "starting" => steps = <<>> /\ spent = 0
    /\ runAt \in {"starting", "looping"} \cup Acting => UnderCap(Len(steps))
    /\ runAt = "emitting" => /\ Len(steps) > 0 /\ steps[Len(steps)].cost = call.cost
                             /\ UnderCap(Len(steps) - 1)
    /\ runAt \notin Over => status = "none"
    /\ StopsAtFirstBoundary

Late == {t \in invoked : t.late}

CancelInv ==
    /\ Late # {} => cancelled
    /\ runAt \in Acting \ {"running"} => Late = {}
    /\ \A s, t \in Late : s = t

Ran == {i \in DOMAIN steps : steps[i].outcome \in {"ok", "error"}}

ToolsInv ==
    /\ \A t \in invoked : t.gate \in {"plain", "destructive"}
    /\ runAt = "approving" => call.gate = "destructive"
    /\ runAt \in {"dispatching", "running"} => call.gate \in {"plain", "destructive"}
    /\ {t.step : t \in invoked} = IF runAt = "running" THEN Ran \cup {Len(steps) + 1} ELSE Ran

AgentInv == AgentTypeOK /\ LimitsInv /\ CancelInv /\ ToolsInv

LEMMA AgentInitially == ASSUME AgentAssumption, AgentInit PROVE AgentInv
<1>1. AgentTypeOK
  <2>1. NoCall \in [gate : Gates, cost : Nat]
    BY DEF NoCall, Gates
  <2>2. <<>> \in Seq([gate : Gates, cost : Nat, outcome : Outcomes])
    OBVIOUS
  <2> QED  BY <2>1, <2>2 DEF AgentInit, AgentTypeOK, Acting, Over, Statuses
<1>2. LimitsInv
  BY DEF AgentAssumption, AgentInit, LimitsInv, StopsAtFirstBoundary, UnderCap, Acting, Over
<1>3. CancelInv /\ ToolsInv
  BY DEF AgentInit, CancelInv, ToolsInv, Late, Ran
<1> QED  BY <1>1, <1>2, <1>3 DEF AgentInv

\* A step that records none of the tool's outcomes, dispatches nothing and does not act.
LEMMA Recording ==
    ASSUME AgentAssumption, AgentInv, NEW outcome \in Outcomes, Record(outcome),
           runAt \in {"gating", "approving", "running"},
           outcome \in {"ok", "error"} <=> runAt = "running",
           UNCHANGED <<clock, cancelled, call, spent, invoked, status>>
    PROVE  AgentInv'
<1> DEFINE new == [gate |-> call.gate, cost |-> call.cost, outcome |-> outcome]
<1>1. /\ new \in [gate : Gates, cost : Nat, outcome : Outcomes]
      /\ steps' = Append(steps, new) /\ runAt' = "emitting"
  BY DEF Record, AgentInv, AgentTypeOK
<1>2. /\ Len(steps') = Len(steps) + 1 /\ Len(steps) \in Nat
      /\ steps'[Len(steps) + 1] = new
      /\ \A i \in DOMAIN steps : i \in DOMAIN steps' /\ steps'[i] = steps[i]
      /\ DOMAIN steps' = DOMAIN steps \cup {Len(steps) + 1}
  BY <1>1 DEF AgentInv, AgentTypeOK
<1>3. AgentTypeOK'
  BY <1>1 DEF AgentInv, AgentTypeOK
<1>4. LimitsInv'
  <2>1. runAt \in Acting /\ runAt \notin Over /\ runAt \notin {"starting", "emitting"}
    BY DEF Acting, Over
  <2>2. Len(steps') <= MaxSteps
    BY <1>2, <2>1 DEF AgentInv, LimitsInv, AgentAssumption
  <2>3. spent' # 0 => \E i \in DOMAIN steps' : spent' < BudgetCap + steps'[i].cost \/ spent' = steps'[i].cost
    BY <1>2 DEF AgentInv, LimitsInv, StopsAtFirstBoundary
  <2>4. UnderCap(Len(steps)) /\ status = "none"
    BY <2>1 DEF AgentInv, LimitsInv
  <2>5. StopsAtFirstBoundary'
    BY <2>2, <2>3, <2>4 DEF StopsAtFirstBoundary
  <2>6. Len(steps') > 0 /\ steps'[Len(steps')].cost = call'.cost /\ UnderCap(Len(steps) - 1)'
    BY <1>1, <1>2, <2>4 DEF UnderCap
  <2> QED  BY <1>1, <2>4, <2>5, <2>6 DEF LimitsInv, Acting, Over
<1>5. CancelInv'
  BY <1>1 DEF AgentInv, CancelInv, Late, Acting
<1>6. ToolsInv'
  <2>1. Ran' = IF runAt = "running" THEN Ran \cup {Len(steps) + 1} ELSE Ran
    BY <1>2 DEF Ran
  <2> QED  BY <1>1, <2>1 DEF AgentInv, ToolsInv
<1> QED  BY <1>3, <1>4, <1>5, <1>6 DEF AgentInv

LEMMA AgentStep == ASSUME AgentAssumption, AgentInv, [AgentNext]_agentVars PROVE AgentInv'
<1> USE DEF Acting, Over
<1>1. CASE Started
  <2>1. AgentTypeOK' /\ CancelInv' /\ ToolsInv'
    BY <1>1 DEF Started, AgentInv, AgentTypeOK, CancelInv, ToolsInv, Late, Ran
  <2>2. LimitsInv'
    BY <1>1 DEF Started, AgentInv, LimitsInv, StopsAtFirstBoundary, UnderCap
  <2> QED  BY <2>1, <2>2 DEF AgentInv
<1>2. CASE LoopHead
  <2>1. AgentTypeOK'
    BY <1>2 DEF LoopHead, Stop, AgentInv, AgentTypeOK, Statuses
  <2>2. CancelInv' /\ ToolsInv'
    BY <1>2 DEF LoopHead, Stop, AgentInv, AgentTypeOK, CancelInv, ToolsInv, Late, Ran
  <2>3. LimitsInv'
    <3>1. Len(steps) \in Nat /\ (Len(steps) = 0 => steps = <<>>)
      BY DEF AgentInv, AgentTypeOK
    <3> QED
      BY <1>2, <3>1 DEF LoopHead, Stop, AgentInv, AgentTypeOK, LimitsInv, StopsAtFirstBoundary, UnderCap,
                        TimeLimitReached, StepLimitReached, AgentAssumption
  <2> QED  BY <2>1, <2>2, <2>3 DEF AgentInv
<1>3. CASE Decide
  <2>1. AgentTypeOK'
    BY <1>3 DEF Decide, Stop, AgentInv, AgentTypeOK, Statuses, AgentAssumption
  <2>2. CancelInv' /\ ToolsInv'
    BY <1>3 DEF Decide, Stop, AgentInv, AgentTypeOK, CancelInv, ToolsInv, Late, Ran
  <2>3. LimitsInv'
    BY <1>3 DEF Decide, Stop, AgentInv, LimitsInv, StopsAtFirstBoundary, UnderCap
  <2> QED  BY <2>1, <2>2, <2>3 DEF AgentInv
<1>4. CASE Gate
  <2>1. CASE \E outcome \in Outcomes \ {"ok", "error"} : Record(outcome)
    BY <1>4, <2>1, Recording DEF Gate
  <2>2. CASE /\ UNCHANGED steps
             /\ \/ call.gate = "destructive" /\ runAt' = "approving"
                \/ call.gate = "plain" /\ runAt' = "dispatching"
    <3>1. AgentTypeOK' /\ CancelInv' /\ ToolsInv'
      BY <1>4, <2>2 DEF Gate, AgentInv, AgentTypeOK, CancelInv, ToolsInv, Late, Ran
    <3>2. LimitsInv'
      BY <1>4, <2>2 DEF Gate, AgentInv, LimitsInv, StopsAtFirstBoundary, UnderCap
    <3> QED  BY <3>1, <3>2 DEF AgentInv
  <2>3. call.gate \in Gates
    BY DEF AgentInv, AgentTypeOK
  <2> QED  BY <1>4, <2>1, <2>2, <2>3 DEF Gate, Gates, Outcomes
<1>5. CASE Approve
  <2>1. CASE Record("approval_denied")
    BY <1>5, <2>1, Recording DEF Approve, Outcomes
  <2>2. CASE runAt' = "dispatching" /\ UNCHANGED steps
    <3>1. AgentTypeOK' /\ CancelInv' /\ ToolsInv'
      BY <1>5, <2>2 DEF Approve, AgentInv, AgentTypeOK, CancelInv, ToolsInv, Late, Ran
    <3>2. LimitsInv'
      BY <1>5, <2>2 DEF Approve, AgentInv, LimitsInv, StopsAtFirstBoundary, UnderCap
    <3> QED  BY <3>1, <3>2 DEF AgentInv
  <2> QED  BY <1>5, <2>1, <2>2 DEF Approve
<1>6. CASE Dispatch
  <2> DEFINE t == [step |-> Len(steps) + 1, gate |-> call.gate, late |-> cancelled]
  <2>1. AgentTypeOK'
    <3>1. t \in [step : Nat, gate : Gates, late : BOOLEAN]
      BY DEF AgentInv, AgentTypeOK
    <3> QED  BY <1>6, <3>1 DEF Dispatch, AgentInv, AgentTypeOK
  <2>2. LimitsInv'
    BY <1>6 DEF Dispatch, AgentInv, LimitsInv, StopsAtFirstBoundary, UnderCap
  <2>3. CancelInv'
    <3>1. Late' = IF cancelled THEN {t} ELSE {}
      BY <1>6 DEF Dispatch, AgentInv, AgentTypeOK, CancelInv, Late
    <3> QED  BY <1>6, <3>1 DEF Dispatch, CancelInv
  <2>4. ToolsInv'
    <3>1. {s.step : s \in invoked'} = {s.step : s \in invoked} \cup {Len(steps) + 1}
      <4>1. invoked' = invoked \cup {t} /\ t.step = Len(steps) + 1
        BY <1>6 DEF Dispatch
      <4> HIDE DEF t
      <4> QED  BY <4>1
    <3>2. \A s \in invoked' : s.gate \in {"plain", "destructive"}
      BY <1>6 DEF Dispatch, AgentInv, ToolsInv
    <3> QED  BY <1>6, <3>1, <3>2 DEF Dispatch, AgentInv, ToolsInv, Ran
  <2> QED  BY <2>1, <2>2, <2>3, <2>4 DEF AgentInv
<1>7. CASE ToolSettles
  BY <1>7, Recording DEF ToolSettles, Outcomes
<1>8. CASE StepEmitted
  <2>1. /\ spent \in Nat /\ call.cost \in Nat /\ spent' = spent + call.cost
        /\ runAt = "emitting" /\ UNCHANGED <<clock, cancelled, call, steps, invoked>>
        /\ BudgetCap \in Nat
        /\ \/ spent' >= BudgetCap /\ runAt' = "finishing" /\ status' = "stopped_budget_cap"
           \/ spent' < BudgetCap /\ runAt' = "looping" /\ UNCHANGED status
    BY <1>8 DEF StepEmitted, AgentInv, AgentTypeOK, Stop, BudgetReached, AgentAssumption
  <2>2. AgentTypeOK'
    BY <2>1 DEF AgentInv, AgentTypeOK, Statuses
  <2>3. CancelInv' /\ ToolsInv'
    BY <2>1 DEF AgentInv, CancelInv, ToolsInv, Late, Ran
  <2>4. LimitsInv'
    <3>1. /\ Len(steps) \in DOMAIN steps /\ steps[Len(steps)].cost = call.cost
          /\ status = "none"
          /\ UnderCap(Len(steps) - 1) /\ Len(steps) <= MaxSteps
      BY <2>1 DEF AgentInv, AgentTypeOK, LimitsInv, StopsAtFirstBoundary
    <3>2. spent' < BudgetCap + steps[Len(steps)].cost \/ spent' = steps[Len(steps)].cost
      BY <2>1, <3>1 DEF UnderCap
    <3>3. StopsAtFirstBoundary'
      BY <2>1, <3>1, <3>2 DEF StopsAtFirstBoundary
    <3> QED  BY <2>1, <3>1, <3>3 DEF LimitsInv, UnderCap
  <2> QED  BY <2>2, <2>3, <2>4 DEF AgentInv
<1>9. CASE Finished \/ ApproveRejects \/ EmitRejects
  <2>1. AgentTypeOK' /\ CancelInv' /\ ToolsInv'
    BY <1>9 DEF Finished, ApproveRejects, EmitRejects, AgentInv, AgentTypeOK, CancelInv, ToolsInv, Late, Ran
  <2>2. LimitsInv'
    BY <1>9 DEF Finished, ApproveRejects, EmitRejects, AgentInv, LimitsInv, StopsAtFirstBoundary, UnderCap
  <2> QED  BY <2>1, <2>2 DEF AgentInv
<1>10. CASE Cancel \/ Advance \/ UNCHANGED agentVars
  <2>1. /\ UNCHANGED <<runAt, call, steps, spent, invoked, status>>
        /\ cancelled' \in BOOLEAN /\ (cancelled => cancelled')
        /\ clock' \in Nat /\ clock' >= clock
    <3>1. clock \in Nat /\ cancelled \in BOOLEAN
      BY DEF AgentInv, AgentTypeOK
    <3>2. CASE Cancel
      BY <3>1, <3>2 DEF Cancel
    <3>3. CASE Advance
      BY <3>1, <3>3 DEF Advance
    <3>4. CASE UNCHANGED agentVars
      BY <3>1, <3>4 DEF agentVars
    <3> QED  BY <1>10, <3>2, <3>3, <3>4
  <2>2. AgentTypeOK' /\ CancelInv' /\ ToolsInv'
    BY <2>1 DEF AgentInv, AgentTypeOK, CancelInv, ToolsInv, Late, Ran
  <2>3. LimitsInv'
    BY <2>1 DEF AgentInv, AgentTypeOK, LimitsInv, StopsAtFirstBoundary, UnderCap, AgentAssumption
  <2> QED  BY <2>2, <2>3 DEF AgentInv
<1> QED
  BY <1>1, <1>2, <1>3, <1>4, <1>5, <1>6, <1>7, <1>8, <1>9, <1>10 DEF AgentNext, Run

\* Type correctness of an agent run.
THEOREM AgentTypeCorrect == ASSUME AgentAssumption PROVE AgentSpec => []AgentTypeOK
<1>1. AgentInv => AgentTypeOK
  BY DEF AgentInv
<1> QED  BY AgentInitially, AgentStep, <1>1, PTL DEF AgentSpec

\* The run stops at the first boundary it reaches: at most MaxSteps steps, spending past
\* the cap by less than one step, and a status that names the limit met first.
THEOREM LimitsHold == ASSUME AgentAssumption PROVE AgentSpec => []StopsAtFirstBoundary
<1>1. AgentInv => StopsAtFirstBoundary
  BY DEF AgentInv, LimitsInv
<1> QED  BY AgentInitially, AgentStep, <1>1, PTL DEF AgentSpec

\* After a cancellation at most one tool call is still dispatched.
THEOREM CancellationStopsTools == ASSUME AgentAssumption PROVE AgentSpec => []CancelStopsTools
<1>1. AgentInv => CancelStopsTools
  <2>1. SUFFICES ASSUME AgentInv PROVE Cardinality(Late) <= 1
    BY DEF CancelStopsTools, Late
  <2>2. Late = {} \/ \E t \in Late : Late = {t}
    BY <2>1 DEF AgentInv, CancelInv
  <2>3. CASE Late = {}
    BY <2>3, FS_EmptySet
  <2>4. CASE \E t \in Late : Late = {t}
    <3>1. PICK t : Late = {t}
      BY <2>4
    <3>2. Cardinality({t}) = 1
      BY FS_Singleton
    <3> QED  BY <3>1, <3>2
  <2> QED  BY <2>2, <2>3, <2>4
<1> QED  BY AgentInitially, AgentStep, <1>1, PTL DEF AgentSpec

\* Between two steps and in the end, the dispatched calls are the steps with a tool's outcome.
THEOREM RunToolsRecorded == ASSUME AgentAssumption PROVE AgentSpec => []ToolsRunAreRecorded
<1>1. AgentInv => ToolsRunAreRecorded
  BY DEF AgentInv, ToolsInv, ToolsRunAreRecorded, Ran
<1> QED  BY AgentInitially, AgentStep, <1>1, PTL DEF AgentSpec

-----------------------------------------------------------------------------
(* Health polling.                                                         *)

HealthTypeOK ==
    /\ health \in [Providers -> [well : BOOLEAN, change : Nat]]
    /\ kind \in [Rounds -> {"scheduled", "onDemand"}]
    /\ check \in [Rounds -> [Providers -> [pc : {"idle", "asked", "answered"}, healthy : BOOLEAN, change : Nat]]]
    /\ applied \in [Providers -> Nat]
    /\ inFlight \in BOOLEAN

\* A scheduled round is under way.
Pending(r) == kind[r] = "scheduled" /\ ~ RoundOver(r)

HealthInv ==
    /\ HealthTypeOK
    /\ \A r \in Rounds : Pending(r) => inFlight
    /\ \A r, s \in Rounds : Pending(r) /\ Pending(s) => r = s
    /\ \A p \in Providers : applied[p] <= health[p].change
    /\ \A r \in Rounds, p \in Providers :
          check[r][p].pc = "answered" => check[r][p].change <= health[p].change
    /\ \A r \in Rounds, p \in Providers :
          kind[r] = "scheduled" /\ check[r][p].pc = "answered" => applied[p] <= check[r][p].change

LEMMA HealthInitially == ASSUME Init PROVE HealthInv
<1>1. /\ health = [p \in Providers |-> [well |-> TRUE, change |-> 0]] /\ inFlight = FALSE
      /\ kind = [r \in Rounds |-> "onDemand"] /\ applied = [p \in Providers |-> 0]
      /\ check = [r \in Rounds |-> [p \in Providers |-> [pc |-> "idle", healthy |-> FALSE, change |-> 0]]]
  BY DEF Init, Idle
<1>2. HealthTypeOK
  BY <1>1 DEF HealthTypeOK
<1>3. \A r \in Rounds : ~ Pending(r) /\ \A p \in Providers : check[r][p].pc = "idle"
  BY <1>1 DEF Pending
<1>4. \A p \in Providers : applied[p] <= health[p].change
  BY <1>1
<1> QED  BY <1>2, <1>3, <1>4 DEF HealthInv

\* A round is asked: its checks are all open, and no answer is there.
LEMMA Asking ==
    ASSUME HealthInv, NEW r \in Rounds, NEW k \in {"scheduled", "onDemand"}, AskAll(r, k), UNCHANGED health,
           IF k = "scheduled" THEN ~ inFlight /\ inFlight' = TRUE ELSE UNCHANGED inFlight
    PROVE  HealthInv'
<1>1. /\ kind' = [kind EXCEPT ![r] = k] /\ UNCHANGED applied
      /\ check' = [check EXCEPT ![r] = [p \in Providers |-> [pc |-> "asked", healthy |-> FALSE, change |-> 0]]]
  BY DEF AskAll, Asked
<1>2. HealthTypeOK'
  BY <1>1 DEF HealthInv, HealthTypeOK
<1>3. /\ kind'[r] = k /\ \A p \in Providers : check'[r][p].pc = "asked"
      /\ \A s \in Rounds \ {r} : kind'[s] = kind[s] /\ check'[s] = check[s]
  BY <1>1 DEF HealthInv, HealthTypeOK
<1>4. \A s \in Rounds \ {r} : Pending(s)' <=> Pending(s)
  BY <1>3 DEF Pending, RoundOver
<1>5. \A s \in Rounds : Pending(s)' => inFlight'
  BY <1>3, <1>4 DEF HealthInv, Pending
<1>6. ASSUME NEW q \in Rounds, NEW s \in Rounds, Pending(q)', Pending(s)' PROVE q = s
  BY <1>3, <1>4, <1>6 DEF HealthInv, Pending
<1> QED  BY <1>1, <1>2, <1>3, <1>5, <1>6 DEF HealthInv

LEMMA HealthStep == ASSUME HealthAssumption, HealthInv, [Next]_vars PROVE HealthInv'
<1>1. ASSUME NEW p \in Providers, HealthChanges(p) PROVE HealthInv'
  <2>1. /\ health' \in [Providers -> [well : BOOLEAN, change : Nat]]
        /\ \A q \in Providers : health[q].change <= health'[q].change
        /\ UNCHANGED <<inFlight, kind, check, applied>>
    BY <1>1 DEF HealthChanges, HealthInv, HealthTypeOK, loop, rounds
  <2> QED  BY <2>1 DEF HealthInv, HealthTypeOK, Pending, RoundOver
<1>2. CASE StartPolling \/ StopPolling \/ (\E c \in Configs : Load(c)) \/ UNCHANGED vars
  <2>1. UNCHANGED <<health, inFlight, kind, check, applied>>
    BY <1>2 DEF StartPolling, StopPolling, Load, vars, loop, rounds
  <2> QED  BY <2>1 DEF HealthInv, HealthTypeOK, Pending, RoundOver
<1>3. ASSUME NEW r \in Rounds, Tick(r) PROVE HealthInv'
  BY <1>3, Asking DEF Tick
<1>4. ASSUME NEW r \in Rounds, CheckAll(r) PROVE HealthInv'
  BY <1>4, Asking DEF CheckAll, loop
<1>5. ASSUME NEW r \in Rounds, NEW p \in Providers, Answer(r, p) PROVE HealthInv'
  <2>1. /\ check[r][p].pc = "asked"
        /\ check' = [check EXCEPT ![r][p] = [pc |-> "answered", healthy |-> health[p].well,
                                             change |-> health[p].change]]
        /\ UNCHANGED <<health, inFlight, kind, applied>>
    BY <1>5 DEF Answer, loop
  <2>2. HealthTypeOK'
    BY <2>1 DEF HealthInv, HealthTypeOK
  <2>3. /\ check'[r][p].change = health[p].change
        /\ \A s \in Rounds, q \in Providers :
              s # r \/ q # p => check'[s][q] = check[s][q]
        /\ \A s \in Rounds : RoundOver(s)' <=> RoundOver(s)
    BY <2>1 DEF HealthInv, HealthTypeOK, RoundOver
  <2>4. \A s \in Rounds : Pending(s)' <=> Pending(s)
    BY <2>1, <2>3 DEF Pending
  <2> QED  BY <2>1, <2>2, <2>3, <2>4 DEF HealthInv, HealthTypeOK
<1>6. ASSUME NEW r \in Rounds, NEW p \in Providers, Apply(r, p) PROVE HealthInv'
  <2>1. /\ check[r][p].pc = "answered" /\ UNCHANGED <<health, kind>>
        /\ check' = [check EXCEPT ![r][p] = [pc |-> "idle", healthy |-> FALSE, change |-> 0]]
        /\ applied' = IF kind[r] = "scheduled" THEN [applied EXCEPT ![p] = check[r][p].change] ELSE applied
        /\ inFlight' = IF kind[r] = "scheduled" /\ \A q \in Providers \ {p} : check[r][q].pc = "idle"
                       THEN FALSE ELSE inFlight
    BY <1>6 DEF Apply, Idle
  <2>2. HealthTypeOK'
    BY <2>1 DEF HealthInv, HealthTypeOK
  <2>3. /\ check'[r][p].pc = "idle"
        /\ \A s \in Rounds, q \in Providers :
              s # r \/ q # p => check'[s][q] = check[s][q]
    BY <2>1 DEF HealthInv, HealthTypeOK
  <2>4. ASSUME NEW s \in Rounds, Pending(s)' PROVE Pending(s) /\ inFlight'
    <3>1. Pending(s)
      BY <2>1, <2>3, <2>4 DEF Pending, RoundOver
    <3>2. kind[r] = "scheduled" => Pending(r)
      BY <2>1 DEF Pending, RoundOver
    <3>3. kind[r] = "scheduled" => s = r
      BY <3>1, <3>2 DEF HealthInv
    <3>4. kind[r] = "scheduled" => \E q \in Providers \ {p} : check[r][q].pc # "idle"
      BY <2>3, <2>4, <3>3 DEF Pending, RoundOver
    <3> QED  BY <2>1, <3>1, <3>4 DEF HealthInv
  <2>5. \A q \in Providers : applied'[q] <= health'[q].change
    BY <2>1 DEF HealthInv, HealthTypeOK
  <2>6. ASSUME NEW s \in Rounds, NEW q \in Providers, kind'[s] = "scheduled", check'[s][q].pc = "answered"
        PROVE  applied'[q] <= check'[s][q].change
    <3>1. check'[s][q] = check[s][q] /\ kind[s] = "scheduled" /\ (s # r \/ q # p)
      BY <2>1, <2>3, <2>6
    <3>2. kind[r] = "scheduled" => s = r
      BY <2>1, <3>1, <2>6 DEF HealthInv, Pending, RoundOver
    <3>3. applied'[q] = applied[q]
      BY <2>1, <3>1, <3>2 DEF HealthInv, HealthTypeOK
    <3> QED  BY <3>1, <3>3, <2>6 DEF HealthInv
  <2>7. \A s \in Rounds, q \in Providers :
          check'[s][q].pc = "answered" => check'[s][q].change <= health'[q].change
    BY <2>1, <2>3 DEF HealthInv
  <2> QED  BY <2>2, <2>4, <2>5, <2>6, <2>7 DEF HealthInv
<1> QED
  BY <1>1, <1>2, <1>3, <1>4, <1>5, <1>6 DEF Next

\* A step never replaces what the loop knew of a provider by something older.
LEMMA NothingOlder ==
    ASSUME HealthInv, [Next]_vars PROVE [\A p \in Providers : applied'[p] >= applied[p]]_vars
<1>1. ASSUME NEW r \in Rounds, NEW p \in Providers, Apply(r, p)
      PROVE  \A q \in Providers : applied'[q] >= applied[q]
  BY <1>1 DEF Apply, HealthInv, HealthTypeOK
<1>2. CASE UNCHANGED applied
  BY <1>2 DEF HealthInv, HealthTypeOK
<1>3. UNCHANGED applied \/ UNCHANGED vars \/ \E r \in Rounds, p \in Providers : Apply(r, p)
  BY DEF Next, HealthChanges, StartPolling, StopPolling, Tick, CheckAll, AskAll, Answer, Load, rounds
<1> QED  BY <1>1, <1>2, <1>3

\* Type correctness of the health checker.
THEOREM HealthTypeCorrect == ASSUME HealthAssumption PROVE Spec => []HealthTypeOK
<1>1. HealthInv => HealthTypeOK
  BY DEF HealthInv
<1> QED  BY HealthInitially, HealthStep, <1>1, PTL DEF Spec

\* The loop applies its own answers in the order in which health was, through stops,
\* restarts, reloads and overlapping on-demand rounds.
THEOREM AnswersInOrder == ASSUME HealthAssumption PROVE Spec => ScheduledInOrder
<1>1. Spec => []HealthInv
  BY HealthInitially, HealthStep, PTL DEF Spec
<1> QED  BY <1>1, NothingOlder, PTL DEF Spec, ScheduledInOrder

-----------------------------------------------------------------------------
(* The router.                                                             *)

Places == {"called", "classifying", "chaining", "attempting", "recording", "returned",
           "exhausted", "notFound", "notAuthorized", "noEligible", "classifierFailed"}

RouterTypeOK ==
    /\ routeAt \in Places
    /\ routable \in SUBSET Permitted(principal)
    /\ routeAt \in {"chaining", "attempting", "recording", "returned"} =>
          selected \in Permitted(principal)
    /\ chain \in Seq(Permitted(principal)) /\ failed \in Seq(Permitted(principal))
    /\ answered \in SUBSET Models

\* No model is tried twice: the models to come are distinct, and have not failed.
ChainInv ==
    /\ \A i, j \in DOMAIN chain : chain[i] = chain[j] => i = j
    /\ \A i \in DOMAIN chain, j \in DOMAIN failed : chain[i] # failed[j]
    /\ routeAt \in {"called", "classifying", "chaining"} => chain = <<>> /\ failed = <<>>
    /\ routeAt \in {"attempting", "recording", "returned"} => chain # <<>>

\* An answer is outstanding only while it is being recorded, or is returned.
ServedInv ==
    /\ answered \ ToSet(failed) = IF routeAt \in {"recording", "returned"} THEN {Head(chain)} ELSE {}
    /\ recorded = IF routeAt = "returned" THEN <<Head(chain)>> ELSE <<>>

RouterInv == RouterTypeOK /\ ChainInv /\ ServedInv

LEMMA RankIsNatural == ASSUME RouterAssumption, NEW m \in Models PROVE TierRank(m) \in 0..2
<1> DEFINE Entries == [id : STRING, tier : Tiers, vision : BOOLEAN]
<1>1. Catalog \in Seq(Entries) /\ m \in DOMAIN Catalog
  BY DEF RouterAssumption, Models
<1>2. Catalog[m] \in Entries
  <2> HIDE DEF Entries
  <2> QED  BY <1>1
<1>3. Catalog[m].tier \in Tiers
  BY <1>2
<1> QED  BY <1>3 DEF TierRank, Rank, Tiers

LEMMA Prefix ==
    ASSUME NEW S, NEW s \in Seq(S), NEW n \in Nat, n <= Len(s)
    PROVE  /\ SubSeq(s, 1, n) \in Seq(S) /\ Len(SubSeq(s, 1, n)) = n
           /\ \A i \in 1..n : SubSeq(s, 1, n)[i] = s[i]
OBVIOUS

\* Sorting by Nearer repeats no model, so the chain that is cut from it has none twice.
LEMMA ChainBuilt ==
    ASSUME RouterAssumption, NEW S \in SUBSET Models, NEW model \in Models \ S,
           NEW others \in NearestFirst(S, TierRank(model))
    PROVE  LET c == FallbackChain(model, others) IN
           /\ c \in Seq(S \cup {model}) /\ c # <<>>
           /\ \A i, j \in DOMAIN c : c[i] = c[j] => i = j
<1> DEFINE n == Cardinality(S)
           full == <<model>> \o others
           cut == IF Len(full) < MaxAttempts THEN Len(full) ELSE MaxAttempts
<1>1. n \in Nat
  <2>1. Models = 1..Len(Catalog) /\ Len(Catalog) \in Nat
    BY DEF Models, RouterAssumption
  <2>2. IsFiniteSet(Models)
    BY <2>1, FS_Interval
  <2> QED  BY <2>2, FS_Subset, FS_CardinalityType
<1>2. /\ others \in [1..n -> S]
      /\ \A i, j \in 1..n : i < j => Nearer(others[i], others[j], TierRank(model))
  BY DEF NearestFirst
<1>3. \A m \in S : ~ Nearer(m, m, TierRank(model))
  <2>1. \A m \in S : m \in Int /\ TierRank(m) \in Int
    BY RankIsNatural DEF Models, RouterAssumption
  <2>2. TierRank(model) \in Int
    BY RankIsNatural
  <2>3. \A m \in S : Distance(m, TierRank(model)) \in Int
    BY <2>1, <2>2 DEF Distance
  <2> QED  BY <2>1, <2>2, <2>3 DEF Nearer
<1> HIDE DEF n
<1>4. \A i, j \in 1..n : others[i] = others[j] => i = j
  <2>1. SUFFICES ASSUME NEW i \in 1..n, NEW j \in 1..n, others[i] = others[j], i < j PROVE FALSE
    BY <1>1
  <2> QED  BY <1>2, <1>3, <2>1
<1>5. /\ full \in Seq(S \cup {model}) /\ Len(full) = n + 1
      /\ full[1] = model /\ \A i \in 1..n : full[i + 1] = others[i]
  <2>1. others \in Seq(S) /\ Len(others) = n
    BY <1>1, <1>2
  <2> QED  BY <2>1, <1>1
<1> HIDE DEF full
<1>6. \A i, j \in 1..(n + 1) : full[i] = full[j] => i = j
  <2>1. \A i \in 2..(n + 1) : i - 1 \in 1..n /\ full[i] = others[i - 1] /\ full[i] \in S
    BY <1>1, <1>2, <1>5
  <2>2. SUFFICES ASSUME NEW i \in 1..(n + 1), NEW j \in 1..(n + 1), full[i] = full[j], i # 1 \/ j # 1
                 PROVE  i = j
    OBVIOUS
  <2>3. i # 1 => i \in 2..(n + 1)
    BY <1>1
  <2>4. j # 1 => j \in 2..(n + 1)
    BY <1>1
  <2>5. i # 1 /\ j # 1
    BY <1>5, <2>1, <2>2, <2>3, <2>4
  <2>6. others[i - 1] = others[j - 1] /\ i - 1 \in 1..n /\ j - 1 \in 1..n
    BY <2>1, <2>2, <2>3, <2>4, <2>5
  <2>7. i - 1 = j - 1
    BY <1>4, <2>6
  <2> QED  BY <2>7
<1>7. cut \in Nat \ {0} /\ cut <= Len(full) /\ cut <= n + 1
  <2>1. MaxAttempts \in Nat \ {0}
    BY DEF RouterAssumption
  <2>2. Len(full) = n + 1
    BY <1>5
  <2> QED  BY <1>1, <2>1, <2>2
<1> HIDE DEF cut
<1>8. /\ SubSeq(full, 1, cut) \in Seq(S \cup {model}) /\ Len(SubSeq(full, 1, cut)) = cut
      /\ \A i \in 1..cut : SubSeq(full, 1, cut)[i] = full[i]
  BY <1>5, <1>7, Prefix
<1>9. FallbackChain(model, others) = SubSeq(full, 1, cut)
  BY DEF FallbackChain, full, cut
<1>10. ASSUME NEW i \in 1..cut, NEW j \in 1..cut, SubSeq(full, 1, cut)[i] = SubSeq(full, 1, cut)[j]
       PROVE  i = j
  <2>1. i \in 1..(n + 1) /\ j \in 1..(n + 1)
    BY <1>1, <1>7
  <2> QED  BY <1>6, <1>8, <1>10, <2>1
<1>11. DOMAIN SubSeq(full, 1, cut) = 1..cut /\ SubSeq(full, 1, cut) # <<>>
  BY <1>7, <1>8
<1> QED  BY <1>8, <1>9, <1>10, <1>11

LEMMA RouterInitially == ASSUME RouterInit PROVE RouterInv
<1>1. RouterTypeOK
  BY DEF RouterInit, RouterTypeOK, Places
<1>2. ChainInv
  BY DEF RouterInit, ChainInv
<1>3. ServedInv
  BY DEF RouterInit, ServedInv
<1> QED  BY <1>1, <1>2, <1>3 DEF RouterInv

\* The head of the chain has failed: it leaves the chain and is not tried again.
LEMMA Failing ==
    ASSUME RouterInv, Fail, routeAt \in {"attempting", "recording"},
           UNCHANGED <<marked, principal, request, routable, selected, answered, recorded>>
    PROVE  RouterInv'
<1> DEFINE P == Permitted(principal)
<1>1. /\ chain \in Seq(P) /\ failed \in Seq(P) /\ chain # <<>>
      /\ failed' = Append(failed, Head(chain)) /\ chain' = Tail(chain)
      /\ routeAt' = IF Len(chain) = 1 THEN "exhausted" ELSE "attempting"
      /\ Permitted(principal') = P
  BY DEF Fail, RouterInv, RouterTypeOK, ChainInv
<1> HIDE DEF P
<1>2. /\ chain' \in Seq(P) /\ failed' \in Seq(P) /\ Head(chain) = chain[1] /\ Head(chain) \in P
      /\ Len(chain) \in Nat \ {0} /\ Len(chain') = Len(chain) - 1
      /\ \A i \in DOMAIN chain' : i + 1 \in DOMAIN chain /\ chain'[i] = chain[i + 1]
      /\ DOMAIN failed' = DOMAIN failed \cup {Len(failed) + 1}
      /\ failed'[Len(failed) + 1] = chain[1]
      /\ \A j \in DOMAIN failed : failed'[j] = failed[j]
      /\ 1 \in DOMAIN chain
  BY <1>1
<1>3. RouterTypeOK'
  BY <1>1, <1>2 DEF RouterInv, RouterTypeOK, Places, P
<1>4. ChainInv'
  <2>1. \A i, j \in DOMAIN chain' : chain'[i] = chain'[j] => i = j
    BY <1>1, <1>2 DEF RouterInv, ChainInv
  <2>2. ASSUME NEW i \in DOMAIN chain', NEW j \in DOMAIN failed' PROVE chain'[i] # failed'[j]
    <3>1. i \in Nat \ {0} /\ i + 1 # 1
      BY <1>1, <1>2
    <3> QED  BY <1>2, <3>1 DEF RouterInv, ChainInv
  <2>3. routeAt' = "attempting" => chain' # <<>>
    BY <1>1, <1>2
  <2> QED  BY <1>1, <2>1, <2>2, <2>3 DEF ChainInv
<1>5. ServedInv'
  <2>1. ToSet(failed') = ToSet(failed) \cup {Head(chain)}
    BY <1>1, <1>2 DEF ToSet
  <2>2. answered \ ToSet(failed) \subseteq {Head(chain)}
    BY DEF RouterInv, ServedInv
  <2>3. recorded = <<>>
    BY DEF RouterInv, ServedInv
  <2> QED  BY <1>1, <2>1, <2>2, <2>3 DEF ServedInv
<1> QED  BY <1>3, <1>4, <1>5 DEF RouterInv

LEMMA RouterStep == ASSUME RouterAssumption, RouterInv, [RouterNext]_routerVars PROVE RouterInv'
<1> USE DEF Places
<1>1. CASE Begin
  <2>1. /\ UNCHANGED <<principal, chain, failed, answered, recorded>> /\ routeAt = "called"
        /\ routable' \in SUBSET Permitted(principal)
        /\ \/ routeAt' \in {"classifying", "notFound", "notAuthorized"}
           \/ routeAt' = "chaining" /\ selected' \in Permitted(principal)
    BY <1>1 DEF Begin, Permitted
  <2>2. RouterTypeOK'
    BY <2>1 DEF RouterInv, RouterTypeOK
  <2>3. ChainInv' /\ ServedInv'
    BY <2>1 DEF RouterInv, ChainInv, ServedInv
  <2> QED  BY <2>2, <2>3 DEF RouterInv
<1>2. CASE AutoSelect \/ ClassifierRejects
  <2>1. /\ UNCHANGED <<principal, routable, chain, failed, answered, recorded>> /\ routeAt = "classifying"
        /\ \/ routeAt' \in {"noEligible", "classifierFailed"}
           \/ routeAt' = "chaining" /\ selected' \in routable
    BY <1>2 DEF AutoSelect, ClassifierRejects, Eligible
  <2>2. RouterTypeOK'
    BY <2>1 DEF RouterInv, RouterTypeOK
  <2>3. ChainInv' /\ ServedInv'
    BY <2>1 DEF RouterInv, ChainInv, ServedInv
  <2> QED  BY <2>2, <2>3 DEF RouterInv
<1>3. CASE BuildChain
  <2> DEFINE S == Candidates(selected, request.image)
             P == Permitted(principal)
  <2>1. /\ routeAt = "chaining" /\ routeAt' = "attempting"
        /\ UNCHANGED <<principal, routable, selected, failed, answered, recorded>>
        /\ selected \in P /\ routable \subseteq P /\ failed = <<>> /\ recorded = <<>>
        /\ answered \ ToSet(failed) = {} /\ P \subseteq Models
    BY <1>3 DEF BuildChain, RouterInv, RouterTypeOK, ChainInv, ServedInv, Permitted
  <2>2. PICK others \in NearestFirst(S, TierRank(selected)) : chain' = FallbackChain(selected, others)
    BY <1>3 DEF BuildChain
  <2>3. S \subseteq P /\ selected \notin S
    BY <2>1 DEF Candidates
  <2> HIDE DEF S, P
  <2>4. /\ chain' \in Seq(S \cup {selected}) /\ chain' # <<>>
        /\ \A i, j \in DOMAIN chain' : chain'[i] = chain'[j] => i = j
    <3>1. S \in SUBSET Models /\ selected \in Models \ S
      BY <2>1, <2>3
    <3> QED  BY <2>2, <3>1, ChainBuilt
  <2>5. S \cup {selected} \subseteq P
    BY <2>1, <2>3
  <2>6. chain' \in Seq(P)
    BY <2>4, <2>5
  <2>7. RouterTypeOK'
    BY <2>1, <2>6 DEF RouterInv, RouterTypeOK, P
  <2>8. ChainInv' /\ ServedInv'
    BY <2>1, <2>4 DEF RouterInv, ChainInv, ServedInv
  <2> QED  BY <2>7, <2>8 DEF RouterInv
<1>4. CASE AttemptSucceeds
  <2>1. Head(chain) = chain[1] /\ 1 \in DOMAIN chain /\ Head(chain) \in Permitted(principal)
    BY <1>4 DEF AttemptSucceeds, RouterInv, RouterTypeOK, ChainInv
  <2>2. Head(chain) \notin ToSet(failed)
    BY <2>1 DEF RouterInv, ChainInv, ToSet
  <2>3. RouterTypeOK'
    BY <1>4, <2>1 DEF AttemptSucceeds, RouterInv, RouterTypeOK, Permitted
  <2>4. ChainInv' /\ ServedInv'
    BY <1>4, <2>2 DEF AttemptSucceeds, RouterInv, ChainInv, ServedInv
  <2> QED  BY <2>3, <2>4 DEF RouterInv
<1>5. CASE AttemptFails \/ RecorderRejects
  BY <1>5, Failing DEF AttemptFails, RecorderRejects
<1>6. CASE Recorded
  <2>1. RouterTypeOK'
    BY <1>6 DEF Recorded, RouterInv, RouterTypeOK
  <2>2. ChainInv' /\ ServedInv'
    BY <1>6 DEF Recorded, RouterInv, ChainInv, ServedInv
  <2> QED  BY <2>1, <2>2 DEF RouterInv
<1>7. CASE AvailabilityChanges \/ UNCHANGED routerVars
  BY <1>7 DEF AvailabilityChanges, routerVars, RouterInv, RouterTypeOK, ChainInv, ServedInv
<1> QED
  BY <1>1, <1>2, <1>3, <1>4, <1>5, <1>6, <1>7 DEF RouterNext

\* No request reaches a model above the principal's role, grant or Allow_List, whatever
\* fails and whatever the health checker does meanwhile.
THEOREM AuthorizationSurvivesFallback ==
    ASSUME RouterAssumption PROVE RouterSpec => []OnlyPermittedTried
<1>1. ASSUME RouterInv PROVE OnlyPermittedTried
  <2>1. Tried \in Seq(Permitted(principal))
    BY <1>1 DEF Tried, RouterInv, RouterTypeOK, ChainInv
  <2>2. \A i \in DOMAIN Tried : MayUse(principal, Tried[i])
    BY <2>1 DEF Permitted
  <2> QED  BY <2>2 DEF OnlyPermittedTried, MayUse, IdOf
<1> QED  BY RouterInitially, RouterStep, <1>1, PTL DEF RouterSpec

\* At most one provider's answer counts, and the outcome on record is that provider's.
THEOREM TheFirstSuccessServes ==
    ASSUME RouterAssumption PROVE RouterSpec => []FirstSuccessServes
<1>1. ASSUME RouterInv PROVE FirstSuccessServes
  <2> DEFINE served == answered \ ToSet(failed)
  <2>1. Cardinality({}) = 0 /\ Cardinality({Head(chain)}) = 1
    BY FS_EmptySet, FS_Singleton
  <2>2. served = {} \/ served = {Head(chain)}
    BY <1>1 DEF RouterInv, ServedInv
  <2>3. routeAt = "returned" => served = {Head(chain)} /\ ToSet(recorded) = {Head(chain)}
    BY <1>1 DEF RouterInv, ServedInv, ToSet
  <2> QED  BY <2>1, <2>2, <2>3 DEF FirstSuccessServes
<1> QED  BY RouterInitially, RouterStep, <1>1, PTL DEF RouterSpec
=============================================================================
