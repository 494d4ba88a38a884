------------------------- MODULE ChatPipelineProofs -------------------------
(* Theorems about ChatPipeline: the fail-closed and accounting guarantees   *)
(* hold for every instance, and so do the bounds of the Budget_Manager,     *)
(* whose steps the runs take.                                               *)
EXTENDS ChatPipeline, BudgetManagerProofs

-----------------------------------------------------------------------------
(* Every step of the pipeline is a step of the Budget_Manager, or leaves it *)
(* unchanged.                                                               *)

LEMMA PipelineStepIsBudgetStep ==
    ASSUME [PipelineNext]_pipelineVars
    PROVE  [Next]_vars
<1>1. CASE UNCHANGED pipelineVars
  BY <1>1 DEF pipelineVars
<1>2. CASE Environment
  BY <1>2 DEF Environment, Next
<1>3. ASSUME NEW r \in Requests, Run(r)
      PROVE  [Next]_vars
  <2>1. CASE CheckBudget(r)
    BY <2>1 DEF CheckBudget, Next
  <2>2. CASE ScreenBlocks(r) \/ Throws(r)
    BY <2>2 DEF ScreenBlocks, Throws, Fails, Next
  <2>3. CASE Record(r)
    BY <2>3 DEF Record, Next
  <2>4. CASE RecordThrows(r)
    BY <2>4 DEF RecordThrows, Fails, Next
  <2>5. CASE \/ Gateway(r) \/ ScreenPasses(r) \/ Retrieve(r) \/ PersistQuestion(r)
             \/ Route(r) \/ PersistAnswer(r) \/ Stream(r) \/ Scan(r) \/ RecordMetric(r)
    BY <2>5 DEF Gateway, ScreenPasses, Retrieve, PersistQuestion, Route, PersistAnswer,
                Stream, Scan, RecordMetric, vars
  <2> QED  BY <1>3, <2>1, <2>2, <2>3, <2>4, <2>5 DEF Run
<1> QED  BY <1>1, <1>2, <1>3 DEF PipelineNext

\* The pipeline takes the steps of the Budget_Manager and no others, so that what is
\* proved of the manager can be used of the pipeline.
LEMMA RunsTakeBudgetSteps == PipelineSpec => Spec
<1>1. PipelineInit => Init
  BY DEF PipelineInit
<1>2. [PipelineNext]_pipelineVars => [Next]_vars
  BY PipelineStepIsBudgetStep
<1> QED  BY <1>1, <1>2, PTL DEF PipelineSpec, Spec

\* Through the whole pipeline, a user's messages to a model asked for by name stay
\* below its daily limit plus the requests in flight.
THEOREM PipelineDailyLimit == PipelineSpec => []DailyMessagesBounded
BY RunsTakeBudgetSteps, DailyLimitHolds, PTL

\* Through the whole pipeline, what a user or a team spends in a period stays below its
\* cap plus what the requests in flight can cost.
THEOREM PipelineSpendBound == PipelineSpec => []SpendOvershootBounded
BY RunsTakeBudgetSteps, SpendStaysBounded, PTL

-----------------------------------------------------------------------------
(* What a request has left behind at each stage of its run.                 *)

Refusable == {"idle", "budget", "screen", "retrieve", "question", "blocked"}
Asked == {"route", "answer", "stream", "scan", "metric", "record", "done"}
Answered == {"stream", "scan", "metric", "record", "done"}
Relayed == {"scan", "metric", "record", "done"}
Measured == {"record", "done"}

Nothing(r) ==
    /\ r \notin questions \cup answers \cup metrics
    /\ ledger[r] = NoDay /\ relay[r] = "none"

Everything(r) == r \in answers \cap questions \cap metrics /\ relay[r] # "none"

\* The strengthening that is inductive: each stage says which stores already hold
\* something of the request, and the Budget_Manager's label says whether its usage
\* was appended.
Progress(r) ==
    /\ stage[r] \in Refusable => Nothing(r)
    /\ stage[r] \in Asked => r \in questions
    /\ stage[r] \in Answered => r \in answers
    /\ stage[r] \in Relayed => relay[r] # "none"
    /\ stage[r] \in Measured => r \in metrics
    /\ stage[r] \notin {"record", "done", "failed"} => ledger[r] = NoDay
    /\ ledger[r] # NoDay => Everything(r)
    /\ stage[r] = "done" \/ pc[r] \in Recording => ledger[r] # NoDay
    /\ pc[r] = "denied" => stage[r] = "blocked"

RunInv ==
    /\ TypeOK /\ PipelineTypeOK
    /\ \A r \in Requests : Progress(r)

USE DEF Refusable, Asked, Answered, Relayed, Measured

\* A step of one request's run leaves the others where they are.
Alone(r) ==
    \A q \in Requests \ {r} :
        /\ stage'[q] = stage[q] /\ pc'[q] = pc[q] /\ ledger'[q] = ledger[q]
        /\ relay'[q] = relay[q]
        /\ q \in questions' <=> q \in questions
        /\ q \in answers' <=> q \in answers
        /\ q \in metrics' <=> q \in metrics

\* The sets and the labels stay in range, and the request that moved is where
\* its new stage says: then the invariant is preserved.
LEMMA AloneKeeps ==
    ASSUME RunInv, TypeOK', NEW r \in Requests, Alone(r),
           stage' \in [Requests -> {"idle"} \cup Guarding \cup Working \cup Ended],
           relay' \in [Requests -> Relays \cup {"none"}],
           questions' \subseteq Requests, answers' \subseteq Requests, metrics' \subseteq Requests,
           /\ stage'[r] = "idle" => pc'[r] = "idle"
           /\ stage'[r] = "budget" => pc'[r] \in Enforcing \cup {"idle"}
           /\ stage'[r] \in (Working \ {"record"}) \cup {"screen"} => pc'[r] = "allowed"
           /\ stage'[r] = "record" => pc'[r] \in Recording \cup {"allowed"}
           /\ stage'[r] \in Ended => pc'[r] \in Stopped \cup {"idle"},
           Progress(r)'
    PROVE  RunInv'
<1>1. PipelineTypeOK'
  BY DEF RunInv, PipelineTypeOK, Alone
<1>2. ASSUME NEW q \in Requests \ {r}
      PROVE  Progress(q)'
  <2>1. Progress(q)
    BY DEF RunInv
  <2>2. Nothing(q) => Nothing(q)'
    BY DEF Nothing, Alone
  <2>3. Everything(q) => Everything(q)'
    BY DEF Everything, Alone
  <2> QED  BY <2>1, <2>2, <2>3 DEF Progress, Alone
<1> QED  BY <1>1, <1>2 DEF RunInv

\* What a step of enforce and of recordUsage do to the label and to the ledger.
LEMMA EnforceLabel ==
    ASSUME TypeOK, NEW r \in Requests, Enforce(r)
    PROVE  /\ pc[r] \in Enforcing \cup {"idle"} /\ ledger' = ledger
           /\ \E label \in Enforcing \cup {"allowed", "denied"} :
                 pc' = [pc EXCEPT ![r] = label]
BY DEF Enforce, BeginEnforce, CheckUserCap, ReadModelLimit, CheckModelLimit,
       ReadTeamBudget, CheckTeamCap, Deny, Allow, Continue, TeamCheck, Goto, Enforcing

LEMMA RecordLabel ==
    ASSUME TypeOK, NEW r \in Requests, RecordUsage(r)
    PROVE  /\ \E label \in Recording \cup {"recorded"} : pc' = [pc EXCEPT ![r] = label]
           /\ \/ pc[r] = "allowed" /\ ledger' = [ledger EXCEPT ![r] = now]
              \/ pc[r] \in Recording /\ ledger' = ledger
BY DEF RecordUsage, AppendUsage, ReadScopeBudget, DetectCrossings, AuditAlert, NotifyAlert,
       NextScope, Goto, Recording

\* The stages at which only the pipeline's own stores change.
LEMMA PipelineSteps ==
    ASSUME RunInv, TypeOK', NEW r \in Requests,
           \/ Gateway(r) \/ ScreenPasses(r) \/ Retrieve(r) \/ PersistQuestion(r)
           \/ Route(r) \/ PersistAnswer(r) \/ Stream(r) \/ Scan(r) \/ RecordMetric(r)
    PROVE  RunInv'
<1> USE DEF Move
<1>1. TypeOK /\ PipelineTypeOK /\ Progress(r)
  BY DEF RunInv
<1>2. /\ pc' = pc /\ ledger' = ledger
      /\ \E label \in {"budget", "blocked", "failed"} \cup (Working \ {"record"}) \cup {"record"} :
            stage' = [stage EXCEPT ![r] = label]
  BY DEF Gateway, ScreenPasses, Retrieve, PersistQuestion, Route, PersistAnswer, Stream, Scan,
         RecordMetric, vars, Working, AfterRelay, AfterScan
<1>3. /\ \/ questions' = questions \/ questions' = questions \cup {r}
      /\ \/ answers' = answers \/ answers' = answers \cup {r}
      /\ \/ metrics' = metrics \/ metrics' = metrics \cup {r}
      /\ \/ relay' = relay \/ \E status \in Relays : relay' = [relay EXCEPT ![r] = status]
  BY DEF Gateway, ScreenPasses, Retrieve, PersistQuestion, Route, PersistAnswer, Stream, Scan,
         RecordMetric
<1>4. Alone(r)
  BY <1>1, <1>2, <1>3 DEF Alone, PipelineTypeOK
<1>5. /\ questions' \subseteq Requests /\ answers' \subseteq Requests /\ metrics' \subseteq Requests
      /\ stage' \in [Requests -> {"idle"} \cup Guarding \cup Working \cup Ended]
      /\ relay' \in [Requests -> Relays \cup {"none"}]
  BY <1>1, <1>2, <1>3 DEF PipelineTypeOK, Guarding, Working, Ended
<1> DEFINE Labelled ==
      /\ stage'[r] = "idle" => pc'[r] = "idle"
      /\ stage'[r] = "budget" => pc'[r] \in Enforcing \cup {"idle"}
      /\ stage'[r] \in (Working \ {"record"}) \cup {"screen"} => pc'[r] = "allowed"
      /\ stage'[r] = "record" => pc'[r] \in Recording \cup {"allowed"}
      /\ stage'[r] \in Ended => pc'[r] \in Stopped \cup {"idle"}
<1>6. Labelled /\ Progress(r)'
  <2> USE <1>1, <1>2 DEF PipelineTypeOK, Progress, Working, Ended, Guarding
  <2>1. CASE Gateway(r)
    BY <2>1 DEF Gateway, Nothing, Enforcing, Recording
  <2>2. CASE ScreenPasses(r)
    BY <2>2 DEF ScreenPasses, Nothing, Recording
  <2>3. CASE Retrieve(r)
    BY <2>3 DEF Retrieve, Nothing, Recording
  <2>4. CASE PersistQuestion(r)
    BY <2>4 DEF PersistQuestion, Nothing, Recording
  <2>5. CASE Route(r)
    <3>1. /\ stage[r] = "route" /\ stage'[r] = "answer" /\ pc[r] = "allowed"
          /\ questions' = questions /\ answers' = answers /\ metrics' = metrics
          /\ relay' = relay
      BY <2>5 DEF Route
    <3>2. Labelled
      BY <3>1
    <3>3. Everything(r) => Everything(r)'
      BY <3>1 DEF Everything
    <3>4. r \in questions
      BY <3>1
    <3>5. Progress(r)'
      BY <3>1, <3>3, <3>4 DEF Recording
    <3> QED  BY <3>2, <3>5
  <2>6. CASE PersistAnswer(r)
    BY <2>6 DEF PersistAnswer, Recording
  <2>7. CASE Stream(r)
    BY <2>7 DEF Stream, AfterRelay, Relays, Recording
  <2>8. CASE Scan(r)
    BY <2>8 DEF Scan, AfterScan, Recording
  <2>9. CASE RecordMetric(r)
    <3>1. /\ stage[r] = "metric" /\ metrics' = metrics \cup {r} /\ stage'[r] = "record"
          /\ questions' = questions /\ answers' = answers /\ relay' = relay
          /\ pc[r] = "allowed"
      BY <2>9 DEF RecordMetric
    <3>2. Labelled
      BY <3>1
    <3>3. Everything(r) => Everything(r)'
      BY <3>1 DEF Everything
    <3>4. Progress(r)'
      BY <3>1, <3>3 DEF Recording
    <3> QED  BY <3>2, <3>4
  <2> QED  BY <2>1, <2>2, <2>3, <2>4, <2>5, <2>6, <2>7, <2>8, <2>9
<1> QED  BY <1>4, <1>5, <1>6, AloneKeeps

\* The stages at which the Budget_Manager moves as well.
LEMMA BudgetSteps ==
    ASSUME RunInv, TypeOK', NEW r \in Requests,
           CheckBudget(r) \/ ScreenBlocks(r) \/ Record(r) \/ RecordThrows(r) \/ Throws(r)
    PROVE  RunInv'
<1> USE DEF Move
<1>1. TypeOK /\ PipelineTypeOK /\ Progress(r)
  BY DEF RunInv
<1>2. /\ questions' = questions /\ answers' = answers /\ metrics' = metrics /\ relay' = relay
      /\ \E label : stage' = [stage EXCEPT ![r] = label]
  BY DEF CheckBudget, ScreenBlocks, Record, RecordThrows, Throws
<1>3. now # NoDay
  BY <1>1, BudgetAssumption DEF TypeOK, Days, NoDay
<1> DEFINE Labelled ==
      /\ stage'[r] = "idle" => pc'[r] = "idle"
      /\ stage'[r] = "budget" => pc'[r] \in Enforcing \cup {"idle"}
      /\ stage'[r] \in (Working \ {"record"}) \cup {"screen"} => pc'[r] = "allowed"
      /\ stage'[r] = "record" => pc'[r] \in Recording \cup {"allowed"}
      /\ stage'[r] \in Ended => pc'[r] \in Stopped \cup {"idle"}
    Goal == /\ Alone(r) /\ Labelled /\ Progress(r)'
            /\ stage' \in [Requests -> {"idle"} \cup Guarding \cup Working \cup Ended]
<1>4. ASSUME CheckBudget(r) PROVE Goal
  <2>1. PICK label \in Enforcing \cup {"allowed", "denied"} :
            /\ pc' = [pc EXCEPT ![r] = label] /\ ledger' = ledger
    BY <1>1, <1>4, EnforceLabel DEF CheckBudget
  <2>2. /\ pc'[r] = label /\ stage[r] = "budget"
        /\ stage' = [stage EXCEPT ![r] = AfterEnforce(label)]
    BY <1>1, <1>4, <2>1 DEF CheckBudget, TypeOK
  <2>3. \/ label = "allowed" /\ AfterEnforce(label) = "screen"
        \/ label = "denied" /\ AfterEnforce(label) = "blocked"
        \/ label \in Enforcing /\ AfterEnforce(label) = "budget"
    BY <2>1 DEF AfterEnforce, Enforcing
  <2>4. stage' \in [Requests -> {"idle"} \cup Guarding \cup Working \cup Ended]
    BY <1>1, <2>2, <2>3 DEF PipelineTypeOK, Guarding, Ended
  <2>5. Alone(r)
    BY <1>1, <1>2, <2>1, <2>2 DEF Alone, TypeOK, PipelineTypeOK
  <2>6. stage'[r] = AfterEnforce(label)
    BY <1>1, <2>2 DEF PipelineTypeOK
  <2>7. Labelled
    BY <2>2, <2>3, <2>6 DEF Working, Ended, Stopped
  <2>8. Nothing(r)'
    BY <1>1, <1>2, <2>1, <2>2 DEF Progress, Nothing
  <2>9. Progress(r)'
    BY <2>2, <2>3, <2>6, <2>8 DEF Progress, Nothing, Enforcing, Recording
  <2> QED  BY <2>4, <2>5, <2>7, <2>9
<1>5. ASSUME NEW label \in {"blocked", "failed"}, Abandon(r),
             stage[r] \in Working \cup {"screen"}, label = "blocked" => stage[r] = "screen",
             stage' = [stage EXCEPT ![r] = label]
      PROVE  Goal
  <2>1. pc[r] = "allowed" /\ pc' = [pc EXCEPT ![r] = "abandoned"] /\ ledger' = ledger
    BY <1>5 DEF Abandon, Goto
  <2>2. pc'[r] = "abandoned" /\ stage'[r] = label
    BY <1>1, <1>5, <2>1 DEF TypeOK, PipelineTypeOK
  <2>3. Alone(r)
    BY <1>1, <1>2, <1>5, <2>1 DEF Alone, TypeOK, PipelineTypeOK
  <2>4. stage' \in [Requests -> {"idle"} \cup Guarding \cup Working \cup Ended]
    BY <1>1, <1>5 DEF PipelineTypeOK, Ended
  <2>5. Labelled
    BY <2>2 DEF Working, Guarding, Stopped
  <2>6. label = "blocked" => Nothing(r)'
    BY <1>1, <1>2, <1>5, <2>1 DEF Progress, Nothing
  <2>7. ledger[r] # NoDay => Everything(r)'
    BY <1>1, <1>2 DEF Progress, Everything
  <2>8. Progress(r)'
    <3>1. label = "blocked" => ledger'[r] = NoDay
      BY <2>6 DEF Nothing
    <3> QED  BY <2>1, <2>2, <2>6, <2>7, <3>1 DEF Progress, Recording
  <2> QED  BY <2>3, <2>4, <2>5, <2>8
<1>6. ASSUME Record(r) PROVE Goal
  <2>1. PICK label \in Recording \cup {"recorded"} :
            pc' = [pc EXCEPT ![r] = label]
    BY <1>1, <1>6, RecordLabel DEF Record
  <2>2. /\ pc'[r] = label /\ stage[r] = "record"
        /\ stage' = [stage EXCEPT ![r] = IF label = "recorded" THEN "done" ELSE "record"]
    BY <1>1, <1>6, <2>1 DEF Record, TypeOK
  <2>3. /\ ledger'[r] # NoDay
        /\ \A q \in Requests \ {r} : ledger'[q] = ledger[q]
    <3>1. CASE pc[r] = "allowed" /\ ledger' = [ledger EXCEPT ![r] = now]
      BY <1>1, <1>3, <3>1 DEF TypeOK
    <3>2. CASE pc[r] \in Recording /\ ledger' = ledger
      BY <1>1, <3>2 DEF Progress
    <3> QED  BY <1>1, <1>6, <3>1, <3>2, RecordLabel DEF Record
  <2>4. stage'[r] = IF label = "recorded" THEN "done" ELSE "record"
    BY <1>1, <2>2 DEF PipelineTypeOK
  <2>5. Alone(r)
    BY <1>1, <1>2, <2>1, <2>2, <2>3 DEF Alone, TypeOK, PipelineTypeOK
  <2>6. stage' \in [Requests -> {"idle"} \cup Guarding \cup Working \cup Ended]
    BY <1>1, <2>2 DEF PipelineTypeOK, Working, Ended
  <2>7. Labelled
    BY <2>1, <2>2, <2>4 DEF Working, Ended, Stopped, Recording
  <2>8. Everything(r)' /\ r \in metrics'
    BY <1>1, <1>2, <2>2 DEF Progress, Everything
  <2>9. Progress(r)'
    BY <2>1, <2>2, <2>3, <2>4, <2>8 DEF Progress, Everything, Recording
  <2> QED  BY <2>5, <2>6, <2>7, <2>9
<1>7. ASSUME RecordThrows(r) PROVE Goal
  <2>1. /\ pc[r] \in Recording /\ pc' = [pc EXCEPT ![r] = "failed"] /\ ledger' = ledger
        /\ stage[r] = "record" /\ stage' = [stage EXCEPT ![r] = "failed"]
    BY <1>7 DEF RecordThrows, RecordFails, Goto
  <2>2. pc'[r] = "failed" /\ stage'[r] = "failed"
    BY <1>1, <2>1 DEF TypeOK, PipelineTypeOK
  <2>3. Alone(r)
    BY <1>1, <1>2, <2>1 DEF Alone, TypeOK, PipelineTypeOK
  <2>4. stage' \in [Requests -> {"idle"} \cup Guarding \cup Working \cup Ended]
    BY <1>1, <2>1 DEF PipelineTypeOK, Ended
  <2>5. Labelled
    BY <2>2 DEF Working, Guarding, Stopped
  <2>6. Everything(r)'
    BY <1>1, <1>2, <2>1 DEF Progress, Everything
  <2>7. Progress(r)'
    BY <2>1, <2>2, <2>6 DEF Progress, Recording
  <2> QED  BY <2>3, <2>4, <2>5, <2>7
<1>9. ASSUME stage[r] = "budget", EnforceFails(r), stage' = [stage EXCEPT ![r] = "failed"]
      PROVE  Goal
  <2>1. pc[r] \in Enforcing /\ pc' = [pc EXCEPT ![r] = "abandoned"] /\ ledger' = ledger
    BY <1>9 DEF EnforceFails, Goto
  <2>2. pc'[r] = "abandoned" /\ stage'[r] = "failed"
    BY <1>1, <1>9, <2>1 DEF TypeOK, PipelineTypeOK
  <2>3. Alone(r)
    BY <1>1, <1>2, <1>9, <2>1 DEF Alone, TypeOK, PipelineTypeOK
  <2>4. stage' \in [Requests -> {"idle"} \cup Guarding \cup Working \cup Ended]
    BY <1>1, <1>9 DEF PipelineTypeOK, Ended
  <2>5. Labelled
    BY <2>2 DEF Working, Guarding, Stopped
  <2>6. Nothing(r)'
    BY <1>1, <1>2, <1>9, <2>1 DEF Progress, Nothing
  <2>7. Progress(r)'
    BY <2>2, <2>6 DEF Progress, Nothing, Recording
  <2> QED  BY <2>3, <2>4, <2>5, <2>7
<1>8. Goal
  <2>1. CASE stage[r] = "budget" /\ EnforceFails(r) /\ Throws(r)
    BY <1>9, <2>1 DEF Throws
  <2>2. CASE Throws(r) /\ ~ (stage[r] = "budget" /\ EnforceFails(r))
    BY <1>5, <2>2 DEF Throws
  <2>3. CASE ScreenBlocks(r)
    BY <1>5, <2>3 DEF ScreenBlocks
  <2> QED  BY <1>4, <1>6, <1>7, <2>1, <2>2, <2>3
<1>10. /\ relay' \in [Requests -> Relays \cup {"none"}]
       /\ questions' \subseteq Requests /\ answers' \subseteq Requests /\ metrics' \subseteq Requests
  BY <1>1, <1>2 DEF PipelineTypeOK
<1> QED  BY <1>8, <1>10, AloneKeeps

-----------------------------------------------------------------------------
(* The invariant of the pipeline and what it says.                          *)

\* Nothing has begun: every request is idle and has left nothing.
LEMMA RunInit ==
    ASSUME PipelineInit
    PROVE  RunInv
<1>1. TypeOK
  BY InitType DEF PipelineInit
<1>2. PipelineTypeOK
  BY DEF PipelineInit, Init, PipelineTypeOK, Guarding, Working, Ended
<1>3. ASSUME NEW r \in Requests
      PROVE  Progress(r)
  BY DEF PipelineInit, Init, Progress, Nothing, Recording
<1> QED  BY <1>1, <1>2, <1>3 DEF RunInv

\* The administrator and the clock touch no run and no request's label.
LEMMA EnvironmentKeeps ==
    ASSUME RunInv, TypeOK', Environment \/ UNCHANGED pipelineVars
    PROVE  RunInv'
<1>1. UNCHANGED <<stage, questions, answers, relay, metrics, pc, ledger>>
  BY DEF Environment, runVars, pipelineVars, vars, SetBudget, NextDay
<1>2. PipelineTypeOK'
  BY <1>1 DEF RunInv, PipelineTypeOK
<1>3. ASSUME NEW r \in Requests
      PROVE  Progress(r)'
  BY <1>1 DEF RunInv, Progress, Nothing, Everything
<1> QED  BY <1>2, <1>3 DEF RunInv

\* The stages, the Budget_Manager's labels and the stores agree in every state.
THEOREM PipelineInvariant == PipelineSpec => []RunInv
<1>1. PipelineInit => RunInv
  BY RunInit
<1>2. RunInv /\ [PipelineNext]_pipelineVars => RunInv'
  <2> SUFFICES ASSUME RunInv, [PipelineNext]_pipelineVars
               PROVE  RunInv'
    OBVIOUS
  <2>1. TypeOK'
    BY PipelineStepIsBudgetStep, NextType DEF RunInv
  <2>2. ASSUME NEW r \in Requests, Run(r)
        PROVE  RunInv'
    BY <2>1, <2>2, PipelineSteps, BudgetSteps DEF Run
  <2>3. CASE Environment \/ UNCHANGED pipelineVars
    BY <2>1, <2>3, EnvironmentKeeps
  <2> QED  BY <2>2, <2>3 DEF PipelineNext
<1> QED  BY <1>1, <1>2, PTL DEF PipelineSpec

\* Whoever refused a request, the gateway, the budget or the screening, neither the
\* conversation nor the metrics nor the ledger hold anything of it.
THEOREM FailClosed == PipelineSpec => []RefusedLeavesNothing
<1>1. RunInv => RefusedLeavesNothing
  BY DEF RunInv, Progress, Nothing, RefusedLeavesNothing
<1> QED  BY <1>1, PipelineInvariant, PTL

\* A run that returns ok has been accounted for, and only what was answered,
\* relayed and measured is ever charged.
THEOREM AccountingAgrees == PipelineSpec => []ChargedWhatWasServed
<1>1. RunInv => ChargedWhatWasServed
  BY DEF RunInv, Progress, Everything, ChargedWhatWasServed
<1> QED  BY <1>1, PipelineInvariant, PTL

\* The allowance of the Budget_Manager is held by exactly the runs that are between
\* enforce and the append.
THEOREM PipelineTypeCorrect == PipelineSpec => []PipelineTypeOK
<1>1. RunInv => PipelineTypeOK
  BY DEF RunInv
<1> QED  BY <1>1, PipelineInvariant, PTL
=============================================================================
