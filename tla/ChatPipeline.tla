---------------------------- MODULE ChatPipeline ----------------------------
(***************************************************************************)
(* The Chat_Pipeline (src/services/core/src/chat-pipeline): one chat       *)
(* request through every service of the request path.                      *)
(*                                                                         *)
(* The Budget_Manager is composed in full: its variables and its actions   *)
(* are those of module BudgetManager, taken at the two stages where the    *)
(* pipeline awaits enforce and recordUsage.  Between the two, the other    *)
(* services are represented by what the pipeline does with their results:  *)
(* the guards' verdicts, the persisted question and answer of chat.send,   *)
(* how the relay of the stream settled, and the recorded metric.           *)
(***************************************************************************)
EXTENDS BudgetManager

VARIABLES
    stage,      \* what each request's run awaits, or how it ended
    questions,  \* requests whose user message is persisted
    answers,    \* requests whose assistant message is persisted
    relay,      \* how the Streaming_Engine settled each request's stream
    metrics     \* requests with an analytics metric

runVars == <<stage, questions, answers, relay, metrics>>
pipelineVars == <<vars, runVars>>

\* The guards, in the order in which they are asked.
Guarding == {"budget", "screen"}
\* The stages past the guards, at which a component may throw.
Working == {"retrieve", "question", "route", "answer", "stream", "scan", "metric", "record"}
Ended == {"done", "blocked", "failed"}

Relays == {"completed", "cancelled", "disconnected"}

PipelineInit ==
    /\ Init
    /\ stage = [r \in Requests |-> "idle"]
    /\ questions = {}
    /\ answers = {}
    /\ relay = [r \in Requests |-> "none"]
    /\ metrics = {}

Move(r, label) == stage' = [stage EXCEPT ![r] = label]

-----------------------------------------------------------------------------
\* Stage 1, the Security_Gateway: its verdict is an input, and it may reject.
Gateway(r) ==
    /\ stage[r] = "idle"
    /\ \E label \in {"budget", "blocked", "failed"} : Move(r, label)
    /\ UNCHANGED <<vars, questions, answers, relay, metrics>>

\* Mutant of AfterEnforce: the decision is computed but not looked at.
AfterEnforceIgnored(label) == IF label \in {"allowed", "denied"} THEN "screen" ELSE "budget"

\* Mutant of AfterEnforce: a denied request never returns.
AfterEnforceStuck(label) == IF label = "allowed" THEN "screen" ELSE "budget"

\* The stage that follows a step of enforce which leaves the request at label.
AfterEnforce(label) ==
    CASE label = "allowed" -> "screen"
      [] label = "denied" -> "blocked"
      [] OTHER -> "budget"

\* Stage 2, budget.enforce: a denial stops the run before any model call.
CheckBudget(r) ==
    /\ stage[r] = "budget"
    /\ Enforce(r)
    /\ Move(r, AfterEnforce(pc'[r]))
    /\ UNCHANGED <<questions, answers, relay, metrics>>

\* Stage 3, contentSafety.screenInput; with knowledge enabled the
\* RAG_Retriever comes next, otherwise chat.send.
ScreenBlocks(r) ==
    /\ stage[r] = "screen"
    /\ Move(r, "blocked")
    /\ Abandon(r)
    /\ UNCHANGED <<questions, answers, relay, metrics>>

ScreenPasses(r) ==
    /\ stage[r] = "screen"
    /\ Move(r, "retrieve") \/ Move(r, "question")
    /\ UNCHANGED <<vars, questions, answers, relay, metrics>>

Retrieve(r) ==
    /\ stage[r] = "retrieve"
    /\ Move(r, "question")
    /\ UNCHANGED <<vars, questions, answers, relay, metrics>>

\* Stage 5, chat.send: the user's message is persisted, the conversation is
\* routed, the assistant's message is persisted.
PersistQuestion(r) ==
    /\ stage[r] = "question"
    /\ questions' = questions \cup {r}
    /\ Move(r, "route")
    /\ UNCHANGED <<vars, answers, relay, metrics>>

Route(r) ==
    /\ stage[r] = "route"
    /\ Move(r, "answer")
    /\ UNCHANGED <<vars, questions, answers, relay, metrics>>

PersistAnswer(r) ==
    /\ stage[r] = "answer"
    /\ answers' = answers \cup {r}
    /\ Move(r, "stream")
    /\ UNCHANGED <<vars, questions, relay, metrics>>

\* Mutant of AfterRelay: a cancelled or disconnected client ends the run.
AfterRelayOnlyCompleted(status) == IF status = "completed" THEN "scan" ELSE "done"

\* A cancel and a disconnect settle the stream like a completion does: the run
\* goes on to the scan and the accounting.
AfterRelay(status) == "scan"

\* Stage 6, streaming.stream: completed, cancelled by the caller's signal, or
\* cut off by the sink; StreamingEngine has the relay in detail.
Stream(r) ==
    /\ stage[r] = "stream"
    /\ \E status \in Relays :
          /\ relay' = [relay EXCEPT ![r] = status]
          /\ Move(r, AfterRelay(status))
    /\ UNCHANGED <<vars, questions, answers, metrics>>

\* Mutant of AfterScan: the spend is recorded before the metric.
AfterScanRecord == "record"

AfterScan == "metric"

\* Stage 7, contentSafety.scanOutput: its decision is reported, not acted on.
Scan(r) ==
    /\ stage[r] = "scan"
    /\ Move(r, AfterScan)
    /\ UNCHANGED <<vars, questions, answers, relay, metrics>>

\* Stage 8, analytics.recordRequest and then budget.recordUsage.
RecordMetric(r) ==
    /\ stage[r] = "metric"
    /\ metrics' = metrics \cup {r}
    /\ Move(r, "record")
    /\ UNCHANGED <<vars, questions, answers, relay>>

Record(r) ==
    /\ stage[r] = "record"
    /\ RecordUsage(r)
    /\ Move(r, IF pc'[r] = "recorded" THEN "done" ELSE "record")
    /\ UNCHANGED <<questions, answers, relay, metrics>>

\* recordUsage rejects after its append: the run throws, the usage stays.
RecordThrows(r) ==
    /\ stage[r] = "record"
    /\ RecordFails(r)
    /\ Move(r, "failed")
    /\ UNCHANGED <<questions, answers, relay, metrics>>

\* An awaited component rejects before the usage is appended, enforce among them:
\* the run throws, and what the stages before it did stays.
Throws(r) ==
    /\ \/ stage[r] = "budget" /\ EnforceFails(r)
       \/ stage[r] \in Working \cup {"screen"} /\ Abandon(r)
    /\ Move(r, "failed")
    /\ UNCHANGED <<questions, answers, relay, metrics>>

-----------------------------------------------------------------------------
Run(r) ==
    \/ Gateway(r)
    \/ CheckBudget(r)
    \/ ScreenBlocks(r)
    \/ ScreenPasses(r)
    \/ Retrieve(r)
    \/ PersistQuestion(r)
    \/ Route(r)
    \/ PersistAnswer(r)
    \/ Stream(r)
    \/ Scan(r)
    \/ RecordMetric(r)
    \/ Record(r)
    \/ RecordThrows(r)
    \/ Throws(r)

\* The administrator and the clock, while the runs go on.
Environment ==
    /\ \/ \E s \in Scopes : SetBudget(s)
       \/ NextDay
    /\ UNCHANGED runVars

PipelineNext == (\E r \in Requests : Run(r)) \/ Environment

\* Every await settles: a run that was started is carried on.
PipelineSpec ==
    /\ PipelineInit /\ [][PipelineNext]_pipelineVars
    /\ \A r \in Requests : WF_pipelineVars(Run(r))

-----------------------------------------------------------------------------
(* Properties.                                                             *)

\* The stage of a run says where its request is in the Budget_Manager: the
\* allowance is held from enforce to the append, and by nobody else.
PipelineTypeOK ==
    /\ stage \in [Requests -> {"idle"} \cup Guarding \cup Working \cup Ended]
    /\ relay \in [Requests -> Relays \cup {"none"}]
    /\ questions \subseteq Requests /\ answers \subseteq Requests /\ metrics \subseteq Requests
    /\ \A r \in Requests :
          /\ stage[r] = "idle" => pc[r] = "idle"
          /\ stage[r] = "budget" => pc[r] \in Enforcing \cup {"idle"}
          /\ stage[r] \in (Working \ {"record"}) \cup {"screen"} => pc[r] = "allowed"
          /\ stage[r] = "record" => pc[r] \in Recording \cup {"allowed"}
          /\ stage[r] \in Ended => pc[r] \in Stopped \cup {"idle"}

\* "The first denial short-circuits the flow before the model is called and
\* before any spend or metric is recorded": whoever refused, nothing is left of
\* the request, nor of one that the budget denied.
RefusedLeavesNothing ==
    \A r \in Requests :
        stage[r] = "blocked" \/ pc[r] = "denied" =>
            /\ r \notin questions \cup answers \cup metrics
            /\ ledger[r] = NoDay /\ relay[r] = "none"

\* A run that returns ok has delivered and accounted for the same request, and
\* nothing is charged that was not answered, relayed and measured.
ChargedWhatWasServed ==
    \A r \in Requests :
        stage[r] = "done" \/ ledger[r] # NoDay =>
            /\ r \in answers \cap questions \cap metrics
            /\ relay[r] # "none"
            /\ ledger[r] # NoDay

\* An answer that was generated is paid for even when its client cancels or
\* disconnects: only a component that throws keeps it from the ledger.
AnswersAreCharged ==
    \A r \in Requests : r \in answers ~> (ledger[r] # NoDay \/ stage[r] = "failed")

\* Every run ends, with a result or with an error.
RunsSettle ==
    \A r \in Requests : stage[r] # "idle" ~> stage[r] \in Ended

\* "A user exceeding a per-model daily message limit is rejected for that model
\* for the remainder of the day", whichever way the model was chosen.
ServedModelLimited ==
    \A u \in Users, m \in Models, d \in Days : \A l \in ModelLimits(UserRef(u), m) :
        ModelLimitAtMost(UserRef(u), m, l) =>
            Cardinality(DailyMessages(u, m, d)) < l + MaxInFlight
=============================================================================
