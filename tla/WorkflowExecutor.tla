------------------------- MODULE WorkflowExecutor -------------------------
(***************************************************************************)
(* One run of the WorkflowExecutor (src/services/core/src/scheduler/       *)
(* workflow-executor.ts) over a workflow, and the graph validator it       *)
(* starts with (workflow-graph.ts).  A workflow is a sequence of steps,    *)
(* each with an id, an order and the ids whose outputs it takes.  A run    *)
(* keeps nothing outside its own locals, so runs do not interact.          *)
(***************************************************************************)
EXTENDS Integers, Sequences, FiniteSets, SequencesExt

CONSTANTS Graphs,             \* the workflows a run is started on
          AnalyticsRecords    \* outcomes of the analytics port: subset of BOOLEAN

ExecutorAssumption == \A w \in Graphs : w \in Seq(Range(w))

VARIABLES pc,         \* where the run stands
          workflow,   \* its steps, as stored
          ordered,    \* its steps, in the order of execution
          outputs,    \* the ids of the steps with a recorded output
          outcomes,   \* the step outcomes, in order
          usage,      \* the number of results whose usage was added up
          record      \* what the analytics port was handed

runVars == <<pc, workflow, ordered, outputs, outcomes, usage, record>>

NoRecord == [status |-> "none", attempted |-> 0, usage |-> 0]

-----------------------------------------------------------------------------
\* Stable sort by order, ties broken by the stored position.
Ordered(w) ==
    LET before(i, j) == \/ w[i].order < w[j].order
                        \/ w[i].order = w[j].order /\ i < j
        positions == SetToSortSeq(DOMAIN w, before)
    IN  [p \in DOMAIN w |-> w[positions[p]]]

Ids(steps) == {s.id : s \in Range(steps)}

\* The ids of the steps before position p.
Earlier(steps, p) == {steps[q].id : q \in 1..(p - 1)}

\* Mutant of WellFormed: a reference to any step of the workflow is accepted.
RefsKnown(steps) ==
    /\ Cardinality(Ids(steps)) = Len(steps)
    /\ \A p \in DOMAIN steps : steps[p].refs \subseteq Ids(steps) \ {steps[p].id}

\* validateWorkflowGraph: ids are unique and a step refers to earlier ones.
WellFormed(steps) ==
    /\ Cardinality(Ids(steps)) = Len(steps)
    /\ \A p \in DOMAIN steps : steps[p].refs \subseteq Earlier(steps, p)

-----------------------------------------------------------------------------
RunInit ==
    /\ pc = "called"
    /\ workflow \in Graphs
    /\ ordered = <<>>
    /\ outputs = {}
    /\ outcomes = <<>>
    /\ usage = 0
    /\ record = NoRecord

Validate ==
    /\ pc = "called"
    /\ ordered' = Ordered(workflow)
    /\ pc' = IF WellFormed(ordered') THEN "stepping" ELSE "invalid"
    /\ UNCHANGED <<workflow, outputs, outcomes, usage, record>>

Current == ordered[Len(outcomes) + 1]

\* resolveInputs hands a step the outputs it refers to, and throws outside of
\* the step's own try when one of them is missing.
ResolveInputs ==
    /\ pc = "stepping" /\ Len(outcomes) < Len(ordered)
    /\ pc' = IF Current.refs \subseteq outputs THEN "executing" ELSE "inputMissing"
    /\ UNCHANGED <<workflow, ordered, outputs, outcomes, usage, record>>

StepSucceeds ==
    /\ pc = "executing"
    /\ outputs' = outputs \cup {Current.id}
    /\ usage' = usage + 1
    /\ outcomes' = Append(outcomes, [id |-> Current.id, status |-> "succeeded"])
    /\ pc' = "stepping"
    /\ UNCHANGED <<workflow, ordered, record>>

StepFails ==
    /\ pc = "executing"
    /\ outcomes' = Append(outcomes, [id |-> Current.id, status |-> "failed"])
    /\ pc' = "recording"
    /\ UNCHANGED <<workflow, ordered, outputs, usage, record>>

LoopEnds ==
    /\ pc = "stepping" /\ Len(outcomes) = Len(ordered)
    /\ pc' = "recording"
    /\ UNCHANGED <<workflow, ordered, outputs, outcomes, usage, record>>

Failed == \E i \in DOMAIN outcomes : outcomes[i].status = "failed"

\* recordAnalytics: a recorder that throws takes the run's result with it.
RecordAnalytics ==
    /\ pc = "recording"
    /\ \E recorded \in AnalyticsRecords :
        IF recorded
        THEN /\ record' = [status |-> IF Failed THEN "failed" ELSE "completed",
                           attempted |-> Len(outcomes), usage |-> usage]
             /\ pc' = "returned"
        ELSE pc' = "rejected" /\ UNCHANGED record
    /\ UNCHANGED <<workflow, ordered, outputs, outcomes, usage>>

RunNext == Validate \/ ResolveInputs \/ StepSucceeds \/ StepFails \/ LoopEnds \/ RecordAnalytics

RunSpec == RunInit /\ [][RunNext]_runVars

-----------------------------------------------------------------------------
(* Properties.                                                             *)

\* "validateWorkflowGraph has already guaranteed every referenced id is an
\* earlier, executed step" (workflow-executor.ts:186-187): the defensive throw of resolveInputs,
\* which no catch of the run would record, is never reached.
InputsAlwaysPresent == pc # "inputMissing"

=============================================================================
