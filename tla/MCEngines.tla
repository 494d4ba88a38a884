------------------------------ MODULE MCEngines ------------------------------
(* One instance each of the engines that drive work forward in one process:   *)
(* the scheduler, the executor of the workflows it triggers, the streaming     *)
(* engine and the single-flight cache.  They have no variable in common; a     *)
(* behaviour is one of the engine `part` names, the others stay in an initial  *)
(* state.                                                                      *)
EXTENDS Scheduler, WorkflowExecutor, StreamingEngine, WebCache

CONSTANTS w1, w2, t1, t2, k1, c1, c2, c3

VARIABLE part

Interval(i, anchor) == [kind |-> "interval", interval |-> i, anchor |-> anchor]
OneShot(t) == [kind |-> "one_shot", runAt |-> t]
Cron(times) == [kind |-> "cron", times |-> times]

\* An interval from registration, one with its own anchor, a one-shot that may
\* already be past, and two cron expressions: with two adjacent matches, and with a
\* second match that lies beyond the horizon of the search from the first.
MCCadences == {Interval(1, None), Interval(2, 1), OneShot(1), Cron({0, 1}), Cron({0, 2})}

\* Every workflow of at most three steps over three ids; the first of three
\* steps is fixed to "c", which loses nothing but the names.
MCIds == {"a", "b", "c"}
MCRefs == {{}} \cup {{i} : i \in MCIds \cup {"unknown"}} \cup {{"a", "b"}}
MCSteps == [id : MCIds, order : 1..2, refs : MCRefs]
MCGraphs == UNION {[1..n -> MCSteps] : n \in 0..2}
               \cup {<<[id |-> "c", order |-> o, refs |-> r], s, t>> :
                         o \in 1..2, r \in MCRefs, s, t \in MCSteps}

ASSUME EnginesAssumption == ExecutorAssumption /\ StreamAssumption /\ WebCacheAssumption

MCInit ==
    /\ part \in {"scheduler", "workflow", "stream", "cache"}
    /\ IF part = "workflow" THEN TRUE ELSE workflow = <<>>
    /\ IF part = "stream" THEN TRUE ELSE aborted = FALSE
    /\ Init /\ RunInit /\ StreamInit /\ CacheInit

MCNext ==
    \/ part = "scheduler" /\ Next /\ UNCHANGED <<part, runVars, streamVars, cacheVars>>
    \/ part = "workflow" /\ RunNext /\ UNCHANGED <<part, vars, streamVars, cacheVars>>
    \/ part = "stream" /\ StreamNext /\ UNCHANGED <<part, vars, runVars, cacheVars>>
    \/ part = "cache" /\ CacheNext /\ UNCHANGED <<part, vars, runVars, streamVars>>

MCSpec == MCInit /\ [][MCNext]_<<part, vars, runVars, streamVars, cacheVars>>

\* The fairness of each engine's FairSpec.
MCFairSpec ==
    /\ MCSpec
    /\ WF_streamVars(part = "stream" /\ Engine)
    /\ \A c \in Calls : WF_cacheVars(part = "cache" /\ CallStep(c))
=============================================================================
