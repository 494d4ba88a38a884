# Auxify AI in TLA+

Models, model-checking configurations and machine-checked proofs for the core services of
Auxify AI (`src/services/core/src`): the chat request path with its budget, routing and
streaming, the message tree of a conversation, the agent runtime, the workflow scheduler and
executor, the provider health checker, the web cache, document management, backups, API keys,
sessions and devices, knowledge ingestion and the knowledge hub.

All paths below are relative to `src/services/core/src` unless they start with `src/`.

## 1. The system

Auxify AI is a multi-tenant AI workspace: a web front end (`src/apps/web`), an API layer
(`src/apps/api`: REST, websocket gateway, search rotation, monitoring) and a library of core
services, each a TypeScript class over *ports*: stores, providers, clocks, notifiers and
sinks, all of them promises. There is one process and one event loop: between two awaits a
handler runs alone, and at every await any other request may run. Nothing locks, and no
transaction spans two stores. What is hard about the code is therefore of two kinds:
something read before an await is used after it, or one of several awaited writes does not
happen, because a call rejects or the process dies.

That gives the granularity of every module here: **an action is the synchronous code
between two awaits**, and whatever else can happen at an await is another action.

### 1.1 Components

| Component | State it keeps | Operations | Interacts with | Hard behaviour | What makes it correct |
|---|---|---|---|---|---|
| Chat_Pipeline `chat-pipeline/` | none of its own; every run writes to the conversation, the metrics and the ledger | `run`: gateway, budget, screening, retrieval, `chat.send`, streaming, output scan, metric, usage | every service of the request path, awaited in order | a guard refuses, a component throws, or the client leaves at any stage; runs overlap | a refusal leaves nothing behind; what is charged was served and the other way round |
| Budget_Manager `budget/` | budgets per scope, the append-only usage ledger, alerts | `enforce`, `recordUsage`, `setBudget`, `getBudget` | called by the pipeline; notifier and audit log | check and record are far apart; totals include the records of others; midnight; calls that reject after the append | bounded overshoot of caps and daily limits; each crossing reported once |
| Model_Router `router/` | none between calls; reads the registry | `route`, explicit or Auto Mode, fallback chain | registry, providers, classifier, analytics | availability moves while a chain is worked off; recorder fails after an answer | permissions and vision survive the fallback; the first that answers serves |
| Streaming_Engine `streaming/` | none between streams | `stream` | provider's iterator, client sink, persister, abort signal | abort, drop and errors at any await | nothing sent after an abort; a completed stream has every token; nothing delivered is lost; the source is released |
| Agent_Runtime `agent/` | the locals of one run | `run`, `executeToolStep` | model, tools, approver, event sink | three limits, cancellation during slow calls, ports that reject | stops at the first boundary; a stopped call never ran; terminates |
| Scheduler `scheduler/scheduler.ts`, `cadence.ts` | an in-process `Map` of schedules | `schedule`, `unschedule`, `tick`, `peek` | run trigger | the live `Map` is iterated across awaits; ticks overlap; late ticks; a cron search with a horizon | every slot fires once, in order, none skipped |
| Workflow executor `scheduler/workflow-executor.ts`, `workflow-graph.ts` | the locals of one run | `run` | step executor, analytics | a step fails in the middle | the inputs of a step are always there |
| Health checker and registry `providers/` | the registered models and their availability; `inFlight` | `start`, `stop`, scheduled rounds, `checkAll`, `load` | providers; read by the router | overlapping rounds, restarts, reloads | the loop's answers are applied in order; routability follows health |
| Web_Cache_Manager `web-cache/` | entries with a TTL; the in-flight registry | `dedupeSearch`, `dedupeScrape`, `putSearch`, `putScrape` | cache store, search and scrape providers | several callers between check and registration; failing computations | one computation at a time; failures are not reused |
| Chat service `chat/` | message tree, title | `send`, edit, branch, regenerate, compare, auto-title; rate, switch | router, message store | two requests on one conversation; title set during generation | an answer was made from the thread it stands in; a title set by the user survives |
| Messaging `messaging/` | channels, members, messages | create, join, post, search | notifier | read-extend-write of the member list | no join is lost |
| Authentication, devices `auth/`, `device/` | sessions, the deactivation mark; identities, factors | sign in, validate, refresh, sign out, revoke, deactivate; link, enrol | each other, through the session store; audit | whole records read, awaited and written back; sessions are listed and then revoked one by one | what was revoked stays revoked, but for requests that had it in hand; a deactivation ends every session there is |
| API keys `api-keys/` | key records, uses | create, authenticate, rotate, revoke, `recordUse` | audit | insert-then-deactivate; count-then-record | the owner is never left without a key; bounded overuse |
| Document management `document-management/` | rows, versions, trash marks, over two stores and the backups | upload, new version, delete, recover, purge, retention; permissions, folders | object store, backup store, ingestion | purge against recovery; ids given by the caller; several writes over stores without a transaction | every version keeps its bytes; nothing is purged inside a recovery window |
| Backup service `backup/` | catalog, snapshots | backup with read-back, restore, discard, retention purge | live store, object store | crash between bytes and catalog; damaged snapshots; ids given by the caller; purge against restore | only what was captured is restored |
| Knowledge `knowledge/`, `native-ingestion/` | sources, document rows, chunks, vectors | ingest, reindex, change notification; retrieval | connectors, embedder, knowledge store, vector store | hash, chunks and vectors are replaced in separate writes; runs overlap | no vector of an earlier content stays; the hash is that of what is indexed |
| Knowledge hub `knowledge-hub/` | page tree, versions | create, `setParent`, edit, restore; comments, permissions, search | page store, audit, indexer | check-then-write on the hierarchy; emission after the write | the pages are a forest that navigation shows; the index has the head |
| Integrations `integrations/` | connectors, credentials | connect, rotate, disconnect | secret store | rotation over two stores | the referenced secret exists |
| Security gateway `security-gateway/` | rolling-window counters | check request | front door of the pipeline | several keys at once | at most the limit per window |
| Code sandbox, tools, scraper `code-sandbox/`, `tools/`, `web-scraper/` | per-host turns, watchdog | run, call, fetch | backend | timeout against late answer | one outcome per run; interval kept |
| Search rotation, websocket gateway `src/apps/api/src` | cursor and cooldowns; live sessions | search; connect, close | providers; token validation | shared cursor; close during validation | no cooled-down provider is used; no dead session stays |
| The rest (policy, access, tenancy, analytics, reporting, rendering, prompts, personas, audit, compliance, storage adapters, SQL, SDK, web UI) | rows, or nothing | single-row CRUD, pure functions | stores | little | mostly unit-testable |

`PROJECT.json` lists each of them with its files and the reason where it is not modelled,
and every hazard at the line where it bites.

### 1.2 How the modelled parts fit together

```
 ChatPipeline --enforce, recordUsage--> BudgetManager     ModelRouter <..availability.. ProviderHealth
      |--chat.send..> ChatService                              ^
      |                     \.......................route......./
      \--stream..> StreamingEngine --implements--> StreamContract

 Scheduler ..trigger..> WorkflowExecutor        AgentRuntime ..tool..> WebCache

 Documents ..capture, discard..> BackupService (same shape, its own store)
 Sessions = Auth_Service + Device_Manager over one session store        ApiKeys
 KnowledgeHub ..emit..> KnowledgeIngestion (by way of a change notification)
```

A solid arrow is a composition that is checked: `ChatPipeline` EXTENDS `BudgetManager` and
takes its actions, `Sessions` holds the operations of two services on the store they share,
and `StreamingEngine` refines `StreamContract`. A dotted arrow is a port: each side is modelled
against everything the port may do (answer, reject, take any time), which is more than the
other side ever does.

## 2. The modules

Each definition that translates code is listed with its file and lines under `map` in
`PROJECT.json`. An operator whose comment begins with "Mutant of X" is a plausible bug of X;
it is used by no specification, and shows that the property named with it in `PROJECT.json`
can fail. A variable called a history variable below records what happened for the properties
to speak of; no guard of the code's reads it.

**BudgetManager** (`budget/budget-manager.ts`, `budget/period.ts`). A process is a billable
request. `pc[r]` is the await it is at: `userSpend`, `modelBudget`, `modelCount`,
`teamBudget`, `teamSpend` inside `enforce`; `allowed` between the calls; `scopeBudget`,
`scopeSpend`, `audit`, `notify` inside `recordUsage`. `loc[r]` holds the locals that cross an
await (the clock at the start, the budget read last, `createdAt`, the position in the list of
scopes, the alerts still to report). The ledger is the day of each request's record, because
a request appends at most one; spend is summed from it, as in the code. `asked` is the model
that `enforce` is given and `model` the one that the record names: the pipeline does not
guarantee that they agree. Thresholds are absolute amounts, not fractions. Any store call of
`enforce` may reject (`EnforceFails`), and so may whatever `recordUsage` awaits after its
append, the stores, the audit log and the notifier (`RecordFails`): the call ends there, its
record stays and its later alerts are lost.

**ChatPipeline** (`chat-pipeline/chat-pipeline.ts`, with `send` of `chat/chat-service.ts`).
`stage[r]` is what run r awaits. Stages `budget` and `record` take the actions of
BudgetManager one by one, so two runs interleave inside `enforce` and `recordUsage`. The
other services are represented by what the pipeline does with them: verdicts of the guards,
the question and the answer that `send` persists, the settlement of the stream, the metric.
Any of them may throw, which ends the run and leaves what was done.

**ChatService** (`chat/chat-service.ts`). One conversation. A message is its
role, its parent and, for an answer, what the model was sent; a listing is a prefix of the
order of creation. `read[r]` is the listing request r works with while others append: `send`
and `compare` send the model all of it, `editMessage` and `regenerate` the path along
`parentId`. The
automatic title is its own request, and a user may rename at any time; `late` is a history
variable, the requests past their re-check when the user did.

**StreamContract / StreamingEngine** (`streaming/streaming-engine.ts`). The contract says
what the header of the file promises in terms of the tokens the source has yielded, whether it
has ended, and `delivered`, `kept` and `outcome`: the client is given the source's next token
and no other, and a stream completes when the source has ended and the client has all of it.
The engine is the relay loop with the iterator, the abort signal and the three ports. A chunk
is its number and carries a token, usage, both or neither; text is the sequence of tokens
accumulated, and `yielded` a history variable, the tokens of the chunks that came. The cost of
a stream is not computed.

**ModelRouter** (`router/fallback.ts`, `router/hybrid-routing-layer.ts`,
`router/model-permission-resolver.ts`, `access/model-access.ts`). One request, with every
principal, request and availability of the instance as initial states. The text heuristics
and the classifier are inputs (their verdict); a provider's stream is one step. A rejecting
recorder is caught by the attempt's own `try`, as in the code.

**ProviderHealth** (`providers/health-checker.ts`, `providers/model-registry.ts`). A round
asks every provider at once; each answer carries the health of the moment it was given and
is applied when it arrives. `applied` is a history variable.

**AgentRuntime** (`agent/agent-runtime.ts`). One run; a tool call is the gate it meets and
its cost. `invoked` is a history variable: which calls were dispatched, and whether the user
had cancelled by then.

**Scheduler** (`scheduler/scheduler.ts`, `scheduler/cadence.ts`). Registrations are numbered
as they are inserted, which makes the iteration order of the JavaScript `Map` the order of
numbers, and the visibility of entries inserted or deleted during an iteration what the
language specifies. `Fire` advances the due time *before* the trigger is awaited. A cron
expression is the set of instants it matches, and `CronHorizon` how far the search for the
next one goes, which the code bounds to four years of minutes (`scheduler/cadence.ts:164-172`):
past it the schedule has no next due time, for good.

**WorkflowExecutor** (`scheduler/workflow-executor.ts`, `scheduler/workflow-graph.ts`).
Runs share nothing, so one run over every small workflow is all there is.

**WebCache** (`web-cache/web-cache-manager.ts`). A value is known by the computation or put
it comes from; `overAtStart` is a history variable.

**Documents** (`document-management/document-management-service.ts`, `recovery.ts`). The
rows are `history` (the key of each version's bytes), `deletedAt` and `archived`; the object
store and the backup store are functions of their own. A request goes through the awaits of
`upload`, `addVersion`, `softDelete`, `recover`, `purgeExpired` or `applyDueRetention` with
what it has read (`seen`, `head`, `queue`) and what it has still to copy (`todo`, `got`); each
await may reject or be the last. The content of an upload is the request that made it. An
upload may be given any id, that of a row included: the bytes are put to the key of its first
version before the insert, which the primary key then rejects. `written`, `marks` and
`contended` (the documents that two requests worked on at once, or that an upload was given
the id of) are history variables.

**BackupService** (`backup/backup-service.ts`, `backup/retention.ts`). One target. The state of
the live store is the number of writes made to it; a snapshot may be damaged in the object store
at any time, which the read-back verification and the restore compare against the checksum. The
id and the recovery point of a backup may be the caller's: an id in use overwrites the bytes of
the backup that has it, and then its catalog entry. `captured` and `reused` are history
variables.

**ApiKeys** (`api-keys/api-key-manager.ts`). A key is known by the request that minted it.
`rotate` reads, inserts and deactivates, `recordUse` counts and appends, at an await each.

**Sessions** (`auth/auth-service.ts`, `device/device-manager.ts`). Every operation of either
service reads whole session records, decides, and writes whole records back; `updates[r]` is
what request r has still to write. A sign-in does not read the deactivation mark, as in the
code. `asked`, `overlap` and `after` are history variables: what a revocation is to end, which
requests it ran alongside, and which deactivations had returned when a request came in.

**KnowledgeIngestion** (`knowledge/knowledge-ingestion-service.ts`). Runs over one source
whose documents change underneath; indexing a document is the row, the embeddings, the removal
of the old vectors, the chunks and the new vectors, each in a write of its own. The lookup of
the row may reject as the writes may, and the store keys rows by source and external id, so
that two runs which both found none save to one row.

**KnowledgeHub** (`knowledge-hub/knowledge-hub-service.ts`, `knowledge-hub/navigation.ts`).
Pages with a parent and a sequence of versions. A creation may be given the id of a page that
is there, which the store's key rejects. `setParent` checks the listing it read and then
writes; `edit` and `restoreVersion` write, append to the audit log and emit.

Requests of a store, of a person and the absent value are declared once, in `StoreRequests`,
`ServiceRequests` and `NullValue`, so that the modules that use them can be extended together.

**Proofs.** Eight modules hold the theorems (section 4): `BudgetManagerProofs`,
`ChatPipelineProofs` and `SchedulerProofs` are about the module they are named after,
`EnginesProofs` about StreamingEngine, WebCache and WorkflowExecutor, `ModelCallsProofs` about
AgentRuntime, ProviderHealth and ModelRouter, `StorageProofs` about Documents and
BackupService, `AccessProofs` about ApiKeys and Sessions, `KnowledgeProofs` about
KnowledgeIngestion, KnowledgeHub and ChatService.

### 2.1 The instances

The `MC*` modules give the constants their values. `MCBudgetManager` and `MCChatPipeline`
extend the module they are named after. The others extend several components that have no
variable in common: `MCStores` (Documents, BackupService, ApiKeys, Sessions), `MCKnowledge`
(ChatService, KnowledgeHub, KnowledgeIngestion), `MCModelCalls` (ProviderHealth, ModelRouter,
AgentRuntime) and `MCEngines` (Scheduler, StreamingEngine, WebCache, WorkflowExecutor). They
are extended and not instantiated, so that what TLC checks of an instance and what is proved
for all values are the same definitions; the modules therefore have names of their own for
their variables, `Init`, `Next` and `Spec` (`KeysSpec`, `SessionsSpec`, `HubSpec`, ...). A
variable, `service` or `part`, is chosen in the initial state and names the component whose
behaviour it is; the others stay in an initial state. Such a run is the runs of its components
side by side: nothing is gained or lost by the others standing still, since no action or
property of one reads a variable of another, and their common symmetry and fairness are stated
once.

## 3. The runs

| Run | Question it answers | Bounds, and why they are enough |
|---|---|---|
| `budget_caps` | How far can racing requests overshoot a cap or a daily limit? | Three requests that cost and three to one model, two of them both, two in flight: an overshoot takes two requests past a check together, and a third that must be stopped; two days put midnight between check and record, a period's end for the team's daily cap but not for the user's monthly one; `setBudget` may lower the cap and is offered an invalid configuration. |
| `budget_sequential` | Is each crossing reported, and once, when requests do not overlap? | Three requests of two scopes whose thresholds and caps are crossed one by one, over three days; the organization is given a budget on the way; every call of `recordUsage` after the append may reject. |
| `chat_runs` | Do whole runs fail closed, account for what they serve, and settle? | Two runs, both in flight, sharing a cap of two and a daily limit of one; all guards, settlements and throws; the cap is lowered, midnight passes. Every pair of stages meets. |
| `stores` | Do the services over several stores keep their promises through interleavings, rejections and crashes? | Three requests, two in flight, so that two race and a third sees what they left. Documents: one there, one to be uploaded, two versions, a window of one in three instants (inside, at and past its end), one rule that deletes and one that archives. Backups: two ids, so that one is given twice while the other stays apart; one write to tell captures apart, a retention that ends at once. Keys: a limit of one, so that two pass it together. Sessions: access tokens that expire before refresh tokens, both inside the three instants; two devices. |
| `knowledge` | Does what is derived (answers, index, navigation) agree with what it is derived from? | Chat: three requests, two in flight, five messages: an exchange, a branch or edit of it and two racing sends. Hub: three pages of one space, a cycle of two and one of three being possible, and a fourth in another. Ingestion: one document of a source that changes twice between two contents, one of no chunks, three runs, two at once. |
| `model_calls` | Are models and tools called only as permitted, within limits, and do calls end? | Router: four models over all tiers with and without vision, five principals (Viewer, Premium grant, Allow_Lists), an attempt cap of three that cuts a chain of four. Agent: three steps, a time limit of two, a cap of three with calls of cost 0 to 2: each limit is reached first in some behaviour, and the cap is passed by more than equality. Health: two rounds under way at once, two providers, one restart, one reload, two changes of health. |
| `engines` | Do the engines fire, relay and compute what they should, once, and finish? | Scheduler: two ticks that overlap, two registrations, three instants, cadences of all kinds, with an anchor in the future, a one-shot in the past, and two crons under a search that looks at the next instant only: one whose matches are adjacent, and one whose second match lies past it. Workflows: every one of up to three steps over three ids, with duplicate ids, forward, self and unknown references. Stream: five chunks; every pattern of abort, drop and failure shows by the third; a token comes with usage, without, or not at all. Cache: one that computes, one that joins, one that comes later; keys do not interact. |
| `budget_alert_missed` (violated) | Is each crossing reported when two requests are in flight? | The budgets of `budget_sequential`; no throws. |
| `chat_auto_limit` (violated) | Does the daily limit bind in Auto Mode? | Two requests one after the other. |
| `documents_version_lost` (violated) | Does every version keep its bytes? | As `stores`. |
| `pages_hidden` (violated) | Does navigation show every page? | As `knowledge`. |
| `knowledge_hash_ahead` (violated) | Is the hash that of the last successful index? | As `knowledge`. |

The largest, `stores` and `knowledge`, have 1.9 and 0.7 million distinct states and take up to
three minutes; the others take seconds, `model_calls` and `engines` about a minute for their
liveness properties.

All of the systems stop: requests are served, runs return, the clock reaches its bound. The
configurations therefore say `CHECK_DEADLOCK FALSE`. That runs and calls do not stop too early
is what the liveness properties say.

Named bounds (`MaxDay`, `MaxInFlight`, `MaxTime`, `MaxEntries`, `MaxChunks`, `MaxChanges`,
`MaxLoads`, `MaxStops`, `MaxEvents`, `MaxVersions`, `MaxWrites`, `MaxMessages`, `MaxRenames`,
`MaxRows`, `MaxEdits`, `MaxRuns`, `MaxBackupTime`) only cut the instance. `MaxInFlight` is more:
the code admits any number of concurrent requests, and the bounds on overshoot are stated in
terms of how many there are. Symmetry, where it is used, is over requests, the models of a
`compare`, the ids of backups and two pages of one space, which the modules and the instances
treat alike, and only in runs without liveness properties.

### 3.1 What the properties say

* **Budget.** `SpendOvershootBounded`: spend of a user or team against a cap stays below the cap
  plus the requests in flight times their largest cost, across period boundaries and
  reconfiguration. `DailyMessagesBounded`: likewise for messages to a model asked for by name.
  When requests come one after the other, `AlertReportedOnce`, one alert per scope, kind and
  period, and `CrossingReported`: none is missing, unless a store, the audit log or the notifier
  rejected while a record of that scope and period was being reported, before that scope was
  done.
* **Chat pipeline.** `RefusedLeavesNothing`, `ChargedWhatWasServed`, `AnswersAreCharged` (an
  answer is charged even if its client leaves; only a throwing component prevents it) and
  `RunsSettle`.
* **Chat service.** `AnswersSawTheirThread`: whatever else is appended meanwhile, the model saw
  the thread its answer stands in; for an edit and a regeneration nothing else, for a send and a
  compare its question and the whole conversation as it stood at some moment before.
  `TitleKeptUnlessRaced`: an automatic title replaces a user's only if that was given after the
  re-check.
* **Router.** `OnlyPermittedTried`, `FirstSuccessServes`.
* **Health.** `ScheduledInOrder`; `RoutableConverges`: once health stops changing and the loop
  runs, the registry comes to agree with it.
* **Agent.** `StopsAtFirstBoundary`, `CancelStopsTools`, `ToolsRunAreRecorded`,
  `AgentTerminates`.
* **Stream.** `KeepsContract` (the refinement): a completed stream has delivered every token of
  its source, in order; one cut short keeps what the client has, with one token more at most.
  `SourceReleased`, `NothingSentAfterAbort`.
* **Scheduler and workflow.** `SlotsFireInOrder`; `NoSlotSkipped`, where the slots of a cron end
  at the first gap between matches that is longer than the search; `TickFiresEveryDue`;
  `InputsAlwaysPresent`.
* **Cache.** `SingleFlight`, `FailureNotReused`, `CallsSettle`.
* **Documents and backups.** `HistoryRetrievable`: for a document that two requests never worked
  on at once and whose id no upload was given while it was there, every version's bytes are in
  the object store, or in the backup while the trash window is open, whatever failed half-way.
  `PurgedOnlyAfterWindow`. `RestoresWhatWasCaptured`: a restore puts back what was captured
  under the id of the backup, or fails, and what is listed as verified, under an id that was not
  given anew, has its bytes unless the object store damaged them.
* **Keys and sessions.** `UsesWithinLimit`, `RotationHandsOver`, `RevocationHolds`, and
  `DeactivationEndsAll`: no session outlives a deactivation that has returned, but for those of
  requests under way at the same time and of sign-ins that came in later.
* **Knowledge.** `IndexHasNoStaleVectors` (while runs do not overlap), `HierarchyIsAForest`
  (while re-parents do not), `IndexShowsTheHead`.

Where a property speaks only of requests that do not overlap, that is the boundary of what the
code gives; a violated run or section 3.3 shows what happens beyond it.

### 3.2 Fairness

Weak fairness of a process (a request, a run, a call, the engine) says that an await
settles: promises of ports resolve or reject, and the event loop runs their continuations.
The code relies on it nearly everywhere: few of its calls carry a timeout. Where a port may
never answer (a health check, a tool), the liveness properties say nothing of it. It never
forces an answer rather than a rejection: the disjunction is fair, not its parts. One
exception is named where it is used: `ProviderHealth!FairSpec` is strongly fair to the
scheduled round, because the interval timer fires for ever while a round may be open at each
single firing. Users, administrators and clocks are never fair. The scheduler has no liveness
property: that every slot is fired in the end would need ticks that come faster than slots on a
clock without end, and triggers that resolve, none of which it ensures (section 3.3). The
`MCFairSpec` of `MCModelCalls` and of `MCEngines` states the fairness of the `FairSpec` of each
component that has one, for the behaviours in which that component runs. Documents, knowledge, keys and
sessions have no liveness property: their process may die at any await, after which nothing
finishes the request.

### 3.3 What disagrees with the documents

Five runs show a disagreement:

* `budget_alert_missed`. `recordUsage` notifies "for any scope whose spend crossed its alert
  threshold or cap as a result". Two concurrent calls both append and only then total: each
  sees a total that was past the amount before its own cost, and neither reports
  (`budget/budget-manager.ts:417`).
* `chat_auto_limit`. "A user exceeding a per-model daily message limit is rejected for that
  model for the remainder of the day" (`src/.kiro/specs/auxify-ai-platform/design.md:1476`).
  `enforce` is asked about the caller's model id or a placeholder
  (`chat-pipeline/chat-pipeline.ts:186`), the record names the model that answered.
* `documents_version_lost`. "Prior versions are never mutated or removed, so the full history
  is always retrievable" (`document-management/types.ts:140-142`). The object key of a new
  version is derived from the version read before the upload
  (`document-management/document-management-service.ts:375`); two concurrent calls share it.
* `pages_hidden`. "The result always contains every supplied page exactly once"
  (`knowledge-hub/navigation.ts:28-29`). Two re-parents, each checked before the other's
  write (`knowledge-hub/knowledge-hub-service.ts:245`), make a cycle under no root.
* `knowledge_hash_ahead`. `contentHash` is "the hash of the document's content at the last
  successful index" (`knowledge/types.ts:261`), but is saved before anything is embedded
  (`knowledge/knowledge-ingestion-service.ts:406`); after a failure the next ingest skips the
  document.

Others are part of the models, so that the properties hold in their presence, but have no
run of their own:

* a crossing may also be reported twice by concurrent calls (`budget/budget-manager.ts:412`),
  and any call that rejects after the record was appended, of the stores
  (`:408`, `:417`), the audit log (`:437`) or the notifier (`:451`, against
  `budget/types.ts:469`), loses the alerts of its record that had not gone out, for good: the
  next record finds the amount already passed;
* a slot whose trigger rejects is consumed, and the rejection ends the tick
  (`scheduler/scheduler.ts:161-162`, against `:134-141`), so that a trigger which always
  rejects starves the registrations behind it; a tick fires a schedule at most once (`:144-147`),
  so that where ticks come no faster than slots a backlog grows for ever;
* a cron schedule whose matches can lie more than four years apart, such as a 29 February that
  has to be a Monday, is satisfiable and still gets no next due time: it is never fired again,
  or not at all (`scheduler/cadence.ts:164-172`);
* a recorder that rejects after an answer makes the router call the next provider
  (`router/fallback.ts:356`);
* an agent run passes its budget cap by up to one step (`agent/agent-runtime.ts:299`), and a
  rejecting approver rejects the run (`:391`, against `agent/types.ts:425-426`);
* an on-demand health answer may overwrite a newer one (`providers/health-checker.ts:145`);
* a stream aborted during its last pull completes (`streaming/streaming-engine.ts:156`);
* overlapping writes of one page may reach the index in either order, so that it can be left
  with a version that is not the head (`knowledge-hub/knowledge-hub-service.ts:299`);
* the web cache may ask the provider twice within a TTL, when the entry is written between a
  caller's miss and its look at the registry (`web-cache/web-cache-manager.ts:177`, against
  `:11-13`);
* the output scan follows the relay and its decision is not acted on
  (`chat-pipeline/chat-pipeline.ts:260`, against `content-safety/content-safety-filter.ts:185-186`);
* `send` and `compare` send the model every message listed, sibling branches included
  (`chat/chat-service.ts:230`, `:511`), although "a model request needs exactly the messages
  along one branch ..., not every sibling branch" (`:111-114`);
* an automatic title may replace one that was set between re-check and write
  (`chat/chat-service.ts:648`, against `:628-629`);
* `validate` and `refresh` write back the record they read: one that had a session in hand
  while it was revoked brings it back (`auth/auth-service.ts:335`), and a sign-in that passed
  its checks before a deactivation establishes a session after it;
* a deactivated user can sign in again: the mark is "the fact the Auth_Service /
  Tenancy_Service sign-in path consults" (`device/device-manager.ts:212-213`), but the sign-in of
  `auth/auth-service.ts` (`:190-193`, `:524-554`) does not read it; the check is in a test only
  (`device/session-invalidation.property.test.ts:206-224`);
* an upload with the id of an existing document puts its bytes over those of version 1 before
  the insert is rejected (`document-management/document-management-service.ts:203-205`, `:221`,
  against `document-management/types.ts:140-142`), and a backup with the id of an existing one
  overwrites its bytes and then its entry, so that a failure between leaves a verified backup
  that cannot be restored (`backup/backup-service.ts:161-188`);
* a document that was recovered after a sweep listed it is still purged by that sweep
  (`document-management/document-management-service.ts:537`);
* concurrent uses of an API key overshoot its limit by up to the number counted together,
  less one (`api-keys/api-key-manager.ts:384`), and a crash inside a rotation leaves both keys
  live (`:321`).

## 4. The proofs

Every safety property that a passing run checks is proved for all values of the constants;
TLC shows it on an instance, and showed the inductive invariants on the instances first.
`BudgetAssumption`, `SchedulerAssumption` and `DocumentsAssumption` are assumptions of their
modules. The others, `KeysAssumption`, `SessionsAssumption`, `BackupAssumption`,
`StreamAssumption`, `WebCacheAssumption`, `ExecutorAssumption`, `AgentAssumption`,
`RouterAssumption`, `HealthAssumption`, `ChatAssumption`, `HubAssumption` and
`IngestionAssumption`, are formulas that the theorems ASSUME and the `MC*` modules assume of
their constants, so that TLC evaluates all of them.

The two theorems about alerts ASSUME `MaxInFlight = 1` besides, as `budget_sequential` sets it:
with two requests in flight they are false (`budget_alert_missed`, and section 3.3). All other
theorems hold for any number of requests, runs, ticks and rounds under way; where a property
speaks only of requests that did not overlap, that is in the property.

**BudgetManagerProofs.** `TypeCorrect`, by `NextType` with one step per action.

* `DailyLimitHolds`. The property is not inductive: it says nothing of requests between the
  count and the append. `DailyInv` adds, for a user, a model and a binding limit, the *pending*
  requests, which may be recorded today without another look at today's limit: those that
  passed the count, and those that still have it ahead but count the day they began on. The
  messages of today together with the pending requests stay below the limit plus the requests
  in flight. A request becomes pending only by passing a count of fewer messages than the
  limit; the append moves it from pending to recorded; and at midnight the messages start from
  none. The invariant needs `StandingInv`: a budget that was read is one the scope can have,
  and at most `MaxInFlight` requests are in flight.
* `SpendStaysBounded` has the same form with sums of costs. `SpendInv`: what is recorded
  against a scope in the current period together with what the *uncounted* requests (those
  past its cap check) will cost stays below the cap plus what the requests in flight can cost;
  a cap of zero lets nobody pass; and a new day either stays in the period or starts an empty
  one (`Windows`), which no cap was checked for.
* The sums are folds, recursive functions over subsets, of which nothing can be shown by the
  library's induction theorems here. Each fact about them is shown by a *minimal
  counterexample* instead (`MinimalSubset`): strict inclusion is well-founded on the subsets of
  a finite set, so that if the fact failed it would fail for a set and hold for all smaller
  ones. `TotalUnfolds`, `TotalType`, `TotalWithout`, `TotalGrows`, `TotalSplits` and
  `TotalBounded` are the algebra that the invariants use.
* `AlertsComeOnce`. `DetectedInv`: the alerts a request has still to report are those of the
  amounts its own record crossed. `AuditInv`: once an alert was audited the spend is past its
  amount, and would be without any *other* record that is still to be reported; so no later
  record crosses it. `RecordInv` places the record before its report.
* `CrossingsAreReported`. `CrossInv`: an amount that is passed was reported, or its report is
  on its way with the request that crossed it, or a call was cut short before that scope was
  done. A request alone in
  flight that appends crosses the amount itself or finds it accounted for (`CrossAppended`);
  while it walks its scopes it has not gone by the one it has to report (`NextReports`).

**ChatPipelineProofs.** The pipeline is composed with the Budget_Manager by taking its actions,
so that every step is one of the manager's or leaves its variables alone
(`RunsTakeBudgetSteps`). What is proved of the manager therefore carries over:
`PipelineDailyLimit` and `PipelineSpendBound`. `FailClosed`, `AccountingAgrees` and
`PipelineTypeCorrect` follow from `PipelineInvariant`, whose `RunInv` says for each stage what
the request has left behind (`Nothing` up to `chat.send`, then question, answer, settlement,
metric and, from the append on, the ledger record); neither property is inductive without
the stages between.

**SchedulerProofs.** `TypeCorrect` and `FiresInOrder`: `OrderInv` adds to the property that
every slot fired lies strictly before the registration's next due time. It is kept because every
next-due function is strictly increasing (`GridAfterLater`, `NextDueLater`) and because the due
time moves in the same step as the firing; had the code advanced it after the await, this is
where the proof would fail. `EverySlotFires` needs `SlotInv`, the converse: the slots fired are
*exactly* those of the cadence before the next due time, which rests on the next-due function
being the least slot after the given instant. It holds for every `CronHorizon`: the slots of a
cron are its matches up to the first gap longer than the search. `TicksReachAll` needs
`WatchInv`: of what a tick saw due when it began, each slot was fired (by this tick or by
another), or is still due and ahead of the tick's cursor, or its registration was removed.

**EnginesProofs.** `ImplementsContract`: each step of the relay loop maps to a step of the
contract or a stutter (`StreamStepMaps`), given `StreamInv`: while the loop runs, the text
accumulated is all that the source has yielded, and what was delivered is that text or lacks
only its last token, the one in the sink's hands, which is the contract's next one
(`AheadIsNext`); at the completion event the source is exhausted and nothing is in the sink's
hands. `SourceIsReleased` needs to know in
which states the iterator is open (`ReleaseInv`); `AbortStopsTokens` is an action property and
needs no invariant: the flag is read in the same step that sends. `OneFlight` and
`FailureSpent` come from `CacheInv`: the registry names the computation under way of each key
and no other (`RegistryInv`), and no call has joined a computation that was over when the call
began (`JoinInv`). `InputsAreThere`: while the run is in its loop, the outputs are those of
exactly the steps before the current one (`ExecutorInv`), of an order in which every step comes
after those it depends on.

**ModelCallsProofs.** *Agent:* `LimitsHold`, `CancellationStopsTools` and `RunToolsRecorded`
from `AgentInv`: between steps the cap is not reached, except a cap of zero at the start, and
inside one the last cost is what reached it (`LimitsInv`); at most one call was dispatched
after a cancellation, and none while the run is still deciding (`CancelInv`); the dispatched
calls are the recorded ones and the one that runs (`ToolsInv`). *Health:* `AnswersInOrder` from
`HealthInv`: at most one scheduled round is under way, and what was applied is no newer than
any answer still to be applied. *Router:* `AuthorizationSurvivesFallback` and
`TheFirstSuccessServes` from `RouterInv`: the chain repeats no model and holds only permitted
ones (through sorting, dropping and cutting: `ChainInv`), and an answer is outstanding only
while it is being recorded (`ServedInv`).

**StorageProofs.** `PurgeWaitsForTheWindow`: a sweep acts on marks it read long ago, from rows
that may have been recovered and deleted again since. Every mark in a row, in a sweep's list or
in a request's hand is one that the document once had (`MarksInv`, `HandInv`), and one in the
hand of a purge was past its window when it was picked; clocks only move on.
`HistoryStaysRetrievable`: for a document that two requests never worked on at once and whose
id no upload was given while it was there. `CopiesInv`
says what holds of it at rest (`SoundInv`), at each await of the one request that has it in
hand (`CallInv`), of those a sweep has listed and not reached (`ListedInv`), and that there is
one such request only (`AloneInv`); a request that breaks off at any await leaves `SoundInv`.
`RestoresAreFaithful`, ids given twice included: `BackupInv` says what each job has in hand at
each await (`HoldsInHand`), a checksum that was captured under its backup's id among it; that a
catalog entry has such a checksum (`CatalogInv`); and, for an id that was never given while in
use, that a job which takes the backup is alone with it (`AloneWithId`) and that the bytes under
a verified entry are those of its checksum or damaged.

**AccessProofs.** `RotationsHandOver`, for any number of overlapping rotations that may die at
any await: a stored key that is inactive was revoked or has a replacement in the store; a
request stores its key once; and one that is about to deactivate has stored the replacement of
what it deactivates (`KeysInv`). `UsesStayWithinLimit`: in any window of time, the recorded uses
of a key together with the requests let through and not recorded are at most
`Limit + MaxInFlight - 1` (`UseInv`). `RevokedStaysRevoked` and `DeactivatedStaysOut`: what has to
be known is which records are in whose hands. `SessionsInv` says what a request has still to
write (`SessionStageInv`); that a revocation under way knows of every other request under way
(`OverlapInv`); that what a revocation has written, or is about to, stays ended except in the
hands of such a request (`EndInv`); and that a session which a deactivation did not list is not
there and in nobody's hands, unless a request that overlapped or came in later established it
(`NewInv`).

**KnowledgeProofs.** `NoStaleVectors`: while runs do not overlap the run that indexes has its
row to itself (`OwnRowInv`), and every row is clean in between: no vector without its chunk,
and after success those of the content (`CleanRowsInv`). `HeadIsIndexed`: a page whose writes
came one after another is behind in the index only between the write and the emission
(`HeadInv`); it needs that what a request's checks found still holds when it acts
(`RequestInv`). `HierarchyStaysAForest`: that there is no cycle is stated without paths, as
*no non-empty set of pages contains the parent of each of its pages* (`Acyclic`), and what the
cycle check saw as a set closed under parents that holds the new parent and not the page
(`PlaceInv`); setting the parent then makes no cycle. From `Acyclic` every lineage ends at a
root. `AnswersMatchThreads`: messages are only appended and answer earlier ones (`TreeInv`), so
a path never changes (`PathStays`), and what a request has read covers the path it is about to
extend (`ExchangeInv`). `UsersTitleStays` is `TitleInv`.

**Model-checked only.** Liveness, which is out of the prover's reach: `AnswersAreCharged`,
`RunsSettle`, `AgentTerminates`, `RoutableConverges`, `CallsSettle`. The five
violated runs are refutations, which TLC finds and no theorem states.

## 5. What is not modelled

Text, pricing, embeddings, parsing, SQL and cryptography; the user interface and the SDK; and
services whose calls are one read and one write of one row, for which there is no order of
steps to get wrong: personas, prompts, artifacts, policies, tenancy, audit, storage adapters.
They are most of the repository's lines. Of the components marked `partly`, the operations
left out are of that kind (permissions and folders of documents; comments, permissions and
search of the hub; ratings; linking of identities).

A crash is modelled where a process that dies leaves a store between two writes: documents,
backups, ingestion, keys, sessions. It is not in the scheduler, the cache and the health
checker, whose state dies with the process, nor in the pipeline, where a crash has the effect
of a component that throws there, which is modelled.

Components with control of their own that are still left out, each small: the member list of
a channel (`messaging/`, read, extended and written back), credential rotation over two stores
(`integrations/`), the rolling window of the security gateway (`security-gateway/`), the
memoized connection of the native ingestion bridge, the watchdog of the code sandbox, the
per-host turns of the scraper, the search rotation's cursor and the websocket gateway's
session map. Their hazards have the forms already covered here: read, await and write back as
in Sessions, two stores as in Documents, count then record as in ApiKeys, a shared promise as
in WebCache.

Four listed hazards have no property, because nothing in the code prevents them, and a property
could only restate what happens; they are listed in 3.3 instead: the output scan that follows
the relay (`chat-pipeline/chat-pipeline.ts:260`), whose decision changes nothing; the backlog of
a scheduler whose ticks are slow (`scheduler/scheduler.ts:151`); the emission of a page's write
that a later write overtakes (`knowledge-hub/knowledge-hub-service.ts:299`); and the second
computation of a web cache entry within its TTL (`web-cache/web-cache-manager.ts:172`).

## 6. What was written in which order, and what is left

By what the system depends on most: BudgetManager (with the first proofs), Scheduler,
WorkflowExecutor, ModelRouter, StreamContract and StreamingEngine, AgentRuntime, WebCache,
ProviderHealth, ChatPipeline; then the services over several stores, where failures between
two writes matter: Documents, BackupService, ApiKeys, Sessions, KnowledgeIngestion,
KnowledgeHub, ChatService; then the proofs, component by component, the last of them the
budget's sums and alerts.

Left:

1. the small components named in section 5;
2. compositions over a shared variable: ModelRouter reading the registry that ProviderHealth
   writes, Scheduler with WorkflowExecutor as its trigger, Documents on BackupService;
3. theorems: what of the alerts survives requests that overlap (an alert that is audited is of
   an amount that the spend is past); how many requests one missed crossing takes; ChatService
   as an implementation of what ChatPipeline assumes of `send`.
