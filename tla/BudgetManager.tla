--------------------------- MODULE BudgetManager ---------------------------
(***************************************************************************)
(* The Budget_Manager of the core services (src/services/core/src/budget). *)
(*                                                                         *)
(* A request consults `enforce` before it spends and calls `recordUsage`   *)
(* once the provider has answered.  Both are asynchronous: every store     *)
(* call is an await at which other requests run.  A process of this module *)
(* is one request; an action is one store call with the synchronous code   *)
(* that follows it up to the next await.                                   *)
(*                                                                         *)
(* Time is a calendar day.  A request id appends at most one usage record, *)
(* so the append-only ledger is the function from requests to the day      *)
(* (createdAt) of their record.                                            *)
(***************************************************************************)
EXTENDS Naturals, Sequences, FiniteSets, FiniteSetsExt

CONSTANTS
    Requests,       \* the billable requests that will be made
    Attribution,    \* Requests -> who spends, the model and tier enforce is asked
                    \* about, the model that answers, for how much
    Models,
    InitialBudget,  \* Scopes -> the stored budget, or NoBudget
    Reconfigs,      \* Scopes -> the configurations setBudget may be called with
    MonthLength,    \* days of a calendar month
    MaxDay,         \* bound: the last day the clock reaches
    MaxInFlight,    \* requests between enforce and the end of recordUsage
    None            \* an absent team, project, budget or window

NoBudget == None
NoDay == None
Days == 0..MaxDay

-----------------------------------------------------------------------------
\* Scopes and configurations.

Levels == {"organization", "team", "project", "user"}

UserScope(r) == [level |-> "user", ref |-> Attribution[r].user]
TeamScope(r) == [level |-> "team", ref |-> Attribution[r].team]
ProjectScope(r) == [level |-> "project", ref |-> Attribution[r].project]
OrgScope == [level |-> "organization", ref |-> "org"]

HasTeam(r) == Attribution[r].team # None
HasProject(r) == Attribution[r].project # None

\* attributedScopes: the scopes one record is charged to, in reporting order.
ScopesOf(r) ==
    <<OrgScope>>
    \o (IF HasTeam(r) THEN <<TeamScope(r)>> ELSE <<>>)
    \o (IF HasProject(r) THEN <<ProjectScope(r)>> ELSE <<>>)
    \o <<UserScope(r)>>

Charged(r, s) == \E i \in 1..Len(ScopesOf(r)) : ScopesOf(r)[i] = s

Scopes == DOMAIN InitialBudget

Unlimited == None

\* What validateBudgetConfig accepts.  The absolute threshold amount
\* limit * alertThreshold is kept instead of the fraction in (0, 1].
ValidConfig(c) ==
    /\ c.limit \in Nat
    /\ c.threshold \in 0..c.limit
    /\ c.period \in {"day", "month"}
    /\ \A m \in Models : c.modelLimit[m] = Unlimited \/ c.modelLimit[m] \in Nat \ {0}

ASSUME BudgetAssumption ==
    /\ IsFiniteSet(Requests)
    /\ MonthLength \in Nat \ {0}
    /\ MaxDay \in Nat
    /\ MaxInFlight \in Nat \ {0}
    /\ None \notin Nat
    /\ \A r \in Requests :
          /\ Attribution[r].model \in Models
          /\ Attribution[r].asked \in Models
          /\ Attribution[r].cost \in Nat
          /\ Attribution[r].economy \in BOOLEAN
          /\ OrgScope \in Scopes /\ UserScope(r) \in Scopes
          /\ HasTeam(r) => TeamScope(r) \in Scopes
          /\ HasProject(r) => ProjectScope(r) \in Scopes
    /\ InitialBudget \in [Scopes -> {InitialBudget[s] : s \in Scopes}]
    /\ \A s \in Scopes : InitialBudget[s] = NoBudget \/ ValidConfig(InitialBudget[s])

-----------------------------------------------------------------------------
VARIABLES
    now,       \* the injected clock, in days
    budget,    \* BudgetStore: Scopes -> configuration or NoBudget
    ledger,    \* UsageStore: Requests -> createdAt of the record, or NoDay
    pc,        \* where each request is in enforce / recordUsage
    loc,       \* the local variables each request holds across its awaits
    verdict,   \* the decision enforce returned
    audit,     \* the alerts recorded in the audit log
    notified   \* the alerts delivered to the administrator

vars == <<now, budget, ledger, pc, loc, verdict, audit, notified>>

Enforcing == {"userSpend", "modelBudget", "modelCount", "teamBudget", "teamSpend"}
Recording == {"scopeBudget", "scopeSpend", "audit", "notify"}
Active == Enforcing \cup {"allowed"} \cup Recording
Stopped == {"denied", "abandoned", "recorded", "failed"}

InFlight == {r \in Requests : pc[r] \in Active}

\* start: the clock when enforce began; seen: the budget read last;
\* created: createdAt of the record; scope: index of the scope being checked;
\* alerts: crossings of that scope still to be reported.
NoLocals == [start |-> NoDay, seen |-> NoBudget, created |-> NoDay,
             scope |-> 0, alerts |-> <<>>]

-----------------------------------------------------------------------------
\* periodWindow / dayWindow: the days of the calendar period holding day d.
PeriodWindow(period, d) ==
    IF period = "day" THEN {d}
    ELSE {e \in Days : e \div MonthLength = d \div MonthLength}

Recorded(W) == {r \in Requests : ledger[r] \in W}

Cost(r) == Attribution[r].cost

\* consumedInWindow: the cost recorded against scope s in window W.
Consumed(s, W) == MapThenSumSet(Cost, {r \in Recorded(W) : Charged(r, s)})

\* The usage records of one user for one model on one day.
DailyMessages(u, m, d) ==
    {r \in Requests : ledger[r] = d /\ Attribution[r].user = u
                                    /\ Attribution[r].model = m}

\* Mutant of OverCap: spend exactly at the cap still passes.
OverCapStrictly(s, seen) ==
    seen # NoBudget /\ Consumed(s, PeriodWindow(seen.period, now)) > seen.limit

\* statusFor = 'at_or_over_cap', with 'no_budget' never over.
OverCap(s, seen) ==
    /\ seen # NoBudget
    /\ Consumed(s, PeriodWindow(seen.period, now)) >= seen.limit

Init ==
    /\ now = 0
    /\ budget = InitialBudget
    /\ ledger = [r \in Requests |-> NoDay]
    /\ pc = [r \in Requests |-> "idle"]
    /\ loc = [r \in Requests |-> NoLocals]
    /\ verdict = [r \in Requests |-> "none"]
    /\ audit = {}
    /\ notified = {}

-----------------------------------------------------------------------------
(* enforce: user cap, then the model's daily limit, then the team cap.     *)

Goto(r, label) == pc' = [pc EXCEPT ![r] = label]

\* enforce up to evaluate's getBudget for the user scope.
BeginEnforce(r) ==
    /\ pc[r] = "idle"
    /\ Cardinality(InFlight) < MaxInFlight
    /\ loc' = [loc EXCEPT ![r].start = now, ![r].seen = budget[UserScope(r)]]
    /\ Goto(r, "userSpend")
    /\ UNCHANGED <<now, budget, ledger, verdict, audit, notified>>

Deny(r, kind) ==
    /\ verdict' = [verdict EXCEPT ![r] = kind]
    /\ loc' = [loc EXCEPT ![r] = NoLocals]
    /\ Goto(r, "denied")

Allow(r) ==
    /\ verdict' = [verdict EXCEPT ![r] = "allow"]
    /\ loc' = [loc EXCEPT ![r] = NoLocals]
    /\ Goto(r, "allowed")

Continue(r, label) ==
    /\ Goto(r, label)
    /\ UNCHANGED <<loc, verdict>>

CheckUserCap(r) ==
    /\ pc[r] = "userSpend"
    /\ IF OverCap(UserScope(r), loc[r].seen)
       THEN Deny(r, "block_user_cap")
       ELSE Continue(r, "modelBudget")
    /\ UNCHANGED <<now, budget, ledger, audit, notified>>

\* A request of no team skips the third check and is allowed at once.
TeamCheck(r) == IF HasTeam(r) THEN Continue(r, "teamBudget") ELSE Allow(r)

\* The user budget is read a second time, for the per-model limits.
ReadModelLimit(r) ==
    LET b == budget[UserScope(r)] IN
    /\ pc[r] = "modelBudget"
    /\ IF b # NoBudget /\ b.modelLimit[Attribution[r].asked] # Unlimited
       THEN /\ loc' = [loc EXCEPT ![r].seen = b]
            /\ Goto(r, "modelCount")
            /\ UNCHANGED verdict
       ELSE TeamCheck(r)
    /\ UNCHANGED <<now, budget, ledger, audit, notified>>

\* The messages counted are those of the day on which enforce started.
SentToday(r) == DailyMessages(Attribution[r].user, Attribution[r].asked, loc[r].start)

DailyLimit(r) == loc[r].seen.modelLimit[Attribution[r].asked]

\* Mutant of OverDailyLimit: one message too many is let through.
OverDailyLimitLate(r) == Cardinality(SentToday(r)) > DailyLimit(r)

OverDailyLimit(r) == Cardinality(SentToday(r)) >= DailyLimit(r)

CheckModelLimit(r) ==
    /\ pc[r] = "modelCount"
    /\ IF OverDailyLimit(r)
       THEN Deny(r, "reject_model_daily_limit")
       ELSE TeamCheck(r)
    /\ UNCHANGED <<now, budget, ledger, audit, notified>>

ReadTeamBudget(r) ==
    /\ pc[r] = "teamBudget"
    /\ loc' = [loc EXCEPT ![r].seen = budget[TeamScope(r)]]
    /\ Goto(r, "teamSpend")
    /\ UNCHANGED <<now, budget, ledger, verdict, audit, notified>>

RestrictedToEconomy(r) == OverCap(TeamScope(r), loc[r].seen) /\ ~Attribution[r].economy

CheckTeamCap(r) ==
    /\ pc[r] = "teamSpend"
    /\ IF RestrictedToEconomy(r)
       THEN Deny(r, "restrict_to_economy")
       ELSE Allow(r)
    /\ UNCHANGED <<now, budget, ledger, audit, notified>>

\* A store of enforce rejects: nothing was decided, the caller's request is over.
EnforceFails(r) ==
    /\ pc[r] \in Enforcing
    /\ loc' = [loc EXCEPT ![r] = NoLocals]
    /\ Goto(r, "abandoned")
    /\ UNCHANGED <<now, budget, ledger, verdict, audit, notified>>

-----------------------------------------------------------------------------
(* recordUsage: append, then for each scope detectCrossings and report.    *)

\* The caller of an allowed request fails before it reaches recordUsage, or
\* usage.append rejects: the request leaves no record.
Abandon(r) ==
    /\ pc[r] = "allowed"
    /\ Goto(r, "abandoned")
    /\ UNCHANGED <<now, budget, ledger, loc, verdict, audit, notified>>

AppendUsage(r) ==
    /\ pc[r] = "allowed"
    /\ ledger' = [ledger EXCEPT ![r] = now]
    /\ loc' = [loc EXCEPT ![r].created = now, ![r].scope = 1]
    /\ Goto(r, "scopeBudget")
    /\ UNCHANGED <<now, budget, verdict, audit, notified>>

CurrentScope(r) == ScopesOf(r)[loc[r].scope]

\* Go to the next scope of the loop, or return when there is none.
NextScope(r) ==
    IF loc[r].scope < Len(ScopesOf(r))
    THEN /\ loc' = [loc EXCEPT ![r].scope = @ + 1, ![r].seen = NoBudget,
                               ![r].alerts = <<>>]
         /\ Goto(r, "scopeBudget")
    ELSE /\ loc' = [loc EXCEPT ![r] = NoLocals]
         /\ Goto(r, "recorded")

\* detectCrossings reads the budget: no budget or no cost reports nothing.
ReadScopeBudget(r) ==
    LET b == budget[CurrentScope(r)] IN
    /\ pc[r] = "scopeBudget"
    /\ IF b = NoBudget \/ Cost(r) = 0
       THEN NextScope(r)
       ELSE /\ loc' = [loc EXCEPT ![r].seen = b]
            /\ Goto(r, "scopeSpend")
    /\ UNCHANGED <<now, budget, ledger, verdict, audit, notified>>

\* Mutant of Crossed: reported by every request past the amount.
CrossedEver(before, after, amount) == after >= amount

\* Mutant of Crossed: landing exactly on the amount is not a crossing.
CrossedBeyond(before, after, amount) == before < amount /\ after > amount

Crossed(before, after, amount) == before < amount /\ after >= amount

\* The alerts of a scope whose spend went from after - cost to after.
Crossings(seen, cost, after) ==
    LET before == after - cost IN
    (IF Crossed(before, after, seen.threshold) THEN <<"threshold_warning">> ELSE <<>>)
    \o (IF Crossed(before, after, seen.limit) THEN <<"cap_reached">> ELSE <<>>)

\* detectCrossings totals the window: every record stored by now counts,
\* not just those that were there when this request's record was appended.
DetectCrossings(r) ==
    LET seen == loc[r].seen
        after == Consumed(CurrentScope(r), PeriodWindow(seen.period, loc[r].created))
        found == Crossings(seen, Cost(r), after) IN
    /\ pc[r] = "scopeSpend"
    /\ IF found = <<>>
       THEN NextScope(r)
       ELSE /\ loc' = [loc EXCEPT ![r].alerts = found]
            /\ Goto(r, "audit")
    /\ UNCHANGED <<now, budget, ledger, verdict, audit, notified>>

Alert(r) ==
    [kind |-> Head(loc[r].alerts), request |-> r, scope |-> CurrentScope(r),
     window |-> PeriodWindow(loc[r].seen.period, loc[r].created)]

AuditAlert(r) ==
    /\ pc[r] = "audit"
    /\ audit' = audit \cup {Alert(r)}
    /\ Goto(r, "notify")
    /\ UNCHANGED <<now, budget, ledger, loc, verdict, notified>>

NotifyAlert(r) ==
    /\ pc[r] = "notify"
    /\ notified' = notified \cup {Alert(r)}
    /\ IF Len(loc[r].alerts) > 1
       THEN /\ loc' = [loc EXCEPT ![r].alerts = Tail(@)]
            /\ Goto(r, "audit")
       ELSE NextScope(r)
    /\ UNCHANGED <<now, budget, ledger, verdict, audit>>

\* Whichever call recordUsage awaits after its append rejects, budgets.get,
\* usage.list, audit.record or notifier.notify, it ends there: the later alerts and
\* scopes of this record are never reported.
RecordFails(r) ==
    /\ pc[r] \in Recording
    /\ Goto(r, "failed")
    /\ UNCHANGED <<now, budget, ledger, loc, verdict, audit, notified>>

-----------------------------------------------------------------------------
\* setBudget: an invalid configuration is refused, a valid one replaces it.
SetBudget(s) ==
    \E c \in Reconfigs[s] :
        /\ ValidConfig(c)
        /\ budget' = [budget EXCEPT ![s] = c]
        /\ UNCHANGED <<now, ledger, pc, loc, verdict, audit, notified>>

NextDay ==
    /\ now < MaxDay
    /\ now' = now + 1
    /\ UNCHANGED <<budget, ledger, pc, loc, verdict, audit, notified>>

Enforce(r) ==
    \/ BeginEnforce(r)
    \/ CheckUserCap(r)
    \/ ReadModelLimit(r)
    \/ CheckModelLimit(r)
    \/ ReadTeamBudget(r)
    \/ CheckTeamCap(r)

RecordUsage(r) ==
    \/ AppendUsage(r)
    \/ ReadScopeBudget(r)
    \/ DetectCrossings(r)
    \/ AuditAlert(r)
    \/ NotifyAlert(r)

Fails(r) == EnforceFails(r) \/ Abandon(r) \/ RecordFails(r)

Next ==
    \/ \E r \in Requests : Enforce(r) \/ RecordUsage(r) \/ Fails(r)
    \/ \E s \in Scopes : SetBudget(s)
    \/ NextDay

Spec == Init /\ [][Next]_vars

\* The same manager with stores and a notifier that never reject and a caller that
\* always records what it spent; every request the service accepted is carried on.
ReliableNext ==
    \/ \E r \in Requests : Enforce(r) \/ RecordUsage(r)
    \/ \E s \in Scopes : SetBudget(s)
    \/ NextDay

ReliableSpec ==
    /\ Init /\ [][ReliableNext]_vars
    /\ \A r \in Requests : WF_vars(Enforce(r) \/ RecordUsage(r))

-----------------------------------------------------------------------------
(* Properties.                                                             *)

Labels == {"idle"} \cup Active \cup Stopped
AlertKinds == {"threshold_warning", "cap_reached"}
Verdicts == {"none", "allow", "block_user_cap", "reject_model_daily_limit",
             "restrict_to_economy"}

\* Every budget a scope can ever hold.
Reachable(s) == {InitialBudget[s]} \cup {c \in Reconfigs[s] : ValidConfig(c)}

StoredBudgets == {NoBudget} \cup UNION {Reachable(s) : s \in Scopes}

Locals == [start : Days \cup {NoDay}, seen : StoredBudgets,
           created : Days \cup {NoDay}, scope : Nat, alerts : Seq(AlertKinds)]

\* The stores and the locals of every request keep their shape: a stored
\* budget is always a validated one, and a request past its append keeps
\* createdAt and a scope index inside its list of scopes.
TypeOK ==
    /\ now \in Days
    /\ budget \in [Scopes -> StoredBudgets]
    /\ \A s \in Scopes : budget[s] \in Reachable(s)
    /\ ledger \in [Requests -> Days \cup {NoDay}]
    /\ pc \in [Requests -> Labels]
    /\ verdict \in [Requests -> Verdicts]
    /\ loc \in [Requests -> Locals]
    /\ \A r \in Requests :
          /\ pc[r] \in Recording => /\ loc[r].created # NoDay
                                    /\ loc[r].scope \in 1..Len(ScopesOf(r))
          /\ pc[r] \in {"audit", "notify"} => loc[r].alerts # <<>>
          /\ pc[r] \in {"teamBudget", "teamSpend"} => HasTeam(r)

MaxCost(s) == Max({0} \cup {Cost(r) : r \in {q \in Requests : Charged(q, s)}})

\* The hard limit that holds whatever setBudget did: every budget the scope
\* can hold has a limit, of at most l.
CapAtMost(s, l) == \A c \in Reachable(s) : c # NoBudget /\ c.limit <= l

ModelLimitAtMost(s, m, l) ==
    \A c \in Reachable(s) :
        c # NoBudget /\ c.modelLimit[m] # Unlimited /\ c.modelLimit[m] <= l

Periods(s) == {c.period : c \in Reachable(s) \ {NoBudget}}
Limits(s) == {c.limit : c \in Reachable(s) \ {NoBudget}}

\* What a cap restricts: a team at its cap may spend on on Economy models only.
Restricted(s) == {r \in Requests : Charged(r, s) /\ (s.level = "team" => ~Attribution[r].economy)}

\* The caps of users and teams that bind whatever setBudget does, with the spend
\* each can reach in a period: by the requests in flight when it was reached.
Overshoots ==
    UNION {{[by |-> Restricted(s), windows |-> {PeriodWindow(p, d) : d \in Days},
             spend |-> l + MaxInFlight * MaxCost(s)] :
               l \in {x \in Limits(s) : CapAtMost(s, x)},
               p \in {x \in Periods(s) : Periods(s) = {x}}} :
           s \in {t \in Scopes : t.level \in {"user", "team"}}}

\* enforce and recordUsage are not one atomic step, so a cap can be overshot, also
\* across a period boundary; but never by more than the requests in flight, and
\* not at all where the cap is zero and no request has passed it.
SpendOvershootBounded ==
    \A o \in Overshoots : \A W \in o.windows :
        LET spent == MapThenSumSet(Cost, Recorded(W) \cap o.by) IN
        spent = 0 \/ spent < o.spend

Users == {Attribution[r].user : r \in Requests}
UserRef(u) == [level |-> "user", ref |-> u]
ModelLimits(s, m) ==
    {c.modelLimit[m] : c \in Reachable(s) \ {NoBudget}} \ {Unlimited}

\* enforce is asked about the very model that answers the user's requests.
AskedByName(u, m) ==
    \A r \in Requests :
        Attribution[r].user = u /\ Attribution[r].model = m => Attribution[r].asked = m

\* l bounds every limit that enforce ever applies to the user's messages to m.
Binding(u, m, l) == ModelLimitAtMost(UserRef(u), m, l) /\ AskedByName(u, m)

\* A user never sends more messages to a model on one day than the daily limit
\* plus the requests in flight, even when a request is enforced on one day and
\* recorded on the next, as long as enforce is asked about that model by name.
DailyMessagesBounded ==
    \A u \in Users, m \in Models : \A l \in ModelLimits(UserRef(u), m) :
        Binding(u, m, l) =>
            \A d \in Days : Cardinality(DailyMessages(u, m, d)) < l + MaxInFlight

\* "So a crossing is reported once, not on every subsequent request": one alert
\* of a kind per scope and period, as long as the budget is not reconfigured.
AlertReportedOnce ==
    \A a, b \in audit :
        ( /\ a.kind = b.kind /\ a.scope = b.scope /\ a.window = b.window
          /\ Reconfigs[a.scope] = {} ) => a = b

\* A call of recordUsage rejected before it had gone by scope s of its record.
CutShort(r, s) ==
    /\ pc[r] = "failed"
    /\ \E i \in 1..Len(ScopesOf(r)) : ScopesOf(r)[i] = s /\ loc[r].scope <= i

\* recordUsage notifies the administrator "for any scope whose spend crossed its
\* alert threshold or cap as a result": once no request is in flight, every scope
\* whose spend is past one of its amounts has been reported, unless a store, the
\* audit log or the notifier rejected while a record of that scope and period was
\* being reported, before that scope was done.
CrossingReported ==
    InFlight = {} =>
        \A s \in Scopes, d \in Days :
            (budget[s] # NoBudget /\ Reconfigs[s] = {}) =>
                LET W == PeriodWindow(budget[s].period, d)
                    Past(amount) == amount > 0 /\ Consumed(s, W) >= amount
                    Reported(kind) ==
                        \/ \E a \in notified : a.kind = kind /\ a.scope = s /\ a.window = W
                        \/ \E r \in Recorded(W) : CutShort(r, s) IN
                /\ Past(budget[s].threshold) => Reported("threshold_warning")
                /\ Past(budget[s].limit) => Reported("cap_reached")
=============================================================================
