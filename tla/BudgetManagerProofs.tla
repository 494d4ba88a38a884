------------------------ MODULE BudgetManagerProofs ------------------------
(***************************************************************************)
(* Proofs about BudgetManager, for every set of requests, every budget and *)
(* every limit: the overshoot of the daily message limits and of the spend *)
(* caps, and, for requests that come one after another, the alerts.  The   *)
(* invariants of the two limits count what is already recorded together    *)
(* with the requests that may still be recorded without another check.     *)
(***************************************************************************)
EXTENDS BudgetManager, FiniteSetTheorems, SequenceTheorems, TLAPS

-----------------------------------------------------------------------------
(* Type correctness.                                                       *)

\* The list of scopes of a record is a non-empty sequence of known scopes.
LEMMA ScopesOfType ==
    ASSUME NEW r \in Requests
    PROVE  ScopesOf(r) \in Seq(Scopes) /\ Len(ScopesOf(r)) \in Nat \ {0}
<1> DEFINE S == Scopes
           a == <<OrgScope>>
           b == IF HasTeam(r) THEN <<TeamScope(r)>> ELSE <<>>
           c == IF HasProject(r) THEN <<ProjectScope(r)>> ELSE <<>>
           d == <<UserScope(r)>>
<1>1. a \in Seq(S) /\ b \in Seq(S) /\ c \in Seq(S) /\ d \in Seq(S) /\ Len(a) = 1
  <2>1. /\ OrgScope \in S /\ UserScope(r) \in S
        /\ HasTeam(r) => TeamScope(r) \in S
        /\ HasProject(r) => ProjectScope(r) \in S
    BY BudgetAssumption
  <2> HIDE DEF S
  <2> QED  BY <2>1
<1>2. ScopesOf(r) = ((a \o b) \o c) \o d
  BY DEF ScopesOf
<1> HIDE DEF S, a, b, c, d
<1>3. \A s, t \in Seq(S) : s \o t \in Seq(S) /\ Len(s \o t) = Len(s) + Len(t)
  BY ConcatProperties
<1>4. \A s \in Seq(S) : Len(s) \in Nat
  BY LenProperties
<1>5. a \o b \in Seq(S) /\ Len(a \o b) \in Nat \ {0}
  BY <1>1, <1>3, <1>4
<1>6. (a \o b) \o c \in Seq(S) /\ Len((a \o b) \o c) \in Nat \ {0}
  <2> DEFINE ab == a \o b
  <2> HIDE DEF ab
  <2>1. ab \in Seq(S) /\ Len(ab) \in Nat \ {0}
    BY <1>5 DEF ab
  <2>2. ab \o c \in Seq(S) /\ Len(ab \o c) = Len(ab) + Len(c) /\ Len(c) \in Nat
    BY <2>1, <1>1, <1>3, <1>4
  <2> QED  BY <2>1, <2>2 DEF ab
<1>7. ((a \o b) \o c) \o d \in Seq(S) /\ Len(((a \o b) \o c) \o d) \in Nat \ {0}
  <2> DEFINE abc == (a \o b) \o c
  <2> HIDE DEF abc
  <2>1. abc \in Seq(S) /\ Len(abc) \in Nat \ {0}
    BY <1>6 DEF abc
  <2>2. abc \o d \in Seq(S) /\ Len(abc \o d) = Len(abc) + Len(d) /\ Len(d) \in Nat
    BY <2>1, <1>1, <1>3, <1>4
  <2> QED  BY <2>1, <2>2 DEF abc
<1> QED  BY <1>2, <1>7 DEF S

\* At most two alerts are found, each of a known kind.
LEMMA CrossingsType ==
    ASSUME NEW seen, NEW cost, NEW after
    PROVE  Crossings(seen, cost, after) \in Seq(AlertKinds)
<1>1. /\ <<>> \in Seq(AlertKinds)
      /\ <<"threshold_warning">> \in Seq(AlertKinds)
      /\ <<"cap_reached">> \in Seq(AlertKinds)
  BY DEF AlertKinds
<1>2. \A a, b \in Seq(AlertKinds) : a \o b \in Seq(AlertKinds)
  OBVIOUS
<1> QED  BY <1>1, <1>2 DEF Crossings

\* What every step of a request shares: only its own locals and label change.
StepTyped(r) ==
    /\ pc' \in [Requests -> Labels]
    /\ loc' \in [Requests -> Locals]
    /\ \A q \in Requests :
          /\ pc'[q] \in Recording => /\ loc'[q].created # NoDay
                                     /\ loc'[q].scope \in 1..Len(ScopesOf(q))
          /\ pc'[q] \in {"audit", "notify"} => loc'[q].alerts # <<>>
          /\ pc'[q] \in {"teamBudget", "teamSpend"} => HasTeam(q)

\* Going to the next scope of recordUsage keeps the locals well formed.
LEMMA NextScopeType ==
    ASSUME TypeOK, NEW r \in Requests, pc[r] \in Recording, NextScope(r)
    PROVE  StepTyped(r)
<1>1. Len(ScopesOf(r)) \in Nat
  BY ScopesOfType
<1>2. /\ NoLocals \in Locals  /\ NoBudget \in StoredBudgets
      /\ <<>> \in Seq(AlertKinds)
  BY DEF NoLocals, Locals, StoredBudgets
<1>3. loc[r] \in Locals /\ loc[r].scope \in 1..Len(ScopesOf(r)) /\ loc[r].created # NoDay
  BY DEF TypeOK
<1>4. CASE loc[r].scope < Len(ScopesOf(r))
  <2> DEFINE next == [loc[r] EXCEPT !.scope = @ + 1, !.seen = NoBudget, !.alerts = <<>>]
  <2>1. loc' = [loc EXCEPT ![r] = next] /\ pc' = [pc EXCEPT ![r] = "scopeBudget"]
    BY <1>4 DEF NextScope, Goto
  <2>2. loc[r].scope + 1 \in 1..Len(ScopesOf(r)) /\ loc[r].scope + 1 \in Nat
    BY <1>1, <1>3, <1>4
  <2>3. next \in Locals
    BY <1>2, <1>3, <2>2 DEF Locals
  <2>4. next.scope = loc[r].scope + 1 /\ next.created = loc[r].created
    BY <1>3 DEF Locals
  <2> HIDE DEF next
  <2> QED  BY <1>3, <2>1, <2>2, <2>3, <2>4 DEF TypeOK, StepTyped, Labels, Active, Recording, Enforcing
<1>5. CASE ~(loc[r].scope < Len(ScopesOf(r)))
  <2>1. loc' = [loc EXCEPT ![r] = NoLocals] /\ pc' = [pc EXCEPT ![r] = "recorded"]
    BY <1>5 DEF NextScope, Goto
  <2> QED  BY <2>1, <1>2 DEF TypeOK, StepTyped, Labels, Active, Stopped, Recording
<1> QED  BY <1>4, <1>5

\* Initially nothing is recorded and every scope has its initial budget.
LEMMA InitType == Init => TypeOK
<1> SUFFICES ASSUME Init PROVE TypeOK
  OBVIOUS
<1>1. NoLocals \in Locals /\ 0 \in Days
  BY BudgetAssumption DEF NoLocals, Locals, StoredBudgets, Days
<1>2. \A s \in Scopes : InitialBudget[s] \in Reachable(s)
  BY DEF Reachable
<1>3. budget \in [Scopes -> StoredBudgets] /\ \A s \in Scopes : budget[s] \in Reachable(s)
  <2>1. InitialBudget \in [Scopes -> {InitialBudget[s] : s \in Scopes}]
    BY BudgetAssumption
  <2>2. \A s \in Scopes : InitialBudget[s] \in StoredBudgets
    BY <1>2 DEF StoredBudgets
  <2> HIDE DEF Scopes
  <2> QED  BY <1>2, <2>1, <2>2 DEF Init
<1> QED  BY <1>1, <1>3 DEF Init, TypeOK, Labels, Verdicts, Active, Recording, Stopped, Enforcing

\* A step that gives r new, well-formed locals and a label that fits them.
LEMMA StepType ==
    ASSUME TypeOK, NEW r \in Requests, NEW label \in Labels, NEW l \in Locals,
           pc' = [pc EXCEPT ![r] = label], loc' = [loc EXCEPT ![r] = l],
           label \in Recording => l.created # NoDay /\ l.scope \in 1..Len(ScopesOf(r)),
           label \in {"audit", "notify"} => l.alerts # <<>>,
           label \in {"teamBudget", "teamSpend"} => HasTeam(r)
    PROVE  StepTyped(r)
  BY DEF TypeOK, StepTyped

\* A step that moves r without touching its locals.
LEMMA MoveType ==
    ASSUME TypeOK, NEW r \in Requests, NEW label \in Labels,
           pc' = [pc EXCEPT ![r] = label], loc' = loc,
           label \in Recording => pc[r] \in Recording,
           label \in {"audit", "notify"} => pc[r] \in {"audit", "notify"},
           label \in {"teamBudget", "teamSpend"} => HasTeam(r)
    PROVE  StepTyped(r)
  BY DEF TypeOK, StepTyped

\* Every action of enforce keeps the types.
LEMMA EnforceType ==
    ASSUME TypeOK, NEW r \in Requests, Enforce(r)
    PROVE  StepTyped(r) /\ verdict' \in [Requests -> Verdicts]
<1> USE DEF Labels, Active, Enforcing, Recording, Stopped, Goto
<1>1. NoLocals \in Locals
  BY DEF NoLocals, Locals, StoredBudgets
<1>2. loc[r] \in Locals /\ now \in Days /\ verdict \in [Requests -> Verdicts]
  BY DEF TypeOK
<1>3. \A s : budget[s] \in StoredBudgets \/ s \notin Scopes
  BY DEF TypeOK
<1>4. UserScope(r) \in Scopes /\ (HasTeam(r) => TeamScope(r) \in Scopes)
  BY BudgetAssumption
<1>5. ASSUME NEW kind \in Verdicts, Deny(r, kind)
      PROVE  StepTyped(r) /\ verdict' \in [Requests -> Verdicts]
  BY <1>1, <1>2, <1>5, StepType DEF Deny
<1>6. ASSUME Allow(r)  PROVE  StepTyped(r) /\ verdict' \in [Requests -> Verdicts]
  BY <1>1, <1>2, <1>6, StepType DEF Allow, Verdicts
<1>7. ASSUME NEW label \in Enforcing, Continue(r, label),
             label \in {"teamBudget", "teamSpend"} => HasTeam(r)
      PROVE  StepTyped(r) /\ verdict' \in [Requests -> Verdicts]
  BY <1>2, <1>7, MoveType DEF Continue
<1>8. ASSUME TeamCheck(r)  PROVE  StepTyped(r) /\ verdict' \in [Requests -> Verdicts]
  BY <1>6, <1>7, <1>8 DEF TeamCheck
<1>9. CASE BeginEnforce(r)
  <2> DEFINE l == [loc[r] EXCEPT !.start = now, !.seen = budget[UserScope(r)]]
  <2>1. l \in Locals
    BY <1>2, <1>3, <1>4 DEF Locals, TypeOK
  <2>2. loc' = [loc EXCEPT ![r] = l] /\ pc' = [pc EXCEPT ![r] = "userSpend"]
    BY <1>9 DEF BeginEnforce
  <2> HIDE DEF l
  <2> QED  BY <1>2, <1>9, <2>1, <2>2, StepType DEF BeginEnforce
<1>10. CASE CheckUserCap(r)
  BY <1>5, <1>7, <1>10 DEF CheckUserCap, Verdicts
<1>11. CASE ReadModelLimit(r)
  <2> DEFINE b == budget[UserScope(r)]
             l == [loc[r] EXCEPT !.seen = b]
  <2>1. l \in Locals
    BY <1>2, <1>3, <1>4 DEF Locals
  <2>2. \/ /\ loc' = [loc EXCEPT ![r] = l] /\ pc' = [pc EXCEPT ![r] = "modelCount"]
           /\ UNCHANGED verdict
        \/ TeamCheck(r)
    BY <1>11 DEF ReadModelLimit
  <2> HIDE DEF l
  <2> QED  BY <1>2, <1>8, <2>1, <2>2, StepType
<1>12. CASE CheckModelLimit(r)
  BY <1>5, <1>8, <1>12 DEF CheckModelLimit, Verdicts
<1>13. CASE ReadTeamBudget(r)
  <2> DEFINE l == [loc[r] EXCEPT !.seen = budget[TeamScope(r)]]
  <2>0. pc[r] = "teamBudget"
    BY <1>13 DEF ReadTeamBudget
  <2>1. budget[TeamScope(r)] \in StoredBudgets /\ HasTeam(r)
    BY <1>3, <1>4, <2>0 DEF TypeOK
  <2>2. l \in Locals
    BY <1>2, <2>1 DEF Locals
  <2>3. loc' = [loc EXCEPT ![r] = l] /\ pc' = [pc EXCEPT ![r] = "teamSpend"]
    BY <1>13 DEF ReadTeamBudget
  <2> HIDE DEF l
  <2> QED  BY <1>2, <1>13, <2>1, <2>2, <2>3, StepType DEF ReadTeamBudget
<1>14. CASE CheckTeamCap(r)
  BY <1>5, <1>6, <1>14 DEF CheckTeamCap, Verdicts
<1> QED  BY <1>9, <1>10, <1>11, <1>12, <1>13, <1>14 DEF Enforce

\* Every action of recordUsage keeps the types.
LEMMA RecordUsageType ==
    ASSUME TypeOK, NEW r \in Requests, RecordUsage(r) \/ Fails(r)
    PROVE  StepTyped(r)
<1> USE DEF Labels, Active, Enforcing, Recording, Stopped, Goto
<1>1. NoLocals \in Locals
  BY DEF NoLocals, Locals, StoredBudgets
<1>2. loc[r] \in Locals /\ now \in Days /\ Len(ScopesOf(r)) \in Nat \ {0}
  BY ScopesOfType DEF TypeOK
<1>3. CASE AppendUsage(r)
  <2> DEFINE l == [loc[r] EXCEPT !.created = now, !.scope = 1]
  <2>1. l \in Locals /\ l.created = now /\ l.scope = 1
    BY <1>2 DEF Locals
  <2>2. loc' = [loc EXCEPT ![r] = l] /\ pc' = [pc EXCEPT ![r] = "scopeBudget"]
    BY <1>3 DEF AppendUsage
  <2>3. now # NoDay
    BY <1>2, BudgetAssumption DEF Days, NoDay
  <2>4. l.scope \in 1..Len(ScopesOf(r)) /\ l.created # NoDay
    BY <1>2, <2>1, <2>3
  <2> HIDE DEF l
  <2> QED  BY <2>1, <2>2, <2>4, StepType
<1>4. CASE ReadScopeBudget(r)
  <2> DEFINE b == budget[CurrentScope(r)]
             l == [loc[r] EXCEPT !.seen = b]
  <2>1. pc[r] = "scopeBudget" /\ loc[r].scope \in 1..Len(ScopesOf(r)) /\ loc[r].created # NoDay
    BY <1>4 DEF ReadScopeBudget, TypeOK
  <2>2. CurrentScope(r) \in Scopes
    BY <2>1, ScopesOfType, ElementOfSeq DEF CurrentScope
  <2>3. b \in StoredBudgets
    BY <2>2 DEF TypeOK
  <2>4. l \in Locals /\ l.created = loc[r].created /\ l.scope = loc[r].scope
    BY <1>2, <2>3 DEF Locals
  <2>5. NextScope(r) \/ ( /\ loc' = [loc EXCEPT ![r] = l]
                          /\ pc' = [pc EXCEPT ![r] = "scopeSpend"])
    BY <1>4 DEF ReadScopeBudget
  <2> HIDE DEF l
  <2> QED  BY <2>1, <2>4, <2>5, StepType, NextScopeType
<1>5. CASE DetectCrossings(r)
  <2> DEFINE found == Crossings(loc[r].seen, Cost(r),
                         Consumed(CurrentScope(r),
                                  PeriodWindow(loc[r].seen.period, loc[r].created)))
             l == [loc[r] EXCEPT !.alerts = found]
  <2>1. pc[r] = "scopeSpend" /\ loc[r].scope \in 1..Len(ScopesOf(r)) /\ loc[r].created # NoDay
    BY <1>5 DEF DetectCrossings, TypeOK
  <2>2. found \in Seq(AlertKinds)
    BY CrossingsType
  <2>3. \/ NextScope(r)
        \/ /\ loc' = [loc EXCEPT ![r] = l] /\ found # <<>>
           /\ pc' = [pc EXCEPT ![r] = "audit"]
    BY <1>5 DEF DetectCrossings
  <2> HIDE DEF found
  <2>4. /\ l \in Locals /\ l.created = loc[r].created /\ l.scope = loc[r].scope
        /\ l.alerts = found
    BY <1>2, <2>2 DEF Locals
  <2> HIDE DEF l
  <2> QED  BY <2>1, <2>3, <2>4, StepType, NextScopeType
<1>6. CASE AuditAlert(r)
  BY <1>6, MoveType DEF AuditAlert
<1>7. CASE NotifyAlert(r)
  <2> DEFINE l == [loc[r] EXCEPT !.alerts = Tail(loc[r].alerts)]
  <2>1. /\ pc[r] = "notify" /\ loc[r].scope \in 1..Len(ScopesOf(r))
        /\ loc[r].created # NoDay /\ loc[r].alerts \in Seq(AlertKinds)
    BY <1>2, <1>7 DEF NotifyAlert, TypeOK, Locals
  <2>2. CASE Len(loc[r].alerts) > 1
    <3>1. Tail(loc[r].alerts) \in Seq(AlertKinds) /\ Tail(loc[r].alerts) # <<>>
      <4> DEFINE t == loc[r].alerts
      <4>1. t \in Seq(AlertKinds) /\ Len(t) > 1
        BY <2>1, <2>2
      <4> HIDE DEF t
      <4>2. Tail(t) \in Seq(AlertKinds) /\ Len(Tail(t)) = Len(t) - 1 /\ Len(t) \in Nat
        BY <4>1
      <4>3. Len(<<>>) = 0 /\ Len(Tail(t)) # 0
        BY <4>1, <4>2
      <4> QED  BY <4>2, <4>3, Zenon DEF t
    <3>2. /\ l \in Locals /\ l.created = loc[r].created /\ l.scope = loc[r].scope
          /\ l.alerts = Tail(loc[r].alerts)
      BY <1>2, <3>1 DEF Locals
    <3>3. loc' = [loc EXCEPT ![r] = l] /\ pc' = [pc EXCEPT ![r] = "audit"]
      BY <1>7, <2>2 DEF NotifyAlert
    <3> HIDE DEF l
    <3> QED  BY <2>1, <3>1, <3>2, <3>3, StepType
  <2>3. CASE ~(Len(loc[r].alerts) > 1)
    BY <1>7, <2>1, <2>3, NextScopeType DEF NotifyAlert
  <2> QED  BY <2>2, <2>3
<1>8. CASE EnforceFails(r)
  BY <1>1, <1>8, StepType DEF EnforceFails
<1>9. CASE Abandon(r) \/ RecordFails(r)
  BY <1>9, MoveType DEF Abandon, RecordFails
<1> QED  BY <1>3, <1>4, <1>5, <1>6, <1>7, <1>8, <1>9 DEF RecordUsage, Fails

\* The other variables keep their types in every step.
LEMMA NextType == TypeOK /\ [Next]_vars => TypeOK'
<1> SUFFICES ASSUME TypeOK, [Next]_vars PROVE TypeOK'
  OBVIOUS
<1>1. ASSUME NEW r \in Requests, Enforce(r)  PROVE TypeOK'
  <2>1. UNCHANGED <<now, budget, ledger>>
    BY <1>1 DEF Enforce, BeginEnforce, CheckUserCap, ReadModelLimit, CheckModelLimit,
                ReadTeamBudget, CheckTeamCap
  <2> QED  BY <1>1, <2>1, EnforceType DEF TypeOK, StepTyped
<1>2. ASSUME NEW r \in Requests, RecordUsage(r) \/ Fails(r)
      PROVE  TypeOK'
  <2>1. /\ UNCHANGED <<now, budget, verdict>>
        /\ ledger' = ledger \/ ledger' = [ledger EXCEPT ![r] = now]
    BY <1>2 DEF RecordUsage, AppendUsage, ReadScopeBudget, DetectCrossings, AuditAlert,
                NotifyAlert, Fails, EnforceFails, RecordFails, Abandon
  <2> QED  BY <1>2, <2>1, RecordUsageType DEF TypeOK, StepTyped
<1>3. ASSUME NEW s \in Scopes, SetBudget(s)  PROVE TypeOK'
  <2>1. PICK c \in Reconfigs[s] : ValidConfig(c) /\ budget' = [budget EXCEPT ![s] = c]
                                  /\ UNCHANGED <<now, ledger, pc, loc, verdict>>
    BY <1>3 DEF SetBudget
  <2>2. c \in Reachable(s) /\ c \in StoredBudgets
    BY <2>1 DEF Reachable, StoredBudgets
  <2> QED  BY <2>1, <2>2 DEF TypeOK
<1>4. ASSUME NextDay  PROVE TypeOK'
  BY <1>4, BudgetAssumption DEF NextDay, TypeOK, Days
<1>5. ASSUME UNCHANGED vars  PROVE TypeOK'
  BY <1>5 DEF vars, TypeOK
<1> QED  BY <1>1, <1>2, <1>3, <1>4, <1>5 DEF Next

\* Type correctness of the Budget_Manager.
THEOREM TypeCorrect == Spec => []TypeOK
<1>1. Init => TypeOK
  BY InitType
<1>2. TypeOK /\ [Next]_vars => TypeOK'
  BY NextType
<1> QED  BY <1>1, <1>2, PTL DEF Spec

-----------------------------------------------------------------------------
(* Sums of costs.  MapThenSumSet is a recursive function over subsets, so   *)
(* what it computes is shown by taking a minimal counterexample.            *)

\* A set of subsets of a finite set has a minimal one.
LEMMA MinimalSubset ==
    ASSUME NEW S, IsFiniteSet(S), NEW B \in SUBSET (SUBSET S), B # {}
    PROVE  \E T \in B : \A U \in SUBSET T : U # T => U \notin B
<1>1. IsWellFoundedOn(StrictSubsetOrdering(S), SUBSET S)
  BY FS_StrictSubsetOrderingWellFounded, FS_FiniteSubsetsOfFinite
<1>2. PICK T \in B : \A U \in B : <<U, T>> \notin StrictSubsetOrdering(S)
  BY <1>1, WFMin, Zenon
<1>3. ASSUME NEW U \in SUBSET T, U # T, U \in B PROVE FALSE
  BY <1>2, <1>3 DEF StrictSubsetOrdering
<1> QED  BY <1>3

Total(S) == MapThenSumSet(Cost, S)
First(t) == CHOOSE x \in t : TRUE
Sums(g, S) == g = [t \in SUBSET S |-> IF t = {} THEN 0 ELSE Cost(First(t)) + g[t \ {First(t)}]]

LEMMA TotalIs == ASSUME NEW S PROVE Total(S) = (CHOOSE g : Sums(g, S))[S]
BY DEF Total, MapThenSumSet, MapThenFoldSet, Sums, First

LEMMA FirstIn == ASSUME NEW t, t # {} PROVE First(t) \in t
BY DEF First

LEMMA SumsAgree ==
    ASSUME NEW S, IsFiniteSet(S), NEW T \in SUBSET S, NEW g, Sums(g, S), NEW h, Sums(h, T), NEW U \in SUBSET T
    PROVE  g[U] = h[U]
<1> DEFINE B == {V \in SUBSET T : g[V] # h[V]}
<1> SUFFICES ASSUME B # {} PROVE FALSE
  OBVIOUS
<1>1. PICK V \in B : \A W \in SUBSET V : W # V => W \notin B
  <2>1. IsFiniteSet(T) /\ B \in SUBSET (SUBSET T)
    BY FS_Subset
  <2> HIDE DEF B
  <2> QED  BY <2>1, MinimalSubset
<1>2. V \in SUBSET T /\ V \in SUBSET S /\ g[V] # h[V]
  OBVIOUS
<1>3. /\ g[V] = IF V = {} THEN 0 ELSE Cost(First(V)) + g[V \ {First(V)}]
      /\ h[V] = IF V = {} THEN 0 ELSE Cost(First(V)) + h[V \ {First(V)}]
  BY <1>2 DEF Sums
<1>4. V # {} /\ g[V \ {First(V)}] # h[V \ {First(V)}]
  BY <1>2, <1>3
<1>5. V \ {First(V)} # V /\ V \ {First(V)} \in SUBSET V
  BY <1>4, FirstIn
<1> QED  BY <1>1, <1>4, <1>5

LEMMA SumsExist ==
    ASSUME NEW S, IsFiniteSet(S)
    PROVE  \E g : Sums(g, S)
<1> DEFINE B == {V \in SUBSET S : ~ \E g : Sums(g, V)}
<1> SUFFICES ASSUME B # {} PROVE FALSE
  BY Zenon
<1>1. PICK V \in B : \A W \in SUBSET V : W # V => W \notin B
  <2>1. B \in SUBSET (SUBSET S)
    BY Zenon
  <2> HIDE DEF B
  <2> QED  BY <2>1, MinimalSubset
<1>2. V \in SUBSET S /\ ~ \E g : Sums(g, V)
  OBVIOUS
<1> DEFINE G(W) == CHOOSE g : Sums(g, W)
           f == [t \in SUBSET V |-> IF t = {} THEN 0 ELSE Cost(First(t)) + G(t \ {First(t)})[t \ {First(t)}]]
<1>3. ASSUME NEW W \in SUBSET V, W # V PROVE Sums(G(W), W) /\ IsFiniteSet(W)
  <2>1. \E g : Sums(g, W)
    BY <1>1, <1>2, <1>3
  <2> QED  BY <1>2, <2>1, FS_Subset
<1> HIDE DEF G
<1>4. ASSUME NEW W \in SUBSET V, W # V PROVE f[W] = G(W)[W]
  <2>0. Sums(G(W), W) /\ W \in SUBSET W
    BY <1>3, <1>4
  <2>1. CASE W = {}
    <3>1. G(W)[W] = 0
      BY <2>0, <2>1 DEF Sums
    <3> QED  BY <1>4, <2>1, <3>1
  <2>2. CASE W # {}
    <3>1. G(W)[W] = Cost(First(W)) + G(W)[W \ {First(W)}]
      BY <2>0, <2>2 DEF Sums
    <3>2. W \ {First(W)} \in SUBSET W /\ W \ {First(W)} \in SUBSET V /\ W \ {First(W)} # V
      BY <2>2, FirstIn
    <3>3. G(W)[W \ {First(W)}] = G(W \ {First(W)})[W \ {First(W)}]
      <4>1. Sums(G(W), W) /\ IsFiniteSet(W) /\ Sums(G(W \ {First(W)}), W \ {First(W)})
        BY <1>3, <1>4, <3>2
      <4>2. W \ {First(W)} \in SUBSET (W \ {First(W)})
        OBVIOUS
      <4> QED  BY <3>2, <4>1, <4>2, SumsAgree
    <3>4. f[W] = Cost(First(W)) + G(W \ {First(W)})[W \ {First(W)}]
      BY <2>2
    <3> QED  BY <3>1, <3>3, <3>4
  <2> QED  BY <2>1, <2>2
<1>5. ASSUME NEW t \in SUBSET V, t # {} PROVE f[t] = Cost(First(t)) + f[t \ {First(t)}]
  <2>1. t \ {First(t)} \in SUBSET V /\ t \ {First(t)} # V
    BY <1>5, FirstIn
  <2> QED  BY <1>4, <1>5, <2>1
<1>6. Sums(f, V)
  <2>1. \A t \in SUBSET V : f[t] = IF t = {} THEN 0 ELSE Cost(First(t)) + f[t \ {First(t)}]
    <3>1. \A t \in SUBSET V : t = {} => f[t] = 0
      OBVIOUS
    <3> HIDE DEF f
    <3> QED  BY <1>5, <3>1
  <2>2. f = [t \in SUBSET V |-> f[t]]
    OBVIOUS
  <2> HIDE DEF f
  <2> QED  BY <2>1, <2>2 DEF Sums
<1> QED  BY <1>2, <1>6

\* The sum unfolds at the element it chooses first.
LEMMA TotalUnfolds ==
    ASSUME NEW S, IsFiniteSet(S)
    PROVE  Total(S) = IF S = {} THEN 0 ELSE Cost(First(S)) + Total(S \ {First(S)})
<1>1. PICK g : g = (CHOOSE h : Sums(h, S)) /\ Sums(g, S)
  BY SumsExist
<1>2. Total(S) = g[S]
  BY <1>1, TotalIs
<1>3. g[S] = IF S = {} THEN 0 ELSE Cost(First(S)) + g[S \ {First(S)}]
  BY <1>1 DEF Sums
<1>4. ASSUME S # {} PROVE g[S \ {First(S)}] = Total(S \ {First(S)})
  <2>1. IsFiniteSet(S \ {First(S)})
    BY FS_RemoveElement
  <2>2. PICK T : T = S \ {First(S)}
    OBVIOUS
  <2>3. PICK k : k = (CHOOSE h : Sums(h, T)) /\ Sums(k, T)
    BY <2>1, <2>2, SumsExist
  <2>4. Total(T) = k[T]
    BY <2>3, TotalIs
  <2>5. g[T] = k[T]
    BY <1>1, <2>2, <2>3, SumsAgree
  <2> QED  BY <2>2, <2>4, <2>5
<1> QED  BY <1>2, <1>3, <1>4

LEMMA CostType == \A r \in Requests : Cost(r) \in Nat
BY BudgetAssumption DEF Cost

LEMMA TotalType ==
    ASSUME NEW S \in SUBSET Requests
    PROVE  Total(S) \in Nat
<1> DEFINE B == {V \in SUBSET Requests : Total(V) \notin Nat}
<1> SUFFICES ASSUME B # {} PROVE FALSE
  OBVIOUS
<1>0. IsFiniteSet(Requests)
  BY BudgetAssumption
<1>1. PICK V \in B : \A W \in SUBSET V : W # V => W \notin B
  <2>1. B \in SUBSET (SUBSET Requests)
    OBVIOUS
  <2> HIDE DEF B
  <2> QED  BY <1>0, <2>1, MinimalSubset
<1>2. V \in SUBSET Requests /\ Total(V) \notin Nat /\ IsFiniteSet(V)
  BY <1>0, FS_Subset
<1>3. V # {} /\ Total(V) = Cost(First(V)) + Total(V \ {First(V)})
  BY <1>2, TotalUnfolds
<1>4. First(V) \in V /\ Cost(First(V)) \in Nat
  BY <1>2, <1>3, FirstIn, CostType
<1>5. Total(V \ {First(V)}) \in Nat
  BY <1>1, <1>2, <1>4
<1> QED  BY <1>2, <1>3, <1>4, <1>5

\* The order does not matter: any element can be taken out of the sum.
LEMMA TotalWithout ==
    ASSUME NEW S \in SUBSET Requests, NEW r \in S
    PROVE  Total(S) = Cost(r) + Total(S \ {r})
<1> DEFINE B == {V \in SUBSET Requests : \E q \in V : Total(V) # Cost(q) + Total(V \ {q})}
<1> SUFFICES ASSUME B # {} PROVE FALSE
  OBVIOUS
<1>0. IsFiniteSet(Requests)
  BY BudgetAssumption
<1>1. PICK V \in B : \A W \in SUBSET V : W # V => W \notin B
  <2>1. B \in SUBSET (SUBSET Requests)
    OBVIOUS
  <2> HIDE DEF B
  <2> QED  BY <1>0, <2>1, MinimalSubset
<1>2. PICK q \in V : Total(V) # Cost(q) + Total(V \ {q})
  OBVIOUS
<1>3. V \in SUBSET Requests /\ IsFiniteSet(V)
  BY <1>0, FS_Subset
<1>4. PICK f : f = First(V)
  OBVIOUS
<1>5. f \in V /\ Total(V) = Cost(f) + Total(V \ {f})
  BY <1>2, <1>3, <1>4, FirstIn, TotalUnfolds
<1>6. f # q
  BY <1>2, <1>5
<1>7. Total(V \ {f}) = Cost(q) + Total((V \ {f}) \ {q})
  <2>1. V \ {f} \in SUBSET V /\ V \ {f} # V /\ q \in V \ {f} /\ V \ {f} \in SUBSET Requests
    BY <1>3, <1>5, <1>6
  <2> QED  BY <1>1, <2>1
<1>8. Total(V \ {q}) = Cost(f) + Total((V \ {q}) \ {f})
  <2>1. V \ {q} \in SUBSET V /\ V \ {q} # V /\ f \in V \ {q} /\ V \ {q} \in SUBSET Requests
    BY <1>2, <1>3, <1>5, <1>6
  <2> QED  BY <1>1, <2>1
<1>9. (V \ {f}) \ {q} = (V \ {q}) \ {f}
  OBVIOUS
<1>10. Cost(f) \in Nat /\ Cost(q) \in Nat /\ Total((V \ {q}) \ {f}) \in Nat
  BY <1>2, <1>3, <1>5, CostType, TotalType
<1>11. Total(V) = Cost(f) + (Cost(q) + Total((V \ {q}) \ {f}))
  BY <1>5, <1>7, <1>9
<1>12. Cost(q) + Total(V \ {q}) = Cost(q) + (Cost(f) + Total((V \ {q}) \ {f}))
  BY <1>8
<1>13. PICK a \in Nat, b \in Nat, c \in Nat : a = Cost(f) /\ b = Cost(q) /\ c = Total((V \ {q}) \ {f})
  BY <1>10
<1>14. a + (b + c) = b + (a + c)
  OBVIOUS
<1> QED  BY <1>2, <1>11, <1>12, <1>13, <1>14

\* The sum of more requests is no less.
LEMMA TotalGrows ==
    ASSUME NEW S \in SUBSET Requests, NEW T \in SUBSET S
    PROVE  Total(T) <= Total(S)
<1> DEFINE B == {V \in SUBSET Requests : \E U \in SUBSET V : ~ (Total(U) <= Total(V))}
<1> SUFFICES ASSUME B # {} PROVE FALSE
  OBVIOUS
<1>0. IsFiniteSet(Requests)
  BY BudgetAssumption
<1>1. PICK V \in B : \A W \in SUBSET V : W # V => W \notin B
  <2>1. B \in SUBSET (SUBSET Requests)
    OBVIOUS
  <2> HIDE DEF B
  <2> QED  BY <1>0, <2>1, MinimalSubset
<1>2. PICK U \in SUBSET V : ~ (Total(U) <= Total(V))
  OBVIOUS
<1>3. V \in SUBSET Requests /\ Total(U) \in Nat /\ Total(V) \in Nat
  BY TotalType
<1>4. PICK q \in V : q \notin U
  BY <1>2, <1>3
<1>5. Total(V) = Cost(q) + Total(V \ {q}) /\ Cost(q) \in Nat /\ Total(V \ {q}) \in Nat
  BY <1>3, TotalWithout, TotalType, CostType
<1>6. Total(U) <= Total(V \ {q})
  <2>1. V \ {q} \in SUBSET V /\ V \ {q} # V /\ V \ {q} \in SUBSET Requests /\ U \in SUBSET (V \ {q})
    BY <1>3, <1>4
  <2> QED  BY <1>1, <2>1
<1> QED  BY <1>2, <1>3, <1>5, <1>6

\* A sum is no more than the sums of its parts.
LEMMA TotalSplits ==
    ASSUME NEW S \in SUBSET Requests, NEW T \in SUBSET Requests
    PROVE  Total(S \cup T) <= Total(S) + Total(T)
<1> DEFINE B == {V \in SUBSET Requests : ~ (Total(S \cup V) <= Total(S) + Total(V))}
<1> SUFFICES ASSUME B # {} PROVE FALSE
  OBVIOUS
<1>0. IsFiniteSet(Requests)
  BY BudgetAssumption
<1>1. PICK V \in B : \A W \in SUBSET V : W # V => W \notin B
  <2>1. B \in SUBSET (SUBSET Requests)
    OBVIOUS
  <2> HIDE DEF B
  <2> QED  BY <1>0, <2>1, MinimalSubset
<1>2. /\ V \in SUBSET Requests /\ ~ (Total(S \cup V) <= Total(S) + Total(V))
      /\ Total(S) \in Nat /\ Total(V) \in Nat /\ Total(S \cup V) \in Nat
  BY TotalType
<1>3. CASE V \subseteq S
  <2>1. S \cup V = S
    BY <1>3
  <2> QED  BY <1>2, <2>1
<1>4. CASE ~ (V \subseteq S)
  <2>1. PICK q \in V : q \notin S
    BY <1>4
  <2>2. PICK W : W = V \ {q}
    OBVIOUS
  <2>3. W \in SUBSET V /\ W # V /\ W \in SUBSET Requests /\ (S \cup V) \ {q} = S \cup W /\ S \cup W \in SUBSET Requests
    BY <1>2, <2>1, <2>2
  <2>4. Total(S \cup V) = Cost(q) + Total(S \cup W) /\ Total(V) = Cost(q) + Total(W)
    BY <1>2, <2>1, <2>2, <2>3, TotalWithout
  <2>5. Total(S \cup W) <= Total(S) + Total(W)
    BY <1>1, <2>3
  <2>6. Cost(q) \in Nat /\ Total(W) \in Nat /\ Total(S \cup W) \in Nat
    BY <1>2, <2>1, <2>3, CostType, TotalType
  <2> HIDE DEF B
  <2> QED  BY <1>2, <2>4, <2>5, <2>6
<1> QED  BY <1>3, <1>4

\* As many requests as n, none of which costs more than c, cost n * c at most.
LEMMA TotalBounded ==
    ASSUME NEW S \in SUBSET Requests, NEW c \in Nat, \A r \in S : Cost(r) <= c
    PROVE  Total(S) <= Cardinality(S) * c /\ Cardinality(S) \in Nat
<1> DEFINE B == {V \in SUBSET S : ~ (Total(V) <= Cardinality(V) * c)}
<1>0. IsFiniteSet(Requests) /\ IsFiniteSet(S) /\ Cardinality(S) \in Nat
  BY BudgetAssumption, FS_Subset, FS_CardinalityType
<1> SUFFICES ASSUME B # {} PROVE FALSE
  BY <1>0
<1>1. PICK V \in B : \A W \in SUBSET V : W # V => W \notin B
  <2>1. B \in SUBSET (SUBSET S)
    OBVIOUS
  <2> HIDE DEF B
  <2> QED  BY <1>0, <2>1, MinimalSubset
<1>2. /\ V \in SUBSET Requests /\ V \in SUBSET S /\ ~ (Total(V) <= Cardinality(V) * c)
      /\ Total(V) \in Nat /\ IsFiniteSet(V) /\ Cardinality(V) \in Nat
  BY <1>0, TotalType, FS_Subset, FS_CardinalityType
<1>3. V # {}
  <2>1. Total({}) = 0 /\ Cardinality({}) = 0 /\ 0 * c = 0
    BY TotalUnfolds, FS_EmptySet
  <2> QED  BY <1>2, <2>1
<1>4. PICK q \in V : TRUE
  BY <1>3
<1>5. PICK W : W = V \ {q}
  OBVIOUS
<1>6. W \in SUBSET V /\ W # V /\ W \in SUBSET S /\ W \in SUBSET Requests
  BY <1>2, <1>5
<1>7. PICK n \in Nat : n = Cardinality(W) /\ Cardinality(V) = n + 1
  <2>1. Cardinality(W) = Cardinality(V) - 1 /\ IsFiniteSet(W)
    BY <1>2, <1>5, FS_RemoveElement
  <2>2. Cardinality(W) \in Nat
    BY <2>1, FS_CardinalityType
  <2> QED  BY <1>2, <2>1, <2>2
<1>8. Total(W) <= n * c
  BY <1>1, <1>6, <1>7
<1>9. Total(V) = Cost(q) + Total(W) /\ Cost(q) \in Nat /\ Cost(q) <= c /\ Total(W) \in Nat
  BY <1>2, <1>5, <1>6, TotalWithout, TotalType, CostType
<1>10. (n + 1) * c = n * c + c /\ n * c \in Nat
  OBVIOUS
<1> HIDE DEF B
<1> QED  BY <1>2, <1>7, <1>8, <1>9, <1>10

\* A cost of a scope is at most the largest.
LEMMA MaxCostBounds ==
    ASSUME NEW s
    PROVE  MaxCost(s) \in Nat /\ \A r \in Requests : Charged(r, s) => Cost(r) <= MaxCost(s)
<1> DEFINE C(V) == {0} \cup {Cost(r) : r \in V}
           B == {V \in SUBSET Requests : ~ \E x \in C(V) : \A y \in C(V) : x >= y}
           Q == {q \in Requests : Charged(q, s)}
<1>0. IsFiniteSet(Requests)
  BY BudgetAssumption
<1>1. B = {}
  <2> SUFFICES ASSUME B # {} PROVE FALSE
    OBVIOUS
  <2>1. PICK V \in B : \A W \in SUBSET V : W # V => W \notin B
    <3>1. B \in SUBSET (SUBSET Requests)
      OBVIOUS
    <3> HIDE DEF B
    <3> QED  BY <1>0, <3>1, MinimalSubset
  <2>2. V \in SUBSET Requests /\ ~ \E x \in C(V) : \A y \in C(V) : x >= y
    OBVIOUS
  <2>3. CASE V = {}
    <3>1. C(V) = {0}
      BY <2>3
    <3> QED  BY <2>2, <3>1
  <2>4. CASE V # {}
    <3>1. PICK q \in V : TRUE
      BY <2>4
    <3>2. PICK W : W = V \ {q}
      OBVIOUS
    <3>3. W \in SUBSET V /\ W # V /\ W \in SUBSET Requests
      BY <2>2, <3>1, <3>2
    <3>4. PICK x \in C(W) : \A y \in C(W) : x >= y
      BY <2>1, <3>3
    <3>5. C(V) = C(W) \cup {Cost(q)} /\ C(V) \subseteq Nat
      BY <2>2, <3>1, <3>2, CostType
    <3> HIDE DEF C
    <3>6. x \in Nat /\ Cost(q) \in Nat /\ x \in C(V) /\ Cost(q) \in C(V)
      BY <3>4, <3>5
    <3>7. CASE x >= Cost(q)
      BY <2>2, <3>4, <3>5, <3>6, <3>7
    <3>8. CASE ~ (x >= Cost(q))
      <4>1. \A y \in C(V) : Cost(q) >= y
        BY <3>4, <3>5, <3>6, <3>8
      <4> QED  BY <2>2, <3>6, <4>1
    <3> QED  BY <3>7, <3>8
  <2> QED  BY <2>3, <2>4
<1>2. \E x \in C(Q) : \A y \in C(Q) : x >= y
  BY <1>1
<1>3. MaxCost(s) = CHOOSE x \in C(Q) : \A y \in C(Q) : x >= y
  BY DEF MaxCost, Max
<1>4. MaxCost(s) \in C(Q) /\ \A y \in C(Q) : MaxCost(s) >= y
  BY <1>2, <1>3
<1>5. C(Q) \subseteq Nat /\ \A r \in Requests : Charged(r, s) => Cost(r) \in C(Q)
  BY CostType
<1> HIDE DEF C, Q
<1>6. \A r \in Requests : Charged(r, s) => Cost(r) <= MaxCost(s)
  <2> SUFFICES ASSUME NEW r \in Requests, Charged(r, s) PROVE Cost(r) <= MaxCost(s)
    OBVIOUS
  <2>1. Cost(r) \in Nat /\ MaxCost(s) \in Nat /\ MaxCost(s) >= Cost(r)
    BY <1>4, <1>5
  <2> QED  BY <2>1
<1> QED  BY <1>4, <1>5, <1>6

-----------------------------------------------------------------------------
(* What the limits rest on.                                                *)

\* Every set of requests is finite, and smaller than one that contains it.
LEMMA RequestSets ==
    ASSUME NEW S, NEW T, S \subseteq T, T \subseteq Requests
    PROVE  /\ IsFiniteSet(S) /\ IsFiniteSet(T)
           /\ Cardinality(S) \in Nat /\ Cardinality(T) \in Nat
           /\ Cardinality(S) <= Cardinality(T)
<1>1. IsFiniteSet(T) /\ IsFiniteSet(S)
  BY BudgetAssumption, FS_Subset
<1> QED  BY <1>1, FS_Subset, FS_CardinalityType

\* Few requests are in flight, nothing is recorded in the future, and a request at
\* a check holds a budget its scope can have.
StandingInv ==
    /\ Cardinality(InFlight) <= MaxInFlight
    /\ \A r \in Requests : ledger[r] # NoDay => ledger[r] <= now
    /\ \A r \in Requests : pc[r] \in {"userSpend", "modelCount"} => loc[r].seen \in Reachable(UserScope(r))
    /\ \A r \in Requests : pc[r] = "teamSpend" => loc[r].seen \in Reachable(TeamScope(r))

LEMMA StandingInit == Init => StandingInv
<1> SUFFICES ASSUME Init PROVE StandingInv
  OBVIOUS
<1>1. InFlight = {}
  BY DEF Init, InFlight, Active, Enforcing, Recording
<1>2. Cardinality(InFlight) <= MaxInFlight
  BY <1>1, FS_EmptySet, BudgetAssumption
<1> QED  BY <1>2 DEF Init, StandingInv

LEMMA StandingEnforce ==
    ASSUME TypeOK, StandingInv, NEW r \in Requests, Enforce(r)
    PROVE  StandingInv'
<1> USE DEF Goto
<1>1. now' = now /\ ledger' = ledger /\ UNCHANGED budget
  BY DEF Enforce, BeginEnforce, CheckUserCap, ReadModelLimit, CheckModelLimit, ReadTeamBudget, CheckTeamCap
<1>2. Cardinality(InFlight') <= MaxInFlight
  <2>0. InFlight \subseteq Requests /\ InFlight' \subseteq Requests
    BY DEF InFlight
  <2>1. CASE BeginEnforce(r)
    <3>1. Cardinality(InFlight) < MaxInFlight
      BY <2>1 DEF BeginEnforce
    <3>2. InFlight' \subseteq InFlight \cup {r}
      BY <2>1 DEF BeginEnforce, InFlight, TypeOK
    <3>3. Cardinality(InFlight \cup {r}) <= Cardinality(InFlight) + 1
      BY <2>0, RequestSets, FS_AddElement
    <3>4. Cardinality(InFlight') <= Cardinality(InFlight \cup {r})
          /\ Cardinality(InFlight') \in Nat /\ Cardinality(InFlight \cup {r}) \in Nat
          /\ Cardinality(InFlight) \in Nat
      BY <2>0, <3>2, RequestSets
    <3> QED  BY <3>1, <3>3, <3>4, BudgetAssumption
  <2>2. CASE ~BeginEnforce(r)
    <3>1. InFlight' \subseteq InFlight
      BY <2>2 DEF Enforce, CheckUserCap, ReadModelLimit, CheckModelLimit, ReadTeamBudget, CheckTeamCap,
             InFlight, TypeOK, Active, Enforcing, Deny, Allow, Continue, TeamCheck
    <3>2. Cardinality(InFlight') <= Cardinality(InFlight)
          /\ Cardinality(InFlight') \in Nat /\ Cardinality(InFlight) \in Nat
      BY <2>0, <3>1, RequestSets
    <3> QED  BY <3>2, BudgetAssumption DEF StandingInv
  <2> QED  BY <2>1, <2>2
<1>3. \A q \in Requests \ {r} : pc'[q] = pc[q] /\ loc'[q] = loc[q]
  BY DEF Enforce, BeginEnforce, CheckUserCap, ReadModelLimit, CheckModelLimit, ReadTeamBudget, CheckTeamCap,
         Deny, Allow, Continue, TeamCheck, TypeOK
<1>4. /\ pc'[r] \in {"userSpend", "modelCount"} => loc'[r].seen = budget[UserScope(r)]
      /\ pc'[r] = "teamSpend" => loc'[r].seen = budget[TeamScope(r)] /\ HasTeam(r)
  BY DEF Enforce, BeginEnforce, CheckUserCap, ReadModelLimit, CheckModelLimit, ReadTeamBudget, CheckTeamCap,
         Deny, Allow, Continue, TeamCheck, TypeOK, Locals
<1>5. /\ budget[UserScope(r)] \in Reachable(UserScope(r))
      /\ HasTeam(r) => budget[TeamScope(r)] \in Reachable(TeamScope(r))
  BY BudgetAssumption DEF TypeOK
<1> QED  BY <1>1, <1>2, <1>3, <1>4, <1>5 DEF StandingInv, Reachable, UserScope, TeamScope

LEMMA StandingRecord ==
    ASSUME TypeOK, StandingInv, NEW r \in Requests, RecordUsage(r) \/ Fails(r)
    PROVE  StandingInv'
<1> USE DEF Goto
<1>1. now' = now /\ now \in Nat /\ UNCHANGED budget
  BY BudgetAssumption DEF RecordUsage, AppendUsage, ReadScopeBudget, DetectCrossings, AuditAlert,
         NotifyAlert, Fails, EnforceFails, RecordFails, Abandon, TypeOK, Days
<1>2. PICK label \in Recording \cup Stopped : pc' = [pc EXCEPT ![r] = label]
  BY DEF RecordUsage, AppendUsage, ReadScopeBudget, DetectCrossings, AuditAlert,
         NotifyAlert, Fails, EnforceFails, RecordFails, Abandon, NextScope, Recording, Stopped
<1>3. pc[r] \in Active
  BY DEF RecordUsage, AppendUsage, ReadScopeBudget, DetectCrossings, AuditAlert,
         NotifyAlert, Fails, EnforceFails, RecordFails, Abandon, Active, Recording
<1>4. \A q \in Requests \ {r} : pc'[q] = pc[q] /\ loc'[q] = loc[q]
  BY DEF RecordUsage, AppendUsage, ReadScopeBudget, DetectCrossings, AuditAlert,
         NotifyAlert, Fails, EnforceFails, RecordFails, Abandon, NextScope, TypeOK
<1>5. pc'[r] = label /\ label \notin {"userSpend", "modelCount", "teamSpend"}
  BY <1>2 DEF TypeOK, Recording, Stopped
<1>6. Cardinality(InFlight') <= MaxInFlight
  <2>1. InFlight' \subseteq InFlight /\ InFlight \subseteq Requests
    BY <1>3, <1>4 DEF InFlight
  <2>2. Cardinality(InFlight') <= Cardinality(InFlight)
        /\ Cardinality(InFlight') \in Nat /\ Cardinality(InFlight) \in Nat
    BY <2>1, RequestSets
  <2> QED  BY <2>2, BudgetAssumption DEF StandingInv
<1>7. ledger' = ledger \/ ledger' = [ledger EXCEPT ![r] = now]
  BY DEF RecordUsage, AppendUsage, ReadScopeBudget, DetectCrossings, AuditAlert,
         NotifyAlert, Fails, EnforceFails, RecordFails, Abandon
<1>8. \A q \in Requests : ledger'[q] # NoDay => ledger'[q] <= now
  BY <1>1, <1>7 DEF StandingInv, TypeOK
<1> QED  BY <1>1, <1>4, <1>5, <1>6, <1>8 DEF StandingInv, Reachable, UserScope, TeamScope

LEMMA StandingKept == TypeOK /\ StandingInv /\ [Next]_vars => StandingInv'
<1> SUFFICES ASSUME TypeOK, StandingInv, [Next]_vars PROVE StandingInv'
  OBVIOUS
<1>1. ASSUME NEW r \in Requests, Enforce(r) PROVE StandingInv'
  BY <1>1, StandingEnforce
<1>2. ASSUME NEW r \in Requests, RecordUsage(r) \/ Fails(r) PROVE StandingInv'
  BY <1>2, StandingRecord
<1>3. ASSUME UNCHANGED <<ledger, pc, loc>>, now' \in Nat, now <= now' PROVE StandingInv'
  <2>1. InFlight' = InFlight /\ now \in Nat
    BY <1>3, BudgetAssumption DEF InFlight, TypeOK, Days
  <2>2. \A r \in Requests : ledger[r] # NoDay => ledger[r] \in Nat
    BY BudgetAssumption DEF TypeOK, Days
  <2> QED  BY <1>3, <2>1, <2>2 DEF StandingInv, Reachable, UserScope, TeamScope
<1>4. CASE (\E s \in Scopes : SetBudget(s)) \/ NextDay \/ UNCHANGED vars
  <2>1. now \in Nat
    BY BudgetAssumption DEF TypeOK, Days
  <2>2. UNCHANGED <<ledger, pc, loc>> /\ (now' = now \/ now' = now + 1)
    BY <1>4 DEF SetBudget, NextDay, vars
  <2> QED  BY <1>3, <2>1, <2>2
<1> QED  BY <1>1, <1>2, <1>4 DEF Next
-----------------------------------------------------------------------------
(* The daily message limit.                                                *)

\* Requests that may yet be recorded on day d without another look at the
\* limit of that day: they passed the check, or check the day they began on.
Pending(u, m, d) ==
    {r \in Requests :
        /\ Attribution[r].user = u /\ Attribution[r].model = m
        /\ \/ pc[r] \in {"teamBudget", "teamSpend", "allowed"}
           \/ pc[r] \in {"userSpend", "modelBudget", "modelCount"} /\ loc[r].start # d}

Exposed(u, m, d) == DailyMessages(u, m, d) \cup Pending(u, m, d)

\* The strengthening that is inductive: on the current day the recorded and the
\* pending messages together stay below the limit plus the requests in flight.
DailyInv(u, m, l) ==
    /\ StandingInv
    /\ \A d \in Days : d < now => Cardinality(DailyMessages(u, m, d)) < l + MaxInFlight
    /\ Cardinality(Exposed(u, m, now)) < l + MaxInFlight

\* The union of two sets of requests is no larger than both together.
LEMMA UnionBound ==
    ASSUME NEW S, NEW T, S \subseteq Requests, T \subseteq Requests
    PROVE  Cardinality(S \cup T) <= Cardinality(S) + Cardinality(T)
<1>1. IsFiniteSet(S) /\ IsFiniteSet(T) /\ IsFiniteSet(S \cap T)
  BY RequestSets
<1>2. Cardinality(S \cup T) = Cardinality(S) + Cardinality(T) - Cardinality(S \cap T)
  BY <1>1, FS_Union
<1>3. Cardinality(S \cap T) \in Nat /\ Cardinality(S) \in Nat /\ Cardinality(T) \in Nat
  BY <1>1, FS_CardinalityType
<1> QED  BY <1>2, <1>3

\* No request is in flight and nothing is recorded at first.
LEMMA DailyInit ==
    ASSUME NEW u, NEW m, NEW l \in Nat \ {0}, Init
    PROVE  DailyInv(u, m, l)
<1>2. Exposed(u, m, now) = {}
  <2>1. NoDay # now
    BY BudgetAssumption DEF Init, NoDay
  <2> QED  BY <2>1 DEF Init, Exposed, Pending, DailyMessages
<1>3. Cardinality({}) = 0
  BY FS_EmptySet
<1>4. now = 0 /\ \A r \in Requests : ledger[r] = NoDay /\ pc[r] = "idle"
  BY DEF Init
<1>5. \A d \in Days : ~(d < now)
  BY <1>4, BudgetAssumption DEF Days
<1>6. 0 < l + MaxInFlight
  BY BudgetAssumption
<1> QED  BY <1>2, <1>3, <1>5, <1>6, StandingInit DEF DailyInv

\* A step within one day that exposes no new request keeps the invariant.
LEMMA DailyShrinks ==
    ASSUME NEW u, NEW m, NEW l \in Nat, TypeOK, DailyInv(u, m, l),
           now' = now,
           Exposed(u, m, now)' \subseteq Exposed(u, m, now),
           \A d \in Days : d < now =>
               DailyMessages(u, m, d)' \subseteq DailyMessages(u, m, d),
           StandingInv'
    PROVE  DailyInv(u, m, l)'
<1>1. Exposed(u, m, now) \subseteq Requests
  BY DEF Exposed, DailyMessages, Pending
<1>2. Cardinality(Exposed(u, m, now)') <= Cardinality(Exposed(u, m, now))
      /\ Cardinality(Exposed(u, m, now)') \in Nat /\ Cardinality(Exposed(u, m, now)) \in Nat
  BY <1>1, RequestSets
<1>3. ASSUME NEW d \in Days, d < now
      PROVE  Cardinality(DailyMessages(u, m, d)') < l + MaxInFlight
  <2>1. DailyMessages(u, m, d) \subseteq Requests
    BY DEF DailyMessages
  <2>2. Cardinality(DailyMessages(u, m, d)') <= Cardinality(DailyMessages(u, m, d))
        /\ Cardinality(DailyMessages(u, m, d)') \in Nat
        /\ Cardinality(DailyMessages(u, m, d)) \in Nat
    BY <1>3, <2>1, RequestSets
  <2>3. Cardinality(DailyMessages(u, m, d)) < l + MaxInFlight
    BY <1>3 DEF DailyInv
  <2> QED  BY <2>2, <2>3, BudgetAssumption
<1>4. Cardinality(Exposed(u, m, now)') < l + MaxInFlight
  BY <1>2, BudgetAssumption DEF DailyInv
<1>5. (\A d \in Days : d < now => Cardinality(DailyMessages(u, m, d)) < l + MaxInFlight)'
  BY <1>3
<1>6. (Cardinality(Exposed(u, m, now)) < l + MaxInFlight)'
  BY <1>4
<1> QED  BY <1>5, <1>6 DEF DailyInv

\* Another user's or another model's request exposes nothing, and a request of
\* this user is exposed by a check of the limit only when the limit is not met.
LEMMA DailyEnforce ==
    ASSUME NEW u, NEW m, NEW l \in Nat \ {0}, Binding(u, m, l),
           TypeOK, DailyInv(u, m, l), NEW r \in Requests, Enforce(r)
    PROVE  DailyInv(u, m, l)'
<1> DEFINE mine == Attribution[r].user = u /\ Attribution[r].model = m
<1> USE DEF Goto
<1>1. now' = now /\ ledger' = ledger /\ now \in Days /\ UNCHANGED budget
  BY DEF Enforce, BeginEnforce, CheckUserCap, ReadModelLimit, CheckModelLimit,
         ReadTeamBudget, CheckTeamCap, TypeOK
<1>3. StandingInv' /\ Cardinality(InFlight') <= MaxInFlight
  BY StandingEnforce DEF DailyInv, StandingInv
<1>6. \A d : DailyMessages(u, m, d)' = DailyMessages(u, m, d)
  BY <1>1 DEF DailyMessages
<1>7. \A q \in Requests \ {r} : q \in Pending(u, m, now)' => q \in Pending(u, m, now)
  <2>1. \A q \in Requests \ {r} : pc'[q] = pc[q] /\ loc'[q] = loc[q]
    BY DEF Enforce, BeginEnforce, CheckUserCap, ReadModelLimit, CheckModelLimit,
           ReadTeamBudget, CheckTeamCap, Deny, Allow, Continue, TeamCheck, TypeOK
  <2> QED  BY <1>1, <2>1 DEF Pending
<1>8. \/ r \in Pending(u, m, now)' => r \in Pending(u, m, now)
      \/ mine /\ pc[r] = "modelCount" /\ ~OverDailyLimit(r) /\ loc[r].start = now
  <2> SUFFICES ASSUME mine, r \in Pending(u, m, now)'
               PROVE  \/ r \in Pending(u, m, now)
                      \/ pc[r] = "modelCount" /\ ~OverDailyLimit(r) /\ loc[r].start = now
    BY DEF Pending
  <2>1. CASE BeginEnforce(r)
    BY <1>1, <2>1 DEF BeginEnforce, Pending, TypeOK, Locals
  <2>2. CASE CheckUserCap(r)
    BY <1>1, <2>2 DEF CheckUserCap, Pending, Deny, Continue, TypeOK
  <2>3. CASE ReadModelLimit(r)
    <3>1. budget[UserScope(r)] \in Reachable(UserScope(r)) /\ UserScope(r) = UserRef(u)
      BY BudgetAssumption DEF TypeOK, UserScope, UserRef
    <3>2. /\ budget[UserScope(r)] # NoBudget
          /\ budget[UserScope(r)].modelLimit[Attribution[r].asked] # Unlimited
      BY <3>1 DEF Binding, AskedByName, ModelLimitAtMost
    <3>3. pc[r] = "modelBudget" /\ pc'[r] = "modelCount" /\ loc'[r].start = loc[r].start
      BY <2>3, <3>2 DEF ReadModelLimit, TypeOK, Locals
    <3> QED  BY <1>1, <3>3 DEF Pending
  <2>4. CASE CheckModelLimit(r)
    <3>1. pc[r] = "modelCount" /\ (OverDailyLimit(r) => pc'[r] = "denied")
      BY <2>4 DEF CheckModelLimit, Deny, TypeOK
    <3>2. ~OverDailyLimit(r)
      BY <3>1 DEF Pending
    <3> QED  BY <3>1, <3>2 DEF Pending
  <2>5. CASE ReadTeamBudget(r)
    BY <1>1, <2>5 DEF ReadTeamBudget, Pending
  <2>6. CASE CheckTeamCap(r)
    BY <1>1, <2>6 DEF CheckTeamCap, Pending
  <2> QED  BY <2>1, <2>2, <2>3, <2>4, <2>5, <2>6 DEF Enforce
<1>9. CASE r \in Pending(u, m, now)' => r \in Pending(u, m, now)
  <2>1. Exposed(u, m, now)' \subseteq Exposed(u, m, now)
    BY <1>1, <1>6, <1>7, <1>9 DEF Exposed, Pending
  <2> QED  BY <1>1, <1>3, <1>6, <2>1, DailyShrinks
<1>10. CASE mine /\ pc[r] = "modelCount" /\ ~OverDailyLimit(r) /\ loc[r].start = now
  <2>1. loc[r].seen \in Reachable(UserRef(u))
    BY <1>10 DEF DailyInv, StandingInv, UserScope, UserRef
  <2>2. DailyLimit(r) \in Nat /\ DailyLimit(r) <= l
    <3>1. /\ loc[r].seen # NoBudget /\ DailyLimit(r) # Unlimited /\ DailyLimit(r) <= l
      BY <1>10, <2>1 DEF Binding, AskedByName, ModelLimitAtMost, DailyLimit
    <3>2. ValidConfig(loc[r].seen)
      BY <2>1, <3>1, <1>10, BudgetAssumption DEF Reachable, UserRef, UserScope
    <3> QED  BY <3>1, <3>2, <1>10, BudgetAssumption DEF ValidConfig, DailyLimit
  <2>3. DailyMessages(u, m, now) \subseteq Requests /\ InFlight' \subseteq Requests
    BY DEF DailyMessages, InFlight
  <2>4. Cardinality(DailyMessages(u, m, now)) < l /\ Cardinality(DailyMessages(u, m, now)) \in Nat
    <3>1. Cardinality(DailyMessages(u, m, now)) \in Nat
      BY <2>3, RequestSets
    <3>2. Attribution[r].asked = m
      BY <1>10 DEF Binding, AskedByName
    <3> QED  BY <1>10, <2>2, <3>1, <3>2 DEF OverDailyLimit, SentToday
  <2>5. Exposed(u, m, now)' \subseteq DailyMessages(u, m, now) \cup InFlight'
    BY <1>1, <1>6 DEF Exposed, Pending, InFlight, Active, Enforcing
  <2>6. Cardinality(Exposed(u, m, now)') <= Cardinality(DailyMessages(u, m, now) \cup InFlight')
        /\ Cardinality(Exposed(u, m, now)') \in Nat
        /\ Cardinality(DailyMessages(u, m, now) \cup InFlight') \in Nat
        /\ Cardinality(InFlight') \in Nat
    BY <2>3, <2>5, RequestSets
  <2>7. Cardinality(DailyMessages(u, m, now) \cup InFlight')
            <= Cardinality(DailyMessages(u, m, now)) + Cardinality(InFlight')
    BY <2>3, UnionBound
  <2>8. (Cardinality(Exposed(u, m, now)) < l + MaxInFlight)'
    BY <1>3, <2>4, <2>6, <2>7, BudgetAssumption
  <2>9. (\A d \in Days : d < now => Cardinality(DailyMessages(u, m, d)) < l + MaxInFlight)'
    BY <1>1, <1>6 DEF DailyInv
  <2> QED  BY <1>3, <2>8, <2>9 DEF DailyInv
<1> QED  BY <1>8, <1>9, <1>10

\* Recording moves a request from the pending to the recorded ones; the steps
\* that report crossings expose no request.
LEMMA DailyRecord ==
    ASSUME NEW u, NEW m, NEW l \in Nat \ {0}, TypeOK, DailyInv(u, m, l),
           NEW r \in Requests, RecordUsage(r) \/ Fails(r)
    PROVE  DailyInv(u, m, l)'
<1> USE DEF Goto
<1>1. now' = now /\ now \in Days /\ UNCHANGED budget
  BY DEF RecordUsage, AppendUsage, ReadScopeBudget, DetectCrossings, AuditAlert,
         NotifyAlert, Fails, EnforceFails, RecordFails, Abandon, TypeOK
<1>2. \E label \in Recording \cup Stopped : pc' = [pc EXCEPT ![r] = label]
  BY DEF RecordUsage, AppendUsage, ReadScopeBudget, DetectCrossings, AuditAlert,
         NotifyAlert, Fails, EnforceFails, RecordFails, Abandon, NextScope, Recording, Stopped
<1>4. \A q \in Requests \ {r} : pc'[q] = pc[q] /\ loc'[q] = loc[q]
  BY <1>2 DEF RecordUsage, AppendUsage, ReadScopeBudget, DetectCrossings, AuditAlert,
         NotifyAlert, Fails, EnforceFails, RecordFails, Abandon, NextScope, TypeOK
<1>5. pc'[r] \notin {"userSpend", "modelBudget", "modelCount", "teamBudget", "teamSpend", "allowed"}
  BY <1>2 DEF TypeOK, Recording, Stopped
<1>6. StandingInv'
  BY StandingRecord DEF DailyInv
<1>8. \/ ledger' = ledger
      \/ pc[r] = "allowed" /\ ledger' = [ledger EXCEPT ![r] = now]
  BY DEF RecordUsage, AppendUsage, ReadScopeBudget, DetectCrossings, AuditAlert,
         NotifyAlert, Fails, EnforceFails, RecordFails, Abandon
<1>10. \A d \in Days : d < now =>
           DailyMessages(u, m, d)' \subseteq DailyMessages(u, m, d)
  BY <1>1, <1>8, BudgetAssumption DEF DailyMessages, TypeOK, Days
<1>11. Exposed(u, m, now)' \subseteq Exposed(u, m, now)
  BY <1>1, <1>4, <1>5, <1>8 DEF Exposed, Pending, DailyMessages, TypeOK
<1> QED  BY <1>1, <1>6, <1>10, <1>11, DailyShrinks

\* At midnight nothing is recorded on the new day yet, and only the requests in
\* flight may be.
LEMMA DailyMidnight ==
    ASSUME NEW u, NEW m, NEW l \in Nat \ {0}, TypeOK, DailyInv(u, m, l), NextDay
    PROVE  DailyInv(u, m, l)'
<1>1. now \in Nat /\ now' = now + 1 /\ UNCHANGED <<budget, ledger, pc, loc>>
  BY BudgetAssumption DEF NextDay, TypeOK, Days
<1>2. \A d : DailyMessages(u, m, d)' = DailyMessages(u, m, d)
  BY <1>1 DEF DailyMessages
<1>3. InFlight' = InFlight /\ InFlight \subseteq Requests
  BY <1>1 DEF InFlight
<1>4. StandingInv'
  BY StandingKept DEF DailyInv, Next
<1>6. (Cardinality(Exposed(u, m, now)) < l + MaxInFlight)'
  <2>1. Exposed(u, m, now)' \subseteq InFlight
    <3>1. \A r \in Requests : ledger'[r] # now'
      BY <1>1, BudgetAssumption DEF DailyInv, StandingInv, TypeOK, Days, NoDay
    <3> QED  BY <1>1, <3>1 DEF Exposed, Pending, DailyMessages, InFlight, Active, Enforcing
  <2>2. Cardinality(Exposed(u, m, now)') <= Cardinality(InFlight)
        /\ Cardinality(Exposed(u, m, now)') \in Nat /\ Cardinality(InFlight) \in Nat
    BY <1>3, <2>1, RequestSets
  <2> QED  BY <2>2, BudgetAssumption DEF DailyInv, StandingInv
<1>7. ASSUME NEW d \in Days, d < now'
      PROVE  Cardinality(DailyMessages(u, m, d)) < l + MaxInFlight
  <2>1. CASE d < now
    BY <2>1 DEF DailyInv
  <2>2. CASE d = now
    <3>1. DailyMessages(u, m, d) \subseteq Exposed(u, m, now) /\ Exposed(u, m, now) \subseteq Requests
      BY <2>2 DEF Exposed, Pending, DailyMessages
    <3>2. Cardinality(DailyMessages(u, m, d)) <= Cardinality(Exposed(u, m, now))
          /\ Cardinality(DailyMessages(u, m, d)) \in Nat
          /\ Cardinality(Exposed(u, m, now)) \in Nat
      BY <3>1, RequestSets
    <3> QED  BY <3>2, BudgetAssumption DEF DailyInv
  <2> QED  BY <1>1, <1>7, <2>1, <2>2, BudgetAssumption DEF Days
<1>8. (\A d \in Days : d < now => Cardinality(DailyMessages(u, m, d)) < l + MaxInFlight)'
  BY <1>2, <1>7 DEF Days
<1> QED  BY <1>4, <1>6, <1>8 DEF DailyInv

LEMMA DailyNext ==
    ASSUME NEW u, NEW m, NEW l \in Nat \ {0}, Binding(u, m, l),
           TypeOK, DailyInv(u, m, l), [Next]_vars
    PROVE  DailyInv(u, m, l)'
<1>1. ASSUME NEW r \in Requests, Enforce(r)  PROVE DailyInv(u, m, l)'
  BY <1>1, DailyEnforce
<1>2. ASSUME NEW r \in Requests, RecordUsage(r) \/ Fails(r)
      PROVE  DailyInv(u, m, l)'
  BY <1>2, DailyRecord
<1>3. ASSUME UNCHANGED <<now, ledger, pc, loc>>  PROVE DailyInv(u, m, l)'
  <2>1. /\ Exposed(u, m, now)' = Exposed(u, m, now)
        /\ \A d : DailyMessages(u, m, d)' = DailyMessages(u, m, d)
    BY <1>3 DEF Exposed, Pending, DailyMessages
  <2>2. StandingInv'
    BY StandingKept DEF DailyInv
  <2> QED  BY <1>3, <2>1, <2>2 DEF DailyInv
<1>4. CASE NextDay
  BY <1>4, DailyMidnight
<1>5. CASE (\E s \in Scopes : SetBudget(s)) \/ UNCHANGED vars
  BY <1>3, <1>5 DEF SetBudget, vars
<1> QED  BY <1>1, <1>2, <1>4, <1>5 DEF Next

\* What the invariant says of every day, past, present and future.
LEMMA DailyImplies ==
    ASSUME NEW u, NEW m, NEW l \in Nat \ {0}, TypeOK, DailyInv(u, m, l), NEW d \in Days
    PROVE  Cardinality(DailyMessages(u, m, d)) < l + MaxInFlight
<1>1. d \in Nat /\ now \in Nat
  BY BudgetAssumption DEF TypeOK, Days
<1>2. CASE d < now
  BY <1>2 DEF DailyInv
<1>3. CASE d = now
  <2>1. DailyMessages(u, m, d) \subseteq Exposed(u, m, now) /\ Exposed(u, m, now) \subseteq Requests
    BY <1>3 DEF Exposed, Pending, DailyMessages
  <2>2. Cardinality(DailyMessages(u, m, d)) <= Cardinality(Exposed(u, m, now))
        /\ Cardinality(DailyMessages(u, m, d)) \in Nat /\ Cardinality(Exposed(u, m, now)) \in Nat
    BY <2>1, RequestSets
  <2> QED  BY <2>2, BudgetAssumption DEF DailyInv
<1>4. CASE d > now
  <2>1. DailyMessages(u, m, d) = {}
    BY <1>1, <1>4, BudgetAssumption DEF DailyMessages, DailyInv, StandingInv, NoDay
  <2> QED  BY <2>1, FS_EmptySet, BudgetAssumption
<1> QED  BY <1>1, <1>2, <1>3, <1>4

\* The invariant for every user, model and limit that binds them.
AllDaily ==
    \A u \in Users, m \in Models : \A l \in ModelLimits(UserRef(u), m) :
        Binding(u, m, l) => DailyInv(u, m, l)

\* A binding limit is a positive number, since setBudget validated it.
LEMMA LimitType ==
    ASSUME NEW u \in Users, NEW m \in Models, NEW l \in ModelLimits(UserRef(u), m)
    PROVE  l \in Nat \ {0}
<1>1. PICK c \in Reachable(UserRef(u)) :
          c # NoBudget /\ l = c.modelLimit[m] /\ l # Unlimited
  BY DEF ModelLimits
<1>2. UserRef(u) \in Scopes
  BY BudgetAssumption DEF Users, UserScope, UserRef
<1>3. ValidConfig(c)
  BY <1>1, <1>2, BudgetAssumption DEF Reachable
<1> QED  BY <1>1, <1>3 DEF ValidConfig

\* However requests interleave, whatever setBudget stores and wherever midnight
\* falls, a user's messages to a model on a day stay below the daily limit plus
\* the number of requests in flight.
THEOREM DailyLimitHolds == Spec => []DailyMessagesBounded
<1>1. Init => AllDaily
  BY DailyInit, LimitType DEF AllDaily
<1>2. TypeOK /\ AllDaily /\ [Next]_vars => AllDaily'
  <2> SUFFICES ASSUME TypeOK, AllDaily, [Next]_vars,
                      NEW u \in Users, NEW m \in Models, NEW l \in ModelLimits(UserRef(u), m),
                      Binding(u, m, l)
               PROVE  DailyInv(u, m, l)'
    BY DEF AllDaily, Users, ModelLimits, Binding, AskedByName, ModelLimitAtMost, Reachable, UserRef
  <2> QED  BY DailyNext, LimitType DEF AllDaily
<1>3. TypeOK /\ AllDaily => DailyMessagesBounded
  <2> SUFFICES ASSUME TypeOK, AllDaily, NEW u \in Users, NEW m \in Models, NEW d \in Days,
                      NEW l \in ModelLimits(UserRef(u), m), Binding(u, m, l)
               PROVE  Cardinality(DailyMessages(u, m, d)) < l + MaxInFlight
    BY DEF DailyMessagesBounded
  <2> QED  BY DailyImplies, LimitType DEF AllDaily
<1> QED  BY <1>1, <1>2, <1>3, TypeCorrect, PTL DEF Spec

-----------------------------------------------------------------------------
(* The overshoot of a spending cap.                                        *)

\* A record is charged to the scopes of its user, team, project and organization.
LEMMA ChargedTo ==
    ASSUME NEW r \in Requests, NEW s, Charged(r, s)
    PROVE  \/ s = OrgScope \/ s = UserScope(r) \/ s = ProjectScope(r)
           \/ HasTeam(r) /\ s = TeamScope(r)
<1> DEFINE S == {x \in {OrgScope, UserScope(r), ProjectScope(r), TeamScope(r)} :
                    x = TeamScope(r) => HasTeam(r)}
           a == <<OrgScope>>
           b == IF HasTeam(r) THEN <<TeamScope(r)>> ELSE <<>>
           c == IF HasProject(r) THEN <<ProjectScope(r)>> ELSE <<>>
           d == <<UserScope(r)>>
<1>0. /\ OrgScope # TeamScope(r) /\ UserScope(r) # TeamScope(r) /\ ProjectScope(r) # TeamScope(r)
  BY DEF OrgScope, TeamScope, UserScope, ProjectScope
<1>1. a \in Seq(S) /\ b \in Seq(S) /\ c \in Seq(S) /\ d \in Seq(S)
  <2>1. OrgScope \in S /\ UserScope(r) \in S /\ ProjectScope(r) \in S
    BY <1>0
  <2>2. HasTeam(r) => TeamScope(r) \in S
    BY <1>0
  <2> HIDE DEF S
  <2> QED  BY <2>1, <2>2
<1>2. ScopesOf(r) = ((a \o b) \o c) \o d
  BY DEF ScopesOf
<1>3. PICK i \in 1..Len(ScopesOf(r)) : ScopesOf(r)[i] = s
  BY DEF Charged
<1>4. ScopesOf(r) \in Seq(S)
  <2> HIDE DEF S, a, b, c, d
  <2>1. a \o b \in Seq(S)
    BY <1>1, ConcatProperties
  <2>2. (a \o b) \o c \in Seq(S)
    BY <1>1, <2>1, ConcatProperties
  <2> QED  BY <1>1, <1>2, <2>2, ConcatProperties
<1>5. s \in S
  <2> HIDE DEF S
  <2> QED  BY <1>3, <1>4, ElementOfSeq
<1> QED  BY <1>5

\* The clock's day lies in its period, the days of a period share that period, and
\* the period of the next day is the same or wholly in the future.
LEMMA DivisionGrows ==
    ASSUME NEW a \in Nat, NEW b \in Nat, a <= b
    PROVE  a \div MonthLength \in Nat /\ b \div MonthLength \in Nat /\ a \div MonthLength <= b \div MonthLength
<1>1. PICK m \in Nat \ {0} : m = MonthLength
  BY BudgetAssumption
<1>2. PICK x \in Int : x = a \div m /\ x >= 0 /\ x * m <= a /\ a < x * m + m
  BY SMT
<1>3. PICK y \in Int : y = b \div m /\ y >= 0 /\ y * m <= b /\ b < y * m + m
  BY SMT
<1>4. x <= y
  <2> SUFFICES ASSUME x >= y + 1 PROVE FALSE
    BY <1>2, <1>3
  <2>1. PICK k \in Nat : x = (y + 1) + k
    BY <1>2, <1>3
  <2>2. x * m = (y * m + m) + k * m /\ k * m \in Nat /\ y * m \in Int
    BY <2>1
  <2>3. PICK u \in Int, v \in Nat, w \in Int : u = y * m /\ v = k * m /\ w = x * m
    BY <2>2
  <2> QED  BY <1>2, <1>3, <2>2, <2>3
<1> QED  BY <1>1, <1>2, <1>3, <1>4

LEMMA Windows ==
    ASSUME NEW p, NEW d \in Days
    PROVE  /\ d \in PeriodWindow(p, d)
           /\ \A e \in Days : e \in PeriodWindow(p, d) => PeriodWindow(p, d) = PeriodWindow(p, e)
           /\ \/ PeriodWindow(p, d + 1) = PeriodWindow(p, d)
              \/ \A e \in PeriodWindow(p, d + 1) : e > d
<1>1. Days \subseteq Nat /\ d + 1 \in Nat
  BY BudgetAssumption DEF Days
<1>2. CASE p = "day"
  BY <1>1, <1>2 DEF PeriodWindow
<1>3. CASE p # "day"
  <2>1. d \in PeriodWindow(p, d)
    BY <1>3 DEF PeriodWindow
  <2>2. \A e \in Days : e \in PeriodWindow(p, d) => PeriodWindow(p, d) = PeriodWindow(p, e)
    BY <1>3 DEF PeriodWindow
  <2>3. ASSUME NEW e \in PeriodWindow(p, d + 1), ~ (e > d)
        PROVE  PeriodWindow(p, d + 1) = PeriodWindow(p, d)
    <3>1. e \in Days /\ e \div MonthLength = (d + 1) \div MonthLength
      BY <1>3, <2>3 DEF PeriodWindow
    <3>2. e \in Nat /\ d \in Nat /\ e <= d /\ d <= d + 1
      BY <1>1, <2>3, <3>1
    <3>3. /\ e \div MonthLength \in Nat /\ d \div MonthLength \in Nat /\ (d + 1) \div MonthLength \in Nat
          /\ e \div MonthLength <= d \div MonthLength
          /\ d \div MonthLength <= (d + 1) \div MonthLength
      BY <1>1, <3>2, DivisionGrows
    <3>4. d \div MonthLength = (d + 1) \div MonthLength
      BY <3>1, <3>3
    <3> QED  BY <1>3, <3>4 DEF PeriodWindow
  <2> QED  BY <2>1, <2>2, <2>3
<1> QED  BY <1>2, <1>3

\* What the requests in flight can spend together.
Slack(s) == MaxInFlight * MaxCost(s)

\* The labels of a request that passed the cap of s and has not recorded its cost.
Passed(s) ==
    IF s.level = "user" THEN {"modelBudget", "modelCount", "teamBudget", "teamSpend", "allowed"}
    ELSE {"allowed"}

Uncounted(s) == {r \in Restricted(s) : pc[r] \in Passed(s)}
Spending(s, W) == Recorded(W) \cap Restricted(s)
Committed(s, W) == Spending(s, W) \cup Uncounted(s)

\* A cap of zero lets nobody pass.
Bounded(S, s, l) == IF l = 0 THEN S = {} ELSE Total(S) < l + Slack(s)

\* The strengthening that is inductive: in the current period the recorded and the
\* uncounted requests together stay within the cap and the slack.
SpendInv(s, l, p) ==
    /\ \A d \in Days : Bounded(Spending(s, PeriodWindow(p, d)), s, l)
    /\ Bounded(Committed(s, PeriodWindow(p, now)), s, l)

\* A cap of a user or a team that binds whatever setBudget does.
BindingCap(s, l, p) ==
    /\ s \in Scopes /\ s.level \in {"user", "team"}
    /\ l \in Limits(s) /\ CapAtMost(s, l)
    /\ p \in Periods(s) /\ Periods(s) = {p}

LEMMA BindingCaps ==
    ASSUME NEW s, NEW l, NEW p, BindingCap(s, l, p), NEW c \in Reachable(s)
    PROVE  l \in Nat /\ c # NoBudget /\ ValidConfig(c) /\ c.limit <= l /\ c.period = p
<1>1. \A x \in Reachable(s) : x # NoBudget => ValidConfig(x)
  BY BudgetAssumption DEF BindingCap, Reachable
<1>2. l \in Nat
  BY <1>1 DEF BindingCap, Limits, ValidConfig
<1>3. c # NoBudget /\ c.limit <= l
  BY DEF BindingCap, CapAtMost
<1>4. c.period \in Periods(s)
  BY <1>3 DEF Periods
<1> QED  BY <1>1, <1>2, <1>3, <1>4 DEF BindingCap

LEMMA SlackType == ASSUME NEW s PROVE Slack(s) \in Nat
<1>1. PICK c \in Nat : c = MaxCost(s)
  BY MaxCostBounds
<1>2. MaxInFlight * c \in Nat
  BY BudgetAssumption
<1> QED  BY <1>1, <1>2 DEF Slack

\* As many requests as may be in flight cost no more than the slack.
LEMMA SlackCovers ==
    ASSUME NEW s, NEW F \in SUBSET Requests, Cardinality(F) <= MaxInFlight,
           NEW S, S \subseteq F \cap Restricted(s)
    PROVE  Total(S) <= Slack(s) /\ Total(S) \in Nat
<1>1. S \in SUBSET Requests /\ F \subseteq Requests /\ S \subseteq F
  OBVIOUS
<1>2. PICK c \in Nat : c = MaxCost(s) /\ \A r \in S : Cost(r) <= c
  BY MaxCostBounds DEF Restricted
<1>3. Total(S) <= Cardinality(S) * c /\ Total(S) \in Nat
  BY <1>1, <1>2, TotalBounded, TotalType
<1>4. PICK n \in Nat : n = Cardinality(S) /\ n <= MaxInFlight
  BY <1>1, RequestSets, BudgetAssumption
<1>5. PICK k \in Nat : MaxInFlight = n + k
  <2>1. MaxInFlight - n \in Nat /\ MaxInFlight = n + (MaxInFlight - n)
    BY <1>4, BudgetAssumption
  <2> QED  BY <2>1
<1>6. (n + k) * c = n * c + k * c /\ k * c \in Nat /\ n * c \in Nat
  OBVIOUS
<1>7. PICK x \in Nat, y \in Nat, z \in Nat : x = n * c /\ y = k * c /\ z = (n + k) * c
  BY <1>6
<1>8. Total(S) <= z
  BY <1>3, <1>4, <1>6, <1>7
<1> QED  BY <1>2, <1>3, <1>5, <1>7, <1>8 DEF Slack

LEMMA BoundedShrinks ==
    ASSUME NEW s, NEW l \in Nat, NEW S \in SUBSET Requests, NEW T \in SUBSET S, Bounded(S, s, l)
    PROVE  Bounded(T, s, l)
<1>1. Total(T) <= Total(S) /\ Total(T) \in Nat /\ Total(S) \in Nat /\ Slack(s) \in Nat
  BY TotalGrows, TotalType, SlackType
<1> QED  BY <1>1 DEF Bounded

LEMMA SpendInit ==
    ASSUME NEW s, NEW l, NEW p, BindingCap(s, l, p), Init
    PROVE  SpendInv(s, l, p)
<1>1. now \in Days /\ \A d \in Days : Spending(s, PeriodWindow(p, d)) = {}
  <2>1. now \in Days /\ \A d \in Days : NoDay \notin PeriodWindow(p, d)
    BY BudgetAssumption DEF Init, PeriodWindow, NoDay, Days
  <2> QED  BY <2>1 DEF Init, Spending, Recorded
<1>2. Uncounted(s) = {}
  BY DEF Init, Uncounted, Passed, Restricted
<1>3. Bounded({}, s, l)
  <2>1. l \in Nat /\ Slack(s) \in Nat
    BY SlackType, BindingCaps DEF BindingCap, Periods
  <2>2. Total({}) = 0
    BY TotalUnfolds, FS_EmptySet
  <2> QED  BY <2>1, <2>2 DEF Bounded
<1> QED  BY <1>1, <1>2, <1>3 DEF SpendInv, Committed

\* A step within one day that commits no new request keeps the bounds.
LEMMA SpendShrinks ==
    ASSUME NEW s, NEW l, NEW p, BindingCap(s, l, p), TypeOK, SpendInv(s, l, p), now' = now,
           Committed(s, PeriodWindow(p, now))' \subseteq Committed(s, PeriodWindow(p, now)),
           \A d \in Days : now \notin PeriodWindow(p, d) =>
               Spending(s, PeriodWindow(p, d))' \subseteq Spending(s, PeriodWindow(p, d))
    PROVE  SpendInv(s, l, p)'
<1>0. l \in Nat /\ now \in Days
  BY BindingCaps DEF BindingCap, Periods, TypeOK
<1>1. PICK C \in SUBSET Requests : C = Committed(s, PeriodWindow(p, now))
  BY DEF Committed, Spending, Recorded, Uncounted, Restricted
<1>2. PICK D : D = Committed(s, PeriodWindow(p, now))'
  OBVIOUS
<1>3. D \subseteq C /\ Bounded(C, s, l)
  BY <1>1, <1>2 DEF SpendInv
<1>4. Bounded(D, s, l)
  BY <1>0, <1>3, BoundedShrinks
<1>5. ASSUME NEW d \in Days
      PROVE  Bounded(Spending(s, PeriodWindow(p, d))', s, l)
  <2>1. PICK S : S = Spending(s, PeriodWindow(p, d))'
    OBVIOUS
  <2>2. CASE now \in PeriodWindow(p, d)
    <3>1. PeriodWindow(p, d) = PeriodWindow(p, now)
      BY <1>0, <2>2, Windows
    <3>2. S \subseteq D
      BY <1>0, <1>2, <2>1, <3>1 DEF Committed, Spending, Recorded
    <3> QED  BY <1>0, <1>3, <2>1, <3>2, BoundedShrinks
  <2>3. CASE now \notin PeriodWindow(p, d)
    <3>1. PICK T \in SUBSET Requests : T = Spending(s, PeriodWindow(p, d)) /\ Bounded(T, s, l)
      BY DEF SpendInv, Spending, Recorded
    <3>2. S \subseteq T
      BY <2>1, <2>3, <3>1
    <3> QED  BY <1>0, <2>1, <3>1, <3>2, BoundedShrinks
  <2> QED  BY <2>2, <2>3
<1>6. (\A d \in Days : Bounded(Spending(s, PeriodWindow(p, d)), s, l))'
  BY <1>5
<1>7. Bounded(Committed(s, PeriodWindow(p, now)), s, l)'
  BY <1>2, <1>4
<1> QED  BY <1>6, <1>7 DEF SpendInv

\* A request joins the uncounted ones only where the spend was below the cap.
LEMMA Passing ==
    ASSUME NEW s, NEW l, NEW p, BindingCap(s, l, p), TypeOK, StandingInv,
           NEW r \in Requests, Enforce(r)
    PROVE  \/ Uncounted(s)' \subseteq Uncounted(s)
           \/ Consumed(s, PeriodWindow(p, now)) < l
<1> USE DEF Goto
<1>1. \A q \in Requests \ {r} : pc'[q] = pc[q]
  BY DEF Enforce, BeginEnforce, CheckUserCap, ReadModelLimit, CheckModelLimit,
         ReadTeamBudget, CheckTeamCap, Deny, Allow, Continue, TeamCheck, TypeOK
<1> SUFFICES ASSUME r \in Uncounted(s)', r \notin Uncounted(s)
             PROVE  Consumed(s, PeriodWindow(p, now)) < l
  BY <1>1 DEF Uncounted, Restricted
<1>2. r \in Restricted(s) /\ pc'[r] \in Passed(s) /\ pc[r] \notin Passed(s)
  BY DEF Uncounted, Restricted
<1>3. \/ s = UserScope(r) /\ s.level = "user"
      \/ s = TeamScope(r) /\ s.level = "team" /\ HasTeam(r) /\ ~Attribution[r].economy
  BY <1>2, ChargedTo DEF BindingCap, Restricted, OrgScope, UserScope, ProjectScope, TeamScope
<1>4. loc[r].seen \in Reachable(s) /\ ~OverCap(s, loc[r].seen)
  <2>1. CASE s = UserScope(r) /\ s.level = "user"
    <3>1. CheckUserCap(r) /\ pc[r] = "userSpend" /\ ~OverCap(s, loc[r].seen)
      BY <1>2, <2>1 DEF Enforce, BeginEnforce, CheckUserCap, ReadModelLimit, CheckModelLimit,
           ReadTeamBudget, CheckTeamCap, Deny, Allow, Continue, TeamCheck, TypeOK, Passed
    <3> QED  BY <2>1, <3>1 DEF StandingInv
  <2>2. CASE s = TeamScope(r) /\ s.level = "team" /\ HasTeam(r) /\ ~Attribution[r].economy
    <3>1. CheckTeamCap(r) /\ pc[r] = "teamSpend" /\ ~OverCap(s, loc[r].seen)
      BY <1>2, <2>2 DEF Enforce, BeginEnforce, CheckUserCap, ReadModelLimit, CheckModelLimit,
           ReadTeamBudget, CheckTeamCap, Deny, Allow, Continue, TeamCheck, TypeOK, Passed, RestrictedToEconomy
    <3> QED  BY <2>2, <3>1 DEF StandingInv
  <2> QED  BY <1>3, <2>1, <2>2
<1>5. PICK c : c = loc[r].seen
  OBVIOUS
<1>6. l \in Nat /\ c # NoBudget /\ c.limit \in Nat /\ c.limit <= l /\ c.period = p
  BY <1>4, <1>5, BindingCaps DEF ValidConfig
<1>7. PICK n \in Nat : n = Consumed(s, PeriodWindow(p, now))
  BY TotalType DEF Consumed, Total, Recorded
<1>8. ~ (n >= c.limit)
  BY <1>4, <1>5, <1>6, <1>7 DEF OverCap
<1> QED  BY <1>6, <1>7, <1>8

\* A check that lets a request past finds the spend below the cap: with the
\* requests in flight it stays within the slack.
LEMMA SpendEnforce ==
    ASSUME NEW s, NEW l, NEW p, BindingCap(s, l, p), TypeOK, StandingInv, SpendInv(s, l, p),
           NEW r \in Requests, Enforce(r)
    PROVE  SpendInv(s, l, p)'
<1>1. now' = now /\ ledger' = ledger /\ now \in Days
  BY DEF Enforce, BeginEnforce, CheckUserCap, ReadModelLimit, CheckModelLimit,
         ReadTeamBudget, CheckTeamCap, TypeOK
<1>2. \A W : Spending(s, W)' = Spending(s, W)
  BY <1>1 DEF Spending, Recorded, Restricted
<1>3. CASE Uncounted(s)' \subseteq Uncounted(s)
  <2>1. Committed(s, PeriodWindow(p, now))' \subseteq Committed(s, PeriodWindow(p, now))
    BY <1>1, <1>3 DEF Committed, Spending, Recorded
  <2>2. \A d \in Days : Spending(s, PeriodWindow(p, d))' \subseteq Spending(s, PeriodWindow(p, d))
    BY <1>1 DEF Spending, Recorded
  <2> QED  BY <1>1, <2>1, <2>2, SpendShrinks
<1>4. CASE Consumed(s, PeriodWindow(p, now)) < l
  <2>1. PICK W : W = PeriodWindow(p, now)
    OBVIOUS
  <2>2. PICK U : U = Uncounted(s)'
    OBVIOUS
  <2>3. PICK S \in SUBSET Requests : S = Spending(s, W)
    BY DEF Spending, Recorded
  <2>4. PICK R \in SUBSET Requests : R = {q \in Recorded(W) : Charged(q, s)}
    BY DEF Recorded
  <2>5. S \subseteq R /\ Total(R) < l
    BY <1>4, <2>1, <2>3, <2>4 DEF Spending, Restricted, Consumed, Total
  <2>6. Total(S) <= Total(R) /\ Total(S) \in Nat /\ Total(R) \in Nat /\ l \in Nat
    BY <2>5, TotalGrows, TotalType, BindingCaps DEF BindingCap, Periods
  <2>7. U \subseteq InFlight' \cap Restricted(s) /\ U \in SUBSET Requests
    BY <2>2 DEF Uncounted, Restricted, Passed, InFlight, Active, Enforcing
  <2>8. Total(U) <= Slack(s) /\ Total(U) \in Nat
    <3>1. PICK F : F = InFlight'
      OBVIOUS
    <3>2. F \subseteq Requests /\ Cardinality(F) <= MaxInFlight
      BY <3>1, StandingEnforce DEF StandingInv, InFlight
    <3> QED  BY <2>7, <3>1, <3>2, SlackCovers
  <2>9. Total(S \cup U) <= Total(S) + Total(U) /\ Total(S \cup U) \in Nat
    BY <2>3, <2>7, TotalSplits, TotalType
  <2>10. Bounded(S \cup U, s, l)
    BY <2>5, <2>6, <2>8, <2>9, SlackType DEF Bounded
  <2> QED  BY <1>1, <1>2, <2>1, <2>2, <2>3, <2>10 DEF SpendInv, Committed
<1> QED  BY <1>3, <1>4, Passing

\* Recording turns an uncounted request into a recorded one; nothing else is committed.
LEMMA SpendRecord ==
    ASSUME NEW s, NEW l, NEW p, BindingCap(s, l, p), TypeOK, SpendInv(s, l, p),
           NEW r \in Requests, RecordUsage(r) \/ Fails(r)
    PROVE  SpendInv(s, l, p)'
<1> USE DEF Goto
<1>1. now' = now /\ now \in Days
  BY DEF RecordUsage, AppendUsage, ReadScopeBudget, DetectCrossings, AuditAlert,
         NotifyAlert, Fails, EnforceFails, RecordFails, Abandon, TypeOK
<1>2. PICK label \in Recording \cup Stopped : pc' = [pc EXCEPT ![r] = label]
  BY DEF RecordUsage, AppendUsage, ReadScopeBudget, DetectCrossings, AuditAlert,
         NotifyAlert, Fails, EnforceFails, RecordFails, Abandon, NextScope, Recording, Stopped
<1>3. \/ ledger' = ledger
      \/ pc[r] = "allowed" /\ ledger' = [ledger EXCEPT ![r] = now]
  BY DEF RecordUsage, AppendUsage, ReadScopeBudget, DetectCrossings, AuditAlert,
         NotifyAlert, Fails, EnforceFails, RecordFails, Abandon
<1>4. Uncounted(s)' \subseteq Uncounted(s)
  BY <1>2 DEF Uncounted, Restricted, Passed, Recording, Stopped, TypeOK
<1>5. \A d \in Days : now \notin PeriodWindow(p, d) =>
          Spending(s, PeriodWindow(p, d))' \subseteq Spending(s, PeriodWindow(p, d))
  BY <1>1, <1>3 DEF Spending, Recorded, Restricted, TypeOK
<1>6. r \in Restricted(s) /\ pc[r] = "allowed" => r \in Uncounted(s)
  BY DEF Uncounted, Passed
<1>7. Spending(s, PeriodWindow(p, now))' \subseteq Committed(s, PeriodWindow(p, now))
  BY <1>1, <1>3, <1>6 DEF Spending, Recorded, Restricted, Committed, TypeOK
<1>8. Committed(s, PeriodWindow(p, now))' \subseteq Committed(s, PeriodWindow(p, now))
  BY <1>4, <1>7 DEF Committed
<1> QED  BY <1>1, <1>5, <1>8, SpendShrinks

\* In a new period nothing is recorded yet, and only requests in flight may be.
LEMMA SpendMidnight ==
    ASSUME NEW s, NEW l, NEW p, BindingCap(s, l, p), TypeOK, StandingInv, SpendInv(s, l, p), NextDay
    PROVE  SpendInv(s, l, p)'
<1>1. now \in Days /\ now \in Nat /\ now' = now + 1 /\ UNCHANGED <<ledger, pc>>
  BY BudgetAssumption DEF NextDay, TypeOK, Days
<1>2. Uncounted(s)' = Uncounted(s) /\ \A W : Spending(s, W)' = Spending(s, W)
  BY <1>1 DEF Uncounted, Spending, Recorded, Restricted
<1>3. PICK U : U = Uncounted(s) /\ U \in SUBSET Requests /\ U \subseteq InFlight \cap Restricted(s)
  BY DEF Uncounted, Restricted, Passed, InFlight, Active, Enforcing
<1>4. l \in Nat /\ Slack(s) \in Nat
  BY SlackType, BindingCaps DEF BindingCap, Periods
<1>5. CASE PeriodWindow(p, now + 1) = PeriodWindow(p, now)
  BY <1>1, <1>2, <1>5 DEF SpendInv, Committed, Spending, Recorded
<1>6. CASE \A e \in PeriodWindow(p, now + 1) : e > now
  <2>1. Spending(s, PeriodWindow(p, now + 1)) = {}
    <3> SUFFICES ASSUME NEW r \in Spending(s, PeriodWindow(p, now + 1)) PROVE FALSE
      OBVIOUS
    <3>1. r \in Requests /\ ledger[r] \in PeriodWindow(p, now + 1)
      BY DEF Spending, Recorded
    <3>2. ledger[r] # NoDay
      <4>1. now + 1 \in Nat /\ NoDay \notin Nat /\ PeriodWindow(p, now + 1) \subseteq Nat
        BY <1>1, BudgetAssumption DEF NoDay, PeriodWindow, Days
      <4> QED  BY <3>1, <4>1
    <3>3. ledger[r] <= now /\ ledger[r] > now /\ ledger[r] \in Nat
      BY <1>6, <3>1, <3>2, BudgetAssumption DEF StandingInv, TypeOK, Days
    <3> QED  BY <1>1, <3>3
  <2>2. Bounded(U, s, l)
    <3>1. PICK C \in SUBSET Requests : C = Committed(s, PeriodWindow(p, now)) /\ Bounded(C, s, l)
      BY DEF Committed, Spending, Recorded, Uncounted, Restricted, SpendInv
    <3>2. U \subseteq C
      BY <1>3, <3>1 DEF Committed
    <3> QED  BY <1>4, <3>1, <3>2, BoundedShrinks
  <2>3. Committed(s, PeriodWindow(p, now))' = U
    BY <1>1, <1>2, <1>3, <2>1 DEF Committed, Spending, Recorded
  <2> QED  BY <1>1, <1>2, <2>2, <2>3 DEF SpendInv
<1> QED  BY <1>1, <1>5, <1>6, Windows

LEMMA SpendNext ==
    ASSUME NEW s, NEW l, NEW p, BindingCap(s, l, p), TypeOK, StandingInv, SpendInv(s, l, p),
           [Next]_vars
    PROVE  SpendInv(s, l, p)'
<1>1. ASSUME NEW r \in Requests, Enforce(r)  PROVE SpendInv(s, l, p)'
  BY <1>1, SpendEnforce
<1>2. ASSUME NEW r \in Requests, RecordUsage(r) \/ Fails(r)
      PROVE  SpendInv(s, l, p)'
  BY <1>2, SpendRecord
<1>3. CASE NextDay
  BY <1>3, SpendMidnight
<1>4. CASE (\E t \in Scopes : SetBudget(t)) \/ UNCHANGED vars
  <2>1. UNCHANGED <<now, ledger, pc>>
    BY <1>4 DEF SetBudget, vars
  <2> QED  BY <2>1 DEF SpendInv, Committed, Spending, Uncounted, Recorded, Restricted
<1> QED  BY <1>1, <1>2, <1>3, <1>4 DEF Next

\* The invariant for every cap of a user or a team that binds whatever setBudget does.
AllSpend == \A s, l, p : BindingCap(s, l, p) => SpendInv(s, l, p)

\* However requests interleave, whatever setBudget stores and wherever a period
\* ends, what a user or a team spends in a period stays below its cap plus what
\* the requests in flight can cost; under a cap of zero nothing is spent.
THEOREM SpendStaysBounded == Spec => []SpendOvershootBounded
<1>1. Init => AllSpend
  BY SpendInit DEF AllSpend
<1>2. TypeOK /\ StandingInv /\ AllSpend /\ [Next]_vars => AllSpend'
  <2> SUFFICES ASSUME TypeOK, StandingInv, AllSpend, [Next]_vars,
                      NEW s, NEW l, NEW p, BindingCap(s, l, p)
               PROVE  SpendInv(s, l, p)'
    BY DEF AllSpend, BindingCap, CapAtMost, Limits, Periods, Reachable
  <2> QED  BY SpendNext DEF AllSpend
<1>3. TypeOK /\ AllSpend => SpendOvershootBounded
  <2> SUFFICES ASSUME TypeOK, AllSpend, NEW o \in Overshoots, NEW W \in o.windows
               PROVE  LET spent == MapThenSumSet(Cost, Recorded(W) \cap o.by)
                      IN  spent = 0 \/ spent < o.spend
    BY DEF SpendOvershootBounded
  <2>1. PICK s \in {t \in Scopes : t.level \in {"user", "team"}} :
            \E l \in {x \in Limits(s) : CapAtMost(s, x)}, p \in {x \in Periods(s) : Periods(s) = {x}} :
                o = [by |-> Restricted(s), windows |-> {PeriodWindow(p, d) : d \in Days},
                     spend |-> l + MaxInFlight * MaxCost(s)]
    BY DEF Overshoots
  <2>2. PICK l \in {x \in Limits(s) : CapAtMost(s, x)}, p \in {x \in Periods(s) : Periods(s) = {x}} :
            o = [by |-> Restricted(s), windows |-> {PeriodWindow(p, d) : d \in Days},
                 spend |-> l + MaxInFlight * MaxCost(s)]
    BY <2>1
  <2>3. BindingCap(s, l, p)
    BY <2>1, <2>2 DEF BindingCap
  <2>4. PICK d \in Days : W = PeriodWindow(p, d)
    BY <2>2
  <2>5. Bounded(Spending(s, W), s, l)
    BY <2>3, <2>4 DEF AllSpend, SpendInv
  <2>6. PICK S : S = Recorded(W) \cap o.by /\ S = Spending(s, W)
    BY <2>2 DEF Spending
  <2>7. Total(S) = 0 \/ Total(S) < l + Slack(s)
    <3>1. Total({}) = 0
      BY TotalUnfolds, FS_EmptySet
    <3> QED  BY <2>5, <2>6, <3>1 DEF Bounded
  <2>8. o.spend = l + Slack(s)
    BY <2>2 DEF Slack
  <2> QED  BY <2>6, <2>7, <2>8 DEF Total
<1> QED  BY <1>1, <1>2, <1>3, TypeCorrect, StandingInit, StandingKept, PTL DEF Spec

-----------------------------------------------------------------------------
(* The alerts, for requests that come one after another.                   *)

\* The records charged to a scope in a window; their costs are what is consumed.
ChargedIn(s, W) == {q \in Recorded(W) : Charged(q, s)}

Amount(c, kind) == IF kind = "threshold_warning" THEN c.threshold ELSE c.limit

\* The budget of a scope that is never reconfigured.
Fixed(s) == s \in Scopes /\ Reconfigs[s] = {} /\ InitialBudget[s] # NoBudget

Ahead == {"idle", "allowed"} \cup Enforcing
ReportWindow(r) == PeriodWindow(loc[r].seen.period, loc[r].created)

\* A request has no record before its append, and reports for the day of its record
\* and with a budget its scope can have.
RecordInv ==
    \A r \in Requests :
        /\ pc[r] \in Ahead => ledger[r] = NoDay
        /\ pc[r] \in Recording => ledger[r] = loc[r].created
        /\ pc[r] \in {"scopeSpend", "audit", "notify"} =>
               loc[r].seen \in Reachable(CurrentScope(r)) /\ loc[r].seen # NoBudget

LEMMA FixedBudget ==
    ASSUME NEW s \in Scopes, Reconfigs[s] = {}, NEW c \in Reachable(s), c # NoBudget
    PROVE  Fixed(s) /\ c = InitialBudget[s]
BY DEF Fixed, Reachable

LEMMA AmountType ==
    ASSUME NEW s \in Scopes, NEW c \in Reachable(s), c # NoBudget, NEW kind
    PROVE  Amount(c, kind) \in Nat
<1>1. ValidConfig(c)
  BY BudgetAssumption DEF Reachable
<1> QED  BY <1>1 DEF Amount, ValidConfig

\* Only one request is in flight.
LEMMA OneInFlight ==
    ASSUME MaxInFlight = 1, StandingInv, NEW r \in InFlight, NEW q \in InFlight
    PROVE  r = q
<1> SUFFICES ASSUME r # q PROVE FALSE
  OBVIOUS
<1>1. {r, q} \subseteq InFlight /\ InFlight \subseteq Requests
  BY DEF InFlight
<1>2. Cardinality({r, q}) <= Cardinality(InFlight) /\ Cardinality(InFlight) \in Nat
  BY <1>1, RequestSets
<1>3. Cardinality({r, q}) = 2
  <2>1. IsFiniteSet({q}) /\ Cardinality({q}) = 1
    BY FS_Singleton
  <2>2. {r, q} = {q} \cup {r} /\ r \notin {q}
    OBVIOUS
  <2> QED  BY <2>1, <2>2, FS_AddElement
<1> QED  BY <1>2, <1>3 DEF StandingInv

\* The scope being reported is one the record is charged to.
LEMMA ReportScope ==
    ASSUME TypeOK, NEW r \in Requests, pc[r] \in Recording
    PROVE  /\ CurrentScope(r) \in Scopes /\ Charged(r, CurrentScope(r))
           /\ loc[r].created \in Days /\ loc[r].scope \in 1..Len(ScopesOf(r))
<1>1. loc[r].scope \in 1..Len(ScopesOf(r)) /\ loc[r].created # NoDay /\ loc[r] \in Locals
  BY DEF TypeOK
<1>2. CurrentScope(r) \in Scopes
  BY <1>1, ScopesOfType, ElementOfSeq DEF CurrentScope
<1> QED  BY <1>1, <1>2 DEF Charged, CurrentScope, Locals

LEMMA RecordInit == Init => RecordInv
BY DEF Init, RecordInv, Recording

\* What a step of recordUsage, or its failure, does to the request itself.
LEMMA RecordStep ==
    ASSUME TypeOK, NEW r \in Requests, RecordUsage(r) \/ Fails(r)
    PROVE  /\ pc[r] \in {"allowed"} \cup Enforcing \cup Recording /\ pc'[r] \in Recording \cup Stopped
           /\ \A q \in Requests \ {r} : pc'[q] = pc[q] /\ loc'[q] = loc[q]
           /\ UNCHANGED <<now, budget>>
           /\ \/ ledger' = ledger
              \/ AppendUsage(r) /\ ledger' = [ledger EXCEPT ![r] = now]
BY DEF RecordUsage, AppendUsage, ReadScopeBudget, DetectCrossings, AuditAlert, NotifyAlert,
       Fails, EnforceFails, RecordFails, Abandon, NextScope, Goto, Recording, Stopped, TypeOK

LEMMA EnforceStep ==
    ASSUME TypeOK, NEW r \in Requests, Enforce(r)
    PROVE  /\ pc[r] \in Ahead /\ pc'[r] \in Ahead \cup {"denied"}
           /\ \A q \in Requests \ {r} : pc'[q] = pc[q] /\ loc'[q] = loc[q]
           /\ UNCHANGED <<now, budget, ledger, audit, notified>>
BY DEF Enforce, BeginEnforce, CheckUserCap, ReadModelLimit, CheckModelLimit, ReadTeamBudget,
       CheckTeamCap, Deny, Allow, Continue, TeamCheck, Goto, Ahead, Enforcing, TypeOK

LEMMA RecordKept ==
    ASSUME TypeOK, RecordInv, [Next]_vars
    PROVE  RecordInv'
<1>1. ASSUME NEW r \in Requests, Enforce(r) PROVE RecordInv'
  <2>1. pc'[r] \notin Recording /\ ledger[r] = NoDay
    BY <1>1, EnforceStep DEF Ahead, Enforcing, Recording, RecordInv
  <2> QED  BY <1>1, <2>1, EnforceStep DEF RecordInv, Recording, CurrentScope, Reachable
<1>2. ASSUME NEW r \in Requests, RecordUsage(r) \/ Fails(r) PROVE RecordInv'
  <2>1. pc'[r] \notin Ahead
    BY <1>2, RecordStep DEF Ahead, Enforcing, Recording, Stopped
  <2>2. /\ pc'[r] \in Recording => ledger'[r] = loc'[r].created
        /\ pc'[r] \in {"scopeSpend", "audit", "notify"} =>
               loc'[r].seen \in Reachable(ScopesOf(r)[loc'[r].scope]) /\ loc'[r].seen # NoBudget
    <3>1. loc[r] \in Locals /\ (pc[r] \in Recording => CurrentScope(r) \in Scopes)
      BY ReportScope DEF TypeOK
    <3>2. CASE AppendUsage(r)
      BY <3>1, <3>2 DEF AppendUsage, Goto, TypeOK, Locals
    <3>3. CASE NextScope(r) /\ ledger' = ledger /\ pc[r] \in Recording
      BY <3>1, <3>3 DEF NextScope, Goto, TypeOK, Locals, RecordInv, Recording
    <3>4. CASE ReadScopeBudget(r) /\ ~ NextScope(r)
      <4>1. budget[CurrentScope(r)] \in Reachable(CurrentScope(r))
        BY <3>1, <3>4 DEF ReadScopeBudget, TypeOK, Recording
      <4> QED  BY <3>1, <3>4, <4>1 DEF ReadScopeBudget, Goto, TypeOK, Locals, RecordInv, Recording, CurrentScope
    <3>5. CASE DetectCrossings(r) /\ ~ NextScope(r)
      <4>1. pc[r] = "scopeSpend"
        BY <3>5 DEF DetectCrossings
      <4>2. PICK f : loc' = [loc EXCEPT ![r].alerts = f] /\ pc' = [pc EXCEPT ![r] = "audit"] /\ ledger' = ledger
        BY <3>5 DEF DetectCrossings, Goto
      <4> QED  BY <3>1, <4>1, <4>2 DEF TypeOK, Locals, RecordInv, Recording, CurrentScope
    <3>6. CASE AuditAlert(r)
      BY <3>6 DEF AuditAlert, Goto, TypeOK, RecordInv, Recording, CurrentScope
    <3>7. CASE NotifyAlert(r) /\ ~ NextScope(r)
      BY <3>1, <3>7 DEF NotifyAlert, Goto, TypeOK, Locals, RecordInv, Recording, CurrentScope
    <3>8. CASE Fails(r)
      BY <3>8 DEF Fails, EnforceFails, RecordFails, Abandon, Goto, TypeOK, Recording
    <3> QED  BY <1>2, <3>2, <3>3, <3>4, <3>5, <3>6, <3>7, <3>8
             DEF RecordUsage, ReadScopeBudget, DetectCrossings, NotifyAlert, Recording
  <2>3. \A q \in Requests \ {r} : pc'[q] = pc[q] /\ loc'[q] = loc[q] /\ ledger'[q] = ledger[q]
    BY <1>2, RecordStep DEF TypeOK
  <2> QED  BY <2>1, <2>2, <2>3 DEF RecordInv, CurrentScope, Reachable
<1>3. CASE (\E s \in Scopes : SetBudget(s)) \/ NextDay \/ UNCHANGED vars
  <2>1. UNCHANGED <<ledger, pc, loc>>
    BY <1>3 DEF SetBudget, NextDay, vars
  <2> QED  BY <2>1 DEF RecordInv, CurrentScope, Reachable
<1> QED  BY <1>1, <1>2, <1>3 DEF Next

\* A record of a scope costs what it adds to the total.
LEMMA TotalBefore ==
    ASSUME TypeOK, NEW s, NEW W \in SUBSET Days, NEW q \in Requests
    PROVE  /\ ChargedIn(s, W) \in SUBSET Requests
           /\ Total(ChargedIn(s, W)) \in Nat /\ Total(ChargedIn(s, W) \ {q}) \in Nat
           /\ Consumed(s, W) = Total(ChargedIn(s, W))
           /\ q \in ChargedIn(s, W) =>
                  Total(ChargedIn(s, W) \ {q}) = Total(ChargedIn(s, W)) - Cost(q)
<1>1. PICK S \in SUBSET Requests : S = ChargedIn(s, W)
  BY DEF ChargedIn, Recorded
<1>2. Total(S) \in Nat /\ Total(S \ {q}) \in Nat /\ Cost(q) \in Nat
  BY TotalType, CostType
<1>3. q \in S => Total(S) = Cost(q) + Total(S \ {q})
  BY TotalWithout
<1>4. Consumed(s, W) = Total(ChargedIn(s, W))
  BY DEF Consumed, Total, ChargedIn
<1> QED  BY <1>1, <1>2, <1>3, <1>4

\* No record is lost, and an append adds one at most.
LEMMA ChargedGrows ==
    ASSUME TypeOK, RecordInv, NEW s, NEW W \in SUBSET Days, NEW r \in Requests,
           pc[r] = "allowed", ledger' = [ledger EXCEPT ![r] = now]
    PROVE  /\ r \notin ChargedIn(s, W)
           /\ ChargedIn(s, W)' = IF now \in W /\ Charged(r, s) THEN ChargedIn(s, W) \cup {r} ELSE ChargedIn(s, W)
<1>1. ledger[r] = NoDay /\ NoDay \notin W
  BY BudgetAssumption DEF RecordInv, Ahead, NoDay, Days
<1> QED  BY <1>1 DEF ChargedIn, Recorded, TypeOK

LEMMA WindowType == ASSUME NEW c, NEW d \in Days PROVE PeriodWindow(c.period, d) \in SUBSET Days
BY DEF PeriodWindow

\* The alerts that wait to be reported are those of the crossings of this record.
Crosses(r, s, W, amount) ==
    Total(ChargedIn(s, W) \ {r}) < amount /\ amount <= Total(ChargedIn(s, W))

DetectedInv ==
    \A r \in Requests : pc[r] \in {"audit", "notify"} =>
        \A i \in DOMAIN loc[r].alerts :
            Crosses(r, CurrentScope(r), ReportWindow(r), Amount(loc[r].seen, loc[r].alerts[i]))

\* Once an alert is audited, the spend is past its amount, also without the cost of
\* any other request that may still report.
AuditInv ==
    /\ audit \subseteq [kind : AlertKinds, request : Requests, scope : Scopes, window : SUBSET Days]
    /\ \A a \in audit : Reconfigs[a.scope] = {} =>
           LET amount == Amount(InitialBudget[a.scope], a.kind) IN
           /\ Fixed(a.scope)
           /\ amount <= Total(ChargedIn(a.scope, a.window))
           /\ \A q \in Requests \ {a.request} : pc[q] \in Recording =>
                  amount <= Total(ChargedIn(a.scope, a.window) \ {q})
    /\ AlertReportedOnce

AlertInv == StandingInv /\ RecordInv /\ DetectedInv /\ AuditInv

\* What is detected is exactly what was crossed.
LEMMA Found ==
    ASSUME NEW seen, NEW cost, NEW after, NEW kind \in AlertKinds
    PROVE  (\E i \in DOMAIN Crossings(seen, cost, after) : Crossings(seen, cost, after)[i] = kind)
               <=> Crossed(after - cost, after, Amount(seen, kind))
<1>1. PICK x, y : x = Crossed(after - cost, after, seen.threshold) /\ y = Crossed(after - cost, after, seen.limit)
  OBVIOUS
<1>2. Crossings(seen, cost, after) = (IF x THEN <<"threshold_warning">> ELSE <<>>)
                                      \o (IF y THEN <<"cap_reached">> ELSE <<>>)
  BY <1>1 DEF Crossings
<1>3. CASE x /\ y
  <2>1. Crossings(seen, cost, after) = <<"threshold_warning", "cap_reached">>
    <3>1. PICK t, u : t = <<"threshold_warning">> /\ u = <<"cap_reached">>
      OBVIOUS
    <3>2. /\ t \in Seq(AlertKinds) /\ Len(t) = 1 /\ t[1] = "threshold_warning"
          /\ u \in Seq(AlertKinds) /\ Len(u) = 1 /\ u[1] = "cap_reached"
      BY <3>1 DEF AlertKinds
    <3>3. PICK v : v = <<"threshold_warning", "cap_reached">>
      OBVIOUS
    <3>4. v \in Seq(AlertKinds) /\ Len(v) = 2 /\ v[1] = "threshold_warning" /\ v[2] = "cap_reached"
      BY <3>3 DEF AlertKinds
    <3>5. /\ t \o u \in Seq(AlertKinds) /\ Len(t \o u) = 2
          /\ \A i \in 1..2 : (t \o u)[i] = IF i <= 1 THEN t[i] ELSE u[i - 1]
      BY <3>2, ConcatProperties
    <3>6. \A i \in 1..Len(v) : v[i] = (t \o u)[i]
      BY <3>2, <3>4, <3>5
    <3>7. t \o u = v
      BY <3>4, <3>5, <3>6, SeqEqual
    <3> QED  BY <1>2, <1>3, <3>1, <3>3, <3>7
  <2> QED  BY <1>1, <1>3, <2>1 DEF Amount, AlertKinds
<1>4. CASE x /\ ~y
  <2>1. Crossings(seen, cost, after) = <<"threshold_warning">>
    BY <1>2, <1>4
  <2> QED  BY <1>1, <1>4, <2>1 DEF Amount, AlertKinds
<1>5. CASE ~x /\ y
  <2>1. Crossings(seen, cost, after) = <<"cap_reached">>
    BY <1>2, <1>5
  <2> QED  BY <1>1, <1>5, <2>1 DEF Amount, AlertKinds
<1>6. CASE ~x /\ ~y
  <2>1. Crossings(seen, cost, after) = <<>>
    BY <1>2, <1>6
  <2> QED  BY <1>1, <1>6, <2>1 DEF Amount, AlertKinds
<1> QED  BY <1>1, <1>3, <1>4, <1>5, <1>6 DEF Crossed

\* A step that records nothing and lets nobody into reporting keeps what audited
\* alerts rest on.
LEMMA AuditStays ==
    ASSUME AuditInv, ledger' = ledger, audit' = audit,
           \A q \in Requests : pc'[q] \in Recording => pc[q] \in Recording
    PROVE  AuditInv'
<1>1. \A s, W : ChargedIn(s, W)' = ChargedIn(s, W)
  BY DEF ChargedIn, Recorded, Charged, ScopesOf, OrgScope, UserScope, TeamScope, ProjectScope, HasTeam, HasProject
<1>2. AlertReportedOnce'
  BY DEF AuditInv, AlertReportedOnce
<1>3. ASSUME NEW a \in audit, Reconfigs[a.scope] = {}
      PROVE  /\ Fixed(a.scope)
             /\ Amount(InitialBudget[a.scope], a.kind) <= Total(ChargedIn(a.scope, a.window)')
             /\ \A q \in Requests \ {a.request} : pc'[q] \in Recording =>
                    Amount(InitialBudget[a.scope], a.kind) <= Total(ChargedIn(a.scope, a.window)' \ {q})
  <2>1. PICK S : S = ChargedIn(a.scope, a.window) /\ S = ChargedIn(a.scope, a.window)'
    BY <1>1 DEF ChargedIn, Recorded
  <2>2. /\ Fixed(a.scope) /\ Amount(InitialBudget[a.scope], a.kind) <= Total(S)
        /\ \A q \in Requests \ {a.request} : pc[q] \in Recording =>
               Amount(InitialBudget[a.scope], a.kind) <= Total(S \ {q})
    BY <1>3, <2>1 DEF AuditInv
  <2> QED  BY <2>1, <2>2
<1> QED  BY <1>2, <1>3 DEF AuditInv, Fixed, Scopes, Amount

\* An append adds to the spend, and all of it was there before the new record.
LEMMA AuditAppended ==
    ASSUME TypeOK, RecordInv, AuditInv, NEW r \in Requests, AppendUsage(r)
    PROVE  AuditInv'
<1>0. /\ pc[r] = "allowed" /\ ledger' = [ledger EXCEPT ![r] = now] /\ audit' = audit
      /\ \A q \in Requests \ {r} : pc'[q] = pc[q]
  BY DEF AppendUsage, Goto, TypeOK
<1>1. AlertReportedOnce'
  BY <1>0 DEF AuditInv, AlertReportedOnce
<1>2. ASSUME NEW a \in audit, Reconfigs[a.scope] = {}
      PROVE  /\ Fixed(a.scope)
             /\ Amount(InitialBudget[a.scope], a.kind) <= Total(ChargedIn(a.scope, a.window)')
             /\ \A q \in Requests \ {a.request} : pc'[q] \in Recording =>
                    Amount(InitialBudget[a.scope], a.kind) <= Total(ChargedIn(a.scope, a.window)' \ {q})
  <2>1. a.window \in SUBSET Days /\ a.scope \in Scopes
    BY DEF AuditInv
  <2>2. PICK S \in SUBSET Requests : S = ChargedIn(a.scope, a.window)
    BY DEF ChargedIn, Recorded
  <2>3. PICK T \in SUBSET Requests : T = ChargedIn(a.scope, a.window)'
    BY DEF ChargedIn, Recorded
  <2>4. r \notin S /\ (T = S \/ T = S \cup {r})
    BY <1>0, <2>1, <2>2, <2>3, ChargedGrows
  <2>5. PICK amount : amount = Amount(InitialBudget[a.scope], a.kind)
    OBVIOUS
  <2>6. /\ Fixed(a.scope) /\ amount <= Total(S)
        /\ \A q \in Requests \ {a.request} : pc[q] \in Recording => amount <= Total(S \ {q})
    BY <1>2, <2>2, <2>5 DEF AuditInv
  <2>7. amount \in Nat
    BY <2>5, <2>6, AmountType DEF Fixed, Reachable
  <2>8. amount <= Total(T) /\ amount <= Total(T \ {r})
    <3>1. S \subseteq T /\ S \subseteq T \ {r}
      BY <2>4
    <3>2. Total(S) <= Total(T) /\ Total(S) <= Total(T \ {r})
      BY <3>1, TotalGrows
    <3>3. Total(S) \in Nat /\ Total(T) \in Nat /\ Total(T \ {r}) \in Nat
      BY TotalType
    <3> QED  BY <2>6, <2>7, <3>2, <3>3
  <2>9. ASSUME NEW q \in Requests \ {a.request}, pc'[q] \in Recording, q # r
        PROVE  amount <= Total(T \ {q})
    <3>1. amount <= Total(S \ {q})
      BY <1>0, <2>6, <2>9
    <3>2. Total(S \ {q}) <= Total(T \ {q})
      <4>1. S \ {q} \subseteq T \ {q} /\ T \ {q} \in SUBSET Requests
        BY <2>4
      <4> QED  BY <4>1, TotalGrows
    <3>3. Total(S \ {q}) \in Nat /\ Total(T \ {q}) \in Nat
      BY TotalType
    <3> QED  BY <2>7, <3>1, <3>2, <3>3
  <2> QED  BY <2>3, <2>5, <2>6, <2>8, <2>9
<1> QED  BY <1>0, <1>1, <1>2 DEF AuditInv, Fixed, Scopes, Amount

\* The one that audits an alert is alone in flight: had another been audited for the
\* amount, the spend without this record would not be below it.
LEMMA AuditAdded ==
    ASSUME MaxInFlight = 1, TypeOK, AlertInv, NEW r \in Requests, AuditAlert(r)
    PROVE  AuditInv'
<1>a. PICK s, W, kind, n : /\ s = CurrentScope(r) /\ W = ReportWindow(r)
                           /\ kind = Head(loc[r].alerts) /\ n = Alert(r)
  OBVIOUS
<1>b. PICK S : S = ChargedIn(s, W)
  OBVIOUS
<1> USE <1>a, <1>b
<1>0. /\ pc[r] = "audit" /\ audit' = audit \cup {n} /\ ledger' = ledger /\ loc' = loc
      /\ pc' = [pc EXCEPT ![r] = "notify"]
  BY DEF AuditAlert, Goto
<1>1. n = [kind |-> kind, request |-> r, scope |-> s, window |-> W]
  BY DEF Alert, ReportWindow
<1>2. s \in Scopes /\ W \in SUBSET Days /\ S \in SUBSET Requests
  BY <1>0, ReportScope, WindowType DEF ReportWindow, ChargedIn, Recorded, Recording
<1>3. kind \in AlertKinds /\ 1 \in DOMAIN loc[r].alerts /\ kind = loc[r].alerts[1]
  <2>1. loc[r].alerts \in Seq(AlertKinds) /\ loc[r].alerts # <<>>
    BY <1>0 DEF TypeOK, Locals
  <2> QED  BY <2>1
<1>4. loc[r].seen \in Reachable(s) /\ loc[r].seen # NoBudget
  BY <1>0 DEF AlertInv, RecordInv
<1>5. Total(S \ {r}) < Amount(loc[r].seen, kind) /\ Amount(loc[r].seen, kind) <= Total(S)
  BY <1>0, <1>3 DEF AlertInv, DetectedInv, Crosses
<1>6. \A q \in Requests : pc'[q] \in Recording => q = r
  <2> SUFFICES ASSUME NEW q \in Requests, pc'[q] \in Recording, q # r PROVE FALSE
    OBVIOUS
  <2>1. r \in InFlight /\ q \in InFlight
    BY <1>0 DEF InFlight, Active, Recording, TypeOK
  <2> QED  BY <2>1, OneInFlight DEF AlertInv
<1>7. \A b \in audit : /\ b \in [kind : AlertKinds, request : Requests, scope : Scopes, window : SUBSET Days]
                       /\ b = [kind |-> b.kind, request |-> b.request, scope |-> b.scope, window |-> b.window]
  BY DEF AlertInv, AuditInv
<1>8. ASSUME NEW b \in audit, b.kind = kind, b.scope = s, b.window = W, Reconfigs[s] = {}
      PROVE  b = n
  <2>1. Fixed(s) /\ loc[r].seen = InitialBudget[s]
    BY <1>2, <1>4, <1>8, FixedBudget
  <2>2. b.request = r
    <3> SUFFICES ASSUME b.request # r PROVE FALSE
      OBVIOUS
    <3>1. Amount(InitialBudget[s], kind) <= Total(S \ {r})
      BY <1>0, <1>8 DEF AlertInv, AuditInv, Recording
    <3>2. Amount(InitialBudget[s], kind) \in Nat /\ Total(S \ {r}) \in Nat
      BY <1>2, <1>4, <2>1, AmountType, TotalType
    <3> QED  BY <1>5, <2>1, <3>1, <3>2
  <2> QED  BY <1>1, <1>7, <1>8, <2>2
<1>9. AlertReportedOnce'
  BY <1>0, <1>1, <1>8 DEF AlertInv, AuditInv, AlertReportedOnce
<1>10. \A a \in audit : Reconfigs[a.scope] = {} =>
           /\ Fixed(a.scope)
           /\ Amount(InitialBudget[a.scope], a.kind) <= Total(ChargedIn(a.scope, a.window)')
           /\ \A q \in Requests \ {a.request} : pc'[q] \in Recording =>
                  Amount(InitialBudget[a.scope], a.kind) <= Total(ChargedIn(a.scope, a.window)' \ {q})
  <2> SUFFICES ASSUME NEW a \in audit, Reconfigs[a.scope] = {}
               PROVE  /\ Fixed(a.scope)
                      /\ Amount(InitialBudget[a.scope], a.kind) <= Total(ChargedIn(a.scope, a.window)')
                      /\ \A q \in Requests \ {a.request} : pc'[q] \in Recording =>
                           Amount(InitialBudget[a.scope], a.kind) <= Total(ChargedIn(a.scope, a.window)' \ {q})
    OBVIOUS
  <2>1. PICK A : A = ChargedIn(a.scope, a.window) /\ A = ChargedIn(a.scope, a.window)'
    BY <1>0 DEF ChargedIn, Recorded
  <2>2. /\ Fixed(a.scope) /\ Amount(InitialBudget[a.scope], a.kind) <= Total(A)
        /\ \A q \in Requests \ {a.request} : pc[q] \in Recording =>
               Amount(InitialBudget[a.scope], a.kind) <= Total(A \ {q})
    BY <2>1 DEF AlertInv, AuditInv
  <2>3. \A q \in Requests : pc'[q] \in Recording => pc[q] \in Recording
    BY <1>0 DEF TypeOK, Recording
  <2> QED  BY <2>1, <2>2, <2>3
<1>11. Reconfigs[s] = {} =>
           /\ Fixed(s) /\ Amount(InitialBudget[s], kind) <= Total(ChargedIn(s, W)')
           /\ \A q \in Requests \ {r} : pc'[q] \notin Recording
  <2> SUFFICES ASSUME Reconfigs[s] = {}
               PROVE  Fixed(s) /\ Amount(InitialBudget[s], kind) <= Total(ChargedIn(s, W)')
    BY <1>6
  <2>1. S = ChargedIn(s, W)'
    BY <1>0 DEF ChargedIn, Recorded
  <2> QED  BY <1>2, <1>4, <1>5, <2>1, FixedBudget
<1> QED  BY <1>0, <1>1, <1>2, <1>3, <1>9, <1>10, <1>11 DEF AlertInv, AuditInv, Fixed, Scopes, Amount

\* Where nothing is recorded, what a record crosses stays the same.
LEMMA CrossesStays ==
    ASSUME NEW q, NEW s, NEW W, NEW amount, ledger' = ledger
    PROVE  Crosses(q, s, W, amount)' = Crosses(q, s, W, amount)
BY DEF Crosses, ChargedIn, Recorded, Charged, ScopesOf, OrgScope, UserScope, TeamScope, ProjectScope, HasTeam, HasProject

\* detectCrossings finds the alerts of the amounts that the record crossed.
LEMMA Detects ==
    ASSUME TypeOK, RecordInv, NEW r \in Requests, DetectCrossings(r), NEW kind \in AlertKinds
    PROVE  LET seen == loc[r].seen
               found == Crossings(seen, Cost(r), Consumed(CurrentScope(r), ReportWindow(r)))
           IN  (\E i \in DOMAIN found : found[i] = kind)
                   <=> Crosses(r, CurrentScope(r), ReportWindow(r), Amount(seen, kind))
<1>1. PICK s, W, seen : s = CurrentScope(r) /\ W = ReportWindow(r) /\ seen = loc[r].seen
  OBVIOUS
<1>2. pc[r] = "scopeSpend" /\ pc[r] \in Recording
  BY DEF DetectCrossings, Recording
<1>3. s \in Scopes /\ Charged(r, s) /\ loc[r].created \in Days /\ W \in SUBSET Days /\ loc[r].created \in W
  BY <1>1, <1>2, ReportScope, WindowType, Windows DEF ReportWindow
<1>4. ledger[r] = loc[r].created
  BY <1>2 DEF RecordInv
<1>5. r \in ChargedIn(s, W)
  BY <1>3, <1>4 DEF ChargedIn, Recorded
<1>6. PICK t, after \in Nat : /\ t = Total(ChargedIn(s, W) \ {r}) /\ after = Total(ChargedIn(s, W))
                              /\ after = Consumed(s, W) /\ t = after - Cost(r)
  BY <1>3, <1>5, TotalBefore
<1>7. PICK found : found = Crossings(seen, Cost(r), after)
  OBVIOUS
<1>8. (\E i \in DOMAIN found : found[i] = kind) <=> Crossed(after - Cost(r), after, Amount(seen, kind))
  BY <1>7, Found
<1>9. PICK amount \in Nat : amount = Amount(seen, kind)
  BY <1>1, <1>2, <1>3, AmountType DEF RecordInv
<1>10. Crossed(t, after, amount) <=> t < amount /\ amount <= after
  BY <1>6, <1>9 DEF Crossed
<1> QED  BY <1>1, <1>6, <1>7, <1>8, <1>9, <1>10 DEF Crosses

\* While an alert waits nothing is recorded: the one that reports is alone.
LEMMA DetectedKept ==
    ASSUME MaxInFlight = 1, TypeOK, StandingInv, RecordInv, DetectedInv, [Next]_vars
    PROVE  DetectedInv'
<1> DEFINE Waits(q) == \A i \in DOMAIN loc'[q].alerts :
               Crosses(q, ScopesOf(q)[loc'[q].scope], PeriodWindow(loc'[q].seen.period, loc'[q].created),
                       Amount(loc'[q].seen, loc'[q].alerts[i]))
<1>1. ASSUME NEW q \in Requests, pc[q] \in {"audit", "notify"}, loc'[q] = loc[q] PROVE Waits(q)
  BY <1>1 DEF DetectedInv, CurrentScope, ReportWindow
<1>2. ASSUME ledger' = ledger, \A q \in Requests : pc'[q] \in {"audit", "notify"} => Waits(q)
      PROVE  DetectedInv'
  BY <1>2, CrossesStays DEF DetectedInv, CurrentScope, ReportWindow
<1> HIDE DEF Waits
<1>3. ASSUME NEW r \in Requests, Enforce(r) PROVE DetectedInv'
  <2>1. pc'[r] \notin {"audit", "notify"}
    BY <1>3, EnforceStep DEF Ahead, Enforcing
  <2> QED  BY <1>1, <1>2, <1>3, <2>1, EnforceStep
<1>4. ASSUME NEW r \in Requests, RecordUsage(r) \/ Fails(r) PROVE DetectedInv'
  <2>1. CASE AppendUsage(r)
    <3>1. pc[r] = "allowed" /\ pc'[r] = "scopeBudget" /\ r \in InFlight
      BY <2>1 DEF AppendUsage, Goto, TypeOK, InFlight, Active
    <3>2. \A q \in Requests : pc'[q] \in {"audit", "notify"} => q \in InFlight /\ q # r
      BY <1>4, <3>1, RecordStep DEF InFlight, Active, Recording
    <3>3. \A q \in Requests : pc'[q] \notin {"audit", "notify"}
      BY <3>1, <3>2, OneInFlight
    <3> QED  BY <3>3 DEF DetectedInv
  <2>2. CASE ~ AppendUsage(r)
    <3>1. /\ ledger' = ledger
          /\ \A q \in Requests \ {r} : pc'[q] = pc[q] /\ loc'[q] = loc[q]
      BY <1>4, <2>2, RecordStep
    <3>2. pc'[r] \in {"audit", "notify"} => Waits(r)
      <4> SUFFICES ASSUME pc'[r] \in {"audit", "notify"} PROVE Waits(r)
        OBVIOUS
      <4>0. loc[r] \in Locals
        BY DEF TypeOK
      <4>1. CASE ReadScopeBudget(r) \/ Fails(r)
        BY <4>1 DEF ReadScopeBudget, Fails, EnforceFails, RecordFails, Abandon, NextScope, Goto, TypeOK
      <4>2. CASE DetectCrossings(r)
        <5>1. PICK found : /\ found = Crossings(loc[r].seen, Cost(r), Consumed(CurrentScope(r), ReportWindow(r)))
                           /\ found # <<>> => loc' = [loc EXCEPT ![r].alerts = found]
                           /\ found = <<>> => NextScope(r)
          BY <4>2 DEF DetectCrossings, ReportWindow
        <5>2. found # <<>>
          BY <5>1 DEF NextScope, Goto, TypeOK
        <5>3. /\ loc'[r].alerts = found /\ loc'[r].seen = loc[r].seen
              /\ loc'[r].scope = loc[r].scope /\ loc'[r].created = loc[r].created
          BY <4>0, <5>1, <5>2 DEF TypeOK, Locals
        <5>4. \A i \in DOMAIN found : found[i] \in AlertKinds
          <6>1. found \in Seq(AlertKinds)
            BY <5>1, CrossingsType
          <6> QED  BY <6>1, ElementOfSeq
        <5>5. \A i \in DOMAIN found :
                  Crosses(r, CurrentScope(r), ReportWindow(r), Amount(loc[r].seen, found[i]))
          BY <4>2, <5>1, <5>4, Detects
        <5> QED  BY <5>3, <5>5 DEF Waits, CurrentScope, ReportWindow
      <4>3. CASE AuditAlert(r)
        BY <1>1, <4>3 DEF AuditAlert
      <4>4. CASE NotifyAlert(r)
        <5>1. /\ pc[r] = "notify" /\ Len(loc[r].alerts) > 1
              /\ loc' = [loc EXCEPT ![r].alerts = Tail(loc[r].alerts)]
          BY <4>4 DEF NotifyAlert, NextScope, Goto, TypeOK
        <5>2. PICK alerts \in Seq(AlertKinds) : alerts = loc[r].alerts
          BY <4>0 DEF Locals
        <5>3. /\ loc'[r].alerts = Tail(alerts) /\ loc'[r].seen = loc[r].seen
              /\ loc'[r].scope = loc[r].scope /\ loc'[r].created = loc[r].created
          BY <4>0, <5>1, <5>2 DEF TypeOK, Locals
        <5>4. \A i \in DOMAIN Tail(alerts) : i + 1 \in DOMAIN alerts /\ Tail(alerts)[i] = alerts[i + 1]
          BY <5>1, <5>2
        <5>5. \A i \in DOMAIN alerts :
                  Crosses(r, CurrentScope(r), ReportWindow(r), Amount(loc[r].seen, alerts[i]))
          BY <5>1, <5>2 DEF DetectedInv
        <5> QED  BY <5>3, <5>4, <5>5 DEF Waits, CurrentScope, ReportWindow
      <4> QED  BY <1>4, <2>2, <4>1, <4>2, <4>3, <4>4 DEF RecordUsage
    <3> QED  BY <1>1, <1>2, <3>1, <3>2
  <2> QED  BY <2>1, <2>2
<1>5. CASE (\E s \in Scopes : SetBudget(s)) \/ NextDay \/ UNCHANGED vars
  <2>1. UNCHANGED <<ledger, pc, loc>>
    BY <1>5 DEF SetBudget, NextDay, vars
  <2> QED  BY <1>1, <1>2, <2>1
<1> QED  BY <1>3, <1>4, <1>5 DEF Next

LEMMA AuditKept ==
    ASSUME MaxInFlight = 1, TypeOK, AlertInv, [Next]_vars
    PROVE  AuditInv'
<1>0. AuditInv /\ RecordInv
  BY DEF AlertInv
<1>1. ASSUME NEW r \in Requests, Enforce(r) PROVE AuditInv'
  <2>1. \A q \in Requests : pc'[q] \in Recording => pc[q] \in Recording
    BY <1>1, EnforceStep DEF Ahead, Enforcing, Recording
  <2> QED  BY <1>0, <1>1, <2>1, EnforceStep, AuditStays
<1>2. ASSUME NEW r \in Requests, RecordUsage(r) \/ Fails(r),
             ~ AppendUsage(r), ~ AuditAlert(r)
      PROVE  AuditInv'
  <2>1. ledger' = ledger /\ audit' = audit
    BY <1>2 DEF RecordUsage, ReadScopeBudget, DetectCrossings, NotifyAlert, Fails, EnforceFails, RecordFails, Abandon
  <2>2. pc'[r] \in Recording => pc[r] \in Recording
    BY <1>2 DEF RecordUsage, ReadScopeBudget, DetectCrossings, NotifyAlert, Fails, EnforceFails, RecordFails, Abandon,
                Goto, Recording, TypeOK
  <2> QED  BY <1>0, <1>2, <2>1, <2>2, RecordStep, AuditStays
<1>3. CASE (\E s \in Scopes : SetBudget(s)) \/ NextDay \/ UNCHANGED vars
  <2>1. UNCHANGED <<ledger, pc, audit>>
    BY <1>3 DEF SetBudget, NextDay, vars
  <2> QED  BY <1>0, <2>1, AuditStays
<1> QED  BY <1>0, <1>1, <1>2, <1>3, AuditAppended, AuditAdded DEF Next

\* Requests that come one after another, on whatever days, of whatever costs: no scope
\* that keeps its budget is alerted twice of one amount in one period.
\* (budget-manager.ts recordUsage and detectCrossings.)
THEOREM AlertsComeOnce == ASSUME MaxInFlight = 1 PROVE Spec => []AlertReportedOnce
<1>1. Init => AlertInv
  BY StandingInit, RecordInit DEF Init, AlertInv, DetectedInv, AuditInv, AlertReportedOnce
<1>2. TypeOK /\ AlertInv /\ [Next]_vars => AlertInv'
  BY StandingKept, RecordKept, DetectedKept, AuditKept DEF AlertInv
<1>3. AlertInv => AlertReportedOnce
  BY DEF AlertInv, AuditInv
<1> QED  BY <1>1, <1>2, <1>3, TypeCorrect, PTL DEF Spec

-----------------------------------------------------------------------------
(* No crossing is missed, for requests that come one after another.        *)

Reported(s, W, kind) ==
    \/ \E a \in notified : a.kind = kind /\ a.scope = s /\ a.window = W
    \/ \E r \in ChargedIn(s, W) : CutShort(r, s)

\* The request has scope s still before it, or has the alert of it in hand.
WillReport(r, s, kind) ==
    \E i \in 1..Len(ScopesOf(r)) :
        /\ ScopesOf(r)[i] = s
        /\ \/ pc[r] \in {"scopeBudget", "scopeSpend"} /\ loc[r].scope <= i
           \/ pc[r] \in {"audit", "notify"} /\ loc[r].scope < i
           \/ /\ pc[r] \in {"audit", "notify"} /\ loc[r].scope = i
              /\ \E j \in DOMAIN loc[r].alerts : loc[r].alerts[j] = kind

\* Where an amount is passed its alert was delivered, or is on its way with the
\* request that passed it.
Accounted(s, W, kind) ==
    \/ Reported(s, W, kind)
    \/ \E r \in ChargedIn(s, W) :
           /\ WillReport(r, s, kind)
           /\ Total(ChargedIn(s, W) \ {r}) < Amount(InitialBudget[s], kind)

PastAmount(s, W, kind) ==
    Amount(InitialBudget[s], kind) > 0 /\ Total(ChargedIn(s, W)) >= Amount(InitialBudget[s], kind)

CrossInv ==
    \A s \in Scopes, d \in Days, kind \in AlertKinds :
        LET W == PeriodWindow(InitialBudget[s].period, d) IN
        Fixed(s) /\ PastAmount(s, W, kind) => Accounted(s, W, kind)

\* A request that goes on to the next scope still has all later ones before it.
LEMMA NextReports ==
    ASSUME TypeOK, NEW r \in Requests, pc[r] \in Recording, NextScope(r),
           NEW i \in 1..Len(ScopesOf(r)), loc[r].scope < i, NEW kind
    PROVE  WillReport(r, ScopesOf(r)[i], kind)'
<1>1. loc[r] \in Locals /\ Len(ScopesOf(r)) \in Nat /\ loc[r].scope \in 1..Len(ScopesOf(r))
  BY ScopesOfType DEF TypeOK
<1>2. loc'[r].scope = loc[r].scope + 1 /\ pc'[r] = "scopeBudget"
  BY <1>1 DEF NextScope, Goto, TypeOK, Locals
<1>3. loc'[r].scope <= i
  BY <1>1, <1>2
<1> QED  BY <1>2, <1>3 DEF WillReport

\* What a request that has yet to report a crossing does next: report it, fail, or
\* keep it before it.
LEMMA ReportsOn ==
    ASSUME TypeOK, RecordInv, NEW r \in Requests, RecordUsage(r) \/ Fails(r),
           NEW s, Fixed(s), budget[s] = InitialBudget[s], NEW d \in Days, NEW kind \in AlertKinds, NEW W,
           W = PeriodWindow(InitialBudget[s].period, d), r \in ChargedIn(s, W), WillReport(r, s, kind),
           Crosses(r, s, W, Amount(InitialBudget[s], kind))
    PROVE  \/ WillReport(r, s, kind)'
           \/ CutShort(r, s)'
           \/ \E a \in notified' : a.kind = kind /\ a.scope = s /\ a.window = W
<1>1. PICK i \in 1..Len(ScopesOf(r)) :
          /\ ScopesOf(r)[i] = s
          /\ \/ pc[r] \in {"scopeBudget", "scopeSpend"} /\ loc[r].scope <= i
             \/ pc[r] \in {"audit", "notify"} /\ loc[r].scope < i
             \/ /\ pc[r] \in {"audit", "notify"} /\ loc[r].scope = i
                /\ \E j \in DOMAIN loc[r].alerts : loc[r].alerts[j] = kind
  BY DEF WillReport
<1>2. /\ loc[r] \in Locals /\ pc[r] \in Recording /\ Len(ScopesOf(r)) \in Nat
      /\ loc[r].scope \in 1..Len(ScopesOf(r)) /\ loc[r].created \in Days
  BY <1>1, ScopesOfType, ReportScope DEF TypeOK, Recording
<1>3. ledger[r] = loc[r].created /\ ledger[r] \in W
  BY <1>2 DEF RecordInv, ChargedIn, Recorded
<1>4. W \in SUBSET Days /\ s \in Scopes /\ InitialBudget[s] \in Reachable(s) /\ InitialBudget[s] # NoBudget
  BY WindowType DEF Fixed, Reachable
<1>5. loc[r].scope = i => CurrentScope(r) = s
  BY <1>1 DEF CurrentScope
<1>6. ASSUME loc[r].scope = i, pc[r] \in {"scopeSpend", "audit", "notify"}
      PROVE  loc[r].seen = InitialBudget[s] /\ ReportWindow(r) = W
  <2>1. loc[r].seen \in Reachable(s) /\ loc[r].seen # NoBudget
    BY <1>5, <1>6 DEF RecordInv
  <2>2. loc[r].seen = InitialBudget[s]
    BY <1>4, <2>1, FixedBudget DEF Fixed
  <2>3. PeriodWindow(InitialBudget[s].period, d) = PeriodWindow(InitialBudget[s].period, loc[r].created)
    <3>1. PICK p : p = InitialBudget[s].period
      OBVIOUS
    <3>2. loc[r].created \in PeriodWindow(p, d)
      BY <1>3, <3>1
    <3>3. \A e \in Days : e \in PeriodWindow(p, d) => PeriodWindow(p, d) = PeriodWindow(p, e)
      BY Windows
    <3>4. PeriodWindow(p, d) = PeriodWindow(p, loc[r].created)
      BY <1>2, <3>2, <3>3
    <3> QED  BY <3>1, <3>4
  <2> QED  BY <2>2, <2>3 DEF ReportWindow
<1>7. CASE NextScope(r) /\ loc[r].scope < i
  BY <1>1, <1>2, <1>7, NextReports
<1>8. CASE AppendUsage(r)
  BY <1>2, <1>8 DEF AppendUsage, Recording
<1>9. CASE ReadScopeBudget(r)
  <2>1. pc[r] = "scopeBudget" /\ loc[r].scope <= i
    BY <1>1, <1>9 DEF ReadScopeBudget
  <2>2. CASE NextScope(r)
    <3>1. loc[r].scope # i
      <4> SUFFICES ASSUME loc[r].scope = i PROVE FALSE
        OBVIOUS
      <4>1. Cost(r) = 0
        BY <1>4, <1>5, <1>9, <2>2 DEF ReadScopeBudget, NextScope, Goto, TypeOK
      <4>2. Total(ChargedIn(s, W) \ {r}) = Total(ChargedIn(s, W)) - 0
        BY <1>4, <4>1, TotalBefore
      <4>3. Total(ChargedIn(s, W)) \in Nat /\ Amount(InitialBudget[s], kind) \in Nat
        BY <1>4, TotalBefore, AmountType
      <4> QED  BY <4>2, <4>3 DEF Crosses
    <3> QED  BY <1>2, <1>7, <2>1, <2>2, <3>1
  <2>3. CASE ~ NextScope(r)
    <3>1. pc'[r] = "scopeSpend" /\ loc'[r].scope = loc[r].scope
      BY <1>2, <1>9, <2>3 DEF ReadScopeBudget, Goto, TypeOK, Locals
    <3> QED  BY <1>1, <2>1, <3>1 DEF WillReport
  <2> QED  BY <2>2, <2>3
<1>10. CASE DetectCrossings(r)
  <2>1. pc[r] = "scopeSpend" /\ loc[r].scope <= i
    BY <1>1, <1>10 DEF DetectCrossings
  <2>2. PICK found : /\ found = Crossings(loc[r].seen, Cost(r), Consumed(CurrentScope(r), ReportWindow(r)))
                     /\ found = <<>> => NextScope(r)
                     /\ found # <<>> => /\ loc' = [loc EXCEPT ![r].alerts = found]
                                        /\ pc' = [pc EXCEPT ![r] = "audit"]
    BY <1>10 DEF DetectCrossings, ReportWindow, Goto
  <2>3. loc[r].scope = i => \E j \in DOMAIN found : found[j] = kind
    BY <1>5, <1>6, <1>10, <2>1, <2>2, Detects
  <2>4. CASE found = <<>>
    BY <1>2, <1>7, <2>1, <2>2, <2>3, <2>4
  <2>5. CASE found # <<>>
    <3>1. pc'[r] = "audit" /\ loc'[r].scope = loc[r].scope /\ loc'[r].alerts = found
      BY <1>2, <2>2, <2>5 DEF TypeOK, Locals
    <3>2. loc[r].scope < i \/ loc[r].scope = i
      BY <1>2, <2>1
    <3> QED  BY <1>1, <2>3, <3>1, <3>2 DEF WillReport
  <2> QED  BY <2>4, <2>5
<1>11. CASE AuditAlert(r)
  <2>1. pc[r] = "audit" /\ pc'[r] = "notify" /\ loc' = loc
    BY <1>11 DEF AuditAlert, Goto, TypeOK
  <2> QED  BY <1>1, <2>1 DEF WillReport
<1>12. CASE Fails(r)
  <2>1. pc'[r] = "failed" /\ loc' = loc
    BY <1>2, <1>12 DEF Fails, EnforceFails, Abandon, RecordFails, Goto, TypeOK, Enforcing, Recording
  <2>2. loc[r].scope <= i
    BY <1>1, <1>2
  <2> QED  BY <1>1, <2>1, <2>2 DEF CutShort
<1>13. CASE NotifyAlert(r)
  <2>1. pc[r] = "notify" /\ notified' = notified \cup {Alert(r)}
    BY <1>13 DEF NotifyAlert
  <2>2. PICK alerts \in Seq(AlertKinds) : alerts = loc[r].alerts /\ alerts # <<>>
    BY <1>2, <2>1 DEF TypeOK, Locals
  <2>3. CASE loc[r].scope = i /\ Head(alerts) = kind
    <3>1. /\ Alert(r).kind = kind /\ Alert(r).scope = s /\ Alert(r).window = W
      BY <1>5, <1>6, <2>1, <2>2, <2>3 DEF Alert, ReportWindow
    <3> QED  BY <2>1, <3>1
  <2>4. CASE loc[r].scope < i
    <3>1. CASE Len(alerts) > 1
      <4>1. pc'[r] = "audit" /\ loc'[r].scope = loc[r].scope
        BY <1>2, <1>13, <2>2, <3>1 DEF NotifyAlert, Goto, TypeOK, Locals
      <4> QED  BY <1>1, <2>4, <4>1 DEF WillReport
    <3>2. CASE ~ (Len(alerts) > 1)
      BY <1>7, <1>13, <2>2, <2>4, <3>2 DEF NotifyAlert
    <3> QED  BY <3>1, <3>2
  <2>5. CASE loc[r].scope = i /\ Head(alerts) # kind
    <3>1. PICK j \in DOMAIN alerts : alerts[j] = kind
      BY <1>1, <2>1, <2>2, <2>5
    <3>2. j > 1 /\ Len(alerts) > 1 /\ j - 1 \in DOMAIN Tail(alerts) /\ Tail(alerts)[j - 1] = kind
      <4>1. j \in 1..Len(alerts) /\ Len(alerts) \in Nat /\ Head(alerts) = alerts[1]
        BY <2>2, <3>1
      <4>2. j > 1 /\ Len(alerts) > 1 /\ j - 1 \in 1..(Len(alerts) - 1)
        BY <2>5, <3>1, <4>1
      <4>3. DOMAIN Tail(alerts) = 1..(Len(alerts) - 1) /\ Tail(alerts)[j - 1] = alerts[(j - 1) + 1]
        BY <2>2, <4>2
      <4>4. (j - 1) + 1 = j
        BY <4>1
      <4> QED  BY <3>1, <4>2, <4>3, <4>4
    <3>3. pc'[r] = "audit" /\ loc'[r].scope = loc[r].scope /\ loc'[r].alerts = Tail(alerts)
      BY <1>2, <1>13, <2>2, <3>2 DEF NotifyAlert, Goto, TypeOK, Locals
    <3> QED  BY <1>1, <2>5, <3>2, <3>3 DEF WillReport
  <2>6. loc[r].scope < i \/ loc[r].scope = i
    BY <1>1, <1>2, <2>1
  <2> QED  BY <2>3, <2>4, <2>5, <2>6
<1> QED  BY <1>8, <1>9, <1>10, <1>11, <1>12, <1>13 DEF RecordUsage

\* Where nothing is recorded, a crossing stays accounted for as long as the request
\* that has to report it goes on to do so.
LEMMA CrossStays ==
    ASSUME TypeOK, CrossInv, ledger' = ledger, notified \subseteq notified',
           \A q, s : q \in Requests /\ CutShort(q, s) => CutShort(q, s)',
           \A s \in Scopes, d \in Days, kind \in AlertKinds : \A W, q :
               /\ W = PeriodWindow(InitialBudget[s].period, d) /\ Fixed(s)
               /\ q \in ChargedIn(s, W) /\ WillReport(q, s, kind)
               /\ Crosses(q, s, W, Amount(InitialBudget[s], kind))
               => \/ WillReport(q, s, kind)' \/ CutShort(q, s)'
                  \/ \E a \in notified' : a.kind = kind /\ a.scope = s /\ a.window = W
    PROVE  CrossInv'
<1> SUFFICES ASSUME NEW s \in Scopes, NEW d \in Days, NEW kind \in AlertKinds, NEW W,
                    W = PeriodWindow(InitialBudget[s].period, d), Fixed(s), PastAmount(s, W, kind)'
             PROVE  Accounted(s, W, kind)'
  BY DEF CrossInv, Fixed, Scopes
<1>1. PICK S \in SUBSET Requests : S = ChargedIn(s, W) /\ S = ChargedIn(s, W)'
  BY DEF ChargedIn, Recorded
<1>2. PastAmount(s, W, kind) /\ Amount(InitialBudget[s], kind) <= Total(S)
  <2>1. Total(S) \in Nat /\ Amount(InitialBudget[s], kind) \in Nat
    BY TotalType, AmountType DEF Fixed, Reachable
  <2>2. Amount(InitialBudget[s], kind) > 0 /\ Total(S) >= Amount(InitialBudget[s], kind)
    BY <1>1 DEF PastAmount
  <2> QED  BY <1>1, <2>1, <2>2 DEF PastAmount
<1>3. CASE Reported(s, W, kind)
  BY <1>1, <1>3 DEF Reported, Accounted
<1>4. CASE ~ Reported(s, W, kind)
  <2>1. PICK q \in S : WillReport(q, s, kind) /\ Total(S \ {q}) < Amount(InitialBudget[s], kind)
    BY <1>1, <1>2, <1>4 DEF CrossInv, Accounted
  <2>2. Crosses(q, s, W, Amount(InitialBudget[s], kind))
    BY <1>1, <1>2, <2>1 DEF Crosses
  <2>3. \/ WillReport(q, s, kind)' \/ CutShort(q, s)'
        \/ \E a \in notified' : a.kind = kind /\ a.scope = s /\ a.window = W
    <3>1. q \in ChargedIn(s, W) /\ WillReport(q, s, kind)
      BY <1>1, <2>1
    <3>2. W = PeriodWindow(InitialBudget[s].period, d) /\ Fixed(s)
      OBVIOUS
    <3>3. ASSUME NEW V, NEW p, V = PeriodWindow(InitialBudget[s].period, d), Fixed(s),
                 p \in ChargedIn(s, V), WillReport(p, s, kind),
                 Crosses(p, s, V, Amount(InitialBudget[s], kind))
          PROVE  \/ WillReport(p, s, kind)' \/ CutShort(p, s)'
                 \/ \E a \in notified' : a.kind = kind /\ a.scope = s /\ a.window = V
      BY <3>3
    <3> QED  BY <3>1, <3>2, <3>3, <2>2
  <2>4. CASE WillReport(q, s, kind)'
    BY <1>1, <2>1, <2>4 DEF Accounted
  <2>5. CASE CutShort(q, s)'
    BY <1>1, <2>1, <2>5 DEF Accounted, Reported
  <2>6. CASE \E a \in notified' : a.kind = kind /\ a.scope = s /\ a.window = W
    BY <2>6 DEF Accounted, Reported
  <2> QED  BY <2>3, <2>4, <2>5, <2>6
<1> QED  BY <1>3, <1>4

\* The request that appends is alone in flight: an amount that its record passes was
\* not passed without it, and one passed before was reported before.
LEMMA CrossAppended ==
    ASSUME MaxInFlight = 1, TypeOK, StandingInv, RecordInv, CrossInv, NEW r \in Requests, AppendUsage(r)
    PROVE  CrossInv'
<1>0. /\ pc[r] = "allowed" /\ ledger' = [ledger EXCEPT ![r] = now] /\ notified' = notified
      /\ pc'[r] = "scopeBudget" /\ loc'[r].scope = 1 /\ now \in Days
      /\ \A q \in Requests \ {r} : pc'[q] = pc[q] /\ loc'[q] = loc[q]
  BY DEF AppendUsage, Goto, TypeOK, Locals
<1> SUFFICES ASSUME NEW s \in Scopes, NEW d \in Days, NEW kind \in AlertKinds, NEW W,
                    W = PeriodWindow(InitialBudget[s].period, d), Fixed(s), PastAmount(s, W, kind)'
             PROVE  Accounted(s, W, kind)'
  BY DEF CrossInv, Fixed, Scopes
<1>1. W \in SUBSET Days
  BY WindowType
<1>2. PICK S \in SUBSET Requests : S = ChargedIn(s, W)
  BY DEF ChargedIn, Recorded
<1>3. PICK T \in SUBSET Requests : T = ChargedIn(s, W)'
  BY DEF ChargedIn, Recorded
<1>4. r \notin S /\ T = IF now \in W /\ Charged(r, s) THEN S \cup {r} ELSE S
  BY <1>0, <1>1, <1>2, <1>3, ChargedGrows
<1>5. PICK amount \in Nat : amount = Amount(InitialBudget[s], kind)
  BY AmountType DEF Fixed, Reachable
<1>6. Total(S) \in Nat /\ Total(T) \in Nat /\ amount > 0 /\ Total(T) >= amount
  <2>1. amount > 0 /\ Total(T) >= amount
    BY <1>3, <1>5 DEF PastAmount
  <2> QED  BY <2>1, TotalType
<1>7. CASE Total(S) >= amount
  <2>1. Accounted(s, W, kind)
    BY <1>2, <1>5, <1>6, <1>7 DEF CrossInv, PastAmount
  <2>2. \A q \in S : ~ WillReport(q, s, kind)
    <3> SUFFICES ASSUME NEW q \in S, WillReport(q, s, kind) PROVE FALSE
      OBVIOUS
    <3>1. q \in InFlight /\ r \in InFlight
      BY <1>0 DEF WillReport, InFlight, Active, Recording
    <3> QED  BY <1>4, <3>1, OneInFlight
  <2>3. Reported(s, W, kind)
    BY <1>2, <2>1, <2>2 DEF Accounted
  <2>4. S \subseteq T
    BY <1>4
  <2>5. \A q \in S : CutShort(q, s) => CutShort(q, s)'
    <3> SUFFICES ASSUME NEW q \in S, CutShort(q, s) PROVE CutShort(q, s)'
      OBVIOUS
    <3>1. q \in Requests \ {r}
      BY <1>2, <1>4 DEF ChargedIn, Recorded
    <3> QED  BY <1>0, <3>1 DEF CutShort
  <2>6. Reported(s, W, kind)'
    BY <1>0, <1>2, <1>3, <2>3, <2>4, <2>5 DEF Reported
  <2> QED  BY <2>6 DEF Accounted
<1>8. CASE ~ (Total(S) >= amount)
  <2>1. T = S \cup {r} /\ Charged(r, s)
    BY <1>4, <1>6, <1>8
  <2>2. T \ {r} = S
    BY <1>4, <2>1
  <2>3. WillReport(r, s, kind)'
    <3>1. PICK i \in 1..Len(ScopesOf(r)) : ScopesOf(r)[i] = s
      BY <2>1 DEF Charged
    <3>2. Len(ScopesOf(r)) \in Nat
      BY ScopesOfType
    <3> QED  BY <1>0, <3>1, <3>2 DEF WillReport
  <2>4. Total(T \ {r}) < amount
    BY <1>5, <1>6, <1>8, <2>2
  <2> QED  BY <1>3, <1>5, <2>1, <2>3, <2>4 DEF Accounted
<1> QED  BY <1>7, <1>8

LEMMA CrossKept ==
    ASSUME MaxInFlight = 1, TypeOK, StandingInv, RecordInv, CrossInv, [Next]_vars
    PROVE  CrossInv'
<1>0. \A s : Fixed(s) => budget[s] = InitialBudget[s]
  BY DEF TypeOK, Fixed, Reachable
<1>1. ASSUME NEW r \in Requests, Enforce(r) PROVE CrossInv'
  <2>1. pc[r] \notin Recording /\ pc[r] # "failed"
    BY <1>1, EnforceStep DEF Ahead, Enforcing, Recording
  <2>2. \A q, s, kind : q \in Requests /\ WillReport(q, s, kind) => WillReport(q, s, kind)'
    <3> SUFFICES ASSUME NEW q \in Requests, NEW s, NEW kind, WillReport(q, s, kind)
                 PROVE  WillReport(q, s, kind)'
      OBVIOUS
    <3>1. q # r
      BY <2>1 DEF WillReport, Recording
    <3> QED  BY <1>1, <3>1, EnforceStep DEF WillReport
  <2>3. \A s, W : ChargedIn(s, W) \subseteq Requests
    BY DEF ChargedIn, Recorded
  <2>4. \A q, s : q \in Requests /\ CutShort(q, s) => CutShort(q, s)'
    BY <1>1, <2>1, EnforceStep DEF CutShort
  <2> QED  BY <1>1, <2>2, <2>3, <2>4, EnforceStep, CrossStays
<1>2. ASSUME NEW r \in Requests, RecordUsage(r) \/ Fails(r), ~ AppendUsage(r)
      PROVE  CrossInv'
  <2>1. ledger' = ledger /\ notified \subseteq notified' /\ pc[r] # "failed"
        /\ \A q \in Requests \ {r} : pc'[q] = pc[q] /\ loc'[q] = loc[q]
    <3>1. notified \subseteq notified'
      <4>1. CASE NotifyAlert(r)
        BY <4>1 DEF NotifyAlert
      <4>2. CASE ReadScopeBudget(r) \/ DetectCrossings(r) \/ AuditAlert(r)
        BY <4>2 DEF ReadScopeBudget, DetectCrossings, AuditAlert
      <4>3. CASE Fails(r)
        BY <4>3 DEF Fails, EnforceFails, RecordFails, Abandon
      <4>4. \/ AppendUsage(r) \/ ReadScopeBudget(r) \/ DetectCrossings(r) \/ AuditAlert(r)
            \/ NotifyAlert(r) \/ Fails(r)
        BY <1>2 DEF RecordUsage
      <4> QED  BY <1>2, <4>1, <4>2, <4>3, <4>4
    <3> QED  BY <1>2, <3>1, RecordStep DEF Recording, Enforcing
  <2>2. \A q, s, kind : q \in Requests \ {r} /\ WillReport(q, s, kind) => WillReport(q, s, kind)'
    BY <2>1 DEF WillReport
  <2>4. \A q, s : q \in Requests /\ CutShort(q, s) => CutShort(q, s)'
    BY <2>1 DEF CutShort
  <2>3. ASSUME NEW s \in Scopes, NEW d \in Days, NEW kind \in AlertKinds, NEW W, NEW q,
               W = PeriodWindow(InitialBudget[s].period, d), Fixed(s),
               q \in ChargedIn(s, W), WillReport(q, s, kind),
               Crosses(q, s, W, Amount(InitialBudget[s], kind))
        PROVE  \/ WillReport(q, s, kind)' \/ CutShort(q, s)'
               \/ \E a \in notified' : a.kind = kind /\ a.scope = s /\ a.window = W
    <3>1. q \in Requests
      BY <2>3 DEF ChargedIn, Recorded
    <3>2. CASE q # r
      BY <2>2, <2>3, <3>1, <3>2
    <3>3. CASE q = r
      BY <1>0, <1>2, <2>3, <3>3, ReportsOn
    <3> QED  BY <3>2, <3>3
  <2> QED  BY <2>1, <2>3, <2>4, CrossStays
<1>3. CASE (\E s \in Scopes : SetBudget(s)) \/ NextDay \/ UNCHANGED vars
  <2>1. UNCHANGED <<ledger, pc, loc, notified>>
    BY <1>3 DEF SetBudget, NextDay, vars
  <2>2. \A q, s, kind : WillReport(q, s, kind) => WillReport(q, s, kind)'
    BY <2>1 DEF WillReport
  <2>3. \A q, s : q \in Requests /\ CutShort(q, s) => CutShort(q, s)'
    BY <2>1 DEF CutShort
  <2> QED  BY <2>1, <2>2, <2>3, CrossStays
<1> QED  BY <1>1, <1>2, <1>3, CrossAppended DEF Next

\* Requests that come one after another: every scope that keeps its budget and whose
\* spend of a period is past an amount has been reported as soon as none is in flight,
\* unless a store, the audit log or the notifier rejected, before that scope was done,
\* while a record of it and of that period was being reported.
\* (budget-manager.ts recordUsage and detectCrossings.)
THEOREM CrossingsAreReported == ASSUME MaxInFlight = 1 PROVE Spec => []CrossingReported
<1>1. Init => CrossInv
  <2> SUFFICES ASSUME Init, NEW s \in Scopes, NEW d \in Days, NEW W,
                      W = PeriodWindow(InitialBudget[s].period, d), NEW kind \in AlertKinds, Fixed(s)
               PROVE  ~ PastAmount(s, W, kind)
    BY DEF CrossInv
  <2>1. NoDay \notin W
    BY WindowType, BudgetAssumption DEF NoDay, Days
  <2>2. ChargedIn(s, W) = {}
    BY <2>1 DEF Init, ChargedIn, Recorded
  <2>3. Total(ChargedIn(s, W)) = 0
    BY <2>2, TotalUnfolds, FS_EmptySet
  <2>4. Amount(InitialBudget[s], kind) \in Nat
    BY AmountType DEF Fixed, Reachable
  <2> QED  BY <2>3, <2>4 DEF PastAmount
<1>2. TypeOK /\ StandingInv /\ RecordInv /\ CrossInv /\ [Next]_vars => CrossInv'
  BY CrossKept
<1>3. TypeOK /\ RecordInv /\ [Next]_vars => RecordInv'
  BY RecordKept
<1>4. TypeOK /\ CrossInv => CrossingReported
  <2> SUFFICES ASSUME TypeOK, CrossInv, InFlight = {}, NEW s \in Scopes, NEW d \in Days,
                      budget[s] # NoBudget, Reconfigs[s] = {}, NEW W,
                      W = PeriodWindow(budget[s].period, d), NEW kind \in AlertKinds,
                      Amount(budget[s], kind) > 0, Consumed(s, W) >= Amount(budget[s], kind)
               PROVE  \/ \E a \in notified : a.kind = kind /\ a.scope = s /\ a.window = W
                      \/ \E r \in Recorded(W) : CutShort(r, s)
    BY DEF CrossingReported, Amount, AlertKinds
  <2>1. Fixed(s) /\ budget[s] = InitialBudget[s]
    BY FixedBudget DEF TypeOK
  <2>2. PastAmount(s, W, kind)
    BY <2>1 DEF PastAmount, Consumed, Total, ChargedIn
  <2>3. Accounted(s, W, kind)
    BY <2>1, <2>2 DEF CrossInv
  <2>4. \A r \in ChargedIn(s, W) : ~ WillReport(r, s, kind)
    BY DEF WillReport, InFlight, Active, Recording, ChargedIn, Recorded
  <2> QED  BY <2>3, <2>4 DEF Accounted, Reported, ChargedIn, Recorded
<1> QED  BY <1>1, <1>2, <1>3, <1>4, RecordInit, TypeCorrect, StandingInit, StandingKept, PTL DEF Spec
=============================================================================
