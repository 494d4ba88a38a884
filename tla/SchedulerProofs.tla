-------------------------- MODULE SchedulerProofs --------------------------
(***************************************************************************)
(* Proofs about Scheduler, for every set of workflows, cadences and ticks. *)
(***************************************************************************)
EXTENDS Scheduler, SequenceTheorems, WellFoundedInduction, TLAPS

\* A non-empty set of integers with a lower bound has a minimum.
LEMMA MinExists ==
    ASSUME NEW S \in SUBSET Int, S # {}, NEW low \in Int, \A t \in S : t > low
    PROVE  Min(S) \in S /\ \A t \in S : Min(S) <= t
<1> DEFINE T == {t - low : t \in S}
<1>1. T \subseteq Nat /\ T # {}
  <2>1. \A t \in S : t - low \in Nat
    OBVIOUS
  <2> QED  BY <2>1
<1>2. IsWellFoundedOn(OpToRel(<, Nat), Nat)
  BY NatLessThanWellFounded
<1>3. PICK x \in T : \A y \in T : ~ (<<y, x>> \in OpToRel(<, Nat))
  BY <1>1, <1>2, WFMin
<1>4. \A y \in T : ~ (y < x)
  BY <1>1, <1>3 DEF OpToRel
<1>5. PICK m \in S : x = m - low
  OBVIOUS
<1>6. \A t \in S : m <= t
  <2> SUFFICES ASSUME NEW t \in S PROVE m <= t
    OBVIOUS
  <2>1. t - low \in T /\ ~(t - low < m - low)
    BY <1>4, <1>5
  <2>2. t \in Int /\ m \in Int
    OBVIOUS
  <2> QED  BY <2>1, <2>2
<1> QED  BY <1>5, <1>6 DEF Min

\* The next grid point lies strictly after the bound it is asked for.
LEMMA GridAfterLater ==
    ASSUME NEW anchor \in Int, NEW interval \in Nat \ {0}, NEW bound \in Int
    PROVE  GridAfter(anchor, interval, bound) \in Int
           /\ GridAfter(anchor, interval, bound) > bound
<1> DEFINE elapsed == bound - anchor
           q == elapsed \div interval
<1>1. CASE elapsed < 0
  BY <1>1 DEF GridAfter
<1>2. CASE ~(elapsed < 0)
  <2>1. elapsed \in Nat /\ q \in Nat
    BY <1>2
  <2>2. elapsed = q * interval + (elapsed % interval) /\ elapsed % interval < interval
    BY <2>1
  <2>3. (q + 1) * interval = q * interval + interval
    BY <2>1
  <2>4. GridAfter(anchor, interval, bound) = anchor + (q + 1) * interval
    BY <1>2 DEF GridAfter
  <2>5. (q + 1) * interval \in Int /\ q * interval \in Int /\ elapsed % interval \in Int
    BY <2>1
  <2> HIDE DEF q
  <2>6. bound - anchor < (q + 1) * interval
    BY <2>2, <2>3, <2>5
  <2> QED  BY <2>4, <2>5, <2>6
<1> QED  BY <1>1, <1>2

\* A firing is always followed by a strictly later due time, or by none: this
\* is what keeps a slot from being due twice.
LEMMA NextDueLater ==
    ASSUME NEW e, e.cadence \in Cadences, e.at \in Int, NEW bound \in Int
    PROVE  \/ NextDueAfter(e, bound) = None
           \/ NextDueAfter(e, bound) \in Int /\ NextDueAfter(e, bound) > bound
<1> DEFINE c == e.cadence
<1>1. CASE c.kind = "interval"
  <2>1. c.interval \in Nat \ {0} /\ Anchor(c, e.at) \in Int
    BY <1>1, SchedulerAssumption DEF Anchor
  <2>2. NextDueAfter(e, bound) = GridAfter(Anchor(c, e.at), c.interval, bound)
    BY <1>1 DEF NextDueAfter, NextDue
  <2> QED  BY <2>1, <2>2, GridAfterLater
<1>2. CASE c.kind = "one_shot"
  BY <1>2, SchedulerAssumption DEF NextDueAfter, NextDue
<1>3. CASE c.kind = "cron"
  <2> DEFINE later == {t \in c.times : t > bound /\ t <= bound + 1 + CronHorizon}
  <2>1. c.times \subseteq Int
    BY <1>3, SchedulerAssumption
  <2>2. NextDueAfter(e, bound) = IF later = {} THEN None ELSE Min(later)
    BY <1>3 DEF NextDueAfter, NextDue, CronAfter
  <2>3. later # {} => Min(later) \in later
    BY <2>1, MinExists
  <2> QED  BY <2>1, <2>2, <2>3
<1> QED  BY <1>1, <1>2, <1>3, SchedulerAssumption

\* A schedule is seeded with an instant or with no due time at all.
LEMMA FirstDueType ==
    ASSUME NEW c \in Cadences, NEW from \in Int
    PROVE  FirstDueAtOrAfter(c, from) \in Int \cup {None}
<1>1. CASE c.kind = "interval"
  <2>1. c.interval \in Nat \ {0} /\ Anchor(c, from) \in Int
    BY <1>1, SchedulerAssumption DEF Anchor
  <2>2. FirstDueAtOrAfter(c, from) = GridAfter(Anchor(c, from), c.interval, from)
    BY <1>1 DEF FirstDueAtOrAfter
  <2> QED  BY <2>1, <2>2, GridAfterLater
<1>2. CASE c.kind = "one_shot"
  BY <1>2, SchedulerAssumption DEF FirstDueAtOrAfter
<1>3. CASE c.kind = "cron"
  <2> DEFINE later == {t \in c.times : t > from - 1 /\ t <= from - 1 + 1 + CronHorizon}
  <2>1. c.times \subseteq Int
    BY <1>3, SchedulerAssumption
  <2>2. FirstDueAtOrAfter(c, from) = IF later = {} THEN None ELSE Min(later)
    BY <1>3 DEF FirstDueAtOrAfter, CronAfter
  <2>3. later # {} => Min(later) \in later
    <3>1. from - 1 \in Int /\ later \in SUBSET Int /\ \A t \in later : t > from - 1
      BY <2>1
    <3> HIDE DEF later
    <3> QED  BY <3>1, MinExists
  <2> QED  BY <2>1, <2>2, <2>3
<1> QED  BY <1>1, <1>2, <1>3, SchedulerAssumption

-----------------------------------------------------------------------------
(* The inductive invariant: every fired slot lies before the due time its  *)
(* registration has now, so the next firing of it is a later slot.         *)

FiredBeforeDue ==
    \A i \in 1..Len(fired) :
        LET due == entry[fired[i].entry].nextDue IN
        due = None \/ fired[i].slot < due

OrderInv == TypeOK /\ SlotsFireInOrder /\ FiredBeforeDue

\* Handing a due slot to the trigger keeps the invariant, whichever tick does
\* it and however it came to choose the entry.
LEMMA FirePreserves ==
    ASSUME OrderInv, NEW k \in Ticks, NEW n \in registered, NEW t \in Nat,
           NEW due \in SUBSET (Nat \X Int), Due(n, t), Fire(k, n, t, due),
           UNCHANGED <<now, registered>>
    PROVE  OrderInv'
<1> DEFINE e == entry[n]
           slot == e.nextDue
           next == NextDueAfter(e, slot)
           shot == [entry |-> n, slot |-> slot, at |-> t]
<1>1. n \in 1..Len(entry) /\ n \in Nat /\ entry \in Seq(Registrations) /\ e \in Registrations
  BY ElementOfSeq, LenProperties DEF OrderInv, TypeOK
<1>2. slot \in Int /\ slot # None
  BY <1>1 DEF Due, Registrations
<1>3. next = None \/ (next \in Int /\ next > slot)
  <2>1. e.cadence \in Cadences /\ e.at \in Int
    BY <1>1 DEF Registrations
  <2> HIDE DEF e, next, slot
  <2> QED  BY <1>2, <2>1, NextDueLater DEF next
<1>4. [e EXCEPT !.nextDue = next] \in Registrations
      /\ [e EXCEPT !.nextDue = next].nextDue = next
  <2> HIDE DEF e, next
  <2> QED  BY <1>1, <1>3 DEF Registrations
<1>5. entry' = [entry EXCEPT ![n] = [e EXCEPT !.nextDue = next]]
  BY DEF Fire
<1>6. /\ entry' \in Seq(Registrations) /\ Len(entry') = Len(entry)
      /\ entry'[n].nextDue = next
      /\ \A m \in 1..Len(entry) : m # n => entry'[m] = entry[m]
  <2> HIDE DEF e, next
  <2> QED  BY <1>1, <1>4, <1>5
<1>7. shot \in [entry : Nat, slot : Int, at : Nat]
  BY <1>1, <1>2
<1>8. fired' = Append(fired, shot) /\ fired \in Seq([entry : Nat, slot : Int, at : Nat])
  BY DEF Fire, OrderInv, TypeOK
<1>9. /\ fired' \in Seq([entry : Nat, slot : Int, at : Nat])
      /\ Len(fired') = Len(fired) + 1 /\ Len(fired) \in Nat
      /\ \A i \in 1..Len(fired) : fired'[i] = fired[i]
      /\ fired'[Len(fired) + 1] = shot
  <2> HIDE DEF shot
  <2> QED  BY <1>7, <1>8
<1>10. shot.entry = n /\ shot.slot = slot
  OBVIOUS
<1> HIDE DEF e, slot, next, shot
<1>11. \A i \in 1..Len(fired) : fired[i].entry \in 1..Len(entry)
                                /\ fired[i].entry \in Nat /\ fired[i].slot \in Int
  <2> DEFINE Shots == [entry : Nat, slot : Int, at : Nat]
  <2> SUFFICES ASSUME NEW i \in 1..Len(fired)
               PROVE  /\ fired[i].entry \in 1..Len(entry)
                      /\ fired[i].entry \in Nat /\ fired[i].slot \in Int
    OBVIOUS
  <2>1. fired[i] \in Shots
    <3> HIDE DEF Shots
    <3>1. fired \in Seq(Shots)
      BY <1>8 DEF Shots
    <3> QED  BY <3>1, ElementOfSeq
  <2>2. fired[i].entry \in 1..Len(entry)
    BY DEF OrderInv, TypeOK
  <2> QED  BY <2>1, <2>2
<1>12. \A i \in 1..Len(fired) : fired[i].entry = n => fired[i].slot < slot
  BY <1>2 DEF OrderInv, FiredBeforeDue, slot, e
<1>13. TypeOK'
  <2>1. tick' \in [Ticks -> TickStates]
        /\ \A q \in Ticks : tick'[q].pc = "running" => tick'[q].last \in 1..Len(fired')
    <3>1. tick' = [tick EXCEPT ![k] = [pc |-> "running", now |-> t, due |-> due,
                                       last |-> Len(fired) + 1]]
      BY DEF Fire
    <3>2. [pc |-> "running", now |-> t, due |-> due, last |-> Len(fired) + 1] \in TickStates
      BY <1>9 DEF TickStates
    <3>3. tick \in [Ticks -> TickStates]
          /\ \A q \in Ticks : tick[q].pc = "running" => tick[q].last \in 1..Len(fired)
      BY DEF OrderInv, TypeOK
    <3>4. tick' \in [Ticks -> TickStates]
      BY <3>1, <3>2, <3>3
    <3>5. ASSUME NEW q \in Ticks, tick'[q].pc = "running"
          PROVE  tick'[q].last \in 1..Len(fired')
      <4>1. CASE q = k
        BY <1>9, <3>1, <3>3, <4>1
      <4>2. CASE q # k
        BY <1>9, <3>1, <3>3, <3>5, <4>2
      <4> QED  BY <4>1, <4>2
    <3> QED  BY <3>4, <3>5
  <2>2. \A i \in 1..Len(fired') : fired'[i].entry \in 1..Len(entry')
    <3> SUFFICES ASSUME NEW i \in 1..Len(fired') PROVE fired'[i].entry \in 1..Len(entry')
      OBVIOUS
    <3>1. CASE i = Len(fired) + 1
      BY <1>1, <1>6, <1>9, <1>10, <3>1
    <3>2. CASE i \in 1..Len(fired)
      <4>1. fired'[i] = fired[i] /\ fired[i].entry \in 1..Len(entry)
        BY <1>9, <1>11, <3>2
      <4> QED  BY <1>6, <4>1
    <3> QED  BY <1>9, <3>1, <3>2
  <2>3. registered' \subseteq 1..Len(entry') /\ now' \in Time
    BY <1>6, <1>9 DEF OrderInv, TypeOK
  <2> QED  BY <1>6, <1>9, <2>1, <2>2, <2>3 DEF TypeOK
<1>14. SlotsFireInOrder'
  <2> SUFFICES ASSUME NEW i \in 1..Len(fired'), NEW j \in 1..Len(fired'), i < j,
                      fired'[i].entry = fired'[j].entry
               PROVE  fired'[i].slot < fired'[j].slot
    BY DEF SlotsFireInOrder
  <2>0. Len(fired') = Len(fired) + 1 /\ Len(fired) \in Nat /\ i \in Int /\ j \in Int
        /\ i >= 1 /\ j <= Len(fired) + 1 /\ i < j
    <3>1. Len(fired') = Len(fired) + 1 /\ Len(fired) \in Nat
      BY <1>9
    <3> QED  BY <3>1
  <2>1. i \in 1..Len(fired) /\ fired'[i] = fired[i]
    <3>1. i \in 1..Len(fired)
      BY <2>0
    <3> QED  BY <1>9, <3>1
  <2>2. CASE j = Len(fired) + 1
    <3>1. fired[i].entry = n
      BY <1>9, <1>10, <2>1, <2>2
    <3> QED  BY <1>9, <1>10, <1>12, <2>1, <2>2, <3>1
  <2>3. CASE j \in 1..Len(fired)
    <3>1. fired'[j] = fired[j]
      BY <1>9, <2>3
    <3>2. SlotsFireInOrder
      BY DEF OrderInv
    <3> QED  BY <2>1, <2>3, <3>1, <3>2 DEF SlotsFireInOrder
  <2>4. j = Len(fired) + 1 \/ j \in 1..Len(fired)
    BY <2>0
  <2> QED  BY <2>2, <2>3, <2>4
<1>15. FiredBeforeDue'
  <2> SUFFICES ASSUME NEW i \in 1..Len(fired')
               PROVE  \/ entry'[fired'[i].entry].nextDue = None
                      \/ fired'[i].slot < entry'[fired'[i].entry].nextDue
    BY DEF FiredBeforeDue
  <2>1. CASE i = Len(fired) + 1
    BY <1>2, <1>3, <1>6, <1>9, <1>10, <2>1
  <2>2. CASE i \in 1..Len(fired)
    <3>1. fired'[i] = fired[i] /\ fired[i].entry \in 1..Len(entry) /\ fired[i].slot \in Int
      BY <1>9, <1>11, <2>2
    <3>2. CASE fired[i].entry = n
      BY <1>2, <1>3, <1>6, <1>12, <2>2, <3>1, <3>2
    <3>3. CASE fired[i].entry # n
      BY <1>6, <2>2, <3>1, <3>3 DEF OrderInv, FiredBeforeDue
    <3> QED  BY <3>2, <3>3
  <2> QED  BY <1>9, <2>1, <2>2
<1> QED  BY <1>13, <1>14, <1>15 DEF OrderInv

LEMMA RegisteredAreNumbers ==
    ASSUME TypeOK
    PROVE  Len(entry) \in Nat /\ registered \subseteq Int /\ \A n \in registered : n > 0
<1>1. Len(entry) \in Nat
  BY LenProperties DEF TypeOK
<1>2. registered \subseteq 1..Len(entry)
  BY DEF TypeOK
<1> QED  BY <1>1, <1>2

\* The due entries are numbers of registrations, and there is a first of them.
LEMMA DueEntries ==
    ASSUME TypeOK, NEW t \in Nat, NEW low \in Int
    PROVE  LET due == {n \in DueAt(t) : n > low}
           IN  due # {} => /\ Min(due) \in registered /\ Due(Min(due), t)
                           /\ \A n \in due : Min(due) <= n
<1> DEFINE due == {n \in DueAt(t) : n > low}
<1>1. due \subseteq Int /\ \A n \in due : n > low
  <2>1. registered \subseteq Int
    BY RegisteredAreNumbers
  <2> QED  BY <2>1 DEF DueAt
<1>2. due # {} => Min(due) \in due /\ \A n \in due : Min(due) <= n
  <2> HIDE DEF due
  <2> QED  BY <1>1, MinExists
<1> QED  BY <1>2 DEF DueAt

LEMMA OrderInit == Init => OrderInv
<1> SUFFICES ASSUME Init PROVE OrderInv
  OBVIOUS
<1>1. Idle \in TickStates /\ Idle.pc # "running"
  BY DEF Idle, TickStates
<1>2. entry \in Seq(Registrations) /\ fired \in Seq([entry : Nat, slot : Int, at : Nat])
      /\ Len(fired) = 0 /\ 1..Len(fired) = {}
  <2>1. entry = <<>> /\ fired = <<>>
    BY DEF Init
  <2> QED  BY <2>1
<1>3. tick \in [Ticks -> TickStates] /\ \A k \in Ticks : tick[k].pc # "running"
  BY <1>1 DEF Init
<1>4. now \in Time /\ registered = {}
  BY SchedulerAssumption DEF Init, Time
<1> QED  BY <1>2, <1>3, <1>4 DEF OrderInv, TypeOK, SlotsFireInOrder, FiredBeforeDue

\* A new registration leaves the earlier ones, and what was fired, as they are.
LEMMA SchedulePreserves ==
    ASSUME OrderInv, NEW w \in Workflows, NEW c \in Cadences, Schedule(w, c)
    PROVE  OrderInv'
<1> DEFINE new == [workflow |-> w, cadence |-> c, at |-> now,
                   nextDue |-> FirstDueAtOrAfter(c, now)]
<1>1. now \in Nat /\ entry \in Seq(Registrations)
  BY SchedulerAssumption DEF OrderInv, TypeOK, Time
<1>2. new \in Registrations
  <2>1. FirstDueAtOrAfter(c, now) \in Int \cup {None}
    BY <1>1, FirstDueType
  <2> QED  BY <1>1, <2>1 DEF Registrations
<1>3. entry' = Append(entry, new)
  BY DEF Schedule
<1>4. /\ entry' \in Seq(Registrations) /\ Len(entry) \in Nat /\ Len(entry') = Len(entry) + 1
      /\ \A n \in 1..Len(entry) : entry'[n] = entry[n]
  <2> HIDE DEF new
  <2> QED  BY <1>1, <1>2, <1>3
<1>5. fired' = fired /\ tick' = tick /\ now' = now
      /\ registered' = registered \cup {Len(entry) + 1}
  BY DEF Schedule, NextKey
<1>6. TypeOK'
  <2>1. registered' \subseteq 1..Len(entry')
    <3>1. registered \subseteq 1..Len(entry)
      BY DEF OrderInv, TypeOK
    <3>2. Len(entry) \in Nat /\ Len(entry') = Len(entry) + 1
      BY <1>4
    <3>3. 1..Len(entry) \subseteq 1..Len(entry') /\ Len(entry) + 1 \in 1..Len(entry')
      BY <3>2
    <3> QED  BY <1>5, <3>1, <3>3
  <2>2. \A i \in 1..Len(fired') : fired'[i].entry \in 1..Len(entry')
    <3>1. 1..Len(entry) \subseteq 1..Len(entry')
      BY <1>4
    <3> QED  BY <1>5, <3>1 DEF OrderInv, TypeOK
  <2> QED  BY <1>4, <1>5, <2>1, <2>2 DEF OrderInv, TypeOK
<1>7. SlotsFireInOrder'
  BY <1>5 DEF OrderInv, SlotsFireInOrder
<1>8. FiredBeforeDue'
  BY <1>4, <1>5 DEF OrderInv, TypeOK, FiredBeforeDue
<1> QED  BY <1>6, <1>7, <1>8 DEF OrderInv

\* What only moves a tick's program counter, the clock or the set of present
\* registrations keeps the invariant.
LEMMA RestPreserves ==
    ASSUME OrderInv, UNCHANGED <<entry, fired>>, now' \in Time,
           registered' \subseteq registered,
           tick' \in [Ticks -> TickStates],
           \A k \in Ticks : tick'[k].pc = "running" => tick'[k].last \in 1..Len(fired)
    PROVE  OrderInv'
<1>1. TypeOK'
  BY DEF OrderInv, TypeOK
<1>2. SlotsFireInOrder' /\ FiredBeforeDue'
  BY DEF OrderInv, SlotsFireInOrder, FiredBeforeDue
<1> QED  BY <1>1, <1>2 DEF OrderInv

LEMMA StopPreserves ==
    ASSUME OrderInv, NEW k \in Ticks, NEW end \in {"done", "aborted"}
    PROVE  LET t == [tick EXCEPT ![k].pc = end]
           IN  /\ t \in [Ticks -> TickStates]
               /\ \A q \in Ticks : t[q].pc = "running" => t[q].last \in 1..Len(fired)
<1>1. tick \in [Ticks -> TickStates]
      /\ \A q \in Ticks : tick[q].pc = "running" => tick[q].last \in 1..Len(fired)
  BY DEF OrderInv, TypeOK
<1>2. [tick[k] EXCEPT !.pc = end] \in TickStates /\ [tick[k] EXCEPT !.pc = end].pc # "running"
  BY <1>1 DEF TickStates
<1> QED  BY <1>1, <1>2

LEMMA OrderStep == OrderInv /\ [Next]_vars => OrderInv'
<1> SUFFICES ASSUME OrderInv, [Next]_vars PROVE OrderInv'
  OBVIOUS
<1>1. /\ TypeOK /\ now \in Time /\ now \in Nat /\ tick \in [Ticks -> TickStates]
      /\ \A k \in Ticks : tick[k].pc = "running" => tick[k].last \in 1..Len(fired)
  <2>1. TypeOK
    BY DEF OrderInv
  <2>2. now \in Time /\ tick \in [Ticks -> TickStates]
        /\ (\A k \in Ticks : tick[k].pc = "running" => tick[k].last \in 1..Len(fired))
    BY <2>1 DEF TypeOK
  <2>3. now \in Nat
    BY <2>2, SchedulerAssumption DEF Time
  <2> QED  BY <2>1, <2>2, <2>3
<1>2. ASSUME NEW w \in Workflows, NEW c \in Cadences, Schedule(w, c) PROVE OrderInv'
  BY <1>2, SchedulePreserves
<1>3. ASSUME NEW n \in registered, Unschedule(n) PROVE OrderInv'
  BY <1>1, <1>3, RestPreserves DEF Unschedule
<1>4. ASSUME NEW k \in Ticks, BeginTick(k) PROVE OrderInv'
  <2> DEFINE due == {<<n, entry[n].nextDue>> : n \in DueAt(now)}
  <2>1. due \in SUBSET (Nat \X Int)
    <3> SUFFICES ASSUME NEW n \in DueAt(now) PROVE n \in Nat /\ entry[n].nextDue \in Int
      OBVIOUS
    <3>1. n \in 1..Len(entry) /\ entry \in Seq(Registrations) /\ entry[n].nextDue # None
      BY <1>1 DEF DueAt, Due, TypeOK
    <3>2. entry[n] \in Registrations
      BY <3>1, ElementOfSeq
    <3> QED  BY <3>1, <3>2 DEF Registrations
  <2>2. DueAt(now) = {n \in DueAt(now) : n > 0}
    BY <1>1, RegisteredAreNumbers DEF DueAt
  <2>3. Min(DueAt(now)) \in registered /\ Due(Min(DueAt(now)), now)
    BY <1>1, <1>4, <2>2, DueEntries DEF BeginTick
  <2>4. Fire(k, Min(DueAt(now)), now, due) /\ UNCHANGED <<now, registered>>
    BY <1>4 DEF BeginTick
  <2> HIDE DEF due
  <2> QED  BY <1>1, <2>1, <2>3, <2>4, FirePreserves
<1>5. ASSUME NEW k \in Ticks, TriggerResolves(k) PROVE OrderInv'
  <2>1. /\ tick[k].pc = "running" /\ tick[k].now \in Nat
        /\ tick[k].due \in SUBSET (Nat \X Int) /\ UNCHANGED <<now, registered>>
    BY <1>1, <1>5 DEF TriggerResolves, TickStates
  <2>2. CASE Ahead(k) # {}
    <3>1. Cursor(k) \in Int
      <4>1. tick[k].last \in 1..Len(fired) /\ fired[tick[k].last].entry \in 1..Len(entry)
        BY <1>1, <2>1 DEF TypeOK
      <4> QED  BY <4>1 DEF Cursor
    <3>2. Min(Ahead(k)) \in registered /\ Due(Min(Ahead(k)), tick[k].now)
      BY <1>1, <2>1, <2>2, <3>1, DueEntries DEF Ahead
    <3>3. Fire(k, Min(Ahead(k)), tick[k].now, tick[k].due)
      BY <1>5, <2>2 DEF TriggerResolves
    <3> QED  BY <2>1, <3>2, <3>3, FirePreserves
  <2>3. CASE Ahead(k) = {}
    <3>1. tick' = [tick EXCEPT ![k].pc = "done"] /\ UNCHANGED <<entry, fired>>
      BY <1>5, <2>3 DEF TriggerResolves
    <3> QED  BY <1>1, <2>1, <3>1, StopPreserves, RestPreserves
  <2> QED  BY <2>2, <2>3
<1>6. ASSUME NEW k \in Ticks, TriggerRejects(k) PROVE OrderInv'
  <2>1. /\ tick' = [tick EXCEPT ![k].pc = "aborted"] /\ UNCHANGED <<now, entry, registered, fired>>
    BY <1>1, <1>6 DEF TriggerRejects
  <2> QED  BY <1>1, <2>1, StopPreserves, RestPreserves
<1>7. ASSUME Advance PROVE OrderInv'
  <2>1. now' \in Time
    BY <1>7, SchedulerAssumption DEF Advance, OrderInv, TypeOK, Time
  <2> QED  BY <1>1, <1>7, <2>1, RestPreserves DEF Advance
<1>8. CASE UNCHANGED vars
  BY <1>1, <1>8, RestPreserves DEF vars
<1> QED  BY <1>2, <1>3, <1>4, <1>5, <1>6, <1>7, <1>8 DEF Next

-----------------------------------------------------------------------------
(* The next-due functions name the slots of a cadence one after the other. *)

LEMMA MultipleMod ==
    ASSUME NEW k \in Nat, NEW i \in Nat \ {0}
    PROVE  (k * i) % i = 0
<1> DEFINE m == k * i
           d == m \div i
           r == m % i
<1>1. m \in Nat /\ d \in Nat /\ r \in 0..(i - 1) /\ m = d * i + r
  OBVIOUS
<1> HIDE DEF d, r
<1>2. CASE d < k
  <2>1. (d + 1) * i <= k * i
    BY <1>1, <1>2
  <2>2. (d + 1) * i = d * i + i /\ d * i \in Nat
    BY <1>1
  <2> QED  BY <1>1, <2>1, <2>2
<1>3. CASE d > k
  <2>1. (k + 1) * i <= d * i
    BY <1>1, <1>3
  <2>2. (k + 1) * i = k * i + i /\ k * i \in Nat /\ d * i \in Nat
    BY <1>1
  <2> QED  BY <1>1, <2>1, <2>2
<1>4. CASE d = k
  <2>1. d * i = m /\ m \in Nat
    BY <1>4
  <2> QED  BY <1>1, <2>1 DEF r
<1> QED  BY <1>1, <1>2, <1>3, <1>4

\* GridAfter is a point of the grid, and the first one after the bound.
LEMMA GridAfterFirst ==
    ASSUME NEW anchor \in Int, NEW interval \in Nat \ {0}, NEW bound \in Int
    PROVE  LET g == GridAfter(anchor, interval, bound) IN
           /\ g >= anchor /\ (g - anchor) % interval = 0
           /\ \A t \in Int : t >= anchor /\ (t - anchor) % interval = 0 /\ t > bound => t >= g
<1> DEFINE g == GridAfter(anchor, interval, bound)
           x == bound - anchor
<1>1. CASE x < 0
  <2>1. g = anchor
    BY <1>1 DEF GridAfter
  <2>2. (anchor - anchor) % interval = 0
    OBVIOUS
  <2> QED  BY <2>1, <2>2
<1>2. CASE x >= 0
  <2> DEFINE p == x \div interval
             e == (p + 1) * interval
  <2>1. /\ x \in Nat /\ p \in Nat /\ x % interval \in Nat /\ p * interval \in Nat
        /\ x = p * interval + (x % interval)
    <3>1. x \in Nat
      BY <1>2
    <3> HIDE DEF x
    <3> QED  BY <3>1
  <2>2. g = anchor + e
    BY <1>2 DEF GridAfter
  <2> HIDE DEF p
  <2>3. e \in Nat /\ e % interval = 0
    <3>1. p + 1 \in Nat
      BY <2>1
    <3>2. ((p + 1) * interval) % interval = 0
      BY <3>1, MultipleMod
    <3> QED  BY <3>1, <3>2
  <2>4. g \in Int /\ g - anchor = e /\ g >= anchor
    <3> HIDE DEF e, g
    <3> QED  BY <2>2, <2>3
  <2>5. ASSUME NEW t \in Int, t >= anchor, (t - anchor) % interval = 0, t > bound PROVE t >= g
    <3> DEFINE y == t - anchor
               q == y \div interval
    <3>1. y \in Nat /\ q \in Nat /\ y = q * interval /\ y > x
      BY <2>5
    <3> HIDE DEF q, y, x
    <3>2. q * interval > p * interval
      <4>1. x >= p * interval
        BY <2>1
      <4> QED  BY <2>1, <3>1, <4>1
    <3>3. q >= p + 1
      BY <2>1, <3>1, <3>2
    <3>4. q * interval >= (p + 1) * interval
      BY <2>1, <3>1, <3>3
    <3>5. y >= e
      BY <3>1, <3>4
    <3> HIDE DEF e, g
    <3> QED  BY <2>2, <2>3, <3>1, <3>5 DEF y
  <2> QED  BY <2>3, <2>4, <2>5
<1> QED  BY <1>1, <1>2

\* After a slot comes the next slot of the cadence, or none if there is none.
LEMMA NextSlot ==
    ASSUME NEW e, e.cadence \in Cadences, e.at \in Int, NEW slot \in Int, IsSlot(e, slot)
    PROVE  LET next == NextDueAfter(e, slot) IN
           /\ next # None => IsSlot(e, next)
           /\ \A t \in Int : IsSlot(e, t) /\ t > slot => next # None /\ t >= next
<1> DEFINE c == e.cadence
           next == NextDueAfter(e, slot)
<1>1. CASE c.kind = "interval"
  <2> DEFINE a == Anchor(c, e.at)
  <2>1. c.interval \in Nat \ {0} /\ a \in Int
    BY <1>1, SchedulerAssumption DEF Anchor
  <2>2. next = GridAfter(a, c.interval, slot)
    BY <1>1 DEF NextDueAfter, NextDue
  <2>3. \A t : IsSlot(e, t) <=> t > e.at /\ t >= a /\ (t - a) % c.interval = 0
    BY <1>1 DEF IsSlot
  <2> HIDE DEF a, next
  <2>4. next \in Int /\ next > slot
    BY <2>1, <2>2, GridAfterLater
  <2>5. /\ next >= a /\ (next - a) % c.interval = 0
        /\ \A t \in Int : t >= a /\ (t - a) % c.interval = 0 /\ t > slot => t >= next
    BY <2>1, <2>2, GridAfterFirst
  <2>6. next > e.at
    BY <2>3, <2>4
  <2> QED  BY <2>3, <2>4, <2>5, <2>6, SchedulerAssumption DEF next
<1>2. CASE c.kind = "one_shot"
  <2>1. c.runAt \in Int
    BY <1>2, SchedulerAssumption
  <2>2. slot = c.runAt /\ next = None /\ \A t : IsSlot(e, t) => t = c.runAt
    BY <1>2, <2>1 DEF NextDueAfter, NextDue, IsSlot
  <2> QED  BY <2>1, <2>2
<1>3. CASE c.kind = "cron"
  <2> DEFINE later == {t \in c.times : t > slot /\ t <= slot + 1 + CronHorizon}
             Before(t) == {e.at - 1} \cup {u \in c.times : e.at <= u /\ u < t}
             Met(b) == \E u \in c.times : b < u /\ u <= b + 1 + CronHorizon
  <2>1. c.times \subseteq Int /\ CronHorizon \in Nat /\ None \notin Int
    BY <1>3, SchedulerAssumption
  <2>2. next = IF later = {} THEN None ELSE Min(later)
    BY <1>3 DEF NextDueAfter, NextDue, CronAfter
  <2>3. later # {} => Min(later) \in later /\ \A t \in later : Min(later) <= t
    BY <2>1, MinExists
  <2>4. \A t : IsSlot(e, t) <=> t \in c.times /\ t >= e.at /\ \A b \in Before(t) : Met(b)
    BY <1>3 DEF IsSlot, NoGapBefore
  <2>5. slot \in c.times /\ slot >= e.at /\ \A b \in Before(slot) : Met(b)
    BY <2>4
  <2>6. ASSUME next # None PROVE IsSlot(e, next)
    <3>1. /\ next \in c.times /\ next > slot /\ next <= slot + 1 + CronHorizon /\ next \in Int
          /\ \A t \in later : next <= t
      BY <2>1, <2>2, <2>3, <2>6
    <3> HIDE DEF next
    <3>2. ASSUME NEW b \in Before(next) PROVE Met(b)
      <4>1. CASE b \in Before(slot)
        BY <2>5, <4>1
      <4>2. CASE b = slot
        BY <3>1, <4>2
      <4>3. b \in Before(slot) \/ b = slot
        <5>1. ASSUME b \in c.times, b > slot, b < next PROVE FALSE
          <6>1. b <= slot + 1 + CronHorizon
            BY <2>1, <3>1, <5>1
          <6>2. b \in later
            BY <5>1, <6>1
          <6> QED  BY <2>1, <3>1, <5>1, <6>2
        <5>2. b = e.at - 1 \/ (b \in c.times /\ e.at <= b /\ b < next)
          OBVIOUS
        <5> QED  BY <2>1, <5>1, <5>2
      <4> QED  BY <4>1, <4>2, <4>3
    <3> HIDE DEF Before, Met, later
    <3> QED  BY <2>1, <2>4, <2>5, <3>1, <3>2
  <2>7. ASSUME NEW t \in Int, IsSlot(e, t), t > slot PROVE next # None /\ t >= next
    <3>1. Met(slot)
      <4>1. slot \in Before(t) /\ \A b \in Before(t) : Met(b)
        BY <2>4, <2>5, <2>7
      <4> HIDE DEF Before, Met
      <4> QED  BY <4>1
    <3>2. later # {}
      BY <3>1
    <3>3. next = Min(later) /\ next \in Int /\ next <= slot + 1 + CronHorizon /\ \A u \in later : next <= u
      BY <2>1, <2>2, <2>3, <3>2
    <3>4. t \in c.times
      BY <2>4, <2>7
    <3> HIDE DEF next
    <3>5. ASSUME t < next PROVE FALSE
      <4>1. t \in later
        BY <2>1, <2>7, <3>3, <3>4, <3>5
      <4> QED  BY <3>3, <3>5, <4>1
    <3> QED  BY <2>1, <3>3, <3>5
  <2> QED  BY <2>6, <2>7
<1> QED  BY <1>1, <1>2, <1>3, SchedulerAssumption

\* The seed of a registration is the first slot it has, or none if it has none.
LEMMA FirstSlot ==
    ASSUME NEW e, e.cadence \in Cadences, e.at \in Int, e.nextDue = FirstDueAtOrAfter(e.cadence, e.at)
    PROVE  /\ e.nextDue # None => IsSlot(e, e.nextDue)
           /\ \A t \in Int : IsSlot(e, t) => e.nextDue # None /\ t >= e.nextDue
<1> DEFINE c == e.cadence
           first == FirstDueAtOrAfter(c, e.at)
<1>1. CASE c.kind = "interval"
  <2> DEFINE a == Anchor(c, e.at)
  <2>1. c.interval \in Nat \ {0} /\ a \in Int
    BY <1>1, SchedulerAssumption DEF Anchor
  <2>2. first = GridAfter(a, c.interval, e.at)
    BY <1>1 DEF FirstDueAtOrAfter
  <2>3. \A t : IsSlot(e, t) <=> t > e.at /\ t >= a /\ (t - a) % c.interval = 0
    BY <1>1 DEF IsSlot
  <2> HIDE DEF a, first
  <2>4. first \in Int /\ first > e.at
    BY <2>1, <2>2, GridAfterLater
  <2>5. /\ first >= a /\ (first - a) % c.interval = 0
        /\ \A t \in Int : t >= a /\ (t - a) % c.interval = 0 /\ t > e.at => t >= first
    BY <2>1, <2>2, GridAfterFirst
  <2> QED  BY <2>3, <2>4, <2>5, SchedulerAssumption DEF first
<1>2. CASE c.kind = "one_shot"
  <2>1. c.runAt \in Int /\ None \notin Int
    BY <1>2, SchedulerAssumption
  <2>2. \A t : IsSlot(e, t) <=> t = c.runAt /\ t >= e.at
    BY <1>2 DEF IsSlot
  <2>3. first = IF c.runAt >= e.at THEN c.runAt ELSE None
    BY <1>2 DEF FirstDueAtOrAfter
  <2> QED  BY <2>1, <2>2, <2>3
<1>3. CASE c.kind = "cron"
  <2> DEFINE later == {t \in c.times : t > e.at - 1 /\ t <= e.at - 1 + 1 + CronHorizon}
             Before(t) == {e.at - 1} \cup {u \in c.times : e.at <= u /\ u < t}
             Met(b) == \E u \in c.times : b < u /\ u <= b + 1 + CronHorizon
  <2>1. c.times \subseteq Int /\ CronHorizon \in Nat /\ None \notin Int
    BY <1>3, SchedulerAssumption
  <2>2. first = IF later = {} THEN None ELSE Min(later)
    BY <1>3 DEF FirstDueAtOrAfter, CronAfter
  <2>3. later # {} => Min(later) \in later /\ \A t \in later : Min(later) <= t
    <3>1. e.at - 1 \in Int /\ later \in SUBSET Int /\ \A t \in later : t > e.at - 1
      BY <2>1
    <3> HIDE DEF later
    <3> QED  BY <3>1, MinExists
  <2>4. \A t : IsSlot(e, t) <=> t \in c.times /\ t >= e.at /\ \A b \in Before(t) : Met(b)
    BY <1>3 DEF IsSlot, NoGapBefore
  <2>5. ASSUME first # None PROVE IsSlot(e, first)
    <3>1. /\ first \in c.times /\ first > e.at - 1 /\ first <= e.at - 1 + 1 + CronHorizon /\ first \in Int
          /\ \A t \in later : first <= t
      BY <2>1, <2>2, <2>3, <2>5
    <3> HIDE DEF first
    <3>2. ASSUME NEW b \in Before(first) PROVE Met(b)
      <4>1. CASE b = e.at - 1
        BY <3>1, <4>1
      <4>2. CASE b \in c.times /\ e.at <= b /\ b < first
        <5>1. b \in later
          BY <2>1, <3>1, <4>2
        <5> QED  BY <2>1, <3>1, <4>2, <5>1
      <4> QED  BY <4>1, <4>2
    <3>3. first >= e.at
      BY <3>1
    <3> HIDE DEF Before, Met, later
    <3> QED  BY <2>4, <3>1, <3>2, <3>3
  <2>6. ASSUME NEW t \in Int, IsSlot(e, t) PROVE first # None /\ t >= first
    <3>1. Met(e.at - 1)
      <4>1. e.at - 1 \in Before(t) /\ \A b \in Before(t) : Met(b)
        BY <2>4, <2>6
      <4> HIDE DEF Before, Met
      <4> QED  BY <4>1
    <3>2. later # {}
      BY <3>1
    <3>3. first = Min(later) /\ first \in Int /\ first <= e.at - 1 + 1 + CronHorizon /\ \A u \in later : first <= u
      BY <2>1, <2>2, <2>3, <3>2
    <3>4. t \in c.times /\ t >= e.at
      BY <2>4, <2>6
    <3> HIDE DEF first
    <3>5. ASSUME t < first PROVE FALSE
      <4>1. t \in later
        BY <2>1, <2>6, <3>3, <3>4, <3>5
      <4> QED  BY <3>3, <3>5, <4>1
    <3> QED  BY <2>1, <3>3, <3>5
  <2> HIDE DEF first
  <2> QED  BY <2>5, <2>6 DEF first
<1> QED  BY <1>1, <1>2, <1>3, SchedulerAssumption

-----------------------------------------------------------------------------
(* No slot is skipped.  The instants to come count too: whichever slot     *)
(* lies before the next due time has been fired already.                   *)

SlotInv ==
    \A n \in 1..Len(entry) :
        /\ entry[n].nextDue # None => IsSlot(entry[n], entry[n].nextDue)
        /\ FiredSlots(n) \subseteq 0..now
        /\ \A t \in Int : t \in FiredSlots(n) <=>
               IsSlot(entry[n], t) /\ (entry[n].nextDue = None \/ t < entry[n].nextDue)

\* What a tick saw due is fired, or still due and ahead of it, or removed.
Reached(p) == p[1] \in registered => p[2] \in FiredSlots(p[1])
StillAhead(k, p) ==
    p[1] > Cursor(k) /\ entry[p[1]].nextDue = p[2] /\ p[2] <= tick[k].now

WatchInv ==
    \A k \in Ticks :
        /\ tick[k].now <= now
        /\ \A p \in tick[k].due : p[1] \in 1..Len(entry)
        /\ tick[k].pc = "running" => \A p \in tick[k].due : Reached(p) \/ StillAhead(k, p)
        /\ tick[k].pc = "done" => \A p \in tick[k].due : Reached(p)

SlotsInv == OrderInv /\ SlotInv /\ WatchInv

\* What a firing changes: the due time of its registration, one more fired slot, and
\* the state of the tick that does it.
LEMMA FireFacts ==
    ASSUME OrderInv, NEW k \in Ticks, NEW n \in registered, NEW t \in Nat,
           NEW due \in SUBSET (Nat \X Int), Due(n, t), Fire(k, n, t, due)
    PROVE  /\ n \in 1..Len(entry) /\ entry[n].nextDue \in Int /\ entry[n].nextDue <= t
           /\ entry[n].cadence \in Cadences /\ entry[n].at \in Nat
           /\ Len(entry') = Len(entry)
           /\ \A m \in 1..Len(entry) : m # n => entry'[m] = entry[m]
           /\ entry'[n].nextDue = NextDueAfter(entry[n], entry[n].nextDue)
           /\ entry'[n].cadence = entry[n].cadence /\ entry'[n].at = entry[n].at
           /\ \A m : FiredSlots(m)' = IF m = n THEN FiredSlots(m) \cup {entry[n].nextDue} ELSE FiredSlots(m)
           /\ \A i \in 1..Len(fired) : fired'[i] = fired[i]
           /\ tick'[k].now = t /\ tick'[k].pc = "running" /\ tick'[k].due = due /\ Cursor(k)' = n
           /\ \A q \in Ticks \ {k} : tick'[q] = tick[q]
<1> DEFINE slot == entry[n].nextDue
           shot == [entry |-> n, slot |-> slot, at |-> t]
           next == NextDueAfter(entry[n], slot)
<1>1. n \in 1..Len(entry) /\ entry \in Seq(Registrations) /\ entry[n] \in Registrations
  BY ElementOfSeq, LenProperties DEF OrderInv, TypeOK
<1>2. slot \in Int /\ slot <= t /\ entry[n].cadence \in Cadences /\ entry[n].at \in Nat
  BY <1>1 DEF Due, Registrations
<1>3. /\ entry' = [entry EXCEPT ![n] = [entry[n] EXCEPT !.nextDue = next]] /\ fired' = Append(fired, shot)
      /\ tick' = [tick EXCEPT ![k] = [pc |-> "running", now |-> t, due |-> due, last |-> Len(fired) + 1]]
      /\ shot.entry = n /\ shot.slot = slot
  BY DEF Fire
<1> HIDE DEF next, shot
<1> DEFINE e == entry[n]
           later == [e EXCEPT !.nextDue = next]
<1>11. later.nextDue = next /\ later.cadence = e.cadence /\ later.at = e.at
  <2>1. e \in Registrations
    BY <1>1
  <2> HIDE DEF e
  <2> QED  BY <2>1 DEF Registrations
<1>4. /\ Len(entry') = Len(entry) /\ entry'[n] = later
      /\ \A m \in 1..Len(entry) : m # n => entry'[m] = entry[m]
  <2>1. entry' = [entry EXCEPT ![n] = later]
    BY <1>3
  <2> HIDE DEF later
  <2> QED  BY <1>1, <2>1
<1>5. entry'[n].nextDue = next /\ entry'[n].cadence = entry[n].cadence /\ entry'[n].at = entry[n].at
  BY <1>4, <1>11
<1> HIDE DEF later
<1>6. /\ Len(fired) \in Nat /\ Len(fired') = Len(fired) + 1 /\ fired'[Len(fired) + 1] = shot
      /\ \A i \in 1..Len(fired) : fired'[i] = fired[i]
  BY <1>3 DEF OrderInv, TypeOK
<1>7. 1..Len(fired') = 1..Len(fired) \cup {Len(fired) + 1}
  BY <1>6
<1>8. ASSUME NEW m
      PROVE  FiredSlots(m)' = IF m = n THEN FiredSlots(m) \cup {slot} ELSE FiredSlots(m)
  <2>1. FiredSlots(m)' = {fired'[i].slot : i \in {j \in 1..Len(fired') : fired'[j].entry = m}}
    BY DEF FiredSlots
  <2>2. {j \in 1..Len(fired') : fired'[j].entry = m} =
        {j \in 1..Len(fired) : fired[j].entry = m} \cup (IF m = n THEN {Len(fired) + 1} ELSE {})
    BY <1>3, <1>6, <1>7
  <2>3. FiredSlots(m)' = {fired'[i].slot : i \in {j \in 1..Len(fired) : fired[j].entry = m}}
                         \cup (IF m = n THEN {slot} ELSE {})
    BY <1>3, <1>6, <2>1, <2>2
  <2>4. {fired'[i].slot : i \in {j \in 1..Len(fired) : fired[j].entry = m}} = FiredSlots(m)
    BY <1>6 DEF FiredSlots
  <2> QED  BY <2>3, <2>4
<1>9. /\ tick'[k] = [pc |-> "running", now |-> t, due |-> due, last |-> Len(fired) + 1]
      /\ \A q \in Ticks \ {k} : tick'[q] = tick[q]
  BY <1>3 DEF OrderInv, TypeOK
<1>10. Cursor(k)' = n
  BY <1>3, <1>6, <1>9 DEF Cursor
<1> QED  BY <1>1, <1>2, <1>4, <1>5, <1>6, <1>8, <1>9, <1>10 DEF next, slot

LEMMA SameSlots ==
    ASSUME NEW e, NEW f, e.cadence = f.cadence, e.at = f.at, NEW t
    PROVE  IsSlot(e, t) <=> IsSlot(f, t)
BY DEF IsSlot

LEMMA FireKeepsSlots ==
    ASSUME SlotsInv, NEW k \in Ticks, NEW n \in registered, NEW t \in Nat, t <= now,
           NEW due \in SUBSET (Nat \X Int), Due(n, t), Fire(k, n, t, due), UNCHANGED <<now, registered>>
    PROVE  SlotInv'
<1> DEFINE slot == entry[n].nextDue
           next == NextDueAfter(entry[n], slot)
<1>1. /\ n \in 1..Len(entry) /\ slot \in Int /\ slot <= t /\ slot # None
      /\ entry[n].cadence \in Cadences /\ entry[n].at \in Nat
      /\ Len(entry') = Len(entry)
      /\ \A m \in 1..Len(entry) : m # n => entry'[m] = entry[m]
      /\ entry'[n].nextDue = next
      /\ entry'[n].cadence = entry[n].cadence /\ entry'[n].at = entry[n].at
      /\ \A m : FiredSlots(m)' = IF m = n THEN FiredSlots(m) \cup {slot} ELSE FiredSlots(m)
  BY FireFacts DEF SlotsInv, Due
<1>2. IsSlot(entry[n], slot)
  BY <1>1 DEF SlotsInv, SlotInv
<1>3. /\ next # None => IsSlot(entry[n], next)
      /\ \A u \in Int : IsSlot(entry[n], u) /\ u > slot => next # None /\ u >= next
  BY <1>1, <1>2, NextSlot
<1>4. next = None \/ (next \in Int /\ next > slot)
  <2> DEFINE e == entry[n]
  <2>1. e.at \in Int /\ slot \in Int /\ e.cadence \in Cadences
    BY <1>1
  <2> HIDE DEF e, slot
  <2>2. NextDueAfter(e, slot) = None \/ (NextDueAfter(e, slot) \in Int /\ NextDueAfter(e, slot) > slot)
    BY <2>1, NextDueLater
  <2> QED  BY <2>2 DEF e
<1> HIDE DEF next
<1>5. \A u : IsSlot(entry'[n], u) <=> IsSlot(entry[n], u)
  BY <1>1, SameSlots
<1>6. slot \in 0..now
  <2>1. slot >= entry[n].at
    <3>1. \/ entry[n].cadence.kind = "interval" \/ entry[n].cadence.kind = "one_shot"
          \/ entry[n].cadence.kind = "cron"
      BY <1>1, SchedulerAssumption
    <3>2. slot >= entry[n].at \/ slot > entry[n].at
      BY <1>2, <3>1 DEF IsSlot
    <3> QED  BY <1>1, <3>2
  <2>2. now \in Nat
    BY SchedulerAssumption DEF SlotsInv, OrderInv, TypeOK, Time
  <2> QED  BY <1>1, <2>1, <2>2
<1>7. ASSUME NEW m \in 1..Len(entry'), m # n
      PROVE  /\ entry'[m].nextDue # None => IsSlot(entry'[m], entry'[m].nextDue)
             /\ FiredSlots(m)' \subseteq 0..now'
             /\ \A u \in Int : u \in FiredSlots(m)' <=>
                    IsSlot(entry'[m], u) /\ (entry'[m].nextDue = None \/ u < entry'[m].nextDue)
  BY <1>1, <1>7 DEF SlotsInv, SlotInv
<1>8. FiredSlots(n)' = FiredSlots(n) \cup {slot}
  BY <1>1
<1>9. ASSUME NEW u \in Int
      PROVE  u \in FiredSlots(n)' <=> IsSlot(entry'[n], u) /\ (entry'[n].nextDue = None \/ u < entry'[n].nextDue)
  <2>1. u \in FiredSlots(n) <=> IsSlot(entry[n], u) /\ u < slot
    BY <1>1 DEF SlotsInv, SlotInv
  <2>2. CASE u < slot
    BY <1>1, <1>4, <1>5, <1>8, <2>1, <2>2
  <2>3. CASE u = slot
    BY <1>1, <1>2, <1>4, <1>5, <1>8, <2>3
  <2>4. CASE u > slot
    BY <1>1, <1>3, <1>4, <1>5, <1>8, <2>1, <2>4
  <2> QED  BY <1>1, <2>2, <2>3, <2>4
<1>10. FiredSlots(n)' \subseteq 0..now'
  BY <1>1, <1>6, <1>8 DEF SlotsInv, SlotInv
<1>11. entry'[n].nextDue # None => IsSlot(entry'[n], entry'[n].nextDue)
  BY <1>1, <1>3, <1>5
<1> QED  BY <1>7, <1>9, <1>10, <1>11 DEF SlotInv

\* A tick that fires keeps in view what it has still to reach, and every other tick too.
LEMMA FireKeepsWatch ==
    ASSUME SlotsInv, NEW k \in Ticks, NEW n \in registered, NEW t \in Nat, t <= now,
           NEW due \in SUBSET (Nat \X Int), Due(n, t), Fire(k, n, t, due), UNCHANGED <<now, registered>>,
           \A p \in due : /\ p[1] \in 1..Len(entry)
                          /\ Reached(p) \/ (p[1] >= n /\ entry[p[1]].nextDue = p[2] /\ p[2] <= t)
    PROVE  WatchInv'
<1>1. /\ n \in 1..Len(entry) /\ n \in Nat /\ Len(entry) \in Nat
      /\ Len(entry') = Len(entry)
      /\ \A m \in 1..Len(entry) : m # n => entry'[m] = entry[m]
      /\ \A m : FiredSlots(m)' = IF m = n THEN FiredSlots(m) \cup {entry[n].nextDue} ELSE FiredSlots(m)
      /\ \A i \in 1..Len(fired) : fired'[i] = fired[i]
      /\ tick'[k].now = t /\ tick'[k].pc = "running" /\ tick'[k].due = due /\ Cursor(k)' = n
      /\ \A q \in Ticks \ {k} : tick'[q] = tick[q]
  BY FireFacts, RegisteredAreNumbers DEF SlotsInv, OrderInv
<1>2. \A p : Reached(p) => Reached(p)'
  BY <1>1 DEF Reached
<1>3. \A p : p[1] = n /\ entry[n].nextDue = p[2] => Reached(p)'
  BY <1>1 DEF Reached
<1>4. ASSUME NEW p \in due PROVE p[1] \in 1..Len(entry') /\ (Reached(p)' \/ StillAhead(k, p)')
  <2>1. CASE Reached(p)
    BY <1>1, <1>2, <2>1
  <2>2. CASE p[1] = n /\ entry[p[1]].nextDue = p[2]
    BY <1>1, <1>3, <2>2
  <2>3. CASE p[1] > n /\ entry[p[1]].nextDue = p[2] /\ p[2] <= t
    <3>1. p[1] \in 1..Len(entry) /\ p[1] # n
      BY <1>1, <2>3
    <3> QED  BY <1>1, <2>3, <3>1 DEF StillAhead
  <2>4. p[1] \in 1..Len(entry)
    OBVIOUS
  <2> QED  BY <1>1, <2>1, <2>2, <2>3, <2>4
<1>5. ASSUME NEW q \in Ticks \ {k}, NEW p \in tick[q].due
      PROVE  /\ p[1] \in 1..Len(entry')
             /\ tick[q].pc = "running" => Reached(p)' \/ StillAhead(q, p)'
             /\ tick[q].pc = "done" => Reached(p)'
  <2>1. p[1] \in 1..Len(entry')
    BY <1>1 DEF SlotsInv, WatchInv
  <2>2. ASSUME tick[q].pc = "running", StillAhead(q, p) PROVE Reached(p)' \/ StillAhead(q, p)'
    <3>1. Cursor(q)' = Cursor(q)
      <4>1. tick[q].last \in 1..Len(fired) /\ tick'[q] = tick[q]
        BY <1>1, <2>2 DEF SlotsInv, OrderInv, TypeOK
      <4> QED  BY <1>1, <4>1 DEF Cursor
    <3>2. CASE p[1] = n
      BY <1>3, <2>2, <3>2 DEF StillAhead
    <3>3. CASE p[1] # n
      BY <1>1, <2>1, <2>2, <3>1, <3>3 DEF StillAhead
    <3> QED  BY <3>2, <3>3
  <2> QED  BY <1>2, <2>1, <2>2 DEF SlotsInv, WatchInv
<1>6. \A q \in Ticks : tick'[q].now <= now'
  BY <1>1 DEF SlotsInv, WatchInv
<1> QED  BY <1>1, <1>4, <1>5, <1>6 DEF WatchInv

\* A new registration has fired nothing and starts with its first slot.
LEMMA ScheduleKeepsSlots ==
    ASSUME SlotsInv, NEW w \in Workflows, NEW c \in Cadences, Schedule(w, c)
    PROVE  SlotInv' /\ WatchInv'
<1> DEFINE new == [workflow |-> w, cadence |-> c, at |-> now,
                   nextDue |-> FirstDueAtOrAfter(c, now)]
<1>1. now \in Nat /\ entry \in Seq(Registrations) /\ registered \subseteq 1..Len(entry)
      /\ \A i \in 1..Len(fired) : fired[i].entry \in 1..Len(entry)
  BY SchedulerAssumption DEF SlotsInv, OrderInv, TypeOK, Time
<1>2. /\ entry' = Append(entry, new) /\ registered' = registered \cup {Len(entry) + 1}
      /\ UNCHANGED <<now, tick, fired>>
  BY DEF Schedule, NextKey
<1>3. new.cadence = c /\ new.at = now /\ new.nextDue = FirstDueAtOrAfter(c, now)
  OBVIOUS
<1> HIDE DEF new
<1>4. /\ Len(entry) \in Nat /\ Len(entry') = Len(entry) + 1 /\ entry'[Len(entry) + 1] = new
      /\ \A n \in 1..Len(entry) : entry'[n] = entry[n]
  BY <1>1, <1>2
<1>5. \A n : FiredSlots(n)' = FiredSlots(n)
  BY <1>2 DEF FiredSlots
<1>6. FiredSlots(Len(entry) + 1) = {}
  <2>1. \A i \in 1..Len(fired) : fired[i].entry # Len(entry) + 1
    BY <1>1, <1>4
  <2> QED  BY <2>1 DEF FiredSlots
<1>7. /\ new.nextDue \in Int \cup {None}
      /\ new.nextDue # None => IsSlot(new, new.nextDue)
      /\ \A t \in Int : IsSlot(new, t) => new.nextDue # None /\ t >= new.nextDue
  <2>1. now \in Int
    BY <1>1
  <2> QED  BY <1>3, <2>1, FirstDueType, FirstSlot
<1>8. SlotInv'
  <2> SUFFICES ASSUME NEW n \in 1..Len(entry')
               PROVE  /\ entry'[n].nextDue # None => IsSlot(entry'[n], entry'[n].nextDue)
                      /\ FiredSlots(n)' \subseteq 0..now'
                      /\ \A t \in Int : t \in FiredSlots(n)' <=>
                             IsSlot(entry'[n], t) /\ (entry'[n].nextDue = None \/ t < entry'[n].nextDue)
    BY DEF SlotInv
  <2>1. CASE n \in 1..Len(entry)
    BY <1>2, <1>4, <1>5, <2>1 DEF SlotsInv, SlotInv
  <2>2. CASE n = Len(entry) + 1
    BY <1>4, <1>5, <1>6, <1>7, <2>2
  <2> QED  BY <1>4, <2>1, <2>2
<1>9. WatchInv'
  <2> SUFFICES ASSUME NEW k \in Ticks
               PROVE  /\ tick'[k].now <= now'
                      /\ \A p \in tick'[k].due : p[1] \in 1..Len(entry')
                      /\ tick'[k].pc = "running" => \A p \in tick'[k].due : Reached(p)' \/ StillAhead(k, p)'
                      /\ tick'[k].pc = "done" => \A p \in tick'[k].due : Reached(p)'
    BY DEF WatchInv
  <2>1. \A p \in tick[k].due : p[1] \in 1..Len(entry)
    BY DEF SlotsInv, WatchInv
  <2>2. Cursor(k)' = Cursor(k)
    BY <1>2 DEF Cursor
  <2>3. ASSUME NEW p \in tick[k].due
        PROVE  /\ p[1] \in 1..Len(entry') /\ (Reached(p) => Reached(p)')
               /\ StillAhead(k, p) => StillAhead(k, p)'
    <3>1. p[1] \in 1..Len(entry)
      BY <2>1
    <3>2. p[1] # Len(entry) + 1 /\ p[1] \in 1..Len(entry') /\ entry'[p[1]] = entry[p[1]]
      BY <1>4, <3>1
    <3> QED  BY <1>2, <1>5, <2>2, <3>2 DEF Reached, StillAhead
  <2> QED  BY <1>2, <2>3 DEF SlotsInv, WatchInv
<1> QED  BY <1>8, <1>9

\* What leaves registrations and firings as they are, lets the clock go on, removes
\* registrations or ends a tick that has reached everything it saw due.
LEMMA RestKeepsSlots ==
    ASSUME SlotsInv, UNCHANGED <<entry, fired>>, now' \in Time, now' >= now, registered' \subseteq registered,
           \A k \in Ticks :
               /\ tick'[k].now = tick[k].now /\ tick'[k].due = tick[k].due /\ tick'[k].last = tick[k].last
               /\ tick'[k].pc = "running" => tick[k].pc = "running"
               /\ tick'[k].pc = "done" => tick[k].pc = "done" \/ \A p \in tick[k].due : Reached(p)
    PROVE  SlotInv' /\ WatchInv'
<1>1. now \in Nat /\ now' \in Nat /\ now' >= now /\ tick \in [Ticks -> TickStates]
  BY SchedulerAssumption DEF SlotsInv, OrderInv, TypeOK, Time
<1>2. \A n : FiredSlots(n)' = FiredSlots(n)
  BY DEF FiredSlots
<1>3. \A p : Reached(p) => Reached(p)'
  BY <1>2 DEF Reached
<1>4. \A p : \A k \in Ticks : StillAhead(k, p) => StillAhead(k, p)'
  BY DEF StillAhead, Cursor
<1>5. 0..now \subseteq 0..now'
  BY <1>1
<1>6. SlotInv'
  BY <1>2, <1>5 DEF SlotsInv, SlotInv
<1>7. \A k \in Ticks : tick'[k].now <= now'
  BY <1>1 DEF SlotsInv, WatchInv, TickStates
<1> QED  BY <1>3, <1>4, <1>6, <1>7 DEF SlotsInv, WatchInv

LEMMA SlotsInit == Init => SlotsInv
<1> SUFFICES ASSUME Init PROVE SlotsInv
  OBVIOUS
<1>1. Len(entry) = 0 /\ 1..Len(entry) = {}
  BY DEF Init
<1>2. \A k \in Ticks : tick[k] = Idle
  BY DEF Init
<1>3. WatchInv
  BY <1>2 DEF WatchInv, Idle, Init
<1> QED  BY <1>1, <1>3, OrderInit DEF SlotsInv, SlotInv

LEMMA SlotsStep == SlotsInv /\ [Next]_vars => SlotsInv'
<1> SUFFICES ASSUME SlotsInv, [Next]_vars PROVE SlotsInv'
  OBVIOUS
<1>1. /\ TypeOK /\ now \in Time /\ now \in Nat /\ tick \in [Ticks -> TickStates]
      /\ OrderInv'
  BY OrderStep, SchedulerAssumption DEF SlotsInv, OrderInv, TypeOK, Time
<1> SUFFICES SlotInv' /\ WatchInv'
  BY <1>1 DEF SlotsInv
<1>2. ASSUME NEW w \in Workflows, NEW c \in Cadences, Schedule(w, c) PROVE SlotInv' /\ WatchInv'
  BY <1>2, ScheduleKeepsSlots
<1>3. ASSUME NEW n \in registered, Unschedule(n) PROVE SlotInv' /\ WatchInv'
  BY <1>1, <1>3, RestKeepsSlots DEF Unschedule
<1>4. ASSUME NEW k \in Ticks, BeginTick(k) PROVE SlotInv' /\ WatchInv'
  <2> DEFINE due == {<<n, entry[n].nextDue>> : n \in DueAt(now)}
             first == Min(DueAt(now))
  <2>1. ASSUME NEW n \in DueAt(now) PROVE n \in 1..Len(entry) /\ n \in Nat /\ entry[n].nextDue \in Int
    <3>1. n \in 1..Len(entry) /\ entry \in Seq(Registrations) /\ entry[n].nextDue # None
      BY <1>1 DEF DueAt, Due, TypeOK
    <3>2. entry[n] \in Registrations
      BY <3>1, ElementOfSeq
    <3> QED  BY <3>1, <3>2 DEF Registrations
  <2>2. DueAt(now) = {n \in DueAt(now) : n > 0}
    BY <1>1, RegisteredAreNumbers DEF DueAt
  <2>3. first \in registered /\ Due(first, now) /\ \A n \in DueAt(now) : first <= n
    BY <1>1, <1>4, <2>2, DueEntries DEF BeginTick
  <2>4. Fire(k, first, now, due) /\ UNCHANGED <<now, registered>>
    BY <1>4 DEF BeginTick
  <2>5. due \in SUBSET (Nat \X Int)
    BY <2>1
  <2>6. ASSUME NEW p \in due
        PROVE  /\ p[1] \in 1..Len(entry)
               /\ Reached(p) \/ (p[1] >= first /\ entry[p[1]].nextDue = p[2] /\ p[2] <= now)
    <3>1. PICK n \in DueAt(now) : p = <<n, entry[n].nextDue>>
      OBVIOUS
    <3>2. first <= n /\ n \in Int /\ first \in Int /\ entry[n].nextDue <= now
      BY <1>1, <2>1, <2>3, RegisteredAreNumbers DEF DueAt, Due
    <3> QED  BY <2>1, <3>1, <3>2
  <2>7. now <= now
    BY <1>1
  <2> HIDE DEF due, first
  <2>8. SlotInv'
    BY <1>1, <2>3, <2>4, <2>5, <2>7, FireKeepsSlots
  <2>9. WatchInv'
    BY <1>1, <2>3, <2>4, <2>5, <2>6, <2>7, FireKeepsWatch
  <2> QED  BY <2>8, <2>9
<1>5. ASSUME NEW k \in Ticks, TriggerResolves(k) PROVE SlotInv' /\ WatchInv'
  <2>1. /\ tick[k].pc = "running" /\ tick[k].now \in Nat /\ tick[k].now <= now
        /\ tick[k].due \in SUBSET (Nat \X Int) /\ UNCHANGED <<now, registered>>
        /\ \A p \in tick[k].due : p[1] \in 1..Len(entry) /\ (Reached(p) \/ StillAhead(k, p))
    BY <1>1, <1>5 DEF TriggerResolves, TickStates, SlotsInv, WatchInv
  <2>2. ASSUME NEW p \in tick[k].due, ~ Reached(p)
        PROVE  p[1] \in Ahead(k) /\ entry[p[1]].nextDue = p[2] /\ p[2] <= tick[k].now
    <3>1. p[1] \in registered /\ StillAhead(k, p) /\ p[2] \in Int /\ p[2] # None
      BY <2>1, <2>2, SchedulerAssumption DEF Reached
    <3> QED  BY <3>1 DEF StillAhead, Ahead, DueAt, Due
  <2>3. CASE Ahead(k) # {}
    <3> DEFINE first == Min(Ahead(k))
    <3>1. Cursor(k) \in Int
      <4>1. tick[k].last \in 1..Len(fired) /\ fired[tick[k].last].entry \in 1..Len(entry)
        BY <1>1, <2>1 DEF TypeOK
      <4> QED  BY <4>1 DEF Cursor
    <3>2. /\ first \in registered /\ Due(first, tick[k].now)
          /\ \A n \in Ahead(k) : first <= n
      BY <1>1, <2>1, <2>3, <3>1, DueEntries DEF Ahead
    <3>3. Fire(k, first, tick[k].now, tick[k].due)
      BY <1>5, <2>3 DEF TriggerResolves
    <3>4. ASSUME NEW p \in tick[k].due
          PROVE  /\ p[1] \in 1..Len(entry)
                 /\ Reached(p) \/ (p[1] >= first /\ entry[p[1]].nextDue = p[2] /\ p[2] <= tick[k].now)
      <4>1. p[1] \in Int /\ first \in Int
        BY <1>1, <2>1, <3>2, RegisteredAreNumbers
      <4> QED  BY <2>1, <2>2, <3>2, <4>1
    <3> HIDE DEF first
    <3>5. SlotInv'
      BY <2>1, <3>2, <3>3, FireKeepsSlots
    <3>6. WatchInv'
      BY <2>1, <3>2, <3>3, <3>4, FireKeepsWatch
    <3> QED  BY <3>5, <3>6
  <2>4. CASE Ahead(k) = {}
    <3>1. tick' = [tick EXCEPT ![k].pc = "done"] /\ UNCHANGED <<entry, fired>>
      BY <1>5, <2>4 DEF TriggerResolves
    <3>2. \A p \in tick[k].due : Reached(p)
      BY <2>2, <2>4
    <3>3. ASSUME NEW q \in Ticks
          PROVE  /\ tick'[q].now = tick[q].now /\ tick'[q].due = tick[q].due /\ tick'[q].last = tick[q].last
                 /\ tick'[q].pc = "running" => tick[q].pc = "running"
                 /\ tick'[q].pc = "done" => tick[q].pc = "done" \/ \A p \in tick[q].due : Reached(p)
      BY <1>1, <3>1, <3>2 DEF TickStates
    <3> QED  BY <1>1, <2>1, <3>1, <3>3, RestKeepsSlots
  <2> QED  BY <2>3, <2>4
<1>6. ASSUME NEW k \in Ticks, TriggerRejects(k) PROVE SlotInv' /\ WatchInv'
  <2>1. /\ tick' = [tick EXCEPT ![k].pc = "aborted"] /\ UNCHANGED <<now, entry, registered, fired>>
    BY <1>6 DEF TriggerRejects
  <2>2. ASSUME NEW q \in Ticks
        PROVE  /\ tick'[q].now = tick[q].now /\ tick'[q].due = tick[q].due /\ tick'[q].last = tick[q].last
               /\ tick'[q].pc = "running" => tick[q].pc = "running"
               /\ tick'[q].pc = "done" => tick[q].pc = "done"
    BY <1>1, <2>1 DEF TickStates
  <2> QED  BY <1>1, <2>1, <2>2, RestKeepsSlots
<1>7. ASSUME Advance PROVE SlotInv' /\ WatchInv'
  <2>1. now' \in Time /\ now' >= now /\ UNCHANGED <<entry, registered, tick, fired>>
    BY <1>1, <1>7, SchedulerAssumption DEF Advance, Time
  <2> QED  BY <2>1, RestKeepsSlots
<1>8. CASE UNCHANGED vars
  <2>1. now' \in Time /\ now' >= now /\ UNCHANGED <<entry, registered, tick, fired>>
    BY <1>1, <1>8 DEF vars
  <2> QED  BY <2>1, RestKeepsSlots
<1> QED  BY <1>2, <1>3, <1>4, <1>5, <1>6, <1>7, <1>8 DEF Next

\* However ticks, registrations and removals interleave, the registry, the
\* ticks and the firings keep their types.
THEOREM TypeCorrect == Spec => []TypeOK
<1>1. OrderInv => TypeOK
  BY DEF OrderInv
<1> QED  BY <1>1, OrderInit, OrderStep, PTL DEF Spec

\* "A schedule fires exactly once per due slot" (scheduler.ts:141): no slot of
\* a registration is ever handed to the trigger twice, nor behind a later one,
\* for any cadences and any number of overlapping ticks.
THEOREM FiresInOrder == Spec => []SlotsFireInOrder
<1>1. OrderInv => SlotsFireInOrder
  BY DEF OrderInv
<1> QED  BY <1>1, OrderInit, OrderStep, PTL DEF Spec

\* No slot fires ahead of its time and none is lost (scheduler.ts:141): at every
\* moment the slots of a registration that were fired are exactly those of its
\* cadence that lie before its next due time, however long ticks stayed away and
\* however many of them overlap.  The slots of a cron cadence end at the first gap
\* between its matches that is longer than the search for the next (cadence.ts:164),
\* whatever that length is.
THEOREM EverySlotFires == Spec => []NoSlotSkipped
<1>1. SlotsInv => NoSlotSkipped
  <2> SUFFICES ASSUME SlotsInv, NEW n \in 1..Len(entry)
               PROVE  FiredSlots(n) = {t \in 0..now : IsSlot(entry[n], t)
                                                      /\ (entry[n].nextDue = None \/ t < entry[n].nextDue)}
    BY DEF NoSlotSkipped
  <2>1. 0..now \subseteq Int
    OBVIOUS
  <2>2. /\ FiredSlots(n) \subseteq 0..now
        /\ \A t \in Int : t \in FiredSlots(n) <=>
               IsSlot(entry[n], t) /\ (entry[n].nextDue = None \/ t < entry[n].nextDue)
    BY DEF SlotsInv, SlotInv
  <2>3. PICK slots : slots = FiredSlots(n)
    OBVIOUS
  <2> QED  BY <2>1, <2>2
<1> QED  BY <1>1, SlotsInit, SlotsStep, PTL DEF Spec

\* "Fire every schedule whose due time has been reached" (scheduler.ts:141): a tick
\* that returns has handed over the slot of every schedule that was due as it began
\* and is still registered, whatever was registered, removed or fired meanwhile.
THEOREM TicksReachAll == Spec => []TickFiresEveryDue
<1>1. SlotsInv => TickFiresEveryDue
  BY DEF SlotsInv, WatchInv, Reached, TickFiresEveryDue
<1> QED  BY <1>1, SlotsInit, SlotsStep, PTL DEF Spec
=============================================================================
