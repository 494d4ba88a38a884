----------------------------- MODULE Scheduler -----------------------------
(***************************************************************************)
(* The workflow Scheduler (src/services/core/src/scheduler/scheduler.ts    *)
(* and cadence.ts): an in-process registry of schedules, and `tick`, which *)
(* fires every schedule that is due.                                       *)
(*                                                                         *)
(* `tick` awaits the run trigger inside its loop over the registry, so     *)
(* schedule, unschedule and other ticks run while one is under way.  The   *)
(* registry is a JavaScript Map: it is iterated in insertion order, shows  *)
(* an iterator the entries inserted behind its position and hides those    *)
(* deleted ahead of it.  Entries are numbered as they are inserted.        *)
(***************************************************************************)
EXTENDS Integers, Sequences, FiniteSets, FiniteSetsExt, NullValue

CONSTANTS
    Workflows,      \* workflow ids
    Cadences,       \* the cadences `schedule` is called with
    Ticks,          \* ticks that may be under way at the same time
    TriggerMayFail, \* whether the run trigger may reject
    CronHorizon,    \* how many minutes the search for a cron match goes on: four years of them
    MaxTime,        \* bound: the last instant of the clock
    MaxEntries      \* bound: registrations ever made

Time == 0..MaxTime

ASSUME SchedulerAssumption ==
    /\ MaxTime \in Nat /\ MaxEntries \in Nat /\ CronHorizon \in Nat
    /\ None \notin Int
    /\ TriggerMayFail \in BOOLEAN
    /\ \A c \in Cadences :
          \/ c.kind = "interval" /\ c.interval \in Nat \ {0} /\ c.anchor \in Int \cup {None}
          \/ c.kind = "one_shot" /\ c.runAt \in Int
          \/ c.kind = "cron" /\ c.times \subseteq Int

VARIABLES
    now,         \* the injected clock
    entry,       \* every registration ever made, in insertion order
    registered,  \* the numbers of the registrations in the Map
    tick,        \* the local state of each tick
    fired        \* the firings handed to the trigger, in order

vars == <<now, entry, registered, tick, fired>>

-----------------------------------------------------------------------------
(* compileCadence: the two pure next-due functions of a cadence.           *)

\* The interval grid, strictly after `bound`; a bound before the anchor is
\* answered by the anchor itself.
GridAfter(anchor, interval, bound) ==
    LET elapsed == bound - anchor IN
    IF elapsed < 0 THEN anchor ELSE anchor + (elapsed \div interval + 1) * interval

\* nextCronTime: the earliest matching instant strictly after `bound`, unless the
\* search passes its horizon before it meets one.
CronAfter(times, bound) ==
    LET found == {t \in times : t > bound /\ t <= bound + 1 + CronHorizon} IN
    IF found = {} THEN None ELSE Min(found)

\* The anchor of an interval defaults to the instant of registration.
Anchor(c, registeredAt) == IF c.anchor = None THEN registeredAt ELSE c.anchor

NextDue(e, bound) ==
    CASE e.cadence.kind = "interval" ->
            GridAfter(Anchor(e.cadence, e.at), e.cadence.interval, bound)
      [] e.cadence.kind = "one_shot" ->
            IF e.cadence.runAt > bound THEN e.cadence.runAt ELSE None
      [] e.cadence.kind = "cron" -> CronAfter(e.cadence.times, bound)

\* Mutant of NextDueAfter: the slot that just fired is due again.
NextDueAgain(e, bound) == NextDue(e, bound - 1)

\* Mutant of NextDueAfter: a late firing skips the slots missed meanwhile.
NextDueAfterNow(e, bound) == NextDue(e, IF bound < now THEN now ELSE bound)

NextDueAfter(e, bound) == NextDue(e, bound)

\* Inclusive for one-shot and cron; the interval grid stays exclusive.
FirstDueAtOrAfter(c, from) ==
    CASE c.kind = "interval" -> GridAfter(Anchor(c, from), c.interval, from)
      [] c.kind = "one_shot" -> IF c.runAt >= from THEN c.runAt ELSE None
      [] c.kind = "cron" -> CronAfter(c.times, from - 1)

-----------------------------------------------------------------------------
Idle == [pc |-> "idle", now |-> 0, last |-> 0, due |-> {}]

Init ==
    /\ now = 0
    /\ entry = <<>>
    /\ registered = {}
    /\ tick = [k \in Ticks |-> Idle]
    /\ fired = <<>>

NextKey == Len(entry) + 1

\* schedule: a workflow is registered once, and its first due time seeded.
Schedule(w, c) ==
    /\ \A n \in registered : entry[n].workflow # w
    /\ Len(entry) < MaxEntries
    /\ entry' = Append(entry, [workflow |-> w, cadence |-> c, at |-> now,
                               nextDue |-> FirstDueAtOrAfter(c, now)])
    /\ registered' = registered \cup {NextKey}
    /\ UNCHANGED <<now, tick, fired>>

Unschedule(n) ==
    /\ n \in registered
    /\ registered' = registered \ {n}
    /\ UNCHANGED <<now, entry, tick, fired>>

Due(n, t) == entry[n].nextDue # None /\ entry[n].nextDue <= t

DueAt(t) == {n \in registered : Due(n, t)}

\* Hand the due slot of entry n to the trigger.  The due time is advanced
\* before the trigger is awaited.
Fire(k, n, t, due) ==
    LET slot == entry[n].nextDue IN
    /\ entry' = [entry EXCEPT ![n].nextDue = NextDueAfter(entry[n], slot)]
    /\ fired' = Append(fired, [entry |-> n, slot |-> slot, at |-> t])
    /\ tick' = [tick EXCEPT ![k] = [pc |-> "running", now |-> t, due |-> due,
                                    last |-> Len(fired) + 1]]

\* tick, up to its first await.  A tick that finds nothing due has no effect.
BeginTick(k) ==
    /\ tick[k].pc # "running"
    /\ DueAt(now) # {}
    /\ Fire(k, Min(DueAt(now)), now, {<<n, entry[n].nextDue>> : n \in DueAt(now)})
    /\ UNCHANGED <<now, registered>>

Cursor(k) == fired[tick[k].last].entry

\* Mutant of Ahead: the loop passes over the entry behind the one it fired.
AheadButNext(k) == {n \in DueAt(tick[k].now) : n > Cursor(k) + 1}

\* The entries the loop has still to reach that are due at the tick's instant.
Ahead(k) == {n \in DueAt(tick[k].now) : n > Cursor(k)}

\* The awaited trigger resolves and the loop goes on to the next due entry.
TriggerResolves(k) ==
    /\ tick[k].pc = "running"
    /\ IF Ahead(k) # {}
       THEN Fire(k, Min(Ahead(k)), tick[k].now, tick[k].due)
       ELSE /\ tick' = [tick EXCEPT ![k].pc = "done"]
            /\ UNCHANGED <<entry, fired>>
    /\ UNCHANGED <<now, registered>>

\* The awaited trigger rejects, and the tick with it.
TriggerRejects(k) ==
    /\ TriggerMayFail
    /\ tick[k].pc = "running"
    /\ tick' = [tick EXCEPT ![k].pc = "aborted"]
    /\ UNCHANGED <<now, entry, registered, fired>>

Advance ==
    /\ now < MaxTime
    /\ now' = now + 1
    /\ UNCHANGED <<entry, registered, tick, fired>>

Next ==
    \/ \E w \in Workflows, c \in Cadences : Schedule(w, c)
    \/ \E n \in registered : Unschedule(n)
    \/ \E k \in Ticks : BeginTick(k) \/ TriggerResolves(k) \/ TriggerRejects(k)
    \/ Advance

Spec == Init /\ [][Next]_vars

-----------------------------------------------------------------------------
(* Properties.                                                             *)

Registrations == [workflow : Workflows, cadence : Cadences, at : Nat,
                  nextDue : Int \cup {None}]

TickStates == [pc : {"idle", "running", "done", "aborted"}, now : Nat, last : Nat,
               due : SUBSET (Nat \X Int)]

\* Every registration has a workflow, a cadence and a due time; the Map holds
\* registrations only, and a running tick points at the firing it awaits.
TypeOK ==
    /\ now \in Time
    /\ entry \in Seq(Registrations)
    /\ registered \subseteq 1..Len(entry)
    /\ fired \in Seq([entry : Nat, slot : Int, at : Nat])
    /\ \A i \in 1..Len(fired) : fired[i].entry \in 1..Len(entry)
    /\ tick \in [Ticks -> TickStates]
    /\ \A k \in Ticks : tick[k].pc = "running" => tick[k].last \in 1..Len(fired)

\* "A schedule fires exactly once per due slot": however ticks overlap, the
\* slots of one registration are handed to the trigger in increasing order,
\* so none of them twice.
SlotsFireInOrder ==
    \A i, j \in 1..Len(fired) :
        (i < j /\ fired[i].entry = fired[j].entry) => fired[i].slot < fired[j].slot

\* Between `from` and `t` no two matches are further apart than a search goes.
NoGapBefore(times, from, t) ==
    \A b \in {from - 1} \cup {u \in times : from <= u /\ u < t} :
        \E u \in times : b < u /\ u <= b + 1 + CronHorizon

\* The slots of a registration, defined without the next-due functions.
IsSlot(e, t) ==
    CASE e.cadence.kind = "interval" ->
            LET anchor == Anchor(e.cadence, e.at) IN
            t > e.at /\ t >= anchor /\ (t - anchor) % e.cadence.interval = 0
      [] e.cadence.kind = "one_shot" -> t = e.cadence.runAt /\ t >= e.at
      [] e.cadence.kind = "cron" ->
            t \in e.cadence.times /\ t >= e.at /\ NoGapBefore(e.cadence.times, e.at, t)

FiredSlots(n) == {fired[i].slot : i \in {j \in 1..Len(fired) : fired[j].entry = n}}

\* No slot fires ahead of its time ("and not before"), and a gap between ticks,
\* however long, skips none: the slots fired so far are exactly those of the
\* cadence that have come and lie before the next due time.  A cron schedule has
\* slots up to the first gap between matches that is longer than the search for the
\* next one, and none behind it.
NoSlotSkipped ==
    \A n \in 1..Len(entry) :
        FiredSlots(n) =
            {t \in 0..now : IsSlot(entry[n], t)
                            /\ (entry[n].nextDue = None \/ t < entry[n].nextDue)}

\* "Fire every schedule whose due time has been reached": a tick that returns has
\* fired the slot of every schedule that was due as it began and was not removed
\* meanwhile.  (One whose trigger rejects leaves the rest to the next tick.)
TickFiresEveryDue ==
    \A k \in Ticks :
        tick[k].pc = "done" =>
            \A p \in tick[k].due : p[1] \in registered => p[2] \in FiredSlots(p[1])
=============================================================================
