SPECIFICATION MCFairSpec
CONSTANTS
    None = None
    w1 = w1
    w2 = w2
    Workflows = {w1, w2}
    Cadences <- MCCadences
    t1 = t1
    t2 = t2
    Ticks = {t1, t2}
    TriggerMayFail = TRUE
    CronHorizon = 0
    MaxTime = 2
    MaxEntries = 2
    Graphs <- MCGraphs
    AnalyticsRecords = {TRUE, FALSE}
    MaxChunks = 5
    StreamMayFail = {"source", "sink", "persist"}
    CacheMayFail = {"compute", "write"}
    Rejected = Rejected
    k1 = k1
    Keys = {k1}
    c1 = c1
    c2 = c2
    c3 = c3
    Calls = {c1, c2, c3}
    MaxEvents = 2
INVARIANTS
    SlotsFireInOrder
    NoSlotSkipped
    TickFiresEveryDue
    InputsAlwaysPresent
    SourceReleased
    SingleFlight
    FailureNotReused
PROPERTIES
    KeepsContract
    NothingSentAfterAbort
    CallsSettle
CHECK_DEADLOCK FALSE
