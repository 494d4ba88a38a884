SPECIFICATION PipelineSpec
CONSTANTS
    None = None
    r1 = r1
    r2 = r2
    auto1 = auto1
    auto2 = auto2
    Requests = {r1, r2}
    Models = {"mini", "auto"}
    Attribution <- MCAttribution
    InitialBudget <- MCBudget
    Reconfigs <- MCReconfigs
    MonthLength = 1
    MaxDay = 1
    MaxInFlight = 2
INVARIANTS
    RefusedLeavesNothing
    ChargedWhatWasServed
PROPERTIES
    AnswersAreCharged
    RunsSettle
CHECK_DEADLOCK FALSE
