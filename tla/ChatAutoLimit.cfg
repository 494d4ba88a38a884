SPECIFICATION PipelineSpec
CONSTANTS
    None = None
    r1 = r1
    r2 = r2
    auto1 = auto1
    auto2 = auto2
    Requests = {auto1, auto2}
    Models = {"mini", "auto"}
    Attribution <- MCAttribution
    InitialBudget <- MCWideBudget
    Reconfigs <- MCNoReconfigs
    MonthLength = 1
    MaxDay = 1
    MaxInFlight = 1
INVARIANT
    ServedModelLimited
CHECK_DEADLOCK FALSE
