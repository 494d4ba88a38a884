SPECIFICATION ReliableSpec
CONSTANTS
    None = None
    r1 = r1
    r2 = r2
    r3 = r3
    m1 = m1
    Requests = {r1, r2, r3}
    Models = {"opus", "mini"}
    Attribution <- MCProjectAttribution
    InitialBudget <- MCAlertBudget
    Reconfigs <- MCNoReconfigs
    MonthLength = 2
    MaxDay = 1
    MaxInFlight = 2
INVARIANTS
    CrossingReported
CHECK_DEADLOCK FALSE
