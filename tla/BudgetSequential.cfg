SPECIFICATION Spec
CONSTANTS
    None = None
    r1 = r1
    r2 = r2
    r3 = r3
    m1 = m1
    Requests = {r1, r2, r3}
    Models = {"opus", "mini"}
    Attribution <- MCProjectAttribution
    InitialBudget <- MCAlertBudget
    Reconfigs <- MCAlertReconfigs
    MonthLength = 2
    MaxDay = 2
    MaxInFlight = 1
INVARIANTS
    AlertReportedOnce
    CrossingReported
CHECK_DEADLOCK FALSE
