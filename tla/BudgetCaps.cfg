SPECIFICATION Spec
CONSTANTS
    None = None
    r1 = r1
    r2 = r2
    r3 = r3
    m1 = m1
    Requests = {r1, r2, r3, m1}
    Models = {"opus", "mini"}
    Attribution <- MCAttribution
    InitialBudget <- MCCaps
    Reconfigs <- MCCapsReconfigs
    MonthLength = 2
    MaxDay = 1
    MaxInFlight = 2
SYMMETRY MCSymmetry
INVARIANTS
    SpendOvershootBounded
    DailyMessagesBounded
CHECK_DEADLOCK FALSE
