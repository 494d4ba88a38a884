SPECIFICATION MCSpec
CONSTANTS
    None = None
    r1 = r1
    r2 = r2
    r3 = r3
    Requests = {r1, r2, r3}
    MaxInFlight = 2
    m1 = m1
    m2 = m2
    Models = {m1, m2}
    MaxMessages = 5
    MaxRenames = 1
    p1 = p1
    p2 = p2
    p3 = p3
    p4 = p4
    s1 = s1
    s2 = s2
    SpaceOf <- MCSpaceOf
    Pages = {p1, p2, p3, p4}
    Seeded = {p1, p2, p4}
    MaxVersions = 3
    x1 = x1
    c1 = c1
    c2 = c2
    ExternalIds = {x1}
    Runs = {r1, r2, r3}
    ChunksOf <- MCChunksOf
    Contents = {c1, c2}
    MaxRows = 3
    MaxEdits = 2
    MaxRuns = 3
SYMMETRY MCSymmetry
INVARIANTS
    HashIsOfLastIndex
CHECK_DEADLOCK FALSE
