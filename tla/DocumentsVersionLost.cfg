SPECIFICATION MCSpec
CONSTANTS
    None = None
    Original = Original
    Damaged = Damaged
    b1 = b1
    b2 = b2
    BackupIds = {b1, b2}
    d1 = d1
    d2 = d2
    r1 = r1
    r2 = r2
    r3 = r3
    Docs = {d1, d2}
    Uploaded = {d1}
    Requests = {r1, r2, r3}
    MaxInFlight = 2
    MaxTime = 2
    MaxBackupTime = 1
    Window = 1
    RetentionOf <- MCRetention
    MayFail = TRUE
    MaxVersions = 2
    Retention = 0
    MaxWrites = 1
    Limit = 1
    RateWindow = 1
    Devices = {d1, d2}
    AccessTtl = 1
    RefreshTtl = 2
SYMMETRY MCSymmetry
INVARIANTS
    VersionsKeepTheirBytes
CHECK_DEADLOCK FALSE
