SPECIFICATION Spec
CONSTANTS
    User = {a, b}
    Admin = a
    Addr = {"inside", "outside"}
    Net = {n}
    Covers <- MCCovers
    Cert = {k}
    Threshold = 2
    LockTime = 2
    MaxRunning = 2
    Mixes <- MCMixes
INVARIANTS
    SettingsHold
    ChangesAreAudited
PROPERTIES
    PinsSettle
CHECK_DEADLOCK FALSE
