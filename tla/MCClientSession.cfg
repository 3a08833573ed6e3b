\* Two users share one tab of a browser.
CONSTANTS
    User = {u1, u2}
    Tab = {t1}
    MaxSession = 4
    MaxActs = 3
    MaxFaults = 1

SPECIFICATION Spec

INVARIANTS
    SessionTruthful
PROPERTIES
    DeadTokenNoticed
CHECK_DEADLOCK FALSE
