SPECIFICATION FairSpec
CONSTANTS
    q1 = q1
    u1 = u1
    u2 = u2
    h1 = h1
    normal = normal
    high = high
    Rule <- OneRule
    User <- TwoUsers
    Value <- MCValue
    Conditions <- MCConditions
    Holds <- MCHolds
    Handler <- OneHandler
    MaxTime = 1
    MaxEdits = 1
    MaxFaults = 1
    MaxEvents = 2
INVARIANTS
    TypeOK
    OneOpenEvent
    NoticesOnce
    OptOutHonoured
PROPERTIES
    Converges
    AnnouncedWithoutFault
