SPECIFICATION Spec
CONSTANTS
    u1 = u1
    s1 = s1
    s2 = s2
    s3 = s3
    h1 = h1
    h2 = h2
    NoSession = NoSession
    User <- MCUser
    Session <- ThreeSessions
    Handler <- MCHandler
    AccessTtl = 1
    IdleTimeout = 2
    AbsoluteLifetime = 3
    MaxTime = 3
    MaxPassword = 1
SYMMETRY MCSymmetry
INVARIANTS
    TypeOK
    LiveHasNoChild
    OutdatedOnlyByOverlap
PROPERTY RevokedIsFinal
