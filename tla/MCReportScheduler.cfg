SPECIFICATION FairSpec
CONSTANTS
    r1 = r1
    Job <- TwoJobs
    Request <- OneRequest
    Periods <- MCPeriods
    BatchLimit = 1
    MaxTime = 1
    MaxCalls = 2
    MaxFaults = 1
INVARIANTS
    TypeOK
    RetryBudget
    ArtifactOnDisk
    RunningIsInHand
    NoticeFollowsRow
PROPERTIES
    ArtifactNeverRegresses
    QueueDrains
