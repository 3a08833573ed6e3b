SPECIFICATION Spec
CONSTANTS
    r1 = r1
    Job <- OneJob
    Request <- OneRequest
    Periods <- NoCron
    BatchLimit = 1
    MaxTime = 0
    MaxCalls = 1
    MaxFaults = 0
INVARIANT OneTransientRetry
