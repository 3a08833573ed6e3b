SPECIFICATION Spec
CONSTANTS
    Sku = {"x", "y"}
    State = {"TX"}
    Ttl = 1
    MaxRunning = 2
    Mixes <- MCMixes
INVARIANTS
    
    GoneStaysGone
    ImagesHold
CHECK_DEADLOCK FALSE
