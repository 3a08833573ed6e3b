SPECIFICATION Spec
CONSTANTS
    Source = {"s", "r"}
    Def = {"d"}
    Person = {"u"}
    Kind = {"moving_average", "comfort_index", "sku_on_shelf_compliance"}
    Window = 1
    Back = 3
    MaxRunning = 2
    Mixes <- MCMixes
INVARIANTS
    RecordsHold
PROPERTIES
    OldGoes
CHECK_DEADLOCK FALSE
