SPECIFICATION Spec
CONSTANTS
    b1 = b1
    b2 = b2
    b3 = b3
    x = x
    y = y
    h1 = h1
    h2 = h2
    NoRow = NoRow
    Batch <- MCBatch
    Sku <- MCSku
    Rows <- MCRows
    Invalid <- MCInvalid
    Handler <- MCHandler
    MaxCommits = 2
SYMMETRY MCSymmetry
INVARIANTS
    TypeOK
    WholeValidBatches
    HistoryTrue
PROPERTIES
    ImplementsAtomicImport
CHECK_DEADLOCK FALSE
