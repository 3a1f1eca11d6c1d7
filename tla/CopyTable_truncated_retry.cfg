\* The same with "Truncate target tables".
CONSTANTS
    orders = orders
    items = items
    Tables <- TwoTables
    Rows <- TheirRows
    Threads = 2
    Batch = 2
    TruncateTarget = TRUE
    Triggers = {g1, g2}
    NoTable = NoTable
    MaxFaults = 2
SPECIFICATION Spec
INVARIANTS
    SucceededIsCopied
