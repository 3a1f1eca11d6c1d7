\* Two tables, two threads, two triggers; two failures anywhere.
CONSTANTS
    orders = orders
    items = items
    Tables <- TwoTables
    Rows <- TheirRows
    Threads = 2
    Batch = 2
    TruncateTarget = FALSE
    Triggers = {g1, g2}
    NoTable = NoTable
    MaxFaults = 2
SPECIFICATION Spec
INVARIANTS
    PrefixOnly
    SucceededIsCopied
    TriggersKept
PROPERTIES
    TryingSucceeds
