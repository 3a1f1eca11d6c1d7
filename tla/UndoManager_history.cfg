SPECIFICATION Spec
CONSTANTS
    v1 = v1
    v2 = v2
    a1 = a1
    a2 = a2
    a3 = a3
    a4 = a4
    Values = {v1, v2}
    Addresses = {a1, a2, a3, a4}
    Null = Null
    Limits = {1}
    MaxLength = 2
    MaxItems = 4
    MaxNesting = 2
    AnyReorder = FALSE
    ReusedAddress = FALSE
INVARIANTS
    NothingThrows
    LimitHolds
    
    UntrimmedUnchangedIsSaved
PROPERTIES
    ImplementsEditHistory
SYMMETRY Symmetry
