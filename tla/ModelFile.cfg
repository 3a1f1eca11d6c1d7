\* Two instances of the program that open, edit, save, auto-save and crash in
\* one directory, with two folder names and three versions of the document.
CONSTANTS
    i1 = i1
    i2 = i2
    Instances = {i1, i2}
    NoOne = NoOne
    MaxFolder = 1
    MaxVersion = 2
    MaxCrashes = 2
SPECIFICATION Spec
SYMMETRY Symmetry
CHECK_DEADLOCK FALSE
INVARIANTS
    SavedIsOnDisk
    WorkIsOnDisk
    OneOwner
PROPERTIES
    RecoveryIsUpToDate
