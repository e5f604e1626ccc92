SPECIFICATION Spec
CONSTANTS
    Programs <- TreePrograms
    Folding = TRUE
INVARIANTS
    MeaningPreserved
    BlocksDelimited
    JumpsThreaded
PROPERTIES
    UnreachableIsDead
    RebuildEndsWithoutCircles
CHECK_DEADLOCK FALSE
