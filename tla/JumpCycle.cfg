SPECIFICATION Spec
CONSTANTS
    Programs <- FlatPrograms
    Folding = TRUE
PROPERTY RebuildEnds
CHECK_DEADLOCK FALSE
