SPECIFICATION Spec
CONSTANTS
    Symbols <- AllSymbols
    None = None
    Programs <- IfPrograms
    Reuse = TRUE
    MaxPasses = 2
INVARIANT ReadsPreserved
CHECK_DEADLOCK FALSE
