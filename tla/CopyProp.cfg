SPECIFICATION Spec
CONSTANTS
    Symbols <- AllSymbols
    None = None
    Programs <- AllPrograms
    Reuse = FALSE
    MaxPasses = 9
INVARIANTS
    ReadsPreserved
    AvailableHolds
PROPERTY PropagationSettles
CHECK_DEADLOCK FALSE
