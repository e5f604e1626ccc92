SPECIFICATION Spec
CONSTANTS
    Programs <- Joins
    Environments <- SomeEnvironments
    Half = 16
    CharHalf = 4
INVARIANT OutcomePreserved
CHECK_DEADLOCK FALSE
