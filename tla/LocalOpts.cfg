SPECIFICATION Spec
CONSTANTS
    Programs <- Straight
    Environments <- SomeEnvironments
    Half = 16
    CharHalf = 4
INVARIANTS
    OutcomePreserved
    NumbersTruthful
PROPERTY RewritingEnds
CHECK_DEADLOCK FALSE
