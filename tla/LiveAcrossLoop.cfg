SPECIFICATION Spec
CONSTANTS
    Variables <- AllVariables
    None = None
    Graphs <- WhileGraphs
PROPERTY DeletesOnlyUselessEver
CHECK_DEADLOCK FALSE
