SPECIFICATION Spec
CONSTANTS
    Variables <- AllVariables
    None = None
    Graphs <- AllGraphs
INVARIANTS
    LiveIsRead
    ReadIsLive
PROPERTIES
    DeletesOnlyUseless
    AnalysisEnds
    OptimizerSettles
CHECK_DEADLOCK FALSE
