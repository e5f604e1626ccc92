SPECIFICATION Spec
CONSTANTS
    Trees <- AllTrees
    Variables <- AllVariables
    Values = {0, 1}
    MaxEvents = 3
INVARIANTS
    TranslationCorrect
    LabelsPlacedOnce
    TempsUsedOnce
    TempsStayInBlock
CHECK_DEADLOCK FALSE
