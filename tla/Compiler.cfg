SPECIFICATION Spec
CONSTANTS
    Half = 2048
    Names <- AllNames
    Numbers <- AllNumbers
    Strings <- AllStrings
    Characters <- AllCharacters
    Programs <- AllPrograms
    MaxSpills = 2
    MaxLost = 1
CHECK_DEADLOCK FALSE
INVARIANTS
    TreesMeant
    ReportsRight
    PlacesDisjoint
    FrameHolds
    LabelsName
    LiteralsReadBack
PROPERTY FramesByThemselves
