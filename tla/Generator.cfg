SPECIFICATION Spec
CONSTANTS
    Variables = {x, y}
    Temps = {t1, t2, t3, t4}
    Numbers = {n}
    LocalArrays = {local}
    PointerParams = {pointer}
    GlobalArrays = {global}
    None = None
    TempsCrossBlocks = FALSE
    TempsReused = FALSE
    MaxArguments = 2
SYMMETRY Symmetry
INVARIANTS
    TypeOK
    DescriptorsAgree
    RegistersTruthful
    OnlyLiveTempsInRegisters
    LiveTempsRecoverable
    VariablesInMemory
    NoStaleOperand
