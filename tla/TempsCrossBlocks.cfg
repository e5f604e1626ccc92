SPECIFICATION Spec
CONSTANTS
    Variables = {x, y}
    Temps = {t1, t2, t3, t4}
    Numbers = {n}
    LocalArrays = {local}
    PointerParams = {pointer}
    GlobalArrays = {global}
    None = None
    TempsCrossBlocks = TRUE
    TempsReused = FALSE
    MaxArguments = 2
SYMMETRY Symmetry
INVARIANT LiveTempsRecoverable
