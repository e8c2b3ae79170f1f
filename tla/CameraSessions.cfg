SPECIFICATION FairSpec
CONSTANTS
    MaxLoops = 4
    OpenMayFail = TRUE
INVARIANTS
    NeverDies
    OneLoop
PROPERTIES
    CloseReturns
