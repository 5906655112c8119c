SPECIFICATION FairSpec
CONSTANTS
    MaxPreps = 4
    Concurrency = 2
    HookMayFail = TRUE
    Descendants = TRUE
    MayStop = TRUE
INVARIANTS
    LaunchIsExplained
    EstablishedIsLeftAlone
PROPERTIES
    PreparationReturns
