SPECIFICATION FairSpec
CONSTANTS
    PipeCapacity = 2
    MaxOutput = 4
    Descendants = TRUE
    Cancellable = TRUE
INVARIANTS
    OutputIsWhole
    NoShellAfterReturn
PROPERTIES
    NobodyIsStuck
