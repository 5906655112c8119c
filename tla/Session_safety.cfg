SPECIFICATION FairSpec
CONSTANTS
    MaxLines = 3
    PipeCapacity = 2
    Descendants = TRUE
INVARIANTS
    SessionInv
    OutputDecides
    LeftBehindOnlyIfStdinClosed
PROPERTIES
    ImplementsContract
    AgentIsBounded
    ShutdownEndsSession
    AgentEndsSession
