SPECIFICATION Spec
CONSTANTS
    MaxLines = 1
    PipeCapacity = 1
    Descendants = FALSE
INVARIANTS
    ShutdownCancelsAgent
