SPECIFICATION FairSpec
CONSTANTS
    MaxLines = 2
    PipeCapacity = 2
    Descendants = TRUE
PROPERTIES
    TerminalClosesChannel
