SPECIFICATION Spec
CONSTANTS
    Parts = {"edited"}
    Operators = {o1, o2, o3}
    Pids = {p1, p2}
    Templates <- ThreePieces
    Outputs <- Printed
    Files <- SomeFiles
    Spellings <- NormalArguments
    Mentions <- SomeArguments
    Bad = Bad
    Workflows <- AllDocuments
    Revisions <- Versions
    MaxInvocations = 2
    MaxEdits = 2
    RetentionDays = 1
    LastDay = 3
    Strangers = {"README.md"}
    ProviderLines <- AllLines
    MaxTotal = 4
    LogRoom = 4
INVARIANT
    WorkflowsKeepApart
