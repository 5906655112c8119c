SPECIFICATION FairSpec
CONSTANTS
    Parts = {"disciplined", "races", "detach", "spelled", "edited", "documents", "rewritten",
             "prompt", "retention", "events"}
    Operators = {o1, o2, o3}
    Pids = {p1, p2}
    Templates <- ThreePieces
    Outputs <- Printed
    Files <- SomeFiles
    Spellings <- NormalArguments
    Mentions <- SomeArguments
    Bad = Bad
    Workflows <- AllDocuments
    Revisions <- Versions
    MaxInvocations = 2
    MaxEdits = 2
    RetentionDays = 1
    LastDay = 3
    Strangers = {"README.md"}
    ProviderLines <- AllLines
    MaxTotal = 4
    LogRoom = 4
INVARIANTS
    OneDaemonOnRecord
    StaleIsExplained
    DaemonOfTheFile
    DoctorIsRight
    RunsOnlyWorkable
    OutputInItsPlace
    SnapshotIsWhatWasHeard
    NothingIsLost
    LogIsOrdered
PROPERTIES
    LauncherTellsTruth
    PrunesExactly
    EveryoneIsAnswered
