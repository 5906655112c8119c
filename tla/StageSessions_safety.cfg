SPECIFICATION Spec
CONSTANTS
    i1 = i1
    i2 = i2
    Issues = {i1, i2}
    Stages <- MCStages
    IssueStates <- MCIssueStates
    StagesFor <- MCStagesFor
    MaxIssueConcurrency = 1
    EventCapacity = 2
    MaxIssueRuns = 2
    MaxStageRuns = 2
    MayShutDown = TRUE
SYMMETRY IssueSymmetry
INVARIANTS
    TypeOK
    IssueCapHolds
    ExactlyOneDuty
    NoStaleDuty
PROPERTIES
    ImplementsLifecycle
