SPECIFICATION FairSpec
CONSTANTS
    i1 = i1
    i2 = i2
    Issues = {i1, i2}
    Stages <- OneStage
    IssueStates <- MCIssueStates
    StagesFor <- OneStageFor
    MaxIssueConcurrency = 2
    EventCapacity = 1
    MaxIssueRuns = 2
    MaxStageRuns = 2
    MayShutDown = TRUE
INVARIANTS
    SendersAreCurrent
    DrainedIsSilent
PROPERTIES
    AfterRunFollowsSession
    ImplementsManager
    ReservationsDrain
