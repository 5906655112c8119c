SPECIFICATION Spec
CONSTANTS
    i1 = i1
    i2 = i2
    Issues = {i1}
    Stages <- OneStage
    IssueStates <- MCIssueStates
    StagesFor <- OneStageFor
    MaxIssueConcurrency = 1
    EventCapacity = 2
    MaxIssueRuns = 2
    MaxStageRuns = 2
    MayShutDown = FALSE
INVARIANTS
    OneAgentPerKey
