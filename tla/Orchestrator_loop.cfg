SPECIFICATION FairSpec
CONSTANTS
    Issues = {"a", "b"}
    Stages = {"s"}
    Batches <- MCBatches
    MaxIterations = 2
    EventCapacity = 2
    IntakeMayDie = TRUE
INVARIANTS
    ReturnsDrained
    StoppedMeansNoPull
    ShutdownComesFirst
PROPERTIES
    BoundedLoopReturns
    ShutdownReturns
