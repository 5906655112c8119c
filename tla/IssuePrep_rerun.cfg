SPECIFICATION Spec
CONSTANTS
    MaxPreps = 2
    Concurrency = 1
    HookMayFail = TRUE
    Descendants = FALSE
    MayStop = FALSE
INVARIANT
    FailedHookIsRetried
