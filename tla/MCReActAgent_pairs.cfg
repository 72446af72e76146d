SPECIFICATION Spec
CONSTANTS
    MaxSteps = 2
    KeepLast = 2
    Window = 6
    Batches <- MCBatches
    MaxRuns = 2
    MaxEvents = 0
INVARIANTS
    PromptIsPaired
CHECK_DEADLOCK FALSE
