SPECIFICATION FairSpec
CONSTANTS
    MaxSteps = 2
    KeepLast = 2
    Window = 6
    Batches <- MCBatches
    MaxRuns = 2
    MaxEvents = 1
INVARIANTS
    TypeOK
    ResultsBelong
    RequestSound
    EndIsSaid
PROPERTIES
    ImplementsRun
    RunEnds
CHECK_DEADLOCK FALSE
