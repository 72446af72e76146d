SPECIFICATION Spec
CONSTANTS
    r1 = r1
    r2 = r2
    f1 = f1
    f2 = f2
    Repos = {r1, r2}
    Files = {f1, f2}
    RepoOf <- MCRepoOf
    Slots = {w1, w2, w3}
    WorkerCount = 2
    MaxPools = 1
    IdleRounds = 1
    NoRow = NoRow
    NoRepo = NoRepo
    NoFile = NoFile
    Versions = {1, 2, 3, 4}
    Bare <- NoVectors
    MaxEdits = 0
    MaxScans = 0
    MaxFaults = 0
    MaxDeletes = 1
    MaxEvents = 3
PROPERTIES
    DeletionDeletes
CHECK_DEADLOCK FALSE
