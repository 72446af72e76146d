CONSTANTS
    agent = agent
    route = route
    memory1 = memory1
    reminder = reminder
    Torn = Torn
    Absent = Absent
    None = None
    Tasks = {agent, route}
    CanDo <- RouteCalls
    Objects = {o1, o2, o3}
    KeepLast = 1
    KeepWindow = 1
    MaxMessages = 3
    MaxRestarts = 1
    DiskFails = TRUE
SPECIFICATION Spec
INVARIANTS HistorySound
SYMMETRY ObjectSymmetry
