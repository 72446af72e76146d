CONSTANTS
    agent = agent
    route = route
    memory1 = memory1
    reminder = reminder
    Torn = Torn
    Absent = Absent
    None = None
    Tasks = {agent, memory1, reminder}
    CanDo <- RunCalls
    Objects = {o1}
    KeepLast = 1
    KeepWindow = 1
    MaxMessages = 4
    MaxRestarts = 0
    DiskFails = TRUE
SPECIFICATION Spec
INVARIANTS HistoryKept
PROPERTIES ImplementsLog
