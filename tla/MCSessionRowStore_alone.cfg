CONSTANTS
    agent = agent
    route = route
    memory1 = memory1
    Absent = Absent
    None = None
    Tasks = {agent}
    CanDo <- AgentCalls
    KeepLast = 1
    KeepWindow = 1
    MaxMessages = 6
    MaxRestarts = 2
    DatabaseFails = TRUE
SPECIFICATION Spec
INVARIANTS AckedInRow
PROPERTIES ImplementsLog
CHECK_DEADLOCK FALSE
