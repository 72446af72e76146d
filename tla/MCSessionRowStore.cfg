CONSTANTS
    agent = agent
    route = route
    memory1 = memory1
    Absent = Absent
    None = None
    Tasks = {agent, memory1, route}
    CanDo <- AllCalls
    KeepLast = 1
    KeepWindow = 1
    MaxMessages = 3
    MaxRestarts = 1
    DatabaseFails = TRUE
SPECIFICATION Spec
INVARIANTS TypeOK RowInOrder
CHECK_DEADLOCK FALSE
