SPECIFICATION Spec
CONSTANTS
  at = at every = every agent = agent
  JobIds = {at, every} Schedule <- JobSchedule Editors = {agent}
  NoJob = NoJob NoCache = NoCache Torn = Torn
  Poll = 2 MaxTime = 3 MaxEdits = 3 MaxCronFaults = 1
  k1 = k1 k2 = k2 c1 = c1
  Sockets = {k1, k2} WsSessions = {c1} SessionOf <- OneSession NoSocket = NoSocket
  MaxOutbound = 2
  a1 = a1 a2 = a2 s1 = s1 s2 = s2 s3 = s3 NoConn = NoConn NoTools = NoTools
  McpAgents = {a1, a2} Conns = {s1, s2, s3} IdleTimeout = 1
CONSTRAINT CronOrderly
INVARIANTS CronJobsKept CronRunsRight WsServed McpShared
PROPERTIES CronRuns ServicesGoOn
CHECK_DEADLOCK FALSE
