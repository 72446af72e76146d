\* Two sessions, two agent types, one permit, every kind of message.
SPECIFICATION Spec
CONSTANTS
  s1 = s1  s2 = s2  chat1 = chat1  chat2 = chat2
  t1 = t1  t2 = t2  t3 = t3  a1 = a1  a2 = a2  a3 = a3
  None = None
  Sessions = {s1, s2}
  AgentTypes = {chat1, chat2}
  Tasks = {t1, t2, t3}
  Agents = {a1, a2, a3}
  Requests <- MixedRequests
  MailboxSize = 1
  Concurrency = 1
  IdleTTL = 1
  MaxSteps = 1
  MaxMessages = 3
SYMMETRY TaskSymmetry
INVARIANTS TypeOK OneWorkerPerMailbox HandlingSound AgentsAccounted
PROPERTY ImplementsSerial
