SPECIFICATION Spec
CONSTANTS
  t1 = t1 t2 = t2
  SubTasks = {t1, t2} SubSteps = 3 SubKeep = 2 SubBatch = 2
  h1 = h1 h2 = h2 m1 = m1 m2 = m2 NoChat = NoChat
  Chats = {h1, h2} MemTasks = {m1, m2} KeepCount = 1 MaxSaid = 3 MaxMemFaults = 1
  p1 = p1 p2 = p2 p3 = p3 x1 = x1 x2 = x2 NoScan = NoScan
  Paths = {p1, p2, p3} Dirs = 2 DirOf <- DirOfPath Batch = 2 ScanCallers = {x1, x2}
  MaxScanTasks = 2 MaxScanEdits = 2 MaxScanCalls = 2
  u1 = u1 u2 = u2 v1 = v1 v2 = v2 v3 = v3 NoServer = NoServer
  LspCallers = {u1, u2} Servers = {v1, v2, v3} MaxLspCalls = 2 MaxLspFaults = 2
  f1 = f1 f2 = f2 PatchFiles = {f1, f2} NoFile = NoFile TornFile = TornFile
  PatchTexts <- Patches FilesBefore <- Disks MaxPatchFaults = 1
  MaxAttempts = 3 ToolUses = {1, 2} Pieces = 2 MaxSpeech = 3
  MaxTexts = 4 ModelAttempts = 3 MaxAskFaults = 3
  a1 = a1 a2 = a2 b1 = b1 b2 = b2 Providers <- Providers2 ModelNames = {b1, b2} NotGiven = NotGiven CacheTtl = 1 ConfigFiles <- ModelConfigs MaxModelTime = 3
  TargetLines = 2 OverlapLines = 2 MaxLines = 3 ShortLines = 2 SourceFiles <- FilesUpTo
  q1 = q1 q2 = q2 q3 = q3
  VecCallers = {q1, q2} Chunks <- FileChunks Attempts = 3 MaxVecFaults = 3 MaxVecCalls = 3
  EsCallers = {q1, q2} EsClients = {1, 2, 3, 4, 5, 6} EsAttempts = 2 NoClient = NoClient MaxEsEvents = 4
  r1 = r1 r2 = r2 RecIds = {r1, r2} RecCalls = {1, 2} RecAttempts = 2 NoRecord = NoRecord RecSpaces <- RecordSpaces MaxRecFaults = 1
  LockOwners = {q1, q2} NoOwner = NoOwner MaxLockEvents = 7
  QueueMsgs = {m1, m2} BadMsgs = {m2} Consumers = {q1, q2} NoMsg = NoMsg
  Tries = 2 MaxQueueFaults = 2 MaxStream = 2
  n1 = n1 n2 = n2 NoToken = NoToken
  RepoUsers = {u1} RepoNames = {n1, n2} RepoCalls = {1, 2, 3} MaxRepoFaults = 2 AuthCalls = {q1, q2, q3}
  ObjCalls = {1, 2} ObjAttempts = 2 NoObject = NoObject Partial = Partial Torn = Torn MaxObjFaults = 2
  SourceNames = {f1, f2} Contents <- FileContents MaxGenerations = 2 MaxGraphEdits = 2
  PageLimit = 9 ByteLimit = 44 LineLimit = 16 HeadBytes = 3 NumberBytes = 1 Absent = NoFile MaxEdits = 1
  ReadFiles <- LineSizes EditFiles <- EditTexts EditCalls <- EditorCalls
  DbUsers = {q1, q2} NoUser = NoUser MaxDbEvents = 5
INVARIANTS AppServicesSound MemSound SubTaskSound PatchSound FileToolsSound LockExclusive QueueKeeps
           ScanSound LspServed ModelsSound StoresSound
CHECK_DEADLOCK FALSE
