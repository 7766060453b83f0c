SPECIFICATION AllSpec
CONSTANTS
  Thread = {h1}
  Task = {t1}
  Request = {r1}
  Tool = {x}
  Kind = {"tool_approval", "pattern_approval", "worker_approval", "clarification", "react_recovery"}
  NoThread = NoThread
  NoTool = NoTool
  NoGate = NoGate
  None = None
  Dim = {"tokens", "cost"}
  Turn = {}
  Started <- NoLimits
  Limit = {}
  Delta = {}
  MaxUsed = 0
  MaxPatches = 0
  MaxRuns = 1
  N = 2
  MaxConcurrent = 1
  MaxAttempts = 2
  MaxAsks = 1
  InterruptBefore = {1}
  InterruptAfter = {2}
  Recovery = TRUE
  Caller = {1, 2, 3, 4}
  CallKind <- WorkersAndTheirTools
  Inner <- ToolOfEachWorker
  Threshold = 2
  Permits = 2
  Strategies = 1
  BusyRetries = 0
  Retries = 0
  MayCancel = FALSE
  Tasks = {1, 2}
  Clients = {1, 2}
  Ops = {"cancel", "cleanup", "shutdown"}
  Callers = {1, 2}
  Kinds = {"stream", "events", "agp"}
  Gates = FALSE
  Learns = TRUE
  McpCallers = {1}
  Servers <- OneServer
  Offers <- Offered
  Resources = {"s1"}
  Sse = {"s1"}
  Own = {"agloom_load", "fetch"}
  Reserved = {"agloom_save", "agloom_load"}
  MaxRetries = 2
  MaxClients = 3
  Sessions <- TwoSessions
  MaxLines = 3
  MaxBeats = 1
  PoolTasks = {1, 2}
  PoolWorkers = {1, 2}
  Able <- EveryWorker
  MaxDepth = 1
  MaxRunning = 1
  MaxFailures = 1
  MaxRestarts = 0
INVARIANTS
  NeverProceedsUnapproved
  WireAgreesWithAgent
  StreamsEnd
PROPERTIES
  PoolHolds
  
CHECK_DEADLOCK FALSE
