SPECIFICATION AllSpec
CONSTANTS
  Thread = {h1, h2}
  Task = {t1, t2, t3}
  NoThread = NoThread
  NoTask = NoTask
  None = None
  Dim = {"tokens", "cost"}
  Turn = {"t1", "t2"}
  Started <- StartedLimits
  Limit = {0, 3, 8}
  Delta = {0, 1, 4}
  MaxUsed = 9
  MaxPatches = 2
  MaxRuns = 1
  N = 3
  MaxConcurrent = 2
  MaxAttempts = 2
  MaxAsks = 0
  InterruptBefore = {1}
  InterruptAfter = {2}
  Recovery = FALSE
  Caller = {1, 2, 3, 4}
  CallKind <- WorkersAndTheirTools
  Inner <- ToolOfEachWorker
  Threshold = 2
  Permits = 2
  Strategies = 2
  BusyRetries = 1
  Retries = 1
  MayCancel = TRUE
  Tasks = {1, 2}
  Clients = {1, 2, 3}
  Ops = {"await", "timeout", "cleanup"}
  Callers = {1, 2, 3}
  Kinds = {"ainvoke", "invoke"}
  Gates = FALSE
  Learns = FALSE
  McpCallers = {1, 2}
  Servers <- TwoServers
  Offers <- Offered
  Resources = {"s1"}
  Sse = {"s1"}
  Own = {"agloom_load", "fetch"}
  Reserved = {"agloom_save", "agloom_load"}
  MaxRetries = 1
  MaxClients = 4
  Sessions <- ThreeSessions
  MaxLines = 3
  MaxBeats = 1
  PoolTasks = {}
  PoolWorkers = {}
  Able <- NoWorkers
  MaxDepth = 0
  MaxRunning = 1
  MaxFailures = 0
  MaxRestarts = 0
SYMMETRY Symmetry
INVARIANTS
  ServingTypeOK
  AgentClosedLast
  ReasonIsTrue
  AbortIsHonoured
  BudgetIsHonest
  
  BatchIsTold
  
PROPERTIES
  NothingIsUndone
CHECK_DEADLOCK FALSE
