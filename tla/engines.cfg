SPECIFICATION AllSpec
CONSTANTS
  Pattern <- PatternTypes
  Task = {"query"}
  Agents <- LimitedAgents
  MaxSpawns = 1
  FanWorkers = {1, 2, 3}
  FanFallback = 1
  FanSetups <- FanOuts
  MaxIterations = 3
  Threshold = 7
  Scores = {0, 5, 7, 9}
  Gates <- Judged
  ReactSetups <- ReactTurns
  Retries = 2
  Cap = 3
  StrayRetries = 1
  TransportRetries = 2
  UserRounds = 1
  AutoRetries = 1
  MaxSize = 2
  MaxTools = 1
  MayHalt = TRUE
  Handing <- Family
  Callers = {"c1", "c2"}
  HandTargets <- Targets
  HandTools <- AskedAbout
  MaxAsks = 2
  Queries = {"q1", "q2"}
  NeedsTools = {"q2"}
  Registered <- Handlers
  Ttl <- Ttls
  Merging = {"SUPERVISOR"}
  TurnSetups <- AgentSetups
  MaxAge = 3
  None = None
INVARIANTS
  EnginesTypeOK
  
  
  LevelsAreKept
  TurnIsKept
PROPERTIES
  
  EverythingEnds
CHECK_DEADLOCK FALSE
