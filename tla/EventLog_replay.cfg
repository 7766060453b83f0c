SPECIFICATION AllSpec
CONSTANTS
  Session = {a, b}
  MaxRun = 2
  MaxSeq = 4
  MaxInflight = 2
  PageSize = 2
  LiveKind = {"other"}
  From = {0, 2}
  None = None
  Users = {"s"}
  Threads = {"t"}
  UserOf <- OwnSession
  ToolCalls = {c1, c2}
  Gated = {"read_file", "edit_file"}
  PathScoped = {"read_file"}
  Paths <- DirAndFile
  Extents = {1, 2}
  Granted = {}
  Marks = TRUE
  MaxPrompts = 2
  Trackers = {"a", "b"}
  Owners = {"s", "r"}
  Tasks = {1, 2, 3}
  Stepless = {2}
  LedgerSetups <- LedgerUses
  AllowReplan = TRUE
  Yields = FALSE
  ReadsFail = FALSE
  WritesFail = FALSE
  MaxVersion = 5
  MaxSteps = 3
  GoalAt = 3
  Resumes = 2
  Starts = 3
  StoreFails = FALSE
  TurnFails = TRUE
  Files = {"f1", "f2"}
  Names = {"n1"}
  GitSessions = {"s1", "s2"}
  GitSetups <- GitUses
  MaxLog = 3
SYMMETRY Symmetry
INVARIANTS
  KeptTypeOK
  NewerThanLog
  SeqsAreUnique
  ReplayIsComplete
  ConsentHolds
  HarnessIsHonest
PROPERTIES
  ContextIsWhole
  ReplayInOrder
  KeptStays
CHECK_DEADLOCK FALSE
