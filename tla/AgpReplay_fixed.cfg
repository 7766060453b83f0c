SPECIFICATION AllSpec
CONSTANTS
  Session = {a}
  MaxRun = 2
  MaxSeq = 6
  MaxInflight = 2
  PageSize = 2
  LiveKind = {"message"}
  From = {}
  FixedSession = TRUE
  None = None
INVARIANTS
  ShownTypeOK
  ClientShowsLog
  TurnIsShown
  
  ReplyIsRead
CHECK_DEADLOCK FALSE
