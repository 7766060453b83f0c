SPECIFICATION ClientSpec
CONSTANTS
  Session = {a, b}
  MaxRun = 2
  MaxSeq = 5
  MaxInflight = 2
  PageSize = 2
  LiveKind = {"message"}
  From = {}
  FixedSession = FALSE
INVARIANT
  ClientCatchesUp
CHECK_DEADLOCK FALSE
