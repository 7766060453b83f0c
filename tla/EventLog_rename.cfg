SPECIFICATION Spec
CONSTANTS
  Session = {a, b}
  MaxRun = 3
  MaxSeq = 4
  MaxInflight = 2
  PageSize = 1
  LiveKind = {"other"}
  From = {0}
INVARIANT
  YieldsAllStored
CHECK_DEADLOCK FALSE
