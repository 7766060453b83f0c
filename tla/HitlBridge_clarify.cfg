SPECIFICATION SafetySpec
CONSTANTS
  Thread = {h1}
  Task = {t1}
  Request = {r1}
  Tool = {x}
  Kind = {"tool_approval", "pattern_approval", "worker_approval", "clarification", "react_recovery"}
  NoThread = NoThread
  NoTool = NoTool
  NoGate = NoGate
INVARIANT
  ClarificationAlwaysGranted
CHECK_DEADLOCK FALSE
