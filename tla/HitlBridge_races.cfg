SPECIFICATION SafetySpec
CONSTANTS
  Thread = {h1}
  Task = {t1, t2}
  Request = {r1, r2}
  Tool = {x}
  Kind = {"tool_approval"}
  NoThread = NoThread
  NoTool = NoTool
  NoGate = NoGate
SYMMETRY Symmetry
INVARIANTS
  TypeOK
  AcknowledgedAnswerStands
PROPERTIES
  AllowlistIsEarned
  ImplementsGate
CHECK_DEADLOCK FALSE
