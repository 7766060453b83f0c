SPECIFICATION SafetySpec
CONSTANTS
  Thread = {h1}
  Task = {t1, t2, t3}
  NoThread = NoThread
  NoTask = NoTask
INVARIANT
  NoClearUnderInvocation
CHECK_DEADLOCK FALSE
