SPECIFICATION SafetySpec
CONSTANTS
  Thread = {h1}
  Task = {t1}
  NoThread = NoThread
  NoTask = NoTask
INVARIANT
  CancelIsAnnounced
CHECK_DEADLOCK FALSE
