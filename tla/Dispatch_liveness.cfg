SPECIFICATION Spec
CONSTANTS
  Thread = {h1}
  Task = {t1, t2, t3}
  NoThread = NoThread
  NoTask = NoTask
PROPERTIES
  DispatchEnds
CHECK_DEADLOCK FALSE
