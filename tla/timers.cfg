SPECIFICATION FairSpec
CONSTANTS
  i1 = i1  i2 = i2  t1 = t1  v1 = v1
  None = None
  Timers = {i1, i2, t1, v1}
  Kind <- MCKind
  Clearable = {v1}
  Throwing = {i1, t1}
  Disposable = {i2}
  Scripts = 2
  Capacity = 2
  FIRST_IMMEDIATE_TOKEN = 8
  Ulp = 4
INVARIANTS TimerAccounting WakeOnItsWay ImmediateFifo
PROPERTIES ClearedNeverRuns TimerRuns ReplyReleased
CHECK_DEADLOCK FALSE
