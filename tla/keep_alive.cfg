SPECIFICATION FairSpec
CONSTANTS
  p1 = p1  p2 = p2  h1 = h1  h2 = h2
  Threads = {p1, p2}
  Holds = {h1, h2}
  NoThread = NoThread
INVARIANTS CountersExact OpenRefKeepsLoopAlive NoUnderflow
PROPERTIES HoldSpec DroppedIsReleased
CHECK_DEADLOCK FALSE
