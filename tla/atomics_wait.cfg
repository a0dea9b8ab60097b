SPECIFICATION FairSpec
CONSTANTS
    n1 = n1
    n2 = n2
    v1 = v1
    v2 = v2
    Waits = {w1, w2}
    Timed = {w1}
    Interruptible = {w2}
    AsyncWaits = {k1}
    Notifies = {n1, n2}
    Count <- MCCount
    Cancels = {c1}
    Views = {v1}
    Offset <- MCOffset
    Indices = {0}
    None = None
INVARIANTS
    NoStrandedWaiter
    OutcomeHasCause
    NotifyIsBounded
    FifoWake
PROPERTIES
    WaitEnds
CHECK_DEADLOCK FALSE
