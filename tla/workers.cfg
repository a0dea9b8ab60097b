SPECIFICATION FairSpec
CONSTANTS
    w1 = w1
    w2 = w2
    b1 = b1
    None = None
    WorkerIds = {w1, w2}
    Buffers = {b1}
    Raw = {w2}
    MaxPosts <- One
    MaxSends <- One
INVARIANTS
    EventsInOrder
    CommandsInOrder
    TransferredNotStranded
    NoOrphanThread
PROPERTIES
    NativesReturn
    EventsReachParent
CHECK_DEADLOCK FALSE
