CONSTANTS
    c1 = c1  c2 = c2  c3 = c3
    o1 = o1  o2 = o2  o3 = o3  o4 = o4
    s1 = s1  s2 = s2
    Commands = {c1, c2}
    RunCommands = {c1, c2}
    Looping = {c2}
    Ops = {o4}
    Kind <- MCKind
    Liveness <- MCLiveness
    Stoppers = {s1, s2}
    StopKind <- MCStopKind
    Timeouts = TRUE
    Capacity = 1
    Interrupt = Interrupt
    Shutdown = Shutdown
    None = None
SPECIFICATION FairSpec
PROPERTIES
    ShutdownMessageStops
    WaitersWoken
    InterruptWakesScript
CHECK_DEADLOCK FALSE
