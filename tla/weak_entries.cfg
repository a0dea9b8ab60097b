SPECIFICATION WeakSpec
CONSTANTS
    o1 = o1
    o2 = o2
    o3 = o3
    o4 = o4
    Cells <- Objects
    Nursery = 3
    Cap = 4
    MaxEdges = 0
    MaxReserved = 0
    MaxEntries = 2
    Grows = TRUE
SYMMETRY ObjectSymmetry
PROPERTIES
    WeakEntriesKept
CHECK_DEADLOCK FALSE
