SPECIFICATION Spec
CONSTANTS
    o1 = o1
    o2 = o2
    o3 = o3
    o4 = o4
    Cells <- Objects
    Nursery = 2
    Cap = 3
    MaxEdges = 2
    MaxReserved = 1
SYMMETRY ObjectSymmetry
INVARIANTS
    NoDangling
    RememberedComplete
    NeverUndercounts
PROPERTIES
    ReclaimOnlyGarbage
CHECK_DEADLOCK FALSE
