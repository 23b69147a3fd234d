SPECIFICATION FairSpec
CONSTANTS
    o1 = o1
    o2 = o2
    p1 = p1
    p2 = p2
    Object = {o1, o2}
    Worker = {w1, w2}
    Page = {p1, p2}
    None = None
    Projects <- SmallProjects
INVARIANTS
    TypeOK
    PinsExact
    NoDangling
    OwnsTheGraph
PROPERTIES
    Converges
    Collected
    CallsReturn
CHECK_DEADLOCK FALSE
