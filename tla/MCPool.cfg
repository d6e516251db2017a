SPECIFICATION Spec
CONSTANTS
    Buckets = {b1, b2}
    SubIds = {s1, s2, s3}
    Callers = {k1, k2}
    None = None
    MaxSubscriptions = 2
    RestartLimit = 1
    MaxReissues = 1
    MaxRaced = 0
SYMMETRY Symmetry
INVARIANTS
    UniqueSubIds
    OneSupervisor
    SubscribedIsCarried
    ClosedStaysClosed
    KeptUp
PROPERTIES
    RoomRespected
