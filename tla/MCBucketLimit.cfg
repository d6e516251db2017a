SPECIFICATION Spec
CONSTANTS
    SubIds = {s1, s2, s3}
    Chans = {c1, c2, c3}
    None = None
    MaxSubscriptions = 2
    MaxFrames = 2
    MaxCopies = 2
    MaxRaced = 0
CHECK_DEADLOCK FALSE
INVARIANTS
    CapacityRespected
