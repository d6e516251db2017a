SPECIFICATION Spec
CONSTANTS
    SubIds = {s1, s2}
    Chans = {c1, c2}
    None = None
    MaxSubscriptions = 2
    MaxFrames = 2
    MaxCopies = 2
    MaxRaced = 1
CHECK_DEADLOCK FALSE
PROPERTIES
    PendingUntilConfirmed
