SPECIFICATION Spec
CONSTANTS
    Threads = {a1, a2, p1}
    AuthThreads = {a1, a2}
    None = None
    Replies <- SomeReplies
    max_attempts = 2
    base_delay = 1000
    max_delay = 1500
    NetworkCap = 60000
    MaxNow = 2
    MaxResponses = 3
SYMMETRY Symmetry
CHECK_DEADLOCK FALSE
INVARIANTS
    WaitsAsAsked
    RateLimitedPauses
    FacadeFresh
