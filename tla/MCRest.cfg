SPECIFICATION FairSpec
CONSTANTS
    Calls = {write, repeatable}
    Writes = {write, repeatable}
    Idempotent = {repeatable}
    InHandler = {}
    None = None
    max_attempts = 2
    MaxClock = 2
CHECK_DEADLOCK FALSE
INVARIANTS
    AppliedOnce
    KnownMeansNotApplied
    UniqueNonces
    NonceRaceRetried
PROPERTIES
    EveryCallEnds
