SPECIFICATION Spec
CONSTANTS
    Runs = {r1, r2}
    None = None
    MaxCloses = 1
    MaxDelay = 1
    Overlap = FALSE
CHECK_DEADLOCK FALSE
INVARIANT
    StartsNormally
