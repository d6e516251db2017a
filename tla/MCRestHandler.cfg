SPECIFICATION Spec
CONSTANTS
    Calls = {write, repeatable}
    Writes = {write, repeatable}
    Idempotent = {repeatable}
    InHandler = {write}
    None = None
    max_attempts = 2
    MaxClock = 1
CHECK_DEADLOCK FALSE
INVARIANT
    AppliedOnce
