SPECIFICATION FairSpec
CONSTANTS
    Runs = {r1, r2}
    None = None
    MaxCloses = 1
    MaxDelay = 2
    Overlap = FALSE
CHECK_DEADLOCK FALSE
INVARIANTS
    DisconnectedOnce
    AnnouncedAnew
    ReauthenticatedFirst
    BackoffEndsAtOnce
    GoingAwayEndsOnlyAuth
PROPERTIES
    StaleRunNeverOpens
    FlappingKeepsBackoff
    CloseWins
    OutageEnds
