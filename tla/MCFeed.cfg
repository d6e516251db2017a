SPECIFICATION Spec
CONSTANTS
    Streams <- AllStreams
    MaxSubs = 2
    MaxWire = 3
    MaxTasks = 1
CHECK_DEADLOCK FALSE
INVARIANTS
    InSync
    UpToDate
    BookInSync
PROPERTIES
    NoFalseAlarm
