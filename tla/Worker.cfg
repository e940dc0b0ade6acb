SPECIFICATION Spec
CONSTANTS
    Jobs = {"j1", "j2"}
    Capacities = {1, 2}
    MaxRuns = 2
    MaxCancels = 2
    MaxTrouble = 3
INVARIANTS
    TypeOK
    Journalled
    FinallyRemoved
    OneAtATime
PROPERTIES
    Recovers
CHECK_DEADLOCK FALSE
