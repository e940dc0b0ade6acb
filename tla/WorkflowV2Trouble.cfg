SPECIFICATION Spec
CONSTANTS
    MaxJobs = 5
    MaxPlans = 1
    MaxCommits = 3
    MaxEdits = 4
    MaxTrouble = 2
    PlanRevisionLimit = 0
    ImplementationRevisionLimit = 0
INVARIANTS
    PublishedOnce
PROPERTIES
    StopHolds
CHECK_DEADLOCK FALSE
