SPECIFICATION OrdersSpec
CONSTANTS
    MaxJobs = 9
    MaxPlans = 2
    MaxCommits = 4
    MaxEdits = 6
    MaxTrouble = 2
    PlanRevisionLimit = 0
    ImplementationRevisionLimit = 0
INVARIANTS
    MergedPlanApproved
CHECK_DEADLOCK FALSE
