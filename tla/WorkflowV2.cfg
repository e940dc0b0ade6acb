SPECIFICATION Spec
CONSTANTS
    MaxJobs = 7
    MaxPlans = 2
    MaxCommits = 5
    MaxEdits = 4
    MaxTrouble = 1
    PlanRevisionLimit = 1
    ImplementationRevisionLimit = 1
INVARIANTS
    TypeOK
    MergedAsReviewed

    
CHECK_DEADLOCK FALSE
