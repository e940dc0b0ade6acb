SPECIFICATION Spec
CONSTANTS
    Messages = {"m1", "m2"}
    Clicks = {"k1", "k2"}
    MaxProposals = 2
    MaxTouches = 1
    MaxTrouble = 1
INVARIANTS
    TypeOK
PROPERTIES
    OverwritesApproved
    KeepsPromise
    Concluded
CHECK_DEADLOCK FALSE
