CONSTANTS
    Names = {"cto", "qa", "security_sre"}
    NoRole = "nobody"
    Canon <- MCCanon
    Consults <- MCConsults
    StandIn <- MCStandIn
    SRE = "security_sre"
    SREName = "sre"
    Limit = 1
    Slots = 2
    MaxAsked = 2
SPECIFICATION Spec
INVARIANTS
    TypeOK
    OwnAnswersShown
PROPERTY Ends
CHECK_DEADLOCK FALSE
