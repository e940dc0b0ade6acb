SPECIFICATION Spec
CONSTANTS
    orchestrator = orchestrator
    gateway = gateway
    renderer = renderer
    Services = {orchestrator, gateway, renderer}
    Orchestrator = orchestrator
    MaxShas = 2
    MaxOps = 2
    MaxTrouble = 2
INVARIANTS
    TypeOK
    Installed
PROPERTIES
    SwitchesQuietly
    HonestOutcome
    NewerOnly
    HaltsAfterLoss
    Settles
CHECK_DEADLOCK FALSE
