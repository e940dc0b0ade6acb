SPECIFICATION Spec
CONSTANTS
    t1 = t1
    t2 = t2
    repo = repo
    backend = backend
    frontend = frontend
    sre = sre
    NoRole = NoRole
    NoTask = NoTask
    Tasks = {t1}
    Repos = {repo}
    Roles = {frontend, backend}
    RepoOf <- MCRepoOf
    VersionOf <- MCAllV2
    ClassOf <- MCClassOf
    Fallback <- MCFallback
    MaxJobs = 2
    MaxOwner = 2
    MaxIdentity = 1
    MaxFence = 3
    LeaseSeconds = 2
    Lead = backend
    Submits <- MCImplement
    MaxAttempts = 2
    ModelCalls = 2
    NormalConcurrency = 2
    PrivilegedConcurrency = 1
    ChatGPT = TRUE
    Live = FALSE
INVARIANTS
    TypeOK
    OneValidExecution
    WriterHoldsLease
    OneValidWriter
    TokensSound
CHECK_DEADLOCK FALSE
