SPECIFICATION Spec
CONSTANTS
    t1 = t1
    t2 = t2
    repo = repo
    backend = backend
    frontend = frontend
    sre = sre
    NoRole = NoRole
    NoTask = NoTask
    Tasks = {t1, t2}
    Repos = {repo}
    Roles = {backend, sre}
    RepoOf <- MCRepoOf
    VersionOf <- MCMixed
    ClassOf <- MCClassOf
    Fallback <- MCFallback
    MaxJobs = 2
    MaxOwner = 1
    MaxIdentity = 0
    MaxFence = 1
    LeaseSeconds = 1
    Lead = backend
    Submits <- MCPrivileged
    MaxAttempts = 2
    ModelCalls = 2
    NormalConcurrency = 2
    PrivilegedConcurrency = 1
    ChatGPT = TRUE
    Live = TRUE
INVARIANTS
    OneValidWriter
    WithinConcurrency
    DeployQuiet
PROPERTIES
    StoppedKeepsJobs
CHECK_DEADLOCK FALSE
