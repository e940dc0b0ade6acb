SPECIFICATION Spec
CONSTANTS
    t1 = t1
    t2 = t2
    repo = repo
    backend = backend
    frontend = frontend
    sre = sre
    NoRole = NoRole
    NoTask = NoTask
    Tasks = {t1, t2}
    Repos = {repo}
    Roles = {frontend, backend}
    RepoOf <- MCRepoOf
    VersionOf <- MCAllV2
    ClassOf <- MCClassOf
    Fallback <- MCFallback
    MaxJobs = 2
    MaxOwner = 1
    MaxIdentity = 0
    MaxFence = 1
    LeaseSeconds = 1
    Lead = backend
    Submits <- MCConsulted
    MaxAttempts = 2
    ModelCalls = 2
    NormalConcurrency = 2
    PrivilegedConcurrency = 1
    ChatGPT = TRUE
    Live = FALSE
INVARIANTS
    OneWriterAtATime
CHECK_DEADLOCK FALSE
