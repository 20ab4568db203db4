SPECIFICATION FairSpec
CONSTANTS
    j1 = j1
    j2 = j2
    a1 = a1
    client = client
    Jobs = {j1, j2}
    NoJob = NoJob
    Submitters = {s1}
    Requests = {}
    NoClient = NoClient
    ClientOf <- MCClientOf
    PriorityOf <- MCPriorityOf
    MaxConcurrentPerClient = 2
    MaxReplays = 0
    Workers = {w1, w2}
    Executions = {e1}
    NoWorker = NoWorker
    MAX_CONCURRENT = 1
    AuditOf <- MCAuditOf
    NoAudit = NoAudit
    MaxPosts = 1
    MaxFaults = 1
    Checks = {k1}
    STALE_BATCH = 1
INVARIANT CompletedIsReported
PROPERTY SettlesUnlessCutShort
CHECK_DEADLOCK FALSE
