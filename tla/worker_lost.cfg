SPECIFICATION FairSpec
CONSTANTS
    j1 = j1
    j2 = j2
    a1 = a1
    client = client
    Jobs = {j1}
    NoJob = NoJob
    Submitters = {s1}
    Requests = {}
    NoClient = NoClient
    ClientOf <- MCClientOf
    PriorityOf <- MCPriorityOf
    MaxConcurrentPerClient = 2
    MaxReplays = 0
    Workers = {w1}
    Executions = {e1, e2}
    NoWorker = NoWorker
    MAX_CONCURRENT = 1
    AuditOf <- MCAuditOf
    NoAudit = NoAudit
    MaxPosts = 1
    MaxFaults = 1
    Checks = {k1}
    STALE_BATCH = 1
PROPERTY NoScanIsLost
CHECK_DEADLOCK FALSE
