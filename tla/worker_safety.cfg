SPECIFICATION Spec
CONSTANTS
    j1 = j1
    j2 = j2
    a1 = a1
    client = client
    Jobs = {j1}
    NoJob = NoJob
    Submitters = {s1}
    Requests = {r1}
    NoClient = NoClient
    ClientOf <- MCClientOf
    PriorityOf <- MCPriorityOf
    MaxConcurrentPerClient = 2
    MaxReplays = 1
    Workers = {w1, w2}
    Executions = {e1, e2}
    NoWorker = NoWorker
    MAX_CONCURRENT = 1
    AuditOf <- MCAuditOf
    NoAudit = NoAudit
    MaxPosts = 2
    MaxFaults = 2
    Checks = {k1}
    STALE_BATCH = 1
INVARIANTS
    TypeOK
    ProcessingIsOwned
    WithinCapacity
    OneExecutionPerTrigger
PROPERTIES
    CompletedIsFinal
    ImplementsRemoteScan
SYMMETRY WorkerSymmetry
CHECK_DEADLOCK FALSE
