SPECIFICATION FairSpec
CONSTANTS
    client = client
    Jobs = {j1}
    NoJob = NoJob
    Submitters = {s1}
    Requests = {r1}
    NoClient = NoClient
    ClientOf <- MCClientOf
    PriorityOf <- MCPriorityOf
    MaxConcurrentPerClient = 2
    MaxReplays = 1
    Workers = {w1}
    Executions = {e1}
    NoWorker = NoWorker
    MAX_CONCURRENT = 1
    AuditOf <- MCAuditOf
    NoAudit = NoAudit
    MaxPosts = 1
    MaxFaults = 1
    Consumers = {b1}
    Checks = {k1}
    QUEUE_THRESHOLD = 1
    OVERFLOW_BATCH = 1
    MaxRedisFaults = 3
INVARIANTS
    QueuedIsHeld
    ProcessingIsRun
PROPERTIES
    CancelledStaysCancelled
    CompletedIsNotRepeated
    AcceptedSettles
CHECK_DEADLOCK FALSE
