SPECIFICATION UndisturbedSpec
CONSTANTS
    j1 = j1
    j2 = j2
    j3 = j3
    c1 = c1
    a1 = a1
    Jobs = {j1, j2, j3}
    NoJob = NoJob
    Submitters = {s1, s2}
    Requests = {r1, r2}
    NoClient = NoClient
    ClientOf <- TwoJobsClient
    PriorityOf <- SamePriority
    MaxConcurrentPerClient = 1
    MaxReplays = 1
    Polls = {p1, p2}
    AuditOf <- TwoJobsAudit
    NoAudit = NoAudit
    MaxAttempts = 2
    MaxFaults = 1
INVARIANT ClientLimitOvershoot
PROPERTY ImplementsLifecycle
SYMMETRY LifecycleSymmetry
