SPECIFICATION Spec
CONSTANTS
    j1 = j1
    j2 = j2
    j3 = j3
    c1 = c1
    a1 = a1
    Jobs = {j1, j2}
    NoJob = NoJob
    Submitters = {s1}
    Requests = {r1}
    NoClient = NoClient
    ClientOf <- TwoJobsClient
    PriorityOf <- TwoJobsPriority
    MaxConcurrentPerClient = 2
    MaxReplays = 1
    Polls = {p1, p2}
    AuditOf <- TwoJobsAudit
    NoAudit = NoAudit
    MaxAttempts = 1
    MaxFaults = 2
INVARIANTS
    TypeOK
    ProcessingIsOwned
    OneAtATime
    OneCompletedJobPerAudit
SYMMETRY PollSymmetry
