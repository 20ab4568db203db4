SPECIFICATION FairSpec
CONSTANTS
    j1 = j1
    j2 = j2
    j3 = j3
    c1 = c1
    a1 = a1
    Jobs = {j1, j2}
    NoJob = NoJob
    Submitters = {s1}
    Requests = {}
    NoClient = NoClient
    ClientOf <- TwoJobsClient
    PriorityOf <- TwoJobsPriority
    MaxConcurrentPerClient = 2
    MaxReplays = 0
    Polls = {p1, p2}
    AuditOf <- TwoJobsAudit
    NoAudit = NoAudit
    MaxAttempts = 2
    MaxFaults = 0
INVARIANT FirstInLineIsNext
PROPERTY Settles
