SPECIFICATION FairSpec
CONSTANTS
    Regions = {g1}
    NoRegion = NoRegion
    MaxSessions = 2
    Purchases <- AllSessions
    MAX_PRICE = 2
    MaxCounter = 2
    Requests = {c1}
    Verifiers = {v1, v2}
    Reports = {r1, r2}
    NoReport = NoReport
    MAX_SLOT_RETRIES = 2
    MaxFaults = 1
INVARIANTS
    UnlockedIsPaid
    PaidIsRecorded
    CompletedIsUnlocked
PROPERTIES
    PaidUnlocks
    ImplementsSale
