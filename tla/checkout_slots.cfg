SPECIFICATION Spec
CONSTANTS
    Regions = {g1}
    NoRegion = NoRegion
    MaxSessions = 3
    Purchases <- AllSessions
    MAX_PRICE = 2
    MaxCounter = 3
    Requests = {c1, c2}
    Verifiers = {}
    Reports = {r1}
    NoReport = NoReport
    MAX_SLOT_RETRIES = 2
    MaxFaults = 0
INVARIANTS
    TypeOK
    SlotsAreDistinct
    NoGapsWithoutRedis
    QuoteTrailsPendingOnly
SYMMETRY CheckoutSymmetry
