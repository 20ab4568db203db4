SPECIFICATION Spec
CONSTANTS
    Sites <- MCSites
    FormPages = {"contact", "signup"}
    MaxFormPages = 1
    USServices = {"tracker", "cdn"}
    HighRisk = {"tracker"}
    Trackers = {"tracker"}
    ThirdPartyLimit = 2
    USServiceLimit = 1
    SameSiteLimit = 0
    Signatures = {"tracker"}
    MaxFaults = 1
    MaxRequests = 3
INVARIANTS
    AccusationsAreTrue
    OffencesAreReported
CHECK_DEADLOCK FALSE
