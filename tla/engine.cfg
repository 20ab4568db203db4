SPECIFICATION Spec
CONSTANTS
    Scans = {s1, s2}
    Trackers = {t1}
    MaxBrowsers = 3
    MaxFaults = 2
INVARIANTS
    TrackersAreOwn
    NoBrowserIsLeaked
    GivesUpAfterTwoBrowsers
    LockHasHolder
SYMMETRY ScanSymmetry
CHECK_DEADLOCK FALSE
