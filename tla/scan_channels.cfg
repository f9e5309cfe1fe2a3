CONSTANTS
    Sources = {c}
    Scans = {s1, s2}
    PageSize = 2
    MaxDailyPages = 1
    MaxBackfillPages = 2
    Buffer = 1
    Delay = 1
    MaxClock = 3
    MaxFaults = 1
SPECIFICATION FairScanSpec
INVARIANTS ScanTypeOK NoGap
PROPERTIES RescanKeepsStatus EveryVideoIsFound
