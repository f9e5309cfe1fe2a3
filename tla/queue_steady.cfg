CONSTANTS
    Items = {a, b, d}
    Pushers = {p1, p2}
    Poppers = {c1, c2}
    Cleaners = {}
    Operators = {}
    MaxFaults = 0
    None = None
SPECIFICATION FairQueueSpec
INVARIANTS QueueTypeOK NoDuplicates TrackedWhileOutstanding SkippedPushIsOutstanding
PROPERTY ImplementsPendingJobs
