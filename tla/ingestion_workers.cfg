CONSTANTS
    None = None
    Api = api
    Items = {i}
    CpuWorkers = {w1, w2}
    Pushers = {w1, w2, api}
    Poppers = {c}
    Cleaners = {}
    Operators = {}
    CpuMaxRetries = 1
    WikiMaxRetries = 1
    RecoveryMax = 2
    InitialRows <- NewRows
    MaxFaults = 2
    MaxRestarts = 1
SPECIFICATION Spec
INVARIANTS TypeOK WikiStageHasTranscript
PROPERTY FailedWasRetried
SYMMETRY Symmetry
CHECK_DEADLOCK FALSE
