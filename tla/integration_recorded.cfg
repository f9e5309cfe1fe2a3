CONSTANTS
    None = None
    Api = api
    Items = {i}
    CpuWorkers = {w}
    Pushers = {w, api}
    Poppers = {c}
    Cleaners = {s}
    Operators = {}
    CpuMaxRetries = 1
    WikiMaxRetries = 1
    RecoveryMax = 2
    InitialRows <- NewRows
    MaxFaults = 0
    MaxRestarts = 0
SPECIFICATION Spec
INVARIANT IntegrationIsRecorded
