CONSTANTS
    None = None
    Api = api
    worker = api
    workerCall = c2
    Keys = {k}
    Processes = {api}
    Calls = {c1, c2}
    ProcessOf <- CallsIn
    Admins = {a}
    MaxChanges = 1
    MaxFaults = 1
SPECIFICATION FairKeysSpec
INVARIANT KeysTypeOK
PROPERTY
    QuietKeysStayQuiet
    LimitsEnd
