CONSTANTS
    q1 = q1
    q2 = q2
    s1 = s1
    s2 = s2
    r1 = r1
    r2 = r2
    None = None
    Questions = {q1, q2}
    Scopes = {s1, s2}
    Near <- Everything
    Ttl <- Times
    Requests = {r1, r2}
    Inputs <- Asked
    FollowUps = {q2}
    MaxAttempts = 2
    MaxFaults = 1
SPECIFICATION FairQuerySpec
INVARIANTS QueryTypeOK OneComplete ExactEntriesFit DegradesGracefully NoHashLastsForEver
PROPERTIES EveryRequestEnds
CHECK_DEADLOCK FALSE
