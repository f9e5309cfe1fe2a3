CONSTANTS
    Items = {a, b}
    Pages = {p1, p2, p3}
    Sessions = {c1, c2}
    None = None
    MaxRuns = 3
    MaxRollbacks = 1
SPECIFICATION FairPagesSpec
PROPERTY RollbackKeepsOthers
\* Runs are bounded by MaxRuns.
CHECK_DEADLOCK FALSE
