CONSTANTS
    Items = {a}
    Pushers = {p}
    Poppers = {c}
    Cleaners = {s1, s2}
    Operators = {o}
    MaxFaults = 2
    None = None
SPECIFICATION FairQueueSpec
INVARIANT BoundedBloat
PROPERTY OrphansAreRepaired
