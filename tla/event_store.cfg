CONSTANTS
    k1 = k1
    k2 = k2
    Keys = {k1, k2}
    Sessions = {s1, s2}
    Pages = {p1, p2}
    ChunkFacts <- Facts
    Chunks = 2
    Category <- OneCategory
    Yields <- Extractions
    p1 = p1
    p2 = p2
    Prior <- Known
    PriorSeen <- KnownSeen
    PriorNames <- KnownNames
    MaxEvents = 3
    MaxRuns = 2
SPECIFICATION FairStoreSpec
INVARIANTS KnowledgeTypeOK CountsObservations ContradictionsAreFound
PROPERTIES EveryIntegrationEnds
CHECK_DEADLOCK FALSE
