CONSTANTS
    Workers = {w1, w2}
    Videos = {v1, v2}
    Kinds <- AllKinds
SPECIFICATION FairExtractSpec
INVARIANTS ExtractTypeOK FewDefyACooldown SpeechIsNotSkipped
PROPERTIES EveryExtractionEnds
CHECK_DEADLOCK FALSE
