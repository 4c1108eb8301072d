\* Two producers: a late upsert takes a sent row back.
SPECIFICATION Spec
CONSTANTS
    s1 = s1
    s2 = s2
    s3 = s3
    p1 = p1
    p2 = p2
    NoHolder = NoHolder
    Holders <- TwoHolders
    Producers <- TwoProducers
    Keys = {1}
    MaxAttempts = 2
    Lease = 2
    Limit = 1
    Overlap = FALSE
PROPERTIES
    OutcomeStays
