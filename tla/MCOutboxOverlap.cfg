\* One row, two sweeps that overlap, fair scheduling.
SPECIFICATION FairSpec
CONSTANTS
    s1 = s1
    s2 = s2
    s3 = s3
    p1 = p1
    p2 = p2
    NoHolder = NoHolder
    Holders <- TwoHolders
    Producers <- OneProducer
    Keys = {1}
    MaxAttempts = 2
    Lease = 1
    Limit = 1
    Overlap = TRUE
INVARIANTS
    SentWasDelivered
PROPERTIES
    QueuedMailSettles
    OnlyOvertakenRegress
