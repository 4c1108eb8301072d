\* Two rows, sweeps one after another, crashes and failed calls: the promise of a message.
SPECIFICATION Spec
CONSTANTS
    s1 = s1
    s2 = s2
    s3 = s3
    p1 = p1
    p2 = p2
    NoHolder = NoHolder
    Holders <- TwoHolders
    Producers <- OneProducer
    Keys = {1, 2}
    MaxAttempts = 2
    Lease = 2
    Limit = 2
    Overlap = FALSE
INVARIANTS
    TypeOK
    CallsCounted
PROPERTIES
    ImplementsMessage
