\* Sweeps one at a time, two deliveries to two subscriptions, two faults.
SPECIFICATION FairSpec
CONSTANTS
    s1 = s1
    gone = gone
    Gone = gone
    s2 = s2
    a1 = a1
    w1 = w1
    w2 = w2
    NoHolder = NoHolder
    Holders = {s1, gone}
    Announcers = {a1}
    Subs = {w1, w2}
    Deliveries = {1, 2}
    SubOf <- OneEach
    MaxAttempts = 2
    Lease = 1
    Limit = 1
    MaxFaults = 2
    Overlap = FALSE
INVARIANTS
    PostsCounted
PROPERTIES
    ImplementsMessage
    DeliveriesSettle
