\* Two sweeps at once over one delivery, two faults; takes some minutes.
SPECIFICATION FairSpec
CONSTANTS
    s1 = s1
    gone = gone
    Gone = gone
    s2 = s2
    a1 = a1
    w1 = w1
    w2 = w2
    NoHolder = NoHolder
    Holders = {s1, s2, gone}
    Announcers = {a1}
    Subs = {w1}
    Deliveries = {1}
    SubOf <- First
    MaxAttempts = 2
    Lease = 1
    Limit = 1
    MaxFaults = 2
    Overlap = TRUE
INVARIANTS
    TypeOK
    SentWasAccepted
PROPERTIES
    DeliveriesSettle
