\* A tag and a session that refers to it; a walk and a sweep that overlap and may
\* each outlive the leases they take; one fault.
SPECIFICATION FairSpec
CONSTANTS
    h1 = h1
    h2 = h2
    NoHolder = NoHolder
    Holders = {h1, h2}
    Walkers = {h2}
    Sweepers = {h1}
    Entities <- Two
    Kind <- TagAndSession
    Needs <- Cast
    Edited = {2}
    MaxVersion = 2
    MaxFaults = 1
    Lease = 3
    Span = 3
INVARIANTS
    NeverWedged
    CastComplete
PROPERTIES
    HashWasAccepted
    FailuresSettle
