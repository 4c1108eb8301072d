\* One key, three callers, a short and a long lease, a fair clock.
SPECIFICATION FairGuardSpec
CONSTANTS
    h1 = h1
    h2 = h2
    h3 = h3
    NoHolder = NoHolder
    NoAlarm = NoAlarm
    Holders <- MCHolders
    Ttls <- MCTtls
    AlarmSlack = 1
INVARIANTS
    GuardTypeOK
    LeaseExclusion
    PromiseKept
    AlarmOutlivesClaim
PROPERTIES
    ImplementsLease
    NeverHeldForever
