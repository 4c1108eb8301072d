\* A walk creates again what the failed row of the walk before it names.
SPECIFICATION Spec
CONSTANTS
    h1 = h1
    h2 = h2
    NoHolder = NoHolder
    Holders = {h1, h2}
    Walkers = {h2}
    Sweepers = {h1}
    Entities <- One
    Kind <- Session
    Needs <- NoNeeds
    Edited = {}
    MaxVersion = 1
    MaxFaults = 1
    Lease = 1
    Span = 1
PROPERTIES
    AnsweredCreateStays
