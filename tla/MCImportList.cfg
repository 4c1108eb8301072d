\* One call fails.
SPECIFICATION Spec
CONSTANTS
    w1 = w1
    w2 = w2
    gone = gone
    Gone = gone
    NoHolder = NoHolder
    Holders = {w1, w2, gone}
    Entities <- Small
    Phase <- SmallPhase
    Natural = {2}
    Id <- OwnIds
    Cast <- SmallCast
    Runs = {1}
    Sources = {"open"}
    Batch = 2
    Lease = 1
    MaxFaults = 1
INVARIANTS FailedIsOwedTheList
