\* A row that is not done is labelled as a finished sample.
SPECIFICATION Spec
CONSTANTS
    a = a
    b = b
    d1 = d1
    d2 = d2
    p1 = p1
    p2 = p2
    NoHolder = NoHolder
    Holders <- MCHolders
    Submissions <- OneSubmission
    Drains <- OneDrain
    Presses <- OnePress
    MaxAttempts = 2
    Batch = 1
    MaxJobs = 0
    Lease = 1
    Overlap = FALSE
    Slow = {}
    Sample = TRUE
INVARIANTS
    MockedMeansDone
