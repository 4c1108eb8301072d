\* Two drains with the same listing score one submission twice.
SPECIFICATION Spec
CONSTANTS
    a = a
    b = b
    d1 = d1
    d2 = d2
    p1 = p1
    p2 = p2
    NoHolder = NoHolder
    Holders <- MCHolders
    Submissions <- OneSubmission
    Drains <- TwoDrains
    Presses <- OnePress
    MaxAttempts = 2
    Batch = 1
    MaxJobs = 0
    Lease = 1
    Overlap = TRUE
    Slow = {}
    Sample = FALSE
INVARIANTS
    NotScoredAgain
