\* One submission, two drains and two presses that overlap, sample to live.
SPECIFICATION Spec
SYMMETRY Alike
VIEW NoCount
CONSTANTS
    a = a
    b = b
    d1 = d1
    d2 = d2
    p1 = p1
    p2 = p2
    NoHolder = NoHolder
    Holders <- MCHolders
    Submissions <- OneSubmission
    Drains <- TwoDrains
    Presses <- TwoPresses
    MaxAttempts = 2
    Batch = 1
    MaxJobs = 1
    Lease = 1
    Overlap = TRUE
    Slow = {}
    Sample = TRUE
INVARIANTS
    ScoringExclusive
    LabelIsTrue
    OneRowEach
