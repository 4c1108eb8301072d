\* Both requests may die, and their corpses may come back.
SPECIFICATION FairSpec
CONSTANTS
    r1 = r1
    r2 = r2
    NoCall = NoCall
    Requests <- MCRequests
    Calls = {1, 2, 3}
    RequestOf <- MCRequestOf
    Spacing = 2
    Grace = 1
    Ceiling = 1
    MaxAttempts = 2
    MaxDeaths = 2
    Corpses = {"inert", "resumes"}
INVARIANTS
    TypeOK
    SleepsForTheSlot
PROPERTIES
    SpacingKept
    NotWedged
