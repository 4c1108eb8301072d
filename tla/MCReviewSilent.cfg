\* One card, one edit, one fault: Save and next, and the save fails.
SPECIFICATION Spec
CONSTANTS
    MaxCards = 1
    MaxEdits = 1
    MaxFaults = 1
INVARIANTS
    FailureIsSeen
