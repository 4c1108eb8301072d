\* No fault: Save and next, and back again.
SPECIFICATION Spec
CONSTANTS
    MaxCards = 2
    MaxEdits = 2
    MaxFaults = 0
INVARIANTS
    OneReview
