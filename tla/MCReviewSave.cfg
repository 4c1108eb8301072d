\* Two cards one after the other, three edits, one fault.
SPECIFICATION FairSpec
CONSTANTS
    MaxCards = 2
    MaxEdits = 3
    MaxFaults = 1
INVARIANTS
    SavedIsTrue
    SecondRowIsLoose
PROPERTIES
    EditsSettle
