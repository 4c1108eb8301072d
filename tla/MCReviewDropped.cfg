\* No fault: an edit typed during a save on a card that is then closed.
SPECIFICATION Spec
CONSTANTS
    MaxCards = 1
    MaxEdits = 2
    MaxFaults = 0
PROPERTIES
    DroppedSendsNothing
