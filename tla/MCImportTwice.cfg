\* Two runs of a source in which a room and a session share an id, one after the other
\* or side by side; nothing fails.  For the safety properties only.
SPECIFICATION Spec
CONSTANTS
    w1 = w1
    w2 = w2
    gone = gone
    Gone = gone
    NoHolder = NoHolder
    Holders = {w1, w2, gone}
    Entities <- Three
    Phase <- RoomPhase
    Natural = {2}
    Id <- SameIds
    Cast <- RoomCast
    Runs = {1, 2}
    Sources = {"open"}
    Batch = 2
    Lease = 1
    MaxFaults = 0
INVARIANTS
    TypeOK
    OneDuplicatePerFault
    DoneIsComplete
PROPERTIES EndedStaysEnded
SYMMETRY Alike
