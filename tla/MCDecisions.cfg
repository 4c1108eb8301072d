\* Two requests at a time, six presses in all, one fault.
SPECIFICATION Spec
CONSTANTS
    a = a
    b = b
    filer = filer
    guest = guest
    outsider = outsider
    Callers = {a, b}
    Cast = {filer, guest}
    Submitter = filer
    MaxPresses = 6
    MaxFaults = 1
SYMMETRY Alike
INVARIANTS
    ToldOncePerStaging
    OneSilencePerFault
PROPERTIES
    CommittedIsToldLast
CHECK_DEADLOCK FALSE
