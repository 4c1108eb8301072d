\* No fault, and who filed the submission is not on its cast.
SPECIFICATION Spec
CONSTANTS
    a = a
    b = b
    filer = filer
    guest = guest
    outsider = outsider
    Callers = {a}
    Cast = {filer, guest}
    Submitter = outsider
    MaxPresses = 6
    MaxFaults = 0
PROPERTIES
    SomebodyIsTold
CHECK_DEADLOCK FALSE
