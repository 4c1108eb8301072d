\* One request at a time, two of them failing between the mail and the status.
SPECIFICATION Spec
CONSTANTS
    a = a
    b = b
    filer = filer
    guest = guest
    outsider = outsider
    Callers = {a}
    Cast = {filer, guest}
    Submitter = filer
    MaxPresses = 6
    MaxFaults = 2
PROPERTIES
    NewDecisionStillSends
CHECK_DEADLOCK FALSE
