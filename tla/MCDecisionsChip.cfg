\* No fault: a decision that was reversed on the status chip.
SPECIFICATION Spec
CONSTANTS
    a = a
    b = b
    filer = filer
    guest = guest
    outsider = outsider
    Callers = {a}
    Cast = {filer, guest}
    Submitter = filer
    MaxPresses = 6
    MaxFaults = 0
INVARIANT UntoldIsNotifiable
CHECK_DEADLOCK FALSE
