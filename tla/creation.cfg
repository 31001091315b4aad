SPECIFICATION Spec
CONSTANTS
    a = a
    b = b
    c = c
    d = d
    same = same
    other = other
    Caller = {a, b, c, d}
    Request = {same, other}
    RequestOf <- Requests
    MaxFaults = 1
INVARIANTS OneRunPerKey RunningIsPlanned
