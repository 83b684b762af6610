\* A publish against a cancel.
CONSTANTS
    s1 = s1
    r1 = r1
    r2 = r2
    Sessions = {s1}
    Requests = {r1, r2}
    MaxTime = 1
    MaxLength = 1
SPECIFICATION Spec
PROPERTIES
    CancelledStaysOff
