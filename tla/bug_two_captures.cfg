\* Two starts at once.
CONSTANTS
    r1 = r1
    r2 = r2
    e1 = e1
    e2 = e2
    Null = Null
    Requests = {r1, r2}
    Egresses = {e1, e2}
    Faults = {}
    MaxFaults = 0
SPECIFICATION Spec
INVARIANTS
    SingleCapture
