\* A promote against a reconnect.
CONSTANTS
    h = h
    s = s
    r1 = r1
    r2 = r2
    Users = {h, s}
    Host = h
    Enrolled = {s}
    Requests = {r1, r2}
    Prompt = FALSE
    Faults = {}
    MaxFaults = 0
SPECIFICATION Spec
PROPERTIES
    FloorSurvives
