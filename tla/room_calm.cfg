\* A host, a student and a user who may become one; everything under way is done before the next request; one failure.
CONSTANTS
    h = h
    s = s
    v = v
    r1 = r1
    Users = {h, s, v}
    Host = h
    Enrolled = {s}
    Requests = {r1}
    Prompt = TRUE
    Faults <- AllFaults
    MaxFaults = 1
SPECIFICATION FairSpec
INVARIANTS
    Admitted
PROPERTIES
    FloorIsKept
    OverIsFinal
    FinishIsTrue
