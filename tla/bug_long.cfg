\* One request, one session, of which the host moves one end at a time.
CONSTANTS
    s1 = s1
    r1 = r1
    Sessions = {s1}
    Requests = {r1}
    MaxTime = 3
    MaxLength = 1
SPECIFICATION Spec
INVARIANTS
    NeverTooLong
