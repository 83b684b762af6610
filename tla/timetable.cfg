\* Two requests at once, three sessions; two instants at which they may take place.
CONSTANTS
    s1 = s1
    s2 = s2
    s3 = s3
    r1 = r1
    r2 = r2
    Sessions = {s1, s2, s3}
    Requests = {r1, r2}
    MaxTime = 2
    MaxLength = 1
SPECIFICATION Spec
SYMMETRY MCSymmetry
INVARIANTS
    SessionsMakeSense
    ClashIsBounded
PROPERTIES
    OverIsFinal
