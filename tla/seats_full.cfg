\* Two requests at once, three users beside the host, one free place.
CONSTANTS
    h = h
    u1 = u1
    u2 = u2
    u3 = u3
    r1 = r1
    r2 = r2
    t1 = t1
    Null = Null
    Users = {u1, u2, u3}
    Host = h
    Requests = {r1, r2}
    Tokens = {t1}
    Prices = {0}
    Capacities = {1}
SPECIFICATION Spec
SYMMETRY MCSymmetry
INVARIANTS
    OverbookingIsBounded
