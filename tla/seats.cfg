\* Two requests at once, two users beside the host, one place, an invitation sent twice.
CONSTANTS
    h = h
    u1 = u1
    u2 = u2
    r1 = r1
    r2 = r2
    t1 = t1
    t2 = t2
    Null = Null
    Users = {u1, u2}
    Host = h
    Requests = {r1, r2}
    Tokens = {t1, t2}
    Prices = {0, 1}
    Capacities = {1}
SPECIFICATION Spec
SYMMETRY MCSymmetry
INVARIANTS
    TypeOK
    SeatIsEarned
PROPERTIES
    SeatIsKept
    InvitationTellsTruth
    PriceIsAgreed
