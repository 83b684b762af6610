\* Two redeem one token at once.
CONSTANTS
    h = h
    u1 = u1
    u2 = u2
    r1 = r1
    r2 = r2
    t1 = t1
    Null = Null
    Users = {u1, u2}
    Host = h
    Requests = {r1, r2}
    Tokens = {t1}
    Prices = {1}
    Capacities = {1}
SPECIFICATION Spec
INVARIANTS
    TokenIsUsedOnce
