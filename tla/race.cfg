\* Two handlers, one worker, any single failure. The clients stop after finitely many requests, so the system may stop.
CONSTANTS
    u1 = u1
    u2 = u2
    c1 = c1
    k1 = k1
    k2 = k2
    r1 = r1
    r2 = r2
    w1 = w1
    Null = Null
    Users = {u1, u2}
    Classes = {c1}
    Recordings = {}
    Keys = {k1, k2}
    Requests = {r1, r2}
    Instances = {w1}
    Capacity = 1
    MaxAttempts = 2
    Answers <- AnyAnswer
    Mishaps <- EveryMishap
    MaxMishaps = 1
SPECIFICATION Spec
SYMMETRY MCSymmetry
INVARIANTS
    TypeOK
    OnePromptPerKey
    SettledByOperator
    AccessIsPaid
PROPERTIES
    ImplementsLedger
CHECK_DEADLOCK FALSE
