\* Two API processes, no failure. The clients stop after finitely many requests, so the system may stop.
CONSTANTS
    u1 = u1
    c1 = c1
    k1 = k1
    r1 = r1
    r2 = r2
    w1 = w1
    w2 = w2
    Null = Null
    Users = {u1}
    Classes = {c1}
    Recordings = {}
    Keys = {k1}
    Requests = {r1, r2}
    Instances = {w1, w2}
    Capacity = 1
    MaxAttempts = 2
    Answers = {"SUCCESSFUL"}
    Mishaps = {}
    MaxMishaps = 0
SPECIFICATION Spec
PROPERTIES
    SettledIsFinal
CHECK_DEADLOCK FALSE
