\* A worker dies between a status and its grant. The clients stop after finitely many requests, so the system may stop.
CONSTANTS
    u1 = u1
    c1 = c1
    p1 = p1
    k1 = k1
    r1 = r1
    w1 = w1
    Null = Null
    Users = {u1}
    Classes = {c1}
    Recordings = {p1}
    Keys = {k1}
    Requests = {r1}
    Instances = {w1}
    Capacity = 1
    MaxAttempts = 2
    Answers = {"SUCCESSFUL"}
    Mishaps = {"crash"}
    MaxMishaps = 1
SPECIFICATION FairSpec
PROPERTIES
    SettledIsAdmitted
CHECK_DEADLOCK FALSE
