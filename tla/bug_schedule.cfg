\* Declined payments are polled for ever. The clients stop after finitely many requests, so the system may stop.
CONSTANTS
    u1 = u1
    c1 = c1
    k1 = k1
    r1 = r1
    w1 = w1
    Null = Null
    Users = {u1}
    Classes = {c1}
    Recordings = {}
    Keys = {k1}
    Requests = {r1}
    Instances = {w1}
    Capacity = 1
    MaxAttempts = 2
    Answers = {"FAILED"}
    Mishaps = {}
    MaxMishaps = 0
SPECIFICATION FairSpec
PROPERTIES
    ScheduleIsFinite
CHECK_DEADLOCK FALSE
