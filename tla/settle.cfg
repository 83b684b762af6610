\* Liveness over any one failure of a process, a statement or the operator. The clients stop after finitely many requests, so the system may stop.
CONSTANTS
    u1 = u1
    c1 = c1
    p1 = p1
    k1 = k1
    r1 = r1
    r2 = r2
    w1 = w1
    Null = Null
    Users = {u1}
    Classes = {c1}
    Recordings = {p1}
    Keys = {k1}
    Requests = {r1, r2}
    Instances = {w1}
    Capacity = 1
    MaxAttempts = 2
    Answers = {"SUCCESSFUL", "TIMEOUT"}
    Mishaps = {"crash", "dbError", "refused", "unsent", "lost", "unreachable"}
    MaxMishaps = 1
SPECIFICATION FairSpec
PROPERTIES
    ReachesReconciliation
    SettledIsGranted
    ApprovedIsSettled
CHECK_DEADLOCK FALSE
