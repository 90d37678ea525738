\* One contact with three phones, two requests, two instances, two attempts, no faults: the races of requests and workers.
CONSTANTS
    k1 = k1
    k2 = k2
    p1 = p1
    p2 = p2
    p3 = p3
    n1 = n1
    n2 = n2
    r1 = r1
    r2 = r2
    r3 = r3
    w1 = w1
    w2 = w2
    Contacts = {k1}
    Phones = {p1, p2, p3}
    Numbers = {n1, n2}
    Candidates <- TwoOneNone
    Requests = {r1, r2}
    Workers = {w1, w2}
    MaxAttempts = 2
    Budget = 0
SPECIFICATION Spec
INVARIANTS
    VerdictMatchesPhone
    LogTellsAttempts
    NoContactForgotten
CHECK_DEADLOCK FALSE
