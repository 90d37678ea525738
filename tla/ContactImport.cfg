\* Two contacts, two requests, one instance, one candidate, two attempts, one failed call or crash.
CONSTANTS
    k1 = k1
    k2 = k2
    p1 = p1
    p2 = p2
    p3 = p3
    n1 = n1
    n2 = n2
    r1 = r1
    r2 = r2
    r3 = r3
    w1 = w1
    w2 = w2
    Contacts = {k1, k2}
    Phones = {p1}
    Numbers = {n1}
    Candidates <- One
    Requests = {r1, r2}
    Workers = {w1}
    MaxAttempts = 2
    Budget = 1
SPECIFICATION FairSpec
INVARIANTS
    ImportsAreCounted
PROPERTIES
    EveryContactSettles
CHECK_DEADLOCK FALSE
