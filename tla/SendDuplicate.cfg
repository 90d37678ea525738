\* One failed transaction right after a send.
CONSTANTS
    c1 = c1
    c2 = c2
    k1 = k1
    k2 = k2
    m0 = m0
    m1 = m1
    Campaigns = {c1}
    Contacts = {k1}
    Messages = {m0}
    SplitMessages = {}
    MaxAttempts = 2
    InitialBalance = 1
    MaxReschedules = 0
    MaxFinalizers = 1
    Budget <- OneInfraFault
SPECIFICATION Spec
INVARIANTS
    NoDuplicateMessage
