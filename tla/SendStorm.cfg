\* One contact, two messages, two listeners; a failed transaction, a lost acknowledgement, a removed contact, a rescheduling.
CONSTANTS
    c1 = c1
    c2 = c2
    k1 = k1
    k2 = k2
    m0 = m0
    m1 = m1
    Campaigns = {c1}
    Contacts = {k1}
    Messages = {m0, m1}
    SplitMessages = {m0}
    MaxAttempts = 2
    InitialBalance = 2
    MaxReschedules = 1
    MaxFinalizers = 2
    Budget <- Storm
SPECIFICATION Spec
INVARIANTS
    SentMeansDelivered
    RepeatsNeedAFault
