\* Two campaigns: the second one's ensureWorker takes up what a crash left behind.
CONSTANTS
    c1 = c1
    c2 = c2
    k1 = k1
    k2 = k2
    m0 = m0
    m1 = m1
    Campaigns = {c1, c2}
    Contacts = {k1}
    Messages = {m0}
    SplitMessages = {}
    MaxAttempts = 2
    InitialBalance = 2
    MaxReschedules = 0
    MaxFinalizers = 1
    Budget <- Redelivery
SPECIFICATION FairSpec
PROPERTIES
    CampaignFinishes
    BacklogResumes
    ImplementsProgress
