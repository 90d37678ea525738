\* Two recharges of 1 and 2 credits, one handler beside the two card requests, two campaigns, one crash and one failed call.
CONSTANTS
    t1 = t1
    t2 = t2
    d1 = d1
    d2 = d2
    h1 = h1
    h2 = h2
    Recharges = {t1, t2}
    Credits <- OneAndTwo
    Campaigns = {d1, d2}
    Quantities = {2}
    Handlers = {h1}
    Budget <- OneFaultEach
SPECIFICATION FairSpec
INVARIANTS
    BalanceNeverNegative
    PaidIsCovered
    PaidMeansApproved
    ApprovedFailsOnlyByFault
    StatementExactUnlessRaced
PROPERTIES
    PollingRecovers
CHECK_DEADLOCK FALSE
