\* One Pix or card recharge of 1 credit and two handlers, without faults.
CONSTANTS
    t1 = t1
    t2 = t2
    d1 = d1
    d2 = d2
    h1 = h1
    h2 = h2
    Recharges = {t1}
    Credits <- OneEach
    Campaigns = {d1}
    Quantities = {2}
    Handlers = {h1, h2}
    Budget <- NoFaults
SPECIFICATION Spec
INVARIANTS
    StatementMatchesBalance
CHECK_DEADLOCK FALSE
