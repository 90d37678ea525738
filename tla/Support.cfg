\* Each machine on its own; two users, two overlapping cycles, one mishap; two uploads and two campaigns; every
\* spelling of nine phones; every bracket of the catalogue; moments around
\* the edges of regular and irregular windows; three sockets of the app and two that drop, fail or are refused.
CONSTANTS
    Kinds = {"session_down"}
    LastUser = 2
    Cycles = {y1, y2}
    Cooldown = 2
    MaxMishaps = 1
    MaxReports = 2
    Uploads = {m1, m2}
    Creations = {g1, g2}
    Sizes = {16, 17, 101}
    AreaCodes <- MCAreaCodes
    Subscribers <- MCSubscribers
    MaxCandidates = 3
    Amounts <- MCAmounts
    Arrivals <- MCArrivals
    Ages = {0, 4319, 4320}
    Areas = {0, 11, 68, 92}
    Openings = {0, 480, 510, 1200}
    Closings = {60, 1200, 1230, 1440}
    WarmupDays = 3
    WarmupMin = 2
    WarmupMax = 3
    MatureMin = 0
    MatureMax = 1
    Lateness = {0, 1, 70}
    MaxSockets = 3
    MaxDrops = 2
SPECIFICATION Spec
INVARIANTS
    MediaStay
    SentOnTime
    CreditsFollowCatalogue
    SpellingsAgree
    TestEndsClean
    CodeReachesApp
PROPERTIES
    ImplementsPolicy
CHECK_DEADLOCK FALSE
