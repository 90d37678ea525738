\* Two contacts, two messages, attempts used up or not, an edited phone.
CONSTANTS
    c1 = c1
    c2 = c2
    k1 = k1
    k2 = k2
    m0 = m0
    m1 = m1
    Campaigns = {c1}
    Contacts = {k1, k2}
    Messages = {m0, m1}
    SplitMessages = {m0}
    MaxAttempts = 2
    InitialBalance = 4
    MaxReschedules = 0
    MaxFinalizers = 1
    Budget <- EditOnly
SPECIFICATION Spec
INVARIANTS
    BucketsMatchRecipients
    RecipientReflectsEnvios
    NoRecipientForgotten
    CountersSettle
PROPERTIES
    OutcomeIsFinal
SYMMETRY ContactSymmetry
