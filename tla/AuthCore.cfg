CONSTANTS
    Password = {w1, w2}
    w1 = w1
    w2 = w2
    MaxAttempts = 2
    MaxCodes = 2
    MaxTokens = 3
    MaxRequests = 2
SPECIFICATION Spec
INVARIANTS
    ExchangedIsSpent
    RevokedStaysRevoked
    AttemptsBounded
    PasswordFromBefore
CHECK_DEADLOCK FALSE
