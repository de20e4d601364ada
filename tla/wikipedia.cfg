\* Two fetches of up to four attempts each; the cap is that of the code.
SPECIFICATION Spec
CONSTANTS
    MaxAttempts = 4
    MinInterval = 2
    MaxBackoff = 60
    Timeout = 2
    Late = 1
    RetryAfters <- MCRetryAfters
    NoHeader = NoHeader
    Pauses = {0, 1}
    MaxFetches = 2
INVARIANTS
    RateIsBounded
    RetriesWaitAsAsked
    FetchIsTimely
CHECK_DEADLOCK FALSE
