\* Prices and a rate that do not divide evenly: ties, and both directions
\* of rounding, in each of the three quantizations.
SPECIFICATION MeterSpec
CONSTANTS
    TokensPerUnit = 6
    InputPrice = 3
    OutputPrice = 7
    RateNum = 3
    RateDen = 4
    CharsPerToken = 3
    OverheadTokens = 1
    MaxOutputTokens = 3
    MaxChars = 8
    MaxCalls = 3
INVARIANTS
    ChargeWithinCheck
    CreditsFollowCost
CHECK_DEADLOCK TRUE
