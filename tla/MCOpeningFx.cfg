SPECIFICATION OpeningSpec
CONSTANTS
    Enterprises = {e1, e2}
    Requests = {r1, r2}
    AutoActivate = FALSE
    DemoWallets = TRUE
    None = None
    Sessions = {s1, s2, s3}
    MaxSessionsPerHour = 1
    MaxSellers = 2
    LastHour = 1
    LiveRates = {live}
    FallbackRate = fallback
SYMMETRY MCSymmetry
INVARIANT RateLocked
CHECK_DEADLOCK FALSE
