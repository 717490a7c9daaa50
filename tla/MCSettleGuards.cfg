SPECIFICATION Spec
CONSTANTS
    a1 = a1
    b1 = b1
    c1 = c1
    alice = alice
    bob = bob
    carol = carol
    Requests = {h1, h2}
    Ips = {ip}
    MaxTime = 2
    Payments <- MCPayments
    PayerOf <- MCPayerOf
    RateLimit <- MCRateLimit
    BreakerConfig <- MCBreakerConfig
SYMMETRY MCSymmetry
INVARIANTS
    TypeOK
    SpendWithinBudget
    CooldownHolds
PROPERTIES
    MapIsBounded
    BreakerReacts
\* the clock is bounded: with the breaker open at the last tick all is idle
CHECK_DEADLOCK FALSE
