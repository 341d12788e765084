SPECIFICATION FairSpec
CONSTANTS
    b1 = b1
    b2 = b2
    b3 = b3
    b4 = b4
    s1 = s1
    s2 = s2
    s3 = s3
    s4 = s4
    Buys = {b1, b2, b3, b4}
    Sells = {s1, s2, s3, s4}
    Terms <- MCTerms
    Age <- MCAge
    Listed = {"listed"}
    Unfunded <- MCUnfunded
    Withdrawable = {s1, s2}
    InitialStatus <- MCInitialStatus
    pollInterval = 2
    BASE_PAIR_BACKOFF = 3
    MAX_PAIR_BACKOFF = 8
    ORDER_QUARANTINE = 8
    MAX_MATCHES_PER_TICK = 1
    AttemptTime = 1
    MaxFaults = 2
INVARIANTS TypeOK MatchesAreStable
PROPERTIES GoodPairsSettle
CHECK_DEADLOCK FALSE
