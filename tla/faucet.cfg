SPECIFICATION FairSpec
CONSTANTS
    Calls = {c1, c2, c3}
    Recipients = {ann, bob}
    NoCall = NoCall
    cooldown = 2
    reservationTimeout = 2
    dayLength = 2
    dripAmount = 2
    dailyMaxClaims = 3
    dailyMaxTokens = 5
    MaxTime = 3
    Crashes = TRUE
    Unlucky = {c1}
    Unheard = {c2}
    SlowSends = FALSE
INVARIANTS TypeOK DailyIssuanceIsCapped NoSelfDoubleSpend BooksBalance
PROPERTIES NoDripWithinCooldown EveryCallEnds
CHECK_DEADLOCK FALSE
