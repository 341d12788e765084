SPECIFICATION Spec
CONSTANTS
    b1 = b1
    b2 = b2
    s1 = s1
    m1 = m1
    m2 = m2
    Buys = {b1}
    Sells = {s1}
    Cancellable = {}
    Takers = TRUE
    Miners = {m1, m2}
    InitialChain <- BothCreated
    InitialPool = {}
    MaxHeight = 5
    MaxReorgs = 1
    MaxReorgDepth = 1
    confirmationDepth = 2
    CHECKPOINT_WINDOW = 3
    CHECKPOINT_RETENTION = 2
    InitialCheckpoints <- AtGenesis
    CrashLimit = 0
    LossyRpc = FALSE
    Producers = TRUE
INVARIANTS ShallowReorgsStayOut
PROPERTIES ImplementsLedger
