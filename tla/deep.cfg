SPECIFICATION Spec
CONSTANTS
    b1 = b1
    b2 = b2
    s1 = s1
    m1 = m1
    m2 = m2
    Buys = {b1}
    Sells = {s1}
    Cancellable = {}
    Takers = TRUE
    Miners = {m1}
    InitialChain <- BothCreated
    InitialPool = {}
    MaxHeight = 4
    MaxReorgs = 1
    MaxReorgDepth = 3
    confirmationDepth = 1
    CHECKPOINT_WINDOW = 2
    CHECKPOINT_RETENTION = 1
    InitialCheckpoints <- AtGenesis
    CrashLimit = 0
    LossyRpc = FALSE
    Producers = FALSE
INVARIANTS RollbackIsComplete
