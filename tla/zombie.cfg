SPECIFICATION Spec
CONSTANTS
    b1 = b1
    b2 = b2
    s1 = s1
    m1 = m1
    m2 = m2
    Buys = {b1}
    Sells = {s1}
    Cancellable = {b1}
    Takers = TRUE
    Miners = {m1}
    InitialChain <- Empty
    InitialPool <- AllCreations
    MaxHeight = 5
    MaxReorgs = 0
    MaxReorgDepth = 0
    confirmationDepth = 2
    CHECKPOINT_WINDOW = 3
    CHECKPOINT_RETENTION = 2
    InitialCheckpoints <- AtGenesis
    CrashLimit = 0
    LossyRpc = FALSE
    Producers = FALSE
PROPERTIES TerminalIsFinal
