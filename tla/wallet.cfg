SPECIFICATION FairWalletSpec
CONSTANTS
    Wallets = {"ann", "bob"}
    NoWallet = "nobody"
    OwnTxs = {"t1", "t2"}
    Payments = {"p2"}
    OwnerOf <- MCOwnerOf
    MaxSwitches = 3
    MaxFailures = 2
INVARIANTS WalletTypeOK
PROPERTIES OnlyLateAnswersCountTwice NoForeignRefresh BalancesSettle
CHECK_DEADLOCK FALSE
