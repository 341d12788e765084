SPECIFICATION Spec
CONSTANTS
    ann = ann
    bob = bob
    NoType = NoType
    Malformed = Malformed
    Users <- MCUsers
    Tokens <- MCTokens
    Ids = {1, 2}
    MAX_SETTLEMENT_FEE = 1
    MaxU64 = 5
    MaxU128 = 3
    NewOrders <- MCNewOrders
    OutputLists <- MCOutputLists
    InitialWallet <- MCInitialWallet
    TokenCellCapacity = 1
    SellOrderCapacity = 1
    Fees = {0, 1, 2}
INVARIANTS MakerCanAlwaysCancel SettlementsAreAccepted OwnOrdersSettleAndCancel
PROPERTIES MakersGetTheirTerms SettlersGainAtMostTheFee SpentAloneOrInPair
CHECK_DEADLOCK FALSE
