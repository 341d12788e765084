SPECIFICATION MCSpec
CONSTANTS
    Orders = {"o"}
    Trades = {{"o"}}
    MaxMail <- MCMaxMail
INVARIANTS TypeOK ClosedStoreIsTrue
PROPERTIES RowsWaitForTheirEnd EndedOrdersStayEnded EndedOrdersDisappear
CHECK_DEADLOCK FALSE
