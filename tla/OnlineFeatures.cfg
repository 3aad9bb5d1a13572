SPECIFICATION Spec
CONSTANTS
    Transactions <- MCTransactions
    Histories <- MCHistories
    Categories = {"retail", "travel"}
    Maps <- MCMaps
    Now <- Noon
CHECK_DEADLOCK FALSE
INVARIANT Parity
