SPECIFICATION PaperFairSpec
CONSTANTS
    Tasks = {t1, t2}
    Sessions <- OneSession
    Symbols <- TwoSymbols
    SymbolOf <- OwnSymbol
    Updates <- EndingUpdates
    InitialCash <- SmallCash
    Slippage <- QuarterSlippage
    Commission <- TenthCommission
    MaxUpdates = 3
    Cancellable = TRUE
PROPERTY CallsReturn
CHECK_DEADLOCK FALSE
