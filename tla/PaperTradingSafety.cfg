SPECIFICATION PaperSpec
CONSTANTS
    Tasks = {t1, t2}
    Sessions <- TwoSessions
    Symbols <- TwoSymbols
    SymbolOf <- OwnSymbol
    Updates <- MixedUpdates
    InitialCash <- SmallCash
    Slippage <- QuarterSlippage
    Commission <- TenthCommission
    MaxUpdates = 4
    Cancellable = FALSE
SYMMETRY TaskSymmetry
INVARIANTS
    NoLostUpdate
    SessionMirrorsBook
PROPERTY UpdatesAreAtomic
CHECK_DEADLOCK FALSE
