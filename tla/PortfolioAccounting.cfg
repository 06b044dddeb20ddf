SPECIFICATION PortfolioSpec
CONSTANTS
    PortfolioIds = {p1}
    Assets = {btc, eth}
    InitialCash <- One
    Quantities = {0, 1, 2}
    Prices = {1, 4}
    MaxLedger = 4
INVARIANTS
    BookValueConserved
    HoldingsMatchLedger
    PreviousValueIsCurrent
