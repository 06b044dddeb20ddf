SPECIFICATION PortfolioSpec
CONSTANTS
    PortfolioIds = {p1}
    Assets = {btc, eth}
    InitialCash <- One
    Quantities = {0, 1, 2}
    Prices = {1, 4}
    MaxLedger = 2
INVARIANT BookValueSurvivesClose
