SPECIFICATION TradeSpec
CONSTANTS
    Symbols = {btc}
    FillQuantities = {1, 2}
    FillPrices = {1, 3}
    MaxTrades = 5
INVARIANTS
    ClosedProfitIsCashFlow
    FillsAddUpToTrade
    TradeFollowsPosition
CHECK_DEADLOCK FALSE
