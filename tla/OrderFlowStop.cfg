SPECIFICATION Spec
CONSTANTS
    None = None
    Tasks = {t1}
    Names = {s1, s2}
    FirstNames = {s1}
    Directions = {"buy", "hold"}
    RuleNames = {r1, r2}
    FirstRules = {r1}
    AdapterNames = {"binance"}
    AuthOutcomes = {"authenticated", "failed"}
    ConnectOutcomes = {"connected", "disconnected"}
    OrderInputs <- EveryOrder
    ExchangeInputs <- EveryExchange
    Configs <- EveryConfig
    MaxChanges = 1
INVARIANT StopOrdersKeepStopPrice
