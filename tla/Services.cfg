SPECIFICATION ServicesSpec
CONSTANTS
    Publishers = {p1}
    Handlers = {h1, h2}
    MaxSubscriptions = 2
    MaxPublishes = 2
    Clients = {c1, c2}
    Streams = {s1, s2}
    MaxReconnects = 2
    Payloads <- SomePayloads
    MaxPayloads = 3
    Deciders = {t1, t2}
    Requests <- SomeRequests
    MaxRequests = 3
    Runs = {r1, r2}
    Backtests <- SomeBacktests
    Decisions <- SomeDecisions
    Trades <- SomeTrades
    Wirings <- SomeWirings
    PortfolioIds = {"p1", "p2"}
    InitialCash <- SomeCash
    Window = 2
    None = None
INVARIANTS
    DeliveredOnce
    SubscriptionsSurvive
    EventsRebuildCache
    VetoHolds
    DecisionsAreKept
    ReportsAreTrue
    MetricsAgree
PROPERTY CallsReturn
CHECK_DEADLOCK FALSE
