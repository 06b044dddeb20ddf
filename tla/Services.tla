------------------------------ MODULE Services ------------------------------
(***************************************************************************)
(* The services of the platform that share nothing but the process they    *)
(* run in: the event bus, the exchange's market stream, the market-data    *)
(* pipeline, the agents (each an instance) and the backtests (extended).   *)
(* A behaviour exercises one of them; the others stay as they were made.   *)
(***************************************************************************)
EXTENDS Backtesting

CONSTANTS
    Publishers, Handlers, MaxSubscriptions, MaxPublishes,
    Clients, Streams, MaxReconnects,
    Payloads, MaxPayloads,
    Deciders, Requests, MaxRequests,
    None

VARIABLES
    active,
    handlers, subscriptions, publications, publishes, orphaned,
    connected, streams, _subscriptions, reconnecting, restored, missed, reconnects,
    _connected, announced, pending, _store, published, escaped, pushed,
    _agents, _decisions, holder, waiting, deciding, answers, requests

Bus    == INSTANCE EventBus
Stream == INSTANCE BinanceStream
Market == INSTANCE MarketData
Agents == INSTANCE Agents

\* A payload that converts is a value, with a price if its kind has one and a
\* timeframe if it is a candle (the converters require these fields).
ASSUME PayloadsAssumption ==
    /\ None \notin Payloads
    /\ \A raw \in Payloads : Market!normalize(raw) = "ok" =>
          /\ raw.kind # "order_book" => raw.price # None
          /\ raw.kind = "ohlcv" => raw.timeframe # None

bus      == <<handlers, subscriptions, publications, publishes, orphaned>>
stream   == <<connected, streams, _subscriptions, reconnecting, restored, missed, reconnects>>
market   == <<_connected, announced, pending, _store, published, escaped, pushed>>
agents   == <<_agents, _decisions, holder, waiting, deciding, answers, requests>>
services == <<active, bus, stream, market, agents, backtest>>

ServicesInit ==
    /\ active \in {"bus", "stream", "market", "agents", "backtest"}
    /\ Bus!BusInit
    /\ Stream!StreamInit
    /\ Market!MarketInit
    /\ Agents!AgentsInit
    /\ BacktestInit
    /\ active # "backtest" => engines = {}

ServicesNext ==
    \/ /\ active = "bus"
       /\ Bus!BusNext
       /\ UNCHANGED <<active, stream, market, agents, backtest>>
    \/ /\ active = "stream"
       /\ Stream!StreamNext
       /\ UNCHANGED <<active, bus, market, agents, backtest>>
    \/ /\ active = "market"
       /\ Market!MarketNext
       /\ UNCHANGED <<active, bus, stream, agents, backtest>>
    \/ /\ active = "agents"
       /\ Agents!AgentsNext
       /\ UNCHANGED <<active, bus, stream, market, backtest>>
    \/ /\ active = "backtest"
       /\ BacktestNext
       /\ UNCHANGED <<active, bus, stream, market, agents>>

ServicesSpec ==
    /\ ServicesInit
    /\ [][ServicesNext]_services
    /\ Bus!BusFairness
    /\ Agents!AgentsFairness

-----------------------------------------------------------------------------
(* Properties: those of the services *)

\* publish() delivers to each subscription that was in force, once (EventBus).
DeliveredOnce == Bus!DeliveredOnce

\* reconnect() leaves no subscription behind (BinanceStream).
SubscriptionsSurvive == Stream!SubscriptionsSurvive

\* The published market events carry what the cache holds, and each series of
\* candles is opened by its first one alone (MarketData).
EventsRebuildCache == Market!EventsRebuildCache

\* No decision is approved against the risk framework (Agents).
VetoHolds == Agents!VetoHolds

\* No decision a caller was told of is lost or kept twice (Agents).
DecisionsAreKept == Agents!DecisionsAreKept

\* publish() and decide() return although handlers and agents raise, handlers are
\* unsubscribed and tasks are cancelled (EventBus, Agents).
CallsReturn == Bus!PublishReturns /\ Agents!DecideReturns

-----------------------------------------------------------------------------
(* The inputs of the run.  Market data: a tick, a book, candles of two       *)
(* timeframes, and payloads that are malformed in each way.                  *)

Payload(kind, timeframe, price, is_closed) ==
    [mapping |-> TRUE, kind |-> kind, symbol |-> "BTC", timeframe |-> timeframe,
     price |-> price, is_closed |-> is_closed, absent |-> {}, invalid |-> {},
     unrepresentable |-> {}]

Tick == Payload("tick", None, 1, FALSE)

SomePayloads ==
    {Tick,
     Payload("trade", None, 2, FALSE),
     Payload("order_book", None, None, FALSE),
     Payload("ohlcv", "1m", 3, FALSE),
     Payload("ohlcv", "1m", 4, TRUE),
     Payload("ohlcv", "1h", 5, FALSE),
     [Tick EXCEPT !.mapping = FALSE],
     [Tick EXCEPT !.kind = "news"],
     [Tick EXCEPT !.absent = {"price"}],
     [Tick EXCEPT !.invalid = {"price"}],
     [Tick EXCEPT !.unrepresentable = {"timestamp"}]}

-----------------------------------------------------------------------------
(* Agents: a rising market with an approval, without a risk decision and in   *)
(* a losing portfolio, and with a rejection.                                 *)

DecisionContext(open, close, signals, risk, return, veto) ==
    [candle |-> [open |-> Rat(open), close |-> Rat(close)], signals |-> signals,
     risk_decision |-> risk, total_return |-> return,
     parameters |-> [risk_veto |-> veto, min_confidence |-> Ratio(1, 2)]]

Signal(direction, confidence) == [direction |-> direction, confidence |-> confidence]

SomeRequests ==
    {DecisionContext(10, 11, <<Signal("increase", Ratio(1, 2))>>, "approved", None, TRUE),
     DecisionContext(10, 11, <<Signal("buy", Ratio(1, 2))>>, None, Rat(-1), TRUE),
     DecisionContext(10, 11, <<Signal("buy", Rat(1))>>, "rejected", None, TRUE)}

-----------------------------------------------------------------------------
(* Backtests: amounts are powers of two, which keeps the fractions small.    *)

Context(candles, speed, limit, portfolio_id, strategy) ==
    [candles |-> [i \in 1..candles |-> Rat(8)], replay_speed |-> speed,
     cancel_after_steps |-> limit, portfolio_id |-> portfolio_id, strategy |-> strategy,
     slippage_bps |-> Rat(5000), commission_bps |-> Rat(5000),
     portfolio_result |-> Absent, previous |-> Absent, position_result |-> FALSE,
     trade_result |-> Absent, performance_result |-> Absent]

Trade(id, state, pnl) == [id |-> id, state |-> state, realized_pnl |-> Rat(pnl)]

\* The results of an earlier run, which gained, with a trade that lost.
Seeded(c) ==
    LET worth == [total_value |-> Rat(16), cash_value |-> Rat(8), cost_basis |-> Rat(4),
                  realized_pnl |-> Rat(4)]
        analysed == [portfolio |-> worth, previous |-> Absent, trades |-> <<>>,
                     trade_result |-> Trade("t2", "closed", -1),
                     equity_curve |-> <<Rat(8), Rat(16)>>, returns |-> <<One>>,
                     benchmark_returns |-> <<>>, risk_free_rate |-> Zero,
                     periods_per_year |-> 365]
    IN  [c EXCEPT !.portfolio_result = worth, !.previous = Absent,
                  !.position_result = TRUE, !.trade_result = analysed.trade_result,
                  !.performance_result = _compute(analysed)]

SomeBacktests ==
    {Context(3, 2, {}, "p1", TRUE),
     Context(3, 1, {1}, "p1", TRUE),
     Context(2, 1, {}, "p2", FALSE),
     Context(1, 1, {-1}, "p2", TRUE),
     Context(1, 0, {}, "p1", TRUE),
     Seeded(Context(2, 2, {}, "p1", TRUE))}

Order(direction, quantity, limit) ==
    [direction |-> direction, quantity |-> Rat(quantity), limit |-> limit,
     approved |-> TRUE, order_ready |-> TRUE, execution_ready |-> TRUE]

Buy == Order("buy", 1, Rat(4))
Sell == Order("sell", 1, <<>>)

SomeDecisions ==
    {<<Order("hold", 1, <<>>), [Buy EXCEPT !.approved = FALSE],
       [Buy EXCEPT !.order_ready = FALSE], [Buy EXCEPT !.execution_ready = FALSE]>>,
     <<Order("hold", 1, <<>>), Buy, Sell>>,
     <<Sell>>,
     <<Order("buy", 0, <<>>)>>}

SomeTrades == {Trade("t1", "open", 0), Trade("t2", "closed", -1)}

AllEngines == {"risk", "order", "execution", "portfolio", "position", "trade", "performance"}
SomeWirings == {AllEngines, AllEngines \ {"portfolio"}, {}}
SomeCash == Rat(8)
=============================================================================
