---------------------------- MODULE Backtesting ----------------------------
(***************************************************************************)
(* Backtests (src/backtesting): a run replays candles through the strategy *)
(* and the risk, order, execution, portfolio, position and trade engines,  *)
(* and has its result analysed.  The manager takes no lock: runs are       *)
(* coroutines that interleave at their awaits and share the engines, hence *)
(* the portfolio of their portfolio_id (the same by default).  Candles are *)
(* numbered from 1.  The engines before the portfolio are represented by   *)
(* what they answer to a signal; Portfolio and Performance are composed.   *)
(***************************************************************************)
EXTENDS Performance

CONSTANTS
    Runs,          \* coroutines of run_backtest()
    Backtests,     \* BacktestingContexts: [candles, portfolio_id, strategy,
                   \* slippage_bps, commission_bps, replay_speed, cancel_after_steps]
                   \* and the results a run is seeded with, each Absent or given:
                   \* [portfolio_result, previous, position_result, trade_result,
                   \* performance_result], a portfolio result in two parts, the value
                   \* it reports and the one before, a position result as a BOOLEAN
    Decisions,     \* what a strategy may answer: sequences of signals
    Trades,        \* what the trade engine may answer
    Wirings,       \* sets of the optional engines the manager is given
    PortfolioIds,
    InitialCash,
    Window         \* _WINDOW

VARIABLES
    engines,       \* the engines that are wired
    portfolios, prev_value,   \* the state of the portfolio framework
    runs,          \* per coroutine, the local state of _run()
    _snapshots     \* InMemoryBacktestRegistry._snapshots

backtest == <<engines, portfolios, prev_value, runs, _snapshots>>

Symbol == "BTCUSDT"

\* Amounts are numbers and signals name a direction; a limit is a number or absent.
\* Nothing bounds a replay speed or a number of steps from below.  A run may be
\* seeded with any results of the engines.
ASSUME BacktestAssumption ==
    /\ IsRat(InitialCash) /\ Window \in Nat \ {0}
    /\ \A c \in Backtests :
          /\ c.candles \in Seq(Range(c.candles))
          /\ \A i \in DOMAIN c.candles : IsRat(c.candles[i])
          /\ IsRat(c.slippage_bps) /\ IsRat(c.commission_bps)
          /\ c.replay_speed \in Int /\ c.cancel_after_steps \subseteq Int
          /\ c.portfolio_id \in PortfolioIds
          /\ c.portfolio_result = Absent \/ IsRat(c.portfolio_result.total_value)
          /\ c.position_result \in BOOLEAN
          /\ c.trade_result = Absent \/ c.trade_result \in Trades
    /\ \A signals \in Decisions :
          /\ signals \in Seq(Range(signals))
          /\ \A i \in DOMAIN signals :
                /\ signals[i].direction \in {"hold", "buy", "sell"}
                /\ IsRat(signals[i].quantity)
                /\ signals[i].limit = Absent \/ IsRat(signals[i].limit)
    /\ \A t \in Trades : t # Absent /\ IsRat(t.realized_pnl)

PF == INSTANCE Portfolio WITH Assets <- {Symbol}, Quantities <- {}, Prices <- {},
    MaxLedger <- 0

-----------------------------------------------------------------------------
(* Scheduling and simulation *)

\* DefaultScheduler.iterate(): every replay_speed-th candle, from the first.
iterate(candles, speed) ==
    [i \in 1..((Len(candles) + speed - 1) \div speed) |-> 1 + (i - 1) * speed]

\* The candles a strategy is shown when candle idx is replayed.
recent_candles(idx, total) == {i \in 1..total : i > idx - Window /\ i <= idx}

\* The fill keeps the order's limit, at which the portfolio will book it.
SimulatedFill(signal, price, commission) ==
    [side |-> signal.direction, quantity |-> signal.quantity, price |-> price,
     limit |-> signal.limit, commission |-> commission]

\* DefaultSimulator.simulate(): slippage moves the price against the taker.
simulate(signal, close, c) ==
    LET slippage == (close \otimes c.slippage_bps) \oslash Rat(10000)
        price == IF signal.direction = "buy" THEN close ++ slippage
                 ELSE close -- slippage
    IN  SimulatedFill(signal, price,
                      ((price \otimes signal.quantity) \otimes c.commission_bps) \oslash Rat(10000))

\* The first signal that passes every engine is filled; a missing engine stops
\* every signal.
Fillable(signals) ==
    {i \in DOMAIN signals :
        /\ signals[i].direction # "hold"
        /\ "risk" \in engines /\ signals[i].approved
        /\ "order" \in engines /\ signals[i].order_ready
        /\ "execution" \in engines /\ signals[i].execution_ready}

-----------------------------------------------------------------------------
(* A run's local state *)

SimulationState == {"created", "running", "completed", "cancelled", "failed"}

Idle == [at |-> "idle", state |-> "created"]

\* A run starts from the results of its context, and from the initial cash.
NewRun(c) ==
    [at |-> "step", state |-> "running", context |-> c, step_no |-> 0,
     fill |-> Absent, shown |-> {}, equity_curve |-> <<InitialCash>>,
     returns |-> <<>>, trades |-> <<>>, position_result |-> c.position_result,
     trade_result |-> c.trade_result, portfolio_result |-> c.portfolio_result,
     previous |-> c.previous, steps |-> <<>>, fills |-> 0,
     total_commission |-> Zero, cancelled |-> FALSE]

Schedule(r) == iterate(runs[r].context.candles, runs[r].context.replay_speed)
Candle(r) == Schedule(r)[runs[r].step_no + 1]
Close(r) == runs[r].context.candles[Candle(r)]

Set(r, local) == runs' = [runs EXCEPT ![r] = local]

\* _fail(): BacktestErrorOccurred is published and nothing is registered.
_fail(r) ==
    /\ Set(r, [runs[r] EXCEPT !.at = "done", !.state = "failed"])
    /\ UNCHANGED <<engines, portfolios, prev_value, _snapshots>>

-----------------------------------------------------------------------------
(* Operations *)

BacktestInit ==
    /\ engines \in Wirings
    /\ PF!PortfolioInit
    /\ runs = [r \in Runs |-> Idle]
    /\ _snapshots = <<>>

\* run(): a replay speed below one is refused before anything is replayed.
run(r) ==
    /\ runs[r].at = "idle"
    /\ \E c \in Backtests :
         IF c.replay_speed < 1
         THEN Set(r, [Idle EXCEPT !.at = "done", !.state = "failed"])
         ELSE Set(r, NewRun(c))
    /\ UNCHANGED <<engines, portfolios, prev_value, _snapshots>>

\* The loop ends with the schedule, or before the step after cancel_after_steps,
\* a set that is empty when there is no limit.
LoopEnds(r) ==
    \/ runs[r].step_no = Len(Schedule(r))
    \/ \E limit \in runs[r].context.cancel_after_steps : runs[r].step_no >= limit

EndLoop(r) ==
    LET this == runs[r]
    IN  /\ this.at = "step"
        /\ LoopEnds(r)
        /\ Set(r, [this EXCEPT !.at = "analyze",
                               !.cancelled = this.step_no < Len(Schedule(r))])
        /\ UNCHANGED <<engines, portfolios, prev_value, _snapshots>>

\* _step(): the strategy answers, or raises.  A pause only publishes two events.
_step(r) ==
    LET this == runs[r]  c == this.context  IN
    /\ this.at = "step"
    /\ ~LoopEnds(r)
    /\ IF ~c.strategy THEN
          /\ Set(r, [this EXCEPT !.at = "settle", !.fill = Absent, !.shown = {}])
          /\ UNCHANGED <<engines, portfolios, prev_value, _snapshots>>
       ELSE
         \/ \E signals \in Decisions :
              LET fillable == Fillable(signals)
                  shown == recent_candles(Candle(r), Len(c.candles))
                  first == signals[Min(fillable)]
              IN  IF fillable = {} THEN
                     /\ Set(r, [this EXCEPT !.at = "settle", !.fill = Absent, !.shown = shown])
                     /\ UNCHANGED <<engines, portfolios, prev_value, _snapshots>>
                  ELSE IF first.quantity \preceq Zero THEN _fail(r)
                  ELSE LET fill == simulate(first, Close(r), c) IN
                     /\ Set(r, [this EXCEPT !.at = "book", !.fill = fill, !.shown = shown,
                                            !.fills = @ + 1,
                                            !.total_commission = @ ++ fill.commission])
                     /\ UNCHANGED <<engines, portfolios, prev_value, _snapshots>>
         \/ _fail(r)

\* Mutant of PortfolioContext: the portfolio is valued at the close.
Mutant_ValuedAtClose(r, fill) ==
    [ready |-> TRUE, symbol |-> Symbol, side |-> fill.side, quantity |-> fill.quantity,
     price |-> IF fill.limit = Absent THEN PF!NoPrice ELSE fill.limit,
     prices |-> [s \in {Symbol} |-> Close(r)]]

\* What _book() asks of the portfolio engine: the order of the execution, which
\* names a price only when it is a limit order, and the fill's price.
PortfolioContext(r, fill) ==
    [ready |-> TRUE, symbol |-> Symbol, side |-> fill.side, quantity |-> fill.quantity,
     price |-> IF fill.limit = Absent THEN PF!NoPrice ELSE fill.limit,
     prices |-> [s \in {Symbol} |-> fill.price]]

\* _book(): a failed update leaves the previous result, but the fill counts.
_book(r) ==
    LET this == runs[r]  pid == this.context.portfolio_id
        c == PortfolioContext(r, this.fill)
    IN  /\ this.at = "book"
        /\ IF "portfolio" \notin engines THEN
              /\ UNCHANGED <<portfolios, prev_value>>
              /\ Set(r, [this EXCEPT !.at = "settle"])
           ELSE
              \/ /\ PF!Update(pid, c)
                 /\ Set(r, [this EXCEPT
                      !.at = "settle",
                      !.portfolio_result = PF!valuation(PF!updated(PF!load(pid), c), c.prices),
                      !.previous = IF prev_value[pid] = PF!NoValue THEN Absent
                                   ELSE prev_value[pid]])
              \/ /\ PF!UpdateFails(pid, c)
                 /\ Set(r, [this EXCEPT !.at = "settle"])
        /\ UNCHANGED <<engines, _snapshots>>

_upsert_trade(trades, trade) ==
    IF trade = Absent THEN trades
    ELSE LET others == FoldLeft(LAMBDA ts, t : IF t.id # trade.id THEN Append(ts, t) ELSE ts,
                                <<>>, trades)
         IN  Append(others, trade)

_equity(value) == IF value = Absent THEN InitialCash ELSE value.total_value

Change(prev, equity) ==
    IF Zero \prec prev THEN (equity -- prev) \oslash prev ELSE Zero

SimulationStep(index, equity, this) ==
    [index |-> index, shown |-> this.shown, equity |-> equity, fill |-> this.fill]

\* _position() and _trade(): what there is after a fill, TRUE for a position result.
\* A missing engine, or one that fails, leaves the result there was; the engines are
\* asked even when the booking failed, with the result before it.
Positions(this) ==
    {this.position_result} \union
        {p \in {TRUE} : "position" \in engines /\ this.portfolio_result # Absent}

TradeResults(this, position) ==
    {this.trade_result} \union {t \in Trades : "trade" \in engines /\ position}

\* The fill is followed up, then the step is recorded.
Settle(r) ==
    LET this == runs[r]
        equity == _equity(this.portfolio_result)
        prev == this.equity_curve[Len(this.equity_curve)]
    IN  /\ this.at = "settle"
        /\ \E p \in IF this.fill = Absent THEN {this.position_result} ELSE Positions(this) :
           \E t \in IF this.fill = Absent THEN {this.trade_result} ELSE TradeResults(this, p) :
             Set(r, [this EXCEPT
                !.at = "step",
                !.step_no = @ + 1,
                !.position_result = p,
                !.trade_result = t,
                !.trades = IF this.fill = Absent THEN @ ELSE _upsert_trade(@, t),
                !.equity_curve = Append(@, equity),
                !.returns = Append(@, Change(prev, equity)),
                !.steps = Append(@, SimulationStep(Candle(r), equity, this))])
        /\ UNCHANGED <<engines, portfolios, prev_value, _snapshots>>

PerformanceContext(this) ==
    [portfolio |-> this.portfolio_result, previous |-> this.previous,
     trades |-> this.trades, trade_result |-> this.trade_result,
     equity_curve |-> this.equity_curve, returns |-> this.returns,
     benchmark_returns |-> <<>>, risk_free_rate |-> Zero, periods_per_year |-> 365]

BacktestSummary(this) ==
    LET final == this.equity_curve[Len(this.equity_curve)] IN
    [total_steps |-> this.step_no, total_fills |-> this.fills,
     total_trades |-> Len(this.trades), total_commission |-> this.total_commission,
     initial_equity |-> InitialCash, final_equity |-> final,
     net_profit |-> final -- InitialCash]

\* DefaultBacktestMetrics._calculate(): the figures taken over from the analysis, and
\* the average over the run's own trades, which is all there is without one.
BacktestMetrics(performance, trades) ==
    LET average_trade == _mean([i \in DOMAIN trades |-> trades[i].realized_pnl])
    IN  IF performance = Absent THEN [average_trade |-> average_trade]
        ELSE [cagr |-> performance.returns.cagr,
              total_return |-> performance.returns.total_return,
              sharpe_ratio |-> performance.risk.sharpe_ratio,
              sortino_ratio |-> performance.risk.sortino_ratio,
              max_drawdown |-> performance.risk.max_drawdown,
              recovery_factor |-> performance.risk.recovery_factor,
              win_rate |-> performance.statistics.win_rate,
              profit_factor |-> performance.statistics.profit_factor,
              expectancy |-> performance.statistics.expectancy,
              average_trade |-> average_trade]

BacktestSnapshot(this, state, performance) ==
    [state |-> state, summary |-> BacktestSummary(this),
     metrics |-> BacktestMetrics(performance, this.trades), performance |-> performance]

register(r, snapshot) ==
    [q \in DOMAIN _snapshots \union {r} |-> IF q = r THEN snapshot ELSE _snapshots[q]]

\* _analyze() and the end of _run(): metrics, snapshot, registration, status.  Without
\* a performance engine the analysis is the one the run was seeded with, if any.
_analyze(r) ==
    LET this == runs[r]
        performance == IF "performance" \in engines THEN _compute(PerformanceContext(this))
                       ELSE this.context.performance_result
        state == IF this.cancelled THEN "cancelled" ELSE "completed"
    IN  /\ this.at = "analyze"
        /\ _snapshots' = register(r, BacktestSnapshot(this, state, performance))
        /\ Set(r, [this EXCEPT !.at = "done", !.state = state])
        /\ UNCHANGED <<engines, portfolios, prev_value>>

unregister(r) ==
    /\ r \in DOMAIN _snapshots
    /\ _snapshots' = Restrict(_snapshots, DOMAIN _snapshots \ {r})
    /\ UNCHANGED <<engines, portfolios, prev_value, runs>>

BacktestNext ==
    \E r \in Runs :
      run(r) \/ EndLoop(r) \/ _step(r) \/ _book(r) \/ Settle(r) \/ _analyze(r) \/ unregister(r)

-----------------------------------------------------------------------------
(* Properties *)

Done == {r \in DOMAIN _snapshots : runs[r].state \in {"completed", "cancelled"}}

BacktestTypeOK ==
    /\ engines \in Wirings
    /\ PF!PortfolioTypeOK
    /\ \A r \in Runs : runs[r].state \in SimulationState
    /\ DOMAIN _snapshots \subseteq {r \in Runs : runs[r].at = "done"}

\* A strategy never sees the future: whatever candle is replayed, at whatever
\* speed, the candles it is shown end with that one (the slice in _step()).
NoLookahead ==
    \A r \in Runs : runs[r].at # "idle" /\ runs[r].state # "failed" =>
      \A i \in DOMAIN runs[r].steps :
        LET s == runs[r].steps[i]
        IN  s.shown # {} => s.index = Max(s.shown) /\ Cardinality(s.shown) <= Window

\* The summary of a registered backtest is that of its history: as many steps,
\* fills and commission as were recorded, every trade once, and a cancelled run
\* has made exactly the steps it was allowed (none, if that is a number below zero),
\* a completed one all of them.
SummaryAddsUp ==
    \A r \in Done :
      LET this == runs[r]  summary == _snapshots[r].summary
          filled == {i \in DOMAIN this.steps : this.steps[i].fill # Absent}
          limits == IF this.cancelled
                    THEN {Max({0, n}) : n \in this.context.cancel_after_steps}
                    ELSE {Len(Schedule(r))}
      IN  /\ summary.total_steps = Len(this.steps) /\ summary.total_steps \in limits
          /\ summary.total_fills = Cardinality(filled)
          /\ summary.total_commission = RatSum([i \in filled |-> this.steps[i].fill.commission])
          /\ summary.total_trades = Cardinality({this.trades[i].id : i \in DOMAIN this.trades})
          /\ Len(this.returns) = Len(this.equity_curve) - 1

\* Cash and quantity after the fills of the first n steps, and what they were
\* last worth, at first what the run was seeded with; a sale of more than is held is
\* refused.
Replay(seed, steps) ==
    LET after[n \in 0..Len(steps)] ==
          IF n = 0 THEN [cash |-> InitialCash, quantity |-> Zero, worth |-> _equity(seed)]
          ELSE LET before == after[n - 1]
                   fill == steps[n].fill
                   refused == fill.side = "sell" /\ before.quantity \prec fill.quantity
                   paid == fill.quantity \otimes (IF fill.limit = Absent THEN fill.price
                                                  ELSE fill.limit)
                   cash == IF fill.side = "buy" THEN before.cash -- paid
                           ELSE before.cash ++ paid
                   quantity == IF fill.side = "buy" THEN before.quantity ++ fill.quantity
                               ELSE before.quantity -- fill.quantity
               IN  IF fill = Absent \/ refused THEN before
                   ELSE [cash |-> cash, quantity |-> quantity,
                         worth |-> cash ++ (quantity \otimes fill.price)]
    IN  after[Len(steps)]

\* Nobody else books on the portfolio of run r.
HasPortfolioToItself(r) ==
    \A q \in Runs \ {r} :
      \/ "context" \notin DOMAIN runs[q]
      \/ runs[q].context.portfolio_id # runs[r].context.portfolio_id

\* A backtest that has its portfolio to itself reports the equity its own fills
\* give: replaying them on the initial cash at the simulated prices ends with the
\* same worth (_book, _equity and the portfolio's accounting).  Until a fill is
\* booked, a run seeded with a portfolio result reports that result's worth, which
\* it did not earn; the first fill it books replaces it.
EquityIsReplayed ==
    \A r \in Done :
      LET this == runs[r] IN
      "portfolio" \in engines /\ HasPortfolioToItself(r) =>
        _snapshots[r].summary.final_equity =
            IF this.steps = <<>> THEN InitialCash
            ELSE Replay(this.context.portfolio_result, this.steps).worth

\* The report of a registered backtest is true: its equity is what its fills give,
\* its summary that of its history, and no step was decided with later candles.
ReportsAreTrue == BacktestTypeOK /\ EquityIsReplayed /\ SummaryAddsUp /\ NoLookahead

\* The expectancy of the trades is what winners and losers contribute, and the
\* average trade of the run: rates and averages are taken over the same trades, by
\* the analysis and by the backtest.  But a seeded trade result is a trade for the
\* analysis alone as long as the run has none of its own (performance/context.py:96).
ExpectancyDecomposes ==
    \A r \in Done : "performance" \in engines =>
      LET s == _snapshots[r].performance.statistics
      IN  /\ s.expectancy = (s.win_rate \otimes s.average_win) ++
                            (s.loss_rate \otimes s.average_loss)
          /\ runs[r].trades # <<>> \/ runs[r].context.trade_result = Absent =>
                _snapshots[r].metrics.average_trade = s.expectancy

\* The metrics of an analysis agree with each other as long as the equity stays
\* positive: the compounded returns are the growth of the equity curve, and the
\* drawdown found from the returns is the one found from the curve.  The trades'
\* statistics decompose.  This is what the performance engine makes of the run; with
\* no such engine a seeded analysis is registered as it is, and need not agree with
\* the run in anything.
MetricsAgree ==
  /\ ExpectancyDecomposes
  /\ \A r \in Done :
      LET curve == runs[r].equity_curve
          metrics == _snapshots[r].performance
      IN  ("performance" \in engines /\ \A i \in DOMAIN curve : Zero \prec curve[i]) =>
             /\ metrics.returns.compound_return = _cumulative(curve)
             /\ metrics.risk.max_drawdown = _max_drawdown_from_returns(runs[r].returns)
=============================================================================
