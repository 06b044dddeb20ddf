---------------------------- MODULE Performance ----------------------------
(***************************************************************************)
(* The performance framework (src/performance) as operators over exact     *)
(* rationals.  DefaultPerformanceManager._compute runs under a lock and    *)
(* awaits nothing, so an analysis is a function of its context:            *)
(*                                                                         *)
(*   [portfolio, previous, trades, trade_result, equity_curve, returns,    *)
(*    benchmark_returns, risk_free_rate, periods_per_year]                 *)
(*                                                                         *)
(* with <<>> for what is absent.  Two results are irrational and are kept  *)
(* as what they are computed from: [over, root] is over / sqrt(root), and  *)
(* [ratio, years] is ratio ** (1/years) - 1.                               *)
(***************************************************************************)
EXTENDS Rationals, SequencesExt

Absent == <<>>

-----------------------------------------------------------------------------
(* Means, products and extremes of a sequence *)

Total(xs) == RatSum(xs)

_mean(xs) == IF xs = <<>> THEN Zero ELSE Total(xs) \oslash Rat(Len(xs))

Each(xs, f(_)) == [i \in DOMAIN xs |-> f(xs[i])]

Greatest(xs) == CHOOSE x \in Range(xs) : \A y \in Range(xs) : y \preceq x
Least(xs) == CHOOSE x \in Range(xs) : \A y \in Range(xs) : x \preceq y

\* A loop over the values that appends those it keeps.
Gains(xs) == FoldLeft(LAMBDA ys, x : IF Zero \prec x THEN Append(ys, x) ELSE ys, <<>>, xs)
Losses(xs) == FoldLeft(LAMBDA ys, x : IF x \prec Zero THEN Append(ys, x) ELSE ys, <<>>, xs)

\* The sum of squared distances from the mean over n - 1.
Variance(xs) ==
    IF Len(xs) < 2 THEN Zero
    ELSE LET m == _mean(xs)
             square(x) == (x -- m) \otimes (x -- m)
         IN  Total(Each(xs, square)) \oslash Rat(Len(xs) - 1)

\* over / sqrt(root), 0 when there is no spread to divide by.
Quotient(over_, root) ==
    IF Zero \prec root THEN [over |-> over_, root |-> root]
    ELSE [over |-> Zero, root |-> One]

-----------------------------------------------------------------------------
(* returns.py *)

_portfolio_value(c) ==
    IF c.portfolio = Absent
    THEN [cost_basis |-> Zero, unrealized |-> Zero, realized |-> Zero, total |-> Zero]
    ELSE [cost_basis |-> c.portfolio.cost_basis,
          unrealized |-> (c.portfolio.total_value -- c.portfolio.cash_value)
                            -- c.portfolio.cost_basis,
          realized |-> c.portfolio.realized_pnl,
          total |-> c.portfolio.total_value]

\* PortfolioPerformance: the return on the invested cost basis, and the change
\* from the value the portfolio had before.
\* What the portfolio framework has measured: relative to the cost, and to the
\* total value before the update.
measure(v, before) ==
    [roi |-> IF Zero \prec v.cost_basis
             THEN (v.unrealized ++ v.realized) \oslash v.cost_basis ELSE Zero,
     daily |-> IF Zero \prec before
               THEN (v.total -- before) \oslash before ELSE Zero]

_portfolio_performance(c) ==
    measure(_portfolio_value(c), IF c.previous = Absent THEN Zero ELSE c.previous.total_value)

\* Mutant of _compound: returns are added up instead of compounded.
Mutant_AddReturns(returns) == Total(returns)

_compound(returns) ==
    LET growth[i \in 0..Len(returns)] ==
          IF i = 0 THEN One ELSE growth[i - 1] \otimes (One ++ returns[i])
    IN  IF returns = <<>> THEN Zero ELSE growth[Len(returns)] -- One

_trailing(returns, window) ==
    _compound(SubSeq(returns, IF Len(returns) > window THEN Len(returns) - window + 1
                              ELSE 1, Len(returns)))

_cagr(curve, periods_per_year) ==
    IF \/ Len(curve) < 2 \/ periods_per_year <= 0
       \/ curve[1] \preceq Zero \/ curve[Len(curve)] \preceq Zero
    THEN [ratio |-> One, years |-> One]
    ELSE [ratio |-> curve[Len(curve)] \oslash curve[1],
          years |-> Ratio(Len(curve) - 1, periods_per_year)]

ReturnsMetrics(c) ==
    LET v == _portfolio_value(c)
        p == _portfolio_performance(c)
        part(x) == IF Zero \prec v.cost_basis THEN x \oslash v.cost_basis ELSE Zero
    IN  [daily_return |-> IF c.returns = <<>> THEN p.daily ELSE c.returns[Len(c.returns)],
         weekly_return |-> _trailing(c.returns, 7),
         total_return |-> p.roi,
         compound_return |-> _compound(c.returns),
         cagr |-> _cagr(c.equity_curve, c.periods_per_year),
         absolute_return |-> v.unrealized ++ v.realized,
         realized_return |-> part(v.realized),
         unrealized_return |-> part(v.unrealized)]

-----------------------------------------------------------------------------
(* risk.py *)

\* The square of the deviation of the returns below mar.
_downside_deviation(xs, mar) ==
    LET short(x) == IF x \prec mar THEN (x -- mar) \otimes (x -- mar) ELSE Zero
    IN  IF xs = <<>> THEN Zero ELSE Total(Each(xs, short)) \oslash Rat(Len(xs))

Drawdown(peak, v) ==
    IF Zero \prec peak THEN (peak -- v) \oslash peak ELSE Zero

\* The fall from the highest value so far, at every point of the curve.
_drawdowns(curve) ==
    LET peak[i \in DOMAIN curve] ==
          IF i = 1 THEN curve[1]
          ELSE LET before == peak[i - 1]
               IN  IF before \prec curve[i] THEN curve[i] ELSE before
    IN  [i \in DOMAIN curve |-> Drawdown(peak[i], curve[i])]

_cumulative(curve) ==
    IF Len(curve) < 2 \/ curve[1] \preceq Zero THEN Zero
    ELSE (curve[Len(curve)] \oslash curve[1]) -- One

_upside_capture(returns, benchmark) ==
    LET up == {i \in DOMAIN benchmark : Zero \prec benchmark[i]}
        port_up == IF up = {} THEN Zero
                   ELSE RatSum([i \in up |-> returns[i]]) \oslash Rat(Cardinality(up))
        bench_mean == _mean(Gains(benchmark))
    IN  IF returns = <<>> \/ Len(returns) # Len(benchmark) \/ bench_mean = Zero
        THEN Zero ELSE port_up \oslash bench_mean

_risk_reward(returns) ==
    LET avg_loss == _mean(Losses(returns))
    IN  IF avg_loss = Zero THEN Zero
        ELSE _mean(Gains(returns)) \oslash (Zero -- avg_loss)

RiskMetrics(c) ==
    LET excess(r) == r -- c.risk_free_rate
        mean_excess == _mean(Each(c.returns, excess))
        dds == _drawdowns(c.equity_curve)
        max_dd == IF dds = <<>> THEN Zero ELSE Greatest(dds)
    IN  [sharpe_ratio |-> Quotient(mean_excess, Variance(c.returns)),
         sortino_ratio |-> Quotient(mean_excess,
                              _downside_deviation(c.returns, c.risk_free_rate)),
         max_drawdown |-> max_dd,
         average_drawdown |-> _mean(dds),
         upside_capture |-> _upside_capture(c.returns, c.benchmark_returns),
         risk_reward_ratio |-> _risk_reward(c.returns),
         recovery_factor |-> IF Zero \prec max_dd
                             THEN _cumulative(c.equity_curve) \oslash max_dd ELSE Zero]

-----------------------------------------------------------------------------
(* statistics.py *)

completed_trades(c) ==
    IF c.trades # <<>> THEN c.trades
    ELSE IF c.trade_result # Absent THEN <<c.trade_result>> ELSE <<>>

_TERMINAL == {"closed", "cancelled"}

_best_worst(returns, wins, losses) ==
    IF returns # <<>> THEN <<Greatest(returns), Least(returns)>>
    ELSE <<IF wins # <<>> THEN Greatest(wins) ELSE Zero,
           IF losses # <<>> THEN Least(losses) ELSE Zero>>

Rate(n, trades) == IF trades = <<>> THEN Zero ELSE Ratio(n, Len(trades))

StatisticsMetrics(c) ==
    LET trades == completed_trades(c)
        pnls == [i \in DOMAIN trades |-> trades[i].realized_pnl]
        wins == Gains(pnls)
        losses == Losses(pnls)
    IN  [total_trades |-> Len(trades),
         winning_trades |-> Len(wins),
         losing_trades |-> Len(losses),
         open_trades |-> Cardinality({i \in DOMAIN trades : trades[i].state \notin _TERMINAL}),
         closed_trades |-> Cardinality({i \in DOMAIN trades : trades[i].state = "closed"}),
         win_rate |-> Rate(Len(wins), trades),
         loss_rate |-> Rate(Len(losses), trades),
         average_win |-> _mean(wins),
         average_loss |-> _mean(losses),
         profit_factor |-> IF losses # <<>>
                           THEN Total(wins) \oslash (Zero -- Total(losses)) ELSE Zero,
         expectancy |-> _mean(pnls),
         days |-> IF trades = <<>> THEN <<Zero, Zero>>
                  ELSE _best_worst(c.returns, wins, losses)]

-----------------------------------------------------------------------------
(* benchmarking.py *)

_paired(a, b) == Len(a) >= 2 /\ Len(a) = Len(b)

_diff(a, b) == IF _paired(a, b) THEN [i \in DOMAIN a |-> a[i] -- b[i]] ELSE <<>>

_tracking_error(a, b) == Variance(_diff(a, b))

_beta(port, bench) ==
    LET mp == _mean(port)
        mb == _mean(bench)
        products == [i \in DOMAIN port |-> (port[i] -- mp) \otimes (bench[i] -- mb)]
    IN  IF ~_paired(port, bench) \/ Variance(bench) = Zero THEN Zero
        ELSE (Total(products) \oslash Rat(Len(port) - 1)) \oslash Variance(bench)

_alpha(port, bench, rf, beta) ==
    IF ~_paired(port, bench) THEN Zero
    ELSE LET over_rf(x) == x -- rf
         IN  _mean(Each(port, over_rf)) -- (beta \otimes _mean(Each(bench, over_rf)))

\* The worst fall of one unit invested at the start, found from the returns.
_max_drawdown_from_returns(returns) ==
    LET walk[i \in 0..Len(returns)] ==
          IF i = 0 THEN [equity |-> One, peak |-> One, worst |-> Zero]
          ELSE LET before == walk[i - 1]
                   equity == before.equity \otimes (One ++ returns[i])
                   peak == IF before.peak \prec equity THEN equity ELSE before.peak
                   dd == Drawdown(peak, equity)
               IN  [equity |-> equity, peak |-> peak,
                    worst |-> IF before.worst \prec dd THEN dd ELSE before.worst]
    IN  walk[Len(returns)].worst

BenchmarkMetrics(c) ==
    LET portfolio_return == IF c.returns # <<>> THEN _compound(c.returns)
                            ELSE _portfolio_performance(c).roi
        beta == _beta(c.returns, c.benchmark_returns)
    IN  [benchmark_return |-> _compound(c.benchmark_returns),
         relative_return |-> portfolio_return -- _compound(c.benchmark_returns),
         alpha |-> _alpha(c.returns, c.benchmark_returns, c.risk_free_rate, beta),
         beta |-> beta,
         information_ratio |->
            Quotient(_mean(_diff(c.returns, c.benchmark_returns)),
                     _tracking_error(c.returns, c.benchmark_returns)),
         benchmark_drawdown |-> _max_drawdown_from_returns(c.benchmark_returns)]

-----------------------------------------------------------------------------
(* manager.py *)

_build_summary(c) ==
    LET v == _portfolio_value(c)
        trades == completed_trades(c)
    IN  [total_value |-> v.total,
         cost_basis |-> v.cost_basis,
         realized_pnl |-> v.realized,
         unrealized_pnl |-> v.unrealized,
         gross_profit |-> Total(Gains([i \in DOMAIN trades |-> trades[i].realized_pnl]))]

_compute(c) ==
    [returns |-> ReturnsMetrics(c), risk |-> RiskMetrics(c),
     statistics |-> StatisticsMetrics(c), benchmark |-> BenchmarkMetrics(c),
     summary |-> _build_summary(c)]

=============================================================================
