------------------------------- MODULE Trades -------------------------------
(***************************************************************************)
(* The trade framework (trades/), fed by the position framework.  A trade   *)
(* has the id of its position and learns of a fill only by the difference   *)
(* between the position's totals and its own: tracker.derive_fill ->        *)
(* history -> matcher -> lifecycle -> tracker.build -> registry, in one      *)
(* step under the manager's lock.  An update that fails stores nothing.    *)
(*                                                                         *)
(* TradeSpec hands every position update to the trade manager before the    *)
(* next one, as the session managers do.                                   *)
(***************************************************************************)
EXTENDS Positions

CONSTANT MaxTrades   \* bound: length of a position's history

ASSUME TradeAssumption == MaxTrades \in Nat

VARIABLES
    trades,       \* InMemoryTradeRegistry._trades
    fills,        \* InMemoryTradeRegistry._histories
    undelivered   \* symbols whose last position update has yet to be handed on

trade_vars == <<trades, fills>>
vars == <<position_vars, trade_vars, undelivered>>

NoTrade == [state |-> "unregistered"]

TRADE_TRANSITIONS ==
    [pending          |-> {"open", "cancelled"},
     open             |-> {"open", "partially_filled", "filled", "closed", "cancelled"},
     partially_filled |-> {"partially_filled", "filled", "closed"},
     filled           |-> {"filled", "closed"},
     closed           |-> {},
     cancelled        |-> {}]

trade_can_transition(source, target) ==
    \/ source = target /\ target \in {"open", "partially_filled", "filled"}
    \/ target \in TRADE_TRANSITIONS[source]

-----------------------------------------------------------------------------
(* DefaultTradeTracker, DefaultTradeMatcher and DefaultTradeLifecycle.      *)

\* What the trade already tracked of position p.
tracked(trade) ==
    IF trade = NoTrade THEN [bought |-> Zero, sold |-> Zero, realized |-> Zero]
    ELSE [bought |-> trade.entry_quantity, sold |-> trade.exit_quantity,
          realized |-> trade.realized_pnl]

has_delta(trade, p) ==
    \/ tracked(trade).bought \prec p.total_bought
    \/ tracked(trade).sold \prec p.total_sold

TradeFill(side, quantity, price, realized_pnl) ==
    [side |-> side, quantity |-> quantity, price |-> price, realized_pnl |-> realized_pnl]

\* Mutant of derive_fill: the fill takes the running total for its quantity.
Mutant_FillIsRunningTotal(trade, p) ==
    LET sold == p.total_sold -- tracked(trade).sold
    IN  IF sold = Zero
        THEN TradeFill("buy", p.total_bought, p.average_entry,
                       p.realized_pnl -- tracked(trade).realized)
        ELSE TradeFill("sell", p.total_sold, p.average_exit,
                       p.realized_pnl -- tracked(trade).realized)

\* The larger of the two deltas is the fill, a buy if they are equal.
derive_fill(trade, p) ==
    LET delta_bought == p.total_bought -- tracked(trade).bought
        delta_sold == p.total_sold -- tracked(trade).sold
        delta_realized == p.realized_pnl -- tracked(trade).realized
        is_buy == Zero \prec delta_bought /\ delta_sold \preceq delta_bought
    IN  IF is_buy
        THEN TradeFill("buy", delta_bought, p.average_entry, delta_realized)
        ELSE TradeFill("sell", delta_sold, p.average_exit, delta_realized)

\* match(): everything bought was sold again.
match_completed(p) == Zero \prec p.total_bought /\ p.total_bought \preceq p.total_sold

\* Mutant of derive_trade_state: a completed match is FILLED before it is CLOSED.
Mutant_FilledBeforeClosed(p) ==
    IF p.total_bought \preceq Zero THEN "pending"
    ELSE IF match_completed(p) THEN "filled"
    ELSE IF p.state \in {"closed", "cancelled"} THEN "closed"
    ELSE IF Zero \prec p.total_sold THEN "partially_filled"
    ELSE "open"

\* derive_state(): a SELL-first (short) position has no entry until
\* it is bought back, so its trade would be PENDING again.
derive_trade_state(p) ==
    IF p.total_bought \preceq Zero THEN "pending"
    ELSE IF p.state \in {"closed", "cancelled"} THEN "closed"
    ELSE IF match_completed(p) THEN "filled"
    ELSE IF Zero \prec p.total_sold THEN "partially_filled"
    ELSE "open"

build(trade, p) ==
    [state |-> derive_trade_state(p), side |-> p.side,
     entry_quantity |-> p.total_bought, exit_quantity |-> p.total_sold,
     average_entry |-> p.average_entry, average_exit |-> p.average_exit,
     realized_pnl |-> p.realized_pnl,
     fill_count |-> (IF trade = NoTrade THEN 0 ELSE trade.fill_count) + 1]

\* The analytics the manager answers with: compute() of trades/analytics.py without
\* the durations.
TradeAnalytics(trade, history) ==
    [gross_profit |-> trade.realized_pnl,
     won |-> Zero \prec trade.exit_quantity /\ Zero \prec trade.realized_pnl,
     fill_count |-> Len(history),
     entry_quantity |-> trade.entry_quantity, exit_quantity |-> trade.exit_quantity]

-----------------------------------------------------------------------------
(* DefaultTradeManager._compute(), for the Position p of symbol s.          *)

trade_source(s) == IF trades[s] = NoTrade THEN "pending" ELSE trades[s].state

TradeSucceeds(s, p) ==
    /\ trade_source(s) \notin {"closed", "cancelled"}
    /\ has_delta(trades[s], p)
    /\ trade_can_transition(trade_source(s), derive_trade_state(p))
    /\ Zero \preceq p.quantity

UpdateTrade(s, p) ==
    /\ TradeSucceeds(s, p)
    /\ trades' = [trades EXCEPT ![s] = build(trades[s], p)]
    /\ fills' = [fills EXCEPT ![s] = Append(@, derive_fill(trades[s], p))]

UpdateTradeFails(s, p) == ~TradeSucceeds(s, p) /\ UNCHANGED trade_vars

-----------------------------------------------------------------------------
TradeInit ==
    /\ PositionInit
    /\ trades = [s \in Symbols |-> NoTrade]
    /\ fills = [s \in Symbols |-> <<>>]
    /\ undelivered = {}

FillArrives(s, f) ==
    /\ s \notin undelivered
    /\ Len(histories[s]) < MaxTrades
    /\ UpdatePosition(s, f)
    /\ undelivered' = undelivered \union {s}
    /\ UNCHANGED trade_vars

\* The session keeps the previous position result, and hands nothing new on.
FillRefused(s, f) ==
    /\ s \notin undelivered
    /\ UpdatePositionFails(s, f)
    /\ UNCHANGED <<trade_vars, undelivered>>

Deliver(s) ==
    /\ s \in undelivered
    /\ UpdateTrade(s, positions[s]) \/ UpdateTradeFails(s, positions[s])
    /\ undelivered' = undelivered \ {s}
    /\ UNCHANGED position_vars

TradeNext ==
    \E s \in Symbols :
        \/ Deliver(s)
        \/ \E f \in FillTrades : FillArrives(s, f) \/ FillRefused(s, f)

TradeSpec == TradeInit /\ [][TradeNext]_vars

-----------------------------------------------------------------------------
TradesOpened == {s \in Symbols : trades[s] # NoTrade}

\* Every stored amount is a number and the state is one of the enumeration.
TradeTypeOK ==
    \A s \in TradesOpened :
        /\ trades[s].state \in DOMAIN TRADE_TRANSITIONS
        /\ trades[s].side \in {"long", "short"}
        /\ trades[s].fill_count \in Nat
        /\ \A x \in {trades[s].entry_quantity, trades[s].exit_quantity,
                     trades[s].realized_pnl} : IsRat(x)
        /\ \A i \in DOMAIN fills[s] : IsRat(fills[s][i].quantity)

\* The derived fills are the trade: no fill is lost, repeated or attributed to the
\* wrong side on the way through the position's running totals, and the profits
\* of the fills add up to the trade's.
FillsAddUpToTrade ==
    \A s \in TradesOpened :
        LET of(side) == {i \in DOMAIN fills[s] : fills[s][i].side = side}
            quantity(side) == RatSum([i \in of(side) |-> fills[s][i].quantity])
        IN  /\ quantity("buy") = trades[s].entry_quantity
            /\ quantity("sell") = trades[s].exit_quantity
            /\ RatSum([i \in DOMAIN fills[s] |-> fills[s][i].realized_pnl])
                  = trades[s].realized_pnl
            /\ Len(fills[s]) = trades[s].fill_count

\* A position's state matches its amounts and, once a long position's update has
\* been handed on, its trade is in the matching state, with the same quantities,
\* and both frameworks report the same number of fills, profit and outcome: the
\* trade framework never refuses a step the position framework took.
TradeFollowsPosition ==
    /\ PositionTypeOK
    /\ TradeTypeOK
    /\ StateMatchesQuantity
    /\ \A s \in Tracked \ undelivered :
          positions[s].side = "long" =>
             /\ s \in TradesOpened
             /\ trades[s].exit_quantity = positions[s].total_sold
             /\ trades[s].entry_quantity = positions[s].total_bought
             /\ LET analytics == TradeAnalytics(trades[s], fills[s])
                    metrics == PositionMetrics(histories[s])
                IN  /\ analytics.fill_count = metrics.trade_count
                    /\ analytics.won <=> metrics.win_rate = One
                    /\ analytics.gross_profit =
                           metrics.average_profit ++ metrics.average_loss
             /\ trades[s].state =
                   CASE positions[s].state = "open" -> "open"
                     [] positions[s].state = "partially_closed" -> "partially_filled"
                     [] positions[s].state = "closed" -> "closed"

=============================================================================
