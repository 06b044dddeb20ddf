----------------------------- MODULE Portfolio -----------------------------
(***************************************************************************)
(* The portfolio framework (portfolio/): the manager's atomic update        *)
(* (accounting -> holdings -> cash -> valuation -> registry) and close(),    *)
(* over the in-memory registry.  DefaultPortfolioManager._compute runs      *)
(* under a threading lock and awaits nothing, so an update is one step; the *)
(* events published after it carry no state.  An update that fails in any   *)
(* stage returns FAILED and stores nothing.                                *)
(***************************************************************************)
EXTENDS Rationals

CONSTANTS
    PortfolioIds,   \* portfolio_id values
    Assets,         \* traded symbols
    InitialCash,    \* PortfolioContext.initial_cash
    Quantities,     \* the quantities and the prices, in units, of the executions
    Prices,         \* update() is called with
    MaxLedger       \* bound: length of a portfolio's ledger

VARIABLES
    portfolios,     \* InMemoryPortfolioRegistry._portfolios
    prev_value      \* DefaultPortfolioManager._prev_value

portfolio_vars == <<portfolios, prev_value>>

NoPortfolio == [state |-> "unregistered"]
NoPrice == <<>>

ASSUME PortfolioAssumption ==
    /\ IsRat(InitialCash)
    /\ Quantities \subseteq Nat /\ Prices \subseteq Nat
    /\ MaxLedger \in Nat

\* A price map knows the prices of all symbols, of some or of none.
PriceMaps == {[s \in known |-> Rat(p)] : known \in SUBSET Assets, p \in Prices}

\* The PortfolioContexts update() is called with: the order of an execution (price
\* NoPrice for a market order), whether it is ready, and the price map.
Contexts ==
    [ready : BOOLEAN, symbol : Assets, side : {"buy", "sell"},
     quantity : {Rat(q) : q \in Quantities},
     price : {NoPrice} \union {Rat(p) : p \in Prices}, prices : PriceMaps]

-----------------------------------------------------------------------------
(* Accounting, holdings, cash and valuation.                                *)

execution_ok(c) == c.ready /\ (c.price # NoPrice \/ c.symbol \in DOMAIN c.prices)

LedgerEntry(symbol, side, quantity, price) ==
    [symbol |-> symbol, side |-> side, quantity |-> quantity, price |-> price]

\* execution_fields() and DefaultPortfolioAccounting.entry().
entry(c) ==
    LedgerEntry(c.symbol, c.side, c.quantity,
                IF c.price # NoPrice THEN c.price ELSE c.prices[c.symbol])

cost_basis(position) == position.quantity \otimes position.average_cost

\* When DefaultHoldingsManager.apply() does not raise.
holdings_ok(positions, e) ==
    /\ Zero \prec e.quantity
    /\ e.side = "sell" =>
          /\ e.symbol \in DOMAIN positions
          /\ e.quantity \preceq positions[e.symbol].quantity

\* Mutant of bought: the average ignores the quantities.
Mutant_UnweightedAverage(positions, e) ==
    IF e.symbol \notin DOMAIN positions
    THEN [quantity |-> e.quantity, average_cost |-> e.price]
    ELSE [quantity |-> positions[e.symbol].quantity ++ e.quantity,
          average_cost |-> (positions[e.symbol].average_cost ++ e.price) \oslash Rat(2)]

\* The position after a buy: the cost averaged over the quantities.
bought(positions, e) ==
    IF e.symbol \notin DOMAIN positions
    THEN [quantity |-> e.quantity, average_cost |-> e.price]
    ELSE LET old == positions[e.symbol]
             new_qty == old.quantity ++ e.quantity
         IN  [quantity |-> new_qty,
              average_cost |-> (cost_basis(old) ++ (e.quantity \otimes e.price))
                                  \oslash new_qty]

\* Mutant of holdings_apply: a sale that leaves nothing keeps the position.
Mutant_SoldOutKept(positions, e) ==
    IF e.side = "buy"
    THEN [s \in DOMAIN positions \union {e.symbol} |->
             IF s = e.symbol THEN bought(positions, e) ELSE positions[s]]
    ELSE [positions EXCEPT ![e.symbol].quantity = @ -- e.quantity]

\* DefaultHoldingsManager.apply() and the rebuilt tuple of positions.
holdings_apply(positions, e) ==
    IF e.side = "buy"
    THEN [s \in DOMAIN positions \union {e.symbol} |->
             IF s = e.symbol THEN bought(positions, e) ELSE positions[s]]
    ELSE LET remaining == positions[e.symbol].quantity -- e.quantity
         IN  IF remaining = Zero
             THEN Restrict(positions, DOMAIN positions \ {e.symbol})
             ELSE [positions EXCEPT ![e.symbol].quantity = remaining]

_realized_delta(positions, e) ==
    IF e.side = "sell" /\ e.symbol \in DOMAIN positions
    THEN e.quantity \otimes (e.price -- positions[e.symbol].average_cost)
    ELSE Zero

\* DefaultCashManager.apply(): nothing stops cash from going below zero.
cash_apply(cash, e) ==
    LET notional == e.quantity \otimes e.price
    IN  IF e.side = "buy" THEN cash -- notional ELSE cash ++ notional

total_cost(positions) == RatSum([s \in DOMAIN positions |-> cost_basis(positions[s])])

\* DefaultPortfolioValuation.value() needs a price for every held symbol.
valuation_ok(p, prices) == DOMAIN p.positions \subseteq DOMAIN prices

PortfolioValue(cash_value, cost, realized_pnl, total_value) ==
    [cash_value |-> cash_value, cost_basis |-> cost, realized_pnl |-> realized_pnl,
     total_value |-> total_value]

valuation(p, prices) ==
    LET market == [s \in DOMAIN p.positions |-> p.positions[s].quantity \otimes prices[s]]
        holdings == RatSum(market)
    IN  PortfolioValue(p.cash, total_cost(p.positions), p.realized_pnl,
                       p.cash ++ holdings)

-----------------------------------------------------------------------------
(* DefaultPortfolioManager._compute()                                       *)

NewPortfolio ==
    [state |-> "empty", positions |-> <<>>, cash |-> InitialCash, ledger |-> <<>>,
     realized_pnl |-> Zero]

\* The registered portfolio, or a new EMPTY one.
load(pid) ==
    IF portfolios[pid] # NoPortfolio THEN portfolios[pid]
    ELSE NewPortfolio

updated(p, c) ==
    LET e == entry(c)
    IN  [state |-> "active",
         positions |-> holdings_apply(p.positions, e),
         cash |-> cash_apply(p.cash, e),
         ledger |-> Append(p.ledger, e),
         realized_pnl |-> p.realized_pnl ++ _realized_delta(p.positions, e)]

\* No stage raises.
Succeeds(pid, c) ==
    /\ load(pid).state # "closed"
    /\ execution_ok(c)
    /\ holdings_ok(load(pid).positions, entry(c))
    /\ valuation_ok(updated(load(pid), c), c.prices)

\* Mutant of Update: the portfolio is registered before it is valued.
Mutant_RegisterBeforeValuation(pid, c) ==
    LET p == load(pid)
    IN  /\ p.state # "closed" /\ execution_ok(c) /\ holdings_ok(p.positions, entry(c))
        /\ portfolios' = [portfolios EXCEPT ![pid] = updated(p, c)]
        /\ prev_value' = IF valuation_ok(updated(p, c), c.prices)
                         THEN [prev_value EXCEPT ![pid] = valuation(updated(p, c), c.prices)]
                         ELSE prev_value

Update(pid, c) ==
    /\ Succeeds(pid, c)
    /\ portfolios' = [portfolios EXCEPT ![pid] = updated(load(pid), c)]
    /\ prev_value' = [prev_value EXCEPT ![pid] =
                         valuation(updated(load(pid), c), c.prices)]

\* A FAILED result: nothing is registered, not even a portfolio just created.
UpdateFails(pid, c) == ~Succeeds(pid, c) /\ UNCHANGED portfolio_vars

\* close(): the CLOSED copy is built without realized_pnl, which defaults to 0.
\* An unknown portfolio raises PortfolioNotFoundError.
Close(pid) ==
    /\ portfolios[pid] # NoPortfolio
    /\ portfolios' = [portfolios EXCEPT ![pid] =
                         [@ EXCEPT !.state = "closed", !.realized_pnl = Zero]]
    /\ UNCHANGED prev_value

-----------------------------------------------------------------------------
NoValue == [total_value |-> NoPrice]

PortfolioInit ==
    /\ portfolios = [pid \in PortfolioIds |-> NoPortfolio]
    /\ prev_value = [pid \in PortfolioIds |-> NoValue]

PortfolioNext ==
    \E pid \in PortfolioIds :
        \/ \E c \in Contexts :
              /\ Len(load(pid).ledger) < MaxLedger
              /\ Update(pid, c) \/ UpdateFails(pid, c)
        \/ Close(pid)

PortfolioSpec == PortfolioInit /\ [][PortfolioNext]_portfolio_vars

-----------------------------------------------------------------------------
Registered == {pid \in PortfolioIds : portfolios[pid] # NoPortfolio}
Open == {pid \in Registered : portfolios[pid].state # "closed"}

EntryOK(e) ==
    /\ e.symbol \in Assets /\ e.side \in {"buy", "sell"}
    /\ IsRat(e.quantity) /\ IsRat(e.price)

\* Every stored amount is a number and every record has its fields.
PortfolioTypeOK ==
    \A pid \in Registered :
        LET p == portfolios[pid]
        IN  /\ p.state \in {"active", "closed"}
            /\ DOMAIN p.positions \subseteq Assets
            /\ \A s \in DOMAIN p.positions :
                  IsRat(p.positions[s].quantity) /\ IsRat(p.positions[s].average_cost)
            /\ IsRat(p.cash) /\ IsRat(p.realized_pnl)
            /\ \A i \in DOMAIN p.ledger : EntryOK(p.ledger[i])

book_value(p) == (p.cash ++ total_cost(p.positions)) -- p.realized_pnl

\* Money is neither made nor lost by bookkeeping: cash, plus what the holdings
\* cost, minus the profit realized so far, is the initial cash, whatever is
\* bought and sold in whatever order.
BookValueConserved == \A pid \in Open : book_value(portfolios[pid]) = InitialCash

\* The same for closed portfolios.  valuation.py says "Realized P&L is tracked at
\* the portfolio level so it survives a position being fully closed".
BookValueSurvivesClose ==
    \A pid \in Registered : book_value(portfolios[pid]) = InitialCash

\* The quantity of a symbol that the ledger's entries add up to.
net_quantity(ledger, s) ==
    RatSum([i \in DOMAIN ledger |->
               IF ledger[i].symbol # s THEN Zero
               ELSE IF ledger[i].side = "buy" THEN ledger[i].quantity
               ELSE Zero -- ledger[i].quantity])

\* The holdings are the ledger's: exactly the symbols of which more was bought
\* than sold are held, each in the difference, and nothing is sold short.
HoldingsMatchLedger ==
    /\ PortfolioTypeOK
    /\ \A pid \in Registered : LET p == portfolios[pid] IN
          \A s \in Assets :
             IF s \in DOMAIN p.positions
             THEN /\ p.positions[s].quantity = net_quantity(p.ledger, s)
                  /\ Zero \prec p.positions[s].quantity
             ELSE net_quantity(p.ledger, s) = Zero

\* The value the next update's daily return is measured against is the value of
\* the portfolio as it is registered: an update stores both or neither.
PreviousValueIsCurrent ==
    \A pid \in Open :
        /\ prev_value[pid] # NoValue
        /\ prev_value[pid].cash_value = portfolios[pid].cash
        /\ prev_value[pid].cost_basis = total_cost(portfolios[pid].positions)
        /\ prev_value[pid].realized_pnl = portfolios[pid].realized_pnl
=============================================================================
