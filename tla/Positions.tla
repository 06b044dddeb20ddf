----------------------------- MODULE Positions -----------------------------
(***************************************************************************)
(* The position framework (positions/).  A position is identified by its    *)
(* symbol and recomputed from its whole trade history at every fill:        *)
(* history -> calculator -> lifecycle -> tracker -> registry, in one step    *)
(* under the manager's lock.  An update that fails stores nothing.  The      *)
(* updates come from the module Trades, and in PaperTrading from a session. *)
(***************************************************************************)
EXTENDS Rationals

CONSTANTS
    Symbols,          \* traded symbols
    FillQuantities,   \* the quantities, in units, and the prices of the fills
    FillPrices        \* an update may carry

VARIABLES
    positions,    \* InMemoryPositionRegistry._positions
    histories     \* InMemoryPositionRegistry._histories

position_vars == <<positions, histories>>

ASSUME PositionAssumption ==
    FillQuantities \subseteq Nat \ {0} /\ FillPrices \subseteq Int

FillTrades ==
    {[side |-> side, quantity |-> Rat(q), price |-> Rat(p)] :
        side \in {"buy", "sell"}, q \in FillQuantities, p \in FillPrices}

NoPosition == [state |-> "unregistered"]

VALID_TRANSITIONS ==
    [pending          |-> {"open", "cancelled"},
     open             |-> {"open", "partially_closed", "closed"},
     partially_closed |-> {"partially_closed", "open", "closed"},
     closed           |-> {},
     cancelled        |-> {}]

can_transition(source, target) ==
    \/ source = target /\ target \in {"open", "partially_closed"}
    \/ target \in VALID_TRANSITIONS[source]

-----------------------------------------------------------------------------
(* DefaultPositionCalculator.calculate()                                    *)

quantity_of(trades, sides) ==
    RatSum([i \in {i \in DOMAIN trades : trades[i].side \in sides} |-> trades[i].quantity])

notional_of(trades, sides) ==
    RatSum([i \in {i \in DOMAIN trades : trades[i].side \in sides} |->
               trades[i].quantity \otimes trades[i].price])

exit_side(trades) == IF trades[1].side = "buy" THEN "sell" ELSE "buy"

average(notional, quantity) == IF quantity = Zero THEN Zero ELSE notional \oslash quantity

side_of(opening) == IF opening = "buy" THEN "long" ELSE "short"

\* Mutant of realized: the sign does not depend on the direction.
Mutant_RealizedLongOnly(side, exit_qty, average_entry, average_exit) ==
    exit_qty \otimes (average_exit -- average_entry)

\* Realized P&L of the exits against the average of ALL entries, later ones too.
realized(side, exit_qty, average_entry, average_exit) ==
    IF side = "long" THEN exit_qty \otimes (average_exit -- average_entry)
                     ELSE exit_qty \otimes (average_entry -- average_exit)

calculate(trades) ==
    LET opening == trades[1].side
        exiting == exit_side(trades)
        side == side_of(opening)
        entry_qty == quantity_of(trades, {opening})
        exit_qty == quantity_of(trades, {exiting})
        average_entry == average(notional_of(trades, {opening}), entry_qty)
        average_exit == average(notional_of(trades, {exiting}), exit_qty)
    IN  [side |-> side,
         quantity |-> entry_qty -- exit_qty,
         total_bought |-> quantity_of(trades, {"buy"}),
         total_sold |-> quantity_of(trades, {"sell"}),
         average_entry |-> average_entry,
         average_exit |-> average_exit,
         realized_pnl |-> realized(side, exit_qty, average_entry, average_exit)]

\* "closed more than opened" is the calculator's error.
calculator_ok(trades) ==
    quantity_of(trades, {exit_side(trades)}) \preceq quantity_of(trades, {trades[1].side})

\* DefaultPositionLifecycle.derive_state()
derive_state(trades) ==
    IF calculate(trades).quantity \preceq Zero THEN "closed"
    ELSE IF \E i \in DOMAIN trades : trades[i].side = exit_side(trades)
    THEN "partially_closed" ELSE "open"

\* DefaultPositionMetrics.compute() without the holding time.
PositionMetrics(trades) ==
    LET profit == calculate(trades).realized_pnl
        exits == {i \in DOMAIN trades : trades[i].side = exit_side(trades)}
    IN  [trade_count |-> Len(trades),
         win_rate |-> IF exits # {} /\ Zero \prec profit THEN One ELSE Zero,
         average_profit |-> IF Zero \prec profit THEN profit ELSE Zero,
         average_loss |-> IF profit \prec Zero THEN profit ELSE Zero]

-----------------------------------------------------------------------------
(* DefaultPositionManager._compute()                                        *)

source_state(s) == IF positions[s] = NoPosition THEN "pending" ELSE positions[s].state

new_history(s, f) == Append(histories[s], f)

PositionSucceeds(s, f) ==
    /\ source_state(s) \notin {"closed", "cancelled"}
    /\ calculator_ok(new_history(s, f))
    /\ can_transition(source_state(s), derive_state(new_history(s, f)))

\* DefaultPositionTracker.build()
Position(calculation, state) ==
    [side |-> calculation.side, state |-> state, quantity |-> calculation.quantity,
     average_entry |-> calculation.average_entry, average_exit |-> calculation.average_exit,
     realized_pnl |-> calculation.realized_pnl,
     total_bought |-> calculation.total_bought, total_sold |-> calculation.total_sold]

new_position(s, f) ==
    Position(calculate(new_history(s, f)), derive_state(new_history(s, f)))

UpdatePosition(s, f) ==
    /\ PositionSucceeds(s, f)
    /\ positions' = [positions EXCEPT ![s] = new_position(s, f)]
    /\ histories' = [histories EXCEPT ![s] = new_history(s, f)]

UpdatePositionFails(s, f) == ~PositionSucceeds(s, f) /\ UNCHANGED position_vars

-----------------------------------------------------------------------------
PositionInit ==
    /\ positions = [s \in Symbols |-> NoPosition]
    /\ histories = [s \in Symbols |-> <<>>]

-----------------------------------------------------------------------------
Tracked == {s \in Symbols : positions[s] # NoPosition}

\* Every stored amount is a number and the state is one of the enumeration.
PositionTypeOK ==
    \A s \in Tracked :
        LET p == positions[s]
        IN  /\ p.state \in DOMAIN VALID_TRANSITIONS
            /\ p.side \in {"long", "short"}
            /\ \A x \in {p.quantity, p.total_bought, p.total_sold, p.average_entry,
                         p.average_exit, p.realized_pnl} : IsRat(x)

\* The profit of a closed position is the cash its fills brought in: what was sold
\* minus what was bought, for longs and shorts, however the fills were averaged.
ClosedProfitIsCashFlow ==
    \A s \in Tracked :
        positions[s].state = "closed" =>
            positions[s].realized_pnl =
                notional_of(histories[s], {"sell"}) -- notional_of(histories[s], {"buy"})

\* The lifecycle state and the amounts tell the same story: closed exactly when
\* nothing is left, open exactly when nothing was given back, and the quantity is
\* the difference of what was bought and sold, never negative.
StateMatchesQuantity ==
    \A s \in Tracked :
        LET p == positions[s]
            net == p.total_bought -- p.total_sold
            exits == IF p.side = "long" THEN p.total_sold ELSE p.total_bought
        IN  /\ p.quantity = IF p.side = "long" THEN net ELSE Zero -- net
            /\ Zero \preceq p.quantity
            /\ (p.state = "closed") <=> (p.quantity = Zero)
            /\ (p.state = "open") <=> (exits = Zero)
=============================================================================
