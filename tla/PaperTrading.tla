---------------------------- MODULE PaperTrading ----------------------------
(***************************************************************************)
(* The paper-trading session manager (paper_trading/manager.py) driving the *)
(* portfolio, position and trade frameworks, all of them wired in.          *)
(*                                                                         *)
(* process() is a coroutine that many tasks may run; its read-modify-write  *)
(* of the session spans awaits and is serialized by one asyncio.Lock.  An   *)
(* action below runs from one await to the next, and pc[t] says where the   *)
(* task t is suspended:                                                    *)
(*    "idle"        no process() call is in progress                       *)
(*    "queued"      at "async with self._lock"                             *)
(*    "step"        in _step(): strategy, risk, order, execution           *)
(*    "booked"      in _book(): the portfolio engine publishes             *)
(*    "positioned"  in _position(): the position engine publishes          *)
(*    "analyzing"   in _trade() or _analyze(), publishing                  *)
(*    "publishing"  the lock is released, process() publishes              *)
(* What strategy, risk, order and execution make of an update is a choice:  *)
(* nothing to fill, a market order for one unit (the order factory's        *)
(* quantity when the signal carries none), or an exception.                *)
(***************************************************************************)
EXTENDS Rationals

CONSTANTS
    Tasks,          \* the asyncio tasks that call process()
    Sessions,       \* session ids
    Symbols,        \* traded symbols
    SymbolOf,       \* the symbol of each session's updates
    Updates,        \* the PaperTradingContexts process() is called with
    InitialCash,    \* SessionParameters.initial_cash
    Slippage,       \* SessionParameters.slippage_bps / 10000
    Commission,     \* SessionParameters.commission_bps / 10000
    MaxUpdates,     \* bound: number of process() calls
    Cancellable     \* may a task be cancelled while it awaits?

VARIABLES
    sessions,       \* InMemoryPaperTradingRegistry._sessions
    portfolios,     \* the portfolio framework, one portfolio per session
    prev_value,
    positions,      \* the position framework, one position per symbol
    histories,
    trades,         \* the trade framework, one trade per symbol
    fills,
    queue,          \* asyncio.Lock: its holder, then its waiters in FIFO order
    pc,             \* the await at which each task is suspended
    update,         \* the PaperTradingContext of each task's call
    draft,          \* the session that call is building
    fill,           \* its PaperFill, or NoFill
    submitted,      \* auxiliary: process() calls made
    completed,      \* auxiliary: calls answered PROCESSED or COMPLETED
    executed        \* auxiliary: PaperTradeExecuted events published

book == <<portfolios, prev_value>>
tracking == <<positions, histories, trades, fills>>
locals == <<update, draft, fill>>
counters == <<submitted, completed, executed>>

paper_vars == <<sessions, book, tracking, queue, pc, locals, counters>>

Portfolios == INSTANCE Portfolio WITH
    PortfolioIds <- Sessions, Assets <- Symbols, Quantities <- {}, Prices <- {}, MaxLedger <- MaxUpdates
Trading == INSTANCE Trades WITH
    FillQuantities <- {}, FillPrices <- {}, MaxTrades <- MaxUpdates, undelivered <- {}

NoSession == [state |-> "unregistered"]
NoResult == [status |-> "none"]
NoFill == [side |-> "none"]
NoUpdate == [session |-> "none"]
NoLimit == -1

TERMINAL == {"completed", "cancelled", "failed"}

ASSUME PaperAssumption ==
    /\ SymbolOf \in [Sessions -> Symbols]
    /\ \A x \in {InitialCash, Slippage, Commission} : IsRat(x) /\ Zero \preceq x
    /\ Slippage \prec One
    /\ MaxUpdates \in Nat /\ Cancellable \in BOOLEAN
    /\ \A u \in Updates :
          /\ u.session \in Sessions
          /\ IsRat(u.close) /\ Zero \prec u.close
          /\ u.final \in BOOLEAN
          /\ u.cancel_after \in Nat \union {NoLimit}

Goto(t, label) == pc' = [pc EXCEPT ![t] = label]

\* The holder of the lock leaves "async with": the lock goes to the first waiter.
Release == queue' = Tail(queue)

-----------------------------------------------------------------------------
(* The helpers of the manager and DefaultPaperBroker.fill().                *)

_new_session ==
    [state |-> "running", portfolio_result |-> NoResult, position_result |-> NoResult,
     trade_result |-> NoResult, equity_curve |-> <<InitialCash>>, returns |-> <<>>,
     trades |-> <<>>, history |-> <<>>, total_commission |-> Zero,
     update_count |-> 0, fill_count |-> 0]

load_session(s) == IF sessions[s] = NoSession THEN _new_session ELSE sessions[s]

PaperFill(symbol, side, quantity, price, commission) ==
    [symbol |-> symbol, side |-> side, quantity |-> quantity, price |-> price,
     commission |-> commission]

\* Slippage moves the price against the taker.
broker_fill(u, side) ==
    LET slip == u.close \otimes Slippage
        price == IF side = "buy" THEN u.close ++ slip ELSE u.close -- slip
    IN  PaperFill(SymbolOf[u.session], side, One, price, price \otimes Commission)

\* The PortfolioContext of _book(): a market order, priced at the fill.
portfolio_context(f) ==
    [ready |-> TRUE, symbol |-> f.symbol, side |-> f.side, quantity |-> f.quantity,
     price |-> Portfolios!NoPrice, prices |-> [x \in {f.symbol} |-> f.price]]

_equity(session) ==
    IF session.portfolio_result = NoResult THEN InitialCash
    ELSE session.portfolio_result.total_value

\* The trades of the list but the one with this id.
other_trades(list, id) ==
    LET updated[n \in 0 .. Len(list)] ==
            IF n = 0 THEN <<>>
            ELSE IF list[n].id = id THEN updated[n - 1] ELSE Append(updated[n - 1], list[n])
    IN  updated[Len(list)]

\* A trade replaces the one of its id, which is its symbol, or joins the list.
_upsert_trade(list, result) ==
    IF result = NoResult THEN list ELSE Append(other_trades(list, result.id), result)

-----------------------------------------------------------------------------
(* process()                                                                *)

Submit(t, u) ==
    /\ pc[t] = "idle"
    /\ submitted < MaxUpdates
    /\ submitted' = submitted + 1
    /\ update' = [update EXCEPT ![t] = u]
    /\ queue' = Append(queue, t)
    /\ Goto(t, "queued")
    /\ UNCHANGED <<sessions, book, tracking, draft, fill, completed, executed>>

\* The session is loaded under the lock: a finished one is refused, one that has
\* had its updates is cancelled, else the pipeline starts.
Refuse(t, session) ==
    /\ session.state \in TERMINAL
    /\ Release
    /\ Goto(t, "publishing")
    /\ UNCHANGED <<sessions, draft>>

CancelSession(t, session) ==
    /\ session.state \notin TERMINAL
    /\ update[t].cancel_after # NoLimit
    /\ session.update_count >= update[t].cancel_after
    /\ sessions' = [sessions EXCEPT ![update[t].session] =
                       [session EXCEPT !.state = "cancelled"]]
    /\ Release
    /\ Goto(t, "publishing")
    /\ UNCHANGED draft

StartPipeline(t, session) ==
    /\ session.state \notin TERMINAL
    /\ update[t].cancel_after = NoLimit \/ session.update_count < update[t].cancel_after
    /\ draft' = [draft EXCEPT ![t] = session]
    /\ Goto(t, "step")
    /\ UNCHANGED <<sessions, queue>>

\* Mutant of Begin: the lock is not waited for.
Mutant_BeginWithoutLock(t) ==
    /\ pc[t] = "queued"
    /\ LET session == load_session(update[t].session)
       IN  Refuse(t, session) \/ CancelSession(t, session) \/ StartPipeline(t, session)
    /\ UNCHANGED <<book, tracking, update, fill, counters>>

\* Mutant of Begin: the state of the session is not checked.
Mutant_TerminalUnchecked(t) ==
    /\ pc[t] = "queued"
    /\ queue[1] = t
    /\ StartPipeline(t, [load_session(update[t].session) EXCEPT !.state = "running"])
    /\ UNCHANGED <<book, tracking, update, fill, counters>>

Begin(t) ==
    /\ pc[t] = "queued"
    /\ queue[1] = t
    /\ LET session == load_session(update[t].session)
       IN  Refuse(t, session) \/ CancelSession(t, session) \/ StartPipeline(t, session)
    /\ UNCHANGED <<book, tracking, update, fill, counters>>

\* The point of the equity curve this update adds and its return, computed before
\* _analyze().
AddEquity(session) ==
    LET prev == session.equity_curve[Len(session.equity_curve)]
        equity == _equity(session)
        change == IF Zero \prec prev THEN (equity -- prev) \oslash prev ELSE Zero
    IN  [session EXCEPT !.equity_curve = Append(@, equity),
                        !.returns = Append(@, change)]

\* _step() returns None: no trade, and the last equity is repeated.
NothingToFill(t) ==
    /\ pc[t] = "step"
    /\ draft' = [draft EXCEPT ![t] = AddEquity(@)]
    /\ Goto(t, "analyzing")
    /\ UNCHANGED <<sessions, book, tracking, queue, update, fill, counters>>

\* Mutant of StepRaised: the lock is not released on the error path.
Mutant_RaiseKeepsLock(t) ==
    /\ pc[t] = "step"
    /\ Goto(t, "publishing")
    /\ UNCHANGED <<sessions, book, tracking, queue, locals, counters>>

\* The strategy, feed or broker raises: process() answers FAILED.
StepRaised(t) ==
    /\ pc[t] = "step"
    /\ Release
    /\ Goto(t, "publishing")
    /\ UNCHANGED <<sessions, book, tracking, locals, counters>>

\* _step() returns an execution: the fill is counted, then booked; a booking that
\* fails leaves the previous portfolio result.
Book(t, side) ==
    /\ pc[t] = "step"
    /\ LET s == update[t].session
           f == broker_fill(update[t], side)
           c == portfolio_context(f)
           counted == [draft[t] EXCEPT !.fill_count = @ + 1,
                                       !.total_commission = @ ++ f.commission]
       IN  /\ fill' = [fill EXCEPT ![t] = f]
           /\ \/ /\ Portfolios!Update(s, c)
                 /\ draft' = [draft EXCEPT ![t] =
                      [counted EXCEPT !.portfolio_result =
                          [portfolio |-> portfolios'[s],
                           total_value |-> prev_value'[s].total_value]]]
              \/ /\ Portfolios!UpdateFails(s, c)
                 /\ draft' = [draft EXCEPT ![t] = counted]
    /\ Goto(t, "booked")
    /\ UNCHANGED <<sessions, tracking, queue, update, counters>>

\* _position(): the LAST entry of the portfolio result's ledger goes to the
\* position framework, also when that result is the previous one.
Position(t) ==
    /\ pc[t] = "booked"
    /\ \/ /\ draft[t].portfolio_result = NoResult
          /\ UNCHANGED <<positions, histories, draft>>
       \/ /\ draft[t].portfolio_result # NoResult
          /\ LET ledger == draft[t].portfolio_result.portfolio.ledger
                 e == ledger[Len(ledger)]
             IN  \/ /\ Trading!UpdatePosition(e.symbol, e)
                    /\ draft' = [draft EXCEPT ![t].position_result =
                                    [position |-> positions'[e.symbol]]]
                 \/ Trading!UpdatePositionFails(e.symbol, e) /\ UNCHANGED draft
    /\ Goto(t, "positioned")
    /\ UNCHANGED <<sessions, book, trades, fills, queue, update, fill, counters>>

\* _trade() with the position result, which may be the previous one; then the
\* trade and the fill join the session.
Trade(t) ==
    /\ pc[t] = "positioned"
    /\ LET s == SymbolOf[update[t].session]
           done(session) == AddEquity([session EXCEPT
                               !.trades = _upsert_trade(@, session.trade_result),
                               !.history = Append(@, fill[t])])
       IN  \/ /\ draft[t].position_result = NoResult
              /\ draft' = [draft EXCEPT ![t] = done(@)]
              /\ UNCHANGED <<trades, fills>>
           \/ /\ draft[t].position_result # NoResult
              /\ LET p == draft[t].position_result.position
                 IN  \/ /\ Trading!UpdateTrade(s, p)
                        /\ draft' = [draft EXCEPT ![t] =
                              done([@ EXCEPT !.trade_result =
                                    [id |-> s, trade |-> trades'[s]]])]
                     \/ /\ Trading!UpdateTradeFails(s, p)
                        /\ draft' = [draft EXCEPT ![t] = done(@)]
    /\ Goto(t, "analyzing")
    /\ UNCHANGED <<sessions, book, positions, histories, queue, update, fill, counters>>

\* The registered successor of the session the call loaded.
new_session(t) ==
    [draft[t] EXCEPT !.state = IF update[t].final THEN "completed" ELSE "running",
                     !.update_count = @ + 1]

\* The summary of the snapshot a call answers with.
PaperTradingSummary(session) ==
    LET final == session.equity_curve[Len(session.equity_curve)]
    IN  [total_updates |-> session.update_count, total_fills |-> session.fill_count,
         total_trades |-> Len(session.trades), total_commission |-> session.total_commission,
         initial_equity |-> InitialCash, final_equity |-> final, net_profit |-> final -- InitialCash]

\* Mutant of Register: replace() forgets portfolio_result.
Mutant_RegisterWithoutPortfolio(t) ==
    /\ pc[t] = "analyzing"
    /\ LET s == update[t].session
       IN  /\ sessions' = [sessions EXCEPT ![s] = [new_session(t) EXCEPT
                 !.portfolio_result = load_session(s).portfolio_result]]
           /\ completed' = [completed EXCEPT ![s] = @ + 1]
    /\ Release
    /\ Goto(t, "publishing")
    /\ UNCHANGED <<book, tracking, locals, submitted, executed>>

Register(t) ==
    /\ pc[t] = "analyzing"
    /\ LET s == update[t].session
       IN  /\ sessions' = [sessions EXCEPT ![s] = new_session(t)]
           /\ completed' = [completed EXCEPT ![s] = @ + 1]
    /\ Release
    /\ Goto(t, "publishing")
    /\ UNCHANGED <<book, tracking, locals, submitted, executed>>

\* The call is over, and with it its locals.
Return(t) ==
    /\ Goto(t, "idle")
    /\ update' = [update EXCEPT ![t] = NoUpdate]
    /\ draft' = [draft EXCEPT ![t] = NoSession]
    /\ fill' = [fill EXCEPT ![t] = NoFill]
    /\ UNCHANGED <<sessions, book, tracking, submitted, completed>>

\* PaperTradeExecuted follows every fill of a registered update.
Published(t) ==
    /\ pc[t] = "publishing"
    /\ executed' = IF fill[t] = NoFill THEN executed
                   ELSE [executed EXCEPT ![update[t].session] = @ + 1]
    /\ Return(t)
    /\ UNCHANGED queue

\* asyncio cancels the task: "async with" releases the lock, or the task gives up
\* its place among the waiters; no except clause sees the CancelledError, and what
\* the engines have stored stays.
Cancel(t) ==
    /\ Cancellable
    /\ pc[t] # "idle"
    /\ \/ pc[t] = "publishing" /\ UNCHANGED queue
       \/ \E i \in DOMAIN queue :
             /\ queue[i] = t
             /\ queue' = SubSeq(queue, 1, i - 1) \o SubSeq(queue, i + 1, Len(queue))
    /\ Return(t)
    /\ UNCHANGED executed

-----------------------------------------------------------------------------
PaperInit ==
    /\ sessions = [s \in Sessions |-> NoSession]
    /\ Portfolios!PortfolioInit
    /\ Trading!TradeInit
    /\ queue = <<>>
    /\ pc = [t \in Tasks |-> "idle"]
    /\ update = [t \in Tasks |-> NoUpdate]
    /\ draft = [t \in Tasks |-> NoSession]
    /\ fill = [t \in Tasks |-> NoFill]
    /\ submitted = 0
    /\ completed = [s \in Sessions |-> 0]
    /\ executed = [s \in Sessions |-> 0]

\* A step with which a task gets the lock or finishes what it awaits.
Progress(t) ==
    \/ Begin(t) \/ NothingToFill(t) \/ StepRaised(t)
    \/ \E side \in {"buy", "sell"} : Book(t, side)
    \/ Position(t) \/ Trade(t) \/ Register(t) \/ Published(t)

PaperNext ==
    \E t \in Tasks :
        \/ \E u \in Updates : Submit(t, u)
        \/ Progress(t)
        \/ Cancel(t)

PaperSpec == PaperInit /\ [][PaperNext]_paper_vars

\* The event loop resumes every task whose await is over, the lock is handed on in
\* FIFO order, and strategies and publishing return or raise in the end.
PaperFairSpec == PaperSpec /\ \A t \in Tasks : WF_paper_vars(Progress(t))

-----------------------------------------------------------------------------
Running == {s \in Sessions : sessions[s] # NoSession}
Working(t) == pc[t] \in {"step", "booked", "positioned", "analyzing"}
AtRest == \A t \in Tasks : ~Working(t)

held(s) ==
    IF portfolios[s] = Portfolios!NoPortfolio
       \/ SymbolOf[s] \notin DOMAIN portfolios[s].positions
    THEN Zero ELSE portfolios[s].positions[SymbolOf[s]].quantity

\* The lock serializes the read-modify-write of process(), also when tasks are
\* cancelled while they hold it or wait for it.
OneWorker == \A t, u \in Tasks : Working(t) /\ Working(u) => t = u

\* The count a session carries is the number of calls answered PROCESSED or
\* COMPLETED, the equity curve and the returns have a point for each of them, and
\* its summary counts the fills of its history.
UpdatesCounted ==
    \A s \in Running :
        LET summary == PaperTradingSummary(sessions[s])
        IN  /\ summary.total_updates = completed[s]
            /\ Len(sessions[s].equity_curve) = completed[s] + 1
            /\ Len(sessions[s].returns) = completed[s]
            /\ summary.total_fills = Len(sessions[s].history)

\* The calls whose PaperTradeExecuted for session s is still to be published.
announcing(s) ==
    {t \in Tasks : pc[t] = "publishing" /\ update[t].session = s /\ fill[t] # NoFill}

\* PaperTradeExecuted was sent for each fill, or will be by the calls that are still
\* publishing.
FillsAnnounced ==
    ~Cancellable => \A s \in Running :
        sessions[s].fill_count = executed[s] + Cardinality(announcing(s))

\* Concurrent updates of a session are not lost: it counts every one of them, with
\* its fill, and every fill is announced once.
NoLostUpdate == UpdatesCounted /\ FillsAnnounced

\* The commission a session has paid is that of the fills in its history.
CommissionsAddUp ==
    \A s \in Running :
        sessions[s].total_commission =
            RatSum([i \in DOMAIN sessions[s].history |-> sessions[s].history[i].commission])

\* Between updates, a session's position, until it is closed, is what the session's
\* own portfolio holds.
PositionIsSessionHolding ==
    \A s \in Running :
        sessions[s].position_result # NoResult =>
            LET p == sessions[s].position_result.position
            IN  p.state # "closed" => p.quantity = held(s)

\* The session x has the portfolio of session s as the portfolio framework has it.
Mirrors(x, s) ==
    x.portfolio_result =
        IF portfolios[s] = Portfolios!NoPortfolio THEN NoResult
        ELSE [portfolio |-> portfolios[s], total_value |-> prev_value[s].total_value]

\* The session and the portfolio framework agree on the book and on what it is worth.
BookMirrored ==
    \A s \in Sessions :
        /\ s \in Running => Mirrors(sessions[s], s)
        /\ portfolios[s] # Portfolios!NoPortfolio => s \in Running

\* Between updates the session and the portfolio framework agree on the book and on
\* what it is worth, although each keeps its own copy, the session's position is
\* what its portfolio holds, it lists the trade of its symbol and has paid the
\* commissions of its fills; manager.py: "processes exactly one update atomically".
SessionMirrorsBook ==
    /\ CommissionsAddUp
    /\ AtRest =>
        /\ BookMirrored
        /\ PositionIsSessionHolding
        /\ \A s \in Sessions : portfolios[s] # Portfolios!NoPortfolio =>
              sessions[s].trades = <<[id |-> SymbolOf[s], trade |-> trades[SymbolOf[s]]]>>

\* The account a session shows to the outside.  While an update of the session is in
\* progress its ledger is the one the session was loaded with; between updates it is
\* the one of the portfolio framework.
busy(s) == \E t \in Tasks : Working(t) /\ update[t].session = s

ledger_of(p) == IF p = Portfolios!NoPortfolio THEN <<>> ELSE p.ledger

loaded_ledger(s) ==
    LET result == load_session(s).portfolio_result
    IN  IF result = NoResult THEN <<>> ELSE result.portfolio.ledger

account(s) ==
    [state |-> sessions[s].state, equity |-> load_session(s).equity_curve,
     fills |-> load_session(s).history,
     ledger |-> IF busy(s) THEN loaded_ledger(s) ELSE ledger_of(portfolios[s])]

Account == INSTANCE PaperAccount WITH
    accounts <- [s \in Sessions |-> account(s)]

\* The seven awaits of process(), the lock and the three frameworks behind it
\* implement accounts that each update changes in one step, one session at a time,
\* and that nothing changes once their session has ended, even if updates were
\* waiting for the lock then; manager.py: "processes exactly one update atomically".
UpdatesAreAtomic == Account!AccountSpec

\* Every process() call returns: whatever fails, the lock is handed on.
CallsReturn == \A t \in Tasks : (pc[t] # "idle") ~> (pc[t] = "idle")

-----------------------------------------------------------------------------
(* The inputs of the runs: updates at two prices, the last of a session or    *)
(* not, some with a limit of two updates per session; a fill costs a quarter  *)
(* of the price in slippage and a tenth in commission.                        *)

\* Two sessions, each with a symbol of its own.
TwoSessions == {"a", "b"}
OneSession == {"a"}
TwoSymbols == {"btc", "eth"}
OwnSymbol == [s \in Sessions |-> IF s = "a" THEN "btc" ELSE "eth"]

MixedUpdates ==
    {[session |-> s, close |-> Rat(p), final |-> FALSE, cancel_after |-> NoLimit] :
        s \in Sessions, p \in {1, 2}}
    \union
    {[session |-> s, close |-> Rat(2), final |-> TRUE, cancel_after |-> NoLimit] :
        s \in Sessions}
    \union
    {[session |-> s, close |-> Rat(2), final |-> FALSE, cancel_after |-> 2] :
        s \in Sessions}

\* Updates of which some end the session.
EndingUpdates ==
    {[session |-> s, close |-> Rat(2), final |-> f, cancel_after |-> NoLimit] :
        s \in Sessions, f \in BOOLEAN}

SmallCash == Rat(3)
QuarterSlippage == Ratio(1, 4)
TenthCommission == Ratio(1, 10)

\* Tasks run the same code, so they may be permuted (safety runs only).
TaskSymmetry == Permutations(Tasks)
=============================================================================
