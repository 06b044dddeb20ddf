# A TLA+ model of the trading platform

This directory holds a formal model of the platform in this repository: TLA+
modules for its components, TLC configurations that check them on small instances,
and proofs, checked by TLAPS, of what matters most in them for instances of any size:
the engine's safety, the accounting of portfolios, positions and trades, what
reaches the exchange, and what concurrent calls may not do to each other.
`PROJECT.json` lists every component, run, mutant, finding,
hazard and theorem, and maps every definition to the lines it models.

    tlc -workers 2 -config TradingEngineSafety.cfg TradingEngine   # one run
    tlc -workers 2 -config OrderFlow.cfg OrderFlow               # another
    tlapm TradingEngineProofs.tla                                  # the engine's proofs

## 1. The system

The platform is a set of Python frameworks in one asyncio process, wired by a
dependency container and joined by an in-process event bus. A trade passes through

    market data -> strategies -> risk -> order management -> execution
       -> exchange adapters (Binance) -> portfolio -> positions -> trades -> performance

and is driven either by the trading engine or by a session manager (paper trading,
backtesting) that calls the same frameworks in order.

| Component | State it keeps | Operations | Interacts with |
|---|---|---|---|
| trading engine (`trading/`) | lifecycle state, its mirror in the runtime state, dict of services | start, stop, pause, resume, (un)register service | awaits every service's start/stop; publishes lifecycle events |
| strategies, risk, order management, execution | registries of strategies, rules, orders, executions | register, enable, start, stop; execute, evaluate, process | each is handed the result of the one before |
| exchange adapters, Binance adapter | adapter registry, one connection, REST retries, web socket | process, submit, reconnect, subscribe | the exchange over HTTP and web socket |
| portfolio | portfolio per id (holdings, cash, ledger, realized P&L), last value per id | update, close | called by the session managers with an execution |
| positions, trades | position and fill history per symbol; trade and derived fills per position | update | last ledger entry of a portfolio result; totals of a position result |
| paper trading | session per id, one asyncio lock | process one update | the whole chain, then portfolio, positions, trades, performance |
| backtesting | runs in progress, finished snapshots | run over candles | the same, without a lock |
| market data | connection flag, snapshot per key | start, stop, payloads from the provider | event bus |
| agents | agents by role, decisions, one lock | decide, register | opinions of the agents, consensus, veto |
| performance | nothing between calls | analyze | pure statistics of a context |
| event bus, container | handler lists; registrations, singletons, keys being resolved | publish, (un)subscribe, clear; register, resolve, reset | everything |
| configuration | process environment, cached settings | load files, build, validate, reload | bootstrap |
| bootstrap (`app/`) | nothing between runs | plan, register, preflight | container, the 25 registrars |
| cycle frameworks (monitoring, dashboard, memory, notification, optimization, reporting, scheduler, storage, workers, learning, workflows, model gateway) | one record per id | one locked collect-plan-dispatch cycle, cancel, remove | event bus |
| models, database, logging, audit harness | – | – | support code |

What is hard here:

* Coroutines of one event loop interleave at every `await`. The engine protects its
  start and stop by the lifecycle state alone; paper trading, agents and the cycle
  frameworks by a lock; portfolio, positions and trades by computing without
  awaiting; backtests, the exchange connection and the web socket by nothing.
* Cancellation (a caller's timeout) ends a call at any `await`, and `CancelledError`
  passes every `except Exception`. It is modelled in the engine, the order flow, the
  market stream, the paper sessions and the agents; section 6 lists where it is not.
* A step of several fails: the third of five services, valuation after booking, one
  handler of an event, one agent, one provider in a chain of resolutions.
* Registries change under a walk: services, strategies, rules, adapters, handlers,
  subscriptions.
* An order whose answer is lost is sent again.
* Money is carried through running averages and differences of totals, where an
  error shows only several fills later.
* An order is translated three times on its way to the exchange.
* Settings depend on the order of files, variables and caches.

## 2. The modules

An action is the code between two awaits; `pc[t]` (or the variable a comment names)
is the await at which a task is suspended.

**Trading and accounting**

| Module | Models | State and actions |
|---|---|---|
| `TradingEngine` | `trading/` | `services`, `slot`, `filled` and `room` are the dict of services as CPython lays it out: entries in places of a table, holes where entries were deleted, and a new table without them when an insertion finds it full. `cur`, `position`, `expected` and `size` are the iterator of `start_services()` over it, which raises when the dict has another size or more entries than expected; `rebuilt`, an auxiliary variable, says that the table was compacted under it. `todo` is the reversed snapshot of `stop_services()`. `up` is the state of the services, which belongs to them. Starting and stopping a service succeeds, raises, or is cancelled with or without effect. `adopted`, an auxiliary variable, is the set of services registered ever since the last successful start. |
| `Rationals` | `decimal.Decimal` | Exact fractions in lowest terms, and the sum of a function's values. `Decimal` rounds quotients at 28 digits; the accounting laws are about the exact quotient. |
| `Portfolio` | `portfolio/` | `_compute()` holds a lock and awaits nothing, so an update is one action: `Update` when every stage succeeds, `UpdateFails` otherwise; `Close`. |
| `Positions` | `positions/` | As above. A position is recomputed from its whole history at every fill; metrics included. |
| `Trades` | `trades/`, fed by `Positions` | `FillArrives` (or `FillRefused`) and `Deliver` hand each position update on before the next, as the session managers do; analytics included. |
| `PaperTrading` | `paper_trading/`, composed with instances of `Portfolio` and `Trades` | `queue` is the lock: its holder and its waiters, first in first out. `draft[t]` is the session being built. The outcome of strategy, risk, order and execution is a choice: nothing, a one-unit market buy or sell, or an exception. |
| `PaperAccount` | what a session promises | Abstract specification: an account (state, equity curve, fills, ledger) that one update changes in one step. `PaperTrading` implements it. |

**From a signal to the exchange**

| Module | Models | State and actions |
|---|---|---|
| `Strategies` | `strategies/` | Registry and manager; start, stop and execute walk a snapshot, a strategy may raise. |
| `Risk` | `risk/` | Rules of a snapshot, one await each: pass, object or raise; the decision. |
| `Orders` | `order_management/` | Factory, validator, router, one action per stage. |
| `Execution` | `execution/` | The stages, every state change through the lifecycle. |
| `Exchange` | `exchange_adapters/` | Authentication, the connection all submissions share, validation, routing, submission, closing. |
| `Binance` | `adapters/binance/` (REST) | Connection, translation, the retry loop. The exchange (external) may place an order and its answer may be lost, garbled or an HTTP error; `placed` and `lost` count them. A cancelled `send` (`CutOff`) may have placed it too. |
| `OrderFlow` | the six composed | A task takes signals through the chain and hands each engine the result of the one before, whatever it is. `job[t]` is what a coroutine carries. `CutShort` ends a call at any await, by cancellation or by an exception no `except` clause names; `left_open`, an auxiliary variable, says that such a call held the connection, until the next close. |

**Supporting frameworks**

| Module | Models | State and actions |
|---|---|---|
| `Cycle` | what the twelve have in common | Records in a registry, a synchronous cycle under a lock, events published after it, one await each. |
| `Monitoring`, `Dashboard`, `Memory`, `Notification`, `Optimization`, `Reporting`, `Scheduler`, `Storage`, `Workers`, `Learning` | the package of that name | The context, the stages (collect, rank, cut off, dispatch), the state table, the metrics, and what a record must satisfy. |
| `Workflows` | `workflows/` | The same, with validation of definitions and the topological planner: in-degree counters, lists of dependents in which a repeated edge counts twice, and priorities that may be NaN. |
| `ModelGateway` | `model_gateway/` | The same, with eligibility, ordering and tie-breaking of providers. |
| `Support` | the twelve composed | A behaviour exercises one of them (they share no state): calls, publications, cancellations, removals. |

**Process and services**

| Module | Models | State and actions |
|---|---|---|
| `Container` | `core/container.py`, `core/registry.py` | A provider is the keys it resolves, if registered or in any case. One stack of resolutions; a step is a lookup, a provider's return, or the unwinding of one frame. Programs register and resolve, and go on after an exception. |
| `Configuration` | `config/` | Environment variables by prefix and field; dotenv layering, every section and cross-check, cached accessors, the redacted view. |
| `Bootstrap` | `app/` on `Container` and `Configuration`, every `register_*` function | The composition root: what each function registers and each provider resolves. Planning (a heap over any Decimal priorities, of which a NaN cannot be compared), validation of keys, registration, preflight; `main()`. |
| `EventBus` | `events/` | Publication to a snapshot of handlers; subscriptions change meanwhile. |
| `BinanceStream` | `adapters/binance/websocket.py` | Connect, subscribe, reconnect with its resend loop; a send may raise with or without a connection, and a reconnect be cancelled at each await. The exchange's list of streams is external. `missed`, an auxiliary variable, holds the streams whose SUBSCRIBE was cut off that way. |
| `MarketData` | `market_data/` | Payloads in flight, normalization, merging, publication. |
| `Agents` | `agents/` | `decide()` under its lock, agent by agent; consensus, veto, history, metrics. |
| `Performance` | `performance/` | Operators over exact fractions, no state. |
| `Backtesting` | `backtesting/` on `Portfolio` and `Performance` | Runs candle by candle, interleaved, over shared engines, with or without the results a context is seeded with. |
| `Services` | the event bus, the market stream, market data, the agents and (extended) the backtests, composed | A behaviour exercises one of them. |

Proofs are in modules of their own: `TradingEngineProofs`, `PaperTradingProofs`,
`AccountingProofs`, `OrderFlowProofs`, `ServicesProofs`, `SupportProofs`,
`BootstrapProofs` (of `Container`, `Configuration` and `Bootstrap`), and `DataFacts`,
the lemmas about sequences, recursion, rationals and sums that they share. The inputs
of a run that a configuration file cannot express (sets of records) are definitions
at the end of the module the run checks. Definitions keep the names of the
source; an action's comment says where it departs from the obvious. An operator
named `Mutant_...` is a plausible bug in the definition that follows it; no
specification uses it. It shows that the property it is paired with in
`PROJECT.json` can fail.

Left out throughout: log messages, timestamps, generated identifiers, event payloads
that no property reads, and wording.

## 3. The runs

Runs that pass:

| Run | Instance | Properties |
|---|---|---|
| `TradingEngineSafety` | 2 tasks, 3 services, (un)registration at any time, cancellation, fair | `OneDriver`, `ServicesUpWhileRunning`, `ServicesDownWhenStopped`, `ReverseShutdown`, `Settles` (unless a call was cancelled while it drove the engine) |
| `PortfolioAccounting` | 1 portfolio, 2 symbols, 4 executions of 1 or 2 units at 3 prices | `BookValueConserved`, `HoldingsMatchLedger`, `PreviousValueIsCurrent` |
| `TradesLifecycle` | 5 fills of 1 or 2 units at 2 prices | `ClosedProfitIsCashFlow`, `FillsAddUpToTrade`, `TradeFollowsPosition` |
| `PaperTradingSafety` | 2 tasks, 2 sessions on different symbols, 4 updates, no cancellation | `NoLostUpdate`, `SessionMirrorsBook`, `UpdatesAreAtomic` (refinement of `PaperAccount`) |
| `PaperTradingLiveness` | 2 tasks, 1 session, 3 updates, cancellation, fair | `CallsReturn` |
| `OrderFlow` | 2 tasks, 2 strategies, 2 rules, 1 adapter and the default one, 6 orders, 3 configurations, 1 change of a registry, cancellation | `TypeOK`, `NothingUnapprovedIsPlaced`, `PlacedAsOrdered`, `OneOrderUnlessAnswerLost`, `ConnectionClosedWhenIdle`, `OrderTransitionsAreValid` |
| `SupportCycles` | each of 12 frameworks; 2 tasks, 2 records, 3 calls | `RecordFollowsHistory`, `MostUrgentHandled`, `WorkflowsRefusedForCause`, `EventsFollowUpdates`, `RecordsOnlyAdvance` |
| `Bootstrap` | 52 manifests, 5 of them with NaN priorities; 4 of 10 container programs; 4 environments with 2 assignments | `CircularOnlyIfCyclic`, `CachedIsCurrent`, `PlansAreRight`, `ComponentsStandAlone`, `SharedAndComplete`, `ConfigurationIsGuarded` |
| `Services` | 2 handlers and 2 subscriptions; 2 stream clients, 2 reconnects, cancellation; 3 payloads; 2 deciders, 3 requests; 2 backtests of up to 3 candles; fair | `DeliveredOnce`, `SubscriptionsSurvive`, `EventsRebuildCache`, `VetoHolds`, `DecisionsAreKept`, `ReportsAreTrue`, `MetricsAgree`, `CallsReturn` |

Runs that show a disagreement between the code and what the repository says of it
(quotations under `findings` in `PROJECT.json`):

| Run | What TLC shows |
|---|---|
| `PortfolioClose` | `close()` resets the realized profit to 0. |
| `OrderFlowStop` | A stop order reaches the exchange without its stop price. |
| `ConfigurationAppEnv` | With `APP_ENV=production` alone, `Settings` is built for development: debug on, placeholder secret, no production check. The field `environment` has the prefix `APP_` and reads `APP_ENVIRONMENT`; the docstring and the messages of `config/settings.py` say `APP_ENV`, which only chooses the files. |

**The refinement.** `PaperAccount` knows neither tasks nor locks. The mapping shows a
session's registered state, curve and fills; its ledger is the portfolio
framework's between updates and the one the session was loaded with during one.
`UpdatesAreAtomic` then says that storing the portfolio, the position, the trade and
the session at different awaits looks like one step, that only one session changes
in it, and that an ended session never changes again.

**Bounds.** Tasks run the same code and interact pairwise, through the state or the
lock, so two of them show every interaction of two calls; three services are the fewest
with one before and one after the service that fails, and registering them again fills
the dict's table and compacts it (a table of 8 places takes 5 entries). Four executions
with two quantities and three prices reach every branch of the accounting: a first buy,
an averaged buy, a partial and a full sell, a refused sell, a missing price; five fills
add an entry after an exit and the closing exit after that. Four paper updates are the
fewest for a round trip in one session beside an update in the other, or for a limit of
two updates to end a session while another waits. The orders are one of each type and
the malformed ones; no retries, one and none without credentials are the classes of
configurations the retry loop tells apart. A cycle's inputs have ties, more candidates
than the limit, a NaN and nothing, and the workflows' repeated edges, circles and
unknown names; three calls are two for one record and one beside them. The manifests are
the default one, every single component, the trading spine with each component missing,
each way to be malformed, and a NaN beside another priority, kept from it by the
dependencies, or signaling; the programs contain a cycle, a provider that raises, and
one that is registered again. Two reconnects may overlap; three payloads can overtake
each other on one key; the backtests have a window shorter than the run, a cancellation,
a skipped candle, a shared portfolio, a seeded context and engines left out. The bounds
are the constants `Max...` and the sizes of the sets; where a bound or an ended session
stops everything, deadlock is not checked. Tasks and record identifiers are permuted
(SYMMETRY) in safety runs only.

**Fairness.** The liveness properties assume weak fairness of each task's own steps
(`Progress`, `Delivery`, `DecideStep`): the event loop resumes a task whose await is
over, the coroutines of services, strategies, handlers and agents return or raise,
and publishing ends. Nothing is assumed about who calls, or that anything succeeds.
`asyncio.Lock` wakes its waiters first in, first out, which the models' queues say.

## 4. The proofs

Each theorem holds for every value of the constants that the named assumptions of its
module allow: any number of tasks, services, sessions, symbols, strategies or agents,
histories of any length, any prices and quantities. What a TLC run can
evaluate of each invariant (all but memberships in infinite sets) was checked on the
instances of section 3 before it was proved. A step lemma has one step per action,
and under it one per conjunct the action can disturb.

| Module | Theorems (property) | Inductive invariant, and why it is needed |
|---|---|---|
| `TradingEngineProofs` | `OneDriverAlways` (`OneDriver`), `RunningServicesUp` (`ServicesUpWhileRunning`), `StoppedServicesDown` (`ServicesDownWhenStopped`), `ReverseShutdownAlways` (`ReverseShutdown`), `TypeCorrect`, `EngineInvariant` | `EngineInv`: when the last service has started, the others must still be up. `PassedAreUp` says so of the places of the table the iterator has passed: an entry registered again gets a place beyond all that were used (`PlacesDiffer`), unless the table is compacted, which `rebuilt` excepts; and no other task runs a loop, which is `OneDriver`; `UpArePending` is the same for stopping, because the list was made of all registered services and `adopted` is among them. `ShutdownInv` adds that what is left of the list is in registration order. |
| `PaperTradingProofs` | `OneWorkerAlways`, `UpdatesCountedAlways`, `FillsAnnouncedAlways`, `NoLostUpdateAlways` (`NoLostUpdate`), `BookMirroredAtRest`, `CommissionsAlways`, `SessionMirrorsBookAlways` (`SessionMirrorsBook`), `UpdatesAtomic` (`UpdatesAreAtomic`, the refinement of `PaperAccount`) | `LockInv`: the queue has no task twice, holds exactly the tasks between acquiring and releasing, and only its head works; waiters cancelled in the middle of it included. `CountInv`: the draft of the working task is the registered session with one more update. `BookInv`: until the working task has stored its session, the portfolio is what the draft was given. `CommissionInv`: between booking and `_trade()` the draft's total is ahead of its history by the commission of the fill the call carries. `MirrorInv`: follows position and trade through the stages. After `_book()` the position misses exactly the last ledger entry (`Behind`), because a unit is sold only when one is held; an entry presented again after a refused booking meets a closed position, which takes none. After `_position()` a trade may be missing, but only that of a first fill (`TradeDue`), which the trade framework takes. |
| `OrderFlowProofs` | `NothingUnapproved` (`NothingUnapprovedIsPlaced`), `PlacedOrdersAreOrders` (`PlacedAsOrdered`), `OneOrder` (`OneOrderUnlessAnswerLost`), `ConnectionClosed` (`ConnectionClosedWhenIdle`), `ValidTransitions` (`OrderTransitionsAreValid`), `FlowTyped` (`TypeOK`) | `FlowInv`: at every await between the strategy and the exchange, what the coroutine carries was made of the approved decision, and everything placed was carried by some submission. `ConnectionClosedWhenIdle` is inductive by itself: a step that opens the connection is in a submission, and one that leaves the submission closes it or is cut short (`left_open`). `TypeInv`: the types, inductive with `FlowInv`, which knows that a task with a request to settle or to translate has one; the snapshots of the enabled strategies and rules are folds, whose recursion `CollectionExists` unfolds. |
| `ServicesProofs` | `DeliveredOnceAlways` (`DeliveredOnce`), `SubscriptionsKept` (`SubscriptionsSurvive`), `NoApprovalAgainstRisk` (`VetoHolds`), `DecisionsKept` (`DecisionsAreKept`), `EventsTellTheCache` (`EventsRebuildCache`) | `BusInv`: unless an orphan was unsubscribed, each list of handlers holds a handler as often as subscriptions of it to that type are in force; what `publish()` calls is three such lists put together, so each handler as often as it was due. `StreamInv`: on a connection that `reconnect()` made, a subscription that is neither there nor missed is still to be sent by some reconnect (`StillToSend`), and each way out of the resend loop has sent the rest or adds it to `missed`. `AgentsInv`: the opinions gathered so far are those of the agents walked, one holder of the lock, and every decision of the history has its own number. `MarketInv`: what was published last of a key is what is cached, and a series was opened by its first candle. |
| `ServicesProofs` (backtests) | `MetricsAgreeAlways` (`MetricsAgree`), `ReportsTrueAlways` (`ReportsAreTrue`) | `BacktestInv`: at each await of a run its counters are those of the steps it recorded, one ahead while a fill is being booked (`CountsOK`); its step is within the schedule and every limit (`ProgressOK`), its returns are the changes of its curve (`CurveOK`), its trades have distinct identifiers; what is registered is the analysis of a run that is over. `ReportInv` adds that a portfolio belongs to a run that started (`OwnedOK`), so a run alone on its portfolio started with a new one (its seeded result only what it reports until it books a fill), and that for such a run (`MirrorsOK`) cash, holding and value of the portfolio are what replaying its steps gives, with the fill on its way once that is booked or refused, and the curve ends with the value before it. For the metrics: the compounded changes of a positive curve telescope to its growth (`CompoundedGrowth`), and the wealth rebuilt from them is the curve divided by its first value, which leaves every drawdown the same (`SameDrawdown`); a mean is the share-weighted sum of the winners' and losers' means (`MeanDecomposes`). |
| `AccountingProofs` (portfolio) | `BookBalances` (`BookValueConserved`), `HoldingsAreTheLedgers` (`HoldingsMatchLedger`), `ValueIsStored` (`PreviousValueIsCurrent`) | `PortfolioInv`: cash, cost and profit balance, each holding is the sum of its ledger entries and positive, and the stored value is the portfolio's. A sell at the average cost keeps the balance only because the holding was at least what is sold. |
| `AccountingProofs` (trades) | `ClosedProfitAlways` (`ClosedProfitIsCashFlow`), `FillsAddUpAlways` (`FillsAddUpToTrade`), `TradeFollowsAlways` (`TradeFollowsPosition`) | `TradesInv`: a position is what its whole history makes it; the derived fills add up to what the trade tracked; the trade of a long position is in step with it (`InStep`), or misses exactly the last fill (`Behind`) while that is on its way; a short position has no trade. From `Behind` follows that one of the two differences `derive_fill()` takes is zero and the other the fill, and that the transition is allowed. |
| `SupportProofs` | `RecordsAdvance` (`RecordsOnlyAdvance`), `EventsFollow` (`EventsFollowUpdates`) | `RecordsKept`: between two calls a record of the registry is filed under its own identifier, has a list of cycles, and is in the state its framework leaves it in after one, or cancelled. One lemma per framework shows that a call registers a cancelled copy of the record or one with one more cycle, and only if the record was not cancelled. `EventsInv`: of each framework's four milestones (`MilestonesOf`), what was published and what tasks have still to publish add up to the cycles done (for the start, to the cycles and the cancellations), and each task's rest is in order (`Orderly`): a start due is followed by a snapshot or a cancellation due, a snapshot by a completion. The property is what remains of these equations when the due parts, sets of tasks, are compared by inclusion. |
| `BootstrapProofs` (container) | `PipelineSafe`, `CacheCurrent` (`CachedIsCurrent`), `OnlyCyclesReported` (`CircularOnlyIfCyclic`) | `PipelineInv`: the keys being resolved are those of the stack's frames, each frame runs the provider registered for its key, and what is cached was built by the provider registered now. A key on the stack leads to the frame above it, so one that is met again leads to itself; the keys that reach a cycle are the complement of a least closed set, and an error on its way down the stack stays in it. |
| `BootstrapProofs` (plan) | `PlansRight` (`PlansAreRight`) | Kahn's loop as a recursive function of the number of placed components: what is placed is closed under dependencies, the ready list is sorted by priority and manifest order and holds exactly the others whose dependencies are placed; the loop stops early exactly if what is left is closed downwards, that is, has a cycle, or the queue holds a NaN it cannot compare; so a manifest that is refused is malformed, cyclic, or has a NaN that its dependencies leave unordered beside another component. |
| `BootstrapProofs` (services) | `AllInjected` (`SharedAndComplete`), `AlwaysStarts` (`ComponentsStandAlone`) | `ServedInv`: every registered provider is one of the table's, every object made got the singletons of the keys it found. Every key of the table has a level above those of its needs (`Buildable`), so no resolution of registered keys meets a cycle, none is circular, and none of them fails. `ReportInv`: the preflight's failed checks are exactly the keys so far whose resolution failed. |
| `BootstrapProofs` (settings) | `ConfigurationGuarded` (`ConfigurationIsGuarded`) | `SettingsInv`: cached settings passed every cross-check when they were made and nothing changes them; `EntryInv`: the snapshot was taken of the settings cached now. |

**Assumptions.** `ConstantsAssumption`, `PaperAssumption`, `OrderFlowAssumption`,
`SetupAssumption`, `PayloadsAssumption`, `BacktestAssumption`, `PortfolioAssumption`,
`PositionAssumption` and `TradeAssumption` give constants their types and say what the
code's validation guarantees: amounts are numbers, prices and quantities that reach the
books positive where the code checks it, slippage less than one; `BacktestAssumption`
bounds neither a replay speed nor a number of steps from below, nor prices, slippage or
the ordered quantities. `ManifestsAssumption`, `ProgramsAssumption` and
`VariablesAssumption` give the inputs of `Bootstrap` their types: a priority is a
number, a NaN or a signaling NaN, which `PriorityAssumption` tells apart.
`TablesAssumption` is no restriction but a closed fact about the literal tables of
registrars and services: they are put together with `@@`, which the provers cannot
expand, and TLC evaluates it in the run `Bootstrap`. TLC evaluates each of the others
too. `BookMirroredAtRest`, `SessionMirrorsBookAlways` and `UpdatesAtomic` assume
`~Cancellable` in addition, and `SessionMirrorsBookAlways` assumes that no two sessions
have one symbol (`OwnSymbols`), as in the runs: section 5 says why they fail without
that. `CommissionsAlways` needs neither.

**The arithmetic.** A rational is a pair in lowest terms, and that sums and quotients
are again such pairs depends on Euclid's algorithm. `DataFacts` therefore starts from
the least element of a set of naturals (from the library's well-founded inclusion of
finite sets), shows that functions defined by recursion on a rank exist
(`RecursionExists`), that `gcd` is one of them, divides both arguments and is a
combination of them (`Cofactors`), and that equal fractions in lowest terms are equal
pairs (`EqualRats`). Laws of the rationals follow by putting operands over a common
denominator (`CommonDenominator`). `RatSum` is a fold over a finite set whose order the
definition leaves open; `FoldsAgree` shows that it does not matter, and `SumGrows` and
`SumReplaced`, what one more and one changed summand do.

**Only model-checked.** Liveness (fairness and ENABLED are out of the prover's reach).
`RecordFollowsHistory`, `MostUrgentHandled` and `WorkflowsRefusedForCause` of `Support`:
they compare totals, rankings and closures computed by folds, sorting and `CHOOSE` over
enumerations in twelve slightly different ways, which takes an induction over data for
each operator. Folds over one sequence (`GreatestIs`, `CollectedAre`, `KeptOneByOne`) and
recursive functions of a number (`WalkExists`) are unfolded in `DataFacts` by induction
over the naturals; what `ReplayIs`, `GainsAre` and `UpsertIs` say rests on that.

## 5. Observations

Behaviour that the models show and no property claims to be otherwise.

* Engine: a service that fails to start or stop leaves the others running in a
  FAILED engine, which refuses `stop()`; a cancelled `start()` or `stop()` leaves a
  transient state that no call can leave. If services are unregistered and registered
  again while `start_services()` awaits one and the dict's table is full, it is
  compacted under the iterator: `start()` then skips services without an error and
  enters RUNNING (`rebuilt`).
* Positions: an entry after a partial exit rewrites the realized P&L of that exit and
  the trade framework records the change as profit of the entry fill. CLOSED is final
  and a position is its symbol, so a second round trip in a symbol is booked by the
  portfolio but has no position or trade. Trade analytics tell winners by exit
  quantity and so differ from the position metrics for shorts.
* Paper trading: sessions on one symbol share a position; `PaperTradeExecuted` is
  published also for a fill that was booked nowhere; a `process()` call cancelled
  after booking leaves the portfolio ahead of its session.
* Strategies disabled after `start()` never get `on_stop`, and those enabled after it
  get `on_stop` without `on_start`. A risk rule that raises does not stop an
  approval.
* Event bus: `clear()` leaves `Subscription` objects active; unsubscribing one of them
  later removes a newer subscription of the same handler.
* Exchange adapters: `process()` has no `finally`; a submission that is cancelled, or
  ended by an exception other than `ExchangeError`, leaves the shared connection open
  until the next close (`left_open`), and a cancelled `send` may have placed its order.
* Web socket: a `reconnect()` that is cancelled, or whose send raises, leaves the
  connection up without the subscriptions it had still to send (`missed`), and only
  another `reconnect()` restores them. A stream unsubscribed while `reconnect()` resends
  its snapshot stays subscribed at the exchange; `connect()` alone restores nothing.
* Agents: a tie among strategies' signals, or among opinions for the CEO, goes to BUY,
  a tie of the consensus to HOLD; without a registered risk agent there is no veto.
* Supporting frameworks: `workflows/collector.py` cuts the definitions at `max_items`
  in the order they arrive in, before they are ranked: an urgent one may be cut off.
* Bootstrap: a NaN priority is refused ("failed validation") only if its component is
  ready together with another; the order of the dependencies decides.
* Container: registering an implementation again leaves a cached alias pointing at
  the old object (`CachedIsCurrent` excludes aliases).
* Market data: a numeric timestamp out of range raises out of `_on_raw`, although
  `market_data/service.py:10` says failures are never raised; ticks are keyed without
  a timeframe, `CandleOpened` is published for a key's first candle only, older candles
  overwrite newer ones, and NaN is a price.
* Backtesting: runs with the default portfolio id share one portfolio; equity is not
  marked to market between fills; a fill the portfolio refused is counted; commission
  is not charged to the portfolio; limit orders are booked at the limit price and
  valued at the simulated price. A run whose context is seeded with a portfolio result
  reports that result's equity until it books a fill; a seeded trade is counted by the
  analysis but not by the backtest's own metrics; without a performance engine the
  seeded analysis is registered as it is.
* Configuration: with `APP_ENVIRONMENT=production` live trading is allowed whatever
  `APP_ENV` says. `.env.<environment>` overrides process variables and
  stays in effect after a switch of environment and `reload_settings()`.
  `.env.example` names "staging", which `from_str` refuses.

## 6. What is not modelled

Persistence (in-memory repositories that no component calls), logging, record types
and enumerations without behaviour, the empty API and simulation packages, and the
audit harness, a static analysis of the source tree. Within modelled components:
Binance `cancel_order`, `get_account`, heartbeat and request signing; annualized
powers and square roots (kept as what they are computed from); allocation weights;
durations; list-valued settings. In `PaperTrading` the signal chain is a choice of
its outcomes, and in `Backtesting` positions and trades are left to their modules.

Cancellation is not modelled in four places. A cycle framework's call, cancelled
between two publications, leaves its later events unpublished, and a market payload's
task its event: `EventsFollowUpdates` and `EventsRebuildCache` are claimed for tasks
that are not cancelled. A cancelled backtest registers nothing, so no report is
wrong, but leaves what it booked in its portfolio (`cancel_after_steps`, which ends a
run in order, is modelled). A cancelled `publish()` does not return, and
`DeliveredOnce` speaks of those that do.
