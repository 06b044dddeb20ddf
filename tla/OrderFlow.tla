------------------------------ MODULE OrderFlow ------------------------------
(***************************************************************************)
(* From a strategy's signal to an order at the exchange: the strategy, risk, *)
(* order, execution and exchange frameworks and the Binance adapter composed *)
(* in the order in which their results are handed on.  Every task runs the   *)
(* chain signal by signal and hands each engine the result of the one        *)
(* before, whatever it is: what must not reach the exchange has to be        *)
(* stopped by the engines themselves.                                        *)
(*                                                                         *)
(* pc[t] is the await at which task t is suspended and job[t] its local      *)
(* variables; the rest is shared: the strategy registry, the risk rules, the *)
(* adapter registry, the connection and the exchange.                        *)
(***************************************************************************)
EXTENDS Integers, FiniteSets, SequencesExt

CONSTANTS Tasks, Names, Directions, RuleNames,
          FirstNames, FirstRules,   \* registered and enabled from the start
          OrderInputs, AdapterNames,
          ExchangeInputs, AuthOutcomes, ConnectOutcomes, Configs, None,
          MaxChanges   \* bound on management calls (registries, rules, reconnect...)

VARIABLES registry, started, rules, adapters, config, connection, left_open,
          placed, lost, pc, job,
          changes   \* the management calls made so far

S == INSTANCE Strategies
R == INSTANCE Risk
O == INSTANCE Orders
X == INSTANCE Execution
E == INSTANCE Exchange
B == INSTANCE Binance

\* Python's None is no other value, and callers pass what the classes allow.
ASSUME OrderFlowAssumption ==
    /\ None \notin {"accepted", "refused"} \union B!BinanceOrderRequest
    /\ OrderInputs \subseteq O!OrderMetadata

\* What is set up at the start is among what there is, and strategies signal one of
\* the directions of SignalDirection (strategies/signals.py).
ASSUME SetupAssumption ==
    /\ FirstNames \subseteq Names /\ IsFiniteSet(FirstNames)
    /\ FirstRules \subseteq RuleNames /\ IsFiniteSet(FirstRules)
    /\ Directions \subseteq S!SignalDirection
    /\ Configs \subseteq B!BinanceConfig

vars == <<registry, started, rules, adapters, config, connection, left_open,
          placed, lost, pc, job, changes>>

Blank == [strategies |-> <<>>, signals |-> <<>>, rules |-> <<>>,
          risk |-> R!NoOutcome, violated |-> FALSE, decision |-> None,
          order |-> [state |-> "created", request |-> None],
          execution |-> [status |-> "pending", state |-> "created"],
          context |-> None, wire |-> None, attempts |-> 0, response |-> None,
          result |-> "pending"]

\* The application has set the chain up; what it manages may change from here.
Init ==
    /\ registry = SetToSeq({[strategy |-> s, enabled |-> TRUE] : s \in FirstNames})
    /\ rules = SetToSeq({[rule |-> r, enabled |-> TRUE] : r \in FirstRules})
    /\ started = {}
    /\ adapters \in {{}, AdapterNames}
    /\ config \in Configs
    /\ connection = "disconnected" /\ left_open = FALSE
    /\ placed = [t \in Tasks |-> 0] /\ lost = [t \in Tasks |-> 0]
    /\ pc = [t \in Tasks |-> "idle"]
    /\ job = [t \in Tasks |-> Blank]
    /\ changes = 0

\* The signals of execute() are taken one after the other; each new order has
\* an identifier of its own, so the exchange's counts start again.
TakeSignal(t) ==
    /\ \/ pc[t] = "evaluate" /\ job[t].strategies = <<>> /\ job[t].signals # <<>>
          /\ UNCHANGED job
       \/ pc[t] = "returned" /\ Len(job[t].signals) > 1
          /\ job' = [job EXCEPT ![t] = [Blank EXCEPT !.signals = Tail(job[t].signals)]]
    /\ pc' = [pc EXCEPT ![t] = "risk"]
    /\ placed' = [placed EXCEPT ![t] = 0] /\ lost' = [lost EXCEPT ![t] = 0]

\* The task is done with its orders.
Done(t) ==
    /\ pc' = [pc EXCEPT ![t] = "idle"]
    /\ job' = [job EXCEPT ![t] = Blank]
    /\ placed' = [placed EXCEPT ![t] = 0] /\ lost' = [lost EXCEPT ![t] = 0]

\* No signal is left, or the submission was cut off.
Finish(t) ==
    /\ \/ pc[t] = "evaluate" /\ job[t].strategies = <<>> /\ job[t].signals = <<>>
       \/ pc[t] = "returned" /\ Len(job[t].signals) = 1
       \/ pc[t] = "cut_off"
    /\ Done(t)

binance == <<config, connection, left_open, placed, lost>>

StrategySteps(t) ==
    /\ S!on_start(t) \/ S!on_stop(t) \/ S!evaluate(t)
    /\ UNCHANGED <<rules, adapters, binance>>

RiskSteps(t) ==
    /\ R!evaluate(t) \/ R!validate(t) \/ R!Decided(t)
    /\ UNCHANGED <<registry, started, adapters, binance>>

OrderSteps(t) ==
    /\ \/ O!create(t) \/ O!validate(t) \/ O!route(t) \/ O!ReadyForExecution(t)
       \/ X!process(t) \/ X!validate(t) \/ X!execute(t) \/ X!route(t)
    /\ UNCHANGED <<registry, started, rules, adapters, binance>>

ExchangeSteps(t) ==
    /\ E!process(t) \/ E!open(t) \/ E!route(t) \/ E!_close(t)
    /\ UNCHANGED <<registry, started, rules>>

BinanceSteps(t) ==
    /\ B!submit(t) \/ B!Retry(t) \/ B!Answered(t) \/ B!CutOff(t) \/ B!Reconnected(t)
    /\ UNCHANGED <<registry, started, rules, adapters>>

DriverSteps(t) ==
    /\ TakeSignal(t) \/ Finish(t)
    /\ UNCHANGED <<registry, started, rules, adapters, config, connection, left_open>>

\* Where a task holds the connection that process() opened.
Holding == {"opened", "submit", "send", "close"}

\* asyncio cancels the task at its await, or an exception that no except clause
\* names leaves the call (from the router or an adapter, any but an ExchangeError):
\* the call is over as it stands, and process() closes nothing.
CutShort(t) ==
    /\ pc[t] \notin {"idle", "send", "cut_off"}
    /\ Done(t)
    /\ \/ pc[t] \in Holding /\ B!LeaveOpen
       \/ pc[t] \notin Holding /\ UNCHANGED left_open
    /\ UNCHANGED <<registry, started, rules, adapters, config, connection>>

\* The steps of a call that was made.
Continue(t) == \/ StrategySteps(t) \/ RiskSteps(t) \/ OrderSteps(t)
               \/ ExchangeSteps(t) \/ BinanceSteps(t) \/ DriverSteps(t)

\* What the application manages, at any time: it may race the calls.
Manage ==
    /\ changes < MaxChanges
    /\ changes' = changes + 1
    /\ \/ /\ \/ \E s \in Names : \/ S!register(s) \/ S!unregister(s)
                                 \/ \E on \in BOOLEAN : S!_set_enabled(s, on)
             \/ \E t \in Tasks : S!start(t) \/ S!stop(t)
          /\ UNCHANGED <<rules, adapters, binance>>
       \/ /\ \E r \in RuleNames : \/ R!add_rule(r)
                                  \/ \E on \in BOOLEAN : R!_set_enabled(r, on)
          /\ UNCHANGED <<registry, started, adapters, binance>>
       \/ /\ \E a \in AdapterNames : E!register(a) \/ E!unregister(a)
          /\ UNCHANGED <<registry, started, rules>>
       \/ /\ \E t \in Tasks : B!reconnect(t)
          /\ UNCHANGED <<registry, started, rules, adapters>>

Execute(t) == S!execute(t) /\ UNCHANGED <<rules, adapters, binance>>

Next == \/ Manage
        \/ \E t \in Tasks : (Execute(t) \/ Continue(t) \/ CutShort(t)) /\ UNCHANGED changes

Spec == Init /\ [][Next]_vars

-----------------------------------------------------------------------------
\* The types of the state, with the classes of the six packages.
TypeOK ==
    /\ registry \in Seq(S!Entry) /\ started \subseteq Names
    /\ rules \in Seq(R!RuleEntry)
    /\ adapters \subseteq AdapterNames
    /\ config \in B!BinanceConfig
    /\ connection \in B!ConnectionState /\ left_open \in BOOLEAN
    /\ placed \in [Tasks -> Nat] /\ lost \in [Tasks -> Nat]
    /\ \A t \in Tasks :
          /\ job[t].signals \in Seq(S!TradingSignal)
          /\ job[t].risk \in R!RiskResult
          /\ job[t].decision \in R!RiskDecision \union {None}
          /\ job[t].order.state \in O!OrderState
          /\ job[t].order.request # None => job[t].order \in O!OrderResult
          /\ job[t].wire # None => job[t].wire \in B!BinanceOrderRequest
          /\ job[t].execution \in X!ExecutionResult
          /\ job[t].context \in ExchangeInputs \union {None}
          /\ job[t].result \in E!ExchangeStatus

\* What the exchange holds went through every check: no rule of the snapshot
\* objected, the decision is an approval and the order was valid and ready.
\* The factory (order_management/factory.py) is the only guard on the way.
NothingUnapprovedIsPlaced ==
    \A t \in Tasks : placed[t] > 0 =>
        /\ ~job[t].violated
        /\ R!approved(job[t].decision)
        /\ O!valid(job[t].order.request)
        /\ O!ready(job[t].order) /\ X!ready(job[t].execution)

\* The order at the exchange is the order of the request: side, quantity, price
\* and, for limit orders, its time in force (adapters/binance/converters.py).
WireIsOrder ==
    \A t \in Tasks : placed[t] > 0 =>
        LET order == job[t].order.request  wire == job[t].wire
        IN  /\ wire.side = B!_SIDE[order.side]
            /\ wire.quantity = order.quantity
            /\ wire.price = order.price
            /\ order.order_type \in O!_PRICE_REQUIRED =>
                  wire.time_in_force = B!_TIF[order.time_in_force]

\* A submission the adapter reports as accepted is at the exchange, and one that
\* failed before it was sent is not (exchange_adapters/manager.py:171).
ReportedAsPlaced ==
    \A t \in Tasks : pc[t] = "returned" =>
        /\ job[t].response = "accepted" => placed[t] > 0
        /\ job[t].wire = None => placed[t] = 0

\* The exchange holds the orders of the requests, and the caller is told of them.
PlacedAsOrdered == WireIsOrder /\ ReportedAsPlaced

\* The retry loop of rest.py repeats a POST only when no answer came: more than
\* one order is placed only for as many answers as were lost.
OneOrderUnlessAnswerLost == \A t \in Tasks : placed[t] <= 1 + lost[t]

\* Every path on which process() returns closes the connection it opened: it is
\* open only while a submission is under way, or since reconnect() opened it, or
\* since a submission that held it was cut short (exchange_adapters/manager.py has
\* no finally clause), and until the next close.
ConnectionClosedWhenIdle ==
    connection = "connected" => left_open \/ \E t \in Tasks : pc[t] \in Holding

\* The transitions process() makes are those of execution/state.py, whichever
\* stage fails: ExecutionLifecycle never raises out of it.
NoLifecycleError == \A t \in Tasks : pc[t] # "lifecycle_error"

\* A stop order at the exchange carries the stop price that the order validator
\* made it have (order_management/validator.py:37-41); the translation and its
\* to_params() have no such field.
StopOrdersKeepStopPrice ==
    \A t \in Tasks :
        placed[t] > 0 /\ job[t].order.request.order_type \in O!_STOP_REQUIRED
            => "stop_price" \in DOMAIN job[t].wire

\* An order's state only moves along VALID_TRANSITIONS (order_management/
\* state.py), which the order manager itself never consults, and an execution's
\* along those of execution/state.py, else the lifecycle would raise.
OrderTransitionsAreValid ==
  /\ []NoLifecycleError
  /\ [][\A t \in Tasks :
          LET old == job[t].order.state  new == job'[t].order.state
          IN  (job[t].order.request # None /\ job'[t].order.request # None /\ old # new)
                 => O!can_transition(old, new)]_vars

-----------------------------------------------------------------------------
(* The inputs of the runs.  The typed orders and the adapter names are taken *)
(* apart from the constants they are for.                                    *)

Form == INSTANCE Orders WITH OrderInputs <- {}
Venues == INSTANCE Exchange WITH ExchangeInputs <- {}

\* An order of each type, a limit order without a price and an order of nothing.
EveryOrder ==
    {Form!MarketOrder("BTC", 1), Form!MarketOrder("BTC", 0),
     Form!LimitOrder("BTC", 1, 2, "ioc"), Form!LimitOrder("BTC", 1, None, "gtc"),
     Form!StopOrder("BTC", 1, 3), Form!StopLimitOrder("BTC", 1, 2, 3, "gtc")}

\* A request for the adapter, and an invalid one.
EveryExchange ==
    {[exchange |-> "binance", symbol |-> "BTC", adapter |-> "binance"],
     [exchange |-> "", symbol |-> "BTC", adapter |-> Venues!DEFAULT_ADAPTER]}

\* No credentials, no retries (retry_count 0 still sends once), and one retry.
EveryConfig ==
    {[has_credentials |-> TRUE, retry_count |-> 2],
     [has_credentials |-> TRUE, retry_count |-> 0],
     [has_credentials |-> FALSE, retry_count |-> 1]}

\* Tasks run the same code, so they may be permuted.
TaskSymmetry == Permutations(Tasks)
=============================================================================
