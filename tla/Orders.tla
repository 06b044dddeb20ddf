------------------------------- MODULE Orders -------------------------------
(***************************************************************************)
(* The order management framework (order_management/): the factory builds   *)
(* an OrderRequest from an approved decision, the validator checks it, the   *)
(* router gives it a destination and DefaultOrderManager.process() drives    *)
(* it, one action per stage (the stages are separated by published events). *)
(***************************************************************************)
EXTENDS Integers

CONSTANTS
    Tasks, None,
    OrderInputs   \* the metadata of an OrderContext: what the caller asks for

VARIABLES pc, job

OrderState == {"created", "validated", "routed", "ready_for_execution", "submitted",
               "partially_filled", "filled", "cancelled", "rejected", "expired"}

VALID_TRANSITIONS ==
    [created             |-> {"validated", "rejected"},
     validated           |-> {"routed", "rejected"},
     routed              |-> {"ready_for_execution", "rejected"},
     ready_for_execution |-> {"submitted"},
     submitted           |-> {"partially_filled", "filled", "cancelled", "expired",
                              "rejected"},
     partially_filled    |-> {"filled", "cancelled", "expired"},
     filled              |-> {},
     cancelled           |-> {},
     rejected            |-> {},
     expired             |-> {}]

can_transition(source, target) == target \in VALID_TRANSITIONS[source]

OrderSide == {"buy", "sell"}
OrderType == {"market", "limit", "stop", "stop_limit"}
TimeInForce == {"gtc", "ioc", "fok"}
Price == Int \union {None}

OrderRequest == [identifier : Tasks, symbol : STRING, side : OrderSide,
                 order_type : OrderType, quantity : Int, price : Price,
                 stop_price : Price, time_in_force : TimeInForce, state : OrderState]

\* What the metadata of an OrderContext may ask for.
OrderMetadata == [symbol : STRING, order_type : OrderType, quantity : Int, price : Price,
                  stop_price : Price, time_in_force : TimeInForce]

\* An OrderResult that has a request (it is None when create() raised).
OrderResult == [state : OrderState, request : OrderRequest]

ready(result) == result.state = "ready_for_execution"

_SIDE_BY_DIRECTION == [buy |-> "buy", increase |-> "buy", sell |-> "sell",
                       reduce |-> "sell", close |-> "sell"]

\* Does create() return a request, or raise OrderFactoryError?
Creatable(decision, signal) ==
    /\ decision.decision_type = "approved"
    /\ signal.direction \in DOMAIN _SIDE_BY_DIRECTION

\* The request itself: MARKET, 1, GTC and no prices unless the metadata says so.
NewRequest(id, signal, meta) ==
    [identifier |-> id, symbol |-> meta.symbol,
     side |-> _SIDE_BY_DIRECTION[signal.direction],
     order_type |-> meta.order_type, quantity |-> meta.quantity, price |-> meta.price,
     stop_price |-> meta.stop_price, time_in_force |-> meta.time_in_force,
     state |-> "created"]

\* The typed orders of orders.py fix the type and leave the other prices None.
MarketOrder(symbol, quantity) ==
    [symbol |-> symbol, order_type |-> "market", quantity |-> quantity,
     price |-> None, stop_price |-> None, time_in_force |-> "gtc"]
LimitOrder(symbol, quantity, price, tif) ==
    [symbol |-> symbol, order_type |-> "limit", quantity |-> quantity,
     price |-> price, stop_price |-> None, time_in_force |-> tif]
StopOrder(symbol, quantity, stop) ==
    [symbol |-> symbol, order_type |-> "stop", quantity |-> quantity,
     price |-> None, stop_price |-> stop, time_in_force |-> "gtc"]
StopLimitOrder(symbol, quantity, price, stop, tif) ==
    [symbol |-> symbol, order_type |-> "stop_limit", quantity |-> quantity,
     price |-> price, stop_price |-> stop, time_in_force |-> tif]

_PRICE_REQUIRED == {"limit", "stop_limit"}
_STOP_REQUIRED == {"stop", "stop_limit"}

Positive(price) == price # None /\ price > 0

valid(request) ==
    /\ request.symbol # ""
    /\ request.quantity > 0
    /\ request.order_type \in _PRICE_REQUIRED => Positive(request.price)
    /\ request.order_type \in _STOP_REQUIRED => Positive(request.stop_price)

Settle(t, state, label) ==
    /\ job' = [job EXCEPT ![t].order.state = state,
                          ![t].order.request.state = state]
    /\ pc' = [pc EXCEPT ![t] = label]

\* Mutant of create: the decision is not looked at.
Mutant_CreateUnchecked(t) ==
    /\ pc[t] = "order"
    /\ \E meta \in OrderInputs :
          IF job[t].signals[1].direction \in DOMAIN _SIDE_BY_DIRECTION
          THEN /\ job' = [job EXCEPT ![t].order =
                             [state |-> "created",
                              request |-> NewRequest(t, job[t].signals[1], meta)]]
               /\ pc' = [pc EXCEPT ![t] = "order_created"]
          ELSE /\ job' = [job EXCEPT ![t].order = [state |-> "rejected", request |-> None]]
               /\ pc' = [pc EXCEPT ![t] = "execution"]

\* process(): the factory.  The guard it applies is the only one between an
\* unapproved decision and the exchange.
create(t) ==
    /\ pc[t] = "order"
    /\ \/ /\ Creatable(job[t].decision, job[t].signals[1])
          /\ \E meta \in OrderInputs :
                job' = [job EXCEPT ![t].order =
                           [state |-> "created",
                            request |-> NewRequest(t, job[t].signals[1], meta)]]
          /\ pc' = [pc EXCEPT ![t] = "order_created"]
       \/ /\ ~Creatable(job[t].decision, job[t].signals[1])
          /\ job' = [job EXCEPT ![t].order = [state |-> "rejected", request |-> None]]
          /\ pc' = [pc EXCEPT ![t] = "execution"]

validate(t) ==
    /\ pc[t] = "order_created"
    /\ \/ valid(job[t].order.request) /\ Settle(t, "validated", "order_validated")
       \/ ~valid(job[t].order.request) /\ Settle(t, "rejected", "execution")

\* Mutant of route: the order is made ready without having been routed.
Mutant_RouteSkipped(t) ==
    /\ pc[t] = "order_validated"
    /\ Settle(t, "ready_for_execution", "execution")

\* The router is injected; the default one always answers, another may raise.
route(t) ==
    /\ pc[t] = "order_validated"
    /\ \/ Settle(t, "routed", "order_routed")
       \/ Settle(t, "rejected", "execution")

ReadyForExecution(t) ==
    /\ pc[t] = "order_routed"
    /\ Settle(t, "ready_for_execution", "execution")
=============================================================================
