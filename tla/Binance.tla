------------------------------- MODULE Binance -------------------------------
(***************************************************************************)
(* The Binance spot adapter (adapters/binance/): the connection object that *)
(* every submission shares, the translation of an order into Binance's       *)
(* parameters, and the REST client with its retry loop.  The exchange at the *)
(* other end of the HTTP transport is external: it may place an order and    *)
(* its answer may be lost, garbled, or an HTTP error.                        *)
(***************************************************************************)
EXTENDS Integers

CONSTANTS
    Configs,   \* the configurations: has_credentials and retry_count
    None

VARIABLES
    config,       \* the BinanceConfig the adapter was built with
    connection,   \* BinanceConnection._state
    left_open,    \* auxiliary: reconnect() opened it, or a call cut short left it
                  \* open, and no close() came since
    placed,       \* external: the orders the exchange placed for the task's request
    lost,         \* external: placed orders whose answer never arrived
    pc, job

ConnectionState == {"disconnected", "connecting", "connected", "reconnecting", "closed"}

BinanceSide == {"BUY", "SELL"}
BinanceOrderType == {"MARKET", "LIMIT", "STOP_LOSS", "STOP_LOSS_LIMIT"}
BinanceTimeInForce == {"GTC", "IOC", "FOK"}
BinanceOrderStatus == {"NEW", "PARTIALLY_FILLED", "FILLED", "CANCELED", "REJECTED",
                       "EXPIRED"}

BinanceConfig == [has_credentials : BOOLEAN, retry_count : Int]

_SIDE == [buy |-> "BUY", sell |-> "SELL"]
_TYPE == [market |-> "MARKET", limit |-> "LIMIT", stop |-> "STOP_LOSS",
          stop_limit |-> "STOP_LOSS_LIMIT"]
_TIF == [gtc |-> "GTC", ioc |-> "IOC", fok |-> "FOK"]

_PRICE_REQUIRED == {"LIMIT", "STOP_LOSS_LIMIT"}

\* The parameters of the POST: there is no stop price among them.
BinanceOrderRequest == [symbol : STRING, side : BinanceSide, type : BinanceOrderType,
                        quantity : Int, price : Int \union {None},
                        time_in_force : BinanceTimeInForce \union {None}]

\* Mutant of translate: every limit order is good till cancelled.
Mutant_TranslateAlwaysGTC(order) ==
    [symbol        |-> order.symbol,
     side          |-> _SIDE[order.side],
     type          |-> _TYPE[order.order_type],
     quantity      |-> order.quantity,
     price         |-> order.price,
     time_in_force |-> IF _TYPE[order.order_type] \in _PRICE_REQUIRED
                       THEN "GTC" ELSE None]

\* Mutant of translate: the time in force is passed on in the framework's spelling.
Mutant_TranslateTifAsIs(order) ==
    [symbol        |-> order.symbol,
     side          |-> _SIDE[order.side],
     type          |-> _TYPE[order.order_type],
     quantity      |-> order.quantity,
     price         |-> order.price,
     time_in_force |-> IF _TYPE[order.order_type] \in _PRICE_REQUIRED
                       THEN order.time_in_force ELSE None]

translate(order) ==
    [symbol        |-> order.symbol,
     side          |-> _SIDE[order.side],
     type          |-> _TYPE[order.order_type],
     quantity      |-> order.quantity,
     price         |-> order.price,
     time_in_force |-> IF _TYPE[order.order_type] \in _PRICE_REQUIRED
                       THEN _TIF[order.time_in_force] ELSE None]

valid(request) ==
    /\ request.symbol # ""
    /\ request.quantity > 0
    /\ request.type \in _PRICE_REQUIRED =>
          /\ request.price # None /\ request.price > 0
          /\ request.time_in_force # None

\* parser._ACCEPTED: the statuses to_exchange_response() reports as accepted.
_ACCEPTED == {"NEW", "PARTIALLY_FILLED", "FILLED"}

\* What one transport.request() can come to.  "timeout" stands for the timeouts
\* and connection failures the transport raises as BinanceError, "garbled" for
\* a body that is not the JSON of an order or a connection reset while reading
\* it; "http_error" is any status but 200.
Answers == {"NEW", "REJECTED", "garbled", "http_error", "timeout"}
Outcomes == {o \in [placed : BOOLEAN, answer : Answers] :
                /\ o.answer \in _ACCEPTED => o.placed
                /\ o.answer = "REJECTED" => ~o.placed}

max(a, b) == IF a > b THEN a ELSE b

Goto(t, label) == pc' = [pc EXCEPT ![t] = label]

\* open() and close() of the shared connection.
connect == connection' = "connected" /\ UNCHANGED left_open
close == connection' = "closed" /\ left_open' = FALSE

\* reconnect(): RECONNECTING, an event, then connect().  Cut short at the event, it
\* leaves the connection RECONNECTING.
reconnect(t) ==
    /\ pc[t] = "idle"
    /\ connection' = "reconnecting"
    /\ Goto(t, "reconnecting")
    /\ UNCHANGED <<config, left_open, placed, lost, job>>

Reconnected(t) ==
    /\ pc[t] = "reconnecting"
    /\ connection' = "connected"
    /\ left_open' = TRUE
    /\ Goto(t, "idle")
    /\ UNCHANGED <<config, placed, lost, job>>

\* submit(), before the request goes out: credentials, translation, validation.
\* Every failure leaves as an ExchangeError, for the manager to catch.
submit(t) ==
    /\ pc[t] = "submit"
    /\ \/ /\ config.has_credentials
          /\ valid(translate(job[t].order.request))
          /\ job' = [job EXCEPT ![t].wire = translate(job[t].order.request),
                                ![t].attempts = max(1, config.retry_count)]
          /\ Goto(t, "send")
       \/ /\ ~(config.has_credentials /\ valid(translate(job[t].order.request)))
          /\ job' = [job EXCEPT ![t].result = "failed"]
          /\ Goto(t, "close")
    /\ UNCHANGED <<config, connection, left_open, placed, lost>>

\* Mutant of Retriable: whatever the transport raises is retried.
Mutant_RetryEverything(answer) == answer \in {"timeout", "garbled"}

\* Only what the transport raises as BinanceError is retried.
Retriable(answer) == answer = "timeout"

\* The exchange's side of a request: it places the order or does not, and the
\* answer reaches the client or is lost.
Deliver(t, o) ==
    /\ placed' = [placed EXCEPT ![t] = @ + (IF o.placed THEN 1 ELSE 0)]
    /\ lost' = [lost EXCEPT ![t] = @ + (IF o.placed /\ o.answer = "timeout" THEN 1 ELSE 0)]

\* _send_with_retry(): once more after a timeout while attempts are left.
Retry(t) ==
    /\ pc[t] = "send"
    /\ job[t].attempts > 1
    /\ \E o \in Outcomes : Retriable(o.answer) /\ Deliver(t, o)
    /\ job' = [job EXCEPT ![t].attempts = @ - 1]
    /\ UNCHANGED <<config, connection, left_open, pc>>

\* The response the manager gets for an answer: None stands for an exception.
to_exchange_response(answer) ==
    CASE answer \in _ACCEPTED -> "accepted"
      [] answer \in BinanceOrderStatus \ _ACCEPTED -> "refused"
      [] OTHER -> None

\* The last attempt, or one whose answer ends the loop.
Answered(t) ==
    /\ pc[t] = "send"
    /\ \E o \in Outcomes :
          /\ Retriable(o.answer) => job[t].attempts = 1
          /\ Deliver(t, o)
          /\ job' = [job EXCEPT
                ![t].attempts = 0,
                ![t].response = to_exchange_response(o.answer),
                ![t].result = CASE to_exchange_response(o.answer) = "accepted" -> "ready"
                                [] to_exchange_response(o.answer) = "refused" -> "rejected"
                                [] OTHER -> "failed"]
    /\ Goto(t, "close")
    /\ UNCHANGED <<config, connection, left_open>>

\* A call that ends while it holds the connection open leaves it as it is.
LeaveOpen == left_open' = (left_open \/ connection = "connected")

\* The task is cancelled while it awaits the transport: no except clause sees the
\* CancelledError, the exchange may have placed the order, and nobody is told.
CutOff(t) ==
    /\ pc[t] = "send"
    /\ \E o \in Outcomes : o.answer = "timeout" /\ Deliver(t, o)
    /\ job' = [job EXCEPT ![t].attempts = 0]
    /\ LeaveOpen
    /\ Goto(t, "cut_off")
    /\ UNCHANGED <<config, connection>>
=============================================================================
