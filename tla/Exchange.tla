------------------------------ MODULE Exchange ------------------------------
(***************************************************************************)
(* The exchange adapter framework (exchange_adapters/): the registry of      *)
(* adapters and DefaultExchangeManager.process(), which authenticates, opens *)
(* the connection, validates, routes, hands the request to the adapter and   *)
(* closes the connection on every path on which it returns.  It has no        *)
(* finally clause: a cancellation, or an exception that is no ExchangeError,  *)
(* ends it without a close (OrderFlow!CutShort, Binance!CutOff).              *)
(***************************************************************************)
CONSTANTS
    Tasks,
    AdapterNames,      \* the adapters that can be registered
    ExchangeInputs,    \* the exchange, symbol and metadata of an ExchangeContext
    AuthOutcomes,      \* what the ExchangeAuthentication in use answers
    ConnectOutcomes,   \* what the ExchangeConnection in use answers
    None

VARIABLES
    adapters,   \* the names in ExchangeAdapterRegistry._adapters
    config, connection, left_open, placed, lost, pc, job

Venue == INSTANCE Binance WITH Configs <- {}
Execution == INSTANCE Execution

ExchangeStatus == {"pending", "ready", "failed", "rejected"}

DEFAULT_ADAPTER == "default"

others == <<config, connection, left_open, placed, lost, pc, job>>
shared == <<adapters, config, placed, lost>>

register(name) ==
    /\ name \notin adapters
    /\ adapters' = adapters \union {name}
    /\ UNCHANGED others

unregister(name) ==
    /\ name \in adapters
    /\ adapters' = adapters \ {name}
    /\ UNCHANGED others

Goto(t, label) == pc' = [pc EXCEPT ![t] = label]

\* process(): readiness and authentication.  Nothing is open yet.
process(t) ==
    /\ pc[t] = "exchange"
    /\ UNCHANGED <<shared, connection, left_open>>
    /\ \/ /\ ~Execution!ready(job[t].execution)
          /\ job' = [job EXCEPT ![t].result = "failed"]
          /\ Goto(t, "returned")
       \/ /\ Execution!ready(job[t].execution)
          /\ \E auth \in AuthOutcomes, context \in ExchangeInputs :
                IF auth = "authenticated"
                THEN /\ job' = [job EXCEPT ![t].context = context]
                     /\ Goto(t, "open")
                ELSE /\ job' = [job EXCEPT ![t].result = "failed"]
                     /\ Goto(t, "returned")

\* connection.open(): one that does not connect is not closed.
open(t) ==
    /\ pc[t] = "open"
    /\ UNCHANGED shared
    /\ \E outcome \in ConnectOutcomes :
          \/ /\ outcome = "connected"
             /\ Venue!connect
             /\ Goto(t, "opened")
             /\ UNCHANGED job
          \/ /\ outcome # "connected"
             /\ Goto(t, "returned")
             /\ job' = [job EXCEPT ![t].result = "failed"]
             /\ UNCHANGED <<connection, left_open>>

valid(context) == context.symbol # "" /\ context.exchange # ""

\* Mutant of route: the early return of a failed validation does not close.
Mutant_InvalidLeftOpen(t) ==
    /\ pc[t] = "opened"
    /\ UNCHANGED <<shared, connection, left_open>>
    /\ \/ /\ ~valid(job[t].context)
          /\ job' = [job EXCEPT ![t].result = "failed"]
          /\ Goto(t, "returned")
       \/ /\ valid(job[t].context)
          /\ Goto(t, "submit")
          /\ UNCHANGED job

\* Validation and routing: to an error (an invalid request, or an injected
\* router that raises ExchangeError), to an adapter that is not registered (the request is
\* reported READY and goes nowhere), or to one that is.
route(t) ==
    /\ pc[t] = "opened"
    /\ UNCHANGED <<shared, connection, left_open>>
    /\ \/ /\ job' = [job EXCEPT ![t].result = "failed"]
          /\ Goto(t, "close")
       \/ /\ valid(job[t].context)
          /\ job[t].context.adapter \notin adapters
          /\ job' = [job EXCEPT ![t].result = "ready"]
          /\ Goto(t, "close")
       \/ /\ valid(job[t].context)
          /\ job[t].context.adapter \in adapters
          /\ Goto(t, "submit")
          /\ UNCHANGED job

_close(t) ==
    /\ pc[t] = "close"
    /\ Venue!close
    /\ Goto(t, "returned")
    /\ UNCHANGED <<shared, job>>
=============================================================================
