---------------------------- MODULE BinanceStream ----------------------------
(***************************************************************************)
(* The WebSocket client of the Binance adapter (adapters/binance/            *)
(* websocket.py).  A message is handed to the transport in the call of       *)
(* send(), which raises if there is no connection, and may raise if there is *)
(* one; the exchange (external) handles a connection's messages in order and *)
(* forgets its streams with it.  A reconnect() can be cancelled at each of    *)
(* its awaits; of the other calls, which await the transport once, what a     *)
(* cancellation leaves is what a step, or none, leaves.                      *)
(***************************************************************************)
EXTENDS Integers, FiniteSets

CONSTANTS
    Clients,         \* tasks that use the client
    Streams,         \* stream names
    MaxReconnects    \* bound: connects, disconnects and reconnects

VARIABLES
    connected,      \* StreamTransport.connected
    streams,        \* external: what the exchange sends on the connection
    _subscriptions, \* BinanceWebSocketClient._subscriptions
    reconnecting,   \* per task, where its reconnect() is
    restored,       \* auxiliary: the connection is a reconnect()'s, not connect()'s
    missed,         \* auxiliary: whose SUBSCRIBE was cut off since it was made, by an
                    \* exception of send() or a cancellation of reconnect()
    reconnects

stream == <<connected, streams, _subscriptions, reconnecting, restored, missed, reconnects>>

Out == [at |-> "out", left |-> {}]

StreamInit ==
    /\ connected = FALSE
    /\ streams = {}
    /\ _subscriptions = {}
    /\ reconnecting = [t \in Clients |-> Out]
    /\ restored = FALSE
    /\ missed = {}
    /\ reconnects = 0

Goto(t, at, left) == reconnecting' = [reconnecting EXCEPT ![t] = [at |-> at, left |-> left]]

\* A connection is lost, or closed by the client.
Close ==
    /\ connected' = FALSE
    /\ streams' = {}
    /\ missed' = {}

\* A new connection, which has no streams yet.
Open ==
    /\ connected' = TRUE
    /\ streams' = {}
    /\ missed' = {}

Drop ==
    /\ connected
    /\ Close
    /\ UNCHANGED <<_subscriptions, reconnecting, restored, reconnects>>

connect(t) ==
    /\ reconnecting[t] = Out
    /\ reconnects < MaxReconnects
    /\ reconnects' = reconnects + 1
    /\ Open
    /\ restored' = FALSE
    /\ UNCHANGED <<_subscriptions, reconnecting>>

disconnect(t) ==
    /\ reconnecting[t] = Out
    /\ reconnects < MaxReconnects
    /\ reconnects' = reconnects + 1
    /\ Close
    /\ UNCHANGED <<_subscriptions, reconnecting, restored>>

\* send() of SUBSCRIBE for a stream, out of those still to be sent: the exchange
\* gets it, or send() raises, as it does without a connection.
Sends(name) ==
    /\ connected
    /\ streams' = streams \union {name}
    /\ UNCHANGED missed

Raises(left) ==
    /\ missed' = IF connected THEN missed \union left ELSE missed
    /\ UNCHANGED streams

\* The set is updated first, and stays so if send() raises.
subscribe(t, name) ==
    /\ reconnecting[t] = Out
    /\ _subscriptions' = _subscriptions \union {name}
    /\ Sends(name) \/ Raises({name})
    /\ UNCHANGED <<connected, reconnecting, restored, reconnects>>

unsubscribe(t, name) ==
    /\ reconnecting[t] = Out
    /\ _subscriptions' = _subscriptions \ {name}
    /\ \/ connected /\ streams' = streams \ {name}
       \/ UNCHANGED streams
    /\ UNCHANGED <<connected, reconnecting, restored, missed, reconnects>>

\* reconnect(): announce, close, connect, send every subscription again.
reconnect(t) ==
    /\ reconnecting[t] = Out
    /\ reconnects < MaxReconnects
    /\ reconnects' = reconnects + 1
    /\ Goto(t, "close", {})
    /\ UNCHANGED <<connected, streams, _subscriptions, restored, missed>>

Closed(t) ==
    /\ reconnecting[t].at = "close"
    /\ Close
    /\ Goto(t, "connect", {})
    /\ UNCHANGED <<_subscriptions, restored, reconnects>>

\* The transport's connect() succeeds or raises BinanceWebSocketError.
Connected(t) ==
    /\ reconnecting[t].at = "connect"
    /\ \/ Open /\ Goto(t, "snapshot", {}) /\ restored' = TRUE
       \/ Goto(t, "out", {}) /\ UNCHANGED <<connected, streams, restored, missed>>
    /\ UNCHANGED <<_subscriptions, reconnects>>

\* Mutant of Snapshot: what was known when the connection was closed.
Mutant_SnapshotEarly(t) ==
    /\ reconnecting[t].at = "snapshot"
    /\ Goto(t, "send", reconnecting[t].left)
    /\ UNCHANGED <<connected, streams, _subscriptions, restored, missed, reconnects>>

Snapshot(t) ==
    /\ reconnecting[t].at = "snapshot"
    /\ Goto(t, "send", _subscriptions)
    /\ UNCHANGED <<connected, streams, _subscriptions, restored, missed, reconnects>>

\* One stream after the other, in the order of the set; the first exception ends
\* it, and nobody sends the rest.
Send(t) ==
    /\ reconnecting[t].at = "send"
    /\ \E name \in reconnecting[t].left :
          \/ Sends(name) /\ Goto(t, "send", reconnecting[t].left \ {name})
          \/ Raises(reconnecting[t].left) /\ Goto(t, "out", {})
    /\ UNCHANGED <<connected, _subscriptions, restored, reconnects>>

\* asyncio cancels the task in its reconnect().  A connection just made, or half
\* served, stays without the streams that were to be sent.
Cancel(t) ==
    /\ reconnecting[t] # Out
    /\ Goto(t, "out", {})
    /\ \/ reconnecting[t].at \in {"close", "connect"} /\ UNCHANGED <<streams, missed>>
       \/ reconnecting[t].at = "snapshot" /\ Raises(_subscriptions)
       \/ reconnecting[t].at = "send" /\ Raises(reconnecting[t].left)
    /\ UNCHANGED <<connected, _subscriptions, restored, reconnects>>

Succeeded(t) ==
    /\ reconnecting[t].at = "send"
    /\ reconnecting[t].left = {}
    /\ Goto(t, "out", {})
    /\ UNCHANGED <<connected, streams, _subscriptions, restored, missed, reconnects>>

StreamNext ==
    \/ Drop
    \/ \E t \in Clients :
        \/ connect(t) \/ disconnect(t) \/ reconnect(t)
        \/ Closed(t) \/ Connected(t) \/ Snapshot(t) \/ Send(t) \/ Succeeded(t)
        \/ Cancel(t)
        \/ \E name \in Streams : subscribe(t, name) \/ unsubscribe(t, name)

-----------------------------------------------------------------------------
(* Properties.                                                               *)

StreamTypeOK ==
    /\ streams \subseteq Streams
    /\ _subscriptions \subseteq Streams
    /\ missed \subseteq Streams
    /\ \A t \in Clients :
           /\ reconnecting[t].at \in {"out", "close", "connect", "snapshot", "send"}
           /\ reconnecting[t].left \subseteq Streams

\* On a connection that reconnect() made, no subscription is missing once the
\* reconnects have ended: also one made while there was no connection, or while
\* the old ones were being sent again.  The exception are those whose SUBSCRIBE an
\* exception of send() or a cancellation cut off: the caller of subscribe() or
\* reconnect() is told, and the stream stays out until the next reconnect().
SubscriptionsSurvive ==
  /\ StreamTypeOK
  /\ (connected /\ restored /\ \A t \in Clients : reconnecting[t] = Out) =>
        _subscriptions \subseteq streams \union missed
=============================================================================
