------------------------------ MODULE EventBus ------------------------------
(***************************************************************************)
(* The in-process event bus (events/bus.py, events/subscriber.py).  publish  *)
(* takes a snapshot of the handlers of the event's type and of its base      *)
(* types, starts them all and waits for every one (asyncio.gather with       *)
(* return_exceptions); subscriptions come and go while they run.             *)
(***************************************************************************)
EXTENDS Integers, SequencesExt

CONSTANTS
    Publishers,        \* the tasks that publish
    Handlers,          \* handler functions: one may be subscribed several times
    MaxSubscriptions,  \* bound: subscriptions made in a behaviour
    MaxPublishes       \* bound: events published in a behaviour

VARIABLES
    handlers,        \* _handlers: event type -> list of handlers
    subscriptions,   \* the Subscription objects, in the order they were made
    publications,    \* per task, the publish() it is in or was in last
    publishes,       \* events published so far
    orphaned         \* auxiliary: a subscription that clear() removed was
                     \* unsubscribed later

bus == <<handlers, subscriptions, publications, publishes, orphaned>>

\* A heartbeat is a system event, which is an event.
EventTypes == {"Event", "SystemEvent", "Heartbeat"}
mro == [Event       |-> <<"Event">>,
        SystemEvent |-> <<"SystemEvent", "Event">>,
        Heartbeat   |-> <<"Heartbeat", "SystemEvent", "Event">>]

Subscription(type, handler) ==
    [event_type |-> type, handler |-> handler, active |-> TRUE, cleared |-> FALSE]

NoPublication == [status |-> "none"]

BusInit ==
    /\ handlers = [type \in EventTypes |-> <<>>]
    /\ subscriptions = <<>>
    /\ publications = [t \in Publishers |-> NoPublication]
    /\ publishes = 0
    /\ orphaned = FALSE

subscribe(type, handler) ==
    /\ Len(subscriptions) < MaxSubscriptions
    /\ handlers' = [handlers EXCEPT ![type] = Append(@, handler)]
    /\ subscriptions' = Append(subscriptions, Subscription(type, handler))
    /\ UNCHANGED <<publications, publishes, orphaned>>

subscribe_all(handler) == subscribe("Event", handler)

\* list.remove: the first occurrence goes.
remove(list, handler) ==
    IF \E i \in DOMAIN list : list[i] = handler
    THEN RemoveAt(list, CHOOSE i \in DOMAIN list :
                            list[i] = handler /\ \A j \in 1..(i - 1) : list[j] # handler)
    ELSE list

\* Mutant of unsubscribe: it can be done twice.
Mutant_UnsubscribeAgain(i) ==
    LET subscription == subscriptions[i]
    IN  /\ i \in DOMAIN subscriptions
        /\ handlers' = [handlers EXCEPT ![subscription.event_type] =
                            remove(@, subscription.handler)]
        /\ subscriptions' = [subscriptions EXCEPT ![i].active = FALSE]
        /\ orphaned' = (orphaned \/ subscription.cleared)
        /\ UNCHANGED <<publications, publishes>>
unsubscribe(i) ==
    LET subscription == subscriptions[i]
    IN  /\ i \in DOMAIN subscriptions
        /\ subscription.active
        /\ handlers' = [handlers EXCEPT ![subscription.event_type] =
                            remove(@, subscription.handler)]
        /\ subscriptions' = [subscriptions EXCEPT ![i].active = FALSE]
        /\ orphaned' = (orphaned \/ subscription.cleared)
        /\ UNCHANGED <<publications, publishes>>

\* clear() leaves the Subscription objects as they are.
clear ==
    /\ handlers' = [type \in EventTypes |-> <<>>]
    /\ subscriptions' = [i \in DOMAIN subscriptions |->
                            [subscriptions[i] EXCEPT !.cleared = TRUE]]
    /\ UNCHANGED <<publications, publishes, orphaned>>

_matching_handlers(type) == FlattenSeq([i \in DOMAIN mro[type] |-> handlers[mro[type][i]]])

\* How often each handler is due: once for each subscription in force.
Due(type) ==
    [h \in Handlers |->
        Cardinality({i \in DOMAIN subscriptions :
            /\ subscriptions[i].handler = h
            /\ subscriptions[i].active
            /\ ~subscriptions[i].cleared
            /\ subscriptions[i].event_type \in ToSet(mro[type])})]

\* publish(event): without handlers it returns at once.
publish(t, type) ==
    /\ publications[t].status # "running"
    /\ publishes < MaxPublishes
    /\ publishes' = publishes + 1
    /\ publications' = [publications EXCEPT ![t] =
           [status |-> IF _matching_handlers(type) = <<>> THEN "returned" ELSE "running",
            called |-> _matching_handlers(type), started |-> 0, finished |-> {},
            due |-> Due(type)]]
    /\ UNCHANGED <<handlers, subscriptions, orphaned>>

\* The event loop runs the handlers' tasks, in the order they were created, up to
\* their first await.
HandlerStarts(t) ==
    /\ publications[t].status = "running"
    /\ publications[t].started < Len(publications[t].called)
    /\ publications' = [publications EXCEPT ![t].started = @ + 1]
    /\ UNCHANGED <<handlers, subscriptions, publishes, orphaned>>

\* A handler returns or raises; the others are not affected.
HandlerEnds(t, i, raises) ==
    /\ publications[t].status = "running"
    /\ i \in 1..publications[t].started \ publications[t].finished
    /\ publications' = [publications EXCEPT ![t].finished = @ \union {i}]
    /\ UNCHANGED <<handlers, subscriptions, publishes, orphaned>>

\* All handlers have ended: publish() returns.
Gathered(t) ==
    /\ publications[t].status = "running"
    /\ publications[t].finished = DOMAIN publications[t].called
    /\ publications' = [publications EXCEPT ![t].status = "returned"]
    /\ UNCHANGED <<handlers, subscriptions, publishes, orphaned>>

Delivery(t) ==
    \/ HandlerStarts(t)
    \/ \E i \in 1..MaxSubscriptions, raises \in BOOLEAN : HandlerEnds(t, i, raises)
    \/ Gathered(t)

BusNext ==
    \/ \E type \in EventTypes, h \in Handlers : subscribe(type, h)
    \/ \E h \in Handlers : subscribe_all(h)
    \/ \E i \in 1..MaxSubscriptions : unsubscribe(i)
    \/ clear
    \/ \E t \in Publishers, type \in EventTypes : publish(t, type)
    \/ \E t \in Publishers : Delivery(t)

\* Handlers end: the bus sets no limit to the time they take.
BusFairness == \A t \in Publishers : WF_bus(Delivery(t))

-----------------------------------------------------------------------------
(* Properties.                                                               *)

BusTypeOK ==
    /\ handlers \in [EventTypes -> Seq(Handlers)]
    /\ \A i \in DOMAIN subscriptions : subscriptions[i].event_type \in EventTypes
    /\ \A t \in Publishers : publications[t].status \in {"none", "running", "returned"}

\* When publish() returns, every subscription that was in force when it was called
\* has had its handler called to the end, once, and no other has, whatever was
\* subscribed, unsubscribed, cleared or raised meanwhile.  (The exception: a
\* subscription that clear() removed is still active, and unsubscribing it takes
\* away a later subscription of the same handler.)
DeliveredOnce ==
  /\ BusTypeOK
  /\ \A t \in Publishers : LET p == publications[t] IN
        (p.status = "returned" /\ ~orphaned) =>
            /\ p.finished = DOMAIN p.called
            /\ \A h \in Handlers :
                   Cardinality({i \in DOMAIN p.called : p.called[i] = h}) = p.due[h]

\* A publication comes to its end although handlers raise and unsubscribe.
PublishReturns ==
    \A t \in Publishers :
        publications[t].status = "running" ~> publications[t].status = "returned"
=============================================================================
