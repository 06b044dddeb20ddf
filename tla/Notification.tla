----------------------------- MODULE Notification -----------------------------
(***************************************************************************)
(* The notification framework (notification/): the sources of the highest   *)
(* priority become notifications, those at the threshold delivery requests  *)
(* on the channel of their source.                                          *)
(***************************************************************************)
EXTENDS Cycle

NotificationState ==
    {"created", "collecting", "formatted", "completed", "cancelled",
     "failed"}

VALID_TRANSITIONS ==
    [created    |-> {"collecting", "cancelled"},
     collecting |-> {"collecting", "formatted", "completed", "cancelled",
                     "failed"},
     formatted  |-> {"collecting", "formatted", "completed", "cancelled",
                     "failed"},
     completed |-> {}, cancelled |-> {}, failed |-> {}]

can_transition(source, target) ==
    \/ source = target /\ target \in {"collecting", "formatted"}
    \/ target \in VALID_TRANSITIONS[source]

_TERMINAL == {"completed", "cancelled", "failed"}

NotificationParameters(input) ==
    [priority_threshold |-> input.threshold, max_notifications |-> input.limit]
NotificationSource == Item
\* A channel is named by its source; 0 stands for the default, "general".
NotificationEntry ==
    [source : NotificationSource, deliver : BOOLEAN, channel : Nat]
NotificationBatch == [sources : Seq(NotificationSource), notifications : Seq(NotificationEntry)]
NotificationRequest ==
    [subject : Nat, source : Nat, channel : Nat,
     category : STRING, priority : Int]
NotificationHistory == Seq(NotificationBatch)
NotificationRecord ==
    [id : Ids, state : NotificationState, history : NotificationHistory, batch : NotificationBatch,
     requests : Seq(NotificationRequest), notification_count : Nat, request_count : Nat]
NotificationMetrics ==
    [total_notifications : Nat, total_requests : Nat, average_priority_score : Int,
     highest_priority_notification : Nat, lowest_priority_notification : Nat, delivery_ratio : Nat,
     pending_requests_count : Nat, suppressed_requests_count : Nat]
NotificationSnapshot == [record : NotificationRecord, metrics : NotificationMetrics]
NotificationResult ==
    {NoResult} \union [status : {"failed"}] \union
    [status : {"cancelled"}, record : NotificationRecord] \union
    [status : {"success"}, snapshot : NotificationSnapshot]

NotificationEvents ==
    {"NotificationStarted", "NotificationCollected",
     "NotificationFormatted", "RequestsGenerated",
     "NotificationSnapshotCreated", "NotificationMetricsUpdated",
     "NotificationCompleted", "NotificationCancelled",
     "NotificationErrorOccurred"}

\* A call's context: the groups of sources of an input, its parameters and
\* whether it asks for cancellation.
NotificationContext(input, cancel) ==
    [monitoring_sources |-> input.feed[1],
     dashboard_sources |-> input.feed[2],
     optimization_sources |-> input.feed[3],
     learning_sources |-> input.feed[4],
     parameters |-> NotificationParameters(input),
     cancel |-> cancel]

Candidates(context) ==
    context.monitoring_sources \o
    context.dashboard_sources \o
    context.optimization_sources \o
    context.learning_sources

-----------------------------------------------------------------------------

_sources(context) ==
    Slice(SortedBy(Candidates(context), LAMBDA s : <<-s.score, s.source, s.name>>),
          context.parameters.max_notifications)

\* collect(): the sources, each with an entry of default values.
collect(context) ==
    LET sources == _sources(context)
    IN  [sources |-> sources,
         notifications |-> Map(sources, LAMBDA s :
             [source |-> s, deliver |-> TRUE, channel |-> 0])]

_notification(source, parameters) ==
    [source |-> source,
     deliver |-> source.score >= parameters.priority_threshold,
     channel |-> source.source]

format(batch, context) ==
    [batch EXCEPT !.notifications =
        Map(batch.sources, LAMBDA s : _notification(s, context.parameters))]

dispatch(batch) ==
    Map(SelectSeq(batch.notifications, LAMBDA e : e.deliver),
        LAMBDA e : [subject |-> e.source.name, source |-> e.source.source,
                    channel |-> e.channel, category |-> e.source.kind,
                    priority |-> e.source.score])

\* Decimal("NaN"): sorting it raises, and so does comparing it with the
\* threshold.
Raises(context) ==
    \/ SortRaises(Candidates(context))
    \/ NaN \in Scores(Slice(Candidates(context), context.parameters.max_notifications))

\* The metrics of a record; averages and ratios by their numerators.
_calculate(record) ==
    LET sources == record.batch.sources
        notifications == record.batch.notifications
        chosen == Count(notifications, LAMBDA e : e.deliver)
    IN  [total_notifications |-> record.notification_count,
         total_requests |-> record.request_count,
         average_priority_score |-> Total(Map(sources, LAMBDA s : s.score)),
         highest_priority_notification |-> IF sources = <<>> THEN 0 ELSE Highest(sources).name,
         lowest_priority_notification |-> IF sources = <<>> THEN 0 ELSE Lowest(sources).name,
         delivery_ratio |-> chosen,
         pending_requests_count |-> Len(record.requests),
         suppressed_requests_count |-> Len(notifications) - chosen]

-----------------------------------------------------------------------------

register(record) == Register(record)

unregister(id) == Forget({id} \intersect DOMAIN records)

clear == Forget(DOMAIN records)

_new_record(id) ==
    [id |-> id, state |-> "collecting", history |-> <<>>,
     batch |-> [sources |-> <<>>, notifications |-> <<>>], requests |-> <<>>,
     notification_count |-> 0, request_count |-> 0]

_fail(t, id) == Failed(t, id, <<"NotificationErrorOccurred">>)

\* _compute(), under the manager's lock: cancellation, or the three stages and
\* the next record with its snapshot.
_compute(t, id, context) ==
    LET record == Get(id, _new_record(id))
        cancelled == [record EXCEPT !.state = "cancelled"]
        batch == format(collect(context), context)
        requests == dispatch(batch)
        next == [record EXCEPT !.state = "formatted",
                               !.history = Append(@, batch),
                               !.batch = batch,
                               !.requests = requests,
                               !.notification_count = @ + Len(batch.notifications),
                               !.request_count = @ + Len(requests)]
    IN  /\ record.state \notin _TERMINAL
        /\ \/ /\ context.cancel
              /\ register(cancelled)
              /\ Cancelled(t, cancelled,
                     <<"NotificationStarted", "NotificationCancelled">>)
           \/ /\ ~context.cancel
              /\ ~Raises(context)
              /\ register(next)
              /\ Succeeded(t, next, _calculate(next), context,
                     <<"NotificationStarted", "NotificationCollected",
                       "NotificationFormatted", "RequestsGenerated",
                       "NotificationSnapshotCreated",
                       "NotificationMetricsUpdated", "NotificationCompleted">>)

\* notify(): an exception of _compute() ends in _fail(); otherwise the
\* events are published once the record is registered.
notify(t, id, context) ==
    \/ _compute(t, id, context)
    \/ /\ \/ Get(id, _new_record(id)).state \in _TERMINAL
          \/ ~context.cancel /\ Raises(context)
       /\ _fail(t, id)

\* The engine hands every context to its manager.
DefaultNotificationEngine ==
    \E t \in Tasks, id \in Ids, input \in Inputs, cancel \in BOOLEAN :
        notify(t, id, NotificationContext(input, cancel))

-----------------------------------------------------------------------------

TypeOK ==
    /\ \A id \in DOMAIN records :
          records[id] \in NotificationRecord /\ records[id].id = id
    /\ \A t \in Tasks : results[t] \in NotificationResult
    /\ \A t \in Tasks : ToSet(pending[t]) \subseteq Ids \X NotificationEvents

\* The record is the sum of its history: the last batch with its requests, and the
\* totals over all batches.
HistoryExplainsRecord(record) ==
    /\ record.history # <<>> => record.batch = Last(record.history)
    /\ record.requests = dispatch(record.batch)
    /\ record.notification_count = TotalLength(record.history, LAMBDA b : Len(b.notifications))
    /\ record.request_count = TotalLength(record.history, LAMBDA b : Len(dispatch(b)))

\* Every source at or above the threshold has its request unless max_notifications
\* sources of no lower priority have one.
UrgentAreHandled(record, context) ==
    MostUrgentFirst(Candidates(context),
                    LAMBDA c : c.score >= context.parameters.priority_threshold,
                    Requested(Candidates(context), record.requests),
                    context.parameters.max_notifications, >)

\* What the metrics call pending and suppressed is all the batch holds.
MetricsAgree(snapshot) ==
    /\ Len(snapshot.record.batch.notifications) =
          snapshot.metrics.pending_requests_count +
          snapshot.metrics.suppressed_requests_count
    /\ snapshot.metrics.delivery_ratio = snapshot.metrics.pending_requests_count
=============================================================================
