------------------------------- MODULE Scheduler ------------------------------
(***************************************************************************)
(* The scheduler framework (scheduler/): the sources of the highest priority*)
(* become schedule entries, those at the threshold dispatch requests of a   *)
(* supported cadence.  Nothing is ever run by it.                           *)
(***************************************************************************)
EXTENDS Cycle

SchedulerState ==
    {"created", "collecting", "planned", "completed", "cancelled", "failed"}

VALID_TRANSITIONS ==
    [created    |-> {"collecting", "cancelled"},
     collecting |-> {"collecting", "planned", "completed", "cancelled",
                     "failed"},
     planned    |-> {"collecting", "planned", "completed", "cancelled",
                     "failed"},
     completed |-> {}, cancelled |-> {}, failed |-> {}]

can_transition(source, target) ==
    \/ source = target /\ target \in {"collecting", "planned"}
    \/ target \in VALID_TRANSITIONS[source]

_TERMINAL == {"completed", "cancelled", "failed"}

SUPPORTED_SCHEDULE_CADENCES ==
    {"once", "interval", "cron", "daily", "weekly", "monthly"}
SchedulerParameters(input) ==
    [priority_threshold |-> input.threshold, max_items |-> input.limit]
ScheduleSource == Item
ScheduleEntry ==
    [source : ScheduleSource, dispatch : BOOLEAN, cadence : SUPPORTED_SCHEDULE_CADENCES]
ScheduleBatch == [sources : Seq(ScheduleSource), entries : Seq(ScheduleEntry)]
ScheduleRequest ==
    [subject : Nat, source : Nat, cadence : SUPPORTED_SCHEDULE_CADENCES,
     category : STRING, priority : Int]
SchedulerHistory == Seq(ScheduleBatch)
SchedulerRecord ==
    [id : Ids, state : SchedulerState, history : SchedulerHistory, batch : ScheduleBatch,
     requests : Seq(ScheduleRequest), entry_count : Nat, request_count : Nat]
SchedulerMetrics ==
    [total_entries : Nat, total_requests : Nat, average_schedule_score : Int,
     highest_priority_entry : Nat, lowest_priority_entry : Nat, dispatch_ratio : Nat,
     pending_requests_count : Nat, suppressed_requests_count : Nat]
SchedulerSnapshot == [record : SchedulerRecord, metrics : SchedulerMetrics]
SchedulerResult ==
    {NoResult} \union [status : {"failed"}] \union
    [status : {"cancelled"}, record : SchedulerRecord] \union
    [status : {"success"}, snapshot : SchedulerSnapshot]

SchedulerEvents ==
    {"SchedulerStarted", "ScheduleCollected", "SchedulePlanned",
     "RequestsDispatched", "SchedulerSnapshotCreated",
     "SchedulerMetricsUpdated", "SchedulerCompleted", "SchedulerCancelled",
     "SchedulerErrorOccurred"}

\* A call's context: the groups of sources of an input, its parameters and
\* whether it asks for cancellation.
SchedulerContext(input, cancel) ==
    [storage_sources |-> input.feed[1],
     reporting_sources |-> input.feed[2],
     notification_sources |-> input.feed[3],
     monitoring_sources |-> input.feed[4],
     optimization_sources |-> input.feed[5],
     parameters |-> SchedulerParameters(input),
     cancel |-> cancel]

Candidates(context) ==
    context.storage_sources \o
    context.reporting_sources \o
    context.notification_sources \o
    context.monitoring_sources \o
    context.optimization_sources

-----------------------------------------------------------------------------

_sources(context) ==
    Slice(SortedBy(Candidates(context), LAMBDA s : <<-s.score, s.source, s.name>>),
          context.parameters.max_items)

\* collect(): the sources, each with an entry of default values.
collect(context) ==
    LET sources == _sources(context)
    IN  [sources |-> sources,
         entries |-> Map(sources, LAMBDA s :
             [source |-> s, dispatch |-> TRUE, cadence |-> "once"])]

_entry(source, parameters) ==
    [source |-> source,
     dispatch |-> source.score >= parameters.priority_threshold,
     cadence |-> IF source.kind \in SUPPORTED_SCHEDULE_CADENCES
                  THEN source.kind ELSE "once"]

plan(batch, context) ==
    [batch EXCEPT !.entries =
        Map(batch.sources, LAMBDA s : _entry(s, context.parameters))]

dispatch(batch) ==
    Map(SelectSeq(batch.entries, LAMBDA e : e.dispatch),
        LAMBDA e : [subject |-> e.source.name, source |-> e.source.source,
                    cadence |-> e.cadence, category |-> e.source.kind,
                    priority |-> e.source.score])

\* Decimal("NaN"): sorting it raises, and so does comparing it with the
\* threshold.
Raises(context) ==
    \/ SortRaises(Candidates(context))
    \/ NaN \in Scores(Slice(Candidates(context), context.parameters.max_items))

\* The metrics of a record; averages and ratios by their numerators.
_calculate(record) ==
    LET sources == record.batch.sources
        entries == record.batch.entries
        chosen == Count(entries, LAMBDA e : e.dispatch)
    IN  [total_entries |-> record.entry_count,
         total_requests |-> record.request_count,
         average_schedule_score |-> Total(Map(sources, LAMBDA s : s.score)),
         highest_priority_entry |-> IF sources = <<>> THEN 0 ELSE Highest(sources).name,
         lowest_priority_entry |-> IF sources = <<>> THEN 0 ELSE Lowest(sources).name,
         dispatch_ratio |-> chosen,
         pending_requests_count |-> Len(record.requests),
         suppressed_requests_count |-> Len(entries) - chosen]

-----------------------------------------------------------------------------

register(record) == Register(record)

unregister(id) == Forget({id} \intersect DOMAIN records)

clear == Forget(DOMAIN records)

_new_record(id) ==
    [id |-> id, state |-> "collecting", history |-> <<>>,
     batch |-> [sources |-> <<>>, entries |-> <<>>], requests |-> <<>>,
     entry_count |-> 0, request_count |-> 0]

_fail(t, id) == Failed(t, id, <<"SchedulerErrorOccurred">>)

\* _compute(), under the manager's lock: cancellation, or the three stages and
\* the next record with its snapshot.
_compute(t, id, context) ==
    LET record == Get(id, _new_record(id))
        cancelled == [record EXCEPT !.state = "cancelled"]
        batch == plan(collect(context), context)
        requests == dispatch(batch)
        next == [record EXCEPT !.state = "planned",
                               !.history = Append(@, batch),
                               !.batch = batch,
                               !.requests = requests,
                               !.entry_count = @ + Len(batch.entries),
                               !.request_count = @ + Len(requests)]
    IN  /\ record.state \notin _TERMINAL
        /\ \/ /\ context.cancel
              /\ register(cancelled)
              /\ Cancelled(t, cancelled,
                     <<"SchedulerStarted", "SchedulerCancelled">>)
           \/ /\ ~context.cancel
              /\ ~Raises(context)
              /\ register(next)
              /\ Succeeded(t, next, _calculate(next), context,
                     <<"SchedulerStarted", "ScheduleCollected",
                       "SchedulePlanned", "RequestsDispatched",
                       "SchedulerSnapshotCreated", "SchedulerMetricsUpdated",
                       "SchedulerCompleted">>)

\* schedule(): an exception of _compute() ends in _fail(); otherwise the
\* events are published once the record is registered.
schedule(t, id, context) ==
    \/ _compute(t, id, context)
    \/ /\ \/ Get(id, _new_record(id)).state \in _TERMINAL
          \/ ~context.cancel /\ Raises(context)
       /\ _fail(t, id)

\* The engine hands every context to its manager.
DefaultSchedulerEngine ==
    \E t \in Tasks, id \in Ids, input \in Inputs, cancel \in BOOLEAN :
        schedule(t, id, SchedulerContext(input, cancel))

-----------------------------------------------------------------------------

TypeOK ==
    /\ \A id \in DOMAIN records :
          records[id] \in SchedulerRecord /\ records[id].id = id
    /\ \A t \in Tasks : results[t] \in SchedulerResult
    /\ \A t \in Tasks : ToSet(pending[t]) \subseteq Ids \X SchedulerEvents

\* The record is the sum of its history: the last batch with its requests, and the
\* totals over all batches.
HistoryExplainsRecord(record) ==
    /\ record.history # <<>> => record.batch = Last(record.history)
    /\ record.requests = dispatch(record.batch)
    /\ record.entry_count = TotalLength(record.history, LAMBDA b : Len(b.entries))
    /\ record.request_count = TotalLength(record.history, LAMBDA b : Len(dispatch(b)))

\* Every source at or above the threshold has its request unless max_items
\* sources of no lower priority have one.
UrgentAreHandled(record, context) ==
    MostUrgentFirst(Candidates(context),
                    LAMBDA c : c.score >= context.parameters.priority_threshold,
                    Requested(Candidates(context), record.requests),
                    context.parameters.max_items, >)

\* What the metrics call pending and suppressed is all the batch holds.
MetricsAgree(snapshot) ==
    /\ Len(snapshot.record.batch.entries) =
          snapshot.metrics.pending_requests_count +
          snapshot.metrics.suppressed_requests_count
    /\ snapshot.metrics.dispatch_ratio = snapshot.metrics.pending_requests_count
=============================================================================
