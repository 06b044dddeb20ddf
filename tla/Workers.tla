-------------------------------- MODULE Workers -------------------------------
(***************************************************************************)
(* The workers framework (workers/): the sources of the highest priority    *)
(* become jobs, those at the threshold dispatch requests for a supported    *)
(* queue.  No job is run by it.                                             *)
(***************************************************************************)
EXTENDS Cycle

WorkerState ==
    {"created", "collecting", "queued", "completed", "cancelled", "failed"}

VALID_TRANSITIONS ==
    [created    |-> {"collecting", "cancelled"},
     collecting |-> {"collecting", "queued", "completed", "cancelled",
                     "failed"},
     queued     |-> {"collecting", "queued", "completed", "cancelled",
                     "failed"},
     completed |-> {}, cancelled |-> {}, failed |-> {}]

can_transition(source, target) ==
    \/ source = target /\ target \in {"collecting", "queued"}
    \/ target \in VALID_TRANSITIONS[source]

\* Mutant of _TERMINAL: a cancelled record takes further work.
Mutant_CancelledGoesOn == {"completed", "failed"}
_TERMINAL == {"completed", "cancelled", "failed"}

SUPPORTED_WORKER_QUEUES ==
    {"immediate", "delayed", "scheduled", "retry", "priority", "batch"}
WorkerParameters(input) ==
    [priority_threshold |-> input.threshold, max_items |-> input.limit]
JobSource == Item
JobEntry ==
    [source : JobSource, dispatch : BOOLEAN, queue : SUPPORTED_WORKER_QUEUES]
JobBatch == [sources : Seq(JobSource), entries : Seq(JobEntry)]
WorkerRequest ==
    [subject : Nat, source : Nat, queue : SUPPORTED_WORKER_QUEUES,
     category : STRING, priority : Int]
WorkerHistory == Seq(JobBatch)
WorkerRecord ==
    [id : Ids, state : WorkerState, history : WorkerHistory, batch : JobBatch,
     requests : Seq(WorkerRequest), job_count : Nat, request_count : Nat]
WorkerMetrics ==
    [total_jobs : Nat, total_requests : Nat, average_job_score : Int,
     highest_priority_job : Nat, lowest_priority_job : Nat, dispatch_ratio : Nat,
     pending_requests_count : Nat, suppressed_requests_count : Nat]
WorkerSnapshot == [record : WorkerRecord, metrics : WorkerMetrics]
WorkerResult ==
    {NoResult} \union [status : {"failed"}] \union
    [status : {"cancelled"}, record : WorkerRecord] \union
    [status : {"success"}, snapshot : WorkerSnapshot]

WorkerEvents ==
    {"WorkerStarted", "JobsCollected", "JobsQueued", "RequestsDispatched",
     "WorkerSnapshotCreated", "WorkerMetricsUpdated", "WorkerCompleted",
     "WorkerCancelled", "WorkerErrorOccurred"}

\* A call's context: the groups of sources of an input, its parameters and
\* whether it asks for cancellation.
WorkerContext(input, cancel) ==
    [storage_sources |-> input.feed[1],
     reporting_sources |-> input.feed[2],
     notification_sources |-> input.feed[3],
     monitoring_sources |-> input.feed[4],
     scheduler_sources |-> input.feed[5],
     parameters |-> WorkerParameters(input),
     cancel |-> cancel]

Candidates(context) ==
    context.storage_sources \o
    context.reporting_sources \o
    context.notification_sources \o
    context.monitoring_sources \o
    context.scheduler_sources

-----------------------------------------------------------------------------

_sources(context) ==
    Slice(SortedBy(Candidates(context), LAMBDA s : <<-s.score, s.source, s.name>>),
          context.parameters.max_items)

\* collect(): the sources, each with an entry of default values.
collect(context) ==
    LET sources == _sources(context)
    IN  [sources |-> sources,
         entries |-> Map(sources, LAMBDA s :
             [source |-> s, dispatch |-> TRUE, queue |-> "immediate"])]

_entry(source, parameters) ==
    [source |-> source,
     dispatch |-> source.score >= parameters.priority_threshold,
     queue |-> IF source.kind \in SUPPORTED_WORKER_QUEUES
                  THEN source.kind ELSE "immediate"]

plan(batch, context) ==
    [batch EXCEPT !.entries =
        Map(batch.sources, LAMBDA s : _entry(s, context.parameters))]

dispatch(batch) ==
    Map(SelectSeq(batch.entries, LAMBDA e : e.dispatch),
        LAMBDA e : [subject |-> e.source.name, source |-> e.source.source,
                    queue |-> e.queue, category |-> e.source.kind,
                    priority |-> e.source.score])

\* Decimal("NaN"): sorting it raises, and so does comparing it with the
\* threshold.
Raises(context) ==
    \/ SortRaises(Candidates(context))
    \/ NaN \in Scores(Slice(Candidates(context), context.parameters.max_items))

\* The metrics of a record; averages and ratios by their numerators.
_calculate(record) ==
    LET sources == record.batch.sources
        entries == record.batch.entries
        chosen == Count(entries, LAMBDA e : e.dispatch)
    IN  [total_jobs |-> record.job_count,
         total_requests |-> record.request_count,
         average_job_score |-> Total(Map(sources, LAMBDA s : s.score)),
         highest_priority_job |-> IF sources = <<>> THEN 0 ELSE Highest(sources).name,
         lowest_priority_job |-> IF sources = <<>> THEN 0 ELSE Lowest(sources).name,
         dispatch_ratio |-> chosen,
         pending_requests_count |-> Len(record.requests),
         suppressed_requests_count |-> Len(entries) - chosen]

-----------------------------------------------------------------------------

register(record) == Register(record)

unregister(id) == Forget({id} \intersect DOMAIN records)

clear == Forget(DOMAIN records)

_new_record(id) ==
    [id |-> id, state |-> "collecting", history |-> <<>>,
     batch |-> [sources |-> <<>>, entries |-> <<>>], requests |-> <<>>,
     job_count |-> 0, request_count |-> 0]

_fail(t, id) == Failed(t, id, <<"WorkerErrorOccurred">>)

\* _compute(), under the manager's lock: cancellation, or the three stages and
\* the next record with its snapshot.
_compute(t, id, context) ==
    LET record == Get(id, _new_record(id))
        cancelled == [record EXCEPT !.state = "cancelled"]
        batch == plan(collect(context), context)
        requests == dispatch(batch)
        next == [record EXCEPT !.state = "queued",
                               !.history = Append(@, batch),
                               !.batch = batch,
                               !.requests = requests,
                               !.job_count = @ + Len(batch.entries),
                               !.request_count = @ + Len(requests)]
    IN  /\ record.state \notin _TERMINAL
        /\ \/ /\ context.cancel
              /\ register(cancelled)
              /\ Cancelled(t, cancelled,
                     <<"WorkerStarted", "WorkerCancelled">>)
           \/ /\ ~context.cancel
              /\ ~Raises(context)
              /\ register(next)
              /\ Succeeded(t, next, _calculate(next), context,
                     <<"WorkerStarted", "JobsCollected", "JobsQueued",
                       "RequestsDispatched", "WorkerSnapshotCreated",
                       "WorkerMetricsUpdated", "WorkerCompleted">>)

\* enqueue(): an exception of _compute() ends in _fail(); otherwise the
\* events are published once the record is registered.
enqueue(t, id, context) ==
    \/ _compute(t, id, context)
    \/ /\ \/ Get(id, _new_record(id)).state \in _TERMINAL
          \/ ~context.cancel /\ Raises(context)
       /\ _fail(t, id)

\* The engine hands every context to its manager.
DefaultWorkerEngine ==
    \E t \in Tasks, id \in Ids, input \in Inputs, cancel \in BOOLEAN :
        enqueue(t, id, WorkerContext(input, cancel))

-----------------------------------------------------------------------------

TypeOK ==
    /\ \A id \in DOMAIN records :
          records[id] \in WorkerRecord /\ records[id].id = id
    /\ \A t \in Tasks : results[t] \in WorkerResult
    /\ \A t \in Tasks : ToSet(pending[t]) \subseteq Ids \X WorkerEvents

\* The record is the sum of its history: the last batch with its requests, and the
\* totals over all batches.
HistoryExplainsRecord(record) ==
    /\ record.history # <<>> => record.batch = Last(record.history)
    /\ record.requests = dispatch(record.batch)
    /\ record.job_count = TotalLength(record.history, LAMBDA b : Len(b.entries))
    /\ record.request_count = TotalLength(record.history, LAMBDA b : Len(dispatch(b)))

\* Every source at or above the threshold has its request unless max_items
\* sources of no lower priority have one.
UrgentAreHandled(record, context) ==
    MostUrgentFirst(Candidates(context),
                    LAMBDA c : c.score >= context.parameters.priority_threshold,
                    Requested(Candidates(context), record.requests),
                    context.parameters.max_items, >)

\* What the metrics call pending and suppressed is all the batch holds.
MetricsAgree(snapshot) ==
    /\ Len(snapshot.record.batch.entries) =
          snapshot.metrics.pending_requests_count +
          snapshot.metrics.suppressed_requests_count
    /\ snapshot.metrics.dispatch_ratio = snapshot.metrics.pending_requests_count
=============================================================================
