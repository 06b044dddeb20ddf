-------------------------------- MODULE Storage -------------------------------
(***************************************************************************)
(* The storage framework (storage/): the sources of the highest priority    *)
(* become items, those at the threshold persistence requests for a supported*)
(* target.  Nothing is written by it.                                       *)
(***************************************************************************)
EXTENDS Cycle

StorageState ==
    {"created", "collecting", "serialized", "completed", "cancelled",
     "failed"}

VALID_TRANSITIONS ==
    [created    |-> {"collecting", "cancelled"},
     collecting |-> {"collecting", "serialized", "completed", "cancelled",
                     "failed"},
     serialized |-> {"collecting", "serialized", "completed", "cancelled",
                     "failed"},
     completed |-> {}, cancelled |-> {}, failed |-> {}]

can_transition(source, target) ==
    \/ source = target /\ target \in {"collecting", "serialized"}
    \/ target \in VALID_TRANSITIONS[source]

_TERMINAL == {"completed", "cancelled", "failed"}

SUPPORTED_STORAGE_TARGETS ==
    {"database", "file", "object_storage", "cache", "data_lake", "archive"}
StorageParameters(input) ==
    [priority_threshold |-> input.threshold, max_items |-> input.limit]
StorageSource == Item
StorageItem ==
    [source : StorageSource, persist : BOOLEAN, target : SUPPORTED_STORAGE_TARGETS]
StorageBatch == [sources : Seq(StorageSource), items : Seq(StorageItem)]
StorageRequest ==
    [subject : Nat, source : Nat, target : SUPPORTED_STORAGE_TARGETS,
     category : STRING, priority : Int]
StorageHistory == Seq(StorageBatch)
StorageRecord ==
    [id : Ids, state : StorageState, history : StorageHistory, batch : StorageBatch,
     requests : Seq(StorageRequest), item_count : Nat, request_count : Nat]
StorageMetrics ==
    [total_items : Nat, total_requests : Nat, average_storage_score : Int,
     highest_priority_item : Nat, lowest_priority_item : Nat, persistence_ratio : Nat,
     pending_requests_count : Nat, suppressed_requests_count : Nat]
StorageSnapshot == [record : StorageRecord, metrics : StorageMetrics]
StorageResult ==
    {NoResult} \union [status : {"failed"}] \union
    [status : {"cancelled"}, record : StorageRecord] \union
    [status : {"success"}, snapshot : StorageSnapshot]

StorageEvents ==
    {"StorageStarted", "StorageCollected", "StorageSerialized",
     "RequestsPlanned", "StorageSnapshotCreated", "StorageMetricsUpdated",
     "StorageCompleted", "StorageCancelled", "StorageErrorOccurred"}

\* A call's context: the groups of sources of an input, its parameters and
\* whether it asks for cancellation.
StorageContext(input, cancel) ==
    [reporting_sources |-> input.feed[1],
     notification_sources |-> input.feed[2],
     dashboard_sources |-> input.feed[3],
     monitoring_sources |-> input.feed[4],
     performance_sources |-> input.feed[5],
     parameters |-> StorageParameters(input),
     cancel |-> cancel]

Candidates(context) ==
    context.reporting_sources \o
    context.notification_sources \o
    context.dashboard_sources \o
    context.monitoring_sources \o
    context.performance_sources

-----------------------------------------------------------------------------

\* Mutant of _sources: cut to the limit before sorting.
Mutant_SliceFirst(context) ==
    SortedBy(Slice(Candidates(context), context.parameters.max_items),
             LAMBDA s : <<-s.score, s.source, s.name>>)
_sources(context) ==
    Slice(SortedBy(Candidates(context), LAMBDA s : <<-s.score, s.source, s.name>>),
          context.parameters.max_items)

\* collect(): the sources, each with an entry of default values.
collect(context) ==
    LET sources == _sources(context)
    IN  [sources |-> sources,
         items |-> Map(sources, LAMBDA s :
             [source |-> s, persist |-> TRUE, target |-> "database"])]

_item(source, parameters) ==
    [source |-> source,
     persist |-> source.score >= parameters.priority_threshold,
     target |-> IF source.kind \in SUPPORTED_STORAGE_TARGETS
                  THEN source.kind ELSE "database"]

serialize(batch, context) ==
    [batch EXCEPT !.items =
        Map(batch.sources, LAMBDA s : _item(s, context.parameters))]

plan(batch) ==
    Map(SelectSeq(batch.items, LAMBDA e : e.persist),
        LAMBDA e : [subject |-> e.source.name, source |-> e.source.source,
                    target |-> e.target, category |-> e.source.kind,
                    priority |-> e.source.score])

\* Decimal("NaN"): sorting it raises, and so does comparing it with the
\* threshold.
Raises(context) ==
    \/ SortRaises(Candidates(context))
    \/ NaN \in Scores(Slice(Candidates(context), context.parameters.max_items))

\* The metrics of a record; averages and ratios by their numerators.
_calculate(record) ==
    LET sources == record.batch.sources
        items == record.batch.items
        chosen == Count(items, LAMBDA e : e.persist)
    IN  [total_items |-> record.item_count,
         total_requests |-> record.request_count,
         average_storage_score |-> Total(Map(sources, LAMBDA s : s.score)),
         highest_priority_item |-> IF sources = <<>> THEN 0 ELSE Highest(sources).name,
         lowest_priority_item |-> IF sources = <<>> THEN 0 ELSE Lowest(sources).name,
         persistence_ratio |-> chosen,
         pending_requests_count |-> Len(record.requests),
         suppressed_requests_count |-> Len(items) - chosen]

-----------------------------------------------------------------------------

register(record) == Register(record)

unregister(id) == Forget({id} \intersect DOMAIN records)

clear == Forget(DOMAIN records)

_new_record(id) ==
    [id |-> id, state |-> "collecting", history |-> <<>>,
     batch |-> [sources |-> <<>>, items |-> <<>>], requests |-> <<>>,
     item_count |-> 0, request_count |-> 0]

_fail(t, id) == Failed(t, id, <<"StorageErrorOccurred">>)

\* _compute(), under the manager's lock: cancellation, or the three stages and
\* the next record with its snapshot.
_compute(t, id, context) ==
    LET record == Get(id, _new_record(id))
        cancelled == [record EXCEPT !.state = "cancelled"]
        batch == serialize(collect(context), context)
        requests == plan(batch)
        next == [record EXCEPT !.state = "serialized",
                               !.history = Append(@, batch),
                               !.batch = batch,
                               !.requests = requests,
                               !.item_count = @ + Len(batch.items),
                               !.request_count = @ + Len(requests)]
    IN  /\ record.state \notin _TERMINAL
        /\ \/ /\ context.cancel
              /\ register(cancelled)
              /\ Cancelled(t, cancelled,
                     <<"StorageStarted", "StorageCancelled">>)
           \/ /\ ~context.cancel
              /\ ~Raises(context)
              /\ register(next)
              /\ Succeeded(t, next, _calculate(next), context,
                     <<"StorageStarted", "StorageCollected",
                       "StorageSerialized", "RequestsPlanned",
                       "StorageSnapshotCreated", "StorageMetricsUpdated",
                       "StorageCompleted">>)

\* store(): an exception of _compute() ends in _fail(); otherwise the
\* events are published once the record is registered.
store(t, id, context) ==
    \/ _compute(t, id, context)
    \/ /\ \/ Get(id, _new_record(id)).state \in _TERMINAL
          \/ ~context.cancel /\ Raises(context)
       /\ _fail(t, id)

\* The engine hands every context to its manager.
DefaultStorageEngine ==
    \E t \in Tasks, id \in Ids, input \in Inputs, cancel \in BOOLEAN :
        store(t, id, StorageContext(input, cancel))

-----------------------------------------------------------------------------

TypeOK ==
    /\ \A id \in DOMAIN records :
          records[id] \in StorageRecord /\ records[id].id = id
    /\ \A t \in Tasks : results[t] \in StorageResult
    /\ \A t \in Tasks : ToSet(pending[t]) \subseteq Ids \X StorageEvents

\* The record is the sum of its history: the last batch with its requests, and the
\* totals over all batches.
HistoryExplainsRecord(record) ==
    /\ record.history # <<>> => record.batch = Last(record.history)
    /\ record.requests = plan(record.batch)
    /\ record.item_count = TotalLength(record.history, LAMBDA b : Len(b.items))
    /\ record.request_count = TotalLength(record.history, LAMBDA b : Len(plan(b)))

\* Every source at or above the threshold has its request unless max_items
\* sources of no lower priority have one.
UrgentAreHandled(record, context) ==
    MostUrgentFirst(Candidates(context),
                    LAMBDA c : c.score >= context.parameters.priority_threshold,
                    Requested(Candidates(context), record.requests),
                    context.parameters.max_items, >)

\* What the metrics call pending and suppressed is all the batch holds.
MetricsAgree(snapshot) ==
    /\ Len(snapshot.record.batch.items) =
          snapshot.metrics.pending_requests_count +
          snapshot.metrics.suppressed_requests_count
    /\ snapshot.metrics.persistence_ratio = snapshot.metrics.pending_requests_count
=============================================================================
