-------------------------------- MODULE Memory --------------------------------
(***************************************************************************)
(* The memory framework (memory/): the sources of the highest priority      *)
(* become entries, those at the threshold requests to commit them to a      *)
(* scope, and the manager appends the batch to the record.                  *)
(***************************************************************************)
EXTENDS Cycle

MemoryState ==
    {"created", "collecting", "planned", "completed", "cancelled", "failed"}

VALID_TRANSITIONS ==
    [created    |-> {"collecting", "cancelled"},
     collecting |-> {"collecting", "planned", "completed", "cancelled",
                     "failed"},
     planned    |-> {"collecting", "planned", "completed", "cancelled",
                     "failed"},
     completed |-> {}, cancelled |-> {}, failed |-> {}]

can_transition(source, target) ==
    \/ source = target /\ target \in {"collecting", "planned"}
    \/ target \in VALID_TRANSITIONS[source]

_TERMINAL == {"completed", "cancelled", "failed"}

SUPPORTED_MEMORY_SCOPES == {"working", "episodic", "semantic"}
MemoryParameters(input) ==
    [priority_threshold |-> input.threshold, max_items |-> input.limit]
MemorySource == Item
MemoryEntry ==
    [source : MemorySource, commit : BOOLEAN, scope : SUPPORTED_MEMORY_SCOPES]
MemoryBatch == [sources : Seq(MemorySource), entries : Seq(MemoryEntry)]
MemoryRequest ==
    [subject : Nat, source : Nat, scope : SUPPORTED_MEMORY_SCOPES,
     category : STRING, priority : Int]
MemoryHistory == Seq(MemoryBatch)
MemoryRecord ==
    [id : Ids, state : MemoryState, history : MemoryHistory, batch : MemoryBatch,
     requests : Seq(MemoryRequest), entry_count : Nat, request_count : Nat]
MemoryMetrics ==
    [total_entries : Nat, total_requests : Nat, average_memory_score : Int,
     highest_priority_entry : Nat, lowest_priority_entry : Nat, commit_ratio : Nat,
     pending_requests_count : Nat, suppressed_requests_count : Nat]
MemorySnapshot == [record : MemoryRecord, metrics : MemoryMetrics]
MemoryResult ==
    {NoResult} \union [status : {"failed"}] \union
    [status : {"cancelled"}, record : MemoryRecord] \union
    [status : {"success"}, snapshot : MemorySnapshot]

MemoryEvents ==
    {"MemoryStarted", "EntriesCollected", "EntriesPlanned",
     "RequestsDispatched", "MemorySnapshotCreated", "MemoryMetricsUpdated",
     "MemoryCompleted", "MemoryCancelled", "MemoryErrorOccurred"}

\* A call's context: the groups of sources of an input, its parameters and
\* whether it asks for cancellation.
MemoryContext(input, cancel) ==
    [agent_sources |-> input.feed[1],
     learning_sources |-> input.feed[2],
     reporting_sources |-> input.feed[3],
     storage_sources |-> input.feed[4],
     parameters |-> MemoryParameters(input),
     cancel |-> cancel]

Candidates(context) ==
    context.agent_sources \o
    context.learning_sources \o
    context.reporting_sources \o
    context.storage_sources

-----------------------------------------------------------------------------

_sources(context) ==
    Slice(SortedBy(Candidates(context), LAMBDA s : <<-s.score, s.source, s.name>>),
          context.parameters.max_items)

\* collect(): the sources, each with an entry of default values.
collect(context) ==
    LET sources == _sources(context)
    IN  [sources |-> sources,
         entries |-> Map(sources, LAMBDA s :
             [source |-> s, commit |-> TRUE, scope |-> "working"])]

_entry(source, parameters) ==
    [source |-> source,
     commit |-> source.score >= parameters.priority_threshold,
     scope |-> IF source.kind \in SUPPORTED_MEMORY_SCOPES
                  THEN source.kind ELSE "working"]

plan(batch, context) ==
    [batch EXCEPT !.entries =
        Map(batch.sources, LAMBDA s : _entry(s, context.parameters))]

dispatch(batch) ==
    Map(SelectSeq(batch.entries, LAMBDA e : e.commit),
        LAMBDA e : [subject |-> e.source.name, source |-> e.source.source,
                    scope |-> e.scope, category |-> e.source.kind,
                    priority |-> e.source.score])

\* Decimal("NaN"): sorting it raises, and so does comparing it with the
\* threshold.
Raises(context) ==
    \/ SortRaises(Candidates(context))
    \/ NaN \in Scores(Slice(Candidates(context), context.parameters.max_items))

\* The metrics of a record; averages and ratios by their numerators.
_calculate(record) ==
    LET sources == record.batch.sources
        entries == record.batch.entries
        chosen == Count(entries, LAMBDA e : e.commit)
    IN  [total_entries |-> record.entry_count,
         total_requests |-> record.request_count,
         average_memory_score |-> Total(Map(sources, LAMBDA s : s.score)),
         highest_priority_entry |-> IF sources = <<>> THEN 0 ELSE Highest(sources).name,
         lowest_priority_entry |-> IF sources = <<>> THEN 0 ELSE Lowest(sources).name,
         commit_ratio |-> chosen,
         pending_requests_count |-> Len(record.requests),
         suppressed_requests_count |-> Len(entries) - chosen]

-----------------------------------------------------------------------------

register(record) == Register(record)

unregister(id) == Forget({id} \intersect DOMAIN records)

clear == Forget(DOMAIN records)

_new_record(id) ==
    [id |-> id, state |-> "collecting", history |-> <<>>,
     batch |-> [sources |-> <<>>, entries |-> <<>>], requests |-> <<>>,
     entry_count |-> 0, request_count |-> 0]

_fail(t, id) == Failed(t, id, <<"MemoryErrorOccurred">>)

\* _compute(), under the manager's lock: cancellation, or the three stages and
\* the next record with its snapshot.
_compute(t, id, context) ==
    LET record == Get(id, _new_record(id))
        cancelled == [record EXCEPT !.state = "cancelled"]
        batch == plan(collect(context), context)
        requests == dispatch(batch)
        next == [record EXCEPT !.state = "planned",
                               !.history = Append(@, batch),
                               !.batch = batch,
                               !.requests = requests,
                               !.entry_count = @ + Len(batch.entries),
                               !.request_count = @ + Len(requests)]
    IN  /\ record.state \notin _TERMINAL
        /\ \/ /\ context.cancel
              /\ register(cancelled)
              /\ Cancelled(t, cancelled,
                     <<"MemoryStarted", "MemoryCancelled">>)
           \/ /\ ~context.cancel
              /\ ~Raises(context)
              /\ register(next)
              /\ Succeeded(t, next, _calculate(next), context,
                     <<"MemoryStarted", "EntriesCollected", "EntriesPlanned",
                       "RequestsDispatched", "MemorySnapshotCreated",
                       "MemoryMetricsUpdated", "MemoryCompleted">>)

\* remember(): an exception of _compute() ends in _fail(); otherwise the
\* events are published once the record is registered.
remember(t, id, context) ==
    \/ _compute(t, id, context)
    \/ /\ \/ Get(id, _new_record(id)).state \in _TERMINAL
          \/ ~context.cancel /\ Raises(context)
       /\ _fail(t, id)

\* The engine hands every context to its manager.
DefaultMemoryEngine ==
    \E t \in Tasks, id \in Ids, input \in Inputs, cancel \in BOOLEAN :
        remember(t, id, MemoryContext(input, cancel))

-----------------------------------------------------------------------------

TypeOK ==
    /\ \A id \in DOMAIN records :
          records[id] \in MemoryRecord /\ records[id].id = id
    /\ \A t \in Tasks : results[t] \in MemoryResult
    /\ \A t \in Tasks : ToSet(pending[t]) \subseteq Ids \X MemoryEvents

\* The record is the sum of its history: the last batch with its requests, and the
\* totals over all batches.
HistoryExplainsRecord(record) ==
    /\ record.history # <<>> => record.batch = Last(record.history)
    /\ record.requests = dispatch(record.batch)
    /\ record.entry_count = TotalLength(record.history, LAMBDA b : Len(b.entries))
    /\ record.request_count = TotalLength(record.history, LAMBDA b : Len(dispatch(b)))

\* Every source at or above the threshold has its request unless max_items
\* sources of no lower priority have one.
UrgentAreHandled(record, context) ==
    MostUrgentFirst(Candidates(context),
                    LAMBDA c : c.score >= context.parameters.priority_threshold,
                    Requested(Candidates(context), record.requests),
                    context.parameters.max_items, >)

\* What the metrics call pending and suppressed is all the batch holds.
MetricsAgree(snapshot) ==
    /\ Len(snapshot.record.batch.entries) =
          snapshot.metrics.pending_requests_count +
          snapshot.metrics.suppressed_requests_count
    /\ snapshot.metrics.commit_ratio = snapshot.metrics.pending_requests_count
=============================================================================
