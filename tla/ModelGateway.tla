----------------------------- MODULE ModelGateway -----------------------------
(***************************************************************************)
(* The model gateway (model_gateway/): the sources of the highest priority  *)
(* become invocation entries, and for each at the threshold the best        *)
(* eligible provider profile is chosen.  No model is ever called by it.     *)
(***************************************************************************)
EXTENDS Cycle

CONSTANT GatewayInputs   \* the inputs of a call: four groups of sources (feed), a
                         \* limit, a threshold and the provider profiles

ModelGatewayState ==
    {"created", "collecting", "planned", "completed", "cancelled", "failed"}

VALID_TRANSITIONS ==
    [created    |-> {"collecting", "cancelled"},
     collecting |-> {"collecting", "planned", "completed", "cancelled",
                     "failed"},
     planned    |-> {"collecting", "planned", "completed", "cancelled",
                     "failed"},
     completed |-> {}, cancelled |-> {}, failed |-> {}]

can_transition(source, target) ==
    \/ source = target /\ target \in {"collecting", "planned"}
    \/ target \in VALID_TRANSITIONS[source]

_TERMINAL == {"completed", "cancelled", "failed"}

\* Identifiers are numbers in the order of the strings they stand for; 0 stands
\* for the empty string, an identifier that is not given.
ModelProviderProfile ==
    [provider_id : Nat, model_id : Nat, capabilities : SUBSET STRING,
     context_support : SUBSET STRING, routing_policy_priority : Int, priority : Int,
     cost : Int, available : BOOLEAN, routing_id : Nat]
ModelGatewayParameters(input) ==
    [priority_threshold |-> input.threshold,
     max_items |-> input.limit,
     provider_profiles |-> input.profiles]
ModelInvocationSource ==
    [name : Nat, source : Nat, score : Int, required_capabilities : SUBSET STRING,
     required_context : SUBSET STRING, preferred_provider_id : Nat,
     preferred_model_id : Nat]
ModelInvocationEntry == [source : ModelInvocationSource, dispatch : BOOLEAN]
ModelInvocationBatch ==
    [sources : Seq(ModelInvocationSource), entries : Seq(ModelInvocationEntry)]
ModelInvocationRequest ==
    [subject : Nat, source : Nat, provider_id : Nat, model_id : Nat,
     capabilities : SUBSET STRING, context_requirements : SUBSET STRING,
     routing_policy_priority : Int, priority : Int, cost : Int, available : BOOLEAN]
ModelGatewayHistory == Seq(ModelInvocationBatch)
ModelGatewayRecord ==
    [id : Ids, state : ModelGatewayState, history : ModelGatewayHistory,
     batch : ModelInvocationBatch, requests : Seq(ModelInvocationRequest),
     entry_count : Nat, request_count : Nat]
ModelGatewayMetrics ==
    [total_entries : Nat, total_requests : Nat, average_invocation_score : Int,
     highest_priority_entry : Nat, lowest_priority_entry : Nat, dispatch_ratio : Nat,
     pending_requests_count : Nat, suppressed_requests_count : Nat]
ModelGatewaySnapshot == [record : ModelGatewayRecord, metrics : ModelGatewayMetrics]
ModelGatewayResult ==
    {NoResult} \union [status : {"failed"}] \union
    [status : {"cancelled"}, record : ModelGatewayRecord] \union
    [status : {"success"}, snapshot : ModelGatewaySnapshot]

ModelGatewayEvents ==
    {"ModelGatewayStarted", "InvocationsCollected", "InvocationsPlanned",
     "RequestsDispatched", "ModelGatewaySnapshotCreated",
     "ModelGatewayMetricsUpdated", "ModelGatewayCompleted",
     "ModelGatewayCancelled", "ModelGatewayErrorOccurred"}

ModelGatewayContext(input, cancel) ==
    [agent_sources |-> input.feed[1],
     memory_sources |-> input.feed[2],
     learning_sources |-> input.feed[3],
     optimization_sources |-> input.feed[4],
     parameters |-> ModelGatewayParameters(input),
     cancel |-> cancel]

Candidates(context) ==
    context.agent_sources \o
    context.memory_sources \o
    context.learning_sources \o
    context.optimization_sources

-----------------------------------------------------------------------------

_sources(context) ==
    Slice(SortedBy(Candidates(context), LAMBDA s : <<-s.score, s.source, s.name>>),
          context.parameters.max_items)

collect(context) ==
    LET sources == _sources(context)
    IN  [sources |-> sources,
         entries |-> Map(sources, LAMBDA s : [source |-> s, dispatch |-> TRUE])]

_entry(source, parameters) ==
    [source |-> source, dispatch |-> source.score >= parameters.priority_threshold]

plan(batch, context) ==
    [batch EXCEPT !.entries =
        Map(batch.sources, LAMBDA s : _entry(s, context.parameters))]

_eligible(entry, profiles) ==
    SelectSeq(profiles, LAMBDA p :
        /\ entry.source.required_capabilities \subseteq p.capabilities
        /\ entry.source.required_context \subseteq p.context_support)

explicit_match(candidate, source) ==
    /\ source.preferred_provider_id # 0
    /\ candidate.provider_id = source.preferred_provider_id
    /\ source.preferred_model_id \in {0, candidate.model_id}

\* Sorts after every routing identifier.
_NO_ROUTING_ID == 1000

_sort_key(candidate, entry) ==
    <<IF explicit_match(candidate, entry.source) THEN 0 ELSE 1,
      -candidate.routing_policy_priority, -candidate.priority, candidate.cost,
      IF candidate.available THEN 0 ELSE 1, candidate.provider_id, candidate.model_id,
      IF candidate.routing_id = 0 THEN _NO_ROUTING_ID ELSE candidate.routing_id>>

\* None, or the best profile; None too if it ties with the second one up to the
\* model and neither has a routing identifier.
_select(entry, profiles) ==
    LET eligible == SortedBy(_eligible(entry, profiles), LAMBDA p : _sort_key(p, entry))
        through9(p) == SubSeq(_sort_key(p, entry), 1, 7)
        tie == /\ Len(eligible) > 1
               /\ through9(eligible[1]) = through9(eligible[2])
               /\ eligible[1].routing_id = 0 /\ eligible[2].routing_id = 0
    IN  IF eligible = <<>> \/ tie THEN <<>> ELSE <<eligible[1]>>

request(entry, candidate) ==
    [subject |-> entry.source.name, source |-> entry.source.source,
     provider_id |-> candidate.provider_id, model_id |-> candidate.model_id,
     capabilities |-> entry.source.required_capabilities,
     context_requirements |-> entry.source.required_context,
     routing_policy_priority |-> candidate.routing_policy_priority,
     priority |-> candidate.priority, cost |-> candidate.cost,
     available |-> candidate.available]

dispatch(batch, context) ==
    FlattenSeq(Map(SelectSeq(batch.entries, LAMBDA e : e.dispatch), LAMBDA e :
        Map(_select(e, context.parameters.provider_profiles), LAMBDA p : request(e, p))))

\* Decimal("NaN"): sorting it raises, and so does comparing it with the
\* threshold.
Raises(context) ==
    \/ SortRaises(Candidates(context))
    \/ NaN \in Scores(Slice(Candidates(context), context.parameters.max_items))

\* The metrics of a record; averages and ratios by their numerators.
_calculate(record) ==
    LET sources == record.batch.sources
        entries == record.batch.entries
        dispatched == Len(record.requests)
    IN  [total_entries |-> record.entry_count,
         total_requests |-> record.request_count,
         average_invocation_score |-> Total(Map(sources, LAMBDA s : s.score)),
         highest_priority_entry |-> IF sources = <<>> THEN 0 ELSE Highest(sources).name,
         lowest_priority_entry |-> IF sources = <<>> THEN 0 ELSE Lowest(sources).name,
         dispatch_ratio |-> IF entries = <<>> THEN 0 ELSE dispatched,
         pending_requests_count |-> dispatched,
         suppressed_requests_count |->
             IF entries = <<>> THEN 0 ELSE Len(entries) - dispatched]

-----------------------------------------------------------------------------

register(record) == Register(record)

unregister(id) == Forget({id} \intersect DOMAIN records)

clear == Forget(DOMAIN records)

_new_record(id) ==
    [id |-> id, state |-> "collecting", history |-> <<>>,
     batch |-> [sources |-> <<>>, entries |-> <<>>], requests |-> <<>>,
     entry_count |-> 0, request_count |-> 0]

_fail(t, id) == Failed(t, id, <<"ModelGatewayErrorOccurred">>)

\* _compute(), under the manager's lock: cancellation, or the three stages and
\* the next record with its snapshot.
_compute(t, id, context) ==
    LET record == Get(id, _new_record(id))
        cancelled == [record EXCEPT !.state = "cancelled"]
        batch == plan(collect(context), context)
        requests == dispatch(batch, context)
        next == [record EXCEPT !.state = "planned",
                               !.history = Append(@, batch),
                               !.batch = batch,
                               !.requests = requests,
                               !.entry_count = @ + Len(batch.entries),
                               !.request_count = @ + Len(requests)]
    IN  /\ record.state \notin _TERMINAL
        /\ \/ /\ context.cancel
              /\ register(cancelled)
              /\ Cancelled(t, cancelled,
                     <<"ModelGatewayStarted", "ModelGatewayCancelled">>)
           \/ /\ ~context.cancel
              /\ ~Raises(context)
              /\ register(next)
              /\ Succeeded(t, next, _calculate(next), context,
                     <<"ModelGatewayStarted", "InvocationsCollected",
                       "InvocationsPlanned", "RequestsDispatched",
                       "ModelGatewaySnapshotCreated",
                       "ModelGatewayMetricsUpdated", "ModelGatewayCompleted">>)

\* invoke(): an exception of _compute() ends in _fail(); otherwise the
\* events are published once the record is registered.
invoke(t, id, context) ==
    \/ _compute(t, id, context)
    \/ /\ \/ Get(id, _new_record(id)).state \in _TERMINAL
          \/ ~context.cancel /\ Raises(context)
       /\ _fail(t, id)

\* The engine hands every context to its manager.
DefaultModelGatewayEngine ==
    \E t \in Tasks, id \in Ids, input \in GatewayInputs, cancel \in BOOLEAN :
        invoke(t, id, ModelGatewayContext(input, cancel))

-----------------------------------------------------------------------------

TypeOK ==
    /\ \A id \in DOMAIN records :
          records[id] \in ModelGatewayRecord /\ records[id].id = id
    /\ \A id \in DOMAIN inputs :
          ToSet(inputs[id].parameters.provider_profiles) \subseteq ModelProviderProfile
    /\ \A t \in Tasks : results[t] \in ModelGatewayResult
    /\ \A t \in Tasks : ToSet(pending[t]) \subseteq Ids \X ModelGatewayEvents

\* The record is the sum of its history; no entry is requested twice.
HistoryExplainsRecord(record) ==
    /\ record.history # <<>> => record.batch = Last(record.history)
    /\ record.entry_count = TotalLength(record.history, LAMBDA b : Len(b.entries))
    /\ record.request_count <= record.entry_count

\* Every source is in the batch unless max_items sources that score no less are.  A
\* request goes to a profile that can serve it, to the preferred provider if that one
\* can, and the choice does not depend on the order in which the profiles are listed.
UrgentAreHandled(record, context) ==
    LET profiles == context.parameters.provider_profiles
        chosen(r) == {p \in ToSet(profiles) :
                        p.provider_id = r.provider_id /\ p.model_id = r.model_id}
    IN  /\ MostUrgentFirst(Candidates(context), LAMBDA s : TRUE,
                           ToSet(record.batch.sources), context.parameters.max_items, >)
        /\ record.requests = dispatch(record.batch, [context EXCEPT
                !.parameters.provider_profiles = Reverse(profiles)])
        /\ \A r \in ToSet(record.requests), e \in ToSet(record.batch.entries) :
             r.subject = e.source.name /\ r.source = e.source.source =>
                LET able == ToSet(_eligible(e, profiles))
                IN  /\ chosen(r) \intersect able # {}
                    /\ (\E p \in able : explicit_match(p, e.source)) =>
                           r.provider_id = e.source.preferred_provider_id

\* Every entry is pending or suppressed, and the suppressed are at least those
\* below the threshold.
MetricsAgree(snapshot) ==
    LET entries == snapshot.record.batch.entries
    IN  /\ Len(entries) = snapshot.metrics.pending_requests_count +
                          snapshot.metrics.suppressed_requests_count
        /\ snapshot.metrics.suppressed_requests_count >=
              Count(entries, LAMBDA e : ~e.dispatch)
=============================================================================
