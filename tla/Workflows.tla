------------------------------- MODULE Workflows ------------------------------
(***************************************************************************)
(* The workflow framework (workflows/): a batch of workflow definitions is  *)
(* planned, the steps of each in an order that respects their dependencies, *)
(* and every planned step becomes a handoff request.  Nothing is run by it. *)
(* Priorities are Decimals nobody validates: NaN is one of them.            *)
(***************************************************************************)
EXTENDS Cycle, Relation

CONSTANT WorkflowInputs   \* the inputs of a call: definitions and a limit

WorkflowState ==
    {"created", "collecting", "planned", "completed", "cancelled", "failed"}

VALID_TRANSITIONS ==
    [created    |-> {"collecting", "cancelled"},
     collecting |-> {"collecting", "planned", "completed", "cancelled",
                     "failed"},
     planned    |-> {"collecting", "planned", "completed", "cancelled",
                     "failed"},
     completed |-> {}, cancelled |-> {}, failed |-> {}]

can_transition(source, target) ==
    \/ source = target /\ target \in {"collecting", "planned"}
    \/ target \in VALID_TRANSITIONS[source]

_TERMINAL == {"completed", "cancelled", "failed"}

SUPPORTED_HANDOFF_TARGETS == {"agents", "model_gateway", "scheduler", "workers"}
WorkflowParameters(input) == [max_items |-> input.limit]
Priority == Int \union {NaN}
WorkflowStep == [step_id : Nat, handoff_target : STRING, priority : Priority]
WorkflowDependency == [step_id : Nat, depends_on : Nat]
WorkflowDefinition ==
    [workflow_id : Nat, workflow_priority : Priority, steps : Seq(WorkflowStep),
     dependencies : Seq(WorkflowDependency)]
WorkflowBatch == Seq(WorkflowDefinition)
WorkflowPlanEntry ==
    [position : Nat, workflow_id : Nat, workflow_priority : Priority, step : WorkflowStep,
     dependencies : Seq(Nat)]
WorkflowPlan == Seq(WorkflowPlanEntry)
WorkflowRequest ==
    [subject : Nat, source : Nat, handoff_target : SUPPORTED_HANDOFF_TARGETS,
     priority : Priority, position : Nat]
WorkflowHistory == Seq(WorkflowBatch)
WorkflowRecord ==
    [id : Ids, state : WorkflowState, history : WorkflowHistory, batch : WorkflowBatch,
     plan : WorkflowPlan, requests : Seq(WorkflowRequest), definition_count : Nat,
     step_count : Nat, request_count : Nat]
WorkflowMetrics ==
    [total_steps : Nat, total_requests : Nat, average_step_score : Priority,
     highest_priority_step : Nat, lowest_priority_step : Nat, dispatch_ratio : Nat,
     pending_requests_count : Nat, suppressed_requests_count : Nat]
WorkflowSnapshot == [record : WorkflowRecord, metrics : WorkflowMetrics]
WorkflowResult ==
    {NoResult} \union [status : {"failed"}, asked : WorkflowBatch] \union
    [status : {"cancelled"}, record : WorkflowRecord] \union
    [status : {"success"}, snapshot : WorkflowSnapshot]

WorkflowEvents ==
    {"WorkflowStarted", "StepsCollected", "WorkflowPlanned",
     "RequestsDispatched", "WorkflowSnapshotCreated",
     "WorkflowMetricsUpdated", "WorkflowCompleted", "WorkflowCancelled",
     "WorkflowErrorOccurred"}

WorkflowContext(input, cancel) ==
    [workflow_definitions |-> input.definitions,
     parameters |-> WorkflowParameters(input),
     cancel |-> cancel]

-----------------------------------------------------------------------------

collect(context) == Slice(context.workflow_definitions, context.parameters.max_items)

StepIds(definition) == {s.step_id : s \in ToSet(definition.steps)}

\* What _topological_order() refuses before it orders anything.
Malformed(definition) ==
    \/ Cardinality(StepIds(definition)) # Len(definition.steps)
    \/ \E s \in ToSet(definition.steps) :
          s.handoff_target \notin SUPPORTED_HANDOFF_TARGETS
    \/ \E d \in ToSet(definition.dependencies) :
          \/ {d.step_id, d.depends_on} \ StepIds(definition) # {}
          \/ d.step_id = d.depends_on

InDegree(definition) ==
    [id \in StepIds(definition) |->
        Count(definition.dependencies, LAMBDA d : d.step_id = id)]

\* The identifiers waiting for a step, one for every time a dependency says so.
Dependents(definition, id) ==
    Map(SelectSeq(definition.dependencies, LAMBDA d : d.depends_on = id),
        LAMBDA d : d.step_id)

Settle(kahn, id) ==
    LET left == kahn.in_degree[id] - 1
    IN  [kahn EXCEPT !.in_degree[id] = left,
                     !.ready = IF left = 0 THEN @ \union {id} ELSE @]

\* Mutant of Release: a repeated dependency is settled once.
Mutant_ReleaseOnce(kahn, dependents) == FoldLeft(Settle, kahn, SetToSeq(ToSet(dependents)))
\* The loop over the dependents of the step that was popped.
Release(kahn, dependents) == FoldLeft(Settle, kahn, dependents)

\* Kahn's algorithm: pop the ready step of the highest priority, then of the least
\* identifier, and release its dependents, until none is ready.
_topological_order(definition) ==
    LET step(id) == CHOOSE s \in ToSet(definition.steps) : s.step_id = id
        key(id) == <<-step(id).priority, id>>
        in_degree == InDegree(definition)
        kahn[n \in 0..Len(definition.steps)] ==
            IF n = 0
            THEN [order |-> <<>>, in_degree |-> in_degree,
                  ready |-> {id \in StepIds(definition) : in_degree[id] = 0}]
            ELSE LET before == kahn[n - 1]
                     id == CHOOSE i \in before.ready :
                             \A j \in before.ready \ {i} : Before(key(i), key(j))
                 IN  IF before.ready = {} THEN before
                     ELSE Release([before EXCEPT !.order = Append(@, step(id)),
                                                 !.ready = @ \ {id}],
                                  Dependents(definition, id))
    IN  kahn[Len(definition.steps)].order

\* plan(): the definitions by priority, the steps of each in topological order.
plan_of(batch) ==
    LET ordered == SortedBy(batch, LAMBDA d : <<-d.workflow_priority, d.workflow_id>>)
        entries(d) ==
            Map(_topological_order(d), LAMBDA s :
                [workflow_id |-> d.workflow_id,
                 workflow_priority |-> d.workflow_priority, step |-> s,
                 dependencies |-> SortSeq(
                     Map(SelectSeq(d.dependencies, LAMBDA e : e.step_id = s.step_id),
                         LAMBDA e : e.depends_on), <)])
        all == FlattenSeq(Map(ordered, entries))
    IN  [i \in DOMAIN all |-> [position |-> i - 1] @@ all[i]]

dispatch(plan) ==
    Map(plan, LAMBDA e : [subject |-> e.step.step_id, source |-> e.workflow_id,
                          handoff_target |-> e.step.handoff_target,
                          priority |-> e.step.priority, position |-> e.position])

StepsOf(batch) == FlattenSeq(Map(batch, LAMBDA d : d.steps))

\* sorted() compares the priorities of two workflows or more; the ready heap, or
\* else max() in the metrics, those of two steps or more.  Comparing a NaN raises.
Incomparable(batch) ==
    LET steps == StepsOf(batch)
    IN  \/ Len(batch) > 1 /\ \E d \in ToSet(batch) : d.workflow_priority = NaN
        \/ Len(steps) > 1 /\ \E s \in ToSet(steps) : s.priority = NaN

\* A batch is refused for duplicate workflows, malformed definitions, priorities
\* that cannot be compared, and definitions of which a step is never ready.
Plannable(batch) ==
    /\ Cardinality({d.workflow_id : d \in ToSet(batch)}) = Len(batch)
    /\ \A d \in ToSet(batch) : ~Malformed(d)
    /\ ~Incomparable(batch)
    /\ \A d \in ToSet(batch) : Len(_topological_order(d)) = Len(d.steps)

Raises(context) == ~Plannable(collect(context))

\* The metrics of a record; averages and ratios by their numerators.
_calculate(record) ==
    LET steps == StepsOf(record.batch)
        scored == Map(steps, LAMBDA s : [step_id |-> s.step_id, score |-> s.priority])
        single == IF steps = <<>> THEN 0 ELSE steps[1].step_id
    IN  [total_steps |-> record.step_count,
         total_requests |-> record.request_count,
         average_step_score |-> IF NaN \in Scores(scored) THEN NaN
                                ELSE Total(Map(steps, LAMBDA s : s.priority)),
         highest_priority_step |-> IF Len(steps) < 2 THEN single ELSE Highest(scored).step_id,
         lowest_priority_step |-> IF Len(steps) < 2 THEN single ELSE Lowest(scored).step_id,
         dispatch_ratio |-> IF steps = <<>> THEN 0 ELSE Len(record.requests),
         pending_requests_count |-> Len(record.requests),
         suppressed_requests_count |->
             IF steps = <<>> THEN 0 ELSE Len(steps) - Len(record.requests)]

-----------------------------------------------------------------------------

register(record) == Register(record)

unregister(id) == Forget({id} \intersect DOMAIN records)

clear == Forget(DOMAIN records)

_new_record(id) ==
    [id |-> id, state |-> "collecting", history |-> <<>>, batch |-> <<>>, plan |-> <<>>,
     requests |-> <<>>, definition_count |-> 0, step_count |-> 0, request_count |-> 0]

\* The result keeps, as an auxiliary, the batch that was asked for.
_fail(t, id, asked) ==
    /\ Begin(t, id, <<"WorkflowErrorOccurred">>, [status |-> "failed", asked |-> asked])
    /\ UNCHANGED <<records, inputs, done>>

\* _compute(), under the manager's lock: cancellation, or the three stages and
\* the next record with its snapshot.
_compute(t, id, context) ==
    LET record == Get(id, _new_record(id))
        cancelled == [record EXCEPT !.state = "cancelled"]
        batch == collect(context)
        plan == plan_of(batch)
        requests == dispatch(plan)
        next == [record EXCEPT !.state = "planned",
                               !.history = Append(@, batch),
                               !.batch = batch,
                               !.plan = plan,
                               !.requests = requests,
                               !.definition_count = @ + Len(batch),
                               !.step_count = @ + Len(StepsOf(batch)),
                               !.request_count = @ + Len(requests)]
    IN  /\ record.state \notin _TERMINAL
        /\ \/ /\ context.cancel
              /\ register(cancelled)
              /\ Cancelled(t, cancelled,
                     <<"WorkflowStarted", "WorkflowCancelled">>)
           \/ /\ ~context.cancel
              /\ ~Raises(context)
              /\ register(next)
              /\ Succeeded(t, next, _calculate(next), context,
                     <<"WorkflowStarted", "StepsCollected", "WorkflowPlanned",
                       "RequestsDispatched", "WorkflowSnapshotCreated",
                       "WorkflowMetricsUpdated", "WorkflowCompleted">>)

\* compose(): an exception of _compute() ends in _fail(); otherwise the
\* events are published once the record is registered.
compose(t, id, context) ==
    \/ _compute(t, id, context)
    \/ /\ Get(id, _new_record(id)).state \in _TERMINAL
       /\ _fail(t, id, <<>>)
    \/ /\ Get(id, _new_record(id)).state \notin _TERMINAL
       /\ ~context.cancel /\ Raises(context)
       /\ _fail(t, id, collect(context))

\* The engine hands every context to its manager.
DefaultWorkflowEngine ==
    \E t \in Tasks, id \in Ids, input \in WorkflowInputs, cancel \in BOOLEAN :
        compose(t, id, WorkflowContext(input, cancel))

-----------------------------------------------------------------------------

TypeOK ==
    /\ \A id \in DOMAIN records :
          records[id] \in WorkflowRecord /\ records[id].id = id
    /\ \A t \in Tasks : results[t] \in WorkflowResult
    /\ \A t \in Tasks : ToSet(pending[t]) \subseteq Ids \X WorkflowEvents

\* The record is the sum of its history, and every step ever collected has been
\* requested: a plan leaves none out.
HistoryExplainsRecord(record) ==
    /\ record.history # <<>> => record.batch = Last(record.history)
    /\ record.definition_count = TotalLength(record.history, Len)
    /\ record.step_count = TotalLength(record.history, LAMBDA b : Len(StepsOf(b)))
    /\ record.request_count = record.step_count

\* What the limit keeps are the first workflows to arrive, however urgent the
\* others are (collector.py:32).  Of those, a request comes after the ones it
\* depends on and after all those of a more urgent workflow, and the requests are
\* numbered without gaps.
UrgentAreHandled(record, context) ==
    LET requests == record.requests
    IN  /\ IsPrefix(record.batch, context.workflow_definitions)
        /\ \A i \in DOMAIN requests :
          /\ requests[i].position = i - 1
          /\ \A d \in ToSet(record.batch) : d.workflow_id = requests[i].source =>
                /\ \A e \in ToSet(d.dependencies) :
                      e.step_id = requests[i].subject =>
                          \E j \in 1..(i - 1) : /\ requests[j].source = d.workflow_id
                                               /\ requests[j].subject = e.depends_on
                /\ \A c \in ToSet(record.batch) \ {d} :
                      c.workflow_priority > d.workflow_priority =>
                          \A j \in DOMAIN requests :
                              requests[j].source = c.workflow_id => j < i

\* Nothing that was planned is suppressed.
MetricsAgree(snapshot) ==
    /\ snapshot.metrics.suppressed_requests_count = 0
    /\ snapshot.metrics.pending_requests_count = Len(StepsOf(snapshot.record.batch))

\* Some step leads back to itself along the dependencies.
Cyclic(definition) ==
    LET depends == [p \in StepIds(definition) \X StepIds(definition) |->
                       \E e \in ToSet(definition.dependencies) :
                           e.step_id = p[1] /\ e.depends_on = p[2]]
        closure == TransitiveClosure(depends, StepIds(definition))
    IN  \E s \in StepIds(definition) : closure[<<s, s>>]

\* What a batch has to be, whatever order it comes in and however often a
\* dependency is repeated: workflows and their steps have names of their own, hand
\* over to the supported frameworks, depend on steps of their own in no circle, and
\* have priorities that can be compared where there is anything to compare.
Sound(batch) ==
    /\ \A i, j \in DOMAIN batch : batch[i].workflow_id = batch[j].workflow_id => i = j
    /\ \A d \in ToSet(batch) :
          /\ \A i, j \in DOMAIN d.steps : d.steps[i].step_id = d.steps[j].step_id => i = j
          /\ {s.handoff_target : s \in ToSet(d.steps)} \subseteq SUPPORTED_HANDOFF_TARGETS
          /\ UNION {{e.step_id, e.depends_on} : e \in ToSet(d.dependencies)}
                \subseteq StepIds(d)
          /\ ~Cyclic(d)
    /\ ~Incomparable(batch)

\* A call that fails was made on a record that is over or for a batch that is not
\* sound; a call that succeeds was made for a sound one.
RefusedForCause ==
    \A t \in Tasks :
        /\ results[t].status = "failed" => results[t].asked = <<>> \/ ~Sound(results[t].asked)
        /\ results[t].status = "success" => Sound(results[t].snapshot.record.batch)
=============================================================================
