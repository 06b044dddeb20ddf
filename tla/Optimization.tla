----------------------------- MODULE Optimization -----------------------------
(***************************************************************************)
(* The optimization framework (optimization/): the worst strategies and     *)
(* agents of a context become steps that lower or raise them, and the steps *)
(* that do something become recommendations.  Nothing is applied by it.     *)
(***************************************************************************)
EXTENDS Cycle

OptimizationState ==
    {"created", "planning", "optimized", "completed", "cancelled", "failed"}

VALID_TRANSITIONS ==
    [created   |-> {"planning", "cancelled"},
     planning  |-> {"planning", "optimized", "completed", "cancelled",
                    "failed"},
     optimized |-> {"planning", "optimized", "completed", "cancelled",
                    "failed"},
     completed |-> {}, cancelled |-> {}, failed |-> {}]

can_transition(source, target) ==
    \/ source = target /\ target \in {"planning", "optimized"}
    \/ target \in VALID_TRANSITIONS[source]

_TERMINAL == {"completed", "cancelled", "failed"}

OptimizationParameters(input) ==
    [score_threshold |-> input.threshold,
     max_targets |-> input.limit,
     adjustment_step |-> 1]
OptimizationTarget == [subject : Nat, kind : {"strategy", "agent"}, score : Int]
OptimizationStep ==
    [target : OptimizationTarget, action : {"decrease", "increase", "hold"},
     adjustment : Int]
OptimizationPlan == [targets : Seq(OptimizationTarget), steps : Seq(OptimizationStep)]
Recommendation ==
    [subject : Nat, kind : {"strategy", "agent"}, action : {"decrease", "increase"},
     adjustment : Int, score : Int]
OptimizationHistory == Seq(OptimizationPlan)
OptimizationRecord ==
    [id : Ids, state : OptimizationState, history : OptimizationHistory,
     plan : OptimizationPlan, recommendations : Seq(Recommendation),
     plan_count : Nat, recommendation_count : Nat]
OptimizationMetrics ==
    [total_plans : Nat, total_recommendations : Nat, average_score : Int,
     best_target : Nat, worst_target : Nat, improvement_potential : Nat,
     applied_count : {0}, pending_count : Nat]
OptimizationSnapshot == [record : OptimizationRecord, metrics : OptimizationMetrics]
OptimizationResult ==
    {NoResult} \union [status : {"failed"}] \union
    [status : {"cancelled"}, record : OptimizationRecord] \union
    [status : {"success"}, snapshot : OptimizationSnapshot]

OptimizationEvents ==
    {"OptimizationStarted", "PlanCreated", "OptimizationEvaluated",
     "RecommendationsGenerated", "OptimizationSnapshotCreated",
     "OptimizationMetricsUpdated", "OptimizationCompleted",
     "OptimizationCancelled", "OptimizationErrorOccurred"}

\* A call's context: the evaluations of an input, its parameters and whether it
\* asks for cancellation.  The feedback and the learning metrics it may carry are
\* read by nothing.
OptimizationContext(input, cancel) ==
    [strategy_evaluations |-> input.feed[1],
     agent_evaluations |-> input.feed[2],
     parameters |-> OptimizationParameters(input),
     cancel |-> cancel]

Candidates(context) ==
    Map(context.strategy_evaluations, LAMBDA s :
        [subject |-> s.name, kind |-> "strategy", score |-> s.score]) \o
    Map(context.agent_evaluations, LAMBDA a :
        [subject |-> a.name, kind |-> "agent", score |-> a.score])

-----------------------------------------------------------------------------

_targets(context) ==
    Slice(SortedBy(Candidates(context), LAMBDA t : <<t.score, t.subject>>),
          context.parameters.max_targets)

_step(target, parameters) ==
    LET step(action, adjustment) ==
            [target |-> target, action |-> action, adjustment |-> adjustment]
        threshold == parameters.score_threshold
    IN  IF target.score < threshold THEN step("decrease", -parameters.adjustment_step)
        ELSE IF target.score > threshold THEN step("increase", parameters.adjustment_step)
        ELSE step("hold", 0)

plan_of(context) ==
    LET targets == _targets(context)
    IN  [targets |-> targets,
         steps |-> Map(targets, LAMBDA t : _step(t, context.parameters))]

optimize(plan) ==
    [plan EXCEPT !.steps = SelectSeq(@, LAMBDA s : s.action # "hold")]

generate(plan) ==
    Map(plan.steps,
        LAMBDA s : [subject |-> s.target.subject, kind |-> s.target.kind,
                    action |-> s.action, adjustment |-> s.adjustment,
                    score |-> s.target.score])

\* Decimal("NaN"): sorting it raises, and so does comparing it with the
\* threshold.
Raises(context) ==
    \/ SortRaises(Candidates(context))
    \/ NaN \in Scores(Slice(Candidates(context), context.parameters.max_targets))

\* The metrics of a record; averages by their numerators.
_calculate(record) ==
    LET targets == record.plan.targets
    IN  [total_plans |-> record.plan_count,
         total_recommendations |-> record.recommendation_count,
         average_score |-> Total(Map(targets, LAMBDA t : t.score)),
         best_target |-> IF targets = <<>> THEN 0 ELSE Highest(targets).subject,
         worst_target |-> IF targets = <<>> THEN 0 ELSE Lowest(targets).subject,
         improvement_potential |-> Total(Map(record.plan.steps, LAMBDA s :
             IF s.adjustment < 0 THEN -s.adjustment ELSE s.adjustment)),
         applied_count |-> 0,
         pending_count |-> Len(record.recommendations)]

-----------------------------------------------------------------------------

register(record) == Register(record)

unregister(id) == Forget({id} \intersect DOMAIN records)

clear == Forget(DOMAIN records)

_new_record(id) ==
    [id |-> id, state |-> "planning", history |-> <<>>,
     plan |-> [targets |-> <<>>, steps |-> <<>>], recommendations |-> <<>>,
     plan_count |-> 0, recommendation_count |-> 0]

_fail(t, id) == Failed(t, id, <<"OptimizationErrorOccurred">>)

\* _compute(), under the manager's lock: cancellation, or the three stages and
\* the next record with its snapshot.
_compute(t, id, context) ==
    LET record == Get(id, _new_record(id))
        cancelled == [record EXCEPT !.state = "cancelled"]
        plan == optimize(plan_of(context))
        recommendations == generate(plan)
        next == [record EXCEPT !.state = "optimized",
                               !.history = Append(@, plan),
                               !.plan = plan,
                               !.recommendations = recommendations,
                               !.plan_count = @ + 1,
                               !.recommendation_count = @ + Len(recommendations)]
    IN  /\ record.state \notin _TERMINAL
        /\ \/ /\ context.cancel
              /\ register(cancelled)
              /\ Cancelled(t, cancelled,
                     <<"OptimizationStarted", "OptimizationCancelled">>)
           \/ /\ ~context.cancel
              /\ ~Raises(context)
              /\ register(next)
              /\ Succeeded(t, next, _calculate(next), context,
                     <<"OptimizationStarted", "PlanCreated",
                       "OptimizationEvaluated", "RecommendationsGenerated",
                       "OptimizationSnapshotCreated",
                       "OptimizationMetricsUpdated", "OptimizationCompleted">>)

\* optimize_input(): an exception of _compute() ends in _fail(); otherwise the
\* events are published once the record is registered.
optimize_input(t, id, context) ==
    \/ _compute(t, id, context)
    \/ /\ \/ Get(id, _new_record(id)).state \in _TERMINAL
          \/ ~context.cancel /\ Raises(context)
       /\ _fail(t, id)

\* The engine hands every context to its manager.
DefaultOptimizationEngine ==
    \E t \in Tasks, id \in Ids, input \in Inputs, cancel \in BOOLEAN :
        optimize_input(t, id, OptimizationContext(input, cancel))

-----------------------------------------------------------------------------

TypeOK ==
    /\ \A id \in DOMAIN records :
          records[id] \in OptimizationRecord /\ records[id].id = id
    /\ \A t \in Tasks : results[t] \in OptimizationResult
    /\ \A t \in Tasks : ToSet(pending[t]) \subseteq Ids \X OptimizationEvents

\* The record is the sum of its history: the last plan with its recommendations,
\* and the totals over all plans.
HistoryExplainsRecord(record) ==
    /\ record.history # <<>> => record.plan = Last(record.history)
    /\ record.recommendations = generate(record.plan)
    /\ record.plan_count = Len(record.history)
    /\ record.recommendation_count =
          TotalLength(record.history, LAMBDA p : Len(generate(p)))

\* Every subject off the threshold has its recommendation unless max_targets
\* subjects that score no better were planned for.
UrgentAreHandled(record, context) ==
    LET offTarget(c) == c.score # context.parameters.score_threshold
        handled == {c \in ToSet(Candidates(context)) :
                       \/ \E r \in ToSet(record.recommendations) :
                             r.subject = c.subject /\ r.kind = c.kind
                       \/ ~offTarget(c) /\ c \in ToSet(record.plan.targets)}
    IN  MostUrgentFirst(Candidates(context), offTarget, handled,
                        context.parameters.max_targets, <)

\* The potential counts every pending recommendation once.
MetricsAgree(snapshot) ==
    /\ snapshot.metrics.improvement_potential = snapshot.metrics.pending_count
    /\ snapshot.metrics.pending_count <= Len(snapshot.record.plan.targets)
=============================================================================
