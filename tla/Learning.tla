------------------------------- MODULE Learning -------------------------------
(***************************************************************************)
(* The learning framework (learning/): every outcome is journalled, all     *)
(* outcomes so far are tallied per strategy and per agent, and subjects with*)
(* enough samples get a recommendation.  Nothing is applied by it.          *)
(***************************************************************************)
EXTENDS Cycle

LearningState ==
    {"created", "recording", "evaluated", "completed", "cancelled",
     "failed"}

VALID_TRANSITIONS ==
    [created   |-> {"recording", "cancelled"},
     recording |-> {"recording", "evaluated", "completed", "cancelled",
                    "failed"},
     evaluated |-> {"recording", "evaluated", "completed", "cancelled",
                    "failed"},
     completed |-> {}, cancelled |-> {}, failed |-> {}]

can_transition(source, target) ==
    \/ source = target /\ target \in {"recording", "evaluated"}
    \/ target \in VALID_TRANSITIONS[source]

_TERMINAL == {"completed", "cancelled", "failed"}

LearningParameters(input) ==
    [min_samples |-> input.limit, win_threshold |-> input.threshold]
LearningOutcome ==
    [strategy_name : Nat, agent_role : Nat, realized_pnl : Int, won : BOOLEAN,
     approved : BOOLEAN]
JournalEntry == [index : Nat, outcome : LearningOutcome]
\* An evaluation by its sums: win_rate, average_pnl and score are the wins and the
\* total divided by the samples.
StrategyEvaluation == [strategy_name : Nat, samples : Nat, wins : Nat, total_pnl : Int]
AgentEvaluation == [role : Nat, samples : Nat, wins : Nat, total_pnl : Int]
FeedbackRecommendation ==
    [subject : Nat, kind : {"strategy", "agent"},
     action : {"increase", "decrease", "hold"}]
LearningHistory == Seq(JournalEntry)
LearningRecord ==
    [id : Ids, state : LearningState, history : LearningHistory,
     strategy_evaluations : Seq(StrategyEvaluation),
     agent_evaluations : Seq(AgentEvaluation),
     feedback : Seq(FeedbackRecommendation), outcome_count : Nat]
LearningMetrics ==
    [total_outcomes : Nat, win_rate : Nat, average_pnl : Int, best_strategy : Nat,
     worst_strategy : Nat, improvement_rate : Int, feedback_count : Nat]
LearningSnapshot == [record : LearningRecord, metrics : LearningMetrics]
LearningResult ==
    {NoResult} \union [status : {"failed"}] \union
    [status : {"cancelled"}, record : LearningRecord] \union
    [status : {"success"}, snapshot : LearningSnapshot]

LearningEvents ==
    {"LearningStarted", "OutcomeRecorded", "StrategyEvaluated",
     "AgentEvaluated", "FeedbackGenerated", "LearningSnapshotCreated",
     "LearningMetricsUpdated", "LearningCompleted", "LearningCancelled",
     "LearningErrorOccurred"}

\* A call's context: the outcome of a trade by the first item of an input (its
\* strategy, agent and realized profit), the profit of the trade result that may
\* come with it, whether its decision was approved, and the parameters.
LearningContext(input, cancel) ==
    LET item == IF input.feed[1] = <<>> THEN [name |-> 0, source |-> 0, score |-> 0]
                ELSE Head(input.feed[1])
    IN  [strategy_name |-> item.name, agent_role |-> item.source,
         realized_pnl |-> item.score,
         trade_result |-> Map(input.feed[2], LAMBDA trade : trade.score),
         approved |-> input.feed[3] # <<>>,
         parameters |-> LearningParameters(input),
         cancel |-> cancel]

\* A realized profit of zero is looked up in the trade result.
to_outcome(context) ==
    LET realized == IF context.realized_pnl = 0 /\ context.trade_result # <<>>
                    THEN Head(context.trade_result) ELSE context.realized_pnl
    IN  [strategy_name |-> context.strategy_name, agent_role |-> context.agent_role,
         realized_pnl |-> realized, won |-> realized > 0,
         approved |-> context.approved]

-----------------------------------------------------------------------------

\* Mutant of journal: the entries are numbered from one.
Mutant_IndexFromOne(history, outcome) ==
    Append(history, [index |-> Len(history) + 1, outcome |-> outcome])
journal(history, outcome) ==
    Append(history, [index |-> Len(history), outcome |-> outcome])

_group(entries, key(_)) ==
    LET figures(k) ==
            LET own == SelectSeq(entries, LAMBDA e : key(e.outcome) = k)
            IN  [samples |-> Len(own), wins |-> Count(own, LAMBDA e : e.outcome.won),
                 total_pnl |-> Total(Map(own, LAMBDA e : e.outcome.realized_pnl))]
    IN  [k \in {key(entries[i].outcome) : i \in DOMAIN entries} |-> figures(k)]

\* sorted(tallies.items())
SortedKeys(tallies) == SetToSortSeq(DOMAIN tallies, <)

evaluate_strategies(entries) ==
    LET tallies == _group(entries, LAMBDA o : o.strategy_name)
    IN  Map(SortedKeys(tallies), LAMBDA name : [strategy_name |-> name] @@ tallies[name])

evaluate_agents(entries) ==
    LET tallies == _group(entries, LAMBDA o : o.agent_role)
    IN  Map(SortedKeys(tallies), LAMBDA role : [role |-> role] @@ tallies[role])

\* None for too few samples; otherwise the average against the threshold.
_recommend(subject, kind, figures, parameters) ==
    LET threshold == parameters.win_threshold * figures.samples
    IN  IF figures.samples < parameters.min_samples THEN <<>>
        ELSE <<[subject |-> subject, kind |-> kind,
                action |-> IF figures.total_pnl > threshold THEN "increase"
                           ELSE IF figures.total_pnl < threshold THEN "decrease"
                           ELSE "hold"]>>

generate(strategies, agents, parameters) ==
    FlattenSeq(Map(strategies, LAMBDA s :
                   _recommend(s.strategy_name, "strategy", s, parameters)) \o
               Map(agents, LAMBDA a : _recommend(a.role, "agent", a, parameters)))

\* to_outcome() compares Decimal("NaN") with zero.
Raises(context) ==
    \/ context.realized_pnl = NaN
    \/ context.realized_pnl = 0 /\ context.trade_result # <<>>
                                /\ Head(context.trade_result) = NaN

_total_pnl(entries) == Total(Map(entries, LAMBDA e : e.outcome.realized_pnl))

\* The recent half's average less the earlier half's, by its numerator.
_improvement(entries) ==
    LET n == Len(entries)
        mid == n \div 2
    IN  IF n < 2 THEN 0
        ELSE _total_pnl(SubSeq(entries, mid + 1, n)) * mid -
             _total_pnl(SubSeq(entries, 1, mid)) * (n - mid)

\* The metrics of a record; averages and ratios by their numerators.
_calculate(record) ==
    LET entries == record.history
        strategies == record.strategy_evaluations
        better(s, r) == s.total_pnl * r.samples > r.total_pnl * s.samples
        first(ahead(_, _)) ==
            IF strategies = <<>> THEN 0
            ELSE strategies[CHOOSE i \in DOMAIN strategies :
                     /\ \A j \in DOMAIN strategies : ~ahead(strategies[j], strategies[i])
                     /\ \A j \in 1..(i - 1) : ahead(strategies[i], strategies[j])
                 ].strategy_name
    IN  [total_outcomes |-> Len(entries),
         win_rate |-> Count(entries, LAMBDA e : e.outcome.won),
         average_pnl |-> _total_pnl(entries),
         best_strategy |-> first(better),
         worst_strategy |-> first(LAMBDA s, r : better(r, s)),
         improvement_rate |-> _improvement(entries),
         feedback_count |-> Len(record.feedback)]

-----------------------------------------------------------------------------

register(record) == Register(record)

unregister(id) == Forget({id} \intersect DOMAIN records)

clear == Forget(DOMAIN records)

_new_record(id) ==
    [id |-> id, state |-> "recording", history |-> <<>>, strategy_evaluations |-> <<>>,
     agent_evaluations |-> <<>>, feedback |-> <<>>, outcome_count |-> 0]

_fail(t, id) == Failed(t, id, <<"LearningErrorOccurred">>)

\* _compute(), under the manager's lock: cancellation, or the three stages and
\* the next record with its snapshot.
_compute(t, id, context) ==
    LET record == Get(id, _new_record(id))
        cancelled == [record EXCEPT !.state = "cancelled"]
        history == journal(record.history, to_outcome(context))
        strategies == evaluate_strategies(history)
        agents == evaluate_agents(history)
        next == [record EXCEPT !.state = "evaluated",
                               !.history = history,
                               !.strategy_evaluations = strategies,
                               !.agent_evaluations = agents,
                               !.feedback = generate(strategies, agents, context.parameters),
                               !.outcome_count = @ + 1]
    IN  /\ record.state \notin _TERMINAL
        /\ \/ /\ context.cancel
              /\ register(cancelled)
              /\ Cancelled(t, cancelled,
                     <<"LearningStarted", "LearningCancelled">>)
           \/ /\ ~context.cancel
              /\ ~Raises(context)
              /\ register(next)
              /\ Succeeded(t, next, _calculate(next), context,
                     <<"LearningStarted", "OutcomeRecorded",
                       "StrategyEvaluated", "AgentEvaluated",
                       "FeedbackGenerated", "LearningSnapshotCreated",
                       "LearningMetricsUpdated", "LearningCompleted">>)

\* learn(): an exception of _compute() ends in _fail(); otherwise the
\* events are published once the record is registered.
learn(t, id, context) ==
    \/ _compute(t, id, context)
    \/ /\ \/ Get(id, _new_record(id)).state \in _TERMINAL
          \/ ~context.cancel /\ Raises(context)
       /\ _fail(t, id)

\* The engine hands every context to its manager.
DefaultLearningEngine ==
    \E t \in Tasks, id \in Ids, input \in Inputs, cancel \in BOOLEAN :
        learn(t, id, LearningContext(input, cancel))

-----------------------------------------------------------------------------

TypeOK ==
    /\ \A id \in DOMAIN records :
          records[id] \in LearningRecord /\ records[id].id = id
    /\ \A t \in Tasks : results[t] \in LearningResult
    /\ \A t \in Tasks : ToSet(pending[t]) \subseteq Ids \X LearningEvents

\* Every journalled outcome is counted once by a strategy and once by an agent,
\* and the journal is numbered without gaps.
HistoryExplainsRecord(record) ==
    LET entries == record.history
    IN  /\ record.outcome_count = Len(entries)
        /\ \A i \in DOMAIN entries : entries[i].index = i - 1
        /\ \A evaluations \in {record.strategy_evaluations, record.agent_evaluations} :
              /\ Total(Map(evaluations, LAMBDA e : e.samples)) = Len(entries)
              /\ Total(Map(evaluations, LAMBDA e : e.total_pnl)) = _total_pnl(entries)

\* A strategy is recommended for an increase exactly if at least min_samples of
\* its outcomes are known and together they earn more than the threshold each.
UrgentAreHandled(record, context) ==
    \A name \in {e.outcome.strategy_name : e \in ToSet(record.history)} :
        LET own == SelectSeq(record.history, LAMBDA e : e.outcome.strategy_name = name)
        IN  (\E f \in ToSet(record.feedback) : f.subject = name /\ f.kind = "strategy"
                                                /\ f.action = "increase") <=>
                /\ Len(own) >= context.parameters.min_samples
                /\ _total_pnl(own) > context.parameters.win_threshold * Len(own)

\* The wins are the wins of the strategies, and no subject has two
\* recommendations.
MetricsAgree(snapshot) ==
    LET record == snapshot.record
    IN  /\ snapshot.metrics.win_rate =
              Total(Map(record.strategy_evaluations, LAMBDA s : s.wins))
        /\ snapshot.metrics.feedback_count =
              Cardinality({<<f.subject, f.kind>> : f \in ToSet(record.feedback)})
=============================================================================
