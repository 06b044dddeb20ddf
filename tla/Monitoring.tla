------------------------------ MODULE Monitoring ------------------------------
(***************************************************************************)
(* The monitoring framework (monitoring/): the worst components of a context*)
(* become health checks, the unhealthy ones alerts, and the manager appends *)
(* the report to the record and counts checks and alerts.                   *)
(***************************************************************************)
EXTENDS Cycle

MonitoringState ==
    {"created", "collecting", "evaluated", "completed", "cancelled",
     "failed"}

VALID_TRANSITIONS ==
    [created    |-> {"collecting", "cancelled"},
     collecting |-> {"collecting", "evaluated", "completed", "cancelled",
                     "failed"},
     evaluated  |-> {"collecting", "evaluated", "completed", "cancelled",
                     "failed"},
     completed |-> {}, cancelled |-> {}, failed |-> {}]

can_transition(source, target) ==
    \/ source = target /\ target \in {"collecting", "evaluated"}
    \/ target \in VALID_TRANSITIONS[source]

_TERMINAL == {"completed", "cancelled", "failed"}

MonitoringParameters(input) ==
    [health_threshold |-> input.threshold,
     critical_threshold |-> input.threshold - 1,
     max_components |-> input.limit]
MonitoredComponent == Item
HealthCheck == [component : MonitoredComponent, healthy : BOOLEAN,
                severity : {"ok", "warning", "critical"}]
HealthReport == [components : Seq(MonitoredComponent), checks : Seq(HealthCheck)]
Alert == [subject : Nat, source : Nat, severity : {"warning", "critical"}, score : Int]
MonitoringHistory == Seq(HealthReport)
MonitoringRecord ==
    [id : Ids, state : MonitoringState, history : MonitoringHistory,
     report : HealthReport, alerts : Seq(Alert), check_count : Nat, alert_count : Nat]
MonitoringMetrics ==
    [total_checks : Nat, total_alerts : Nat, average_health_score : Int,
     best_component : Nat, worst_component : Nat, uptime_ratio : Nat,
     active_alerts_count : Nat, resolved_alerts_count : {0}]
MonitoringSnapshot == [record : MonitoringRecord, metrics : MonitoringMetrics]
MonitoringResult ==
    {NoResult} \union [status : {"failed"}] \union
    [status : {"cancelled"}, record : MonitoringRecord] \union
    [status : {"success"}, snapshot : MonitoringSnapshot]

MonitoringEvents ==
    {"MonitoringStarted", "HealthReportCreated", "HealthEvaluated",
     "AlertsGenerated", "MonitoringSnapshotCreated",
     "MonitoringMetricsUpdated", "MonitoringCompleted",
     "MonitoringCancelled", "MonitoringErrorOccurred"}

\* A call's context: the groups of components of an input, its parameters and
\* whether it asks for cancellation.
MonitoringContext(input, cancel) ==
    [strategy_signals |-> input.feed[1],
     agent_signals |-> input.feed[2],
     performance_metrics |-> input.feed[3],
     optimization_signals |-> input.feed[4],
     parameters |-> MonitoringParameters(input),
     cancel |-> cancel]

Candidates(context) ==
    context.strategy_signals \o
    context.agent_signals \o
    context.performance_metrics \o
    context.optimization_signals

-----------------------------------------------------------------------------

_components(context) ==
    Slice(SortedBy(Candidates(context), LAMBDA c : <<c.score, c.source, c.name>>),
          context.parameters.max_components)

\* collect(): every component with a check that has not been evaluated yet.
collect(context) ==
    LET components == _components(context)
    IN  [components |-> components,
         checks |-> Map(components, LAMBDA c :
                           [component |-> c, healthy |-> TRUE, severity |-> "ok"])]

_check(component, parameters) ==
    LET severity == IF component.score < parameters.critical_threshold THEN "critical"
                    ELSE IF component.score < parameters.health_threshold THEN "warning"
                    ELSE "ok"
    IN  [component |-> component, healthy |-> severity = "ok", severity |-> severity]

evaluate(report, context) ==
    [report EXCEPT !.checks =
        Map(report.components, LAMBDA c : _check(c, context.parameters))]

generate(report) ==
    Map(SelectSeq(report.checks, LAMBDA c : ~c.healthy),
        LAMBDA c : [subject |-> c.component.name, source |-> c.component.source,
                    severity |-> c.severity, score |-> c.component.score])

\* Decimal("NaN"): sorting it raises, and so does comparing it with the
\* threshold.
Raises(context) ==
    \/ SortRaises(Candidates(context))
    \/ NaN \in Scores(Slice(Candidates(context), context.parameters.max_components))

\* The metrics of a record; averages and ratios by their numerators.
_calculate(record) ==
    LET components == record.report.components
    IN  [total_checks          |-> record.check_count,
         total_alerts          |-> record.alert_count,
         average_health_score  |-> Total(Map(components, LAMBDA c : c.score)),
         best_component        |-> IF components = <<>> THEN 0
                                   ELSE Highest(components).name,
         worst_component       |-> IF components = <<>> THEN 0
                                   ELSE Lowest(components).name,
         uptime_ratio          |-> Count(record.report.checks, LAMBDA c : c.healthy),
         active_alerts_count   |-> Len(record.alerts),
         resolved_alerts_count |-> 0]

-----------------------------------------------------------------------------

register(record) == Register(record)

unregister(id) == Forget({id} \intersect DOMAIN records)

clear == Forget(DOMAIN records)

_new_record(id) ==
    [id |-> id, state |-> "collecting", history |-> <<>>,
     report |-> [components |-> <<>>, checks |-> <<>>], alerts |-> <<>>,
     check_count |-> 0, alert_count |-> 0]

_fail(t, id) == Failed(t, id, <<"MonitoringErrorOccurred">>)

\* _compute(), under the manager's lock: cancellation, or the three stages and
\* the next record with its snapshot.
_compute(t, id, context) ==
    LET record == Get(id, _new_record(id))
        cancelled == [record EXCEPT !.state = "cancelled"]
        report == evaluate(collect(context), context)
        alerts == generate(report)
        next == [record EXCEPT !.state = "evaluated",
                               !.history = Append(@, report),
                               !.report = report,
                               !.alerts = alerts,
                               !.check_count = @ + Len(report.checks),
                               !.alert_count = @ + Len(alerts)]
    IN  /\ record.state \notin _TERMINAL
        /\ \/ /\ context.cancel
              /\ register(cancelled)
              /\ Cancelled(t, cancelled,
                     <<"MonitoringStarted", "MonitoringCancelled">>)
           \/ /\ ~context.cancel
              /\ ~Raises(context)
              /\ register(next)
              /\ Succeeded(t, next, _calculate(next), context,
                     <<"MonitoringStarted", "HealthReportCreated",
                       "HealthEvaluated", "AlertsGenerated",
                       "MonitoringSnapshotCreated",
                       "MonitoringMetricsUpdated", "MonitoringCompleted">>)

\* monitor(): an exception of _compute() ends in _fail(); otherwise the
\* events are published once the record is registered.
monitor(t, id, context) ==
    \/ _compute(t, id, context)
    \/ /\ \/ Get(id, _new_record(id)).state \in _TERMINAL
          \/ ~context.cancel /\ Raises(context)
       /\ _fail(t, id)

\* The engine hands every context to its manager.
DefaultMonitoringEngine ==
    \E t \in Tasks, id \in Ids, input \in Inputs, cancel \in BOOLEAN :
        monitor(t, id, MonitoringContext(input, cancel))

-----------------------------------------------------------------------------

TypeOK ==
    /\ \A id \in DOMAIN records :
          records[id] \in MonitoringRecord /\ records[id].id = id
    /\ \A t \in Tasks : results[t] \in MonitoringResult
    /\ \A t \in Tasks : ToSet(pending[t]) \subseteq Ids \X MonitoringEvents

\* The record is the sum of its history: the last report with its alerts, and
\* the totals over all reports.
HistoryExplainsRecord(record) ==
    /\ record.history # <<>> => record.report = Last(record.history)
    /\ record.alerts = generate(record.report)
    /\ record.check_count = TotalLength(record.history, LAMBDA r : Len(r.checks))
    /\ record.alert_count = TotalLength(record.history, LAMBDA r : Len(generate(r)))

\* Every component below the health threshold has its alert unless
\* max_components that are no better have one.
UrgentAreHandled(record, context) ==
    MostUrgentFirst(Candidates(context),
                    LAMBDA c : c.score < context.parameters.health_threshold,
                    Requested(Candidates(context), record.alerts),
                    context.parameters.max_components, <)

\* A check is either healthy or has an active alert.
MetricsAgree(snapshot) ==
    snapshot.metrics.uptime_ratio + snapshot.metrics.active_alerts_count
        = Len(snapshot.record.report.checks)
=============================================================================
