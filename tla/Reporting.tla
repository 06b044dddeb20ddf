------------------------------- MODULE Reporting ------------------------------
(***************************************************************************)
(* The reporting framework (reporting/): the sources of the highest priority*)
(* become reports, those at the threshold exports of a supported report     *)
(* type.                                                                    *)
(***************************************************************************)
EXTENDS Cycle

ReportingState ==
    {"created", "collecting", "built", "completed", "cancelled", "failed"}

VALID_TRANSITIONS ==
    [created    |-> {"collecting", "cancelled"},
     collecting |-> {"collecting", "built", "completed", "cancelled",
                     "failed"},
     built      |-> {"collecting", "built", "completed", "cancelled",
                     "failed"},
     completed |-> {}, cancelled |-> {}, failed |-> {}]

can_transition(source, target) ==
    \/ source = target /\ target \in {"collecting", "built"}
    \/ target \in VALID_TRANSITIONS[source]

_TERMINAL == {"completed", "cancelled", "failed"}

SUPPORTED_REPORT_TYPES ==
    {"daily", "weekly", "monthly", "performance", "portfolio", "risk"}
ReportingParameters(input) ==
    [priority_threshold |-> input.threshold, max_reports |-> input.limit]
ReportingSource == Item
Report ==
    [source : ReportingSource, include : BOOLEAN, report_type : SUPPORTED_REPORT_TYPES]
ReportingBatch == [sources : Seq(ReportingSource), reports : Seq(Report)]
ExportRequest ==
    [subject : Nat, source : Nat, report_type : SUPPORTED_REPORT_TYPES,
     category : STRING, priority : Int]
ReportingHistory == Seq(ReportingBatch)
ReportingRecord ==
    [id : Ids, state : ReportingState, history : ReportingHistory, batch : ReportingBatch,
     exports : Seq(ExportRequest), report_count : Nat, export_count : Nat]
ReportingMetrics ==
    [total_reports : Nat, total_exports : Nat, average_report_score : Int,
     highest_priority_report : Nat, lowest_priority_report : Nat, export_ratio : Nat,
     pending_reports_count : Nat, suppressed_reports_count : Nat]
ReportingSnapshot == [record : ReportingRecord, metrics : ReportingMetrics]
ReportingResult ==
    {NoResult} \union [status : {"failed"}] \union
    [status : {"cancelled"}, record : ReportingRecord] \union
    [status : {"success"}, snapshot : ReportingSnapshot]

ReportingEvents ==
    {"ReportingStarted", "ReportingCollected", "ReportBuilt",
     "ReportsExported", "ReportingSnapshotCreated",
     "ReportingMetricsUpdated", "ReportingCompleted", "ReportingCancelled",
     "ReportingErrorOccurred"}

\* A call's context: the groups of sources of an input, its parameters and
\* whether it asks for cancellation.
ReportingContext(input, cancel) ==
    [dashboard_sources |-> input.feed[1],
     notification_sources |-> input.feed[2],
     monitoring_sources |-> input.feed[3],
     performance_sources |-> input.feed[4],
     learning_sources |-> input.feed[5],
     parameters |-> ReportingParameters(input),
     cancel |-> cancel]

Candidates(context) ==
    context.dashboard_sources \o
    context.notification_sources \o
    context.monitoring_sources \o
    context.performance_sources \o
    context.learning_sources

-----------------------------------------------------------------------------

_sources(context) ==
    Slice(SortedBy(Candidates(context), LAMBDA s : <<-s.score, s.source, s.name>>),
          context.parameters.max_reports)

\* collect(): the sources, each with an entry of default values.
collect(context) ==
    LET sources == _sources(context)
    IN  [sources |-> sources,
         reports |-> Map(sources, LAMBDA s :
             [source |-> s, include |-> TRUE, report_type |-> "daily"])]

_report(source, parameters) ==
    [source |-> source,
     include |-> source.score >= parameters.priority_threshold,
     report_type |-> IF source.kind \in SUPPORTED_REPORT_TYPES
                  THEN source.kind ELSE "daily"]

build(batch, context) ==
    [batch EXCEPT !.reports =
        Map(batch.sources, LAMBDA s : _report(s, context.parameters))]

export(batch) ==
    Map(SelectSeq(batch.reports, LAMBDA e : e.include),
        LAMBDA e : [subject |-> e.source.name, source |-> e.source.source,
                    report_type |-> e.report_type, category |-> e.source.kind,
                    priority |-> e.source.score])

\* Decimal("NaN"): sorting it raises, and so does comparing it with the
\* threshold.
Raises(context) ==
    \/ SortRaises(Candidates(context))
    \/ NaN \in Scores(Slice(Candidates(context), context.parameters.max_reports))

\* The metrics of a record; averages and ratios by their numerators.
_calculate(record) ==
    LET sources == record.batch.sources
        reports == record.batch.reports
        chosen == Count(reports, LAMBDA e : e.include)
    IN  [total_reports |-> record.report_count,
         total_exports |-> record.export_count,
         average_report_score |-> Total(Map(sources, LAMBDA s : s.score)),
         highest_priority_report |-> IF sources = <<>> THEN 0 ELSE Highest(sources).name,
         lowest_priority_report |-> IF sources = <<>> THEN 0 ELSE Lowest(sources).name,
         export_ratio |-> chosen,
         pending_reports_count |-> Len(record.exports),
         suppressed_reports_count |-> Len(reports) - chosen]

-----------------------------------------------------------------------------

register(record) == Register(record)

unregister(id) == Forget({id} \intersect DOMAIN records)

clear == Forget(DOMAIN records)

_new_record(id) ==
    [id |-> id, state |-> "collecting", history |-> <<>>,
     batch |-> [sources |-> <<>>, reports |-> <<>>], exports |-> <<>>,
     report_count |-> 0, export_count |-> 0]

_fail(t, id) == Failed(t, id, <<"ReportingErrorOccurred">>)

\* _compute(), under the manager's lock: cancellation, or the three stages and
\* the next record with its snapshot.
_compute(t, id, context) ==
    LET record == Get(id, _new_record(id))
        cancelled == [record EXCEPT !.state = "cancelled"]
        batch == build(collect(context), context)
        exports == export(batch)
        next == [record EXCEPT !.state = "built",
                               !.history = Append(@, batch),
                               !.batch = batch,
                               !.exports = exports,
                               !.report_count = @ + Len(batch.reports),
                               !.export_count = @ + Len(exports)]
    IN  /\ record.state \notin _TERMINAL
        /\ \/ /\ context.cancel
              /\ register(cancelled)
              /\ Cancelled(t, cancelled,
                     <<"ReportingStarted", "ReportingCancelled">>)
           \/ /\ ~context.cancel
              /\ ~Raises(context)
              /\ register(next)
              /\ Succeeded(t, next, _calculate(next), context,
                     <<"ReportingStarted", "ReportingCollected",
                       "ReportBuilt", "ReportsExported",
                       "ReportingSnapshotCreated", "ReportingMetricsUpdated",
                       "ReportingCompleted">>)

\* report(): an exception of _compute() ends in _fail(); otherwise the
\* events are published once the record is registered.
report(t, id, context) ==
    \/ _compute(t, id, context)
    \/ /\ \/ Get(id, _new_record(id)).state \in _TERMINAL
          \/ ~context.cancel /\ Raises(context)
       /\ _fail(t, id)

\* The engine hands every context to its manager.
DefaultReportingEngine ==
    \E t \in Tasks, id \in Ids, input \in Inputs, cancel \in BOOLEAN :
        report(t, id, ReportingContext(input, cancel))

-----------------------------------------------------------------------------

TypeOK ==
    /\ \A id \in DOMAIN records :
          records[id] \in ReportingRecord /\ records[id].id = id
    /\ \A t \in Tasks : results[t] \in ReportingResult
    /\ \A t \in Tasks : ToSet(pending[t]) \subseteq Ids \X ReportingEvents

\* The record is the sum of its history: the last batch with its exports, and the
\* totals over all batches.
HistoryExplainsRecord(record) ==
    /\ record.history # <<>> => record.batch = Last(record.history)
    /\ record.exports = export(record.batch)
    /\ record.report_count = TotalLength(record.history, LAMBDA b : Len(b.reports))
    /\ record.export_count = TotalLength(record.history, LAMBDA b : Len(export(b)))

\* Every source at or above the threshold has its export unless max_reports
\* sources of no lower priority have one.
UrgentAreHandled(record, context) ==
    MostUrgentFirst(Candidates(context),
                    LAMBDA c : c.score >= context.parameters.priority_threshold,
                    Requested(Candidates(context), record.exports),
                    context.parameters.max_reports, >)

\* What the metrics call pending and suppressed is all the batch holds.
MetricsAgree(snapshot) ==
    /\ Len(snapshot.record.batch.reports) =
          snapshot.metrics.pending_reports_count +
          snapshot.metrics.suppressed_reports_count
    /\ snapshot.metrics.export_ratio = snapshot.metrics.pending_reports_count
=============================================================================
