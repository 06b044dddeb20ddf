------------------------------- MODULE Dashboard ------------------------------
(***************************************************************************)
(* The dashboard framework (dashboard/): the sources of a context, worst    *)
(* first and cut to max_panels, become panels; the ones at the visibility   *)
(* threshold become widgets.                                                *)
(***************************************************************************)
EXTENDS Cycle

DashboardState ==
    {"created", "aggregating", "composed", "completed", "cancelled",
     "failed"}

VALID_TRANSITIONS ==
    [created     |-> {"aggregating", "cancelled"},
     aggregating |-> {"aggregating", "composed", "completed", "cancelled",
                      "failed"},
     composed    |-> {"aggregating", "composed", "completed", "cancelled",
                      "failed"},
     completed |-> {}, cancelled |-> {}, failed |-> {}]

can_transition(source, target) ==
    \/ source = target /\ target \in {"aggregating", "composed"}
    \/ target \in VALID_TRANSITIONS[source]

_TERMINAL == {"completed", "cancelled", "failed"}

DashboardParameters(input) ==
    [visible_threshold |-> input.threshold, max_panels |-> input.limit]
DashboardSource == Item
\* A section is named by its source; 0 stands for the default, "general".
Panel == [source : DashboardSource, visible : BOOLEAN, section : Nat]
DashboardView == [sources : Seq(DashboardSource), panels : Seq(Panel)]
Widget == [subject : Nat, source : Nat, section : Nat, label : STRING, score : Int]
DashboardHistory == Seq(DashboardView)
DashboardRecord ==
    [id : Ids, state : DashboardState, history : DashboardHistory,
     view : DashboardView, widgets : Seq(Widget), panel_count : Nat,
     widget_count : Nat]
DashboardMetrics ==
    [total_panels : Nat, total_widgets : Nat, average_panel_score : Int,
     best_panel : Nat, worst_panel : Nat, coverage_ratio : Nat,
     visible_widgets_count : Nat, hidden_widgets_count : Nat]
DashboardSnapshot == [record : DashboardRecord, metrics : DashboardMetrics]
DashboardResult ==
    {NoResult} \union [status : {"failed"}] \union
    [status : {"cancelled"}, record : DashboardRecord] \union
    [status : {"success"}, snapshot : DashboardSnapshot]

DashboardEvents ==
    {"DashboardStarted", "DashboardViewCreated", "DashboardComposed",
     "WidgetsGenerated", "DashboardSnapshotCreated",
     "DashboardMetricsUpdated", "DashboardCompleted", "DashboardCancelled",
     "DashboardErrorOccurred"}

\* A call's context: the groups of sources of an input, its parameters and
\* whether it asks for cancellation.
DashboardContext(input, cancel) ==
    [strategy_sources |-> input.feed[1],
     performance_sources |-> input.feed[2],
     optimization_sources |-> input.feed[3],
     monitoring_sources |-> input.feed[4],
     parameters |-> DashboardParameters(input),
     cancel |-> cancel]

Candidates(context) ==
    context.strategy_sources \o
    context.performance_sources \o
    context.optimization_sources \o
    context.monitoring_sources

-----------------------------------------------------------------------------

_sources(context) ==
    Slice(SortedBy(Candidates(context), LAMBDA s : <<s.score, s.source, s.name>>),
          context.parameters.max_panels)

\* aggregate(): the sources, each with a panel of default values.
aggregate(context) ==
    LET sources == _sources(context)
    IN  [sources |-> sources,
         panels |-> Map(sources, LAMBDA s :
             [source |-> s, visible |-> TRUE, section |-> 0])]

_panel(source, parameters) ==
    [source |-> source,
     visible |-> source.score >= parameters.visible_threshold,
     section |-> source.source]

compose(view, context) ==
    [view EXCEPT !.panels = Map(view.sources, LAMBDA s : _panel(s, context.parameters))]

generate(view) ==
    Map(SelectSeq(view.panels, LAMBDA p : p.visible),
        LAMBDA p : [subject |-> p.source.name, source |-> p.source.source,
                    section |-> p.section, label |-> p.source.kind,
                    score |-> p.source.score])

\* Decimal("NaN"): sorting it raises, and so does comparing it with the
\* threshold.
Raises(context) ==
    \/ SortRaises(Candidates(context))
    \/ NaN \in Scores(Slice(Candidates(context), context.parameters.max_panels))

\* The metrics of a record; averages and ratios by their numerators.
_calculate(record) ==
    LET sources == record.view.sources
        shown == Count(record.view.panels, LAMBDA p : p.visible)
    IN  [total_panels |-> record.panel_count,
         total_widgets |-> record.widget_count,
         average_panel_score |-> Total(Map(sources, LAMBDA s : s.score)),
         best_panel |-> IF sources = <<>> THEN 0 ELSE Highest(sources).name,
         worst_panel |-> IF sources = <<>> THEN 0 ELSE Lowest(sources).name,
         coverage_ratio |-> shown,
         visible_widgets_count |-> Len(record.widgets),
         hidden_widgets_count |-> Len(record.view.panels) - shown]

-----------------------------------------------------------------------------

register(record) == Register(record)

unregister(id) == Forget({id} \intersect DOMAIN records)

clear == Forget(DOMAIN records)

_new_record(id) ==
    [id |-> id, state |-> "aggregating", history |-> <<>>,
     view |-> [sources |-> <<>>, panels |-> <<>>], widgets |-> <<>>,
     panel_count |-> 0, widget_count |-> 0]

_fail(t, id) == Failed(t, id, <<"DashboardErrorOccurred">>)

\* _compute(), under the manager's lock: cancellation, or the three stages and
\* the next record with its snapshot.
_compute(t, id, context) ==
    LET record == Get(id, _new_record(id))
        cancelled == [record EXCEPT !.state = "cancelled"]
        view == compose(aggregate(context), context)
        widgets == generate(view)
        next == [record EXCEPT !.state = "composed",
                               !.history = Append(@, view),
                               !.view = view,
                               !.widgets = widgets,
                               !.panel_count = @ + Len(view.panels),
                               !.widget_count = @ + Len(widgets)]
    IN  /\ record.state \notin _TERMINAL
        /\ \/ /\ context.cancel
              /\ register(cancelled)
              /\ Cancelled(t, cancelled,
                     <<"DashboardStarted", "DashboardCancelled">>)
           \/ /\ ~context.cancel
              /\ ~Raises(context)
              /\ register(next)
              /\ Succeeded(t, next, _calculate(next), context,
                     <<"DashboardStarted", "DashboardViewCreated",
                       "DashboardComposed", "WidgetsGenerated",
                       "DashboardSnapshotCreated", "DashboardMetricsUpdated",
                       "DashboardCompleted">>)

\* render(): an exception of _compute() ends in _fail(); otherwise the
\* events are published once the record is registered.
render(t, id, context) ==
    \/ _compute(t, id, context)
    \/ /\ \/ Get(id, _new_record(id)).state \in _TERMINAL
          \/ ~context.cancel /\ Raises(context)
       /\ _fail(t, id)

\* The engine hands every context to its manager.
DefaultDashboardEngine ==
    \E t \in Tasks, id \in Ids, input \in Inputs, cancel \in BOOLEAN :
        render(t, id, DashboardContext(input, cancel))

-----------------------------------------------------------------------------

TypeOK ==
    /\ \A id \in DOMAIN records :
          records[id] \in DashboardRecord /\ records[id].id = id
    /\ \A t \in Tasks : results[t] \in DashboardResult
    /\ \A t \in Tasks : ToSet(pending[t]) \subseteq Ids \X DashboardEvents

\* The record is the sum of its history: the last view with its widgets, and
\* the totals over all views.
HistoryExplainsRecord(record) ==
    /\ record.history # <<>> => record.view = Last(record.history)
    /\ record.widgets = generate(record.view)
    /\ record.panel_count = TotalLength(record.history, LAMBDA v : Len(v.panels))
    /\ record.widget_count = TotalLength(record.history, LAMBDA v : Len(generate(v)))

\* Every source has its panel unless max_panels sources that are no better have
\* one; the panels' widgets are another matter, since the visible ones are the
\* best and the panels kept are the worst.
UrgentAreHandled(record, context) ==
    MostUrgentFirst(Candidates(context), LAMBDA c : TRUE, ToSet(record.view.sources),
                    context.parameters.max_panels, <)

\* A panel is either visible, with its widget, or hidden.
MetricsAgree(snapshot) ==
    /\ snapshot.metrics.visible_widgets_count + snapshot.metrics.hidden_widgets_count
          = Len(snapshot.record.view.panels)
    /\ snapshot.metrics.coverage_ratio = snapshot.metrics.visible_widgets_count
=============================================================================
