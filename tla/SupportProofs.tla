---------------------------- MODULE SupportProofs ----------------------------
(***************************************************************************)
(* The supporting frameworks: whatever calls and removals interleave, a     *)
(* record only moves along its framework's state table and keeps its        *)
(* history.                                                                 *)
(***************************************************************************)
EXTENDS Support, DataFacts

\* The state a framework leaves a record in after a cycle.
Working ==
    [monitoring |-> "evaluated", dashboard |-> "composed", memory |-> "planned",
     notification |-> "formatted", optimization |-> "optimized", reporting |-> "built",
     scheduler |-> "planned", storage |-> "serialized", workers |-> "queued",
     learning |-> "evaluated", workflows |-> "planned", model_gateway |-> "planned"]

Terminal == {"completed", "cancelled", "failed"}

\* What a call relies on when it takes up a record: its identifier, a state and a
\* list of the cycles so far.
Formed(record, id) ==
    /\ {"id", "state", "history"} \subseteq DOMAIN record
    /\ record.id = id
    /\ record.history \in Seq({record.history[i] : i \in DOMAIN record.history})

\* Between two calls a record is at work or cancelled.
Kept(record, id, working) ==
    /\ Formed(record, id)
    /\ record.state \in {working, "cancelled"}

RecordsKept ==
    /\ framework \in Frameworks
    /\ \A id \in DOMAIN records : Kept(records[id], id, Working[framework])

\* A call registers next: a record of id that was not cancelled goes on.
Registered(id, next, working) ==
    /\ records' = [i \in DOMAIN records \union {id} |->
                      IF i = id THEN next ELSE records[i]]
    /\ framework' = framework
    /\ Kept(next, id, working)
    /\ id \in DOMAIN records =>
          /\ records[id].state = working
          /\ IsPrefix(records[id].history, next.history)

\* A call that changes the records registers one.
Advances(working) ==
    \/ UNCHANGED <<framework, records>>
    \/ \E id, next : Registered(id, next, working)

LEMMA Longer ==
    ASSUME NEW s, s \in Seq({s[i] : i \in DOMAIN s}), NEW e
    PROVE  LET t == Append(s, e)
           IN  t \in Seq({t[i] : i \in DOMAIN t}) /\ IsPrefix(s, t)
<1> DEFINE S == {s[i] : i \in DOMAIN s}
           t == Append(s, e)
           T == {t[i] : i \in DOMAIN t}
<1>1. s \in Seq(S \union {e}) /\ Len(s) \in Nat
  <2>1. Len(s) \in Nat /\ DOMAIN s = 1..Len(s) /\ s = [i \in 1..Len(s) |-> s[i]]
    OBVIOUS
  <2>2. \A i \in 1..Len(s) : s[i] \in S \union {e}
    BY <2>1
  <2> HIDE DEF S
  <2> QED BY <2>1, <2>2
<1> HIDE DEF S
<1>2. /\ t \in Seq(S \union {e}) /\ Len(t) = Len(s) + 1 /\ DOMAIN t = 1..(Len(s) + 1)
      /\ \A i \in 1..Len(s) : t[i] = s[i]
  BY <1>1
<1>3. t \in Seq(T)
  <2> HIDE DEF t, T
  <2>1. Len(t) \in Nat /\ DOMAIN t = 1..Len(t) /\ t = [i \in 1..Len(t) |-> t[i]]
    BY <1>2
  <2> USE DEF T
  <2>2. \A i \in 1..Len(t) : t[i] \in T
    BY <2>1
  <2> HIDE DEF T
  <2> QED BY <2>1, <2>2
<1>4. IsPrefix(s, t)
  <2>1. Len(s) <= Len(t)
    BY <1>1, <1>2
  <2>2. SubSeq(s, 1, Len(s)) = SubSeq(t, 1, Len(s))
    BY <1>1, <1>2
  <2> QED BY <2>1, <2>2 DEF IsPrefix
<1> QED BY <1>3, <1>4

\* The record a call takes up, and the two it may register.
LEMMA TakenUp ==
    ASSUME RecordsKept, NEW id, NEW new, Formed(new, id), NEW record,
           record = IF id \in DOMAIN records THEN records[id] ELSE new,
           record.state \notin Terminal
    PROVE  /\ Formed(record, id)
           /\ id \in DOMAIN records =>
                 records[id].state = Working[framework] /\ record = records[id]
BY DEF RecordsKept, Kept, Terminal

LEMMA Cancels ==
    ASSUME NEW record, NEW id, NEW working, Formed(record, id), NEW next,
           next = [record EXCEPT !.state = "cancelled"]
    PROVE  Kept(next, id, working) /\ IsPrefix(record.history, next.history)
<1>1. /\ DOMAIN next = DOMAIN record /\ next.id = id /\ next.state = "cancelled"
      /\ next.history = record.history
  BY DEF Formed
<1>2. Len(record.history) <= Len(record.history)
  <2>1. Len(record.history) \in Nat
    BY DEF Formed
  <2> QED BY <2>1
<1> QED BY <1>1, <1>2 DEF Kept, Formed, IsPrefix

LEMMA Cycles ==
    ASSUME NEW record, NEW id, NEW working, Formed(record, id), NEW next, NEW e,
           DOMAIN next = DOMAIN record, next.id = record.id, next.state = working,
           next.history = Append(record.history, e)
    PROVE  Kept(next, id, working) /\ IsPrefix(record.history, next.history)
<1> DEFINE h == record.history
<1>1. h \in Seq({h[i] : i \in DOMAIN h})
  BY DEF Formed
<1> HIDE DEF h
<1>2. /\ Append(h, e) \in Seq({Append(h, e)[i] : i \in DOMAIN Append(h, e)})
      /\ IsPrefix(h, Append(h, e))
  BY <1>1, Longer
<1>3. next.history = Append(h, e)
  BY DEF h
<1>4. /\ next.history \in Seq({next.history[i] : i \in DOMAIN next.history})
      /\ IsPrefix(h, next.history)
  BY <1>2, <1>3
<1> QED BY <1>4 DEF Kept, Formed, h

LEMMA WorkingIs ==
    /\ Working["monitoring"] = "evaluated"
    /\ Working["dashboard"] = "composed"
    /\ Working["memory"] = "planned"
    /\ Working["notification"] = "formatted"
    /\ Working["optimization"] = "optimized"
    /\ Working["reporting"] = "built"
    /\ Working["scheduler"] = "planned"
    /\ Working["storage"] = "serialized"
    /\ Working["workers"] = "queued"
    /\ Working["learning"] = "evaluated"
    /\ Working["workflows"] = "planned"
    /\ Working["model_gateway"] = "planned"
BY DEF Working

-----------------------------------------------------------------------------
(* The announcements of the calls.                                           *)

\* The events of a cycle, of a cancellation and of a failure.
MarksOf(m) == {m.started, m.cancelled, m.snapshot, m.completed}
Distinct(m) ==
    /\ m.started \notin {m.cancelled, m.snapshot, m.completed}
    /\ m.cancelled \notin {m.snapshot, m.completed} /\ m.snapshot # m.completed
Whole(events, m) ==
    \E n \in {7, 8} :
        /\ DOMAIN events = 1..n
        /\ events[1] = m.started /\ events[n - 2] = m.snapshot /\ events[n] = m.completed
        /\ \A i \in 1..n : i \notin {1, n - 2, n} => events[i] \notin MarksOf(m)
Stopped(events, m) ==
    DOMAIN events = 1..2 /\ events[1] = m.started /\ events[2] = m.cancelled
Refused(events, m) == DOMAIN events = 1..1 /\ events[1] \notin MarksOf(m)

\* A call of task t has to announce what it did for id.
Told(id, events) == [i \in DOMAIN events |-> <<id, events[i]>>]
Starts(t, id, events) ==
    /\ pending[t] = <<>>
    /\ pending' = [pending EXCEPT ![t] = Told(id, events)]
    /\ UNCHANGED <<framework, published>>
Announces ==
    \E t \in Tasks, id \in Ids : \E events :
        /\ Starts(t, id, events)
        /\ \/ Whole(events, MilestonesOf[framework]) /\ done' = [done EXCEPT ![id] = @ + 1]
           \/ /\ \/ Stopped(events, MilestonesOf[framework])
                 \/ Refused(events, MilestonesOf[framework])
              /\ done' = done

LEMMA MilestonesDiffer ==
    ASSUME NEW f \in Frameworks
    PROVE  Distinct(MilestonesOf[f])
BY DEF Frameworks, MilestonesOf, Milestones, Distinct

-----------------------------------------------------------------------------
(* Each framework's calls.                                                   *)

LEMMA MonitoringAdvances ==
    ASSUME RecordsKept, framework = "monitoring", Monitoring!DefaultMonitoringEngine
    PROVE  Advances("evaluated") /\ Announces
<1>1. PICK t \in Tasks, id \in Ids, input \in Inputs, cancel \in BOOLEAN :
          Monitoring!monitor(t, id, Monitoring!MonitoringContext(input, cancel))
  BY DEF Monitoring!DefaultMonitoringEngine
<1> DEFINE context == Monitoring!MonitoringContext(input, cancel)
           new == Monitoring!_new_record(id)
           record == Monitoring!Get(id, new)
           cancelled == [record EXCEPT !.state = "cancelled"]
           report == Monitoring!evaluate(Monitoring!collect(context), context)
           alerts == Monitoring!generate(report)
           next == [record EXCEPT !.state = "evaluated",
                                  !.history = Append(@, report),
                                  !.report = report,
                                  !.alerts = alerts,
                                  !.check_count = @ + Len(report.checks),
                                  !.alert_count = @ + Len(alerts)]
           m == MilestonesOf[framework]
           whole == <<"MonitoringStarted", "HealthReportCreated", "HealthEvaluated",
                      "AlertsGenerated", "MonitoringSnapshotCreated",
                      "MonitoringMetricsUpdated", "MonitoringCompleted">>
           stopped == <<"MonitoringStarted", "MonitoringCancelled">>
           refused == <<"MonitoringErrorOccurred">>
<1>2. Whole(whole, m) /\ Stopped(stopped, m) /\ Refused(refused, m)
  BY DEF MilestonesOf, Milestones, Whole, Stopped, Refused, MarksOf
<1>3. CASE Monitoring!_compute(t, id, context)
  <2>1. /\ record.state \notin Terminal /\ framework' = framework
        /\ \/ /\ Monitoring!Register(cancelled)
              /\ Starts(t, cancelled.id, stopped) /\ done' = done
           \/ /\ Monitoring!Register(next)
              /\ Starts(t, next.id, whole) /\ done' = [done EXCEPT ![next.id] = @ + 1]
    BY <1>3 DEF Monitoring!_compute, Monitoring!_TERMINAL, Terminal, Monitoring!register,
           Monitoring!Cancelled, Monitoring!Succeeded, Monitoring!Begin, Starts, Told
  <2>2. Formed(new, id)
    <3>1. new.history = <<>> /\ new.id = id /\ {"id", "state", "history"} \subseteq DOMAIN new
      BY DEF Monitoring!_new_record
    <3>2. <<>> \in Seq({<<>>[i] : i \in DOMAIN <<>>})
      OBVIOUS
    <3> HIDE DEF new
    <3> QED BY <3>1, <3>2 DEF Formed
  <2>3. record = IF id \in DOMAIN records THEN records[id] ELSE new
    BY DEF Monitoring!Get, Monitoring!Exists
  <2> HIDE DEF new, record, m, whole, stopped
  <2>4. /\ Formed(record, id)
        /\ id \in DOMAIN records => records[id].state = "evaluated" /\ record = records[id]
    BY <2>1, <2>2, <2>3, TakenUp, WorkingIs
  <2>5. CASE /\ Monitoring!Register(cancelled)
             /\ Starts(t, cancelled.id, stopped) /\ done' = done
    <3>1. Kept(cancelled, id, "evaluated") /\ IsPrefix(record.history, cancelled.history)
      BY <2>4, Cancels
    <3> HIDE DEF cancelled
    <3>2. cancelled.id = id
      BY <3>1 DEF Kept, Formed
    <3>3. Registered(id, cancelled, "evaluated")
      BY <2>1, <2>4, <2>5, <3>1, <3>2 DEF Registered, Monitoring!Register
    <3>4. Announces
      BY <1>2, <2>5, <3>2 DEF Announces, m
    <3> QED BY <3>3, <3>4 DEF Advances
  <2>6. CASE /\ Monitoring!Register(next)
             /\ Starts(t, next.id, whole) /\ done' = [done EXCEPT ![next.id] = @ + 1]
    <3>1. /\ DOMAIN next = DOMAIN record /\ next.id = record.id /\ next.state = "evaluated"
          /\ next.history = Append(record.history, report)
      BY <2>4 DEF Formed
    <3> HIDE DEF next
    <3>2. Kept(next, id, "evaluated") /\ IsPrefix(record.history, next.history)
      BY <2>4, <3>1, Cycles
    <3>3. next.id = id
      BY <3>2 DEF Kept, Formed
    <3>4. Registered(id, next, "evaluated")
      BY <2>1, <2>4, <2>6, <3>2, <3>3 DEF Registered, Monitoring!Register
    <3>5. Announces
      BY <1>2, <2>6, <3>3 DEF Announces, m
    <3> QED BY <3>4, <3>5 DEF Advances
  <2> QED BY <2>1, <2>5, <2>6
<1>4. CASE Monitoring!_fail(t, id)
  <2>1. /\ UNCHANGED <<framework, records>>
        /\ Starts(t, id, refused) /\ done' = done
    BY <1>4 DEF Monitoring!_fail, Monitoring!Failed, Monitoring!Begin, Starts, Told
  <2> HIDE DEF m, refused
  <2>2. Announces
    BY <1>2, <2>1 DEF Announces, m
  <2> QED BY <2>1, <2>2 DEF Advances
<1> HIDE DEF context, m
<1> QED BY <1>1, <1>3, <1>4 DEF Monitoring!monitor, context

LEMMA DashboardAdvances ==
    ASSUME RecordsKept, framework = "dashboard", Dashboard!DefaultDashboardEngine
    PROVE  Advances("composed") /\ Announces
<1>1. PICK t \in Tasks, id \in Ids, input \in Inputs, cancel \in BOOLEAN :
          Dashboard!render(t, id, Dashboard!DashboardContext(input, cancel))
  BY DEF Dashboard!DefaultDashboardEngine
<1> DEFINE context == Dashboard!DashboardContext(input, cancel)
           new == Dashboard!_new_record(id)
           record == Dashboard!Get(id, new)
           cancelled == [record EXCEPT !.state = "cancelled"]
           view == Dashboard!compose(Dashboard!aggregate(context), context)
           widgets == Dashboard!generate(view)
           next == [record EXCEPT !.state = "composed",
                                  !.history = Append(@, view),
                                  !.view = view,
                                  !.widgets = widgets,
                                  !.panel_count = @ + Len(view.panels),
                                  !.widget_count = @ + Len(widgets)]
           m == MilestonesOf[framework]
           whole == <<"DashboardStarted", "DashboardViewCreated", "DashboardComposed",
                      "WidgetsGenerated", "DashboardSnapshotCreated",
                      "DashboardMetricsUpdated", "DashboardCompleted">>
           stopped == <<"DashboardStarted", "DashboardCancelled">>
           refused == <<"DashboardErrorOccurred">>
<1>2. Whole(whole, m) /\ Stopped(stopped, m) /\ Refused(refused, m)
  BY DEF MilestonesOf, Milestones, Whole, Stopped, Refused, MarksOf
<1>3. CASE Dashboard!_compute(t, id, context)
  <2>1. /\ record.state \notin Terminal /\ framework' = framework
        /\ \/ /\ Dashboard!Register(cancelled)
              /\ Starts(t, cancelled.id, stopped) /\ done' = done
           \/ /\ Dashboard!Register(next)
              /\ Starts(t, next.id, whole) /\ done' = [done EXCEPT ![next.id] = @ + 1]
    BY <1>3 DEF Dashboard!_compute, Dashboard!_TERMINAL, Terminal, Dashboard!register,
           Dashboard!Cancelled, Dashboard!Succeeded, Dashboard!Begin, Starts, Told
  <2>2. Formed(new, id)
    <3>1. new.history = <<>> /\ new.id = id /\ {"id", "state", "history"} \subseteq DOMAIN new
      BY DEF Dashboard!_new_record
    <3>2. <<>> \in Seq({<<>>[i] : i \in DOMAIN <<>>})
      OBVIOUS
    <3> HIDE DEF new
    <3> QED BY <3>1, <3>2 DEF Formed
  <2>3. record = IF id \in DOMAIN records THEN records[id] ELSE new
    BY DEF Dashboard!Get, Dashboard!Exists
  <2> HIDE DEF new, record, m, whole, stopped
  <2>4. /\ Formed(record, id)
        /\ id \in DOMAIN records => records[id].state = "composed" /\ record = records[id]
    BY <2>1, <2>2, <2>3, TakenUp, WorkingIs
  <2>5. CASE /\ Dashboard!Register(cancelled)
             /\ Starts(t, cancelled.id, stopped) /\ done' = done
    <3>1. Kept(cancelled, id, "composed") /\ IsPrefix(record.history, cancelled.history)
      BY <2>4, Cancels
    <3> HIDE DEF cancelled
    <3>2. cancelled.id = id
      BY <3>1 DEF Kept, Formed
    <3>3. Registered(id, cancelled, "composed")
      BY <2>1, <2>4, <2>5, <3>1, <3>2 DEF Registered, Dashboard!Register
    <3>4. Announces
      BY <1>2, <2>5, <3>2 DEF Announces, m
    <3> QED BY <3>3, <3>4 DEF Advances
  <2>6. CASE /\ Dashboard!Register(next)
             /\ Starts(t, next.id, whole) /\ done' = [done EXCEPT ![next.id] = @ + 1]
    <3>1. /\ DOMAIN next = DOMAIN record /\ next.id = record.id /\ next.state = "composed"
          /\ next.history = Append(record.history, view)
      BY <2>4 DEF Formed
    <3> HIDE DEF next
    <3>2. Kept(next, id, "composed") /\ IsPrefix(record.history, next.history)
      BY <2>4, <3>1, Cycles
    <3>3. next.id = id
      BY <3>2 DEF Kept, Formed
    <3>4. Registered(id, next, "composed")
      BY <2>1, <2>4, <2>6, <3>2, <3>3 DEF Registered, Dashboard!Register
    <3>5. Announces
      BY <1>2, <2>6, <3>3 DEF Announces, m
    <3> QED BY <3>4, <3>5 DEF Advances
  <2> QED BY <2>1, <2>5, <2>6
<1>4. CASE Dashboard!_fail(t, id)
  <2>1. /\ UNCHANGED <<framework, records>>
        /\ Starts(t, id, refused) /\ done' = done
    BY <1>4 DEF Dashboard!_fail, Dashboard!Failed, Dashboard!Begin, Starts, Told
  <2> HIDE DEF m, refused
  <2>2. Announces
    BY <1>2, <2>1 DEF Announces, m
  <2> QED BY <2>1, <2>2 DEF Advances
<1> HIDE DEF context, m
<1> QED BY <1>1, <1>3, <1>4 DEF Dashboard!render, context

LEMMA MemoryAdvances ==
    ASSUME RecordsKept, framework = "memory", Memory!DefaultMemoryEngine
    PROVE  Advances("planned") /\ Announces
<1>1. PICK t \in Tasks, id \in Ids, input \in Inputs, cancel \in BOOLEAN :
          Memory!remember(t, id, Memory!MemoryContext(input, cancel))
  BY DEF Memory!DefaultMemoryEngine
<1> DEFINE context == Memory!MemoryContext(input, cancel)
           new == Memory!_new_record(id)
           record == Memory!Get(id, new)
           cancelled == [record EXCEPT !.state = "cancelled"]
           batch == Memory!plan(Memory!collect(context), context)
           requests == Memory!dispatch(batch)
           next == [record EXCEPT !.state = "planned",
                                  !.history = Append(@, batch),
                                  !.batch = batch,
                                  !.requests = requests,
                                  !.entry_count = @ + Len(batch.entries),
                                  !.request_count = @ + Len(requests)]
           m == MilestonesOf[framework]
           whole == <<"MemoryStarted", "EntriesCollected", "EntriesPlanned",
                      "RequestsDispatched", "MemorySnapshotCreated",
                      "MemoryMetricsUpdated", "MemoryCompleted">>
           stopped == <<"MemoryStarted", "MemoryCancelled">>
           refused == <<"MemoryErrorOccurred">>
<1>2. Whole(whole, m) /\ Stopped(stopped, m) /\ Refused(refused, m)
  BY DEF MilestonesOf, Milestones, Whole, Stopped, Refused, MarksOf
<1>3. CASE Memory!_compute(t, id, context)
  <2>1. /\ record.state \notin Terminal /\ framework' = framework
        /\ \/ /\ Memory!Register(cancelled)
              /\ Starts(t, cancelled.id, stopped) /\ done' = done
           \/ /\ Memory!Register(next)
              /\ Starts(t, next.id, whole) /\ done' = [done EXCEPT ![next.id] = @ + 1]
    BY <1>3 DEF Memory!_compute, Memory!_TERMINAL, Terminal, Memory!register,
           Memory!Cancelled, Memory!Succeeded, Memory!Begin, Starts, Told
  <2>2. Formed(new, id)
    <3>1. new.history = <<>> /\ new.id = id /\ {"id", "state", "history"} \subseteq DOMAIN new
      BY DEF Memory!_new_record
    <3>2. <<>> \in Seq({<<>>[i] : i \in DOMAIN <<>>})
      OBVIOUS
    <3> HIDE DEF new
    <3> QED BY <3>1, <3>2 DEF Formed
  <2>3. record = IF id \in DOMAIN records THEN records[id] ELSE new
    BY DEF Memory!Get, Memory!Exists
  <2> HIDE DEF new, record, m, whole, stopped
  <2>4. /\ Formed(record, id)
        /\ id \in DOMAIN records => records[id].state = "planned" /\ record = records[id]
    BY <2>1, <2>2, <2>3, TakenUp, WorkingIs
  <2>5. CASE /\ Memory!Register(cancelled)
             /\ Starts(t, cancelled.id, stopped) /\ done' = done
    <3>1. Kept(cancelled, id, "planned") /\ IsPrefix(record.history, cancelled.history)
      BY <2>4, Cancels
    <3> HIDE DEF cancelled
    <3>2. cancelled.id = id
      BY <3>1 DEF Kept, Formed
    <3>3. Registered(id, cancelled, "planned")
      BY <2>1, <2>4, <2>5, <3>1, <3>2 DEF Registered, Memory!Register
    <3>4. Announces
      BY <1>2, <2>5, <3>2 DEF Announces, m
    <3> QED BY <3>3, <3>4 DEF Advances
  <2>6. CASE /\ Memory!Register(next)
             /\ Starts(t, next.id, whole) /\ done' = [done EXCEPT ![next.id] = @ + 1]
    <3>1. /\ DOMAIN next = DOMAIN record /\ next.id = record.id /\ next.state = "planned"
          /\ next.history = Append(record.history, batch)
      BY <2>4 DEF Formed
    <3> HIDE DEF next
    <3>2. Kept(next, id, "planned") /\ IsPrefix(record.history, next.history)
      BY <2>4, <3>1, Cycles
    <3>3. next.id = id
      BY <3>2 DEF Kept, Formed
    <3>4. Registered(id, next, "planned")
      BY <2>1, <2>4, <2>6, <3>2, <3>3 DEF Registered, Memory!Register
    <3>5. Announces
      BY <1>2, <2>6, <3>3 DEF Announces, m
    <3> QED BY <3>4, <3>5 DEF Advances
  <2> QED BY <2>1, <2>5, <2>6
<1>4. CASE Memory!_fail(t, id)
  <2>1. /\ UNCHANGED <<framework, records>>
        /\ Starts(t, id, refused) /\ done' = done
    BY <1>4 DEF Memory!_fail, Memory!Failed, Memory!Begin, Starts, Told
  <2> HIDE DEF m, refused
  <2>2. Announces
    BY <1>2, <2>1 DEF Announces, m
  <2> QED BY <2>1, <2>2 DEF Advances
<1> HIDE DEF context, m
<1> QED BY <1>1, <1>3, <1>4 DEF Memory!remember, context

LEMMA NotificationAdvances ==
    ASSUME RecordsKept, framework = "notification", Notification!DefaultNotificationEngine
    PROVE  Advances("formatted") /\ Announces
<1>1. PICK t \in Tasks, id \in Ids, input \in Inputs, cancel \in BOOLEAN :
          Notification!notify(t, id, Notification!NotificationContext(input, cancel))
  BY DEF Notification!DefaultNotificationEngine
<1> DEFINE context == Notification!NotificationContext(input, cancel)
           new == Notification!_new_record(id)
           record == Notification!Get(id, new)
           cancelled == [record EXCEPT !.state = "cancelled"]
           batch == Notification!format(Notification!collect(context), context)
           requests == Notification!dispatch(batch)
           next == [record EXCEPT !.state = "formatted",
                                  !.history = Append(@, batch),
                                  !.batch = batch,
                                  !.requests = requests,
                                  !.notification_count = @ + Len(batch.notifications),
                                  !.request_count = @ + Len(requests)]
           m == MilestonesOf[framework]
           whole == <<"NotificationStarted", "NotificationCollected",
                      "NotificationFormatted", "RequestsGenerated",
                      "NotificationSnapshotCreated", "NotificationMetricsUpdated",
                      "NotificationCompleted">>
           stopped == <<"NotificationStarted", "NotificationCancelled">>
           refused == <<"NotificationErrorOccurred">>
<1>2. Whole(whole, m) /\ Stopped(stopped, m) /\ Refused(refused, m)
  BY DEF MilestonesOf, Milestones, Whole, Stopped, Refused, MarksOf
<1>3. CASE Notification!_compute(t, id, context)
  <2>1. /\ record.state \notin Terminal /\ framework' = framework
        /\ \/ /\ Notification!Register(cancelled)
              /\ Starts(t, cancelled.id, stopped) /\ done' = done
           \/ /\ Notification!Register(next)
              /\ Starts(t, next.id, whole) /\ done' = [done EXCEPT ![next.id] = @ + 1]
    BY <1>3 DEF Notification!_compute, Notification!_TERMINAL, Terminal, Notification!register,
           Notification!Cancelled, Notification!Succeeded, Notification!Begin, Starts, Told
  <2>2. Formed(new, id)
    <3>1. new.history = <<>> /\ new.id = id /\ {"id", "state", "history"} \subseteq DOMAIN new
      BY DEF Notification!_new_record
    <3>2. <<>> \in Seq({<<>>[i] : i \in DOMAIN <<>>})
      OBVIOUS
    <3> HIDE DEF new
    <3> QED BY <3>1, <3>2 DEF Formed
  <2>3. record = IF id \in DOMAIN records THEN records[id] ELSE new
    BY DEF Notification!Get, Notification!Exists
  <2> HIDE DEF new, record, m, whole, stopped
  <2>4. /\ Formed(record, id)
        /\ id \in DOMAIN records => records[id].state = "formatted" /\ record = records[id]
    BY <2>1, <2>2, <2>3, TakenUp, WorkingIs
  <2>5. CASE /\ Notification!Register(cancelled)
             /\ Starts(t, cancelled.id, stopped) /\ done' = done
    <3>1. Kept(cancelled, id, "formatted") /\ IsPrefix(record.history, cancelled.history)
      BY <2>4, Cancels
    <3> HIDE DEF cancelled
    <3>2. cancelled.id = id
      BY <3>1 DEF Kept, Formed
    <3>3. Registered(id, cancelled, "formatted")
      BY <2>1, <2>4, <2>5, <3>1, <3>2 DEF Registered, Notification!Register
    <3>4. Announces
      BY <1>2, <2>5, <3>2 DEF Announces, m
    <3> QED BY <3>3, <3>4 DEF Advances
  <2>6. CASE /\ Notification!Register(next)
             /\ Starts(t, next.id, whole) /\ done' = [done EXCEPT ![next.id] = @ + 1]
    <3>1. /\ DOMAIN next = DOMAIN record /\ next.id = record.id /\ next.state = "formatted"
          /\ next.history = Append(record.history, batch)
      BY <2>4 DEF Formed
    <3> HIDE DEF next
    <3>2. Kept(next, id, "formatted") /\ IsPrefix(record.history, next.history)
      BY <2>4, <3>1, Cycles
    <3>3. next.id = id
      BY <3>2 DEF Kept, Formed
    <3>4. Registered(id, next, "formatted")
      BY <2>1, <2>4, <2>6, <3>2, <3>3 DEF Registered, Notification!Register
    <3>5. Announces
      BY <1>2, <2>6, <3>3 DEF Announces, m
    <3> QED BY <3>4, <3>5 DEF Advances
  <2> QED BY <2>1, <2>5, <2>6
<1>4. CASE Notification!_fail(t, id)
  <2>1. /\ UNCHANGED <<framework, records>>
        /\ Starts(t, id, refused) /\ done' = done
    BY <1>4 DEF Notification!_fail, Notification!Failed, Notification!Begin, Starts, Told
  <2> HIDE DEF m, refused
  <2>2. Announces
    BY <1>2, <2>1 DEF Announces, m
  <2> QED BY <2>1, <2>2 DEF Advances
<1> HIDE DEF context, m
<1> QED BY <1>1, <1>3, <1>4 DEF Notification!notify, context

LEMMA OptimizationAdvances ==
    ASSUME RecordsKept, framework = "optimization", Optimization!DefaultOptimizationEngine
    PROVE  Advances("optimized") /\ Announces
<1>1. PICK t \in Tasks, id \in Ids, input \in Inputs, cancel \in BOOLEAN :
          Optimization!optimize_input(t, id, Optimization!OptimizationContext(input, cancel))
  BY DEF Optimization!DefaultOptimizationEngine
<1> DEFINE context == Optimization!OptimizationContext(input, cancel)
           new == Optimization!_new_record(id)
           record == Optimization!Get(id, new)
           cancelled == [record EXCEPT !.state = "cancelled"]
           plan == Optimization!optimize(Optimization!plan_of(context))
           recommendations == Optimization!generate(plan)
           next == [record EXCEPT !.state = "optimized",
                                  !.history = Append(@, plan),
                                  !.plan = plan,
                                  !.recommendations = recommendations,
                                  !.plan_count = @ + 1,
                                  !.recommendation_count = @ + Len(recommendations)]
           m == MilestonesOf[framework]
           whole == <<"OptimizationStarted", "PlanCreated", "OptimizationEvaluated",
                      "RecommendationsGenerated", "OptimizationSnapshotCreated",
                      "OptimizationMetricsUpdated", "OptimizationCompleted">>
           stopped == <<"OptimizationStarted", "OptimizationCancelled">>
           refused == <<"OptimizationErrorOccurred">>
<1>2. Whole(whole, m) /\ Stopped(stopped, m) /\ Refused(refused, m)
  BY DEF MilestonesOf, Milestones, Whole, Stopped, Refused, MarksOf
<1>3. CASE Optimization!_compute(t, id, context)
  <2>1. /\ record.state \notin Terminal /\ framework' = framework
        /\ \/ /\ Optimization!Register(cancelled)
              /\ Starts(t, cancelled.id, stopped) /\ done' = done
           \/ /\ Optimization!Register(next)
              /\ Starts(t, next.id, whole) /\ done' = [done EXCEPT ![next.id] = @ + 1]
    BY <1>3 DEF Optimization!_compute, Optimization!_TERMINAL, Terminal, Optimization!register,
           Optimization!Cancelled, Optimization!Succeeded, Optimization!Begin, Starts, Told
  <2>2. Formed(new, id)
    <3>1. new.history = <<>> /\ new.id = id /\ {"id", "state", "history"} \subseteq DOMAIN new
      BY DEF Optimization!_new_record
    <3>2. <<>> \in Seq({<<>>[i] : i \in DOMAIN <<>>})
      OBVIOUS
    <3> HIDE DEF new
    <3> QED BY <3>1, <3>2 DEF Formed
  <2>3. record = IF id \in DOMAIN records THEN records[id] ELSE new
    BY DEF Optimization!Get, Optimization!Exists
  <2> HIDE DEF new, record, m, whole, stopped
  <2>4. /\ Formed(record, id)
        /\ id \in DOMAIN records => records[id].state = "optimized" /\ record = records[id]
    BY <2>1, <2>2, <2>3, TakenUp, WorkingIs
  <2>5. CASE /\ Optimization!Register(cancelled)
             /\ Starts(t, cancelled.id, stopped) /\ done' = done
    <3>1. Kept(cancelled, id, "optimized") /\ IsPrefix(record.history, cancelled.history)
      BY <2>4, Cancels
    <3> HIDE DEF cancelled
    <3>2. cancelled.id = id
      BY <3>1 DEF Kept, Formed
    <3>3. Registered(id, cancelled, "optimized")
      BY <2>1, <2>4, <2>5, <3>1, <3>2 DEF Registered, Optimization!Register
    <3>4. Announces
      BY <1>2, <2>5, <3>2 DEF Announces, m
    <3> QED BY <3>3, <3>4 DEF Advances
  <2>6. CASE /\ Optimization!Register(next)
             /\ Starts(t, next.id, whole) /\ done' = [done EXCEPT ![next.id] = @ + 1]
    <3>1. /\ DOMAIN next = DOMAIN record /\ next.id = record.id /\ next.state = "optimized"
          /\ next.history = Append(record.history, plan)
      BY <2>4 DEF Formed
    <3> HIDE DEF next
    <3>2. Kept(next, id, "optimized") /\ IsPrefix(record.history, next.history)
      BY <2>4, <3>1, Cycles
    <3>3. next.id = id
      BY <3>2 DEF Kept, Formed
    <3>4. Registered(id, next, "optimized")
      BY <2>1, <2>4, <2>6, <3>2, <3>3 DEF Registered, Optimization!Register
    <3>5. Announces
      BY <1>2, <2>6, <3>3 DEF Announces, m
    <3> QED BY <3>4, <3>5 DEF Advances
  <2> QED BY <2>1, <2>5, <2>6
<1>4. CASE Optimization!_fail(t, id)
  <2>1. /\ UNCHANGED <<framework, records>>
        /\ Starts(t, id, refused) /\ done' = done
    BY <1>4 DEF Optimization!_fail, Optimization!Failed, Optimization!Begin, Starts, Told
  <2> HIDE DEF m, refused
  <2>2. Announces
    BY <1>2, <2>1 DEF Announces, m
  <2> QED BY <2>1, <2>2 DEF Advances
<1> HIDE DEF context, m
<1> QED BY <1>1, <1>3, <1>4 DEF Optimization!optimize_input, context

LEMMA ReportingAdvances ==
    ASSUME RecordsKept, framework = "reporting", Reporting!DefaultReportingEngine
    PROVE  Advances("built") /\ Announces
<1>1. PICK t \in Tasks, id \in Ids, input \in Inputs, cancel \in BOOLEAN :
          Reporting!report(t, id, Reporting!ReportingContext(input, cancel))
  BY DEF Reporting!DefaultReportingEngine
<1> DEFINE context == Reporting!ReportingContext(input, cancel)
           new == Reporting!_new_record(id)
           record == Reporting!Get(id, new)
           cancelled == [record EXCEPT !.state = "cancelled"]
           batch == Reporting!build(Reporting!collect(context), context)
           exports == Reporting!export(batch)
           next == [record EXCEPT !.state = "built",
                                  !.history = Append(@, batch),
                                  !.batch = batch,
                                  !.exports = exports,
                                  !.report_count = @ + Len(batch.reports),
                                  !.export_count = @ + Len(exports)]
           m == MilestonesOf[framework]
           whole == <<"ReportingStarted", "ReportingCollected", "ReportBuilt",
                      "ReportsExported", "ReportingSnapshotCreated",
                      "ReportingMetricsUpdated", "ReportingCompleted">>
           stopped == <<"ReportingStarted", "ReportingCancelled">>
           refused == <<"ReportingErrorOccurred">>
<1>2. Whole(whole, m) /\ Stopped(stopped, m) /\ Refused(refused, m)
  BY DEF MilestonesOf, Milestones, Whole, Stopped, Refused, MarksOf
<1>3. CASE Reporting!_compute(t, id, context)
  <2>1. /\ record.state \notin Terminal /\ framework' = framework
        /\ \/ /\ Reporting!Register(cancelled)
              /\ Starts(t, cancelled.id, stopped) /\ done' = done
           \/ /\ Reporting!Register(next)
              /\ Starts(t, next.id, whole) /\ done' = [done EXCEPT ![next.id] = @ + 1]
    BY <1>3 DEF Reporting!_compute, Reporting!_TERMINAL, Terminal, Reporting!register,
           Reporting!Cancelled, Reporting!Succeeded, Reporting!Begin, Starts, Told
  <2>2. Formed(new, id)
    <3>1. new.history = <<>> /\ new.id = id /\ {"id", "state", "history"} \subseteq DOMAIN new
      BY DEF Reporting!_new_record
    <3>2. <<>> \in Seq({<<>>[i] : i \in DOMAIN <<>>})
      OBVIOUS
    <3> HIDE DEF new
    <3> QED BY <3>1, <3>2 DEF Formed
  <2>3. record = IF id \in DOMAIN records THEN records[id] ELSE new
    BY DEF Reporting!Get, Reporting!Exists
  <2> HIDE DEF new, record, m, whole, stopped
  <2>4. /\ Formed(record, id)
        /\ id \in DOMAIN records => records[id].state = "built" /\ record = records[id]
    BY <2>1, <2>2, <2>3, TakenUp, WorkingIs
  <2>5. CASE /\ Reporting!Register(cancelled)
             /\ Starts(t, cancelled.id, stopped) /\ done' = done
    <3>1. Kept(cancelled, id, "built") /\ IsPrefix(record.history, cancelled.history)
      BY <2>4, Cancels
    <3> HIDE DEF cancelled
    <3>2. cancelled.id = id
      BY <3>1 DEF Kept, Formed
    <3>3. Registered(id, cancelled, "built")
      BY <2>1, <2>4, <2>5, <3>1, <3>2 DEF Registered, Reporting!Register
    <3>4. Announces
      BY <1>2, <2>5, <3>2 DEF Announces, m
    <3> QED BY <3>3, <3>4 DEF Advances
  <2>6. CASE /\ Reporting!Register(next)
             /\ Starts(t, next.id, whole) /\ done' = [done EXCEPT ![next.id] = @ + 1]
    <3>1. /\ DOMAIN next = DOMAIN record /\ next.id = record.id /\ next.state = "built"
          /\ next.history = Append(record.history, batch)
      BY <2>4 DEF Formed
    <3> HIDE DEF next
    <3>2. Kept(next, id, "built") /\ IsPrefix(record.history, next.history)
      BY <2>4, <3>1, Cycles
    <3>3. next.id = id
      BY <3>2 DEF Kept, Formed
    <3>4. Registered(id, next, "built")
      BY <2>1, <2>4, <2>6, <3>2, <3>3 DEF Registered, Reporting!Register
    <3>5. Announces
      BY <1>2, <2>6, <3>3 DEF Announces, m
    <3> QED BY <3>4, <3>5 DEF Advances
  <2> QED BY <2>1, <2>5, <2>6
<1>4. CASE Reporting!_fail(t, id)
  <2>1. /\ UNCHANGED <<framework, records>>
        /\ Starts(t, id, refused) /\ done' = done
    BY <1>4 DEF Reporting!_fail, Reporting!Failed, Reporting!Begin, Starts, Told
  <2> HIDE DEF m, refused
  <2>2. Announces
    BY <1>2, <2>1 DEF Announces, m
  <2> QED BY <2>1, <2>2 DEF Advances
<1> HIDE DEF context, m
<1> QED BY <1>1, <1>3, <1>4 DEF Reporting!report, context

LEMMA SchedulerAdvances ==
    ASSUME RecordsKept, framework = "scheduler", Scheduler!DefaultSchedulerEngine
    PROVE  Advances("planned") /\ Announces
<1>1. PICK t \in Tasks, id \in Ids, input \in Inputs, cancel \in BOOLEAN :
          Scheduler!schedule(t, id, Scheduler!SchedulerContext(input, cancel))
  BY DEF Scheduler!DefaultSchedulerEngine
<1> DEFINE context == Scheduler!SchedulerContext(input, cancel)
           new == Scheduler!_new_record(id)
           record == Scheduler!Get(id, new)
           cancelled == [record EXCEPT !.state = "cancelled"]
           batch == Scheduler!plan(Scheduler!collect(context), context)
           requests == Scheduler!dispatch(batch)
           next == [record EXCEPT !.state = "planned",
                                  !.history = Append(@, batch),
                                  !.batch = batch,
                                  !.requests = requests,
                                  !.entry_count = @ + Len(batch.entries),
                                  !.request_count = @ + Len(requests)]
           m == MilestonesOf[framework]
           whole == <<"SchedulerStarted", "ScheduleCollected", "SchedulePlanned",
                      "RequestsDispatched", "SchedulerSnapshotCreated",
                      "SchedulerMetricsUpdated", "SchedulerCompleted">>
           stopped == <<"SchedulerStarted", "SchedulerCancelled">>
           refused == <<"SchedulerErrorOccurred">>
<1>2. Whole(whole, m) /\ Stopped(stopped, m) /\ Refused(refused, m)
  BY DEF MilestonesOf, Milestones, Whole, Stopped, Refused, MarksOf
<1>3. CASE Scheduler!_compute(t, id, context)
  <2>1. /\ record.state \notin Terminal /\ framework' = framework
        /\ \/ /\ Scheduler!Register(cancelled)
              /\ Starts(t, cancelled.id, stopped) /\ done' = done
           \/ /\ Scheduler!Register(next)
              /\ Starts(t, next.id, whole) /\ done' = [done EXCEPT ![next.id] = @ + 1]
    BY <1>3 DEF Scheduler!_compute, Scheduler!_TERMINAL, Terminal, Scheduler!register,
           Scheduler!Cancelled, Scheduler!Succeeded, Scheduler!Begin, Starts, Told
  <2>2. Formed(new, id)
    <3>1. new.history = <<>> /\ new.id = id /\ {"id", "state", "history"} \subseteq DOMAIN new
      BY DEF Scheduler!_new_record
    <3>2. <<>> \in Seq({<<>>[i] : i \in DOMAIN <<>>})
      OBVIOUS
    <3> HIDE DEF new
    <3> QED BY <3>1, <3>2 DEF Formed
  <2>3. record = IF id \in DOMAIN records THEN records[id] ELSE new
    BY DEF Scheduler!Get, Scheduler!Exists
  <2> HIDE DEF new, record, m, whole, stopped
  <2>4. /\ Formed(record, id)
        /\ id \in DOMAIN records => records[id].state = "planned" /\ record = records[id]
    BY <2>1, <2>2, <2>3, TakenUp, WorkingIs
  <2>5. CASE /\ Scheduler!Register(cancelled)
             /\ Starts(t, cancelled.id, stopped) /\ done' = done
    <3>1. Kept(cancelled, id, "planned") /\ IsPrefix(record.history, cancelled.history)
      BY <2>4, Cancels
    <3> HIDE DEF cancelled
    <3>2. cancelled.id = id
      BY <3>1 DEF Kept, Formed
    <3>3. Registered(id, cancelled, "planned")
      BY <2>1, <2>4, <2>5, <3>1, <3>2 DEF Registered, Scheduler!Register
    <3>4. Announces
      BY <1>2, <2>5, <3>2 DEF Announces, m
    <3> QED BY <3>3, <3>4 DEF Advances
  <2>6. CASE /\ Scheduler!Register(next)
             /\ Starts(t, next.id, whole) /\ done' = [done EXCEPT ![next.id] = @ + 1]
    <3>1. /\ DOMAIN next = DOMAIN record /\ next.id = record.id /\ next.state = "planned"
          /\ next.history = Append(record.history, batch)
      BY <2>4 DEF Formed
    <3> HIDE DEF next
    <3>2. Kept(next, id, "planned") /\ IsPrefix(record.history, next.history)
      BY <2>4, <3>1, Cycles
    <3>3. next.id = id
      BY <3>2 DEF Kept, Formed
    <3>4. Registered(id, next, "planned")
      BY <2>1, <2>4, <2>6, <3>2, <3>3 DEF Registered, Scheduler!Register
    <3>5. Announces
      BY <1>2, <2>6, <3>3 DEF Announces, m
    <3> QED BY <3>4, <3>5 DEF Advances
  <2> QED BY <2>1, <2>5, <2>6
<1>4. CASE Scheduler!_fail(t, id)
  <2>1. /\ UNCHANGED <<framework, records>>
        /\ Starts(t, id, refused) /\ done' = done
    BY <1>4 DEF Scheduler!_fail, Scheduler!Failed, Scheduler!Begin, Starts, Told
  <2> HIDE DEF m, refused
  <2>2. Announces
    BY <1>2, <2>1 DEF Announces, m
  <2> QED BY <2>1, <2>2 DEF Advances
<1> HIDE DEF context, m
<1> QED BY <1>1, <1>3, <1>4 DEF Scheduler!schedule, context

LEMMA StorageAdvances ==
    ASSUME RecordsKept, framework = "storage", Storage!DefaultStorageEngine
    PROVE  Advances("serialized") /\ Announces
<1>1. PICK t \in Tasks, id \in Ids, input \in Inputs, cancel \in BOOLEAN :
          Storage!store(t, id, Storage!StorageContext(input, cancel))
  BY DEF Storage!DefaultStorageEngine
<1> DEFINE context == Storage!StorageContext(input, cancel)
           new == Storage!_new_record(id)
           record == Storage!Get(id, new)
           cancelled == [record EXCEPT !.state = "cancelled"]
           batch == Storage!serialize(Storage!collect(context), context)
           requests == Storage!plan(batch)
           next == [record EXCEPT !.state = "serialized",
                                  !.history = Append(@, batch),
                                  !.batch = batch,
                                  !.requests = requests,
                                  !.item_count = @ + Len(batch.items),
                                  !.request_count = @ + Len(requests)]
           m == MilestonesOf[framework]
           whole == <<"StorageStarted", "StorageCollected", "StorageSerialized",
                      "RequestsPlanned", "StorageSnapshotCreated",
                      "StorageMetricsUpdated", "StorageCompleted">>
           stopped == <<"StorageStarted", "StorageCancelled">>
           refused == <<"StorageErrorOccurred">>
<1>2. Whole(whole, m) /\ Stopped(stopped, m) /\ Refused(refused, m)
  BY DEF MilestonesOf, Milestones, Whole, Stopped, Refused, MarksOf
<1>3. CASE Storage!_compute(t, id, context)
  <2>1. /\ record.state \notin Terminal /\ framework' = framework
        /\ \/ /\ Storage!Register(cancelled)
              /\ Starts(t, cancelled.id, stopped) /\ done' = done
           \/ /\ Storage!Register(next)
              /\ Starts(t, next.id, whole) /\ done' = [done EXCEPT ![next.id] = @ + 1]
    BY <1>3 DEF Storage!_compute, Storage!_TERMINAL, Terminal, Storage!register,
           Storage!Cancelled, Storage!Succeeded, Storage!Begin, Starts, Told
  <2>2. Formed(new, id)
    <3>1. new.history = <<>> /\ new.id = id /\ {"id", "state", "history"} \subseteq DOMAIN new
      BY DEF Storage!_new_record
    <3>2. <<>> \in Seq({<<>>[i] : i \in DOMAIN <<>>})
      OBVIOUS
    <3> HIDE DEF new
    <3> QED BY <3>1, <3>2 DEF Formed
  <2>3. record = IF id \in DOMAIN records THEN records[id] ELSE new
    BY DEF Storage!Get, Storage!Exists
  <2> HIDE DEF new, record, m, whole, stopped
  <2>4. /\ Formed(record, id)
        /\ id \in DOMAIN records => records[id].state = "serialized" /\ record = records[id]
    BY <2>1, <2>2, <2>3, TakenUp, WorkingIs
  <2>5. CASE /\ Storage!Register(cancelled)
             /\ Starts(t, cancelled.id, stopped) /\ done' = done
    <3>1. Kept(cancelled, id, "serialized") /\ IsPrefix(record.history, cancelled.history)
      BY <2>4, Cancels
    <3> HIDE DEF cancelled
    <3>2. cancelled.id = id
      BY <3>1 DEF Kept, Formed
    <3>3. Registered(id, cancelled, "serialized")
      BY <2>1, <2>4, <2>5, <3>1, <3>2 DEF Registered, Storage!Register
    <3>4. Announces
      BY <1>2, <2>5, <3>2 DEF Announces, m
    <3> QED BY <3>3, <3>4 DEF Advances
  <2>6. CASE /\ Storage!Register(next)
             /\ Starts(t, next.id, whole) /\ done' = [done EXCEPT ![next.id] = @ + 1]
    <3>1. /\ DOMAIN next = DOMAIN record /\ next.id = record.id /\ next.state = "serialized"
          /\ next.history = Append(record.history, batch)
      BY <2>4 DEF Formed
    <3> HIDE DEF next
    <3>2. Kept(next, id, "serialized") /\ IsPrefix(record.history, next.history)
      BY <2>4, <3>1, Cycles
    <3>3. next.id = id
      BY <3>2 DEF Kept, Formed
    <3>4. Registered(id, next, "serialized")
      BY <2>1, <2>4, <2>6, <3>2, <3>3 DEF Registered, Storage!Register
    <3>5. Announces
      BY <1>2, <2>6, <3>3 DEF Announces, m
    <3> QED BY <3>4, <3>5 DEF Advances
  <2> QED BY <2>1, <2>5, <2>6
<1>4. CASE Storage!_fail(t, id)
  <2>1. /\ UNCHANGED <<framework, records>>
        /\ Starts(t, id, refused) /\ done' = done
    BY <1>4 DEF Storage!_fail, Storage!Failed, Storage!Begin, Starts, Told
  <2> HIDE DEF m, refused
  <2>2. Announces
    BY <1>2, <2>1 DEF Announces, m
  <2> QED BY <2>1, <2>2 DEF Advances
<1> HIDE DEF context, m
<1> QED BY <1>1, <1>3, <1>4 DEF Storage!store, context

LEMMA WorkersAdvances ==
    ASSUME RecordsKept, framework = "workers", Workers!DefaultWorkerEngine
    PROVE  Advances("queued") /\ Announces
<1>1. PICK t \in Tasks, id \in Ids, input \in Inputs, cancel \in BOOLEAN :
          Workers!enqueue(t, id, Workers!WorkerContext(input, cancel))
  BY DEF Workers!DefaultWorkerEngine
<1> DEFINE context == Workers!WorkerContext(input, cancel)
           new == Workers!_new_record(id)
           record == Workers!Get(id, new)
           cancelled == [record EXCEPT !.state = "cancelled"]
           batch == Workers!plan(Workers!collect(context), context)
           requests == Workers!dispatch(batch)
           next == [record EXCEPT !.state = "queued",
                                  !.history = Append(@, batch),
                                  !.batch = batch,
                                  !.requests = requests,
                                  !.job_count = @ + Len(batch.entries),
                                  !.request_count = @ + Len(requests)]
           m == MilestonesOf[framework]
           whole == <<"WorkerStarted", "JobsCollected", "JobsQueued",
                      "RequestsDispatched", "WorkerSnapshotCreated",
                      "WorkerMetricsUpdated", "WorkerCompleted">>
           stopped == <<"WorkerStarted", "WorkerCancelled">>
           refused == <<"WorkerErrorOccurred">>
<1>2. Whole(whole, m) /\ Stopped(stopped, m) /\ Refused(refused, m)
  BY DEF MilestonesOf, Milestones, Whole, Stopped, Refused, MarksOf
<1>3. CASE Workers!_compute(t, id, context)
  <2>1. /\ record.state \notin Terminal /\ framework' = framework
        /\ \/ /\ Workers!Register(cancelled)
              /\ Starts(t, cancelled.id, stopped) /\ done' = done
           \/ /\ Workers!Register(next)
              /\ Starts(t, next.id, whole) /\ done' = [done EXCEPT ![next.id] = @ + 1]
    BY <1>3 DEF Workers!_compute, Workers!_TERMINAL, Terminal, Workers!register,
           Workers!Cancelled, Workers!Succeeded, Workers!Begin, Starts, Told
  <2>2. Formed(new, id)
    <3>1. new.history = <<>> /\ new.id = id /\ {"id", "state", "history"} \subseteq DOMAIN new
      BY DEF Workers!_new_record
    <3>2. <<>> \in Seq({<<>>[i] : i \in DOMAIN <<>>})
      OBVIOUS
    <3> HIDE DEF new
    <3> QED BY <3>1, <3>2 DEF Formed
  <2>3. record = IF id \in DOMAIN records THEN records[id] ELSE new
    BY DEF Workers!Get, Workers!Exists
  <2> HIDE DEF new, record, m, whole, stopped
  <2>4. /\ Formed(record, id)
        /\ id \in DOMAIN records => records[id].state = "queued" /\ record = records[id]
    BY <2>1, <2>2, <2>3, TakenUp, WorkingIs
  <2>5. CASE /\ Workers!Register(cancelled)
             /\ Starts(t, cancelled.id, stopped) /\ done' = done
    <3>1. Kept(cancelled, id, "queued") /\ IsPrefix(record.history, cancelled.history)
      BY <2>4, Cancels
    <3> HIDE DEF cancelled
    <3>2. cancelled.id = id
      BY <3>1 DEF Kept, Formed
    <3>3. Registered(id, cancelled, "queued")
      BY <2>1, <2>4, <2>5, <3>1, <3>2 DEF Registered, Workers!Register
    <3>4. Announces
      BY <1>2, <2>5, <3>2 DEF Announces, m
    <3> QED BY <3>3, <3>4 DEF Advances
  <2>6. CASE /\ Workers!Register(next)
             /\ Starts(t, next.id, whole) /\ done' = [done EXCEPT ![next.id] = @ + 1]
    <3>1. /\ DOMAIN next = DOMAIN record /\ next.id = record.id /\ next.state = "queued"
          /\ next.history = Append(record.history, batch)
      BY <2>4 DEF Formed
    <3> HIDE DEF next
    <3>2. Kept(next, id, "queued") /\ IsPrefix(record.history, next.history)
      BY <2>4, <3>1, Cycles
    <3>3. next.id = id
      BY <3>2 DEF Kept, Formed
    <3>4. Registered(id, next, "queued")
      BY <2>1, <2>4, <2>6, <3>2, <3>3 DEF Registered, Workers!Register
    <3>5. Announces
      BY <1>2, <2>6, <3>3 DEF Announces, m
    <3> QED BY <3>4, <3>5 DEF Advances
  <2> QED BY <2>1, <2>5, <2>6
<1>4. CASE Workers!_fail(t, id)
  <2>1. /\ UNCHANGED <<framework, records>>
        /\ Starts(t, id, refused) /\ done' = done
    BY <1>4 DEF Workers!_fail, Workers!Failed, Workers!Begin, Starts, Told
  <2> HIDE DEF m, refused
  <2>2. Announces
    BY <1>2, <2>1 DEF Announces, m
  <2> QED BY <2>1, <2>2 DEF Advances
<1> HIDE DEF context, m
<1> QED BY <1>1, <1>3, <1>4 DEF Workers!enqueue, context

LEMMA LearningAdvances ==
    ASSUME RecordsKept, framework = "learning", Learning!DefaultLearningEngine
    PROVE  Advances("evaluated") /\ Announces
<1>1. PICK t \in Tasks, id \in Ids, input \in Inputs, cancel \in BOOLEAN :
          Learning!learn(t, id, Learning!LearningContext(input, cancel))
  BY DEF Learning!DefaultLearningEngine
<1> DEFINE context == Learning!LearningContext(input, cancel)
           new == Learning!_new_record(id)
           record == Learning!Get(id, new)
           cancelled == [record EXCEPT !.state = "cancelled"]
           history == Learning!journal(record.history, Learning!to_outcome(context))
           strategies == Learning!evaluate_strategies(history)
           agents == Learning!evaluate_agents(history)
           next == [record EXCEPT !.state = "evaluated",
                                  !.history = history,
                                  !.strategy_evaluations = strategies,
                                  !.agent_evaluations = agents,
                                  !.feedback = Learning!generate(strategies, agents,
                                                                 context.parameters),
                                  !.outcome_count = @ + 1]
           m == MilestonesOf[framework]
           whole == <<"LearningStarted", "OutcomeRecorded", "StrategyEvaluated",
                      "AgentEvaluated", "FeedbackGenerated", "LearningSnapshotCreated",
                      "LearningMetricsUpdated", "LearningCompleted">>
           stopped == <<"LearningStarted", "LearningCancelled">>
           refused == <<"LearningErrorOccurred">>
<1>2. Whole(whole, m) /\ Stopped(stopped, m) /\ Refused(refused, m)
  BY DEF MilestonesOf, Milestones, Whole, Stopped, Refused, MarksOf
<1>3. CASE Learning!_compute(t, id, context)
  <2>1. /\ record.state \notin Terminal /\ framework' = framework
        /\ \/ /\ Learning!Register(cancelled)
              /\ Starts(t, cancelled.id, stopped) /\ done' = done
           \/ /\ Learning!Register(next)
              /\ Starts(t, next.id, whole) /\ done' = [done EXCEPT ![next.id] = @ + 1]
    BY <1>3 DEF Learning!_compute, Learning!_TERMINAL, Terminal, Learning!register,
           Learning!Cancelled, Learning!Succeeded, Learning!Begin, Starts, Told
  <2>2. Formed(new, id)
    <3>1. new.history = <<>> /\ new.id = id /\ {"id", "state", "history"} \subseteq DOMAIN new
      BY DEF Learning!_new_record
    <3>2. <<>> \in Seq({<<>>[i] : i \in DOMAIN <<>>})
      OBVIOUS
    <3> HIDE DEF new
    <3> QED BY <3>1, <3>2 DEF Formed
  <2>3. record = IF id \in DOMAIN records THEN records[id] ELSE new
    BY DEF Learning!Get, Learning!Exists
  <2> HIDE DEF new, record, m, whole, stopped
  <2>4. /\ Formed(record, id)
        /\ id \in DOMAIN records => records[id].state = "evaluated" /\ record = records[id]
    BY <2>1, <2>2, <2>3, TakenUp, WorkingIs
  <2>5. CASE /\ Learning!Register(cancelled)
             /\ Starts(t, cancelled.id, stopped) /\ done' = done
    <3>1. Kept(cancelled, id, "evaluated") /\ IsPrefix(record.history, cancelled.history)
      BY <2>4, Cancels
    <3> HIDE DEF cancelled
    <3>2. cancelled.id = id
      BY <3>1 DEF Kept, Formed
    <3>3. Registered(id, cancelled, "evaluated")
      BY <2>1, <2>4, <2>5, <3>1, <3>2 DEF Registered, Learning!Register
    <3>4. Announces
      BY <1>2, <2>5, <3>2 DEF Announces, m
    <3> QED BY <3>3, <3>4 DEF Advances
  <2>6. CASE /\ Learning!Register(next)
             /\ Starts(t, next.id, whole) /\ done' = [done EXCEPT ![next.id] = @ + 1]
    <3>1. /\ DOMAIN next = DOMAIN record /\ next.id = record.id /\ next.state = "evaluated"
          /\ next.history = Append(record.history,
                                   [index |-> Len(record.history),
                                    outcome |-> Learning!to_outcome(context)])
      BY <2>4 DEF Formed, Learning!journal
    <3> HIDE DEF next
    <3>2. Kept(next, id, "evaluated") /\ IsPrefix(record.history, next.history)
      BY <2>4, <3>1, Cycles
    <3>3. next.id = id
      BY <3>2 DEF Kept, Formed
    <3>4. Registered(id, next, "evaluated")
      BY <2>1, <2>4, <2>6, <3>2, <3>3 DEF Registered, Learning!Register
    <3>5. Announces
      BY <1>2, <2>6, <3>3 DEF Announces, m
    <3> QED BY <3>4, <3>5 DEF Advances
  <2> QED BY <2>1, <2>5, <2>6
<1>4. CASE Learning!_fail(t, id)
  <2>1. /\ UNCHANGED <<framework, records>>
        /\ Starts(t, id, refused) /\ done' = done
    BY <1>4 DEF Learning!_fail, Learning!Failed, Learning!Begin, Starts, Told
  <2> HIDE DEF m, refused
  <2>2. Announces
    BY <1>2, <2>1 DEF Announces, m
  <2> QED BY <2>1, <2>2 DEF Advances
<1> HIDE DEF context, m
<1> QED BY <1>1, <1>3, <1>4 DEF Learning!learn, context

LEMMA WorkflowsAdvances ==
    ASSUME RecordsKept, framework = "workflows", Workflows!DefaultWorkflowEngine
    PROVE  Advances("planned") /\ Announces
<1>1. PICK t \in Tasks, id \in Ids, input \in WorkflowInputs, cancel \in BOOLEAN :
          Workflows!compose(t, id, Workflows!WorkflowContext(input, cancel))
  BY DEF Workflows!DefaultWorkflowEngine
<1> DEFINE context == Workflows!WorkflowContext(input, cancel)
           new == Workflows!_new_record(id)
           record == Workflows!Get(id, new)
           cancelled == [record EXCEPT !.state = "cancelled"]
           batch == Workflows!collect(context)
           plan == Workflows!plan_of(batch)
           requests == Workflows!dispatch(plan)
           next == [record EXCEPT !.state = "planned",
                                  !.history = Append(@, batch),
                                  !.batch = batch,
                                  !.plan = plan,
                                  !.requests = requests,
                                  !.definition_count = @ + Len(batch),
                                  !.step_count = @ + Len(Workflows!StepsOf(batch)),
                                  !.request_count = @ + Len(requests)]
           m == MilestonesOf[framework]
           whole == <<"WorkflowStarted", "StepsCollected", "WorkflowPlanned",
                      "RequestsDispatched", "WorkflowSnapshotCreated",
                      "WorkflowMetricsUpdated", "WorkflowCompleted">>
           stopped == <<"WorkflowStarted", "WorkflowCancelled">>
           refused == <<"WorkflowErrorOccurred">>
<1>2. Whole(whole, m) /\ Stopped(stopped, m) /\ Refused(refused, m)
  BY DEF MilestonesOf, Milestones, Whole, Stopped, Refused, MarksOf
<1>3. CASE Workflows!_compute(t, id, context)
  <2>1. /\ record.state \notin Terminal /\ framework' = framework
        /\ \/ /\ Workflows!Register(cancelled)
              /\ Starts(t, cancelled.id, stopped) /\ done' = done
           \/ /\ Workflows!Register(next)
              /\ Starts(t, next.id, whole) /\ done' = [done EXCEPT ![next.id] = @ + 1]
    BY <1>3 DEF Workflows!_compute, Workflows!_TERMINAL, Terminal, Workflows!register,
           Workflows!Cancelled, Workflows!Succeeded, Workflows!Begin, Starts, Told
  <2>2. Formed(new, id)
    <3>1. new.history = <<>> /\ new.id = id /\ {"id", "state", "history"} \subseteq DOMAIN new
      BY DEF Workflows!_new_record
    <3>2. <<>> \in Seq({<<>>[i] : i \in DOMAIN <<>>})
      OBVIOUS
    <3> HIDE DEF new
    <3> QED BY <3>1, <3>2 DEF Formed
  <2>3. record = IF id \in DOMAIN records THEN records[id] ELSE new
    BY DEF Workflows!Get, Workflows!Exists
  <2> HIDE DEF new, record, m, whole, stopped
  <2>4. /\ Formed(record, id)
        /\ id \in DOMAIN records => records[id].state = "planned" /\ record = records[id]
    BY <2>1, <2>2, <2>3, TakenUp, WorkingIs
  <2>5. CASE /\ Workflows!Register(cancelled)
             /\ Starts(t, cancelled.id, stopped) /\ done' = done
    <3>1. Kept(cancelled, id, "planned") /\ IsPrefix(record.history, cancelled.history)
      BY <2>4, Cancels
    <3> HIDE DEF cancelled
    <3>2. cancelled.id = id
      BY <3>1 DEF Kept, Formed
    <3>3. Registered(id, cancelled, "planned")
      BY <2>1, <2>4, <2>5, <3>1, <3>2 DEF Registered, Workflows!Register
    <3>4. Announces
      BY <1>2, <2>5, <3>2 DEF Announces, m
    <3> QED BY <3>3, <3>4 DEF Advances
  <2>6. CASE /\ Workflows!Register(next)
             /\ Starts(t, next.id, whole) /\ done' = [done EXCEPT ![next.id] = @ + 1]
    <3>1. /\ DOMAIN next = DOMAIN record /\ next.id = record.id /\ next.state = "planned"
          /\ next.history = Append(record.history, batch)
      BY <2>4 DEF Formed
    <3> HIDE DEF next
    <3>2. Kept(next, id, "planned") /\ IsPrefix(record.history, next.history)
      BY <2>4, <3>1, Cycles
    <3>3. next.id = id
      BY <3>2 DEF Kept, Formed
    <3>4. Registered(id, next, "planned")
      BY <2>1, <2>4, <2>6, <3>2, <3>3 DEF Registered, Workflows!Register
    <3>5. Announces
      BY <1>2, <2>6, <3>3 DEF Announces, m
    <3> QED BY <3>4, <3>5 DEF Advances
  <2> QED BY <2>1, <2>5, <2>6
<1>4. ASSUME NEW asked, Workflows!_fail(t, id, asked)
      PROVE  Advances("planned") /\ Announces
  <2>1. /\ UNCHANGED <<framework, records>>
        /\ Starts(t, id, refused) /\ done' = done
    BY <1>4 DEF Workflows!_fail, Workflows!Begin, Starts, Told
  <2> HIDE DEF m, refused
  <2>2. Announces
    BY <1>2, <2>1 DEF Announces, m
  <2> QED BY <2>1, <2>2 DEF Advances
<1> HIDE DEF context, m
<1> QED BY <1>1, <1>3, <1>4 DEF Workflows!compose, context

LEMMA ModelGatewayAdvances ==
    ASSUME RecordsKept, framework = "model_gateway", ModelGateway!DefaultModelGatewayEngine
    PROVE  Advances("planned") /\ Announces
<1>1. PICK t \in Tasks, id \in Ids, input \in GatewayInputs, cancel \in BOOLEAN :
          ModelGateway!invoke(t, id, ModelGateway!ModelGatewayContext(input, cancel))
  BY DEF ModelGateway!DefaultModelGatewayEngine
<1> DEFINE context == ModelGateway!ModelGatewayContext(input, cancel)
           new == ModelGateway!_new_record(id)
           record == ModelGateway!Get(id, new)
           cancelled == [record EXCEPT !.state = "cancelled"]
           batch == ModelGateway!plan(ModelGateway!collect(context), context)
           requests == ModelGateway!dispatch(batch, context)
           next == [record EXCEPT !.state = "planned",
                                  !.history = Append(@, batch),
                                  !.batch = batch,
                                  !.requests = requests,
                                  !.entry_count = @ + Len(batch.entries),
                                  !.request_count = @ + Len(requests)]
           m == MilestonesOf[framework]
           whole == <<"ModelGatewayStarted", "InvocationsCollected",
                      "InvocationsPlanned", "RequestsDispatched",
                      "ModelGatewaySnapshotCreated", "ModelGatewayMetricsUpdated",
                      "ModelGatewayCompleted">>
           stopped == <<"ModelGatewayStarted", "ModelGatewayCancelled">>
           refused == <<"ModelGatewayErrorOccurred">>
<1>2. Whole(whole, m) /\ Stopped(stopped, m) /\ Refused(refused, m)
  BY DEF MilestonesOf, Milestones, Whole, Stopped, Refused, MarksOf
<1>3. CASE ModelGateway!_compute(t, id, context)
  <2>1. /\ record.state \notin Terminal /\ framework' = framework
        /\ \/ /\ ModelGateway!Register(cancelled)
              /\ Starts(t, cancelled.id, stopped) /\ done' = done
           \/ /\ ModelGateway!Register(next)
              /\ Starts(t, next.id, whole) /\ done' = [done EXCEPT ![next.id] = @ + 1]
    BY <1>3 DEF ModelGateway!_compute, ModelGateway!_TERMINAL, Terminal, ModelGateway!register,
           ModelGateway!Cancelled, ModelGateway!Succeeded, ModelGateway!Begin, Starts, Told
  <2>2. Formed(new, id)
    <3>1. new.history = <<>> /\ new.id = id /\ {"id", "state", "history"} \subseteq DOMAIN new
      BY DEF ModelGateway!_new_record
    <3>2. <<>> \in Seq({<<>>[i] : i \in DOMAIN <<>>})
      OBVIOUS
    <3> HIDE DEF new
    <3> QED BY <3>1, <3>2 DEF Formed
  <2>3. record = IF id \in DOMAIN records THEN records[id] ELSE new
    BY DEF ModelGateway!Get, ModelGateway!Exists
  <2> HIDE DEF new, record, m, whole, stopped
  <2>4. /\ Formed(record, id)
        /\ id \in DOMAIN records => records[id].state = "planned" /\ record = records[id]
    BY <2>1, <2>2, <2>3, TakenUp, WorkingIs
  <2>5. CASE /\ ModelGateway!Register(cancelled)
             /\ Starts(t, cancelled.id, stopped) /\ done' = done
    <3>1. Kept(cancelled, id, "planned") /\ IsPrefix(record.history, cancelled.history)
      BY <2>4, Cancels
    <3> HIDE DEF cancelled
    <3>2. cancelled.id = id
      BY <3>1 DEF Kept, Formed
    <3>3. Registered(id, cancelled, "planned")
      BY <2>1, <2>4, <2>5, <3>1, <3>2 DEF Registered, ModelGateway!Register
    <3>4. Announces
      BY <1>2, <2>5, <3>2 DEF Announces, m
    <3> QED BY <3>3, <3>4 DEF Advances
  <2>6. CASE /\ ModelGateway!Register(next)
             /\ Starts(t, next.id, whole) /\ done' = [done EXCEPT ![next.id] = @ + 1]
    <3>1. /\ DOMAIN next = DOMAIN record /\ next.id = record.id /\ next.state = "planned"
          /\ next.history = Append(record.history, batch)
      BY <2>4 DEF Formed
    <3> HIDE DEF next
    <3>2. Kept(next, id, "planned") /\ IsPrefix(record.history, next.history)
      BY <2>4, <3>1, Cycles
    <3>3. next.id = id
      BY <3>2 DEF Kept, Formed
    <3>4. Registered(id, next, "planned")
      BY <2>1, <2>4, <2>6, <3>2, <3>3 DEF Registered, ModelGateway!Register
    <3>5. Announces
      BY <1>2, <2>6, <3>3 DEF Announces, m
    <3> QED BY <3>4, <3>5 DEF Advances
  <2> QED BY <2>1, <2>5, <2>6
<1>4. CASE ModelGateway!_fail(t, id)
  <2>1. /\ UNCHANGED <<framework, records>>
        /\ Starts(t, id, refused) /\ done' = done
    BY <1>4 DEF ModelGateway!_fail, ModelGateway!Failed, ModelGateway!Begin, Starts, Told
  <2> HIDE DEF m, refused
  <2>2. Announces
    BY <1>2, <2>1 DEF Announces, m
  <2> QED BY <2>1, <2>2 DEF Advances
<1> HIDE DEF context, m
<1> QED BY <1>1, <1>3, <1>4 DEF ModelGateway!invoke, context

-----------------------------------------------------------------------------
(* All frameworks.                                                           *)

\* The table lets a record go through another cycle, or be cancelled.
Allows(working) ==
    can_transition(working, working) /\ can_transition(working, "cancelled")

LEMMA CallsAdvance ==
    ASSUME RecordsKept, Call
    PROVE  Advances(Working[framework]) /\ Announces /\ Allows(Working[framework])
<1>1. CASE framework = "monitoring" /\ Monitoring!DefaultMonitoringEngine
  <2>1. Advances("evaluated") /\ Announces
    BY <1>1, MonitoringAdvances
  <2>2. Allows("evaluated")
    BY <1>1 DEF Allows, can_transition, Monitoring!can_transition, Monitoring!VALID_TRANSITIONS
  <2> QED BY <1>1, <2>1, <2>2, WorkingIs
<1>2. CASE framework = "dashboard" /\ Dashboard!DefaultDashboardEngine
  <2>1. Advances("composed") /\ Announces
    BY <1>2, DashboardAdvances
  <2>2. Allows("composed")
    BY <1>2 DEF Allows, can_transition, Dashboard!can_transition, Dashboard!VALID_TRANSITIONS
  <2> QED BY <1>2, <2>1, <2>2, WorkingIs
<1>3. CASE framework = "memory" /\ Memory!DefaultMemoryEngine
  <2>1. Advances("planned") /\ Announces
    BY <1>3, MemoryAdvances
  <2>2. Allows("planned")
    BY <1>3 DEF Allows, can_transition, Memory!can_transition, Memory!VALID_TRANSITIONS
  <2> QED BY <1>3, <2>1, <2>2, WorkingIs
<1>4. CASE framework = "notification" /\ Notification!DefaultNotificationEngine
  <2>1. Advances("formatted") /\ Announces
    BY <1>4, NotificationAdvances
  <2>2. Allows("formatted")
    BY <1>4 DEF Allows, can_transition, Notification!can_transition, Notification!VALID_TRANSITIONS
  <2> QED BY <1>4, <2>1, <2>2, WorkingIs
<1>5. CASE framework = "optimization" /\ Optimization!DefaultOptimizationEngine
  <2>1. Advances("optimized") /\ Announces
    BY <1>5, OptimizationAdvances
  <2>2. Allows("optimized")
    BY <1>5 DEF Allows, can_transition, Optimization!can_transition, Optimization!VALID_TRANSITIONS
  <2> QED BY <1>5, <2>1, <2>2, WorkingIs
<1>6. CASE framework = "reporting" /\ Reporting!DefaultReportingEngine
  <2>1. Advances("built") /\ Announces
    BY <1>6, ReportingAdvances
  <2>2. Allows("built")
    BY <1>6 DEF Allows, can_transition, Reporting!can_transition, Reporting!VALID_TRANSITIONS
  <2> QED BY <1>6, <2>1, <2>2, WorkingIs
<1>7. CASE framework = "scheduler" /\ Scheduler!DefaultSchedulerEngine
  <2>1. Advances("planned") /\ Announces
    BY <1>7, SchedulerAdvances
  <2>2. Allows("planned")
    BY <1>7 DEF Allows, can_transition, Scheduler!can_transition, Scheduler!VALID_TRANSITIONS
  <2> QED BY <1>7, <2>1, <2>2, WorkingIs
<1>8. CASE framework = "storage" /\ Storage!DefaultStorageEngine
  <2>1. Advances("serialized") /\ Announces
    BY <1>8, StorageAdvances
  <2>2. Allows("serialized")
    BY <1>8 DEF Allows, can_transition, Storage!can_transition, Storage!VALID_TRANSITIONS
  <2> QED BY <1>8, <2>1, <2>2, WorkingIs
<1>9. CASE framework = "workers" /\ Workers!DefaultWorkerEngine
  <2>1. Advances("queued") /\ Announces
    BY <1>9, WorkersAdvances
  <2>2. Allows("queued")
    BY <1>9 DEF Allows, can_transition, Workers!can_transition, Workers!VALID_TRANSITIONS
  <2> QED BY <1>9, <2>1, <2>2, WorkingIs
<1>10. CASE framework = "learning" /\ Learning!DefaultLearningEngine
  <2>1. Advances("evaluated") /\ Announces
    BY <1>10, LearningAdvances
  <2>2. Allows("evaluated")
    BY <1>10 DEF Allows, can_transition, Learning!can_transition, Learning!VALID_TRANSITIONS
  <2> QED BY <1>10, <2>1, <2>2, WorkingIs
<1>11. CASE framework = "workflows" /\ Workflows!DefaultWorkflowEngine
  <2>1. Advances("planned") /\ Announces
    BY <1>11, WorkflowsAdvances
  <2>2. Allows("planned")
    BY <1>11 DEF Allows, can_transition, Workflows!can_transition, Workflows!VALID_TRANSITIONS
  <2> QED BY <1>11, <2>1, <2>2, WorkingIs
<1>12. CASE framework = "model_gateway" /\ ModelGateway!DefaultModelGatewayEngine
  <2>1. Advances("planned") /\ Announces
    BY <1>12, ModelGatewayAdvances
  <2>2. Allows("planned")
    BY <1>12 DEF Allows, can_transition, ModelGateway!can_transition, ModelGateway!VALID_TRANSITIONS
  <2> QED BY <1>12, <2>1, <2>2, WorkingIs
<1> QED BY <1>1, <1>2, <1>3, <1>4, <1>5, <1>6, <1>7, <1>8, <1>9, <1>10, <1>11, <1>12 DEF Call

\* What a step may do to a record that stays in the registry.
Advanced ==
    \A id \in DOMAIN records \intersect DOMAIN records' :
        /\ records'[id] # records[id] =>
              can_transition(records[id].state, records'[id].state)
        /\ IsPrefix(records[id].history, records'[id].history)

LEMMA Itself ==
    ASSUME RecordsKept, NEW id \in DOMAIN records
    PROVE  IsPrefix(records[id].history, records[id].history)
<1>1. Len(records[id].history) \in Nat
  BY DEF RecordsKept, Kept, Formed
<1> QED BY <1>1 DEF IsPrefix

LEMMA RegistersOne ==
    ASSUME RecordsKept, Allows(Working[framework]), NEW id, NEW next,
           Registered(id, next, Working[framework])
    PROVE  RecordsKept' /\ Advanced
<1>1. /\ DOMAIN records' = DOMAIN records \union {id} /\ records'[id] = next
      /\ \A i \in DOMAIN records : i # id => records'[i] = records[i]
      /\ framework' = framework /\ Kept(next, id, Working[framework])
  BY DEF Registered
<1>2. RecordsKept'
  <2>1. \A i \in DOMAIN records' : Kept(records'[i], i, Working[framework])
    BY <1>1 DEF RecordsKept
  <2> QED BY <1>1, <2>1 DEF RecordsKept, Kept, Formed
<1>3. ASSUME NEW i \in DOMAIN records
      PROVE  /\ records'[i] # records[i] => can_transition(records[i].state, records'[i].state)
             /\ IsPrefix(records[i].history, records'[i].history)
  <2>1. CASE i = id
    <3>1. records[i].state = Working[framework] /\ IsPrefix(records[i].history, next.history)
      BY <2>1 DEF Registered
    <3>2. next.state \in {Working[framework], "cancelled"}
      BY <1>1 DEF Kept
    <3>3. can_transition(records[i].state, next.state)
      BY <3>1, <3>2 DEF Allows
    <3> QED BY <1>1, <2>1, <3>1, <3>3
  <2>2. CASE i # id
    BY <1>1, <2>2, Itself
  <2> QED BY <2>1, <2>2
<1> QED BY <1>2, <1>3 DEF Advanced

LEMMA RecordsStay ==
    ASSUME RecordsKept, UNCHANGED <<framework, records>>
    PROVE  RecordsKept' /\ Advanced
<1>1. RecordsKept'
  <2>1. \A i \in DOMAIN records' : Kept(records'[i], i, Working[framework])
    BY DEF RecordsKept
  <2>2. framework' = framework /\ framework \in Frameworks
    BY DEF RecordsKept
  <2> QED BY <2>1, <2>2 DEF RecordsKept, Kept, Formed
<1> QED BY <1>1, Itself DEF Advanced

LEMMA RecordsForgotten ==
    ASSUME RecordsKept, NEW ids, Forget(ids)
    PROVE  RecordsKept' /\ Advanced
<1>1. /\ records' = [i \in DOMAIN records \ ids |-> records[i]] /\ framework' = framework
  BY DEF Forget
<1>2. /\ DOMAIN records' \subseteq DOMAIN records
      /\ \A i \in DOMAIN records' : records'[i] = records[i]
  BY <1>1
<1>3. RecordsKept'
  <2>1. \A i \in DOMAIN records' : Kept(records'[i], i, Working[framework])
    BY <1>2 DEF RecordsKept
  <2>2. framework' = framework /\ framework \in Frameworks
    BY <1>1 DEF RecordsKept
  <2> QED BY <2>1, <2>2 DEF RecordsKept, Kept, Formed
<1> QED BY <1>2, <1>3, Itself DEF Advanced

LEMMA UnregisterForgets ==
    ASSUME NEW id \in Ids, Unregister(id)
    PROVE  Forget({id} \intersect DOMAIN records)
BY DEF Unregister, Forget,
   Monitoring!unregister, Dashboard!unregister, Memory!unregister,
   Notification!unregister, Optimization!unregister, Reporting!unregister,
   Scheduler!unregister, Storage!unregister, Workers!unregister, Learning!unregister,
   Workflows!unregister, ModelGateway!unregister,
   Monitoring!Forget, Dashboard!Forget, Memory!Forget, Notification!Forget,
   Optimization!Forget, Reporting!Forget, Scheduler!Forget, Storage!Forget,
   Workers!Forget, Learning!Forget, Workflows!Forget, ModelGateway!Forget

LEMMA ClearForgets ==
    ASSUME Clear
    PROVE  Forget(DOMAIN records)
BY DEF Clear, Forget,
   Monitoring!clear, Dashboard!clear, Memory!clear, Notification!clear,
   Optimization!clear, Reporting!clear, Scheduler!clear, Storage!clear,
   Workers!clear, Learning!clear, Workflows!clear, ModelGateway!clear,
   Monitoring!Forget, Dashboard!Forget, Memory!Forget, Notification!Forget,
   Optimization!Forget, Reporting!Forget, Scheduler!Forget, Storage!Forget,
   Workers!Forget, Learning!Forget, Workflows!Forget, ModelGateway!Forget

LEMMA SupportStep ==
    ASSUME RecordsKept, [SupportNext]_cycle
    PROVE  RecordsKept' /\ Advanced
<1>1. CASE UNCHANGED cycle
  BY <1>1, RecordsStay DEF cycle
<1>2. CASE Call
  <2>1. Advances(Working[framework]) /\ Allows(Working[framework])
    BY <1>2, CallsAdvance
  <2> QED BY <2>1, RecordsStay, RegistersOne DEF Advances
<1>3. ASSUME NEW t \in Tasks, PublishNext(t)
      PROVE  RecordsKept' /\ Advanced
  BY <1>3, RecordsStay DEF PublishNext
<1>4. ASSUME NEW id \in Ids, Unregister(id)
      PROVE  RecordsKept' /\ Advanced
  BY <1>4, UnregisterForgets, RecordsForgotten
<1>5. CASE Clear
  BY <1>5, ClearForgets, RecordsForgotten
<1> QED BY <1>1, <1>2, <1>3, <1>4, <1>5 DEF SupportNext

\* However calls, publications and removals interleave, in each of the twelve
\* frameworks no step takes a record along an edge its state table lacks, and no
\* call takes from a record's history: for any tasks, records and inputs.
THEOREM RecordsAdvance == SupportSpec => RecordsOnlyAdvance
<1>1. SupportInit => RecordsKept
  BY DEF SupportInit, Init, RecordsKept
<1>2. RecordsKept /\ [SupportNext]_cycle => RecordsKept' /\ Advanced
  BY SupportStep
<1>3. RecordsKept /\ [SupportNext]_cycle =>
         [\A id \in DOMAIN records \intersect DOMAIN records' :
             /\ records'[id] # records[id] =>
                   can_transition(records[id].state, records'[id].state)
             /\ IsPrefix(records[id].history, records'[id].history)]_cycle
  BY <1>2 DEF Advanced
<1> QED BY <1>1, <1>2, <1>3, PTL DEF SupportSpec, RecordsOnlyAdvance

-----------------------------------------------------------------------------
(* What was announced and what is still due.                                *)

\* What a task has still to publish: each milestone once, each cycle's start before
\* its snapshot or its cancellation, and the snapshot before the completion.
Has(s, id, e) == \E i \in 1..Len(s) : s[i] = <<id, e>>
Followed(s, i, later) == \E j \in 1..Len(s) : j > i /\ s[j] \in later
Orderly(s, m) ==
    /\ IsSeq(s)
    /\ \A id \in Ids, e \in MarksOf(m), i, j \in 1..Len(s) :
           s[i] = <<id, e>> /\ s[j] = <<id, e>> => i = j
    /\ \A id \in Ids, i \in 1..Len(s) :
           s[i] = <<id, m.started>> =>
               Followed(s, i, {<<id, m.snapshot>>, <<id, m.cancelled>>})
    /\ \A id \in Ids, i \in 1..Len(s) :
           s[i] = <<id, m.snapshot>> => Followed(s, i, {<<id, m.completed>>})

Due(id, e) == {t \in Tasks : Has(pending[t], id, e)}
Owed(id, e) == Cardinality(Due(id, e))
Busy == {t \in Tasks : pending[t] # <<>>}

\* Each milestone was published or is still due as often as there was a cycle.
Balanced(id, m) ==
    /\ Published(id, m.completed) + Owed(id, m.completed) = done[id]
    /\ Published(id, m.snapshot) + Owed(id, m.snapshot) = done[id]
    /\ Published(id, m.started) + Owed(id, m.started) =
           done[id] + Published(id, m.cancelled) + Owed(id, m.cancelled)

EventsInv ==
    /\ framework \in Frameworks
    /\ pending = [t \in Tasks |-> pending[t]]
    /\ IsFiniteSet(Busy)
    /\ \A t \in Tasks : Orderly(pending[t], MilestonesOf[framework])
    /\ done \in [Ids -> Nat]
    /\ \A x \in DOMAIN published : published[x] \in Nat
    /\ \A id \in Ids : Balanced(id, MilestonesOf[framework])

LEMMA DueIs ==
    ASSUME IsFiniteSet(Busy)
    PROVE  \A id, e : IsFiniteSet(Due(id, e)) /\ Owed(id, e) \in Nat
<1> SUFFICES ASSUME NEW id, NEW e
             PROVE  IsFiniteSet(Due(id, e)) /\ Owed(id, e) \in Nat
  OBVIOUS
<1>1. Len(<<>>) = 0
  OBVIOUS
<1>2. Due(id, e) \subseteq Busy
  BY <1>1 DEF Due, Busy, Has
<1>3. IsFiniteSet(Due(id, e))
  BY <1>2, FS_Subset
<1> QED BY <1>3, FS_CardinalityType DEF Owed

LEMMA PublishedIs ==
    ASSUME \A x \in DOMAIN published : published[x] \in Nat
    PROVE  \A id, e : Published(id, e) \in Nat
BY DEF Published, BagIn, BagToSet

\* The invariant says what the property does.
LEMMA EventsInvSuffices == EventsInv => EventsFollowUpdates
<1> SUFFICES ASSUME EventsInv PROVE EventsFollowUpdates
  OBVIOUS
<1>1. PICK m : m = MilestonesOf[framework]
  OBVIOUS
<1> SUFFICES ASSUME NEW id \in Ids
             PROVE  /\ Published(id, m.completed) <= done[id]
                    /\ Published(id, m.completed) <= Published(id, m.snapshot)
                    /\ Published(id, m.snapshot) + Published(id, m.cancelled)
                           <= Published(id, m.started)
                    /\ Quiet => /\ Published(id, m.completed) = done[id]
                                /\ Published(id, m.completed) + Published(id, m.cancelled)
                                       = Published(id, m.started)
  BY <1>1 DEF EventsFollowUpdates
<1>2. \A e : IsFiniteSet(Due(id, e)) /\ Owed(id, e) \in Nat /\ Published(id, e) \in Nat
  BY DueIs, PublishedIs DEF EventsInv
<1>3. /\ Published(id, m.completed) + Owed(id, m.completed) = done[id]
      /\ Published(id, m.snapshot) + Owed(id, m.snapshot) = done[id]
      /\ Published(id, m.started) + Owed(id, m.started) =
             done[id] + Published(id, m.cancelled) + Owed(id, m.cancelled)
  BY <1>1 DEF EventsInv, Balanced
<1>4. \A t \in Tasks : Orderly(pending[t], m)
  BY <1>1 DEF EventsInv
<1>5. Owed(id, m.snapshot) <= Owed(id, m.completed)
  <2>1. ASSUME NEW t \in Due(id, m.snapshot) PROVE t \in Due(id, m.completed)
    <3>1. t \in Tasks /\ Orderly(pending[t], m) /\ Has(pending[t], id, m.snapshot)
      BY <1>4 DEF Due
    <3>2. PICK i \in 1..Len(pending[t]) : pending[t][i] = <<id, m.snapshot>>
      BY <3>1 DEF Has
    <3>3. \E j \in 1..Len(pending[t]) : j > i /\ pending[t][j] = <<id, m.completed>>
      BY <3>1, <3>2 DEF Orderly, Followed
    <3> QED BY <3>1, <3>3 DEF Due, Has
  <2> QED BY <1>2, <2>1, FS_Subset DEF Owed
<1>6. Owed(id, m.started) <= Owed(id, m.snapshot) + Owed(id, m.cancelled)
  <2> DEFINE A == Due(id, m.snapshot)
             B == Due(id, m.cancelled)
  <2>1. ASSUME NEW t \in Due(id, m.started) PROVE t \in A \union B
    <3>1. t \in Tasks /\ Orderly(pending[t], m) /\ Has(pending[t], id, m.started)
      BY <1>4 DEF Due
    <3>2. PICK i \in 1..Len(pending[t]) : pending[t][i] = <<id, m.started>>
      BY <3>1 DEF Has
    <3>3. PICK j \in 1..Len(pending[t]) :
              pending[t][j] \in {<<id, m.snapshot>>, <<id, m.cancelled>>}
      BY <3>1, <3>2 DEF Orderly, Followed
    <3>4. CASE pending[t][j] = <<id, m.snapshot>>
      BY <3>1, <3>4 DEF Due, Has
    <3>5. CASE pending[t][j] = <<id, m.cancelled>>
      BY <3>1, <3>5 DEF Due, Has
    <3> QED BY <3>3, <3>4, <3>5
  <2>2. IsFiniteSet(A) /\ IsFiniteSet(B) /\ Cardinality(A) = Owed(id, m.snapshot)
        /\ Cardinality(B) = Owed(id, m.cancelled)
    BY <1>2 DEF Owed
  <2> HIDE DEF A, B
  <2>3. /\ IsFiniteSet(A \union B)
        /\ Cardinality(A \union B) = Cardinality(A) + Cardinality(B) - Cardinality(A \cap B)
    BY <2>2, FS_Union
  <2>4. Cardinality(A \cap B) \in Nat /\ Cardinality(A) \in Nat /\ Cardinality(B) \in Nat
        /\ Cardinality(A \union B) \in Nat
    <3>1. IsFiniteSet(A \cap B)
      BY <2>2, FS_Intersection
    <3> QED BY <2>2, <2>3, <3>1, FS_CardinalityType
  <2>5. Cardinality(Due(id, m.started)) <= Cardinality(A \union B)
    BY <2>1, <2>3, FS_Subset
  <2> QED BY <1>2, <2>2, <2>3, <2>4, <2>5 DEF Owed
<1>7. Quiet => \A e : Owed(id, e) = 0
  <2> SUFFICES ASSUME Quiet, NEW e PROVE Owed(id, e) = 0
    OBVIOUS
  <2>1. Len(<<>>) = 0
    OBVIOUS
  <2>2. Due(id, e) = {}
    BY <2>1 DEF Quiet, Due, Has
  <2> QED BY <2>2, FS_EmptySet DEF Owed
<1>8. done[id] \in Nat
  BY DEF EventsInv
<1>9. PICK oc, os, ot, ox, pc, ps, pt, px \in Nat :
         /\ oc = Owed(id, m.completed) /\ os = Owed(id, m.snapshot)
         /\ ot = Owed(id, m.started) /\ ox = Owed(id, m.cancelled)
         /\ pc = Published(id, m.completed) /\ ps = Published(id, m.snapshot)
         /\ pt = Published(id, m.started) /\ px = Published(id, m.cancelled)
  BY <1>2
<1> QED BY <1>3, <1>5, <1>6, <1>7, <1>8, <1>9

\* What is due when one task has something else to publish.
Times(s, id, e) == IF Has(s, id, e) THEN 1 ELSE 0
Leaves(t, s) == pending' = [pending EXCEPT ![t] = s]
LEMMA OwedChanges ==
    ASSUME EventsInv, NEW t \in Tasks, NEW s, Leaves(t, s)
    PROVE  /\ IsFiniteSet(Busy)' /\ pending' = [u \in Tasks |-> pending'[u]]
           /\ pending'[t] = s /\ \A u \in Tasks : u # t => pending'[u] = pending[u]
           /\ \A id, e : Owed(id, e)' =
                             Owed(id, e) + Times(s, id, e) - Times(pending[t], id, e)
<1>1. /\ pending' = [u \in Tasks |-> IF u = t THEN s ELSE pending[u]]
      /\ pending'[t] = s /\ \A u \in Tasks : u # t => pending'[u] = pending[u]
  BY DEF EventsInv, Leaves
<1>2. IsFiniteSet(Busy')
  <2>1. Busy' \subseteq Busy \union {t}
    BY <1>1 DEF Busy
  <2>2. IsFiniteSet(Busy \union {t})
    BY FS_AddElement DEF EventsInv
  <2> QED BY <2>1, <2>2, FS_Subset
<1>3. ASSUME NEW id, NEW e
      PROVE  Owed(id, e)' = Owed(id, e) + Times(s, id, e) - Times(pending[t], id, e)
  <2> DEFINE D == Due(id, e)
  <2>1. IsFiniteSet(D) /\ Cardinality(D) \in Nat
    BY DueIs, FS_CardinalityType DEF EventsInv
  <2>2. Due(id, e)' = IF Has(s, id, e) THEN D \union {t} ELSE D \ {t}
    <3>1. Due(id, e)' = {u \in Tasks : Has(pending'[u], id, e)}
      BY DEF Due, Has
    <3>2. \A u \in Tasks : Has(pending'[u], id, e) <=>
              IF u = t THEN Has(s, id, e) ELSE Has(pending[u], id, e)
      BY <1>1
    <3> QED BY <3>1, <3>2 DEF Due
  <2>3. t \in D <=> Has(pending[t], id, e)
    BY DEF Due
  <2>4. Owed(id, e)' = Cardinality(Due(id, e)') /\ Owed(id, e) = Cardinality(D)
    BY DEF Owed
  <2> HIDE DEF D
  <2>5. /\ t \in D => D \union {t} = D /\ Cardinality(D \ {t}) = Cardinality(D) - 1
        /\ t \notin D => D \ {t} = D /\ Cardinality(D \union {t}) = Cardinality(D) + 1
    <3>1. CASE t \in D
      <4>1. D \union {t} = D /\ Cardinality(D \ {t}) = Cardinality(D) - 1
        BY <2>1, <3>1, FS_RemoveElement, ZenonT(60)
      <4> QED BY <3>1, <4>1
    <3>2. CASE t \notin D
      <4>1. D \ {t} = D /\ Cardinality(D \union {t}) = Cardinality(D) + 1
        BY <2>1, <3>2, FS_AddElement
      <4> QED BY <3>2, <4>1
    <3> QED BY <3>1, <3>2
  <2>6. PICK n \in Nat : n = Cardinality(D)
    BY <2>1
  <2>7. CASE Has(s, id, e)
    <3>1. Cardinality(Due(id, e)') = Cardinality(D \union {t})
      BY <2>2, <2>7, Zenon
    <3>2. CASE t \in D
      <4>1. Cardinality(D \union {t}) = Cardinality(D)
        BY <2>5, <3>2, Zenon
      <4> QED BY <2>3, <2>4, <2>6, <2>7, <3>1, <3>2, <4>1 DEF Times
    <3>3. CASE t \notin D
      BY <2>3, <2>4, <2>5, <2>6, <2>7, <3>1, <3>3 DEF Times
    <3> QED BY <3>2, <3>3
  <2>8. CASE ~Has(s, id, e)
    <3>1. Cardinality(Due(id, e)') = Cardinality(D \ {t})
      BY <2>2, <2>8, Zenon
    <3>2. CASE t \in D
      BY <2>3, <2>4, <2>5, <2>6, <2>8, <3>1, <3>2 DEF Times
    <3>3. CASE t \notin D
      <4>1. Cardinality(D \ {t}) = Cardinality(D)
        BY <2>5, <3>3, Zenon
      <4> QED BY <2>3, <2>4, <2>6, <2>8, <3>1, <3>3, <4>1 DEF Times
    <3> QED BY <3>2, <3>3
  <2> QED BY <2>7, <2>8
<1> QED BY <1>1, <1>2, <1>3

\* What is published when one more event is.
Gone(x, id, e) == IF x = <<id, e>> THEN 1 ELSE 0
LEMMA PublishedChanges ==
    ASSUME \A y \in DOMAIN published : published[y] \in Nat, NEW x,
           published' = published (+) SetToBag({x})
    PROVE  /\ \A y \in DOMAIN published' : published'[y] \in Nat
           /\ \A id, e : Published(id, e)' = Published(id, e) + Gone(x, id, e)
<1>1. /\ DOMAIN published' = DOMAIN published \union {x}
      /\ \A y \in DOMAIN published' :
             published'[y] = (IF y \in DOMAIN published THEN published[y] ELSE 0)
                             + (IF y = x THEN 1 ELSE 0)
  <2>1. DOMAIN SetToBag({x}) = {x} /\ SetToBag({x})[x] = 1
    BY DEF SetToBag
  <2> DEFINE one == SetToBag({x})
  <2>2. published' = [e \in DOMAIN published \union DOMAIN one |->
                         (IF e \in DOMAIN published THEN published[e] ELSE 0)
                         + (IF e \in DOMAIN one THEN one[e] ELSE 0)]
    BY DEF (+)
  <2> HIDE DEF one
  <2> QED BY <2>1, <2>2 DEF one
<1>2. ASSUME NEW y \in DOMAIN published' PROVE published'[y] \in Nat
  <2>1. CASE y \in DOMAIN published
    BY <1>1, <2>1
  <2>2. CASE y \notin DOMAIN published
    <3>1. y = x
      BY <1>1, <2>2
    <3>2. published'[y] = 0 + 1
      BY <1>1, <2>2, <3>1
    <3> QED BY <3>2
  <2> QED BY <2>1, <2>2
<1>3. ASSUME NEW id, NEW e
      PROVE  Published(id, e)' = Published(id, e) + Gone(x, id, e)
  <2>1. CASE <<id, e>> \in DOMAIN published
    BY <1>1, <2>1 DEF Published, BagIn, BagToSet, Gone
  <2>2. CASE <<id, e>> \notin DOMAIN published
    <3>1. Published(id, e) = 0
      BY <2>2 DEF Published, BagIn, BagToSet
    <3>2. CASE x = <<id, e>>
      BY <1>1, <2>2, <3>1, <3>2 DEF Published, BagIn, BagToSet, Gone
    <3>3. CASE x # <<id, e>>
      <4>1. <<id, e>> \notin DOMAIN published'
        BY <1>1, <2>2, <3>3
      <4> QED BY <3>1, <3>3, <4>1 DEF Published, BagIn, BagToSet, Gone
    <3> QED BY <3>2, <3>3
  <2> QED BY <2>1, <2>2
<1> QED BY <1>2, <1>3

\* What is left when the first event is gone.
LEMMA RestIs ==
    ASSUME NEW p, NEW m, Orderly(p, m), p # <<>>
    PROVE  /\ Orderly(Tail(p), m)
           /\ \A id \in Ids, e \in MarksOf(m) :
                 Times(p, id, e) = Times(Tail(p), id, e) + Gone(Head(p), id, e)
<1> DEFINE s == Tail(p)
<1>1. /\ IsSeq(s) /\ Len(p) \in Nat /\ Len(p) > 0 /\ Len(s) = Len(p) - 1
      /\ \A i \in 1..(Len(p) - 1) : s[i] = p[i + 1]
      /\ Head(p) = p[1]
  BY TailIs DEF Orderly
<1> HIDE DEF s
<1>2. /\ \A i \in 1..Len(s) : i + 1 \in 1..Len(p) /\ s[i] = p[i + 1]
      /\ \A i \in 1..Len(p) : i > 1 => i - 1 \in 1..Len(s) /\ s[i - 1] = p[i]
      /\ 1 \in 1..Len(p)
  BY <1>1
<1>3. ASSUME NEW id \in Ids, NEW e \in MarksOf(m), NEW i \in 1..Len(s), NEW j \in 1..Len(s),
             s[i] = <<id, e>>, s[j] = <<id, e>>
      PROVE  i = j
  <2>1. i + 1 = j + 1
    BY <1>2, <1>3 DEF Orderly
  <2> QED BY <1>1, <2>1
<1>7. ASSUME NEW i \in 1..Len(s), NEW later, Followed(p, i + 1, later)
      PROVE  Followed(s, i, later)
  <2>1. PICK j \in 1..Len(p) : j > i + 1 /\ p[j] \in later
    BY <1>7 DEF Followed
  <2>2. j - 1 \in 1..Len(s) /\ j - 1 > i /\ s[j - 1] = p[j]
    BY <1>1, <1>2, <2>1
  <2> QED BY <2>1, <2>2 DEF Followed
<1>4. ASSUME NEW id \in Ids, NEW i \in 1..Len(s), s[i] = <<id, m.started>>
      PROVE  Followed(s, i, {<<id, m.snapshot>>, <<id, m.cancelled>>})
  <2>1. Followed(p, i + 1, {<<id, m.snapshot>>, <<id, m.cancelled>>})
    BY <1>2, <1>4 DEF Orderly
  <2> QED BY <1>7, <2>1
<1>5. ASSUME NEW id \in Ids, NEW i \in 1..Len(s), s[i] = <<id, m.snapshot>>
      PROVE  Followed(s, i, {<<id, m.completed>>})
  <2>1. Followed(p, i + 1, {<<id, m.completed>>})
    BY <1>2, <1>5 DEF Orderly
  <2> QED BY <1>7, <2>1
<1>6. Orderly(s, m)
  BY <1>1, <1>3, <1>4, <1>5 DEF Orderly
<1>8. ASSUME NEW id \in Ids, NEW e \in MarksOf(m)
      PROVE  Times(p, id, e) = Times(s, id, e) + Gone(Head(p), id, e)
  <2>1. CASE p[1] = <<id, e>>
    <3>1. Has(p, id, e)
      BY <1>2, <2>1 DEF Has
    <3>2. ~Has(s, id, e)
      <4> SUFFICES ASSUME NEW i \in 1..Len(s), s[i] = <<id, e>> PROVE FALSE
        BY DEF Has
      <4>1. i + 1 = 1
        BY <1>2, <2>1 DEF Orderly
      <4> QED BY <1>1, <4>1
    <3> QED BY <1>1, <2>1, <3>1, <3>2 DEF Times, Gone
  <2>2. CASE p[1] # <<id, e>>
    <3>1. Has(p, id, e) <=> Has(s, id, e)
      <4>1. ASSUME NEW i \in 1..Len(p), p[i] = <<id, e>> PROVE Has(s, id, e)
        <5>1. i > 1
          BY <2>2, <4>1
        <5> QED BY <1>2, <4>1, <5>1 DEF Has
      <4>2. ASSUME NEW i \in 1..Len(s), s[i] = <<id, e>> PROVE Has(p, id, e)
        BY <1>2, <4>2 DEF Has
      <4> QED BY <4>1, <4>2 DEF Has
    <3> QED BY <1>1, <2>2, <3>1 DEF Times, Gone
  <2> QED BY <2>1, <2>2
<1> QED BY <1>6, <1>8 DEF s

LEMMA MarkIs == \A s, id, e : Times(s, id, e) \in Nat /\ Gone(s, id, e) \in Nat
<1> SUFFICES ASSUME NEW s, NEW id, NEW e PROVE Times(s, id, e) \in Nat /\ Gone(s, id, e) \in Nat
  OBVIOUS
<1>1. Times(s, id, e) \in Nat
  <2>1. CASE Has(s, id, e)
    BY <2>1 DEF Times
  <2>2. CASE ~Has(s, id, e)
    BY <2>2 DEF Times
  <2> QED BY <2>1, <2>2
<1> QED BY <1>1 DEF Gone

\* A publication.
LEMMA PublishKeeps ==
    ASSUME EventsInv, NEW t \in Tasks, PublishNext(t)
    PROVE  EventsInv'
<1> DEFINE p == pending[t]
           s == Tail(p)
<1> PICK m : m = MilestonesOf[framework]
  OBVIOUS
<1>1. /\ p # <<>> /\ published' = published (+) SetToBag({Head(p)})
      /\ pending' = [pending EXCEPT ![t] = s] /\ framework' = framework /\ done' = done
  BY DEF PublishNext
<1>2. Orderly(p, m)
  BY DEF EventsInv
<1>3. /\ Orderly(s, m)
      /\ \A id \in Ids, e \in MarksOf(m) :
             Times(p, id, e) = Times(s, id, e) + Gone(Head(p), id, e)
  BY <1>1, <1>2, RestIs
<1>4. /\ \A y \in DOMAIN published' : published'[y] \in Nat
      /\ \A id, e : Published(id, e)' = Published(id, e) + Gone(Head(p), id, e)
  BY <1>1, PublishedChanges DEF EventsInv
<1>5. /\ IsFiniteSet(Busy)' /\ pending' = [u \in Tasks |-> pending'[u]]
      /\ pending'[t] = s /\ \A u \in Tasks : u # t => pending'[u] = pending[u]
      /\ \A id, e : Owed(id, e)' = Owed(id, e) + Times(s, id, e) - Times(pending[t], id, e)
  <2>1. Leaves(t, s)
    BY <1>1 DEF Leaves
  <2> QED BY <2>1, OwedChanges
<1> HIDE DEF s
<1>6. \A u \in Tasks : Orderly(pending'[u], m)
  BY <1>3, <1>5 DEF EventsInv
<1>7. \A id, e : Published(id, e) \in Nat /\ Owed(id, e) \in Nat
  BY PublishedIs, DueIs DEF EventsInv
<1>8. ASSUME NEW id \in Ids PROVE Balanced(id, m)'
  <2>1. ASSUME NEW e \in MarksOf(m)
        PROVE  Published(id, e)' + Owed(id, e)' = Published(id, e) + Owed(id, e)
    <3>1. PICK a, b, c, d, f \in Int :
              /\ a = Published(id, e) /\ b = Owed(id, e) /\ c = Times(s, id, e)
              /\ d = Gone(Head(p), id, e) /\ f = Times(p, id, e)
      BY <1>7, MarkIs
    <3> QED BY <1>3, <1>4, <1>5, <3>1
  <2>2. {m.started, m.cancelled, m.snapshot, m.completed} \subseteq MarksOf(m)
    BY DEF MarksOf
  <2>3. Balanced(id, m)
    BY DEF EventsInv
  <2>4. PICK n, a, b, c, d \in Int :
            /\ n = done[id] /\ a = Published(id, m.started) /\ b = Owed(id, m.started)
            /\ c = Published(id, m.cancelled) /\ d = Owed(id, m.cancelled)
    BY <1>7 DEF EventsInv
  <2>5. PICK a1, b1, c1, d1 \in Int :
            /\ a1 = Published(id, m.started)' /\ b1 = Owed(id, m.started)'
            /\ c1 = Published(id, m.cancelled)' /\ d1 = Owed(id, m.cancelled)'
    BY <1>4, <1>5, <1>7, MarkIs
  <2>6. a1 + b1 = a + b /\ c1 + d1 = c + d
    BY <2>1, <2>2, <2>4, <2>5
  <2>7. a + b = n + c + d
    BY <2>3, <2>4 DEF Balanced
  <2>8. a1 + b1 = n + c1 + d1
    BY <2>6, <2>7
  <2>9. /\ Published(id, m.completed)' + Owed(id, m.completed)' = done[id]
        /\ Published(id, m.snapshot)' + Owed(id, m.snapshot)' = done[id]
    BY <2>1, <2>2, <2>3 DEF Balanced
  <2> QED BY <1>1, <2>4, <2>5, <2>8, <2>9 DEF Balanced
<1> QED BY <1>1, <1>4, <1>5, <1>6, <1>8 DEF EventsInv

\* What the three lists of a call leave to publish.
Tells(s, id, m, started, cancelled, cycles) ==
    /\ Orderly(s, m)
    /\ Times(s, id, m.started) = started /\ Times(s, id, m.cancelled) = cancelled
    /\ Times(s, id, m.snapshot) = cycles /\ Times(s, id, m.completed) = cycles
    /\ \A other \in Ids : \A e : other # id => Times(s, other, e) = 0

LEMMA ToldIs ==
    ASSUME NEW events, NEW n \in Nat, DOMAIN events = 1..n, NEW id, NEW s, s = Told(id, events)
    PROVE  /\ IsSeq(s) /\ Len(s) = n
           /\ \A i \in 1..n : s[i] = <<id, events[i]>>
           /\ \A e : Has(s, id, e) <=> \E i \in 1..n : events[i] = e
           /\ \A other \in Ids : \A e : other # id => ~Has(s, other, e)
<1>1. DOMAIN s = 1..n /\ \A i \in 1..n : s[i] = <<id, events[i]>>
  BY DEF Told
<1>2. s = [i \in 1..n |-> s[i]]
  BY DEF Told
<1>3. IsSeq(s) /\ Len(s) = n
  <2>1. \A i \in 1..n : s[i] \in {s[j] : j \in DOMAIN s}
    BY <1>1
  <2> DEFINE S == {s[j] : j \in DOMAIN s}
  <2>2. \A i \in 1..n : s[i] \in S
    BY <2>1
  <2> HIDE DEF S
  <2>3. s \in Seq(S) /\ Len(s) = n
    BY <1>2, <2>2
  <2> QED BY <2>3 DEF S, IsSeq
<1>4. \A e : Has(s, id, e) <=> \E i \in 1..n : events[i] = e
  BY <1>1, <1>3 DEF Has
<1>5. \A other \in Ids : \A e : other # id => ~Has(s, other, e)
  BY <1>1, <1>3 DEF Has
<1> QED BY <1>1, <1>3, <1>4, <1>5

LEMMA WholeTells ==
    ASSUME NEW m, Distinct(m), NEW id \in Ids, NEW events, Whole(events, m)
    PROVE  Tells(Told(id, events), id, m, 1, 0, 1)
<1>1. PICK n \in {7, 8} :
          /\ DOMAIN events = 1..n
          /\ events[1] = m.started /\ events[n - 2] = m.snapshot /\ events[n] = m.completed
          /\ \A i \in 1..n : i \notin {1, n - 2, n} => events[i] \notin MarksOf(m)
  BY DEF Whole
<1>2. n \in Nat /\ {1, n - 2, n} \subseteq 1..n /\ 1 < n - 2 /\ n - 2 < n
  BY <1>1
<1> DEFINE s == Told(id, events)
<1>3. /\ IsSeq(s) /\ Len(s) = n
      /\ \A i \in 1..n : s[i] = <<id, events[i]>>
      /\ \A e : Has(s, id, e) <=> \E i \in 1..n : events[i] = e
      /\ \A other \in Ids : \A e : other # id => ~Has(s, other, e)
  BY <1>1, <1>2, ToldIs
<1> HIDE DEF s
<1>4. /\ \A i \in 1..n : events[i] = m.started => i = 1
      /\ \A i \in 1..n : events[i] = m.snapshot => i = n - 2
      /\ \A i \in 1..n : events[i] = m.completed => i = n
      /\ \A i \in 1..n : events[i] # m.cancelled
  BY <1>1, <1>2 DEF Distinct, MarksOf
<1>5. Orderly(s, m)
  <2>1. ASSUME NEW i \in 1..n, NEW j \in 1..n, NEW e \in MarksOf(m), events[i] = e, events[j] = e
        PROVE  i = j
    BY <1>4, <2>1 DEF MarksOf
  <2>2. Followed(s, 1, {<<id, m.snapshot>>, <<id, m.cancelled>>})
    BY <1>1, <1>2, <1>3, ZenonT(60) DEF Followed
  <2>3. Followed(s, n - 2, {<<id, m.completed>>})
    BY <1>1, <1>2, <1>3 DEF Followed
  <2>5. ASSUME NEW i \in Ids, NEW k \in 1..Len(s), s[k] = <<i, m.started>>
        PROVE  Followed(s, k, {<<i, m.snapshot>>, <<i, m.cancelled>>})
    <3>1. i = id /\ k = 1
      BY <1>3, <1>4, <2>5
    <3> QED BY <2>2, <3>1
  <2>6. ASSUME NEW i \in Ids, NEW k \in 1..Len(s), s[k] = <<i, m.snapshot>>
        PROVE  Followed(s, k, {<<i, m.completed>>})
    <3>1. i = id /\ k = n - 2
      BY <1>3, <1>4, <2>6
    <3> QED BY <2>3, <3>1
  <2>7. ASSUME NEW i \in Ids, NEW e \in MarksOf(m), NEW k \in 1..Len(s), NEW l \in 1..Len(s),
               s[k] = <<i, e>>, s[l] = <<i, e>>
        PROVE  k = l
    <3>1. events[k] = e /\ events[l] = e
      BY <1>3, <2>7
    <3> QED BY <1>3, <2>1, <3>1
  <2> QED BY <1>3, <2>5, <2>6, <2>7 DEF Orderly
<1>6. /\ Has(s, id, m.started) /\ Has(s, id, m.snapshot) /\ Has(s, id, m.completed)
      /\ ~Has(s, id, m.cancelled)
  BY <1>1, <1>2, <1>3, <1>4
<1> QED BY <1>3, <1>5, <1>6 DEF Tells, Times, s

LEMMA StoppedTells ==
    ASSUME NEW m, Distinct(m), NEW id \in Ids, NEW events, Stopped(events, m)
    PROVE  Tells(Told(id, events), id, m, 1, 1, 0)
<1>1. DOMAIN events = 1..2 /\ events[1] = m.started /\ events[2] = m.cancelled
  BY DEF Stopped
<1> DEFINE s == Told(id, events)
<1>2. /\ IsSeq(s) /\ Len(s) = 2
      /\ \A i \in 1..2 : s[i] = <<id, events[i]>>
      /\ \A e : Has(s, id, e) <=> \E i \in 1..2 : events[i] = e
      /\ \A other \in Ids : \A e : other # id => ~Has(s, other, e)
  BY <1>1, ToldIs
<1> HIDE DEF s
<1>3. Orderly(s, m)
  <2>1. Followed(s, 1, {<<id, m.snapshot>>, <<id, m.cancelled>>})
    BY <1>1, <1>2 DEF Followed
  <2>2. \A i \in 1..2 : i = 1 \/ i = 2
    OBVIOUS
  <2>3. m.started # m.cancelled /\ m.started # m.snapshot /\ m.cancelled # m.snapshot
    BY DEF Distinct
  <2> QED BY <1>1, <1>2, <2>1, <2>2, <2>3, SMTT(30) DEF Orderly
<1>4. /\ Has(s, id, m.started) /\ Has(s, id, m.cancelled)
      /\ ~Has(s, id, m.snapshot) /\ ~Has(s, id, m.completed)
  BY <1>1, <1>2 DEF Distinct
<1> QED BY <1>2, <1>3, <1>4 DEF Tells, Times, s

LEMMA RefusedTells ==
    ASSUME NEW m, Distinct(m), NEW id \in Ids, NEW events, Refused(events, m)
    PROVE  Tells(Told(id, events), id, m, 0, 0, 0)
<1>1. DOMAIN events = 1..1 /\ events[1] \notin MarksOf(m)
  BY DEF Refused
<1> DEFINE s == Told(id, events)
<1>2. /\ IsSeq(s) /\ Len(s) = 1
      /\ \A i \in 1..1 : s[i] = <<id, events[i]>>
      /\ \A e : Has(s, id, e) <=> \E i \in 1..1 : events[i] = e
      /\ \A other \in Ids : \A e : other # id => ~Has(s, other, e)
  BY <1>1, ToldIs
<1> HIDE DEF s
<1>3. Orderly(s, m)
  BY <1>1, <1>2 DEF Orderly, MarksOf
<1>4. \A e \in MarksOf(m) : ~Has(s, id, e)
  BY <1>1, <1>2
<1> QED BY <1>2, <1>3, <1>4 DEF Tells, Times, MarksOf, s

\* A call.
LEMMA AnnounceKeeps ==
    ASSUME EventsInv, Announces
    PROVE  EventsInv'
<1> PICK m : m = MilestonesOf[framework]
  OBVIOUS
<1>1. PICK t \in Tasks, who \in Ids : \E events :
          /\ Starts(t, who, events)
          /\ \/ Whole(events, m) /\ done' = [done EXCEPT ![who] = @ + 1]
             \/ /\ \/ Stopped(events, m)
                   \/ Refused(events, m)
                /\ done' = done
  BY DEF Announces
<1> PICK events :
        /\ Starts(t, who, events)
        /\ \/ Whole(events, m) /\ done' = [done EXCEPT ![who] = @ + 1]
           \/ /\ \/ Stopped(events, m)
                 \/ Refused(events, m)
              /\ done' = done
  BY <1>1
<1> PICK s : s = Told(who, events)
  OBVIOUS
<1>2. /\ t \in Tasks /\ who \in Ids /\ pending[t] = <<>>
      /\ pending' = [pending EXCEPT ![t] = s]
      /\ framework' = framework /\ published' = published
  BY DEF Starts
<1>3. Distinct(m)
  BY MilestonesDiffer DEF EventsInv
<1>4. /\ done' \in [Ids -> Nat]
      /\ \A other \in Ids : other # who => done'[other] = done[other]
      /\ \E a, b, c \in Nat :
            /\ Tells(s, who, m, a, b, c)
            /\ a = b + c /\ done'[who] = done[who] + c
  <2>1. CASE Whole(events, m) /\ done' = [done EXCEPT ![who] = @ + 1]
    <3>1. Tells(s, who, m, 1, 0, 1)
      BY <1>2, <1>3, <2>1, WholeTells
    <3>2. /\ done' \in [Ids -> Nat] /\ done'[who] = done[who] + 1
          /\ \A other \in Ids : other # who => done'[other] = done[other]
      BY <1>2, <2>1 DEF EventsInv
    <3>3. 0 \in Nat /\ 1 \in Nat /\ 1 = 0 + 1
      OBVIOUS
    <3> QED BY <3>1, <3>2, <3>3, Zenon
  <2>2. CASE Stopped(events, m) /\ done' = done
    <3>1. Tells(s, who, m, 1, 1, 0)
      BY <1>2, <1>3, <2>2, StoppedTells
    <3>2. /\ done' \in [Ids -> Nat] /\ done'[who] = done[who] + 0
          /\ \A other \in Ids : other # who => done'[other] = done[other]
      BY <1>2, <2>2 DEF EventsInv
    <3>3. 0 \in Nat /\ 1 \in Nat /\ 1 = 1 + 0
      OBVIOUS
    <3> QED BY <3>1, <3>2, <3>3, Zenon
  <2>3. CASE Refused(events, m) /\ done' = done
    <3>1. Tells(s, who, m, 0, 0, 0)
      BY <1>2, <1>3, <2>3, RefusedTells
    <3>2. /\ done' \in [Ids -> Nat] /\ done'[who] = done[who] + 0
          /\ \A other \in Ids : other # who => done'[other] = done[other]
      BY <1>2, <2>3 DEF EventsInv
    <3>3. 0 \in Nat /\ 1 \in Nat /\ 0 = 0 + 0
      OBVIOUS
    <3> QED BY <3>1, <3>2, <3>3, Zenon
  <2> QED BY <2>1, <2>2, <2>3
<1>5. PICK a, b, c \in Nat :
          /\ Tells(s, who, m, a, b, c)
          /\ a = b + c /\ done'[who] = done[who] + c
  BY <1>4
<1>6. /\ IsFiniteSet(Busy)' /\ pending' = [u \in Tasks |-> pending'[u]]
      /\ pending'[t] = s /\ \A u \in Tasks : u # t => pending'[u] = pending[u]
      /\ \A id, e : Owed(id, e)' = Owed(id, e) + Times(s, id, e) - Times(pending[t], id, e)
  <2>1. t \in Tasks /\ Leaves(t, s)
    BY <1>2 DEF Leaves
  <2> QED BY <2>1, OwedChanges
<1>7. \A i, e : Times(pending[t], i, e) = 0
  <2>1. Len(<<>>) = 0
    OBVIOUS
  <2>2. \A i, e : ~Has(pending[t], i, e)
    BY <1>2, <2>1 DEF Has
  <2> QED BY <2>2 DEF Times
<1>8. \A i, e : Published(i, e) \in Nat /\ Owed(i, e) \in Nat
  BY PublishedIs, DueIs DEF EventsInv
<1>9. \A i, e : Published(i, e)' = Published(i, e)
  BY <1>2 DEF Published, BagIn, BagToSet
<1>10. \A i, e : Owed(i, e)' = Owed(i, e) + Times(s, i, e)
  <2> SUFFICES ASSUME NEW i, NEW e PROVE Owed(i, e)' = Owed(i, e) + Times(s, i, e)
    OBVIOUS
  <2>1. PICK x, y \in Nat : x = Owed(i, e) /\ y = Times(s, i, e)
    BY <1>8, MarkIs
  <2> QED BY <1>6, <1>7, <2>1
<1>11. ASSUME NEW i \in Ids PROVE Balanced(i, m)'
  <2>1. /\ Published(i, m.completed) + Owed(i, m.completed) = done[i]
        /\ Published(i, m.snapshot) + Owed(i, m.snapshot) = done[i]
        /\ Published(i, m.started) + Owed(i, m.started) =
               done[i] + Published(i, m.cancelled) + Owed(i, m.cancelled)
    BY DEF EventsInv, Balanced
  <2>2. PICK n, d1, d2, d3, d4, w1, w2, w3, w4 \in Nat :
            /\ n = done[i]
            /\ d1 = Published(i, m.started) /\ w1 = Owed(i, m.started)
            /\ d2 = Published(i, m.cancelled) /\ w2 = Owed(i, m.cancelled)
            /\ d3 = Published(i, m.snapshot) /\ w3 = Owed(i, m.snapshot)
            /\ d4 = Published(i, m.completed) /\ w4 = Owed(i, m.completed)
    BY <1>8 DEF EventsInv
  <2>3. CASE i = who
    <3>1. /\ Owed(i, m.started)' = w1 + a /\ Owed(i, m.cancelled)' = w2 + b
          /\ Owed(i, m.snapshot)' = w3 + c /\ Owed(i, m.completed)' = w4 + c
          /\ done'[i] = n + c
      BY <1>5, <1>10, <2>2, <2>3 DEF Tells
    <3> QED BY <1>5, <1>9, <2>1, <2>2, <3>1 DEF Balanced
  <2>4. CASE i # who
    <3>1. \A e : Times(s, i, e) = 0
      BY <1>5, <2>4 DEF Tells
    <3>2. /\ Owed(i, m.started)' = w1 /\ Owed(i, m.cancelled)' = w2
          /\ Owed(i, m.snapshot)' = w3 /\ Owed(i, m.completed)' = w4
          /\ done'[i] = n
      BY <1>4, <1>10, <2>2, <2>4, <3>1
    <3> QED BY <1>9, <2>1, <2>2, <3>2 DEF Balanced
  <2> QED BY <2>3, <2>4
<1>12. \A u \in Tasks : Orderly(pending'[u], m)
  BY <1>2, <1>5, <1>6 DEF EventsInv, Tells
<1> QED BY <1>2, <1>4, <1>6, <1>11, <1>12 DEF EventsInv

\* Whatever leaves the publications alone.
Silent == UNCHANGED <<framework, pending, published, done>>
LEMMA SilentKeeps ==
    ASSUME EventsInv, Silent
    PROVE  EventsInv'
<1> PICK m : m = MilestonesOf[framework]
  OBVIOUS
<1>1. \A id, e : Published(id, e)' = Published(id, e) /\ Owed(id, e)' = Owed(id, e)
  BY DEF Silent, Published, Owed, Due
<1>2. Busy' = Busy
  BY DEF Silent, Busy
<1>3. \A id \in Ids : Balanced(id, m)'
  BY <1>1 DEF EventsInv, Balanced, Silent
<1> QED BY <1>2, <1>3 DEF EventsInv, Silent

LEMMA InitEvents ==
    ASSUME SupportInit
    PROVE  EventsInv
<1>1. PICK name \in Frameworks : Init(name)
  BY DEF SupportInit
<1> PICK m : m = MilestonesOf[framework]
  OBVIOUS
<1>2. /\ framework \in Frameworks /\ pending = [t \in Tasks |-> <<>>]
      /\ DOMAIN published = {} /\ done = [id \in Ids |-> 0]
  BY <1>1 DEF Init, EmptyBag, SetToBag
<1>3. Len(<<>>) = 0 /\ IsSeq(<<>>)
  BY DEF IsSeq
<1>4. Busy = {} /\ \A id, e : Due(id, e) = {}
  BY <1>2, <1>3 DEF Busy, Due, Has
<1>5. \A id, e : Owed(id, e) = 0 /\ Published(id, e) = 0
  BY <1>2, <1>4, FS_EmptySet DEF Owed, Published, BagIn, BagToSet
<1>6. \A t \in Tasks : Orderly(pending[t], m)
  BY <1>2, <1>3 DEF Orderly
<1>7. \A id \in Ids : Balanced(id, m)
  BY <1>2, <1>5 DEF Balanced
<1> QED BY <1>2, <1>4, <1>6, <1>7, FS_EmptySet DEF EventsInv


LEMMA EventsStep ==
    ASSUME RecordsKept, EventsInv, [SupportNext]_cycle
    PROVE  EventsInv'
<1>1. CASE UNCHANGED cycle
  BY <1>1, SilentKeeps DEF cycle, Silent
<1>2. CASE Call
  BY <1>2, CallsAdvance, AnnounceKeeps
<1>3. ASSUME NEW t \in Tasks, PublishNext(t)
      PROVE  EventsInv'
  BY <1>3, PublishKeeps
<1>4. ASSUME NEW id \in Ids, Unregister(id)
      PROVE  EventsInv'
  BY <1>4, UnregisterForgets, SilentKeeps DEF Forget, Silent
<1>5. CASE Clear
  BY <1>5, ClearForgets, SilentKeeps DEF Forget, Silent
<1> QED BY <1>1, <1>2, <1>3, <1>4, <1>5 DEF SupportNext

\* However calls, publications and removals interleave, in each of the twelve
\* frameworks a cycle's completion is published only after it was registered and its
\* snapshot published, and once by the time all calls have returned: for any tasks,
\* records and inputs, however many of them.
THEOREM EventsFollow == SupportSpec => []EventsFollowUpdates
<1>1. SupportInit => RecordsKept /\ EventsInv
  BY InitEvents DEF SupportInit, Init, RecordsKept
<1>2. RecordsKept /\ EventsInv /\ [SupportNext]_cycle => RecordsKept' /\ EventsInv'
  BY SupportStep, EventsStep
<1> QED BY <1>1, <1>2, EventsInvSuffices, PTL DEF SupportSpec
==============================================================================
