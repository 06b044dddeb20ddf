------------------------------- MODULE Support -------------------------------
(***************************************************************************)
(* The supporting frameworks, one per behaviour: calls of several tasks for  *)
(* the same records, the publication of their events, and removals from the  *)
(* registry in between.                                                      *)
(***************************************************************************)
EXTENDS Cycle

CONSTANTS WorkflowInputs, GatewayInputs

Monitoring   == INSTANCE Monitoring
Dashboard    == INSTANCE Dashboard
Memory       == INSTANCE Memory
Notification == INSTANCE Notification
Optimization == INSTANCE Optimization
Reporting    == INSTANCE Reporting
Scheduler    == INSTANCE Scheduler
Storage      == INSTANCE Storage
Workers      == INSTANCE Workers
Learning     == INSTANCE Learning
Workflows    == INSTANCE Workflows
ModelGateway == INSTANCE ModelGateway

Frameworks ==
    {"monitoring", "dashboard", "memory", "notification", "optimization", "reporting",
     "scheduler", "storage", "workers", "learning", "workflows", "model_gateway"}

SupportInit == \E name \in Frameworks : Init(name)

Call ==
    \/ framework = "monitoring" /\ Monitoring!DefaultMonitoringEngine
    \/ framework = "dashboard" /\ Dashboard!DefaultDashboardEngine
    \/ framework = "memory" /\ Memory!DefaultMemoryEngine
    \/ framework = "notification" /\ Notification!DefaultNotificationEngine
    \/ framework = "optimization" /\ Optimization!DefaultOptimizationEngine
    \/ framework = "reporting" /\ Reporting!DefaultReportingEngine
    \/ framework = "scheduler" /\ Scheduler!DefaultSchedulerEngine
    \/ framework = "storage" /\ Storage!DefaultStorageEngine
    \/ framework = "workers" /\ Workers!DefaultWorkerEngine
    \/ framework = "learning" /\ Learning!DefaultLearningEngine
    \/ framework = "workflows" /\ Workflows!DefaultWorkflowEngine
    \/ framework = "model_gateway" /\ ModelGateway!DefaultModelGatewayEngine

Unregister(id) ==
    \/ framework = "monitoring" /\ Monitoring!unregister(id)
    \/ framework = "dashboard" /\ Dashboard!unregister(id)
    \/ framework = "memory" /\ Memory!unregister(id)
    \/ framework = "notification" /\ Notification!unregister(id)
    \/ framework = "optimization" /\ Optimization!unregister(id)
    \/ framework = "reporting" /\ Reporting!unregister(id)
    \/ framework = "scheduler" /\ Scheduler!unregister(id)
    \/ framework = "storage" /\ Storage!unregister(id)
    \/ framework = "workers" /\ Workers!unregister(id)
    \/ framework = "learning" /\ Learning!unregister(id)
    \/ framework = "workflows" /\ Workflows!unregister(id)
    \/ framework = "model_gateway" /\ ModelGateway!unregister(id)

Clear ==
    \/ framework = "monitoring" /\ Monitoring!clear
    \/ framework = "dashboard" /\ Dashboard!clear
    \/ framework = "memory" /\ Memory!clear
    \/ framework = "notification" /\ Notification!clear
    \/ framework = "optimization" /\ Optimization!clear
    \/ framework = "reporting" /\ Reporting!clear
    \/ framework = "scheduler" /\ Scheduler!clear
    \/ framework = "storage" /\ Storage!clear
    \/ framework = "workers" /\ Workers!clear
    \/ framework = "learning" /\ Learning!clear
    \/ framework = "workflows" /\ Workflows!clear
    \/ framework = "model_gateway" /\ ModelGateway!clear

SupportNext ==
    \/ Call
    \/ \E t \in Tasks : PublishNext(t)
    \/ \E id \in Ids : Unregister(id)
    \/ Clear

SupportSpec == SupportInit /\ [][SupportNext]_cycle

-----------------------------------------------------------------------------
(* Properties.                                                               *)

\* Every record, result and event is of its framework's types; in particular a
\* category that a framework does not support never gets into a request.
TypeOK ==
    /\ framework \in Frameworks
    /\ calls \in 0..MaxCalls
    /\ done \in [Ids -> 0..MaxCalls]
    /\ IsABag(published)
    /\ CASE framework = "monitoring" ->      Monitoring!TypeOK
         [] framework = "dashboard" ->       Dashboard!TypeOK
         [] framework = "memory" ->          Memory!TypeOK
         [] framework = "notification" ->    Notification!TypeOK
         [] framework = "optimization" ->    Optimization!TypeOK
         [] framework = "reporting" ->       Reporting!TypeOK
         [] framework = "scheduler" ->       Scheduler!TypeOK
         [] framework = "storage" ->         Storage!TypeOK
         [] framework = "workers" ->         Workers!TypeOK
         [] framework = "learning" ->        Learning!TypeOK
         [] framework = "workflows" ->       Workflows!TypeOK
         [] framework = "model_gateway" ->   ModelGateway!TypeOK

\* A framework's record can be derived from its history alone: the counters are
\* totals over all cycles and the rest belongs to the last one, whatever calls,
\* failures and cancellations of however many tasks came between.
HistoryExplainsRecords ==
    \A id \in DOMAIN records :
        CASE framework = "monitoring" ->      Monitoring!HistoryExplainsRecord(records[id])
          [] framework = "dashboard" ->       Dashboard!HistoryExplainsRecord(records[id])
          [] framework = "memory" ->          Memory!HistoryExplainsRecord(records[id])
          [] framework = "notification" ->    Notification!HistoryExplainsRecord(records[id])
          [] framework = "optimization" ->    Optimization!HistoryExplainsRecord(records[id])
          [] framework = "reporting" ->       Reporting!HistoryExplainsRecord(records[id])
          [] framework = "scheduler" ->       Scheduler!HistoryExplainsRecord(records[id])
          [] framework = "storage" ->         Storage!HistoryExplainsRecord(records[id])
          [] framework = "workers" ->         Workers!HistoryExplainsRecord(records[id])
          [] framework = "learning" ->        Learning!HistoryExplainsRecord(records[id])
          [] framework = "workflows" ->       Workflows!HistoryExplainsRecord(records[id])
          [] framework = "model_gateway" ->   ModelGateway!HistoryExplainsRecord(records[id])

\* The metrics a caller is given add up to the record in the same snapshot.
SnapshotsAddUp ==
    \A t \in Tasks : results[t].status = "success" =>
        CASE framework = "monitoring" ->      Monitoring!MetricsAgree(results[t].snapshot)
          [] framework = "dashboard" ->       Dashboard!MetricsAgree(results[t].snapshot)
          [] framework = "memory" ->          Memory!MetricsAgree(results[t].snapshot)
          [] framework = "notification" ->    Notification!MetricsAgree(results[t].snapshot)
          [] framework = "optimization" ->    Optimization!MetricsAgree(results[t].snapshot)
          [] framework = "reporting" ->       Reporting!MetricsAgree(results[t].snapshot)
          [] framework = "scheduler" ->       Scheduler!MetricsAgree(results[t].snapshot)
          [] framework = "storage" ->         Storage!MetricsAgree(results[t].snapshot)
          [] framework = "workers" ->         Workers!MetricsAgree(results[t].snapshot)
          [] framework = "learning" ->        Learning!MetricsAgree(results[t].snapshot)
          [] framework = "workflows" ->       Workflows!MetricsAgree(results[t].snapshot)
          [] framework = "model_gateway" ->   ModelGateway!MetricsAgree(results[t].snapshot)

\* The records are well formed, can be derived from their history, and are what
\* the metrics handed out with them add up to.
RecordFollowsHistory == TypeOK /\ HistoryExplainsRecords /\ SnapshotsAddUp

\* The frameworks that rank their candidates before they cut them at their limit
\* pass none over for a less urgent one, whatever group it came in.  Two frameworks
\* rank nothing before a cut and have rules of their own: learning cuts nothing and
\* recommends by its thresholds; workflows are cut in the order of arrival, and only
\* those that are left are ordered by urgency and by their dependencies.
MostUrgentHandled ==
    \A id \in DOMAIN records \intersect DOMAIN inputs :
        CASE framework = "monitoring" ->      Monitoring!UrgentAreHandled(records[id], inputs[id])
          [] framework = "dashboard" ->       Dashboard!UrgentAreHandled(records[id], inputs[id])
          [] framework = "memory" ->          Memory!UrgentAreHandled(records[id], inputs[id])
          [] framework = "notification" ->    Notification!UrgentAreHandled(records[id], inputs[id])
          [] framework = "optimization" ->    Optimization!UrgentAreHandled(records[id], inputs[id])
          [] framework = "reporting" ->       Reporting!UrgentAreHandled(records[id], inputs[id])
          [] framework = "scheduler" ->       Scheduler!UrgentAreHandled(records[id], inputs[id])
          [] framework = "storage" ->         Storage!UrgentAreHandled(records[id], inputs[id])
          [] framework = "workers" ->         Workers!UrgentAreHandled(records[id], inputs[id])
          [] framework = "learning" ->        Learning!UrgentAreHandled(records[id], inputs[id])
          [] framework = "workflows" ->       Workflows!UrgentAreHandled(records[id], inputs[id])
          [] framework = "model_gateway" ->   ModelGateway!UrgentAreHandled(records[id], inputs[id])

\* A call for workflows fails only for a cause: a record that is over, or a batch with
\* duplicates, unknown names or targets, a circle of dependencies, or priorities that
\* cannot be compared; and none that has such a cause succeeds (workflows/planner.py).
WorkflowsRefusedForCause == framework = "workflows" => Workflows!RefusedForCause

\* The events that tell how far a call is.
Milestones(started, cancelled, snapshot, completed) ==
    [started |-> started, cancelled |-> cancelled, snapshot |-> snapshot,
     completed |-> completed]
MilestonesOf ==
    [monitoring |->
         Milestones("MonitoringStarted", "MonitoringCancelled",
                    "MonitoringSnapshotCreated", "MonitoringCompleted"),
     dashboard |->
         Milestones("DashboardStarted", "DashboardCancelled",
                    "DashboardSnapshotCreated", "DashboardCompleted"),
     memory |->
         Milestones("MemoryStarted", "MemoryCancelled",
                    "MemorySnapshotCreated", "MemoryCompleted"),
     notification |->
         Milestones("NotificationStarted", "NotificationCancelled",
                    "NotificationSnapshotCreated", "NotificationCompleted"),
     optimization |->
         Milestones("OptimizationStarted", "OptimizationCancelled",
                    "OptimizationSnapshotCreated", "OptimizationCompleted"),
     reporting |->
         Milestones("ReportingStarted", "ReportingCancelled",
                    "ReportingSnapshotCreated", "ReportingCompleted"),
     scheduler |->
         Milestones("SchedulerStarted", "SchedulerCancelled",
                    "SchedulerSnapshotCreated", "SchedulerCompleted"),
     storage |->
         Milestones("StorageStarted", "StorageCancelled",
                    "StorageSnapshotCreated", "StorageCompleted"),
     workers |->
         Milestones("WorkerStarted", "WorkerCancelled",
                    "WorkerSnapshotCreated", "WorkerCompleted"),
     learning |->
         Milestones("LearningStarted", "LearningCancelled",
                    "LearningSnapshotCreated", "LearningCompleted"),
     workflows |->
         Milestones("WorkflowStarted", "WorkflowCancelled",
                    "WorkflowSnapshotCreated", "WorkflowCompleted"),
     model_gateway |->
         Milestones("ModelGatewayStarted", "ModelGatewayCancelled",
                    "ModelGatewaySnapshotCreated", "ModelGatewayCompleted")]

\* Although the lock is released before the events are published and other calls
\* run in between, a cycle is announced only after it was registered, never
\* before its snapshot was, and exactly once by the time all calls have returned.
EventsFollowUpdates ==
    LET event == MilestonesOf[framework]
    IN  \A id \in Ids :
            /\ Published(id, event.completed) <= done[id]
            /\ Published(id, event.completed) <= Published(id, event.snapshot)
            /\ Published(id, event.snapshot) + Published(id, event.cancelled)
                   <= Published(id, event.started)
            /\ Quiet => /\ Published(id, event.completed) = done[id]
                        /\ Published(id, event.completed) + Published(id, event.cancelled)
                               = Published(id, event.started)

can_transition(source, target) ==
    CASE framework = "monitoring" ->      Monitoring!can_transition(source, target)
      [] framework = "dashboard" ->       Dashboard!can_transition(source, target)
      [] framework = "memory" ->          Memory!can_transition(source, target)
      [] framework = "notification" ->    Notification!can_transition(source, target)
      [] framework = "optimization" ->    Optimization!can_transition(source, target)
      [] framework = "reporting" ->       Reporting!can_transition(source, target)
      [] framework = "scheduler" ->       Scheduler!can_transition(source, target)
      [] framework = "storage" ->         Storage!can_transition(source, target)
      [] framework = "workers" ->         Workers!can_transition(source, target)
      [] framework = "learning" ->        Learning!can_transition(source, target)
      [] framework = "workflows" ->       Workflows!can_transition(source, target)
      [] framework = "model_gateway" ->   ModelGateway!can_transition(source, target)

\* Whatever calls interleave, no step takes a record along an edge its framework's
\* state table lacks, although no call consults the table (a cancelled record stays
\* cancelled), and what a call has added to a record's history no later call takes
\* away: only a removal from the registry does.
RecordsOnlyAdvance ==
    [][\A id \in DOMAIN records \intersect DOMAIN records' :
          /\ records'[id] # records[id] =>
                can_transition(records[id].state, records'[id].state)
          /\ IsPrefix(records[id].history, records'[id].history)]_cycle

-----------------------------------------------------------------------------
(* The inputs of the run: ties, more candidates than the limit, a NaN, and   *)
(* none at all; workflows that are fine, cyclic, malformed and not           *)
(* comparable; more sources than a gateway's limit; providers                *)
(* that tie with and without routing identifiers.                            *)

item(name, source, score, kind) ==
    [name |-> name, source |-> source, score |-> score, kind |-> kind]

SomeInputs ==
    {[feed |-> <<<<item(2, 1, 0, "daily")>>, <<item(1, 1, 1, "odd"), item(3, 2, -1, "odd")>>,
                 <<>>, <<item(3, 1, 1, "cron")>>, <<item(9, 2, 0, "risk")>>>>,
      limit |-> 3, threshold |-> 1],
     [feed |-> <<<<item(1, 1, -1, "batch")>>, <<item(4, 1, 2, "cache")>>, <<>>, <<>>, <<>>>>,
      limit |-> 1, threshold |-> 0],
     [feed |-> <<<<item(1, 1, NaN, "odd")>>, <<>>, <<>>, <<>>, <<>>>>,
      limit |-> 1, threshold |-> 0]}

step(id, target, priority) ==
    [step_id |-> id, handoff_target |-> target, priority |-> priority]
after(id, on) == [step_id |-> id, depends_on |-> on]
workflow(id, priority, steps, dependencies) ==
    [workflow_id |-> id, workflow_priority |-> priority, steps |-> steps,
     dependencies |-> dependencies]

Diamond == workflow(1, 0, <<step(1, "agents", 0), step(2, "workers", 2),
                            step(3, "scheduler", 1), step(4, "agents", 3)>>,
                    <<after(4, 2), after(4, 3), after(2, 1), after(4, 2), after(3, 1)>>)
Pair == workflow(2, 1, <<step(1, "workers", 0), step(2, "agents", 1)>>, <<after(2, 1)>>)
Cyclic == workflow(3, 0, <<step(1, "agents", 0), step(2, "agents", 0),
                           step(3, "agents", 0)>>,
                   <<after(2, 1), after(3, 2), after(2, 3)>>)
Broken == workflow(4, 0, <<step(1, "nobody", 0)>>, <<>>)
SelfDependent == workflow(5, 0, <<step(1, "agents", 0)>>, <<after(1, 1)>>)

Unranked == workflow(6, NaN, <<step(1, "agents", NaN)>>, <<>>)
Unordered == workflow(7, 0, <<step(1, "agents", NaN), step(2, "workers", 0)>>, <<after(2, 1)>>)

SomeWorkflowInputs ==
    {[definitions |-> <<Unranked, Pair>>, limit |-> 1],
     [definitions |-> <<Pair, Unranked>>, limit |-> 2],
     [definitions |-> <<Unordered>>, limit |-> 1],
     [definitions |-> <<Diamond, Pair, Cyclic>>, limit |-> 2],
     [definitions |-> <<Pair, Cyclic>>, limit |-> 2],
     [definitions |-> <<Broken>>, limit |-> 1],
     [definitions |-> <<SelfDependent, Pair>>, limit |-> 1],
     [definitions |-> <<Pair, Pair>>, limit |-> 5]}

source(name, score, needs, provider) ==
    [name |-> name, source |-> 1, score |-> score, required_capabilities |-> needs,
     required_context |-> {}, preferred_provider_id |-> provider,
     preferred_model_id |-> 0]
profile(provider, can, cost, available, routing) ==
    [provider_id |-> provider, model_id |-> 1, capabilities |-> can,
     context_support |-> {}, routing_policy_priority |-> 0, priority |-> 0,
     cost |-> cost, available |-> available, routing_id |-> routing]

SomeGatewayInputs ==
    {[feed |-> <<<<source(4, -2, {}, 0), source(1, 1, {"chat"}, 2)>>,
                 <<source(2, 0, {"vision"}, 1)>>, <<>>, <<source(3, -1, {}, 0)>>>>,
      limit |-> 3, threshold |-> 0,
      profiles |-> <<profile(1, {"chat"}, 1, FALSE, 0),
                     profile(2, {"chat"}, 5, TRUE, 0),
                     profile(2, {"chat"}, 5, TRUE, 7)>>],
     [feed |-> <<<<source(1, 1, {"chat"}, 1)>>, <<>>, <<>>, <<>>>>,
      limit |-> 1, threshold |-> 0,
      profiles |-> <<profile(2, {"chat"}, 1, TRUE, 0),
                     profile(2, {"chat"}, 1, TRUE, 0)>>],
     [feed |-> <<<<source(1, NaN, {}, 0)>>, <<source(2, 1, {}, 0)>>, <<>>, <<>>>>,
      limit |-> 2, threshold |-> 0,
      profiles |-> <<>>]}

TaskSymmetry == Permutations(Tasks) \union Permutations(Ids)
=============================================================================
