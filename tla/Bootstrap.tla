------------------------------ MODULE Bootstrap ------------------------------
(***************************************************************************)
(* The dry-run bootstrap (app/bootstrap.py, app/planner.py,                  *)
(* app/preflight.py): a manifest is ordered, its service keys are checked,   *)
(* its components are registered in a new container and every service it     *)
(* names is resolved; the first thing that goes wrong ends the run with a    *)
(* failed result and no artifact.  main() (app/main.py) runs it for the      *)
(* default manifest with a view of the settings.  The composition root comes *)
(* with it: what every register_<package>(container) function registers, and *)
(* app/wiring.py, which names the 25 components a manifest may list and the  *)
(* service each must be able to build.  Keys of the same name are qualified  *)
(* by their package.                                                         *)
(***************************************************************************)
EXTENDS Container, Configuration

CONSTANTS
    Manifests,     \* the manifests a run may be given
    NaN,           \* Decimal("NaN"): ordering it raises InvalidOperation
    SignalingNaN   \* Decimal("sNaN"): so does negating it

VARIABLES
    manifest,      \* BootstrapContext.manifest
    view,          \* BootstrapContext.configuration
    phase,         \* where the pipeline stands
    plan,          \* the entries of the BootstrapPlan
    registered,    \* the components registered so far
    report,        \* the entries of the PreflightReport
    result,        \* the BootstrapResult
    status         \* what became of main(), in a process that calls it

bootstrap == <<manifest, phase, plan, registered, report, result>>
entry == <<configuration, view, status>>

-----------------------------------------------------------------------------
(* The registrars (EventBus, which all but register_persistence and          *)
(* register_logging register if it is not there yet, is left out of them).   *)

register_agents ==
    Classes({"ConsensusResolver", "DecisionMetricsCalculator", "DecisionHistoryService"})
    @@ Bound("AgentRegistry", "InMemoryAgentRegistry", <<>>)
    @@ Bound("DecisionManager", "DefaultDecisionManager",
               Opt(<<"LoggerFactory">>)
               \o Req(<<"EventBus", "AgentRegistry", "ConsensusResolver",
                        "DecisionMetricsCalculator", "DecisionHistoryService">>))
    @@ Bound("DecisionEngine", "DefaultDecisionEngine",
               Opt(<<"LoggerFactory">>) \o Req(<<"DecisionManager">>))

register_backtesting ==
    Classes({"Scheduler", "Simulator", "BacktestMetricsCalculator", "BacktestHistoryService",
             "BacktestRegistry"})
    @@ Bound("BacktestManager", "DefaultBacktestManager",
               Opt(<<"LoggerFactory">>)
               \o Req(<<"EventBus", "BacktestRegistry", "Scheduler", "Simulator",
                        "BacktestMetricsCalculator", "BacktestHistoryService">>)
               \o Opt(<<"RiskEngine", "OrderEngine", "ExecutionEngine", "PortfolioEngine",
                        "PositionEngine", "TradeEngine", "PerformanceEngine">>))
    @@ Bound("BacktestEngine", "DefaultBacktestEngine",
               Opt(<<"LoggerFactory">>) \o Req(<<"BacktestManager">>))

register_dashboard ==
    Classes({"Aggregator", "Composer", "WidgetGenerator", "DashboardMetricsCalculator",
             "DashboardRegistry"})
    @@ Bound("DashboardManager", "DefaultDashboardManager",
               Opt(<<"LoggerFactory">>)
               \o Req(<<"EventBus", "DashboardRegistry", "Aggregator", "Composer",
                        "WidgetGenerator", "DashboardMetricsCalculator">>))
    @@ Bound("DashboardEngine", "DefaultDashboardEngine",
               Opt(<<"LoggerFactory">>) \o Req(<<"DashboardManager">>))

register_exchange_adapters ==
    Classes({"ExchangeAuthentication", "ExchangeConnection", "ExchangeValidator",
             "ExchangeRouter", "ExchangeRegistry"})
    @@ Bound("ExchangeManager", "DefaultExchangeManager",
               Opt(<<"LoggerFactory">>)
               \o Req(<<"EventBus", "ExchangeAuthentication", "ExchangeConnection",
                        "ExchangeValidator", "ExchangeRouter", "ExchangeRegistry">>))
    @@ Bound("ExchangeEngine", "DefaultExchangeEngine",
               Opt(<<"LoggerFactory">>)
               \o Req(<<"ExchangeManager", "EventBus">>)
               \o Opt(<<"TradingEngine", "ExecutionEngine">>))

register_execution ==
    Classes({"ExecutionExecutor", "ExecutionValidator", "ExecutionRouter"})
    @@ Bound("ExecutionManager", "DefaultExecutionManager",
               Opt(<<"LoggerFactory">>)
               \o Req(<<"EventBus", "ExecutionExecutor", "ExecutionValidator", "ExecutionRouter">>))
    @@ Bound("ExecutionEngine", "DefaultExecutionEngine",
               Opt(<<"LoggerFactory">>)
               \o Req(<<"ExecutionManager", "EventBus">>)
               \o Opt(<<"TradingEngine", "StrategyManager", "RiskEngine", "OrderEngine">>))

register_learning ==
    Classes({"Journal", "learning.Evaluator", "FeedbackGenerator", "LearningMetricsCalculator",
             "LearningRegistry"})
    @@ Bound("LearningManager", "DefaultLearningManager",
               Opt(<<"LoggerFactory">>)
               \o Req(<<"EventBus", "LearningRegistry", "Journal", "learning.Evaluator",
                        "FeedbackGenerator", "LearningMetricsCalculator">>))
    @@ Bound("LearningEngine", "DefaultLearningEngine",
               Opt(<<"LoggerFactory">>) \o Req(<<"LearningManager">>))

register_market_data ==
    Classes({"MarketDataNormalizer", "MarketDataCache"})
    @@ Instance("MarketDataProvider")
    @@ Bound("MarketDataService", "MarketDataPipelineService",
               Opt(<<"LoggerFactory", "TradingEngine">>)
               \o Req(<<"MarketDataProvider", "MarketDataNormalizer", "MarketDataCache",
                        "EventBus">>))

register_memory ==
    Classes({"memory.Collector", "memory.Planner", "memory.Dispatcher",
             "MemoryMetricsCalculator", "MemoryRegistry"})
    @@ Bound("MemoryManager", "DefaultMemoryManager",
               Opt(<<"LoggerFactory">>)
               \o Req(<<"EventBus", "MemoryRegistry", "memory.Collector", "memory.Planner",
                        "memory.Dispatcher", "MemoryMetricsCalculator">>))
    @@ Bound("MemoryEngine", "DefaultMemoryEngine",
               Opt(<<"LoggerFactory">>) \o Req(<<"MemoryManager">>))

register_model_gateway ==
    Classes({"model_gateway.Collector", "model_gateway.Planner", "model_gateway.Dispatcher",
             "ModelGatewayMetricsCalculator", "ModelGatewayRegistry"})
    @@ Bound("ModelGatewayManager", "DefaultModelGatewayManager",
               Opt(<<"LoggerFactory">>)
               \o Req(<<"EventBus", "ModelGatewayRegistry", "model_gateway.Collector",
                        "model_gateway.Planner", "model_gateway.Dispatcher",
                        "ModelGatewayMetricsCalculator">>))
    @@ Bound("ModelGatewayEngine", "DefaultModelGatewayEngine",
               Opt(<<"LoggerFactory">>) \o Req(<<"ModelGatewayManager">>))

register_monitoring ==
    Classes({"monitoring.Collector", "monitoring.Evaluator", "AlertGenerator",
             "MonitoringMetricsCalculator", "MonitoringRegistry"})
    @@ Bound("MonitoringManager", "DefaultMonitoringManager",
               Opt(<<"LoggerFactory">>)
               \o Req(<<"EventBus", "MonitoringRegistry", "monitoring.Collector",
                        "monitoring.Evaluator", "AlertGenerator", "MonitoringMetricsCalculator">>))
    @@ Bound("MonitoringEngine", "DefaultMonitoringEngine",
               Opt(<<"LoggerFactory">>) \o Req(<<"MonitoringManager">>))

register_notification ==
    Classes({"notification.Collector", "Formatter", "notification.Dispatcher",
             "NotificationMetricsCalculator", "NotificationRegistry"})
    @@ Bound("NotificationManager", "DefaultNotificationManager",
               Opt(<<"LoggerFactory">>)
               \o Req(<<"EventBus", "NotificationRegistry", "notification.Collector",
                        "Formatter", "notification.Dispatcher", "NotificationMetricsCalculator">>))
    @@ Bound("NotificationEngine", "DefaultNotificationEngine",
               Opt(<<"LoggerFactory">>) \o Req(<<"NotificationManager">>))

register_optimization ==
    Classes({"optimization.Planner", "Optimizer", "RecommendationGenerator",
             "OptimizationMetricsCalculator", "OptimizationRegistry"})
    @@ Bound("OptimizationManager", "DefaultOptimizationManager",
               Opt(<<"LoggerFactory">>)
               \o Req(<<"EventBus", "OptimizationRegistry", "optimization.Planner", "Optimizer",
                        "RecommendationGenerator", "OptimizationMetricsCalculator">>))
    @@ Bound("OptimizationEngine", "DefaultOptimizationEngine",
               Opt(<<"LoggerFactory">>) \o Req(<<"OptimizationManager">>))

register_order_management ==
    Classes({"OrderFactory", "OrderValidator", "OrderRouter"})
    @@ Bound("OrderManager", "DefaultOrderManager",
               Opt(<<"LoggerFactory">>)
               \o Req(<<"EventBus", "OrderFactory", "OrderValidator", "OrderRouter">>))
    @@ Bound("OrderEngine", "DefaultOrderEngine",
               Opt(<<"LoggerFactory", "TradingEngine", "StrategyManager", "RiskEngine">>)
               \o Req(<<"OrderManager", "EventBus">>))

register_paper_trading ==
    Classes({"Feed", "Broker", "PaperTradingMetricsCalculator", "PaperTradingHistoryService",
             "PaperTradingRegistry"})
    @@ Bound("PaperTradingManager", "DefaultPaperTradingManager",
               Opt(<<"LoggerFactory">>)
               \o Req(<<"EventBus", "PaperTradingRegistry", "Feed", "Broker",
                        "PaperTradingMetricsCalculator", "PaperTradingHistoryService">>)
               \o Opt(<<"RiskEngine", "OrderEngine", "ExecutionEngine", "PortfolioEngine",
                        "PositionEngine", "TradeEngine", "PerformanceEngine">>))
    @@ Bound("PaperTradingEngine", "DefaultPaperTradingEngine",
               Opt(<<"LoggerFactory">>) \o Req(<<"EventBus", "PaperTradingManager">>))

register_performance ==
    Classes({"ReturnsCalculator", "RiskCalculator", "StatisticsCalculator",
             "BenchmarkingService", "PerformanceRegistry"})
    @@ Bound("PerformanceManager", "DefaultPerformanceManager",
               Opt(<<"LoggerFactory">>)
               \o Req(<<"EventBus", "PerformanceRegistry", "ReturnsCalculator",
                        "RiskCalculator", "StatisticsCalculator", "BenchmarkingService">>))
    @@ Bound("PerformanceEngine", "DefaultPerformanceEngine",
               Opt(<<"LoggerFactory">>)
               \o Req(<<"EventBus", "PerformanceManager">>)
               \o Opt(<<"TradeEngine", "PositionEngine", "PortfolioEngine">>))

register_portfolio ==
    Classes({"HoldingsManager", "CashManager", "AccountingService", "ValuationService",
             "AllocationService", "PerformanceService", "PortfolioRegistry"})
    @@ Bound("PortfolioManager", "DefaultPortfolioManager",
               Opt(<<"LoggerFactory">>)
               \o Req(<<"EventBus", "PortfolioRegistry", "AccountingService", "HoldingsManager",
                        "CashManager", "ValuationService", "AllocationService",
                        "PerformanceService">>))
    @@ Bound("PortfolioEngine", "DefaultPortfolioEngine",
               Opt(<<"LoggerFactory">>)
               \o Req(<<"PortfolioManager">>)
               \o Opt(<<"TradingEngine", "ExecutionEngine", "ExchangeEngine">>))

register_positions ==
    Classes({"PositionTracker", "PositionLifecycle", "PositionCalculator",
             "PositionHistoryService", "PositionMetricsService", "PositionRegistry"})
    @@ Bound("PositionManager", "DefaultPositionManager",
               Opt(<<"LoggerFactory">>)
               \o Req(<<"EventBus", "PositionRegistry", "PositionTracker", "PositionLifecycle",
                        "PositionCalculator", "PositionHistoryService", "PositionMetricsService">>))
    @@ Bound("PositionEngine", "DefaultPositionEngine",
               Opt(<<"LoggerFactory">>)
               \o Req(<<"PositionManager">>)
               \o Opt(<<"TradingEngine", "PortfolioEngine">>))

register_reporting ==
    Classes({"reporting.Collector", "Builder", "Exporter", "ReportingMetricsCalculator",
             "ReportingRegistry"})
    @@ Bound("ReportingManager", "DefaultReportingManager",
               Opt(<<"LoggerFactory">>)
               \o Req(<<"EventBus", "ReportingRegistry", "reporting.Collector", "Builder",
                        "Exporter", "ReportingMetricsCalculator">>))
    @@ Bound("ReportingEngine", "DefaultReportingEngine",
               Opt(<<"LoggerFactory">>) \o Req(<<"ReportingManager">>))

register_risk ==
    Classes({"RiskValidator", "RiskPolicy"})
    @@ Bound("RiskManager", "RiskEvaluationManager",
               Opt(<<"LoggerFactory">>) \o Req(<<"EventBus", "RiskValidator", "RiskPolicy">>))
    @@ Bound("RiskEngine", "RiskEvaluationEngine",
               Opt(<<"LoggerFactory", "TradingEngine", "StrategyManager">>)
               \o Req(<<"RiskManager", "EventBus">>))

register_scheduler ==
    Classes({"scheduler.Collector", "scheduler.Planner", "scheduler.Dispatcher",
             "SchedulerMetricsCalculator", "SchedulerRegistry"})
    @@ Bound("SchedulerManager", "DefaultSchedulerManager",
               Opt(<<"LoggerFactory">>)
               \o Req(<<"EventBus", "SchedulerRegistry", "scheduler.Collector",
                        "scheduler.Planner", "scheduler.Dispatcher",
                        "SchedulerMetricsCalculator">>))
    @@ Bound("SchedulerEngine", "DefaultSchedulerEngine",
               Opt(<<"LoggerFactory">>) \o Req(<<"SchedulerManager">>))

register_storage ==
    Classes({"storage.Collector", "Serializer", "PersistencePlanner",
             "StorageMetricsCalculator", "StorageRegistry"})
    @@ Bound("StorageManager", "DefaultStorageManager",
               Opt(<<"LoggerFactory">>)
               \o Req(<<"EventBus", "StorageRegistry", "storage.Collector", "Serializer",
                        "PersistencePlanner", "StorageMetricsCalculator">>))
    @@ Bound("StorageEngine", "DefaultStorageEngine",
               Opt(<<"LoggerFactory">>) \o Req(<<"StorageManager">>))

register_strategies ==
    Classes({"StrategyRegistry", "StrategyFactory"})
    @@ Bound("StrategyManager", "StrategyExecutionManager",
               Opt(<<"LoggerFactory", "TradingEngine", "MarketDataService">>)
               \o Req(<<"EventBus", "StrategyRegistry", "StrategyFactory">>))

register_trades ==
    Classes({"TradeTracker", "TradeMatcher", "TradeLifecycle", "TradeHistoryService",
             "TradeAnalyticsService", "TradeRegistry"})
    @@ Bound("TradeManager", "DefaultTradeManager",
               Opt(<<"LoggerFactory">>)
               \o Req(<<"EventBus", "TradeRegistry", "TradeTracker", "TradeMatcher",
                        "TradeLifecycle", "TradeHistoryService", "TradeAnalyticsService">>))
    @@ Bound("TradeEngine", "DefaultTradeEngine",
               Opt(<<"LoggerFactory">>)
               \o Req(<<"TradeManager">>)
               \o Opt(<<"PositionEngine", "TradingEngine">>))

register_workers ==
    Classes({"workers.Collector", "workers.Planner", "workers.Dispatcher",
             "WorkerMetricsCalculator", "WorkerRegistry"})
    @@ Bound("WorkerManager", "DefaultWorkerManager",
               Opt(<<"LoggerFactory">>)
               \o Req(<<"EventBus", "WorkerRegistry", "workers.Collector", "workers.Planner",
                        "workers.Dispatcher", "WorkerMetricsCalculator">>))
    @@ Bound("WorkerEngine", "DefaultWorkerEngine",
               Opt(<<"LoggerFactory">>) \o Req(<<"WorkerManager">>))

register_workflows ==
    Classes({"workflows.Collector", "workflows.Planner", "workflows.Dispatcher",
             "WorkflowMetricsCalculator", "WorkflowRegistry"})
    @@ Bound("WorkflowManager", "DefaultWorkflowManager",
               Opt(<<"LoggerFactory">>)
               \o Req(<<"EventBus", "WorkflowRegistry", "workflows.Collector",
                        "workflows.Planner", "workflows.Dispatcher", "WorkflowMetricsCalculator">>))
    @@ Bound("WorkflowEngine", "DefaultWorkflowEngine",
               Opt(<<"LoggerFactory">>) \o Req(<<"WorkflowManager">>))

register_trading_engine ==
    Classes({"LifecycleManager"})
    @@ Bound("Coordinator", "TradingCoordinator",
               Opt(<<"LoggerFactory", "PersistenceService", "ExchangeInterface">>)
               \o Req(<<"EventBus">>))
    @@ Singleton("TradingEngine",
               Opt(<<"LoggerFactory">>) \o Req(<<"Coordinator", "LifecycleManager">>))

register_persistence ==
    Classes({"OrderRepository", "TradeRepository", "PositionRepository"})
    @@ Singleton("PersistenceService",
               Req(<<"OrderRepository", "TradeRepository", "PositionRepository">>))

register_binance_adapter ==
    Classes({"BinanceSigner", "BinanceRequestTranslator", "BinanceResponseParser",
             "BinanceRequestValidator", "HttpTransport", "StreamTransport"})
    @@ Instance("BinanceConfig")
    @@ Singleton("BinanceAuthentication",
               Req(<<"BinanceConfig", "BinanceSigner">>))
    @@ Singleton("BinanceConnection",
               Req(<<"EventBus">>) \o Opt(<<"LoggerFactory">>))
    @@ Singleton("BinanceRESTClient",
               Req(<<"HttpTransport", "BinanceConfig", "BinanceAuthentication", "EventBus">>)
               \o Opt(<<"LoggerFactory">>))
    @@ Singleton("BinanceWebSocketClient",
               Req(<<"StreamTransport", "BinanceConfig", "EventBus">>)
               \o Opt(<<"LoggerFactory">>))
    @@ Singleton("BinanceSpotAdapter",
               Req(<<"BinanceAuthentication", "BinanceConnection", "BinanceRESTClient",
                        "BinanceRequestTranslator", "BinanceRequestValidator",
                        "BinanceResponseParser", "EventBus", "BinanceConfig">>)
               \o Opt(<<"LoggerFactory">>))

register_logging == Instance("LoggerFactory")

-----------------------------------------------------------------------------
(* app/wiring.py.                                                           *)

COMPONENT_REGISTRARS ==
    [agents            |-> register_agents,
     backtesting       |-> register_backtesting,
     dashboard         |-> register_dashboard,
     exchange_adapters |-> register_exchange_adapters,
     execution         |-> register_execution,
     learning          |-> register_learning,
     market_data       |-> register_market_data,
     memory            |-> register_memory,
     model_gateway     |-> register_model_gateway,
     monitoring        |-> register_monitoring,
     notification      |-> register_notification,
     optimization      |-> register_optimization,
     order_management  |-> register_order_management,
     paper_trading     |-> register_paper_trading,
     performance       |-> register_performance,
     portfolio         |-> register_portfolio,
     positions         |-> register_positions,
     reporting         |-> register_reporting,
     risk              |-> register_risk,
     scheduler         |-> register_scheduler,
     storage           |-> register_storage,
     strategies        |-> register_strategies,
     trades            |-> register_trades,
     workers           |-> register_workers,
     workflows         |-> register_workflows]

KNOWN_COMPONENT_IDS == DOMAIN COMPONENT_REGISTRARS

Service(key, type) == [key |-> key, type |-> type]

_COMPONENT_SERVICE ==
    [agents            |-> Service("agents.manager", "DefaultDecisionManager"),
     backtesting       |-> Service("backtesting.manager", "DefaultBacktestManager"),
     dashboard         |-> Service("dashboard.manager", "DefaultDashboardManager"),
     exchange_adapters |-> Service("exchange_adapters.manager", "DefaultExchangeManager"),
     execution         |-> Service("execution.manager", "DefaultExecutionManager"),
     learning          |-> Service("learning.manager", "DefaultLearningManager"),
     market_data       |-> Service("market_data.service", "MarketDataPipelineService"),
     memory            |-> Service("memory.manager", "DefaultMemoryManager"),
     model_gateway     |-> Service("model_gateway.manager", "DefaultModelGatewayManager"),
     monitoring        |-> Service("monitoring.manager", "DefaultMonitoringManager"),
     notification      |-> Service("notification.manager", "DefaultNotificationManager"),
     optimization      |-> Service("optimization.manager", "DefaultOptimizationManager"),
     order_management  |-> Service("order_management.manager", "DefaultOrderManager"),
     paper_trading     |-> Service("paper_trading.manager", "DefaultPaperTradingManager"),
     performance       |-> Service("performance.manager", "DefaultPerformanceManager"),
     portfolio         |-> Service("portfolio.manager", "DefaultPortfolioManager"),
     positions         |-> Service("positions.manager", "DefaultPositionManager"),
     reporting         |-> Service("reporting.manager", "DefaultReportingManager"),
     risk              |-> Service("risk.manager", "RiskEvaluationManager"),
     scheduler         |-> Service("scheduler.manager", "DefaultSchedulerManager"),
     storage           |-> Service("storage.manager", "DefaultStorageManager"),
     strategies        |-> Service("strategies.manager", "StrategyExecutionManager"),
     trades            |-> Service("trades.manager", "DefaultTradeManager"),
     workers           |-> Service("workers.manager", "DefaultWorkerManager"),
     workflows         |-> Service("workflows.manager", "DefaultWorkflowManager")]

SAFE_SERVICE_KEYS ==
    LET pairs == {_COMPONENT_SERVICE[c] : c \in KNOWN_COMPONENT_IDS}
    IN  [k \in {p.key : p \in pairs} |-> (CHOOSE p \in pairs : p.key = k).type]

\* sorted(KNOWN_COMPONENT_IDS): TLC cannot compare strings.
SortedIds ==
    <<"agents", "backtesting", "dashboard", "exchange_adapters", "execution", "learning",
      "market_data", "memory", "model_gateway", "monitoring", "notification", "optimization",
      "order_management", "paper_trading", "performance", "portfolio", "positions", "reporting",
      "risk", "scheduler", "storage", "strategies", "trades", "workers", "workflows">>

ComponentSpec(id, priority, keys) ==
    [component_id |-> id, priority |-> priority, required_service_keys |-> keys]
ComponentDependency(id, on) == [component_id |-> id, depends_on |-> on]
ComponentManifest(components, dependencies) ==
    [components |-> components, dependencies |-> dependencies]

build_default_manifest ==
    ComponentManifest([i \in DOMAIN SortedIds |->
                          ComponentSpec(SortedIds[i], 0, <<_COMPONENT_SERVICE[SortedIds[i]].key>>)],
                      <<>>)

-----------------------------------------------------------------------------
(* What the tables promise each other, whichever manifest selects from them. *)

\* The keys that the registrars provide, and those a provider may resolve.
ComponentKeys ==
    {"EventBus"} \union UNION {DOMAIN COMPONENT_REGISTRARS[id] : id \in KNOWN_COMPONENT_IDS}

NeedsOf(k) ==
    UNION {{n.key : n \in ToSet(COMPONENT_REGISTRARS[id][k].needs)} :
              id \in {c \in KNOWN_COMPONENT_IDS : k \in DOMAIN COMPONENT_REGISTRARS[c]}}

\* Keys that can be built if a chain of dependencies has n members at most.
Depth == 100
Buildable[n \in 0..Depth] ==
    IF n = 0 THEN {}
    ELSE LET before == Buildable[n - 1]
         IN  {k \in ComponentKeys : NeedsOf(k) \cap ComponentKeys \subseteq before}

\* Singletons only; what a provider requires comes from the same registrar, the
\* bus apart.
StandsAlone(registrar) ==
    /\ RegistrarOK(registrar)
    /\ \A k \in DOMAIN registrar :
           /\ registrar[k].lifetime = "singleton" /\ registrar[k].kind # "raises"
           /\ \A i \in DOMAIN registrar[k].needs :
                  \/ registrar[k].needs[i].optional
                  \/ registrar[k].needs[i].key \in DOMAIN registrar \union {"EventBus"}

\* Nobody validates a priority, which is any Decimal.
Priority == Int \union {NaN, SignalingNaN}

ASSUME PriorityAssumption == {NaN, SignalingNaN} \cap Int = {} /\ NaN # SignalingNaN

\* What the types of app/models.py say of a manifest.
ManifestOK(m) ==
    m \in [components : Seq([component_id : STRING, priority : Priority,
                            required_service_keys : Seq(STRING)]),
           dependencies : Seq([component_id : STRING, depends_on : STRING])]

ASSUME TablesAssumption ==
    /\ \A id \in KNOWN_COMPONENT_IDS :
           /\ StandsAlone(COMPONENT_REGISTRARS[id])
           /\ _COMPONENT_SERVICE[id].type \in DOMAIN COMPONENT_REGISTRARS[id]
           /\ _COMPONENT_SERVICE[id].key \in DOMAIN SAFE_SERVICE_KEYS
           /\ SAFE_SERVICE_KEYS[_COMPONENT_SERVICE[id].key] = _COMPONENT_SERVICE[id].type
    /\ SAFE_SERVICE_KEYS \in [DOMAIN SAFE_SERVICE_KEYS -> STRING]
    /\ Buildable[Depth] = ComponentKeys
    /\ ToSet(SortedIds) = KNOWN_COMPONENT_IDS
    /\ ManifestOK(build_default_manifest)

ASSUME ManifestsAssumption == \A m \in Manifests : ManifestOK(m)

-----------------------------------------------------------------------------
(* The models of the package (app/models.py).                                *)

NoResult == [status |-> "none"]
Failed(error) == [status |-> "failed", errors |-> <<error>>]

PreflightEntry(service, resolved) == [service |-> service, resolved |-> resolved]

failed_checks(entries) == Cardinality({i \in DOMAIN entries : ~entries[i].resolved})

RuntimeSnapshot(ids, entries, shown) ==
    [registered_component_ids |-> ids, preflight_report |-> entries,
     configuration |-> shown]

LifecyclePlan(ids) == [start_order |-> ids, stop_order |-> Reverse(ids)]

-----------------------------------------------------------------------------
(* planner.plan: checks, then Kahn's algorithm with a heap of               *)
(* (-priority, component_id).                                                *)

Ids(m) == [i \in DOMAIN m.components |-> m.components[i].component_id]

Rank(id) == CHOOSE i \in DOMAIN SortedIds : SortedIds[i] = id

SpecOf(m, id) == m.components[CHOOSE i \in DOMAIN m.components : Ids(m)[i] = id]

\* Mutant of Ahead: the lowest priority first.
Mutant_LowestFirst(m, c, d) ==
    \/ SpecOf(m, c).priority < SpecOf(m, d).priority
    \/ SpecOf(m, c).priority = SpecOf(m, d).priority /\ Rank(c) < Rank(d)
Ahead(m, c, d) ==
    \/ SpecOf(m, c).priority > SpecOf(m, d).priority
    \/ SpecOf(m, c).priority = SpecOf(m, d).priority /\ Rank(c) < Rank(d)

\* Where the manifest says what a component depends on, more than once perhaps.
Dependencies(m, id) ==
    {i \in DOMAIN m.dependencies : m.dependencies[i].component_id = id}

\* What a component depends on.
Requires(m, id) == {m.dependencies[i].depends_on : i \in Dependencies(m, id)}

\* A heap that cannot be kept: it compares a NaN with whatever waits beside it, and
\* what goes in is negated first.
Incomparable(m, ready) ==
    \E c \in ready : \/ SpecOf(m, c).priority = SignalingNaN
                     \/ SpecOf(m, c).priority = NaN /\ ready # {c}

\* The first component of the queue leaves it, and one less dependency is open
\* for each edge to it; a queue that raised stays as it is.
Pop(m, s) ==
    LET ids == ToSet(Ids(m))
        next == CHOOSE c \in s.ready : \A d \in s.ready \ {c} : Ahead(m, c, d)
        Edges(id) == {i \in Dependencies(m, id) : m.dependencies[i].depends_on = next}
        degree == [id \in ids |-> s.degree[id] - Cardinality(Edges(id))]
    IN  IF s.ready = {} \/ Incomparable(m, s.ready) THEN s
        ELSE [order |-> Append(s.order, next),
              degree |-> degree,
              ready |-> (s.ready \ {next}) \union
                        {id \in ids : degree[id] = 0 /\ s.degree[id] > 0}]

\* The order, the open dependencies and the queue after each component.
OrderingStates(m) ==
    LET ids == ToSet(Ids(m))
        degrees == [id \in ids |-> Cardinality(Dependencies(m, id))]
        state[n \in 0..Cardinality(ids)] ==
            IF n = 0 THEN [order |-> <<>>, degree |-> degrees,
                           ready |-> {id \in ids : degrees[id] = 0}]
            ELSE Pop(m, state[n - 1])
    IN  state

\* The order of the components, those of a cycle left out, and what comes after a
\* comparison that raised.
TopologicalOrder(m) == OrderingStates(m)[Cardinality(ToSet(Ids(m)))].order

\* What _plan refuses before it orders anything.
Malformed(m) ==
    \/ ~(ToSet(Ids(m)) \subseteq KNOWN_COMPONENT_IDS)
    \/ Cardinality(ToSet(Ids(m))) # Len(Ids(m))
    \/ \E d \in ToSet(m.dependencies) :
           ~({d.component_id, d.depends_on} \subseteq ToSet(Ids(m)))
    \/ \E d \in ToSet(m.dependencies) : d.component_id = d.depends_on

\* deps_by_component, sorted: the n-th is the first that makes n with those before
\* it.
SortedDependencies(m, id) ==
    LET on(i) == m.dependencies[i].depends_on
        UpTo(c) == Cardinality({i \in Dependencies(m, id) : Rank(on(i)) <= Rank(c)})
    IN  [n \in 1..Cardinality(Dependencies(m, id)) |->
            CHOOSE c \in Requires(m, id) :
                /\ n <= UpTo(c)
                /\ \A d \in Requires(m, id) : n <= UpTo(d) => Rank(c) <= Rank(d)]

BootstrapPlanEntry(m, position, id) ==
    [position |-> position, component_id |-> id, priority |-> SpecOf(m, id).priority,
     required_service_keys |-> SpecOf(m, id).required_service_keys,
     dependencies |-> SortedDependencies(m, id)]

-----------------------------------------------------------------------------
(* run_dry_run_bootstrap.                                                    *)

Fresh(first, m) ==
    /\ ContainerInit
    /\ manifest = m
    /\ phase = first
    /\ plan = <<>>
    /\ registered = <<>>
    /\ report = <<>>
    /\ result = NoResult
    /\ view = build_configuration_view(Settings(<<>>))

NoProcess ==
    /\ environ = <<>> /\ cached = NotCached /\ assigned = 0
    /\ status = "none"

\* A caller with a manifest and the default configuration view.
BootstrapInit == (\E m \in Manifests : Fresh("plan", m)) /\ NoProcess

\* A program that has a container to itself.
HostInit == Fresh("host", ComponentManifest(<<>>, <<>>)) /\ NoProcess

\* A process that will call main().
ProcessInit ==
    /\ Fresh("process", ComponentManifest(<<>>, <<>>))
    /\ ConfigurationInit
    /\ status = "starting"

End(outcome) ==
    /\ phase' = "done"
    /\ result' = outcome

Plan ==
    /\ phase = "plan"
    /\ IF \/ Malformed(manifest)
          \/ Len(TopologicalOrder(manifest)) # Len(manifest.components)
       THEN End(Failed("component graph validation failed")) /\ UNCHANGED plan
       ELSE /\ plan' = [i \in DOMAIN manifest.components |->
                            BootstrapPlanEntry(manifest, i - 1, TopologicalOrder(manifest)[i])]
            /\ phase' = "validate"
            /\ UNCHANGED result
    /\ UNCHANGED <<container, manifest, registered, report>>

validate_service_keys ==
    /\ phase = "validate"
    /\ IF \E i \in DOMAIN plan : \E k \in ToSet(plan[i].required_service_keys) :
              k \notin DOMAIN SAFE_SERVICE_KEYS
       THEN End(Failed("service key validation failed"))
       ELSE phase' = "create" /\ UNCHANGED result
    /\ UNCHANGED <<container, manifest, plan, registered, report>>

\* The caller's factory makes a container or raises.
container_factory ==
    /\ phase = "create"
    /\ \/ phase' = "register" /\ UNCHANGED result
       \/ End(Failed("container factory failed to produce a candidate container"))
    /\ UNCHANGED <<container, manifest, plan, registered, report>>

Register ==
    /\ phase = "register"
    /\ IF Len(registered) < Len(plan)
       THEN LET id == plan[Len(registered) + 1].component_id
            IN  /\ register(WithBus(COMPONENT_REGISTRARS[id]))
                /\ registered' = Append(registered, id)
                /\ UNCHANGED <<phase, wanted>>
       ELSE /\ phase' = "preflight"
            /\ wanted' = FlattenSeq([i \in DOMAIN plan |->
                             [j \in DOMAIN plan[i].required_service_keys |->
                                 SAFE_SERVICE_KEYS[plan[i].required_service_keys[j]]]])
            /\ UNCHANGED <<registrations, singletons, made, registered>>
    /\ UNCHANGED <<resolving, stack, answer, programs, manifest, plan, report, result>>

\* A container of the caller's may refuse a registration.
RegistrarRaises ==
    /\ phase = "register"
    /\ Len(registered) < Len(plan)
    /\ End(Failed("component registration failed"))
    /\ UNCHANGED <<container, manifest, plan, registered, report>>

Resolving ==
    /\ phase = "preflight"
    /\ ResolveStep
    /\ UNCHANGED bootstrap

\* Mutant of CheckService: a failed resolution counts as resolved.
Mutant_ReportAllResolved ==
    /\ phase = "preflight"
    /\ stack = <<>>
    /\ answer # NoAnswer
    /\ report' = Append(report, PreflightEntry(Head(wanted), TRUE))
    /\ wanted' = Tail(wanted)
    /\ answer' = NoAnswer
    /\ UNCHANGED <<registrations, singletons, resolving, stack, made, programs>>
    /\ UNCHANGED <<manifest, phase, plan, registered, result>>
\* One resolution recorded, failed or not.
CheckService ==
    /\ phase = "preflight"
    /\ stack = <<>>
    /\ answer # NoAnswer
    /\ report' = Append(report, PreflightEntry(Head(wanted), answer.kind = "value"))
    /\ wanted' = Tail(wanted)
    /\ answer' = NoAnswer
    /\ UNCHANGED <<registrations, singletons, resolving, stack, made, programs>>
    /\ UNCHANGED <<manifest, phase, plan, registered, result>>

Complete ==
    /\ phase = "preflight"
    /\ Idle
    /\ wanted = <<>>
    /\ End(IF failed_checks(report) > 0
           THEN Failed("preflight resolution checks failed")
           ELSE [status |-> "success", plan |-> plan, preflight_report |-> report,
                 runtime_snapshot |-> RuntimeSnapshot(registered, report, view),
                 lifecycle_plan |-> LifecyclePlan(registered)])
    /\ UNCHANGED <<container, manifest, plan, registered, report>>

BootstrapNext ==
    /\ \/ Plan
       \/ validate_service_keys
       \/ container_factory
       \/ Register
       \/ RegistrarRaises
       \/ Resolving
       \/ CheckService
       \/ Complete
    /\ UNCHANGED entry

Host ==
    /\ phase = "host"
    /\ ContainerNext
    /\ UNCHANGED <<bootstrap, entry>>

-----------------------------------------------------------------------------
(* The process around main().                                                *)

Configure ==
    /\ phase = "process"
    /\ \/ \E a \in Assignments : Assign(a)
       \/ get_settings
       \/ reload_settings
    /\ UNCHANGED <<container, bootstrap, view, status>>

\* Settings that do not validate, or a view that is refused, end main() with 1.
main ==
    /\ phase = "process"
    /\ get_settings
    /\ IF cached' = NotCached \/ ~_safe(ConfigurationView)
       THEN /\ phase' = "done"
            /\ status' = "failure"
            /\ UNCHANGED <<manifest, view>>
       ELSE /\ phase' = "plan"
            /\ status' = "running"
            /\ manifest' = build_default_manifest
            /\ view' = build_configuration_view(cached')
    /\ UNCHANGED <<container, plan, registered, report, result>>

Exit ==
    /\ phase = "done"
    /\ status = "running"
    /\ status' = IF result.status = "success" THEN "success" ELSE "failure"
    /\ UNCHANGED <<container, bootstrap, configuration, view>>

Init == BootstrapInit \/ HostInit \/ ProcessInit

Next == BootstrapNext \/ Host \/ Configure \/ main \/ Exit

vars == <<container, bootstrap, entry>>

Spec == Init /\ [][Next]_vars

-----------------------------------------------------------------------------
(* Properties.                                                               *)

\* Components that a chain of dependencies leads from id to.
Upstream(id) ==
    LET n == Len(manifest.components)
        level[i \in 0..n] ==
            IF i = 0 THEN Requires(manifest, id)
            ELSE LET before == level[i - 1]
                 IN  before \union UNION {Requires(manifest, c) : c \in before}
    IN  level[n]

Cyclic == \E id \in ToSet(Ids(manifest)) : id \in Upstream(id)

Numeric(c) == c.priority \notin {NaN, SignalingNaN}

\* A component whose priority is not a number and that the dependencies do not
\* order against every other.
Unordered ==
    \E c, d \in ToSet(Ids(manifest)) :
        /\ c # d /\ ~Numeric(SpecOf(manifest, c))
        /\ c \notin Upstream(d) /\ d \notin Upstream(c)

Signals == \E id \in ToSet(Ids(manifest)) : SpecOf(manifest, id).priority = SignalingNaN

\* A malformed or a cyclic manifest is refused, and so is one with a signaling NaN
\* for a priority; any other is refused only for a NaN that the dependencies
\* leave unordered.  A plan lists each component once, after what it depends on, and
\* as early as its priority earns: nothing that comes before it ranks lower,
\* and no NaN was compared with it, unless what it waits for was not registered yet.
PlansAreRight ==
    phase \notin {"plan", "host", "process"} =>
        LET refused == result = Failed("component graph validation failed")
            broken == Malformed(manifest) \/ Cyclic \/ Signals
            Competes(c, d) ==
                \/ ~Numeric(c) \/ ~Numeric(d)
                \/ c.priority > d.priority
                \/ c.priority = d.priority /\ Rank(c.component_id) < Rank(d.component_id)
        IN  /\ broken => refused
            /\ refused => broken \/ Unordered
            /\ plan # <<>> => ToSet(Ids(manifest)) = {plan[i].component_id : i \in DOMAIN plan}
            /\ \A i, j \in DOMAIN plan : i < j =>
                   /\ plan[j].component_id \notin ToSet(plan[i].dependencies)
                   /\ Competes(plan[j], plan[i]) =>
                          \E k \in i..(j - 1) :
                              plan[k].component_id \in ToSet(plan[j].dependencies)

\* The services a manifest asks for belong to components that it lists.
SelfContained(m) ==
    \A i \in DOMAIN m.components : \A k \in ToSet(m.components[i].required_service_keys) :
        \E j \in DOMAIN m.components : k = _COMPONENT_SERVICE[Ids(m)[j]].key

\* A successful run has built every service that the manifest asks for; and no
\* registrar requires another component: a manifest that asks only for its own
\* components' services starts, whichever they are and in whatever order they
\* are registered, once they are.
ComponentsStandAlone ==
    /\ result.status = "success" =>
           \A i \in DOMAIN plan : \A k \in ToSet(plan[i].required_service_keys) :
               SAFE_SERVICE_KEYS[k] \in DOMAIN singletons
    /\ (phase = "done" /\ plan # <<>> /\ Len(registered) = Len(plan) /\ SelfContained(manifest)) =>
           result.status = "success"

\* The keys among the first n needs that are registered, in order; for all n.
FoundAmong(needs) ==
    LET found[n \in 0..Len(needs)] ==
            IF n = 0 THEN <<>>
            ELSE IF needs[n].key \in DOMAIN registrations
                 THEN Append(found[n - 1], needs[n].key) ELSE found[n - 1]
    IN  found

Found(needs) == FoundAmong(needs)[Len(needs)]

\* What a finished object was given for each of its dependencies: all
\* that are registered, the optional ones included, each the one instance the
\* container has.  So all components publish on the same bus, and whether one
\* finds another does not depend on the order of the manifest.
FullyInjected(object) ==
    LET found == Found(object.provider.needs)
    IN  /\ ToSet(found) \subseteq DOMAIN singletons
        /\ object.got = [i \in DOMAIN found |-> singletons[found[i]]]

SharedAndComplete == phase = "done" => \A i \in DOMAIN made : FullyInjected(made[i])

\* However the environment, the files and the calls follow one another, settings
\* that are handed out trade live only in production, with credentials and not on
\* the testnet, and are production settings only without debugging and with a
\* secret of their own, where production is what Settings.environment says: it is read
\* from APP_ENVIRONMENT, whatever APP_ENV says (SettingsFollowAppEnv); main() succeeds only with such settings; and what its
\* snapshot shows of them are their values, and no secret.
ConfigurationIsGuarded ==
    /\ cached # NotCached =>
           /\ cached.trading.mode = "live" =>
                  /\ cached.environment = "production"
                  /\ cached.binance.api_key > 0 /\ cached.binance.api_secret > 0
                  /\ ~cached.binance.testnet
           /\ cached.environment = "production" =>
                  ~cached.application.debug /\ ~cached.security.secret_key.placeholder
    /\ status = "success" =>
           LET shown == result.runtime_snapshot.configuration
           IN  /\ cached # NotCached
               /\ \A path \in DOMAIN shown :
                      /\ ~_is_sensitive_field_name(path[2])
                      /\ path[1] # "settings" => shown[path] = cached[path[1]][path[2]]

\* What the docstring of Settings says (config/settings.py:391): the environment of
\* settings that are built is the one APP_ENV names, where it is set.  The field has
\* the prefix APP_ and reads APP_ENVIRONMENT.
SettingsFollowAppEnv ==
    [][LET app == Variable(environ', <<"APP", "env">>)
       IN  cached' \notin {cached, NotCached} /\ app # "" =>
               cached'.environment = from_str(app)]_vars

-----------------------------------------------------------------------------
(* The inputs of the run: manifests, container programs and environments.    *)

Own(id, priority) == ComponentSpec(id, priority, <<_COMPONENT_SERVICE[id].key>>)
Owns(ids) == [i \in DOMAIN ids |-> Own(ids[i], 0)]

\* The components a backtest or a paper session uses, users before providers.
Spine == <<"paper_trading", "performance", "trades", "positions", "portfolio",
           "exchange_adapters", "execution", "order_management", "risk", "strategies",
           "market_data">>

\* Dependency lists: a repeated edge, a cycle, a self-dependency, an unlisted one.
Edges == {<<ComponentDependency("memory", "risk"), ComponentDependency("memory", "risk"),
            ComponentDependency("trades", "agents")>>,
          <<ComponentDependency("memory", "risk"), ComponentDependency("risk", "agents"),
            ComponentDependency("agents", "memory")>>,
          <<ComponentDependency("agents", "agents")>>,
          <<ComponentDependency("agents", "storage")>>}

\* Priorities that are not numbers: beside another, after all others, before them,
\* and after one that a greater priority takes out of its way.
Unnumbered ==
    LET After(id, on) == ComponentDependency(id, on)
    IN  {ComponentManifest(<<Own("risk", NaN), Own("memory", 0)>>, <<>>),
         ComponentManifest(<<Own("memory", 2), Own("agents", 0), Own("risk", NaN)>>,
                           <<After("risk", "agents")>>),
         ComponentManifest(<<Own("memory", 0), Own("agents", 2), Own("risk", NaN)>>,
                           <<After("risk", "agents")>>),
         ComponentManifest(<<Own("risk", NaN), Own("memory", NaN), Own("agents", 1)>>,
                           <<After("memory", "risk"), After("agents", "memory")>>),
         ComponentManifest(<<Own("risk", SignalingNaN)>>, <<>>)}

SomeManifests ==
    {build_default_manifest,
     ComponentManifest(Owns(Reverse(SortedIds)), <<>>),
     ComponentManifest(<<>>, <<>>),
     ComponentManifest(<<Own("risk", 0), Own("risk", 1)>>, <<>>),
     ComponentManifest(<<ComponentSpec("unknown", 0, <<>>)>>, <<>>),
     ComponentManifest(<<ComponentSpec("risk", 0, <<"risk.secrets">>)>>, <<>>),
     ComponentManifest(<<ComponentSpec("risk", 0, <<"memory.manager", "risk.manager">>)>>, <<>>)}
    \union Unnumbered
    \union {ComponentManifest(Owns(<<id>>), <<>>) : id \in KNOWN_COMPONENT_IDS}
    \union {ComponentManifest(Owns(RemoveAt(Spine, i)), <<>>) : i \in DOMAIN Spine}
    \union {ComponentManifest(<<Own("risk", 0), Own("memory", 2), Own("agents", 1),
                                Own("trades", 2)>>, deps) : deps \in Edges}

\* A program that registers, resolves and goes on after an exception.
Program(registrar, bus, onlyIf, resolves) ==
    [registrar |-> registrar, bus |-> bus, onlyIf |-> onlyIf, resolves |-> resolves]

Provider(kind, needs, lifetime) == [kind |-> kind, needs |-> needs, lifetime |-> lifetime]

SomePrograms ==
    {Program(register_logging, FALSE, {}, <<"LoggerFactory">>),
     Program(register_persistence, FALSE, {}, <<"PersistenceService">>),
     Program(register_trading_engine, TRUE, {}, <<"TradingEngine">>),
     Program(register_exchange_adapters, TRUE, {}, <<>>),
     Program(register_binance_adapter, TRUE, {"ExchangeRegistry"},
             <<"ExchangeRegistry", "BinanceSpotAdapter">>),
     \* A cycle, and a provider of it that raises only in one of its versions.
     Program("A" :> Provider("build", Req(<<"B">>), "singleton")
             @@ "B" :> Provider("build", Req(<<"A">>), "singleton"), FALSE, {}, <<"A">>),
     Program("B" :> Provider("raises", <<>>, "singleton"), FALSE, {"A"}, <<"A">>),
     Program("B" :> Provider("build", Opt(<<"LoggerFactory">>), "singleton"), FALSE, {},
             <<"B", "B">>),
     Program("A" :> Provider("build", Req(<<"B">>), "transient"), FALSE, {"B"}, <<"A", "A">>),
     Program("A" :> Provider("instance", <<>>, "singleton"), FALSE, {}, <<"A", "B">>)}

\* Credentials and the secret of a deployment, without the mode.
Deployment ==
    <<"BINANCE", "api_key">> :> 64 @@ <<"BINANCE", "api_secret">> :> 64
    @@ <<"BINANCE", "testnet">> :> FALSE
    @@ <<"SECURITY", "secret_key">> :> [length |-> 64, placeholder |-> FALSE]

SomeEnvirons ==
    {<<>>,
     <<"APP", "environment">> :> "production" @@ <<"APP", "env">> :> "prod" @@ Deployment,
     <<"APP", "env">> :> "staging",
     <<"", "environment">> :> "paper"}

SomeBaseFile == <<"APP", "debug">> :> TRUE @@ <<"RISK", "max_daily_drawdown_pct">> :> 2000

SomeSpecificFiles ==
    [production |-> <<"APP", "debug">> :> FALSE @@ <<"TRADING", "mode">> :> "live",
     paper |-> <<"APP", "environment">> :> "paper"]

\* Where there are no files for the environments: one sets APP_ENV alone, as
\* .env.example does; one trades live while APP_ENV says it is testing.
AppEnvirons ==
    {<<"APP", "env">> :> "production",
     <<"APP", "env">> :> "testing" @@ <<"APP", "environment">> :> "production"
     @@ <<"APP", "debug">> :> FALSE @@ <<"TRADING", "mode">> :> "live" @@ Deployment}

NoFiles == <<>>

SomeAssignments ==
    {<<"APP", "env">> :> "production",
     <<"APP", "environment">> :> "production",
     <<"TRADING", "mode">> :> "simulation",
     <<"BINANCE", "api_key">> :> 8,
     <<"RISK", "max_total_drawdown_pct">> :> 1000}
=============================================================================
