---------------------------- MODULE Configuration ----------------------------
(***************************************************************************)
(* The settings of a process (config/): dotenv files are loaded into         *)
(* os.environ for the active environment, the sections of Settings are read  *)
(* from it and validated together, and get_settings() caches the result.     *)
(*                                                                         *)
(* An environment variable is named by its prefix and its field, so APP_ENV  *)
(* is <<"APP", "env">>.  A credential stands for its length after strip(), a *)
(* URL is a scheme and whether it has a host, and fractions and money count  *)
(* in ten-thousandths.  List-valued fields keep their defaults.              *)
(***************************************************************************)
EXTENDS Integers, Sequences, TLC

CONSTANTS
    Environs,       \* what os.environ may be when the process starts
    BaseFile,       \* the variables of .env
    SpecificFiles,  \* those of .env.<environment>, for the files that exist
    Assignments,    \* the variables that the process may set in os.environ at once
    MaxAssignments  \* bound: number of them

VARIABLES
    environ,      \* os.environ
    cached,       \* the lru_cache of get_settings()
    assigned      \* assignments so far

configuration == <<environ, cached, assigned>>

NotCached == [environment |-> "none"]

-----------------------------------------------------------------------------
(* config/environment.py.                                                    *)

Environment == {"development", "testing", "paper", "production"}

aliases ==
    [dev |-> "development", develop |-> "development", test |-> "testing",
     prod |-> "production"]

\* What is no member of Environment then is refused with a ValueError.
from_str(value) == IF value \in DOMAIN aliases THEN aliases[value] ELSE value

Variable(env, name) == IF name \in DOMAIN env THEN env[name] ELSE ""

active_environment(env) ==
    LET app == Variable(env, <<"APP", "env">>)
        other == Variable(env, <<"", "environment">>)
    IN  IF app # "" THEN from_str(app)
        ELSE IF other # "" THEN from_str(other) ELSE "development"

load_dotenv(env, file, override) ==
    [v \in DOMAIN env \union DOMAIN file |->
        IF v \in DOMAIN file /\ (override \/ v \notin DOMAIN env) THEN file[v] ELSE env[v]]

\* The base file gives way to os.environ, the file of the active environment does
\* not; for an unknown environment the base file is loaded and the call raises.
load_environment(env) ==
    LET base == load_dotenv(env, BaseFile, FALSE)
        active == active_environment(base)
    IN  IF active \in DOMAIN SpecificFiles
        THEN load_dotenv(base, SpecificFiles[active], TRUE) ELSE base

-----------------------------------------------------------------------------
(* config/validators.py.                                                     *)

MIN_API_KEY_LENGTH == 16
MIN_SECRET_LENGTH == 32
INSECURE_SECRET_KEY == [length |-> 37, placeholder |-> TRUE]

Whole == 10000

validate_port(value) == value \in 1..65535
validate_url(url, schemes) == url.scheme \in schemes /\ (url.scheme = "sqlite" \/ url.host)
validate_api_key(length, required) ==
    IF length = 0 THEN ~required ELSE length >= MIN_API_KEY_LENGTH
validate_secret(secret) == secret.length >= MIN_SECRET_LENGTH
validate_fraction(value) == 0 < value /\ value <= Whole
validate_non_negative(value) == value >= 0

\* What a credential and a secret of the environment stand for: only the
\* placeholder's own value is the placeholder.
VariablesOK(env) ==
    /\ \A f \in {"api_key", "api_secret"} :
           <<"BINANCE", f>> \in DOMAIN env => env[<<"BINANCE", f>>] \in Nat
    /\ <<"SECURITY", "secret_key">> \in DOMAIN env =>
           LET secret == env[<<"SECURITY", "secret_key">>]
           IN  /\ secret \in [length : Nat, placeholder : BOOLEAN]
               /\ secret.placeholder => secret = INSECURE_SECRET_KEY

ASSUME VariablesAssumption ==
    /\ \A env \in Environs \union {BaseFile} \union Assignments : VariablesOK(env)
    /\ \A e \in DOMAIN SpecificFiles : VariablesOK(SpecificFiles[e])

-----------------------------------------------------------------------------
(* The sections: a variable <<prefix, field>>, where it is set, else the      *)
(* default; and what their validators accept.                                *)

Section(env, prefix, defaults) ==
    [f \in DOMAIN defaults |->
        IF <<prefix, f>> \in DOMAIN env THEN env[<<prefix, f>>] ELSE defaults[f]]

Url(scheme) == [scheme |-> scheme, host |-> TRUE]

ApplicationSettings(env) ==
    Section(env, "APP", [name |-> "binance-ai-hedge-fund-os", version |-> "0.1.0",
                         debug |-> TRUE, timezone |-> "UTC"])

BinanceSettings(env) ==
    Section(env, "BINANCE", [api_key |-> 0, api_secret |-> 0, testnet |-> TRUE,
                             base_url |-> Url("https"), ws_url |-> Url("wss"),
                             recv_window_ms |-> 5000])
BinanceValid(s) ==
    /\ validate_api_key(s.api_key, FALSE) /\ validate_api_key(s.api_secret, FALSE)
    /\ validate_url(s.base_url, {"http", "https"}) /\ validate_url(s.ws_url, {"ws", "wss"})
    /\ s.recv_window_ms \in 100..60000

DatabaseSettings(env) ==
    Section(env, "DATABASE", [url |-> Url("postgresql"), pool_size |-> 5,
                              max_overflow |-> 10, echo |-> FALSE])
DatabaseValid(s) ==
    /\ validate_url(s.url, {"postgresql", "postgresql+asyncpg", "postgresql+psycopg", "sqlite"})
    /\ s.pool_size \in 1..100 /\ s.max_overflow \in 0..100

RedisSettings(env) ==
    Section(env, "REDIS", [url |-> Url("redis"), max_connections |-> 10])
RedisValid(s) ==
    validate_url(s.url, {"redis", "rediss"}) /\ s.max_connections \in 1..1000

LoggingSettings(env) ==
    Section(env, "LOG", [level |-> "INFO", format |-> "json", file_path |-> "none"])
LoggingValid(s) ==
    /\ s.level \in {"DEBUG", "INFO", "WARNING", "ERROR", "CRITICAL"}
    /\ s.format \in {"json", "text"}

DashboardSettings(env) ==
    Section(env, "DASHBOARD", [enabled |-> TRUE, host |-> "0.0.0.0", port |-> 8501])

AIProviderSettings(env) ==
    Section(env, "AI", [provider |-> "anthropic", anthropic_api_key |-> 0,
                        openai_api_key |-> 0, model |-> "claude-opus-4-8",
                        request_timeout_s |-> 60, max_retries |-> 3])
AIProviderValid(s) ==
    /\ s.provider \in {"anthropic", "openai", "local"}
    /\ validate_api_key(s.anthropic_api_key, FALSE) /\ validate_api_key(s.openai_api_key, FALSE)
    /\ s.request_timeout_s \in 1..600 /\ s.max_retries \in 0..10

RiskSettings(env) ==
    Section(env, "RISK", [max_position_size_pct |-> 1000, risk_per_trade_pct |-> 100,
                          max_daily_drawdown_pct |-> 500, max_total_drawdown_pct |-> 2000,
                          stop_loss_pct |-> 200, take_profit_pct |-> 400,
                          max_leverage |-> Whole, max_open_positions |-> 5])
RiskValid(s) ==
    /\ \A f \in {"max_position_size_pct", "risk_per_trade_pct", "max_daily_drawdown_pct",
                 "max_total_drawdown_pct", "stop_loss_pct", "take_profit_pct"} :
           validate_fraction(s[f])
    /\ s.max_leverage >= Whole
    /\ s.max_open_positions \in 1..1000
    /\ s.max_daily_drawdown_pct <= s.max_total_drawdown_pct

TradingSettings(env) ==
    Section(env, "TRADING", [mode |-> "paper", base_currency |-> "USDT",
                             symbols |-> <<"BTCUSDT">>, default_order_type |-> "market",
                             max_order_notional |-> 1000 * Whole])
TradingValid(s) ==
    /\ s.mode \in {"paper", "simulation", "backtest", "live"}
    /\ s.default_order_type \in {"market", "limit"}
    /\ s.max_order_notional > 0

BacktestingSettings(env) ==
    Section(env, "BACKTEST", [initial_balance |-> 100000 * Whole, commission_pct |-> 10,
                              slippage_pct |-> 5, data_dir |-> "data/backtests"])
BacktestingValid(s) ==
    /\ s.initial_balance > 0
    /\ validate_non_negative(s.commission_pct) /\ validate_non_negative(s.slippage_pct)

SimulationSettings(env) ==
    Section(env, "SIMULATION", [initial_balance |-> 100000 * Whole, latency_ms |-> 50,
                                fill_ratio |-> Whole, commission_pct |-> 10,
                                slippage_pct |-> 5, random_seed |-> "none"])
SimulationValid(s) ==
    /\ s.initial_balance > 0 /\ s.latency_ms \in 0..60000
    /\ validate_fraction(s.fill_ratio)
    /\ validate_non_negative(s.commission_pct) /\ validate_non_negative(s.slippage_pct)

MonitoringSettings(env) ==
    Section(env, "MONITORING", [enabled |-> TRUE, metrics_port |-> 9090,
                                sentry_dsn |-> "none", healthcheck_interval_s |-> 30])
MonitoringValid(s) == validate_port(s.metrics_port) /\ s.healthcheck_interval_s \in 1..3600

SecuritySettings(env) ==
    Section(env, "SECURITY", [secret_key |-> INSECURE_SECRET_KEY, api_token |-> "none",
                              allowed_hosts |-> <<"localhost", "127.0.0.1">>])

-----------------------------------------------------------------------------
(* The master object.                                                        *)

\* With its prefix APP_ the field environment is read from APP_ENVIRONMENT, while
\* load_environment() goes by APP_ENV.
Settings(env) ==
    [environment |-> Section(env, "APP", [environment |-> "development"]).environment,
     application |-> ApplicationSettings(env), binance |-> BinanceSettings(env),
     database |-> DatabaseSettings(env), redis |-> RedisSettings(env),
     logging |-> LoggingSettings(env), dashboard |-> DashboardSettings(env),
     ai |-> AIProviderSettings(env), risk |-> RiskSettings(env),
     trading |-> TradingSettings(env), backtesting |-> BacktestingSettings(env),
     simulation |-> SimulationSettings(env), monitoring |-> MonitoringSettings(env),
     security |-> SecuritySettings(env)]

\* Mutant of _validate_environment: only a live mode is checked, not production.
Mutant_LiveOnly(s) ==
    /\ s.trading.mode = "live" => s.environment = "production"
    /\ s.environment = "paper" => s.trading.mode = "paper"
    /\ s.trading.mode = "live" =>
           /\ validate_api_key(s.binance.api_key, TRUE)
           /\ validate_api_key(s.binance.api_secret, TRUE)
           /\ ~s.binance.testnet
_validate_environment(s) ==
    /\ s.trading.mode = "live" => s.environment = "production"
    /\ s.environment = "paper" => s.trading.mode = "paper"
    /\ s.trading.mode = "live" =>
           /\ validate_api_key(s.binance.api_key, TRUE)
           /\ validate_api_key(s.binance.api_secret, TRUE)
           /\ ~s.binance.testnet
    /\ s.environment = "production" =>
           /\ validate_secret(s.security.secret_key)
           /\ s.security.secret_key # INSECURE_SECRET_KEY
           /\ ~s.application.debug

Valid(s) ==
    /\ s.environment \in Environment
    /\ BinanceValid(s.binance) /\ DatabaseValid(s.database) /\ RedisValid(s.redis)
    /\ LoggingValid(s.logging) /\ validate_port(s.dashboard.port) /\ AIProviderValid(s.ai)
    /\ RiskValid(s.risk) /\ TradingValid(s.trading) /\ BacktestingValid(s.backtesting)
    /\ SimulationValid(s.simulation) /\ MonitoringValid(s.monitoring)
    /\ _validate_environment(s)

-----------------------------------------------------------------------------
(* The accessors.                                                            *)

ConfigurationInit ==
    /\ environ \in Environs
    /\ cached = NotCached
    /\ assigned = 0

Assign(values) ==
    /\ assigned < MaxAssignments
    /\ assigned' = assigned + 1
    /\ environ' = load_dotenv(environ, values, TRUE)
    /\ UNCHANGED cached

\* The settings are built anew: an exception leaves the cache empty, and what was
\* loaded into os.environ stays there.
Build ==
    /\ environ' = load_environment(environ)
    /\ LET loaded == active_environment(load_dotenv(environ, BaseFile, FALSE)) \in Environment
       IN  cached' = IF loaded /\ Valid(Settings(environ')) THEN Settings(environ') ELSE NotCached
    /\ UNCHANGED assigned

get_settings == IF cached # NotCached THEN UNCHANGED configuration ELSE Build

reload_settings == Build

-----------------------------------------------------------------------------
(* The view of the settings that leaves the configuration layer              *)
(* (app/wiring.py).                                                          *)

\* The field names that contain "key", "secret", "token", "credential",
\* "password", "url" or "dsn".
_is_sensitive_field_name(name) ==
    name \in {"api_key", "api_secret", "base_url", "ws_url", "url", "anthropic_api_key",
              "openai_api_key", "sentry_dsn", "secret_key", "api_token"}

Fields(section, names) == {<<section, name>> : name \in names}

ConfigurationView ==
    Fields("application", {"name", "version", "debug", "timezone"})
    \union Fields("trading", {"mode", "base_currency", "symbols"})
    \union Fields("dashboard", {"enabled", "host", "port"})
    \union Fields("monitoring", {"enabled", "metrics_port"})
    \union Fields("logging", {"level", "format"})
    \union Fields("risk", {"max_position_size_pct", "risk_per_trade_pct",
                           "max_daily_drawdown_pct", "max_total_drawdown_pct", "stop_loss_pct",
                           "take_profit_pct", "max_leverage", "max_open_positions"})
    \union Fields("backtesting", {"initial_balance", "commission_pct", "slippage_pct"})
    \union Fields("simulation", {"initial_balance", "latency_ms", "fill_ratio",
                                 "commission_pct", "slippage_pct", "random_seed"})
    \union Fields("binance", {"testnet"})

\* _safe() refuses a sensitive name, which fails the whole view.
_safe(fields) == \A path \in fields : ~_is_sensitive_field_name(path[2])

build_configuration_view(s) ==
    [path \in ConfigurationView \union {<<"settings", "environment">>} |->
        IF path = <<"settings", "environment">> THEN s.environment ELSE s[path[1]][path[2]]]
=============================================================================
