----------------------------- MODULE MarketData -----------------------------
(***************************************************************************)
(* The market-data pipeline (src/market_data): a provider pushes raw       *)
(* payloads to MarketDataPipelineService._on_raw, which announces them,    *)
(* normalises them, merges them into the snapshot cached for their key and *)
(* publishes what changed.  _on_raw runs once per payload and is suspended *)
(* while the bus delivers MarketDataReceived: up to that point payloads    *)
(* overtake each other, from there to the publication of the market event  *)
(* nothing is awaited.                                                     *)
(***************************************************************************)
EXTENDS Naturals, Sequences, SequencesExt

CONSTANTS
    Payloads,     \* raw payloads: [mapping, kind, symbol, timeframe, price,
                  \* is_closed, absent, invalid, unrepresentable]
    None,         \* Python's None
    MaxPayloads   \* bound: payloads pushed in a behaviour

VARIABLES
    _connected,   \* BaseMarketDataProvider._connected
    announced,    \* lifecycle events of the provider, in publication order
    pending,      \* payloads whose _on_raw is suspended in its first publish
    _store,       \* InMemoryMarketDataCache._store
    published,    \* market events published since the cache was last cleared
    escaped,      \* exceptions _on_raw let through to the provider
    pushed        \* payloads pushed so far

market == <<_connected, announced, pending, _store, published, escaped, pushed>>

-----------------------------------------------------------------------------
(* Normalisation *)

\* The fields each converter requires before it reads any of them.
_to_tick == {"exchange", "symbol", "price", "timestamp"}
_to_trade == _to_tick \cup {"quantity", "side"}
_to_ohlcv == {"exchange", "symbol", "timeframe", "open", "high", "low", "close",
              "volume", "open_time", "close_time"}
_to_order_book == {"exchange", "symbol", "bids", "asks", "timestamp"}

_converters == [tick |-> _to_tick, trade |-> _to_trade, ohlcv |-> _to_ohlcv,
                order_book |-> _to_order_book]

_require(raw, fields) == raw.absent \cap fields = {}

\* Text that is no decimal, no side or no ISO time is reported as malformed.
_dec(raw, fields) == raw.invalid \cap fields = {}

\* A number datetime.fromtimestamp cannot represent raises its own error, which
\* the converters do not translate.
_dt(raw, fields) == raw.unrepresentable \cap fields = {}

\* The model built from a payload, or the exception raised instead.
normalize(raw) ==
    IF ~raw.mapping \/ raw.kind \notin DOMAIN _converters THEN "NormalizationError"
    ELSE LET fields == _converters[raw.kind] IN
         CASE ~_require(raw, fields) \/ ~_dec(raw, fields) -> "NormalizationError"
           [] ~_dt(raw, fields) -> "OverflowError"
           [] OTHER -> "ok"

_key(raw) == [symbol |-> raw.symbol,
              timeframe |-> IF raw.kind = "ohlcv" THEN raw.timeframe ELSE None]

-----------------------------------------------------------------------------
(* The cache *)

MarketSnapshot ==
    [last_price |-> None, tick |-> None, trade |-> None, ohlcv |-> None,
     order_book |-> None]

exists(key) == key \in DOMAIN _store

get(key) == IF exists(key) THEN _store[key] ELSE MarketSnapshot

\* The snapshot base with the model put in: an order book carries no last price.
_replace(base, raw) ==
    [base EXCEPT ![raw.kind] = raw,
                 !.last_price = IF raw.kind = "order_book" THEN @ ELSE raw.price]

\* Mutant of _merge: the entry is replaced instead of merged.
Mutant_MergeForgets(key, raw) == _replace(MarketSnapshot, raw)

_merge(key, raw) == _replace(get(key), raw)

update(key, snapshot) ==
    [k \in DOMAIN _store \cup {key} |-> IF k = key THEN snapshot ELSE _store[k]]

-----------------------------------------------------------------------------
(* Events *)

CandleEvent(raw, existed) ==
    IF ~existed THEN "CandleOpened" ELSE IF raw.is_closed THEN "CandleClosed" ELSE "CandleUpdated"

MarketDataEvent(raw, existed) ==
    [tick |-> "PriceUpdated", trade |-> "TradeReceived", order_book |-> "OrderBookUpdated",
     ohlcv |-> CandleEvent(raw, existed)][raw.kind]

_event_for(raw, existed) ==
    [key |-> _key(raw), data |-> raw, name |-> MarketDataEvent(raw, existed)]

-----------------------------------------------------------------------------
(* Operations *)

MarketInit ==
    /\ _connected = FALSE
    /\ announced = <<>>
    /\ pending = {}
    /\ _store = <<>>
    /\ published = <<>>
    /\ escaped = 0
    /\ pushed = 0

\* start(): a provider that fails to connect is logged and nothing is published.
start ==
    /\ ~_connected
    /\ Len(announced) < 2
    /\ \E connects \in BOOLEAN :
          /\ _connected' = connects
          /\ announced' = IF connects THEN Append(announced, "ProviderConnected")
                          ELSE announced
    /\ UNCHANGED <<pending, _store, published, escaped, pushed>>

\* stop(): ProviderDisconnected is published even when disconnect() raises.
stop ==
    /\ _connected
    /\ _connected' = FALSE
    /\ announced' = Append(announced, "ProviderDisconnected")
    /\ UNCHANGED <<pending, _store, published, escaped, pushed>>

\* The provider hands a payload to _on_raw, which publishes MarketDataReceived
\* and waits.
_emit ==
    /\ pushed < MaxPayloads
    /\ \E raw \in Payloads :
          pending' = pending \cup {[id |-> pushed + 1, raw |-> raw]}
    /\ pushed' = pushed + 1
    /\ UNCHANGED <<_connected, announced, _store, published, escaped>>

\* _on_raw goes on: the payload is malformed, raises, or is merged and published.
_on_raw ==
    \E job \in pending :
      LET raw == job.raw  outcome == normalize(raw)  key == _key(raw) IN
      /\ pending' = pending \ {job}
      /\ escaped' = escaped + (IF outcome = "OverflowError" THEN 1 ELSE 0)
      /\ IF outcome = "ok"
         THEN /\ _store' = update(key, _merge(key, raw))
              /\ published' = Append(published, _event_for(raw, exists(key)))
         ELSE UNCHANGED <<_store, published>>
      /\ UNCHANGED <<_connected, announced, pushed>>

\* MarketDataCache.clear(); the record of publications starts again with it.
clear ==
    /\ _store # <<>>
    /\ _store' = <<>>
    /\ published' = <<>>
    /\ UNCHANGED <<_connected, announced, pending, escaped, pushed>>

MarketNext == start \/ stop \/ _emit \/ _on_raw \/ clear

-----------------------------------------------------------------------------
(* Properties *)

\* The publications on a key of some kinds of data, and what the last one said.
Published(key, kinds) ==
    {i \in DOMAIN published : published[i].key = key /\ published[i].data.kind \in kinds}
LastPublished(key, kinds) ==
    LET told == Published(key, kinds)
    IN  IF told = {} THEN None
        ELSE published[CHOOSE i \in told : \A j \in told : j <= i].data

MarketTypeOK ==
    /\ _connected \in BOOLEAN
    /\ \A job \in pending : job.raw \in Payloads /\ job.id \in 1..pushed
    /\ \A k \in DOMAIN _store : _store[k].last_price # None \/ _store[k].order_book # None
    /\ escaped \in 0..pushed

\* The candles of one symbol and timeframe are announced as one series: the first
\* is opened, and only that one; no other series' candles open or continue it
\* (_event_for with the cache's exists()).
CandleSeriesOpenOnce ==
    \A i \in DOMAIN published :
      published[i].data.kind = "ohlcv" =>
        (published[i].name = "CandleOpened" <=>
           \A j \in 1..i-1 :
             \/ published[j].data.kind # "ohlcv"
             \/ published[j].data.symbol # published[i].data.symbol
             \/ published[j].data.timeframe # published[i].data.timeframe)

\* A subscriber that rebuilds the market from the published events holds what
\* the cache holds: every snapshot shows, of each kind of data, what the last
\* event of that kind on its key carried, and the price of the last priced one,
\* however the payloads in flight overtook each other (_on_raw, _merge); and the
\* candles of a series are told apart from those of others.
EventsRebuildCache ==
  /\ MarketTypeOK
  /\ CandleSeriesOpenOnce
  /\ \A key \in DOMAIN _store :
      LET priced == LastPublished(key, DOMAIN _converters \ {"order_book"})
      IN  /\ \A kind \in DOMAIN _converters :
               _store[key][kind] = LastPublished(key, {kind})
          /\ _store[key].last_price = IF priced = None THEN None ELSE priced.price
=============================================================================
