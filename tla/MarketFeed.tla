------------------------------ MODULE MarketFeed ------------------------------
(***************************************************************************)
(* Prices on their way to a decision: the ticker stream                    *)
(* (backend/market/binance_ws_ticker.py), a refresh of the factor source   *)
(* inside a radar scan (market/binance_factor_source.py,                   *)
(* radar/radar_engine.py), the caches of market/market_service.py and the  *)
(* quotes that position management asks for meanwhile.                     *)
(*                                                                         *)
(* Every time is an age in ticks, cut off at Old.  A price is the age the  *)
(* code believes (ts) and the time since this process received it (seen);  *)
(* the market itself is not modelled.  market_data_mode is "binance".      *)
(***************************************************************************)
EXTENDS Integers, FiniteSets

CONSTANTS
  Feeds,         \* the symbols
  Ttl,           \* settings.binance_factor_ttl_seconds
  WsStale,       \* settings.binance_ws_stale_seconds
  QuoteStale,    \* stale_after of MarketService._quote
  MissingLimit,  \* max(3, 20 % of the snapshots)
  Old,           \* bound: ages are not told apart beyond it
  NoPrice

ASSUME FeedAssumption ==
  /\ IsFiniteSet(Feeds)
  /\ {Ttl, WsStale, QuoteStale, MissingLimit} \subseteq Nat /\ Old \in Nat
  /\ Ttl <= Old /\ WsStale < Old /\ QuoteStale < Old

VARIABLES
  ticker,    \* BinanceTickerStream._tickers: age of each row, or NoPrice
  heard,     \* age of its _updated_at
  scan,      \* the scan that holds _scan_lock, or NoPrice
  built,     \* the snapshots a refresh has loaded so far
  cache,     \* BinanceFactorSource._cache, by symbol
  cacheAge,  \* age of _cache_ts
  meta,      \* exchange_info is known
  worn,      \* current_refresh_degraded
  degraded,  \* last_refresh_degraded
  snaps,     \* MarketService.last_snapshots
  last       \* MarketService.last_prices with their source and time

feedVars == <<ticker, heard, scan, built, cache, cacheAge, meta, worn, degraded, snaps, last>>
quoteVars == <<snaps, last>>

Ages == 0..Old
Prices == [ts : Ages, seen : Ages]
Empty == [s \in Feeds |-> NoPrice]
Older(age) == IF age < Old THEN age + 1 ELSE Old
Held(c) == {s \in Feeds : c[s] # NoPrice}

(* snapshot_rows: fresh as a whole when any symbol was heard of lately. *)
WsRows == Held(ticker) # {} /\ heard <= WsStale

(* MarketService.get_snapshots: every price it is given is remembered.  *)
Label(bad) == IF bad THEN "degraded" ELSE "snapshot"
Served(c, bad) ==
  /\ snaps' = c
  /\ last' = [s \in Feeds |-> IF c[s] = NoPrice THEN last[s]
                              ELSE [price |-> c[s], label |-> Label(bad)]]

(* _finish_refresh_diagnostics, and what the scan goes on with. *)
Finish(c, bad) ==
  /\ degraded' = bad /\ worn' = bad
  /\ Served(c, bad)
  /\ scan' = [scan EXCEPT !.at = "rank"]
  /\ built' = Empty

\* Mutant of CachedOrEmpty: the fallback does not mark the refresh.
CachedOrEmptySilently == Finish(cache, worn) /\ UNCHANGED <<cache, cacheAge>>
(* An older cache is better than nothing, but it is marked. *)
CachedOrEmpty == Finish(cache, TRUE) /\ UNCHANGED <<cache, cacheAge>>

(* RadarEngine.scan takes its lock; get_snapshots serves a young cache.    *)
(* The refresh lock is free here, for every refresh is part of a scan.     *)
BeginScan ==
  /\ scan = NoPrice
  /\ \E force \in BOOLEAN :
       IF ~force /\ Held(cache) # {} /\ cacheAge < Ttl
       THEN /\ Served(cache, degraded)
            /\ scan' = [at |-> "rank", force |-> force, premium |-> FALSE, rest |-> FALSE]
            /\ UNCHANGED worn
       ELSE /\ scan' = [at |-> "premium", force |-> force, premium |-> FALSE, rest |-> FALSE]
            /\ worn' = FALSE /\ UNCHANGED quoteVars
  /\ UNCHANGED <<ticker, heard, built, cache, cacheAge, meta, degraded>>

Scanning(stage) == scan # NoPrice /\ scan.at = stage
KeepCaches == UNCHANGED <<built, cache, cacheAge, degraded, snaps, last>>

(* premium_index, twice tried: its failure is a warning at first. *)
PremiumAnswers == Scanning("premium") /\ \E ok \in BOOLEAN :
  /\ scan' = [scan EXCEPT !.premium = ok, !.at = IF WsRows THEN "meta" ELSE "ticker"]
  /\ KeepCaches /\ UNCHANGED <<ticker, heard, meta, worn>>

(* ticker_24hr, twice tried: without it premium prices stand in, and       *)
(* without both there are no market rows.                                  *)
TickerAnswers == Scanning("ticker") /\ \E ok \in BOOLEAN :
  /\ IF ok \/ scan.premium
     THEN /\ scan' = [scan EXCEPT !.rest = TRUE, !.at = "meta"]
          /\ worn' = (worn \/ ~ok) /\ KeepCaches
     ELSE CachedOrEmpty
  /\ UNCHANGED <<ticker, heard, meta>>

(* exchange_info, when it is older than an hour; then the symbols.         *)
MetaAnswers == Scanning("meta") /\ \E ok, some \in BOOLEAN :
  /\ meta' = (meta \/ ok)
  /\ IF meta' /\ some
     THEN scan' = [scan EXCEPT !.at = "load"] /\ worn' = (worn \/ ~ok) /\ KeepCaches
     ELSE CachedOrEmpty
  /\ UNCHANGED <<ticker, heard>>

(* _snapshot of one symbol: the kline close, or without klines the row of  *)
(* the ticker, which is as old as its last message; or it fails.           *)
RowAge(s) == IF scan.rest THEN 0 ELSE ticker[s]
Load(s) ==
  /\ Scanning("load") /\ built[s] = NoPrice
  /\ \/ built' = [built EXCEPT ![s] = [ts |-> 0, seen |-> 0, missing |-> FALSE]]
     \/ /\ scan.rest \/ ticker[s] # NoPrice
        /\ built' = [built EXCEPT ![s] = [ts |-> 0, seen |-> RowAge(s), missing |-> TRUE]]
  /\ UNCHANGED <<ticker, heard, scan, cache, cacheAge, meta, worn, degraded, snaps, last>>

Missing == {s \in Held(built) : built[s].missing}
Snapshots == [s \in Feeds |-> IF built[s] = NoPrice THEN NoPrice
                              ELSE [ts |-> built[s].ts, seen |-> built[s].seen]]
(* The gather ends, with symbols that failed left out. *)
LoadEnds ==
  /\ Scanning("load")
  /\ IF Held(built) # {}
     THEN /\ cache' = Snapshots /\ cacheAge' = 0
          /\ Finish(Snapshots, worn \/ Cardinality(Missing) >= MissingLimit)
     ELSE CachedOrEmpty
  /\ UNCHANGED <<ticker, heard, meta>>

(* Ranking, with an await per symbol, publication, and the rows are saved. *)
ScanEnds ==
  /\ Scanning("rank") /\ scan' = NoPrice
  /\ UNCHANGED <<ticker, heard, built, cache, cacheAge, meta, worn, degraded, snaps, last>>

(* An exception, or the timeout of the caller, at any await: the           *)
(* diagnostics of the refresh before stay.                                 *)
ScanFails ==
  /\ scan # NoPrice /\ scan' = NoPrice /\ built' = Empty
  /\ UNCHANGED <<ticker, heard, cache, cacheAge, meta, worn, degraded, snaps, last>>

(* A websocket message with the rows of some symbols, perhaps of others only. *)
WsMessage == \E rows \in SUBSET Feeds :
  /\ ticker' = [s \in Feeds |-> IF s \in rows THEN 0 ELSE ticker[s]] /\ heard' = 0
  /\ UNCHANGED <<scan, built, cache, cacheAge, meta, worn, degraded, snaps, last>>

(* price_quote: one of four endpoints answers; when none does, the caches  *)
(* stay and cached_price_quote is what the caller gets.                    *)
QuoteAnswers(s) ==
  /\ last' = [last EXCEPT ![s] = [price |-> [ts |-> 0, seen |-> 0], label |-> "quoted"]]
  /\ UNCHANGED <<ticker, heard, scan, built, cache, cacheAge, meta, worn, degraded, snaps>>

Aged(c) == [s \in Feeds |-> IF c[s] = NoPrice THEN NoPrice
                            ELSE [c[s] EXCEPT !.ts = Older(@), !.seen = Older(@)]]
Clock ==
  /\ ticker' = [s \in Feeds |-> IF ticker[s] = NoPrice THEN NoPrice ELSE Older(ticker[s])]
  /\ heard' = Older(heard) /\ cacheAge' = Older(cacheAge)
  /\ built' = Aged(built) /\ cache' = Aged(cache) /\ snaps' = Aged(snaps)
  /\ last' = [s \in Feeds |-> IF last[s] = NoPrice THEN NoPrice
                              ELSE [last[s] EXCEPT !.price.ts = Older(@), !.price.seen = Older(@)]]
  /\ UNCHANGED <<scan, meta, worn, degraded>>

FeedInit ==
  /\ ticker = Empty /\ heard = Old /\ scan = NoPrice /\ built = Empty
  /\ cache = Empty /\ cacheAge = Old /\ meta = FALSE
  /\ worn = FALSE /\ degraded = FALSE /\ snaps = Empty /\ last = Empty

FeedNext ==
  \/ BeginScan \/ PremiumAnswers \/ TickerAnswers \/ MetaAnswers \/ LoadEnds
  \/ ScanEnds \/ ScanFails \/ WsMessage \/ Clock
  \/ \E s \in Feeds : Load(s) \/ QuoteAnswers(s)
FeedSpec == FeedInit /\ [][FeedNext]_feedVars

(* cached_price_quote: a snapshot wins over a later price, with the label  *)
(* of the later one.                                                       *)
CachedQuote(s) ==
  IF snaps[s] # NoPrice THEN [price |-> snaps[s], label |-> last[s].label] ELSE last[s]
IsStale(q) == q.price.ts > QuoteStale

(* A snapshot price that is not marked degraded was built by the scan that *)
(* brings it, or, unless the scan was forced, within the last Ttl: failed  *)
(* and cancelled refreshes never pass an old cache off as a new one        *)
(* (binance_factor_source.py:53-67, 267-272; market_service.py:49-56).     *)
CleanMeansRecent ==
  [][Clock \/ \A s \in Feeds :
       last'[s] # last[s] /\ last'[s].label = "snapshot"
         => cacheAge' = 0 \/ (~scan'.force /\ cacheAge' < Ttl)]_feedVars

(* Positions and entries are only valued at a price that came from a quote *)
(* endpoint (position_manager.py:361, autotrader.py:1041).  It does not     *)
(* hold: cached_price_quote gives a snapshot's price the label of a quote   *)
(* that came after it (market_service.py:82).                              *)
SafeQuoteIsQuoted ==
  \A s \in Feeds : LET q == CachedQuote(s) IN
    q # NoPrice /\ q.label = "quoted" /\ ~IsStale(q) => q = last[s]
=============================================================================
