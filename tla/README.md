# Verification of MLOps-Crypto-Surveillance

TLA+ models, TLC runs and TLAPS proofs of the market-data ingestion system in
this repository: the path of a trade or a candle ("kline") from Binance to the
Bronze streams in Redis, the Silver JSONL files and the Gold feature vectors,
and what happens on that path when a connection drops, Redis or PostgreSQL
fails, a process dies or two processes share a file; and the way of a trained
model to Production.

## 1. Inventory of the system

| Component | Source | State it keeps | Operations | Interacts with |
|---|---|---|---|---|
| WebSocket client | `src/ingestion/websocket_client.py` | `_running`, `_reconnect_count`, `_last_disconnect_ts` | `run` (supervisor loop), `stop`, `_connect_and_listen`, `_handle_message`, `_record_disconnect`, `_record_reconnect`, `_write_dead_letter` | Binance socket; Redis streams `trades`, `klines`, `gaps`, `dead_letter` |
| Pipeline | `src/ingestion/pipeline.py`, `src/ingest_data.py` | `_shutdown_event`, `_client`, `_rest_client`, `_cleaner`, `_auxiliary_tasks`, MLflow run | `start`, `stop`, `_teardown`, `_run_cleaner_loop`, `_midnight_rotation_watcher`, signal handlers | owns the client, the cleaner and the REST client as tasks of one event loop |
| Cleaner loop | `pipeline.py:209-271`, `src/preprocess.py:61-113` | `stream_offsets` (starts at `$`) | XREAD, dispatch to cleaner or to REST backfill, advance the offset | Redis streams, DataCleaner, REST client |
| DataCleaner | `src/features/cleaning.py` | outlier windows, `_last_kline_open_time`, bloom registry | `process_trade`, `process_kline`, `flush_state`, gap detection | Redis keys `dedup:*`, bloom file, Silver files |
| REST client | `src/ingestion/rest_client.py`, `scripts/pull_historical.py` | token bucket, bloom registry, HTTP client | `sync_klines`, `process_gap_event`, `_fetch_page`, `_request_page`, `close` | Binance REST, Redis keys `dedup:*`, `klines` stream, raw files |
| Token bucket | `rest_client.py:45-87` | `_tokens`, `_last_refill` | `acquire`, `reset`, refill | REST client |
| Bloom registry | `src/utils/bloom.py` | filter per symbol in memory, dirty counter, `.bloom` file | `check_and_add`, autosave, `flush_symbol`, `flush_all`, load | two registries in a process, `<dir>/cleaner` (cleaning.py:57) and `<dir>/rest` (rest_client.py:128), behind one Redis key; each with a file that all processes share |
| JSONL writer | `src/ingestion/writer.py`, `scripts/verify_raw.py` | `.jsonl`, `.meta`, `.meta.tmp`, `.lock` files | `append_record` | several processes on the same files |
| Feature pipeline | `src/features/engineering.py:337-517`, `scripts/run_featurize.py` | consumer group position and pending list, calculator windows, per-symbol buffer, parquet file | `run`, `run_finite`, `_process_messages`, `_flush_parquet` | Redis streams, feature store |
| Feature calculators | `engineering.py:36-330` | windows, EMA | `update` | feature pipeline |
| Feature store | `src/features/store.py` | Redis hash with TTL, PostgreSQL connection and rows | `write_online`, `write_offline`, `read_online` | feature pipeline |
| Schemas | `src/ingestion/schemas.py` | none | validation, `to_stream_dict` | WebSocket and REST clients |
| Redis client | `src/utils/redis_client.py` | mock/real choice | thin wrappers | everything |
| Model training and promotion | `src/training/*`, `scripts/promote_model.py` | MLflow runs, model versions, stages | `run_experiment`, `register_model`, `transition_stage`, promotion | MLflow |
| Config, logger, DVC, containers, notebooks | | none | | |

Where the hard behaviour is:

* one event loop runs the socket reader and the cleaner; every `await` is an
  interleaving point, and the cleaner runs the REST backfill *inline*;
* the REST client and the cleaner are two stages of one flow and both claim
  Redis keys before they do their work, so a failure between the claim and the
  work loses a record;
* several processes (`ingest_data.py`, `preprocess.py`, `pull_historical.py`)
  share the JSONL files (with a lock) and the bloom files (without one);
* streams are read from `$`, so what is written while nobody is blocked in
  XREAD is not seen;
* reconnects keep one gap timestamp that several failures compete for;
* the feature pipeline writes one row to a window, a hash, a table, a buffer, a
  file and an acknowledgement, each of which can fail after the ones before it;
* a promotion is four calls to MLflow, beside other promotions and beside
  training runs whose metrics are visible before their model.

What makes each component correct:

| Component | Correct when |
|---|---|
| WebSocket client | every message that is missed lies in a gap record; gap records are disjoint and name no time the stream has; a disconnect is settled; a stop ends it |
| JSONL writer | one writer at a time; the sidecar describes the file; what was acknowledged can be read |
| Deduplication | a record is admitted once, also after a restart, and once by each registry although Redis forgets; nothing is rejected that nobody took |
| REST client | a sync that returns is complete; nothing is published twice; a failure costs one candle |
| Token bucket | the limit holds over every window; a sleep is long enough |
| Cleaner loop | no entry is passed over, none is cleaned twice, a failure costs one record; it keeps up and it stops |
| Feature pipeline | an acknowledged entry that has a vector is stored; what a crash can lose is bounded; no row is stored twice; no entry is left out of the windows but what is stranded or has no vector; a finite run ends |
| Feature calculators | a window is the last valid inputs; averages lie within their values; no division by zero |
| Feature store | the latest features expire; a row with a new key is stored |
| Promotion | one version in Production, and that one has a model and passed; it is not replaced by a worse one |
| Pipeline | a stop ends it; nothing is used after it was closed; a run shown as ended has released and saved everything |

## 2. Plan

Done, in this order: `WebSocketClient`, `AtomicJsonlWriter` with the abstract
`AppendLog`, `Dedup`, `RestSync`, `CleanerLoop`, `TokenBucket`,
`PipelineLifecycle`, `FeaturePipeline` with `FeatureCalculators`,
`ModelPromotion`; the abstract `KeyClaims` and that `Dedup`, `RestSync` and
`CleanerLoop` implement it; the proofs of every safety property of all of them.

Next:

1. `GapRecovery`: the composition of `WebSocketClient`, `RestSync` and
   `CleanerLoop` over one set of dedup keys, against an abstract specification
   "every candle of an outage reaches Silver once". The divergences of
   section 6 say where it fails; the composition would say under which
   conditions it holds.

## 3. The modules and the code

Paths are relative to the package directory `src/` of the repository; the map of
`PROJECT.json` names the lines of every definition. In each module `pc` is the await, or the
call, at which a process is suspended, and one action is the code from there
to the next one. Names of variables are those of the code where there is one;
a variable commented as *history* is not in the code and only remembers what a
property speaks about. A comment "Mutation" or "Mutant" marks an operator that
no specification uses: a plausible bug, kept to show that the properties notice
it.

| Module | Code | State and actions |
|---|---|---|
| `WebSocketClient` | `ingestion/websocket_client.py` | `Supervise`, `BackoffEnds`, `Fail`, `CleanReturn` are the loop of `run` and its two ways out of `_connect_and_listen`; `ConnectOk`/`ConnectRefused` its connect; `ReportGap`, `AllReported`, `ReportFails` the loop of `_record_reconnect` over the symbols; `TakeMessage`, `StopNoticed`, `ClosedOk`, `ClosedError` the `async for`; `Publish`, `HandlingFails`, `Skip`, `DeadLetter` the outcomes of `_handle_message` (an envelope that is no dictionary raises at websocket_client.py:220 and takes the connection down, as a refused XADD does); `Stop` is `stop()`. `Send`, `SocketEnds`, `LinkDies`, `Tick` are the environment. |
| `AtomicJsonlWriter` | `ingestion/writer.py` | `Call`, `Acquire`, `LockTimeout`, `Write`, `ReadMeta`, `WriteTmp`, `Replace` are the file system calls of `append_record` in their order; `Abort`, `AbortTorn` an exception or a crash at any of them. |
| `AppendLog` | the docstring and the promise of `append_record` | abstract: line and sidecar in one step, until a call dies. |
| `Dedup` | `features/cleaning.py` `_is_duplicate`, `rest_client.py` `_is_duplicate_kline`, `utils/bloom.py` | `Claim` is the SET NX, `CheckAndAdd` the filter with load, autosave and false positives, `CutOff` a claim whose reply is lost, `Flush` the midnight flush, which may fall between a claim and its filter, and the one at the end of a sync, `Stop` and `Close` the saves of the two registries at an orderly end, `Crash` the other end, `Expire` the TTL. `Registries` are the cleaner's and the REST client's, each with its filters (`mem`) and its file (`disk`), behind the one set of Redis keys (`claimed`). |
| `KeyClaims` | what `_is_duplicate` and `_is_duplicate_kline` promise to their callers | abstract: a free key is taken (`Take`) by one taker, which has one at a time, and its record is done or lost for good (`Settle`). |
| `RestSync` | `rest_client.py` `sync_klines`, `process_gap_event`, `_fetch_page`, `_request_page` | `NextPage`, `Reply`, `Throttled`, `CooldownOver`, `Timeout` are one page with its fallback and 429; `SkipOpenRow`, `SkipDuplicate`, `Claim`, `Reject`, `Publish`, `AppendRaw` one row, where `Reject` is a claim whose key the filter has by a false positive; `PageDone`, `Return` the end of a page and of the call; `Abort` an exception. |
| `CleanerLoop` | `pipeline.py` `_run_cleaner_loop`, `preprocess.py` `_consume_loop`, `cleaning.py` `process_trade`, `process_kline` | `Read`, `ReadTimeout` are XREAD with its `$` offsets; `Drop`, `Claim`, `Reject`, `Clean` a data entry; `Fill`, `FillClaim`, `FillReject`, `FillPublish`, `FillDone` a gap event and its inline backfill; `MayTrim` what its XADD with `maxlen` may drop; `Stop`, `Leave`, `Die`, `Restart` the life of a worker; `Send`, `SendAgain`, `Outage` what the client writes. |
| `TokenBucket` | `rest_client.py` `_TokenBucket` | `Call`, `Try` (one turn of the loop in `acquire`, under the lock), `Reset`; `Tick` is the clock, `Observe` starts the window a property counts in. |
| `FeatureCalculators` | `features/engineering.py` the three calculator classes | operators, no state: `Slid`, `SafeMean`, `Variance`, `PctChange` are the helpers of the base class, `UpdateTrades`/`TradeFeatures` and `UpdateKlines`/`KlineFeatures` the two `update` methods, on exact ratios instead of floats; `After` is the sequence of their calls |
| `FeaturePipeline` | `features/engineering.py` `FeaturePipeline`, `features/store.py` | `Read`, `ReadNothing`, `ReadFails` are XREADGROUP; `Row` the calculator and the HSET, `RowWithoutVector` the candle with `close <= 0` (`NoVector`) that is only acknowledged, `Expire` the EXPIRE of `write_online`; `Store`, `StoreRefused`, `StoreSkipped`, `StoreRaises` the ways through `write_offline`, with the connection it keeps; `Ack`, `AckFails` the XACK; `BeginWrite`, `EndWrite`, `FlushRaises` (mkdir, outside of the try), `FlushFails`, `WriteFails`, `NothingToFlush` `_flush_parquet`; `Crash`, `Start` processes; `Produce`, `Midnight`, `HashExpires` the environment. |
| `ModelPromotion` | `training/train.py` `run_experiment`, `training/evaluator.py` `check_thresholds`, `training/registry.py`, `scripts/promote_model.py` | `StartRun`, `LogMetrics`, `LogModel`, `EndRun`, `RunFails` what a training process logs; `Search`, `NothingFound` `get_best_run_id`; `Register`, `NoModel`, `ToStaging`, `ToProduction`, `Refuse` the calls of the script, each of which may raise before or after its effect (`Answered`). |
| `PipelineLifecycle` | `ingestion/pipeline.py`, `ingest_data.py` `run_ingestion` | `Launch` ... `CloseRedis` are `start` and `_teardown`; `Signal`, `DurationOver`, `Cancel` the three ways a run is ended from outside; `Cleaner...` and `Watcher...` the two other tasks. |

`MC...` modules add what TLC needs: symmetry sets and the sets of faults.
Where the components meet, a module names what it takes from the others: the
gap records of `WebSocketClient` are the windows of `RestSync` and the `gaps`
stream of `CleanerLoop`; the claim of `RestSync` and of `CleanerLoop` is the
SET NX of `Dedup`, which has the life of a claim (TTL, filter, file), and all
three implement `KeyClaims` (`ImplementsKeyClaims`, at the end of each), which
is what they assume of each other's claims; the raw
and Silver files of both are those of `AtomicJsonlWriter`; the cleaner task of
`PipelineLifecycle` is a worker of `CleanerLoop`; `FeaturePipeline` extends
`FeatureCalculators` and slides its windows with the same `Slid`, over the names
of entries instead of their values.

## 4. The runs

`CHECK_DEADLOCK FALSE` stands in every cfg because every one of these systems
may really stop: a client that was stopped or gave up, a process that ended, a
bound that is used up. That they do not stop too early is what the liveness
properties are for.

| Run | Question | Bounds, and why they are enough |
|---|---|---|
| `WebSocketClientFaults` | Are the gap records right whatever fails, does a disconnect get settled and does a stop end the client? `GapsDisjoint`, `NoFalseGap`, `GapsComplete`, `StopRespected`, `DisconnectSettled`, `StopTerminates` | 2 symbols (a record can be written for one and not for the other), every kind of fault, one kind of message for each outcome of `_handle_message` (a trade, one that is unroutable, invalid or malformed: a kline is published like a trade and an open one skipped like an unroutable message), 2 attempts (one failure and one repetition), time 0..2 (two outages that do not end when they begin), 2 messages (one lost, one published); 513,717 states |
| `WebSocketClientRefused` | (violation) Is every missed message known? `MissedAreKnown` | refusals and unclean closes only; time 0..4 to place two failures after a message |
| `AtomicJsonlWriterFaults` | Do lock, file and sidecar agree? `CountBounds`, `AckedReadable`, `ImplementsAppendLog` | the 3 programs that write, 4 appends, 2 dead calls: a torn line, the record glued to it, one good record, and one more death |
| `DedupFaults` | What is admitted twice, or never? `AdmitOnce`, `NoOrphanClaim`, `UnsavedBounded`, `SavedKeysStay`, `ImplementsKeyClaims` | every subset of the faults and of 2 processes is an initial state, so a condition of a property selects behaviours and never weakens them; each process has both registries; 2 keys with a save every 2 leave one key unsaved, 4 offers repeat each key, to either registry; 857,632 states |
| `RestSyncFaults` | Is a sync complete, once only, and over at some point? `OnceOnly`, `LossBounded`, `SyncComplete`, `SyncEnds`, `ImplementsKeyClaims` | all windows over 3 candles, edges inside a candle included; pages of 2, so a window takes one or two pages and a full last page; a second sync over any other window, after a success or an exception; one death and one false positive, so that their losses add up; 1,126,678 states |
| `CleanerLoopFaults` | Is each record cleaned once, what does a failure cost, and which entries are passed over? `LossAccounted`, `SkippedOnlyTrimmed`, `ImplementsKeyClaims` | 2 workers on 2 candles and an outage with a late candle, entries written again; batches of 2; a stream that a backfill trims to 2 entries, so that one repeated candle is enough to lose one; 2 deaths, 1 restart and 1 false positive, each counted for itself; 1,199,800 states |
| `CleanerLoopLive` | Does a worker keep up and stop? `BacklogDrained`, `StopEnds` | 1 worker, since workers do not wait for each other; all three streams, one backfill; 1 death, 1 restart, 1 false positive |
| `CleanerLoopBackfill` | (violation) Does a processed candle reach Silver? `SeenIsCleaned` | 1 worker, no fault at all |
| `TokenBucketWindow` | Does the limit hold over every window, and is the sleep long enough? `GrantsBounded`, `SleepSuffices` | 2 callers that take tokens from each other; a capacity (3) that is not a multiple of the refill (2), so sleeps do not end on the exact token; 3 ticks fill the bucket twice; one reset |
| `FeaturePipelineRun` | What can an acknowledged row lose, and an entry that is not acknowledged? `LossBounded`, `NoRowTwice`, `AckedStored`, `StrandedBounded`, `WindowsWhole`, `OnlineExpires`, `FiniteEnds`; are the features right? `FeaturesSound` | one entry of each of the two streams per round and a flush at 2 rows, tested once per stream, so rows wait in the buffer over rounds and the end of a process; equal and different ts, a candle without a vector; two days, two processes, two faults of the eight kinds (reads that raise among them); windows of 1 and 2; 1,716,654 states. `FeaturesSound` evaluates the calculators on every sequence of up to 4 trades and of up to 3 candles from sets that meet each of their branches; the theorems are for any trades and candles, in any number |
| `PipelineLifecycleFaults` | Does every run end clean? `NoUseAfterClose`, `ResourcesReleased`, `StopEnds` | one process has no parameter but its backlog; every start, driver and platform for signals is an initial state |
| `ModelPromotionFaults` | What gets to Production? `OneProduction`, `ProductionVetted`, `NoRegression` | 2 training runs (one better, or one without a model), 3 promotions (one in Production, one that overtakes it, one overtaken), 3 values of the metric: invalid, below and above the threshold |

Each module has one type invariant, `TypeOK`. A theorem states it (section 7)
and no run repeats it. `OneWriter` and `SilverOnce` are theorems as well, and
what a refinement that a run checks needs: `ImplementsAppendLog` fails with two
writers, `ImplementsKeyClaims` with a record that is cleaned twice.

Conditions inside properties are the price of being true; they are discussed
with the behaviour they leave out in section 6.

## 5. Fairness

* `WebSocketClient`: weak fairness of the client (the event loop resumes a
  coroutine that is ready, and connect, XADD and sleep return or raise), of
  the clock, and of the end of a connection (Binance closes every stream after
  a day; ping_timeout ends a silent one). No fairness for messages, and none
  for a successful connect: `ClientStep` is one disjunction, so refusals may go
  on until the attempts run out.
* `RestSync`: weak fairness of `Step`. A request is answered or times out (the
  HTTP client has a timeout), a cooldown is a sleep; that 429 does not last is
  the bound `MaxThrottles`. Nothing makes a caller sync again.
* `CleanerLoop`: weak fairness of each worker. XREAD blocks for a bounded time
  and every Redis call has a socket timeout, so an await returns or raises.
  Restarts and the exchange are not fair.
* `FeaturePipeline`: weak fairness of the consumer; producers, midnight and
  restarts are not fair. `FiniteEnds` speaks of bounded input: with a producer
  that writes at least one entry in every block of XREADGROUP, `run_finite`
  never counts its idle rounds and never ends. The bounds `MaxTrades` and
  `MaxCandles` stand for a producer that falls silent.
* `PipelineLifecycle`: weak fairness of each task, of the duration and of the
  `await` on `start`. Signals, cancellations and failures are never forced: a
  cleaner that polls forever would hang the teardown.

## 6. What the code does not promise

Four behaviours contradict what the repository says of itself.  Two have a run
whose counterexample shows them:

* `WebSocketClientRefused`: `_record_disconnect` assigns `_last_disconnect_ts`
  at every failure (websocket_client.py:343). After an unclean close, a refused
  reconnect moves the start of the outage forward, and messages of the time
  before are in no gap record, though the docstring (353) says the record
  "knows exactly which time window needs backfilling".
* `CleanerLoopBackfill`: the REST client claims `dedup:kline:...` before it
  publishes a candle, and the cleaner claims the same key before it cleans one
  (cleaning.py:190): a backfilled candle that reaches the cleaner is a
  duplicate. schemas.py:501 and 403 say that historical klines are written to
  the same stream so that cleaning can treat them uniformly.

Two more are in the model, where the passing properties make room for them:

* `run_finite` reads "all pending messages" (engineering.py:455-458), but asks
  for `>`, which is what was never delivered: an entry that is pending stays so
  (`StrandedBounded` bounds how many).
* run_featurize.py:9 says that results are written to PostgreSQL. With the
  tables of scripts/init_db.sql none is: their columns (`w50_price_mean`, ...)
  are not those of a vector (`price_mean_50`, ...), each INSERT is refused,
  logged and acknowledged (`tables = FALSE`, `rejected` of `AckedStored`).

The passing properties are conditioned on the absence of these:

* `GapsComplete` (`timing = "exact"`): a clean close, after which `run` starts
  over without `_record_disconnect`; an overwritten timestamp (above); a failed
  XADD of a gap record, after which some symbols have a record and the others
  none; a failed XADD of a message, or an envelope that is no dictionary, which
  takes what was received before it down with the connection; an outage noticed
  late, whose start is the moment of notice. A client that gave up or was
  stopped reports nothing any more (`running`). Only a clean return resets the
  attempts, so failures with successful reconnects between them add up to the
  maximum.
* `AckedReadable`, `ImplementsAppendLog`: a torn line has no newline and the
  next record is glued to it; after a death the sidecar misses a line for
  good, and only its growth is promised.
* `AdmitOnce`: with expiring keys, a crash loses the keys since the last
  autosave, and a second process writes its own filter over the file. Even one
  process in good order admits a candle twice then: the registry of the cleaner
  and that of the REST client have separate files and only Redis tells one of
  what the other has admitted, so the promise is once for each registry.
  `NoOrphanClaim`: a crash, or a false positive, after the claim rejects a
  record nobody took. `SavedKeysStay`: one process, and a file that can be
  read.
* `ImplementsKeyClaims`: in `Dedup` until a key expires, since from then on
  Redis gives the key to a second taker, whom only the filter may stop. In
  `KeyClaims` a record may be lost whenever it is taken: what a crash or a
  false positive did to it, nobody notices and nobody repeats. In `CleanerLoop`
  a candle that a backfill published counts as done, so the cleaner drops it:
  the divergence above is no violation of the claims but of what they are for.
* `SyncComplete`: a sync over several pages ends at the first page that is
  duplicates only; a candle whose call died after the claim is a duplicate for
  good; so is one that is claimed and then rejected by a false positive of the
  filter (rest_client.py:343), and a page of those ends the sync as well; a candle that is open at an end of the window is not in it, though a
  gap that begins inside it needs it.
* `LossAccounted`, `LossBounded` of `RestSync`: a claim whose worker or call
  died is lost, and so is one whose key the filter has by a false positive
  (cleaning.py:197, rest_client.py:343), with nobody dead: `deaths`, `aborts`
  and `rejects` count these, and a restart counts for nothing.
  `SkippedOnlyTrimmed`
  starts with the first entry read: until a stream has an offset other than
  `$`, entries written between two XREADs are passed over. For the rare gap
  events that is the usual case. From then on only a backfill loses entries:
  where `xadd` takes `maxlen` (rest_client.py:323) it trims the kline stream
  while the cleaner that awaits it does not read, so live candles can be pushed
  out unread.
* `GrantsBounded`: a full bucket and the refill together: in the first minute
  nearly twice the configured rate.
* `AckedStored`, `WindowsWhole`: a candle with `close <= 0` passes the schemas
  (schemas.py:272-291, 425-442), has no vector (engineering.py:265) and is
  acknowledged (415): it leaves no row, no hash and no place in a window, and
  nothing tells. Both properties speak of the entries that have a vector
  (`AckedRows`).
* `AckedStored`: a row that PostgreSQL rejects is acknowledged all the same
  (`write_offline` swallows the error), which is every row with the tables of
  scripts/init_db.sql (above); `tables` is FALSE for these tables and TRUE for
  tables that fit. When a connection breaks, the rollback in the handler raises
  too and `pg_conn` stays true (store.py:69), so each later row raises, is
  retried by nobody and leaves its entry pending (`StrandedBounded`): `run`
  logs and goes on in that state until it is restarted.
* `LossBounded`: rows are acknowledged before they are in a file; a
  `to_parquet` that breaks off destroys the day; `drop_duplicates` on `ts`
  keeps one of several distinct rows with the same ts. Entries of a lost reply
  or a killed process stay pending, and neither mode reads the pending list.
  `mkdir` is outside of the try of the flush, so its exception ends `run_finite`
  without the last flush.
* `OnlineExpires`: a process that dies between HSET and EXPIRE leaves the hash
  without an expiry. Trades and candles write the same hash, so it has the
  fields of both kinds. `read_online` has no caller.
* `FeaturesSound` is about closes, highs and lows of any sign but takes volumes
  that are not negative, which the schema enforces (schemas.py:284), and compares
  a window's volume with a history that is not shorter than the window: 200
  candles against windows of 5, 15 and 60 (engineering.py:220, 239). It
  states what the calculators compute, which is not always what
  their comments say: `_pct_change` is not 0 until the window is full (engineering.py:84) but
  from the second value on; `buy_ratio` counts trades whose buyer is the maker,
  which schemas.py:87 calls seller-aggressor; the deviation is two-pass, not
  "Welford-style"; a VWAP without volume is 0, outside of every price; the
  trade rate of trades with equal or reversed ts is a million times their
  number.
* `NoRegression`: the search and the transition are calls of two moments, so a
  promotion that was overtaken puts the older model back.
  `ProductionVetted`: a forced promotion skips the thresholds. The search does
  not look at the status of a run, so the best run may be one that failed
  before it logged a model: then registration raises, and no promotion of this
  type succeeds until a better run exists. A run trained on the synthetic data
  of train.py:114 counts like any other. `OneProduction` holds although a call
  that raised may have taken effect: the version is in Production then, though
  the script failed.
* `StopEnds` of `PipelineLifecycle` (`start = "running"`, `~listening`): a stop
  before the launch sets the event, but the client created afterwards listens
  on. A cleaner that died is not noticed, nor is a client that gave up: the
  status of the MLflow run is FINISHED, and KILLED exactly when `start` was
  cancelled. `ResourcesReleased`: a teardown that is cancelled, or a close that
  raises, skips the rest and leaves the run active. What raises before the try
  statement of `start` is not torn down at all: Redis stays open, and with the
  run active so may the REST client (`LaunchFails`).

## 7. The proofs

The proof modules `...Proofs` extend their component (`RestClientProofs` the two
of `rest_client.py`, `RestSync` and `TokenBucket`, whose specification is named
`BucketSpec` for that); every theorem holds for
all values of the constants that satisfy the `ASSUME`s, so for any number of
processes, symbols, candles and faults and any bound. The assumptions say that
bounds are natural numbers, that the values of constants are told apart
(`None`, `Corrupt`), that a page, a save interval and the rate of a bucket are
at least one, and that faults are among those a module knows.

| Theorem | Argument |
|---|---|
| `WebSocketClientProofs!TypeCorrect` | `TypeOK` with the type of the message in hand |
| `WebSocketClientProofs!GapsAreDisjoint` | `GapInv`. `GapsDisjoint` alone is not inductive: a new record must not begin before the end of an old one. So `OwedAfterRecords` says that the outage that is not reported yet begins after every record of the symbols it is owed to, `GapsInPast` and `OpenGapInPast` that nothing lies in the future, and `RecordingFixed` that both ends stay put while the symbols are reported one by one. |
| `WebSocketClientProofs!GapsAreTrue` | `LiveInv`. The property says nothing of what is still in hand or of an outage that has no record yet: `HeldInv` puts every message received over a connection behind all records of its symbol and behind the one being written, `PublishedInv` puts what was published before the outage that is open, and `ConnectionInv` says that nothing is held without a connection. |
| `WebSocketClientProofs!GapsAreComplete` | `OutageInv`, which says for each stage of the client where a missed message is: in a record of its symbol, in the open outage (`OpenOutage`), owed to a symbol that is still to be reported (`Owed`), or missed this very moment on a connection that was just closed (`JustMissed`). The property does not tell these apart, and a step that closes the outage or reports one symbol needs to know. |
| `WebSocketClientProofs!StopIsRespected` | each action by its guard on `running`, which no step but `stop` writes while it is false |
| `AtomicJsonlWriterProofs!MutualExclusion`, `SidecarCounts` | `WriterInv`: `OneWriter`; what the holder computed still describes the file (`SidecarComputed`: nobody replaced the sidecar in between); and `CountInv`, which charges a torn line to the call that died |
| `AtomicJsonlWriterProofs!Readable` | `GluedInv` counts what was written, acknowledged or in flight, and has no line of its own, and adds one for a file that ends without a newline: the next record will be glued to that end. Each dead call pays for one. Only with the pending one in the sum does an append leave it as it is. |
| `AtomicJsonlWriterProofs!Refinement` | The log of `AppendLog` is the file without the line in flight. `Replace` is the abstract append, every other step stutters until a call dies; from there on `CountsGrow` gives what is promised. `NextLastLine`: the line in flight is the last one and the holder's own. |
| `DedupProofs!AdmittedOnce` | Two invariants for the two cases of `AdmitOnce`: `ClaimInv` (no expiry: an unclaimed key was never admitted by either registry, and one process at most is between claim and filter) and, for each registry, `FilterInv` (one process in good order: what the registry admitted is in its filter, or in its file while no filter is loaded) |
| `DedupProofs!NoClaimOrphaned` | `OrphanInv`: the filters and the file of a registry hold only keys that this registry admitted, so the lookup that follows a claim admits the key or finds it admitted |
| `DedupProofs!LittleUnsaved`, `SavedForGood` | `SavedInv`: a loaded filter contains the file of its registry, one that is not loaded is empty, and what a filter has and the file lacks is no more than `dirty`, the writes counted since the last save |
| `DedupProofs!KeysTakenOnce`, `RestClientProofs!SyncTakesKeys`, `CleanerLoopProofs!LoopTakesKeys` | `ClaimInv` of the first two says where a claimed key is, `HandInv` adds that who is not at a record has no key. The loop needs `HoldInv`: a key in hand is claimed, in one hand only, and its record is nowhere yet; a record that is somewhere was claimed, and is in one place. `SilverInv` would not do, since it does not say that no candle is both cleaned and published. Each action is `Take`, `Settle` or a stutter of `KeyClaims`, by one lemma for each of the three (`TakeStep`, `SettleStep`, `QuietStep` in the loop). |
| `RestClientProofs!RateBound` | `BudgetInv`: what the bucket would hold after a refill, plus what was granted, is within the budget of the window. A tick adds the same to both sides, a grant moves tokens between the summands. |
| `RestClientProofs!OneSleep` | `SleepInv`: tokens, what others took and what the rest of the sleep adds cover the request |
| `RestClientProofs!PublishedOnce` | `ClaimInv`: a candle is written only after it was claimed, once, and only the call that claimed it writes it |
| `RestClientProofs!LittleLost` | the candles that are claimed and not stored (`Unstored`) are at most the one in hand (`InFlight`), one for each call that was cut short and one for each false positive |
| `RestClientProofs!Complete` | `SyncInv`, as long as no filter erred, along the loop: `RowsInv` (the rows that are left are the youngest of their page, and `last_close` is the end of one before them), `SeenInv` (what the call wants and has seen is claimed), `FirstInv` (the first call finds no claim but its own and the WebSocket's, so no page of duplicates ends it early), `KeptInv` (where no call died and no filter erred, a claimed candle is published, delivered or in hand) and `DoneInv` (what a completed call wanted is claimed and not in hand). `KeptInv` and `DoneInv` give the property. |
| `RestClientProofs!TypeCorrect` | A page is the oldest candles of a window: all but its last are older than that one, and fewer than `PageSize` (`PageBounded`, over a last element that a finite set of integers has, `LastOfSome`) |
| `CleanerLoopProofs!TypeCorrect` | `QueueInv`: what is in a batch is a position that its stream has, a busy worker has a batch, and a publishing one a candle. One lemma per group of actions, since XADD also serves the blocked workers. It uses `SilverInv` for the record that is being cleaned. |
| `CleanerLoopProofs!CleanedOnce` | `SilverInv`: a record in `clean` was claimed by that worker alone and has no line yet; a record with a line was claimed. Streams only grow, so a position names the same record in every later state. |
| `CleanerLoopProofs!DeathCostsOne` | `LossInv` counts the claimed records without a line that are not back in the stream nor in a worker's hands (`Abandoned`): at most `Costs`, which is `deaths` and `rejects`. `Restart` touches neither side: a worker that starts again has nothing in hand. Those in hand are an image of the busy workers (`HeldBounded`), so the sum gives the property. The property is not inductive: it does not say which record a worker holds, so a second record could be lost behind one that is done. |
| `CleanerLoopProofs!NothingPassedOver` | `ReadInv`, for each worker: an entry of its batch opens its stream right after the offset or follows the entry before it (`BatchOf`), a worker without an offset has seen nothing and a blocked one is at the end of its streams (`OffsetsOf`), and the property for that worker (`SkipsOf`). `TrimInv`: what is gone had `MaxLen` entries behind it. `NewsInOrder` and `Joined` say what XREAD hands out. |
| `FeaturePipelineProofs!TypeCorrect` | `TypeInv`: `PlaceInv` says what the process has in hand at each `pc` and that `cut` counts processes that are gone; `GroupInv` that the batch is the rest of a response (`BatchInv`: the last `t` trades and the last `c` candles the group has delivered, the trades first) and pending. `Ranks` and `Deduplicated` say of `DropDuplicates` that the ranks of the last rows are the numbers from one to their count, so that its result is a sequence of rows. |
| `FeaturePipelineProofs!FewStranded`, `LatestExpires` | with `TypeInv`: a batch has at most `2 * Count` entries, and XACK takes the entry it acknowledges out of the batch and the pending list at once |
| `FeaturePipelineProofs!AckedIsStored` | `StoredInv`: what is about to be acknowledged was stored or refused, or has no vector. The ts of a delivered entry never changes (`TsKept`), so what is stored keeps its key. |
| `FeaturePipelineProofs!NoRowIsTwice` | `FileInv`, about files that are good *or being written*: the buffer and the files hold only rows that are `Handled` (delivered and not in the batch any more), nothing twice and no row in common. A flush writes a file whose rows are the buffer's, which is only cleared when the write ends; the property says nothing of the time between. |
| `FeaturePipelineProofs!WindowsKeepAcked` | `WindowInv`: a window is in order, all of it comes before the entries that are not slid in yet, and what has a vector, is acknowledged or about to be and is not older than its first entry is in it. `SlideOrdered`: a slide drops the oldest only. |
| `FeaturePipelineProofs!LittleIsLost` | `LossInv` bounds the lost rows and those in memory together, by what the process can still put into the buffer before it gets to a flush: `FlushAt - 1` rows between two batches, up to `Count` more inside a stream of messages, less those of the stream that are done (`Segment`). `PlaceFalls`: an XACK takes one off `Segment` where the next message is of the same kind, and `_process_messages` flushes where it is not. `KeptInv`: a file in the making has a row for each of the buffer, so the end of a write loses nothing. |
| `FeaturePipelineProofs!TradesAlwaysSound`, `KlinesAlwaysSound`, `FeaturesAlwaysSound` | For any sequence of trades or candles, valid or not, any windows and any history. Induction over the inputs is stated on sets (`AllSequences`: a set that has the empty sequence, and with a sequence each longer one, has all), from the least length that would be missing. `After` is a recursive function, so `AfterIs` first shows that the run exists and is unique. Then a window is the last valid inputs (`SlideLast`), `KlineInv` says what the EMA and the history have seen, a mean lies within its values because a total of terms that are nowhere negative is not (`TotalCombined`, `Averages`), and the shorter of two ends of a sequence is one of the longer (`EndsCompare`, `TotalSuffix`), which bounds the volume ratio. |
| `ModelPromotionProofs!OneModelServed`, `VettedInProduction` | `PromotionInv`: past its search a promotion has a run with metrics, past its registration one with a model, and a version has a stage only from then on. The transition to Production archives the one before. |
| `ModelPromotionProofs!RegressionIsStale` | `BestOfSeen`: metrics never change once they are logged, so the best run stays the best of those the search has seen |
| `PipelineLifecycleProofs!NothingUsedAfterClose`, `ReleasedAtEnd` | `TasksInv`: from the launch to the gather the tasks exist and everything is open; past the gather they are over and the registries are saved. `ReleaseInv`: how far the teardown is tells what it has closed, and `run` what `start` found out about its end. |
| `TypeCorrect` of `AtomicJsonlWriterProofs`, `DedupProofs`, `PipelineLifecycleProofs`, `ModelPromotionProofs`; `RestClientProofs!TokensCorrect` | type invariants, with what is known of the record or key in hand |

Only model-checked: liveness (`DisconnectSettled`, `StopTerminates`, `SyncEnds`,
`BacklogDrained`, `StopEnds`, `FiniteEnds`), since the prover handles neither
fairness nor ENABLED.

## 8. What is not modelled

* Values outside of the calculators: prices, quantities, outlier windows. Only
  the outcome of a validation (valid, invalid, open candle) is kept, and the
  conversions of the schemas between strings and numbers are left out.
* The rounding of floats: `FeatureCalculators` computes with exact ratios, and
  with the square of a deviation.
* The gap trigger of `DataCleaner` on the open times of klines: both Redis
  clients have `publish`, so it goes to a channel that nothing in the
  repository subscribes to and never to `stream:gaps`.
* `read_online`, which changes nothing and which nobody calls.
* The midnight rollover of file names, the order of symbols, more than one
  symbol except in `WebSocketClient`.
* A writer that is slower than the lock timeout while it holds the lock is
  only seen by the others (`LockTimeout`).
* Training itself: the fit, the labels, the synthetic data. A run is its
  metrics and its model. All symbols share one experiment and one registered
  model for each model type, so `ModelPromotion` has no symbol.
* The Redis wrapper: thin methods; the commands have their meaning in the
  modules that use them. Configuration, logging, containers, DVC and notebooks
  have no state of their own.
