# A formal model of pov-db

pov-db collects Indian derivatives market data, computes option analytics once a
day and serves them, overlaid with live quotes, from an API. This directory models
its program logic in TLA+: the modules follow `app/` and `scripts/` line by line
for control and abstract the data; TLC checks them on small instances; TLAPS
proves every safety property of the passing runs for every value of the constants. Paths below are
relative to the repository.

## 1. The system

Three kinds of process share one PostgreSQL database and one Redis:

- the **API** (`app/main.py`, `app/api/routes.py`), many requests at a time;
- the **live worker** (`scripts/live_snapshot_worker.py`), one endless loop;
- the **daily jobs and scripts** (`scripts/`), started by cron or by hand.

Each is an asyncio program: between two awaits of one task any other task, and
between any two calls any other process, may run. Redis and PostgreSQL share no
transaction, and most handlers make several calls to each.

| Component | State | Operations | Hard behaviour | What makes it correct |
|---|---|---|---|---|
| Live quote store (`services/live.py`, `services/cache.py`, `repository.py`) | hashes `live:<symbol>`, key `live:symbols`, table `live_symbol_metrics` | refresh by worker batch or by API request | unordered refreshers, fallback in the middle of a refresh, HSET and EXPIRE apart, crash between stores | rows are whole and never go back; the list names stored rows; the cache is ahead only for a moment |
| Live readers (`api/routes.py`) | none, two awaited reads | merged read, cache-first read, `GET /live/{symbol}` with a refresh on a miss | stores change and keys expire between the reads | never older than the row at the start; no false "not found" |
| Live worker loop (`services/live.py`) | position, date of the last hook | hook, calendar, cycle, log, sleep | everything may raise, also the logging; restart | keeps coming round, tries the hook each day |
| Kite token (`services/live.py`, `routes.py`, `repository.py`) | Redis key, table row, request tokens spent at Kite | lookup, exchange, store, cache | concurrent exchanges and lookups, lost answers, expiry at six | a usable stored session is found; Redis trails the table |
| Dhan token and client (`sources/dhan.py`) | Redis key, throttle | generate, cache, request | token renewal races, static fallback | as for Kite |
| Option summaries and chains (`services/live.py`, `sources/nse_option_chain.py`) | stored expiries, cached instruments; semaphore, throttle, stop event | fetch per symbol and expiry, map to tenors | midnight and stale hints, failed requests, tasks in flight when the stop event is set | tenors are the nearest months; requests are held back after a block |
| EOD pipeline (`etl/pipeline.py`, `scripts/daily_update.py`, recomputation scripts) | option, equity, metric, percentile, straddle and aggregate tables, universe, calendar | one date's stages; many dates; recomputation | overlap, partial failure, left-over tasks, rerun, universe flip | a finished date says what its files say; the universe follows the files |
| Corporate actions (`services/corporate_actions.py`, scripts) | `corporate_actions` | sync, manual edit, resolve, use | a sync overwrites rows, resolution races an edit | factors entered by hand stay; the right close is used |
| Price windows (`corporate_actions.py`) | none | adjust, look for gaps | ex-dates at the edges, holes | adjusted returns are the real ones |
| Audited backfills (`scripts/backfill_*.py`) | run audit, metric columns | run, rerun | interruption between symbols | a completed run leaves percentiles that fit the columns |
| API caches (`routes.py`, `cache.py`) | keys until midnight | read through, invalidate | a late reader restores what was invalidated | stale only where a reader raced |
| Result events (`sources/*_events.py`, `repository.py`) | `events` | fetch, delete by source, upsert | a refresh dies half way, two overlap, a source fails | planned dates are replaced, filed ones kept |
| Downloads (`utils/retry.py`, `sources/`) | attempt counter | download with fallback | transport errors, missing and corrupt files | the first good file wins, failure only without one |
| S3 dump (`services/s3_dump.py`) | subprocess, two pipes, bucket | dump, upload, prune | full pipes, failing dump or upload | it ends; retained dumps stay whole |
| Dashboard shaping, calculations, metadata, deployment | none or floats | pure functions, shell | | see "Not modelled" |

## 2. Modules

| Module | Models | Uses |
|---|---|---|
| `LatestRegister` | what `live_symbol_metrics` promises: one row per symbol, replaced only by a whole payload that is not older | |
| `LiveStore` | all refreshers and the three stores | refines `LatestRegister` |
| `LiveStoreProofs` | theorems about `LiveStore` | EXTENDS `LiveStore` |
| `LiveReads` | readers of the stores in `routes.py`, interleaved with the refreshers | EXTENDS `LiveStore` |
| `KiteToken` | token lookup, exchange and storage by concurrent processes | |
| `LiveReadsProofs` | theorems about `LiveReads` | EXTENDS `LiveReads`, `LiveStoreProofs` |
| `KiteTokenProofs` | theorems about `KiteToken` | EXTENDS `KiteToken` |
| `LiveWorker` | the worker's loop around token lookups | EXTENDS `KiteToken` |
| `EodPipeline` | `run_for_date` in all its callers, and the scripts that recompute dates | |
| `ResultEvents` | refreshes of the RESULT events of a symbol | |
| `CorporateActions` | synchronisation, resolution and use of the actions of a symbol | |
| `MetricBackfill` | the two audited backfills, and the cached responses | |
| `S3Dump` | `pg_dump`, pipes, upload, pruning | |
| `OptionChainFetch` | NSE's tasks, semaphore, throttle, retries, stop event | |
| `OptionSummaries` | expiries asked for and tenors shown | |
| `PriceAdjustment` | price windows adjusted for actions | |
| `Download` | sources of a bhavcopy in order | |
| `Sorting` | `sorted()` on numbers, and a filtered list | used by `OptionSummaries`, `PriceAdjustment` |
| `LiveWorkerProofs` | theorems about `LiveWorker` | EXTENDS `LiveWorker`, `KiteTokenProofs` |
| `EodProofs` | theorems about `EodPipeline` | EXTENDS `EodPipeline` |
| `ActionsProofs` | theorems about `CorporateActions` | EXTENDS `CorporateActions` |
| `JobsProofs` | theorems about `ResultEvents`, `MetricBackfill` and the composition | EXTENDS `MCJobs`, `ActionsProofs` |
| `ServicesProofs` | theorems about the five services and their composition | EXTENDS `MCServices` |
| `MC*` | values for TLC; `MCJobs` and `MCServices` put modules side by side | |

### LiveStore

A refresher is the worker, or an API request. `pc[a]` is the call it is about to
make; every await of the code that touches shared state is an action of its own:

| Code (`app/services/live.py` unless named) | Action |
|---|---|
| `run_live_worker_cycle` begins; `POST /admin/live-quotes`, `GET /live...` | `StartCycle`, `StartRequest` |
| provider call, baseline, option summaries, `_live_quote_payload` | `Fetch` (`NoInstrument`: the early return of the Dhan provider) |
| `CacheService.set_live` | `HSet`, then `Expire`, per symbol in order |
| `set_live_symbols` when `symbols is None` | `SetLiveSymbols` |
| `upsert_live_symbol_metrics`, one atomic `executemany` | `Upsert`, with the `ON CONFLICT ... WHERE` clause in `Upserted` |
| next batch; `latest_live_metrics`; `set_live_symbols` of the cycle | `Return`, `ReadLatest`, `PublishList` |
| `except` of the provider: begin again from Yahoo; any other exception | `Raise`, reached by `Fail` (no effect), `LoseAnswer` (the upsert committed) |
| a process dies, or `log_error` raises | `Crash` |

A payload is a record of two stamps: `snapshot`, the one `datetime.now(IST)` of the
refresh, and `option`, the stamp of the fields a payload has only when an option
summary was fetched. That is all the properties distinguish. `HSET` merges fields,
the upsert replaces the row; `Merge` and `Upserted` are the two.

Some properties hold only until something has happened: a request beside the
worker, a refresh of the whole universe, a failed call. The history variable `seen`
records which of these has happened; no action reads it.

### LiveReads

`ReadTable` and `OverlayCache` are `_live_payloads_by_symbol` (table, then cache,
newer wins), `ReadCache` and `FallBack` are `_latest_live_payload`, and `GetLive`,
`Refreshed`, `ReadAgain`, `ReadStored` the path of `GET /live/{symbol}` after a
cache miss; its refresh is a refresher of `LiveStore`. `floor` and `known` remember
what was stored at the start, for the properties only. A hit of the first cache read of
`GET /live/{symbol}` is answered at once and changes nothing, so it has no action.

### KiteToken and LiveWorker

An access token is the time of its login; its expiry is computed from it by
`_kite_access_token_expiry`. `GetCached`, `ReadRow`, `Exchange`/`Refuse`, `Store` and
`Cache` are the calls of `_kite_access_token` and `generate_kite_access_token`.
`Refuse` also stands for a lost answer: the request token is spent and the retry is
refused. `issued` holds the request tokens that exist, 0 being `KITE_REQUEST_TOKEN`:
whether it is configured is chosen in `TokenInit`. The history variable `seen`
records (`"overlap"`) that an exchange succeeded while the token of another was still
to be stored: the upsert is unconditional, so after that the row may go back to an
earlier login and the properties claim nothing.

`LiveWorker` adds the loop of `live_worker_loop`, with `MayLogOr` for every
`log_error`: it may raise when `LogFails`. A refresh is reduced to its token lookup
and to whether Kite, then Yahoo, raised.

### The batch jobs: EodPipeline, ResultEvents, CorporateActions, MetricBackfill

In each of them a process is a place in its code, every SQL statement an action, and
any process may die between two (`AbortRun`, `AbortRefresh`, `AbortLoad`,
`EndBackfill`).

`EodPipeline` follows `run_for_date`: `StartRun` (files fetched), `UpsertOptions`,
`UpsertEquity` with the indices Yahoo answered, `Discover`, then for each symbol under
the semaphore `ReadSpot`, `DeriveContracts`, `ReadBack`, `UpsertMetric`,
`UpsertStraddle` (the steps of `compute_symbol_day`), `Percentiles`, `Aggregates`; the
daily update goes on with `UpsertCalendar`, `Deactivate`, `Activate`. `StartScript` with
`NextDate`, `SkipDate`, `NoDateLeft`, `PopulateCalendar` are the scripts of many dates,
`StartIndexBackfill` to `SelectIndexDates` the statements of
`backfill_index_history.py` before its dates, and `ResetStraddles`, `RefillStraddles`
the two statements of `recompute_straddle_pnl.py`. `scope` is the option `--symbols`,
`dates` and `span` the range of a script. When a symbol raises, `gather` raises and the
tasks of the other symbols go on: `SymbolRaises` leaves them at stage `left`, beside
whatever their process does next.

What a file says of a symbol is data (`Fo`, `Cm`, `Smile`, `Skew`, `Legs`,
`Refillable`). A run keeps the spot it has read for its metric and its straddle, while
the contracts it reads back may meanwhile have been derived at the spot of another run:
`Smile` gives the IV for both spots, so that a late cash file or index quote makes a
difference. `Legs` are the spots for which a load finds both legs: it takes the expiry
of the metric or, without one, the first bucket of the expiries not before the date
(`pipeline.py:366`), and the open or, without one, the close (`pipeline.py:172`).
`recompute_straddle_pnl.py:106` has neither of the two fallbacks: it fills in only the
symbols of `Refillable` that have a bar on the date. No bar opens at 0, which the two
would treat differently as well.

`finished`, `clean`, `files`, `since` and `wrote` are history, which no action reads:
which runs were alone on their date with all dates before it finished, which files the
universe was made from, and which program was the last at each straddle.

`ResultEvents` has one row per date with its source. `YahooFails` is the tolerant
path of the daily update, and `--skip-yahoo`. `CorporateActions` names a factor by
where it comes from (declared terms, a hand, the date of the close), which tells a
factor of the right close from one of the wrong close. `MetricBackfill` commits symbol
by symbol, ranks date by date and deletes the keys it scanned; a reader misses,
queries and fills.

### The services: S3Dump, OptionChainFetch, OptionSummaries, PriceAdjustment, Download

`S3Dump` counts the bytes in the two pipes; `UploadReads`, `DrainStderr` and
`PgWrites` are the three concurrent parties. `OptionChainFetch` has one task per
symbol; `Acquire`, `ThrottleLock`, `Send`, the answers and `FailForGood` lie between
its awaits, and `timer` is what a task still sleeps. `OptionSummaries` follows one
symbol through a refresh: `KiteTargets`, `DhanTargets` and `NseTargets` are the three
ways to choose expiries, `BuildPayload` gives them to the tenors. `PriceAdjustment`
uses logarithms of prices, so that a multiplier is a summand, and takes verified
multipliers to be right; `STATUS_INVALID` (a missing price) is left out.
`Download` asks Samco, then NSE's URLs; HTTP statuses are looked at after
`retry_async` has returned, so an error status fails the call at once (`CallFails`).

## 3. Runs

| Run | Instance | Shows |
|---|---|---|
| `LiveStore` | 1 symbol, worker and a request for it, Dhan with fallback, all faults, fairness | `TypeOK`, `StoredPayloadsWhole`, `RedisNeverBehindDb`, `DbNeverOlder`, `RefreshReturns`, and that the table implements `LatestRegister` |
| `LiveStoreLists` | 2 symbols in 2 batches, requests for one symbol, for a list of both (the first only) and for all, no faults | `RedisAheadOnlyInFlight`, `ListTrailsDb`, `ListNeverShrinks` |
| `LiveStoreMerge` (violated) | no faults | `RedisPayloadsWhole` fails, finding 1 |
| `LiveReads` | a reader of both kinds, a caller of `GET /live/{symbol}`, the worker, failing EXPIRE and upsert | `MergedReadFresh`, `LatestReadFindsRow`, `LatestReadServes`, `NotFoundOnlyUnknown` |
| `KiteToken` | 2 lookups, an operator with a login, with and without `KITE_REQUEST_TOKEN`, all faults, two expiries | `TokenTypeOK`, `RedisTrailsTable`, `LookupServed` |
| `KiteTokenStatic` (violated) | request token and static token configured | `StaticServes` fails, finding 2 |
| `LiveWorker` | worker and operator, with and without `KITE_REQUEST_TOKEN`, Redis and database outages, failing log, one kill | `WorkerComesRound`, `HookAttempted` |
| `LiveWorkerLog` (violated) | logging may fail | `WorkerKeepsRunning` fails, finding 3 |
| `Jobs` | one of: three loads of two dates by an update and another process; two jobs of any kind; three refreshes of events; three loads and syncs over four dates with two actions; two backfills with a reader | `FinishedDaysExact`, `UniverseFollowsFiles`, `PlannedReplaced`, `ManualFactorKept`, `LoadUsesRightFactors`, `CompletedRunSettles`, `StaleOnlyIfRaced` |
| `Services` | one of: three dumps of four dates; three symbols at NSE with two permits; one symbol over five days under each provider; every price history of four bars with two actions; every choice of published and corrupt files | `WholeDumpKept`, `DumpEnds`, `RequestsHeldBack`, `TenorsNearest`, `ReturnsRestored`, `FirstFileWins` |
| `OptionTenors` (violated) | Kite, Dhan or NSE, any request may fail | `TenorsFollowHints` fails, finding 4 |
| `FiledDates` (violated) | one daily update, two dates, two refreshes | `FiledDatesKept` fails, finding 5 |

`Jobs` and `Services` put modules that share no variable side by side: an extra
variable chosen at the start says which one moves, so a behaviour is one of that
module's and the run explores the sum of their state spaces, not the product. The
end-of-day jobs are explored twice, as `loads` (three starts, loads of one date only)
and as `scripts` (two starts, any kinds). `Bounds` in `MCJobs` cuts these two: the first
of three loads has ended when the second starts; of two jobs that overlap the daily
update starts first; an initialization is given both days or none and meets an update
of the last one only; and a single symbol is given (`--symbols`) to an update or to
`recompute_straddle_pnl`. That leaves 2.2 million states for all jobs together.

**Bounds.** `MaxClock` stops the clock, `MaxLogins` the logins, `MaxKills` the kills
of the worker; nothing else is unbounded. `FirstList` in `MCLiveStore` gives a
list of both symbols to the first request only. Two stamps suffice to reorder two
refreshes, and a tick to let a key of the first expire before the second stores.
One symbol suffices where the property is per symbol and the stores do not relate
symbols; two where batches, the list or the order of writes matter. Two concurrent
refreshers (worker and request) show every pairwise interleaving, and the proofs
hold for any number; so do those of the jobs and services. The day of the token has four ticks and ends it after the
first; the run spans two ends, which covers a key that outlives its token and a
session opened just before six. Readers of the token are interchangeable, and the
run `KiteToken` uses that as symmetry; it checks invariants only. Deadlock is
checked in the runs of the live modules, whose processes can always begin something.
The jobs and services stop when their bounds (`MaxRuns`, `MaxRefreshes`, `MaxLoads`,
`MaxEdits`, `MaxBackfills`, `MaxReads`, `MaxDumps`, the last day of a calendar) are
used up, and there deadlock is not checked.

Two dates with `Lag`, `MinHistory` and `HistoryWindow` at 1 make the second date
depend on the first; an index and a stock whose file entries differ between the dates
make the universe change; the last expiry of the stock is the first date, so that a
recomputation of straddles skips what a load had; two concurrent runs, and a third after them, give a rerun
beside or after a dead run. Two refreshes of events overlap and a third settles. One
action with declared and one with derivable terms, on neighbouring ex-dates, over
four dates give holes in the bars before each; with `Back`, `Window` and `Span` at 2 a
hole also makes a window of two bars too wide, the status `SPARSE`, while `Back`
still reaches as far as the window does (`Span <= Back`, 85 and 180 days in the code). Three rows with a look-back of one
have a row whose percentile depends on a changed neighbour. A pipe of one byte, two
bytes on each pipe and a retention of one day fill the pipes and prune. Two permits
for three tasks leave one task waiting while another is refused. A weekly and a
monthly expiry in one month and monthly ones after it tell the buckets from the list.
Four bars hold windows of one and two returns with an action before, inside and after
each.

**Fairness.** `Fairness` is weak fairness of each refresher's next call: the event
loop resumes a task whose await is done, and every call either returns or raises
(clients have timeouts), which `Fail` leaves open. Nothing is assumed of the clock,
of failures or of new requests. `WorkerFairness` is the same for the worker's loop
and its token calls, and for `Restart`: `docker-compose.prod.yml:46` restarts the
container unless it is stopped by hand. The loop's pause is finite. A worker that is
killed for ever just before the hook never tries it: hence `MaxKills`.
`DumpFairness` is weak fairness of `pg_dump`, of the draining thread and of the
upload: the operating system schedules all three and boto3 has timeouts. That
anything raises is not relied upon. The batch jobs need none: their properties are
safety.

**Findings.**

1. A hash keeps the option fields of earlier payloads (`cache.py:49`), while
   `docs/architecture/database-dictionary.md:299` says Redis and table get the same
   payload.
2. With `KITE_REQUEST_TOKEN` configured the static token is never reached, against
   `database-dictionary.md:317`.
3. The handler that is commented "worker must keep running" (`live.py:793`) awaits an
   INSERT into the database that may have failed; if that raises the worker ends.

4. `_live_forward_metrics` (`live.py:1686`) gives `iv_30`, `iv_60`, `iv_90` to the
   terms that came back in their order: one failed request moves the later expiries
   up, against `docs/architecture/live-option-chain.md:132`.
5. `upsert_events` (`repository.py:389`) hands a date NSE filed to Yahoo when both
   have it; the next deletion of Yahoo's future dates loses it if the refresh dies or
   its sources do not answer the date again, against
   `docs/architecture/data-sources.md:49`, "NSE remains the source of truth".

Further divergences were met while modelling and have no run of their own:
`docs/operations/retries-errors-validation.md:17-25` lists HTTP 408 to 504 as retried, but
the clients look at the status after `retry_async` (`nse.py:80`); the forward-factor
percentiles of a live payload (`routes.py:2252`) rank non-null values among the last
252 rows, where `database-dictionary.md:131` says the last 252 non-null values;
`docs/operations/corporate-action-rv-remediation.md:123` says a load fails when the
synchronisation does, which the daily update does not ask for; a dump that fails
half way leaves a truncated object under its date (`s3_dump.py:66`);
`recompute_straddle_pnl.py` turns the straddle of a symbol whose last listed expiry is
the date into `NO_EXPIRY`, and one whose bar has no open into `MISSING_LEGS`, where the
load had a result; and that load's fallback itself (`pipeline.py:367`) is against
`docs/operations/retries-errors-validation.md:121`, "Straddle expiry equals the
`symbol_daily_metrics.expiry_30d` monthly bucket"; a daily update with `--symbols`
loads those symbols only but rebuilds the universe from the whole file;
a stock whose straddles are all skipped keeps its old aggregates; and
`populate_calendar` marks a working day without files as no trading day.

Four weaknesses have no document against them and are left as hazards: a hash whose
writer failed between HSET and EXPIRE has no expiry until the symbol is refreshed
again; a cache-first read can go back in time when two refreshers write a hash in
the wrong order; a list of symbols or sectors computed between the two statements that
rebuild the universe (the old symbols, or none) is cached until midnight
(`routes.py:1140`, `routes.py:2470`); and `broker_access_tokens` goes back to an earlier login when two
exchanges overlap.

## 4. Proofs

Every invariant and action property of the passing runs is a theorem, for every
value of the constants the assumptions allow. The live modules:

| Module | Theorem | Statement | Argument |
|---|---|---|---|
| `LiveStoreProofs` | `TypeCorrect` | `Spec => []TypeOK` | inductive as it stands |
| | `NeverOlder` | `Spec => DbNeverOlder` | only `Upserted` writes rows, under `TypeOK` |
| | `PayloadsWhole` | `Spec => []StoredPayloadsWhole` | `StoreInv` |
| | `Refinement` | `Spec => RegisterSpec` | `StoreInv`: a commit offers payloads of one stamp, every other step stutters |
| | `ListTrails` | `Spec => []ListTrailsDb` | until a full request no refresh writes the list, and the rows the worker holds trail the table, which never goes back |
| | `ListKept` | `Spec => ListNeverShrinks` | a listed symbol has a row, rows are never deleted, so the next publication reads it |
| | `AheadOnlyInFlight` | `Spec => []RedisAheadOnlyInFlight` | a written hash belongs to a payload still held; the commit catches up |
| | `CacheNotBehind` | `Spec => []RedisNeverBehindDb` | `WorkerInv` |
| `LiveReadsProofs` | `ReadsKeepStore` | `ReadSpec => Spec` | a step of a reader is a stutter of the store, a request's refresh is one of its refreshers: every theorem above carries over |
| | `ReadTypeCorrect` | `ReadSpec => []ReadTypeOK` | inductive with `TypeOK` |
| | `MergedFresh` | `ReadSpec => []MergedReadFresh` | `ReadInv` |
| | `LatestFinds`, `LatestServes` | `ReadSpec => []LatestReadFindsRow`, `...[]LatestReadServes` | `ReadInv`, `CacheNotBehind`, and that a later time has no earlier day |
| | `NotFoundUnknown` | `ReadSpec => []NotFoundOnlyUnknown` | `ReadInv` and `ReturnInv` |
| `KiteTokenProofs` | `TypeCorrect` | `TokenSpec => []TokenTypeOK` | inductive as it stands |
| | `RedisTrails` | `TokenSpec => []RedisTrailsTable` | `TokenInv` |
| | `LookupsServed` | `TokenSpec => []LookupServed` | `TokenInv` and `ExpiryMonotone` |
| `LiveWorkerProofs` | `WorkerKeepsTokens` | `WorkerSpec => [](TokenTypeOK /\ RedisTrailsTable /\ LookupServed)` | the worker adds two steps to `TokenNext`, the exchange of the hook and a death; both keep `TokenInv` |
| | `WorkerTypes`, `WorkerWaits` | `WorkerSpec => []WorkerTypeOK`, `...[]WaitsForOwnCalls` | `LoopInv` |
| | `HookTriedOnce` | `WorkerSpec => HookOncePerDay` | `LoopInv`: the date of the hook is not in the future |

`StoredPayloadsWhole` alone is not inductive: it says nothing of what refreshers
hold and are about to store. `StoreInv` adds that each refresher's payloads carry one
stamp. `RedisNeverBehindDb` needs `WorkerInv`: until the first request nothing is
stamped in the future, what the worker has still to store is not older than the row,
and a hash it has written in this refresh carries that stamp or has expired. The
answers of readers need `ReadInv`, what a read holds between its two calls (the row it
has read is its floor; the table still has a row at least as new), and `ReturnInv`: a
refresh that is about to return has stored what it fetched, or something newer was
stored before. For tokens, `TokenInv` says that while exchanges are stored one by one
the row does not go back: what an actor has read, and what it saw when it began, is at
most as new as the row, and the one token that is on its way to the table is at least
as new as the row. `WaitsForOwnCalls` and `HookOncePerDay` are no properties of a
run: they say of `LiveWorker` what makes the composition of loop and token calls
sound, that the worker has a token call under way exactly while its loop waits for it.

The jobs:

| Module | Theorem | Statement | Argument |
|---|---|---|---|
| `EodProofs` | `EodTypes` | `EodSpec => []EodTypeOK` | `EodTypeInv` |
| | `UniverseFollows` | `EodSpec => []UniverseFollowsFiles` | `FilesInv` |
| | `FinishedExact` | `EodSpec => []FinishedDaysExact` | `RowsInv`, `CleanInv`, `FinishedInv` |
| `ActionsProofs` | `ActionsTypes` | `ActionsSpec => []ActionsTypeOK` | `ActionsInv` |
| | `ManualKept` | `ActionsSpec => ManualFactorKept` | a row with a factor by hand is `VERIFIED`, and the update asks for `PENDING_FACTOR` |
| | `RightFactors` | `ActionsSpec => LoadUsesRightFactors` | `LoadInv` |
| `JobsProofs` | `PlannedDatesReplaced` | `EventsSpec => [](EventsTypeOK /\ PlannedReplaced)` | `EventsInv` |
| | `RestartSafe`, `StaleRaced` | `BackfillSpec => [](BackfillTypeOK /\ CompletedRunSettles)`, `...[]StaleOnlyIfRaced` | `BackfillInv`: `RankInv` and `CacheInv` |
| | `JobsKeepSpecs` | `JobsSpec =>` the four specifications | no job writes a variable of another |
| | `JobsTypes` | `JobsSpec => []JobsTypeOK` | the above |

`FinishedDaysExact` speaks of dates at rest; what can spoil it is under way. `RowsInv`
says that tables and tasks hold rows of the file's symbols only and that a spot of the
date itself is that of a bar there. `CleanInv` follows a run that has its date to
itself: nobody else computes it, all dates before it are finished, and every metric it
has stored at the spot of the date is the true one. `FinishedInv` says that a finished
date is exact together with everything a task is about to store there: its own spot is
that of the date, and so are the contracts when it reads them back, since a task on a
finished date, or of a run without rivals, is `Undisturbed`. That is why a rerun, or a
task a failed `gather` left behind, can only write what is there already. Straddles
need more: `StraddleRight` says of each what the program that was last at it makes of
the files, since a load and `recompute_straddle_pnl` choose differently. Two lemmas
carry the arithmetic: `LatestDays`, that the k-th of the latest days is the earliest of
the k latest (the code's `order by ... limit` against the definition), and
`RankedLocal`, that the percentiles of a date look at no later one. `UniverseFollows`
holds for every `Scopes`, loads with `--symbols` included: `files` and `since` record
the symbols a load wrote.

`LoadInv` follows a load that nobody disturbs through its statements: after the
upsert each action it asked for is as its text says, before the update every pending
one with a close before its ex-date has its factor in hand, and at the computation each
is resolved. `EventsInv` adds that a refresher which is still alone and has deleted
leaves no planned date of Yahoo from its first date on. `RankInv` says of a backfill
without rivals that what it has ranked so far agrees with the columns; `CacheInv` that
whoever holds, or may still cache, a response older than the invalidation of its key
has raced it.

The services, each proved with its types:

| Theorem of `ServicesProofs` | Statement | Argument |
|---|---|---|
| `DownloadFirstFile` | `DownloadSpec => [](DownloadTypeOK /\ FirstFileWins)` | `DownloadInv`: all trouble is before the place that is being asked, no sound file is |
| `DumpKept` | `DumpSpec => [](DumpTypeOK /\ WholeDumpKept)` | `DumpInv`: the date being dumped is not kept, and what is to be pruned is too old for every cut-off to come |
| `FetchTypes`, `RequestsKeepDistance` | `FetchSpec => []FetchTypeOK`, `... => RequestsHeldBack` | `FetchInv`: one task sleeps in the throttle, and its timer and the quiet time add up to the interval; a task that asked after the refusal is at that expiry or done |
| `RightReturns` | `AdjustSpec => [](AdjustTypeOK /\ ReturnsRestored)` | `AdjustedLevel`: multipliers before a bar are in its price, those after it are put in, and together they are the same for all bars |
| `NearestTenors` | `SummariesSpec => [](SummariesTypeOK /\ TenorsNearest)` | `SummaryInv`: each list of expiries is nearest first on every day from now on (`Nearest`), Kite's instruments are those of some day before (`Segment`) |
| `ServicesKeepSpecs`, `ServicesTypes` | `ServicesSpec =>` the five specifications; `[]ServicesTypeOK` | no service writes a variable of another |

Lists and sums have lemmas of their own there: `AscendingSorts` and `KeepFilters` for
`Sorting`, and `SumTakeOut` and `SumUnion`, that a fold of `+` over a finite set depends
neither on the order nor on the split. They need induction over a set, which the
provers cannot take from a theorem with a predicate as its parameter; they use instead
that some counterexample has the fewest members (`SmallestSubset`, from the
well-foundedness of `<` on `Nat`). `SumOver` takes a function for the same reason, and
`Sorting` exists because the library's `SetToSortSeq` and `SelectSeq` have no
definition the provers can expand.

The proofs changed the model where it could not mean what it should: in
`AdjustForActions` the arms of a `CASE` overlapped, and a `CASE` does not say which of
them wins; it is an `IF` in the order of the code now. `SPARSE` became a status of
`CorporateActions`, because a window wider than the look-back of the synchronisation
would use actions no load asks for: the code rules that out by the span of 85 days.

**Assumptions** are those named in the modules: the universe is ordered, the worker
is no API caller, times and bounds are positive, sets that are counted or summed
over (`Actions`, `SplitActions`, `Expiries`) are finite, months do not go back with
the expiries, `Span <= Back`, `BackHistory <= Tail`. TLC evaluates each of them in a
run. Every theorem holds for every set of fault points, the empty one included.

**Only model-checked**: `RefreshReturns`, `WorkerComesRound`, `HookAttempted` and
`DumpEnds`, since liveness under fairness is out of the prover's reach; and the five
violated properties, whose counterexamples are TLC's.

## 5. Plan

The model is complete in the sense of section 6, and its safety properties are
proved. What is left are abstract specifications beside `LatestRegister`, with the
refinements proved step by step:

1. `OptionChainFetch` as a paced sequence of requests that a refusal ends;
   `RequestsHeldBack` would follow from it.
2. `KiteToken` as a register that moves forward while exchanges do not overlap.
3. `MetricBackfill` and its readers as a cache with explicit races, which the other
   invalidating scripts could share.
4. `ReadSpec => RegisterSpec` and the store's invariants among readers as corollaries
   of `ReadsKeepStore`, stated where a reader of `LiveReads` looks for them.

## 6. Not modelled

- Floating-point analytics (`services/calculations.py`, implied and forward
  volatility): TLC has no reals. What they are applied to (price windows, buckets,
  lagged values, percentile windows) is modelled.
- Parsing of downloaded files, clients of Yahoo and of the rates, symbol metadata,
  response shaping, filters, sorting and paging of the dashboard: stateless conversion.
- The Dhan token: the lookup is that of `KiteToken` with a margin and a static
  fallback. `live_snapshots` and the full option chain of an endpoint; the cookies
  NSE's client primes its session with; `/health`.
- `term_structure:*` and `vol_cone:*`, which one backfill each leaves in the cache,
  are not told apart from the other keys in the run.
- Event flags and metadata of the daily update, and delays between attempts.
- Authentication of providers beyond tokens, configuration, deployment scripts.
- `GET /live` for the whole universe: its cache hit and its refresh are covered by
  `StartRequest`, its answer is the list `live:symbols`.
- Clock skew between the processes: one clock is assumed, as in the deployment on
  one host. The snapshot guard of the table compares stamps of different processes.
- A universe that changes during a refresh.
