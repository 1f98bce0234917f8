----------------------------- MODULE EodPipeline -----------------------------
(***************************************************************************)
(* The end-of-day load of one trade date, Pipeline.run_for_date, as the    *)
(* daily update and POST /admin/trigger-pipeline run it: the files are     *)
(* upserted, every symbol is computed under a semaphore, percentiles and   *)
(* aggregates are refreshed, and the daily update then rebuilds the        *)
(* universe.  Beside it run the scripts that load or recompute many dates: *)
(* initialize_market_data, recompute_analytics, backfill_index_history and *)
(* recompute_straddle_pnl.  All overlap, are repeated and die between any  *)
(* two statements.  Corporate actions, events, metadata and the S3 dump    *)
(* are left to CorporateActions, ResultEvents and S3Dump.                  *)
(***************************************************************************)
EXTENDS Naturals, FiniteSets, FiniteSetsExt

CONSTANTS Runs,        \* the processes
          Kinds,       \* [Runs -> SUBSET JobKinds]: what each may be started as
          Symbols, Indices,
          LastDay,     \* trade dates are numbered
          Fo, Cm,      \* [Days -> SUBSET Symbols], the bhavcopies
          Smile,       \* [Days -> [Symbols -> [Days \X Days -> Nat]]]: the ATM IV of a
                       \* chain at the spot of one day, its contracts derived at that
                       \* of another; 0 is NULL
          Skew,        \* [Days -> [Symbols -> Nat]], skew_25, 0 is NULL
          Legs,        \* [Days -> [Symbols -> SUBSET Days]]: the spots for which a load
                       \* finds both ATM legs priced, in the metric's expiry or else
                       \* in the first one not before the date
          Refillable,  \* [Days -> SUBSET Symbols]: the metric names an expiry and the
                       \* bar of the date an open, which a recomputation needs
          Scopes,      \* the values of the argument symbols
          Permits,     \* pipeline_compute_concurrency
          Lag, MinHistory, HistoryWindow,   \* 20, 60, 252
          MaxRuns      \* bound: how many runs are started

Days == 1 .. LastDay
OneDay == {"update", "request"}
JobKinds == OneDay \cup {"initialize", "recompute", "index", "straddle"}

ASSUME EodAssumption ==
  /\ Kinds \in [Runs -> SUBSET JobKinds] /\ Indices \subseteq Symbols
  /\ LastDay \in Nat \ {0}
  /\ Fo \in [Days -> SUBSET Symbols] /\ Cm \in [Days -> SUBSET (Symbols \ Indices)]
  /\ Legs \in [Days -> [Symbols -> SUBSET Days]] /\ Refillable \in [Days -> SUBSET Symbols]
  /\ Lag \in Nat \ {0} /\ MinHistory \in Nat \ {0} /\ HistoryWindow \in Nat
  /\ Scopes \subseteq SUBSET Symbols /\ Permits \in Nat \ {0} /\ MaxRuns \in Nat

VARIABLES
  options, equity,     \* {<<day, symbol>>}: the rows loaded
  spotUsed,            \* [Days -> [Symbols -> Nat]]: the spot the contract IVs were derived from
  universe,            \* [Symbols -> {"absent", "inactive", "active"}]
  calendar,            \* the trading days of trading_calendar
  metric, rank, straddle,   \* the rows of symbol_daily_metrics and straddle_pnl
  aggregate,           \* [Symbols -> SUBSET Days]: the straddles averaged
  kind, stage, day, scope, dates, span,   \* of each run: dates are those it still has to
                       \* do, span the range an initialization was given
  task, row,           \* of each run: where each symbol is, its spot and later its metric
  started,             \* how many runs were started
  clean, finished, wrote, files, since   \* history: see StartRun, Percentiles,
                       \* ResetStraddles, Discover

database == <<options, equity, spotUsed, universe, calendar, metric, rank, straddle, aggregate>>
histories == <<clean, finished, wrote, files, since>>
eodVars == <<database, kind, stage, day, scope, dates, span, task, row, started, histories>>

NoRow == [spot |-> 0, iv |-> 0, vrp |-> 0, skew |-> 0]
AtSpot(e) == [NoRow EXCEPT !.spot = e]
NoRank == [iv |-> <<0, 0>>, vrp |-> <<0, 0>>, place |-> 0]
Stages == {"idle", "options", "equity", "discover", "compute", "percentiles",
           "aggregates", "calendar", "deactivate", "activate", "next", "populate",
           "bars", "indices", "select", "refill", "left"}

EodInit ==
  /\ options = {} /\ equity = {} /\ calendar = {}
  /\ spotUsed = [d \in Days |-> [s \in Symbols |-> 0]]
  /\ universe = [s \in Symbols |-> "absent"]
  /\ metric = [d \in Days |-> [s \in Symbols |-> NoRow]]
  /\ rank = [d \in Days |-> [s \in Symbols |-> NoRank]]
  /\ straddle = [d \in Days |-> [s \in Symbols |-> "none"]]
  /\ aggregate = [s \in Symbols |-> {}]
  /\ kind = [p \in Runs |-> "request"] /\ dates = [p \in Runs |-> {}]
  /\ stage = [p \in Runs |-> "idle"] /\ day = [p \in Runs |-> 1]
  /\ scope = [p \in Runs |-> {}] /\ span = [p \in Runs |-> {}] /\ started = 0
  /\ task = [p \in Runs |-> [s \in Symbols |-> "no"]]
  /\ row = [p \in Runs |-> [s \in Symbols |-> NoRow]]
  /\ clean = {} /\ finished = {} /\ files = {} /\ since = {}
  /\ wrote = [d \in Days |-> [s \in Symbols |-> "load"]]

Go(p, from, to) == stage[p] = from /\ stage' = [stage EXCEPT ![p] = to]
runArgs == <<kind, day, scope, dates, span, started>>
taskVars == <<task, row>>
FoRows(p) == Fo[day[p]] \cap scope[p]
CmRows(p) == Cm[day[p]] \cap scope[p]
-----------------------------------------------------------------------------
Rivals(d) == {q \in Runs : stage[q] # "idle" /\ day[q] = d}

\* The files of a date are fetched; a fetch that raises ends the run before this.
\* The run is clean when it finds the dates before its own finished and no other
\* run works on the same date, as long as it stays so.
StartRun(p) ==
  /\ started < MaxRuns /\ started' = started + 1
  /\ Go(p, "idle", "options")
  /\ \E k \in Kinds[p] \cap OneDay, d \in Days, only \in Scopes :
       /\ kind' = [kind EXCEPT ![p] = k]
       /\ day' = [day EXCEPT ![p] = d] /\ scope' = [scope EXCEPT ![p] = only]
       /\ clean' = (clean \ (Rivals(d) \cup {p})) \cup
                   {q \in {p} : Rivals(d) = {} /\ only = Symbols /\ 1 .. d - 1 \subseteq finished}
  /\ UNCHANGED <<database, dates, span, taskVars, finished, wrote, files, since>>

UpsertOptions(p) ==
  /\ Go(p, "options", "equity")
  /\ options' = options \cup {<<day[p], s>> : s \in FoRows(p)}
  /\ UNCHANGED <<equity, spotUsed, universe, calendar, metric, rank, straddle, aggregate,
                 runArgs, taskVars, histories>>

\* Yahoo answers for some of the indices; the errors of the others are only reported.
IndexAnswers(p) == SUBSET (FoRows(p) \cap Indices)

UpsertEquity(p) ==
  /\ Go(p, "equity", "discover")
  /\ \E answered \in IndexAnswers(p) :
       equity' = equity \cup {<<day[p], s>> : s \in CmRows(p) \cup answered}
  /\ UNCHANGED <<options, spotUsed, universe, calendar, metric, rank, straddle, aggregate,
                 runArgs, taskVars, histories>>

\* Mutant of Discovered: the cash file is merged last.
DiscoveredFromCash(p) ==
  [s \in Symbols |-> IF s \in CmRows(p) THEN "inactive"
                     ELSE IF s \in FoRows(p) THEN "active" ELSE universe[s]]

\* _discovered_symbols: a symbol of the cash file alone is made inactive.  files
\* records the F&O symbols written since the universe was last rebuilt, since those
\* written from the first statement of a rebuild on.
Discovered(p) ==
  [s \in Symbols |-> IF s \in FoRows(p) THEN "active"
                     ELSE IF s \in CmRows(p) THEN "inactive" ELSE universe[s]]

Discover(p) ==
  /\ Go(p, "discover", "compute")
  /\ universe' = Discovered(p)
  /\ files' = files \cup {FoRows(p)} /\ since' = since \cup {FoRows(p)}
  /\ task' = [task EXCEPT ![p] = [s \in Symbols |-> IF s \in FoRows(p) THEN "todo" ELSE "no"]]
  /\ UNCHANGED <<options, equity, spotUsed, calendar, metric, rank, straddle, aggregate,
                 runArgs, row, clean, finished, wrote>>
-----------------------------------------------------------------------------
\* equity_ohlc_window ends at the last bar up to the date, which need not be its own.
SpotDay(d, s) == {e \in 1 .. d : <<e, s>> \in equity}

Busy(p) == {s \in Symbols : task[p][s] \in {"priced", "derived", "read", "measured"}}
Place(p, s, from, to) ==
  /\ stage[p] \in {"compute", "left"} /\ task[p][s] = from
  /\ task' = [task EXCEPT ![p][s] = to]
  /\ UNCHANGED <<stage, runArgs>>
Move(p, s, from, to) == Place(p, s, from, to) /\ UNCHANGED histories

\* The start of compute_symbol_day: the spot of the last bar, kept by the run for its
\* metric and its straddle; without a bar there is nothing to compute.
ReadSpot(p, s) ==
  /\ Cardinality(Busy(p)) < Permits
  /\ \/ SpotDay(day[p], s) = {} /\ Move(p, s, "todo", "no") /\ UNCHANGED row
     \/ /\ SpotDay(day[p], s) # {} /\ Move(p, s, "todo", "priced")
        /\ row' = [row EXCEPT ![p][s] = AtSpot(Max(SpotDay(day[p], s)))]
  /\ UNCHANGED database

\* update_contract_derived: one transaction gives every contract its IV at that spot.
DeriveContracts(p, s) ==
  /\ Move(p, s, "priced", "derived")
  /\ spotUsed' = [spotUsed EXCEPT ![day[p]][s] = row[p][s].spot]
  /\ UNCHANGED <<options, equity, universe, calendar, metric, rank, straddle, aggregate, row>>

\* The latest k days before d on which the rows of s hold a value in the column.
HistoryDays(d, s, k, column) ==
  LET held == {e \in 1 .. d - 1 : metric[e][s][column] # 0}
  IN {e \in held : Cardinality({f \in held : f > e}) < k}

\* Mutant of LaggedIv: the row of the date itself, there in a rerun, is counted.
LaggedIvFromToday(d, s) ==
  LET days == HistoryDays(d + 1, s, Lag, "iv")
  IN IF Cardinality(days) < Lag THEN 0 ELSE metric[Min(days)][s].iv

\* lagged_iv30: the Lag-th latest IV before the date, NULL when there are fewer.
LaggedIv(d, s) ==
  LET days == HistoryDays(d, s, Lag, "iv")
  IN IF Cardinality(days) < Lag THEN 0 ELSE metric[Min(days)][s].iv

\* _compute_metric, at the run's own spot, from a fresh chain that another run may have
\* derived at a different one.
ComputedMetric(d, s, spot) ==
  [spot |-> spot, iv |-> Smile[d][s][<<spot, spotUsed[d][s]>>], skew |-> Skew[d][s], vrp |-> 0]

\* The fresh chain and the lagged IV make the metric of the day.
ReadBack(p, s) ==
  /\ Move(p, s, "derived", "read")
  /\ row' = [row EXCEPT ![p][s] =
                [ComputedMetric(day[p], s, row[p][s].spot) EXCEPT !.vrp = LaggedIv(day[p], s)]]
  /\ UNCHANGED database

\* upsert_daily_metric leaves the percentiles of the row alone.
UpsertMetric(p, s) ==
  /\ Move(p, s, "read", "measured")
  /\ metric' = [metric EXCEPT ![day[p]][s] = row[p][s]]
  /\ row' = [row EXCEPT ![p][s] = AtSpot(row[p][s].spot)]
  /\ UNCHANGED <<options, equity, spotUsed, universe, calendar, rank, straddle, aggregate>>

\* _compute_straddle: without both legs at the spot there is only a skip_reason.
StraddleRow(d, s, spot) == IF spot \in Legs[d][s] THEN "pnl" ELSE "skip"

UpsertStraddle(p, s) ==
  /\ Place(p, s, "measured", "no")
  /\ straddle' = [straddle EXCEPT ![day[p]][s] = StraddleRow(day[p], s, row[p][s].spot)]
  /\ row' = [row EXCEPT ![p][s] = NoRow]
  /\ wrote' = [wrote EXCEPT ![day[p]][s] = "load"]
  /\ UNCHANGED <<options, equity, spotUsed, universe, calendar, metric, rank, aggregate,
                 clean, finished, files, since>>

\* The gather returns when every symbol is done.  initialize_market_data does not
\* finalize the dates it loads.
Computed(p) ==
  /\ \A s \in Symbols : task[p][s] = "no"
  /\ \/ Go(p, "compute", IF kind[p] = "initialize" THEN "next" ELSE "percentiles")
     \/ Go(p, "left", "idle")
  /\ UNCHANGED <<database, runArgs, taskVars, histories>>

\* A symbol raises, and the gather with it; the other tasks go on while the process
\* lives: a request leaves them behind, initialize_market_data as well, with its
\* next date beside them (here in a place of their own among Runs).  With one
\* permit there is a loop instead of tasks.
SymbolRaises(p, s) ==
  /\ Permits > 1 /\ stage[p] = "compute" /\ s \in Busy(p)
  /\ LET others == [task[p] EXCEPT ![s] = "no"]
         rows == [row[p] EXCEPT ![s] = NoRow]
     IN \/ /\ kind[p] = "request" /\ stage' = [stage EXCEPT ![p] = "left"]
           /\ task' = [task EXCEPT ![p] = others] /\ row' = [row EXCEPT ![p] = rows]
           /\ UNCHANGED <<day, clean>>
        \/ /\ kind[p] = "initialize"
           /\ \E q \in Runs :
                /\ stage[q] = "idle"
                /\ stage' = [stage EXCEPT ![p] = "next", ![q] = "left"]
                /\ day' = [day EXCEPT ![q] = day[p]]
                /\ task' = [task EXCEPT ![q] = others, ![p] = task[q]]
                /\ row' = [row EXCEPT ![q] = rows, ![p] = row[q]]
                /\ clean' = clean \ {q}
  /\ UNCHANGED <<database, kind, scope, dates, span, started, finished, wrote, files, since>>
-----------------------------------------------------------------------------
\* refresh_percentiles, in one statement: how many of the last HistoryWindow values of the symbol
\* are not above its own, and the place of its skew among the rows of the date.
PercentRank(d, s, column) ==
  LET days == HistoryDays(d, s, HistoryWindow, column)
  IN IF metric[d][s][column] = 0 \/ Cardinality(days) < MinHistory THEN <<0, 0>>
     ELSE <<Cardinality({e \in days : metric[e][s][column] <= metric[d][s][column]}),
            Cardinality(days)>>

SkewRank(d, s) == 1 + Cardinality({t \in Symbols : metric[d][t].skew > metric[d][s].skew})

Ranked(d) ==
  [s \in Symbols |->
     IF metric[d][s] = NoRow THEN NoRank
     ELSE [iv |-> PercentRank(d, s, "iv"), vrp |-> PercentRank(d, s, "vrp"),
           place |-> SkewRank(d, s)]]

\* A date is finished when a clean run has ranked it, each index at its own price.
Percentiles(p) ==
  /\ Go(p, "percentiles", IF kind[p] \in {"recompute", "index"} THEN "next" ELSE "aggregates")
  /\ rank' = [rank EXCEPT ![day[p]] = Ranked(day[p])]
  /\ finished' = IF /\ p \in clean
                    /\ \A s \in Fo[day[p]] : metric[day[p]][s].spot = day[p]
                 THEN finished \cup {day[p]} ELSE finished
  /\ UNCHANGED <<options, equity, spotUsed, universe, calendar, metric, straddle, aggregate,
                 runArgs, taskVars, clean, wrote, files, since>>

\* refresh_aggregates: a symbol whose straddles are all skipped keeps its row.
Aggregated ==
  [s \in Symbols |->
     LET days == {d \in Days : straddle[d][s] = "pnl"} IN IF days = {} THEN aggregate[s] ELSE days]

\* The others end here; the daily update goes on.
Aggregates(p) ==
  /\ Go(p, "aggregates", IF kind[p] = "update" THEN "calendar" ELSE "idle")
  /\ aggregate' = Aggregated
  /\ UNCHANGED <<options, equity, spotUsed, universe, calendar, metric, rank, straddle,
                 runArgs, taskVars, histories>>

UpsertCalendar(p) ==
  /\ Go(p, "calendar", "deactivate")
  /\ calendar' = calendar \cup {day[p]}
  /\ UNCHANGED <<options, equity, spotUsed, universe, metric, rank, straddle, aggregate,
                 runArgs, taskVars, histories>>

\* The universe is rebuilt from the whole F&O file, in two statements.
Deactivate(p) ==
  /\ Go(p, "deactivate", "activate")
  /\ universe' = [s \in Symbols |-> IF universe[s] = "absent" THEN "absent" ELSE "inactive"]
  /\ since' = {}
  /\ UNCHANGED <<options, equity, spotUsed, calendar, metric, rank, straddle, aggregate,
                 runArgs, taskVars, clean, finished, wrote, files>>

Activate(p) ==
  /\ Go(p, "activate", IF kind[p] = "initialize" THEN "populate" ELSE "idle")
  /\ universe' = [s \in Symbols |-> IF s \in Fo[day[p]] THEN "active" ELSE universe[s]]
  /\ files' = since \cup {Fo[day[p]]} /\ since' = files'
  /\ UNCHANGED <<options, equity, spotUsed, calendar, metric, rank, straddle, aggregate,
                 runArgs, taskVars, clean, finished, wrote>>
-----------------------------------------------------------------------------
\* recompute_analytics, initialize_market_data: dates one after the other.
StartScript(p) ==
  /\ started < MaxRuns /\ started' = started + 1
  /\ Go(p, "idle", "next")
  /\ \E k \in Kinds[p] \cap {"initialize", "recompute"}, first, last \in Days, only \in Scopes :
       /\ kind' = [kind EXCEPT ![p] = k] /\ scope' = [scope EXCEPT ![p] = only]
       /\ dates' = [dates EXCEPT ![p] =
                      {d \in first .. last : k = "recompute" => \E s \in only : <<d, s>> \in options}]
       /\ span' = [span EXCEPT ![p] = IF k = "initialize" THEN first .. last ELSE {}]
  /\ clean' = clean \ {p}
  /\ UNCHANGED <<database, day, taskVars, finished, wrote, files, since>>

\* backfill_index_history takes some of the indices that ever had options and a range.
StartIndexBackfill(p) ==
  /\ started < MaxRuns /\ started' = started + 1
  /\ "index" \in Kinds[p] /\ Go(p, "idle", "bars")
  /\ \E first, last \in Days, only \in Scopes :
       LET known == {i \in Indices \cap only : \E d \in Days : <<d, i>> \in options}
       IN /\ known # {} /\ scope' = [scope EXCEPT ![p] = known]
          /\ dates' = [dates EXCEPT ![p] = first .. last]
  /\ kind' = [kind EXCEPT ![p] = "index"]
  /\ clean' = clean \ {p}
  /\ UNCHANGED <<database, day, span, taskVars, finished, wrote, files, since>>

\* The bars Yahoo has of them; without any the backfill raises.
UpsertIndexBars(p) ==
  /\ Go(p, "bars", "indices")
  /\ \E answered \in (SUBSET (dates[p] \X scope[p])) \ {{}} : equity' = equity \cup answered
  /\ UNCHANGED <<options, spotUsed, universe, calendar, metric, rank, straddle, aggregate,
                 runArgs, taskVars, histories>>

\* They are made active, like the symbols of a file.
DiscoverIndices(p) ==
  /\ Go(p, "indices", "select")
  /\ universe' = [s \in Symbols |-> IF s \in scope[p] THEN "active" ELSE universe[s]]
  /\ files' = files \cup {scope[p]} /\ since' = since \cup {scope[p]}
  /\ UNCHANGED <<options, equity, spotUsed, calendar, metric, rank, straddle, aggregate,
                 runArgs, taskVars, clean, finished, wrote>>

\* The dates with an index that has both its options and a bar are recomputed.
SelectIndexDates(p) ==
  /\ Go(p, "select", "next")
  /\ dates' = [dates EXCEPT ![p] = {d \in @ : \E i \in scope[p] : <<d, i>> \in options \cap equity}]
  /\ UNCHANGED <<database, kind, day, scope, span, started, taskVars, histories>>

\* What a recomputation computes of a date.
BothRows(p, d) == {s \in scope[p] : <<d, s>> \in options \cap equity}

\* The next date of a script: loaded again, unless its options are there and --force
\* is not given; or computed for the symbols with both rows.
NextDate(p) ==
  /\ stage[p] = "next" /\ dates[p] # {}
  /\ LET d == Min(dates[p])
         load == kind[p] = "initialize"
     IN /\ dates' = [dates EXCEPT ![p] = @ \ {d}]
        /\ day' = [day EXCEPT ![p] = d]
        /\ stage' \in {[stage EXCEPT ![p] = IF load THEN "options" ELSE "compute"]} \cup
                     {x \in {stage} : load /\ \E s \in Symbols : <<d, s>> \in options}
        /\ task' = [task EXCEPT ![p] =
                      [s \in Symbols |-> IF ~load /\ s \in BothRows(p, d) THEN "todo" ELSE "no"]]
        /\ clean' = clean \ Rivals(d)
  /\ UNCHANGED <<database, kind, scope, span, started, row, finished, wrote, files, since>>

\* No date is left: the recomputation refreshes the aggregates, the initialization
\* rebuilds the universe from the latest date it finds.
NoDateLeft(p) ==
  /\ dates[p] = {}
  /\ LET latest == {d \in Days : \E s \in Symbols : <<d, s>> \in options}
         load == kind[p] = "initialize" /\ latest # {}
     IN /\ Go(p, "next", IF load THEN "deactivate" ELSE "aggregates")
        /\ day' = [day EXCEPT ![p] = IF load THEN Max(latest) ELSE @]
        /\ clean' = IF load THEN clean \ Rivals(Max(latest)) ELSE clean
  /\ UNCHANGED <<database, kind, scope, dates, span, started, taskVars, finished, wrote, files, since>>

\* populate_calendar: of the range of the run, a date without rows is no trading day.
\* Only the latest date is ranked after that.
PopulateCalendar(p) ==
  /\ Go(p, "populate", "percentiles")
  /\ calendar' = (calendar \ span[p]) \cup
                 {d \in span[p] : \E s \in Symbols : <<d, s>> \in options \cup equity}
  /\ span' = [span EXCEPT ![p] = {}]
  /\ UNCHANGED <<options, equity, spotUsed, universe, metric, rank, straddle, aggregate,
                 kind, day, scope, dates, started, taskVars, histories>>

\* initialize_market_data logs a date that raises and goes on with the next one.
SkipDate(p) ==
  /\ kind[p] = "initialize"
  /\ stage[p] \in {"options", "equity", "discover"} \cup {x \in {"compute"} : Permits = 1}
  /\ stage' = [stage EXCEPT ![p] = "next"]
  /\ task' = [task EXCEPT ![p] = [s \in Symbols |-> "no"]]
  /\ row' = [row EXCEPT ![p] = [s \in Symbols |-> NoRow]]
  /\ UNCHANGED <<database, runArgs, histories>>

\* recompute_straddle_pnl: one statement marks the straddles of its dates and symbols
\* as skipped ...  wrote records which program was the last at a straddle.
ResetStraddles(p) ==
  /\ started < MaxRuns /\ started' = started + 1
  /\ "straddle" \in Kinds[p] /\ Go(p, "idle", "refill")
  /\ \E first, last \in Days, only \in Scopes :
       LET Asked(d, s) == d \in first .. last /\ s \in only /\ metric[d][s] # NoRow
       IN /\ dates' = [dates EXCEPT ![p] = first .. last] /\ scope' = [scope EXCEPT ![p] = only]
          /\ straddle' = [d \in Days |-> [s \in Symbols |->
                            IF Asked(d, s) THEN "skip" ELSE straddle[d][s]]]
          /\ wrote' = [d \in Days |-> [s \in Symbols |->
                            IF Asked(d, s) THEN "reset" ELSE wrote[d][s]]]
  /\ kind' = [kind EXCEPT ![p] = "straddle"]
  /\ clean' = clean \ {p}
  /\ UNCHANGED <<options, equity, spotUsed, universe, calendar, metric, rank, aggregate,
                 day, span, taskVars, finished, files, since>>

\* ... and the next one, not in one transaction with it, fills in those whose legs it
\* finds: in the expiry of the metric alone, for the open of the date's bar alone.
RefillStraddles(p) ==
  LET Asked(d, s) == d \in dates[p] /\ s \in scope[p] /\ metric[d][s] # NoRow
      Filled(d, s) == <<d, s>> \in equity /\ s \in Refillable[d] /\ d \in Legs[d][s]
  IN /\ Go(p, "refill", "idle")
     /\ straddle' = [d \in Days |-> [s \in Symbols |->
                       IF Asked(d, s) /\ Filled(d, s) THEN "pnl" ELSE straddle[d][s]]]
     /\ wrote' = [d \in Days |-> [s \in Symbols |->
                       IF Asked(d, s) /\ wrote[d][s] = "reset" THEN "refill" ELSE wrote[d][s]]]
     /\ dates' = [dates EXCEPT ![p] = {}]
     /\ UNCHANGED <<options, equity, spotUsed, universe, calendar, metric, rank, aggregate,
                    kind, day, scope, span, started, taskVars, clean, finished, files, since>>
-----------------------------------------------------------------------------
\* A statement raises or the process is killed: what was written stays.
AbortRun(p) ==
  /\ stage[p] # "idle"
  /\ stage' = [stage EXCEPT ![p] = "idle"]
  /\ task' = [task EXCEPT ![p] = [s \in Symbols |-> "no"]]
  /\ row' = [row EXCEPT ![p] = [s \in Symbols |-> NoRow]]
  /\ dates' = [dates EXCEPT ![p] = {}] /\ span' = [span EXCEPT ![p] = {}]
  /\ UNCHANGED <<database, kind, day, scope, started, histories>>

RunStep(p) ==
  \/ UpsertOptions(p) \/ UpsertEquity(p) \/ Discover(p)
  \/ \E s \in Symbols : ReadSpot(p, s) \/ DeriveContracts(p, s) \/ ReadBack(p, s)
                        \/ UpsertMetric(p, s) \/ UpsertStraddle(p, s) \/ SymbolRaises(p, s)
  \/ Computed(p) \/ Percentiles(p) \/ Aggregates(p)
  \/ UpsertCalendar(p) \/ Deactivate(p) \/ Activate(p)
  \/ UpsertIndexBars(p) \/ DiscoverIndices(p) \/ SelectIndexDates(p)
  \/ NextDate(p) \/ NoDateLeft(p) \/ PopulateCalendar(p) \/ SkipDate(p) \/ RefillStraddles(p)

EodNext ==
  \E p \in Runs : \/ StartRun(p) \/ StartScript(p) \/ StartIndexBackfill(p) \/ ResetStraddles(p)
                  \/ RunStep(p) \/ AbortRun(p)
EodSpec == EodInit /\ [][EodNext]_eodVars
-----------------------------------------------------------------------------
\* Type invariant.
EodTypeOK ==
  /\ options \subseteq Days \X Symbols /\ equity \subseteq Days \X Symbols
  /\ universe \in [Symbols -> {"absent", "inactive", "active"}]
  /\ stage \in [Runs -> Stages] /\ day \in [Runs -> Days]
  /\ finished \subseteq Days /\ clean \subseteq Runs

\* What the files alone say of a date.
TrueIv(d, s) == IF s \in Fo[d] THEN Smile[d][s][<<d, d>>] ELSE 0
TrueRow(d, s) ==
  LET held == {e \in 1 .. d - 1 : TrueIv(e, s) # 0}
      lagged == {e \in held : Cardinality({f \in held : f > e}) = Lag - 1}
  IN [spot |-> d, iv |-> TrueIv(d, s), skew |-> Skew[d][s],
      vrp |-> IF lagged = {} THEN 0 ELSE TrueIv(CHOOSE e \in lagged : TRUE, s)]

\* A load finds legs at the spot of the date; a recomputation of straddles keeps
\* those of the refillable symbols and skips the others.
TrueStraddle(d, s) ==
  IF d \in Legs[d][s] /\ (wrote[d][s] = "refill" => s \in Refillable[d])
  THEN "pnl" ELSE "skip"

\* Whatever overlaps, is repeated or dies later, a finished date keeps the metrics
\* that follow from the files and the percentiles that follow from those metrics.
\* A straddle of it that was only marked as skipped, because the recomputation runs or
\* died, is skipped; every other one follows from the files by the selection of the
\* program that was last at it.  So a load never spoils a straddle, and
\* recompute_straddle_pnl does exactly those it cannot refill: of a symbol whose last
\* expiry is the date, or whose bar has no open.
FinishedDaysExact ==
  \A d \in finished :
    /\ rank[d] = Ranked(d)
    /\ \A s \in Fo[d] :
         /\ metric[d][s] = TrueRow(d, s)
         /\ straddle[d][s] = IF wrote[d][s] = "reset" THEN "skip" ELSE TrueStraddle(d, s)

\* active_symbols: while no symbol is active, every symbol with options is.
ActiveSymbols ==
  LET active == {s \in Symbols : universe[s] = "active"}
  IN IF active # {} THEN active
     ELSE {s \in Symbols : \E d \in Days : <<d, s>> \in options \/ metric[d][s] # NoRow}

\* The universe follows the files, whichever runs overlap and die.
\*   - A symbol on which all the files agree that were written since the first
\*     statement of the last rebuild is flagged active, so that the readers of the
\*     flag alone miss it at most between that statement and the next file written.
\*   - active_symbols has every symbol with options on which the files since the last
\*     complete rebuild agree, even between the two statements or after a death
\*     there, when it answers every symbol that ever had options, old ones included.
\*   - No symbol is flagged active that none of the files has.
UniverseFollowsFiles ==
  /\ since # {} => \A s \in Symbols : (\A f \in since : s \in f) => universe[s] = "active"
  /\ files # {} =>
       \A s \in Symbols : (\A f \in files : s \in f) /\ (\E d \in Days : <<d, s>> \in options)
                         => s \in ActiveSymbols
  /\ \A s \in Symbols : universe[s] = "active" => \E f \in since : s \in f
=============================================================================
