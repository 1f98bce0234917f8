--------------------------- MODULE MetricBackfill ---------------------------
(***************************************************************************)
(* The two audited backfills of symbol_daily_metrics and the read-through  *)
(* caches of the API beside them.  backfill_forward_factors.py rewrites    *)
(* the IVs of a range of dates, backfill_corporate_action_metrics.py the   *)
(* VRPs; both commit symbol by symbol, then refresh percentiles date by    *)
(* date and delete the cached responses they know of.  They die and are    *)
(* run again while readers miss the cache, query and fill it.              *)
(***************************************************************************)
EXTENDS Naturals, FiniteSets, FiniteSetsExt

CONSTANTS
  ForwardRuns, CorporateRuns,   \* the processes of the two scripts
  Readers, Keys,                \* the requests, and the cached responses
  ForwardKeys, CorporateKeys,   \* the patterns each script deletes
  BackSymbols, LastRow,         \* the rows are those of the dates 1 .. LastRow
  OldIv, NewIv,                 \* [symbols -> [dates -> Nat]]: stored, recomputed
  BackHistory,                  \* 252, the rows a percentile looks back on
  Tail,                         \* 450 days, which hold BackHistory rows or more
  MaxBackfills, MaxReads        \* bounds

Backfills == ForwardRuns \cup CorporateRuns
Rows == 1 .. LastRow

ASSUME BackfillAssumption ==
  /\ ForwardRuns \cap CorporateRuns = {} /\ ForwardKeys \cup CorporateKeys \subseteq Keys
  /\ LastRow \in Nat \ {0} /\ BackHistory \in Nat /\ Tail \in Nat /\ BackHistory <= Tail
  /\ OldIv \in [BackSymbols -> [Rows -> Nat]] /\ NewIv \in [BackSymbols -> [Rows -> Nat]]
  /\ MaxBackfills \in Nat /\ MaxReads \in Nat

VARIABLES
  iv, vrp, percentile,          \* the columns, [symbols -> [dates -> ...]]
  place, range, todo, rest,     \* of each script: symbols and dates still to do
  computed,                     \* of each script: {<<symbol, date, value>>} not yet committed
  scanned,                      \* of each script: the cache keys found
  cache,                        \* [Keys -> version], 0 is a miss
  reading,                      \* [Readers -> [key, version]], key "none" is idle
  version, backfills, reads,    \* how many commits, scripts and requests there were
  solo, exact, floor, raced   \* history: see CompleteRun, DeleteKeys

columns == <<iv, vrp, percentile>>
scriptVars == <<place, range, todo, rest, computed, scanned, backfills>>
cacheVars == <<cache, reading, reads>>
backfillVars == <<columns, scriptVars, cacheVars, version, solo, exact, floor, raced>>

NotReading == [key |-> "none", version |-> 0]

\* The percentile of a value: how many of the rows it looks back on are not above it.
CountLe(column, s, d) ==
  Cardinality({e \in Rows : e < d /\ e + BackHistory >= d /\ column[s][e] <= column[s][d]})
PercentileOf(s, d) == <<CountLe(iv, s, d), CountLe(vrp, s, d)>>

\* vrp looks at the IV of an earlier row, here the row before.
VrpFrom(ivs, s, d) == IF d = 1 THEN 0 ELSE ivs[s][d - 1]

BackfillInit ==
  /\ iv = OldIv
  /\ vrp = [s \in BackSymbols |-> [d \in Rows |-> 0]]
  /\ percentile = [s \in BackSymbols |-> [d \in Rows |-> PercentileOf(s, d)]]
  /\ place = [p \in Backfills |-> "idle"] /\ range = [p \in Backfills |-> {}]
  /\ todo = [p \in Backfills |-> {}] /\ rest = [p \in Backfills |-> {}]
  /\ computed = [p \in Backfills |-> {}] /\ scanned = [p \in Backfills |-> {}]
  /\ cache = [k \in Keys |-> 0] /\ reading = [r \in Readers |-> NotReading]
  /\ version = 1 /\ backfills = 0 /\ reads = 0
  /\ solo = {} /\ exact = {} /\ floor = [k \in Keys |-> 0] /\ raced = {}

Onward(p, from, to) == place[p] = from /\ place' = [place EXCEPT ![p] = to]
-----------------------------------------------------------------------------
\* With --execute a run starts (its row of analytics_backfill_runs is left out).
StartBackfill(p) ==
  /\ backfills < MaxBackfills
  /\ Onward(p, "idle", "read")
  /\ \E first, last \in Rows : first <= last /\ range' = [range EXCEPT ![p] = first .. last]
  /\ todo' = [todo EXCEPT ![p] = BackSymbols]
  /\ rest' = [rest EXCEPT ![p] = {}]
  /\ backfills' = backfills + 1 /\ solo' = solo \cup {p}
  /\ UNCHANGED <<columns, computed, scanned, cacheVars, version, exact, floor, raced>>

\* The forward backfill keeps of a symbol what changes materially ...
ForwardRows(p, s) ==
  {<<s, d, NewIv[s][d]>> : d \in {e \in range[p] : iv[s][e] # NewIv[s][e]}}

\* ... the corporate-action backfill every row of its dates.
CorporateRows(p, s) == {<<s, d, VrpFrom(iv, s, d)>> : d \in range[p]}

\* The rows of the next symbol are read and recomputed.
ReadSymbol(p, s) ==
  /\ s \in todo[p]
  /\ Onward(p, "read", "commit")
  /\ todo' = [todo EXCEPT ![p] = @ \ {s}]
  /\ computed' = [computed EXCEPT ![p] = IF p \in ForwardRuns THEN ForwardRows(p, s)
                                               ELSE CorporateRows(p, s)]
  /\ UNCHANGED <<columns, range, rest, scanned, backfills, cacheVars, version,
                 solo, exact, floor, raced>>

Written(column, p) ==
  [s \in BackSymbols |-> [d \in Rows |->
     IF \E u \in computed[p] : u[1] = s /\ u[2] = d
     THEN (CHOOSE u \in computed[p] : u[1] = s /\ u[2] = d)[3] ELSE column[s][d]]]

\* One transaction writes the rows of the symbol, and the audit rows left out here.
CommitSymbol(p) ==
  /\ Onward(p, "commit", "read")
  /\ iv' = IF p \in ForwardRuns THEN Written(iv, p) ELSE iv
  /\ vrp' = IF p \in CorporateRuns THEN Written(vrp, p) ELSE vrp
  /\ computed' = [computed EXCEPT ![p] = {}]
  /\ rest' = [rest EXCEPT ![p] = @ \cup {u[2] : u \in computed[p]}]
  /\ version' = version + 1
  /\ exact' = {} /\ solo' = solo \cap {p}
  /\ UNCHANGED <<percentile, range, todo, scanned, backfills, cacheVars, floor, raced>>

\* The dates whose percentiles a script refreshes: its own, and the tail after them
\* that looks back on them for the corporate-action backfill.
PercentileDates(p) ==
  {d \in Rows : d >= Min(range[p]) /\ d <= Max(range[p]) + IF p \in ForwardRuns THEN 0 ELSE Tail}

\* Mutant of RankDates: only the dates that were updated are refreshed.
RankUpdatedDates(p) ==
  /\ todo[p] = {}
  /\ Onward(p, "read", "rank")
  /\ UNCHANGED <<columns, range, todo, rest, computed, scanned, backfills, cacheVars,
                 version, solo, exact, floor, raced>>

RankDates(p) ==
  /\ todo[p] = {}
  /\ Onward(p, "read", "rank")
  /\ rest' = [rest EXCEPT ![p] = @ \cup PercentileDates(p)]
  /\ UNCHANGED <<columns, range, todo, computed, scanned, backfills, cacheVars,
                 version, solo, exact, floor, raced>>

RefreshDate(p) ==
  /\ place[p] = "rank" /\ rest[p] # {}
  /\ percentile' = [s \in BackSymbols |->
                      [percentile[s] EXCEPT ![Min(rest[p])] = PercentileOf(s, Min(rest[p]))]]
  /\ rest' = [rest EXCEPT ![p] = @ \ {Min(@)}]
  /\ version' = version + 1
  /\ UNCHANGED <<iv, vrp, place, range, todo, computed, scanned, backfills,
                 cacheVars, solo, exact, floor, raced>>

CoveredKeys(p) == IF p \in ForwardRuns THEN ForwardKeys ELSE CorporateKeys

\* invalidate_forward_factor_cache, _invalidate_analytics_cache: the keys are
\* scanned ...
ScanKeys(p) ==
  /\ rest[p] = {}
  /\ Onward(p, "rank", "delete")
  /\ scanned' = [scanned EXCEPT ![p] = {k \in CoveredKeys(p) : cache[k] # 0}]
  /\ UNCHANGED <<columns, range, todo, rest, computed, backfills, cacheVars, version,
                 solo, exact, floor, raced>>

BeingRead == {reading[r].key : r \in Readers} \cap Keys

\* Mutant of DeleteKeys: the keys after the last full page of 500 stay.
DeletePages(p) ==
  /\ Onward(p, "delete", "complete")
  /\ scanned' = [scanned EXCEPT ![p] = {}]
  /\ floor' = [k \in Keys |-> IF k \in CoveredKeys(p) THEN version ELSE floor[k]]
  /\ raced' = raced \cup BeingRead
  /\ UNCHANGED <<columns, range, todo, rest, computed, backfills, cacheVars,
                 version, solo, exact>>

\* ... and deleted.  From now on a response older than this is stale; raced are the
\* readers that have already read what they are about to cache.
DeleteKeys(p) ==
  /\ Onward(p, "delete", "complete")
  /\ cache' = [k \in Keys |-> IF k \in scanned[p] THEN 0 ELSE cache[k]]
  /\ scanned' = [scanned EXCEPT ![p] = {}]
  /\ floor' = [k \in Keys |-> IF k \in CoveredKeys(p) THEN version ELSE floor[k]]
  /\ raced' = raced \cup BeingRead
  /\ UNCHANGED <<columns, range, todo, rest, computed, backfills, reading, reads,
                 version, solo, exact>>

\* The run ends; exact are the dates it ranked, if no other run has
\* committed anything since its start.
CompleteRun(p) ==
  /\ Onward(p, "complete", "idle")
  /\ exact' = IF p \in solo THEN PercentileDates(p) ELSE {}
  /\ UNCHANGED <<columns, range, todo, rest, computed, scanned, backfills, cacheVars, version,
                 solo, floor, raced>>

\* An exception or a kill ends it.
EndBackfill(p) ==
  /\ place[p] # "idle"
  /\ place' = [place EXCEPT ![p] = "idle"]
  /\ computed' = [computed EXCEPT ![p] = {}] /\ scanned' = [scanned EXCEPT ![p] = {}]
  /\ UNCHANGED <<columns, range, todo, rest, backfills, cacheVars, version, solo, exact, floor, raced>>
-----------------------------------------------------------------------------
\* An endpoint that misses the cache queries the database ...
MissAndQuery(r, k) ==
  /\ reading[r] = NotReading /\ cache[k] = 0 /\ reads < MaxReads
  /\ reading' = [reading EXCEPT ![r] = [key |-> k, version |-> version]]
  /\ reads' = reads + 1
  /\ UNCHANGED <<columns, scriptVars, cache, version, solo, exact, floor, raced>>

\* ... and caches the response until midnight: between the scan and the deletion
\* it races too.
FillCache(r) ==
  /\ reading[r] # NotReading
  /\ cache' = [cache EXCEPT ![reading[r].key] = reading[r].version]
  /\ reading' = [reading EXCEPT ![r] = NotReading]
  /\ raced' = IF \E p \in Backfills : place[p] = "delete"
              THEN raced \cup {reading[r].key} ELSE raced
  /\ UNCHANGED <<columns, scriptVars, reads, version, solo, exact, floor>>

ExpireAtMidnight ==
  /\ \E k \in Keys : cache[k] # 0
  /\ cache' = [k \in Keys |-> 0]
  /\ raced' = BeingRead
  /\ UNCHANGED <<columns, scriptVars, reading, reads, version, solo, exact, floor>>

BackfillNext ==
  \/ \E p \in Backfills :
       \/ StartBackfill(p) \/ \E s \in BackSymbols : ReadSymbol(p, s)
       \/ CommitSymbol(p) \/ RankDates(p) \/ RefreshDate(p)
       \/ ScanKeys(p) \/ DeleteKeys(p) \/ CompleteRun(p) \/ EndBackfill(p)
  \/ \E r \in Readers : (\E k \in Keys : MissAndQuery(r, k)) \/ FillCache(r)
  \/ ExpireAtMidnight

BackfillSpec == BackfillInit /\ [][BackfillNext]_backfillVars
-----------------------------------------------------------------------------
\* Type invariant.
BackfillTypeOK ==
  /\ place \in [Backfills -> {"idle", "read", "commit", "rank", "delete", "complete"}]
  /\ range \in [Backfills -> SUBSET Rows] /\ todo \in [Backfills -> SUBSET BackSymbols]
  /\ \A k \in Keys : cache[k] \in 0 .. version

\* docs/operations/forward-factor-remediation.md: "The script is restart-safe":
\* after a run that completed with no other one running, the percentiles of its
\* dates (and of the tail) are those of the columns, whatever died before it.
CompletedRunSettles ==
  \A s \in BackSymbols, d \in exact : percentile[s][d] = PercentileOf(s, d)

\* A response cached from before an invalidation of its key was read before the
\* keys were deleted and cached after they were scanned: the others are gone at once.
StaleOnlyIfRaced ==
  \A k \in Keys : cache[k] # 0 /\ cache[k] < floor[k] => k \in raced
=============================================================================
