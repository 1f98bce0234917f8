----------------------------- MODULE JobsProofs -----------------------------
(***************************************************************************)
(* Proofs about the result events and the metric backfills, for any number *)
(* of processes, dates, symbols and cache keys; and the composition MCJobs *)
(* runs, in which each of the four jobs keeps its own specification, so    *)
(* that what is proved of a job alone holds there.                         *)
(***************************************************************************)
EXTENDS MCJobs, ActionsProofs

(* Result events *)

\* The row of the last refresh that settled the future, and the dates below which a
\* refresher that is still alone has left Yahoo's rows.
EventsInv ==
  /\ EventsTypeOK /\ PlannedReplaced
  /\ settled.from \in Nat /\ settled.planned \subseteq Dates /\ filings \subseteq Dates
  /\ \A p \in Refreshers : min[p] # 0 => step[p] = "upsert"
  /\ \A p \in alone : \A q \in Refreshers \ {p} : step[q] = "idle"
  /\ \A p \in alone : min[p] # 0 => \A d \in Dates : source[d] = "yahoo" => d < min[p]

LEMMA EventsInvInit == EventsInit => EventsInv
<1>1. 1 \in Dates /\ LastDate \in Nat
  BY EventsAssumption DEF Dates
<1>. QED BY <1>1 DEF EventsInit, EventsInv, EventsTypeOK, PlannedReplaced, NotSettled

\* The steps that leave the rows and the settled future alone.
LEMMA EventsFetch ==
  ASSUME EventsInv, NEW p \in Refreshers,
         StartRefresh(p) \/ FetchNse(p) \/ WithoutNse(p) \/ FetchYahoo(p) \/ YahooFails(p)
         \/ AbortRefresh(p)
  PROVE  EventsInv'
<1>0. /\ today \in 1 .. LastDate /\ LastDate \in Nat
      /\ min \in [Refreshers -> 0 .. LastDate] /\ alone \subseteq Refreshers
      /\ step \in [Refreshers -> {"idle", "nse", "yahoo", "delete", "upsert"}]
      /\ nse \in [Refreshers -> SUBSET Dates] /\ yahoo \in [Refreshers -> SUBSET Dates]
  BY EventsAssumption DEF EventsInv, EventsTypeOK, Dates
<1>1. UNCHANGED <<today, source, settled>>
  BY DEF StartRefresh, FetchNse, WithoutNse, FetchYahoo, YahooFails, AbortRefresh
<1>2. /\ step' \in [Refreshers -> {"idle", "nse", "yahoo", "delete", "upsert"}]
      /\ \A q \in Refreshers \ {p} : step'[q] = step[q]
  BY <1>0 DEF StartRefresh, FetchNse, WithoutNse, FetchYahoo, YahooFails, AbortRefresh
<1>3. \/ UNCHANGED min /\ step[p] # "upsert"
      \/ min' = [min EXCEPT ![p] = 0]
  BY <1>0 DEF StartRefresh, FetchNse, WithoutNse, FetchYahoo, YahooFails, AbortRefresh
<1>5. /\ min' \in [Refreshers -> 0 .. LastDate] /\ \A q \in Refreshers \ {p} : min'[q] = min[q]
      /\ min'[p] = 0
  BY <1>0, <1>3 DEF EventsInv
<1>6. /\ alone' \subseteq Refreshers
      /\ \/ step[p] # "idle" /\ UNCHANGED alone
         \/ alone' = {}
         \/ alone' = {p} /\ \A q \in Refreshers : step[q] = "idle"
  BY <1>0 DEF StartRefresh, FetchNse, WithoutNse, FetchYahoo, YahooFails, AbortRefresh
<1>4. filings' \subseteq Dates
  BY DEF StartRefresh, FetchNse, WithoutNse, FetchYahoo, YahooFails, AbortRefresh, EventsInv
<1>7. /\ nse' \in [Refreshers -> SUBSET Dates] /\ yahoo' \in [Refreshers -> SUBSET Dates]
  <2>1. CASE FetchNse(p)
    BY <1>0, <1>4, <2>1 DEF FetchNse
  <2>2. CASE FetchYahoo(p)
    <3>1. today .. LastDate \subseteq Dates
      BY <1>0 DEF Dates
    <3>. QED BY <1>0, <2>2, <3>1 DEF FetchYahoo
  <2>3. CASE StartRefresh(p) \/ WithoutNse(p) \/ YahooFails(p) \/ AbortRefresh(p)
    BY <1>0, <2>3 DEF StartRefresh, WithoutNse, YahooFails, AbortRefresh
  <2>. QED BY <2>1, <2>2, <2>3
<1>8. EventsTypeOK' /\ PlannedReplaced'
  BY <1>1, <1>2, <1>5, <1>6, <1>7 DEF EventsInv, EventsTypeOK, PlannedReplaced
<1>9. \A q \in alone' : \A r \in Refreshers \ {q} : step'[r] = "idle"
  BY <1>0, <1>2, <1>6 DEF EventsInv
<1>10. \A q \in alone' : min'[q] # 0 => \A d \in Dates : source[d] = "yahoo" => d < min'[q]
  BY <1>5, <1>6 DEF EventsInv
<1>11. \A q \in Refreshers : min'[q] # 0 => step'[q] = "upsert"
  BY <1>2, <1>5 DEF EventsInv
<1>. QED BY <1>1, <1>4, <1>8, <1>9, <1>10, <1>11 DEF EventsInv

LEMMA EventsStore ==
  ASSUME EventsInv, NEW p \in Refreshers, DeleteFuture(p) \/ UpsertEvents(p)
  PROVE  EventsInv'
<1>0. /\ today \in 1 .. LastDate /\ LastDate \in Nat
      /\ min \in [Refreshers -> 0 .. LastDate] /\ alone \subseteq Refreshers
      /\ step \in [Refreshers -> {"idle", "nse", "yahoo", "delete", "upsert"}]
      /\ nse \in [Refreshers -> SUBSET Dates] /\ yahoo \in [Refreshers -> SUBSET Dates]
      /\ source \in [Dates -> {"none", "nse", "yahoo"}]
  BY EventsAssumption DEF EventsInv, EventsTypeOK, Dates
<1>1. CASE DeleteFuture(p)
  <2>1. /\ step[p] = "delete" /\ step' = [step EXCEPT ![p] = "upsert"]
        /\ source' = [d \in Dates |-> IF source[d] = "yahoo" /\ d >= today THEN "none" ELSE source[d]]
        /\ min' = [min EXCEPT ![p] = today] /\ settled' = NotSettled
        /\ UNCHANGED <<today, nse, yahoo, alone, filings>>
    BY <1>1 DEF DeleteFuture
  <2>2. EventsTypeOK'
    BY <1>0, <2>1 DEF EventsInv, EventsTypeOK
  <2>3. PlannedReplaced' /\ settled'.from \in Nat /\ settled'.planned \subseteq Dates
    BY <2>1 DEF PlannedReplaced, NotSettled
  <2>4. \A q \in alone : q = p
    BY <2>1 DEF EventsInv
  <2>5. /\ \A q \in Refreshers : step'[q] = IF q = p THEN "upsert" ELSE step[q]
        /\ \A q \in Refreshers : min'[q] = IF q = p THEN today ELSE min[q]
    BY <1>0, <2>1
  <2>6. \A d \in Dates : source'[d] = "yahoo" => d < today
    BY <1>0, <2>1 DEF Dates
  <2>. QED BY <2>1, <2>2, <2>3, <2>4, <2>5, <2>6 DEF EventsInv
<1>2. CASE UpsertEvents(p)
  <2>1. /\ step[p] = "upsert" /\ step' = [step EXCEPT ![p] = "idle"]
        /\ source' = [d \in Dates |-> IF d \in yahoo[p] THEN "yahoo"
                                     ELSE IF d \in nse[p] THEN "nse" ELSE source[d]]
        /\ settled' = IF p \in alone /\ min[p] # 0
                      THEN [from |-> min[p], planned |-> yahoo[p]] ELSE NotSettled
        /\ nse' = [nse EXCEPT ![p] = {}] /\ yahoo' = [yahoo EXCEPT ![p] = {}]
        /\ min' = [min EXCEPT ![p] = 0] /\ UNCHANGED <<today, alone, filings>>
    BY <1>2 DEF UpsertEvents
  <2>2. EventsTypeOK'
    BY <1>0, <2>1 DEF EventsInv, EventsTypeOK
  <2>3. /\ settled'.from \in Nat /\ settled'.planned \subseteq Dates /\ PlannedReplaced'
    <3>1. CASE p \in alone /\ min[p] # 0
      <4>1. settled'.from = min[p] /\ settled'.planned = yahoo[p] /\ min[p] \in 1 .. LastDate
        BY <1>0, <2>1, <3>1
      <4>2. yahoo[p] \subseteq Dates /\ \A d \in Dates : source[d] = "yahoo" => d < min[p]
        BY <1>0, <3>1 DEF EventsInv
      <4>3. \A d \in Dates : d >= min[p] => (source'[d] = "yahoo" <=> d \in yahoo[p])
        BY <1>0, <2>1, <4>1, <4>2 DEF Dates
      <4>4. \A d : d \in min[p] .. LastDate <=> d \in Dates /\ d >= min[p]
        BY <1>0, <4>1 DEF Dates
      <4>. QED BY <1>0, <4>1, <4>2, <4>3, <4>4 DEF PlannedReplaced
    <3>2. CASE ~ (p \in alone /\ min[p] # 0)
      BY <2>1, <3>2 DEF PlannedReplaced, NotSettled
    <3>. QED BY <3>1, <3>2
  <2>4. \A q \in alone : q = p
    BY <2>1 DEF EventsInv
  <2>5. /\ \A q \in Refreshers : step'[q] = IF q = p THEN "idle" ELSE step[q]
        /\ \A q \in Refreshers : min'[q] = IF q = p THEN 0 ELSE min[q]
    BY <1>0, <2>1
  <2>. QED BY <2>1, <2>2, <2>3, <2>4, <2>5 DEF EventsInv
<1>. QED BY <1>1, <1>2

\* After a refresh that ran alone from its start to its end and deleted the future rows
\* of Yahoo, the planned dates of the symbol are those of its answer, whatever
\* refreshes overlapped, failed or died before: DeleteFuture and UpsertEvents are two
\* transactions.
THEOREM PlannedDatesReplaced == EventsSpec => [](EventsTypeOK /\ PlannedReplaced)
<1>1. EventsInv /\ [EventsNext]_eventVars => EventsInv'
  <2>. SUFFICES ASSUME EventsInv, [EventsNext]_eventVars PROVE EventsInv'
    OBVIOUS
  <2>1. CASE Midnight
    <3>1. today' \in Dates
      BY <2>1, EventsAssumption DEF Midnight, EventsInv, EventsTypeOK, Dates
    <3>. QED BY <2>1, <3>1 DEF Midnight, EventsInv, EventsTypeOK, PlannedReplaced
  <2>2. ASSUME NEW p \in Refreshers,
               \/ StartRefresh(p) \/ FetchNse(p) \/ WithoutNse(p) \/ FetchYahoo(p)
               \/ DeleteFuture(p) \/ YahooFails(p) \/ UpsertEvents(p) \/ AbortRefresh(p)
        PROVE  EventsInv'
    BY <2>2, EventsFetch, EventsStore
  <2>3. CASE UNCHANGED eventVars
    BY <2>3 DEF eventVars, EventsInv, EventsTypeOK, PlannedReplaced
  <2>. QED BY <2>1, <2>2, <2>3 DEF EventsNext
<1>2. EventsInv => EventsTypeOK /\ PlannedReplaced
  BY DEF EventsInv
<1>. QED BY <1>1, <1>2, EventsInvInit, PTL DEF EventsSpec
-----------------------------------------------------------------------------
(* Metric backfills *)

BackfillShapes ==
  /\ BackfillTypeOK /\ solo \subseteq Backfills /\ version \in Nat \ {0}
  /\ rest \in [Backfills -> SUBSET Rows] /\ scanned \in [Backfills -> SUBSET Keys]
  /\ computed = [p \in Backfills |-> computed[p]]
  /\ \A p \in Backfills : \A x \in computed[p] : x[2] \in Rows
  /\ percentile = [s \in BackSymbols |-> [d \in Rows |-> percentile[s][d]]]
  /\ exact \subseteq Rows /\ cache = [k \in Keys |-> cache[k]] /\ reading = [r \in Readers |-> reading[r]]
  /\ \A r \in Readers : reading[r] # NotReading =>
       reading[r].key \in Keys /\ reading[r].version \in 1 .. version

\* What a run without rivals has ranked so far is what the columns say.
RankedSo(p) ==
  /\ place[p] \in {"rank", "delete", "complete"} =>
       \A s \in BackSymbols, d \in PercentileDates(p) \ rest[p] : percentile[s][d] = PercentileOf(s, d)
  /\ place[p] \in {"delete", "complete"} => rest[p] = {}
RankInv == CompletedRunSettles /\ \A p \in solo : RankedSo(p)

\* Who holds, or may still cache, what is older than the invalidation of its key.
ReadingOf(r) ==
  reading[r] # NotReading /\ reading[r].version < floor[reading[r].key] =>
    reading[r].key \in raced
CacheInv ==
  /\ StaleOnlyIfRaced
  /\ floor \in [Keys -> Nat] /\ \A k \in Keys : floor[k] <= version
  /\ \A r \in Readers : ReadingOf(r)
  /\ \A p \in Backfills : place[p] = "delete" =>
       \A k \in CoveredKeys(p) : cache[k] # 0 => k \in scanned[p] \cup raced

BackfillInv == BackfillShapes /\ RankInv /\ CacheInv

LEMMA BackfillInvInit == BackfillInit => BackfillInv
<1>. SUFFICES ASSUME BackfillInit PROVE BackfillInv
  OBVIOUS
<1>1. BackfillShapes
  BY DEF BackfillInit, BackfillShapes, BackfillTypeOK
<1>2. RankInv
  BY DEF BackfillInit, RankInv, CompletedRunSettles
<1>3. CacheInv
  BY DEF BackfillInit, CacheInv, StaleOnlyIfRaced, ReadingOf
<1>. QED BY <1>1, <1>2, <1>3 DEF BackfillInv

\* A commit leaves what is cached and read behind it.
LEMMA VersionUp ==
  ASSUME BackfillShapes, UNCHANGED <<cache, reading>>, version' = version + 1
  PROVE  /\ version' \in Nat \ {0} /\ \A k \in Keys : cache'[k] \in 0 .. version'
         /\ \A r \in Readers : reading'[r] # NotReading =>
              reading'[r].key \in Keys /\ reading'[r].version \in 1 .. version'
BY DEF BackfillShapes, BackfillTypeOK

LEMMA BackfillTypes ==
  ASSUME BackfillShapes, [BackfillNext]_backfillVars
  PROVE  BackfillShapes'
<1>. USE DEF BackfillShapes, BackfillTypeOK
<1>0. LastRow \in Nat /\ ForwardKeys \subseteq Keys /\ CorporateKeys \subseteq Keys
  BY BackfillAssumption
<1>1. ASSUME NEW p \in Backfills, StartBackfill(p) PROVE BackfillShapes'
  <2>1. range' \in [Backfills -> SUBSET Rows]
    <3>1. PICK first \in Rows, last \in Rows : range' = [range EXCEPT ![p] = first .. last]
      BY <1>1 DEF StartBackfill
    <3>2. first .. last \subseteq Rows
      BY <1>0 DEF Rows
    <3>. QED BY <3>1, <3>2
  <2>. QED BY <1>1, <2>1 DEF StartBackfill, Onward, columns, cacheVars
<1>2. ASSUME NEW p \in Backfills, NEW s \in BackSymbols, ReadSymbol(p, s) PROVE BackfillShapes'
  <2>1. \A x \in ForwardRows(p, s) \cup CorporateRows(p, s) : x[2] \in Rows
    BY DEF ForwardRows, CorporateRows
  <2>2. /\ computed' = [q \in Backfills |-> computed'[q]]
        /\ \A q \in Backfills : \A x \in computed'[q] : x[2] \in Rows
    BY <1>2, <2>1 DEF ReadSymbol
  <2>. QED BY <1>2, <2>2 DEF ReadSymbol, Onward, columns, cacheVars
<1>3. ASSUME NEW p \in Backfills, CommitSymbol(p) PROVE BackfillShapes'
  <2>1. rest' \in [Backfills -> SUBSET Rows]
    BY <1>3 DEF CommitSymbol
  <2>2. /\ UNCHANGED <<percentile, range, todo, scanned, cache, reading>>
        /\ computed' = [computed EXCEPT ![p] = {}] /\ solo' \subseteq Backfills
        /\ place' \in [Backfills -> {"idle", "read", "commit", "rank", "delete", "complete"}]
        /\ version' = version + 1 /\ exact' = {}
    BY <1>3 DEF CommitSymbol, Onward, columns, cacheVars
  <2>. QED BY <2>1, <2>2, VersionUp
<1>4. ASSUME NEW p \in Backfills, RankDates(p) PROVE BackfillShapes'
  BY <1>4 DEF RankDates, Onward, columns, cacheVars, PercentileDates
<1>5. ASSUME NEW p \in Backfills, RefreshDate(p) PROVE BackfillShapes'
  <2>1. rest' \in [Backfills -> SUBSET Rows]
    BY <1>5 DEF RefreshDate
  <2>2. /\ UNCHANGED <<place, range, todo, computed, scanned, solo, cache, reading>>
        /\ version' = version + 1 /\ UNCHANGED exact
    BY <1>5 DEF RefreshDate, cacheVars
  <2>3. percentile' = [s \in BackSymbols |-> [d \in Rows |-> percentile'[s][d]]]
    BY <1>5 DEF RefreshDate
  <2>. QED BY <2>1, <2>2, <2>3, VersionUp
<1>6. ASSUME NEW p \in Backfills, ScanKeys(p) PROVE BackfillShapes'
  BY <1>0, <1>6 DEF ScanKeys, Onward, columns, cacheVars, CoveredKeys
<1>7. ASSUME NEW p \in Backfills, DeleteKeys(p) \/ CompleteRun(p) \/ EndBackfill(p)
      PROVE  BackfillShapes'
  <2>1. exact' \subseteq Rows /\ UNCHANGED <<range, todo, rest, percentile, solo, version, reading>>
    BY <1>7 DEF DeleteKeys, CompleteRun, EndBackfill, columns, cacheVars, PercentileDates
  <2>2. /\ place' \in [Backfills -> {"idle", "read", "commit", "rank", "delete", "complete"}]
        /\ scanned' \in [Backfills -> SUBSET Keys]
    BY <1>7 DEF DeleteKeys, CompleteRun, EndBackfill, Onward
  <2>3. /\ computed' = [q \in Backfills |-> computed'[q]]
        /\ \A q \in Backfills : computed'[q] \subseteq computed[q]
    BY <1>7 DEF DeleteKeys, CompleteRun, EndBackfill
  <2>4. /\ cache' = [k \in Keys |-> cache'[k]] /\ \A k \in Keys : cache'[k] \in 0 .. version
    BY <1>7 DEF DeleteKeys, CompleteRun, EndBackfill, cacheVars
  <2>. QED BY <2>1, <2>2, <2>3, <2>4
<1>8. ASSUME NEW r \in Readers, (\E k \in Keys : MissAndQuery(r, k)) \/ FillCache(r)
      PROVE  BackfillShapes'
  <2>1. UNCHANGED <<percentile, place, range, todo, rest, computed, scanned, version, solo, exact>>
    BY <1>8 DEF MissAndQuery, FillCache, columns, scriptVars
  <2>2. CASE \E k \in Keys : MissAndQuery(r, k)
    <3>1. PICK k \in Keys : reading' = [reading EXCEPT ![r] = [key |-> k, version |-> version]]
      BY <2>2 DEF MissAndQuery
    <3>2. /\ reading' = [q \in Readers |-> reading'[q]]
          /\ reading'[r] = [key |-> k, version |-> version]
          /\ \A q \in Readers \ {r} : reading'[q] = reading[q]
      BY <3>1
    <3>3. version \in 1 .. version
      OBVIOUS
    <3>4. \A q \in Readers : reading'[q] # NotReading =>
            reading'[q].key \in Keys /\ reading'[q].version \in 1 .. version'
      BY <2>1, <3>2, <3>3
    <3>5. UNCHANGED cache
      BY <2>2 DEF MissAndQuery
    <3>. QED BY <2>1, <3>2, <3>4, <3>5
  <2>3. CASE FillCache(r)
    BY <2>1, <2>3 DEF FillCache
  <2>. QED BY <1>8, <2>2, <2>3
<1>9. CASE ExpireAtMidnight
  BY <1>9 DEF ExpireAtMidnight, columns, scriptVars
<1>10. CASE UNCHANGED backfillVars
  BY <1>10 DEF backfillVars, columns, scriptVars, cacheVars
<1>. QED BY <1>1, <1>2, <1>3, <1>4, <1>5, <1>6, <1>7, <1>8, <1>9, <1>10 DEF BackfillNext

\* A step that leaves the columns and what is ranked of them alone.
LEMMA RankKept ==
  ASSUME BackfillInv, BackfillShapes', NEW p \in Backfills,
         UNCHANGED <<iv, vrp, percentile, exact>>,
         \A q \in Backfills \ {p} : place'[q] = place[q] /\ range'[q] = range[q] /\ rest'[q] = rest[q],
         solo' \subseteq solo \cup {p}, p \in solo' => RankedSo(p)'
  PROVE  RankInv'
<1>1. \A s, d : PercentileOf(s, d)' = PercentileOf(s, d)
  BY DEF PercentileOf, CountLe
<1>2. ASSUME NEW q \in solo', q # p PROVE RankedSo(q)'
  <2>1. q \in solo /\ q \in Backfills /\ RankedSo(q)
    BY <1>2 DEF BackfillInv, BackfillShapes, RankInv
  <2>2. PercentileDates(q)' = PercentileDates(q)
    BY <1>2, <2>1 DEF PercentileDates
  <2>. QED BY <1>1, <1>2, <2>1, <2>2 DEF RankedSo
<1>3. CompletedRunSettles'
  BY <1>1 DEF BackfillInv, RankInv, CompletedRunSettles
<1>. QED BY <1>2, <1>3 DEF RankInv

LEMMA RankSame ==
  ASSUME RankInv, UNCHANGED <<iv, vrp, percentile, place, range, rest, solo, exact>>
  PROVE  RankInv'
<1>1. /\ \A s, d : PercentileOf(s, d)' = PercentileOf(s, d)
      /\ \A p : PercentileDates(p)' = PercentileDates(p)
  BY DEF PercentileOf, CountLe, PercentileDates
<1>. QED BY <1>1 DEF RankInv, RankedSo, CompletedRunSettles

LEMMA RankStep ==
  ASSUME BackfillInv, BackfillShapes', NEW p \in Backfills,
         \/ StartBackfill(p) \/ (\E s \in BackSymbols : ReadSymbol(p, s)) \/ CommitSymbol(p)
         \/ RankDates(p) \/ RefreshDate(p) \/ ScanKeys(p) \/ DeleteKeys(p)
         \/ CompleteRun(p) \/ EndBackfill(p)
  PROVE  RankInv'
<1>0. /\ place \in [Backfills -> {"idle", "read", "commit", "rank", "delete", "complete"}]
      /\ range \in [Backfills -> SUBSET Rows] /\ rest \in [Backfills -> SUBSET Rows]
      /\ solo \subseteq Backfills
  BY DEF BackfillInv, BackfillShapes, BackfillTypeOK
<1>1. CASE StartBackfill(p)
  <2>1. /\ place' = [place EXCEPT ![p] = "read"]
        /\ \A q \in Backfills \ {p} : range'[q] = range[q] /\ rest'[q] = rest[q]
        /\ UNCHANGED <<iv, vrp, percentile, exact>> /\ solo' = solo \cup {p}
    BY <1>0, <1>1 DEF StartBackfill, Onward, columns
  <2>2. RankedSo(p)'
    BY <1>0, <2>1 DEF RankedSo
  <2>. QED BY <1>0, <2>1, <2>2, RankKept
<1>2. CASE (\E s \in BackSymbols : ReadSymbol(p, s)) \/ EndBackfill(p)
  <2>1. PICK to \in {"commit", "idle"} : place' = [place EXCEPT ![p] = to]
    BY <1>2 DEF ReadSymbol, EndBackfill, Onward
  <2>2. UNCHANGED <<iv, vrp, percentile, exact, range, rest, solo>>
    BY <1>2 DEF ReadSymbol, EndBackfill, columns
  <2>3. RankedSo(p)'
    BY <1>0, <2>1 DEF RankedSo
  <2>. QED BY <1>0, <2>1, <2>2, <2>3, RankKept
<1>3. CASE CommitSymbol(p)
  <2>1. /\ place' = [place EXCEPT ![p] = "read"] /\ exact' = {} /\ solo' = solo \cap {p}
    BY <1>3 DEF CommitSymbol, Onward
  <2>. QED BY <1>0, <2>1 DEF RankInv, RankedSo, CompletedRunSettles
<1>4. CASE RankDates(p)
  <2>1. /\ place' = [place EXCEPT ![p] = "rank"] /\ UNCHANGED <<iv, vrp, percentile, exact, range, solo>>
        /\ rest' = [rest EXCEPT ![p] = rest[p] \cup PercentileDates(p)]
    BY <1>4 DEF RankDates, Onward, columns
  <2>2. PercentileDates(p)' = PercentileDates(p)
    BY <2>1 DEF PercentileDates
  <2>3. RankedSo(p)'
    BY <1>0, <2>1, <2>2 DEF RankedSo
  <2>. QED BY <1>0, <2>1, <2>3, RankKept
<1>5. CASE RefreshDate(p)
  <2>. DEFINE m == Min(rest[p])
  <2>1. /\ percentile' = [s \in BackSymbols |-> [percentile[s] EXCEPT ![m] = PercentileOf(s, m)]]
        /\ rest' = [rest EXCEPT ![p] = rest[p] \ {m}] /\ place[p] = "rank"
        /\ UNCHANGED <<iv, vrp, place, range, solo, exact>>
    BY <1>5 DEF RefreshDate
  <2>2. percentile = [s \in BackSymbols |-> [d \in Rows |-> percentile[s][d]]]
    BY DEF BackfillInv, BackfillShapes
  <2>. HIDE DEF m
  <2>3. \A s \in BackSymbols, d \in Rows :
          percentile'[s][d] = IF d = m THEN PercentileOf(s, d) ELSE percentile[s][d]
    BY <2>1, <2>2
  <2>4. \A s, d : PercentileOf(s, d)' = PercentileOf(s, d)
    BY <2>1 DEF PercentileOf, CountLe
  <2>5. \A q : PercentileDates(q)' = PercentileDates(q) /\ PercentileDates(q) \subseteq Rows
    BY <2>1 DEF PercentileDates
  <2>6. ASSUME NEW q \in solo PROVE RankedSo(q)'
    <3>1. RankedSo(q) /\ q \in Backfills
      BY <1>0 DEF BackfillInv, RankInv
    <3>2. rest'[q] = rest[q] \/ (q = p /\ rest'[q] = rest[q] \ {m})
      BY <1>0, <2>1, <3>1
    <3>3. place[q] \in {"delete", "complete"} => rest'[q] = {}
      BY <2>1, <3>1, <3>2 DEF RankedSo
    <3>4. ASSUME place[q] \in {"rank", "delete", "complete"}, NEW s \in BackSymbols,
                 NEW d \in PercentileDates(q) \ rest'[q]
          PROVE  percentile'[s][d] = PercentileOf(s, d)
      <4>1. d \in Rows /\ (d = m \/ d \in PercentileDates(q) \ rest[q])
        BY <2>5, <3>2
      <4>2. d \in PercentileDates(q) \ rest[q] => percentile[s][d] = PercentileOf(s, d)
        BY <3>1, <3>4 DEF RankedSo
      <4>. QED BY <2>3, <4>1, <4>2
    <3>. QED BY <2>1, <2>4, <2>5, <3>3, <3>4 DEF RankedSo
  <2>7. CompletedRunSettles'
    <3>1. \A s \in BackSymbols, d \in exact : percentile[s][d] = PercentileOf(s, d)
      BY DEF BackfillInv, RankInv, CompletedRunSettles
    <3>2. exact \subseteq Rows
      BY DEF BackfillInv, BackfillShapes
    <3>. QED BY <2>1, <2>3, <2>4, <3>1, <3>2 DEF CompletedRunSettles
  <2>. QED BY <2>1, <2>6, <2>7 DEF RankInv
<1>6. CASE ScanKeys(p) \/ DeleteKeys(p)
  <2>1. PICK to \in {"delete", "complete"} : place' = [place EXCEPT ![p] = to]
    BY <1>6 DEF ScanKeys, DeleteKeys, Onward
  <2>2. UNCHANGED <<iv, vrp, percentile, exact, range, rest, solo>>
    BY <1>6 DEF ScanKeys, DeleteKeys, columns
  <2>3. place[p] = "delete" \/ (place[p] = "rank" /\ rest[p] = {})
    BY <1>6 DEF ScanKeys, DeleteKeys, Onward
  <2>4. PercentileDates(p)' = PercentileDates(p) /\ \A s, d : PercentileOf(s, d)' = PercentileOf(s, d)
    BY <2>2 DEF PercentileDates, PercentileOf, CountLe
  <2>5. ASSUME p \in solo PROVE RankedSo(p)'
    <3>1. RankedSo(p)
      BY <2>5 DEF BackfillInv, RankInv
    <3>. QED BY <2>2, <2>3, <2>4, <3>1 DEF RankedSo
  <2>. QED BY <1>0, <2>1, <2>2, <2>5, RankKept
<1>7. CASE CompleteRun(p)
  <2>1. /\ place[p] = "complete" /\ place' = [place EXCEPT ![p] = "idle"]
        /\ exact' = IF p \in solo THEN PercentileDates(p) ELSE {}
        /\ UNCHANGED <<iv, vrp, percentile, range, rest, solo>>
    BY <1>7 DEF CompleteRun, Onward, columns
  <2>2. /\ \A q : PercentileDates(q)' = PercentileDates(q)
        /\ \A s, d : PercentileOf(s, d)' = PercentileOf(s, d)
    BY <2>1 DEF PercentileDates, PercentileOf, CountLe
  <2>3. CompletedRunSettles'
    <3>1. p \in solo => RankedSo(p)
      BY DEF BackfillInv, RankInv
    <3>. QED BY <2>1, <2>2, <3>1 DEF RankedSo, CompletedRunSettles
  <2>4. ASSUME NEW q \in solo PROVE RankedSo(q)'
    <3>1. RankedSo(q) /\ q \in Backfills
      BY <1>0 DEF BackfillInv, RankInv
    <3>2. place'[q] = place[q] \/ place'[q] = "idle"
      BY <1>0, <2>1, <3>1
    <3>. QED BY <2>1, <2>2, <3>1, <3>2 DEF RankedSo
  <2>. QED BY <2>1, <2>3, <2>4 DEF RankInv
<1>. QED BY <1>1, <1>2, <1>3, <1>4, <1>5, <1>6, <1>7

\* A step of a script that touches no cached response.
LEMMA CacheKept ==
  ASSUME BackfillInv, BackfillShapes', NEW p \in Backfills,
         UNCHANGED <<cache, reading, floor, raced>>, version <= version',
         \A q \in Backfills \ {p} : place'[q] = place[q] /\ scanned'[q] = scanned[q],
         place'[p] # "delete"
  PROVE  CacheInv'
<1>1. \A k \in Keys : floor'[k] <= version'
  BY DEF BackfillInv, BackfillShapes, CacheInv
<1>2. ASSUME NEW q \in Backfills, place'[q] = "delete", NEW k \in CoveredKeys(q), cache'[k] # 0
      PROVE  k \in scanned'[q] \cup raced'
  <2>1. place[q] = "delete" /\ scanned'[q] = scanned[q]
    BY <1>2
  <2>. QED BY <1>2, <2>1 DEF BackfillInv, CacheInv
<1>3. StaleOnlyIfRaced' /\ \A r \in Readers : ReadingOf(r)'
  BY DEF BackfillInv, CacheInv, StaleOnlyIfRaced, ReadingOf
<1>. QED BY <1>1, <1>2, <1>3 DEF BackfillInv, CacheInv, CoveredKeys

LEMMA CacheStep ==
  ASSUME BackfillInv, BackfillShapes', NEW p \in Backfills,
         \/ StartBackfill(p) \/ (\E s \in BackSymbols : ReadSymbol(p, s)) \/ CommitSymbol(p)
         \/ RankDates(p) \/ RefreshDate(p) \/ ScanKeys(p) \/ DeleteKeys(p)
         \/ CompleteRun(p) \/ EndBackfill(p)
  PROVE  CacheInv'
<1>0. /\ place \in [Backfills -> {"idle", "read", "commit", "rank", "delete", "complete"}]
      /\ scanned \in [Backfills -> SUBSET Keys] /\ version \in Nat
      /\ \A k \in Keys : cache[k] \in 0 .. version
      /\ cache = [k \in Keys |-> cache[k]] /\ floor \in [Keys -> Nat]
      /\ CoveredKeys(p) \subseteq Keys
  BY BackfillAssumption DEF BackfillInv, BackfillShapes, BackfillTypeOK, CacheInv, CoveredKeys
<1>1. CASE \/ StartBackfill(p) \/ (\E s \in BackSymbols : ReadSymbol(p, s)) \/ CommitSymbol(p)
           \/ RankDates(p) \/ RefreshDate(p) \/ CompleteRun(p) \/ EndBackfill(p)
  <2>1. UNCHANGED <<cache, reading, floor, raced>> /\ version <= version'
    BY <1>0, <1>1 DEF StartBackfill, ReadSymbol, CommitSymbol, RankDates, RefreshDate, CompleteRun,
                      EndBackfill, cacheVars
  <2>2. /\ \A q \in Backfills \ {p} : place'[q] = place[q] /\ scanned'[q] = scanned[q]
        /\ place'[p] # "delete"
    BY <1>0, <1>1 DEF StartBackfill, ReadSymbol, CommitSymbol, RankDates, RefreshDate, CompleteRun,
                      EndBackfill, Onward
  <2>. QED BY <2>1, <2>2, CacheKept
<1>2. CASE ScanKeys(p)
  <2>1. /\ UNCHANGED <<cache, reading, floor, raced, version>>
        /\ \A q \in Backfills \ {p} : place'[q] = place[q] /\ scanned'[q] = scanned[q]
        /\ scanned'[p] = {k \in CoveredKeys(p) : cache[k] # 0}
    BY <1>0, <1>2 DEF ScanKeys, Onward, cacheVars
  <2>. QED BY <2>1 DEF BackfillInv, CacheInv, StaleOnlyIfRaced, ReadingOf, CoveredKeys
<1>3. CASE DeleteKeys(p)
  <2>1. /\ place[p] = "delete" /\ UNCHANGED <<reading, version>> /\ raced' = raced \cup BeingRead
        /\ \A k \in Keys : /\ cache'[k] = (IF k \in scanned[p] THEN 0 ELSE cache[k])
                           /\ floor'[k] = (IF k \in CoveredKeys(p) THEN version ELSE floor[k])
        /\ floor' \in [Keys -> Nat]
        /\ \A q \in Backfills : place'[q] = "delete" => place[q] = "delete" /\ scanned'[q] = scanned[q]
    BY <1>0, <1>3 DEF DeleteKeys, Onward
  <2>2. StaleOnlyIfRaced'
    BY <1>0, <2>1 DEF BackfillInv, CacheInv, StaleOnlyIfRaced
  <2>3. \A r \in Readers : ReadingOf(r)'
    BY <1>0, <2>1 DEF BackfillInv, BackfillShapes, CacheInv, ReadingOf, BeingRead
  <2>4. \A k \in Keys : floor'[k] <= version'
    BY <1>0, <2>1 DEF BackfillInv, CacheInv
  <2>5. \A q \in Backfills : CoveredKeys(q) \subseteq Keys
    BY BackfillAssumption DEF CoveredKeys
  <2>6. ASSUME NEW q \in Backfills, place'[q] = "delete", NEW k \in CoveredKeys(q), cache'[k] # 0
        PROVE  k \in scanned'[q] \cup raced'
    <3>1. cache[k] # 0 /\ place[q] = "delete" /\ scanned'[q] = scanned[q]
      BY <2>1, <2>5, <2>6
    <3>. QED BY <2>1, <2>6, <3>1 DEF BackfillInv, CacheInv
  <2>. QED BY <2>1, <2>2, <2>3, <2>4, <2>6 DEF CacheInv, CoveredKeys
<1>. QED BY <1>1, <1>2, <1>3

LEMMA CacheRead ==
  ASSUME BackfillInv, BackfillShapes',
         \/ \E r \in Readers : (\E k \in Keys : MissAndQuery(r, k)) \/ FillCache(r)
         \/ ExpireAtMidnight
  PROVE  CacheInv' /\ RankInv'
<1>0. /\ version \in Nat /\ floor \in [Keys -> Nat] /\ \A k \in Keys : floor[k] <= version
      /\ cache = [k \in Keys |-> cache[k]] /\ reading = [r \in Readers |-> reading[r]]
      /\ \A q \in Backfills : CoveredKeys(q) \subseteq Keys
  BY BackfillAssumption DEF BackfillInv, BackfillShapes, CacheInv, CoveredKeys
<1>1. UNCHANGED <<iv, vrp, percentile, place, range, rest, scanned, version, solo, exact, floor>>
  BY DEF MissAndQuery, FillCache, ExpireAtMidnight, columns, scriptVars
<1>2. RankInv'
  BY <1>1, RankSame DEF BackfillInv
<1>3. ASSUME NEW r \in Readers, NEW k \in Keys, MissAndQuery(r, k) PROVE CacheInv'
  <2>1. /\ UNCHANGED <<cache, raced>> /\ \A q \in Readers \ {r} : reading'[q] = reading[q]
        /\ reading'[r] = [key |-> k, version |-> version]
    BY <1>0, <1>3 DEF MissAndQuery
  <2>2. ~ (version < floor[k])
    BY <1>0
  <2>. QED BY <1>1, <2>1, <2>2 DEF BackfillInv, CacheInv, StaleOnlyIfRaced, ReadingOf, CoveredKeys
<1>4. ASSUME NEW r \in Readers, FillCache(r) PROVE CacheInv'
  <2>. DEFINE key == reading[r].key
  <2>1. /\ reading[r] # NotReading /\ key \in Keys /\ raced \subseteq raced'
        /\ \A k \in Keys : cache'[k] = IF k = key THEN reading[r].version ELSE cache[k]
        /\ \A q \in Readers \ {r} : reading'[q] = reading[q]
        /\ reading'[r] = NotReading
        /\ (\E p \in Backfills : place[p] = "delete") => key \in raced'
    BY <1>0, <1>4 DEF FillCache, BackfillInv, BackfillShapes
  <2>2. reading[r].version < floor[key] => key \in raced
    BY <2>1 DEF BackfillInv, CacheInv, ReadingOf
  <2>. HIDE DEF key
  <2>3. StaleOnlyIfRaced'
    BY <1>1, <2>1, <2>2 DEF BackfillInv, CacheInv, StaleOnlyIfRaced, key
  <2>4. \A q \in Readers : ReadingOf(q)'
    BY <1>1, <2>1 DEF BackfillInv, CacheInv, ReadingOf
  <2>5. ASSUME NEW p \in Backfills, place[p] = "delete", NEW k \in CoveredKeys(p), cache'[k] # 0
        PROVE  k \in scanned[p] \cup raced'
    BY <1>0, <2>1, <2>5 DEF BackfillInv, CacheInv
  <2>. QED BY <1>1, <2>3, <2>4, <2>5 DEF BackfillInv, CacheInv, CoveredKeys
<1>5. CASE ExpireAtMidnight
  <2>1. UNCHANGED reading /\ raced' = BeingRead /\ \A k \in Keys : cache'[k] = 0
    BY <1>5 DEF ExpireAtMidnight
  <2>2. ASSUME NEW r \in Readers PROVE ReadingOf(r)'
    <3>1. reading[r] # NotReading => reading[r].key \in BeingRead
      BY DEF BackfillInv, BackfillShapes, BeingRead
    <3>. QED BY <2>1, <3>1 DEF ReadingOf
  <2>3. StaleOnlyIfRaced'
    BY <2>1 DEF StaleOnlyIfRaced
  <2>4. \A p \in Backfills : \A k \in CoveredKeys(p) : cache'[k] = 0
    <3>1. \A p \in Backfills : \A k \in CoveredKeys(p) : k \in Keys
      BY <1>0
    <3>. QED BY <2>1, <3>1
  <2>5. /\ floor' \in [Keys -> Nat] /\ \A k \in Keys : floor'[k] <= version'
    BY <1>0, <1>1
  <2>. QED BY <1>2, <2>2, <2>3, <2>4, <2>5 DEF CacheInv, CoveredKeys
<1>. QED BY <1>2, <1>3, <1>4, <1>5

LEMMA BackfillStep == BackfillInv /\ [BackfillNext]_backfillVars => BackfillInv'
<1>. SUFFICES ASSUME BackfillInv, [BackfillNext]_backfillVars PROVE BackfillInv'
  OBVIOUS
<1>1. BackfillShapes'
  BY BackfillTypes DEF BackfillInv
<1>2. CASE UNCHANGED backfillVars
  <2>1. RankInv'
    BY <1>2, RankSame DEF backfillVars, columns, scriptVars, BackfillInv
  <2>2. CacheInv'
    BY <1>2 DEF backfillVars, cacheVars, scriptVars, BackfillInv, CacheInv, StaleOnlyIfRaced,
                ReadingOf, CoveredKeys
  <2>. QED BY <1>1, <2>1, <2>2 DEF BackfillInv
<1>3. CASE BackfillNext
  BY <1>1, <1>3, RankStep, CacheStep, CacheRead DEF BackfillNext, BackfillInv
<1>. QED BY <1>2, <1>3

\* After a backfill that ran from its start to its end with no other one committing,
\* the percentiles of its dates, and of the tail that looks back on them, are those of
\* the columns, whatever died before: "the script is restart-safe".
THEOREM RestartSafe == BackfillSpec => [](BackfillTypeOK /\ CompletedRunSettles)
<1>1. BackfillInv => BackfillTypeOK /\ CompletedRunSettles
  BY DEF BackfillInv, BackfillShapes, RankInv
<1>. QED BY <1>1, BackfillInvInit, BackfillStep, PTL DEF BackfillSpec

\* A response from before an invalidation of its key outlives it only when it was read
\* before the keys were deleted and cached after they were scanned, between the two
\* steps of invalidate_forward_factor_cache or across them.
THEOREM StaleRaced == BackfillSpec => []StaleOnlyIfRaced
<1>1. BackfillInv => StaleOnlyIfRaced
  BY DEF BackfillInv, CacheInv
<1>. QED BY <1>1, BackfillInvInit, BackfillStep, PTL DEF BackfillSpec
-----------------------------------------------------------------------------
(* The composition *)

\* The jobs share no variable, so side by side each keeps its own specification: what
\* is proved of run_for_date, of a refresh of events, of the corporate actions and of a
\* backfill by themselves holds of every behaviour of MCJobs.
THEOREM JobsKeepSpecs == JobsSpec => EodSpec /\ EventsSpec /\ ActionsSpec /\ BackfillSpec
<1>1. JobsInit => EodInit /\ EventsInit /\ ActionsInit /\ BackfillInit
  BY DEF JobsInit
<1>2. [JobsNext]_jobVars => /\ [EodNext]_eodVars /\ [EventsNext]_eventVars
                            /\ [ActionsNext]_actionVars /\ [BackfillNext]_backfillVars
  <2>. SUFFICES ASSUME [JobsNext]_jobVars
                PROVE  /\ [EodNext]_eodVars /\ [EventsNext]_eventVars
                       /\ [ActionsNext]_actionVars /\ [BackfillNext]_backfillVars
    OBVIOUS
  <2>1. \/ EodNext /\ UNCHANGED <<eventVars, actionVars, backfillVars>>
        \/ EventsNext /\ UNCHANGED <<eodVars, actionVars, backfillVars>>
        \/ ActionsNext /\ UNCHANGED <<eodVars, eventVars, backfillVars>>
        \/ BackfillNext /\ UNCHANGED <<eodVars, eventVars, actionVars>>
        \/ UNCHANGED <<eodVars, eventVars, actionVars, backfillVars>>
    BY DEF JobsNext, jobVars
  <2>. QED BY <2>1
<1>. QED BY <1>1, <1>2, PTL DEF JobsSpec, EodSpec, EventsSpec, ActionsSpec, BackfillSpec

\* The types of the four, in the composition that is model-checked.
THEOREM JobsTypes == JobsSpec => []JobsTypeOK
<1>1. EodTypeOK /\ (EventsTypeOK /\ PlannedReplaced) /\ ActionsTypeOK
        /\ (BackfillTypeOK /\ CompletedRunSettles) => JobsTypeOK
  BY DEF JobsTypeOK
<1>. QED BY <1>1, JobsKeepSpecs, EodTypes, PlannedDatesReplaced, ActionsTypes, RestartSafe, PTL
=============================================================================
