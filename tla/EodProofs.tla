------------------------------ MODULE EodProofs ------------------------------
(***************************************************************************)
(* Proofs about EodPipeline for every value of its constants.              *)
(***************************************************************************)
EXTENDS EodPipeline, FiniteSetTheorems, WellFoundedInduction, TLAPS

-----------------------------------------------------------------------------
(* Smallest and largest members of sets of numbers. *)

LEMMA MinOfNats ==
  ASSUME NEW S, S \subseteq Nat, S # {}
  PROVE  Min(S) \in S /\ \A x \in S : Min(S) <= x
<1>. DEFINE R == {ss \in Nat \X Nat : ss[1] < ss[2]}
<1>0. IsWellFoundedOn(R, Nat)
  BY NatLessThanWellFounded DEF OpToRel
<1>1. PICK m \in S : \A y \in S : ~ (<<y, m>> \in R)
  <2>. HIDE DEF R
  <2>. QED BY <1>0, WFMin
<1>2. \A y \in S : m <= y
  <2>. SUFFICES ASSUME NEW y \in S PROVE m <= y
    OBVIOUS
  <2>1. <<y, m>> \in Nat \X Nat /\ <<y, m>>[1] = y /\ <<y, m>>[2] = m
    OBVIOUS
  <2>2. ~ (y < m)
    BY <1>1, <2>1
  <2>. QED BY <2>2
<1>. QED BY <1>2 DEF Min

LEMMA MaxOfNats ==
  ASSUME NEW S, NEW n \in Nat, S \subseteq 0 .. n, S # {}
  PROVE  Max(S) \in S /\ \A x \in S : x <= Max(S)
<1>. DEFINE B == {b \in Nat : \A x \in S : x <= b}
<1>1. B \subseteq Nat /\ n \in B
  OBVIOUS
<1>2. Min(B) \in B /\ \A b \in B : Min(B) <= b
  BY <1>1, MinOfNats
<1>. DEFINE m == Min(B)
<1>3. m \in S
  <2>. SUFFICES ASSUME m \notin S PROVE FALSE
    OBVIOUS
  <2>1. \A x \in S : x \in Nat /\ x <= m /\ x # m
    BY <1>2
  <2>2. m - 1 \in B
    <3>1. PICK x \in S : TRUE
      OBVIOUS
    <3>2. m \in Nat /\ m - 1 \in Nat
      BY <1>2, <2>1, <3>1
    <3>. QED BY <2>1, <3>2
  <2>. QED BY <1>2, <2>2
<1>4. m \in S /\ \A x \in S : m >= x
  BY <1>2, <1>3
<1>. HIDE DEF m, B
<1>. QED BY <1>4 DEF Max
-----------------------------------------------------------------------------
(* Types *)

LEMMA SpotDayMax ==
  ASSUME NEW d \in Days, NEW s, SpotDay(d, s) # {}
  PROVE  /\ Max(SpotDay(d, s)) \in 1 .. d /\ <<Max(SpotDay(d, s)), s>> \in equity
         /\ <<d, s>> \in equity => Max(SpotDay(d, s)) = d
<1>1. d \in Nat /\ SpotDay(d, s) \subseteq 0 .. d
  BY EodAssumption DEF SpotDay, Days
<1>2. Max(SpotDay(d, s)) \in SpotDay(d, s) /\ \A x \in SpotDay(d, s) : x <= Max(SpotDay(d, s))
  BY <1>1, MaxOfNats
<1>3. Max(SpotDay(d, s)) \in 1 .. d /\ <<Max(SpotDay(d, s)), s>> \in equity
  BY <1>2 DEF SpotDay
<1>4. ASSUME <<d, s>> \in equity PROVE Max(SpotDay(d, s)) = d
  <2>1. d \in SpotDay(d, s)
    BY <1>1, <1>4 DEF SpotDay, Days
  <2>. QED BY <1>1, <1>2, <1>3, <2>1
<1>. QED BY <1>3, <1>4

\* Every variable is a table of the right shape.
Table(f, A, B) == f = [a \in A |-> [b \in B |-> f[a][b]]]
Timed == {"priced", "derived", "read", "measured"}
TaskPlaces == {"no", "todo"} \cup Timed
EodShapes ==
  /\ kind \in [Runs -> JobKinds] /\ scope \in [Runs -> SUBSET Symbols]
  /\ dates \in [Runs -> SUBSET Days] /\ task \in [Runs -> [Symbols -> TaskPlaces]]
  /\ Table(row, Runs, Symbols)
  /\ Table(spotUsed, Days, Symbols)
  /\ Table(metric, Days, Symbols)
  /\ Table(rank, Days, Symbols)
  /\ Table(straddle, Days, Symbols)
  /\ wrote \in [Days -> [Symbols -> {"load", "reset", "refill"}]]
EodTypeInv == EodTypeOK /\ EodShapes

\* One entry of a table of rows is set.
LEMMA EntrySet ==
  ASSUME NEW A, NEW B, NEW f, f = [a \in A |-> [b \in B |-> f[a][b]]],
         NEW p \in A, NEW s \in B, NEW v, NEW g, g = [f EXCEPT ![p] = [f[p] EXCEPT ![s] = v]]
  PROVE  /\ g = [a \in A |-> [b \in B |-> g[a][b]]]
         /\ \A a \in A, b \in B : g[a][b] = IF a = p /\ b = s THEN v ELSE f[a][b]
<1>1. DOMAIN f = A /\ \A a \in A : f[a] = [b \in B |-> f[a][b]]
  OBVIOUS
<1>2. DOMAIN f[p] = B
  BY <1>1
<1>3. DOMAIN g = A /\ \A a \in A : g[a] = IF a = p THEN [f[p] EXCEPT ![s] = v] ELSE f[a]
  BY <1>1
<1>4. \A a \in A, b \in B : g[a][b] = IF a = p /\ b = s THEN v ELSE f[a][b]
  BY <1>2, <1>3
<1>5. \A a \in A : g[a] = [b \in B |-> g[a][b]]
  <2>1. g[p] = [f[p] EXCEPT ![s] = v] /\ \A a \in A : a # p => g[a] = f[a]
    BY <1>3
  <2>2. g[p] = [b \in B |-> g[p][b]]
    BY <1>2, <2>1
  <2>3. \A a \in A : a # p => g[a] = [b \in B |-> g[a][b]]
    BY <1>1, <2>1
  <2>. QED BY <2>2, <2>3
<1>6. g = [a \in A |-> g[a]]
  BY <1>3
<1>7. g = [a \in A |-> [b \in B |-> g[a][b]]]
  BY <1>5, <1>6
<1>. QED BY <1>4, <1>7

LEMMA TableSet ==
  ASSUME NEW A, NEW B, NEW f, Table(f, A, B), NEW p \in A, NEW s \in B, NEW v, NEW g,
         g = [f EXCEPT ![p] = [f[p] EXCEPT ![s] = v]]
  PROVE  Table(g, A, B)
<1>1. g = [f EXCEPT ![p] = [f[p] EXCEPT ![s] = v]]
  OBVIOUS
<1>2. DOMAIN f = A /\ \A a \in A : f[a] = [b \in B |-> f[a][b]]
  BY DEF Table
<1>3. DOMAIN g = A /\ \A a \in A : g[a] = IF a = p THEN [f[p] EXCEPT ![s] = v] ELSE f[a]
  BY <1>1, <1>2
<1>4. \A a \in A : g[a] = [b \in B |-> g[a][b]]
  <2>1. DOMAIN f[p] = B /\ g[p] = [f[p] EXCEPT ![s] = v]
    BY <1>2, <1>3
  <2>2. g[p] = [b \in B |-> g[p][b]]
    BY <2>1
  <2>. QED BY <1>2, <1>3, <2>2
<1>5. g = [a \in A |-> g[a]]
  BY <1>3
<1>. QED BY <1>4, <1>5 DEF Table

\* All the entries of one index are set.
LEMMA TableSetAll ==
  ASSUME NEW A, NEW B, NEW f, Table(f, A, B), NEW p \in A, NEW v, v = [b \in B |-> v[b]]
  PROVE  Table([f EXCEPT ![p] = v], A, B)
<1>. DEFINE g == [f EXCEPT ![p] = v]
<1>1. DOMAIN f = A /\ \A a \in A : f[a] = [b \in B |-> f[a][b]]
  BY DEF Table
<1>2. DOMAIN g = A /\ \A a \in A : g[a] = IF a = p THEN v ELSE f[a]
  BY <1>1
<1>3. g = [a \in A |-> g[a]]
  BY <1>2
<1>. HIDE DEF g
<1>4. \A a \in A : g[a] = [b \in B |-> g[a][b]]
  BY <1>1, <1>2
<1>5. Table(g, A, B)
  BY <1>3, <1>4 DEF Table
<1>. QED BY <1>5 DEF g

LEMMA EodTypeInit == EodInit => EodTypeInv
<1>1. 1 \in Days
  BY EodAssumption DEF Days
<1>. QED BY <1>1 DEF EodInit, EodTypeInv, EodTypeOK, EodShapes, Table, Stages, JobKinds, OneDay,
                     TaskPlaces

\* The days a run or a script takes up.
LEMMA DaysChosen ==
  ASSUME EodTypeInv
  PROVE  /\ \A p \in Runs : dates[p] # {} => Min(dates[p]) \in dates[p]
         /\ \A S \in SUBSET Days : S # {} => Max(S) \in S
<1>1. LastDay \in Nat /\ Days \subseteq Nat /\ Days \subseteq 0 .. LastDay
  BY EodAssumption DEF Days
<1>2. ASSUME NEW p \in Runs, dates[p] # {} PROVE Min(dates[p]) \in dates[p]
  BY <1>1, <1>2, MinOfNats DEF EodTypeInv, EodShapes
<1>3. ASSUME NEW S \in SUBSET Days, S # {} PROVE Max(S) \in S
  BY <1>1, <1>3, MaxOfNats
<1>. QED BY <1>2, <1>3

LEMMA StartsType ==
  ASSUME EodTypeInv, NEW p \in Runs, StartRun(p) \/ StartScript(p) \/ StartIndexBackfill(p)
  PROVE  EodTypeInv'
<1>. USE DEF EodTypeInv, EodTypeOK, EodShapes, Table, Stages, database, taskVars, Go
<1>1. CASE StartRun(p)
  <2>1. kind' \in [Runs -> JobKinds] /\ scope' \in [Runs -> SUBSET Symbols]
        /\ day' \in [Runs -> Days] /\ clean' \subseteq Runs /\ stage' \in [Runs -> Stages]
    BY <1>1, EodAssumption DEF StartRun, OneDay, JobKinds
  <2>. QED BY <1>1, <2>1 DEF StartRun
<1>2. CASE StartScript(p)
  <2>1. kind' \in [Runs -> JobKinds] /\ scope' \in [Runs -> SUBSET Symbols]
        /\ dates' \in [Runs -> SUBSET Days] /\ clean' \subseteq Runs /\ stage' \in [Runs -> Stages]
    <3>1. PICK k \in {"initialize", "recompute"}, first \in Days, last \in Days, only \in Scopes :
            /\ kind' = [kind EXCEPT ![p] = k] /\ scope' = [scope EXCEPT ![p] = only]
            /\ dates' = [dates EXCEPT ![p] =
                 {d \in first .. last : k = "recompute" => \E s \in only : <<d, s>> \in options}]
            /\ span' = [span EXCEPT ![p] = IF k = "initialize" THEN first .. last ELSE {}]
      BY <1>2 DEF StartScript
    <3>2. first .. last \subseteq Days
      BY EodAssumption DEF Days
    <3>. QED BY <1>2, <3>1, <3>2, EodAssumption DEF StartScript, JobKinds
  <2>2. UNCHANGED <<database, day, taskVars, finished, wrote>>
    BY <1>2 DEF StartScript
  <2>. QED BY <2>1, <2>2
<1>3. CASE StartIndexBackfill(p)
  <2>1. PICK first \in Days, last \in Days, known \in SUBSET Symbols :
          /\ scope' = [scope EXCEPT ![p] = known]
          /\ dates' = [dates EXCEPT ![p] = first .. last]
    <3>1. \A only : {i \in Indices \cap only : \E d \in Days : <<d, i>> \in options} \in SUBSET Symbols
      BY EodAssumption
    <3>. QED BY <1>3, <3>1 DEF StartIndexBackfill
  <2>2. first .. last \subseteq Days
    BY EodAssumption DEF Days
  <2>3. kind' \in [Runs -> JobKinds] /\ scope' \in [Runs -> SUBSET Symbols]
        /\ dates' \in [Runs -> SUBSET Days] /\ clean' \subseteq Runs /\ stage' \in [Runs -> Stages]
    BY <1>3, <2>1, <2>2 DEF StartIndexBackfill, JobKinds
  <2>4. UNCHANGED <<database, day, taskVars, finished, wrote>>
    BY <1>3 DEF StartIndexBackfill
  <2>. QED BY <2>3, <2>4
<1>. QED BY <1>1, <1>2, <1>3

LEMMA LoadType ==
  ASSUME EodTypeInv, NEW p \in Runs,
         \/ UpsertOptions(p) \/ UpsertEquity(p) \/ Discover(p) \/ Computed(p)
         \/ Percentiles(p) \/ Aggregates(p) \/ UpsertCalendar(p)
         \/ Deactivate(p) \/ Activate(p) \/ PopulateCalendar(p)
         \/ UpsertIndexBars(p) \/ DiscoverIndices(p) \/ SelectIndexDates(p)
  PROVE  EodTypeInv'
<1>. USE EodAssumption
     DEF EodTypeInv, EodTypeOK, EodShapes, Table, Stages, database, taskVars, runArgs, histories, Go
<1>1. CASE UpsertOptions(p)
  BY <1>1 DEF UpsertOptions, FoRows
<1>2. CASE UpsertEquity(p)
  <2>1. equity' \subseteq Days \X Symbols
    BY <1>2 DEF UpsertEquity, CmRows, IndexAnswers, FoRows
  <2>. QED BY <1>2, <2>1 DEF UpsertEquity
<1>3. CASE Discover(p)
  <2>1. universe' \in [Symbols -> {"absent", "inactive", "active"}]
    BY <1>3 DEF Discover, Discovered
  <2>2. task' \in [Runs -> [Symbols -> TaskPlaces]]
    BY <1>3 DEF Discover, TaskPlaces
  <2>. QED BY <1>3, <2>1, <2>2 DEF Discover
<1>4. CASE Computed(p)
  <2>1. stage' \in [Runs -> Stages]
    <3>1. PICK to \in Stages : stage' = [stage EXCEPT ![p] = to]
      BY <1>4 DEF Computed
    <3>. QED BY <3>1
  <2>. QED BY <1>4, <2>1 DEF Computed
<1>5. CASE Percentiles(p)
  <2>1. rank' = [d \in Days |-> [s \in Symbols |-> rank'[d][s]]]
    BY <1>5 DEF Percentiles, Ranked
  <2>2. finished' \subseteq Days
    <3>1. finished' = finished \cup {day[p]} \/ finished' = finished
      BY <1>5 DEF Percentiles
    <3>2. day[p] \in Days /\ finished \subseteq Days
      BY DEF EodTypeInv, EodTypeOK
    <3>. QED BY <3>1, <3>2
  <2>3. stage' \in [Runs -> Stages]
    BY <1>5 DEF Percentiles
  <2>4. /\ UNCHANGED <<options, equity, spotUsed, universe, metric, straddle>>
        /\ UNCHANGED <<kind, day, scope, dates, task, row, clean, wrote>>
    BY <1>5 DEF Percentiles
  <2>. QED BY <2>1, <2>2, <2>3, <2>4
<1>6. CASE Aggregates(p)
  BY <1>6 DEF Aggregates
<1>7. CASE UpsertCalendar(p)
  BY <1>7 DEF UpsertCalendar
<1>8. CASE Deactivate(p)
  BY <1>8 DEF Deactivate
<1>9. CASE Activate(p)
  BY <1>9 DEF Activate
<1>10. CASE PopulateCalendar(p)
  BY <1>10 DEF PopulateCalendar
<1>11. CASE UpsertIndexBars(p)
  <2>1. equity' \subseteq Days \X Symbols
    BY <1>11 DEF UpsertIndexBars
  <2>. QED BY <1>11, <2>1 DEF UpsertIndexBars
<1>12. CASE DiscoverIndices(p)
  <2>1. universe' \in [Symbols -> {"absent", "inactive", "active"}]
    BY <1>12 DEF DiscoverIndices
  <2>. QED BY <1>12, <2>1 DEF DiscoverIndices
<1>13. CASE SelectIndexDates(p)
  <2>1. dates' \in [Runs -> SUBSET Days]
    BY <1>13 DEF SelectIndexDates
  <2>. QED BY <1>13, <2>1 DEF SelectIndexDates
<1>. QED BY <1>1, <1>2, <1>3, <1>4, <1>5, <1>6, <1>7, <1>8, <1>9, <1>10, <1>11, <1>12, <1>13

LEMMA MoveType ==
  ASSUME EodTypeInv, NEW p \in Runs, NEW s \in Symbols, NEW from, NEW to \in TaskPlaces,
         Place(p, s, from, to)
  PROVE  /\ task' \in [Runs -> [Symbols -> TaskPlaces]]
         /\ UNCHANGED <<stage, kind, day, scope, dates, started>>
BY DEF EodTypeInv, EodShapes, Place, runArgs

LEMMA SymbolType ==
  ASSUME EodTypeInv, NEW p \in Runs, NEW s \in Symbols,
         \/ ReadSpot(p, s) \/ DeriveContracts(p, s) \/ ReadBack(p, s) \/ UpsertMetric(p, s)
         \/ UpsertStraddle(p, s) \/ SymbolRaises(p, s)
  PROVE  EodTypeInv'
<1>0. day[p] \in Days /\ \A x \in {"no"} \cup Timed : x \in TaskPlaces
  BY DEF EodTypeInv, EodTypeOK, TaskPlaces
<1>7. ASSUME \E v : row' = [row EXCEPT ![p] = [row[p] EXCEPT ![s] = v]]
      PROVE  Table(row', Runs, Symbols)
  <2>1. Table(row, Runs, Symbols)
    BY DEF EodTypeInv, EodShapes
  <2>. QED BY <1>7, <2>1, TableSet
<1>1. CASE ReadSpot(p, s)
  <2>1. PICK to \in TaskPlaces : Move(p, s, "todo", to)
    BY <1>0, <1>1 DEF ReadSpot, Timed
  <2>2. Table(row', Runs, Symbols)
    <3>1. CASE UNCHANGED row
      BY <3>1 DEF EodTypeInv, EodShapes
    <3>2. ASSUME NEW v, row' = [row EXCEPT ![p] = [row[p] EXCEPT ![s] = v]]
          PROVE  Table(row', Runs, Symbols)
      BY <1>7, <3>2
    <3>. QED BY <1>1, <3>1, <3>2 DEF ReadSpot
  <2>3. UNCHANGED database
    BY <1>1 DEF ReadSpot
  <2>. QED BY <2>1, <2>2, <2>3, MoveType
           DEF Move, database, histories, EodTypeInv, EodTypeOK, EodShapes
<1>2. CASE DeriveContracts(p, s)
  <2>1. Move(p, s, "priced", "derived")
    BY <1>2 DEF DeriveContracts
  <2>2. Table(spotUsed', Days, Symbols)
    <3>1. spotUsed' = [spotUsed EXCEPT ![day[p]] = [spotUsed[day[p]] EXCEPT ![s] = row[p][s].spot]]
      BY <1>2 DEF DeriveContracts
    <3>2. Table(spotUsed, Days, Symbols)
      BY DEF EodTypeInv, EodShapes
    <3>. QED BY <1>0, <3>1, <3>2, TableSet
  <2>3. UNCHANGED <<options, equity, universe, metric, rank, straddle, row>>
    BY <1>2 DEF DeriveContracts
  <2>. QED BY <1>0, <2>1, <2>2, <2>3, MoveType
           DEF Move, Timed, histories, EodTypeInv, EodTypeOK, EodShapes
<1>3. CASE ReadBack(p, s)
  <2>1. Table(row', Runs, Symbols)
    <3>1. PICK v : row' = [row EXCEPT ![p] = [row[p] EXCEPT ![s] = v]]
      BY <1>3 DEF ReadBack
    <3>. QED BY <1>7, <3>1
  <2>2. Move(p, s, "derived", "read") /\ UNCHANGED database
    BY <1>3 DEF ReadBack
  <2>. QED BY <1>0, <2>1, <2>2, MoveType
           DEF Move, Timed, database, histories, EodTypeInv, EodTypeOK, EodShapes
<1>4. CASE UpsertMetric(p, s)
  <2>1. Table(row', Runs, Symbols)
    <3>1. row' = [row EXCEPT ![p] = [row[p] EXCEPT ![s] = AtSpot(row[p][s].spot)]]
      BY <1>4 DEF UpsertMetric
    <3>. QED BY <1>7, <3>1
  <2>2. Table(metric', Days, Symbols)
    <3>1. metric' = [metric EXCEPT ![day[p]] = [metric[day[p]] EXCEPT ![s] = row[p][s]]]
      BY <1>4 DEF UpsertMetric
    <3>2. Table(metric, Days, Symbols)
      BY DEF EodTypeInv, EodShapes
    <3>. QED BY <1>0, <3>1, <3>2, TableSet
  <2>3. /\ Move(p, s, "read", "measured")
        /\ UNCHANGED <<options, equity, spotUsed, universe, rank, straddle>>
    BY <1>4 DEF UpsertMetric
  <2>. QED BY <1>0, <2>1, <2>2, <2>3, MoveType
           DEF Move, Timed, histories, EodTypeInv, EodTypeOK, EodShapes
<1>6. CASE UpsertStraddle(p, s)
  <2>1. Table(straddle', Days, Symbols)
    <3>1. PICK v : straddle' = [straddle EXCEPT ![day[p]] = [straddle[day[p]] EXCEPT ![s] = v]]
      BY <1>6 DEF UpsertStraddle
    <3>2. Table(straddle, Days, Symbols)
      BY DEF EodTypeInv, EodShapes
    <3>. QED BY <1>0, <3>1, <3>2, TableSet
  <2>2. Table(row', Runs, Symbols)
    <3>1. row' = [row EXCEPT ![p] = [row[p] EXCEPT ![s] = NoRow]]
      BY <1>6 DEF UpsertStraddle
    <3>. QED BY <1>7, <3>1
  <2>3. wrote' \in [Days -> [Symbols -> {"load", "reset", "refill"}]]
    BY <1>6 DEF UpsertStraddle, EodTypeInv, EodShapes
  <2>4. /\ Place(p, s, "measured", "no")
        /\ UNCHANGED <<options, equity, spotUsed, universe, metric, rank, clean, finished>>
    BY <1>6 DEF UpsertStraddle
  <2>. QED BY <1>0, <2>1, <2>2, <2>3, <2>4, MoveType DEF EodTypeInv, EodTypeOK, EodShapes
<1>5. CASE SymbolRaises(p, s)
  <2>. DEFINE others == [task[p] EXCEPT ![s] = "no"]
              rows == [row[p] EXCEPT ![s] = NoRow]
  <2>0. others \in [Symbols -> TaskPlaces] /\ rows = [t \in Symbols |-> rows[t]]
    <3>1. others \in [Symbols -> TaskPlaces]
      BY <1>0 DEF EodTypeInv, EodShapes
    <3>2. row[p] = [t \in Symbols |-> row[p][t]]
      BY DEF EodTypeInv, EodShapes, Table
    <3>3. rows = [t \in Symbols |-> rows[t]]
      BY <3>2
    <3>. QED BY <3>1, <3>3
  <2>. HIDE DEF others, rows
  <2>3. UNCHANGED <<options, equity, spotUsed, universe, metric, rank, straddle,
                    kind, scope, dates, finished, wrote>>
    BY <1>5 DEF SymbolRaises, database
  <2>1. CASE stage' = [stage EXCEPT ![p] = "left"] /\ task' = [task EXCEPT ![p] = others]
             /\ row' = [row EXCEPT ![p] = rows] /\ UNCHANGED <<day, clean>>
    <3>1. stage' \in [Runs -> Stages]
      BY <2>1 DEF EodTypeInv, EodTypeOK, Stages
    <3>2. task' \in [Runs -> [Symbols -> TaskPlaces]]
      BY <2>0, <2>1 DEF EodTypeInv, EodShapes, Table
    <3>3. Table(row', Runs, Symbols)
      <4>1. Table(row, Runs, Symbols) /\ row' = [row EXCEPT ![p] = rows]
        BY <2>1 DEF EodTypeInv, EodShapes
      <4>. QED BY <2>0, <4>1, TableSetAll
    <3>. QED BY <2>1, <2>3, <3>1, <3>2, <3>3 DEF EodTypeInv, EodTypeOK, EodShapes
  <2>2. ASSUME NEW q \in Runs, stage' = [stage EXCEPT ![p] = "next", ![q] = "left"],
               day' = [day EXCEPT ![q] = day[p]],
               task' = [task EXCEPT ![q] = others, ![p] = task[q]],
               row' = [row EXCEPT ![q] = rows, ![p] = row[q]], clean' = clean \ {q}
        PROVE  EodTypeInv'
    <3>1. stage' \in [Runs -> Stages] /\ day' \in [Runs -> Days] /\ clean' \subseteq Runs
      BY <1>0, <2>2 DEF EodTypeInv, EodTypeOK, Stages
    <3>2. task' \in [Runs -> [Symbols -> TaskPlaces]]
      BY <2>0, <2>2 DEF EodTypeInv, EodShapes, Table
    <3>3. Table(row', Runs, Symbols)
      <4>1. Table(row, Runs, Symbols)
        BY DEF EodTypeInv, EodShapes
      <4>2. row[q] = [t \in Symbols |-> row[q][t]]
        BY <4>1 DEF Table
      <4>. DEFINE half == [row EXCEPT ![q] = rows]
      <4>3. Table(half, Runs, Symbols)
        BY <2>0, <4>1, TableSetAll
      <4>4. row' = [half EXCEPT ![p] = row[q]]
        BY <2>2
      <4>. HIDE DEF half
      <4>. QED BY <4>2, <4>3, <4>4, TableSetAll
    <3>4. EodTypeOK'
      BY <2>3, <3>1 DEF EodTypeInv, EodTypeOK
    <3>5. EodShapes'
      BY <2>3, <3>2, <3>3 DEF EodTypeInv, EodShapes
    <3>. QED BY <3>4, <3>5 DEF EodTypeInv
  <2>. QED BY <1>5, <2>1, <2>2 DEF SymbolRaises, others, rows
<1>. QED BY <1>1, <1>2, <1>3, <1>4, <1>5, <1>6

LEMMA ScriptType ==
  ASSUME EodTypeInv, NEW p \in Runs,
         NextDate(p) \/ NoDateLeft(p) \/ SkipDate(p) \/ ResetStraddles(p) \/ RefillStraddles(p)
         \/ AbortRun(p)
  PROVE  EodTypeInv'
<1>0. Table([row EXCEPT ![p] = [s \in Symbols |-> NoRow]], Runs, Symbols)
  <2>. DEFINE blanks == [s \in Symbols |-> NoRow]
  <2>1. blanks = [s \in Symbols |-> blanks[s]] /\ Table(row, Runs, Symbols)
    BY DEF EodTypeInv, EodShapes
  <2>. HIDE DEF blanks
  <2>2. Table([row EXCEPT ![p] = blanks], Runs, Symbols)
    BY <2>1, TableSetAll
  <2>. QED BY <2>2 DEF blanks
<1>. USE DEF EodTypeInv, EodTypeOK, EodShapes, Table, Stages, TaskPlaces,
             database, taskVars, runArgs, histories, Go
<1>1. CASE NextDate(p)
  <2>1. Min(dates[p]) \in Days
    BY <1>1, DaysChosen DEF NextDate
  <2>2. stage' \in [Runs -> Stages]
    BY <1>1 DEF NextDate
  <2>3. /\ day' \in [Runs -> Days] /\ dates' \in [Runs -> SUBSET Days]
        /\ task' \in [Runs -> [Symbols -> TaskPlaces]] /\ clean' \subseteq Runs
    BY <1>1, <2>1 DEF NextDate
  <2>. QED BY <1>1, <2>2, <2>3 DEF NextDate
<1>2. CASE NoDateLeft(p)
  <2>. DEFINE latest == {d \in Days : \E s \in Symbols : <<d, s>> \in options}
  <2>1. latest # {} => Max(latest) \in Days
    <3>1. latest \in SUBSET Days
      OBVIOUS
    <3>. HIDE DEF latest
    <3>. QED BY <3>1, DaysChosen
  <2>2. day' \in [Runs -> Days] /\ clean' \subseteq Runs /\ stage' \in [Runs -> Stages]
    BY <1>2, <2>1 DEF NoDateLeft
  <2>. HIDE DEF latest
  <2>3. UNCHANGED <<options, equity, spotUsed, universe, metric, rank, straddle,
                    kind, scope, dates, task, row, finished, wrote>>
    BY <1>2 DEF NoDateLeft
  <2>. QED BY <2>2, <2>3
<1>3. CASE SkipDate(p)
  <2>1. stage' \in [Runs -> Stages] /\ task' \in [Runs -> [Symbols -> TaskPlaces]]
    BY <1>3 DEF SkipDate
  <2>2. row' = [q \in Runs |-> [s \in Symbols |-> row'[q][s]]]
    BY <1>0, <1>3 DEF SkipDate
  <2>. QED BY <1>3, <2>1, <2>2 DEF SkipDate
<1>4. CASE ResetStraddles(p)
  <2>1. PICK first \in Days, last \in Days, only \in Scopes :
          dates' = [dates EXCEPT ![p] = first .. last] /\ scope' = [scope EXCEPT ![p] = only]
    BY <1>4 DEF ResetStraddles
  <2>2. first .. last \subseteq Days /\ only \subseteq Symbols
    BY EodAssumption DEF Days
  <2>3. straddle' = [d \in Days |-> [s \in Symbols |-> straddle'[d][s]]]
    BY <1>4 DEF ResetStraddles
  <2>4. wrote' \in [Days -> [Symbols -> {"load", "reset", "refill"}]]
    BY <1>4 DEF ResetStraddles
  <2>5. /\ dates' \in [Runs -> SUBSET Days] /\ kind' \in [Runs -> JobKinds]
        /\ scope' \in [Runs -> SUBSET Symbols]
        /\ stage' \in [Runs -> Stages] /\ clean' \subseteq Runs
    BY <1>4, <2>1, <2>2 DEF ResetStraddles, JobKinds
  <2>6. UNCHANGED <<options, equity, spotUsed, universe, metric, rank, day, task, row, finished>>
    BY <1>4 DEF ResetStraddles
  <2>. QED BY <2>3, <2>4, <2>5, <2>6
<1>5. CASE RefillStraddles(p)
  <2>1. straddle' = [d \in Days |-> [s \in Symbols |-> straddle'[d][s]]]
    BY <1>5 DEF RefillStraddles
  <2>2. wrote' \in [Days -> [Symbols -> {"load", "reset", "refill"}]]
    BY <1>5 DEF RefillStraddles
  <2>3. dates' \in [Runs -> SUBSET Days] /\ stage' \in [Runs -> Stages]
    BY <1>5 DEF RefillStraddles
  <2>4. UNCHANGED <<options, equity, spotUsed, universe, metric, rank, kind, day, scope, task,
                    row, clean, finished>>
    BY <1>5 DEF RefillStraddles
  <2>. QED BY <2>1, <2>2, <2>3, <2>4
<1>6. CASE AbortRun(p)
  <2>1. /\ stage' \in [Runs -> Stages] /\ task' \in [Runs -> [Symbols -> TaskPlaces]]
        /\ dates' \in [Runs -> SUBSET Days]
    BY <1>6 DEF AbortRun
  <2>2. row' = [q \in Runs |-> [s \in Symbols |-> row'[q][s]]]
    BY <1>0, <1>6 DEF AbortRun
  <2>. QED BY <1>6, <2>1, <2>2 DEF AbortRun
<1>. QED BY <1>1, <1>2, <1>3, <1>4, <1>5, <1>6

LEMMA EodTypeStep == EodTypeInv /\ [EodNext]_eodVars => EodTypeInv'
<1>. SUFFICES ASSUME EodTypeInv, [EodNext]_eodVars PROVE EodTypeInv'
  OBVIOUS
<1>1. CASE UNCHANGED eodVars
  BY <1>1 DEF EodTypeInv, EodTypeOK, EodShapes, eodVars, database, histories
<1>2. CASE EodNext
  BY <1>2, StartsType, LoadType, SymbolType, ScriptType DEF EodNext, RunStep
<1>. QED BY <1>1, <1>2

\* The tables and the runs of the pipeline and its scripts keep their types: a run
\* is at a statement of its job, on a trade date.
THEOREM EodTypes == EodSpec => []EodTypeOK
<1>1. EodTypeInv => EodTypeOK
  BY DEF EodTypeInv
<1>. QED BY <1>1, EodTypeInit, EodTypeStep, PTL DEF EodSpec
-----------------------------------------------------------------------------
(* The universe *)

\* What the files since the rebuild agree on is active, and only what one of them has.
FilesInv ==
  /\ since \subseteq files
  /\ \A s \in Symbols : universe[s] = "active" => \E f \in since : s \in f
  /\ since # {} => \A s \in Symbols : (\A f \in since : s \in f) => universe[s] = "active"

\* The symbols of a file, or the indices with options, join the universe.
LEMMA FilesJoin ==
  ASSUME FilesInv, NEW f \in SUBSET Symbols, since' = since \cup {f}, since' \subseteq files',
         \A s \in f : universe'[s] = "active",
         \A s \in Symbols \ f : universe'[s] = "active" => universe[s] = "active"
  PROVE  FilesInv'
BY DEF FilesInv

LEMMA FilesStep ==
  ASSUME EodTypeInv, FilesInv, EodNext
  PROVE  FilesInv'
<1>. PICK p \in Runs : \/ StartRun(p) \/ StartScript(p) \/ StartIndexBackfill(p)
                       \/ ResetStraddles(p) \/ RunStep(p) \/ AbortRun(p)
  BY DEF EodNext
<1>0. /\ day[p] \in Days /\ Fo \in [Days -> SUBSET Symbols] /\ scope[p] \in SUBSET Symbols
      /\ since \subseteq files
  BY EodAssumption DEF EodTypeInv, EodTypeOK, EodShapes, FilesInv
<1>1. CASE Discover(p)
  <2>1. FoRows(p) \in SUBSET Symbols
    BY <1>0 DEF FoRows
  <2>2. /\ \A s \in FoRows(p) : universe'[s] = "active"
        /\ \A s \in Symbols \ FoRows(p) : universe'[s] = "active" => universe[s] = "active"
    BY <1>1, <2>1 DEF Discover, Discovered
  <2>. QED BY <1>0, <1>1, <2>1, <2>2, FilesJoin DEF Discover
<1>2. CASE DiscoverIndices(p)
  <2>1. /\ \A s \in scope[p] : universe'[s] = "active"
        /\ \A s \in Symbols \ scope[p] : universe'[s] = "active" => universe[s] = "active"
    BY <1>0, <1>2 DEF DiscoverIndices
  <2>. QED BY <1>0, <1>2, <2>1, FilesJoin DEF DiscoverIndices
<1>3. CASE Deactivate(p)
  <2>1. (\A s \in Symbols : universe'[s] # "active") /\ since' = {}
    BY <1>3 DEF Deactivate
  <2>. QED BY <2>1 DEF FilesInv
<1>4. CASE Activate(p)
  <2>1. /\ files' = since \cup {Fo[day[p]]} /\ since' = files' /\ Fo[day[p]] \in SUBSET Symbols
        /\ \A s \in Symbols : universe'[s] = "active" <=> s \in Fo[day[p]] \/ universe[s] = "active"
    BY <1>0, <1>4 DEF Activate
  <2>. QED BY <2>1, FilesJoin
<1>5. CASE ~ (Discover(p) \/ DiscoverIndices(p) \/ Deactivate(p) \/ Activate(p))
  <2>1. UNCHANGED <<universe, files, since>>
    <3>. USE DEF database, histories, Move, Place, taskVars, runArgs
    <3>1. CASE StartRun(p) \/ StartScript(p) \/ StartIndexBackfill(p) \/ ResetStraddles(p)
               \/ AbortRun(p)
      BY <3>1 DEF StartRun, StartScript, StartIndexBackfill, ResetStraddles, AbortRun
    <3>2. CASE UpsertOptions(p) \/ UpsertEquity(p) \/ Computed(p) \/ Percentiles(p)
               \/ Aggregates(p) \/ UpsertCalendar(p) \/ PopulateCalendar(p)
      BY <3>2 DEF UpsertOptions, UpsertEquity, Computed, Percentiles, Aggregates,
                  UpsertCalendar, PopulateCalendar
    <3>3. CASE NextDate(p) \/ NoDateLeft(p) \/ SkipDate(p) \/ RefillStraddles(p)
               \/ UpsertIndexBars(p) \/ SelectIndexDates(p)
      BY <3>3 DEF NextDate, NoDateLeft, SkipDate, RefillStraddles, UpsertIndexBars,
                  SelectIndexDates
    <3>4. CASE \E s \in Symbols : ReadSpot(p, s) \/ DeriveContracts(p, s) \/ ReadBack(p, s)
                   \/ UpsertMetric(p, s) \/ UpsertStraddle(p, s) \/ SymbolRaises(p, s)
      BY <3>4 DEF ReadSpot, DeriveContracts, ReadBack, UpsertMetric, UpsertStraddle, SymbolRaises
    <3>. QED BY <1>5, <3>1, <3>2, <3>3, <3>4 DEF RunStep
  <2>. QED BY <2>1 DEF FilesInv
<1>. QED BY <1>1, <1>2, <1>3, <1>4, <1>5

\* The flags of the universe follow the files, whichever runs of whichever scopes
\* overlap and die; and active_symbols keeps each symbol with options on which the
\* files agree at every moment of the two statements of refresh_active_universe and
\* after a death between them.
THEOREM UniverseFollows == EodSpec => []UniverseFollowsFiles
<1>. DEFINE UInv == EodTypeInv /\ FilesInv
<1>1. EodInit => UInv
  BY EodTypeInit DEF EodInit, FilesInv
<1>2. UInv /\ [EodNext]_eodVars => UInv'
  <2>1. CASE EodNext
    BY <2>1, EodTypeStep, FilesStep
  <2>2. CASE UNCHANGED eodVars
    <3>1. UNCHANGED <<universe, files, since>>
      BY <2>2 DEF eodVars, database, histories
    <3>. QED BY <2>2, <3>1, EodTypeStep DEF FilesInv
  <2>. QED BY <2>1, <2>2
<1>3. UInv => UniverseFollowsFiles
  BY DEF FilesInv, UniverseFollowsFiles, ActiveSymbols
<1>. QED BY <1>1, <1>2, <1>3, PTL DEF EodSpec
-----------------------------------------------------------------------------
(* Finished dates *)

\* The stages in which a run has the metrics of its date still to write, and those
\* in which a clean run is on its way to the percentiles.
OnDate == {"options", "equity", "discover", "compute", "left"}
OnWay == {"options", "equity", "discover", "compute", "percentiles"}
Scripted == {"next", "populate", "bars", "indices", "select"}

\* A straddle as the program that was last at it makes it.
StraddleRight(d, s) ==
  straddle[d][s] = IF wrote[d][s] = "reset" THEN "skip" ELSE TrueStraddle(d, s)

TaskOf(p, s) ==
  /\ task[p][s] # "no" => stage[p] \in {"compute", "left"} /\ s \in Fo[day[p]]
  /\ task[p][s] \in Timed /\ row[p][s].spot = day[p] => <<day[p], s>> \in equity

\* Rows are of the symbols of the file, and the spot of a date is that of a bar.
RowsInv ==
  /\ \A x \in options : x[2] \in Fo[x[1]]
  /\ \A d \in Days, s \in Symbols :
       /\ s \notin Fo[d] => metric[d][s] = NoRow
       /\ metric[d][s].spot = d => <<d, s>> \in equity
  /\ \A p \in Runs, s \in Symbols : TaskOf(p, s)

\* Nobody else computes the date of a clean run; what the run has stored is true.
CleanOf(p) ==
  /\ kind[p] \in OneDay /\ stage[p] \notin Scripted
  /\ stage[p] \in OnWay =>
       /\ scope[p] = Symbols /\ 1 .. day[p] - 1 \subseteq finished
       /\ \A q \in Runs \ {p} : stage[q] \in OnDate => day[q] # day[p]
  /\ stage[p] \in {"compute", "percentiles"} =>
       \A s \in Fo[day[p]] : metric[day[p]][s].spot = day[p] =>
         /\ task[p][s] \in {"measured", "no"} => metric[day[p]][s] = TrueRow(day[p], s)
         /\ task[p][s] = "measured" => row[p][s].spot = day[p]
         /\ task[p][s] = "no" => StraddleRight(day[p], s)
CleanInv == \A p \in clean : CleanOf(p)

\* A finished date is exact, and so is what is about to be written to it: whoever is at
\* work on it, or clean on another date, has contracts and a row of its own spot.
FinishedOf(d) ==
  /\ 1 .. d - 1 \subseteq finished
  /\ rank[d] = Ranked(d)
  /\ \A s \in Fo[d] : metric[d][s] = TrueRow(d, s) /\ StraddleRight(d, s)
Undisturbed(p) == day[p] \in finished \/ (p \in clean /\ stage[p] = "compute")
RowOf(p, s) ==
  /\ task[p][s] \in Timed /\ day[p] \in finished => row[p][s].spot = day[p]
  /\ Undisturbed(p) /\ row[p][s].spot = day[p] =>
       /\ task[p][s] = "derived" => spotUsed[day[p]][s] = day[p]
       /\ task[p][s] = "read" => row[p][s] = TrueRow(day[p], s)
FinishedInv ==
  /\ \A d \in finished : FinishedOf(d)
  /\ \A p \in Runs, s \in Symbols : RowOf(p, s)

\* The k-th of the latest days is the earliest of the k latest.
Latest(held, k) == {e \in held : Cardinality({f \in held : f > e}) < k}
KthLatest(held, k) == {e \in held : Cardinality({f \in held : f > e}) = k - 1}
LEMMA LatestDays ==
  ASSUME NEW n \in Nat, NEW held, held \subseteq 1 .. n, NEW k \in Nat \ {0}
  PROVE  KthLatest(held, k) =
           IF Cardinality(Latest(held, k)) < k THEN {} ELSE {Min(Latest(held, k))}
<1>. DEFINE Above(e) == {f \in held : f > e}
            days == {e \in held : Cardinality(Above(e)) < k}
            lagged == {e \in held : Cardinality(Above(e)) = k - 1}
<1>1. IsFiniteSet(held) /\ held \subseteq Nat
  <2>1. IsFiniteSet(1 .. n)
    BY FS_Interval
  <2>2. held \in SUBSET (1 .. n) /\ held \subseteq Nat
    OBVIOUS
  <2>. QED BY <2>1, <2>2, FS_Subset
<1>2. \A e \in held : IsFiniteSet(Above(e)) /\ Cardinality(Above(e)) \in Nat
  <2>1. \A e \in held : Above(e) \subseteq held
    OBVIOUS
  <2>. HIDE DEF Above
  <2>. QED BY <1>1, <2>1, FS_Subset, FS_CardinalityType
<1>3. \A e \in held : /\ IsFiniteSet(Above(e) \cup {e})
                      /\ Cardinality(Above(e) \cup {e}) = Cardinality(Above(e)) + 1
  <2>. SUFFICES ASSUME NEW e \in held
                PROVE  /\ IsFiniteSet(Above(e) \cup {e})
                       /\ Cardinality(Above(e) \cup {e}) = Cardinality(Above(e)) + 1
    OBVIOUS
  <2>1. e \notin Above(e)
    BY <1>1
  <2>. QED BY <1>2, <2>1, FS_AddElement
<1>4. ASSUME NEW e \in held, NEW f \in held, e < f
      PROVE  Cardinality(Above(f)) < Cardinality(Above(e))
  <2>1. Above(f) \cup {f} \subseteq Above(e)
    <3>1. \A x \in held : x \in Nat /\ (x > f => x > e)
      BY <1>1, <1>4
    <3>. QED BY <1>4, <3>1
  <2>2. Cardinality(Above(f) \cup {f}) <= Cardinality(Above(e))
    <3>. HIDE DEF Above
    <3>. QED BY <1>2, <2>1, FS_Subset
  <2>. HIDE DEF Above
  <2>. QED BY <1>2, <1>3, <2>2
<1>5. IsFiniteSet(days) /\ Cardinality(days) \in Nat /\ days \subseteq Nat
  BY <1>1, FS_Subset, FS_CardinalityType
<1>6. \A e \in days : Above(e) \cup {e} \subseteq days
  <2>. SUFFICES ASSUME NEW e \in days, NEW f \in Above(e) PROVE f \in days
    OBVIOUS
  <2>1. f \in held /\ e \in held /\ e < f
    BY <1>1
  <2>2. Cardinality(Above(f)) < Cardinality(Above(e)) /\ Cardinality(Above(e)) < k
    BY <1>4, <2>1
  <2>. HIDE DEF Above
  <2>. QED BY <1>2, <2>1, <2>2
<1>7. \A e, f \in lagged : e = f
  <2>. SUFFICES ASSUME NEW e \in lagged, NEW f \in lagged PROVE ~ (e < f)
    BY <1>1
  <2>1. e \in held /\ f \in held /\ Cardinality(Above(e)) = Cardinality(Above(f))
    OBVIOUS
  <2>. HIDE DEF Above, lagged
  <2>. QED BY <1>2, <1>4, <2>1
<1>8. ASSUME Cardinality(days) < k PROVE lagged = {}
  <2>. SUFFICES ASSUME NEW e \in lagged PROVE FALSE
    OBVIOUS
  <2>1. e \in held /\ Cardinality(Above(e)) = k - 1
    OBVIOUS
  <2>2. e \in days
    BY <2>1
  <2>3. Cardinality(Above(e) \cup {e}) <= Cardinality(days)
    BY <1>5, <1>6, <2>2, FS_Subset
  <2>. HIDE DEF Above, lagged, days
  <2>. QED BY <1>3, <1>5, <1>8, <2>1, <2>3
<1>9. ASSUME ~ (Cardinality(days) < k) PROVE lagged = {Min(days)}
  <2>1. days # {}
    <3>. HIDE DEF days
    <3>. QED BY <1>5, <1>9, FS_EmptySet
  <2>. DEFINE m == Min(days)
  <2>2. m \in days /\ \A x \in days : m <= x
    <3>. HIDE DEF days
    <3>. QED BY <1>5, <2>1, MinOfNats
  <2>3. days = Above(m) \cup {m}
    <3>1. \A x \in days : x \in Nat /\ x \in held
      BY <1>1
    <3>2. \A x \in days : x = m \/ x > m
      <4>. HIDE DEF days
      <4>1. m \in Nat
        BY <2>2, <3>1
      <4>. HIDE DEF m
      <4>. QED BY <2>2, <3>1, <4>1
    <3>3. days \subseteq Above(m) \cup {m}
      <4>. HIDE DEF m, days
      <4>. QED BY <3>1, <3>2
    <3>. QED BY <1>6, <2>2, <3>3
  <2>4. m \in held /\ Cardinality(Above(m)) < k
    BY <2>2
  <2>5. Cardinality(days) = Cardinality(Above(m)) + 1
    BY <1>3, <2>3, <2>4
  <2>6. Cardinality(Above(m)) = k - 1
    <3>. HIDE DEF Above, m, days
    <3>. QED BY <1>2, <1>9, <2>4, <2>5
  <2>7. m \in lagged
    BY <2>4, <2>6
  <2>. HIDE DEF lagged, m
  <2>. QED BY <1>7, <2>7 DEF m
<1>. QED BY <1>8, <1>9 DEF Latest, KthLatest

\* What is read of the days before is what the files say of them.
LEMMA LaggedExact ==
  ASSUME NEW d \in Days, NEW s, \A e \in 1 .. d - 1 : metric[e][s].iv = TrueIv(e, s)
  PROVE  LaggedIv(d, s) = TrueRow(d, s).vrp
<1>1. d - 1 \in Nat /\ Lag \in Nat \ {0}
  BY EodAssumption DEF Days
<1>. DEFINE held == {e \in 1 .. d - 1 : TrueIv(e, s) # 0}
            days == Latest(held, Lag)
            lagged == KthLatest(held, Lag)
<1>2. lagged = IF Cardinality(days) < Lag THEN {} ELSE {Min(days)}
  <2>1. held \subseteq 1 .. d - 1
    OBVIOUS
  <2>. DEFINE n == d - 1
  <2>2. n \in Nat /\ held \subseteq 1 .. n
    BY <1>1, <2>1
  <2>. HIDE DEF held, n
  <2>. QED BY <1>1, <2>2, LatestDays
<1>3. HistoryDays(d, s, Lag, "iv") = days
  <2>1. held = {e \in 1 .. d - 1 : metric[e][s]["iv"] # 0}
    OBVIOUS
  <2>. QED BY <2>1 DEF HistoryDays, Latest
<1>4. TrueRow(d, s).vrp = IF lagged = {} THEN 0 ELSE TrueIv(CHOOSE e \in lagged : TRUE, s)
  BY DEF TrueRow, KthLatest
<1>5. LaggedIv(d, s) = IF Cardinality(days) < Lag THEN 0 ELSE metric[Min(days)][s].iv
  BY <1>3 DEF LaggedIv
<1>6. lagged \subseteq 1 .. d - 1
  BY DEF KthLatest
<1>. HIDE DEF days, lagged
<1>7. CASE Cardinality(days) < Lag
  BY <1>2, <1>4, <1>5, <1>7
<1>8. CASE ~ (Cardinality(days) < Lag)
  <2>1. lagged = {Min(days)} /\ Min(days) \in 1 .. d - 1
    BY <1>2, <1>6, <1>8
  <2>2. (CHOOSE e \in lagged : TRUE) = Min(days)
    BY <2>1
  <2>3. metric[Min(days)][s].iv = TrueIv(Min(days), s)
    BY <2>1
  <2>. QED BY <1>4, <1>5, <1>8, <2>1, <2>2, <2>3
<1>. QED BY <1>7, <1>8

\* The percentiles of a date look at no later one.
LEMMA RankedLocal ==
  ASSUME NEW d \in Days, \A e \in 1 .. d : metric'[e] = metric[e]
  PROVE  Ranked(d)' = Ranked(d)
<1>1. d \in 1 .. d /\ 1 .. d - 1 \subseteq 1 .. d
  BY EodAssumption DEF Days
<1>2. \A s, k, column : HistoryDays(d, s, k, column)' = HistoryDays(d, s, k, column)
        /\ HistoryDays(d, s, k, column) \subseteq 1 .. d - 1
  <2>. TAKE s, k, column
  <2>. DEFINE held == {e \in 1 .. d - 1 : metric[e][s][column] # 0}
              days == {e \in held : Cardinality({f \in held : f > e}) < k}
  <2>1. held' = held /\ held \subseteq 1 .. d - 1
    BY <1>1
  <2>. HIDE DEF held
  <2>2. days' = days /\ days \subseteq 1 .. d - 1
    BY <2>1
  <2>3. HistoryDays(d, s, k, column) = days /\ HistoryDays(d, s, k, column)' = days'
    BY DEF HistoryDays, held
  <2>. QED BY <2>2, <2>3
<1>3. \A s, column : PercentRank(d, s, column)' = PercentRank(d, s, column)
  <2>. TAKE s, column
  <2>. DEFINE days == HistoryDays(d, s, HistoryWindow, column)
              low == {e \in days : metric[e][s][column] <= metric[d][s][column]}
  <2>1. days' = days /\ days \subseteq 1 .. d - 1
    BY <1>2
  <2>2. metric'[d] = metric[d] /\ \A e \in days : metric'[e] = metric[e]
    BY <1>1, <2>1
  <2>. HIDE DEF days
  <2>3. low' = low
    BY <2>1, <2>2
  <2>4. PercentRank(d, s, column) =
          IF metric[d][s][column] = 0 \/ Cardinality(days) < MinHistory THEN <<0, 0>>
          ELSE <<Cardinality(low), Cardinality(days)>>
    BY DEF PercentRank, days
  <2>5. PercentRank(d, s, column)' =
          IF metric'[d][s][column] = 0 \/ Cardinality(days') < MinHistory THEN <<0, 0>>
          ELSE <<Cardinality(low'), Cardinality(days')>>
    BY DEF PercentRank, days
  <2>. HIDE DEF low
  <2>. QED BY <2>1, <2>2, <2>3, <2>4, <2>5
<1>5. \A s : SkewRank(d, s)' = SkewRank(d, s)
  BY <1>1 DEF SkewRank
<1>. QED BY <1>1, <1>3, <1>5 DEF Ranked

\* A step of one run that touches no metric, percentile or straddle.
LEMMA FinishedGo ==
  ASSUME EodTypeInv, EodTypeInv', RowsInv, CleanInv, FinishedInv, NEW p \in Runs,
         UNCHANGED <<spotUsed, metric, rank, straddle, finished, wrote>>,
         equity \subseteq equity', \A x \in options' : x[2] \in Fo[x[1]],
         clean' \subseteq clean \cup {p},
         \A q \in Runs \ {p} : /\ kind'[q] = kind[q] /\ stage'[q] = stage[q]
                               /\ scope'[q] = scope[q] /\ day'[q] = day[q]
                               /\ task'[q] = task[q] /\ row'[q] = row[q],
         \A s \in Symbols : task'[p][s] # "no" =>
           /\ stage'[p] \in {"compute", "left"} /\ s \in Fo[day'[p]]
           /\ \/ task'[p][s] = "todo"
              \/ /\ task'[p][s] = task[p][s] /\ row'[p][s] = row[p][s] /\ day'[p] = day[p]
                 /\ p \in clean' /\ stage'[p] = "compute" => p \in clean /\ stage[p] = "compute",
         stage'[p] \in OnDate =>
           \/ stage[p] \in OnDate /\ day'[p] = day[p]
           \/ \A r \in clean' \ {p} : stage[r] # "idle" => day[r] # day'[p],
         p \in clean' => CleanOf(p)'
  PROVE  RowsInv' /\ CleanInv' /\ FinishedInv'
<1>1. \A d, s : TrueRow(d, s)' = TrueRow(d, s) /\ StraddleRight(d, s)' = StraddleRight(d, s)
  BY DEF TrueRow, TrueIv, StraddleRight, TrueStraddle
<1>2. \A d \in Days : Ranked(d)' = Ranked(d)
  BY RankedLocal
<1>3. RowsInv'
  <2>1. ASSUME NEW q \in Runs, NEW s \in Symbols PROVE TaskOf(q, s)'
    <3>1. CASE q = p
      BY <2>1, <3>1 DEF RowsInv, TaskOf, Timed
    <3>2. CASE q # p
      BY <2>1, <3>2 DEF RowsInv, TaskOf, Timed
    <3>. QED BY <3>1, <3>2
  <2>. QED BY <2>1 DEF RowsInv
<1>4. CleanInv'
  <2>1. ASSUME NEW q \in clean', q # p PROVE CleanOf(q)'
    <3>1. q \in clean /\ q \in Runs /\ CleanOf(q)
      BY <2>1 DEF CleanInv, EodTypeInv, EodTypeOK
    <3>2. ASSUME stage[q] \in OnWay, stage'[p] \in OnDate PROVE day'[p] # day[q]
      BY <2>1, <3>1, <3>2 DEF CleanOf, Scripted, OnWay
    <3>. QED BY <1>1, <2>1, <3>1, <3>2 DEF CleanOf, Scripted
  <2>. QED BY <2>1 DEF CleanInv
<1>5. FinishedInv'
  <2>1. \A d \in finished' : FinishedOf(d)'
    BY <1>1, <1>2 DEF FinishedInv, FinishedOf, EodTypeInv, EodTypeOK
  <2>2. ASSUME NEW q \in Runs, NEW s \in Symbols PROVE RowOf(q, s)'
    <3>1. CASE q = p
      BY <1>1, <2>2, <3>1 DEF FinishedInv, RowOf, Undisturbed, Timed
    <3>2. CASE q # p
      BY <1>1, <2>2, <3>2 DEF FinishedInv, RowOf, Undisturbed, Timed
    <3>. QED BY <3>1, <3>2
  <2>. QED BY <2>1, <2>2 DEF FinishedInv
<1>. QED BY <1>3, <1>4, <1>5

\* The statements of a load that store nothing a finished date is made of.
LEMMA FinishedLoad ==
  ASSUME EodTypeInv, EodTypeInv', RowsInv, CleanInv, FinishedInv, NEW p \in Runs,
         \/ UpsertOptions(p) \/ UpsertEquity(p) \/ Discover(p) \/ Computed(p)
         \/ Aggregates(p) \/ UpsertCalendar(p) \/ Deactivate(p) \/ Activate(p)
         \/ PopulateCalendar(p) \/ UpsertIndexBars(p) \/ DiscoverIndices(p)
         \/ SelectIndexDates(p)
  PROVE  RowsInv' /\ CleanInv' /\ FinishedInv'
<1>0. /\ stage \in [Runs -> Stages] /\ day[p] \in Days /\ Fo \in [Days -> SUBSET Symbols]
      /\ task \in [Runs -> [Symbols -> TaskPlaces]] /\ scope[p] \subseteq Symbols
  BY EodAssumption DEF EodTypeInv, EodTypeOK, EodShapes, Table
<1>1. /\ UNCHANGED <<spotUsed, metric, rank, straddle, finished, wrote, clean,
                     kind, scope, day, row>>
      /\ equity \subseteq equity'
  BY DEF UpsertOptions, UpsertEquity, Discover, Computed, Aggregates, UpsertCalendar,
         Deactivate, Activate, PopulateCalendar, UpsertIndexBars,
         DiscoverIndices, SelectIndexDates, database, histories, taskVars, runArgs
<1>2. \A x \in options' : x[2] \in Fo[x[1]]
  <2>1. options' = options \/ options' = options \cup {<<day[p], s>> : s \in FoRows(p)}
    BY DEF UpsertOptions, UpsertEquity, Discover, Computed, Aggregates, UpsertCalendar,
           Deactivate, Activate, PopulateCalendar, UpsertIndexBars,
           DiscoverIndices, SelectIndexDates, database
  <2>. QED BY <2>1 DEF RowsInv, FoRows
<1>3. \A q \in Runs \ {p} : stage'[q] = stage[q] /\ task'[q] = task[q]
  BY <1>0 DEF UpsertOptions, UpsertEquity, Discover, Computed, Aggregates, UpsertCalendar,
         Deactivate, Activate, PopulateCalendar, UpsertIndexBars,
         DiscoverIndices, SelectIndexDates, taskVars, Go
<1>4. \/ /\ Discover(p) /\ stage[p] = "discover" /\ stage'[p] = "compute"
         /\ \A s \in Symbols : task'[p][s] = IF s \in FoRows(p) THEN "todo" ELSE "no"
      \/ /\ stage[p] = "options" /\ stage'[p] = "equity" /\ UNCHANGED task
      \/ /\ stage[p] = "equity" /\ stage'[p] = "discover" /\ UNCHANGED task
      \/ /\ stage[p] = "compute" /\ (kind[p] # "initialize" => stage'[p] = "percentiles")
         /\ stage'[p] \in {"next", "percentiles"}
         /\ UNCHANGED task /\ \A s \in Symbols : task[p][s] = "no"
      \/ /\ stage[p] = "left" /\ stage'[p] = "idle"
         /\ UNCHANGED task /\ \A s \in Symbols : task[p][s] = "no"
      \/ /\ stage[p] \in {"aggregates", "calendar", "deactivate", "activate"}
         /\ stage'[p] \in {"idle", "calendar", "deactivate", "activate", "populate"}
         /\ (kind[p] # "initialize" => stage'[p] # "populate") /\ UNCHANGED task
      \/ /\ stage[p] = "populate" /\ stage'[p] = "percentiles" /\ UNCHANGED task
      \/ /\ stage[p] \in {"bars", "indices", "select"}
         /\ stage'[p] \in {"indices", "select", "next"} /\ UNCHANGED task
  BY <1>0 DEF UpsertOptions, UpsertEquity, Discover, Computed, Aggregates, UpsertCalendar,
         Deactivate, Activate, PopulateCalendar, UpsertIndexBars,
         DiscoverIndices, SelectIndexDates, taskVars, Go
<1>5. \A s \in Symbols : task'[p][s] # "no" =>
         /\ stage'[p] \in {"compute", "left"} /\ s \in Fo[day[p]]
         /\ task'[p][s] = "todo"
  <2>1. \A s \in Symbols : task[p][s] # "no" => stage[p] \in {"compute", "left"}
    BY DEF RowsInv, TaskOf
  <2>. QED BY <1>4, <2>1 DEF FoRows
<1>6. stage'[p] \in OnDate => stage[p] \in OnDate
  BY <1>4 DEF OnDate
<1>7. ASSUME p \in clean PROVE CleanOf(p)'
  <2>1. CleanOf(p)
    BY <1>7 DEF CleanInv
  <2>2. /\ kind'[p] \in OneDay /\ stage'[p] \notin Scripted
        /\ stage'[p] \in OnWay => stage[p] \in OnWay
    BY <1>1, <1>4, <2>1 DEF CleanOf, Scripted, OneDay, OnWay
  <2>3. \A d, s : TrueRow(d, s)' = TrueRow(d, s) /\ StraddleRight(d, s)' = StraddleRight(d, s)
    BY <1>1 DEF TrueRow, TrueIv, StraddleRight, TrueStraddle
  <2>4. ASSUME stage'[p] \in {"compute", "percentiles"}
        PROVE \/ stage[p] = "compute" /\ UNCHANGED task
              \/ \A s \in Fo[day[p]] : task'[p][s] = "todo"
    <3>1. CASE Discover(p)
      <4>1. scope[p] = Symbols
        BY <2>1, <3>1 DEF CleanOf, Scripted, OnWay, Discover, Go
      <4>2. \A s \in Fo[day[p]] : s \in Symbols /\ s \in FoRows(p)
        BY <1>0, <4>1 DEF FoRows
      <4>. QED BY <3>1, <4>2 DEF Discover, Go, EodTypeInv, EodShapes, Table
    <3>2. CASE ~ Discover(p)
      BY <1>4, <2>1, <2>4, <3>2 DEF CleanOf, Scripted
    <3>. QED BY <3>1, <3>2
  <2>. QED BY <1>1, <1>3, <2>1, <2>2, <2>3, <2>4 DEF CleanOf, Scripted, OnDate
<1>. QED BY <1>1, <1>2, <1>3, <1>5, <1>6, <1>7, FinishedGo

\* Starts, the dates of the scripts and deaths: a run that takes up a date ends the
\* cleanness of the others there.
LEMMA FinishedStart ==
  ASSUME EodTypeInv, EodTypeInv', RowsInv, CleanInv, FinishedInv, NEW p \in Runs,
         StartRun(p) \/ StartScript(p) \/ StartIndexBackfill(p)
  PROVE  RowsInv' /\ CleanInv' /\ FinishedInv'
<1>0. /\ stage \in [Runs -> Stages] /\ day \in [Runs -> Days]
      /\ kind \in [Runs -> JobKinds] /\ scope \in [Runs -> SUBSET Symbols]
      /\ \A s \in Symbols : task[p][s] # "no" => stage[p] \in {"compute", "left"}
  BY DEF EodTypeInv, EodTypeOK, EodShapes, Table, RowsInv, TaskOf
<1>1. /\ UNCHANGED <<options, spotUsed, metric, rank, straddle, finished, wrote, task, row>>
      /\ equity \subseteq equity'
      /\ stage[p] = "idle" /\ stage'[p] \in {"options", "next", "bars"}
      /\ clean' \subseteq clean \cup {p}
  BY <1>0 DEF StartRun, StartScript, StartIndexBackfill, database, taskVars, Go
<1>2. \A q \in Runs \ {p} : /\ kind'[q] = kind[q] /\ stage'[q] = stage[q]
                             /\ scope'[q] = scope[q] /\ day'[q] = day[q]
  BY <1>0 DEF StartRun, StartScript, StartIndexBackfill, Go
<1>3. \A s \in Symbols : task'[p][s] = "no"
  BY <1>0, <1>1
<1>4. CASE StartRun(p)
  <2>1. PICK k \in Kinds[p] \cap OneDay, d \in Days, only \in Scopes :
          /\ kind' = [kind EXCEPT ![p] = k]
          /\ day' = [day EXCEPT ![p] = d] /\ scope' = [scope EXCEPT ![p] = only]
          /\ clean' = (clean \ (Rivals(d) \cup {p})) \cup
                      {q \in {p} : Rivals(d) = {} /\ only = Symbols /\ 1 .. d - 1 \subseteq finished}
    BY <1>4 DEF StartRun
  <2>2. kind'[p] = k /\ day'[p] = d /\ scope'[p] = only
    BY <1>0, <2>1
  <2>3. \A r \in clean' \ {p} : stage[r] # "idle" => day[r] # day'[p]
    BY <2>1, <2>2 DEF Rivals, EodTypeInv, EodTypeOK
  <2>4. ASSUME p \in clean' PROVE CleanOf(p)'
    <3>1. only = Symbols /\ 1 .. d - 1 \subseteq finished /\ Rivals(d) = {}
      BY <2>1, <2>4
    <3>2. \A q \in Runs \ {p} : stage[q] # "idle" => day[q] # d
      BY <3>1 DEF Rivals
    <3>3. stage'[p] = "options"
      BY <1>0, <1>4 DEF StartRun, Go
    <3>. QED BY <1>1, <1>2, <2>1, <2>2, <3>1, <3>2, <3>3 DEF CleanOf, Scripted, OnDate
  <2>. QED BY <1>1, <1>2, <1>3, <2>3, <2>4, FinishedGo DEF RowsInv
<1>5. CASE StartScript(p) \/ StartIndexBackfill(p)
  <2>1. clean' = clean \ {p} /\ stage'[p] \in {"next", "bars"}
    BY <1>0, <1>5 DEF StartScript, StartIndexBackfill, Go
  <2>. QED BY <1>1, <1>2, <1>3, <2>1, FinishedGo DEF RowsInv, OnDate
<1>. QED BY <1>4, <1>5

LEMMA FinishedScript ==
  ASSUME EodTypeInv, EodTypeInv', RowsInv, CleanInv, FinishedInv, NEW p \in Runs,
         NextDate(p) \/ NoDateLeft(p) \/ SkipDate(p) \/ AbortRun(p)
  PROVE  RowsInv' /\ CleanInv' /\ FinishedInv'
<1>0. /\ stage \in [Runs -> Stages] /\ day \in [Runs -> Days]
      /\ task \in [Runs -> [Symbols -> TaskPlaces]]
      /\ row = [q \in Runs |-> [s \in Symbols |-> row[q][s]]]
      /\ \A s \in Symbols : task[p][s] # "no" => stage[p] \in {"compute", "left"}
      /\ p \in clean => kind[p] \in OneDay /\ stage[p] # "next"
  BY DEF EodTypeInv, EodTypeOK, EodShapes, Table, RowsInv, TaskOf, CleanInv, CleanOf, Scripted
<1>1. /\ UNCHANGED <<options, equity, spotUsed, metric, rank, straddle, finished, wrote, kind, scope>>
      /\ clean' \subseteq clean
      /\ \A q \in Runs \ {p} : /\ stage'[q] = stage[q] /\ day'[q] = day[q]
                               /\ task'[q] = task[q] /\ row'[q] = row[q]
  BY <1>0 DEF NextDate, NoDateLeft, SkipDate, AbortRun, database, histories, taskVars, runArgs, Go
<1>2. CASE NextDate(p)
  <2>. DEFINE d == Min(dates[p])
              load == kind[p] = "initialize"
  <2>1. d \in dates[p] /\ stage[p] = "next"
    BY <1>2, DaysChosen DEF NextDate
  <2>2. /\ day' = [day EXCEPT ![p] = d] /\ clean' = clean \ Rivals(d)
        /\ task' = [task EXCEPT ![p] =
                      [s \in Symbols |-> IF ~load /\ s \in BothRows(p, d) THEN "todo" ELSE "no"]]
        /\ stage'[p] \in {IF load THEN "options" ELSE "compute", "next"}
        /\ ~ load => stage'[p] = "compute"
    BY <1>0, <1>2, <2>1 DEF NextDate
  <2>. HIDE DEF d
  <2>3. day'[p] = d /\ p \notin clean'
    BY <1>0, <2>1, <2>2
  <2>4. \A s \in Symbols : task'[p][s] # "no" =>
          stage'[p] = "compute" /\ s \in Fo[d] /\ task'[p][s] = "todo"
    <3>1. \A s \in BothRows(p, d) : s \in Fo[d]
      BY DEF BothRows, RowsInv
    <3>. QED BY <1>0, <2>2, <3>1
  <2>5. \A r \in clean' \ {p} : stage[r] # "idle" => day[r] # day'[p]
    BY <2>2, <2>3 DEF Rivals, EodTypeInv, EodTypeOK
  <2>. QED BY <1>1, <2>3, <2>4, <2>5, FinishedGo DEF RowsInv
<1>3. CASE NoDateLeft(p)
  <2>1. stage[p] = "next" /\ stage'[p] \in {"deactivate", "aggregates"} /\ UNCHANGED task
    BY <1>0, <1>3 DEF NoDateLeft, Go, taskVars
  <2>. QED BY <1>0, <1>1, <2>1, FinishedGo DEF RowsInv, OnDate
<1>4. CASE SkipDate(p) \/ AbortRun(p)
  <2>1. /\ stage'[p] \in {"next", "idle"} /\ (stage'[p] = "next" => kind[p] = "initialize")
        /\ \A s \in Symbols : task'[p][s] = "no"
    BY <1>0, <1>4 DEF SkipDate, AbortRun
  <2>2. p \in clean' => CleanOf(p)'
    BY <1>0, <1>1, <2>1 DEF CleanOf, Scripted, OneDay, OnWay
  <2>. QED BY <1>0, <1>1, <2>1, <2>2, FinishedGo DEF RowsInv, OnDate
<1>. QED BY <1>2, <1>3, <1>4

\* A step of one run that stores straddles only: the own spot of who upserts one on a
\* finished date, or clean, is that of the date.
LEMMA StraddlesGo ==
  ASSUME EodTypeInv, EodTypeInv', RowsInv, CleanInv, FinishedInv, NEW p \in Runs,
         UNCHANGED <<options, equity, spotUsed, metric, rank, finished, day>>,
         clean' \subseteq clean, p \in clean' => kind'[p] = kind[p] /\ scope'[p] = scope[p],
         \/ stage'[p] = stage[p]
         \/ stage[p] \in {"idle", "refill"} /\ stage'[p] \in {"idle", "refill"},
         \A q \in Runs \ {p} : /\ kind'[q] = kind[q] /\ stage'[q] = stage[q]
                               /\ scope'[q] = scope[q]
                               /\ task'[q] = task[q] /\ row'[q] = row[q],
         \A d \in Days, s \in Symbols : metric[d][s].spot = d /\ StraddleRight(d, s) =>
           \/ StraddleRight(d, s)'
           \/ d = day[p] /\ stage[p] \in OnDate /\ task[p][s] = "measured" /\ row[p][s].spot # d,
         \A s \in Symbols :
           \/ task'[p][s] = task[p][s] /\ row'[p][s] = row[p][s]
           \/ /\ task[p][s] = "measured" /\ task'[p][s] = "no"
              /\ row[p][s].spot = day[p] => StraddleRight(day[p], s)'
  PROVE  RowsInv' /\ CleanInv' /\ FinishedInv'
<1>0. /\ clean \subseteq Runs /\ finished \subseteq Days /\ day \in [Runs -> Days]
      /\ Fo \in [Days -> SUBSET Symbols]
  BY EodAssumption DEF EodTypeInv, EodTypeOK
<1>1. \A d, s : TrueRow(d, s)' = TrueRow(d, s)
  BY DEF TrueRow, TrueIv
<1>2. \A d \in Days : Ranked(d)' = Ranked(d)
  BY RankedLocal
<1>3. \A d, s : TrueRow(d, s).spot = d
  BY DEF TrueRow
<1>4. RowsInv'
  <2>1. ASSUME NEW q \in Runs, NEW s \in Symbols PROVE TaskOf(q, s)'
    <3>1. TaskOf(q, s)
      BY DEF RowsInv
    <3>2. CASE q = p
      BY <3>1, <3>2 DEF TaskOf, Timed
    <3>3. CASE q # p
      BY <3>1, <3>3 DEF TaskOf
    <3>. QED BY <3>2, <3>3
  <2>. QED BY <2>1 DEF RowsInv
<1>5. CleanInv'
  <2>. SUFFICES ASSUME NEW q \in clean' PROVE CleanOf(q)'
    BY DEF CleanInv
  <2>1. q \in clean /\ q \in Runs /\ CleanOf(q) /\ day[q] \in Days
    BY <1>0 DEF CleanInv
  <2>2. /\ kind'[q] \in OneDay /\ stage'[q] \notin Scripted /\ scope'[q] = scope[q]
        /\ stage'[q] \in OnWay => stage[q] = stage'[q]
        /\ stage'[q] \in {"compute", "percentiles"} => stage[q] = stage'[q]
    BY <2>1 DEF CleanOf, OnWay, Scripted
  <2>3. \A r \in Runs : stage'[r] \in OnDate => stage[r] \in OnDate
    BY DEF OnDate
  <2>4. ASSUME NEW s \in Fo[day[q]], stage'[q] \in {"compute", "percentiles"},
               metric[day[q]][s].spot = day[q]
        PROVE  /\ task'[q][s] \in {"measured", "no"} => metric[day[q]][s] = TrueRow(day[q], s)
               /\ task'[q][s] = "measured" => row'[q][s].spot = day[q]
               /\ task'[q][s] = "no" => StraddleRight(day[q], s)'
    <3>1. s \in Symbols
      BY <1>0, <2>1
    <3>2. /\ task[q][s] \in {"measured", "no"} => metric[day[q]][s] = TrueRow(day[q], s)
          /\ task[q][s] = "measured" => row[q][s].spot = day[q]
          /\ task[q][s] = "no" => StraddleRight(day[q], s)
      BY <2>1, <2>2, <2>4 DEF CleanOf
    <3>3. q # p /\ stage[p] \in OnDate => day[p] # day[q]
      BY <2>1, <2>2, <2>4 DEF CleanOf, OnWay
    <3>4. task[q][s] = "no" => StraddleRight(day[q], s)'
      BY <2>1, <2>4, <3>1, <3>2, <3>3
    <3>5. \/ task'[q][s] = task[q][s] /\ row'[q][s] = row[q][s]
          \/ q = p /\ task[q][s] = "measured" /\ task'[q][s] = "no"
      BY <2>1, <3>1
    <3>6. q = p /\ task[q][s] = "measured" /\ task'[q][s] = "no" => StraddleRight(day[q], s)'
      BY <3>1, <3>2
    <3>. QED BY <3>2, <3>4, <3>5, <3>6
  <2>. QED BY <1>1, <2>1, <2>2, <2>3, <2>4 DEF CleanOf
<1>6. FinishedInv'
  <2>1. ASSUME NEW d \in finished PROVE FinishedOf(d)'
    <3>1. FinishedOf(d) /\ d \in Days /\ \A s \in Fo[d] : s \in Symbols
      BY <1>0 DEF FinishedInv
    <3>2. \A s \in Fo[d] : metric[d][s].spot = d /\ StraddleRight(d, s)
      BY <1>3, <3>1 DEF FinishedOf
    <3>3. \A s \in Symbols : d = day[p] /\ task[p][s] = "measured" => row[p][s].spot = d
      BY DEF FinishedInv, RowOf, Timed
    <3>4. \A s \in Fo[d] : StraddleRight(d, s)'
      BY <3>1, <3>2, <3>3
    <3>. QED BY <1>1, <1>2, <3>1, <3>4 DEF FinishedOf
  <2>2. ASSUME NEW q \in Runs, NEW s \in Symbols PROVE RowOf(q, s)'
    <3>1. RowOf(q, s)
      BY DEF FinishedInv
    <3>2. \/ task'[q][s] = task[q][s] /\ row'[q][s] = row[q][s]
          \/ task'[q][s] = "no"
      OBVIOUS
    <3>3. Undisturbed(q)' => Undisturbed(q)
      BY DEF Undisturbed
    <3>. QED BY <1>1, <3>1, <3>2, <3>3 DEF RowOf, Timed
  <2>. QED BY <2>1, <2>2 DEF FinishedInv
<1>. QED BY <1>4, <1>5, <1>6

LEMMA FinishedStraddles ==
  ASSUME EodTypeInv, EodTypeInv', RowsInv, CleanInv, FinishedInv, NEW p \in Runs,
         \/ ResetStraddles(p) \/ RefillStraddles(p)
         \/ \E s \in Symbols : UpsertStraddle(p, s)
  PROVE  RowsInv' /\ CleanInv' /\ FinishedInv'
<1>0. /\ stage \in [Runs -> Stages] /\ day \in [Runs -> Days] /\ kind \in [Runs -> JobKinds]
      /\ scope \in [Runs -> SUBSET Symbols] /\ task \in [Runs -> [Symbols -> TaskPlaces]]
      /\ wrote \in [Days -> [Symbols -> {"load", "reset", "refill"}]]
  BY DEF EodTypeInv, EodTypeOK, EodShapes
<1>1. CASE ResetStraddles(p)
  <2>1. \A d \in Days, s \in Symbols : StraddleRight(d, s) => StraddleRight(d, s)'
    <3>1. \A d \in Days, s \in Symbols :
            \/ straddle'[d][s] = "skip" /\ wrote'[d][s] = "reset"
            \/ straddle'[d][s] = straddle[d][s] /\ wrote'[d][s] = wrote[d][s]
      BY <1>1 DEF ResetStraddles
    <3>. QED BY <3>1 DEF StraddleRight, TrueStraddle
  <2>2. /\ UNCHANGED <<options, equity, spotUsed, metric, rank, finished, day, row, task>>
        /\ clean' = clean \ {p} /\ stage[p] = "idle" /\ stage'[p] = "refill"
        /\ \A q \in Runs \ {p} : /\ kind'[q] = kind[q] /\ stage'[q] = stage[q]
                                 /\ scope'[q] = scope[q]
    BY <1>0, <1>1 DEF ResetStraddles, Go, taskVars
  <2>. QED BY <2>1, <2>2, StraddlesGo
<1>2. CASE RefillStraddles(p)
  <2>1. ASSUME NEW d \in Days, NEW s \in Symbols, metric[d][s].spot = d, StraddleRight(d, s)
        PROVE  StraddleRight(d, s)'
    <3>1. metric[d][s] # NoRow /\ <<d, s>> \in equity
      <4>1. d # 0
        BY EodAssumption DEF Days
      <4>. QED BY <2>1, <4>1 DEF NoRow, RowsInv
    <3>2. CASE d \in dates[p] /\ s \in scope[p]
      <4>1. /\ straddle'[d][s] = IF s \in Refillable[d] /\ d \in Legs[d][s]
                                 THEN "pnl" ELSE straddle[d][s]
            /\ wrote'[d][s] = IF wrote[d][s] = "reset" THEN "refill" ELSE wrote[d][s]
        BY <1>2, <3>1, <3>2 DEF RefillStraddles
      <4>. QED BY <2>1, <4>1 DEF StraddleRight, TrueStraddle
    <3>3. CASE ~ (d \in dates[p] /\ s \in scope[p])
      <4>1. straddle'[d][s] = straddle[d][s] /\ wrote'[d][s] = wrote[d][s]
        BY <1>2, <3>3 DEF RefillStraddles
      <4>. QED BY <2>1, <4>1 DEF StraddleRight, TrueStraddle
    <3>. QED BY <3>2, <3>3
  <2>2. /\ UNCHANGED <<options, equity, spotUsed, metric, rank, finished, day, row, task>>
        /\ UNCHANGED <<kind, scope, clean>> /\ stage[p] = "refill" /\ stage'[p] = "idle"
        /\ \A q \in Runs \ {p} : stage'[q] = stage[q]
    BY <1>0, <1>2 DEF RefillStraddles, Go, taskVars
  <2>. QED BY <2>1, <2>2, StraddlesGo
<1>3. ASSUME NEW s \in Symbols, UpsertStraddle(p, s) PROVE RowsInv' /\ CleanInv' /\ FinishedInv'
  <2>0. PICK e \in Days : e = day[p]
    BY <1>0
  <2>. DEFINE made == StraddleRow(e, s, row[p][s].spot)
  <2>1. /\ task[p][s] = "measured" /\ task' = [task EXCEPT ![p][s] = "no"]
        /\ stage[p] \in OnDate
        /\ UNCHANGED <<stage, kind, day, scope, clean, finished>>
        /\ UNCHANGED <<options, equity, spotUsed, metric, rank>>
    BY <1>3 DEF UpsertStraddle, Place, runArgs, OnDate
  <2>2. /\ straddle' = [straddle EXCEPT ![e] = [straddle[e] EXCEPT ![s] = made]]
        /\ wrote' = [wrote EXCEPT ![e] = [wrote[e] EXCEPT ![s] = "load"]]
        /\ row' = [row EXCEPT ![p] = [row[p] EXCEPT ![s] = NoRow]]
    BY <1>3, <2>0 DEF UpsertStraddle
  <2>. HIDE DEF made
  <2>3. /\ \A d \in Days, t \in Symbols :
             straddle'[d][t] = IF d = e /\ t = s THEN made ELSE straddle[d][t]
        /\ \A d \in Days, t \in Symbols :
             wrote'[d][t] = IF d = e /\ t = s THEN "load" ELSE wrote[d][t]
        /\ \A q \in Runs, t \in Symbols :
             row'[q][t] = IF q = p /\ t = s THEN NoRow ELSE row[q][t]
    <3>1. \A d \in Days, t \in Symbols :
            straddle'[d][t] = IF d = e /\ t = s THEN made ELSE straddle[d][t]
      BY <1>0, <2>2, EntrySet DEF EodTypeInv, EodShapes, Table
    <3>2. \A d \in Days, t \in Symbols :
            wrote'[d][t] = IF d = e /\ t = s THEN "load" ELSE wrote[d][t]
      BY <1>0, <2>2
    <3>3. \A q \in Runs, t \in Symbols :
            row'[q][t] = IF q = p /\ t = s THEN NoRow ELSE row[q][t]
      BY <1>0, <2>2, EntrySet DEF EodTypeInv, EodShapes, Table
    <3>. QED BY <3>1, <3>2, <3>3
  <2>4. row[p][s].spot = e => StraddleRight(e, s)'
    <3>1. straddle'[e][s] = made /\ wrote'[e][s] = "load" /\ e \in Days
      BY <1>0, <2>3
    <3>. QED BY <3>1 DEF StraddleRight, TrueStraddle, StraddleRow, made
  <2>5. ASSUME NEW d \in Days, NEW t \in Symbols, StraddleRight(d, t)
        PROVE  StraddleRight(d, t)' \/ (d = e /\ t = s /\ row[p][s].spot # e)
    <3>1. CASE d = e /\ t = s
      BY <2>4, <3>1
    <3>2. CASE ~ (d = e /\ t = s)
      <4>1. straddle'[d][t] = straddle[d][t] /\ wrote'[d][t] = wrote[d][t]
        BY <2>3, <3>2
      <4>. QED BY <2>5, <4>1 DEF StraddleRight, TrueStraddle
    <3>. QED BY <3>1, <3>2
  <2>6. /\ \A q \in Runs \ {p} : task'[q] = task[q] /\ row'[q] = row[q]
        /\ \A t \in Symbols : /\ task'[p][t] = IF t = s THEN "no" ELSE task[p][t]
                              /\ t # s => row'[p][t] = row[p][t]
    <3>1. \A q \in Runs \ {p} : task'[q] = task[q]
      BY <1>0, <2>1
    <3>2. \A q \in Runs \ {p} : row'[q] = row[q]
      BY <2>2 DEF EodTypeInv, EodShapes, Table
    <3>3. \A t \in Symbols : task'[p][t] = IF t = s THEN "no" ELSE task[p][t]
      BY <1>0, <2>1
    <3>. QED BY <2>3, <3>1, <3>2, <3>3
  <2>. QED BY <2>0, <2>1, <2>4, <2>5, <2>6, StraddlesGo
<1>. QED BY <1>1, <1>2, <1>3

\* What a gather leaves behind goes on under the same date, in the same process or in
\* one that is nowhere else.
LEMMA FinishedRaise ==
  ASSUME EodTypeInv, EodTypeInv', RowsInv, CleanInv, FinishedInv, NEW p \in Runs,
         NEW s \in Symbols, SymbolRaises(p, s)
  PROVE  RowsInv' /\ CleanInv' /\ FinishedInv'
<1>. DEFINE others == [task[p] EXCEPT ![s] = "no"]
            rows == [row[p] EXCEPT ![s] = NoRow]
<1>0. /\ stage \in [Runs -> Stages] /\ day \in [Runs -> Days]
      /\ task \in [Runs -> [Symbols -> TaskPlaces]]
      /\ row = [q \in Runs |-> [t \in Symbols |-> row[q][t]]]
  BY DEF EodTypeInv, EodTypeOK, EodShapes, Table
<1>1. /\ UNCHANGED <<options, equity, spotUsed, metric, rank, straddle, finished, wrote, kind, scope>>
      /\ stage[p] = "compute"
  BY DEF SymbolRaises, database
<1>2. \A t \in Symbols : /\ others[t] = (IF t = s THEN "no" ELSE task[p][t])
                         /\ others[t] # "no" => rows[t] = row[p][t]
  BY <1>0
<1>. HIDE DEF others, rows
<1>3. CASE /\ kind[p] = "request" /\ stage' = [stage EXCEPT ![p] = "left"]
           /\ task' = [task EXCEPT ![p] = others] /\ row' = [row EXCEPT ![p] = rows]
           /\ UNCHANGED <<day, clean>>
  <2>1. /\ stage'[p] = "left" /\ task'[p] = others /\ row'[p] = rows
        /\ \A q \in Runs \ {p} : stage'[q] = stage[q] /\ task'[q] = task[q] /\ row'[q] = row[q]
    BY <1>0, <1>3
  <2>2. \A t \in Symbols : task'[p][t] # "no" =>
          /\ t \in Fo[day[p]] /\ task'[p][t] = task[p][t] /\ row'[p][t] = row[p][t]
    BY <1>2, <2>1 DEF RowsInv, TaskOf
  <2>3. p \in clean' => CleanOf(p)'
    BY <1>1, <1>3, <2>1 DEF CleanInv, CleanOf, Scripted, OnWay
  <2>. QED BY <1>1, <1>3, <2>1, <2>2, <2>3, FinishedGo DEF RowsInv, OnDate
<1>4. ASSUME NEW q \in Runs, kind[p] = "initialize", stage[q] = "idle",
             stage' = [stage EXCEPT ![p] = "next", ![q] = "left"],
             day' = [day EXCEPT ![q] = day[p]],
             task' = [task EXCEPT ![q] = others, ![p] = task[q]],
             row' = [row EXCEPT ![q] = rows, ![p] = row[q]], clean' = clean \ {q}
      PROVE  RowsInv' /\ CleanInv' /\ FinishedInv'
  <2>1. p # q /\ p \notin clean'
    BY <1>1, <1>4 DEF CleanInv, CleanOf, Scripted, OneDay
  <2>2. /\ stage'[p] = "next" /\ task'[p] = task[q] /\ day'[p] = day[p]
        /\ stage'[q] = "left" /\ task'[q] = others /\ row'[q] = rows /\ day'[q] = day[p]
        /\ \A r \in Runs \ {p, q} : /\ stage'[r] = stage[r] /\ task'[r] = task[r]
                                    /\ row'[r] = row[r] /\ day'[r] = day[r]
    BY <1>0, <1>4, <2>1
  <2>3. \A t \in Symbols : task[q][t] = "no"
    BY <1>4 DEF RowsInv, TaskOf
  <2>4. \A d, t : TrueRow(d, t)' = TrueRow(d, t) /\ StraddleRight(d, t)' = StraddleRight(d, t)
    BY <1>1 DEF TrueRow, TrueIv, StraddleRight, TrueStraddle
  <2>5. \A d \in Days : Ranked(d)' = Ranked(d)
    BY <1>1, RankedLocal
  <2>6. RowsInv'
    <3>1. ASSUME NEW r \in Runs, NEW t \in Symbols PROVE TaskOf(r, t)'
      <4>1. CASE r = p
        BY <2>2, <2>3, <4>1 DEF TaskOf, Timed
      <4>2. CASE r = q
        BY <1>1, <1>2, <2>2, <4>2 DEF TaskOf, RowsInv, Timed
      <4>3. CASE r \notin {p, q}
        BY <1>1, <2>2, <4>3 DEF TaskOf, RowsInv
      <4>. QED BY <4>1, <4>2, <4>3
    <3>. QED BY <1>1, <3>1 DEF RowsInv
  <2>7. CleanInv'
    <3>. SUFFICES ASSUME NEW r \in clean' PROVE CleanOf(r)'
      BY DEF CleanInv
    <3>1. r \in clean /\ r \in Runs /\ r \notin {p, q} /\ CleanOf(r)
      BY <1>4, <2>1 DEF CleanInv, EodTypeInv, EodTypeOK
    <3>2. ASSUME stage[r] \in OnWay, NEW x \in Runs \ {r}, stage'[x] \in OnDate
          PROVE  day'[x] # day[r]
      <4>1. \A y \in Runs \ {r} : stage[y] \in OnDate => day[y] # day[r]
        BY <3>1, <3>2 DEF CleanOf, Scripted
      <4>2. day[p] # day[r]
        BY <1>1, <3>1, <4>1 DEF OnDate
      <4>3. CASE x = p
        BY <2>2, <3>2, <4>3 DEF OnDate
      <4>4. CASE x # p
        BY <2>2, <3>2, <4>1, <4>2, <4>4
      <4>. QED BY <4>3, <4>4
    <3>. QED BY <1>1, <2>2, <2>4, <3>1, <3>2 DEF CleanOf, Scripted
  <2>8. FinishedInv'
    <3>1. \A d \in finished' : FinishedOf(d)'
      BY <1>1, <2>4, <2>5 DEF FinishedInv, FinishedOf, EodTypeInv, EodTypeOK
    <3>2. ASSUME NEW r \in Runs, NEW t \in Symbols PROVE RowOf(r, t)'
      <4>1. CASE r = p
        BY <2>2, <2>3, <4>1 DEF RowOf, Timed
      <4>2. CASE r = q
        <5>1. q \notin clean'
          BY <1>4
        <5>2. RowOf(p, t)
          BY DEF FinishedInv
        <5>. QED BY <1>1, <1>2, <2>2, <2>4, <4>2, <5>1, <5>2 DEF RowOf, Undisturbed, Timed
      <4>3. CASE r \notin {p, q}
        <5>1. RowOf(r, t) /\ (r \in clean' => r \in clean)
          BY <1>4 DEF FinishedInv
        <5>. QED BY <1>1, <2>2, <2>4, <4>3, <5>1 DEF RowOf, Undisturbed, Timed
      <4>. QED BY <4>1, <4>2, <4>3
    <3>. QED BY <3>1, <3>2 DEF FinishedInv
  <2>. QED BY <2>6, <2>7, <2>8
<1>. QED BY <1>3, <1>4 DEF SymbolRaises, others, rows

\* A step that touches only where a run is with one symbol.
LEMMA FinishedAt ==
  ASSUME EodTypeInv, EodTypeInv', RowsInv, CleanInv, FinishedInv, NEW p \in Runs,
         NEW s \in Symbols,
         UNCHANGED <<stage, kind, day, scope, clean, finished, wrote>>,
         UNCHANGED <<options, equity, spotUsed, metric, rank, straddle>>,
         \A q \in Runs, t \in Symbols :
           ~ (q = p /\ t = s) => task'[q][t] = task[q][t] /\ row'[q][t] = row[q][t],
         task'[p][s] # "measured",
         task'[p][s] = "no" => metric[day[p]][s].spot # day[p],
         TaskOf(p, s)', RowOf(p, s)'
  PROVE  RowsInv' /\ CleanInv' /\ FinishedInv'
<1>0. clean \subseteq Runs /\ finished \subseteq Days /\ Fo \in [Days -> SUBSET Symbols]
      /\ day \in [Runs -> Days]
  BY EodAssumption DEF EodTypeInv, EodTypeOK
<1>1. \A e, t : TrueRow(e, t)' = TrueRow(e, t) /\ StraddleRight(e, t)' = StraddleRight(e, t)
  BY DEF TrueRow, TrueIv, StraddleRight, TrueStraddle
<1>2. \A e \in Days : Ranked(e)' = Ranked(e)
  BY RankedLocal
<1>3. \A q \in Runs : Undisturbed(q)' = Undisturbed(q)
  BY DEF Undisturbed
<1>4. RowsInv'
  <2>1. ASSUME NEW q \in Runs, NEW t \in Symbols, ~ (q = p /\ t = s) PROVE TaskOf(q, t)'
    BY <2>1 DEF RowsInv, TaskOf
  <2>. QED BY <2>1 DEF RowsInv
<1>5. CleanInv'
  <2>. SUFFICES ASSUME NEW q \in clean PROVE CleanOf(q)'
    BY DEF CleanInv
  <2>1. q \in Runs /\ CleanOf(q) /\ \A t \in Fo[day[q]] : t \in Symbols
    BY <1>0 DEF CleanInv
  <2>2. ASSUME NEW t \in Fo[day[q]], metric[day[q]][t].spot = day[q],
               task'[q][t] \in {"measured", "no"}
        PROVE  task'[q][t] = task[q][t] /\ row'[q][t] = row[q][t]
    BY <2>1, <2>2
  <2>. QED BY <1>1, <2>1, <2>2 DEF CleanOf
<1>6. FinishedInv'
  <2>1. \A e \in finished' : FinishedOf(e)'
    BY <1>0, <1>1, <1>2 DEF FinishedInv, FinishedOf
  <2>2. ASSUME NEW q \in Runs, NEW t \in Symbols, ~ (q = p /\ t = s) PROVE RowOf(q, t)'
    BY <1>1, <1>3, <2>2 DEF FinishedInv, RowOf
  <2>. QED BY <2>1, <2>2 DEF FinishedInv
<1>. QED BY <1>4, <1>5, <1>6

\* The last bar up to a finished date is its own, so that its spot is read again.
LEMMA FinishedSpot ==
  ASSUME EodTypeInv, EodTypeInv', RowsInv, CleanInv, FinishedInv, NEW p \in Runs,
         NEW s \in Symbols, ReadSpot(p, s)
  PROVE  RowsInv' /\ CleanInv' /\ FinishedInv'
<1>0. PICK d \in Days : d = day[p]
  BY DEF EodTypeInv, EodTypeOK
<1>1. /\ task \in [Runs -> [Symbols -> TaskPlaces]] /\ Table(row, Runs, Symbols)
      /\ d \in 1 .. d
  BY EodAssumption DEF EodTypeInv, EodShapes, Days
<1>2. /\ UNCHANGED <<stage, kind, day, scope, clean, finished, wrote>>
      /\ UNCHANGED <<options, equity, spotUsed, metric, rank, straddle>>
      /\ stage[p] \in {"compute", "left"} /\ task[p][s] = "todo"
  BY DEF ReadSpot, Move, Place, runArgs, histories, database
<1>3. s \in Fo[d]
  BY <1>0, <1>2 DEF RowsInv, TaskOf
<1>4. metric[d][s].spot = d => d \in SpotDay(d, s)
  BY <1>1 DEF RowsInv, SpotDay
<1>5. CASE SpotDay(d, s) = {}
  <2>1. task' = [task EXCEPT ![p][s] = "no"] /\ row' = row
    BY <1>0, <1>5 DEF ReadSpot, Move, Place
  <2>2. \A q \in Runs, t \in Symbols :
          /\ task'[q][t] = IF q = p /\ t = s THEN "no" ELSE task[q][t]
          /\ row'[q][t] = row[q][t]
    BY <1>1, <2>1
  <2>3. TaskOf(p, s)' /\ RowOf(p, s)'
    BY <2>2 DEF TaskOf, RowOf, Timed
  <2>. QED BY <1>0, <1>2, <1>4, <1>5, <2>2, <2>3, FinishedAt
<1>6. CASE SpotDay(d, s) # {}
  <2>. DEFINE m == Max(SpotDay(d, s))
  <2>1. /\ task' = [task EXCEPT ![p][s] = "priced"]
        /\ row' = [row EXCEPT ![p] = [row[p] EXCEPT ![s] = AtSpot(m)]]
    BY <1>0, <1>6 DEF ReadSpot, Move, Place
  <2>2. <<m, s>> \in equity /\ (<<d, s>> \in equity => m = d)
    BY <1>6, SpotDayMax
  <2>. HIDE DEF m
  <2>3. \A q \in Runs, t \in Symbols :
          /\ task'[q][t] = IF q = p /\ t = s THEN "priced" ELSE task[q][t]
          /\ row'[q][t] = IF q = p /\ t = s THEN AtSpot(m) ELSE row[q][t]
    <3>1. \A q \in Runs, t \in Symbols :
            task'[q][t] = IF q = p /\ t = s THEN "priced" ELSE task[q][t]
      BY <1>1, <2>1
    <3>2. \A q \in Runs, t \in Symbols :
            row'[q][t] = IF q = p /\ t = s THEN AtSpot(m) ELSE row[q][t]
      BY <1>1, <2>1, EntrySet DEF Table
    <3>. QED BY <3>1, <3>2
  <2>4. row'[p][s].spot = m
    BY <2>3 DEF AtSpot, NoRow
  <2>5. TaskOf(p, s)'
    BY <1>0, <1>2, <1>3, <2>2, <2>4 DEF TaskOf
  <2>6. d \in finished => m = d
    <3>1. d \in finished => metric[d][s].spot = d
      <4>1. d \in finished => metric[d][s] = TrueRow(d, s)
        BY <1>3 DEF FinishedInv, FinishedOf
      <4>2. TrueRow(d, s).spot = d
        BY DEF TrueRow
      <4>. QED BY <4>1, <4>2
    <3>. QED BY <2>2, <3>1 DEF RowsInv
  <2>7. RowOf(p, s)'
    BY <1>0, <1>2, <2>3, <2>4, <2>6 DEF RowOf
  <2>. QED BY <1>2, <2>3, <2>5, <2>7, FinishedAt
<1>. QED BY <1>5, <1>6

\* Whoever derives the contracts of a finished date does so at its own spot; nobody
\* else derives those of a clean run.
LEMMA FinishedDerive ==
  ASSUME EodTypeInv, EodTypeInv', RowsInv, CleanInv, FinishedInv, NEW p \in Runs,
         NEW s \in Symbols, DeriveContracts(p, s)
  PROVE  RowsInv' /\ CleanInv' /\ FinishedInv'
<1>0. /\ day \in [Runs -> Days] /\ task \in [Runs -> [Symbols -> TaskPlaces]]
      /\ clean \subseteq Runs /\ finished \subseteq Days /\ Fo \in [Days -> SUBSET Symbols]
  BY EodAssumption DEF EodTypeInv, EodTypeOK, EodShapes
<1>1. /\ task[p][s] = "priced" /\ task' = [task EXCEPT ![p][s] = "derived"]
      /\ spotUsed' = [spotUsed EXCEPT ![day[p]] = [spotUsed[day[p]] EXCEPT ![s] = row[p][s].spot]]
      /\ stage[p] \in {"compute", "left"}
  BY DEF DeriveContracts, Move, Place
<1>2. /\ UNCHANGED <<stage, kind, day, scope, clean, finished, wrote>>
      /\ UNCHANGED <<options, equity, metric, rank, straddle, row>>
  BY DEF DeriveContracts, Move, Place, runArgs, histories
<1>3. \A q \in Runs, t \in Symbols :
        task'[q][t] = IF q = p /\ t = s THEN "derived" ELSE task[q][t]
  BY <1>0, <1>1
<1>4. \A d \in Days, t \in Symbols :
        spotUsed'[d][t] = IF d = day[p] /\ t = s THEN row[p][s].spot ELSE spotUsed[d][t]
  <2>1. spotUsed = [d \in Days |-> [t \in Symbols |-> spotUsed[d][t]]] /\ day[p] \in Days
    BY <1>0 DEF EodTypeInv, EodShapes, Table
  <2>. QED BY <1>1, <2>1, EntrySet
<1>5. \A d, t : TrueRow(d, t)' = TrueRow(d, t) /\ StraddleRight(d, t)' = StraddleRight(d, t)
  BY <1>2 DEF TrueRow, TrueIv, StraddleRight, TrueStraddle
<1>6. \A d \in Days : Ranked(d)' = Ranked(d)
  BY <1>2, RankedLocal
<1>7. RowsInv'
  <2>1. ASSUME NEW q \in Runs, NEW t \in Symbols PROVE TaskOf(q, t)'
    <3>1. CASE q = p /\ t = s
      BY <1>1, <1>2, <3>1 DEF RowsInv, TaskOf, Timed
    <3>2. CASE ~ (q = p /\ t = s)
      BY <1>2, <1>3, <3>2 DEF RowsInv, TaskOf
    <3>. QED BY <3>1, <3>2
  <2>. QED BY <1>2, <2>1 DEF RowsInv
<1>8. CleanInv'
  <2>. SUFFICES ASSUME NEW q \in clean PROVE CleanOf(q)'
    BY <1>2 DEF CleanInv
  <2>1. q \in Runs /\ CleanOf(q) /\ \A t \in Fo[day[q]] : t \in Symbols
    BY <1>0 DEF CleanInv
  <2>2. \A t \in Fo[day[q]] :
          task'[q][t] \in {"measured", "no"} => task'[q][t] = task[q][t]
    BY <1>3, <2>1
  <2>. QED BY <1>2, <1>5, <2>1, <2>2 DEF CleanOf
<1>9. FinishedInv'
  <2>1. \A d \in finished' : FinishedOf(d)'
    BY <1>0, <1>2, <1>5, <1>6 DEF FinishedInv, FinishedOf
  <2>2. ASSUME NEW q \in Runs, NEW t \in Symbols PROVE RowOf(q, t)'
    <3>1. RowOf(q, t) /\ RowOf(p, s) /\ day[q] \in Days
      BY <1>0 DEF FinishedInv
    <3>2. task'[q][t] \in Timed => task[q][t] \in Timed
      BY <1>1, <1>3 DEF Timed
    <3>3. ASSUME Undisturbed(q), row[q][t].spot = day[q], task'[q][t] = "derived"
          PROVE  spotUsed'[day[q]][t] = day[q]
      <4>1. CASE q = p /\ t = s
        BY <1>4, <3>1, <3>3, <4>1
      <4>2. CASE ~ (q = p /\ t = s)
        <5>1. spotUsed[day[q]][t] = day[q]
          BY <1>3, <3>1, <3>3, <4>2 DEF RowOf
        <5>2. ASSUME day[q] = day[p], t = s PROVE row[p][s].spot = day[p]
          <6>1. CASE day[q] \in finished
            BY <1>1, <3>1, <5>2, <6>1 DEF RowOf, Timed
          <6>2. CASE q \in clean /\ stage[q] = "compute"
            BY <1>1, <4>2, <5>2, <6>2 DEF CleanInv, CleanOf, OnWay, OnDate
          <6>. QED BY <3>3, <6>1, <6>2 DEF Undisturbed
        <5>. QED BY <1>4, <3>1, <5>1, <5>2
      <4>. QED BY <4>1, <4>2
    <3>4. task'[q][t] = "read" => task[q][t] = "read"
      BY <1>3
    <3>5. Undisturbed(q)' = Undisturbed(q)
      BY <1>2 DEF Undisturbed
    <3>. QED BY <1>2, <1>5, <3>1, <3>2, <3>3, <3>4, <3>5 DEF RowOf
  <2>. QED BY <2>1, <2>2 DEF FinishedInv
<1>. QED BY <1>7, <1>8, <1>9

\* The row read back on a finished date, or by a clean run, is the true one once it is
\* priced at the date itself.
LEMMA FinishedRead ==
  ASSUME EodTypeInv, EodTypeInv', RowsInv, CleanInv, FinishedInv, NEW p \in Runs,
         NEW s \in Symbols, ReadBack(p, s)
  PROVE  RowsInv' /\ CleanInv' /\ FinishedInv'
<1>. DEFINE own == row[p][s].spot
            read == [ComputedMetric(day[p], s, own) EXCEPT !.vrp = LaggedIv(day[p], s)]
<1>0. /\ day[p] \in Days /\ task \in [Runs -> [Symbols -> TaskPlaces]]
      /\ Table(row, Runs, Symbols)
  BY DEF EodTypeInv, EodTypeOK, EodShapes
<1>1. /\ task[p][s] = "derived" /\ task' = [task EXCEPT ![p][s] = "read"]
      /\ row' = [row EXCEPT ![p] = [row[p] EXCEPT ![s] = read]]
      /\ stage[p] \in {"compute", "left"}
  BY DEF ReadBack, Move, Place
<1>2. /\ UNCHANGED <<stage, kind, day, scope, clean, finished, wrote>>
      /\ UNCHANGED <<options, equity, spotUsed, metric, rank, straddle>>
  BY DEF ReadBack, Move, Place, runArgs, histories, database
<1>3. read = [spot |-> own, iv |-> Smile[day[p]][s][<<own, spotUsed[day[p]][s]>>],
              skew |-> Skew[day[p]][s], vrp |-> LaggedIv(day[p], s)]
  BY DEF ComputedMetric
<1>4. s \in Fo[day[p]] /\ RowOf(p, s) /\ TaskOf(p, s)
  BY <1>1 DEF RowsInv, TaskOf, FinishedInv
<1>5. ASSUME Undisturbed(p), own = day[p] PROVE read = TrueRow(day[p], s)
  <2>1. 1 .. day[p] - 1 \subseteq finished
    BY <1>5 DEF Undisturbed, FinishedInv, FinishedOf, CleanInv, CleanOf, OnWay
  <2>2. \A e \in 1 .. day[p] - 1 : metric[e][s].iv = TrueIv(e, s)
    <3>. SUFFICES ASSUME NEW e \in 1 .. day[p] - 1 PROVE metric[e][s].iv = TrueIv(e, s)
      OBVIOUS
    <3>1. e \in finished /\ e \in Days
      BY <2>1 DEF EodTypeInv, EodTypeOK
    <3>2. s \in Fo[e] => metric[e][s] = TrueRow(e, s)
      BY <3>1 DEF FinishedInv, FinishedOf
    <3>3. s \notin Fo[e] => metric[e][s] = NoRow
      BY <3>1 DEF RowsInv
    <3>4. TrueRow(e, s).iv = TrueIv(e, s)
      BY DEF TrueRow
    <3>. QED BY <3>2, <3>3, <3>4 DEF TrueIv, NoRow
  <2>3. LaggedIv(day[p], s) = TrueRow(day[p], s).vrp
    BY <1>0, <2>2, LaggedExact
  <2>4. TrueRow(day[p], s) =
          [spot |-> day[p], iv |-> Smile[day[p]][s][<<day[p], day[p]>>],
           skew |-> Skew[day[p]][s], vrp |-> TrueRow(day[p], s).vrp]
    BY <1>4 DEF TrueRow, TrueIv
  <2>5. spotUsed[day[p]][s] = day[p]
    BY <1>1, <1>4, <1>5 DEF RowOf
  <2>. QED BY <1>3, <1>5, <2>3, <2>4, <2>5
<1>6. read.spot = own
  BY <1>3
<1>. HIDE DEF read
<1>7. \A q \in Runs, t \in Symbols :
        /\ task'[q][t] = IF q = p /\ t = s THEN "read" ELSE task[q][t]
        /\ row'[q][t] = IF q = p /\ t = s THEN read ELSE row[q][t]
  <2>1. \A q \in Runs, t \in Symbols :
          task'[q][t] = IF q = p /\ t = s THEN "read" ELSE task[q][t]
    BY <1>0, <1>1
  <2>2. \A q \in Runs, t \in Symbols :
          row'[q][t] = IF q = p /\ t = s THEN read ELSE row[q][t]
    BY <1>0, <1>1, EntrySet DEF Table
  <2>. QED BY <2>1, <2>2
<1>8. TaskOf(p, s)'
  BY <1>1, <1>2, <1>4, <1>6, <1>7 DEF TaskOf, Timed
<1>9. RowOf(p, s)'
  <2>1. row'[p][s].spot = own /\ row'[p][s] = read /\ task'[p][s] = "read"
    BY <1>6, <1>7
  <2>2. TrueRow(day[p], s)' = TrueRow(day[p], s) /\ Undisturbed(p)' = Undisturbed(p)
    BY <1>2 DEF TrueRow, TrueIv, Undisturbed
  <2>. QED BY <1>1, <1>2, <1>4, <1>5, <2>1, <2>2 DEF RowOf, Timed
<1>. QED BY <1>2, <1>7, <1>8, <1>9, FinishedAt

\* Of a finished date only what is there already is stored again; another date that
\* is stored is not before a finished one.
LEMMA FinishedMetric ==
  ASSUME EodTypeInv, EodTypeInv', RowsInv, CleanInv, FinishedInv, NEW p \in Runs,
         NEW s \in Symbols, UpsertMetric(p, s)
  PROVE  RowsInv' /\ CleanInv' /\ FinishedInv'
<1>. DEFINE d == day[p]
<1>0. /\ d \in Days /\ task \in [Runs -> [Symbols -> TaskPlaces]]
      /\ row = [q \in Runs |-> [t \in Symbols |-> row[q][t]]]
      /\ metric = [e \in Days |-> [t \in Symbols |-> metric[e][t]]]
      /\ Fo \in [Days -> SUBSET Symbols] /\ clean \subseteq Runs /\ finished \subseteq Days
  BY EodAssumption DEF EodTypeInv, EodTypeOK, EodShapes, Table
<1>1. /\ task[p][s] = "read" /\ task' = [task EXCEPT ![p][s] = "measured"]
      /\ row' = [row EXCEPT ![p] = [row[p] EXCEPT ![s] = AtSpot(row[p][s].spot)]]
      /\ metric' = [metric EXCEPT ![d] = [metric[d] EXCEPT ![s] = row[p][s]]]
      /\ stage[p] \in {"compute", "left"}
  BY DEF UpsertMetric, Move, Place
<1>2. /\ UNCHANGED <<stage, kind, day, scope, clean, finished, wrote>>
      /\ UNCHANGED <<options, equity, spotUsed, rank, straddle>>
  BY DEF UpsertMetric, Move, Place, runArgs, histories
<1>3. /\ \A q \in Runs, t \in Symbols :
           /\ task'[q][t] = IF q = p /\ t = s THEN "measured" ELSE task[q][t]
           /\ row'[q][t] = IF q = p /\ t = s THEN AtSpot(row[p][s].spot) ELSE row[q][t]
      /\ \A e \in Days, t \in Symbols :
           metric'[e][t] = IF e = d /\ t = s THEN row[p][s] ELSE metric[e][t]
      /\ \A e \in Days : e # d => metric'[e] = metric[e]
  <2>1. \A q \in Runs, t \in Symbols :
          task'[q][t] = IF q = p /\ t = s THEN "measured" ELSE task[q][t]
    BY <1>0, <1>1
  <2>2. \A q \in Runs, t \in Symbols :
          row'[q][t] = IF q = p /\ t = s THEN AtSpot(row[p][s].spot) ELSE row[q][t]
    BY <1>0, <1>1, EntrySet
  <2>3. \A e \in Days, t \in Symbols :
          metric'[e][t] = IF e = d /\ t = s THEN row[p][s] ELSE metric[e][t]
    BY <1>0, <1>1, EntrySet
  <2>4. \A e \in Days : e # d => metric'[e] = metric[e]
    BY <1>0, <1>1
  <2>. QED BY <2>1, <2>2, <2>3, <2>4
<1>4. /\ s \in Fo[d] /\ (row[p][s].spot = d => <<d, s>> \in equity)
      /\ row'[p][s].spot = row[p][s].spot
  <2>1. row'[p][s] = AtSpot(row[p][s].spot)
    BY <1>3
  <2>2. row'[p][s].spot = row[p][s].spot
    BY <2>1 DEF AtSpot, NoRow
  <2>. QED BY <1>1, <2>2 DEF RowsInv, TaskOf, Timed
<1>5. \A e, t : TrueRow(e, t)' = TrueRow(e, t) /\ StraddleRight(e, t)' = StraddleRight(e, t)
  BY <1>2 DEF TrueRow, TrueIv, StraddleRight, TrueStraddle
<1>6. d \in finished => metric' = metric
  <2>. SUFFICES ASSUME d \in finished PROVE metric' = metric
    OBVIOUS
  <2>1. row[p][s] = TrueRow(d, s)
    BY <1>1 DEF FinishedInv, RowOf, Undisturbed, Timed
  <2>2. metric[d][s] = TrueRow(d, s)
    BY <1>4 DEF FinishedInv, FinishedOf
  <2>3. metric[d] = [t \in Symbols |-> metric[d][t]]
    BY <1>0
  <2>4. [metric[d] EXCEPT ![s] = row[p][s]] = metric[d]
    BY <2>1, <2>2, <2>3
  <2>5. metric' = [metric EXCEPT ![d] = metric[d]] /\ metric = [e \in Days |-> metric[e]]
    BY <1>0, <1>1, <2>4
  <2>. QED BY <2>5
<1>7. ASSUME NEW e \in finished, NEW x \in 1 .. e PROVE metric'[x] = metric[x]
  <2>1. CASE d \in finished
    BY <1>6, <2>1
  <2>2. CASE d \notin finished
    <3>1. 1 .. e - 1 \subseteq finished /\ e \in Nat
      BY <1>0, EodAssumption DEF FinishedInv, FinishedOf, Days
    <3>2. x \in finished
      BY <1>7, <3>1
    <3>. QED BY <1>0, <1>3, <2>2, <3>2
  <2>. QED BY <2>1, <2>2
<1>8. RowsInv'
  <2>1. ASSUME NEW q \in Runs, NEW t \in Symbols PROVE TaskOf(q, t)'
    <3>1. CASE q = p /\ t = s
      BY <1>1, <1>2, <1>4, <1>3, <3>1 DEF TaskOf
    <3>2. CASE ~ (q = p /\ t = s)
      BY <1>2, <1>3, <3>2 DEF RowsInv, TaskOf
    <3>. QED BY <3>1, <3>2
  <2>2. ASSUME NEW e \in Days, NEW t \in Symbols
        PROVE  /\ t \notin Fo[e] => metric'[e][t] = NoRow
               /\ metric'[e][t].spot = e => <<e, t>> \in equity
    <3>1. CASE e = d /\ t = s
      <4>1. metric'[e][t] = row[p][s]
        BY <1>3, <3>1
      <4>. HIDE DEF d
      <4>. QED BY <1>4, <3>1, <4>1
    <3>2. CASE ~ (e = d /\ t = s)
      <4>1. metric'[e][t] = metric[e][t]
        BY <1>3, <3>2
      <4>. QED BY <4>1 DEF RowsInv
    <3>. QED BY <3>1, <3>2
  <2>. QED BY <1>2, <2>1, <2>2 DEF RowsInv
<1>9. CleanInv'
  <2>. SUFFICES ASSUME NEW q \in clean PROVE CleanOf(q)'
    BY <1>2 DEF CleanInv
  <2>1. q \in Runs /\ CleanOf(q) /\ day[q] \in Days /\ \A t \in Fo[day[q]] : t \in Symbols
    BY <1>0 DEF CleanInv, EodTypeInv, EodTypeOK
  <2>2. ASSUME NEW t \in Fo[day[q]], stage[q] \in {"compute", "percentiles"},
               metric'[day[q]][t].spot = day[q]
        PROVE  /\ task'[q][t] \in {"measured", "no"} => metric'[day[q]][t] = TrueRow(day[q], t)
               /\ task'[q][t] = "measured" => row'[q][t].spot = day[q]
               /\ task'[q][t] = "no" => StraddleRight(day[q], t)
    <3>1. CASE q = p /\ t = s
      <4>1. stage[p] = "compute" /\ p \in clean
        BY <1>1, <2>2, <3>1
      <4>2. row[p][s].spot = d
        BY <1>3, <1>0, <2>2, <3>1
      <4>3. row[p][s] = TrueRow(d, s)
        BY <1>1, <4>1, <4>2 DEF FinishedInv, RowOf, Undisturbed
      <4>. QED BY <1>0, <1>3, <1>4, <3>1, <4>2, <4>3
    <3>2. CASE q = p /\ t # s
      BY <1>3, <2>1, <2>2, <3>2 DEF CleanOf, Scripted
    <3>3. CASE q # p
      <4>1. day[q] # d
        BY <1>1, <2>1, <2>2, <3>3 DEF CleanOf, Scripted, OnWay, OnDate
      <4>2. /\ metric'[day[q]][t] = metric[day[q]][t] /\ task'[q][t] = task[q][t]
            /\ row'[q][t] = row[q][t]
        BY <1>3, <2>1, <3>3, <4>1
      <4>. QED BY <2>1, <2>2, <4>2 DEF CleanOf, Scripted
    <3>. QED BY <3>1, <3>2, <3>3
  <2>. QED BY <1>2, <1>5, <2>1, <2>2 DEF CleanOf, Scripted
<1>10. FinishedInv'
  <2>1. ASSUME NEW e \in finished PROVE FinishedOf(e)'
    <3>1. FinishedOf(e) /\ e \in Days /\ e \in 1 .. e
      BY <1>0, EodAssumption DEF FinishedInv, Days
    <3>2. Ranked(e)' = Ranked(e) /\ metric'[e] = metric[e]
      BY <1>7, <3>1, RankedLocal
    <3>. QED BY <1>2, <1>5, <3>1, <3>2 DEF FinishedOf
  <2>2. ASSUME NEW q \in Runs, NEW t \in Symbols PROVE RowOf(q, t)'
    <3>1. CASE q = p /\ t = s
      BY <1>1, <1>2, <1>3, <1>4, <3>1 DEF FinishedInv, RowOf, Timed
    <3>2. CASE ~ (q = p /\ t = s)
      BY <1>2, <1>3, <1>5, <3>2 DEF FinishedInv, RowOf, Undisturbed
    <3>. QED BY <3>1, <3>2
  <2>. QED BY <1>2, <2>1, <2>2 DEF FinishedInv
<1>. QED BY <1>8, <1>9, <1>10

\* A clean run that ranks its date, every symbol priced there, finishes it.
LEMMA FinishedRanked ==
  ASSUME EodTypeInv, EodTypeInv', RowsInv, CleanInv, FinishedInv, NEW p \in Runs, Percentiles(p)
  PROVE  RowsInv' /\ CleanInv' /\ FinishedInv'
<1>. DEFINE d == day[p]
<1>0. /\ d \in Days /\ stage \in [Runs -> Stages] /\ rank = [e \in Days |-> [t \in Symbols |-> rank[e][t]]]
      /\ Fo \in [Days -> SUBSET Symbols] /\ clean \subseteq Runs /\ finished \subseteq Days
  BY EodAssumption DEF EodTypeInv, EodTypeOK, EodShapes, Table
<1>1. /\ stage[p] = "percentiles" /\ stage'[p] \in {"next", "aggregates"}
      /\ kind[p] \in OneDay => stage'[p] = "aggregates"
      /\ \A q \in Runs \ {p} : stage'[q] = stage[q]
  BY <1>0 DEF Percentiles, Go, OneDay
<1>2. /\ UNCHANGED <<kind, day, scope, clean, wrote, task, row>>
      /\ UNCHANGED <<options, equity, spotUsed, metric, straddle>>
  BY DEF Percentiles, runArgs, taskVars
<1>3. /\ rank'[d] = Ranked(d) /\ \A e \in Days : e # d => rank'[e] = rank[e]
  BY <1>0 DEF Percentiles
<1>4. /\ finished \subseteq finished' /\ finished' \subseteq finished \cup {d}
      /\ d \in finished' /\ d \notin finished =>
           p \in clean /\ \A s \in Fo[d] : metric[d][s].spot = d
  BY DEF Percentiles
<1>5. \A e, t : TrueRow(e, t)' = TrueRow(e, t) /\ StraddleRight(e, t)' = StraddleRight(e, t)
  BY <1>2 DEF TrueRow, TrueIv, StraddleRight, TrueStraddle
<1>6. \A e \in Days : Ranked(e)' = Ranked(e)
  BY <1>2, RankedLocal
<1>7. \A t \in Symbols : task[p][t] = "no"
  BY <1>1 DEF RowsInv, TaskOf
<1>8. RowsInv'
  <2>1. ASSUME NEW q \in Runs, NEW t \in Symbols PROVE TaskOf(q, t)'
    BY <1>1, <1>2, <1>7 DEF RowsInv, TaskOf
  <2>. QED BY <1>2, <2>1 DEF RowsInv
<1>9. CleanInv'
  <2>. SUFFICES ASSUME NEW q \in clean PROVE CleanOf(q)'
    BY <1>2 DEF CleanInv
  <2>1. q \in Runs /\ CleanOf(q)
    BY <1>0 DEF CleanInv
  <2>2. /\ stage'[q] \in OnWay => stage[q] = stage'[q]
        /\ stage'[q] \in {"compute", "percentiles"} => stage[q] = stage'[q]
        /\ stage'[q] \notin Scripted
        /\ \A r \in Runs : stage'[r] \in OnDate => stage[r] \in OnDate
    BY <1>1, <2>1 DEF CleanOf, Scripted, OnWay, OnDate
  <2>. QED BY <1>2, <1>4, <1>5, <2>1, <2>2 DEF CleanOf, Scripted
<1>10. ASSUME d \in finished', d \notin finished
       PROVE  /\ FinishedOf(d)'
              /\ \A q \in Runs, t \in Symbols : task[q][t] \in Timed => day[q] # d
  <2>1. p \in clean /\ CleanOf(p) /\ \A s \in Fo[d] : metric[d][s].spot = d
    BY <1>4, <1>10 DEF CleanInv
  <2>2. 1 .. d - 1 \subseteq finished'
    BY <1>1, <1>4, <2>1 DEF CleanOf, Scripted, OnWay
  <2>3. \A s \in Fo[d] : metric[d][s] = TrueRow(d, s) /\ StraddleRight(d, s)
    BY <1>0, <1>1, <1>7, <2>1 DEF CleanOf, Scripted
  <2>4. \A q \in Runs \ {p} : stage[q] \in OnDate => day[q] # d
    BY <1>1, <2>1 DEF CleanOf, Scripted, OnWay
  <2>5. \A q \in Runs, t \in Symbols : task[q][t] \in Timed => q # p /\ stage[q] \in OnDate
    BY <1>7 DEF RowsInv, TaskOf, OnDate, Timed
  <2>. QED BY <1>0, <1>2, <1>3, <1>5, <1>6, <2>2, <2>3, <2>4, <2>5 DEF FinishedOf
<1>11. FinishedInv'
  <2>1. ASSUME NEW e \in finished' PROVE FinishedOf(e)'
    <3>1. CASE e \in finished
      <4>1. FinishedOf(e) /\ e \in Days
        BY <1>0, <3>1 DEF FinishedInv
      <4>2. rank'[e] = Ranked(e)
        BY <1>3, <4>1 DEF FinishedOf
      <4>. QED BY <1>2, <1>4, <1>5, <1>6, <4>1, <4>2 DEF FinishedOf
    <3>2. CASE e \notin finished
      <4>1. e = d
        BY <1>4, <2>1, <3>2
      <4>2. FinishedOf(d)'
        BY <1>10, <2>1, <3>2, <4>1
      <4>3. d' = d
        BY <1>2
      <4>. HIDE DEF d
      <4>. QED BY <4>1, <4>2, <4>3
    <3>. QED BY <3>1, <3>2
  <2>2. ASSUME NEW q \in Runs, NEW t \in Symbols PROVE RowOf(q, t)'
    <3>. SUFFICES ASSUME task[q][t] \in Timed PROVE RowOf(q, t)'
      BY <1>2 DEF RowOf, Timed
    <3>1. RowOf(q, t) /\ q # p
      BY <1>7 DEF FinishedInv, Timed
    <3>2. day[q] \in finished' => day[q] \in finished
      BY <1>4, <1>10
    <3>3. Undisturbed(q)' => Undisturbed(q)
      BY <1>1, <1>2, <3>1, <3>2 DEF Undisturbed
    <3>. QED BY <1>2, <1>5, <3>1, <3>2, <3>3 DEF RowOf
  <2>. QED BY <2>1, <2>2 DEF FinishedInv
<1>. QED BY <1>8, <1>9, <1>11

LEMMA FinishedStep ==
  ASSUME EodTypeInv, EodTypeInv', RowsInv, CleanInv, FinishedInv, EodNext
  PROVE  RowsInv' /\ CleanInv' /\ FinishedInv'
<1>. PICK p \in Runs : \/ StartRun(p) \/ StartScript(p) \/ StartIndexBackfill(p)
                       \/ ResetStraddles(p) \/ RunStep(p) \/ AbortRun(p)
  BY DEF EodNext
<1>1. CASE StartRun(p) \/ StartScript(p) \/ StartIndexBackfill(p)
  BY <1>1, FinishedStart
<1>2. CASE AbortRun(p) \/ ResetStraddles(p)
  BY <1>2, FinishedScript, FinishedStraddles
<1>3. CASE RunStep(p)
  BY <1>3, FinishedLoad, FinishedSpot, FinishedDerive, FinishedRead, FinishedMetric,
     FinishedStraddles, FinishedRaise, FinishedRanked, FinishedScript DEF RunStep
<1>. QED BY <1>1, <1>2, <1>3

\* Whatever overlaps, is repeated or dies, a date that a run without rivals has computed
\* and ranked after all the days before it keeps exactly the metrics that follow from the
\* files and their percentiles: no run_for_date and no recomputation of analytics spoils
\* them.  Its straddles are those of a load until recompute_straddle_pnl is at them, and
\* then what that finds with its narrower selection, whatever the order of the two.
THEOREM FinishedExact == EodSpec => []FinishedDaysExact
<1>. DEFINE Inv == EodTypeInv /\ RowsInv /\ CleanInv /\ FinishedInv
<1>1. EodInit => Inv
  <2>. SUFFICES ASSUME EodInit PROVE RowsInv /\ CleanInv /\ FinishedInv
    BY EodTypeInit
  <2>1. RowsInv
    <3>1. \A d \in Days : d # 0
      BY EodAssumption DEF Days
    <3>. QED BY <3>1 DEF EodInit, RowsInv, TaskOf, NoRow, Timed
  <2>2. CleanInv /\ FinishedInv
    BY DEF EodInit, CleanInv, FinishedInv, RowOf, Timed
  <2>. QED BY <2>1, <2>2
<1>2. Inv /\ [EodNext]_eodVars => Inv'
  <2>. SUFFICES ASSUME Inv, [EodNext]_eodVars PROVE Inv'
    OBVIOUS
  <2>1. EodTypeInv'
    BY EodTypeStep
  <2>2. CASE EodNext
    BY <2>1, <2>2, FinishedStep
  <2>3. CASE UNCHANGED eodVars
    <3>1. /\ UNCHANGED <<options, equity, spotUsed, metric, rank, straddle>>
          /\ UNCHANGED <<kind, stage, day, scope, task, row, clean, finished, wrote>>
      BY <2>3 DEF eodVars, database, histories
    <3>2. \A d, s : TrueRow(d, s)' = TrueRow(d, s) /\ StraddleRight(d, s)' = StraddleRight(d, s)
      BY <3>1 DEF TrueRow, TrueIv, StraddleRight, TrueStraddle
    <3>3. \A d \in Days : Ranked(d)' = Ranked(d)
      BY <3>1, RankedLocal
    <3>4. RowsInv'
      BY <3>1 DEF RowsInv, TaskOf
    <3>5. CleanInv'
      BY <3>1, <3>2 DEF CleanInv, CleanOf, Scripted
    <3>6. FinishedInv'
      BY <3>1, <3>2, <3>3 DEF FinishedInv, FinishedOf, RowOf, Undisturbed, EodTypeInv, EodTypeOK
    <3>. QED BY <2>1, <3>4, <3>5, <3>6
  <2>. QED BY <2>2, <2>3
<1>3. Inv => FinishedDaysExact
  BY DEF FinishedInv, FinishedOf, StraddleRight, FinishedDaysExact
<1>. QED BY <1>1, <1>2, <1>3, PTL DEF EodSpec
=============================================================================
