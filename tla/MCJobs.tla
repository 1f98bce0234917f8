------------------------------- MODULE MCJobs -------------------------------
(***************************************************************************)
(* The batch jobs on small instances, side by side: they share no          *)
(* variable, so a behaviour runs one of them and leaves the others where   *)
(* they start.  The end-of-day jobs are run twice: a load and then two     *)
(* that may overlap, and any two jobs, scripts included.                   *)
(***************************************************************************)
EXTENDS EodPipeline, ResultEvents, CorporateActions, MetricBackfill

CONSTANT u   \* the run of the daily update
VARIABLE job
jobVars == <<eodVars, eventVars, actionVars, backfillVars, job>>

JobsInit ==
  /\ job \in {"loads", "scripts", "events", "actions", "backfill"}
  /\ EodInit /\ EventsInit /\ ActionsInit /\ BackfillInit

\* Bounds of the end-of-day jobs.  Of three loads the first has ended when the second
\* starts.  Only a daily update and a recomputation of straddles are given one symbol.
\* Of two jobs that overlap the daily update starts first.  An initialization is given
\* both days or none, and beside it the update loads the last.
Bounds ==
  /\ started = 1 /\ started' = 2 =>
       (\A p \in Runs : stage[p] = "idle") \/ (job = "scripts" /\ stage[u] # "idle")
  /\ job = "scripts" => started' <= 2
  /\ \A p \in Runs :
       /\ job = "loads" => kind'[p] \in OneDay
       /\ scope'[p] = {"aa"} =>
            kind'[p] = IF job = "loads" THEN "update" ELSE "straddle"
       /\ \/ span'[p] = {}
          \/ span'[p] = Days /\ (stage[u] = "idle" \/ day[u] = LastDay)

JobsNext ==
  /\ UNCHANGED job
  /\ \/ /\ job \in {"loads", "scripts"} /\ EodNext /\ Bounds
        /\ UNCHANGED <<eventVars, actionVars, backfillVars>>
     \/ /\ job = "events" /\ EventsNext
        /\ UNCHANGED <<eodVars, actionVars, backfillVars>>
     \/ /\ job = "actions" /\ ActionsNext
        /\ UNCHANGED <<eodVars, eventVars, backfillVars>>
     \/ /\ job = "backfill" /\ BackfillNext
        /\ UNCHANGED <<eodVars, eventVars, actionVars>>

JobsSpec == JobsInit /\ [][JobsNext]_jobVars

\* The types of the four.
JobsTypeOK == EodTypeOK /\ EventsTypeOK /\ ActionsTypeOK /\ BackfillTypeOK

\* Two days: the index has options on both, "aa" on the first only, where its last
\* expiry is that day, and a cash row on both.  IVs fall from day to day; the index has
\* both legs at the spot of day 1, which is stale on day 2.
FoFiles == <<{"nifty", "aa"}, {"nifty"}>>
CmFiles == <<{"aa"}, {"aa"}>>
Smiles == [d \in Days |-> [s \in Symbols |-> [spots \in Days \X Days |->
             CASE s = "aa" -> 0 [] spots = <<d, d>> -> 3 - d [] OTHER -> 3]]]
Skews == [d \in Days |-> [s \in Symbols |-> IF s = "nifty" THEN 1 ELSE 0]]
LegsAt == [d \in Days |-> [s \in Symbols |-> {1}]]
Expiring == <<{"nifty"}, {"nifty"}>>
SymbolScopes == {Symbols, {"aa"}}

KindsOf == [p \in Runs |-> IF p = u THEN {"update"} ELSE JobKinds \ {"update"}]

\* A bonus on day 2, a dividend on day 3.
ExDates == [a \in Actions |-> IF a = "bonus" THEN 2 ELSE 3]

\* The middle row stays below its neighbours, the first one rises.
StoredIv == [s \in BackSymbols |-> <<2, 1, 3>>]
RecomputedIv == [s \in BackSymbols |-> <<3, 1, 3>>]
=============================================================================
