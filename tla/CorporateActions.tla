-------------------------- MODULE CorporateActions --------------------------
(***************************************************************************)
(* The corporate actions of one symbol: NSE's declarations are upserted    *)
(* over the rows already there, pending factors are derived from the close *)
(* before the ex-date, and the metrics of a date say whether its price     *)
(* window is adjusted or unreliable.  A load of a date (run_for_date) and  *)
(* sync_corporate_actions.py do this, side by side with an operator who    *)
(* verifies or ignores actions by hand.                                    *)
(***************************************************************************)
EXTENDS Naturals, FiniteSets, FiniteSetsExt

CONSTANTS
  Loads, Syncs,        \* processes: loads of a date; runs of the sync script
  Actions,
  ExDate,              \* [Actions -> Nat \ {0}], dates are numbered
  Declared,            \* the actions whose text gives the factor: bonus, split
  Derivable,           \* those whose text gives cash or rights terms
  LastTradeDate,
  Back, Ahead,         \* 180 and 45 days: what a load synchronises
  Window, Span,        \* 31 bars, within 85 days: what the 30-day volatility looks at
  MaxLoads, MaxEdits   \* bounds: processes started, edits by hand

ASSUME ActionsAssumption ==
  /\ Loads \cap Syncs = {} /\ IsFiniteSet(Actions)
  /\ ExDate \in [Actions -> Nat \ {0}]
  /\ Declared \subseteq Actions /\ Derivable \subseteq Actions \ Declared
  /\ LastTradeDate \in Nat \ {0} /\ Back \in Nat /\ Ahead \in Nat
  /\ Span \in Nat /\ Span <= Back
  /\ Window \in Nat \ {0} /\ MaxLoads \in Nat /\ MaxEdits \in Nat

VARIABLES
  bars,                \* the dates of equity_historical
  published,           \* the actions NSE has declared so far
  table,               \* [Actions -> [status, factor]]
  rvStatus,            \* [dates -> rv_data_status]
  at, date, got,       \* of each process: its place, its date, what NSE answered
  updates,             \* of each process: {<<action, factor>>} not yet written
  loads, edits,
  undisturbed          \* history: the processes since whose start no other one wrote

actionVars == <<bars, published, table, rvStatus, at, date, got, updates, loads, edits,
                undisturbed>>

TradeDates == 1 .. LastTradeDate
\* The factor of a row is named by where it comes from: the date of the close it
\* was derived from, the declared terms, or an operator; 0 is NULL.
Terms == LastTradeDate + 1
Manual == LastTradeDate + 2
Absent == [status |-> "absent", factor |-> 0]

ActionsInit ==
  /\ bars = {} /\ published = {}
  /\ table = [a \in Actions |-> Absent]
  /\ rvStatus = [d \in TradeDates |-> "none"]
  /\ at = [p \in Loads \cup Syncs |-> "idle"] /\ date = [p \in Loads \cup Syncs |-> 1]
  /\ got = [p \in Loads \cup Syncs |-> {}] /\ updates = [p \in Loads \cup Syncs |-> {}]
  /\ loads = 0 /\ edits = 0 /\ undisturbed = {}

Step(p, from, to) == at[p] = from /\ at' = [at EXCEPT ![p] = to]
Writes(p) == undisturbed' = undisturbed \cap {p}
-----------------------------------------------------------------------------
\* parse_action_terms: a bonus or a split is verified by its own text.
ParseTerms(a) ==
  IF a \in Declared THEN [status |-> "VERIFIED", factor |-> Terms]
  ELSE [status |-> "PENDING_FACTOR", factor |-> 0]

\* What of NSE's answer falls into the dates asked for.
InRange(first, last) == {a \in published : ExDate[a] >= first /\ ExDate[a] <= last}
Earliest(d) == IF d > Back THEN d - Back ELSE 1

\* A load asks NSE around its date; a daily update goes on without an answer.
StartLoad(p) ==
  /\ loads < MaxLoads
  /\ Step(p, "idle", "bars")
  /\ \E d \in TradeDates, more \in SUBSET Actions :
       /\ date' = [date EXCEPT ![p] = d]
       /\ published' = published \cup more
       /\ \/ /\ got' = [got EXCEPT ![p] = InRange(Earliest(d), d + Ahead)']
             /\ undisturbed' = undisturbed \cup {p}
          \/ /\ got' = [got EXCEPT ![p] = {}]
             /\ undisturbed' = undisturbed \ {p}
  /\ loads' = loads + 1
  /\ UNCHANGED <<bars, table, rvStatus, updates, edits>>

UpsertBars(p) ==
  /\ Step(p, "bars", "upsert")
  /\ bars' = bars \cup {date[p]}
  /\ Writes(p)
  /\ UNCHANGED <<published, table, rvStatus, date, got, updates, loads, edits>>

\* The script, like the backfill of metrics before it recomputes them, asks for the
\* dates up to its --end, which may be to come.
StartSync(p) ==
  /\ loads < MaxLoads
  /\ Step(p, "idle", "upsert")
  /\ \E d \in TradeDates : date' = [date EXCEPT ![p] = d]
  /\ got' = [got EXCEPT ![p] = InRange(1, date'[p])]
  /\ loads' = loads + 1
  /\ UNCHANGED <<bars, published, table, rvStatus, updates, edits, undisturbed>>

\* upsert_corporate_actions: a row set by hand keeps its factor and its status,
\* any other starts again from what the text says.
UpsertActions(p) ==
  /\ Step(p, "upsert", "select")
  /\ table' = [a \in Actions |->
                 IF a \in got[p] /\ table[a].factor # Manual THEN ParseTerms(a) ELSE table[a]]
  /\ got' = [got EXCEPT ![p] = {}]
  /\ Writes(p)
  /\ UNCHANGED <<bars, published, rvStatus, date, updates, loads, edits>>

Peers(a) == {b \in Actions : ExDate[b] = ExDate[a] /\ table[b].status \notin {"absent", "IGNORED"}}

\* Mutant of ClosesBefore: the close of the ex-date is taken for one before it.
ClosesThrough(a) == {d \in bars : d <= ExDate[a]}
ClosesBefore(a) == {d \in bars : d < ExDate[a]}

\* Mutant of DerivedFactor: the close is looked up on the calendar day before.
DerivedFromDayBefore(a) ==
  IF a \in Derivable /\ Cardinality(Peers(a)) <= 1 /\ ClosesBefore(a) # {}
  THEN ExDate[a] - 1 ELSE 0

\* derive_price_multiplier: cash and rights terms give a factor when the action is
\* alone on its ex-date and a close before it is known.
DerivedFactor(a) ==
  IF a \in Derivable /\ Cardinality(Peers(a)) <= 1 /\ ClosesBefore(a) # {}
  THEN Max(ClosesBefore(a)) ELSE 0

\* resolve_corporate_action_factors reads the pending actions up to its date ...
SelectPending(p) ==
  /\ Step(p, "select", "update")
  /\ LET first == IF p \in Loads THEN Earliest(date[p]) ELSE 1
         pending == {a \in Actions : /\ table[a].status = "PENDING_FACTOR"
                                     /\ ExDate[a] >= first /\ ExDate[a] <= date[p]}
     IN updates' = [updates EXCEPT ![p] =
                      {<<a, DerivedFactor(a)>> : a \in {b \in pending : DerivedFactor(b) # 0}}]
  /\ UNCHANGED <<bars, published, table, rvStatus, date, got, loads, edits, undisturbed>>

Verified(p, a) == [status |-> "VERIFIED", factor |-> (CHOOSE u \in updates[p] : u[1] = a)[2]]

\* Mutant of UpdatePending: the status is not asked for again.
UpdateSelected(p) ==
  /\ Step(p, "update", IF p \in Loads THEN "compute" ELSE "idle")
  /\ table' = [a \in Actions |->
                 IF \E u \in updates[p] : u[1] = a THEN Verified(p, a) ELSE table[a]]
  /\ updates' = [updates EXCEPT ![p] = {}]
  /\ Writes(p)
  /\ UNCHANGED <<bars, published, rvStatus, date, got, loads, edits>>

\* ... and verifies those that are still pending.
UpdatePending(p) ==
  /\ Step(p, "update", IF p \in Loads THEN "compute" ELSE "idle")
  /\ table' = [a \in Actions |->
                 IF table[a].status = "PENDING_FACTOR" /\ \E u \in updates[p] : u[1] = a
                 THEN Verified(p, a) ELSE table[a]]
  /\ updates' = [updates EXCEPT ![p] = {}]
  /\ Writes(p)
  /\ UNCHANGED <<bars, published, rvStatus, date, got, loads, edits>>

\* corporate_actions_window: the actions after the first bar of the window.
WindowBars(d) ==
  LET known == {e \in bars : e <= d}
  IN {e \in known : Cardinality({f \in known : f > e}) < Window}
WindowActions(d) ==
  {a \in Actions : /\ table[a].status \notin {"absent", "IGNORED"}
                   /\ ExDate[a] > Min(WindowBars(d)) /\ ExDate[a] <= d}

\* The metrics of the date: one pending factor makes the window unreliable.  The
\* prices are taken to show no other gap, see PriceAdjustment.
ComputeStatus(p) ==
  /\ Step(p, "compute", "idle")
  /\ rvStatus' = [rvStatus EXCEPT ![date[p]] =
       IF Cardinality(WindowBars(date[p])) < Window THEN "INSUFFICIENT"
       ELSE IF date[p] - Min(WindowBars(date[p])) > Span THEN "SPARSE"
       ELSE IF \E a \in WindowActions(date[p]) : table[a].status # "VERIFIED" THEN "UNRELIABLE"
       ELSE IF WindowActions(date[p]) # {} THEN "ADJUSTED" ELSE "CLEAN"]
  /\ UNCHANGED <<bars, published, table, date, got, updates, loads, edits, undisturbed>>

\* A statement raises or the process is killed.
AbortLoad(p) ==
  /\ at[p] # "idle"
  /\ at' = [at EXCEPT ![p] = "idle"]
  /\ got' = [got EXCEPT ![p] = {}] /\ updates' = [updates EXCEPT ![p] = {}]
  /\ UNCHANGED <<bars, published, table, rvStatus, date, loads, edits, undisturbed>>

\* An operator verifies an action with factor_source MANUAL, or only ignores it.
EditByHand(a) ==
  /\ edits < MaxEdits /\ table[a].status # "absent" /\ table[a].factor # Manual
  /\ table' \in {[table EXCEPT ![a] = [status |-> "VERIFIED", factor |-> Manual]],
                 [table EXCEPT ![a].status = "IGNORED"]}
  /\ edits' = edits + 1 /\ undisturbed' = {}
  /\ UNCHANGED <<bars, published, rvStatus, at, date, got, updates, loads>>

ActionsNext ==
  \/ \E p \in Loads : StartLoad(p) \/ UpsertBars(p) \/ ComputeStatus(p)
  \/ \E p \in Syncs : StartSync(p)
  \/ \E p \in Loads \cup Syncs :
       UpsertActions(p) \/ SelectPending(p) \/ UpdatePending(p) \/ AbortLoad(p)
  \/ \E a \in Actions : EditByHand(a)

ActionsSpec == ActionsInit /\ [][ActionsNext]_actionVars
-----------------------------------------------------------------------------
\* Type invariant.
ActionsTypeOK ==
  /\ bars \subseteq TradeDates /\ published \subseteq Actions
  /\ table \in [Actions -> [status : {"absent", "PENDING_FACTOR", "VERIFIED", "IGNORED"},
                            factor : 0 .. Manual]]
  /\ \A p \in DOMAIN updates : \A u \in updates[p] : u[1] \in Actions /\ u[2] \in bars

\* "future NSE syncs preserve it": a factor entered by hand is never replaced, not
\* even by a resolution that had read the action as pending before the edit.
ManualFactorKept ==
  [][\A a \in Actions : table[a].factor = Manual => table'[a] = table[a]]_actionVars

\* A load that NSE answered and that nothing disturbed computes its date with every
\* factor that can be known, each from the last close before its ex-date, whatever
\* holes in the bars, loads of other dates, syncs ahead of time, hand edits or
\* deaths came before; only actions nobody can derive make the window unreliable.
LoadUsesRightFactors ==
  [][\A p \in Loads \cap undisturbed : ComputeStatus(p) =>
       LET inWindow == {a \in WindowActions(date[p]) : table[a].factor # Manual}
           unknown == {a \in inWindow \ Declared : a \notin Derivable \/ Cardinality(Peers(a)) > 1}
       IN rvStatus'[date[p]] \notin {"INSUFFICIENT", "SPARSE"} =>
          /\ rvStatus'[date[p]] = "UNRELIABLE" <=> unknown # {}
          /\ \A a \in inWindow \ (unknown \cup Declared) :
               table[a].factor = Max({d \in bars : d < ExDate[a]})]_actionVars
=============================================================================
