---------------------------- MODULE ResultEvents ----------------------------
(***************************************************************************)
(* The RESULT rows of one symbol in events, refreshed by daily_update.py   *)
(* and by update_result_events.py: NSE and Yahoo are asked, the future     *)
(* rows of Yahoo are deleted, and what both answered is upserted, Yahoo's  *)
(* rows last.  The daily update goes on when a source or the deletion      *)
(* raises; the other script ends.                                          *)
(***************************************************************************)
EXTENDS Naturals, FiniteSets

CONSTANTS Refreshers,    \* the processes that refresh the events
          Tolerant,      \* those that are daily updates
          LastDate,      \* dates are numbered
          MaxRefreshes   \* bound: how many refreshes are started

ASSUME EventsAssumption ==
  Tolerant \subseteq Refreshers /\ LastDate \in Nat \ {0} /\ MaxRefreshes \in Nat

VARIABLES today, source,           \* [Dates -> {"none", "nse", "yahoo"}]
          step, nse, yahoo,        \* of each refresher: its place and what it fetched
          min,                     \* of each refresher: the date it deleted from, 0 is none
          refreshes,
          filings,                 \* what NSE has answered so far: it retracts nothing
          settled, alone, filed    \* history: see UpsertEvents

eventVars == <<today, source, step, nse, yahoo, min, refreshes, filings, settled,
               alone, filed>>

Dates == 1 .. LastDate
NotSettled == [from |-> 0, planned |-> {}]

EventsInit ==
  /\ today = 1 /\ source = [d \in Dates |-> "none"]
  /\ step = [p \in Refreshers |-> "idle"]
  /\ nse = [p \in Refreshers |-> {}] /\ yahoo = [p \in Refreshers |-> {}]
  /\ min = [p \in Refreshers |-> 0]
  /\ refreshes = 0 /\ settled = NotSettled /\ alone = {} /\ filings = {} /\ filed = {}
-----------------------------------------------------------------------------
Midnight ==
  /\ today < LastDate
  /\ today' = today + 1
  /\ UNCHANGED <<source, step, nse, yahoo, min, refreshes, settled, alone, filings, filed>>

\* A refresh starts; it is alone while no other one runs.
StartRefresh(p) ==
  /\ step[p] = "idle" /\ refreshes < MaxRefreshes
  /\ step' = [step EXCEPT ![p] = "nse"]
  /\ refreshes' = refreshes + 1
  /\ alone' = IF \A q \in Refreshers : step[q] = "idle" THEN {p} ELSE {}
  /\ UNCHANGED <<today, source, nse, yahoo, min, settled, filings, filed>>

\* NSE answers with the dates it has filed, past or to come.
FetchNse(p) ==
  /\ step[p] = "nse"
  /\ step' = [step EXCEPT ![p] = "yahoo"]
  /\ \E more \in SUBSET Dates : filings' = filings \cup more
  /\ nse' = [nse EXCEPT ![p] = filings']
  /\ UNCHANGED <<today, source, yahoo, min, refreshes, settled, alone, filed>>

\* NSE raises in a daily update, or is skipped with --skip-nse.
WithoutNse(p) ==
  /\ step[p] = "nse"
  /\ step' = [step EXCEPT ![p] = "yahoo"]
  /\ UNCHANGED <<today, source, nse, yahoo, min, refreshes, filings, settled, alone, filed>>

\* Yahoo answers with dates from today on.
FetchYahoo(p) ==
  /\ step[p] = "yahoo"
  /\ step' = [step EXCEPT ![p] = "delete"]
  /\ \E planned \in SUBSET (today .. LastDate) : yahoo' = [yahoo EXCEPT ![p] = planned]
  /\ UNCHANGED <<today, source, nse, min, refreshes, settled, alone, filings, filed>>

\* Mutant of DeleteFuture: an event of today is not deleted.
DeleteAfterToday(p) ==
  /\ step[p] = "delete"
  /\ step' = [step EXCEPT ![p] = "upsert"]
  /\ source' = [d \in Dates |-> IF source[d] = "yahoo" /\ d > today THEN "none" ELSE source[d]]
  /\ min' = [min EXCEPT ![p] = today]
  /\ settled' = NotSettled
  /\ UNCHANGED <<today, nse, yahoo, refreshes, alone, filings, filed>>

\* delete_future_events_by_source(yahoo, today).
DeleteFuture(p) ==
  /\ step[p] = "delete"
  /\ step' = [step EXCEPT ![p] = "upsert"]
  /\ source' = [d \in Dates |-> IF source[d] = "yahoo" /\ d >= today THEN "none" ELSE source[d]]
  /\ min' = [min EXCEPT ![p] = today]
  /\ settled' = NotSettled
  /\ UNCHANGED <<today, nse, yahoo, refreshes, alone, filings, filed>>

\* The fetch at Yahoo, or the deletion, raises in a daily update: it upserts what
\* it holds, which is Yahoo's answer when only the deletion failed.  The script can
\* leave Yahoo out with --skip-yahoo.
YahooFails(p) ==
  /\ step[p] = "yahoo" \/ (p \in Tolerant /\ step[p] = "delete")
  /\ step' = [step EXCEPT ![p] = "upsert"]
  /\ UNCHANGED <<today, source, nse, yahoo, min, refreshes, settled, alone, filings, filed>>

\* upsert_events([*nse, *yahoo]) in one transaction: a row of both becomes Yahoo's.
\* The refresh settles the future when it was alone and deleted what was there.
UpsertEvents(p) ==
  /\ step[p] = "upsert"
  /\ step' = [step EXCEPT ![p] = "idle"]
  /\ source' = [d \in Dates |-> IF d \in yahoo[p] THEN "yahoo"
                                ELSE IF d \in nse[p] THEN "nse" ELSE source[d]]
  /\ settled' = IF p \in alone /\ min[p] # 0
                THEN [from |-> min[p], planned |-> yahoo[p]] ELSE NotSettled
  /\ nse' = [nse EXCEPT ![p] = {}] /\ yahoo' = [yahoo EXCEPT ![p] = {}]
  /\ filed' = filed \cup nse[p]
  /\ min' = [min EXCEPT ![p] = 0]
  /\ UNCHANGED <<today, refreshes, alone, filings>>

\* A source raises in the script, a statement raises, or the process is killed.
AbortRefresh(p) ==
  /\ step[p] # "idle"
  /\ step' = [step EXCEPT ![p] = "idle"]
  /\ nse' = [nse EXCEPT ![p] = {}] /\ yahoo' = [yahoo EXCEPT ![p] = {}]
  /\ min' = [min EXCEPT ![p] = 0]
  /\ UNCHANGED <<today, source, refreshes, settled, alone, filings, filed>>

EventsNext ==
  \/ Midnight
  \/ \E p \in Refreshers : StartRefresh(p) \/ FetchNse(p) \/ WithoutNse(p) \/ FetchYahoo(p)
                           \/ DeleteFuture(p) \/ YahooFails(p) \/ UpsertEvents(p) \/ AbortRefresh(p)

EventsSpec == EventsInit /\ [][EventsNext]_eventVars
-----------------------------------------------------------------------------
\* Type invariant.
EventsTypeOK ==
  /\ today \in Dates /\ source \in [Dates -> {"none", "nse", "yahoo"}]
  /\ step \in [Refreshers -> {"idle", "nse", "yahoo", "delete", "upsert"}]
  /\ nse \in [Refreshers -> SUBSET Dates] /\ yahoo \in [Refreshers -> SUBSET Dates]
  /\ min \in [Refreshers -> 0 .. LastDate] /\ alone \subseteq Refreshers

\* "Future Yahoo rows are replaced on each refresh, so stale planned dates are
\* removed": after a refresh that ran alone to its end, the planned dates are those
\* Yahoo answered, whatever refreshes overlapped, failed or died before it.
PlannedReplaced ==
  settled.from > 0 =>
    {d \in settled.from .. LastDate : source[d] = "yahoo"} =
    {d \in settled.planned : d >= settled.from}

\* docs/architecture/data-sources.md:49: "NSE remains the source of truth for
\* completed/filed board-meeting result dates": a date stored from NSE is not lost.
FiledDatesKept ==
  (\A p \in Refreshers : step[p] = "idle") => \A d \in filed : source[d] # "none"
=============================================================================
