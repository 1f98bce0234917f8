------------------------------ MODULE LiveWorker ------------------------------
(***************************************************************************)
(* The loop of the live worker process, live_worker_loop: the morning hook *)
(* that exchanges KITE_REQUEST_TOKEN, the look at the market window and    *)
(* the trading calendar, one cycle of refreshes, a pause.  Every refresh   *)
(* looks the Kite token up (KiteToken) and falls back to Yahoo when that,  *)
(* or the provider, raises.  What a refresh stores is left to LiveStore.   *)
(***************************************************************************)
EXTENDS KiteToken

CONSTANTS Worker,      \* the reader that runs the loop
          HookAt,      \* KITE_TOKEN_REFRESH_TIME_IST
          Market,      \* the times of day of the market window
          Rounds,      \* the number of batches of a cycle
          LogFails,    \* whether log_error may raise: the database may be down
          MaxKills     \* bound: how often the process is killed

ASSUME WorkerAssumption ==
  /\ Worker \in Readers /\ Rounds \in Nat
  /\ LogFails \in BOOLEAN /\ MaxKills \in Nat
  /\ HookAt \in Nat /\ Market \subseteq 0 .. DayLength - 1

VARIABLES loop,        \* where the loop is
          hookDate,    \* _KITE_TOKEN_REFRESH_LAST_DATE, 0 is None
          left,        \* the batches the cycle has still to refresh
          kills        \* how often the process was killed

loopVars == <<loop, hookDate, left, kills>>
workerVars == <<tokenVars, loopVars>>

Places == {"hook", "hooking", "poll", "calendar", "cycle", "refresh", "yahoo",
           "except", "sleep", "dead"}

Date == clock \div DayLength + 1
TimeOfDay == clock % DayLength
MayLogOr(raised, logged) == {logged} \cup (IF LogFails THEN {raised} ELSE {})

WorkerInit == TokenInit /\ loop = "hook" /\ hookDate = 0 /\ left = 0 /\ kills = 0
-----------------------------------------------------------------------------
\* Before HookAt, or after the attempt of the day, the hook does nothing.
SkipHook ==
  /\ loop = "hook"
  /\ TimeOfDay < HookAt \/ hookDate = Date
  /\ loop' = "poll"
  /\ UNCHANGED <<hookDate, left, kills, tokenVars>>

HookDue == loop = "hook" /\ TimeOfDay >= HookAt /\ hookDate # Date

\* Without a request token the hook can only log where to log in.
HookWithoutToken ==
  /\ HookDue /\ 0 \notin issued
  /\ hookDate' = Date
  /\ loop' \in MayLogOr("except", "poll")
  /\ UNCHANGED <<left, kills, tokenVars>>

\* Mutant of HookExchange: the time of the attempt is kept for its date.
HookExchangeTime ==
  /\ HookDue /\ 0 \in issued
  /\ hookDate' = clock
  /\ loop' = "hooking"
  /\ Begin(Worker, "hook", 0, "exchange")
  /\ UNCHANGED <<left, kills, clock, redis, table, issued, spent, seen>>

\* The attempt counts for the day before it is made.
HookExchange ==
  /\ HookDue /\ 0 \in issued
  /\ hookDate' = Date
  /\ loop' = "hooking"
  /\ Begin(Worker, "hook", 0, "exchange")
  /\ UNCHANGED <<left, kills, clock, redis, table, issued, spent, seen>>

\* The exchange has returned, or its exception was logged.
HookReturns ==
  /\ loop = "hooking"
  /\ \/ pc[Worker] = "done" /\ loop' = "poll"
     \/ pc[Worker] \in {"raised", "failed"} /\ loop' \in MayLogOr("except", "poll")
  /\ Return(Worker)
  /\ UNCHANGED <<hookDate, left, kills>>

\* in_market_window
Poll ==
  /\ loop = "poll"
  /\ loop' = IF TimeOfDay \in Market THEN "calendar" ELSE "sleep"
  /\ UNCHANGED <<hookDate, left, kills, tokenVars>>

\* The trading calendar: a trading day or an unknown one, a holiday, no answer.
AskCalendar ==
  /\ loop = "calendar"
  /\ loop' \in {"cycle", "sleep", "except"}
  /\ left' = Rounds
  /\ UNCHANGED <<hookDate, kills, tokenVars>>

\* The cycle begins the refresh of its next batch ...
StartRefresh ==
  /\ loop = "cycle" /\ left > 0
  /\ left' = left - 1
  /\ loop' = "refresh"
  /\ StartLookup(Worker)
  /\ UNCHANGED <<hookDate, kills>>

\* ... until it has done all of them and publishes live:symbols, which may raise.
EndCycle ==
  /\ loop = "cycle" /\ left = 0
  /\ loop' \in {"sleep", "except"}
  /\ UNCHANGED <<hookDate, left, kills, tokenVars>>

\* The token is there and the batch is refreshed from Kite; if that raises, or
\* there is no token, the failure is logged and Yahoo is tried.
RefreshFromKite ==
  /\ loop = "refresh"
  /\ \/ pc[Worker] = "done" /\ loop' = "cycle"
     \/ pc[Worker] \in {"done", "raised", "failed"} /\ loop' \in MayLogOr("except", "yahoo")
  /\ Return(Worker)
  /\ UNCHANGED <<hookDate, left, kills>>

\* Mutant of RefreshFromYahoo: Kite is tried again until it answers.
RefreshFromKiteAgain ==
  /\ loop = "yahoo"
  /\ loop' = "refresh"
  /\ StartLookup(Worker)
  /\ UNCHANGED <<hookDate, left, kills>>

\* The batch is refreshed from Yahoo, or the exception ends the cycle.
RefreshFromYahoo ==
  /\ loop = "yahoo"
  /\ loop' \in {"cycle", "except"}
  /\ UNCHANGED <<hookDate, left, kills, tokenVars>>

\* The handler of the loop logs the exception; when that raises, nothing is left
\* to catch it and the process ends.
LogAndGoOn ==
  /\ loop = "except"
  /\ loop' \in MayLogOr("dead", "sleep")
  /\ UNCHANGED <<hookDate, left, kills, tokenVars>>

\* Mutant of WakeUp: the pause leads back to the market check.
WakeUpToPoll ==
  /\ loop = "sleep"
  /\ loop' = "poll"
  /\ UNCHANGED <<hookDate, left, kills, tokenVars>>

WakeUp ==
  /\ loop = "sleep"
  /\ loop' = "hook"
  /\ UNCHANGED <<hookDate, left, kills, tokenVars>>

\* The process is killed, whatever it is waiting for.
Die ==
  /\ loop # "dead" /\ kills < MaxKills
  /\ kills' = kills + 1
  /\ loop' = "dead"
  /\ pc' = [pc EXCEPT ![Worker] = "idle"]
  /\ work' = [work EXCEPT ![Worker] = NoWork]
  /\ held' = [held EXCEPT ![Worker] = 0]
  /\ floor' = [floor EXCEPT ![Worker] = 0]
  /\ UNCHANGED <<hookDate, left, clock, redis, table, issued, spent, seen>>

\* Docker starts the container again: the date of the last attempt is forgotten.
Restart ==
  /\ loop = "dead"
  /\ loop' = "hook"
  /\ hookDate' = 0
  /\ UNCHANGED <<left, kills, tokenVars>>

LoopStep ==
  \/ SkipHook \/ HookWithoutToken \/ HookExchange \/ HookReturns
  \/ Poll \/ AskCalendar \/ StartRefresh \/ EndCycle
  \/ RefreshFromKite \/ RefreshFromYahoo \/ LogAndGoOn \/ WakeUp

\* The steps of the other processes, the answers to the worker's calls, the clock.
OtherStep ==
  /\ \/ Tick
     \/ \E a \in Readers \ {Worker} : StartLookup(a) \/ Return(a)
     \/ \E a \in Operators : StartSession(a) \/ Return(a)
     \/ \E a \in Actors : Call(a)
  /\ UNCHANGED loopVars

WorkerNext == LoopStep \/ Die \/ Restart \/ OtherStep

\* The event loop of the worker runs on; its calls are answered or time out; the
\* container is started again (restart: unless-stopped).
WorkerFairness ==
  /\ WF_workerVars(LoopStep) /\ WF_workerVars(Restart)
  /\ WF_workerVars(Call(Worker) /\ UNCHANGED loopVars)

WorkerSpec == WorkerInit /\ [][WorkerNext]_workerVars
FairWorkerSpec == WorkerSpec /\ WorkerFairness
-----------------------------------------------------------------------------
\* Type invariant of the loop.
WorkerTypeOK ==
  /\ loop \in Places /\ left \in 0 .. Rounds /\ kills \in 0 .. MaxKills
  /\ hookDate \in 0 .. MaxClock \div DayLength + 1

\* The loop comes round for ever, whatever the token lookup, Kite, Yahoo, the
\* calendar query, Redis and the error log do.
WorkerComesRound == []<>(loop = "hook")

\* ... and on each day the hook is tried once it is due, on holidays too, by a
\* restarted worker as well, unless the worker is held up until the day is over.
HookAttempted ==
  \A d \in 1 .. MaxClock \div DayLength + 1 :
    (Date = d /\ TimeOfDay >= HookAt) ~> (hookDate = d \/ Date # d)

\* Comment at app/services/live.py:793: "worker must keep running".
WorkerKeepsRunning == loop # "dead"
=============================================================================
