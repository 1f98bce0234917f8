--------------------------- MODULE LiveWorkerProofs ---------------------------
(***************************************************************************)
(* Proofs about the loop of the live worker, for any number of other       *)
(* readers and operators, batches, kills, any day and hour of the hook,    *)
(* and whether or not the log may raise: the loop knows what it waits for, *)
(* and the guarantees of KiteToken hold beside it and its deaths.          *)
(***************************************************************************)
EXTENDS LiveWorker, KiteTokenProofs

LEMMA WorkerActs == Worker \in Readers /\ Worker \in Actors /\ Rounds \in Nat /\ MaxKills \in Nat
BY WorkerAssumption DEF Actors

-----------------------------------------------------------------------------
(* The token beside the loop *)

\* The loop adds two steps to those of KiteToken: the exchange of the hook, and the
\* death of the process in the middle of a call.
LEMMA TokenSteps ==
  ASSUME [WorkerNext]_workerVars
  PROVE  [TokenNext]_tokenVars \/ HookExchange \/ Die
<1>. USE WorkerActs
<1>1. CASE HookReturns \/ StartRefresh \/ RefreshFromKite
  BY <1>1 DEF HookReturns, StartRefresh, RefreshFromKite, TokenNext
<1>2. CASE SkipHook \/ HookWithoutToken \/ Poll \/ AskCalendar \/ EndCycle \/ RefreshFromYahoo
           \/ LogAndGoOn \/ WakeUp \/ Restart
  BY <1>2 DEF SkipHook, HookWithoutToken, Poll, AskCalendar, EndCycle, RefreshFromYahoo,
              LogAndGoOn, WakeUp, Restart
<1>3. CASE OtherStep
  BY <1>3 DEF OtherStep, TokenNext, Actors
<1>4. CASE UNCHANGED workerVars
  BY <1>4 DEF workerVars
<1>. QED BY <1>1, <1>2, <1>3, <1>4 DEF WorkerNext, LoopStep

\* A step of the worker that leaves clock, Redis and table alone and ends in no store.
LEMMA WorkerStepKeeps ==
  ASSUME TokenTypeOK, TokenTypeOK', TokenInv, Moves(Worker),
         UNCHANGED <<clock, redis, table, seen>>,
         pc'[Worker] \in {"idle", "exchange"}, work'[Worker].kind # "lookup",
         held'[Worker] = 0, floor'[Worker] \in {0, table}
  PROVE  TokenInv'
<1>. USE WorkerActs
<1>1. /\ clock \in Nat /\ table \in Nat
  BY Numbers DEF TokenTypeOK, LoginTime
<1>2. Past'
  BY <1>1 DEF TokenInv, Past, Moves
<1>3. ASSUME "overlap" \notin seen PROVE Serial' /\ RedisTrailsTable' /\ LookupServed'
  <2>1. ~ Refused(Worker)' /\ floor'[Worker] <= table
    BY <1>1 DEF Refused
  <2>2. /\ Serial /\ redis.login <= table /\ redis'.login <= table
        /\ \A b \in Actors : Refused(b) => ~Usable(floor[b])
    BY <1>3 DEF TokenInv, RedisTrailsTable, LookupServed, Refused
  <2>. QED BY <2>1, <2>2, QuietStep
<1>4. "overlap" \in seen' => RedisTrailsTable' /\ LookupServed'
  BY DEF RedisTrailsTable, LookupServed
<1>. QED BY <1>2, <1>3, <1>4 DEF TokenInv

LEMMA TokenKept ==
  ASSUME TokenTypeOK, TokenInv, [WorkerNext]_workerVars
  PROVE  TokenTypeOK' /\ TokenInv'
<1>. USE WorkerActs
<1>1. CASE [TokenNext]_tokenVars
  BY <1>1, TypeStep, TokenInvStep
<1>2. CASE HookExchange
  <2>1. Begin(Worker, "hook", 0, "exchange") /\ UNCHANGED <<clock, redis, table, issued, spent, seen>>
    BY <1>2 DEF HookExchange
  <2>2. TokenTypeOK'
    BY <2>1, Numbers DEF TokenTypeOK, Begin, Goto, Points, Work, LoginTime
  <2>3. /\ Moves(Worker) /\ pc'[Worker] = "exchange" /\ work'[Worker].kind = "hook"
        /\ held'[Worker] = 0 /\ floor'[Worker] = table
    BY <2>1 DEF TokenTypeOK, Begin, Goto, Moves
  <2>. QED BY <2>1, <2>2, <2>3, WorkerStepKeeps
<1>3. CASE Die
  <2>1. TokenTypeOK'
    BY <1>3, Numbers DEF TokenTypeOK, Die, Points, NoWork, Work, LoginTime
  <2>2. /\ Moves(Worker) /\ pc'[Worker] = "idle" /\ work'[Worker].kind = "none"
        /\ held'[Worker] = 0 /\ floor'[Worker] = 0 /\ UNCHANGED <<clock, redis, table, seen>>
    BY <1>3 DEF TokenTypeOK, Die, Moves, NoWork
  <2>. QED BY <2>1, <2>2, WorkerStepKeeps
<1>. QED BY <1>1, <1>2, <1>3, TokenSteps

\* Nothing that is in Redis was lost from the table, and no lookup misses a session that
\* is stored and usable, beside a worker that exchanges KITE_REQUEST_TOKEN in the morning
\* and may be killed between any two of its calls: _kite_access_token,
\* generate_kite_access_token and the hook of live_worker_loop.
THEOREM WorkerKeepsTokens == WorkerSpec => [](TokenTypeOK /\ RedisTrailsTable /\ LookupServed)
<1>1. WorkerInit => TokenTypeOK /\ TokenInv
  BY TypeInit, TokenInvInit DEF WorkerInit
<1>2. TokenTypeOK /\ TokenInv /\ [WorkerNext]_workerVars => TokenTypeOK' /\ TokenInv'
  BY TokenKept
<1>3. TokenInv => RedisTrailsTable /\ LookupServed
  BY DEF TokenInv
<1>. QED BY <1>1, <1>2, <1>3, PTL DEF WorkerSpec
-----------------------------------------------------------------------------
(* The loop *)

\* The loop is at a call of the token handling exactly while one of its own is under
\* way: at every other place it is free to begin the next, so the hook and the cycle
\* are never held up by a call of an earlier round, or of an earlier life.
WaitsForOwnCalls ==
  /\ pc[Worker] = "idle" <=> loop \notin {"hooking", "refresh"}
  /\ loop = "hooking" => work[Worker].kind = "hook"
  /\ loop = "refresh" => work[Worker].kind = "lookup"

\* Each attempt of the hook is of a later day than the one before, and the date of the
\* last attempt goes back only when the process is started anew.
LaterDay ==
  /\ loop' = "hooking" /\ loop # "hooking" => hookDate < hookDate'
  /\ hookDate' # hookDate => hookDate < hookDate' \/ loop = "dead"
HookOncePerDay == [][LaterDay]_workerVars

LoopInv == WorkerTypeOK /\ WaitsForOwnCalls /\ hookDate <= Date

\* What the other processes, the clock and the answers of its calls do to the loop.
LEMMA OthersBeside ==
  ASSUME TokenTypeOK, OtherStep
  PROVE  /\ clock <= clock' /\ UNCHANGED loopVars
         /\ work'[Worker] = work[Worker] /\ (pc'[Worker] = "idle" <=> pc[Worker] = "idle")
<1>. USE WorkerActs
<1>1. pc \in [Actors -> Calls] /\ work \in [Actors -> Work] /\ clock \in Nat
  BY Numbers DEF TokenTypeOK, Calls
<1>2. CASE Tick
  BY <1>1, <1>2 DEF Tick, OtherStep
<1>3. ASSUME NEW a \in Actors, a # Worker, StartLookup(a) \/ StartSession(a) \/ Return(a)
      PROVE  /\ clock' = clock /\ work'[Worker] = work[Worker] /\ pc'[Worker] = pc[Worker]
  BY <1>1, <1>3 DEF StartLookup, StartSession, Return, Begin, Goto
<1>4. ASSUME NEW a \in Actors, Call(a)
      PROVE  /\ clock' = clock /\ work' = work /\ (pc'[Worker] = "idle" <=> pc[Worker] = "idle")
  <2>1. clock' = clock /\ work' = work /\ pc[a] # "idle"
    BY <1>4, FaultAssumption
       DEF Call, GetCached, ReadRow, Exchange, Refuse, Store, Cache, Raises, Points
  <2>. QED BY <1>1, <1>4, <2>1
       DEF Call, GetCached, ReadRow, Exchange, Refuse, Store, Cache, Raises, Goto
<1>5. UNCHANGED loopVars
  BY DEF OtherStep
<1>. QED BY <1>1, <1>2, <1>3, <1>4, <1>5, ActorsAssumption DEF OtherStep, Actors

LEMMA LoopKept ==
  ASSUME TokenTypeOK, TokenTypeOK', LoopInv, [WorkerNext]_workerVars
  PROVE  LoopInv' /\ LaterDay
<1>. DEFINE Goal == LoopInv' /\ LaterDay
<1>. USE WorkerActs
<1>1. /\ pc \in [Actors -> Calls] /\ work \in [Actors -> Work]
      /\ clock \in Nat /\ clock' \in Nat /\ clock' <= MaxClock /\ MaxClock \in Nat
  BY Numbers DEF TokenTypeOK, Calls
<1>2. /\ loop \in Places /\ left \in 0 .. Rounds /\ kills \in 0 .. MaxKills
      /\ hookDate \in Nat /\ hookDate <= Date /\ Date \in Nat
  BY <1>1, DayMonotone DEF LoopInv, WorkerTypeOK, Date
<1>3. Date' \in Nat /\ Date' <= MaxClock \div DayLength + 1 /\ MaxClock \div DayLength \in Nat
      /\ (clock <= clock' => Date <= Date')
  BY <1>1, DayMonotone DEF Date
<1>4. ASSUME clock <= clock', loop' \in Places, left' \in 0 .. Rounds, kills' \in 0 .. MaxKills,
             \/ hookDate' = hookDate
             \/ hookDate' = Date /\ hookDate # Date
             \/ hookDate' = 0 /\ loop = "dead",
             loop' = "hooking" /\ loop # "hooking" => hookDate' = Date /\ hookDate # Date,
             WaitsForOwnCalls'
      PROVE  Goal
  <2>1. hookDate' \in Nat /\ hookDate' <= Date' /\ LaterDay
    BY <1>2, <1>3, <1>4 DEF LaterDay
  <2>2. hookDate' \in 0 .. MaxClock \div DayLength + 1
    BY <1>3, <2>1
  <2>3. WorkerTypeOK'
    BY <1>4, <2>2 DEF WorkerTypeOK, Places
  <2>. QED BY <1>4, <2>1, <2>3 DEF LoopInv
<1>w. WaitsForOwnCalls
  BY DEF LoopInv
<1>5. CASE OtherStep \/ UNCHANGED workerVars
  <2>1. /\ clock <= clock' /\ UNCHANGED loopVars
        /\ work'[Worker] = work[Worker] /\ (pc'[Worker] = "idle" <=> pc[Worker] = "idle")
    BY <1>1, <1>5, OthersBeside DEF workerVars, tokenVars
  <2>. QED BY <1>2, <1>4, <1>w, <2>1 DEF loopVars, WaitsForOwnCalls
<1>6. CASE SkipHook \/ HookWithoutToken \/ Poll \/ AskCalendar \/ EndCycle \/ RefreshFromYahoo
           \/ LogAndGoOn \/ WakeUp \/ Restart
  <2>1. /\ UNCHANGED tokenVars
        /\ loop \notin {"hooking", "refresh"} /\ loop' \in Places \ {"hooking", "refresh"}
        /\ left' \in 0 .. Rounds /\ kills' = kills
    <3>1. \A raised, logged : MayLogOr(raised, logged) \subseteq {raised, logged}
      BY DEF MayLogOr
    <3>2. CASE SkipHook \/ HookWithoutToken \/ LogAndGoOn
      BY <1>2, <3>1, <3>2 DEF SkipHook, HookWithoutToken, HookDue, LogAndGoOn, Places
    <3>3. CASE Poll \/ AskCalendar \/ EndCycle
      BY <1>2, <3>3 DEF Poll, AskCalendar, EndCycle, Places
    <3>4. CASE RefreshFromYahoo \/ WakeUp \/ Restart
      BY <1>2, <3>4 DEF RefreshFromYahoo, WakeUp, Restart, Places
    <3>. QED BY <1>6, <3>2, <3>3, <3>4
  <2>2. \/ hookDate' = hookDate
        \/ hookDate' = Date /\ hookDate # Date
        \/ hookDate' = 0 /\ loop = "dead"
    BY <1>6 DEF SkipHook, HookWithoutToken, HookDue, Poll, AskCalendar, EndCycle, RefreshFromYahoo,
                LogAndGoOn, WakeUp, Restart
  <2>3. WaitsForOwnCalls'
    BY <1>w, <2>1 DEF WaitsForOwnCalls, tokenVars
  <2>. QED BY <1>1, <1>2, <1>4, <2>1, <2>2, <2>3 DEF tokenVars
<1>7. CASE HookExchange
  <2>1. /\ pc'[Worker] = "exchange" /\ work'[Worker].kind = "hook" /\ clock' = clock
        /\ loop' = "hooking" /\ hookDate' = Date /\ hookDate # Date /\ UNCHANGED <<left, kills>>
    BY <1>1, <1>7 DEF HookExchange, HookDue, Begin, Goto
  <2>. QED BY <1>1, <1>2, <1>4, <2>1 DEF WaitsForOwnCalls, Places
<1>8. CASE StartRefresh
  <2>1. /\ pc'[Worker] = "get" /\ work'[Worker].kind = "lookup" /\ clock' = clock
        /\ loop' = "refresh" /\ left' = left - 1 /\ left > 0 /\ UNCHANGED <<hookDate, kills>>
    BY <1>1, <1>8 DEF StartRefresh, StartLookup, Begin, Goto
  <2>. QED BY <1>1, <1>2, <1>4, <2>1 DEF WaitsForOwnCalls, Places
<1>9. CASE HookReturns \/ RefreshFromKite
  <2>1. /\ pc'[Worker] = "idle" /\ clock' = clock /\ UNCHANGED <<hookDate, left, kills>>
        /\ loop' \in Places \ {"hooking", "refresh"}
    BY <1>1, <1>9 DEF HookReturns, RefreshFromKite, Return, Goto, MayLogOr, Places
  <2>. QED BY <1>1, <1>2, <1>4, <2>1 DEF WaitsForOwnCalls
<1>10. CASE Die
  <2>1. /\ pc'[Worker] = "idle" /\ clock' = clock /\ UNCHANGED <<hookDate, left>>
        /\ loop' = "dead" /\ kills' \in 0 .. MaxKills
    BY <1>1, <1>2, <1>10 DEF Die
  <2>. QED BY <1>1, <1>2, <1>4, <2>1 DEF WaitsForOwnCalls, Places
<1>. QED BY <1>5, <1>6, <1>7, <1>8, <1>9, <1>10 DEF WorkerNext, LoopStep

LEMMA LoopInvHolds == WorkerSpec => [](TokenTypeOK /\ TokenInv /\ LoopInv)
<1>1. WorkerInit => TokenTypeOK /\ TokenInv /\ LoopInv
  <2>1. WorkerInit => LoopInv
    <3>1. MaxClock \div DayLength \in Nat /\ \A t \in Nat : t \div DayLength \in Nat
      BY Numbers, DayMonotone
    <3>. QED BY <3>1, WorkerActs DEF WorkerInit, TokenInit, LoopInv, WorkerTypeOK,
                                     WaitsForOwnCalls, Places, Date
  <2>. QED BY <2>1, TypeInit, TokenInvInit DEF WorkerInit
<1>2. (TokenTypeOK /\ TokenInv /\ LoopInv) /\ [WorkerNext]_workerVars =>
        (TokenTypeOK /\ TokenInv /\ LoopInv)'
  BY TokenKept, LoopKept
<1>. QED BY <1>1, <1>2, PTL DEF WorkerSpec

\* The loop is at one of its places, and its date of the hook is a day of the run.
THEOREM WorkerTypes == WorkerSpec => []WorkerTypeOK
<1>1. LoopInv => WorkerTypeOK
  BY DEF LoopInv
<1>. QED BY <1>1, LoopInvHolds, PTL

\* live_worker_loop awaits each call to its end before it makes the next, and a process
\* that was killed leaves none behind: the hook and a refresh find the loop free.
THEOREM WorkerWaits == WorkerSpec => []WaitsForOwnCalls
<1>1. LoopInv => WaitsForOwnCalls
  BY DEF LoopInv
<1>. QED BY <1>1, LoopInvHolds, PTL

\* _maybe_refresh_kite_access_token marks the day before it tries, so that a process makes at
\* most one attempt a day, whatever the attempt, the log and the market do.
THEOREM HookTriedOnce == WorkerSpec => HookOncePerDay
<1>1. TokenTypeOK /\ TokenInv /\ LoopInv /\ TokenTypeOK' /\ [WorkerNext]_workerVars =>
        [LaterDay]_workerVars
  BY LoopKept
<1>. QED BY <1>1, LoopInvHolds, PTL DEF WorkerSpec, HookOncePerDay
=============================================================================
