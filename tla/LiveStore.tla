------------------------------ MODULE LiveStore ------------------------------
(***************************************************************************)
(* The live quote store of app/services/live.py: the live worker and the   *)
(* API handlers that refresh quotes on demand all run                      *)
(* fetch_and_store_live_quotes, which writes one Redis hash per symbol     *)
(* (HSET, then EXPIRE), the aggregate key live:symbols when it covers the  *)
(* whole universe, and then the table live_symbol_metrics.  Nothing orders *)
(* two refreshers, and any call may raise or its process die.              *)
(*                                                                         *)
(* A payload is abstracted to the time it was stamped and to the stamp of  *)
(* its option-summary fields, the fields _live_quote_payload adds only     *)
(* when a summary was fetched (0: the payload has none).                   *)
(***************************************************************************)
EXTENDS Naturals, Sequences, FiniteSets

CONSTANTS
  Symbols,      \* the active universe; a number is the symbol's sort rank
  Batches,      \* the worker's batches of symbols, in the order it runs them
  Worker,       \* the live worker process
  Callers,      \* concurrent API requests that refresh quotes
  Provider,     \* LIVE_QUOTE_PROVIDER: "yahoo", "dhan" or "kite"
  Ttl,          \* LIVE_CACHE_TTL_SECONDS, in clock ticks
  MaxClock,     \* bound: the clock stops here
  Requests,     \* what callers refresh: {"symbols"}, {"all"} or both
  FaultPoints   \* the places where a call may raise or the process die

Refreshers == {Worker} \cup Callers

\* The calls of a refresh and of the worker's cycle that can go wrong.
Points == {"fetch", "hset", "expire", "symbols", "upsert", "latest", "list"}

ASSUME SymbolsAssumption == Symbols \subseteq Nat
ASSUME BatchesAssumption == Batches \in Seq(SUBSET Symbols) /\ Batches # <<>>
ASSUME WorkerAssumption == Worker \notin Callers
ASSUME ProviderAssumption == Provider \in {"yahoo", "dhan", "kite"}
ASSUME ClockAssumption == Ttl \in Nat \ {0} /\ MaxClock \in Nat \ {0}
ASSUME FaultAssumption ==
  Requests \subseteq {"symbols", "all"} /\ FaultPoints \subseteq Points

VARIABLES
  clock,     \* datetime.now(IST), the clock of the processes and of Redis
  redis,     \* redis[s]: the hash live:<s>
  list,      \* the key live:symbols
  db,        \* db[s]: the row of s in live_symbol_metrics
  pc,        \* pc[a]: the next call of refresher a
  asked,     \* asked[a]: the symbols a refreshes
  full,      \* full[a]: a was called with symbols=None
  stage,     \* stage[a]: a runs the configured provider or the fallback
  payloads,  \* payloads[a][s]: what a has to store for s
  todo,      \* todo[a]: the symbols whose hash a still has to write
  batch,     \* the batch the worker's cycle is at, 0 between two cycles
  latest,    \* the rows the worker read for live:symbols
  seen       \* history, for the properties only: what has happened so far, of
             \* "request" (an API refresh), "full" (one of the universe), "fault"

stores == <<redis, list, db>>
jobs == <<asked, full, stage, payloads, todo>>
vars == <<clock, redis, list, db, pc, asked, full, stage, payloads, todo,
          batch, latest, seen>>
-----------------------------------------------------------------------------
NoPayload == [snapshot |-> 0, option |-> 0]
NoHash == [snapshot |-> 0, option |-> 0, deadline |-> 0]
NoRows == [s \in Symbols |-> NoPayload]
NoList == [rows |-> NoRows, deadline |-> 0]

Time == 1 .. MaxClock
Deadline == 0 .. MaxClock + Ttl          \* 0: the key has no expiry
Payload == [snapshot : 0 .. MaxClock, option : 0 .. MaxClock]
Hash == [snapshot : 0 .. MaxClock, option : 0 .. MaxClock, deadline : Deadline]

\* Mutant of Merge: HSETNX, which keeps the fields the hash already has.
MergeMissing(hash, p) ==
  IF hash.snapshot # 0 THEN hash
  ELSE [snapshot |-> p.snapshot, option |-> p.option, deadline |-> hash.deadline]

\* HSET merges the payload's fields into the hash: fields the payload does not
\* carry keep the value an earlier payload left there.
Merge(hash, p) ==
  [snapshot |-> p.snapshot,
   option |-> IF p.option # 0 THEN p.option ELSE hash.option,
   deadline |-> hash.deadline]

\* Mutants of Upserted: the WHERE clause forgotten; the payload merged into the
\* stored one as HSET does.
UpsertedUnguarded(row, p) == IF p.snapshot # 0 THEN p ELSE row
UpsertedMerging(row, p) ==
  IF p.snapshot # 0 /\ row.snapshot <= p.snapshot
  THEN [p EXCEPT !.option = IF @ # 0 THEN @ ELSE row.option] ELSE row

\* The ON CONFLICT clause of upsert_live_symbol_metrics.
Upserted(row, p) ==
  IF p.snapshot # 0 /\ row.snapshot <= p.snapshot THEN p ELSE row

\* Keys whose deadline has come are gone.
Expired(deadline, now) == deadline # 0 /\ deadline <= now

\* Mutant of WritePoint: only full refreshes reach the database.
WritePointCacheOnly(rest, isFull) ==
  IF rest # {} THEN "hset" ELSE IF isFull THEN "symbols" ELSE "return"

\* Where a refresh stands once it has the hashes of rest to write.
WritePoint(rest, isFull) ==
  IF rest # {} THEN "hset" ELSE IF isFull THEN "symbols" ELSE "upsert"

First(S) == CHOOSE s \in S : \A t \in S : s <= t
-----------------------------------------------------------------------------
Init ==
  /\ clock = 1
  /\ redis = [s \in Symbols |-> NoHash]
  /\ list = NoList
  /\ db = NoRows
  /\ pc = [a \in Refreshers |-> "idle"]
  /\ asked = [a \in Refreshers |-> {}]
  /\ full = [a \in Refreshers |-> FALSE]
  /\ stage = [a \in Refreshers |-> "primary"]
  /\ payloads = [a \in Refreshers |-> NoRows]
  /\ todo = [a \in Refreshers |-> {}]
  /\ batch = 0
  /\ latest = NoRows
  /\ seen = {}

\* Time passes; Redis drops the keys whose time to live is over.
Tick ==
  /\ clock < MaxClock
  /\ clock' = clock + 1
  /\ redis' = [s \in Symbols |->
                 IF Expired(redis[s].deadline, clock') THEN NoHash ELSE redis[s]]
  /\ list' = IF Expired(list.deadline, clock') THEN NoList ELSE list
  /\ UNCHANGED <<db, pc, jobs, batch, latest, seen>>

\* Refresher a is about to fetch the symbols S, from the configured provider.
Enter(a, S, isFull, from) ==
  /\ pc' = [pc EXCEPT ![a] = "fetch"]
  /\ asked' = [asked EXCEPT ![a] = S]
  /\ full' = [full EXCEPT ![a] = isFull]
  /\ stage' = [stage EXCEPT ![a] = from]
  /\ payloads' = [payloads EXCEPT ![a] = NoRows]
  /\ todo' = [todo EXCEPT ![a] = {}]

\* Refresher a is done, or gives up.
Leave(a) ==
  /\ pc' = [pc EXCEPT ![a] = "idle"]
  /\ asked' = [asked EXCEPT ![a] = {}]
  /\ full' = [full EXCEPT ![a] = FALSE]
  /\ stage' = [stage EXCEPT ![a] = "primary"]
  /\ payloads' = [payloads EXCEPT ![a] = NoRows]
  /\ todo' = [todo EXCEPT ![a] = {}]
  /\ batch' = IF a = Worker THEN 0 ELSE batch
  /\ latest' = IF a = Worker THEN NoRows ELSE latest

\* Mutant of StartCycle: the batch is refreshed as if it were the universe.
StartCycleFull ==
  /\ pc[Worker] = "idle"
  /\ batch' = 1
  /\ Enter(Worker, Batches[1], TRUE, "primary")
  /\ UNCHANGED <<clock, stores, latest, seen>>

\* The worker finds the market open and begins a cycle with its first batch.
StartCycle ==
  /\ pc[Worker] = "idle"
  /\ batch' = 1
  /\ Enter(Worker, Batches[1], FALSE, "primary")
  /\ UNCHANGED <<clock, stores, latest, seen>>

\* An API request refreshes one symbol (GET /live/{symbol}), those it lists (POST
\* /admin/live-quotes) or, with no list, the whole universe (that one and GET /live).
StartRequest(a) ==
  /\ pc[a] = "idle"
  /\ \/ /\ "symbols" \in Requests
        /\ \E S \in (SUBSET Symbols) \ {{}} : Enter(a, S, FALSE, "primary")
        /\ seen' = seen \cup {"request"}
     \/ /\ "all" \in Requests
        /\ Enter(a, Symbols, TRUE, "primary")
        /\ seen' = seen \cup {"request", "full"}
  /\ UNCHANGED <<clock, stores, batch, latest>>

\* The payloads of the symbols quoted, all stamped now; those in summed carry
\* the fields of an option summary.
QuotePayloads(quoted, summed) ==
  [s \in Symbols |->
     IF s \notin quoted THEN NoPayload
     ELSE [snapshot |-> clock, option |-> IF s \in summed THEN clock ELSE 0]]

\* The provider answers for some of the symbols, with an option summary for
\* some of those; the payloads are stamped once everything is fetched.
Fetch(a) ==
  /\ pc[a] = "fetch"
  /\ \E quoted \in SUBSET asked[a] :
       \E summed \in SUBSET quoted :
         /\ payloads' = [payloads EXCEPT ![a] = QuotePayloads(quoted, summed)]
         /\ todo' = [todo EXCEPT ![a] = quoted]
         /\ pc' = [pc EXCEPT ![a] = WritePoint(quoted, full[a])]
  /\ UNCHANGED <<clock, stores, asked, full, stage, batch, latest, seen>>

\* Dhan knows no instrument for any of the symbols: nothing is stored at all.
NoInstrument(a) ==
  /\ pc[a] = "fetch"
  /\ Provider = "dhan" /\ stage[a] = "primary"
  /\ pc' = [pc EXCEPT ![a] = "return"]
  /\ UNCHANGED <<clock, stores, jobs, batch, latest, seen>>

\* The first half of CacheService.set_live.
HSet(a) ==
  /\ pc[a] = "hset"
  /\ LET s == First(todo[a]) IN
       redis' = [redis EXCEPT ![s] = Merge(redis[s], payloads[a][s])]
  /\ pc' = [pc EXCEPT ![a] = "expire"]
  /\ UNCHANGED <<clock, list, db, jobs, batch, latest, seen>>

\* Mutant of Expire: the time to live is added to the one the key still has.
ExpireLonger(a) ==
  /\ pc[a] = "expire"
  /\ LET s == First(todo[a])
         rest == todo[a] \ {s}
     IN /\ redis' = [redis EXCEPT ![s].deadline =
                       IF redis[s].snapshot # 0 THEN clock + Ttl + @ ELSE 0]
        /\ todo' = [todo EXCEPT ![a] = rest]
        /\ pc' = [pc EXCEPT ![a] = WritePoint(rest, full[a])]
  /\ UNCHANGED <<clock, list, db, asked, full, stage, payloads, batch, latest, seen>>

\* The second half; EXPIRE does nothing on a key that is gone meanwhile.
Expire(a) ==
  /\ pc[a] = "expire"
  /\ LET s == First(todo[a])
         rest == todo[a] \ {s}
     IN /\ redis' = [redis EXCEPT ![s].deadline =
                       IF redis[s].snapshot # 0 THEN clock + Ttl ELSE 0]
        /\ todo' = [todo EXCEPT ![a] = rest]
        /\ pc' = [pc EXCEPT ![a] = WritePoint(rest, full[a])]
  /\ UNCHANGED <<clock, list, db, asked, full, stage, payloads, batch, latest, seen>>

\* A refresh of the whole universe replaces live:symbols by its own payloads.
SetLiveSymbols(a) ==
  /\ pc[a] = "symbols"
  /\ list' = [rows |-> payloads[a], deadline |-> clock + Ttl]
  /\ pc' = [pc EXCEPT ![a] = "upsert"]
  /\ UNCHANGED <<clock, redis, db, jobs, batch, latest, seen>>

\* All rows of a refresh are upserted by one executemany, which is atomic.
Upsert(a) ==
  /\ pc[a] = "upsert"
  /\ db' = [s \in Symbols |-> Upserted(db[s], payloads[a][s])]
  /\ pc' = [pc EXCEPT ![a] = "return"]
  /\ UNCHANGED <<clock, redis, list, jobs, batch, latest, seen>>

\* The refresh returns: to the API handler, or to the worker's loop over its
\* batches.
Return(a) ==
  /\ pc[a] = "return"
  /\ \/ /\ a # Worker
        /\ Leave(a)
     \/ /\ a = Worker /\ batch < Len(Batches)
        /\ batch' = batch + 1
        /\ Enter(a, Batches[batch + 1], FALSE, "primary")
        /\ UNCHANGED latest
     \/ /\ a = Worker /\ batch = Len(Batches)
        /\ pc' = [pc EXCEPT ![a] = "latest"]
        /\ UNCHANGED <<jobs, batch, latest>>
  /\ UNCHANGED <<clock, stores, seen>>

\* After its last batch the worker reads the stored rows of the universe back.
ReadLatest ==
  /\ pc[Worker] = "latest"
  /\ latest' = db
  /\ pc' = [pc EXCEPT ![Worker] = "list"]
  /\ UNCHANGED <<clock, stores, jobs, batch, seen>>

\* ... and publishes them as live:symbols, which ends the cycle.
PublishList ==
  /\ pc[Worker] = "list"
  /\ list' = [rows |-> latest, deadline |-> clock + Ttl]
  /\ Leave(Worker)
  /\ UNCHANGED <<clock, redis, db, seen>>

\* Mutant of Raise: the fallback tries the configured provider first again.
RaiseAgain(a) ==
  IF Provider # "yahoo" /\ pc[a] \notin {"latest", "list"}
  THEN Enter(a, asked[a], full[a], "primary") /\ UNCHANGED <<batch, latest>>
  ELSE Leave(a)

\* The exception handlers around a call of refresher a: a refresh from Dhan or
\* Kite is begun again from Yahoo; any other exception ends the request or the
\* worker's cycle.
Raise(a) ==
  IF Provider # "yahoo" /\ stage[a] = "primary" /\ pc[a] \notin {"latest", "list"}
  THEN Enter(a, asked[a], full[a], "fallback") /\ UNCHANGED <<batch, latest>>
  ELSE Leave(a)

\* A call raises without any effect.
Fail(a) ==
  /\ pc[a] \in FaultPoints
  /\ Raise(a)
  /\ seen' = seen \cup {"fault"}
  /\ UNCHANGED <<clock, stores>>

\* The upsert commits, but the refresher sees its connection fail.
LoseAnswer(a) ==
  /\ pc[a] = "upsert" /\ "upsert" \in FaultPoints
  /\ db' = [s \in Symbols |-> Upserted(db[s], payloads[a][s])]
  /\ Raise(a)
  /\ seen' = seen \cup {"fault"}
  /\ UNCHANGED <<clock, redis, list>>

\* The process dies, or logging the exception raises in its turn.
Crash(a) ==
  /\ pc[a] \in FaultPoints
  /\ Leave(a)
  /\ seen' = seen \cup {"fault"}
  /\ UNCHANGED <<clock, stores>>

Step(a) ==
  \/ Fetch(a) \/ NoInstrument(a) \/ HSet(a) \/ Expire(a)
  \/ SetLiveSymbols(a) \/ Upsert(a) \/ Return(a)

Next ==
  \/ Tick
  \/ StartCycle
  \/ \E a \in Callers : StartRequest(a)
  \/ \E a \in Refreshers : Step(a) \/ Fail(a) \/ LoseAnswer(a) \/ Crash(a)
  \/ ReadLatest
  \/ PublishList

\* The event loop of each process keeps running what it has begun.
Fairness ==
  /\ \A a \in Refreshers : WF_vars(Step(a))
  /\ WF_vars(ReadLatest) /\ WF_vars(PublishList)

Spec == Init /\ [][Next]_vars
FairSpec == Spec /\ Fairness
-----------------------------------------------------------------------------
\* Type invariant: the stores hold payloads, every refresher is at one of its
\* calls with a job over known symbols.
TypeOK ==
  /\ clock \in Time
  /\ redis \in [Symbols -> Hash]
  /\ list \in [rows : [Symbols -> Payload], deadline : Deadline]
  /\ db \in [Symbols -> Payload]
  /\ pc \in [Refreshers -> Points \cup {"idle", "return"}]
  /\ asked \in [Refreshers -> SUBSET Symbols]
  /\ full \in [Refreshers -> BOOLEAN]
  /\ stage \in [Refreshers -> {"primary", "fallback"}]
  /\ payloads \in [Refreshers -> [Symbols -> Payload]]
  /\ todo \in [Refreshers -> SUBSET Symbols]
  /\ batch \in 0 .. Len(Batches)
  /\ latest \in [Symbols -> Payload]
  /\ seen \subseteq {"request", "full", "fault"}

IsWhole(p) == p.option \in {0, p.snapshot}

\* Whatever interleaving, failure or crash, the payloads stored in
\* live_symbol_metrics and listed under live:symbols are each the payload of
\* one refresh: no option field comes from an earlier one, as happens in the
\* hashes (upsert_live_symbol_metrics, run_live_worker_cycle).
StoredPayloadsWhole ==
  \A s \in Symbols : IsWhole(db[s]) /\ IsWhole(list.rows[s])

\* A stored row is never replaced by an older one, although a refresh that
\* stamped its payloads early may reach the database late (the WHERE clause of
\* upsert_live_symbol_metrics).
DbNeverOlder ==
  [][\A s \in Symbols : db[s].snapshot <= db'[s].snapshot]_db

\* live_symbol_metrics implements the register its readers rely on.
Register == INSTANCE LatestRegister WITH latest <- db, Stamps <- Time
RegisterSpec == Register!Spec

\* The inductive form of StoredPayloadsWhole and RegisterSpec: what a refresher
\* holds is stamped by one reading of the clock.
StoreInv ==
  /\ StoredPayloadsWhole
  /\ \A s \in Symbols : IsWhole(latest[s])
  /\ \A a \in Refreshers : \E t \in Time :
       payloads[a] \in [Symbols -> Register!Whole(t) \cup {NoPayload}]

\* As long as no call has failed, a Redis hash that is newer than the stored row
\* belongs to a refresh that is still under way and will store it: the cache
\* never shows a quote that the database will not have.
RedisAheadOnlyInFlight ==
  "fault" \notin seen => \A s \in Symbols : redis[s].snapshot > db[s].snapshot =>
    \E a \in Refreshers :
      /\ payloads[a][s].snapshot = redis[s].snapshot
      /\ pc[a] \in {"hset", "expire", "symbols", "upsert"}

CacheLeads ==
  \A s \in Symbols : redis[s].snapshot # 0 => db[s].snapshot <= redis[s].snapshot

\* As long as the worker was the only refresher, what a Redis-first reader finds is
\* at least as new as the stored row, through failures and restarts: the worker
\* writes the hash before the row and every refresh stamps a later time.
RedisNeverBehindDb == "request" \notin seen => CacheLeads

\* No API caller is refreshing.
Alone == \A c \in Callers : pc[c] = "idle"

\* Nothing is stamped in the future, what the worker has still to store is not
\* older than the row, and once it has written a hash that hash is at least as
\* new or gone.
WorkerLeads ==
  /\ CacheLeads
  /\ \A s \in Symbols : /\ db[s].snapshot <= clock
                        /\ payloads[Worker][s].snapshot <= clock
  /\ pc[Worker] \in {"symbols", "upsert"} => todo[Worker] = {}
  /\ pc[Worker] \in {"hset", "expire", "symbols", "upsert"} =>
       \A s \in Symbols :
         LET p == payloads[Worker][s] IN
         p.snapshot # 0 =>
           /\ db[s].snapshot <= p.snapshot
           /\ \/ s \in todo[Worker] /\ ~(pc[Worker] = "expire" /\ s = First(todo[Worker]))
              \/ redis[s].snapshot \in {0, p.snapshot}

\* The inductive form of RedisNeverBehindDb.
WorkerInv == "request" \notin seen => Alone /\ WorkerLeads

\* As long as requests have refreshed single symbols only, live:symbols lists stored
\* rows: each listed payload is in the database or was replaced there.
ListTrailsDb ==
  "full" \notin seen => \A s \in Symbols : list.rows[s].snapshot <= db[s].snapshot

\* ... and a refresh of some symbols drops none from live:symbols.
ListNeverShrinks ==
  []["full" \notin seen /\ list.deadline # 0 /\ list'.deadline # 0 =>
       \A s \in Symbols : list.rows[s].snapshot # 0 => list'.rows[s].snapshot # 0]_list

\* Every refresh and every cycle of the worker ends, whatever fails: the one
\* fallback is the only retry.
RefreshReturns ==
  \A a \in Refreshers : pc[a] # "idle" ~> pc[a] = "idle"

\* docs/architecture/database-dictionary.md:299: a refresh writes each payload
\* to Redis and upserts the same payload: a hash holds the fields of one payload.
RedisPayloadsWhole == \A s \in Symbols : IsWhole(redis[s])
=============================================================================
