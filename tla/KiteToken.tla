------------------------------ MODULE KiteToken ------------------------------
(***************************************************************************)
(* The Kite access token of app/services/live.py.  A request token from a  *)
(* browser login is exchanged once for an access token, which is stored in *)
(* the table broker_access_tokens and then cached in Redis.  Every live    *)
(* call looks the token up: Redis, table, the configured request token,    *)
(* the configured static token.  API sessions, lookups and the worker's    *)
(* morning hook run concurrently, and nothing orders their writes.         *)
(*                                                                         *)
(* An access token is the time of its login (0: none); it ends at the next *)
(* ExpiryAt, six in the morning.                                           *)
(***************************************************************************)
EXTENDS Naturals, FiniteSets

CONSTANTS
  Readers,      \* processes that look the token up
  Operators,    \* API requests that exchange the request token of a login
  EnvTokens,    \* whether KITE_REQUEST_TOKEN is configured: the cases to consider
  StaticToken,  \* whether KITE_ACCESS_TOKEN is configured
  DayLength,    \* clock ticks per day
  ExpiryAt,     \* the time of day at which tokens end
  Margin,       \* a token with no more than this left is not used
  MinTtl,       \* the shortest time a token is cached
  MaxClock,     \* bound: the clock stops here
  MaxLogins,    \* bound: how often the operator logs in
  FaultPoints   \* the calls that may raise

Actors == Readers \cup Operators
Points == {"get", "row", "exchange", "store", "cache"}

ASSUME ActorsAssumption == Readers \cap Operators = {}
ASSUME TokensAssumption == EnvTokens \subseteq BOOLEAN /\ StaticToken \in BOOLEAN
ASSUME TimesAssumption ==
  /\ DayLength \in Nat \ {0} /\ ExpiryAt \in 0 .. DayLength - 1
  /\ Margin \in Nat /\ MinTtl \in Nat \ {0}
ASSUME BoundsAssumption == MaxClock \in Nat \ {0} /\ MaxLogins \in Nat
ASSUME FaultAssumption == FaultPoints \subseteq Points

VARIABLES
  clock,    \* the clock of all processes, of Redis and of Kite
  redis,    \* the key kite:access-token:<api key>
  table,    \* the row "kite" of broker_access_tokens
  issued,   \* the request tokens: those of browser issued, and 0 if there is a
            \* KITE_REQUEST_TOKEN
  spent,    \* the request tokens Kite has exchanged
  pc,       \* pc[a]: the next call of a
  work,     \* work[a]: what a is doing, see Work
  held,     \* held[a]: the access token a has found or obtained
  floor,    \* history, for the properties only: floor[a] is table when a began
  seen      \* history: {"overlap"} once an exchange succeeded while the access
            \* token of another one was still to be stored

tokenVars == <<clock, redis, table, issued, spent, pc, work, held, floor, seen>>

NoKey == [login |-> 0, deadline |-> 0]
NoWork == [kind |-> "none", request |-> 0]
Work == [kind : {"none", "lookup", "session", "hook"}, request : 0 .. MaxLogins]
-----------------------------------------------------------------------------
\* _kite_access_token_expiry: six o'clock after the login.
Expiry(login) ==
  LET today == (login \div DayLength) * DayLength + ExpiryAt
  IN IF today <= login THEN today + DayLength ELSE today

\* _token_is_usable
Usable(login) == login # 0 /\ Expiry(login) > clock + Margin

\* _token_cache_ttl_seconds: at least MinTtl, even for a token about to end.
CacheTtl(login) ==
  IF Expiry(login) > clock + Margin + MinTtl
  THEN Expiry(login) - clock - Margin ELSE MinTtl

TokenInit ==
  /\ clock = 1
  /\ redis = NoKey /\ table = 0
  /\ issued \in {IF configured THEN {0} ELSE {} : configured \in EnvTokens}
  /\ spent = {} /\ seen = {}
  /\ pc = [a \in Actors |-> "idle"]
  /\ work = [a \in Actors |-> NoWork]
  /\ held = [a \in Actors |-> 0]
  /\ floor = [a \in Actors |-> 0]

\* Time passes and Redis drops the key when its time to live is over.
Tick ==
  /\ clock < MaxClock
  /\ clock' = clock + 1
  /\ redis' = IF redis.deadline <= clock' THEN NoKey ELSE redis
  /\ UNCHANGED <<table, issued, spent, pc, work, held, floor, seen>>

Goto(a, label) == pc' = [pc EXCEPT ![a] = label]

Begin(a, kind, request, label) ==
  /\ pc[a] = "idle"
  /\ Goto(a, label)
  /\ work' = [work EXCEPT ![a] = [kind |-> kind, request |-> request]]
  /\ held' = [held EXCEPT ![a] = 0]
  /\ floor' = [floor EXCEPT ![a] = table]

\* A live call needs the token.
StartLookup(a) ==
  /\ Begin(a, "lookup", 0, "get")
  /\ UNCHANGED <<clock, redis, table, issued, spent, seen>>

\* The operator logs in at Kite and is redirected to the API with a request
\* token; or an earlier redirect is sent once more; or the request names no token
\* and the configured one is meant.
StartSession(a) ==
  \E n \in issued \cup {Cardinality(issued \cup {0})} :
    /\ n <= MaxLogins
    /\ Begin(a, "session", n, "exchange")
    /\ issued' = issued \cup {n}
    /\ UNCHANGED <<clock, redis, table, spent, seen>>
-----------------------------------------------------------------------------
\* Mutant of GetCached: a cached token that is about to end is the last word.
GetCachedOnly(a) ==
  /\ pc[a] = "get"
  /\ \/ /\ Usable(redis.login)
        /\ held' = [held EXCEPT ![a] = redis.login]
        /\ Goto(a, "done")
     \/ /\ ~Usable(redis.login)
        /\ Goto(a, IF redis.login = 0 THEN "row" ELSE "raised")
        /\ UNCHANGED held
  /\ UNCHANGED <<clock, redis, table, issued, spent, work, floor, seen>>

\* The cached token is checked again: its key may outlive it.
GetCached(a) ==
  /\ pc[a] = "get"
  /\ \/ /\ Usable(redis.login)
        /\ held' = [held EXCEPT ![a] = redis.login]
        /\ Goto(a, "done")
     \/ /\ ~Usable(redis.login)
        /\ Goto(a, "row")
        /\ UNCHANGED held
  /\ UNCHANGED <<clock, redis, table, issued, spent, work, floor, seen>>

\* Without a usable token in the table, the configured request token is tried;
\* the static token is for a service that has no request token configured.
ReadRow(a) ==
  /\ pc[a] = "row"
  /\ \/ /\ Usable(table)
        /\ held' = [held EXCEPT ![a] = table]
        /\ Goto(a, "cache")
     \/ /\ ~Usable(table)
        /\ Goto(a, IF 0 \in issued THEN "exchange" ELSE IF StaticToken THEN "done" ELSE "raised")
        /\ UNCHANGED held
  /\ UNCHANGED <<clock, redis, table, issued, spent, work, floor, seen>>

\* An access token has been obtained and is not stored yet.
ToBeStored == \E a \in Actors : pc[a] = "store"

\* Mutant of Exchange: the token is cached but not stored.
ExchangeCacheOnly(a) ==
  /\ pc[a] = "exchange"
  /\ work[a].request \notin spent
  /\ spent' = spent \cup {work[a].request}
  /\ held' = [held EXCEPT ![a] = clock]
  /\ Goto(a, "cache")
  /\ seen' = IF ToBeStored THEN {"overlap"} ELSE seen
  /\ UNCHANGED <<clock, redis, table, issued, work, floor>>

\* Kite opens a session for the request token.
Exchange(a) ==
  /\ pc[a] = "exchange"
  /\ work[a].request \notin spent
  /\ spent' = spent \cup {work[a].request}
  /\ held' = [held EXCEPT ![a] = clock]
  /\ Goto(a, "store")
  /\ seen' = IF ToBeStored THEN {"overlap"} ELSE seen
  /\ UNCHANGED <<clock, redis, table, issued, work, floor>>

\* Kite refuses a request token that was exchanged before, also when that was
\* the first attempt of this very call, whose answer was lost, or that is stale.
Refuse(a) ==
  /\ pc[a] = "exchange"
  /\ spent' \in {spent, spent \cup {work[a].request}}
  /\ Goto(a, "raised")
  /\ UNCHANGED <<clock, redis, table, issued, work, held, floor, seen>>

\* Mutant of Store: token and expiry swapped in the call of the upsert.
StoreExpiry(a) ==
  /\ pc[a] = "store"
  /\ table' = Expiry(held[a])
  /\ Goto(a, "cache")
  /\ UNCHANGED <<clock, redis, issued, spent, work, held, floor, seen>>

\* upsert_broker_access_token: whatever row was there is replaced.
Store(a) ==
  /\ pc[a] = "store"
  /\ table' = held[a]
  /\ Goto(a, "cache")
  /\ UNCHANGED <<clock, redis, issued, spent, work, held, floor, seen>>

\* _cache_kite_token, after a look at the table or an exchange.
Cache(a) ==
  /\ pc[a] = "cache"
  /\ redis' = [login |-> held[a], deadline |-> clock + CacheTtl(held[a])]
  /\ Goto(a, "done")
  /\ UNCHANGED <<clock, table, issued, spent, work, held, floor, seen>>

\* A call to Redis, PostgreSQL or Kite raises without effect.
Raises(a) ==
  /\ pc[a] \in FaultPoints
  /\ Goto(a, "failed")
  /\ UNCHANGED <<clock, redis, table, issued, spent, work, held, floor, seen>>

\* The result or the exception reaches the caller.
Return(a) ==
  /\ pc[a] \in {"done", "raised", "failed"}
  /\ Goto(a, "idle")
  /\ work' = [work EXCEPT ![a] = NoWork]
  /\ held' = [held EXCEPT ![a] = 0]
  /\ floor' = [floor EXCEPT ![a] = 0]
  /\ UNCHANGED <<clock, redis, table, issued, spent, seen>>

\* One call of a is answered.
Call(a) ==
  \/ GetCached(a) \/ ReadRow(a) \/ Exchange(a) \/ Refuse(a) \/ Store(a)
  \/ Cache(a) \/ Raises(a)

TokenNext ==
  \/ Tick
  \/ \E a \in Readers : StartLookup(a)
  \/ \E a \in Operators : StartSession(a)
  \/ \E a \in Actors : Call(a) \/ Return(a)

TokenSpec == TokenInit /\ [][TokenNext]_tokenVars
-----------------------------------------------------------------------------
LoginTime == 0 .. MaxClock

\* Type invariant: tokens are issued of the past, every actor is at a call.
TokenTypeOK ==
  /\ clock \in 1 .. MaxClock
  /\ redis \in [login : LoginTime, deadline : Nat]
  /\ table \in LoginTime
  /\ issued \subseteq 0 .. MaxLogins /\ spent \subseteq 0 .. MaxLogins
  /\ pc \in [Actors -> Points \cup {"idle", "done", "raised", "failed"}]
  /\ work \in [Actors -> Work]
  /\ held \in [Actors -> LoginTime]
  /\ floor \in [Actors -> LoginTime] /\ seen \subseteq {"overlap"}

\* As long as exchanges were stored one by one, a lookup ends without a token, or
\* spends the configured request token, only when the table had no token that is
\* still usable: neither an old token in Redis, nor one put there late by another
\* lookup, nor an expiring key hides the session the operator opened.  (A lookup
\* whose own calls fail is another matter: "failed".)
LookupServed ==
  "overlap" \notin seen => \A a \in Actors :
    work[a].kind = "lookup" /\ pc[a] \in {"exchange", "raised"} => ~Usable(floor[a])

\* As long as exchanges were stored one by one, and whatever fails, the token in
\* Redis is one that the table has or had: flushing Redis never loses a session.
RedisTrailsTable == "overlap" \notin seen => redis.login <= table

\* The inductive form of LookupServed and RedisTrailsTable: as long as exchanges
\* were stored one by one, the row does not go back to an earlier login, so what an
\* actor read from it or saw when it began is at most as new as the row.
Past ==
  table <= clock /\ redis.login <= clock /\ \A a \in Actors : held[a] <= clock

Serial ==
  /\ \A a, b \in Actors : pc[a] = "store" /\ pc[b] = "store" => a = b
  /\ \A a \in Actors : /\ pc[a] = "store" => table <= held[a]
                       /\ pc[a] = "cache" => held[a] <= table
                       /\ floor[a] <= table

TokenInv ==
  Past /\ ("overlap" \notin seen => Serial) /\ RedisTrailsTable /\ LookupServed

\* docs/architecture/database-dictionary.md:317: "reads Redis first, then this
\* table, then static env tokens": with a static token no lookup raises.
StaticServes ==
  StaticToken => \A a \in Actors : work[a].kind = "lookup" => pc[a] # "raised"
=============================================================================
