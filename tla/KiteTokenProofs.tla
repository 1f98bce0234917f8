--------------------------- MODULE KiteTokenProofs ---------------------------
(***************************************************************************)
(* Proofs about KiteToken, for any number of processes and operators, any  *)
(* length of day, time of expiry, margin and any choice of failing calls.  *)
(***************************************************************************)
EXTENDS KiteToken, FiniteSetTheorems, TLAPS

Calls == Points \cup {"idle", "done", "raised", "failed"}

\* _kite_access_token_expiry gives a time.
LEMMA ExpiryType == ASSUME NEW l \in Nat PROVE Expiry(l) \in Nat
<1>1. l \div DayLength \in Nat
  BY TimesAssumption
<1>2. \A q \in Nat : q * DayLength \in Nat
  BY TimesAssumption
<1>. QED BY <1>1, <1>2, TimesAssumption DEF Expiry

\* A later time is of the same day or of a later one.
LEMMA DayMonotone ==
  ASSUME NEW s \in Nat, NEW t \in Nat, s <= t
  PROVE  /\ s \div DayLength \in Nat /\ t \div DayLength \in Nat
         /\ s \div DayLength <= t \div DayLength
<1>. DEFINE m == s \div DayLength
            n == t \div DayLength
<1>d. DayLength \in Nat /\ DayLength > 0
  BY TimesAssumption
<1>1. /\ m \in Nat /\ m * DayLength <= s /\ s < m * DayLength + DayLength
      /\ n \in Nat /\ n * DayLength <= t /\ t < n * DayLength + DayLength
  BY <1>d, SMTT(30)
<1>. HIDE DEF m, n
<1>2. m <= n
  <2>. SUFFICES ASSUME n + 1 <= m PROVE FALSE
    BY <1>1
  <2>1. (n + 1) * DayLength <= m * DayLength
    BY <1>1, <1>d, SMTT(30)
  <2>2. (n + 1) * DayLength = n * DayLength + DayLength
    BY <1>1, <1>d
  <2>. QED BY <1>1, <1>d, <2>1, <2>2
<1>. QED BY <1>1, <1>2 DEF m, n

\* A later login does not end earlier: the day of a login begins at its quotient.
LEMMA ExpiryMonotone ==
  ASSUME NEW l \in Nat, NEW m \in Nat, l <= m
  PROVE  Expiry(l) <= Expiry(m)
<1>. DEFINE p == l \div DayLength
            q == m \div DayLength
<1>d. DayLength \in Nat /\ DayLength > 0
  BY TimesAssumption
<1>1. p \in Nat /\ q \in Nat /\ p <= q
  BY DayMonotone
<1>. HIDE DEF p, q
<1>3. p = q \/ p * DayLength + DayLength <= q * DayLength
  <2>. SUFFICES ASSUME p + 1 <= q PROVE p * DayLength + DayLength <= q * DayLength
    BY <1>1
  <2>1. (p + 1) * DayLength <= q * DayLength
    BY <1>1, <1>d, SMTT(30)
  <2>2. (p + 1) * DayLength = p * DayLength + DayLength
    BY <1>1, <1>d
  <2>. QED BY <2>1, <2>2
<1>4. p * DayLength \in Nat /\ q * DayLength \in Nat
  BY <1>1, <1>d
<1>5. /\ Expiry(l) = IF p * DayLength + ExpiryAt <= l THEN p * DayLength + ExpiryAt + DayLength
                     ELSE p * DayLength + ExpiryAt
      /\ Expiry(m) = IF q * DayLength + ExpiryAt <= m THEN q * DayLength + ExpiryAt + DayLength
                     ELSE q * DayLength + ExpiryAt
  BY DEF Expiry, p, q
<1>. QED BY <1>d, <1>3, <1>4, <1>5, TimesAssumption
-----------------------------------------------------------------------------
\* The bounds are numbers.
LEMMA Numbers == /\ MaxClock \in Nat /\ MaxLogins \in Nat /\ Margin \in Nat
                 /\ MinTtl \in Nat /\ LoginTime \subseteq Nat
BY TimesAssumption, BoundsAssumption DEF LoginTime

\* A key of Redis lives for some time.
LEMMA CacheTtlType == ASSUME NEW l \in Nat, clock \in Nat PROVE CacheTtl(l) \in Nat
BY ExpiryType, Numbers DEF CacheTtl

\* The type invariant is inductive.
LEMMA TypeInit == TokenInit => TokenTypeOK
<1>. SUFFICES ASSUME TokenInit PROVE TokenTypeOK
  OBVIOUS
<1>1. issued \subseteq 0 .. MaxLogins
  BY Numbers DEF TokenInit
<1>2. /\ clock \in 1 .. MaxClock /\ table \in LoginTime
      /\ redis \in [login : LoginTime, deadline : Nat]
  BY Numbers, BoundsAssumption DEF TokenInit, NoKey, LoginTime
<1>3. /\ pc \in [Actors -> Calls] /\ work \in [Actors -> Work]
      /\ held \in [Actors -> LoginTime] /\ floor \in [Actors -> LoginTime]
  BY Numbers DEF TokenInit, NoWork, Work, LoginTime, Calls
<1>. QED BY <1>1, <1>2, <1>3 DEF TokenInit, TokenTypeOK, Calls

\* Every call of a reader, an operator and the clock keeps it.
LEMMA TypeStep == TokenTypeOK /\ [TokenNext]_tokenVars => TokenTypeOK'
<1>. SUFFICES ASSUME TokenTypeOK, [TokenNext]_tokenVars PROVE TokenTypeOK'
  OBVIOUS
<1>. USE Numbers DEF TokenTypeOK, LoginTime
<1>1. CASE Tick
  BY <1>1 DEF Tick, NoKey
<1>2. ASSUME NEW a \in Actors, NEW kind \in {"lookup", "session", "hook"},
             NEW n \in 0 .. MaxLogins, NEW label \in Points, Begin(a, kind, n, label)
      PROVE  /\ pc' \in [Actors -> Calls] /\ work' \in [Actors -> Work]
             /\ held' \in [Actors -> LoginTime] /\ floor' \in [Actors -> LoginTime]
  BY <1>2 DEF Begin, Goto, Calls, Work
<1>3. ASSUME NEW a \in Readers, StartLookup(a)
      PROVE  TokenTypeOK'
  <2>1. a \in Actors /\ 0 \in 0 .. MaxLogins /\ "get" \in Points
    BY DEF Actors, Points
  <2>. QED BY <1>2, <1>3, <2>1 DEF StartLookup, Calls
<1>4. ASSUME NEW a \in Operators, StartSession(a)
      PROVE  TokenTypeOK'
  <2>1. a \in Actors /\ "exchange" \in Points
    BY DEF Actors, Points
  <2>2. Cardinality(issued \cup {0}) \in Nat
    <3>1. IsFiniteSet(0 .. MaxLogins)
      BY FS_Interval
    <3>2. issued \cup {0} \subseteq 0 .. MaxLogins
      OBVIOUS
    <3>. QED BY <3>1, <3>2, FS_Subset, FS_CardinalityType
  <2>3. PICK n \in issued \cup {Cardinality(issued \cup {0})} :
          /\ n <= MaxLogins
          /\ Begin(a, "session", n, "exchange")
          /\ issued' = issued \cup {n}
          /\ UNCHANGED <<clock, redis, table, spent, seen>>
    BY <1>4 DEF StartSession
  <2>4. n \in 0 .. MaxLogins
    BY <2>2, <2>3
  <2>. QED BY <1>2, <2>1, <2>3, <2>4 DEF Calls
<1>5. ASSUME NEW a \in Actors, GetCached(a) \/ ReadRow(a)
      PROVE  TokenTypeOK'
  <2>1. CASE GetCached(a)
    <3>1. redis.login # 0 => redis.login \in LoginTime
      OBVIOUS
    <3>. QED BY <2>1, <3>1 DEF GetCached, Goto, Points
  <2>2. CASE ReadRow(a)
    BY <2>2 DEF ReadRow, Goto, Points
  <2>. QED BY <1>5, <2>1, <2>2
<1>6. ASSUME NEW a \in Actors, Exchange(a) \/ Refuse(a)
      PROVE  TokenTypeOK'
  <2>1. work[a].request \in 0 .. MaxLogins
    BY DEF Work
  <2>2. CASE Exchange(a)
    <3>1. seen' \subseteq {"overlap"}
      BY <2>2 DEF Exchange
    <3>2. spent' \subseteq 0 .. MaxLogins
      BY <2>1, <2>2 DEF Exchange
    <3>3. held' \in [Actors -> LoginTime] /\ pc' \in [Actors -> Calls]
      BY <2>2 DEF Exchange, Goto, Calls, Points
    <3>4. UNCHANGED <<clock, redis, table, issued, work, floor>>
      BY <2>2 DEF Exchange
    <3>. QED BY <3>1, <3>2, <3>3, <3>4 DEF Calls
  <2>3. CASE Refuse(a)
    BY <2>1, <2>3 DEF Refuse, Goto, Points
  <2>. QED BY <1>6, <2>2, <2>3
<1>7. ASSUME NEW a \in Actors, Store(a) \/ Raises(a) \/ Return(a)
      PROVE  TokenTypeOK'
  <2>1. CASE Store(a)
    BY <2>1 DEF Store, Goto, Points
  <2>2. CASE Raises(a)
    BY <2>2 DEF Raises, Goto, Points
  <2>3. CASE Return(a)
    BY <2>3 DEF Return, Goto, Points, NoWork, Work
  <2>. QED BY <1>7, <2>1, <2>2, <2>3
<1>8. ASSUME NEW a \in Actors, Cache(a)
      PROVE  TokenTypeOK'
  <2>1. CacheTtl(held[a]) \in Nat
    BY CacheTtlType
  <2>. QED BY <1>8, <2>1 DEF Cache, Goto, Points
<1>9. CASE UNCHANGED tokenVars
  BY <1>9 DEF tokenVars
<1>. QED BY <1>1, <1>3, <1>4, <1>5, <1>6, <1>7, <1>8, <1>9 DEF TokenNext, Call

\* Type correctness of the token handling.
THEOREM TypeCorrect == TokenSpec => []TokenTypeOK
BY TypeInit, TypeStep, PTL DEF TokenSpec
-----------------------------------------------------------------------------
\* A token that is not usable stays so, and so does any earlier one.
LEMMA UnusableStays ==
  ASSUME NEW l \in Nat, NEW m \in Nat, l <= m, clock \in Nat, clock' \in Nat,
         clock <= clock', ~Usable(m)
  PROVE  ~Usable(l)'
<1>1. Expiry(l) \in Nat /\ Expiry(m) \in Nat /\ Expiry(l) <= Expiry(m)
  BY ExpiryType, ExpiryMonotone
<1>. QED BY <1>1, Numbers DEF Usable

\* What the steps of the actors have in common: the clock only goes forward, an
\* overlap is not forgotten, and an actor changes only its own place.
LEMMA StepFrame ==
  ASSUME TokenTypeOK, [TokenNext]_tokenVars
  PROVE  clock <= clock' /\ seen \subseteq seen'
<1>1. clock \in Nat /\ seen \subseteq {"overlap"}
  BY Numbers DEF TokenTypeOK
<1>2. CASE Tick
  BY <1>1, <1>2 DEF Tick
<1>3. ASSUME NEW a \in Actors, Call(a) \/ Return(a)
      PROVE  clock' = clock /\ seen' \in {seen, {"overlap"}}
  BY <1>3 DEF Call, GetCached, ReadRow, Exchange, Refuse, Store, Cache, Raises, Return
<1>4. ASSUME NEW a \in Readers, StartLookup(a)
      PROVE  clock' = clock /\ seen' = seen
  BY <1>4 DEF StartLookup
<1>5. ASSUME NEW a \in Operators, StartSession(a)
      PROVE  clock' = clock /\ seen' = seen
  BY <1>5 DEF StartSession
<1>6. CASE UNCHANGED tokenVars
  BY <1>1, <1>6 DEF tokenVars
<1>. QED BY <1>1, <1>2, <1>3, <1>4, <1>5, <1>6 DEF TokenNext

\* Nothing that an actor, Redis or the table holds is from the future.
LEMMA PastStep ==
  ASSUME TokenTypeOK, Past, [TokenNext]_tokenVars
  PROVE  Past'
<1>. USE DEF Past
<1>t. /\ clock \in Nat /\ table \in Nat /\ redis.login \in Nat
      /\ held \in [Actors -> Nat]
  BY Numbers DEF TokenTypeOK, LoginTime
<1>1. CASE Tick
  BY <1>t, <1>1 DEF Tick, NoKey
<1>2. ASSUME NEW a \in Actors, NEW k, NEW n, NEW l, Begin(a, k, n, l),
             UNCHANGED <<clock, table, redis>>
      PROVE  Past'
  BY <1>t, <1>2 DEF Begin
<1>3. ASSUME NEW a \in Actors, NEW x \in Nat, x <= clock,
             held' = [held EXCEPT ![a] = x], UNCHANGED <<clock, table, redis>>
      PROVE  Past'
  BY <1>t, <1>3
<1>4. ASSUME NEW a \in Actors, GetCached(a) \/ ReadRow(a) \/ Exchange(a) \/ Return(a)
      PROVE  Past'
  <2>1. CASE GetCached(a)
    BY <1>t, <1>3, <2>1 DEF GetCached
  <2>2. CASE ReadRow(a)
    BY <1>t, <1>3, <2>2 DEF ReadRow
  <2>3. CASE Exchange(a)
    BY <1>t, <1>3, <2>3 DEF Exchange
  <2>4. CASE Return(a)
    BY <1>t, <1>3, <2>4 DEF Return
  <2>. QED BY <1>4, <2>1, <2>2, <2>3, <2>4
<1>5. ASSUME NEW a \in Actors, Refuse(a) \/ Store(a) \/ Cache(a) \/ Raises(a)
      PROVE  Past'
  BY <1>t, <1>5 DEF Refuse, Store, Cache, Raises
<1>6. ASSUME NEW a \in Readers, StartLookup(a)
      PROVE  Past'
  BY <1>2, <1>6 DEF StartLookup, Actors
<1>7. ASSUME NEW a \in Operators, StartSession(a)
      PROVE  Past'
  BY <1>2, <1>7 DEF StartSession, Actors
<1>8. CASE UNCHANGED tokenVars
  BY <1>8 DEF tokenVars
<1>. QED BY <1>1, <1>4, <1>5, <1>6, <1>7, <1>8 DEF TokenNext, Call

\* What the lookup of a must have shown to be without a token.
Refused(a) == work[a].kind = "lookup" /\ pc[a] \in {"exchange", "raised"}

\* Only actor a moves.
Moves(a) ==
  \A b \in Actors \ {a} : /\ pc'[b] = pc[b] /\ work'[b] = work[b]
                          /\ held'[b] = held[b] /\ floor'[b] = floor[b]

\* A step of a that leaves the table alone keeps the invariant if a itself does.
LEMMA QuietStep ==
  ASSUME TokenTypeOK, TokenTypeOK', Serial, NEW a \in Actors, Moves(a),
         UNCHANGED <<clock, table>>, redis.login <= table, redis'.login <= table,
         \A b \in Actors : Refused(b) => ~Usable(floor[b]),
         pc'[a] = "store" => table <= held'[a] /\ \A b \in Actors : pc[b] # "store",
         pc'[a] = "cache" => held'[a] <= table,
         floor'[a] <= table,
         Refused(a)' => ~Usable(floor'[a])
  PROVE  Serial' /\ RedisTrailsTable' /\ LookupServed'
<1>1. Serial'
  BY DEF Serial, Moves
<1>2. \A b \in Actors : Refused(b)' => ~Usable(floor'[b])
  BY DEF Moves, Refused
<1>3. \A l : Usable(l)' <=> Usable(l)
  BY DEF Usable
<1>. QED BY <1>1, <1>2, <1>3 DEF RedisTrailsTable, LookupServed, Refused

\* As long as exchanges were stored one by one every step keeps the invariant.
LEMMA SerialStep ==
  ASSUME TokenTypeOK, TokenTypeOK', TokenInv, [TokenNext]_tokenVars,
         "overlap" \notin seen'
  PROVE  Serial' /\ RedisTrailsTable' /\ LookupServed'
<1>. DEFINE Goal == Serial' /\ RedisTrailsTable' /\ LookupServed'
<1>t. /\ clock \in Nat /\ clock' \in Nat /\ clock <= clock'
      /\ table \in Nat /\ redis.login \in Nat /\ redis'.login \in Nat
      /\ held \in [Actors -> Nat] /\ floor \in [Actors -> Nat]
      /\ pc \in [Actors -> Calls] /\ work \in [Actors -> Work]
  BY StepFrame, Numbers DEF TokenTypeOK, LoginTime, Calls
<1>i. /\ Serial /\ redis.login <= table
      /\ \A b \in Actors : Refused(b) => ~Usable(floor[b])
  BY StepFrame DEF TokenInv, RedisTrailsTable, LookupServed, Refused
<1>s. /\ \A b \in Actors : pc[b] = "cache" => held[b] <= table
      /\ \A b \in Actors : floor[b] <= table
  BY <1>i DEF Serial
<1>1. CASE Tick
  <2>1. UNCHANGED <<table, pc, work, held, floor>> /\ redis'.login \in {0, redis.login}
    <3>1. UNCHANGED <<table, pc, work, held, floor>> /\ redis' \in {NoKey, redis}
      BY <1>1 DEF Tick
    <3>. QED BY <3>1 DEF NoKey
  <2>2. Serial' /\ RedisTrailsTable'
    <3>1. redis'.login <= table
      BY <1>t, <1>i, <2>1
    <3>2. Serial'
      BY <1>i, <2>1 DEF Serial
    <3>. QED BY <2>1, <3>1, <3>2 DEF RedisTrailsTable
  <2>3. ASSUME NEW b \in Actors, Refused(b)' PROVE ~Usable(floor[b])'
    <3>1. floor[b] \in Nat /\ ~Usable(floor[b])
      BY <1>t, <1>i, <2>1, <2>3 DEF Refused
    <3>2. PICK l \in Nat : l = floor[b]
      BY <3>1
    <3>3. l <= l /\ ~Usable(l)
      BY <3>1, <3>2
    <3>4. ~Usable(l)'
      BY <3>3, <1>t, UnusableStays
    <3>. QED BY <2>1, <3>2, <3>4 DEF Usable
  <2>. QED BY <2>2, <2>3 DEF LookupServed, Refused
<1>f. ASSUME NEW a \in Actors, NEW l, Goto(a, l),
             held' = [held EXCEPT ![a] = held'[a]], UNCHANGED <<work, floor>>
      PROVE  Moves(a) /\ pc'[a] = l /\ work'[a] = work[a] /\ floor'[a] = floor[a]
  BY <1>t, <1>f DEF Goto, Moves
<1>2. ASSUME NEW a \in Actors, NEW k, NEW n, NEW l \in {"get", "exchange"},
             Begin(a, k, n, l), k = "lookup" => l = "get",
             UNCHANGED <<clock, redis, table>>
      PROVE  Goal
  <2>1. Moves(a) /\ pc'[a] = l /\ work'[a].kind = k /\ floor'[a] = table
    BY <1>t, <1>2 DEF Begin, Goto, Moves
  <2>2. ~Refused(a)'
    BY <1>2, <2>1 DEF Refused
  <2>. QED BY <1>2, <1>t, <1>i, <2>1, <2>2, QuietStep
<1>3. ASSUME NEW a \in Actors, NEW l \in {"row", "done", "failed"}, Goto(a, l),
             held' = [held EXCEPT ![a] = held'[a]],
             UNCHANGED <<clock, table, work, floor>>, redis'.login <= table
      PROVE  Goal
  <2>1. Moves(a) /\ pc'[a] = l /\ floor'[a] <= table
    BY <1>3, <1>f, <1>s
  <2>2. ~Refused(a)'
    BY <2>1 DEF Refused
  <2>. QED BY <1>3, <1>i, <2>1, <2>2, QuietStep
<1>4. ASSUME NEW a \in Actors, GetCached(a)
      PROVE  Goal
  <2>1. held' = [held EXCEPT ![a] = held'[a]]
    BY <1>4, <1>t DEF GetCached
  <2>. QED BY <1>3, <1>4, <1>i, <2>1 DEF GetCached
<1>5. ASSUME NEW a \in Actors, ReadRow(a)
      PROVE  Goal
  <2>1. CASE Usable(table) /\ held' = [held EXCEPT ![a] = table] /\ Goto(a, "cache")
    <3>1. held'[a] = table
      BY <1>t, <2>1
    <3>2. Moves(a) /\ pc'[a] = "cache" /\ floor'[a] <= table
      BY <1>5, <1>f, <1>s, <2>1, <3>1 DEF ReadRow
    <3>3. ~Refused(a)'
      BY <3>2 DEF Refused
    <3>. QED BY <1>5, <1>i, <1>t, <3>1, <3>2, <3>3, QuietStep DEF ReadRow
  <2>2. CASE ~Usable(table) /\ UNCHANGED held
    <3>1. PICK l \in {"exchange", "done", "raised"} : Goto(a, l)
      BY <1>5, <2>2 DEF ReadRow
    <3>2. held' = [held EXCEPT ![a] = held'[a]]
      BY <1>t, <2>2
    <3>3. Moves(a) /\ pc'[a] = l /\ floor'[a] = floor[a] /\ floor[a] <= table
      BY <1>5, <1>f, <1>s, <3>1, <3>2 DEF ReadRow
    <3>4. ~Usable(floor[a])
      <4>1. Expiry(floor[a]) \in Nat /\ Expiry(table) \in Nat
            /\ Expiry(floor[a]) <= Expiry(table)
        BY <1>t, <3>3, ExpiryType, ExpiryMonotone
      <4>. QED BY <1>t, <2>2, <3>3, <4>1, Numbers DEF Usable
    <3>. QED BY <1>5, <1>i, <3>3, <3>4, QuietStep DEF ReadRow
  <2>. QED BY <1>5, <2>1, <2>2 DEF ReadRow
<1>6. ASSUME NEW a \in Actors, Exchange(a)
      PROVE  Goal
  <2>1. ~ToBeStored /\ UNCHANGED <<clock, redis, table>>
    BY <1>6 DEF Exchange
  <2>2. held'[a] = clock /\ table <= clock /\ held' = [held EXCEPT ![a] = held'[a]]
    BY <1>6, <1>t DEF Exchange, TokenInv, Past
  <2>3. Moves(a) /\ pc'[a] = "store" /\ floor'[a] <= table
    BY <1>6, <1>f, <1>s, <2>2 DEF Exchange
  <2>4. ~Refused(a)' /\ \A b \in Actors : pc[b] # "store"
    BY <2>1, <2>3 DEF Refused, ToBeStored
  <2>. QED BY <1>i, <2>1, <2>2, <2>3, <2>4, QuietStep
<1>7. ASSUME NEW a \in Actors, Refuse(a)
      PROVE  Goal
  <2>1. held' = [held EXCEPT ![a] = held'[a]]
    BY <1>7, <1>t DEF Refuse
  <2>2. Moves(a) /\ pc'[a] = "raised" /\ work'[a] = work[a] /\ floor'[a] = floor[a]
    BY <1>7, <1>f, <2>1 DEF Refuse
  <2>3. Refused(a)' => ~Usable(floor'[a])
    BY <1>7, <1>i, <2>2 DEF Refuse, Refused
  <2>. QED BY <1>7, <1>i, <1>s, <2>2, <2>3, QuietStep DEF Refuse
<1>8. ASSUME NEW a \in Actors, Store(a)
      PROVE  Goal
  <2>1. /\ pc[a] = "store" /\ pc' = [pc EXCEPT ![a] = "cache"] /\ table' = held[a]
        /\ UNCHANGED <<clock, redis, work, held, floor>>
    BY <1>8 DEF Store, Goto
  <2>2. held[a] \in Nat /\ table <= held[a]
    BY <1>t, <1>i, <2>1 DEF Serial
  <2>3. Serial'
    BY <1>t, <1>i, <2>1, <2>2 DEF Serial
  <2>4. redis.login <= table'
    BY <1>t, <1>i, <2>1, <2>2
  <2>5. ASSUME NEW b \in Actors, Refused(b)' PROVE ~Usable(floor[b])'
    BY <1>t, <1>i, <2>1, <2>5 DEF Refused, Usable
  <2>. QED BY <2>1, <2>3, <2>4, <2>5 DEF RedisTrailsTable, LookupServed, Refused
<1>9. ASSUME NEW a \in Actors, Cache(a)
      PROVE  Goal
  <2>1. redis'.login = held[a] /\ held[a] <= table /\ held' = [held EXCEPT ![a] = held'[a]]
    BY <1>9, <1>t, <1>s DEF Cache
  <2>. QED BY <1>3, <1>9, <2>1 DEF Cache
<1>10. ASSUME NEW a \in Actors, Raises(a)
       PROVE  Goal
  <2>1. held' = [held EXCEPT ![a] = held'[a]]
    BY <1>10, <1>t DEF Raises
  <2>. QED BY <1>3, <1>10, <1>i, <2>1 DEF Raises
<1>11. ASSUME NEW a \in Actors, Return(a)
       PROVE  Goal
  <2>1. Moves(a) /\ pc'[a] = "idle" /\ floor'[a] = 0
    BY <1>11, <1>t DEF Return, Goto, Moves
  <2>2. ~Refused(a)'
    BY <2>1 DEF Refused
  <2>. QED BY <1>11, <1>t, <1>i, <2>1, <2>2, QuietStep DEF Return
<1>12. ASSUME NEW a \in Readers, StartLookup(a)
       PROVE  Goal
  BY <1>2, <1>12 DEF StartLookup, Actors
<1>13. ASSUME NEW a \in Operators, StartSession(a)
       PROVE  Goal
  BY <1>2, <1>13 DEF StartSession, Actors
<1>14. CASE UNCHANGED tokenVars
  BY <1>14, <1>i DEF tokenVars, Serial, RedisTrailsTable, LookupServed, Refused, Usable
<1>. QED
  BY <1>1, <1>4, <1>5, <1>6, <1>7, <1>8, <1>9, <1>10, <1>11, <1>12, <1>13, <1>14
     DEF TokenNext, Call

\* The inductive invariant, first and step by step.
LEMMA TokenInvInit == TokenInit => TokenInv
BY Numbers DEF TokenInit, TokenInv, Past, Serial, RedisTrailsTable, LookupServed, NoKey, NoWork

LEMMA TokenInvStep ==
  ASSUME TokenTypeOK, TokenTypeOK', TokenInv, [TokenNext]_tokenVars
  PROVE  TokenInv'
<1>1. Past'
  BY PastStep DEF TokenInv
<1>2. CASE "overlap" \in seen'
  BY <1>1, <1>2 DEF TokenInv, RedisTrailsTable, LookupServed
<1>3. CASE "overlap" \notin seen'
  BY <1>1, <1>3, SerialStep DEF TokenInv
<1>. QED BY <1>2, <1>3

LEMMA TokenInvHolds == TokenSpec => []TokenInv
BY TokenInvInit, TokenInvStep, TypeCorrect, PTL DEF TokenSpec

\* The token in Redis is one that the table has or had.
THEOREM RedisTrails == TokenSpec => []RedisTrailsTable
<1>1. TokenInv => RedisTrailsTable
  BY DEF TokenInv
<1>. QED BY <1>1, TokenInvHolds, PTL

\* No lookup misses a session that was stored and is still usable.
THEOREM LookupsServed == TokenSpec => []LookupServed
<1>1. TokenInv => LookupServed
  BY DEF TokenInv
<1>. QED BY <1>1, TokenInvHolds, PTL
=============================================================================
