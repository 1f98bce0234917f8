--------------------------- MODULE LiveStoreProofs ---------------------------
(***************************************************************************)
(* Proofs about LiveStore, for every universe of symbols, every list of    *)
(* batches, any number of concurrent requests, every provider and any      *)
(* choice of failing calls.                                                *)
(***************************************************************************)
EXTENDS LiveStore, TLAPS

USE DEF Time, Deadline, Payload, Hash, NoPayload, NoHash, NoRows, NoList

\* What a refresher's job looks like, apart from where it stands.
JobOK ==
  /\ asked \in [Refreshers -> SUBSET Symbols]
  /\ full \in [Refreshers -> BOOLEAN]
  /\ stage \in [Refreshers -> {"primary", "fallback"}]
  /\ payloads \in [Refreshers -> [Symbols -> Payload]]
  /\ todo \in [Refreshers -> SUBSET Symbols]

Control ==
  /\ pc \in [Refreshers -> Points \cup {"idle", "return"}]
  /\ batch \in 0 .. Len(Batches)
  /\ latest \in [Symbols -> Payload]

\* What has happened so far is one of the things the history records.
History == seen \subseteq {"request", "full", "fault"}

Stores ==
  /\ clock \in Time
  /\ redis \in [Symbols -> Hash]
  /\ list \in [rows : [Symbols -> Payload], deadline : Deadline]
  /\ db \in [Symbols -> Payload]

\* The type invariant in its parts.
LEMMA TypeOKSplit == TypeOK <=> Stores /\ Control /\ JobOK /\ History
BY DEF TypeOK, Stores, Control, JobOK, History

\* Every batch of the worker is a set of symbols.
LEMMA BatchType == ASSUME NEW i \in 1 .. Len(Batches)
                   PROVE  Batches[i] \subseteq Symbols
BY BatchesAssumption

\* Where WritePoint sends a refresher, it is at one of its calls.
LEMMA WritePointType == ASSUME NEW R, NEW f \in BOOLEAN
                        PROVE  WritePoint(R, f) \in Points
BY DEF WritePoint, Points

\* A row remains a payload through an upsert.
LEMMA UpsertedType == ASSUME NEW row \in Payload, NEW p \in Payload
                      PROVE  Upserted(row, p) \in Payload
BY DEF Upserted

\* Beginning a refresh of known symbols keeps jobs and control well-typed.
LEMMA EnterType ==
  ASSUME Control, JobOK, NEW a \in Refreshers, NEW S \in SUBSET Symbols,
         NEW f \in BOOLEAN, NEW from \in {"primary", "fallback"},
         Enter(a, S, f, from)
  PROVE  JobOK' /\ pc' \in [Refreshers -> Points \cup {"idle", "return"}]
<1>. USE ClockAssumption DEF Enter, JobOK, Control
<1>1. NoRows \in [Symbols -> Payload]
  OBVIOUS
<1>2. JobOK'
  BY <1>1
<1>3. pc' \in [Refreshers -> Points \cup {"idle", "return"}]
  BY DEF Points
<1>. QED BY <1>2, <1>3

\* So does the end of a refresh.
LEMMA LeaveType ==
  ASSUME Control, JobOK, NEW a \in Refreshers, Leave(a)
  PROVE  JobOK' /\ Control'
<1>. USE ClockAssumption, BatchesAssumption DEF Leave, JobOK, Control
<1>1. NoRows \in [Symbols -> Payload]
  OBVIOUS
<1>2. JobOK'
  BY <1>1
<1>3. Control'
  BY <1>1 DEF Points
<1>. QED BY <1>2, <1>3

\* And so does an exception, whether or not it leads to the fallback.
LEMMA RaiseType ==
  ASSUME Control, JobOK, NEW a \in Refreshers, Raise(a)
  PROVE  JobOK' /\ Control'
<1>1. CASE Enter(a, asked[a], full[a], "fallback") /\ UNCHANGED <<batch, latest>>
  <2>1. asked[a] \in SUBSET Symbols /\ full[a] \in BOOLEAN
    BY DEF JobOK
  <2>2. JobOK' /\ pc' \in [Refreshers -> Points \cup {"idle", "return"}]
    BY <1>1, <2>1, EnterType
  <2>. QED BY <1>1, <2>2 DEF Control
<1>2. CASE Leave(a)
  BY <1>2, LeaveType
<1>. QED BY <1>1, <1>2 DEF Raise
-----------------------------------------------------------------------------
\* The type invariant is inductive.
LEMMA TypeInit == Init => TypeOK
<1>. SUFFICES ASSUME Init PROVE TypeOK
  OBVIOUS
<1>1. NoRows \in [Symbols -> Payload]
  BY ClockAssumption
<1>. QED BY <1>1, ClockAssumption, BatchesAssumption DEF Init, TypeOK

\* The history only grows, within what it records: a request of an API caller
\* adds "request" (and "full"), a failure "fault".
LEMMA HistoryChange ==
  ASSUME [Next]_vars
  PROVE  \/ seen' = seen
         \/ \E a \in Callers : StartRequest(a) /\ "request" \in seen'
                /\ seen' \in {seen \cup {"request"}, seen \cup {"request", "full"}}
         \/ seen' = seen \cup {"fault"}
<1>1. ASSUME NEW a \in Refreshers, Step(a)
      PROVE  seen' = seen
  BY <1>1 DEF Step, Fetch, NoInstrument, HSet, Expire, SetLiveSymbols, Upsert, Return
<1>2. ASSUME NEW a \in Refreshers, Fail(a) \/ LoseAnswer(a) \/ Crash(a)
      PROVE  seen' = seen \cup {"fault"}
  BY <1>2 DEF Fail, LoseAnswer, Crash
<1>3. ASSUME NEW a \in Callers, StartRequest(a)
      PROVE  "request" \in seen'
             /\ seen' \in {seen \cup {"request"}, seen \cup {"request", "full"}}
  BY <1>3 DEF StartRequest
<1>4. ASSUME Tick \/ StartCycle \/ ReadLatest \/ PublishList \/ UNCHANGED vars
      PROVE  seen' = seen
  BY <1>4 DEF Tick, StartCycle, ReadLatest, PublishList, vars
<1>. QED BY <1>1, <1>2, <1>3, <1>4 DEF Next

\* Nothing that has happened is forgotten.
LEMMA HistoryGrows == ASSUME [Next]_vars PROVE seen \subseteq seen'
BY HistoryChange

\* The history keeps its type.
LEMMA HistoryType == ASSUME TypeOK, [Next]_vars PROVE History'
<1>1. seen \subseteq {"request", "full", "fault"}
  BY DEF TypeOK
<1>. QED BY <1>1, HistoryChange DEF History

\* Every step of the refreshers and of the clock keeps the types.
LEMMA TypeStep == TypeOK /\ [Next]_vars => TypeOK'
<1>. SUFFICES ASSUME TypeOK, [Next]_vars PROVE Stores' /\ Control' /\ JobOK'
  BY HistoryType DEF TypeOK, Stores, Control, JobOK, History
<1>. USE ClockAssumption
<1>t. Stores /\ Control /\ JobOK
  BY TypeOKSplit
<1>w. Worker \in Refreshers
  BY DEF Refreshers
<1>n. NoRows \in [Symbols -> Payload]
  OBVIOUS
<1>1. CASE Tick
  <2>1. Stores'
    BY <1>1, <1>t, <1>n DEF Tick, Stores
  <2>. QED BY <1>1, <1>t, <2>1 DEF Tick, Control, JobOK, jobs
<1>2. CASE StartCycle
  <2>1. Batches[1] \in SUBSET Symbols /\ 1 \in 0 .. Len(Batches)
    BY BatchesAssumption
  <2>2. Enter(Worker, Batches[1], FALSE, "primary")
    BY <1>2 DEF StartCycle
  <2>3. JobOK' /\ pc' \in [Refreshers -> Points \cup {"idle", "return"}]
    BY <2>1, <2>2, <1>t, <1>w, EnterType
  <2>. QED BY <1>2, <1>t, <2>1, <2>3 DEF StartCycle, Stores, Control, stores
<1>3. ASSUME NEW a \in Callers, StartRequest(a)
      PROVE  Stores' /\ Control' /\ JobOK'
  <2>1. a \in Refreshers
    BY DEF Refreshers
  <2>2. PICK S \in SUBSET Symbols, f \in BOOLEAN : Enter(a, S, f, "primary")
    BY <1>3 DEF StartRequest
  <2>3. JobOK' /\ pc' \in [Refreshers -> Points \cup {"idle", "return"}]
    BY <2>1, <2>2, <1>t, EnterType
  <2>. QED BY <1>3, <1>t, <2>3 DEF StartRequest, Stores, Control, stores
<1>4. ASSUME NEW a \in Refreshers, Fetch(a)
      PROVE  Stores' /\ Control' /\ JobOK'
  <2>1. PICK quoted \in SUBSET asked[a] :
          \E summed \in SUBSET quoted :
            /\ payloads' = [payloads EXCEPT ![a] = QuotePayloads(quoted, summed)]
            /\ todo' = [todo EXCEPT ![a] = quoted]
            /\ pc' = [pc EXCEPT ![a] = WritePoint(quoted, full[a])]
    BY <1>4 DEF Fetch
  <2>p. ASSUME NEW quo, NEW summed PROVE QuotePayloads(quo, summed) \in [Symbols -> Payload]
    BY <1>t DEF QuotePayloads, Stores
  <2>2. quoted \subseteq Symbols /\ WritePoint(quoted, full[a]) \in Points
    BY <1>t, WritePointType DEF JobOK
  <2>3. Stores' /\ Control'
    BY <1>4, <1>t, <2>1, <2>2 DEF Fetch, Stores, Control, stores
  <2>4. payloads' \in [Refreshers -> [Symbols -> Payload]]
    BY <1>t, <2>1, <2>p DEF JobOK
  <2>5. JobOK'
    BY <1>4, <1>t, <2>1, <2>2, <2>4 DEF Fetch, JobOK
  <2>. QED BY <2>3, <2>5
<1>5. ASSUME NEW a \in Refreshers, NoInstrument(a)
      PROVE  Stores' /\ Control' /\ JobOK'
  BY <1>5, <1>t DEF NoInstrument, Stores, Control, JobOK, stores, jobs
<1>6. ASSUME NEW a \in Refreshers, HSet(a)
      PROVE  Stores' /\ Control' /\ JobOK'
  <2>1. ASSUME NEW h \in Hash, NEW p \in Payload PROVE Merge(h, p) \in Hash
    BY DEF Merge
  <2>2. payloads[a] \in [Symbols -> Payload]
    BY <1>t DEF JobOK
  <2>3. Stores'
    BY <1>6, <1>t, <2>1, <2>2 DEF HSet, Stores
  <2>4. Control' /\ JobOK'
    BY <1>6, <1>t DEF HSet, Control, JobOK, jobs, Points
  <2>. QED BY <2>3, <2>4
<1>7. ASSUME NEW a \in Refreshers, Expire(a)
      PROVE  Stores' /\ Control' /\ JobOK'
  <2>. DEFINE rest == todo[a] \ {First(todo[a])}
  <2>1. WritePoint(rest, full[a]) \in Points /\ rest \subseteq Symbols
    BY <1>t, WritePointType DEF JobOK
  <2>2. redis' \in [Symbols -> Hash]
    <3>. DEFINE s == First(todo[a])
                d == IF redis[s].snapshot # 0 THEN clock + Ttl ELSE 0
    <3>1. d \in Deadline
      BY <1>t DEF Stores
    <3>2. redis' = [redis EXCEPT ![s] = [redis[s] EXCEPT !.deadline = d]]
      BY <1>7, <1>t DEF Expire, Stores
    <3>3. ASSUME NEW h \in Hash PROVE [h EXCEPT !.deadline = d] \in Hash
      BY <3>1
    <3>. HIDE DEF s, d
    <3>. QED BY <1>t, <3>2, <3>3 DEF Stores
  <2>3. Stores'
    BY <1>7, <1>t, <2>2 DEF Expire, Stores
  <2>4. Control' /\ JobOK'
    BY <1>7, <1>t, <2>1 DEF Expire, Control, JobOK
  <2>. QED BY <2>3, <2>4
<1>8. ASSUME NEW a \in Refreshers, SetLiveSymbols(a)
      PROVE  Stores' /\ Control' /\ JobOK'
  <2>1. payloads[a] \in [Symbols -> Payload]
    BY <1>t DEF JobOK
  <2>2. clock + Ttl \in Deadline
    BY <1>t DEF Stores
  <2>3. Stores'
    BY <1>8, <1>t, <2>1, <2>2 DEF SetLiveSymbols, Stores
  <2>4. Control' /\ JobOK'
    BY <1>8, <1>t DEF SetLiveSymbols, Control, JobOK, jobs, Points
  <2>. QED BY <2>3, <2>4
<1>9. ASSUME NEW a \in Refreshers, db' = [s \in Symbols |-> Upserted(db[s], payloads[a][s])]
      PROVE  db' \in [Symbols -> Payload]
  <2>1. ASSUME NEW s \in Symbols PROVE db[s] \in Payload /\ payloads[a][s] \in Payload
    BY <1>t DEF JobOK, Stores
  <2>. QED BY <1>9, <2>1, UpsertedType
<1>10. ASSUME NEW a \in Refreshers, Upsert(a)
       PROVE  Stores' /\ Control' /\ JobOK'
  BY <1>10, <1>9, <1>t DEF Upsert, Stores, Control, JobOK, jobs
<1>11. ASSUME NEW a \in Refreshers, Return(a)
       PROVE  Stores' /\ Control' /\ JobOK'
  <2>1. Stores'
    BY <1>11, <1>t DEF Return, Stores, stores
  <2>2. CASE Leave(a)
    BY <2>1, <2>2, <1>t, LeaveType
  <2>3. CASE /\ batch < Len(Batches) /\ batch' = batch + 1
             /\ Enter(a, Batches[batch + 1], FALSE, "primary")
             /\ UNCHANGED latest
    <3>1. batch + 1 \in 1 .. Len(Batches)
      BY <2>3, <1>t, BatchesAssumption DEF Control
    <3>2. Batches[batch + 1] \in SUBSET Symbols
      BY <3>1, BatchType
    <3>3. JobOK' /\ pc' \in [Refreshers -> Points \cup {"idle", "return"}]
      BY <2>3, <3>2, <1>t, EnterType
    <3>. QED BY <2>1, <2>3, <3>1, <3>3, <1>t DEF Control
  <2>4. CASE pc' = [pc EXCEPT ![a] = "latest"] /\ UNCHANGED <<jobs, batch, latest>>
    BY <2>1, <2>4, <1>t DEF Control, JobOK, jobs, Points
  <2>. QED BY <1>11, <2>2, <2>3, <2>4 DEF Return
<1>12. CASE ReadLatest
  BY <1>12, <1>t DEF ReadLatest, Stores, Control, JobOK, stores, jobs, Points
<1>13. CASE PublishList
  <2>1. Control' /\ JobOK'
    BY <1>13, <1>t, <1>w, LeaveType DEF PublishList
  <2>2. Stores'
    BY <1>13, <1>t DEF PublishList, Stores, Control
  <2>. QED BY <2>1, <2>2
<1>14. ASSUME NEW a \in Refreshers, Fail(a) \/ Crash(a)
       PROVE  Stores' /\ Control' /\ JobOK'
  <2>1. Control' /\ JobOK'
    BY <1>14, <1>t, LeaveType, RaiseType DEF Fail, Crash
  <2>. QED BY <1>14, <1>t, <2>1 DEF Fail, Crash, Stores, stores
<1>15. ASSUME NEW a \in Refreshers, LoseAnswer(a)
       PROVE  Stores' /\ Control' /\ JobOK'
  <2>1. Control' /\ JobOK'
    BY <1>15, <1>t, RaiseType DEF LoseAnswer
  <2>. QED BY <1>15, <1>t, <1>9, <2>1 DEF LoseAnswer, Stores
<1>16. CASE UNCHANGED vars
  BY <1>16, <1>t DEF vars, Stores, Control, JobOK
<1>. QED
  BY <1>1, <1>2, <1>3, <1>4, <1>5, <1>6, <1>7, <1>8, <1>10, <1>11, <1>12,
     <1>13, <1>14, <1>15, <1>16 DEF Next, Step

\* Type correctness of the live store.
THEOREM TypeCorrect == Spec => []TypeOK
<1>1. Init => TypeOK
  BY TypeInit
<1>2. TypeOK /\ [Next]_vars => TypeOK'
  BY TypeStep
<1>. QED BY <1>1, <1>2, PTL DEF Spec
-----------------------------------------------------------------------------
\* The only way a step changes the table: one refresher upserts its payloads.
LEMMA DbChange ==
  ASSUME [Next]_vars
  PROVE  \/ db' = db
         \/ \E a \in Refreshers :
              db' = [s \in Symbols |-> Upserted(db[s], payloads[a][s])]
<1>1. ASSUME NEW a \in Refreshers, Step(a) \/ Fail(a) \/ LoseAnswer(a) \/ Crash(a)
      PROVE  \/ db' = db
             \/ db' = [s \in Symbols |-> Upserted(db[s], payloads[a][s])]
  BY <1>1 DEF Step, Fetch, NoInstrument, HSet, Expire, SetLiveSymbols, Upsert,
              Return, Fail, LoseAnswer, Crash, stores
<1>2. ASSUME Tick \/ StartCycle \/ (\E a \in Callers : StartRequest(a)) \/ ReadLatest
             \/ PublishList \/ UNCHANGED vars
      PROVE  db' = db
  BY <1>2 DEF Tick, StartCycle, StartRequest, ReadLatest, PublishList, vars, stores
<1>. QED BY <1>1, <1>2 DEF Next

\* A stored row is never replaced by an older one.
THEOREM NeverOlder == Spec => DbNeverOlder
<1>1. TypeOK /\ [Next]_vars => [\A s \in Symbols : db[s].snapshot <= db'[s].snapshot]_db
  <2>. SUFFICES ASSUME TypeOK, [Next]_vars, NEW s \in Symbols
                PROVE  db[s].snapshot <= db'[s].snapshot
    OBVIOUS
  <2>1. db[s].snapshot \in Nat
    BY ClockAssumption DEF TypeOK
  <2>2. ASSUME NEW a \in Refreshers,
               db' = [x \in Symbols |-> Upserted(db[x], payloads[a][x])]
        PROVE  db[s].snapshot <= db'[s].snapshot
    <3>1. db'[s] = Upserted(db[s], payloads[a][s])
      BY <2>2
    <3>. QED BY <2>1, <3>1 DEF Upserted
  <2>3. CASE db' = db
    BY <2>1, <2>3
  <2>. QED BY <2>2, <2>3, DbChange
<1>. QED BY <1>1, TypeCorrect, PTL DEF Spec, DbNeverOlder
-----------------------------------------------------------------------------
\* What one refresher may hold: payloads of one stamp.
Stamped(f) == \E t \in Time : f \in [Symbols -> Register!Whole(t) \cup {NoPayload}]

\* In a payload function of one stamp every payload is whole.
LEMMA StampedWhole == ASSUME NEW f, Stamped(f), NEW s \in Symbols
                      PROVE  IsWhole(f[s])
BY DEF Stamped, IsWhole, Register!Whole

\* No payloads at all are payloads of one stamp.
LEMMA NoRowsStamped == Stamped(NoRows)
<1>1. 1 \in Time /\ NoRows \in [Symbols -> Register!Whole(1) \cup {NoPayload}]
  BY ClockAssumption
<1>. QED BY <1>1 DEF Stamped

\* What a fetch builds (_live_quote_payload) carries one stamp.
LEMMA QuotePayloadsStamped ==
  ASSUME clock \in Time, NEW quoted, NEW summed
  PROVE  Stamped(QuotePayloads(quoted, summed))
<1>1. QuotePayloads(quoted, summed) \in [Symbols -> Register!Whole(clock) \cup {NoPayload}]
  BY DEF QuotePayloads, Register!Whole
<1>. QED BY <1>1 DEF Stamped

\* Only Fetch gives a refresher payloads; every other step keeps or drops them.
LEMMA PayloadsChange ==
  ASSUME TypeOK, [Next]_vars, NEW b \in Refreshers
  PROVE  \/ payloads'[b] \in {payloads[b], NoRows}
         \/ \E quoted, summed : payloads'[b] = QuotePayloads(quoted, summed)
<1>t. payloads \in [Refreshers -> [Symbols -> Payload]]
  BY DEF TypeOK
<1>1. ASSUME NEW a \in Refreshers, Fetch(a)
      PROVE  \/ payloads'[b] = payloads[b]
             \/ \E quoted, summed : payloads'[b] = QuotePayloads(quoted, summed)
  <2>1. PICK quoted, summed : payloads' = [payloads EXCEPT ![a] = QuotePayloads(quoted, summed)]
    BY <1>1 DEF Fetch
  <2>. QED BY <1>t, <2>1
<1>2. ASSUME NEW a \in Refreshers, Leave(a)
      PROVE  payloads'[b] \in {payloads[b], NoRows}
  BY <1>t, <1>2 DEF Leave
<1>3. ASSUME NEW a \in Refreshers, NEW S, NEW f, NEW from, Enter(a, S, f, from)
      PROVE  payloads'[b] \in {payloads[b], NoRows}
  BY <1>t, <1>3 DEF Enter
<1>4. ASSUME NEW a \in Refreshers, Fail(a) \/ LoseAnswer(a) \/ Crash(a) \/ Return(a)
      PROVE  payloads'[b] \in {payloads[b], NoRows}
  BY <1>2, <1>3, <1>4 DEF Fail, LoseAnswer, Crash, Return, Raise, jobs
<1>5. ASSUME NEW a \in Refreshers,
             NoInstrument(a) \/ HSet(a) \/ Expire(a) \/ SetLiveSymbols(a) \/ Upsert(a)
      PROVE  payloads'[b] = payloads[b]
  BY <1>5 DEF NoInstrument, HSet, Expire, SetLiveSymbols, Upsert, jobs
<1>6. ASSUME StartCycle \/ (\E a \in Callers : StartRequest(a)) \/ PublishList
      PROVE  payloads'[b] \in {payloads[b], NoRows}
  BY <1>2, <1>3, <1>6 DEF StartCycle, StartRequest, PublishList, Refreshers
<1>7. ASSUME Tick \/ ReadLatest \/ UNCHANGED vars
      PROVE  payloads'[b] = payloads[b]
  BY <1>7 DEF Tick, ReadLatest, vars, jobs
<1>. QED BY <1>1, <1>4, <1>5, <1>6, <1>7 DEF Next, Step

\* Likewise for the rows the worker has read and for the published list.
LEMMA ListChange ==
  ASSUME TypeOK, [Next]_vars
  PROVE  /\ latest' \in {latest, NoRows, db}
         /\ \/ list'.rows \in {list.rows, NoRows, latest}
            \/ \E a \in Refreshers : pc[a] = "symbols" /\ list'.rows = payloads[a]
<1>1. ASSUME NEW a \in Refreshers, SetLiveSymbols(a)
      PROVE  /\ latest' = latest
             /\ pc[a] = "symbols" /\ list'.rows = payloads[a]
  BY <1>1 DEF SetLiveSymbols
<1>2. ASSUME NEW a \in Refreshers,
             Fail(a) \/ LoseAnswer(a) \/ Crash(a) \/ Return(a)
      PROVE  latest' \in {latest, NoRows} /\ list' = list
  BY <1>2 DEF Fail, LoseAnswer, Crash, Return, Raise, Leave, stores
<1>3. ASSUME NEW a \in Refreshers,
             Fetch(a) \/ NoInstrument(a) \/ HSet(a) \/ Expire(a) \/ Upsert(a)
      PROVE  latest' = latest /\ list' = list
  BY <1>3 DEF Fetch, NoInstrument, HSet, Expire, Upsert, stores
<1>4. CASE PublishList
  BY <1>4 DEF PublishList, Leave
<1>5. ASSUME StartCycle \/ (\E a \in Callers : StartRequest(a)) \/ ReadLatest
             \/ UNCHANGED vars
      PROVE  latest' \in {latest, db} /\ list' = list
  BY <1>5 DEF StartCycle, StartRequest, ReadLatest, vars, stores
<1>6. CASE Tick
  BY <1>6 DEF Tick
<1>. QED BY <1>1, <1>2, <1>3, <1>4, <1>5, <1>6 DEF Next, Step

\* The inductive invariant behind wholeness and refinement.
LEMMA StoreInvHolds == Spec => []StoreInv
<1>1. Init => StoreInv
  <2>. SUFFICES ASSUME Init PROVE StoreInv
    OBVIOUS
  <2>1. ASSUME NEW s \in Symbols PROVE IsWhole(NoRows[s])
    BY DEF IsWhole
  <2>2. list.rows = NoRows /\ db = NoRows /\ latest = NoRows
    BY DEF Init
  <2>3. ASSUME NEW a \in Refreshers PROVE Stamped(payloads[a])
    BY NoRowsStamped DEF Init
  <2>. QED BY <2>1, <2>2, <2>3 DEF StoreInv, StoredPayloadsWhole, Stamped
<1>2. TypeOK /\ StoreInv /\ [Next]_vars => StoreInv'
  <2>. SUFFICES ASSUME TypeOK, StoreInv, [Next]_vars PROVE StoreInv'
    OBVIOUS
  <2>1. ASSUME NEW a \in Refreshers PROVE Stamped(payloads[a])
    BY DEF StoreInv, Stamped
  <2>2. ASSUME NEW a \in Refreshers PROVE Stamped(payloads'[a])
    <3>1. clock \in Time
      BY DEF TypeOK
    <3>. QED BY <2>1, <3>1, PayloadsChange, NoRowsStamped, QuotePayloadsStamped
  <2>3. ASSUME NEW s \in Symbols, NEW a \in Refreshers
        PROVE  IsWhole(db[s]) /\ IsWhole(list.rows[s]) /\ IsWhole(latest[s])
               /\ IsWhole(payloads[a][s]) /\ IsWhole(NoRows[s])
    BY <2>1, StampedWhole, NoRowsStamped DEF StoreInv, StoredPayloadsWhole
  <2>4. Refreshers # {}
    BY DEF Refreshers
  <2>5. ASSUME NEW s \in Symbols PROVE IsWhole(db'[s])
    <3>1. ASSUME NEW a \in Refreshers,
                 db' = [x \in Symbols |-> Upserted(db[x], payloads[a][x])]
          PROVE  IsWhole(db'[s])
      BY <3>1, <2>3 DEF Upserted
    <3>. QED BY <3>1, <2>3, <2>4, DbChange
  <2>6. ASSUME NEW s \in Symbols PROVE IsWhole(list'.rows[s]) /\ IsWhole(latest'[s])
    BY <2>3, <2>4, ListChange
  <2>. QED BY <2>2, <2>5, <2>6 DEF StoreInv, StoredPayloadsWhole, IsWhole, Stamped
<1>. QED BY <1>1, <1>2, TypeCorrect, PTL DEF Spec

\* Stored and listed payloads are each the payload of one refresh.
THEOREM PayloadsWhole == Spec => []StoredPayloadsWhole
<1>1. StoreInv => StoredPayloadsWhole
  BY DEF StoreInv
<1>. QED BY <1>1, StoreInvHolds, PTL

\* The table implements the register of the newest payload per symbol.
THEOREM Refinement == Spec => RegisterSpec
<1>1. Init => Register!Init
  BY DEF Init, Register!Init
<1>2. TypeOK /\ StoreInv /\ [Next]_vars => [Register!Next]_db
  <2>. SUFFICES ASSUME TypeOK, StoreInv, [Next]_vars, db' # db
                PROVE  Register!Next
    OBVIOUS
  <2>1. PICK a \in Refreshers :
          db' = [s \in Symbols |-> Upserted(db[s], payloads[a][s])]
    BY DbChange
  <2>2. PICK t \in Time : payloads[a] \in [Symbols -> Register!Whole(t) \cup {NoPayload}]
    BY DEF StoreInv
  <2>3. ASSUME NEW s \in Symbols
        PROVE  Upserted(db[s], payloads[a][s]) = Register!Newest(db[s], payloads[a][s])
    <3>1. payloads[a][s] # NoPayload <=> payloads[a][s].snapshot # 0
      BY <2>2 DEF Register!Whole
    <3>. QED BY <3>1 DEF Upserted, Register!Newest
  <2>4. db' = [s \in Symbols |-> Register!Newest(db[s], payloads[a][s])]
    BY <2>1, <2>3
  <2>5. Register!Publish(t)
    BY <2>2, <2>4 DEF Register!Publish
  <2>. QED BY <2>5 DEF Register!Next
<1>. QED BY <1>1, <1>2, TypeCorrect, StoreInvHolds, PTL
         DEF Spec, RegisterSpec, Register!Spec
-----------------------------------------------------------------------------
\* A row that is not older than n is not after the step either.
LEMMA RowsGrow ==
  ASSUME TypeOK, TypeOK', [Next]_vars, NEW s \in Symbols, NEW n \in Nat, n <= db[s].snapshot
  PROVE  n <= db'[s].snapshot
<1>1. db[s].snapshot \in Nat
  BY ClockAssumption DEF TypeOK
<1>2. ASSUME NEW a \in Refreshers,
             db' = [x \in Symbols |-> Upserted(db[x], payloads[a][x])]
      PROVE  n <= db'[s].snapshot
  <2>1. db'[s] = Upserted(db[s], payloads[a][s]) /\ payloads[a][s].snapshot \in Nat
    BY <1>2, ClockAssumption DEF TypeOK
  <2>. QED BY <1>1, <2>1 DEF Upserted
<1>. QED BY <1>1, <1>2, DbChange

\* No refresh under way is to write live:symbols.
Scoped == \A a \in Refreshers : ~full[a] /\ pc[a] # "symbols"

\* Without a request for the universe every refresh stays a scoped one.
LEMMA ScopedStep ==
  ASSUME TypeOK, Scoped, [Next]_vars, "full" \notin seen'
  PROVE  Scoped'
<1>. USE DEF Scoped
<1>t. /\ pc \in [Refreshers -> Points \cup {"idle", "return"}]
      /\ full \in [Refreshers -> BOOLEAN]
  BY DEF TypeOK
<1>1. ASSUME NEW a \in Refreshers, NEW S, NEW from, Enter(a, S, FALSE, from)
      PROVE  Scoped'
  BY <1>t, <1>1 DEF Enter
<1>2. ASSUME NEW a \in Refreshers, Leave(a)
      PROVE  Scoped'
  BY <1>t, <1>2 DEF Leave
<1>3. ASSUME NEW a \in Refreshers, Fail(a) \/ LoseAnswer(a) \/ Crash(a)
      PROVE  Scoped'
  <2>1. full[a] = FALSE
    BY <1>t
  <2>. QED BY <1>1, <1>2, <1>3, <2>1 DEF Fail, LoseAnswer, Crash, Raise
<1>4. ASSUME NEW a \in Refreshers, NEW R, pc' = [pc EXCEPT ![a] = WritePoint(R, full[a])],
             UNCHANGED full
      PROVE  Scoped'
  <2>1. WritePoint(R, full[a]) # "symbols"
    BY DEF WritePoint
  <2>. QED BY <1>t, <1>4, <2>1
<1>5. ASSUME NEW a \in Refreshers, Fetch(a) \/ Expire(a)
      PROVE  Scoped'
  BY <1>4, <1>5 DEF Fetch, Expire
<1>6. ASSUME NEW a \in Refreshers,
             NoInstrument(a) \/ HSet(a) \/ SetLiveSymbols(a) \/ Upsert(a)
      PROVE  Scoped'
  BY <1>t, <1>6 DEF NoInstrument, HSet, SetLiveSymbols, Upsert, jobs
<1>7. ASSUME NEW a \in Refreshers, Return(a)
      PROVE  Scoped'
  <2>1. CASE pc' = [pc EXCEPT ![a] = "latest"] /\ UNCHANGED jobs
    BY <1>t, <2>1 DEF jobs
  <2>. QED BY <1>1, <1>2, <1>7, <2>1 DEF Return
<1>8. ASSUME Tick \/ UNCHANGED vars
      PROVE  Scoped'
  BY <1>8 DEF Tick, vars, jobs
<1>9. ASSUME StartCycle \/ (\E a \in Callers : StartRequest(a))
      PROVE  Scoped'
  BY <1>1, <1>9 DEF StartCycle, StartRequest, Refreshers
<1>10. ASSUME ReadLatest \/ PublishList
       PROVE  Scoped'
  <2>1. CASE ReadLatest
    BY <1>t, <2>1 DEF ReadLatest, jobs
  <2>2. CASE PublishList
    BY <1>2, <2>2 DEF PublishList, Refreshers
  <2>. QED BY <1>10, <2>1, <2>2
<1>. QED BY <1>3, <1>5, <1>6, <1>7, <1>8, <1>9, <1>10 DEF Next, Step

\* What is listed, and what the worker is about to list, is at most as new as the rows.
Trails == \A s \in Symbols : /\ list.rows[s].snapshot <= db[s].snapshot
                             /\ latest[s].snapshot <= db[s].snapshot
ScopedInv == "full" \notin seen => Scoped /\ Trails

LEMMA ScopedInvHolds == Spec => []ScopedInv
<1>1. Init => ScopedInv
  BY DEF Init, Scoped, ScopedInv, Trails
<1>2. TypeOK /\ TypeOK' /\ ScopedInv /\ [Next]_vars => ScopedInv'
  <2>. SUFFICES ASSUME TypeOK, TypeOK', ScopedInv, [Next]_vars, "full" \notin seen'
                PROVE  Scoped' /\ Trails'
    BY DEF ScopedInv
  <2>0. Scoped /\ Trails
    BY HistoryGrows DEF ScopedInv
  <2>1. Scoped'
    BY <2>0, ScopedStep
  <2>2. ASSUME NEW s \in Symbols
        PROVE  /\ list'.rows[s].snapshot <= db[s].snapshot
               /\ latest'[s].snapshot <= db[s].snapshot
    <3>1. /\ latest' \in {latest, NoRows, db}
          /\ list'.rows \in {list.rows, NoRows, latest}
      BY <2>0, ListChange DEF Scoped
    <3>2. db[s].snapshot \in Nat
      BY ClockAssumption DEF TypeOK
    <3>. QED BY <2>0, <3>1, <3>2 DEF Trails
  <2>3. ASSUME NEW s \in Symbols
        PROVE  list'.rows[s].snapshot \in Nat /\ latest'[s].snapshot \in Nat
    <3>1. list'.rows[s] \in Payload /\ latest'[s] \in Payload
      BY DEF TypeOK
    <3>. QED BY <3>1, ClockAssumption
  <2>4. ASSUME NEW s \in Symbols
        PROVE  /\ list'.rows[s].snapshot <= db'[s].snapshot
               /\ latest'[s].snapshot <= db'[s].snapshot
    BY <2>2, <2>3, RowsGrow
  <2>. QED BY <2>1, <2>4 DEF Trails
<1>. QED BY <1>1, <1>2, TypeCorrect, PTL DEF Spec

\* live:symbols lists stored rows as long as requests refresh single symbols.
THEOREM ListTrails == Spec => []ListTrailsDb
<1>1. ScopedInv => ListTrailsDb
  BY DEF ScopedInv, Trails, ListTrailsDb
<1>. QED BY <1>1, ScopedInvHolds, PTL

\* Who gets the worker to publish the list, and what happens to the list before.
LEMMA PublishStep ==
  ASSUME TypeOK, Scoped, [Next]_vars
  PROVE  /\ pc'[Worker] = "list" =>
              \/ latest' = db /\ list' = list
              \/ pc[Worker] = "list" /\ latest' = latest /\ list'.rows \in {list.rows, NoRows}
         /\ \/ list' = list
            \/ list'.deadline = 0
            \/ pc[Worker] = "list" /\ list'.rows = latest
<1>. USE DEF Refreshers
<1>t. pc \in [Refreshers -> Points \cup {"idle", "return"}]
  BY DEF TypeOK
<1>. DEFINE Goal == /\ pc'[Worker] = "list" =>
                         \/ latest' = db /\ list' = list
                         \/ pc[Worker] = "list" /\ latest' = latest /\ list'.rows \in {list.rows, NoRows}
                    /\ \/ list' = list
                       \/ list'.deadline = 0
                       \/ pc[Worker] = "list" /\ list'.rows = latest
<1>1. ASSUME NEW a \in Refreshers, NEW S, NEW f, NEW from,
             Enter(a, S, f, from), UNCHANGED list, a = Worker \/ latest' = latest
      PROVE  Goal
  BY <1>t, <1>1 DEF Enter
<1>2. ASSUME NEW a \in Refreshers, Leave(a), UNCHANGED list PROVE Goal
  BY <1>t, <1>2 DEF Leave
<1>3. ASSUME NEW a \in Refreshers, Fail(a) \/ LoseAnswer(a) \/ Crash(a) PROVE Goal
  BY <1>1, <1>2, <1>3 DEF Fail, LoseAnswer, Crash, Raise, stores
<1>4. ASSUME NEW a \in Refreshers, NEW l, l # "list", pc' = [pc EXCEPT ![a] = l],
             UNCHANGED <<list, latest>>
      PROVE  Goal
  BY <1>t, <1>4
<1>5. ASSUME NEW a \in Refreshers, Fetch(a) \/ Expire(a) PROVE Goal
  <2>1. \A R : WritePoint(R, full[a]) # "list"
    BY DEF WritePoint
  <2>. QED BY <1>4, <1>5, <2>1 DEF Fetch, Expire, stores
<1>6. ASSUME NEW a \in Refreshers, NoInstrument(a) \/ HSet(a) \/ Upsert(a) PROVE Goal
  BY <1>4, <1>6 DEF NoInstrument, HSet, Upsert, stores
<1>7. ASSUME NEW a \in Refreshers, SetLiveSymbols(a) PROVE FALSE
  BY <1>7 DEF SetLiveSymbols, Scoped
<1>8. ASSUME NEW a \in Refreshers, Return(a) PROVE Goal
  BY <1>1, <1>2, <1>4, <1>8 DEF Return, stores
<1>9. CASE StartCycle \/ (\E a \in Callers : StartRequest(a))
  BY <1>1, <1>9 DEF StartCycle, StartRequest, stores
<1>10. CASE ReadLatest
  BY <1>10 DEF ReadLatest, stores
<1>11. CASE PublishList
  BY <1>t, <1>11 DEF PublishList, Leave
<1>12. CASE Tick \/ UNCHANGED vars
  BY <1>12 DEF Tick, vars, NoList
<1>. QED BY <1>3, <1>5, <1>6, <1>7, <1>8, <1>9, <1>10, <1>11, <1>12 DEF Next, Step

\* As long as requests refresh single symbols, the list that run_live_worker_cycle
\* publishes has every symbol of the list it replaces: it is read back from the table
\* after the last batch, and whatever was listed has a row there.
THEOREM ListKept == Spec => ListNeverShrinks
<1>. DEFINE Kept == "full" \notin seen /\ pc[Worker] = "list" =>
                      \A s \in Symbols : list.rows[s].snapshot # 0 => latest[s].snapshot # 0
            Body == "full" \notin seen /\ list.deadline # 0 /\ list'.deadline # 0 =>
                      \A s \in Symbols : list.rows[s].snapshot # 0 => list'.rows[s].snapshot # 0
<1>1. Init => Kept
  BY DEF Init, Refreshers
<1>2. TypeOK /\ ScopedInv /\ Kept /\ [Next]_vars => Kept' /\ [Body]_list
  <2>. SUFFICES ASSUME TypeOK, ScopedInv, Kept, [Next]_vars, "full" \notin seen
                PROVE  Kept' /\ [Body]_list
    BY HistoryGrows
  <2>1. Scoped /\ Trails
    BY DEF ScopedInv
  <2>2. \A s \in Symbols : list.rows[s].snapshot # 0 => db[s].snapshot # 0
    <3>. SUFFICES ASSUME NEW s \in Symbols PROVE list.rows[s].snapshot # 0 => db[s].snapshot # 0
      OBVIOUS
    <3>1. list.rows[s].snapshot \in Nat /\ db[s].snapshot \in Nat
      BY ClockAssumption DEF TypeOK
    <3>. QED BY <2>1, <3>1 DEF Trails
  <2>3. Kept'
    BY <2>1, <2>2, PublishStep DEF NoRows, NoPayload
  <2>4. [Body]_list
    BY <2>1, PublishStep
  <2>. QED BY <2>3, <2>4
<1>. QED BY <1>1, <1>2, ScopedInvHolds, TypeCorrect, PTL DEF Spec, ListNeverShrinks
-----------------------------------------------------------------------------
\* As long as no call has failed, a hash newer than the stored row belongs to a
\* refresh that is still under way.
THEOREM AheadOnlyInFlight == Spec => []RedisAheadOnlyInFlight
<1>. DEFINE Writing == {"hset", "expire", "symbols", "upsert"}
            Owner(b, s) == payloads[b][s].snapshot = redis[s].snapshot /\ pc[b] \in Writing
<1>1. Init => RedisAheadOnlyInFlight
  BY DEF Init, RedisAheadOnlyInFlight
<1>2. TypeOK /\ TypeOK' /\ RedisAheadOnlyInFlight /\ [Next]_vars => RedisAheadOnlyInFlight'
  <2>. SUFFICES ASSUME TypeOK, TypeOK', RedisAheadOnlyInFlight, [Next]_vars,
                       "fault" \notin seen',
                       NEW s \in Symbols, redis'[s].snapshot > db'[s].snapshot
                PROVE  \E b \in Refreshers : Owner(b, s)'
    BY DEF RedisAheadOnlyInFlight
  <2>t. /\ pc \in [Refreshers -> Points \cup {"idle", "return"}]
        /\ payloads \in [Refreshers -> [Symbols -> Payload]]
        /\ redis \in [Symbols -> Hash] /\ db \in [Symbols -> Payload]
        /\ redis' \in [Symbols -> Hash] /\ db' \in [Symbols -> Payload]
    BY DEF TypeOK
  <2>n. /\ redis[s].snapshot \in Nat /\ db[s].snapshot \in Nat
        /\ redis'[s].snapshot \in Nat /\ db'[s].snapshot \in Nat
    BY <2>t, ClockAssumption
  <2>d. db[s].snapshot <= db'[s].snapshot
    BY <2>n, RowsGrow
  <2>k. ASSUME redis'[s].snapshot = redis[s].snapshot
        PROVE  \E b \in Refreshers : Owner(b, s)
    BY <2>n, <2>d, <2>k, HistoryGrows DEF RedisAheadOnlyInFlight
  <2>1. ASSUME NEW a \in Refreshers, pc[a] \notin Writing,
               redis'[s].snapshot = redis[s].snapshot,
               \A b \in Refreshers \ {a} : pc'[b] = pc[b] /\ payloads'[b] = payloads[b]
        PROVE  \E b \in Refreshers : Owner(b, s)'
    <3>1. PICK b \in Refreshers : Owner(b, s)
      BY <2>k, <2>1
    <3>. QED BY <3>1, <2>1
  <2>2. ASSUME NEW a \in Refreshers, NEW S, NEW f, NEW from, Enter(a, S, f, from)
        PROVE  \A b \in Refreshers \ {a} : pc'[b] = pc[b] /\ payloads'[b] = payloads[b]
    BY <2>t, <2>2 DEF Enter
  <2>3. ASSUME NEW a \in Refreshers, Leave(a)
        PROVE  \A b \in Refreshers \ {a} : pc'[b] = pc[b] /\ payloads'[b] = payloads[b]
    BY <2>t, <2>3 DEF Leave
  <2>4. CASE Tick
    <3>1. redis'[s].snapshot = redis[s].snapshot
      BY <2>n, <2>4 DEF Tick
    <3>. QED BY <2>k, <2>4, <3>1 DEF Tick, jobs
  <2>5. CASE StartCycle
    <3>1. Worker \in Refreshers /\ pc[Worker] \notin Writing /\ redis' = redis
      BY <2>5 DEF StartCycle, Refreshers, stores
    <3>. QED BY <2>1, <2>2, <2>5, <3>1 DEF StartCycle
  <2>6. ASSUME NEW a \in Callers, StartRequest(a)
        PROVE  \E b \in Refreshers : Owner(b, s)'
    <3>1. a \in Refreshers /\ pc[a] \notin Writing /\ redis' = redis
      BY <2>6 DEF StartRequest, Refreshers, stores
    <3>2. \A b \in Refreshers \ {a} : pc'[b] = pc[b] /\ payloads'[b] = payloads[b]
      BY <2>2, <2>6, <3>1 DEF StartRequest
    <3>. QED BY <2>1, <3>1, <3>2
  <2>7. ASSUME NEW a \in Refreshers, Fetch(a) \/ NoInstrument(a)
        PROVE  \E b \in Refreshers : Owner(b, s)'
    <3>1. pc[a] \notin Writing /\ redis' = redis
      BY <2>7 DEF Fetch, NoInstrument, stores
    <3>2. \A b \in Refreshers \ {a} : pc'[b] = pc[b] /\ payloads'[b] = payloads[b]
      BY <2>t, <2>7 DEF Fetch, NoInstrument, jobs
    <3>. QED BY <2>1, <3>1, <3>2
  <2>8. ASSUME NEW a \in Refreshers, HSet(a)
        PROVE  \E b \in Refreshers : Owner(b, s)'
    <3>. DEFINE x == First(todo[a])
    <3>1. /\ redis' = [redis EXCEPT ![x] = Merge(redis[x], payloads[a][x])]
          /\ pc' = [pc EXCEPT ![a] = "expire"] /\ payloads' = payloads
      BY <2>8 DEF HSet, jobs
    <3>. HIDE DEF x
    <3>2. CASE x = s
      <4>1. redis'[s].snapshot = payloads[a][s].snapshot
        BY <2>t, <3>1, <3>2 DEF Merge
      <4>. QED BY <2>t, <3>1, <4>1
    <3>3. CASE x # s
      <4>1. redis'[s] = redis[s]
        BY <2>t, <3>1, <3>3
      <4>2. PICK b \in Refreshers : Owner(b, s)
        BY <2>k, <4>1
      <4>. QED BY <2>t, <3>1, <4>1, <4>2
    <3>. QED BY <3>2, <3>3
  <2>9. ASSUME NEW a \in Refreshers, Expire(a)
        PROVE  \E b \in Refreshers : Owner(b, s)'
    <3>. DEFINE x == First(todo[a])
                d == IF redis[x].snapshot # 0 THEN clock + Ttl ELSE 0
    <3>1. redis' = [redis EXCEPT ![x] = [redis[x] EXCEPT !.deadline = d]]
      BY <2>9, <2>t DEF Expire
    <3>2. /\ pc' = [pc EXCEPT ![a] = WritePoint(todo[a] \ {x}, full[a])]
          /\ payloads' = payloads
      BY <2>9 DEF Expire
    <3>3. WritePoint(todo[a] \ {x}, full[a]) \in Writing
      BY DEF WritePoint
    <3>. HIDE DEF x, d
    <3>4. redis'[s].snapshot = redis[s].snapshot
      BY <2>t, <3>1
    <3>5. PICK b \in Refreshers : Owner(b, s)
      BY <2>k, <3>4
    <3>. QED BY <2>t, <3>2, <3>3, <3>4, <3>5
  <2>10. ASSUME NEW a \in Refreshers, SetLiveSymbols(a)
         PROVE  \E b \in Refreshers : Owner(b, s)'
    <3>1. PICK b \in Refreshers : Owner(b, s)
      BY <2>k, <2>10 DEF SetLiveSymbols
    <3>. QED BY <2>t, <2>10, <3>1 DEF SetLiveSymbols, jobs
  <2>11. ASSUME NEW a \in Refreshers, Upsert(a)
         PROVE  \E b \in Refreshers : Owner(b, s)'
    <3>1. redis' = redis /\ payloads' = payloads
      BY <2>11 DEF Upsert, jobs
    <3>2. PICK b \in Refreshers : Owner(b, s)
      BY <2>k, <3>1
    <3>3. b # a
      <4>1. db'[s] = Upserted(db[s], payloads[a][s])
        BY <2>11 DEF Upsert
      <4>2. payloads[a][s].snapshot \in Nat
        BY <2>t, ClockAssumption
      <4>3. payloads[a][s].snapshot <= db'[s].snapshot
        BY <2>n, <4>1, <4>2 DEF Upserted
      <4>. QED BY <2>n, <3>1, <3>2, <4>2, <4>3
    <3>. QED BY <2>t, <2>11, <3>1, <3>2, <3>3 DEF Upsert
  <2>12. ASSUME NEW a \in Refreshers, Return(a)
         PROVE  \E b \in Refreshers : Owner(b, s)'
    <3>1. pc[a] \notin Writing /\ redis' = redis
      BY <2>12 DEF Return, stores
    <3>2. \A b \in Refreshers \ {a} : pc'[b] = pc[b] /\ payloads'[b] = payloads[b]
      <4>1. CASE pc' = [pc EXCEPT ![a] = "latest"] /\ UNCHANGED jobs
        BY <2>t, <4>1 DEF jobs
      <4>. QED BY <2>2, <2>3, <2>12, <4>1 DEF Return
    <3>. QED BY <2>1, <3>1, <3>2
  <2>13. ASSUME ReadLatest \/ PublishList
         PROVE  \E b \in Refreshers : Owner(b, s)'
    <3>1. Worker \in Refreshers /\ pc[Worker] \notin Writing /\ redis' = redis
      BY <2>13 DEF ReadLatest, PublishList, Refreshers, stores
    <3>2. \A b \in Refreshers \ {Worker} : pc'[b] = pc[b] /\ payloads'[b] = payloads[b]
      BY <2>t, <2>3, <2>13, <3>1 DEF ReadLatest, PublishList, jobs
    <3>. QED BY <2>1, <3>1, <3>2
  <2>14. CASE UNCHANGED vars
    BY <2>k, <2>14 DEF vars
  <2>15. ASSUME NEW a \in Refreshers PROVE ~Fail(a) /\ ~LoseAnswer(a) /\ ~Crash(a)
    BY DEF Fail, LoseAnswer, Crash
  <2>. QED BY <2>4, <2>5, <2>6, <2>7, <2>8, <2>9, <2>10, <2>11, <2>12, <2>13,
              <2>14, <2>15 DEF Next, Step
<1>. QED BY <1>1, <1>2, TypeCorrect, PTL DEF Spec
-----------------------------------------------------------------------------
\* What the worker has still to store for s, seen from the stores.
Pending(s) ==
  LET p == payloads[Worker][s] IN
  p.snapshot # 0 =>
    /\ db[s].snapshot <= p.snapshot
    /\ \/ s \in todo[Worker] /\ ~(pc[Worker] = "expire" /\ s = First(todo[Worker]))
       \/ redis[s].snapshot \in {0, p.snapshot}

\* Before the first request no API caller refreshes.
LEMMA AloneStep ==
  ASSUME TypeOK, Alone, [Next]_vars, "request" \notin seen'
  PROVE  Alone' /\ \A a \in Refreshers :
                      Step(a) \/ Fail(a) \/ LoseAnswer(a) \/ Crash(a) => a = Worker
<1>t. pc \in [Refreshers -> Points \cup {"idle", "return"}]
  BY DEF TypeOK
<1>i. \A c \in Callers : pc[c] = "idle"
  BY DEF Alone
<1>w. Worker \notin Callers
  BY WorkerAssumption
<1>p. FaultPoints \subseteq Points
  BY FaultAssumption
<1>1. ASSUME NEW a \in Refreshers, Step(a) \/ Fail(a) \/ LoseAnswer(a) \/ Crash(a)
      PROVE  a = Worker
  <2>1. pc[a] # "idle"
    BY <1>1, <1>p DEF Step, Fetch, NoInstrument, HSet, Expire, SetLiveSymbols, Upsert,
                      Return, Fail, LoseAnswer, Crash, Points
  <2>. QED BY <1>i, <2>1 DEF Refreshers
<1>2. ASSUME NEW S, NEW f, NEW from, Enter(Worker, S, f, from)
      PROVE  Alone'
  BY <1>t, <1>i, <1>w, <1>2 DEF Enter, Alone, Refreshers
<1>3. ASSUME Leave(Worker)
      PROVE  Alone'
  BY <1>t, <1>i, <1>w, <1>3 DEF Leave, Alone, Refreshers
<1>4. ASSUME NEW p, pc' = [pc EXCEPT ![Worker] = p]
      PROVE  Alone'
  BY <1>t, <1>i, <1>w, <1>4 DEF Alone, Refreshers
<1>5. ASSUME Step(Worker)
      PROVE  Alone'
  BY <1>2, <1>3, <1>4, <1>5 DEF Step, Fetch, NoInstrument, HSet, Expire,
                                SetLiveSymbols, Upsert, Return
<1>6. ASSUME Fail(Worker) \/ LoseAnswer(Worker) \/ Crash(Worker)
      PROVE  Alone'
  BY <1>2, <1>3, <1>6 DEF Fail, LoseAnswer, Crash, Raise
<1>7. ASSUME StartCycle \/ ReadLatest \/ PublishList
      PROVE  Alone'
  BY <1>2, <1>3, <1>4, <1>7 DEF StartCycle, ReadLatest, PublishList
<1>8. ASSUME NEW a \in Callers PROVE ~StartRequest(a)
  BY DEF StartRequest
<1>9. ASSUME Tick \/ UNCHANGED vars
      PROVE  Alone'
  BY <1>i, <1>9 DEF Tick, vars, Alone
<1>. QED BY <1>1, <1>5, <1>6, <1>7, <1>8, <1>9 DEF Next

\* With the worker as the only refresher so far the cache is not behind the table.
THEOREM CacheNotBehind == Spec => []RedisNeverBehindDb
<1>. DEFINE Writing == {"hset", "expire", "symbols", "upsert"}
<1>w. Worker \in Refreshers
  BY DEF Refreshers
<1>1. Init => WorkerInv
  BY ClockAssumption DEF Init, WorkerInv, WorkerLeads, CacheLeads, Alone, Refreshers
<1>2. TypeOK /\ TypeOK' /\ WorkerInv /\ [Next]_vars => WorkerInv'
  <2>. SUFFICES ASSUME TypeOK, TypeOK', WorkerInv, [Next]_vars, "request" \notin seen'
                PROVE  Alone' /\ WorkerLeads'
    BY DEF WorkerInv
  <2>0. Alone /\ WorkerLeads
    BY HistoryGrows DEF WorkerInv
  <2>. SUFFICES WorkerLeads'
    BY <2>0, AloneStep
  <2>t. /\ pc \in [Refreshers -> Points \cup {"idle", "return"}]
        /\ payloads \in [Refreshers -> [Symbols -> Payload]]
        /\ todo \in [Refreshers -> SUBSET Symbols]
        /\ redis \in [Symbols -> Hash] /\ db \in [Symbols -> Payload]
        /\ redis' \in [Symbols -> Hash] /\ db' \in [Symbols -> Payload]
        /\ clock \in Nat /\ clock' \in Nat
    <3>1. /\ pc \in [Refreshers -> Points \cup {"idle", "return"}]
          /\ payloads \in [Refreshers -> [Symbols -> Payload]]
          /\ todo \in [Refreshers -> SUBSET Symbols]
          /\ redis \in [Symbols -> Hash] /\ db \in [Symbols -> Payload] /\ clock \in Time
      BY DEF TypeOK
    <3>2. redis' \in [Symbols -> Hash] /\ db' \in [Symbols -> Payload] /\ clock' \in Time
      BY DEF TypeOK
    <3>3. Time \subseteq Nat
      BY ClockAssumption DEF Time
    <3>. QED BY <3>1, <3>2, <3>3
  <2>n. ASSUME NEW s \in Symbols
        PROVE  /\ redis[s].snapshot \in Nat /\ db[s].snapshot \in Nat
               /\ redis'[s].snapshot \in Nat /\ db'[s].snapshot \in Nat
               /\ payloads[Worker][s].snapshot \in Nat
    BY <1>w, <2>t, ClockAssumption
  <2>i. /\ \A s \in Symbols : redis[s].snapshot # 0 => db[s].snapshot <= redis[s].snapshot
        /\ \A s \in Symbols : db[s].snapshot <= clock
        /\ \A s \in Symbols : payloads[Worker][s].snapshot <= clock
        /\ pc[Worker] \in {"symbols", "upsert"} => todo[Worker] = {}
        /\ pc[Worker] \in Writing => \A s \in Symbols : Pending(s)
    BY <2>0 DEF WorkerLeads, CacheLeads, Pending
  <2>c. clock <= clock'
    <3>1. clock' \in {clock, clock + 1}
      BY DEF Next, Tick, StartCycle, StartRequest, Step, Fetch, NoInstrument, HSet,
             Expire, SetLiveSymbols, Upsert, Return, ReadLatest, PublishList,
             Fail, LoseAnswer, Crash, vars
    <3>. QED BY <2>t, <3>1
  <2>p. ASSUME NEW s \in Symbols PROVE payloads'[Worker][s].snapshot <= clock'
    <3>1. CASE payloads'[Worker] \in {payloads[Worker], NoRows}
      BY <2>c, <2>i, <2>n, <2>t, <3>1
    <3>2. ASSUME NEW quoted, NEW summed, payloads'[Worker] = QuotePayloads(quoted, summed)
          PROVE  payloads'[Worker][s].snapshot <= clock'
      BY <2>c, <2>t, <3>2 DEF QuotePayloads
    <3>. QED BY <1>w, <3>1, <3>2, PayloadsChange
  <2>s. ASSUME \A s \in Symbols : redis'[s].snapshot # 0 => db'[s].snapshot <= redis'[s].snapshot,
               \A s \in Symbols : db'[s].snapshot <= clock',
               pc'[Worker] \in {"symbols", "upsert"} => todo'[Worker] = {},
               pc'[Worker] \in Writing => \A s \in Symbols : Pending(s)'
        PROVE  WorkerLeads'
    BY <2>p, <2>s DEF WorkerLeads, CacheLeads, Pending
  <2>1. CASE Tick
    <3>1. ASSUME NEW s \in Symbols PROVE redis'[s].snapshot \in {0, redis[s].snapshot}
      BY <2>1 DEF Tick
    <3>2. UNCHANGED <<db, pc, payloads, todo>> /\ clock' = clock + 1
      BY <2>1 DEF Tick, jobs
    <3>3. ASSUME NEW s \in Symbols, Pending(s) PROVE Pending(s)'
      BY <3>1, <3>2, <3>3 DEF Pending
    <3>4. ASSUME NEW s \in Symbols
          PROVE  /\ redis'[s].snapshot # 0 => db'[s].snapshot <= redis'[s].snapshot
                 /\ db'[s].snapshot <= clock'
      BY <3>1, <3>2, <2>i, <2>n, <2>t
    <3>. QED BY <2>s, <3>2, <3>3, <3>4, <2>i
  <2>2. ASSUME UNCHANGED <<redis, db, clock>>, pc'[Worker] \notin Writing
        PROVE  WorkerLeads'
    BY <2>2, <2>i, <2>p DEF WorkerLeads, CacheLeads
  <2>e. ASSUME NEW S, NEW f, NEW from, Enter(Worker, S, f, from)
        PROVE  pc'[Worker] \notin Writing
    BY <1>w, <2>t, <2>e DEF Enter
  <2>l. ASSUME Leave(Worker) PROVE pc'[Worker] \notin Writing
    BY <1>w, <2>t, <2>l DEF Leave
  <2>3. CASE StartCycle \/ ReadLatest \/ PublishList
    <3>1. pc'[Worker] \notin Writing
      BY <1>w, <2>t, <2>e, <2>l, <2>3 DEF StartCycle, ReadLatest, PublishList
    <3>. QED BY <2>2, <2>3, <3>1 DEF StartCycle, ReadLatest, PublishList, stores
  <2>4. CASE Fetch(Worker)
    <3>1. PICK quoted \in SUBSET asked[Worker], summed \in SUBSET asked[Worker] :
            /\ payloads' = [payloads EXCEPT ![Worker] = QuotePayloads(quoted, summed)]
            /\ todo' = [todo EXCEPT ![Worker] = quoted]
            /\ pc' = [pc EXCEPT ![Worker] = WritePoint(quoted, full[Worker])]
      BY <2>4 DEF Fetch
    <3>2. UNCHANGED <<redis, db, clock>>
      BY <2>4 DEF Fetch, stores
    <3>3. pc'[Worker] \in {"symbols", "upsert"} => todo'[Worker] = {}
      BY <1>w, <2>t, <3>1 DEF WritePoint
    <3>4. pc'[Worker] # "expire"
      BY <1>w, <2>t, <3>1 DEF WritePoint
    <3>5. ASSUME NEW s \in Symbols PROVE Pending(s)'
      <4>1. payloads'[Worker][s] = QuotePayloads(quoted, summed)[s] /\ todo'[Worker] = quoted
        BY <1>w, <2>t, <3>1
      <4>2. payloads'[Worker][s].snapshot # 0 => s \in quoted /\ payloads'[Worker][s].snapshot = clock
        BY <4>1 DEF QuotePayloads
      <4>. QED BY <2>i, <3>2, <3>4, <4>1, <4>2 DEF Pending
    <3>. QED BY <2>s, <2>i, <3>2, <3>3, <3>5
  <2>5. CASE NoInstrument(Worker)
    <3>1. pc'[Worker] \notin Writing
      BY <1>w, <2>t, <2>5 DEF NoInstrument
    <3>. QED BY <2>2, <2>5, <3>1 DEF NoInstrument, stores
  <2>6. CASE HSet(Worker)
    <3>. DEFINE x == First(todo[Worker])
    <3>1. /\ redis' = [redis EXCEPT ![x] = Merge(redis[x], payloads[Worker][x])]
          /\ pc[Worker] = "hset" /\ pc' = [pc EXCEPT ![Worker] = "expire"]
          /\ UNCHANGED <<payloads, todo, db, clock>>
      BY <2>6 DEF HSet, jobs
    <3>2. pc'[Worker] = "expire"
      BY <1>w, <2>t, <3>1
    <3>. HIDE DEF x
    <3>3. ASSUME NEW s \in Symbols
          PROVE  redis'[s].snapshot = IF s = x THEN payloads[Worker][s].snapshot
                                      ELSE redis[s].snapshot
      BY <2>t, <3>1 DEF Merge
    <3>4. ASSUME NEW s \in Symbols
          PROVE  redis'[s].snapshot # 0 => db'[s].snapshot <= redis'[s].snapshot
      BY <2>i, <3>1, <3>3 DEF Pending
    <3>5. ASSUME NEW s \in Symbols PROVE Pending(s)'
      <4>1. CASE s = x
        BY <2>i, <3>1, <3>3, <4>1 DEF Pending
      <4>2. CASE s # x
        BY <2>i, <3>1, <3>2, <3>3, <4>2 DEF Pending, x
      <4>. QED BY <4>1, <4>2
    <3>. QED BY <2>s, <2>i, <3>1, <3>2, <3>4, <3>5
  <2>7. CASE Expire(Worker)
    <3>. DEFINE x == First(todo[Worker])
                d == IF redis[x].snapshot # 0 THEN clock + Ttl ELSE 0
    <3>1. /\ redis' = [redis EXCEPT ![x] = [redis[x] EXCEPT !.deadline = d]]
          /\ pc[Worker] = "expire"
          /\ pc' = [pc EXCEPT ![Worker] = WritePoint(todo[Worker] \ {x}, full[Worker])]
          /\ todo' = [todo EXCEPT ![Worker] = todo[Worker] \ {x}]
          /\ UNCHANGED <<payloads, db, clock>>
      BY <2>7, <2>t DEF Expire
    <3>2. /\ pc'[Worker] = WritePoint(todo[Worker] \ {x}, full[Worker])
          /\ todo'[Worker] = todo[Worker] \ {x}
      BY <1>w, <2>t, <3>1
    <3>3. /\ pc'[Worker] # "expire"
          /\ pc'[Worker] \in {"symbols", "upsert"} => todo'[Worker] = {}
      BY <3>2 DEF WritePoint
    <3>. HIDE DEF d
    <3>4. ASSUME NEW s \in Symbols PROVE redis'[s].snapshot = redis[s].snapshot
      BY <2>t, <3>1
    <3>5. ASSUME NEW s \in Symbols PROVE Pending(s)'
      BY <2>i, <3>1, <3>2, <3>3, <3>4 DEF Pending
    <3>. QED BY <2>s, <2>i, <3>1, <3>3, <3>4, <3>5
  <2>8. CASE SetLiveSymbols(Worker)
    <3>1. UNCHANGED <<redis, db, clock, payloads, todo>> /\ pc[Worker] = "symbols"
          /\ pc' = [pc EXCEPT ![Worker] = "upsert"]
      BY <2>8 DEF SetLiveSymbols, jobs
    <3>2. pc'[Worker] = "upsert"
      BY <1>w, <2>t, <3>1
    <3>3. ASSUME NEW s \in Symbols PROVE Pending(s)'
      BY <2>i, <3>1, <3>2 DEF Pending
    <3>. QED BY <2>s, <2>i, <3>1, <3>2, <3>3
  <2>u. ASSUME pc[Worker] = "upsert", UNCHANGED <<redis, clock>>,
               db' = [s \in Symbols |-> Upserted(db[s], payloads[Worker][s])],
               pc'[Worker] \notin Writing
        PROVE  WorkerLeads'
    <3>1. ASSUME NEW s \in Symbols
          PROVE  /\ redis'[s].snapshot # 0 => db'[s].snapshot <= redis'[s].snapshot
                 /\ db'[s].snapshot <= clock'
      <4>1. db'[s] = Upserted(db[s], payloads[Worker][s])
        BY <2>u
      <4>2. Pending(s) /\ todo[Worker] = {}
        BY <2>i, <2>u
      <4>. QED BY <2>i, <2>n, <2>u, <4>1, <4>2 DEF Upserted, Pending
    <3>. QED BY <2>p, <2>u, <3>1 DEF WorkerLeads, CacheLeads
  <2>9. CASE Upsert(Worker)
    <3>1. pc'[Worker] \notin Writing
      BY <1>w, <2>t, <2>9 DEF Upsert
    <3>. QED BY <2>u, <2>9, <3>1 DEF Upsert
  <2>10. CASE LoseAnswer(Worker)
    <3>1. pc'[Worker] \notin Writing
      BY <2>e, <2>l, <2>10 DEF LoseAnswer, Raise
    <3>. QED BY <2>u, <2>10, <3>1 DEF LoseAnswer
  <2>11. CASE Return(Worker)
    <3>1. CASE pc' = [pc EXCEPT ![Worker] = "latest"]
      BY <1>w, <2>2, <2>t, <2>11, <3>1 DEF Return, stores
    <3>. QED BY <2>2, <2>e, <2>l, <2>11, <3>1 DEF Return, stores
  <2>12. CASE Fail(Worker) \/ Crash(Worker)
    <3>1. pc'[Worker] \notin Writing
      BY <2>e, <2>l, <2>12 DEF Fail, Crash, Raise
    <3>. QED BY <2>2, <2>12, <3>1 DEF Fail, Crash, stores
  <2>13. CASE UNCHANGED vars
    <3>1. ASSUME NEW s \in Symbols, Pending(s) PROVE Pending(s)'
      BY <2>13, <3>1 DEF vars, Pending
    <3>. QED BY <2>s, <2>i, <2>13, <3>1 DEF vars
  <2>14. ASSUME NEW a \in Callers PROVE ~StartRequest(a)
    BY DEF StartRequest
  <2>. QED BY <2>0, AloneStep, <2>1, <2>3, <2>4, <2>5, <2>6, <2>7, <2>8, <2>9, <2>10, <2>11,
              <2>12, <2>13, <2>14 DEF Next, Step
<1>3. WorkerInv => RedisNeverBehindDb
  BY DEF WorkerInv, WorkerLeads, RedisNeverBehindDb
<1>. QED BY <1>1, <1>2, <1>3, TypeCorrect, PTL DEF Spec
=============================================================================
