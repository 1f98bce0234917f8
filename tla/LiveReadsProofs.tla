--------------------------- MODULE LiveReadsProofs ---------------------------
(***************************************************************************)
(* Proofs about LiveReads, for any number of readers, callers and symbols. *)
(***************************************************************************)
EXTENDS LiveReads, LiveStoreProofs

\* A step of the readers, or of a request they serve, is a step of the store.
LEMMA StoreStep == ASSUME [ReadNext]_allVars PROVE [Next]_vars
<1>1. CASE Background
  BY <1>1 DEF Background, Next
<1>2. ASSUME NEW r \in Readers, NEW s \in Symbols,
             \/ \E cache \in {"hashes", "list"} : ReadTable(r, s, cache)
             \/ \E day \in 0 .. Day(MaxClock) : ReadCache(r, s, day)
      PROVE  UNCHANGED vars
  BY <1>2 DEF ReadTable, ReadCache
<1>3. ASSUME NEW r \in Readers, OverlayCache(r) \/ FallBack(r)
      PROVE  UNCHANGED vars
  BY <1>3 DEF OverlayCache, FallBack
<1>4. ASSUME NEW c \in Callers, NEW s \in Symbols, GetLive(c, s)
      PROVE  StartRequest(c)
  <2>1. {s} \in (SUBSET Symbols) \ {{}}
    OBVIOUS
  <2>3. "symbols" \in Requests
    BY ReadersAssumption
  <2>2. Enter(c, {s}, FALSE, "primary") /\ pc[c] = "idle" /\ seen' = seen \cup {"request"}
        /\ UNCHANGED <<clock, stores, batch, latest>>
    BY <1>4 DEF GetLive
  <2>. QED BY <2>1, <2>2, <2>3 DEF StartRequest
<1>5. ASSUME NEW c \in Callers, Refreshed(c) \/ RefreshFails(c)
      PROVE  c \in Refreshers /\ (Step(c) \/ Fail(c) \/ LoseAnswer(c) \/ Crash(c))
  BY <1>5 DEF Refreshed, RefreshFails, Step, Refreshers
<1>6. ASSUME NEW c \in Callers, ReadAgain(c) \/ ReadStored(c) \/ Respond(c)
      PROVE  UNCHANGED vars
  BY <1>6 DEF ReadAgain, ReadStored, Respond
<1>7. CASE UNCHANGED allVars
  BY <1>7 DEF allVars
<1>. QED BY <1>1, <1>2, <1>3, <1>4, <1>5, <1>6, <1>7 DEF ReadNext, Next

\* The store among its readers is the store of LiveStore: its theorems carry over.
THEOREM ReadsKeepStore == ReadSpec => Spec
<1>1. ReadInit => Init
  BY DEF ReadInit
<1>2. [ReadNext]_allVars => [Next]_vars
  BY StoreStep
<1>. QED BY <1>1, <1>2, PTL DEF ReadSpec, Spec
-----------------------------------------------------------------------------
\* The day of a later time is not an earlier day.
LEMMA DayMonotone ==
  ASSUME NEW l \in Nat, NEW m \in Nat, l <= m
  PROVE  Day(l) \in Nat /\ Day(l) <= Day(m) /\ Day(l) <= l
<1>. DEFINE p == l \div DayLength
            q == m \div DayLength
<1>d. DayLength \in Nat /\ DayLength > 0
  BY ReadersAssumption
<1>1. /\ p \in Nat /\ p * DayLength <= l /\ l < p * DayLength + DayLength
      /\ q \in Nat /\ q * DayLength <= m /\ m < q * DayLength + DayLength
  BY <1>d, SMTT(30)
<1>. HIDE DEF p, q
<1>2. p <= q
  <2>. SUFFICES ASSUME q + 1 <= p PROVE FALSE
    BY <1>1
  <2>1. (q + 1) * DayLength <= p * DayLength
    BY <1>1, <1>d, SMTT(30)
  <2>2. (q + 1) * DayLength = q * DayLength + DayLength
    BY <1>1, <1>d
  <2>3. q * DayLength \in Nat /\ p * DayLength \in Nat
    BY <1>1, <1>d
  <2>. QED BY <1>1, <1>d, <2>1, <2>2, <2>3
<1>3. p <= p * DayLength /\ p * DayLength \in Nat
  BY <1>1, <1>d, SMTT(30)
<1>. QED BY <1>1, <1>2, <1>3 DEF Day, p, q
-----------------------------------------------------------------------------
\* What a refresh that is about to fetch, or to return, holds.
ReturnInv ==
  \A a \in Refreshers :
    /\ pc[a] = "fetch" => payloads[a] = NoRows
    /\ pc[a] = "return" => \A s \in Symbols : payloads[a][s].snapshot <= db[s].snapshot

\* A refresh that returns has stored what it fetched, or something newer was there.
LEMMA ReturnInvHolds == Spec => []ReturnInv
<1>1. Init => ReturnInv
  BY DEF Init, ReturnInv
<1>2. TypeOK /\ TypeOK' /\ ReturnInv /\ [Next]_vars => ReturnInv'
  <2>. SUFFICES ASSUME TypeOK, TypeOK', ReturnInv, [Next]_vars PROVE ReturnInv'
    OBVIOUS
  <2>t. /\ pc \in [Refreshers -> Points \cup {"idle", "return"}]
        /\ payloads \in [Refreshers -> [Symbols -> Payload]]
        /\ \A s \in Symbols : db[s].snapshot \in Nat
        /\ \A s \in Symbols : \A a \in Refreshers : payloads[a][s].snapshot \in Nat
        /\ \A s \in Symbols : db'[s].snapshot \in Nat
    BY ClockAssumption DEF TypeOK, Payload
  <2>g. ASSUME NEW b \in Refreshers, pc[b] = "return"
        PROVE  \A s \in Symbols : payloads[b][s].snapshot <= db'[s].snapshot
    BY <2>t, <2>g, RowsGrow DEF ReturnInv
  <2>o. ASSUME NEW a \in Refreshers,
               \A b \in Refreshers \ {a} : pc'[b] = pc[b] /\ payloads'[b] = payloads[b],
               pc'[a] = "fetch" => payloads'[a] = NoRows,
               pc'[a] = "return" => \A s \in Symbols : payloads'[a][s].snapshot <= db'[s].snapshot
        PROVE  ReturnInv'
    <3>. SUFFICES ASSUME NEW b \in Refreshers
                  PROVE  /\ pc'[b] = "fetch" => payloads'[b] = NoRows'
                         /\ pc'[b] = "return" =>
                              \A s \in Symbols : payloads'[b][s].snapshot <= db'[s].snapshot
      BY DEF ReturnInv
    <3>. QED BY <2>g, <2>o DEF ReturnInv, NoRows
  <2>p. ASSUME NEW a \in Refreshers, NEW p, pc' = [pc EXCEPT ![a] = p],
               UNCHANGED payloads, p \notin {"fetch", "return"}
        PROVE  ReturnInv'
    BY <2>t, <2>o, <2>p
  <2>e. ASSUME NEW a \in Refreshers, NEW S, NEW f, NEW from, Enter(a, S, f, from)
        PROVE  ReturnInv'
    BY <2>t, <2>o, <2>e DEF Enter
  <2>l. ASSUME NEW a \in Refreshers, Leave(a)
        PROVE  ReturnInv'
    BY <2>t, <2>o, <2>l DEF Leave
  <2>w. Worker \in Refreshers
    BY DEF Refreshers
  <2>1. ASSUME NEW a \in Refreshers, Fetch(a)
        PROVE  ReturnInv'
    <3>1. PICK quoted \in SUBSET asked[a], summed \in SUBSET asked[a] :
            /\ payloads' = [payloads EXCEPT ![a] = QuotePayloads(quoted, summed)]
            /\ pc' = [pc EXCEPT ![a] = WritePoint(quoted, full[a])]
      BY <2>1 DEF Fetch
    <3>2. WritePoint(quoted, full[a]) \notin {"fetch", "return"}
      BY DEF WritePoint
    <3>. QED BY <2>t, <2>o, <3>1, <3>2
  <2>2. ASSUME NEW a \in Refreshers, NoInstrument(a)
        PROVE  ReturnInv'
    <3>1. /\ pc[a] = "fetch" /\ pc' = [pc EXCEPT ![a] = "return"]
          /\ UNCHANGED <<payloads, db>>
      BY <2>2 DEF NoInstrument, jobs, stores
    <3>2. payloads[a] = NoRows
      BY <3>1 DEF ReturnInv
    <3>3. \A s \in Symbols : payloads'[a][s].snapshot <= db'[s].snapshot
      BY <2>t, <3>1, <3>2 DEF NoRows, NoPayload
    <3>. QED BY <2>t, <2>o, <3>1, <3>3
  <2>3. ASSUME NEW a \in Refreshers, HSet(a) \/ SetLiveSymbols(a)
        PROVE  ReturnInv'
    BY <2>p, <2>3 DEF HSet, SetLiveSymbols, jobs
  <2>4. ASSUME NEW a \in Refreshers, Expire(a)
        PROVE  ReturnInv'
    <3>1. WritePoint(todo[a] \ {First(todo[a])}, full[a]) \notin {"fetch", "return"}
      BY DEF WritePoint
    <3>. QED BY <2>p, <2>4, <3>1 DEF Expire
  <2>5. ASSUME NEW a \in Refreshers, Upsert(a)
        PROVE  ReturnInv'
    <3>1. /\ pc' = [pc EXCEPT ![a] = "return"] /\ UNCHANGED payloads
          /\ db' = [s \in Symbols |-> Upserted(db[s], payloads[a][s])]
      BY <2>5 DEF Upsert, jobs
    <3>2. ASSUME NEW s \in Symbols PROVE payloads[a][s].snapshot <= db'[s].snapshot
      <4>1. db'[s] = Upserted(db[s], payloads[a][s])
        BY <3>1
      <4>2. db[s].snapshot \in Nat /\ payloads[a][s].snapshot \in Nat
        BY <2>t
      <4>. QED BY <4>1, <4>2 DEF Upserted
    <3>. QED BY <2>t, <2>o, <3>1, <3>2
  <2>6. ASSUME NEW a \in Refreshers, Return(a)
        PROVE  ReturnInv'
    <3>1. CASE pc' = [pc EXCEPT ![a] = "latest"] /\ UNCHANGED jobs
      BY <2>p, <3>1 DEF jobs
    <3>2. CASE Leave(a)
      BY <2>l, <3>2
    <3>3. CASE Enter(a, Batches[batch + 1], FALSE, "primary")
      BY <2>e, <3>3
    <3>. QED BY <2>6, <3>1, <3>2, <3>3 DEF Return
  <2>7. ASSUME NEW a \in Refreshers, Fail(a) \/ LoseAnswer(a) \/ Crash(a)
        PROVE  ReturnInv'
    BY <2>e, <2>l, <2>7 DEF Fail, LoseAnswer, Crash, Raise
  <2>8. ASSUME StartCycle \/ (\E a \in Callers : StartRequest(a)) \/ ReadLatest \/ PublishList
        PROVE  ReturnInv'
    <3>1. CASE StartCycle
      BY <2>w, <2>e, <3>1 DEF StartCycle
    <3>2. ASSUME NEW a \in Callers, StartRequest(a) PROVE ReturnInv'
      BY <2>e, <3>2 DEF StartRequest, Refreshers
    <3>3. CASE ReadLatest
      BY <2>w, <2>p, <3>3 DEF ReadLatest, jobs
    <3>4. CASE PublishList
      BY <2>w, <2>p, <2>l, <3>4 DEF PublishList, jobs
    <3>. QED BY <2>8, <3>1, <3>2, <3>3, <3>4
  <2>9. ASSUME Tick \/ UNCHANGED vars
        PROVE  ReturnInv'
    BY <2>9 DEF Tick, vars, jobs, ReturnInv, NoRows
  <2>. QED BY <2>1, <2>2, <2>3, <2>4, <2>5, <2>6, <2>7, <2>8, <2>9 DEF Next, Step
<1>. QED BY <1>1, <1>2, TypeCorrect, PTL DEF Spec
-----------------------------------------------------------------------------
\* What a date limit leaves of a payload is a payload.
LEMMA NotBeforeType == ASSUME NEW p \in Payload, NEW day PROVE NotBefore(p, day) \in Payload
BY ClockAssumption DEF NotBefore, Payload, NoPayload

\* The read that _live_payloads_by_symbol begins, and the one _latest_live_payload does.
BeginMerged(s, cache) ==
  [NoRead EXCEPT !.at = cache, !.kind = "merged", !.sym = s,
                 !.floor = db[s].snapshot, !.row = db[s]]
BeginLatest(s, day) ==
  LET hit == redis[s].snapshot # 0 IN
  [NoRead EXCEPT !.at = IF hit THEN "done" ELSE "table", !.sym = s,
                 !.floor = db[s].snapshot, !.notBefore = day,
                 !.answer = IF hit THEN NotBefore(HashPayload(redis[s]), day) ELSE NoPayload]

\* How a step may change the read of one reader.
LEMMA ReadChange ==
  ASSUME ReadTypeOK, [ReadNext]_allVars, NEW r \in Readers
  PROVE  \/ read'[r] = read[r]
         \/ /\ UNCHANGED vars
            /\ \E s \in Symbols, cache \in {"hashes", "list"} :
                 read'[r] = BeginMerged(s, cache)
         \/ /\ UNCHANGED vars
            /\ \E s \in Symbols, day \in 0 .. Day(MaxClock) :
                 read'[r] = BeginLatest(s, day)
         \/ /\ UNCHANGED vars
            /\ read[r].at \in {"hashes", "list"}
            /\ \E cached \in {HashPayload(redis[read[r].sym]), list.rows[read[r].sym]} :
                 read'[r] = [read[r] EXCEPT !.at = "done", !.row = NoPayload,
                                            !.answer = Overlaid(read[r].row, cached)]
         \/ /\ UNCHANGED vars
            /\ read[r].at = "table"
            /\ read'[r] = [read[r] EXCEPT !.at = "done",
                             !.answer = NotBefore(db[read[r].sym], read[r].notBefore)]
<1>t. read \in [Readers -> ReadType]
  BY DEF ReadTypeOK
<1>1. ASSUME NEW q \in Readers, NEW s \in Symbols, NEW cache \in {"hashes", "list"},
             ReadTable(q, s, cache), read'[r] # read[r]
      PROVE  UNCHANGED vars /\ read'[r] = BeginMerged(s, cache)
  BY <1>t, <1>1 DEF ReadTable, BeginMerged
<1>2. ASSUME NEW q \in Readers, NEW s \in Symbols, NEW day \in 0 .. Day(MaxClock),
             ReadCache(q, s, day), read'[r] # read[r]
      PROVE  UNCHANGED vars /\ read'[r] = BeginLatest(s, day)
  BY <1>t, <1>2 DEF ReadCache, BeginLatest
<1>3. ASSUME NEW q \in Readers, OverlayCache(q), read'[r] # read[r]
      PROVE  /\ UNCHANGED vars
             /\ read[r].at \in {"hashes", "list"}
             /\ \E cached \in {HashPayload(redis[read[r].sym]), list.rows[read[r].sym]} :
                  read'[r] = [read[r] EXCEPT !.at = "done", !.row = NoPayload,
                                             !.answer = Overlaid(read[r].row, cached)]
  <2>. DEFINE cached == IF read[q].at = "hashes" THEN HashPayload(redis[read[q].sym])
                        ELSE list.rows[read[q].sym]
              answer == Overlaid(read[q].row, cached)
  <2>1. /\ UNCHANGED vars
        /\ read[q].at \in {"hashes", "list"}
        /\ read' = [read EXCEPT ![q] = [read[q] EXCEPT !.at = "done", !.row = NoPayload,
                                                      !.answer = answer]]
    <3>1. read' = [read EXCEPT ![q].at = "done", ![q].row = NoPayload, ![q].answer = answer]
          /\ UNCHANGED vars /\ read[q].at \in {"hashes", "list"}
      BY <1>3 DEF OverlayCache
    <3>. HIDE DEF answer
    <3>. QED BY <1>t, <3>1 DEF ReadType
  <2>2. q = r
    BY <1>t, <1>3, <2>1
  <2>3. cached \in {HashPayload(redis[read[q].sym]), list.rows[read[q].sym]}
    OBVIOUS
  <2>4. read'[r] = [read[r] EXCEPT !.at = "done", !.row = NoPayload, !.answer = answer]
    BY <1>t, <2>1, <2>2
  <2>. QED BY <2>1, <2>2, <2>3, <2>4
<1>4. ASSUME NEW q \in Readers, FallBack(q), read'[r] # read[r]
      PROVE  /\ UNCHANGED vars
             /\ read[r].at = "table"
             /\ read'[r] = [read[r] EXCEPT !.at = "done",
                             !.answer = NotBefore(db[read[r].sym], read[r].notBefore)]
  <2>. DEFINE answer == NotBefore(db[read[q].sym], read[q].notBefore)
  <2>1. read' = [read EXCEPT ![q].at = "done", ![q].answer = answer]
        /\ UNCHANGED vars /\ read[q].at = "table"
    BY <1>4 DEF FallBack
  <2>. HIDE DEF answer
  <2>2. q = r
    BY <1>t, <1>4, <2>1
  <2>3. read'[r] = [read[r] EXCEPT !.at = "done", !.answer = answer]
    BY <1>t, <2>1, <2>2 DEF ReadType
  <2>. QED BY <2>1, <2>2, <2>3 DEF answer
<1>5. ASSUME \/ Background
             \/ \E c \in Callers, s \in Symbols : GetLive(c, s)
             \/ \E c \in Callers : \/ Refreshed(c) \/ RefreshFails(c)
                                   \/ ReadAgain(c) \/ ReadStored(c) \/ Respond(c)
             \/ UNCHANGED allVars
      PROVE  read'[r] = read[r]
  BY <1>5 DEF Background, GetLive, Refreshed, RefreshFails, ReadAgain, ReadStored, Respond,
              readVars, allVars
<1>6. CASE read'[r] = read[r]
  BY <1>6
<1>7. CASE read'[r] # read[r] /\ \E q \in Readers, s \in Symbols, cache \in {"hashes", "list"} :
                                  ReadTable(q, s, cache)
  BY <1>7, <1>1
<1>8. CASE read'[r] # read[r] /\ \E q \in Readers, s \in Symbols, day \in 0 .. Day(MaxClock) :
                                  ReadCache(q, s, day)
  BY <1>8, <1>2
<1>9. CASE read'[r] # read[r] /\ \E q \in Readers : OverlayCache(q)
  BY <1>9, <1>3
<1>10. CASE read'[r] # read[r] /\ \E q \in Readers : FallBack(q)
  BY <1>10, <1>4
<1>. QED BY <1>5, <1>6, <1>7, <1>8, <1>9, <1>10 DEF ReadNext

\* How a step may change the GET /live/{symbol} request of one caller.
LEMMA WebChange ==
  ASSUME ReadTypeOK, [ReadNext]_allVars, NEW c \in Callers
  PROVE  \/ web'[c] \in {web[c], NoRequest}
         \/ \E s \in Symbols :
              web'[c] = [at |-> "refresh", sym |-> s, known |-> db[s].snapshot]
         \/ /\ web[c].at = "refresh" /\ pc[c] = "return" /\ UNCHANGED db
            /\ web'[c] = [web[c] EXCEPT !.at = "again",
                            !.known = IF @ # 0 THEN @
                                        ELSE payloads[c][web[c].sym].snapshot]
         \/ /\ web[c].at = "again" /\ UNCHANGED db
            /\ \E at \in {"served", "table"} : web'[c] = [web[c] EXCEPT !.at = at]
         \/ /\ web[c].at = "table" /\ UNCHANGED db
            /\ web'[c] = [web[c] EXCEPT !.at =
                            IF db[web[c].sym] # NoPayload THEN "served" ELSE "missing"]
<1>t. web \in [Callers -> WebType]
  BY DEF ReadTypeOK
<1>. HIDE DEF NoPayload
<1>1. ASSUME NEW d \in Callers, NEW s \in Symbols, GetLive(d, s), web'[c] # web[c]
      PROVE  web'[c] = [at |-> "refresh", sym |-> s, known |-> db[s].snapshot]
  BY <1>t, <1>1, Zenon DEF GetLive
<1>2. ASSUME NEW d \in Callers, Refreshed(d), web'[c] # web[c]
      PROVE  /\ web[c].at = "refresh" /\ pc[c] = "return" /\ UNCHANGED db
             /\ web'[c] = [web[c] EXCEPT !.at = "again",
                             !.known = IF @ # 0 THEN @
                                        ELSE payloads[c][web[c].sym].snapshot]
  <2>. DEFINE known == IF web[d].known # 0 THEN web[d].known
                       ELSE payloads[d][web[d].sym].snapshot
  <2>2. web' = [web EXCEPT ![d].at = "again", ![d].known = known]
    BY <1>2 DEF Refreshed
  <2>. HIDE DEF known
  <2>3. web[d].at = "refresh" /\ pc[d] = "return" /\ UNCHANGED db
    BY <1>2 DEF Refreshed, Return, stores
  <2>4. d = c
    BY <1>t, <1>2, <2>2
  <2>5. web'[c] = [web[c] EXCEPT !.at = "again", !.known = known]
    BY <1>t, <2>2, <2>4 DEF WebType
  <2>. QED BY <2>3, <2>4, <2>5 DEF known
<1>3. ASSUME NEW d \in Callers, RefreshFails(d)
      PROVE  web'[c] \in {web[c], NoRequest}
  BY <1>t, <1>3 DEF RefreshFails
<1>4. ASSUME NEW d \in Callers, ReadAgain(d), web'[c] # web[c]
      PROVE  /\ web[c].at = "again" /\ UNCHANGED db
             /\ \E at \in {"served", "table"} : web'[c] = [web[c] EXCEPT !.at = at]
  <2>. DEFINE at == IF redis[web[d].sym].snapshot # 0 THEN "served" ELSE "table"
  <2>1. /\ web[d].at = "again" /\ UNCHANGED db /\ at \in {"served", "table"}
        /\ web' = [web EXCEPT ![d].at = at]
    BY <1>4 DEF ReadAgain, vars
  <2>. HIDE DEF at
  <2>2. d = c
    BY <1>t, <1>4, <2>1
  <2>. QED BY <1>t, <2>1, <2>2
<1>5. ASSUME NEW d \in Callers, ReadStored(d), web'[c] # web[c]
      PROVE  /\ web[c].at = "table" /\ UNCHANGED db
             /\ web'[c] = [web[c] EXCEPT !.at =
                             IF db[web[c].sym] # NoPayload THEN "served" ELSE "missing"]
  <2>. DEFINE at == IF db[web[d].sym] # NoPayload THEN "served" ELSE "missing"
  <2>1. /\ web[d].at = "table" /\ UNCHANGED db
        /\ web' = [web EXCEPT ![d].at = at]
    BY <1>5 DEF ReadStored, vars
  <2>. HIDE DEF at
  <2>2. d = c
    BY <1>t, <1>5, <2>1
  <2>3. web'[c] = [web[c] EXCEPT !.at = at]
    BY <1>t, <2>1, <2>2
  <2>. QED BY <2>1, <2>2, <2>3 DEF at
<1>6. ASSUME NEW d \in Callers, Respond(d)
      PROVE  web'[c] \in {web[c], NoRequest}
  BY <1>t, <1>6 DEF Respond
<1>7. ASSUME \/ Background
             \/ \E r \in Readers, s \in Symbols :
                  \/ \E cache \in {"hashes", "list"} : ReadTable(r, s, cache)
                  \/ \E day \in 0 .. Day(MaxClock) : ReadCache(r, s, day)
             \/ \E r \in Readers : OverlayCache(r) \/ FallBack(r)
             \/ UNCHANGED allVars
      PROVE  web'[c] = web[c]
  BY <1>7 DEF Background, ReadTable, ReadCache, OverlayCache, FallBack, readVars, allVars
<1>8. CASE web'[c] = web[c]
  BY <1>8
<1>9. CASE web'[c] # web[c] /\ \E d \in Callers, s \in Symbols : GetLive(d, s)
  BY <1>1, <1>9
<1>10. CASE web'[c] # web[c] /\ \E d \in Callers : Refreshed(d)
  BY <1>2, <1>10
<1>11. CASE \E d \in Callers : RefreshFails(d) \/ Respond(d)
  BY <1>3, <1>6, <1>11
<1>12. CASE web'[c] # web[c] /\ \E d \in Callers : ReadAgain(d)
  BY <1>4, <1>12
<1>13. CASE web'[c] # web[c] /\ \E d \in Callers : ReadStored(d)
  BY <1>5, <1>13
<1>. QED BY <1>7, <1>8, <1>9, <1>10, <1>11, <1>12, <1>13 DEF ReadNext

\* A step leaves one read per reader and one request per caller.
LEMMA ReadShapes ==
  ASSUME ReadTypeOK, [ReadNext]_allVars
  PROVE  /\ read' = [r \in Readers |-> read'[r]]
         /\ web' = [c \in Callers |-> web'[c]]
<1>t. read = [r \in Readers |-> read[r]] /\ web = [c \in Callers |-> web[c]]
  BY DEF ReadTypeOK
<1>1. ASSUME NEW r \in Readers, NEW q, read' = [read EXCEPT ![r] = q]
      PROVE  read' = [b \in Readers |-> read'[b]]
  BY <1>t, <1>1
<1>2. ASSUME NEW c \in Callers, NEW q, web' = [web EXCEPT ![c] = q]
      PROVE  web' = [b \in Callers |-> web'[b]]
  BY <1>t, <1>2
<1>3. ASSUME NEW r \in Readers, NEW s \in Symbols,
             \/ \E cache \in {"hashes", "list"} : ReadTable(r, s, cache)
             \/ \E day \in 0 .. Day(MaxClock) : ReadCache(r, s, day)
      PROVE  UNCHANGED web /\ \E q : read' = [read EXCEPT ![r] = q]
  BY <1>3, Zenon DEF ReadTable, ReadCache
<1>4. ASSUME NEW r \in Readers, OverlayCache(r) \/ FallBack(r)
      PROVE  UNCHANGED web /\ read' = [b \in Readers |-> read'[b]]
  BY <1>t, <1>4 DEF OverlayCache, FallBack
<1>5. ASSUME NEW c \in Callers,
             \/ \E s \in Symbols : GetLive(c, s)
             \/ Refreshed(c) \/ RefreshFails(c) \/ ReadAgain(c) \/ ReadStored(c) \/ Respond(c)
      PROVE  UNCHANGED read /\ web' = [b \in Callers |-> web'[b]]
  BY <1>t, <1>5 DEF GetLive, Refreshed, RefreshFails, ReadAgain, ReadStored, Respond
<1>6. ASSUME Background \/ UNCHANGED allVars
      PROVE  UNCHANGED readVars
  BY <1>6 DEF Background, readVars, allVars
<1>. QED BY <1>t, <1>1, <1>3, <1>4, <1>5, <1>6 DEF ReadNext, readVars

\* The type invariant of the readers is inductive, given that of the store.
LEMMA ReadTypeStep ==
  ASSUME TypeOK, ReadTypeOK, [ReadNext]_allVars
  PROVE  ReadTypeOK'
<1>t. /\ redis \in [Symbols -> Hash] /\ db \in [Symbols -> Payload]
      /\ list.rows \in [Symbols -> Payload]
      /\ read \in [Readers -> ReadType] /\ web \in [Callers -> WebType]
  BY DEF TypeOK, ReadTypeOK
<1>n. NoRead \in ReadType /\ NoRequest \in WebType
  BY ReadersAssumption, ClockAssumption
     DEF NoRead, NoRequest, ReadType, WebType, AnySymbol, NoPayload, Payload
<1>h. ASSUME NEW s \in Symbols PROVE HashPayload(redis[s]) \in Payload
  BY <1>t DEF HashPayload, Hash, Payload
<1>1. ASSUME NEW r \in Readers PROVE read'[r] \in ReadType
  <2>1. ASSUME NEW s \in Symbols, NEW cache \in {"hashes", "list"}
        PROVE  BeginMerged(s, cache) \in ReadType
    BY <1>t, <1>n DEF BeginMerged, ReadType, Payload
  <2>2. ASSUME NEW s \in Symbols, NEW day \in 0 .. Day(MaxClock)
        PROVE  BeginLatest(s, day) \in ReadType
    <3>. DEFINE hit == redis[s].snapshot # 0
                at == IF hit THEN "done" ELSE "table"
                answer == IF hit THEN NotBefore(HashPayload(redis[s]), day) ELSE NoPayload
    <3>1. day \in 0 .. MaxClock
      BY ClockAssumption, DayMonotone
    <3>2. answer \in Payload
      BY <1>h, NotBeforeType, ClockAssumption DEF NoPayload, Payload
    <3>3. at \in {"done", "table"}
      OBVIOUS
    <3>4. db[s].snapshot \in 0 .. MaxClock
      BY <1>t DEF Payload
    <3>5. BeginLatest(s, day) = [NoRead EXCEPT !.at = at, !.sym = s, !.floor = db[s].snapshot,
                                               !.notBefore = day, !.answer = answer]
      BY DEF BeginLatest
    <3>. HIDE DEF at, answer
    <3>. QED BY <1>n, <3>1, <3>2, <3>3, <3>4, <3>5 DEF ReadType
  <2>3. ASSUME NEW p \in Payload, NEW q \in Payload PROVE Overlaid(p, q) \in Payload
    BY DEF Overlaid
  <2>4. ASSUME NEW cached \in {HashPayload(redis[read[r].sym]), list.rows[read[r].sym]}
        PROVE  Overlaid(read[r].row, cached) \in Payload
    BY <1>t, <1>h, <2>3 DEF ReadType
  <2>5. NotBefore(db[read[r].sym], read[r].notBefore) \in Payload
    BY <1>t, NotBeforeType DEF ReadType
  <2>6. ASSUME NEW p \in Payload
        PROVE  /\ [read[r] EXCEPT !.at = "done", !.answer = p] \in ReadType
               /\ [read[r] EXCEPT !.at = "done", !.row = NoPayload, !.answer = p] \in ReadType
    <3>1. NoPayload \in Payload
      BY ClockAssumption DEF NoPayload, Payload
    <3>. HIDE DEF NoPayload, Payload
    <3>. QED BY <1>t, <2>6, <3>1 DEF ReadType
  <2>. HIDE DEF NoPayload, Payload
  <2>7. CASE /\ read[r].at \in {"hashes", "list"}
             /\ \E cached \in {HashPayload(redis[read[r].sym]), list.rows[read[r].sym]} :
                  read'[r] = [read[r] EXCEPT !.at = "done", !.row = NoPayload,
                                             !.answer = Overlaid(read[r].row, cached)]
    BY <2>4, <2>6, <2>7
  <2>8. CASE read'[r] = [read[r] EXCEPT !.at = "done",
                           !.answer = NotBefore(db[read[r].sym], read[r].notBefore)]
    BY <2>5, <2>6, <2>8
  <2>9. CASE \E s \in Symbols, cache \in {"hashes", "list"} : read'[r] = BeginMerged(s, cache)
    BY <2>1, <2>9
  <2>10. CASE \E s \in Symbols, day \in 0 .. Day(MaxClock) : read'[r] = BeginLatest(s, day)
    BY <2>2, <2>10
  <2>11. CASE read'[r] = read[r]
    BY <1>t, <2>11
  <2>. QED BY <2>7, <2>8, <2>9, <2>10, <2>11, ReadChange, Zenon
<1>2. ASSUME NEW c \in Callers PROVE web'[c] \in WebType
  <2>1. ASSUME NEW at \in {"served", "table", "missing"}
        PROVE  [web[c] EXCEPT !.at = at] \in WebType
    BY <1>t DEF WebType
  <2>2. ASSUME NEW s \in Symbols, NEW known \in 0 .. MaxClock
        PROVE  [at |-> "refresh", sym |-> s, known |-> known] \in WebType
    BY DEF WebType
  <2>3. db[web[c].sym].snapshot \in 0 .. MaxClock
        /\ \A s \in Symbols : db[s].snapshot \in 0 .. MaxClock
    BY <1>t DEF WebType, Payload
  <2>4. payloads[c][web[c].sym].snapshot \in 0 .. MaxClock
    BY <1>t DEF WebType, TypeOK, Payload, Refreshers
  <2>5. [web[c] EXCEPT !.at = "again",
           !.known = IF @ # 0 THEN @ ELSE payloads[c][web[c].sym].snapshot] \in WebType
    BY <1>t, <2>4 DEF WebType
  <2>6. CASE web'[c] \in {web[c], NoRequest}
    BY <1>t, <1>n, <2>6
  <2>7. CASE \E s \in Symbols :
               web'[c] = [at |-> "refresh", sym |-> s, known |-> db[s].snapshot]
    BY <2>2, <2>3, <2>7
  <2>8. CASE web'[c] = [web[c] EXCEPT !.at = "again",
                          !.known = IF @ # 0 THEN @ ELSE payloads[c][web[c].sym].snapshot]
    BY <2>5, <2>8
  <2>9. CASE \E at \in {"served", "table"} : web'[c] = [web[c] EXCEPT !.at = at]
    BY <2>1, <2>9
  <2>10. CASE web'[c] = [web[c] EXCEPT !.at =
                          IF db[web[c].sym] # NoPayload THEN "served" ELSE "missing"]
    <3>. DEFINE at == IF db[web[c].sym] # NoPayload THEN "served" ELSE "missing"
    <3>1. at \in {"served", "missing"}
      OBVIOUS
    <3>2. web'[c] = [web[c] EXCEPT !.at = at]
      BY <2>10
    <3>. HIDE DEF at
    <3>. QED BY <2>1, <3>1, <3>2
  <2>. QED BY <2>6, <2>7, <2>8, <2>9, <2>10, WebChange, Zenon
<1>. QED BY <1>1, <1>2, ReadShapes DEF ReadTypeOK

\* Type correctness of the readers.
THEOREM ReadTypeCorrect == ReadSpec => []ReadTypeOK
<1>1. ReadInit => ReadTypeOK
  BY ReadersAssumption, ClockAssumption
     DEF ReadInit, ReadTypeOK, NoRead, NoRequest, ReadType, WebType, AnySymbol, NoPayload, Payload
<1>2. TypeOK /\ ReadTypeOK /\ [ReadNext]_allVars => ReadTypeOK'
  BY ReadTypeStep
<1>. QED BY <1>1, <1>2, ReadsKeepStore, TypeCorrect, PTL DEF ReadSpec
-----------------------------------------------------------------------------
\* What a read holds between its two calls, and what it has answered.
ReadOK(r) ==
  LET q == read[r] IN
  /\ q.at \in {"hashes", "list"} => q.kind = "merged" /\ q.row.snapshot = q.floor
  /\ q.at = "table" => q.kind = "latest" /\ q.floor <= db[q.sym].snapshot
  /\ q.at = "done" /\ q.kind = "merged" => q.floor <= q.answer.snapshot
  /\ q.at = "done" /\ q.kind = "latest" /\ q.notBefore = 0 /\ q.floor # 0 =>
       q.answer # NoPayload
  /\ /\ q.at = "done" /\ q.kind = "latest" /\ q.floor # 0
     /\ q.notBefore <= Day(q.floor) /\ "request" \notin seen
     => q.floor <= q.answer.snapshot

\* A GET /live/{symbol} request that knows of a payload will find a row.
WebOK(c) ==
  /\ web[c].at \in {"refresh", "again", "table"} =>
       web[c].known <= db[web[c].sym].snapshot
  /\ web[c].at = "missing" => web[c].known = 0

\* The inductive invariant of the readers.
ReadInv == (\A r \in Readers : ReadOK(r)) /\ (\A c \in Callers : WebOK(c))

\* A payload that is not older than the floor of a read passes the date limit.
LEMMA NotBeforeServes ==
  ASSUME NEW p \in Payload, NEW floor \in Nat, NEW day \in Nat,
         floor # 0, floor <= p.snapshot
  PROVE  /\ day = 0 => NotBefore(p, day) # NoPayload
         /\ day <= Day(floor) => floor <= NotBefore(p, day).snapshot
<1>1. p.snapshot \in Nat /\ p.snapshot # 0
  BY DEF Payload
<1>2. Day(floor) \in Nat /\ Day(p.snapshot) \in Nat /\ Day(floor) <= Day(p.snapshot)
  BY <1>1, DayMonotone
<1>. QED BY <1>1, <1>2 DEF NotBefore, NoPayload

\* A step keeps what is known of each read.
LEMMA ReadOKStep ==
  ASSUME TypeOK, TypeOK', ReadTypeOK, RedisNeverBehindDb, [ReadNext]_allVars,
         NEW r \in Readers, ReadOK(r)
  PROVE  ReadOK(r)'
<1>t. /\ redis \in [Symbols -> Hash] /\ db \in [Symbols -> Payload]
      /\ list.rows \in [Symbols -> Payload] /\ read[r] \in ReadType
  BY DEF TypeOK, ReadTypeOK
<1>n. [Next]_vars
  BY StoreStep
<1>1. CASE read'[r] = read[r]
  <2>1. seen \subseteq seen'
    BY <1>n, HistoryGrows
  <2>2. read[r].floor \in Nat /\ read[r].sym \in Symbols
    BY <1>t DEF ReadType
  <2>3. read[r].floor <= db[read[r].sym].snapshot => read[r].floor <= db'[read[r].sym].snapshot
    BY <1>n, <2>2, RowsGrow
  <2>. HIDE DEF NoPayload
  <2>. QED BY <1>1, <2>1, <2>3 DEF ReadOK, NoPayload, Day
<1>2. ASSUME UNCHANGED vars, NEW s \in Symbols, NEW cache \in {"hashes", "list"},
             read'[r] = BeginMerged(s, cache)
      PROVE  ReadOK(r)'
  BY <1>2 DEF ReadOK, BeginMerged, NoRead
<1>3. ASSUME UNCHANGED vars, NEW s \in Symbols, NEW day \in 0 .. Day(MaxClock),
             read'[r] = BeginLatest(s, day)
      PROVE  ReadOK(r)'
  <2>. DEFINE hash == HashPayload(redis[s])
  <2>1. /\ db[s].snapshot \in Nat /\ day \in Nat
        /\ hash \in Payload /\ hash.snapshot = redis[s].snapshot
    BY <1>t, ClockAssumption, DayMonotone DEF HashPayload, Hash, Payload
  <2>2. seen' = seen /\ db' = db
    BY <1>3 DEF vars
  <2>3. CASE redis[s].snapshot = 0
    BY <1>3, <2>1, <2>2, <2>3 DEF BeginLatest, NoRead, ReadOK
  <2>4. CASE redis[s].snapshot # 0
    <3>1. /\ read'[r].at = "done" /\ read'[r].kind = "latest"
          /\ read'[r].floor = db[s].snapshot /\ read'[r].notBefore = day
          /\ read'[r].answer = NotBefore(hash, day)
      BY <1>3, <2>4 DEF BeginLatest, NoRead
    <3>2. day = 0 => NotBefore(hash, day) # NoPayload
      <4>1. 1 <= hash.snapshot
        BY <1>t, <2>1, <2>4 DEF Hash
      <4>. QED BY <2>1, <4>1, NotBeforeServes
    <3>3. "request" \notin seen => db[s].snapshot <= hash.snapshot
      BY <2>1, <2>4 DEF RedisNeverBehindDb, CacheLeads
    <3>4. db[s].snapshot # 0 /\ "request" \notin seen /\ day <= Day(db[s].snapshot) =>
            db[s].snapshot <= NotBefore(hash, day).snapshot
      BY <2>1, <3>3, NotBeforeServes
    <3>. HIDE DEF NoPayload, hash
    <3>. QED BY <2>2, <3>1, <3>2, <3>4 DEF ReadOK, NoPayload, Day
  <2>. QED BY <2>3, <2>4
<1>4. ASSUME UNCHANGED vars, read[r].at \in {"hashes", "list"},
             NEW cached \in {HashPayload(redis[read[r].sym]), list.rows[read[r].sym]},
             read'[r] = [read[r] EXCEPT !.at = "done", !.row = NoPayload,
                                        !.answer = Overlaid(read[r].row, cached)]
      PROVE  ReadOK(r)'
  <2>1. /\ read[r].kind = "merged" /\ read[r].row.snapshot = read[r].floor
        /\ read[r].floor \in Nat
    BY <1>t, <1>4 DEF ReadOK, ReadType
  <2>2. read[r].floor <= Overlaid(read[r].row, cached).snapshot
    BY <2>1 DEF Overlaid
  <2>3. /\ read'[r].at = "done" /\ read'[r].kind = "merged" /\ read'[r].floor = read[r].floor
        /\ read'[r].answer = Overlaid(read[r].row, cached)
    BY <1>t, <1>4, <2>1 DEF ReadType
  <2>. QED BY <2>2, <2>3 DEF ReadOK
<1>5. ASSUME UNCHANGED vars, read[r].at = "table",
             read'[r] = [read[r] EXCEPT !.at = "done",
                          !.answer = NotBefore(db[read[r].sym], read[r].notBefore)]
      PROVE  ReadOK(r)'
  <2>. DEFINE row == db[read[r].sym]
              answer == NotBefore(row, read[r].notBefore)
  <2>1. /\ read[r].kind = "latest" /\ read[r].floor <= row.snapshot
        /\ read[r].floor \in Nat /\ read[r].notBefore \in Nat /\ row \in Payload
    BY <1>t, <1>5 DEF ReadOK, ReadType
  <2>2. read[r].floor # 0 =>
          /\ read[r].notBefore = 0 => answer # NoPayload
          /\ read[r].notBefore <= Day(read[r].floor) => read[r].floor <= answer.snapshot
    BY <2>1, NotBeforeServes
  <2>3. /\ read'[r].at = "done" /\ read'[r].kind = "latest" /\ read'[r].floor = read[r].floor
        /\ read'[r].notBefore = read[r].notBefore /\ read'[r].answer = answer
    BY <1>t, <1>5, <2>1 DEF ReadType
  <2>. HIDE DEF NoPayload, answer
  <2>. QED BY <2>2, <2>3 DEF ReadOK, NoPayload, Day
<1>. QED BY <1>1, <1>2, <1>3, <1>4, <1>5, ReadChange

\* And of each GET /live/{symbol} request.
LEMMA WebOKStep ==
  ASSUME TypeOK, TypeOK', ReadTypeOK, ReturnInv, [ReadNext]_allVars,
         NEW c \in Callers, WebOK(c)
  PROVE  WebOK(c)'
<1>t. /\ db \in [Symbols -> Payload] /\ db' \in [Symbols -> Payload]
      /\ web[c] \in WebType /\ web[c].sym \in Symbols /\ web[c].known \in Nat
  BY ClockAssumption DEF TypeOK, ReadTypeOK, WebType
<1>g. ASSUME NEW s \in Symbols, NEW n \in Nat, n <= db[s].snapshot
      PROVE  n <= db'[s].snapshot
  BY <1>g, StoreStep, RowsGrow
<1>1. CASE web'[c] \in {web[c], NoRequest}
  BY <1>t, <1>g, <1>1 DEF WebOK, NoRequest
<1>2. ASSUME NEW s \in Symbols,
             web'[c] = [at |-> "refresh", sym |-> s, known |-> db[s].snapshot]
      PROVE  WebOK(c)'
  <2>1. db[s].snapshot \in Nat
    BY <1>t DEF Payload
  <2>. QED BY <1>g, <1>2, <2>1 DEF WebOK
<1>3. CASE /\ web[c].at = "refresh" /\ pc[c] = "return" /\ UNCHANGED db
           /\ web'[c] = [web[c] EXCEPT !.at = "again",
                           !.known = IF @ # 0 THEN @
                                     ELSE payloads[c][web[c].sym].snapshot]
  <2>1. payloads[c][web[c].sym].snapshot <= db[web[c].sym].snapshot
    BY <1>t, <1>3 DEF ReturnInv, Refreshers
  <2>2. /\ web'[c].at = "again" /\ web'[c].sym = web[c].sym
        /\ web'[c].known \in {web[c].known, payloads[c][web[c].sym].snapshot}
    BY <1>t, <1>3 DEF WebType
  <2>3. web[c].known <= db[web[c].sym].snapshot
    BY <1>3 DEF WebOK
  <2>. QED BY <1>3, <2>1, <2>2, <2>3 DEF WebOK
<1>4. ASSUME web[c].at = "again", UNCHANGED db, NEW at \in {"served", "table"},
             web'[c] = [web[c] EXCEPT !.at = at]
      PROVE  WebOK(c)'
  BY <1>t, <1>4 DEF WebOK, WebType
<1>5. CASE /\ web[c].at = "table" /\ UNCHANGED db
           /\ web'[c] = [web[c] EXCEPT !.at =
                           IF db[web[c].sym] # NoPayload THEN "served" ELSE "missing"]
  <2>1. web[c].known <= db[web[c].sym].snapshot
    BY <1>5 DEF WebOK
  <2>2. db[web[c].sym] = NoPayload => web[c].known = 0
    BY <1>t, <2>1 DEF NoPayload
  <2>3. /\ web'[c].known = web[c].known
        /\ web'[c].at = IF db[web[c].sym] # NoPayload THEN "served" ELSE "missing"
    BY <1>t, <1>5 DEF WebType
  <2>. HIDE DEF NoPayload
  <2>. QED BY <2>2, <2>3 DEF WebOK
<1>. QED BY <1>1, <1>2, <1>3, <1>4, <1>5, WebChange

\* The invariant of the readers holds.
LEMMA ReadInvHolds == ReadSpec => []ReadInv
<1>1. ReadInit => ReadInv
  BY DEF ReadInit, ReadInv, ReadOK, WebOK, NoRead, NoRequest
<1>2. /\ TypeOK /\ TypeOK' /\ ReadTypeOK /\ ReturnInv /\ RedisNeverBehindDb /\ ReadInv /\ [ReadNext]_allVars
      => ReadInv'
  BY ReadOKStep, WebOKStep DEF ReadInv
<1>. QED BY <1>1, <1>2, ReadsKeepStore, TypeCorrect, ReadTypeCorrect, ReturnInvHolds,
            CacheNotBehind, PTL DEF ReadSpec

\* A merged read is never older than the row stored when it began.
THEOREM MergedFresh == ReadSpec => []MergedReadFresh
<1>1. ReadInv => MergedReadFresh
  BY DEF ReadInv, ReadOK, MergedReadFresh
<1>. QED BY <1>1, ReadInvHolds, PTL

\* A cache-first read finds a payload for every symbol with a stored row.
THEOREM LatestFinds == ReadSpec => []LatestReadFindsRow
<1>1. ReadInv => LatestReadFindsRow
  BY DEF ReadInv, ReadOK, LatestReadFindsRow
<1>. QED BY <1>1, ReadInvHolds, PTL

\* With the worker as the only refresher it serves that row or a newer payload.
THEOREM LatestServes == ReadSpec => []LatestReadServes
<1>1. ReadInv => LatestReadServes
  BY DEF ReadInv, ReadOK, LatestReadServes
<1>. QED BY <1>1, ReadInvHolds, PTL

\* GET /live/{symbol} answers 404 only for a symbol that nobody had a quote of.
THEOREM NotFoundUnknown == ReadSpec => []NotFoundOnlyUnknown
<1>1. ReadInv => NotFoundOnlyUnknown
  BY DEF ReadInv, WebOK, NotFoundOnlyUnknown
<1>. QED BY <1>1, ReadInvHolds, PTL
=============================================================================
