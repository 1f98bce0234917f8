------------------------------ MODULE LiveReads ------------------------------
(***************************************************************************)
(* The readers of the live quote store in app/api/routes.py, running       *)
(* between the steps of the refreshers: a read of both stores is two       *)
(* awaited calls, and the stores may change in between.                    *)
(*   _live_payloads_by_symbol  table, then cache; the newest payload wins  *)
(*   _latest_live_payload      cache; the table only when the cache misses *)
(*   GET /live/{symbol}        cache; on a miss a refresh of the symbol,   *)
(*                             then the cache again, then the table        *)
(* One reader follows one symbol; snapshot dates are days of the clock.    *)
(***************************************************************************)
EXTENDS LiveStore

CONSTANTS Readers,     \* readers of the dashboard and detail endpoints
          DayLength    \* clock ticks per day

ASSUME ReadersAssumption ==
  DayLength \in Nat \ {0} /\ "symbols" \in Requests /\ Symbols # {}

VARIABLES read,        \* read[r]: the read of r, see ReadType
          web          \* web[c]: the GET /live/{symbol} request of c

readVars == <<read, web>>
allVars == <<vars, readVars>>

\* Kept for the properties only: floor, the stamp of the row that was stored when
\* the read began; known, the stamp of the row that was stored when the request came
\* or else of the payload its refresh obtained (0: neither).
ReadType == [at : {"idle", "hashes", "list", "table", "done"},
             kind : {"merged", "latest"}, sym : Symbols, floor : 0 .. MaxClock,
             row : Payload, notBefore : 0 .. MaxClock, answer : Payload]
WebType == [at : {"idle", "refresh", "again", "table", "served", "missing"},
            sym : Symbols, known : 0 .. MaxClock]

AnySymbol == CHOOSE s \in Symbols : TRUE
NoRead == [at |-> "idle", kind |-> "latest", sym |-> AnySymbol, floor |-> 0,
           row |-> NoPayload, notBefore |-> 0, answer |-> NoPayload]
NoRequest == [at |-> "idle", sym |-> AnySymbol, known |-> 0]

Day(t) == t \div DayLength

\* Mutant of HashPayload: the time to live is handed out with the fields.
HashPayloadRaw(h) == h

\* The payload a hash holds, as get_live returns it.
HashPayload(h) == [snapshot |-> h.snapshot, option |-> h.option]

ReadInit == Init /\ read = [r \in Readers |-> NoRead] /\ web = [c \in Callers |-> NoRequest]
-----------------------------------------------------------------------------
\* Mutant of Overlaid: the cached payload always replaces the stored one.
OverlaidAlways(row, cached) == IF cached # NoPayload THEN cached ELSE row

\* The newer of the stored row and the cached payload; a tie goes to the cache.
Overlaid(row, cached) ==
  IF cached # NoPayload /\ cached.snapshot >= row.snapshot THEN cached ELSE row

\* A payload of a day before the EOD baseline is dropped.
NotBefore(p, day) == IF Day(p.snapshot) < day THEN NoPayload ELSE p

\* _live_payloads_by_symbol reads the table first ...
ReadTable(r, s, cache) ==
  /\ read[r].at \in {"idle", "done"}
  /\ read' = [read EXCEPT ![r] =
       [NoRead EXCEPT !.at = cache, !.kind = "merged", !.sym = s,
                      !.floor = db[s].snapshot, !.row = db[s]]]
  /\ UNCHANGED <<vars, web>>

\* ... then the hash of the symbol, or live:symbols for the whole universe.
OverlayCache(r) ==
  LET s == read[r].sym
      cached == IF read[r].at = "hashes" THEN HashPayload(redis[s]) ELSE list.rows[s]
  IN /\ read[r].at \in {"hashes", "list"}
     /\ read' = [read EXCEPT ![r].at = "done", ![r].row = NoPayload,
                             ![r].answer = Overlaid(read[r].row, cached)]
     /\ UNCHANGED <<vars, web>>

\* _latest_live_payload asks the cache and answers from it if it holds anything.
ReadCache(r, s, day) ==
  LET hit == redis[s].snapshot # 0 IN
  /\ read[r].at \in {"idle", "done"}
  /\ read' = [read EXCEPT ![r] =
       [NoRead EXCEPT !.at = IF hit THEN "done" ELSE "table", !.sym = s,
                      !.floor = db[s].snapshot, !.notBefore = day,
                      !.answer = IF hit THEN NotBefore(HashPayload(redis[s]), day)
                                 ELSE NoPayload]]
  /\ UNCHANGED <<vars, web>>

\* Mutant of FallBack: a cache miss is the answer.
FallBackNever(r) ==
  /\ read[r].at = "table"
  /\ read' = [read EXCEPT ![r].at = "done"]
  /\ UNCHANGED <<vars, web>>

\* ... and from the table otherwise.
FallBack(r) ==
  /\ read[r].at = "table"
  /\ read' = [read EXCEPT ![r].at = "done",
                          ![r].answer = NotBefore(db[read[r].sym], read[r].notBefore)]
  /\ UNCHANGED <<vars, web>>
-----------------------------------------------------------------------------
\* GET /live/{symbol}: served from the cache, or else the symbol is refreshed.
GetLive(c, s) ==
  /\ pc[c] = "idle" /\ web[c].at = "idle"
  /\ redis[s].snapshot = 0
  /\ Enter(c, {s}, FALSE, "primary")
  /\ web' = [web EXCEPT ![c] = [at |-> "refresh", sym |-> s,
                                known |-> db[s].snapshot]]
  /\ seen' = seen \cup {"request"}
  /\ UNCHANGED <<clock, stores, batch, latest, read>>

\* The refresh returned: the handler goes on.
Refreshed(c) ==
  /\ web[c].at = "refresh"
  /\ Return(c)
  /\ web' = [web EXCEPT ![c].at = "again",
                        ![c].known = IF @ # 0 THEN @ ELSE payloads[c][web[c].sym].snapshot]
  /\ UNCHANGED read

\* The refresh raised, which ends the request with an error; or Yahoo is asked.
RefreshFails(c) ==
  /\ web[c].at = "refresh"
  /\ Fail(c) \/ LoseAnswer(c) \/ Crash(c)
  /\ web' = IF pc'[c] = "idle" THEN [web EXCEPT ![c] = NoRequest] ELSE web
  /\ UNCHANGED read

\* The cache is read a second time.
ReadAgain(c) ==
  /\ web[c].at = "again"
  /\ web' = [web EXCEPT ![c].at =
               IF redis[web[c].sym].snapshot # 0 THEN "served" ELSE "table"]
  /\ UNCHANGED <<vars, read>>

\* Mutant of ReadStored: a payload without option fields is not accepted.
ReadStoredSummed(c) ==
  /\ web[c].at = "table"
  /\ web' = [web EXCEPT ![c].at =
               IF db[web[c].sym].option # 0 THEN "served" ELSE "missing"]
  /\ UNCHANGED <<vars, read>>

\* Last the table; without a row the request ends with status 404.
ReadStored(c) ==
  /\ web[c].at = "table"
  /\ web' = [web EXCEPT ![c].at =
               IF db[web[c].sym] # NoPayload THEN "served" ELSE "missing"]
  /\ UNCHANGED <<vars, read>>

\* The response is sent.
Respond(c) ==
  /\ web[c].at \in {"served", "missing"}
  /\ web' = [web EXCEPT ![c] = NoRequest]
  /\ UNCHANGED <<vars, read>>

\* Caller a serves GET /live/{symbol}.
Serves(a) == a \in Callers /\ web[a].at # "idle"

\* A step that is none of those of a GET /live/{symbol} request.
Background ==
  /\ \/ Tick \/ StartCycle \/ ReadLatest \/ PublishList
     \/ \E a \in Callers : ~Serves(a) /\ StartRequest(a)
     \/ \E a \in Refreshers : ~(Serves(a) /\ pc[a] = "return") /\ Step(a)
     \/ \E a \in Refreshers : ~Serves(a) /\ (Fail(a) \/ LoseAnswer(a) \/ Crash(a))
  /\ UNCHANGED readVars

ReadNext ==
  \/ Background
  \/ \E r \in Readers, s \in Symbols :
       \/ \E cache \in {"hashes", "list"} : ReadTable(r, s, cache)
       \/ \E day \in 0 .. Day(MaxClock) : ReadCache(r, s, day)
  \/ \E r \in Readers : OverlayCache(r) \/ FallBack(r)
  \/ \E c \in Callers, s \in Symbols : GetLive(c, s)
  \/ \E c \in Callers :
       Refreshed(c) \/ RefreshFails(c) \/ ReadAgain(c) \/ ReadStored(c) \/ Respond(c)

ReadSpec == ReadInit /\ [][ReadNext]_allVars
-----------------------------------------------------------------------------
\* Type invariant of the readers.
ReadTypeOK == read \in [Readers -> ReadType] /\ web \in [Callers -> WebType]

\* A merged read (_live_payloads_by_symbol) is never older than the row that was
\* stored when it began, although between its two calls keys expire and late
\* refreshers put older payloads into the cache.
MergedReadFresh ==
  \A r \in Readers : read[r].at = "done" /\ read[r].kind = "merged" =>
    read[r].floor <= read[r].answer.snapshot

\* A cache-first read (_latest_live_payload) without a date limit finds a payload
\* for every symbol that had a stored row when it began, whatever expires.
LatestReadFindsRow ==
  \A r \in Readers :
    LET q == read[r] IN
    q.at = "done" /\ q.kind = "latest" /\ q.notBefore = 0 /\ q.floor # 0 =>
      q.answer # NoPayload

\* As long as the worker was the only refresher, a cache-first read also serves the
\* stored row of the day or a newer payload: it never falls back to EOD values while
\* the table holds a live row of that day (docs/architecture/live-option-chain.md:109).
LatestReadServes ==
  "request" \notin seen => \A r \in Readers :
    LET q == read[r] IN
    /\ q.at = "done" /\ q.kind = "latest" /\ q.floor # 0
    /\ q.notBefore <= Day(q.floor)
    => q.floor <= q.answer.snapshot

\* GET /live/{symbol} answers 404 only for a symbol that had no stored row when the
\* request came and for which the request's own refresh obtained no quote, even
\* if the key its refresh wrote has expired before it is read.
NotFoundOnlyUnknown ==
  \A c \in Callers : web[c].at = "missing" => web[c].known = 0
=============================================================================
