--------------------------- MODULE OptionChainFetch ---------------------------
(***************************************************************************)
(* NSEOptionChainClient.fetch_summaries: one task per symbol asks NSE for  *)
(* the chain of one expiry after the other, under a semaphore, a throttle  *)
(* with a lock of its own and retry_async; a task that NSE refuses sets    *)
(* the stop event, which the others look at between their awaits.          *)
(***************************************************************************)
EXTENDS Naturals, Sequences, FiniteSets

CONSTANTS Tasks,          \* the symbols
          Hints,          \* [Tasks -> Seq(expiries)]: << >> when the baseline has none
          ListedExpiries, \* [Tasks -> Seq(expiries)]: the monthly expiries NSE lists
          Concurrency, FetchAttempts,
          Interval        \* min_interval_seconds, in ticks

Discovery == 0            \* 01-Jan-2099, for which NSE has expiries but no rows

ASSUME FetchAssumption ==
  /\ Concurrency \in Nat \ {0} /\ FetchAttempts \in Nat \ {0} /\ Interval \in Nat

VARIABLES pc,             \* of each task, see Pcs
          left, summaries,\* of each task: the expiries to ask for, those summarised
          try,            \* of each task: the attempt of retry_async
          timer,          \* of each task: what it still sleeps in _throttle
          quiet,          \* ticks since the last request went out, at most Interval
          stop,           \* stop_event
          refused,        \* history: NSE has answered 403 or 429 for good
          late            \* history: of each task, the expiries it asked for after that

fetchVars == <<pc, left, summaries, try, timer, quiet, stop, refused, late>>
Pcs == {"start", "acquire", "lock", "sleep", "sent", "backoff", "done"}

FetchInit ==
  /\ pc = [t \in Tasks |-> "start"] /\ left = [t \in Tasks |-> << >>]
  /\ summaries = [t \in Tasks |-> << >>] /\ try = [t \in Tasks |-> 1]
  /\ timer = [t \in Tasks |-> 0] /\ quiet = Interval
  /\ stop = FALSE /\ refused = FALSE /\ late = [t \in Tasks |-> {}]

Holders == {t \in Tasks : pc[t] \in {"lock", "sleep", "sent", "backoff"}}
Goto(t, label) == pc' = [pc EXCEPT ![t] = label]

\* _expiry_targets: without hints the expiries are asked of NSE first.
Targets(t) == IF Hints[t] = << >> THEN <<Discovery>> ELSE Hints[t]
-----------------------------------------------------------------------------
\* A task looks at the stop event before its first expiry.
Start(t) ==
  /\ pc[t] = "start"
  /\ IF stop THEN Goto(t, "done") /\ UNCHANGED left
     ELSE Goto(t, "acquire") /\ left' = [left EXCEPT ![t] = Targets(t)]
  /\ UNCHANGED <<summaries, try, timer, quiet, stop, refused, late>>

\* async with semaphore: the event is not looked at again.
Acquire(t) ==
  /\ pc[t] = "acquire" /\ Cardinality(Holders) < Concurrency
  /\ Goto(t, "lock")
  /\ try' = [try EXCEPT ![t] = 1]
  /\ UNCHANGED <<left, summaries, timer, quiet, stop, refused, late>>

\* Mutant of ThrottleLock: the delay is computed without the lock.
ThrottleUnlocked(t) ==
  /\ pc[t] = "lock"
  /\ Goto(t, "sleep")
  /\ timer' = [timer EXCEPT ![t] = Interval - quiet]
  /\ UNCHANGED <<left, summaries, try, quiet, stop, refused, late>>

\* _throttle: under the lock, sleep for what is left of the interval ...
ThrottleLock(t) ==
  /\ pc[t] = "lock" /\ \A o \in Tasks : pc[o] # "sleep"
  /\ Goto(t, "sleep")
  /\ timer' = [timer EXCEPT ![t] = Interval - quiet]
  /\ UNCHANGED <<left, summaries, try, quiet, stop, refused, late>>

\* ... and send.
Send(t) ==
  /\ pc[t] = "sleep" /\ timer[t] = 0
  /\ Goto(t, "sent")
  /\ quiet' = 0
  /\ late' = IF refused THEN [late EXCEPT ![t] = @ \cup {Head(left[t])}] ELSE late
  /\ UNCHANGED <<left, summaries, try, timer, stop, refused>>

\* Time only matters to who sleeps.
TickFetch ==
  /\ quiet < Interval /\ quiet' = quiet + 1
  /\ timer' = [t \in Tasks |-> IF timer[t] > 0 THEN timer[t] - 1 ELSE 0]
  /\ UNCHANGED <<pc, left, summaries, try, stop, refused, late>>

\* After an expiry: the next one, unless the event is set.
Proceed(t, rest) ==
  /\ left' = [left EXCEPT ![t] = rest]
  /\ Goto(t, IF rest = << >> \/ stop' THEN "done" ELSE "acquire")

\* Rows: normalize_option_chain_summary makes a summary of them.
AnswerRows(t) ==
  /\ pc[t] = "sent" /\ Head(left[t]) # Discovery
  /\ summaries' = [summaries EXCEPT ![t] = Append(@, Head(left[t]))]
  /\ UNCHANGED <<try, timer, quiet, stop, refused, late>>
  /\ Proceed(t, Tail(left[t]))

\* No rows (or none that can be read): the expiries NSE lists come with the
\* answer to the discovery.
AnswerEmpty(t) ==
  /\ pc[t] = "sent"
  /\ UNCHANGED <<summaries, try, timer, quiet, stop, refused, late>>
  /\ \/ Proceed(t, Tail(left[t]))
     \/ Head(left[t]) = Discovery /\ Proceed(t, ListedExpiries[t])

\* Mutant of FailRetryable: one attempt too many.
FailRetryableLast(t) ==
  /\ pc[t] = "sent" /\ try[t] <= FetchAttempts
  /\ Goto(t, "backoff")
  /\ try' = [try EXCEPT ![t] = @ + 1]
  /\ UNCHANGED <<left, summaries, timer, quiet, stop, refused, late>>

\* A transport error, 429 or 5xx is retried with the semaphore held.
FailRetryable(t) ==
  /\ pc[t] = "sent" /\ try[t] < FetchAttempts
  /\ Goto(t, "backoff")
  /\ try' = [try EXCEPT ![t] = @ + 1]
  /\ UNCHANGED <<left, summaries, timer, quiet, stop, refused, late>>

Retry(t) ==
  /\ pc[t] = "backoff" /\ Goto(t, "lock")
  /\ UNCHANGED <<left, summaries, try, timer, quiet, stop, refused, late>>

\* Mutant of StopsOn: 403 alone sets the event.
StopsOnForbidden(code) == code = 403

StopsOn(code) == code \in {403, 429}

\* 403 at once, or the last attempt: None for this expiry; a refusal stops the rest.
FailForGood(t) ==
  /\ pc[t] = "sent"
  /\ \E code \in {403} \cup {c \in {429, 503} : try[t] = FetchAttempts} :
       /\ stop' = (stop \/ StopsOn(code))
       /\ refused' = (refused \/ code \in {403, 429})
  /\ UNCHANGED <<summaries, try, timer, quiet, late>>
  /\ Proceed(t, Tail(left[t]))

FetchNext ==
  \/ \E t \in Tasks : \/ Start(t) \/ Acquire(t) \/ ThrottleLock(t) \/ Send(t)
                      \/ AnswerRows(t) \/ AnswerEmpty(t)
                      \/ FailRetryable(t) \/ Retry(t) \/ FailForGood(t)
  \/ TickFetch

FetchSpec == FetchInit /\ [][FetchNext]_fetchVars
-----------------------------------------------------------------------------
\* Type invariant.
FetchTypeOK ==
  /\ pc \in [Tasks -> Pcs] /\ try \in [Tasks -> 1 .. FetchAttempts]
  /\ timer \in [Tasks -> 0 .. Interval] /\ quiet \in 0 .. Interval
  /\ stop \in BOOLEAN /\ refused \in BOOLEAN
  /\ \A t \in Tasks : pc[t] \in {"acquire", "lock", "sleep", "sent", "backoff"} => left[t] # << >>

\* However the tasks, their retries and their sleeps interleave, the requests that
\* leave keep their distance, and after NSE has refused one of them for good no task
\* asks for an expiry beyond the one it had already got past its checks for.
RequestsHeldBack ==
  [][\A t \in Tasks : /\ Send(t) => quiet = Interval
                      /\ Cardinality(late'[t]) <= 1]_fetchVars
=============================================================================
