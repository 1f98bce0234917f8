---------------------------- MODULE ServicesProofs ----------------------------
(***************************************************************************)
(* Proofs about the modules that MCServices puts side by side, for every   *)
(* value of their constants; and that in the composition each of them      *)
(* behaves as its own specification says, so that the theorems hold there. *)
(***************************************************************************)
EXTENDS MCServices, FiniteSetTheorems, SequenceTheorems, TLAPS

-----------------------------------------------------------------------------
(* Download *)

\* While a place is asked no call to it has failed, and no earlier place has a
\* sound file; the rest is the property itself.
Sound == published \ (corrupt \cup troubled)
DownloadInv ==
  /\ DownloadTypeOK
  /\ Asking => /\ \A p \in troubled : p < place
               /\ \A q \in Sound : place <= q
  /\ FirstFileWins

\* What FirstFileWins says once the fetch has gone on.
LEMMA OnwardKeeps ==
  ASSUME DownloadInv, Asking, Onward,
         published' = published, corrupt' = corrupt,
         troubled' = troubled \/ troubled' = troubled \cup {place},
         place \notin Sound'
  PROVE  DownloadInv'
<1>1. place \in 0 .. Urls /\ Urls \in Nat /\ Urls > 0 /\ Attempts \in Nat /\ Attempts > 0
  BY DownloadAssumption DEF DownloadInv, DownloadTypeOK, Places
<1>2. \A q \in Sound' : place < q /\ q \in 0 .. Urls
  <2>1. Sound' \subseteq Sound /\ Sound \subseteq 0 .. Urls
    BY DEF Sound, DownloadInv, DownloadTypeOK, Places
  <2>. QED BY <1>1, <2>1 DEF DownloadInv
<1>3. DownloadTypeOK'
  <2>1. attempt' = 1 /\ place' \in 0 .. Urls /\ call' \in {"ask", "failed"}
    BY <1>1 DEF Onward
  <2>2. corrupt' \subseteq published' /\ published' \subseteq Places /\ troubled' \subseteq Places
    BY <1>1 DEF DownloadInv, DownloadTypeOK, Places
  <2>. QED BY <1>1, <2>1, <2>2 DEF DownloadTypeOK, Places
<1>4. CASE place < Urls
  <2>1. place' = place + 1 /\ call' = "ask"
    BY <1>4 DEF Onward
  <2>2. \A p \in troubled' : p < place'
    <3>1. \A p \in troubled : p < place /\ p \in Nat
      BY DEF DownloadInv, DownloadTypeOK, Places
    <3>. QED BY <1>1, <2>1, <3>1
  <2>3. \A q \in Sound' : place' <= q
    BY <1>1, <1>2, <2>1
  <2>. QED BY <1>3, <2>1, <2>2, <2>3 DEF DownloadInv, FirstFileWins
<1>5. CASE ~ (place < Urls)
  <2>1. call' = "failed"
    BY <1>5 DEF Onward
  <2>2. Sound' = {}
    BY <1>1, <1>2, <1>5
  <2>. QED BY <1>3, <2>1, <2>2 DEF DownloadInv, FirstFileWins, Asking, Sound
<1>. QED BY <1>4, <1>5

LEMMA DownloadInvInit == DownloadInit => DownloadInv
BY DownloadAssumption
   DEF DownloadInit, DownloadInv, DownloadTypeOK, FirstFileWins, Places, Samco, Sound

LEMMA DownloadInvStep == DownloadInv /\ [DownloadNext]_downloadVars => DownloadInv'
<1>. SUFFICES ASSUME DownloadInv, [DownloadNext]_downloadVars PROVE DownloadInv'
  OBVIOUS
<1>. USE DEF DownloadTypeOK, Places
<1>0. place \in 0 .. Urls /\ Urls \in Nat /\ Attempts \in Nat /\ Attempts > 0
  BY DownloadAssumption DEF DownloadInv
<1>1. CASE AnswerFile
  <2>1. place \in Sound
    BY <1>1, <1>0 DEF AnswerFile, Sound, DownloadInv, Asking
  <2>. QED BY <1>1, <2>1 DEF AnswerFile, Sound, DownloadInv, Asking, FirstFileWins
<1>2. CASE AnswerCorrupt
  <2>1. CASE place = Samco
    BY <1>2, <2>1, OnwardKeeps DEF AnswerCorrupt, Sound
  <2>2. CASE place # Samco
    <3>1. place \notin Sound /\ place \in corrupt \ {Samco}
      BY <1>2, <2>2 DEF AnswerCorrupt, Sound
    <3>2. \A q \in Sound : q \in 0 .. Urls /\ place < q
      BY <1>2, <1>0, <3>1 DEF AnswerCorrupt, DownloadInv, Sound
    <3>. QED BY <1>2, <2>2, <3>1, <3>2 DEF AnswerCorrupt, DownloadInv, FirstFileWins, Asking, Sound
  <2>. QED BY <2>1, <2>2
<1>3. CASE AnswerLink
  BY <1>3, <1>0 DEF AnswerLink, DownloadInv, FirstFileWins, Asking, Sound
<1>4. CASE NoFile
  BY <1>4, OnwardKeeps DEF NoFile, Sound
<1>5. CASE RepeatCall
  BY <1>5, <1>0 DEF RepeatCall, DownloadInv, FirstFileWins, Asking, Sound
<1>6. CASE CallFails
  BY <1>6, OnwardKeeps DEF CallFails, Sound
<1>7. CASE UNCHANGED downloadVars
  BY <1>7 DEF downloadVars, DownloadInv, FirstFileWins, Asking, Sound
<1>. QED BY <1>1, <1>2, <1>3, <1>4, <1>5, <1>6, <1>7 DEF DownloadNext

\* The bhavcopy of BhavcopySource and NSEArchiveClient comes from the first place
\* with a good file that no failing call has hidden, and the fetch fails only when
\* there is none, or none before an archive whose file cannot be parsed.
THEOREM DownloadFirstFile == DownloadSpec => [](DownloadTypeOK /\ FirstFileWins)
<1>1. DownloadInv => DownloadTypeOK /\ FirstFileWins
  BY DEF DownloadInv
<1>. QED BY <1>1, DownloadInvInit, DownloadInvStep, PTL DEF DownloadSpec
-----------------------------------------------------------------------------
(* S3Dump *)

\* The date of the dump that is being made is not yet kept; an upload that did not
\* raise, of a pg_dump that ended well, has left the whole object; what is to be
\* pruned is too old for every cut-off to come.
DumpInv ==
  /\ DumpTypeOK
  /\ kept \subseteq DumpDates /\ cutoff \in Nat /\ raising \in BOOLEAN
  /\ upload \in {"upload", "join"} => dumpDate \notin kept
  /\ upload = "upload" => ~ raising /\ pg # "none"
  /\ upload = "join" /\ ~ raising =>
       pg \in {"ok", "failed"} /\ (pg = "ok" => bucket[dumpDate] = "whole")
  /\ upload # "prune" => old = {}
  /\ \A d \in old : d + Retention < dumpDate
  /\ WholeDumpKept

LEMMA DumpInvInit == DumpInit => DumpInv
<1>. SUFFICES ASSUME DumpInit PROVE DumpInv
  OBVIOUS
<1>1. 1 \in DumpDates /\ 0 \in 0 .. PipeSize
  BY DumpAssumption DEF DumpDates
<1>2. DumpTypeOK
  BY <1>1 DEF DumpInit, DumpTypeOK
<1>. QED BY <1>2 DEF DumpInit, DumpInv, WholeDumpKept

LEMMA DumpInvStep == DumpInv /\ [DumpNext]_dumpVars => DumpInv'
<1>. SUFFICES ASSUME DumpInv, [DumpNext]_dumpVars PROVE DumpInv'
  OBVIOUS
<1>. USE DEF DumpInv, DumpTypeOK, WholeDumpKept, pipes
<1>0. Retention \in Nat /\ PipeSize \in Nat \ {0} /\ DumpDates \subseteq Nat
  BY DumpAssumption DEF DumpDates
<1>1. CASE StartDump
  <2>1. PICK d \in DumpDates : dumpDate' = d /\ kept' = kept \ {d}
    BY <1>1 DEF StartDump
  <2>2. DumpTypeOK'
    BY <1>1, <1>0, <2>1 DEF StartDump
  <2>3. WholeDumpKept'
    BY <1>1, <2>1 DEF StartDump
  <2>4. old' = {}
    BY <1>1 DEF StartDump
  <2>. QED BY <1>1, <2>1, <2>2, <2>3, <2>4 DEF StartDump
<1>2. CASE PgWrites
  BY <1>2, <1>0 DEF PgWrites
<1>3. CASE PgFails
  BY <1>3 DEF PgFails
<1>4. CASE DrainStderr
  BY <1>4, <1>0 DEF DrainStderr
<1>5. CASE UploadReads
  <2>1. CASE out > 0 /\ out' = out - 1 /\ UNCHANGED <<bucket, upload>>
    BY <1>5, <1>0, <2>1 DEF UploadReads
  <2>2. CASE ~ (out > 0 /\ out' = out - 1 /\ UNCHANGED <<bucket, upload>>)
    BY <1>5, <1>0, <2>2 DEF UploadReads
  <2>. QED BY <2>1, <2>2
<1>6. CASE UploadRaises
  BY <1>6 DEF UploadRaises
<1>7. CASE CheckExit
  <2>1. CASE raising \/ pg = "failed"
    BY <1>7, <2>1 DEF CheckExit
  <2>2. CASE ~ (raising \/ pg = "failed")
    BY <1>7, <2>2 DEF CheckExit
  <2>. QED BY <2>1, <2>2
<1>8. CASE ListOld
  BY <1>8 DEF ListOld, TooOld
<1>9. CASE PruneOld
  <2>1. cutoff' \in Nat /\ cutoff' >= cutoff /\ cutoff' >= dumpDate
    BY <1>9, <1>0 DEF PruneOld
  <2>2. ASSUME NEW d \in kept', d + Retention >= cutoff' PROVE bucket'[d] = "whole"
    <3>1. d \in DumpDates /\ d + Retention >= cutoff /\ ~ (d + Retention < dumpDate)
      BY <1>9, <1>0, <2>1, <2>2 DEF PruneOld
    <3>2. d \notin old /\ bucket[d] = "whole"
      BY <1>9, <2>2, <3>1 DEF PruneOld
    <3>. QED BY <1>9, <3>1, <3>2 DEF PruneOld
  <2>. QED BY <1>9, <2>1, <2>2 DEF PruneOld
<1>10. CASE S3Raises
  BY <1>10 DEF S3Raises
<1>11. CASE UNCHANGED dumpVars
  BY <1>11 DEF dumpVars
<1>. QED BY <1>1, <1>2, <1>3, <1>4, <1>5, <1>6, <1>7, <1>8, <1>9, <1>10, <1>11
         DEF DumpNext, UploadStep

\* Whatever pg_dump, the drain thread and S3 do, the dump of a date that
\* upload_etl_dump saw succeed stays whole for the days of the retention.
THEOREM DumpKept == DumpSpec => [](DumpTypeOK /\ WholeDumpKept)
<1>1. DumpInv => DumpTypeOK /\ WholeDumpKept
  BY DEF DumpInv
<1>. QED BY <1>1, DumpInvInit, DumpInvStep, PTL DEF DumpSpec
-----------------------------------------------------------------------------
(* OptionChainFetch *)

\* What a task asked for after the refusal is the expiry it was already at; and
\* once it is done with that it stops.
LateOnce(t) ==
  \/ late[t] = {}
  \/ /\ pc[t] \in {"lock", "sleep", "sent", "backoff"} /\ refused
     /\ late[t] = {Head(left[t])}
  \/ pc[t] = "done" /\ \E e \in late[t] : late[t] = {e}

\* One task at a time sleeps in _throttle, for what is left of the interval.
FetchInv ==
  /\ FetchTypeOK
  /\ left = [t \in Tasks |-> left[t]] /\ late = [t \in Tasks |-> late[t]]
  /\ \A t, o \in Tasks : pc[t] = "sleep" /\ pc[o] = "sleep" => t = o
  /\ \A t \in Tasks : pc[t] = "sleep" => timer[t] + quiet = Interval
  /\ refused => stop
  /\ \A t \in Tasks : LateOnce(t)

LEMMA FetchInvInit == FetchInit => FetchInv
<1>. SUFFICES ASSUME FetchInit PROVE FetchInv
  OBVIOUS
<1>1. Interval \in 0 .. Interval /\ 0 \in 0 .. Interval /\ 1 \in 1 .. FetchAttempts
  BY FetchAssumption
<1>2. FetchTypeOK
  BY <1>1 DEF FetchInit, FetchTypeOK, Pcs
<1>. QED BY <1>2 DEF FetchInit, FetchInv, LateOnce

\* A task that goes on after an expiry is past its request.
LEMMA ProceedKeeps ==
  ASSUME FetchInv, NEW t \in Tasks, NEW rest, pc[t] = "sent", Proceed(t, rest),
         UNCHANGED <<try, timer, quiet, late>>,
         stop' \in BOOLEAN, refused' \in BOOLEAN, stop => stop',
         refused => refused', refused' => stop'
  PROVE  FetchInv'
<1>. USE DEF FetchInv, FetchTypeOK, Pcs, Proceed, Goto
<1>1. /\ pc' \in [Tasks -> Pcs] /\ pc'[t] \in {"done", "acquire"}
      /\ \A o \in Tasks : o # t => pc'[o] = pc[o] /\ left'[o] = left[o]
      /\ pc'[t] = "acquire" => left'[t] # << >> /\ ~ stop
  OBVIOUS
<1>2. FetchTypeOK' /\ left' = [o \in Tasks |-> left'[o]]
  BY <1>1
<1>3. ASSUME NEW o \in Tasks PROVE LateOnce(o)'
  <2>1. CASE o = t
    BY <1>1, <2>1 DEF LateOnce
  <2>2. CASE o # t
    BY <1>1, <2>2 DEF LateOnce
  <2>. QED BY <2>1, <2>2
<1>. QED BY <1>1, <1>2, <1>3

LEMMA FetchInvStep == FetchInv /\ [FetchNext]_fetchVars => FetchInv'
<1>. SUFFICES ASSUME FetchInv, [FetchNext]_fetchVars PROVE FetchInv'
  OBVIOUS
<1>. USE DEF FetchInv, FetchTypeOK, Pcs
<1>0. Interval \in Nat /\ FetchAttempts \in Nat \ {0}
  BY FetchAssumption
<1>1. ASSUME NEW t \in Tasks, Start(t) PROVE FetchInv'
  <2>1. Targets(t) # << >>
    BY DEF Targets
  <2>2. FetchTypeOK' /\ left' = [o \in Tasks |-> left'[o]]
    BY <1>1, <2>1 DEF Start, Goto
  <2>3. \A o \in Tasks : LateOnce(o)'
    BY <1>1 DEF Start, Goto, LateOnce
  <2>4. \A o \in Tasks : pc'[o] = "sleep" => pc[o] = "sleep"
    BY <1>1 DEF Start, Goto
  <2>. QED BY <1>1, <2>2, <2>3, <2>4 DEF Start
<1>2. ASSUME NEW t \in Tasks, Acquire(t) PROVE FetchInv'
  <2>1. FetchTypeOK'
    BY <1>2, <1>0 DEF Acquire, Goto
  <2>2. \A o \in Tasks : LateOnce(o)'
    BY <1>2 DEF Acquire, Goto, LateOnce
  <2>. QED BY <1>2, <2>1, <2>2 DEF Acquire, Goto
<1>3. ASSUME NEW t \in Tasks, ThrottleLock(t) PROVE FetchInv'
  <2>1. FetchTypeOK' /\ timer'[t] + quiet' = Interval
    BY <1>3, <1>0 DEF ThrottleLock, Goto
  <2>2. \A o \in Tasks : LateOnce(o)'
    BY <1>3 DEF ThrottleLock, Goto, LateOnce
  <2>3. \A o \in Tasks : pc'[o] = "sleep" => o = t
    BY <1>3 DEF ThrottleLock, Goto
  <2>. QED BY <1>3, <2>1, <2>2, <2>3 DEF ThrottleLock, Goto
<1>4. ASSUME NEW t \in Tasks, Send(t) PROVE FetchInv'
  <2>1. FetchTypeOK'
    BY <1>4, <1>0 DEF Send, Goto
  <2>2. ASSUME NEW o \in Tasks PROVE LateOnce(o)'
    <3>1. CASE o = t
      BY <1>4, <3>1 DEF Send, Goto, LateOnce
    <3>2. CASE o # t
      BY <1>4, <3>2 DEF Send, Goto, LateOnce
    <3>. QED BY <3>1, <3>2
  <2>3. \A o \in Tasks : pc'[o] # "sleep"
    BY <1>4 DEF Send, Goto
  <2>4. late' = [o \in Tasks |-> late'[o]]
    BY <1>4 DEF Send
  <2>. QED BY <1>4, <2>1, <2>2, <2>3, <2>4 DEF Send, Goto
<1>5. ASSUME NEW t \in Tasks, AnswerRows(t) PROVE FetchInv'
  BY <1>5, ProceedKeeps DEF AnswerRows
<1>6. ASSUME NEW t \in Tasks, AnswerEmpty(t) PROVE FetchInv'
  BY <1>6, ProceedKeeps DEF AnswerEmpty
<1>7. ASSUME NEW t \in Tasks, FailRetryable(t) PROVE FetchInv'
  <2>1. FetchTypeOK'
    BY <1>7, <1>0 DEF FailRetryable, Goto
  <2>2. \A o \in Tasks : LateOnce(o)'
    BY <1>7 DEF FailRetryable, Goto, LateOnce
  <2>. QED BY <1>7, <2>1, <2>2 DEF FailRetryable, Goto
<1>8. ASSUME NEW t \in Tasks, Retry(t) PROVE FetchInv'
  <2>1. \A o \in Tasks : LateOnce(o)'
    BY <1>8 DEF Retry, Goto, LateOnce
  <2>. QED BY <1>8, <2>1 DEF Retry, Goto
<1>9. ASSUME NEW t \in Tasks, FailForGood(t) PROVE FetchInv'
  <2>1. stop' \in BOOLEAN /\ refused' \in BOOLEAN /\ (stop => stop')
       /\ (refused => refused') /\ (refused' => stop')
    BY <1>9 DEF FailForGood, StopsOn
  <2>. QED BY <1>9, <2>1, ProceedKeeps DEF FailForGood
<1>10. CASE TickFetch
  <2>1. FetchTypeOK'
    BY <1>10, <1>0 DEF TickFetch
  <2>2. \A o \in Tasks : LateOnce(o)'
    BY <1>10 DEF TickFetch, LateOnce
  <2>3. \A o \in Tasks : pc'[o] = "sleep" => timer'[o] + quiet' = Interval
    BY <1>10, <1>0 DEF TickFetch
  <2>. QED BY <1>10, <2>1, <2>2, <2>3 DEF TickFetch
<1>11. CASE UNCHANGED fetchVars
  BY <1>11 DEF fetchVars, LateOnce
<1>. QED BY <1>1, <1>2, <1>3, <1>4, <1>5, <1>6, <1>7, <1>8, <1>9, <1>10, <1>11
         DEF FetchNext

\* The tasks of fetch_summaries keep to their labels, attempts and sleeps.
THEOREM FetchTypes == FetchSpec => []FetchTypeOK
<1>1. FetchInv => FetchTypeOK
  BY DEF FetchInv
<1>. QED BY <1>1, FetchInvInit, FetchInvStep, PTL DEF FetchSpec

\* With any number of symbols, permits and attempts the requests leave the throttle
\* at least an interval apart, and a task asks for at most one expiry after NSE has
\* refused a request for good: the one it was at.
THEOREM RequestsKeepDistance == FetchSpec => RequestsHeldBack
<1>1. FetchInv /\ FetchInv' =>
        \A t \in Tasks : (Send(t) => quiet = Interval) /\ Cardinality(late'[t]) <= 1
  <2>. SUFFICES ASSUME FetchInv, FetchInv', NEW t \in Tasks
                PROVE (Send(t) => quiet = Interval) /\ Cardinality(late'[t]) <= 1
    OBVIOUS
  <2>1. Send(t) => quiet = Interval
    BY FetchAssumption DEF Send, FetchInv, FetchTypeOK
  <2>2. late'[t] = {} \/ \E e : late'[t] = {e}
    BY DEF FetchInv, LateOnce
  <2>3. Cardinality(late'[t]) <= 1
    <3>1. CASE late'[t] = {}
      BY <3>1, FS_EmptySet
    <3>2. CASE \E e : late'[t] = {e}
      <4>1. PICK e : late'[t] = {e}
        BY <3>2
      <4>2. Cardinality({e}) = 1
        BY FS_Singleton
      <4>. QED BY <4>1, <4>2
    <3>. QED BY <2>2, <3>1, <3>2
  <2>. QED BY <2>1, <2>3
<1>2. FetchInv /\ FetchInv' /\ [FetchNext]_fetchVars =>
        [\A t \in Tasks : /\ Send(t) => quiet = Interval
                          /\ Cardinality(late'[t]) <= 1]_fetchVars
  BY <1>1
<1>. QED BY <1>2, FetchInvInit, FetchInvStep, PTL DEF FetchSpec, RequestsHeldBack
-----------------------------------------------------------------------------
(* Sorted lists *)

\* A larger member has a higher place.
LEMMA RankStrict ==
  ASSUME NEW S, S \subseteq Nat, IsFiniteSet(S), NEW e \in S, NEW f \in S, e < f
  PROVE  Rank(e, S) \in Nat /\ Rank(f, S) \in Nat /\ Rank(e, S) < Rank(f, S)
<1>. DEFINE E == {g \in S : g <= e}
            F == {g \in S : g <= f}
<1>0. e \in Nat /\ f \in Nat /\ \A g \in S : g <= e => g <= f
  OBVIOUS
<1>1. E \subseteq F /\ f \in F /\ f \notin E /\ F \subseteq S
  <2>1. f <= f /\ ~ (f <= e)
    BY <1>0
  <2>2. \A g \in E : g \in F
    BY <1>0
  <2>. QED BY <2>1, <2>2
<1>. HIDE DEF E, F
<1>2. IsFiniteSet(F)
  BY <1>1, FS_Subset
<1>3. IsFiniteSet(E) /\ Cardinality(E) <= Cardinality(F) /\ Cardinality(F) # Cardinality(E)
  BY <1>1, <1>2, FS_Subset
<1>4. Cardinality(E) \in Nat /\ Cardinality(F) \in Nat
  BY <1>2, <1>3, FS_CardinalityType
<1>. QED BY <1>3, <1>4 DEF E, F, Rank

\* Each place is taken by one member.
LEMMA RankTaken ==
  ASSUME NEW S, S \subseteq Nat, IsFiniteSet(S)
  PROVE  /\ Cardinality(S) \in Nat
         /\ \A e \in S : Rank(e, S) \in 1 .. Cardinality(S)
         /\ \A e, f \in S : Rank(e, S) = Rank(f, S) => e = f
         /\ \A i \in 1 .. Cardinality(S) : \E e \in S : Rank(e, S) = i
<1>1. Cardinality(S) \in Nat
  BY FS_CardinalityType
<1>2. ASSUME NEW e \in S PROVE Rank(e, S) \in 1 .. Cardinality(S)
  <2>. DEFINE E == {g \in S : g <= e}
  <2>1. E \in SUBSET S /\ e \in E
    OBVIOUS
  <2>. HIDE DEF E
  <2>2. IsFiniteSet(E) /\ Cardinality(E) <= Cardinality(S)
    BY <2>1, FS_Subset
  <2>3. Cardinality(E) \in Nat /\ Cardinality(E) # 0
    BY <2>1, <2>2, FS_CardinalityType, FS_EmptySet
  <2>. QED BY <1>1, <2>2, <2>3 DEF E, Rank
<1>3. ASSUME NEW e \in S, NEW f \in S, Rank(e, S) = Rank(f, S) PROVE e = f
  <2>1. e \in Nat /\ f \in Nat
    OBVIOUS
  <2>2. ASSUME e < f PROVE FALSE
    <3>1. Rank(e, S) \in Nat /\ Rank(e, S) < Rank(f, S)
      BY <2>2, RankStrict
    <3>. QED BY <1>3, <3>1
  <2>3. ASSUME f < e PROVE FALSE
    <3>1. Rank(f, S) \in Nat /\ Rank(f, S) < Rank(e, S)
      BY <2>3, RankStrict
    <3>. QED BY <1>3, <3>1
  <2>. QED BY <2>1, <2>2, <2>3
<1>4. ASSUME NEW i \in 1 .. Cardinality(S) PROVE \E e \in S : Rank(e, S) = i
  <2>. SUFFICES ASSUME \A e \in S : Rank(e, S) # i PROVE FALSE
    OBVIOUS
  <2>. DEFINE T == (1 .. Cardinality(S)) \ {i}
              r == [e \in S |-> Rank(e, S)]
  <2>1. IsFiniteSet(1 .. Cardinality(S)) /\ Cardinality(1 .. Cardinality(S)) = Cardinality(S)
    BY <1>1, FS_Interval
  <2>2. IsFiniteSet(T) /\ Cardinality(T) = Cardinality(S) - 1
    BY <2>1, FS_RemoveElement
  <2>3. r \in [S -> T]
    BY <1>2
  <2>. HIDE DEF T, r
  <2>4. \E x, y \in S : x # y /\ r[x] = r[y]
    <3>1. Cardinality(T) < Cardinality(S)
      BY <1>1, <2>2
    <3>. QED BY <2>2, <2>3, <3>1, FS_PigeonHole
  <2>. QED BY <1>3, <2>4 DEF r
<1>. QED BY <1>1, <1>2, <1>3, <1>4

\* Ascending sorts: every member once, each below the next.
LEMMA AscendingSorts ==
  ASSUME NEW S, S \subseteq Nat, IsFiniteSet(S)
  PROVE  /\ Ascending(S) \in Seq(S) /\ Len(Ascending(S)) = Cardinality(S)
         /\ \A e \in S : \E i \in 1 .. Len(Ascending(S)) : Ascending(S)[i] = e
         /\ \A i, j \in 1 .. Len(Ascending(S)) : i < j => Ascending(S)[i] < Ascending(S)[j]
<1>. DEFINE A == Ascending(S)
            n == Cardinality(S)
<1>1. n \in Nat
  BY RankTaken
<1>2. \A i \in 1 .. n : A[i] \in S /\ Rank(A[i], S) = i
  BY RankTaken DEF Ascending
<1>3. A \in [1 .. n -> S]
  BY <1>2 DEF Ascending
<1>4. A \in Seq(S) /\ Len(A) = n
  BY <1>1, <1>3
<1>5. ASSUME NEW e \in S PROVE \E i \in 1 .. n : A[i] = e
  <2>1. Rank(e, S) \in 1 .. n
    BY RankTaken
  <2>2. A[Rank(e, S)] \in S /\ Rank(A[Rank(e, S)], S) = Rank(e, S)
    BY <1>2, <2>1
  <2>. HIDE DEF A
  <2>3. A[Rank(e, S)] = e
    BY <2>2, RankTaken
  <2>. QED BY <2>1, <2>3
<1>6. ASSUME NEW i \in 1 .. n, NEW j \in 1 .. n, i < j PROVE A[i] < A[j]
  <2>1. /\ A[i] \in S /\ A[j] \in S /\ A[i] \in Nat /\ A[j] \in Nat
        /\ Rank(A[i], S) = i /\ Rank(A[j], S) = j
    BY <1>2
  <2>. HIDE DEF A
  <2>2. i \in Nat /\ j \in Nat
    BY <1>1
  <2>3. A[j] # A[i]
    BY <1>6, <2>1, <2>2
  <2>4. ASSUME A[j] < A[i] PROVE FALSE
    <3>1. Rank(A[j], S) < Rank(A[i], S)
      BY <2>1, <2>4, RankStrict
    <3>. QED BY <1>6, <2>1, <2>2, <3>1
  <2>. QED BY <2>1, <2>3, <2>4
<1>. QED BY <1>4, <1>5, <1>6

\* From the places of k to those of s: which members of s a filter has kept.
Picks(at, k, s, S) ==
  /\ at \in [1 .. Len(k) -> 1 .. Len(s)]
  /\ \A i \in 1 .. Len(k) : k[i] = s[at[i]]
  /\ \A i, j \in 1 .. Len(k) : i < j => at[i] < at[j]
  /\ \A i \in 1 .. Len(s) : s[i] \in S => \E j \in 1 .. Len(k) : at[j] = i

\* Keep keeps the members that pass, in their order.
LEMMA KeepFilters ==
  ASSUME NEW T, NEW s \in Seq(T), NEW S
  PROVE  /\ Keep(s, S) \in Seq(T \cap S) /\ Len(Keep(s, S)) <= Len(s)
         /\ \E at : Picks(at, Keep(s, S), s, S)
<1>. DEFINE P == {i \in DOMAIN s : s[i] \in S}
            places == Ascending(P)
<1>1. P \in SUBSET (1 .. Len(s)) /\ P \subseteq Nat /\ Len(s) \in Nat /\ P = {i \in 1 .. Len(s) : s[i] \in S}
  OBVIOUS
<1>2. IsFiniteSet(P) /\ Cardinality(P) <= Len(s)
  <2>1. IsFiniteSet(1 .. Len(s)) /\ Cardinality(1 .. Len(s)) = Len(s)
    <3>1. Len(s) \in Int /\ 1 \in Int /\ (1 > Len(s) => Len(s) = 0)
      BY <1>1
    <3>2. /\ IsFiniteSet(1 .. Len(s))
          /\ Cardinality(1 .. Len(s)) = IF 1 > Len(s) THEN 0 ELSE Len(s) - 1 + 1
      BY <3>1, FS_Interval
    <3>. QED BY <1>1, <3>2
  <2>. HIDE DEF P
  <2>. QED BY <1>1, <2>1, FS_Subset
<1>3. /\ places \in Seq(P) /\ Len(places) = Cardinality(P)
      /\ \A e \in P : \E i \in 1 .. Len(places) : places[i] = e
      /\ \A i, j \in 1 .. Len(places) : i < j => places[i] < places[j]
  <2>. HIDE DEF P
  <2>. QED BY <1>1, <1>2, AscendingSorts
<1>4. Keep(s, S) = [k \in DOMAIN places |-> s[places[k]]]
  BY DEF Keep
<1>. HIDE DEF places
<1>5. /\ Len(places) \in Nat /\ DOMAIN places = 1 .. Len(places)
      /\ \A k \in 1 .. Len(places) : places[k] \in P
  <2>. HIDE DEF P
  <2>. QED BY <1>3
<1>6. Keep(s, S) \in Seq(T \cap S) /\ Len(Keep(s, S)) = Len(places)
  <2>1. \A k \in 1 .. Len(places) : s[places[k]] \in T \cap S
    BY <1>1, <1>5
  <2>2. Keep(s, S) \in [1 .. Len(places) -> T \cap S]
    BY <1>4, <1>5, <2>1
  <2>. QED BY <1>5, <2>2
<1>7. places \in [1 .. Len(Keep(s, S)) -> 1 .. Len(s)]
  <2>. HIDE DEF P
  <2>. QED BY <1>1, <1>3, <1>5, <1>6
<1>8. \A k \in 1 .. Len(Keep(s, S)) : Keep(s, S)[k] = s[places[k]]
  BY <1>4, <1>5, <1>6
<1>9. \A i \in 1 .. Len(s) : s[i] \in S => \E k \in 1 .. Len(Keep(s, S)) : places[k] = i
  BY <1>1, <1>3, <1>6
<1>10. \A k, l \in 1 .. Len(Keep(s, S)) : k < l => places[k] < places[l]
  BY <1>3, <1>6
<1>11. Len(Keep(s, S)) <= Len(s)
  BY <1>2, <1>3, <1>6
<1>. HIDE DEF P
<1>12. Picks(places, Keep(s, S), s, S)
  BY <1>7, <1>8, <1>9, <1>10 DEF Picks
<1>. QED BY <1>6, <1>11, <1>12
-----------------------------------------------------------------------------
(* Sums *)

LEMMA LeastOfNats ==
  ASSUME NEW S, S \subseteq Nat, S # {}
  PROVE  \E m \in S : \A n \in S : m <= n
<1>. DEFINE R == {ss \in Nat \X Nat : ss[1] < ss[2]}
<1>0. IsWellFoundedOn(R, Nat)
  BY NatLessThanWellFounded DEF OpToRel
<1>1. PICK m \in S : \A n \in S : ~ (<<n, m>> \in R)
  <2>. HIDE DEF R
  <2>. QED BY <1>0, WFMin
<1>2. ASSUME NEW n \in S PROVE m <= n
  <2>1. m \in Nat /\ n \in Nat /\ <<n, m>> \in Nat \X Nat /\ <<n, m>>[1] = n /\ <<n, m>>[2] = m
    OBVIOUS
  <2>2. ~ (n < m)
    BY <1>1, <2>1
  <2>. QED BY <2>1, <2>2
<1>. QED BY <1>2

\* Of some subsets of a finite set one is the smallest.
LEMMA SmallestSubset ==
  ASSUME NEW S, IsFiniteSet(S), NEW B, B \subseteq SUBSET S, B # {}
  PROVE  \E T \in B : T \subseteq S /\ IsFiniteSet(T) /\ \A U \in SUBSET T : U # T => U \notin B
<1>1. FiniteSubsetsOf(S) = SUBSET S
  BY FS_FiniteSubsetsOfFinite
<1>2. IsWellFoundedOn(StrictSubsetOrdering(S), SUBSET S)
  BY <1>1, FS_StrictSubsetOrderingWellFounded
<1>3. PICK T \in B : \A U \in B : ~ (<<U, T>> \in StrictSubsetOrdering(S))
  BY <1>2, WFMin
<1>4. T \subseteq S
  OBVIOUS
<1>5. IsFiniteSet(T)
  BY <1>4, FS_Subset
<1>6. ASSUME NEW U \in SUBSET T, U # T, U \in B PROVE FALSE
  <2>1. <<U, T>> \in (SUBSET S) \X (SUBSET S) /\ <<U, T>>[1] = U /\ <<U, T>>[2] = T
    BY <1>4, <1>6
  <2>2. <<U, T>> \in StrictSubsetOrdering(S)
    BY <1>6, <2>1 DEF StrictSubsetOrdering
  <2>. QED BY <1>3, <1>6, <2>2
<1>. QED BY <1>4, <1>5, <1>6

\* The function that FoldSet computes with.
First(T) == CHOOSE x \in T : TRUE
Adds(g, f, S) ==
  g = [T \in SUBSET S |-> IF T = {} THEN 0 ELSE g[T \ {First(T)}] + f[First(T)]]

LEMMA FirstIn == \A T : T # {} => First(T) \in T /\ First(T) \notin T \ {First(T)}
BY DEF First

LEMMA AddsExists ==
  ASSUME NEW f, NEW S, IsFiniteSet(S)
  PROVE  \E g : Adds(g, f, S)
<1>. DEFINE Sz(n) == {T \in SUBSET S : Cardinality(T) <= n}
            Good(n) == \E g : g = [T \in Sz(n) |->
                         IF T = {} THEN 0 ELSE g[T \ {First(T)}] + f[First(T)]]
            Bad == {n \in Nat : ~ Good(n)}
<1>1. \A T \in SUBSET S : IsFiniteSet(T) /\ Cardinality(T) \in Nat
  BY FS_Subset, FS_CardinalityType
<1>2. Good(0)
  <2>1. ASSUME NEW T \in Sz(0) PROVE T = {}
    <3>1. IsFiniteSet(T) /\ Cardinality(T) = 0
      BY <1>1
    <3>. QED BY <3>1, FS_EmptySet
  <2>. DEFINE g == [T \in Sz(0) |-> 0]
  <2>2. g = [T \in Sz(0) |-> IF T = {} THEN 0 ELSE g[T \ {First(T)}] + f[First(T)]]
    BY <2>1
  <2>. QED BY <2>2
<1>3. ASSUME NEW n \in Nat, Good(n) PROVE Good(n + 1)
  <2>1. PICK h : h = [T \in Sz(n) |-> IF T = {} THEN 0 ELSE h[T \ {First(T)}] + f[First(T)]]
    BY <1>3
  <2>. DEFINE g == [T \in Sz(n + 1) |-> IF T = {} THEN 0 ELSE h[T \ {First(T)}] + f[First(T)]]
  <2>2. ASSUME NEW T \in Sz(n + 1), T # {} PROVE T \ {First(T)} \in Sz(n)
    <3>1. First(T) \in T /\ T \in SUBSET S
      BY <2>2, FirstIn
    <3>2. IsFiniteSet(T) /\ Cardinality(T) \in Nat /\ Cardinality(T) <= n + 1
      BY <1>1, <3>1
    <3>3. Cardinality(T \ {First(T)}) = Cardinality(T) - 1
      BY <3>1, <3>2, FS_RemoveElement
    <3>. QED BY <3>1, <3>2, <3>3
  <2>3. ASSUME NEW T \in Sz(n) PROVE T \in Sz(n + 1) /\ g[T] = h[T]
    <3>1. T \in Sz(n + 1)
      <4>1. Cardinality(T) \in Nat
        BY <1>1
      <4>. QED BY <4>1
    <3>2. h[T] = IF T = {} THEN 0 ELSE h[T \ {First(T)}] + f[First(T)]
      BY <2>1
    <3>. QED BY <3>1, <3>2
  <2>4. g = [T \in Sz(n + 1) |-> IF T = {} THEN 0 ELSE g[T \ {First(T)}] + f[First(T)]]
    <3>1. \A T \in Sz(n + 1) : T # {} => g[T \ {First(T)}] = h[T \ {First(T)}]
      BY <2>2, <2>3
    <3>. HIDE DEF Sz
    <3>. QED BY <3>1
  <2>. QED BY <2>4
<1>4. \A n \in Nat : Good(n)
  <2>. SUFFICES ASSUME Bad # {} PROVE FALSE
    OBVIOUS
  <2>1. PICK m \in Bad : \A k \in Bad : m <= k
    <3>. HIDE DEF Good
    <3>1. Bad \subseteq Nat
      OBVIOUS
    <3>. HIDE DEF Bad
    <3>. QED BY <3>1, LeastOfNats
  <2>2. m \in Nat /\ ~ Good(m)
    OBVIOUS
  <2>. HIDE DEF Good
  <2>3. m # 0
    BY <1>2, <2>2
  <2>4. m - 1 \in Nat /\ m - 1 + 1 = m /\ m - 1 \notin Bad
    BY <2>1, <2>2, <2>3
  <2>. QED BY <1>3, <2>2, <2>4
<1>5. Sz(Cardinality(S)) = SUBSET S
  <2>1. \A T \in SUBSET S : Cardinality(T) <= Cardinality(S)
    BY FS_Subset
  <2>. QED BY <2>1
<1>6. Good(Cardinality(S))
  <2>. HIDE DEF Good
  <2>1. Cardinality(S) \in Nat
    BY FS_CardinalityType
  <2>. QED BY <1>4, <2>1
<1>7. PICK g : g = [T \in Sz(Cardinality(S)) |-> IF T = {} THEN 0 ELSE g[T \ {First(T)}] + f[First(T)]]
  BY <1>6
<1>8. Adds(g, f, S)
  <2>. HIDE DEF Sz
  <2>. QED BY <1>5, <1>7 DEF Adds
<1>. QED BY <1>8

\* One such function goes for all subsets.
LEMMA AddsGives ==
  ASSUME NEW f, NEW S, IsFiniteSet(S), NEW g, Adds(g, f, S)
  PROVE  \A T \in SUBSET S : SumOver(f, T) = g[T]
<1>. SUFFICES ASSUME NEW T \in SUBSET S PROVE SumOver(f, T) = g[T]
  OBVIOUS
<1>1. IsFiniteSet(T)
  BY FS_Subset
<1>2. PICK h : SumOver(f, T) = h[T] /\ Adds(h, f, T)
  <2>. DEFINE h == CHOOSE h : Adds(h, f, T)
  <2>1. SumOver(f, T) = h[T]
    BY DEF SumOver, FoldSet, MapThenFoldSet, Adds, First
  <2>2. Adds(h, f, T)
    BY <1>1, AddsExists
  <2>. QED BY <2>1, <2>2
<1>. DEFINE B == {U \in SUBSET T : h[U] # g[U]}
<1>. SUFFICES ASSUME B # {} PROVE FALSE
  BY <1>2
<1>3. PICK U \in B : U \subseteq T /\ IsFiniteSet(U) /\ \A W \in SUBSET U : W # U => W \notin B
  <2>1. B \subseteq SUBSET T
    OBVIOUS
  <2>. HIDE DEF B
  <2>. QED BY <1>1, <2>1, SmallestSubset
<1>4. U \in SUBSET T /\ U \in SUBSET S /\ h[U] # g[U]
  OBVIOUS
<1>5. /\ h[U] = IF U = {} THEN 0 ELSE h[U \ {First(U)}] + f[First(U)]
      /\ g[U] = IF U = {} THEN 0 ELSE g[U \ {First(U)}] + f[First(U)]
  BY <1>2, <1>4 DEF Adds
<1>6. U # {}
  BY <1>4, <1>5
<1>7. U \ {First(U)} \in SUBSET U /\ U \ {First(U)} # U /\ U \ {First(U)} \in SUBSET T
  BY <1>4, <1>6, FirstIn
<1>8. h[U \ {First(U)}] = g[U \ {First(U)}]
  BY <1>3, <1>7
<1>. QED BY <1>4, <1>5, <1>6, <1>8

LEMMA SumFirst ==
  ASSUME NEW f, NEW S, IsFiniteSet(S)
  PROVE  /\ S = {} => SumOver(f, S) = 0
         /\ S # {} => SumOver(f, S) = SumOver(f, S \ {First(S)}) + f[First(S)]
<1>1. PICK g : Adds(g, f, S)
  BY AddsExists
<1>2. S \in SUBSET S /\ S \ {First(S)} \in SUBSET S
  OBVIOUS
<1>3. SumOver(f, S) = g[S] /\ SumOver(f, S \ {First(S)}) = g[S \ {First(S)}]
  BY <1>1, <1>2, AddsGives
<1>4. g[S] = IF S = {} THEN 0 ELSE g[S \ {First(S)}] + f[First(S)]
  BY <1>1, <1>2 DEF Adds
<1>. QED BY <1>3, <1>4

LEMMA SumType ==
  ASSUME NEW D, NEW f \in [D -> Int], NEW S, S \subseteq D, IsFiniteSet(S)
  PROVE  SumOver(f, S) \in Int
<1>. DEFINE B == {T \in SUBSET S : SumOver(f, T) \notin Int}
<1>. SUFFICES ASSUME B # {} PROVE FALSE
  OBVIOUS
<1>1. PICK T \in B : IsFiniteSet(T) /\ \A U \in SUBSET T : U # T => U \notin B
  <2>1. B \subseteq SUBSET S
    OBVIOUS
  <2>. HIDE DEF B
  <2>. QED BY <2>1, SmallestSubset
<1>2. T \in SUBSET S /\ SumOver(f, T) \notin Int
  OBVIOUS
<1>3. T # {}
  <2>1. T = {} => SumOver(f, T) = 0
    BY <1>1, SumFirst
  <2>. QED BY <1>2, <2>1
<1>4. T \ {First(T)} \in SUBSET T /\ T \ {First(T)} # T /\ T \ {First(T)} \in SUBSET S
      /\ f[First(T)] \in Int
  BY <1>2, <1>3, FirstIn
<1>5. SumOver(f, T \ {First(T)}) \in Int
  BY <1>1, <1>4
<1>6. SumOver(f, T) = SumOver(f, T \ {First(T)}) + f[First(T)]
  BY <1>1, <1>3, SumFirst
<1>. QED BY <1>2, <1>4, <1>5, <1>6

\* A sum does not depend on the order.
LEMMA SumTakeOut ==
  ASSUME NEW D, NEW f \in [D -> Int], NEW S, S \subseteq D, IsFiniteSet(S), NEW x \in S
  PROVE  SumOver(f, S) = SumOver(f, S \ {x}) + f[x]
<1>. DEFINE B == {T \in SUBSET S : \E y \in T : SumOver(f, T) # SumOver(f, T \ {y}) + f[y]}
<1>. SUFFICES ASSUME B # {} PROVE FALSE
  OBVIOUS
<1>1. PICK T \in B : IsFiniteSet(T) /\ \A U \in SUBSET T : U # T => U \notin B
  <2>1. B \subseteq SUBSET S
    OBVIOUS
  <2>. HIDE DEF B
  <2>. QED BY <2>1, SmallestSubset
<1>2. PICK y \in T : SumOver(f, T) # SumOver(f, T \ {y}) + f[y]
  OBVIOUS
<1>. DEFINE c == First(T)
<1>3. T \in SUBSET S /\ T # {} /\ c \in T
  BY <1>2, FirstIn
<1>4. SumOver(f, T) = SumOver(f, T \ {c}) + f[c]
  BY <1>1, <1>3, SumFirst
<1>. HIDE DEF c
<1>5. y # c
  BY <1>2, <1>4
<1>6. T \ {c} \in SUBSET T /\ T \ {c} # T /\ T \ {c} \in SUBSET S /\ y \in T \ {c}
      /\ T \ {y} \in SUBSET T /\ T \ {y} # T /\ T \ {y} \in SUBSET S /\ c \in T \ {y}
  BY <1>3, <1>5
<1>. DEFINE W == (T \ {c}) \ {y}
<1>7. SumOver(f, T \ {c}) = SumOver(f, W) + f[y]
  BY <1>1, <1>6
<1>8. SumOver(f, T \ {y}) = SumOver(f, (T \ {y}) \ {c}) + f[c]
  BY <1>1, <1>6
<1>9. (T \ {y}) \ {c} = W
  OBVIOUS
<1>10. SumOver(f, W) \in Int /\ f[c] \in Int /\ f[y] \in Int
  <2>1. W \subseteq D /\ W \in SUBSET S
    BY <1>3
  <2>2. IsFiniteSet(W)
    BY <2>1, FS_Subset
  <2>3. SumOver(f, W) \in Int
    BY <2>1, <2>2, SumType
  <2>. QED BY <1>3, <2>3
<1>. HIDE DEF B, W
<1>11. SumOver(f, T \ {y}) = SumOver(f, W) + f[c]
  BY <1>8, <1>9
<1>. QED BY <1>2, <1>4, <1>7, <1>10, <1>11

\* The sum over two sets that share nothing.
LEMMA SumUnion ==
  ASSUME NEW D, NEW f \in [D -> Int], NEW S, NEW R, S \subseteq D, R \subseteq D,
         IsFiniteSet(S), IsFiniteSet(R), S \cap R = {}
  PROVE  SumOver(f, S \cup R) = SumOver(f, S) + SumOver(f, R)
<1>. DEFINE B == {T \in SUBSET R : SumOver(f, S \cup T) # SumOver(f, S) + SumOver(f, T)}
<1>. SUFFICES ASSUME B # {} PROVE FALSE
  OBVIOUS
<1>1. PICK T \in B : IsFiniteSet(T) /\ \A U \in SUBSET T : U # T => U \notin B
  <2>1. B \subseteq SUBSET R
    OBVIOUS
  <2>. HIDE DEF B
  <2>. QED BY <2>1, SmallestSubset
<1>2. T \in SUBSET R /\ SumOver(f, S \cup T) # SumOver(f, S) + SumOver(f, T)
  OBVIOUS
<1>3. SumOver(f, S) \in Int /\ SumOver(f, {}) = 0
  BY SumType, SumFirst, FS_EmptySet
<1>4. T # {}
  <2>. SUFFICES ASSUME T = {} PROVE FALSE
    OBVIOUS
  <2>1. S \cup T = S
    OBVIOUS
  <2>. HIDE DEF B
  <2>. QED BY <1>2, <1>3, <2>1
<1>5. PICK x : x \in T
  BY <1>4
<1>. DEFINE W == S \cup (T \ {x})
<1>6. T \ {x} \in SUBSET T /\ T \ {x} # T /\ T \ {x} \in SUBSET R
      /\ x \in S \cup T /\ (S \cup T) \ {x} = W /\ f[x] \in Int
  BY <1>2, <1>5
<1>7. SumOver(f, W) = SumOver(f, S) + SumOver(f, T \ {x})
  BY <1>1, <1>6
<1>8. SumOver(f, T) = SumOver(f, T \ {x}) + f[x] /\ SumOver(f, T \ {x}) \in Int
  <2>1. T \subseteq D /\ T \ {x} \subseteq D
    BY <1>2
  <2>2. IsFiniteSet(T \ {x})
    BY <1>1, FS_RemoveElement
  <2>. QED BY <1>1, <1>5, <2>1, <2>2, SumType, SumTakeOut
<1>9. SumOver(f, S \cup T) = SumOver(f, (S \cup T) \ {x}) + f[x]
  <2>1. S \cup T \subseteq D
    BY <1>2
  <2>2. IsFiniteSet(S \cup T)
    BY <1>1, FS_Union
  <2>. QED BY <1>6, <2>1, <2>2, SumTakeOut
<1>. HIDE DEF B, W
<1>10. SumOver(f, S \cup T) = SumOver(f, W) + f[x]
  BY <1>6, <1>9
<1>. QED BY <1>2, <1>3, <1>6, <1>7, <1>8, <1>10
-----------------------------------------------------------------------------
(* PriceAdjustment *)

Outcome == [status : {"INSUFFICIENT", "SPARSE", "PENDING", "SUSPICIOUS", "ADJUSTED", "CLEAN"},
            rows : Seq(BarDays), prices : Seq(Int)]

\* What the invariants say of one window.
Restored(r) ==
  r.prices # << >> =>
    /\ Len(r.prices) = Len(r.rows)
    /\ \A k \in 1 .. Len(r.rows) - 1 :
         r.prices[k + 1] - r.prices[k] = Level(r.rows[k + 1]) - Level(r.rows[k])
    /\ r.status = "SUSPICIOUS" <=>
         \E k \in 1 .. Len(r.rows) - 1 :
           \/ Level(r.rows[k + 1]) - Level(r.rows[k]) > Threshold
           \/ -(Level(r.rows[k + 1]) - Level(r.rows[k])) > Threshold

SeriesOK ==
  /\ rowDays \subseteq BarDays /\ rowDays # {} /\ moves \in [BarDays -> Moves]
  /\ exDate \in [SplitActions -> BarDays]

AdjustInv ==
  /\ SeriesOK
  /\ results \in Seq(Outcome) /\ Len(results) <= Len(Windows) + 1
  /\ \A i \in DOMAIN results : Restored(results[i])

LEMMA LevelType ==
  ASSUME SeriesOK, NEW d \in BarDays
  PROVE  Level(d) \in Int
<1>1. moves \in [BarDays -> Int]
  BY AdjustmentAssumption DEF SeriesOK
<1>2. 1 .. d \subseteq BarDays /\ d \in Int /\ 1 \in Int
  BY AdjustmentAssumption DEF BarDays
<1>3. IsFiniteSet(1 .. d)
  BY <1>2, FS_Interval
<1>. QED BY <1>1, <1>2, <1>3, SumType DEF Level

\* The multipliers of the actions before a bar are in its price already, those of the
\* actions after it are put in: over all bars they are the same.
LEMMA AdjustedLevel ==
  ASSUME SeriesOK, NEW rows \in Seq(BarDays), rows # << >>,
         \A i, j \in 1 .. Len(rows) : i < j => rows[i] < rows[j]
  PROVE  /\ Adjusted(rows) \in Seq(Int) /\ Len(Adjusted(rows)) = Len(rows)
         /\ \E c \in Int : \A k \in 1 .. Len(rows) : Adjusted(rows)[k] = Level(rows[k]) + c
<1>. DEFINE n == Len(rows)
            C == {a \in SplitActions : standing[a] # "IGNORED" /\ exDate[a] <= rows[n]}
            c == SumOver(Multiplier, C)
<1>0. n \in Nat /\ n > 0 /\ Last(rows) = rows[n] /\ DOMAIN rows = 1 .. n
  BY DEF Last
<1>1. IsFiniteSet(SplitActions) /\ Multiplier \in [SplitActions -> Int] /\ BarDays \subseteq Nat
  BY AdjustmentAssumption DEF BarDays
<1>2. \A T \in SUBSET SplitActions : IsFiniteSet(T) /\ SumOver(Multiplier, T) \in Int
  BY <1>1, FS_Subset, SumType
<1>3. c \in Int
  <2>1. C \subseteq SplitActions
    OBVIOUS
  <2>. HIDE DEF C
  <2>. QED BY <1>2, <2>1
<1>4. ASSUME NEW k \in 1 .. n
      PROVE  Adjusted(rows)[k] = Level(rows[k]) + c
  <2>. DEFINE d == rows[k]
              A == {a \in SplitActions : standing[a] # "IGNORED" /\ exDate[a] <= d}
              B == {a \in Relevant(rows) : Applies(a, d)}
  <2>1. d \in BarDays /\ d \in Nat /\ rows[1] \in Nat /\ rows[n] \in Nat /\ rows[1] <= d /\ d <= rows[n]
    <3>1. 1 \in 1 .. n /\ n \in 1 .. n /\ k \in Nat /\ k >= 1 /\ k <= n
      BY <1>0
    <3>2. (k = 1 \/ 1 < k) /\ (k = n \/ k < n)
      <4>. HIDE DEF n
      <4>. QED BY <1>0, <3>1
    <3>3. \A j \in 1 .. n : rows[j] \in BarDays
      OBVIOUS
    <3>4. rows[1] \in Nat /\ rows[n] \in Nat /\ rows[k] \in Nat /\ rows[k] \in BarDays
      BY <1>1, <3>1, <3>3
    <3>5. (1 < k => rows[1] < rows[k]) /\ (k < n => rows[k] < rows[n])
      BY <3>1
    <3>. QED BY <3>2, <3>4, <3>5
  <2>2. Level(d) \in Int
    BY <2>1, LevelType
  <2>3. \A a \in SplitActions : exDate[a] \in Nat
    BY <1>1 DEF SeriesOK
  <2>4. A \subseteq SplitActions /\ B \subseteq SplitActions
    BY DEF Relevant
  <2>5. A \cap B = {}
    BY <2>1, <2>3 DEF Relevant, Applies
  <2>6. A \cup B = C
    <3>. HIDE DEF d
    <3>1. \A a \in A : a \in C
      BY <1>0, <2>1, <2>3
    <3>2. \A a \in B : a \in C
      BY <1>0, <2>1, <2>3 DEF Relevant, Applies
    <3>3. \A a \in C : a \in A \/ a \in B
      BY <1>0, <2>1, <2>3 DEF Relevant, Applies
    <3>. QED BY <3>1, <3>2, <3>3
  <2>7. Adjusted(rows)[k] = (Level(d) + SumOver(Multiplier, A)) + SumOver(Multiplier, B)
    BY <1>0 DEF Adjusted, Price
  <2>. HIDE DEF d, A, B, C
  <2>8. SumOver(Multiplier, A) \in Int /\ SumOver(Multiplier, B) \in Int
    BY <1>2, <2>4
  <2>9. c = SumOver(Multiplier, A) + SumOver(Multiplier, B)
    <3>1. IsFiniteSet(A) /\ IsFiniteSet(B)
      BY <1>2, <2>4
    <3>2. SumOver(Multiplier, A \cup B) = SumOver(Multiplier, A) + SumOver(Multiplier, B)
      BY <1>1, <2>4, <2>5, <3>1, SumUnion
    <3>. QED BY <2>6, <3>2, Zenon
  <2>. HIDE DEF c
  <2>10. Adjusted(rows)[k] = Level(d) + c
    BY <2>2, <2>7, <2>8, <2>9
  <2>. QED BY <2>10 DEF d
<1>5. Adjusted(rows) \in [1 .. n -> Int]
  <2>. HIDE DEF c
  <2>1. \A k \in 1 .. n : Adjusted(rows)[k] \in Int
    <3>. SUFFICES ASSUME NEW k \in 1 .. n PROVE Adjusted(rows)[k] \in Int
      OBVIOUS
    <3>1. Level(rows[k]) \in Int
      BY LevelType
    <3>. QED BY <1>3, <1>4, <3>1
  <2>2. Adjusted(rows) = [k \in 1 .. n |-> Adjusted(rows)[k]]
    BY <1>0 DEF Adjusted
  <2>. HIDE DEF n
  <2>. QED BY <2>1, <2>2
<1>6. Adjusted(rows) \in Seq(Int) /\ Len(Adjusted(rows)) = n
  BY <1>0, <1>5
<1>. HIDE DEF c
<1>. QED BY <1>3, <1>4, <1>6

LEMMA AdjustedRight ==
  ASSUME SeriesOK, NEW rows \in Seq(BarDays), rows # << >>,
         \A i, j \in 1 .. Len(rows) : i < j => rows[i] < rows[j]
  PROVE  AdjustForActions(rows) \in Outcome /\ Restored(AdjustForActions(rows))
<1>. DEFINE r == AdjustForActions(rows)
<1>1. CASE \E a \in Relevant(rows) : standing[a] # "VERIFIED"
  BY <1>1 DEF AdjustForActions, Outcome, Restored
<1>2. CASE ~ \E a \in Relevant(rows) : standing[a] # "VERIFIED"
  <2>. DEFINE P == Adjusted(rows)
              gap(k) == Level(rows[k + 1]) - Level(rows[k])
  <2>1. P \in Seq(Int) /\ Len(P) = Len(rows)
    BY AdjustedLevel
  <2>2. PICK c \in Int : \A k \in 1 .. Len(rows) : P[k] = Level(rows[k]) + c
    BY AdjustedLevel
  <2>3. \A k \in 1 .. Len(rows) - 1 : gap(k) \in Int /\ P[k + 1] - P[k] = gap(k)
    <3>. SUFFICES ASSUME NEW k \in 1 .. Len(rows) - 1
                  PROVE  gap(k) \in Int /\ P[k + 1] - P[k] = gap(k)
      OBVIOUS
    <3>1. k \in 1 .. Len(rows) /\ k + 1 \in 1 .. Len(rows)
      OBVIOUS
    <3>2. Level(rows[k]) \in Int /\ Level(rows[k + 1]) \in Int
      BY <3>1, LevelType
    <3>3. P[k] = Level(rows[k]) + c /\ P[k + 1] = Level(rows[k + 1]) + c
      BY <2>2, <3>1
    <3>. HIDE DEF P
    <3>. QED BY <3>2, <3>3
  <2>. DEFINE far == \E k \in 1 .. Len(rows) - 1 : gap(k) > Threshold \/ -gap(k) > Threshold
  <2>4. SuspiciousGaps(P) # {} <=> far
    <3>. HIDE DEF P
    <3>1. SuspiciousGaps(P) # {} <=>
            \E k \in 1 .. Len(rows) - 1 : P[k + 1] - P[k] > Threshold \/ -(P[k + 1] - P[k]) > Threshold
      BY <2>1 DEF SuspiciousGaps, Gap
    <3>. QED BY <2>3, <3>1
  <2>. HIDE DEF P
  <2>5. /\ r.rows = rows /\ r.prices = P
        /\ r.status = IF SuspiciousGaps(P) # {} THEN "SUSPICIOUS"
                      ELSE IF Relevant(rows) # {} THEN "ADJUSTED" ELSE "CLEAN"
        /\ r = [status |-> r.status, rows |-> r.rows, prices |-> r.prices]
    BY <1>2 DEF AdjustForActions, P
  <2>. HIDE DEF r
  <2>6. r \in Outcome
    BY <2>1, <2>5 DEF Outcome
  <2>7. r.status = "SUSPICIOUS" <=> far
    BY <2>4, <2>5
  <2>8. Restored(r)
    BY <2>1, <2>3, <2>5, <2>7 DEF Restored
  <2>. QED BY <2>6, <2>8 DEF r
<1>. QED BY <1>1, <1>2

LEMMA BarsSorted ==
  ASSUME SeriesOK
  PROVE  LET rows == Ascending(rowDays) IN
         /\ rows \in Seq(BarDays) /\ rows # << >>
         /\ \A i, j \in 1 .. Len(rows) : i < j => rows[i] < rows[j]
<1>1. rowDays \subseteq Nat /\ rowDays \subseteq BarDays /\ rowDays # {} /\ LastBar \in Int
  BY AdjustmentAssumption DEF SeriesOK, BarDays
<1>2. IsFiniteSet(rowDays)
  <2>1. IsFiniteSet(BarDays)
    BY <1>1, FS_Interval DEF BarDays
  <2>. QED BY <1>1, <2>1, FS_Subset
<1>3. Cardinality(rowDays) # 0 /\ Cardinality(rowDays) \in Nat
  BY <1>1, <1>2, FS_EmptySet, FS_CardinalityType
<1>. DEFINE rows == Ascending(rowDays)
<1>4. /\ rows \in Seq(rowDays) /\ Len(rows) # 0
      /\ \A i, j \in 1 .. Len(rows) : i < j => rows[i] < rows[j]
  BY <1>1, <1>2, <1>3, AscendingSorts
<1>. HIDE DEF rows
<1>5. rows \in Seq(BarDays) /\ rows # << >>
  <2>1. Len(rows) \in Nat /\ rows \in [1 .. Len(rows) -> rowDays]
    BY <1>4
  <2>2. rows \in [1 .. Len(rows) -> BarDays]
    BY <1>1, <2>1
  <2>3. rows \in Seq(BarDays)
    BY <2>1, <2>2
  <2>. QED BY <1>4, <2>3
<1>. QED BY <1>4, <1>5 DEF rows

LEMMA WindowRight ==
  ASSUME SeriesOK, NEW w \in Nat \ {0}
  PROVE  RvWindow(w) \in Outcome /\ Restored(RvWindow(w))
<1>. DEFINE rows == Ascending(rowDays)
            selected == SubSeq(rows, Len(rows) - w, Len(rows))
<1>1. /\ rows \in Seq(BarDays)
      /\ \A i, j \in 1 .. Len(rows) : i < j => rows[i] < rows[j]
  BY BarsSorted
<1>2. CASE Len(rows) < w + 1
  BY <1>2 DEF RvWindow, Outcome, Restored
<1>3. CASE ~ (Len(rows) < w + 1)
  <2>. HIDE DEF rows
  <2>. DEFINE m == Len(rows) - w
  <2>1. m \in Nat /\ m >= 1 /\ Len(rows) \in Nat /\ w = Len(rows) - m /\ m <= Len(rows)
    BY <1>1, <1>3
  <2>2. /\ selected \in Seq(BarDays) /\ Len(selected) = w + 1
        /\ \A i \in 1 .. w + 1 : selected[i] = rows[m + i - 1]
    <3>1. \A i \in m .. Len(rows) : rows[i] \in BarDays
      BY <1>1, <2>1
    <3>2. Len(rows) - m + 1 = w + 1 /\ m \in Int /\ Len(rows) \in Int
      BY <2>1
    <3>. HIDE DEF m
    <3>3. /\ SubSeq(rows, m, Len(rows)) \in Seq(BarDays)
          /\ Len(SubSeq(rows, m, Len(rows))) = IF m <= Len(rows) THEN Len(rows) - m + 1 ELSE 0
          /\ \A i \in 1 .. Len(rows) - m + 1 : SubSeq(rows, m, Len(rows))[i] = rows[m + i - 1]
      BY <3>1, <3>2, SubSeqProperties
    <3>. QED BY <2>1, <3>2, <3>3 DEF m
  <2>3. \A i, j \in 1 .. Len(selected) : i < j => selected[i] < selected[j]
    <3>. SUFFICES ASSUME NEW i \in 1 .. w + 1, NEW j \in 1 .. w + 1, i < j
                  PROVE  selected[i] < selected[j]
      BY <2>2
    <3>. HIDE DEF selected
    <3>1. m + i - 1 \in 1 .. Len(rows) /\ m + j - 1 \in 1 .. Len(rows) /\ m + i - 1 < m + j - 1
      BY <2>1
    <3>. QED BY <1>1, <2>2, <3>1
  <2>4. RvWindow(w) = IF LastBar - selected[1] > MaxSpan(w)
                      THEN [status |-> "SPARSE", rows |-> selected, prices |-> << >>]
                      ELSE AdjustForActions(selected)
    BY <1>3 DEF RvWindow, rows
  <2>. HIDE DEF selected
  <2>5. selected # << >>
    BY <2>2
  <2>6. AdjustForActions(selected) \in Outcome /\ Restored(AdjustForActions(selected))
    BY <2>2, <2>3, <2>5, AdjustedRight
  <2>7. LET sparse == [status |-> "SPARSE", rows |-> selected, prices |-> << >>]
        IN sparse \in Outcome /\ Restored(sparse)
    BY <2>2 DEF Outcome, Restored
  <2>. QED BY <2>4, <2>6, <2>7
<1>. QED BY <1>2, <1>3

LEMMA AdjustInvInit == AdjustInit => AdjustInv
<1>. SUFFICES ASSUME AdjustInit PROVE AdjustInv
  OBVIOUS
<1>1. SeriesOK
  BY DEF AdjustInit, SeriesOK
<1>2. results = << >> /\ Len(Windows) \in Nat
  BY AdjustmentAssumption DEF AdjustInit
<1>3. results \in Seq(Outcome) /\ Len(results) = 0 /\ DOMAIN results = {}
  BY <1>2
<1>. QED BY <1>1, <1>2, <1>3 DEF AdjustInv

LEMMA AdjustAppends ==
  ASSUME AdjustInv, NEW r \in Outcome, Restored(r), Len(results) <= Len(Windows),
         results' = Append(results, r), UNCHANGED <<rowDays, moves, exDate, standing>>
  PROVE  AdjustInv'
<1>1. SeriesOK' /\ results \in Seq(Outcome) /\ Len(results) \in Nat
  BY DEF AdjustInv, SeriesOK
<1>2. /\ results' \in Seq(Outcome) /\ Len(results') = Len(results) + 1
      /\ \A i \in 1 .. Len(results) : results'[i] = results[i]
      /\ results'[Len(results) + 1] = r
  BY <1>1
<1>3. \A q : Restored(q)' <=> Restored(q)
  BY DEF Restored, Level
<1>4. ASSUME NEW i \in DOMAIN results' PROVE Restored(results'[i])
  <2>1. i \in 1 .. Len(results) \/ i = Len(results) + 1
    BY <1>1, <1>2, <1>4
  <2>. QED BY <1>1, <1>2, <2>1 DEF AdjustInv
<1>5. \A i \in DOMAIN results' : Restored(results[i])'
  BY <1>4 DEF Restored, Level
<1>6. Len(results') <= Len(Windows) + 1
  <2>1. Len(Windows) \in Nat
    BY AdjustmentAssumption
  <2>. QED BY <1>1, <1>2, <2>1
<1>. QED BY <1>1, <1>2, <1>5, <1>6 DEF AdjustInv

LEMMA AdjustInvStep == AdjustInv /\ [AdjustNext]_adjustVars => AdjustInv'
<1>. SUFFICES ASSUME AdjustInv, [AdjustNext]_adjustVars PROVE AdjustInv'
  OBVIOUS
<1>1. CASE NextWindow
  <2>1. Len(results) < Len(Windows) /\ Len(results) \in Nat /\ Len(Windows) \in Nat
        /\ Windows \in Seq(Nat \ {0})
    BY <1>1, AdjustmentAssumption DEF NextWindow, AdjustInv
  <2>2. Windows[Len(results) + 1] \in Nat \ {0}
    BY <2>1
  <2>3. SeriesOK /\ Len(results) <= Len(Windows)
    BY <2>1 DEF AdjustInv
  <2>. QED BY <1>1, <2>2, <2>3, WindowRight, AdjustAppends DEF NextWindow
<1>2. CASE RsiWindow
  <2>1. SeriesOK /\ Len(results) <= Len(Windows)
    BY <1>2, AdjustmentAssumption DEF RsiWindow, AdjustInv
  <2>2. AdjustForActions(Ascending(rowDays)) \in Outcome
        /\ Restored(AdjustForActions(Ascending(rowDays)))
    BY <2>1, BarsSorted, AdjustedRight
  <2>. QED BY <1>2, <2>1, <2>2, AdjustAppends DEF RsiWindow
<1>3. CASE UNCHANGED adjustVars
  <2>1. UNCHANGED <<rowDays, moves, exDate, results>>
    BY <1>3 DEF adjustVars
  <2>2. \A d : Level(d)' = Level(d)
    BY <2>1 DEF Level
  <2>3. \A r : Restored(r)' = Restored(r)
    BY <2>2 DEF Restored
  <2>. QED BY <2>1, <2>3 DEF AdjustInv, SeriesOK
<1>. QED BY <1>1, <1>2, <1>3 DEF AdjustNext

\* For any bars, actions and windows: the returns and the suspicious gaps of
\* calculate_price_series_metrics are those of the price without its splits, given
\* multipliers that are right.
THEOREM RightReturns == AdjustSpec => [](AdjustTypeOK /\ ReturnsRestored)
<1>1. AdjustInv => AdjustTypeOK /\ ReturnsRestored
  <2>. SUFFICES ASSUME AdjustInv PROVE AdjustTypeOK /\ ReturnsRestored
    OBVIOUS
  <2>1. \A i \in DOMAIN results : results[i] \in Outcome
    BY DEF AdjustInv
  <2>2. AdjustTypeOK
    BY <2>1 DEF AdjustInv, SeriesOK, AdjustTypeOK, Outcome, Restored
  <2>3. ReturnsRestored
    BY DEF AdjustInv, ReturnsRestored, Restored
  <2>. QED BY <2>2, <2>3
<1>. QED BY <1>1, AdjustInvInit, AdjustInvStep, PTL DEF AdjustSpec
-----------------------------------------------------------------------------
(* OptionSummaries *)

\* The last contract of its month.
Ends(e) == \A f \in Expiries : Month[f] = Month[e] => f <= e

\* From a day on, the contracts up to some month.
Segment(S, d) ==
  /\ S \subseteq Expiries /\ d \in Nat
  /\ \A e \in S : e >= d
  /\ \A e \in S, f \in Expiries : f >= d /\ (f <= e \/ Month[f] = Month[e]) => f \in S

\* A list that has, of the expiries after a day, monthly ones only, and before each
\* of them every nearer one.
Nearest(s, d) ==
  \A i \in 1 .. Len(s) : s[i] > d =>
    /\ Ends(s[i])
    /\ \A f \in Monthlies(d) : f < s[i] => \E j \in 1 .. i : s[j] = f

LEMMA MonthlyEnds == \A d : Monthlies(d) = {e \in Expiries : e > d /\ Ends(e)}
BY DEF Monthlies, Ends

LEMMA ExpirySets ==
  ASSUME NEW S, S \subseteq Expiries
  PROVE  IsFiniteSet(S) /\ S \subseteq Nat
BY SummariesAssumption, FS_Subset

LEMMA NearestLater ==
  ASSUME NEW s \in Seq(Expiries), NEW d \in Nat, NEW e \in Nat, d <= e, Nearest(s, d)
  PROVE  Nearest(s, e)
<1>. SUFFICES ASSUME NEW i \in 1 .. Len(s), s[i] > e
              PROVE  Ends(s[i]) /\ \A f \in Monthlies(e) : f < s[i] => \E j \in 1 .. i : s[j] = f
  BY DEF Nearest
<1>1. \A f \in Expiries : f \in Nat /\ (f > e => f > d)
  BY SummariesAssumption
<1>2. \A f \in Monthlies(e) : f \in Monthlies(d)
  BY <1>1 DEF Monthlies
<1>3. s[i] \in Expiries
  OBVIOUS
<1>. QED BY <1>1, <1>2, <1>3 DEF Nearest

LEMMA ListedSegment ==
  ASSUME NEW d \in Nat
  PROVE  Segment(Listed(d), d)
<1>. DEFINE coming == {e \in Expiries : e >= d}
            upTo(e) == {g \in coming : g <= e}
            months(e) == {Month[f] : f \in upTo(e)}
<1>1. \A e \in coming : IsFiniteSet(months(e)) /\ Cardinality(months(e)) \in Nat
  <2>. SUFFICES ASSUME NEW e \in coming
                PROVE  IsFiniteSet(months(e)) /\ Cardinality(months(e)) \in Nat
    OBVIOUS
  <2>1. IsFiniteSet(upTo(e))
    BY ExpirySets
  <2>. DEFINE g == [f \in upTo(e) |-> Month[f]]
  <2>2. g \in Surjection(upTo(e), months(e))
    BY DEF Surjection
  <2>. HIDE DEF g, upTo, months
  <2>3. IsFiniteSet(months(e))
    BY <2>1, <2>2, FS_Surjection
  <2>. QED BY <2>3, FS_CardinalityType
<1>2. Listed(d) = {e \in coming : Cardinality(months(e)) <= 3}
  BY DEF Listed
<1>3. ASSUME NEW e \in coming, NEW f \in coming, months(f) \subseteq months(e),
             Cardinality(months(e)) <= 3
      PROVE  Cardinality(months(f)) <= 3
  <2>1. Cardinality(months(f)) <= Cardinality(months(e))
    <3>. HIDE DEF months
    <3>. QED BY <1>1, <1>3, FS_Subset
  <2>2. Cardinality(months(e)) \in Nat /\ Cardinality(months(f)) \in Nat
    BY <1>1
  <2>. HIDE DEF months
  <2>. QED BY <1>3, <2>1, <2>2
<1>4. ASSUME NEW e \in coming, NEW f \in coming, f <= e \/ Month[f] = Month[e]
      PROVE  months(f) \subseteq months(e)
  <2>. SUFFICES ASSUME NEW g \in upTo(f) PROVE Month[g] \in months(e)
    OBVIOUS
  <2>1. g \in Expiries /\ g \in Nat /\ e \in Nat /\ f \in Nat /\ g <= f /\ e \in upTo(e)
        /\ e \in Expiries /\ f \in Expiries
    BY SummariesAssumption
  <2>2. CASE g <= e
    BY <2>2
  <2>3. CASE g > e
    <3>1. Month[f] = Month[e]
      BY <1>4, <2>1, <2>3
    <3>2. Month[e] <= Month[g] /\ Month[g] <= Month[f]
      <4>1. e < g /\ (g = f \/ g < f)
        BY <2>1, <2>3
      <4>2. Month[f] \in Nat
        BY <2>1, SummariesAssumption
      <4>. QED BY <2>1, <4>1, <4>2, SummariesAssumption
    <3>3. Month[g] = Month[e]
      <4>1. Month[e] \in Nat /\ Month[g] \in Nat
        BY <2>1, SummariesAssumption
      <4>. QED BY <3>1, <3>2, <4>1
    <3>. QED BY <2>1, <3>3
  <2>. QED BY <2>1, <2>2, <2>3
<1>5. ASSUME NEW e \in Listed(d), NEW f \in Expiries, f >= d, f <= e \/ Month[f] = Month[e]
      PROVE  f \in Listed(d)
  <2>1. e \in coming /\ f \in coming /\ Cardinality(months(e)) <= 3
    BY <1>2, <1>5
  <2>2. months(f) \subseteq months(e)
    BY <1>4, <1>5, <2>1
  <2>. HIDE DEF coming, months
  <2>. QED BY <1>2, <1>3, <2>1, <2>2
<1>. HIDE DEF months
<1>6. Listed(d) \subseteq Expiries /\ \A e \in Listed(d) : e >= d
  BY <1>2
<1>. QED BY <1>5, <1>6 DEF Segment

LEMMA SegmentLater ==
  ASSUME NEW S, NEW d \in Nat, Segment(S, d), NEW e \in Nat, d <= e
  PROVE  Segment({f \in S : f > e}, e + 1)
<1>1. \A f \in Expiries : f \in Nat
  BY SummariesAssumption
<1>2. \A f \in Expiries : f >= e + 1 => f > e /\ f >= d
  BY <1>1
<1>3. \A f \in Expiries : f > e => f >= e + 1
  BY <1>1
<1>. QED BY <1>2, <1>3 DEF Segment

LEMMA FirstThreeStarts ==
  ASSUME NEW T, NEW s \in Seq(T)
  PROVE  /\ FirstThree(s) \in Seq(T) /\ Len(FirstThree(s)) <= 3 /\ Len(FirstThree(s)) <= Len(s)
         /\ \A i \in 1 .. Len(FirstThree(s)) : FirstThree(s)[i] = s[i]
<1>. DEFINE n == IF Len(s) < 3 THEN Len(s) ELSE 3
<1>1. Len(s) \in Nat /\ n \in Nat /\ n <= 3 /\ n <= Len(s)
  OBVIOUS
<1>2. FirstThree(s) = SubSeq(s, 1, n)
  BY DEF FirstThree
<1>. HIDE DEF n
<1>3. (\A i \in 1 .. n : s[i] \in T) /\ 1 \in Int /\ n \in Int /\ n - 1 + 1 = n
  BY <1>1
<1>4. /\ SubSeq(s, 1, n) \in Seq(T)
      /\ Len(SubSeq(s, 1, n)) = IF 1 <= n THEN n - 1 + 1 ELSE 0
      /\ \A i \in 1 .. n - 1 + 1 : SubSeq(s, 1, n)[i] = s[1 + i - 1]
  BY <1>3, SubSeqProperties
<1>. QED BY <1>1, <1>2, <1>3, <1>4

\* The monthly expiries of such a segment, nearest first.
LEMMA BucketsNearest ==
  ASSUME NEW S, NEW d \in Nat, NEW e \in Nat, Segment(S, d), d <= e + 1
  PROVE  /\ MonthlyBuckets(S) \in Seq(Expiries) /\ Len(MonthlyBuckets(S)) <= 3
         /\ Nearest(MonthlyBuckets(S), e)
<1>. DEFINE B == {x \in S : \A f \in S : Month[f] = Month[x] => f <= x}
            A == Ascending(B)
            s == MonthlyBuckets(S)
            n == Len(s)
<1>1. \A x \in Expiries : x \in Nat
  BY SummariesAssumption
<1>2. B \subseteq Expiries
  BY DEF Segment
<1>3. \A x \in B : Ends(x)
  BY <1>1 DEF Segment, Ends
<1>4. ASSUME NEW x \in B, NEW f \in Monthlies(e), f < x PROVE f \in B
  <2>1. f \in Expiries /\ f > e /\ Ends(f) /\ x \in S
    BY <1>4, MonthlyEnds
  <2>2. f \in Nat /\ f >= d
    BY <1>1, <2>1
  <2>3. f <= x
    BY <1>1, <1>2, <1>4, <2>2
  <2>4. f \in S
    BY <2>1, <2>2, <2>3 DEF Segment
  <2>. QED BY <2>1, <2>4 DEF Ends, Segment
<1>. HIDE DEF B
<1>5. /\ A \in Seq(B) /\ \A x \in B : \E i \in 1 .. Len(A) : A[i] = x
      /\ \A i, j \in 1 .. Len(A) : i < j => A[i] < A[j]
  BY <1>2, ExpirySets, AscendingSorts
<1>. HIDE DEF A
<1>6. /\ s \in Seq(B) /\ Len(s) = n /\ n \in Nat /\ n <= 3 /\ n <= Len(A) /\ Len(A) \in Nat
      /\ \A i \in 1 .. n : s[i] = A[i]
  <2>1. s = FirstThree(A)
    BY DEF MonthlyBuckets, A, B
  <2>2. /\ FirstThree(A) \in Seq(B) /\ Len(FirstThree(A)) <= 3 /\ Len(FirstThree(A)) <= Len(A)
        /\ \A i \in 1 .. Len(FirstThree(A)) : FirstThree(A)[i] = A[i]
    BY <1>5, FirstThreeStarts
  <2>3. Len(A) \in Nat /\ Len(FirstThree(A)) \in Nat
    BY <1>5, <2>2
  <2>. HIDE DEF s
  <2>. QED BY <2>1, <2>2, <2>3
<1>. HIDE DEF s, n
<1>7. s \in Seq(Expiries)
  <2>1. s \in [1 .. n -> Expiries]
    BY <1>2, <1>6
  <2>. QED BY <1>6, <2>1
<1>8. Nearest(s, e)
  <2>. SUFFICES ASSUME NEW i \in 1 .. n
                PROVE  /\ Ends(s[i])
                       /\ \A f \in Monthlies(e) : f < s[i] => \E j \in 1 .. i : s[j] = f
    BY <1>6 DEF Nearest
  <2>1. s[i] \in B /\ s[i] = A[i] /\ i \in 1 .. Len(A)
    BY <1>6
  <2>2. ASSUME NEW f \in Monthlies(e), f < s[i] PROVE \E j \in 1 .. i : s[j] = f
    <3>1. f \in B
      BY <1>4, <2>1, <2>2
    <3>2. PICK j \in 1 .. Len(A) : A[j] = f
      BY <1>5, <3>1
    <3>3. f \in Nat /\ s[i] \in Nat
      BY <1>1, <1>2, <2>1, <3>1
    <3>4. ~ (i < j) /\ j # i
      <4>1. i < j => A[i] < A[j]
        BY <1>5, <2>1, <3>2
      <4>. QED BY <2>1, <2>2, <3>2, <3>3, <4>1
    <3>5. j \in 1 .. i /\ j \in 1 .. n
      BY <1>6, <3>4
    <3>. QED BY <1>6, <3>2, <3>5
  <2>. QED BY <1>3, <2>1, <2>2
<1>. QED BY <1>6, <1>7, <1>8 DEF s

\* A filter that lets the nearer expiries through keeps a list nearest first.
LEMMA KeepNearest ==
  ASSUME NEW s \in Seq(Expiries), NEW d \in Nat, Nearest(s, d), NEW S,
         \A e \in S \cap Expiries, f \in Monthlies(d) : f < e => f \in S
  PROVE  Keep(s, S) \in Seq(Expiries) /\ Len(Keep(s, S)) <= Len(s) /\ Nearest(Keep(s, S), d)
<1>. DEFINE k == Keep(s, S)
<1>1. k \in Seq(Expiries \cap S) /\ Len(k) <= Len(s)
  BY KeepFilters
<1>2. PICK at : Picks(at, k, s, S)
  BY KeepFilters
<1>. HIDE DEF k
<1>3. k \in Seq(Expiries) /\ Len(k) \in Nat
  <2>1. k \in [1 .. Len(k) -> Expiries] /\ Len(k) \in Nat
    BY <1>1
  <2>. QED BY <2>1
<1>4. ASSUME NEW i \in 1 .. Len(k), k[i] > d
      PROVE  Ends(k[i]) /\ \A f \in Monthlies(d) : f < k[i] => \E j \in 1 .. i : k[j] = f
  <2>1. at[i] \in 1 .. Len(s) /\ k[i] = s[at[i]] /\ k[i] \in S \cap Expiries /\ at[i] \in Nat
    BY <1>1, <1>2 DEF Picks
  <2>2. Ends(k[i]) /\ \A f \in Monthlies(d) : f < k[i] => \E j \in 1 .. at[i] : s[j] = f
    BY <1>4, <2>1 DEF Nearest
  <2>3. ASSUME NEW f \in Monthlies(d), f < k[i] PROVE \E j \in 1 .. i : k[j] = f
    <3>1. PICK m \in 1 .. at[i] : s[m] = f
      BY <2>2, <2>3
    <3>2. f \in S
      BY <2>1, <2>3
    <3>3. m \in 1 .. Len(s) /\ m <= at[i] /\ m \in Nat
      BY <2>1
    <3>4. PICK j \in 1 .. Len(k) : at[j] = m
      BY <1>2, <3>1, <3>2, <3>3 DEF Picks
    <3>5. ~ (i < j)
      BY <1>2, <2>1, <3>3, <3>4 DEF Picks
    <3>6. j \in 1 .. i /\ k[j] = f
      BY <1>2, <1>3, <3>1, <3>4, <3>5 DEF Picks
    <3>. QED BY <3>6
  <2>. QED BY <2>2, <2>3
<1>. QED BY <1>1, <1>3, <1>4 DEF Nearest, k

LEMMA NearestStart ==
  ASSUME NEW s \in Seq(Expiries), NEW d, Nearest(s, d), NEW k \in Seq(Expiries), Len(k) <= Len(s),
         \A i \in 1 .. Len(k) : k[i] = s[i]
  PROVE  Nearest(k, d)
<1>1. \A i \in 1 .. Len(k) : i \in 1 .. Len(s) /\ \A j \in 1 .. i : j \in 1 .. Len(k)
  OBVIOUS
<1>. QED BY <1>1 DEF Nearest

\* The baseline's expiries first, then those of a provider's list.
LEMMA MergedNearest ==
  ASSUME NEW p \in Seq(Expiries), NEW q \in Seq(Expiries), NEW d \in Nat,
         Nearest(p, d), Nearest(q, d)
  PROVE  Merged(p, q) \in Seq(Expiries) /\ Len(Merged(p, q)) <= 3 /\ Nearest(Merged(p, q), d)
<1>. DEFINE S == Expiries \ ToSet(p)
            k == Keep(q, S)
            m == p \o k
<1>1. PICK at : Picks(at, k, q, S)
  BY KeepFilters
<1>2. k \in Seq(Expiries)
  <2>1. k \in Seq(Expiries \cap S)
    BY KeepFilters
  <2>. HIDE DEF k
  <2>2. k \in [1 .. Len(k) -> Expiries] /\ Len(k) \in Nat
    BY <2>1
  <2>. QED BY <2>2
<1>3. \A f \in Expiries : f \in S \/ \E j \in 1 .. Len(p) : p[j] = f
  BY DEF ToSet
<1>. HIDE DEF k, S
<1>4. /\ m \in Seq(Expiries) /\ Len(m) = Len(p) + Len(k)
      /\ Len(p) \in Nat /\ Len(k) \in Nat
      /\ \A j \in 1 .. Len(p) : m[j] = p[j]
      /\ \A j \in 1 .. Len(k) : m[Len(p) + j] = k[j]
  BY <1>2
<1>. HIDE DEF m
<1>5. ASSUME NEW i \in 1 .. Len(m), m[i] > d
      PROVE  Ends(m[i]) /\ \A f \in Monthlies(d) : f < m[i] => \E j \in 1 .. i : m[j] = f
  <2>1. CASE i <= Len(p)
    <3>1. i \in 1 .. Len(p) /\ \A j \in 1 .. i : j \in 1 .. Len(p)
      BY <1>4, <2>1
    <3>2. m[i] = p[i] /\ \A j \in 1 .. i : m[j] = p[j]
      BY <1>4, <3>1
    <3>. QED BY <1>5, <3>1, <3>2 DEF Nearest
  <2>2. CASE i > Len(p)
    <3>. DEFINE l == i - Len(p)
    <3>1. l \in 1 .. Len(k) /\ i = Len(p) + l
      BY <1>4, <2>2
    <3>. HIDE DEF l
    <3>2. m[i] = k[l] /\ at[l] \in 1 .. Len(q) /\ k[l] = q[at[l]]
      BY <1>1, <1>4, <3>1 DEF Picks
    <3>3. Ends(m[i]) /\ \A f \in Monthlies(d) : f < m[i] => \E j \in 1 .. at[l] : q[j] = f
      BY <1>5, <3>2 DEF Nearest
    <3>4. ASSUME NEW f \in Monthlies(d), f < m[i] PROVE \E j \in 1 .. i : m[j] = f
      <4>1. CASE \E j \in 1 .. Len(p) : p[j] = f
        <5>1. PICK j \in 1 .. Len(p) : p[j] = f
          BY <4>1
        <5>2. j \in 1 .. i /\ m[j] = f
          BY <1>4, <3>1, <5>1
        <5>. QED BY <5>2
      <4>2. CASE f \in S
        <5>1. PICK a \in 1 .. at[l] : q[a] = f
          BY <3>3, <3>4
        <5>2. a \in 1 .. Len(q) /\ a <= at[l] /\ a \in Nat /\ at[l] \in Nat
          BY <3>2
        <5>3. PICK j \in 1 .. Len(k) : at[j] = a
          BY <1>1, <4>2, <5>1, <5>2 DEF Picks
        <5>4. ~ (l < j)
          BY <1>1, <3>1, <5>2, <5>3 DEF Picks
        <5>5. k[j] = f
          BY <1>1, <5>1, <5>3 DEF Picks
        <5>6. Len(p) + j \in 1 .. i /\ m[Len(p) + j] = f
          BY <1>4, <3>1, <5>3, <5>4, <5>5
        <5>. QED BY <5>6
      <4>3. f \in Expiries
        BY DEF Monthlies
      <4>. QED BY <1>3, <4>1, <4>2, <4>3
    <3>. QED BY <3>3, <3>4
  <2>. QED BY <1>4, <2>1, <2>2
<1>6. Nearest(m, d)
  BY <1>5 DEF Nearest
<1>7. Merged(p, q) = FirstThree(m)
  BY DEF Merged, m, k, S
<1>8. /\ FirstThree(m) \in Seq(Expiries) /\ Len(FirstThree(m)) <= 3 /\ Len(FirstThree(m)) <= Len(m)
      /\ \A i \in 1 .. Len(FirstThree(m)) : FirstThree(m)[i] = m[i]
  BY <1>4, FirstThreeStarts
<1>9. Nearest(FirstThree(m), d)
  BY <1>4, <1>6, <1>8, NearestStart
<1>. QED BY <1>7, <1>8, <1>9

\* What the invariant says of each list of expiries.
HintList(s, d) == s \in Seq(Expiries) /\ Len(s) <= 3 /\ Nearest(s, d)

LEMMA FutureNearest ==
  ASSUME HintList(base, day), day \in Nat
  PROVE  HintList(FutureTargets(day), day)
<1>. DEFINE S == {e \in Expiries : e > day}
<1>1. \A f \in Monthlies(day) : f \in S
  BY DEF Monthlies
<1>. HIDE DEF S
<1>2. Keep(base, S) \in Seq(Expiries) /\ Len(Keep(base, S)) <= Len(base) /\ Nearest(Keep(base, S), day)
  BY <1>1, KeepNearest DEF HintList
<1>3. Len(base) \in Nat /\ Len(base) <= 3 /\ Len(Keep(base, S)) \in Nat
  BY <1>2 DEF HintList
<1>4. Len(Keep(base, S)) <= 3
  BY <1>2, <1>3
<1>. QED BY <1>2, <1>4 DEF FutureTargets, HintList, S

LEMMA TargetedNearest ==
  ASSUME HintList(base, day), day \in Nat, NEW S, NEW d \in 0 .. day, Segment(S, d)
  PROVE  HintList(Targeted(S), day)
<1>1. HintList(FutureTargets(day), day)
  BY FutureNearest
<1>. DEFINE R == {e \in S : e > day}
<1>2. Segment(R, day + 1)
  <2>1. d \in Nat /\ d <= day
    OBVIOUS
  <2>. QED BY <2>1, SegmentLater
<1>. HIDE DEF R
<1>3. MonthlyBuckets(R) \in Seq(Expiries) /\ Nearest(MonthlyBuckets(R), day)
  <2>1. day + 1 \in Nat /\ day + 1 <= day + 1
    OBVIOUS
  <2>. QED BY <1>2, <2>1, BucketsNearest
<1>4. HintList(Merged(FutureTargets(day), MonthlyBuckets(R)), day)
  BY <1>1, <1>3, MergedNearest DEF HintList
<1>. QED BY <1>1, <1>4 DEF Targeted, R

\* The payload of a refresh, from the answers for the targets.
LEMMA TermsNearest ==
  ASSUME HintList(targets, day), day \in Nat,
         \A i \in DOMAIN summary : summary[i].expiry \in ToSet(targets)
  PROVE  LET shown == LiveTerms(day) IN
         /\ shown \in Seq(Expiries) /\ Len(shown) <= 3
         /\ \A i \in DOMAIN shown : shown[i] \in Monthlies(day)
         /\ \A i, j \in DOMAIN shown : i < j => shown[i] < shown[j]
         /\ (shown # << >> /\ \A e \in ToSet(targets) : e > day => Contains(shown, e)) =>
              \A e \in Monthlies(day) : e < Last(shown) => Contains(shown, e)
<1>. DEFINE E == {summary[i].expiry : i \in {j \in DOMAIN summary : summary[j].iv /\ summary[j].expiry > day}}
            shown == LiveTerms(day)
            n == Len(targets)
<1>1. n \in Nat /\ n <= 3 /\ targets \in Seq(Expiries) /\ Nearest(targets, day)
  BY DEF HintList
<1>2. ToSet(targets) = {targets[i] : i \in 1 .. n} /\ ToSet(targets) \subseteq Expiries
  BY <1>1 DEF ToSet
<1>3. E \subseteq ToSet(targets) /\ \A e \in E : e > day
  OBVIOUS
<1>4. shown = Ascending(E)
  BY DEF LiveTerms
<1>. HIDE DEF E, shown
<1>5. IsFiniteSet(E) /\ E \subseteq Nat /\ Cardinality(E) <= n
  <2>1. IsFiniteSet(E) /\ E \subseteq Nat /\ IsFiniteSet(ToSet(targets))
    BY <1>2, <1>3, ExpirySets
  <2>2. targets \in Surjection(1 .. n, ToSet(targets))
    <3>1. targets \in [1 .. n -> ToSet(targets)]
      BY <1>1, <1>2
    <3>. QED BY <1>2, <3>1 DEF Surjection
  <2>3. IsFiniteSet(1 .. n) /\ Cardinality(1 .. n) = n
    <3>1. 1 \in Int /\ n \in Int /\ (1 > n => n = 0)
      BY <1>1
    <3>. HIDE DEF n
    <3>2. IsFiniteSet(1 .. n) /\ Cardinality(1 .. n) = IF 1 > n THEN 0 ELSE n - 1 + 1
      BY <3>1, FS_Interval
    <3>. QED BY <3>1, <3>2
  <2>4. Cardinality(ToSet(targets)) <= n
    <3>. HIDE DEF n
    <3>1. Cardinality(ToSet(targets)) <= Cardinality(1 .. n)
      BY <2>2, <2>3, FS_Surjection
    <3>. QED BY <2>3, <3>1
  <2>5. Cardinality(E) <= Cardinality(ToSet(targets))
    BY <1>3, <2>1, FS_Subset
  <2>6. Cardinality(E) \in Nat /\ Cardinality(ToSet(targets)) \in Nat
    BY <2>1, FS_CardinalityType
  <2>. HIDE DEF n
  <2>. QED BY <1>1, <2>1, <2>4, <2>5, <2>6
<1>6. /\ shown \in Seq(E) /\ Len(shown) = Cardinality(E)
      /\ \A i, j \in 1 .. Len(shown) : i < j => shown[i] < shown[j]
  BY <1>4, <1>5, AscendingSorts
<1>7. /\ Len(shown) \in Nat /\ DOMAIN shown = 1 .. Len(shown)
      /\ \A i \in 1 .. Len(shown) : shown[i] \in E
      /\ shown \in [1 .. Len(shown) -> E]
  BY <1>6
<1>8. shown \in Seq(Expiries)
  <2>1. shown \in [1 .. Len(shown) -> Expiries]
    BY <1>2, <1>3, <1>7
  <2>. QED BY <1>7, <2>1
<1>9. Len(shown) <= 3
  <2>1. Cardinality(E) \in Nat
    BY <1>5, FS_CardinalityType
  <2>. HIDE DEF n
  <2>. QED BY <1>1, <1>5, <1>6, <2>1
<1>10. ASSUME NEW e \in E
       PROVE  e \in Monthlies(day) /\ \A f \in Monthlies(day) : f < e => f \in ToSet(targets)
  <2>1. PICK t \in 1 .. n : targets[t] = e
    BY <1>2, <1>3
  <2>2. e > day /\ e \in Expiries
    BY <1>2, <1>3
  <2>3. Ends(e) /\ \A f \in Monthlies(day) : f < e => \E j \in 1 .. t : targets[j] = f
    BY <1>1, <2>1, <2>2 DEF Nearest
  <2>4. e \in Monthlies(day)
    BY <2>2, <2>3, MonthlyEnds
  <2>5. \A j \in 1 .. t : j \in 1 .. n
    BY <1>1, <2>1
  <2>. QED BY <1>2, <2>3, <2>4, <2>5
<1>11. ASSUME shown # << >>, \A e \in ToSet(targets) : e > day => Contains(shown, e),
              NEW e \in Monthlies(day), e < Last(shown)
       PROVE  Contains(shown, e)
  <2>1. Len(shown) \in 1 .. Len(shown) /\ Last(shown) = shown[Len(shown)]
    BY <1>7, <1>8, <1>11 DEF Last
  <2>2. Last(shown) \in E
    BY <1>7, <2>1
  <2>3. e \in ToSet(targets) /\ e > day
    BY <1>10, <1>11, <2>2 DEF Monthlies
  <2>. QED BY <1>11, <2>3
<1>12. \A i \in DOMAIN shown : shown[i] \in Monthlies(day)
  BY <1>7, <1>10
<1>13. \A i, j \in DOMAIN shown : i < j => shown[i] < shown[j]
  BY <1>6, <1>7
<1>. QED BY <1>8, <1>9, <1>11, <1>12, <1>13 DEF shown

\* The lists are nearest first on every later day; Kite's instruments are those of some
\* day that has been; no answer but to the targets is in the summary.
SummaryInv ==
  /\ day \in 0 .. LastSummaryDay /\ provider \in OptionProviders
  /\ phase \in {"idle", "provider", "answers", "nse", "nseAnswers", "payload"}
  /\ HintList(baseline, day) /\ HintList(base, day) /\ HintList(targets, day)
  /\ \E d \in 0 .. day : Segment(instruments, d)
  /\ phase # "payload" => summary = << >>
  /\ \A i \in DOMAIN summary : summary[i].expiry \in ToSet(targets)
  /\ tenors.asked \in Seq(Expiries) /\ Len(tenors.asked) <= 3
  /\ tenors.expiries \in Seq(Expiries) /\ Len(tenors.expiries) <= 3
  /\ TenorsNearest

LEMMA EmptyHints == \A d : HintList(<< >>, d)
BY DEF HintList, Nearest

LEMMA SummaryInvInit == SummariesInit => SummaryInv
<1>. SUFFICES ASSUME SummariesInit PROVE SummaryInv
  OBVIOUS
<1>1. day \in 0 .. LastSummaryDay /\ 0 \in 0 .. day
  BY SummariesAssumption DEF SummariesInit
<1>2. Segment(instruments, 0)
  BY DEF SummariesInit, Segment
<1>3. tenors.asked = << >> /\ tenors.expiries = << >>
  BY DEF SummariesInit, NoTenors
<1>4. TenorsNearest
  BY <1>3 DEF TenorsNearest
<1>. QED BY <1>1, <1>2, <1>3, <1>4, EmptyHints DEF SummariesInit, SummaryInv

\* The answers to some of what was asked.
LEMMA AnswersAsked ==
  ASSUME NEW T, NEW asked \in Seq(T), Answers(asked)
  PROVE  \A i \in DOMAIN summary' : summary'[i].expiry \in T
<1>1. PICK known \in SUBSET ToSet(asked), quoted \in SUBSET ToSet(asked) :
        summary' = [i \in DOMAIN Keep(asked, known) |->
                      [expiry |-> Keep(asked, known)[i], iv |-> Keep(asked, known)[i] \in quoted]]
  BY DEF Answers
<1>. DEFINE k == Keep(asked, known)
<1>2. k \in Seq(T \cap known)
  BY KeepFilters
<1>. HIDE DEF k
<1>3. \A i \in DOMAIN k : k[i] \in T
  BY <1>2
<1>. QED BY <1>1, <1>3 DEF k

LEMMA HintsLater ==
  ASSUME NEW s, NEW d \in Nat, NEW e \in Nat, d <= e, HintList(s, d)
  PROVE  HintList(s, e)
BY NearestLater DEF HintList

LEMMA SummaryInvStep == SummaryInv /\ [SummariesNext]_summaryVars => SummaryInv'
<1>. SUFFICES ASSUME SummaryInv, [SummariesNext]_summaryVars PROVE SummaryInv'
  OBVIOUS
<1>0. /\ day \in Nat /\ LastSummaryDay \in Nat
      /\ HintList(baseline, day) /\ HintList(base, day) /\ HintList(targets, day)
  BY SummariesAssumption DEF SummaryInv
<1>1. ASSUME UNCHANGED tenors PROVE TenorsNearest'
  BY <1>1 DEF SummaryInv, TenorsNearest, Monthlies
<1>2. PICK d \in 0 .. day : Segment(instruments, d)
  BY DEF SummaryInv
<1>3. HintList(<< >>, day)
  BY EmptyHints
<1>4. CASE NextDay
  <2>1. day' = day + 1 /\ day' \in 0 .. LastSummaryDay /\ day <= day' /\ day' \in Nat
    BY <1>0, <1>4 DEF NextDay, SummaryInv
  <2>2. HintList(baseline, day') /\ HintList(base, day') /\ HintList(targets, day')
    BY <1>0, <2>1, HintsLater
  <2>3. d \in 0 .. day'
    BY <1>0, <2>1
  <2>. QED BY <1>1, <1>2, <1>4, <2>1, <2>2, <2>3 DEF NextDay, SummaryInv
<1>5. CASE StoreExpiries
  <2>. DEFINE S == {e \in Listed(day) : e > day}
  <2>1. Segment(S, day + 1)
    <3>1. day <= day
      BY <1>0
    <3>. QED BY <1>0, <3>1, ListedSegment, SegmentLater
  <2>. HIDE DEF S
  <2>2. HintList(MonthlyBuckets(S), day)
    <3>1. day + 1 \in Nat /\ day + 1 <= day + 1
      BY <1>0
    <3>. QED BY <1>0, <2>1, <3>1, BucketsNearest DEF HintList
  <2>3. baseline' = MonthlyBuckets(S)
    BY <1>5 DEF StoreExpiries, S
  <2>. QED BY <1>1, <1>5, <2>2, <2>3 DEF StoreExpiries, SummaryInv
<1>6. CASE StartSummary
  BY <1>0, <1>1, <1>6 DEF StartSummary, SummaryInv
<1>7. CASE KiteTargets
  <2>1. PICK e \in 0 .. day : Segment(instruments', e)
    <3>1. day \in 0 .. day
      BY <1>0
    <3>2. CASE instruments = {}
      BY <1>0, <1>7, <3>1, <3>2, ListedSegment DEF KiteTargets
    <3>3. CASE instruments # {}
      BY <1>2, <1>7, <3>3 DEF KiteTargets
    <3>. QED BY <3>2, <3>3
  <2>2. HintList(Targeted(instruments'), day)
    BY <1>0, <2>1, TargetedNearest
  <2>3. ASSUME NEW f \in instruments' \cap Expiries, NEW g \in Monthlies(day), g < f
        PROVE  g \in instruments'
    <3>1. g \in Expiries /\ g \in Nat /\ f \in Nat /\ g > day /\ e \in Nat /\ e <= day
      <4>1. g \in Expiries /\ g > day /\ f \in Expiries
        BY DEF Monthlies
      <4>2. \A x \in Expiries : x \in Nat
        BY SummariesAssumption
      <4>3. e \in Nat /\ e <= day
        BY <1>0
      <4>. QED BY <4>1, <4>2, <4>3
    <3>2. g >= e /\ g <= f
      BY <1>0, <2>3, <3>1
    <3>. QED BY <2>1, <3>1, <3>2 DEF Segment
  <2>. DEFINE s == Targeted(instruments')
              k == Keep(s, instruments')
  <2>4. k \in Seq(Expiries) /\ Len(k) <= Len(s) /\ Nearest(k, day)
    <3>. HIDE DEF s
    <3>. QED BY <1>0, <2>2, <2>3, KeepNearest DEF HintList, s
  <2>. HIDE DEF k, s
  <2>5. HintList(k, day)
    <3>1. Len(s) <= 3 /\ Len(s) \in Nat /\ Len(k) \in Nat
      BY <2>2, <2>4 DEF HintList, s
    <3>. QED BY <2>4, <3>1 DEF HintList
  <2>6. targets' = k
    BY <1>7 DEF KiteTargets, k, s
  <2>7. summary = << >>
    BY <1>7 DEF KiteTargets, SummaryInv
  <2>. QED BY <1>1, <1>7, <2>1, <2>5, <2>6, <2>7 DEF KiteTargets, SummaryInv
<1>8. CASE DhanTargets
  <2>1. HintList(Targeted(Listed(day)), day)
    <3>1. day \in 0 .. day
      BY <1>0
    <3>. QED BY <1>0, <3>1, ListedSegment, TargetedNearest
  <2>2. summary = << >>
    BY <1>8 DEF DhanTargets, SummaryInv
  <2>. QED BY <1>1, <1>8, <2>1, <2>2 DEF DhanTargets, SummaryInv
<1>9. CASE ProviderAnswers
  <2>1. Ascending(ToSet(targets)) \in Seq(ToSet(targets))
    <3>1. ToSet(targets) \subseteq Expiries
      BY <1>0 DEF HintList, ToSet
    <3>. QED BY <3>1, ExpirySets, AscendingSorts
  <2>2. \A i \in DOMAIN summary' : summary'[i].expiry \in ToSet(targets)
    BY <1>9, <2>1, AnswersAsked DEF ProviderAnswers
  <2>. QED BY <1>0, <1>1, <1>9, <2>2 DEF ProviderAnswers, SummaryInv
<1>10. CASE ProviderRaises
  BY <1>0, <1>1, <1>10 DEF ProviderRaises, SummaryInv
<1>11. CASE NseTargets
  <2>1. HintList(MonthlyBuckets(Listed(day)), day)
    <3>1. day <= day + 1
      BY <1>0
    <3>. QED BY <1>0, <3>1, ListedSegment, BucketsNearest DEF HintList
  <2>2. HintList(FutureTargets(day), day)
    BY <1>0, FutureNearest
  <2>3. HintList(targets', day)
    BY <1>11, <2>1, <2>2 DEF NseTargets
  <2>4. summary = << >>
    BY <1>11 DEF NseTargets, SummaryInv
  <2>. QED BY <1>1, <1>11, <2>3, <2>4 DEF NseTargets, SummaryInv
<1>12. CASE NseAnswers
  <2>1. targets \in Seq(ToSet(targets))
    <3>1. targets \in [1 .. Len(targets) -> ToSet(targets)] /\ Len(targets) \in Nat
      BY <1>0 DEF HintList, ToSet
    <3>. QED BY <3>1
  <2>2. \A i \in DOMAIN summary' : summary'[i].expiry \in ToSet(targets)
    BY <1>12, <2>1, AnswersAsked DEF NseAnswers
  <2>. QED BY <1>0, <1>1, <1>12, <2>2 DEF NseAnswers, SummaryInv
<1>13. CASE BuildPayload
  <2>. DEFINE shown == LiveTerms(day)
  <2>1. /\ shown \in Seq(Expiries) /\ Len(shown) <= 3
        /\ \A i \in DOMAIN shown : shown[i] \in Monthlies(day)
        /\ \A i, j \in DOMAIN shown : i < j => shown[i] < shown[j]
        /\ (shown # << >> /\ \A e \in ToSet(targets) : e > day => Contains(shown, e)) =>
             \A e \in Monthlies(day) : e < Last(shown) => Contains(shown, e)
    <3>1. \A i \in DOMAIN summary : summary[i].expiry \in ToSet(targets)
      BY DEF SummaryInv
    <3>. QED BY <1>0, <3>1, TermsNearest
  <2>. HIDE DEF shown
  <2>2. TenorsNearest' /\ tenors'.asked \in Seq(Expiries) /\ Len(tenors'.asked) <= 3
        /\ tenors'.expiries \in Seq(Expiries) /\ Len(tenors'.expiries) <= 3
    <3>1. CASE shown = << >>
      <4>1. tenors'.asked = << >> /\ tenors'.expiries = << >>
        BY <1>13, <3>1 DEF BuildPayload, NoTenors, shown
      <4>. QED BY <4>1 DEF TenorsNearest
    <3>2. CASE shown # << >>
      <4>1. tenors' = [on |-> day, asked |-> targets, expiries |-> shown]
        BY <1>13, <3>2 DEF BuildPayload, shown
      <4>2. tenors'.on = day /\ tenors'.asked = targets /\ tenors'.expiries = shown
        BY <4>1
      <4>. QED BY <1>0, <2>1, <4>2 DEF TenorsNearest, HintList, Monthlies
    <3>. QED BY <3>1, <3>2
  <2>. QED BY <1>3, <1>13, <2>2 DEF BuildPayload, SummaryInv
<1>14. CASE AbortSummary
  <2>1. \E e \in 0 .. day : Segment(instruments', e)
    <3>1. 0 \in 0 .. day /\ Segment({}, 0)
      BY <1>0 DEF Segment
    <3>. QED BY <1>2, <1>14, <3>1 DEF AbortSummary
  <2>. QED BY <1>1, <1>3, <1>14, <2>1 DEF AbortSummary, SummaryInv
<1>15. CASE UNCHANGED summaryVars
  BY <1>0, <1>1, <1>15 DEF summaryVars, SummaryInv
<1>. QED BY <1>4, <1>5, <1>6, <1>7, <1>8, <1>9, <1>10, <1>11, <1>12, <1>13, <1>14, <1>15
         DEF SummariesNext

\* However stale the stored expiries or the instruments of Kite, whichever provider
\* answers and however many days pass in a refresh: the terms of _live_iv_terms are
\* monthly expiries to come, nearest first, and none is passed over that a request
\* was answered for.
THEOREM NearestTenors == SummariesSpec => [](SummariesTypeOK /\ TenorsNearest)
<1>1. SummaryInv => SummariesTypeOK /\ TenorsNearest
  <2>. SUFFICES ASSUME SummaryInv PROVE SummariesTypeOK
    BY DEF SummaryInv
  <2>1. instruments \subseteq Expiries
    BY DEF SummaryInv, Segment
  <2>. QED BY <2>1 DEF SummaryInv, SummariesTypeOK, HintList
<1>. QED BY <1>1, SummaryInvInit, SummaryInvStep, PTL DEF SummariesSpec
-----------------------------------------------------------------------------
(* MCServices *)

\* Side by side each part behaves as its own specification says: what is proved of
\* upload_etl_dump, of fetch_summaries, of the live option summary, of the adjusted
\* prices and of a download by themselves holds of every behaviour of MCServices.
THEOREM ServicesKeepSpecs ==
  ServicesSpec => DumpSpec /\ FetchSpec /\ SummariesSpec /\ AdjustSpec /\ DownloadSpec
<1>1. ServicesInit => DumpInit /\ FetchInit /\ SummariesInit /\ AdjustInit /\ DownloadInit
  BY DEF ServicesInit
<1>2. [ServicesNext]_serviceVars =>
        /\ [DumpNext]_dumpVars /\ [FetchNext]_fetchVars /\ [SummariesNext]_summaryVars
        /\ [AdjustNext]_adjustVars /\ [DownloadNext]_downloadVars
  <2>. SUFFICES ASSUME [ServicesNext]_serviceVars
                PROVE  /\ [DumpNext]_dumpVars /\ [FetchNext]_fetchVars
                       /\ [SummariesNext]_summaryVars /\ [AdjustNext]_adjustVars
                       /\ [DownloadNext]_downloadVars
    OBVIOUS
  <2>1. \/ DumpNext /\ UNCHANGED <<fetchVars, summaryVars, adjustVars, downloadVars>>
        \/ FetchNext /\ UNCHANGED <<dumpVars, summaryVars, adjustVars, downloadVars>>
        \/ SummariesNext /\ UNCHANGED <<dumpVars, fetchVars, adjustVars, downloadVars>>
        \/ AdjustNext /\ UNCHANGED <<dumpVars, fetchVars, summaryVars, downloadVars>>
        \/ DownloadNext /\ UNCHANGED <<dumpVars, fetchVars, summaryVars, adjustVars>>
        \/ UNCHANGED <<dumpVars, fetchVars, summaryVars, adjustVars, downloadVars>>
    BY DEF ServicesNext, serviceVars
  <2>. QED BY <2>1
<1>. QED BY <1>1, <1>2, PTL
         DEF ServicesSpec, DumpSpec, FetchSpec, SummariesSpec, AdjustSpec, DownloadSpec

\* The types of the five, in the composition that is model-checked.
THEOREM ServicesTypes == ServicesSpec => []ServicesTypeOK
<1>1. (DumpTypeOK /\ WholeDumpKept) /\ FetchTypeOK /\ (SummariesTypeOK /\ TenorsNearest)
        /\ (AdjustTypeOK /\ ReturnsRestored) /\ (DownloadTypeOK /\ FirstFileWins)
        => ServicesTypeOK
  BY DEF ServicesTypeOK
<1>. QED BY <1>1, ServicesKeepSpecs, DumpKept, FetchTypes, NearestTenors, RightReturns,
            DownloadFirstFile, PTL
=============================================================================
