------------------------------ MODULE Download ------------------------------
(***************************************************************************)
(* The bhavcopy of one date and segment: BhavcopySource asks Samco, which  *)
(* answers with the file or with a page that links to it, and then the     *)
(* archive URLs of NSE one after the other; each call goes through         *)
(* retry_async, which repeats what raises, and only that: the clients look *)
(* at the HTTP status when it has returned.                                *)
(***************************************************************************)
EXTENDS Naturals

CONSTANTS Urls,            \* how many URLs NSE's client knows
          Attempts         \* source_retry_attempts

ASSUME DownloadAssumption == Urls \in Nat \ {0} /\ Attempts \in Nat \ {0}

\* The places a file may come from, in the order they are asked.
Places == 0 .. Urls
Samco == 0

VARIABLES published,       \* the places that have the file
          corrupt,         \* those of them where it cannot be parsed
          place, call,     \* where the fetch is; call in {"ask", "link", "got", "failed"}
          attempt,
          troubled         \* history: the places where a call failed

downloadVars == <<published, corrupt, place, call, attempt, troubled>>

DownloadInit ==
  /\ published \in SUBSET Places /\ corrupt \in SUBSET published
  /\ place = Samco /\ call = "ask" /\ attempt = 1 /\ troubled = {}

Asking == call \in {"ask", "link"}

\* The next place, or the error with the diagnostics of all.
Onward ==
  /\ attempt' = 1
  /\ IF place < Urls THEN place' = place + 1 /\ call' = "ask"
     ELSE place' = place /\ call' = "failed"
-----------------------------------------------------------------------------
\* The file; Samco may answer with a page first.
AnswerFile ==
  /\ Asking /\ place \in published \ corrupt
  /\ call' = "got"
  /\ UNCHANGED <<published, corrupt, place, attempt, troubled>>

\* A file that cannot be parsed ends the client, and NSE's is the last one: its
\* other URLs are not asked any more.
AnswerCorrupt ==
  /\ Asking /\ place \in corrupt
  /\ IF place = Samco THEN Onward ELSE call' = "failed" /\ UNCHANGED <<place, attempt>>
  /\ UNCHANGED <<published, corrupt, troubled>>

AnswerLink ==
  /\ call = "ask" /\ place = Samco /\ Samco \in published
  /\ call' = "link" /\ attempt' = 1
  /\ UNCHANGED <<published, corrupt, place, troubled>>

\* Mutant of NoFile: the first archive URL without a file ends the search.
NoFileEnds ==
  /\ Asking /\ place \notin published
  /\ IF place = Samco THEN Onward ELSE call' = "failed" /\ UNCHANGED <<place, attempt>>
  /\ UNCHANGED <<published, corrupt, troubled>>

\* No file there: Samco has a page without a link, an archive answers 404.
NoFile ==
  /\ Asking /\ place \notin published
  /\ Onward
  /\ UNCHANGED <<published, corrupt, troubled>>

\* A transport error is raised inside retry_async: the call is repeated.
RepeatCall ==
  /\ Asking /\ attempt < Attempts
  /\ attempt' = attempt + 1
  /\ UNCHANGED <<published, corrupt, place, call, troubled>>

\* The last attempt, an error that is not retried, or an error status, which
\* retry_async takes for an answer.
CallFails ==
  /\ Asking
  /\ troubled' = troubled \cup {place}
  /\ Onward
  /\ UNCHANGED <<published, corrupt>>

DownloadNext == AnswerFile \/ AnswerCorrupt \/ AnswerLink \/ NoFile \/ RepeatCall \/ CallFails
DownloadSpec == DownloadInit /\ [][DownloadNext]_downloadVars
-----------------------------------------------------------------------------
\* Type invariant.
DownloadTypeOK ==
  /\ corrupt \subseteq published /\ published \subseteq Places /\ troubled \subseteq Places /\ place \in Places
  /\ call \in {"ask", "link", "got", "failed"} /\ attempt \in 1 .. Attempts

\* "If all sources fail, the pipeline raises": a file comes from the first place that
\* has a good one and where no call failed, and the fetch fails only when there is
\* none, or none before an archive whose file cannot be parsed.
FirstFileWins ==
  LET sound == published \ (corrupt \cup troubled) IN
  /\ call = "got" => place \in sound /\ \A q \in sound : place <= q
  /\ call = "failed" => \A q \in sound : \E p \in corrupt \ {Samco} : p < q
=============================================================================
