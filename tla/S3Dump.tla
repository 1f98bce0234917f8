------------------------------- MODULE S3Dump -------------------------------
(***************************************************************************)
(* upload_etl_dump: pg_dump writes to two pipes, the upload reads the one, *)
(* a thread drains the other, and what has arrived when the first pipe     *)
(* ends becomes the object of the date; only then is the exit code looked  *)
(* at, and old dumps are pruned when it is 0.                              *)
(***************************************************************************)
EXTENDS Naturals, FiniteSets

CONSTANTS LastDumpDate,        \* dumps are named by date
          Retention,           \* 15 days
          PipeSize, OutSize, ErrSize,   \* what a pipe holds, what pg_dump writes
          MaxDumps             \* bound: how many dumps are started

ASSUME DumpAssumption ==
  /\ LastDumpDate \in Nat \ {0} /\ Retention \in Nat
  /\ PipeSize \in Nat \ {0} /\ OutSize \in Nat /\ ErrSize \in Nat /\ MaxDumps \in Nat

DumpDates == 1 .. LastDumpDate

VARIABLES bucket,              \* [DumpDates -> {"none", "whole", "truncated"}]
          upload, dumpDate,    \* where upload_etl_dump is, and its dump_date
          raising,             \* whether upload_fileobj has raised
          drain,               \* the thread on stderr: {"none", "reading", "done"}
          pg,                  \* {"none", "running", "ok", "failed"}
          out, err,            \* the bytes in the pipes
          outLeft, errLeft,    \* the bytes pg_dump has still to write
          old,                 \* the keys found too old
          dumps,
          kept, cutoff         \* history: see CheckExit, PruneOld

dumpVars == <<bucket, upload, dumpDate, raising, drain, pg, out, err, outLeft, errLeft,
              old, dumps, kept, cutoff>>
pipes == <<pg, out, err, outLeft, errLeft>>

DumpInit ==
  /\ bucket = [d \in DumpDates |-> "none"]
  /\ upload = "idle" /\ dumpDate = 1 /\ raising = FALSE /\ drain = "none"
  /\ pg = "none" /\ out = 0 /\ err = 0 /\ outLeft = 0 /\ errLeft = 0
  /\ old = {} /\ dumps = 0 /\ kept = {} /\ cutoff = 0
-----------------------------------------------------------------------------
\* Popen, and the thread on stderr.  A dump that is started again for a date gives
\* the object of that date up.
StartDump ==
  /\ upload = "idle" /\ pg # "running" /\ dumps < MaxDumps
  /\ \E d \in DumpDates : dumpDate' = d /\ kept' = kept \ {d}
  /\ upload' = "upload" /\ raising' = FALSE /\ drain' = "reading"
  /\ pg' = "running" /\ out' = 0 /\ err' = 0
  /\ outLeft' = OutSize /\ errLeft' = ErrSize
  /\ dumps' = dumps + 1
  /\ UNCHANGED <<bucket, old, cutoff>>

\* pg_dump blocks on a full pipe and is ended by a closed one.
PgWrites ==
  /\ pg = "running"
  /\ \/ /\ outLeft > 0 /\ out < PipeSize /\ upload = "upload"
        /\ out' = out + 1 /\ outLeft' = outLeft - 1
        /\ UNCHANGED <<pg, err, errLeft>>
     \/ /\ errLeft > 0 /\ err < PipeSize
        /\ err' = err + 1 /\ errLeft' = errLeft - 1
        /\ UNCHANGED <<pg, out, outLeft>>
     \/ /\ outLeft = 0 /\ errLeft = 0 /\ pg' = "ok"
        /\ UNCHANGED <<out, err, outLeft, errLeft>>
     \/ /\ outLeft > 0 /\ upload # "upload" /\ pg' = "failed"
        /\ UNCHANGED <<out, err, outLeft, errLeft>>
  /\ UNCHANGED <<bucket, upload, dumpDate, raising, drain, old, dumps, kept, cutoff>>

PgFails ==
  /\ pg = "running" /\ pg' = "failed"
  /\ UNCHANGED <<bucket, upload, dumpDate, raising, drain, out, err, outLeft, errLeft,
                 old, dumps, kept, cutoff>>

\* Mutant of DrainStderr: stderr is read when the upload is over.
DrainAfterUpload ==
  /\ drain = "reading" /\ upload # "upload"
  /\ \/ err > 0 /\ err' = err - 1 /\ drain' = drain
     \/ err = 0 /\ pg # "running" /\ drain' = "done" /\ err' = err
  /\ UNCHANGED <<bucket, upload, dumpDate, raising, pg, out, outLeft, errLeft, old, dumps,
                 kept, cutoff>>

DrainStderr ==
  /\ drain = "reading"
  /\ \/ err > 0 /\ err' = err - 1 /\ drain' = drain
     \/ err = 0 /\ pg # "running" /\ drain' = "done" /\ err' = err
  /\ UNCHANGED <<bucket, upload, dumpDate, raising, pg, out, outLeft, errLeft, old, dumps,
                 kept, cutoff>>

\* upload_fileobj reads until stdout ends, and then the object is replaced.
UploadReads ==
  /\ upload = "upload"
  /\ \/ /\ out > 0 /\ out' = out - 1
        /\ UNCHANGED <<bucket, upload>>
     \/ /\ out = 0 /\ pg # "running"
        /\ bucket' = [bucket EXCEPT ![dumpDate] = IF pg = "ok" THEN "whole" ELSE "truncated"]
        /\ upload' = "join" /\ out' = out
  /\ UNCHANGED <<dumpDate, raising, drain, pg, err, outLeft, errLeft, old, dumps, kept, cutoff>>

\* It raises: nothing is stored.
UploadRaises ==
  /\ upload = "upload"
  /\ upload' = "join" /\ raising' = TRUE
  /\ UNCHANGED <<bucket, dumpDate, drain, pipes, old, dumps, kept, cutoff>>

\* finally: stdout is closed, the thread joined, pg_dump waited for; then the
\* exception goes on, or the exit code is looked at.
CheckExit ==
  /\ upload = "join" /\ drain = "done" /\ pg # "running"
  /\ upload' = IF raising \/ pg = "failed" THEN "idle" ELSE "list"
  /\ kept' = IF raising \/ pg = "failed" THEN kept ELSE kept \cup {dumpDate}
  /\ UNCHANGED <<bucket, dumpDate, raising, drain, pipes, old, dumps, cutoff>>

\* Mutant of TooOld: a dump of the last day of the retention is deleted too.
TooOldInclusive(d) == bucket[d] # "none" /\ d + Retention <= dumpDate

\* _delete_old_dumps lists the dumps before the cut-off ...
TooOld(d) == bucket[d] # "none" /\ d + Retention < dumpDate

ListOld ==
  /\ upload = "list"
  /\ old' = {d \in DumpDates : TooOld(d)}
  /\ upload' = "prune"
  /\ UNCHANGED <<bucket, dumpDate, raising, drain, pipes, dumps, kept, cutoff>>

\* ... and deletes them.
PruneOld ==
  /\ upload = "prune"
  /\ bucket' = [d \in DumpDates |-> IF d \in old THEN "none" ELSE bucket[d]]
  /\ cutoff' = IF dumpDate > cutoff THEN dumpDate ELSE cutoff
  /\ upload' = "idle" /\ old' = {}
  /\ UNCHANGED <<dumpDate, raising, drain, pipes, dumps, kept>>

\* A call to S3 raises: _upload_etl_dump_safely reports it and the update goes on.
S3Raises ==
  /\ upload \in {"list", "prune"}
  /\ upload' = "idle" /\ old' = {}
  /\ UNCHANGED <<bucket, dumpDate, raising, drain, pipes, dumps, kept, cutoff>>

UploadStep == UploadReads \/ CheckExit \/ ListOld \/ PruneOld
DumpNext == StartDump \/ PgWrites \/ PgFails \/ DrainStderr \/ UploadStep \/ UploadRaises \/ S3Raises
DumpSpec == DumpInit /\ [][DumpNext]_dumpVars
\* The three of them are scheduled by the operating system; S3 answers,
\* and raising is not relied upon.
DumpFairness == WF_dumpVars(PgWrites) /\ WF_dumpVars(DrainStderr) /\ WF_dumpVars(UploadStep)
-----------------------------------------------------------------------------
\* Type invariant.
DumpTypeOK ==
  /\ bucket \in [DumpDates -> {"none", "whole", "truncated"}]
  /\ upload \in {"idle", "upload", "join", "list", "prune"} /\ dumpDate \in DumpDates
  /\ pg \in {"none", "running", "ok", "failed"} /\ drain \in {"none", "reading", "done"}
  /\ out \in 0 .. PipeSize /\ err \in 0 .. PipeSize

\* Comment at app/services/s3_dump.py:57: stderr is drained on a thread "so the OS
\* pipe buffer never fills up and causes a deadlock": every dump comes to its end,
\* however much pg_dump complains, also when the upload raises half way.
DumpEnds == (upload # "idle") ~> (upload = "idle")

\* The dump of a date that succeeded stays whole for the days of the retention,
\* through failing dumps of other dates, reruns for older ones and deletions that
\* raise; only a new dump of its own date may spoil it.
WholeDumpKept ==
  \A d \in kept : d + Retention >= cutoff => bucket[d] = "whole"
=============================================================================
