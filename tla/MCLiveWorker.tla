----------------------------- MODULE MCLiveWorker -----------------------------
(***************************************************************************)
(* Values for model checking LiveWorker: tokens end at 1 o'clock of a day  *)
(* of four, the hook is due at 2 and the market is open at 3.              *)
(***************************************************************************)
EXTENDS LiveWorker

NoPoint == {}
\* Redis is down, or the database is.
Outages == {"get", "store"}
Afternoon == {3}
=============================================================================
