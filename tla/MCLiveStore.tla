----------------------------- MODULE MCLiveStore -----------------------------
(***************************************************************************)
(* Values for model checking LiveStore: two symbols, each a batch of the   *)
(* worker's cycle.                                                         *)
(***************************************************************************)
EXTENDS LiveStore

OneSymbol == {1}
OneBatch == <<{1}>>
TwoSymbols == {1, 2}
TwoBatches == <<{1}, {2}>>

AnyRequest == {"symbols", "all"}
SymbolRequests == {"symbols"}

\* Any call may fail.
AnyPoint == Points
\* No call fails.
NoPoint == {}
\* The database is down.
StoreFails == {"upsert"}

\* Bound: a list of all the symbols is only given by the first request.
FirstList ==
  \A a \in Callers : pc[a] = "idle" /\ asked'[a] = Symbols /\ "request" \in seen => full'[a]
=============================================================================
