----------------------------- MODULE MCLiveReads -----------------------------
(***************************************************************************)
(* Values for model checking LiveReads with one symbol.                    *)
(***************************************************************************)
EXTENDS LiveReads

OneSymbol == {1}
OneBatch == <<{1}>>
AnyRequest == {"symbols", "all"}
SymbolRequests == {"symbols"}

AnyPoint == Points
\* The failures that leave a refresh half done.
HalfDone == {"expire", "upsert"}
=============================================================================
