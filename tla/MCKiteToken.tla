----------------------------- MODULE MCKiteToken -----------------------------
(***************************************************************************)
(* Values for model checking KiteToken.                                    *)
(***************************************************************************)
EXTENDS KiteToken, TLC

AnyPoint == Points
NoPoint == {}

\* Readers all do the same, and the runs that use this check invariants only.
ReaderSymmetry == Permutations(Readers)
=============================================================================
