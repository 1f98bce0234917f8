------------------------------- MODULE Sorting -------------------------------
(***************************************************************************)
(* Python's sorted() on a set of numbers, and the members of a list that   *)
(* pass a test.  The operators of the libraries for these, SetToSortSeq    *)
(* and SelectSeq, have no definition that TLAPS can expand.                *)
(***************************************************************************)
EXTENDS Naturals, FiniteSets

\* The place of e among the members of S.
Rank(e, S) == Cardinality({f \in S : f <= e})

\* sorted(S)
Ascending(S) == [i \in 1 .. Cardinality(S) |-> CHOOSE e \in S : Rank(e, S) = i]

\* [e for e in s if e in S]
Keep(s, S) ==
  LET kept == Ascending({i \in DOMAIN s : s[i] \in S})
  IN [k \in DOMAIN kept |-> s[kept[k]]]
=============================================================================
