------------------------- MODULE MCOptionSummaries -------------------------
(***************************************************************************)
(* Values for model checking OptionSummaries: a weekly and the monthly     *)
(* expiry of the first month, then a month each.                           *)
(***************************************************************************)
EXTENDS OptionSummaries

MonthOf == [e \in Expiries |-> IF e <= 2 THEN 1 ELSE e]
=============================================================================
