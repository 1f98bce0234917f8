--------------------------- MODULE LatestRegister ---------------------------
(***************************************************************************)
(* What the table live_symbol_metrics promises its readers, whoever writes *)
(* it and in whatever order: one row per symbol, replaced only by a whole  *)
(* payload of one refresh that is not older than the row it replaces.      *)
(***************************************************************************)
EXTENDS Naturals

CONSTANTS Symbols,      \* the symbols of the live universe
          Stamps,       \* the snapshot times a refresh may carry
          NoPayload     \* "no row for this symbol"

VARIABLE latest         \* latest[s]: the row of s, or NoPayload

\* A payload of the refresh stamped t: with or without the option fields,
\* which then carry the stamp of that same refresh.
Whole(t) == {[snapshot |-> t, option |-> 0], [snapshot |-> t, option |-> t]}

\* The row that remains when payload p is offered for a symbol whose row is old.
Newest(old, p) == IF p # NoPayload /\ old.snapshot <= p.snapshot THEN p ELSE old

Init == latest = [s \in Symbols |-> NoPayload]

\* One refresh offers payloads for some of the symbols, all stamped t.
Publish(t) ==
  \E offer \in [Symbols -> Whole(t) \cup {NoPayload}] :
     latest' = [s \in Symbols |-> Newest(latest[s], offer[s])]

Next == \E t \in Stamps : Publish(t)

Spec == Init /\ [][Next]_latest
=============================================================================
