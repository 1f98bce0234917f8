---------------------------- MODULE ActionsProofs ----------------------------
(***************************************************************************)
(* Proofs about the corporate actions of a symbol, for any number of       *)
(* loads, syncs, actions and dates: a factor entered by hand is never      *)
(* replaced, and a load that nothing disturbs uses the right factors.  The *)
(* second needs the windows the code chooses: a price window that is not   *)
(* sparse starts within the days a load synchronises.                      *)
(***************************************************************************)
EXTENDS CorporateActions, EodProofs

Processes == Loads \cup Syncs
Places == {"idle", "bars", "upsert", "select", "update", "compute"}

\* Rows by hand are verified; what is stored and what was answered has been declared.
ActionsInv ==
  /\ ActionsTypeOK
  /\ at \in [Processes -> Places] /\ date \in [Processes -> TradeDates]
  /\ got \in [Processes -> SUBSET published] /\ undisturbed \subseteq Processes
  /\ updates = [p \in Processes |-> updates[p]]
  /\ rvStatus = [d \in TradeDates |-> rvStatus[d]]
  /\ \A a \in Actions : /\ table[a].factor = Manual => table[a].status = "VERIFIED"
                        /\ table[a].status # "absent" => a \in published

LEMMA ActionsInvInit == ActionsInit => ActionsInv
<1>1. 1 \in TradeDates /\ 0 \in 0 .. Manual /\ Manual # 0
  BY ActionsAssumption DEF TradeDates, Manual
<1>. QED BY <1>1 DEF ActionsInit, ActionsInv, ActionsTypeOK, Absent, Processes, Places

\* What the text of an action says is a row, and so is what is derived.
LEMMA TermsType ==
  ASSUME ActionsInv, NEW a \in Actions
  PROVE  /\ ParseTerms(a) \in [status : {"VERIFIED", "PENDING_FACTOR"}, factor : 0 .. Manual]
         /\ ParseTerms(a).factor # Manual
BY ActionsAssumption DEF ParseTerms, Terms, Manual

\* A factor is derived from the last close before the ex-date.
LEMMA FactorDerived ==
  ASSUME ActionsInv, NEW a \in Actions, DerivedFactor(a) # 0
  PROVE  DerivedFactor(a) \in ClosesBefore(a) /\ DerivedFactor(a) \in bars
<1>1. ClosesBefore(a) \subseteq 0 .. LastTradeDate /\ LastTradeDate \in Nat
  BY ActionsAssumption DEF ClosesBefore, ActionsInv, ActionsTypeOK, TradeDates
<1>2. ClosesBefore(a) # {} /\ DerivedFactor(a) = Max(ClosesBefore(a))
  BY DEF DerivedFactor
<1>3. Max(ClosesBefore(a)) \in ClosesBefore(a)
  BY <1>1, <1>2, MaxOfNats
<1>. QED BY <1>2, <1>3 DEF ClosesBefore

\* A row that is verified with what was derived for it.
LEMMA VerifiedRow ==
  ASSUME ActionsInv, NEW p \in Processes, NEW a, \E x \in updates[p] : x[1] = a
  PROVE  \E x \in updates[p] : x[1] = a /\ Verified(p, a) = [status |-> "VERIFIED", factor |-> x[2]]
         /\ x[2] \in bars
<1>. DEFINE x == CHOOSE y \in updates[p] : y[1] = a
<1>1. x \in updates[p] /\ x[1] = a
  OBVIOUS
<1>2. x[2] \in bars
  BY <1>1 DEF ActionsInv, ActionsTypeOK
<1>. QED BY <1>1, <1>2 DEF Verified

\* The steps that write no row of corporate_actions.
LEMMA ActionsRead ==
  ASSUME ActionsInv, NEW p \in Processes,
         \/ p \in Loads /\ (StartLoad(p) \/ UpsertBars(p) \/ ComputeStatus(p))
         \/ p \in Syncs /\ StartSync(p)
         \/ SelectPending(p) \/ AbortLoad(p)
  PROVE  ActionsInv' /\ UNCHANGED table
<1>. USE DEF ActionsInv, ActionsTypeOK, Places, Step, Writes
<1>1. CASE StartLoad(p)
  <2>1. /\ date' \in [Processes -> TradeDates] /\ published \subseteq published'
        /\ published' \subseteq Actions /\ undisturbed' \subseteq Processes
    BY <1>1 DEF StartLoad
  <2>2. got' \in [Processes -> SUBSET published']
    BY <1>1, <2>1 DEF StartLoad, InRange
  <2>. QED BY <1>1, <2>1, <2>2 DEF StartLoad
<1>2. CASE UpsertBars(p)
  <2>1. bars \subseteq bars' /\ bars' \subseteq TradeDates
    BY <1>2 DEF UpsertBars
  <2>. QED BY <1>2, <2>1 DEF UpsertBars
<1>3. CASE ComputeStatus(p)
  <2>1. rvStatus' = [d \in TradeDates |-> rvStatus'[d]]
    BY <1>3 DEF ComputeStatus
  <2>2. UNCHANGED <<bars, published, table, date, got, updates, undisturbed>>
    BY <1>3 DEF ComputeStatus
  <2>3. at' \in [Processes -> Places]
    BY <1>3 DEF ComputeStatus
  <2>. QED BY <2>1, <2>2, <2>3
<1>4. CASE StartSync(p)
  <2>1. got' \in [Processes -> SUBSET published']
    BY <1>4 DEF StartSync, InRange
  <2>. QED BY <1>4, <2>1 DEF StartSync
<1>5. CASE SelectPending(p)
  <2>1. \A a \in Actions : DerivedFactor(a) # 0 => DerivedFactor(a) \in bars
    BY FactorDerived
  <2>2. PICK pending \in SUBSET Actions :
          updates' = [updates EXCEPT ![p] =
                        {<<a, DerivedFactor(a)>> : a \in {b \in pending : DerivedFactor(b) # 0}}]
    <3>. DEFINE first == IF p \in Loads THEN Earliest(date[p]) ELSE 1
                pending == {a \in Actions : /\ table[a].status = "PENDING_FACTOR"
                                            /\ ExDate[a] >= first /\ ExDate[a] <= date[p]}
    <3>1. pending \in SUBSET Actions
      OBVIOUS
    <3>. QED BY <1>5, <3>1 DEF SelectPending
  <2>3. \A q \in Processes : \A x \in updates'[q] : x[1] \in Actions /\ x[2] \in bars
    BY <2>1, <2>2
  <2>4. UNCHANGED <<bars, published, table, rvStatus, date, got, undisturbed>>
    BY <1>5 DEF SelectPending
  <2>5. at' \in [Processes -> Places]
    BY <1>5 DEF SelectPending
  <2>6. updates' = [q \in Processes |-> updates'[q]]
    BY <2>2
  <2>. QED BY <2>3, <2>4, <2>5, <2>6
<1>6. CASE AbortLoad(p)
  BY <1>6 DEF AbortLoad
<1>. QED BY <1>1, <1>2, <1>3, <1>4, <1>5, <1>6

LEMMA ActionsWrite ==
  ASSUME ActionsInv,
         \/ \E p \in Processes : UpsertActions(p) \/ UpdatePending(p)
         \/ \E a \in Actions : EditByHand(a)
  PROVE  /\ ActionsInv'
         /\ \A a \in Actions : table[a].factor = Manual => table'[a] = table[a]
<1>. USE DEF ActionsInv, ActionsTypeOK, Places, Step, Writes
<1>1. ASSUME NEW p \in Processes, UpsertActions(p)
      PROVE  /\ ActionsInv'
             /\ \A a \in Actions : table[a].factor = Manual => table'[a] = table[a]
  <2>1. \A a \in Actions : table'[a] = IF a \in got[p] /\ table[a].factor # Manual
                                       THEN ParseTerms(a) ELSE table[a]
    BY <1>1 DEF UpsertActions
  <2>2. table' \in [Actions -> [status : {"absent", "PENDING_FACTOR", "VERIFIED", "IGNORED"},
                                factor : 0 .. Manual]]
    BY <1>1, TermsType DEF UpsertActions
  <2>3. \A a \in Actions : /\ table'[a].factor = Manual => table'[a].status = "VERIFIED"
                           /\ table'[a].status # "absent" => a \in published
    BY <2>1, TermsType
  <2>4. /\ UNCHANGED <<bars, published, rvStatus, date, updates>>
        /\ at' \in [Processes -> Places] /\ got' \in [Processes -> SUBSET published]
        /\ undisturbed' \subseteq Processes
    BY <1>1 DEF UpsertActions
  <2>. QED BY <2>1, <2>2, <2>3, <2>4
<1>2. ASSUME NEW p \in Processes, UpdatePending(p)
      PROVE  /\ ActionsInv'
             /\ \A a \in Actions : table[a].factor = Manual => table'[a] = table[a]
  <2>1. \A a \in Actions :
          \/ table'[a] = table[a]
          \/ /\ table[a].status = "PENDING_FACTOR" /\ \E x \in updates[p] : x[1] = a
             /\ table'[a] = Verified(p, a)
    BY <1>2 DEF UpdatePending
  <2>2. \A a \in Actions :
          \/ table'[a] = table[a]
          \/ /\ table[a].status = "PENDING_FACTOR"
             /\ \E e \in bars : table'[a] = [status |-> "VERIFIED", factor |-> e]
    BY <2>1, VerifiedRow
  <2>3. \A e \in bars : e \in 0 .. Manual /\ e # Manual
    BY ActionsAssumption DEF TradeDates, Manual
  <2>4. \A a \in Actions :
          /\ table'[a] \in [status : {"absent", "PENDING_FACTOR", "VERIFIED", "IGNORED"},
                            factor : 0 .. Manual]
          /\ table'[a].factor = Manual => table'[a].status = "VERIFIED"
          /\ table'[a].status # "absent" => a \in published
          /\ table[a].factor = Manual => table'[a] = table[a]
    <3>. TAKE a \in Actions
    <3>1. CASE table'[a] = table[a]
      BY <3>1
    <3>2. ASSUME table[a].status = "PENDING_FACTOR", NEW e \in bars,
                 table'[a] = [status |-> "VERIFIED", factor |-> e]
          PROVE  /\ table'[a] \in [status : {"absent", "PENDING_FACTOR", "VERIFIED", "IGNORED"},
                                   factor : 0 .. Manual]
                 /\ table'[a].factor = Manual => table'[a].status = "VERIFIED"
                 /\ table'[a].status # "absent" => a \in published
                 /\ table[a].factor = Manual => table'[a] = table[a]
      BY <2>3, <3>2
    <3>. QED BY <2>2, <3>1, <3>2
  <2>5. table' = [a \in Actions |-> table'[a]]
    BY <1>2 DEF UpdatePending
  <2>6. /\ UNCHANGED <<bars, published, rvStatus, date, got>>
        /\ at' \in [Processes -> Places] /\ undisturbed' \subseteq Processes
        /\ updates' = [q \in Processes |-> updates'[q]]
        /\ \A q \in Processes : updates'[q] \subseteq updates[q]
    BY <1>2 DEF UpdatePending
  <2>. QED BY <2>4, <2>5, <2>6
<1>3. ASSUME NEW a \in Actions, EditByHand(a)
      PROVE  /\ ActionsInv'
             /\ \A b \in Actions : table[b].factor = Manual => table'[b] = table[b]
  <2>1. Manual \in 0 .. Manual
    BY ActionsAssumption DEF Manual
  <2>2. \/ table' = [table EXCEPT ![a] = [status |-> "VERIFIED", factor |-> Manual]]
        \/ table' = [table EXCEPT ![a] = [status |-> "IGNORED", factor |-> table[a].factor]]
    <3>1. table[a] \in [status : {"absent", "PENDING_FACTOR", "VERIFIED", "IGNORED"},
                        factor : 0 .. Manual]
      OBVIOUS
    <3>2. [table[a] EXCEPT !.status = "IGNORED"] = [status |-> "IGNORED", factor |-> table[a].factor]
      BY <3>1
    <3>. QED BY <1>3, <3>2 DEF EditByHand
  <2>3. /\ table[a].status # "absent" /\ table[a].factor # Manual /\ undisturbed' = {}
        /\ UNCHANGED <<bars, published, rvStatus, at, date, got, updates>>
    BY <1>3 DEF EditByHand
  <2>4. table' \in [Actions -> [status : {"absent", "PENDING_FACTOR", "VERIFIED", "IGNORED"},
                                factor : 0 .. Manual]]
    <3>1. /\ [status |-> "VERIFIED", factor |-> Manual]
                \in [status : {"absent", "PENDING_FACTOR", "VERIFIED", "IGNORED"}, factor : 0 .. Manual]
          /\ [status |-> "IGNORED", factor |-> table[a].factor]
                \in [status : {"absent", "PENDING_FACTOR", "VERIFIED", "IGNORED"}, factor : 0 .. Manual]
      BY <2>1
    <3>. QED BY <2>2, <3>1
  <2>5. \A b \in Actions : /\ table'[b].factor = Manual => table'[b].status = "VERIFIED"
                           /\ table'[b].status # "absent" => b \in published
                           /\ table[b].factor = Manual => table'[b] = table[b]
    BY <2>2, <2>3
  <2>. QED BY <2>3, <2>4, <2>5
<1>. QED BY <1>1, <1>2, <1>3

LEMMA ActionsStep ==
  ASSUME ActionsInv, [ActionsNext]_actionVars
  PROVE  /\ ActionsInv'
         /\ \A a \in Actions : table[a].factor = Manual => table'[a] = table[a]
<1>1. CASE UNCHANGED actionVars
  BY <1>1 DEF actionVars, ActionsInv, ActionsTypeOK
<1>2. CASE ActionsNext
  BY <1>2, ActionsRead, ActionsWrite DEF ActionsNext, Processes
<1>. QED BY <1>1, <1>2

\* The rows, and what is about to be written to them, are of the right shape.
THEOREM ActionsTypes == ActionsSpec => []ActionsTypeOK
<1>1. ActionsInv => ActionsTypeOK
  BY DEF ActionsInv
<1>2. ActionsInv /\ [ActionsNext]_actionVars => ActionsInv'
  BY ActionsStep
<1>. QED BY <1>1, <1>2, ActionsInvInit, PTL DEF ActionsSpec

\* "future NSE syncs preserve it": upsert_corporate_actions and the resolution leave a
\* row alone once an operator has entered its factor, even a resolution that had read
\* the row as pending before.
THEOREM ManualKept == ActionsSpec => ManualFactorKept
<1>1. ActionsInv /\ [ActionsNext]_actionVars => ActionsInv'
  BY ActionsStep
<1>2. ActionsInv /\ [ActionsNext]_actionVars =>
        [\A a \in Actions : table[a].factor = Manual => table'[a] = table[a]]_actionVars
  BY ActionsStep
<1>. QED BY <1>1, <1>2, ActionsInvInit, PTL DEF ActionsSpec, ManualFactorKept
-----------------------------------------------------------------------------
(* The factors a load uses *)

\* The actions a load asks NSE for and resolves, as far as its own date.
Asked(p) == {a \in Actions : ExDate[a] >= Earliest(date[p]) /\ ExDate[a] <= date[p]}

\* A row as its text says, and one that is resolved from the bars.
Fresh(a) ==
  \/ table[a].status = "absent" \/ table[a].factor = Manual \/ table[a] = ParseTerms(a)
Resolved(a) ==
  \/ table[a].status = "absent" \/ table[a].factor = Manual
  \/ a \in Declared /\ table[a].status = "VERIFIED"
  \/ a \notin Declared /\ DerivedFactor(a) = 0 /\ table[a].status = "PENDING_FACTOR"
  \/ /\ a \notin Declared /\ DerivedFactor(a) # 0
     /\ table[a] = [status |-> "VERIFIED", factor |-> DerivedFactor(a)]

\* How far a load has come with the rows while nobody else wrote any.
OwnLoad(p) ==
  /\ at[p] \in {"bars", "upsert"} => \A a \in Asked(p) : table[a].status # "absent" => a \in got[p]
  /\ at[p] \in {"select", "update"} => \A a \in Asked(p) : Fresh(a)
  /\ at[p] = "update" =>
       \A a \in Asked(p) : table[a].status = "PENDING_FACTOR" =>
         /\ DerivedFactor(a) # 0 => <<a, DerivedFactor(a)>> \in updates[p]
         /\ \A x \in updates[p] : x[1] = a => DerivedFactor(a) # 0 /\ x[2] = DerivedFactor(a)
  /\ at[p] = "compute" => \A a \in Asked(p) : Resolved(a)
LoadInv == \A p \in Loads \cap undisturbed : OwnLoad(p)

\* What others do beside a load they do not disturb.
LEMMA LoadBeside ==
  ASSUME NEW p, OwnLoad(p), UNCHANGED <<table, bars>>, at'[p] = at[p], date'[p] = date[p],
         got'[p] = got[p], updates'[p] = updates[p]
  PROVE  OwnLoad(p)'
<1>1. Asked(p)' = Asked(p)
  BY DEF Asked
<1>2. \A a : DerivedFactor(a)' = DerivedFactor(a)
  BY DEF DerivedFactor, Peers, ClosesBefore
<1>. QED BY <1>1, <1>2 DEF OwnLoad, Fresh, Resolved

\* The steps of the load itself.
LEMMA LoadOwn ==
  ASSUME ActionsInv, NEW p \in Loads, p \in undisturbed => OwnLoad(p), p \in undisturbed',
         \/ StartLoad(p) \/ UpsertBars(p) \/ UpsertActions(p) \/ SelectPending(p)
         \/ UpdatePending(p) \/ ComputeStatus(p) \/ AbortLoad(p)
  PROVE  OwnLoad(p)'
<1>0. /\ p \in Processes /\ at \in [Processes -> Places] /\ date \in [Processes -> TradeDates]
      /\ got \in [Processes -> SUBSET published] /\ updates = [q \in Processes |-> updates[q]]
  BY DEF ActionsInv, Processes
<1>1. CASE StartLoad(p)
  <2>1. /\ at'[p] = "bars" /\ UNCHANGED table /\ published \subseteq published'
        /\ published' \subseteq Actions
    BY <1>0, <1>1 DEF StartLoad, Step, ActionsInv, ActionsTypeOK
  <2>2. /\ date'[p] \in TradeDates
        /\ got'[p] = {a \in published' : /\ ExDate[a] >= Earliest(date'[p])
                                         /\ ExDate[a] <= date'[p] + Ahead}
    BY <1>0, <1>1 DEF StartLoad, InRange
  <2>3. ASSUME NEW a \in Asked(p)', table[a].status # "absent" PROVE a \in got'[p]
    <3>1. a \in published' /\ ExDate[a] >= Earliest(date'[p]) /\ ExDate[a] <= date'[p]
      BY <2>1, <2>3 DEF Asked, ActionsInv
    <3>2. date'[p] <= date'[p] + Ahead /\ ExDate[a] \in Nat /\ date'[p] \in Nat
      BY <2>1, <2>2, <3>1, ActionsAssumption DEF TradeDates
    <3>. QED BY <2>2, <3>1, <3>2, ActionsAssumption
  <2>. QED BY <2>1, <2>3 DEF OwnLoad
<1>2. CASE UpsertBars(p)
  <2>1. /\ at[p] = "bars" /\ at'[p] = "upsert" /\ UNCHANGED <<table, date, got>>
        /\ p \in undisturbed
    BY <1>0, <1>2 DEF UpsertBars, Step, Writes
  <2>. QED BY <2>1 DEF OwnLoad, Asked
<1>3. CASE UpsertActions(p)
  <2>1. /\ at[p] = "upsert" /\ at'[p] = "select" /\ UNCHANGED date /\ p \in undisturbed
        /\ \A a \in Actions : table'[a] = IF a \in got[p] /\ table[a].factor # Manual
                                         THEN ParseTerms(a) ELSE table[a]
    BY <1>0, <1>3 DEF UpsertActions, Step, Writes
  <2>2. Asked(p)' = Asked(p) /\ Asked(p) \subseteq Actions
    BY <2>1 DEF Asked
  <2>3. \A a \in Asked(p) : table[a].status # "absent" => a \in got[p]
    BY <2>1 DEF OwnLoad
  <2>4. \A a : ParseTerms(a)' = ParseTerms(a)
    BY DEF ParseTerms
  <2>5. \A a \in Asked(p) : Fresh(a)'
    BY <2>1, <2>2, <2>3, <2>4 DEF Fresh
  <2>. QED BY <2>1, <2>2, <2>5 DEF OwnLoad
<1>4. CASE SelectPending(p)
  <2>. DEFINE pending == {a \in Actions : /\ table[a].status = "PENDING_FACTOR"
                                          /\ ExDate[a] >= Earliest(date[p]) /\ ExDate[a] <= date[p]}
  <2>1. /\ at[p] = "select" /\ at'[p] = "update" /\ UNCHANGED <<table, bars, date, undisturbed>>
        /\ updates'[p] = {<<a, DerivedFactor(a)>> : a \in {b \in pending : DerivedFactor(b) # 0}}
    BY <1>0, <1>4 DEF SelectPending, Step
  <2>2. Asked(p)' = Asked(p) /\ \A a \in Asked(p) : table[a].status = "PENDING_FACTOR" => a \in pending
    BY <2>1 DEF Asked
  <2>3. \A a : DerivedFactor(a)' = DerivedFactor(a)
    BY <2>1 DEF DerivedFactor, Peers, ClosesBefore
  <2>4. \A a \in Asked(p) : Fresh(a)'
    BY <2>1 DEF OwnLoad, Fresh
  <2>. HIDE DEF pending
  <2>5. ASSUME NEW a \in Asked(p), table[a].status = "PENDING_FACTOR"
        PROVE  /\ DerivedFactor(a) # 0 => <<a, DerivedFactor(a)>> \in updates'[p]
               /\ \A x \in updates'[p] : x[1] = a => DerivedFactor(a) # 0 /\ x[2] = DerivedFactor(a)
    BY <2>1, <2>2, <2>5
  <2>. QED BY <2>1, <2>2, <2>3, <2>4, <2>5 DEF OwnLoad
<1>5. CASE UpdatePending(p)
  <2>1. /\ at[p] = "update" /\ at'[p] = "compute" /\ UNCHANGED <<bars, date>> /\ p \in undisturbed
        /\ \A a \in Actions : table'[a] =
             IF table[a].status = "PENDING_FACTOR" /\ \E x \in updates[p] : x[1] = a
             THEN Verified(p, a) ELSE table[a]
    BY <1>0, <1>5 DEF UpdatePending, Step, Writes
  <2>2. Asked(p)' = Asked(p) /\ Asked(p) \subseteq Actions
    BY <2>1 DEF Asked
  <2>3. \A a : DerivedFactor(a)' = DerivedFactor(a)
    <3>1. \A b \in Actions : table'[b].status \in {"absent", "IGNORED"} <=>
                             table[b].status \in {"absent", "IGNORED"}
      <4>1. \A b : Verified(p, b).status = "VERIFIED"
        BY DEF Verified
      <4>. HIDE DEF Verified
      <4>. QED BY <2>1, <4>1
    <3>2. \A a : Peers(a)' = Peers(a)
      BY <3>1 DEF Peers
    <3>. QED BY <2>1, <3>2 DEF DerivedFactor, ClosesBefore
  <2>4. ASSUME NEW a \in Asked(p) PROVE Resolved(a)'
    <3>1. Fresh(a) /\ a \in Actions
      BY <2>1, <2>2 DEF OwnLoad
    <3>2. table[a].factor = Manual => table[a].status = "VERIFIED"
      BY <3>1 DEF ActionsInv
    <3>3. CASE table[a].status # "PENDING_FACTOR"
      <4>1. table'[a] = table[a]
        BY <2>1, <3>1, <3>3
      <4>2. table[a] = ParseTerms(a) => a \in Declared /\ table[a].status = "VERIFIED"
        BY <3>3 DEF ParseTerms
      <4>. QED BY <3>1, <4>1, <4>2 DEF Fresh, Resolved
    <3>4. CASE table[a].status = "PENDING_FACTOR"
      <4>1. a \notin Declared
        BY <3>1, <3>2, <3>4 DEF Fresh, ParseTerms
      <4>2. /\ DerivedFactor(a) # 0 => <<a, DerivedFactor(a)>> \in updates[p]
            /\ \A x \in updates[p] : x[1] = a => DerivedFactor(a) # 0 /\ x[2] = DerivedFactor(a)
        BY <2>1, <3>4 DEF OwnLoad
      <4>3. CASE DerivedFactor(a) # 0
        <5>1. \E x \in updates[p] : x[1] = a
          BY <4>2, <4>3
        <5>2. table'[a] = Verified(p, a)
          BY <2>1, <3>1, <3>4, <5>1
        <5>3. Verified(p, a) = [status |-> "VERIFIED", factor |-> DerivedFactor(a)]
          BY <1>0, <4>2, <5>1, VerifiedRow
        <5>. QED BY <2>3, <4>1, <4>3, <5>2, <5>3 DEF Resolved
      <4>4. CASE DerivedFactor(a) = 0
        BY <2>1, <2>3, <3>1, <3>4, <4>1, <4>2, <4>4 DEF Resolved
      <4>. QED BY <4>3, <4>4
    <3>. QED BY <3>3, <3>4
  <2>. QED BY <2>1, <2>2, <2>4 DEF OwnLoad
<1>6. CASE ComputeStatus(p) \/ AbortLoad(p)
  <2>1. at'[p] = "idle"
    BY <1>0, <1>6 DEF ComputeStatus, AbortLoad, Step
  <2>. QED BY <2>1 DEF OwnLoad
<1>. QED BY <1>1, <1>2, <1>3, <1>4, <1>5, <1>6

LEMMA LoadStep ==
  ASSUME ActionsInv, LoadInv, [ActionsNext]_actionVars
  PROVE  LoadInv'
<1>. SUFFICES ASSUME NEW p \in Loads, p \in undisturbed' PROVE OwnLoad(p)'
  BY DEF LoadInv
<1>0. /\ p \in Processes /\ p \notin Syncs /\ at \in [Processes -> Places]
      /\ date \in [Processes -> TradeDates] /\ got \in [Processes -> SUBSET published]
      /\ updates = [q \in Processes |-> updates[q]]
  BY ActionsAssumption DEF ActionsInv, Processes
<1>1. CASE UNCHANGED actionVars
  BY <1>1, LoadBeside DEF LoadInv, actionVars
<1>2. CASE StartLoad(p) \/ UpsertBars(p) \/ UpsertActions(p) \/ SelectPending(p)
           \/ UpdatePending(p) \/ ComputeStatus(p) \/ AbortLoad(p)
  BY <1>2, LoadOwn DEF LoadInv
<1>3. ASSUME NEW q \in Processes, q # p,
             \/ StartLoad(q) \/ ComputeStatus(q) \/ StartSync(q) \/ SelectPending(q) \/ AbortLoad(q)
      PROVE  OwnLoad(p)'
  <2>1. /\ UNCHANGED <<table, bars>> /\ at'[p] = at[p] /\ date'[p] = date[p]
        /\ got'[p] = got[p] /\ updates'[p] = updates[p] /\ p \in undisturbed
    BY <1>0, <1>3 DEF StartLoad, ComputeStatus, StartSync, SelectPending, AbortLoad, Step
  <2>2. OwnLoad(p)
    BY <2>1 DEF LoadInv
  <2>. QED BY <2>1, <2>2, LoadBeside
<1>4. ASSUME NEW q \in Processes, q # p, UpsertBars(q) \/ UpsertActions(q) \/ UpdatePending(q)
      PROVE  FALSE
  BY <1>4 DEF UpsertBars, UpsertActions, UpdatePending, Writes
<1>5. ASSUME NEW a \in Actions, EditByHand(a) PROVE FALSE
  BY <1>5 DEF EditByHand
<1>. QED BY <1>0, <1>1, <1>2, <1>3, <1>4, <1>5 DEF ActionsNext, Processes

\* The window of a load that is neither insufficient nor sparse begins at a bar, and
\* what is in it was asked for.
LEMMA WindowAsked ==
  ASSUME ActionsInv, NEW p \in Processes,
         ~ (Cardinality(WindowBars(date[p])) < Window),
         ~ (date[p] - Min(WindowBars(date[p])) > Span)
  PROVE  \A a \in WindowActions(date[p]) : a \in Asked(p) /\ ClosesBefore(a) # {}
<1>. DEFINE first == Min(WindowBars(date[p]))
<1>1. date[p] \in TradeDates /\ TradeDates \subseteq Nat /\ Back \in Nat /\ Span \in Nat /\ Span <= Back
  BY ActionsAssumption DEF ActionsInv, TradeDates
<1>2. WindowBars(date[p]) # {}
  <2>1. Window \in Nat /\ Window > 0
    BY ActionsAssumption
  <2>. QED BY <2>1, FS_EmptySet
<1>3. WindowBars(date[p]) \subseteq {d \in bars : d <= date[p]} /\ bars \subseteq TradeDates
  BY DEF WindowBars, ActionsInv, ActionsTypeOK
<1>4. first \in bars /\ first \in Nat /\ first >= 1
  <2>1. first \in WindowBars(date[p])
    BY <1>1, <1>2, <1>3, MinOfNats
  <2>2. first \in bars /\ first \in TradeDates
    BY <1>3, <2>1
  <2>. HIDE DEF first
  <2>. QED BY <2>2, ActionsAssumption DEF TradeDates
<1>. SUFFICES ASSUME NEW a \in WindowActions(date[p])
              PROVE  a \in Asked(p) /\ ClosesBefore(a) # {}
  OBVIOUS
<1>5. a \in Actions /\ ExDate[a] \in Nat /\ ExDate[a] > first /\ ExDate[a] <= date[p]
  <2>1. a \in Actions /\ ExDate[a] > first /\ ExDate[a] <= date[p]
    BY DEF WindowActions
  <2>2. ExDate[a] \in Nat
    BY <2>1, ActionsAssumption
  <2>. QED BY <2>1, <2>2
<1>6. first \in ClosesBefore(a)
  BY <1>4, <1>5 DEF ClosesBefore
<1>7. ExDate[a] >= Earliest(date[p])
  <2>1. date[p] \in Nat
    BY <1>1
  <2>2. ~ (date[p] - first > Span)
    OBVIOUS
  <2>. HIDE DEF first
  <2>3. ExDate[a] > date[p] - Span
    BY <1>1, <1>4, <1>5, <2>1, <2>2
  <2>. QED BY <1>1, <1>4, <1>5, <2>1, <2>3 DEF Earliest
<1>. QED BY <1>5, <1>6, <1>7 DEF Asked

\* What a load has resolved is verified, but for what nobody can derive.
LEMMA WindowResolved ==
  ASSUME ActionsInv, NEW a \in Actions, Resolved(a), ClosesBefore(a) # {},
         table[a].status \notin {"absent", "IGNORED"}
  PROVE  /\ table[a].factor = Manual \/ a \in Declared => table[a].status = "VERIFIED"
         /\ table[a].factor # Manual /\ a \notin Declared =>
              IF a \notin Derivable \/ Cardinality(Peers(a)) > 1
              THEN table[a].status = "PENDING_FACTOR"
              ELSE table[a].status = "VERIFIED" /\ table[a].factor = Max(ClosesBefore(a))
<1>1. Max(ClosesBefore(a)) # 0
  <2>1. bars \subseteq TradeDates
    BY DEF ActionsInv, ActionsTypeOK
  <2>2. ClosesBefore(a) \subseteq 1 .. LastTradeDate
    BY <2>1 DEF ClosesBefore, TradeDates
  <2>3. LastTradeDate \in Nat
    BY ActionsAssumption
  <2>4. ClosesBefore(a) \subseteq 0 .. LastTradeDate
    BY <2>2, <2>3
  <2>5. Max(ClosesBefore(a)) \in ClosesBefore(a)
    BY <2>3, <2>4, MaxOfNats
  <2>. QED BY <2>2, <2>3, <2>5
<1>2. Cardinality(Peers(a)) \in Nat
  <2>1. Peers(a) \subseteq Actions /\ IsFiniteSet(Actions)
    BY ActionsAssumption DEF Peers
  <2>2. IsFiniteSet(Peers(a))
    BY <2>1, FS_Subset
  <2>. QED BY <2>2, FS_CardinalityType
<1>3. (DerivedFactor(a) = 0 <=> a \notin Derivable \/ Cardinality(Peers(a)) > 1)
      /\ (DerivedFactor(a) # 0 => DerivedFactor(a) = Max(ClosesBefore(a)))
  BY <1>1, <1>2 DEF DerivedFactor
<1>4. table[a].factor = Manual => table[a].status = "VERIFIED"
  BY DEF ActionsInv
<1>. QED BY <1>3, <1>4 DEF Resolved

LEMMA LoadComputes ==
  ASSUME ActionsInv, LoadInv, NEW p \in Loads \cap undisturbed, ComputeStatus(p)
  PROVE  LET inWindow == {a \in WindowActions(date[p]) : table[a].factor # Manual}
             unknown == {a \in inWindow \ Declared : a \notin Derivable \/ Cardinality(Peers(a)) > 1}
         IN rvStatus'[date[p]] \notin {"INSUFFICIENT", "SPARSE"} =>
            /\ rvStatus'[date[p]] = "UNRELIABLE" <=> unknown # {}
            /\ \A a \in inWindow \ (unknown \cup Declared) :
                 table[a].factor = Max({d \in bars : d < ExDate[a]})
<1>. DEFINE inWindow == {a \in WindowActions(date[p]) : table[a].factor # Manual}
            unknown == {a \in inWindow \ Declared : a \notin Derivable \/ Cardinality(Peers(a)) > 1}
<1>0. p \in Processes /\ date[p] \in TradeDates /\ at[p] = "compute"
  BY DEF Processes, ActionsInv, ComputeStatus, Step
<1>. SUFFICES ASSUME rvStatus'[date[p]] \notin {"INSUFFICIENT", "SPARSE"}
              PROVE  /\ rvStatus'[date[p]] = "UNRELIABLE" <=> unknown # {}
                     /\ \A a \in inWindow \ (unknown \cup Declared) :
                          table[a].factor = Max({d \in bars : d < ExDate[a]})
  OBVIOUS
<1>1. /\ ~ (Cardinality(WindowBars(date[p])) < Window)
      /\ ~ (date[p] - Min(WindowBars(date[p])) > Span)
      /\ rvStatus'[date[p]] = "UNRELIABLE" <=>
           \E a \in WindowActions(date[p]) : table[a].status # "VERIFIED"
  BY <1>0 DEF ComputeStatus, ActionsInv
<1>2. \A a \in WindowActions(date[p]) :
        /\ a \in Actions /\ Resolved(a) /\ ClosesBefore(a) # {}
        /\ table[a].status \notin {"absent", "IGNORED"}
  BY <1>0, <1>1, WindowAsked DEF LoadInv, OwnLoad, WindowActions
<1>3. \A a \in WindowActions(date[p]) :
        /\ table[a].factor = Manual \/ a \in Declared => table[a].status = "VERIFIED"
        /\ table[a].factor # Manual /\ a \notin Declared =>
             IF a \notin Derivable \/ Cardinality(Peers(a)) > 1
             THEN table[a].status = "PENDING_FACTOR"
             ELSE table[a].status = "VERIFIED" /\ table[a].factor = Max(ClosesBefore(a))
  BY <1>2, WindowResolved
<1>4. (\E a \in WindowActions(date[p]) : table[a].status # "VERIFIED") <=> unknown # {}
  BY <1>3
<1>5. \A a \in inWindow \ (unknown \cup Declared) :
        table[a].factor = Max({d \in bars : d < ExDate[a]})
  BY <1>3 DEF ClosesBefore
<1>. QED BY <1>1, <1>4, <1>5

\* Whatever holes in the bars, loads of other dates, syncs, edits by hand and deaths came
\* before: a load that NSE answered and nothing disturbed computes its date with each
\* factor taken from the last close before its ex-date, and calls the window unreliable
\* exactly when it holds an action of which nobody can derive one.
THEOREM RightFactors == ActionsSpec => LoadUsesRightFactors
<1>1. ActionsInit => LoadInv
  BY DEF ActionsInit, LoadInv
<1>2. ActionsInv /\ [ActionsNext]_actionVars => ActionsInv'
  BY ActionsStep
<1>3. ActionsInv /\ LoadInv /\ [ActionsNext]_actionVars => LoadInv'
  BY LoadStep
<1>. DEFINE Body(p) == 
       LET inWindow == {a \in WindowActions(date[p]) : table[a].factor # Manual}
           unknown == {a \in inWindow \ Declared : a \notin Derivable \/ Cardinality(Peers(a)) > 1}
       IN rvStatus'[date[p]] \notin {"INSUFFICIENT", "SPARSE"} =>
          /\ rvStatus'[date[p]] = "UNRELIABLE" <=> unknown # {}
          /\ \A a \in inWindow \ (unknown \cup Declared) :
               table[a].factor = Max({d \in bars : d < ExDate[a]})
<1>4. ActionsInv /\ LoadInv /\ [ActionsNext]_actionVars =>
        [\A p \in Loads \cap undisturbed : ComputeStatus(p) => Body(p)]_actionVars
  BY LoadComputes
<1>. QED BY <1>1, <1>2, <1>3, <1>4, ActionsInvInit, PTL DEF ActionsSpec, LoadUsesRightFactors
=============================================================================
