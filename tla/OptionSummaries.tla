--------------------------- MODULE OptionSummaries ---------------------------
(***************************************************************************)
(* The option summary of one symbol in a live refresh: which expiries are  *)
(* asked for, of Kite or Dhan and then of NSE, and which of them become    *)
(* iv_30, iv_60 and iv_90.  Meanwhile days pass, expiries end, and the     *)
(* end-of-day load may or may not store new ones.  Symbols only meet when  *)
(* a provider raises, which sends all of them to NSE.                      *)
(***************************************************************************)
EXTENDS Naturals, Sequences, FiniteSets, SequencesExt, Sorting

CONSTANTS OptionProviders,  \* subset of {"kite", "dhan", "nse", "disabled"}
          Expiries, Month,  \* the days contracts end on, [Expiries -> Nat]
          LastSummaryDay    \* bound: days that pass

ASSUME SummariesAssumption ==
  /\ Expiries \subseteq Nat /\ IsFiniteSet(Expiries) /\ LastSummaryDay \in Nat
  /\ Month \in [Expiries -> Nat]
  /\ \A e, f \in Expiries : e < f => Month[e] <= Month[f]

VARIABLES
  day, provider,       \* the calendar, LIVE_OPTION_SUMMARY_PROVIDER
  baseline,            \* expiry_30d, _60d and _90d of the latest metrics of the symbol
  instruments,         \* _KITE_INSTRUMENT_CACHE, {} before the first use
  phase,               \* {"idle", "provider", "answers", "nse", "nseAnswers", "payload"}
  base,                \* the baseline the refresh has read
  asOf, targets,       \* the day it asked on, and the expiries it asked for
  summary,             \* the answers: sequence of [expiry, iv], iv FALSE for volume only
  tenors               \* what the payload says: [on, asked, expiries]

summaryVars == <<day, provider, baseline, instruments, phase, base, asOf, targets, summary, tenors>>

NoTenors == [on |-> 0, asked |-> << >>, expiries |-> << >>]
FirstThree(s) == SubSeq(s, 1, IF Len(s) < 3 THEN Len(s) ELSE 3)

SummariesInit ==
  /\ day = 0 /\ provider \in OptionProviders
  /\ baseline = << >> /\ instruments = {} /\ phase = "idle"
  /\ base = << >> /\ asOf = 0 /\ targets = << >> /\ summary = << >> /\ tenors = NoTenors

\* The exchange lists the expiries to come of three months.
Listed(d) == LET coming == {e \in Expiries : e >= d}
             IN {e \in coming : Cardinality({Month[f] : f \in {g \in coming : g <= e}}) <= 3}

\* Mutant of MonthlyBuckets: the first expiry of a month stands for it.
MonthlyBucketsFirst(S) == FirstThree(Ascending({e \in S : \A f \in S : Month[f] = Month[e] => f >= e}))

\* monthly_expiry_buckets: the last expiry of each month, three months.
MonthlyBuckets(S) == FirstThree(Ascending({e \in S : \A f \in S : Month[f] = Month[e] => f <= e}))
-----------------------------------------------------------------------------
NextDay ==
  /\ day < LastSummaryDay /\ day' = day + 1
  /\ UNCHANGED <<provider, baseline, instruments, phase, base, asOf, targets, summary, tenors>>

\* compute_forward_factor_metrics stores the buckets of the day's chain.
StoreExpiries ==
  /\ baseline' = MonthlyBuckets({e \in Listed(day) : e > day})
  /\ UNCHANGED <<day, provider, instruments, phase, base, asOf, targets, summary, tenors>>

\* live_baseline, and the provider of the settings; a disabled one gives no summary.
StartSummary ==
  /\ phase = "idle"
  /\ base' = baseline /\ summary' = << >>
  /\ phase' = CASE provider = "disabled" -> "payload"
                [] provider = "nse" -> "nse"
                [] OTHER -> "provider"
  /\ UNCHANGED <<day, provider, baseline, instruments, asOf, targets, tenors>>

\* The expiries of the baseline that are still to come.
FutureTargets(d) == Keep(base, {e \in Expiries : e > d})

\* _merge_expiry_targets: the baseline's first, then those of the list, three at most.
Merged(primary, secondary) ==
  FirstThree(primary \o Keep(secondary, Expiries \ ToSet(primary)))

Targeted(available) ==
  IF Len(FutureTargets(day)) >= 3 THEN FutureTargets(day)
  ELSE Merged(FutureTargets(day), MonthlyBuckets({e \in available : e > day}))

\* Kite looks the expiries up in the instruments it downloaded once in the life of
\* the process, and makes no request for one that is not there.
KiteTargets ==
  /\ phase = "provider" /\ provider = "kite"
  /\ instruments' = IF instruments = {} THEN Listed(day) ELSE instruments
  /\ targets' = Keep(Targeted(instruments'), instruments')
  /\ asOf' = day /\ phase' = "answers"
  /\ UNCHANGED <<day, provider, baseline, base, summary, tenors>>

\* Dhan is asked for its expiry list when the baseline has not three.
DhanTargets ==
  /\ phase = "provider" /\ provider = "dhan"
  /\ targets' = Targeted(Listed(day))
  /\ asOf' = day /\ phase' = "answers"
  /\ UNCHANGED <<day, provider, baseline, instruments, base, summary, tenors>>

\* Each request is answered with IVs, with volume only, or not at all.
Answers(asked) ==
  \E known \in SUBSET ToSet(asked), quoted \in SUBSET ToSet(asked) :
    LET answered == Keep(asked, known) IN
    /\ quoted \subseteq known
    /\ summary' = [i \in DOMAIN answered |->
                     [expiry |-> answered[i], iv |-> answered[i] \in quoted]]

\* Kite and Dhan: the requests that failed are left out and the rest sorted; NSE is
\* asked when nothing is left.
ProviderAnswers ==
  /\ phase = "answers"
  /\ Answers(Ascending(ToSet(targets)))
  /\ phase' = IF summary' = << >> THEN "nse" ELSE "payload"
  /\ UNCHANGED <<day, provider, baseline, instruments, base, asOf, targets, tenors>>

\* The token, the instruments or the quotes raise: NSE is asked instead.
ProviderRaises ==
  /\ phase \in {"provider", "answers"} /\ phase' = "nse"
  /\ UNCHANGED <<day, provider, baseline, instruments, base, asOf, targets, summary, tenors>>

\* NSE's targets are the baseline's alone; without any it is asked for its list,
\* in which an expiry of today still is.
NseTargets ==
  /\ phase = "nse" /\ phase' = "nseAnswers"
  /\ targets' = IF FutureTargets(day) # << >> THEN FutureTargets(day) ELSE MonthlyBuckets(Listed(day))
  /\ asOf' = day
  /\ UNCHANGED <<day, provider, baseline, instruments, base, summary, tenors>>

NseAnswers ==
  /\ phase = "nseAnswers" /\ phase' = "payload"
  /\ Answers(targets)
  /\ UNCHANGED <<day, provider, baseline, instruments, base, asOf, targets, tenors>>

\* Mutant of LiveTerms: the contracts that end today still count.
LiveTermsToday(d) ==
  Ascending({summary[i].expiry : i \in {j \in DOMAIN summary : summary[j].iv /\ summary[j].expiry >= d}})

\* _live_iv_terms: what has an IV and ends after today, by days to expiry.
LiveTerms(d) ==
  Ascending({summary[i].expiry : i \in {j \in DOMAIN summary : summary[j].iv /\ summary[j].expiry > d}})

\* _live_forward_metrics gives iv_30, iv_60 and iv_90 to the terms in their order;
\* without terms the payload keeps the values of the end of day.
BuildPayload ==
  /\ phase = "payload" /\ phase' = "idle"
  /\ tenors' = IF LiveTerms(day) = << >> THEN NoTenors
               ELSE [on |-> day, asked |-> targets, expiries |-> LiveTerms(day)]
  /\ summary' = << >> /\ targets' = << >> /\ base' = << >> /\ asOf' = 0
  /\ UNCHANGED <<day, provider, baseline, instruments>>

\* The refresh is given up: an exception nobody handles, or a restart, which also
\* empties the cache of instruments.
AbortSummary ==
  /\ phase # "idle" /\ phase' = "idle"
  /\ instruments' \in {instruments, {}}
  /\ summary' = << >> /\ targets' = << >> /\ base' = << >> /\ asOf' = 0
  /\ UNCHANGED <<day, provider, baseline, tenors>>

SummariesNext ==
  \/ NextDay \/ StoreExpiries \/ StartSummary \/ KiteTargets \/ DhanTargets \/ ProviderAnswers
  \/ ProviderRaises \/ NseTargets \/ NseAnswers \/ BuildPayload \/ AbortSummary

SummariesSpec == SummariesInit /\ [][SummariesNext]_summaryVars
-----------------------------------------------------------------------------
\* Type invariant.
SummariesTypeOK ==
  /\ day \in 0 .. LastSummaryDay /\ provider \in OptionProviders /\ instruments \subseteq Expiries
  /\ phase \in {"idle", "provider", "answers", "nse", "nseAnswers", "payload"}
  /\ \A s \in {baseline, base, targets, tenors.asked, tenors.expiries} :
       s \in Seq(Expiries) /\ Len(s) <= 3

\* The monthly expiries after a day, told apart from the code's own buckets.
Monthlies(d) == {e \in Expiries : e > d /\ \A f \in Expiries : Month[f] = Month[e] => f <= e}

\* However old the stored expiries or Kite's instruments are, whoever answers in the
\* end and whatever ends at midnight in between: the tenors of a payload are monthly
\* expiries still to come, nearest first, and when every request was answered with
\* an IV none is passed over.
TenorsNearest ==
  LET shown == tenors.expiries IN
  /\ \A i \in DOMAIN shown : shown[i] \in Monthlies(tenors.on)
  /\ \A i, j \in DOMAIN shown : i < j => shown[i] < shown[j]
  /\ (shown # << >> /\ \A e \in ToSet(tenors.asked) : e > tenors.on => Contains(shown, e)) =>
       \A e \in Monthlies(tenors.on) : e < Last(shown) => Contains(shown, e)

\* docs/architecture/live-option-chain.md:132: "`iv_30/60/90`, `call_iv_30/60/90`, and
\* `put_iv_30/60/90` are recomputed from live ATM IV across the 30/60/90 expiry hints":
\* a tenor shows the expiry that was asked for in its place, also when the request
\* for an earlier one failed.
TenorsFollowHints ==
  LET asked == Keep(tenors.asked, {e \in Expiries : e > tenors.on})
  IN \A i \in DOMAIN tenors.expiries : tenors.expiries[i] = asked[i]
=============================================================================
