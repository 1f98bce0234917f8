--------------------------- MODULE PriceAdjustment ---------------------------
(***************************************************************************)
(* calculate_price_series_metrics on one symbol: for each window the last  *)
(* bars are adjusted for the corporate actions between them and searched   *)
(* for overnight gaps that no action explains.  Prices are logarithms, so  *)
(* that a multiplier is a summand; a bar opens and closes at one price.    *)
(***************************************************************************)
EXTENDS Integers, Sequences, FiniteSets, FiniteSetsExt, SequencesExt, Sorting

CONSTANTS LastBar,          \* days are numbered
          SplitActions, Multiplier,   \* [SplitActions -> Int \ {0}]
          Moves,            \* how a price may really move overnight
          Threshold,        \* SUSPICIOUS_OVERNIGHT_GAP
          Windows,          \* RV_WINDOWS, a sequence
          Slack             \* 10: part of the days a window may span

ASSUME AdjustmentAssumption ==
  /\ LastBar \in Nat \ {0} /\ IsFiniteSet(SplitActions) /\ Multiplier \in [SplitActions -> Int \ {0}]
  /\ Moves \subseteq Int /\ Threshold \in Nat /\ Windows \in Seq(Nat \ {0}) /\ Slack \in Nat

VARIABLES rowDays,          \* the days with a bar
          moves,            \* [BarDays -> Moves]: overnight, before the day
          exDate, standing, \* [SplitActions -> ...]: ex-date and adjustment_status
          results           \* of the windows done: [status, rows, prices]

adjustVars == <<rowDays, moves, exDate, standing, results>>
BarDays == 1 .. LastBar

AdjustInit ==
  /\ rowDays \in (SUBSET BarDays) \ {{}}
  /\ moves \in [BarDays -> Moves]
  /\ exDate \in [SplitActions -> BarDays]
  /\ standing \in [SplitActions -> {"VERIFIED", "PENDING_FACTOR", "IGNORED"}]
  /\ results = << >>

SumOver(f, S) == FoldSet(LAMBDA x, sum : sum + f[x], 0, S)
\* What happened: an ignored action is one that left the price alone.
Level(d) == SumOver(moves, 1 .. d)
Price(d) == Level(d) + SumOver(Multiplier,
                               {a \in SplitActions : standing[a] # "IGNORED" /\ exDate[a] <= d})
-----------------------------------------------------------------------------
Relevant(rows) == {a \in SplitActions : /\ rows[1] < exDate[a] /\ exDate[a] <= Last(rows)
                                        /\ standing[a] # "IGNORED"}

\* Mutant of Applies: the bar of the ex-date is adjusted too.
AppliesOnExDate(a, d) == d <= exDate[a]
Applies(a, d) == d < exDate[a]

\* adjust_ohlc_for_actions: every bar before an ex-date is multiplied.
Adjusted(rows) ==
  [i \in DOMAIN rows |->
     Price(rows[i]) + SumOver(Multiplier, {a \in Relevant(rows) : Applies(a, rows[i])})]

Gap(prices, i) == prices[i + 1] - prices[i]
SuspiciousGaps(prices) ==
  {i \in 1 .. Len(prices) - 1 : Gap(prices, i) > Threshold \/ -Gap(prices, i) > Threshold}

AdjustForActions(rows) ==
  IF \E a \in Relevant(rows) : standing[a] # "VERIFIED"
  THEN [status |-> "PENDING", rows |-> rows, prices |-> << >>]
  ELSE [status |-> IF SuspiciousGaps(Adjusted(rows)) # {} THEN "SUSPICIOUS"
                   ELSE IF Relevant(rows) # {} THEN "ADJUSTED" ELSE "CLEAN",
        rows |-> rows, prices |-> Adjusted(rows)]

\* int(window * 2.5) + 10
MaxSpan(w) == (5 * w) \div 2 + Slack

\* _rv_window: too few bars, bars too far apart, or the adjusted bars.
RvWindow(w) ==
  LET rows == Ascending(rowDays)
      selected == SubSeq(rows, Len(rows) - w, Len(rows))
  IN IF Len(rows) < w + 1 THEN [status |-> "INSUFFICIENT", rows |-> << >>, prices |-> << >>]
     ELSE IF LastBar - selected[1] > MaxSpan(w)
     THEN [status |-> "SPARSE", rows |-> selected, prices |-> << >>]
     ELSE AdjustForActions(selected)

\* The windows one after the other; at last all bars, for the RSI.
NextWindow ==
  /\ Len(results) < Len(Windows)
  /\ results' = Append(results, RvWindow(Windows[Len(results) + 1]))
  /\ UNCHANGED <<rowDays, moves, exDate, standing>>

RsiWindow ==
  /\ Len(results) = Len(Windows)
  /\ results' = Append(results, AdjustForActions(Ascending(rowDays)))
  /\ UNCHANGED <<rowDays, moves, exDate, standing>>

AdjustNext == NextWindow \/ RsiWindow
AdjustSpec == AdjustInit /\ [][AdjustNext]_adjustVars
-----------------------------------------------------------------------------
\* Type invariant.
AdjustTypeOK ==
  /\ rowDays \subseteq BarDays /\ Len(results) <= Len(Windows) + 1
  /\ \A i \in DOMAIN results :
       /\ results[i].status \in {"INSUFFICIENT", "SPARSE", "PENDING", "SUSPICIOUS", "ADJUSTED", "CLEAN"}
       /\ results[i].prices # << >> => Len(results[i].prices) = Len(results[i].rows)

\* With actions before, inside and after a window, on one day or on a day without a
\* bar, and with holes between the bars: the prices that the volatility is computed
\* from move from bar to bar as the price really did, given multipliers that are right,
\* and a window is suspicious just when one of these moves is beyond the threshold.
ReturnsRestored ==
  \A i \in DOMAIN results : results[i].prices # << >> =>
    LET r == results[i]
        real(k) == Level(r.rows[k + 1]) - Level(r.rows[k])
    IN /\ \A k \in 1 .. Len(r.rows) - 1 : r.prices[k + 1] - r.prices[k] = real(k)
       /\ r.status = "SUSPICIOUS" <=>
            \E k \in 1 .. Len(r.rows) - 1 : real(k) > Threshold \/ -real(k) > Threshold
=============================================================================
