----------------------------- MODULE MCServices -----------------------------
(***************************************************************************)
(* The parts around the stores on small instances, side by side as in      *)
(* MCJobs: the dump to S3, NSE's option chains, the tenors of a live       *)
(* payload, the adjusted prices and the download of a bhavcopy.            *)
(***************************************************************************)
EXTENDS S3Dump, OptionChainFetch, OptionSummaries, PriceAdjustment, Download

VARIABLE service
serviceVars == <<dumpVars, fetchVars, summaryVars, adjustVars, downloadVars, service>>

ServicesInit ==
  /\ service \in {"dump", "chains", "summary", "prices", "download"}
  /\ AdjustInit
  /\ service # "prices" =>
       /\ rowDays = BarDays /\ moves = [d \in BarDays |-> 0]
       /\ exDate = [a \in SplitActions |-> 1] /\ standing = [a \in SplitActions |-> "VERIFIED"]
  /\ DownloadInit /\ (service # "download" => published = {})
  /\ SummariesInit /\ (service # "summary" => provider = "disabled")
  /\ DumpInit /\ FetchInit

ServicesNext ==
  /\ UNCHANGED service
  /\ \/ /\ service = "dump" /\ DumpNext
        /\ UNCHANGED <<fetchVars, summaryVars, adjustVars, downloadVars>>
     \/ /\ service = "chains" /\ FetchNext
        /\ UNCHANGED <<dumpVars, summaryVars, adjustVars, downloadVars>>
     \/ /\ service = "summary" /\ SummariesNext
        /\ UNCHANGED <<dumpVars, fetchVars, adjustVars, downloadVars>>
     \/ /\ service = "prices" /\ AdjustNext
        /\ UNCHANGED <<dumpVars, fetchVars, summaryVars, downloadVars>>
     \/ /\ service = "download" /\ DownloadNext
        /\ UNCHANGED <<dumpVars, fetchVars, summaryVars, adjustVars>>

ServicesSpec == ServicesInit /\ [][ServicesNext]_serviceVars /\ DumpFairness

\* The types of the five.
ServicesTypeOK ==
  DumpTypeOK /\ FetchTypeOK /\ SummariesTypeOK /\ AdjustTypeOK /\ DownloadTypeOK

\* One symbol without stored expiries, two with.
StoredHints == [t \in Tasks |-> IF t = "a" THEN << >> ELSE <<1, 2>>]
NseLists == [t \in Tasks |-> <<1, 2>>]

\* A weekly and the monthly expiry of the first month, then a month each.
MonthOf == [e \in Expiries |-> IF e <= 2 THEN 1 ELSE e]

\* A split and a consolidation; the price may jump by more than the threshold.
Multipliers == [a \in SplitActions |-> IF a = "split" THEN -3 ELSE 1]
PriceMoves == {0, 2}
TwoWindows == <<1, 2>>
=============================================================================
