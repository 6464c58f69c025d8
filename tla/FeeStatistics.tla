---------------------------- MODULE FeeStatistics ----------------------------
(***************************************************************************)
(* The arithmetic behind recommendations and wait advisories: analytics/,  *)
(* the estimates of recommendation/engine.rs, and congestion/. A list of   *)
(* fees is a sequence; probabilities are compared as fractions,            *)
(* percentages and averages by cross-multiplication.                       *)
(***************************************************************************)
EXTENDS Integers, SequencesExt, FiniteSetsExt

CONSTANT
    LogScore    \* LogScore[q]: ln(q) / ln(20) in units of 1/10000

ASSUME LogScoreAssumption ==
    \A q, r \in DOMAIN LogScore : LogScore[q] \in Nat /\ (q <= r => LogScore[q] <= LogScore[r])

(* In ascending order; equal fees stay as they are. *)
Precedes(fees, i, j) == fees[i] < fees[j] \/ (fees[i] = fees[j] /\ i < j)
Ranked(fees, n) ==
    CHOOSE j \in DOMAIN fees : Cardinality({i \in DOMAIN fees : Precedes(fees, i, j)}) = n
Sorted(fees) == [k \in DOMAIN fees |-> fees[Ranked(fees, k - 1)]]

Total(fees) ==
    LET upTo[n \in 0..Len(fees)] == IF n = 0 THEN 0 ELSE upTo[n - 1] + fees[n]
    IN  upTo[Len(fees)]

(* percentile_nearest, percentile_value, percentile_nearest_rank. *)
NearestRank(sorted, p) == sorted[Max({1, (p * Len(sorted) + 99) \div 100})]

(* The percentile_value of get_recommend: a rank used as an index from 0. *)
BasisValue(sorted, p) ==
    sorted[1 + Min({(p * Len(sorted) + 99) \div 100, Len(sorted) - 1})]

(* compute_summary. *)
Summary(fees) ==
    IF fees = <<>> THEN [min |-> 0, max |-> 0, total |-> 0, p50 |-> 0, p95 |-> 0]
    ELSE LET sorted == Sorted(fees)
         IN  [min |-> sorted[1], max |-> Last(sorted), total |-> Total(fees),
              p50 |-> NearestRank(sorted, 50), p95 |-> NearestRank(sorted, 95)]

SpreadOf(fees) == Len(fees) * Total([i \in DOMAIN fees |-> fees[i] * fees[i]]) - Total(fees) * Total(fees)

(* analyze_trend over places from 0: slope and r squared as fractions, of      *)
(* equal signs; a slope within a millionth of 0 counts as 0 there.             *)
Trend(fees) ==
    LET n == Len(fees)
        places == [i \in DOMAIN fees |-> i - 1]
        xx == SpreadOf(places)
        xy == n * Total([i \in DOMAIN fees |-> places[i] * fees[i]]) - Total(places) * Total(fees)
    IN  [direction |-> CASE xy > 0 -> "upward" [] xy < 0 -> "downward" [] xy = 0 -> "sideways",
         slope |-> <<xy, xx>>, fit |-> <<xy * xy, xx * SpreadOf(fees)>>]

(* What the explanation adds about the short window: a trend that fits by more than 0.6. *)
TrendTold(fees) ==
    LET trend == Trend(fees)
    IN  IF trend.direction # "sideways" /\ 5 * trend.fit[1] > 3 * trend.fit[2] THEN trend.direction ELSE "none"

(* Faulty: changes up and down cancel. *)
ChangesSigned(fees) == Total([i \in DOMAIN fees |-> IF i = 1 THEN 0 ELSE fees[i] - fees[i - 1]])

(* The sum of absolute changes. *)
Changes(fees) ==
    Total([i \in DOMAIN fees |-> IF i = 1 THEN 0 ELSE Max({fees[i] - fees[i - 1], fees[i - 1] - fees[i]})])

(* compute_volatility: the variance in units of 1 / n^2, the mean change as a fraction. *)
Volatility(fees) ==
    IF fees = <<>> THEN [variance |-> 0, change |-> <<0, 1>>, max |-> 0, min |-> 0, range |-> 0]
    ELSE LET sorted == Sorted(fees)
         IN  [variance |-> SpreadOf(fees), change |-> <<Changes(fees), Max({1, Len(fees) - 1})>>,
              max |-> Last(sorted), min |-> sorted[1], range |-> Last(sorted) - sorted[1]]

AtOrBelow(fees, fee) == Cardinality({i \in DOMAIN fees : fees[i] <= fee})
Below(fees, fee) == Cardinality({i \in DOMAIN fees : fees[i] < fee})

-----------------------------------------------------------------------------
(* Inclusion, tiers and the wait of a recommendation. *)

Power(x, n) == LET p[k \in 0..n] == IF k = 0 THEN 1 ELSE p[k - 1] * x IN p[n]

(* estimate_inclusion_probability reaches percent: 1 - (1 - b/n)^ledgers. *)
Reaches(sorted, fee, percent, ledgers) ==
    LET n == Len(sorted)
        all == Power(n, ledgers)
    IN  100 * (all - Power(n - AtOrBelow(sorted, fee), ledgers)) >= percent * all

(* Faulty: the search leaves out the fee it has just found good enough. *)
FindFeeSkipping(sorted, percent, ledgers) ==
    LET Enough(i) == Reaches(sorted, sorted[i], percent, ledgers)
        Halved(lo, hi) ==
            LET mid == lo + (hi - lo + 1) \div 2
            IN  IF Enough(mid) THEN <<lo, mid - 1>> ELSE <<mid, hi>>
        search[k \in DOMAIN sorted] ==
            IF k = 1 THEN <<1, Len(sorted)>>
            ELSE IF search[k - 1][1] >= search[k - 1][2] THEN search[k - 1]
            ELSE Halved(search[k - 1][1], search[k - 1][2])
    IN  sorted[search[Len(sorted)][1]]

(* The loop of find_fee_for_confidence on lo and hi: halved as often as there  *)
(* are places, after which they have met.                                      *)
Halving(sorted, percent, ledgers) ==
    LET Enough(i) == Reaches(sorted, sorted[i], percent, ledgers)
        Halved(lo, hi) ==
            LET mid == lo + (hi - lo) \div 2
            IN  IF Enough(mid) THEN <<lo, mid>> ELSE <<mid + 1, hi>>
        search[k \in DOMAIN sorted] ==
            IF k = 1 THEN <<1, Len(sorted)>>
            ELSE IF search[k - 1][1] >= search[k - 1][2] THEN search[k - 1]
            ELSE Halved(search[k - 1][1], search[k - 1][2])
    IN  search[Len(sorted)][1]

(* find_fee_for_confidence. *)
FindFee(sorted, percent, ledgers) ==
    LET found == sorted[Halving(sorted, percent, ledgers)]
    IN  IF Reaches(sorted, found, percent, ledgers) THEN found ELSE (NearestRank(sorted, 99) * 11) \div 10

Confidence == [economy |-> 70, standard |-> 90, fast |-> 99]
Within == [economy |-> 5, standard |-> 2, fast |-> 1]

(* generate_alternatives: the fee of each tier. *)
Tiers(sorted) == [t \in DOMAIN Confidence |-> FindFee(sorted, Confidence[t], Within[t])]

(* Faulty: the estimate does not look at the target. *)
EstimateWaitUncapped(fee, sorted, target) ==
    CASE fee >= NearestRank(sorted, 90) -> 1
      [] fee < NearestRank(sorted, 90) /\ fee >= NearestRank(sorted, 50) -> 2
      [] OTHER -> 5

(* estimate_wait_ledgers. *)
EstimateWait(fee, sorted, target) ==
    Min({target, EstimateWaitUncapped(fee, sorted, target)})

-----------------------------------------------------------------------------
(* The multi-window adjustment of a recommendation. *)

(* The multiplier, in percent, for a short-term value s against a long-term l. *)
Multiplier(s, l) ==
    CASE 10 * (s - l) > 3 * l -> 125
      [] 10 * (s - l) <= 3 * l /\ 10 * (s - l) > l -> 110
      [] 100 * (s - l) < -15 * l -> 92
      [] OTHER -> 100

(* compute_explanation and multi_window_adjustment. *)
Adjusted(fee, short, long, p) ==
    IF short = <<>> \/ NearestRank(long, p) = 0 THEN fee
    ELSE (fee * Multiplier(NearestRank(short, p), NearestRank(long, p))) \div 100

-----------------------------------------------------------------------------
(* Congestion score and wait advisory. *)

(* fee_ratio_to_score of fee / median. *)
FeeScore(fee, median) ==
    IF median = 0 \/ fee <= median THEN 0 ELSE LogScore[fee \div median]

(* congestion_score without a capacity usage, in units of 1/1000000. *)
Score(fee, median, spikes, outlook) ==
    LET sum == 45 * FeeScore(fee, median) + 30000 * Min({spikes, 10})
               + [rising |-> 150000, falling |-> -50000, stable |-> 0][outlook]
    IN  Max({0, Min({1000000, sum})})

(* congestion_label. *)
Label(score) ==
    CASE score < 300000 -> "low"
      [] 300000 <= score /\ score < 600000 -> "moderate"
      [] 600000 <= score /\ score <= 850000 -> "high"
      [] OTHER -> "critical"

(* The trend of the recent average against the historical one. *)
Outlook(recentTotal, recentCount, total, count) ==
    CASE 100 * recentTotal * count > 115 * total * recentCount -> "rising"
      [] 100 * recentTotal * count < 85 * total * recentCount -> "falling"
      [] OTHER -> "stable"

CurrentFee(recent, history) == IF recent = <<>> THEN Last(history) ELSE Last(recent)

(* Faulty: fees equal to the current one count as below it. *)
ElevatedOrEqual(history, fee) == 10 * AtOrBelow(history, fee) > 7 * Len(history)

(* The current fee is above the 70th percentile of the history. *)
Elevated(history, fee) == 10 * Below(history, fee) > 7 * Len(history)

(* compute_wait_advisory. *)
Advice(recent, history, spikes) ==
    LET sorted == Sorted(history)
        current == CurrentFee(recent, history)
        outlook == IF recent = <<>> THEN Outlook(current, 1, Total(history), Len(history))
                   ELSE Outlook(Total(recent), Len(recent), Total(history), Len(history))
        label == Label(Score(current, NearestRank(sorted, 50), spikes, outlook))
    IN  IF history = <<>> THEN "submit"
        ELSE [low |-> "submit",
              moderate |-> IF Elevated(history, current) THEN "consider" ELSE "submit",
              high |-> "consider",
              critical |-> "wait"][label]
=============================================================================
