---------------------------- MODULE SpikeDetection ----------------------------
(***************************************************************************)
(* The arithmetic of insights/detector.rs: how fee spikes are cut out of   *)
(* the points of one update, and what the recent ones say of the network.  *)
(*                                                                         *)
(* A point is [at, fee]; a baseline is the average total / count, never    *)
(* divided out, so comparisons with it are exact. A spike keeps its        *)
(* baseline: [start, len, peak, total, count].                             *)
(***************************************************************************)
EXTENDS Integers, Sequences, SequencesExt, FiniteSetsExt

CONSTANTS
    SpikeMultiplier,    \* threshold_multiplier: fee / baseline of a spike (2)
    MinSpike            \* minimum_spike_duration

ASSUME SpikeAssumption == SpikeMultiplier \in Nat \ {0} /\ MinSpike \in Nat

NoSpikeYet == [start |-> -1, len |-> 0, peak |-> 0, total |-> 0, count |-> 0]

TotalFee(s) ==
    LET upTo[n \in 0..Len(s)] == IF n = 0 THEN 0 ELSE upTo[n - 1] + s[n].fee
    IN  upTo[Len(s)]

(* In the order of time; points of the same time stay as they are. *)
Before(s, i, j) == s[i].at < s[j].at \/ (s[i].at = s[j].at /\ i < j)

(* The position, of those in K, that comes after n others. *)
Ranked(s, K, n) == CHOOSE j \in K : Cardinality({k \in K : Before(s, k, j)}) = n

InOrder(s, K) == [i \in 1..Cardinality(K) |-> s[Ranked(s, K, i - 1)]]
Chronological(s) == InOrder(s, DOMAIN s)

IsSpiking(p, base) == p.fee * base.count >= SpikeMultiplier * base.total

(* The spike `open` ends at p: kept if it lasted. *)
Closed(found, open, p) ==
    LET ended == [open EXCEPT !.len = p.at - open.start]
    IN  IF ended.len >= MinSpike THEN Append(found, ended) ELSE found

(* A spike opens at p, and lasts to p. *)
Opened(p, base) ==
    [start |-> p.at, len |-> 0, peak |-> p.fee, total |-> base.total, count |-> base.count]
Longer(open, p) ==
    [open EXCEPT !.len = p.at - open.start, !.peak = IF p.fee > @ THEN p.fee ELSE @]

(* One point of the scan. *)
Scan(acc, p, base) ==
    CASE IsSpiking(p, base) /\ acc.open = NoSpikeYet -> [acc EXCEPT !.open = Opened(p, base)]
      [] IsSpiking(p, base) /\ acc.open # NoSpikeYet -> [acc EXCEPT !.open = Longer(@, p)]
      [] ~IsSpiking(p, base) /\ acc.open # NoSpikeYet ->
            [open |-> NoSpikeYet, found |-> Closed(acc.found, acc.open, p)]
      [] OTHER -> acc

(* Faulty: a spike that lasts to the end of the data is forgotten. *)
DetectedInside(s, base) ==
    FoldLeft(LAMBDA acc, p : Scan(acc, p, base),
             [open |-> NoSpikeYet, found |-> <<>>], s).found

(* The spikes of s, which is in the order of time. *)
Detected(s, base) ==
    LET scan[n \in 0..Len(s)] ==
            IF n = 0 THEN [open |-> NoSpikeYet, found |-> <<>>] ELSE Scan(scan[n - 1], s[n], base)
        end == scan[Len(s)]
    IN  IF end.open = NoSpikeYet THEN end.found ELSE Closed(end.found, end.open, Last(s))

(* classify_spike_severity, of peak / baseline. *)
AtLeast(x, spike) == spike.peak * spike.count >= x * spike.total
Severity(spike) ==
    CASE AtLeast(10, spike) -> "Critical"
      [] ~AtLeast(10, spike) /\ AtLeast(5, spike) -> "Major"
      [] ~AtLeast(5, spike) /\ AtLeast(3, spike)  -> "Moderate"
      [] OTHER -> "Minor"

Weight(spike) ==
    [Minor |-> 1, Moderate |-> 2, Major |-> 4, Critical |-> 8][Severity(spike)]

(* Twice calculate_trend_strength's score, which counts a spike for 0.5. *)
Score2(spikes) == FoldLeft(LAMBDA sum, s : sum + 2 * Weight(s) + 1, 0, spikes)
TrendStrength(spikes) ==
    CASE Score2(spikes) >= 20 -> "Strong"
      [] Score2(spikes) \in 8..19 -> "Moderate"
      [] OTHER -> "Weak"

(* A sum of ratios peak / baseline, as <<numerator, denominator>>. *)
RatioSum(spikes) ==
    FoldLeft(LAMBDA q, s : <<q[1] * s.total + s.peak * s.count * q[2], q[2] * s.total>>,
             <<0, 1>>, spikes)

(* The average ratio of the last two spikes is more than p/q of that of the
   others. *)
ExceedsOlder(spikes, p, q) ==
    LET n == Len(spikes)
        new == RatioSum(SubSeq(spikes, n - 1, n))
        old == RatioSum(SubSeq(spikes, 1, n - 2))
    IN  q * (n - 2) * new[1] * old[2] > p * 2 * old[1] * new[2]
BelowOlder(spikes, p, q) ==
    LET n == Len(spikes)
        new == RatioSum(SubSeq(spikes, n - 1, n))
        old == RatioSum(SubSeq(spikes, 1, n - 2))
    IN  q * (n - 2) * new[1] * old[2] < p * 2 * old[1] * new[2]

TrendIndicator(spikes) ==
    CASE Len(spikes) = 0 -> "Normal"
      [] Len(spikes) \in {1, 2} ->
            IF Severity(Last(spikes)) \in {"Critical", "Major"} THEN "Congested" ELSE "Rising"
      [] OTHER ->
            IF ExceedsOlder(spikes, 6, 5) THEN "Rising"
            ELSE IF BelowOlder(spikes, 4, 5) THEN "Declining" ELSE "Congested"

CongestionLevel(trend) ==
    [Normal |-> "Low", Rising |-> "Moderate", Congested |-> "High", Declining |-> "Low"][trend]

(* predict_duration, or 0 for None; halves are truncated. *)
PredictedDuration(spikes) ==
    IF spikes = <<>> THEN 0
    ELSE LET mean == FoldLeft(LAMBDA sum, s : sum + s.len, 0, spikes) \div Len(spikes)
             doubled == [Strong |-> 4, Moderate |-> 3, Weak |-> 2][TrendStrength(spikes)]
         IN  (mean * doubled) \div 2

-----------------------------------------------------------------------------
(* What the scan is to find, said without a scan: the longest runs of spiking
   points, each to the next point after it, or to its own last. *)
RunStarts(s, base) ==
    {i \in DOMAIN s : IsSpiking(s[i], base) /\ (i = 1 \/ ~IsSpiking(s[i - 1], base))}

RunOf(i, s, base) ==
    LET after == {j \in DOMAIN s : j > i /\ ~IsSpiking(s[j], base)}
        last == IF after = {} THEN Len(s) ELSE Min(after) - 1
        end == IF after = {} THEN Len(s) ELSE Min(after)
    IN  [start |-> s[i].at, len |-> s[end].at - s[i].at,
         peak |-> Max({s[j].fee : j \in i..last}),
         total |-> base.total, count |-> base.count]

LastingRuns(s, base) ==
    {r \in {RunOf(i, s, base) : i \in RunStarts(s, base)} : r.len >= MinSpike}
=============================================================================
