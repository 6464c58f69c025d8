------------------------------ MODULE DataQuality -----------------------------
(***************************************************************************)
(* The tools that inspect and clean a recorded sequence of fee points: the *)
(* duplicate remover, the gap interpolator, repair, the quality reports,   *)
(* inspect and compare. Each takes a sequence and returns another or a     *)
(* report; here a user applies them one after the other to the sequence at *)
(* hand. Means and deviations are compared without dividing.               *)
(***************************************************************************)
EXTENDS Integers, Sequences, SequencesExt, FiniteSetsExt

CONSTANTS
    Points,         \* the fee points that can be recorded
    Far,            \* a timestamp above this is taken for a negative one
    ZSquared,       \* square of the z score above which a fee is an outlier
    DefaultFee,     \* replaces a zero fee without neighbours
    Bins,           \* bin counts of histograms
    MaxPoints       \* bound: points recorded

ASSUME DataQualityAssumption ==
    /\ Points \subseteq [ledger : Nat, fee : Nat, at : Nat, spike : BOOLEAN]
    /\ Far \in Nat /\ ZSquared \in Nat /\ DefaultFee \in Nat /\ Bins \subseteq Nat \ {0}
    /\ MaxPoints \in Nat

VARIABLES
    points,     \* the sequence at hand
    before,     \* history: what the last tool was given
    tool        \* history: the last tool

qualityVars == <<points, before, tool>>

LedgersOf(ps) == {ps[i].ledger : i \in DOMAIN ps}

Added(numbers) ==
    LET upTo[n \in 0..Len(numbers)] == IF n = 0 THEN 0 ELSE upTo[n - 1] + numbers[n]
    IN  upTo[Len(numbers)]

FeeSeq(ps) == [i \in DOMAIN ps |-> ps[i].fee]
FeeSum(ps) == Added(FeeSeq(ps))

(* What is at some places, in order. *)
Selected(seq, places) ==
    LET upTo[n \in 0..Len(seq)] ==
            IF n = 0 THEN <<>> ELSE IF n \in places THEN Append(upTo[n - 1], seq[n]) ELSE upTo[n - 1]
    IN  upTo[Len(seq)]

(* Sorted by an order of the places: the k-th is what k - 1 others come before. *)
InOrderOf(seq, order) ==
    [k \in DOMAIN seq |->
        seq[CHOOSE j \in DOMAIN seq : Cardinality({i \in DOMAIN seq : <<i, j>> \in order}) = k - 1]]

(* Places by ascending value; those of equal value stay in order. *)
Ascending(numbers) ==
    {o \in (DOMAIN numbers) \X (DOMAIN numbers) :
        numbers[o[1]] < numbers[o[2]] \/ (numbers[o[1]] = numbers[o[2]] /\ o[1] < o[2])}

SortedFees(ps) == InOrderOf(FeeSeq(ps), Ascending(FeeSeq(ps)))

-----------------------------------------------------------------------------
(* Duplicates. *)

RemoveDuplicates(ps) ==
    LET kept[n \in 0..Len(ps)] ==
            IF n = 0 THEN <<>>
            ELSE IF ps[n].ledger \in LedgersOf(kept[n - 1]) THEN kept[n - 1] ELSE Append(kept[n - 1], ps[n])
    IN  kept[Len(ps)]

RemoveDuplicatesKeepLast(ps) == Reverse(RemoveDuplicates(Reverse(ps)))

RemovedPoints(ps) == Selected(ps, {i \in DOMAIN ps : \E j \in 1..(i - 1) : ps[j].ledger = ps[i].ledger})

MergeOf(a, b) == RemoveDuplicates(a \o b)

DuplicateCount(ps) == Len(ps) - Cardinality(LedgersOf(ps))

-----------------------------------------------------------------------------
(* Gaps. *)

(* a + (b - a) * i / gap, rounded. *)
Between(a, b, i, gap) == (2 * (a * gap + (b - a) * i) + gap) \div (2 * gap)

(* Faulty: up to the next ledger. *)
InterpolatedThrough(p, q) ==
    LET gap == q.ledger - p.ledger IN
    [i \in 1..(IF gap > 1 THEN gap ELSE 0) |->
        [ledger |-> p.ledger + i, fee |-> Between(p.fee, q.fee, i, gap),
         at |-> Between(p.at, q.at, i, gap), spike |-> FALSE]]

Interpolated(p, q) ==
    LET gap == q.ledger - p.ledger IN
    [i \in 1..(gap - 1) |->
        [ledger |-> p.ledger + i, fee |-> Between(p.fee, q.fee, i, gap),
         at |-> Between(p.at, q.at, i, gap), spike |-> FALSE]]

FillGaps(ps) ==
    LET filled[n \in 0..Len(ps)] ==
            IF n = 0 THEN <<>>
            ELSE IF n = 1 THEN <<ps[1]>>
            ELSE Append(filled[n - 1] \o Interpolated(ps[n - 1], ps[n]), ps[n])
    IN  filled[Len(ps)]

InterpolatedOnly(ps) ==
    LET filled == FillGaps(ps)
    IN  Selected(filled, {i \in DOMAIN filled : filled[i].ledger \notin LedgersOf(ps)})

(* What the unsigned subtractions need: no time or last ledger that falls.   *)
CanFill(ps) ==
    /\ \A i \in 2..Len(ps) : ps[i].ledger > ps[i - 1].ledger + 1 => ps[i].at >= ps[i - 1].at
    /\ ps # <<>> => ps[1].ledger <= ps[Len(ps)].ledger

GapCount(ps) ==
    IF Len(ps) < 2 THEN 0 ELSE Max({0, ps[Len(ps)].ledger - ps[1].ledger + 1 - Len(ps)})

-----------------------------------------------------------------------------
(* Issues and their repair. *)

(* z.abs() > 3, with a deviation above 0; both sides times the square of n. *)
IsOutlier(ps, i) ==
    LET n == Len(ps)  sum == FeeSum(ps)
        squares == Added([k \in DOMAIN ps |-> ps[k].fee * ps[k].fee])
        spread == n * squares - sum * sum
    IN  spread > 0 /\ (n * ps[i].fee - sum) * (n * ps[i].fee - sum) > ZSquared * spread

Issue(kind, p) == <<[kind |-> kind, ledger |-> p.ledger]>>

(* The issues of the i-th point, in the order they are pushed. *)
IssuesAt(ps, i) ==
    LET p == ps[i]  If(holds, kind) == IF holds THEN Issue(kind, p) ELSE <<>> IN
    If(p.fee = 0, "zero fee")
    \o If(\E j \in 1..(i - 1) : ps[j].ledger = p.ledger, "duplicate")
    \o If(i > 1 /\ p.at < ps[i - 1].at, "out of order")
    \o If(i > 1 /\ p.ledger > ps[i - 1].ledger + 1, "gap")
    \o If(IsOutlier(ps, i), "outlier")
    \o If(p.at > Far, "negative time")

Detect(ps) ==
    LET found[n \in 0..Len(ps)] == IF n = 0 THEN <<>> ELSE found[n - 1] \o IssuesAt(ps, n)
    IN  found[Len(ps)]

Replacement(ps, ledger) ==
    LET neighbors == Selected(ps, {i \in DOMAIN ps : ps[i].ledger # ledger /\ ps[i].fee > 0})
    IN  IF neighbors = <<>> THEN DefaultFee ELSE FeeSum(neighbors) \div Len(neighbors)

(* The action planned for an issue, applied to a point; the other actions change nothing. *)
RepairPoint(ps, issue, p) ==
    IF p.ledger # issue.ledger THEN p
    ELSE CASE issue.kind = "zero fee"      -> [p EXCEPT !.fee = Replacement(ps, issue.ledger)]
           [] issue.kind = "negative time" -> [p EXCEPT !.fee = 0]
           [] issue.kind = "outlier"       -> [p EXCEPT !.fee = Min({p.fee, (2 * FeeSum(ps)) \div Len(ps)})]
           [] OTHER                        -> p

Earlier(p, q) == p.at < q.at \/ (p.at = q.at /\ p.ledger < q.ledger)
ByTime(ps) == {o \in (DOMAIN ps) \X (DOMAIN ps) : Earlier(ps[o[1]], ps[o[2]])}

(* Repair::apply, not a dry run. *)
Repaired(ps) ==
    LET kept == RemoveDuplicates(ps)
        issues == Detect(ps)
        cleaned[n \in 0..Len(issues)] ==
            IF n = 0 THEN InOrderOf(kept, ByTime(kept))
            ELSE [i \in DOMAIN kept |-> RepairPoint(ps, issues[n], cleaned[n - 1][i])]
    IN  cleaned[Len(issues)]

(* quality_score, in tenths. *)
RepairScore(ps) == IF ps = <<>> THEN 0 ELSE Max({0, 10 - Len(Detect(ps))})

-----------------------------------------------------------------------------
(* Reports. *)

(* The missing ledgers are counted, not the gaps. *)
Counts(ps) ==
    LET places == DOMAIN ps
        gap(i) == IF i = 1 THEN 0 ELSE Max({0, ps[i].ledger - ps[i - 1].ledger - 1})
    IN  [duplicates |-> DuplicateCount(ps),
         gaps |-> Added([i \in places |-> gap(i)]),
         outliers |-> Cardinality({i \in places : IsOutlier(ps, i)}),
         zeroFees |-> Cardinality({i \in places : ps[i].fee = 0}),
         outOfOrder |-> Cardinality({i \in places \ {1} : ps[i].at < ps[i - 1].at})]

Report(ps) ==
    LET counts == Counts(ps)
        total == counts.duplicates + counts.gaps + counts.outliers + counts.zeroFees + counts.outOfOrder
        fees == SortedFees(ps)
    IN  [counts |-> counts, total |-> total,
         score |-> Max({0, Len(ps) - total}),       \* out of Len(ps)
         min |-> IF ps = <<>> THEN 0 ELSE fees[1],
         max |-> IF ps = <<>> THEN 0 ELSE fees[Len(ps)]]

(* FeeSummary of a sequence that is not empty. *)
Summary(ps) ==
    LET fees == SortedFees(ps)  at(hundredths) == fees[(Len(ps) * hundredths) \div 100 + 1]
    IN  [min |-> fees[1], max |-> fees[Len(ps)], median |-> fees[Len(ps) \div 2 + 1],
         p25 |-> at(25), p75 |-> at(75), p95 |-> at(95), p99 |-> at(99),
         spikes |-> Cardinality({i \in DOMAIN ps : ps[i].spike})]

AboveThreshold(ps, threshold) == Selected(ps, {i \in DOMAIN ps : ps[i].fee > threshold})

TopN(ps, n) ==
    LET ranked == InOrderOf(ps, Ascending([i \in DOMAIN ps |-> -ps[i].fee]))
    IN  [k \in 1..Min({n, Len(ps)}) |-> ranked[k]]

SpikeRuns(ps) ==
    LET scan[n \in 0..Len(ps)] ==
            IF n = 0 THEN [runs |-> <<>>, current |-> <<>>]
            ELSE LET s == scan[n - 1] IN
                 CASE ps[n].spike                      -> [s EXCEPT !.current = Append(@, ps[n])]
                   [] ~ps[n].spike /\ s.current # <<>> -> [runs |-> Append(s.runs, s.current), current |-> <<>>]
                   [] OTHER                            -> s
        end == scan[Len(ps)]
    IN  IF end.current = <<>> THEN end.runs ELSE Append(end.runs, end.current)

(* 1 - |mean a - mean b| / larger mean, as a fraction; of sequences that are not empty. *)
Similarity(a, b) ==
    LET sumA == FeeSum(a) * Len(b)  sumB == FeeSum(b) * Len(a)  larger == Max({sumA, sumB})
    IN  IF larger = 0 THEN [part |-> 1, of |-> 1] ELSE [part |-> Min({sumA, sumB}), of |-> larger]

(* The mean of a against that of b, and where their times overlap, both not empty. *)
Comparison(a, b) ==
    LET sumA == FeeSum(a) * Len(b)  sumB == FeeSum(b) * Len(a)
        apart == IF sumA > sumB THEN sumA - sumB ELSE sumB - sumA
        times(ps) == {ps[i].at : i \in DOMAIN ps}
    IN  [verdict |-> CASE sumB = 0 \/ 20 * apart < sumB -> "similar"
                       [] sumA > sumB                   -> "higher"
                       [] OTHER                         -> "lower",
         start |-> Max({Min(times(a)), Min(times(b))}),
         end |-> Min({Max(times(a)), Max(times(b))})]

(* How many fees fall into each bin that has any. *)
Histogram(ps, bins) ==
    LET width == Max({1, Max({ps[i].fee : i \in DOMAIN ps}) \div bins})
        bin(i) == (ps[i].fee \div width) * width
    IN  [b \in {bin(i) : i \in DOMAIN ps} |-> Cardinality({i \in DOMAIN ps : bin(i) = b})]

-----------------------------------------------------------------------------
(* A user at work. *)

RecordPoint ==
    /\ tool = "record" /\ Len(points) < MaxPoints
    /\ \E p \in Points : points' = Append(points, p)
    /\ UNCHANGED <<before, tool>>

Use(name, given, result) == tool' = name /\ before' = given /\ points' = result

Dedup ==
    \/ Use("keep first", points, RemoveDuplicates(points))
    \/ Use("keep last", points, RemoveDuplicatesKeepLast(points))

MergeBack == tool # "record" /\ Use("merge", points \o before, MergeOf(points, before))

RunRepair == Use("repair", points, Repaired(points))

RunFill == CanFill(points) /\ Use("fill", points, FillGaps(points))

QualityInit == points = <<>> /\ before = <<>> /\ tool = "record"

QualityNext == RecordPoint \/ Dedup \/ MergeBack \/ RunRepair \/ RunFill

QualityTypeOK ==
    /\ tool \in {"record", "keep first", "keep last", "merge", "repair", "fill"}
    /\ \A i \in DOMAIN points :
          points[i].ledger \in Nat /\ points[i].fee \in Nat /\ points[i].at \in Nat /\ points[i].spike \in BOOLEAN

-----------------------------------------------------------------------------
(* Properties. *)

Firsts(ps) == Selected(ps, {i \in DOMAIN ps : \A j \in 1..(i - 1) : ps[j].ledger # ps[i].ledger})
Lasts(ps) == Selected(ps, {i \in DOMAIN ps : \A j \in (i + 1)..Len(ps) : ps[j].ledger # ps[i].ledger})

(* Ledgers and times of the sequence go up, as the interpolator expects. *)
InOrder(ps) == \A i \in 2..Len(ps) : ps[i].ledger > ps[i - 1].ledger /\ ps[i].at >= ps[i - 1].at

(* Each tool does what its comment says, against a definition that does not   *)
(* scan. Removing duplicates keeps of every ledger the first point, or the    *)
(* last, in their order. Repair keeps of every ledger the first point, in the *)
(* order of time, and changes no fee without an issue at its ledger. Filling  *)
(* a sequence in order leaves no gap, no duplicate and no time that falls,    *)
(* keeps the points that were there and puts the new fees between theirs.     *)
Cleans ==
    /\ tool \in {"keep first", "merge"} => points = Firsts(before)
    /\ tool = "keep last" => points = Lasts(before)
    /\ tool = "repair" =>
          /\ Len(points) = Len(Firsts(before))
          /\ \A i \in 2..Len(points) : Earlier(points[i - 1], points[i])
          /\ \A i \in DOMAIN points : \E p \in ToSet(Firsts(before)) :
                /\ points[i] = [p EXCEPT !.fee = points[i].fee]
                /\ points[i].fee = p.fee \/ \E issue \in ToSet(Detect(before)) : issue.ledger = p.ledger
    /\ tool = "fill" /\ InOrder(before) =>
          LET counts == Counts(points) IN
          /\ counts.gaps = 0 /\ counts.duplicates = 0 /\ counts.outOfOrder = 0
          /\ Selected(points, {i \in DOMAIN points : points[i].ledger \in LedgersOf(before)}) = before
          /\ Len(points) = Len(before) + GapCount(before)
          /\ Len(InterpolatedOnly(before)) = GapCount(before)
          /\ \A i \in 2..Len(before) : \A p \in ToSet(points) :
                p.ledger \in before[i - 1].ledger..before[i].ledger =>
                   /\ Min({before[i - 1].fee, before[i].fee}) <= p.fee
                   /\ p.fee <= Max({before[i - 1].fee, before[i].fee})

(* Repair lists an issue for each thing the quality report counts, but one    *)
(* for a whole gap, and the score is full only without any.                   *)
IssuesOf(ps, kind) == {i \in DOMAIN Detect(ps) : Detect(ps)[i].kind = kind}

IssuesAgree(ps) ==
    LET report == Report(ps)
        issues(kind) == Cardinality(IssuesOf(ps, kind))
    IN  /\ Len(RemovedPoints(ps)) = report.counts.duplicates
        /\ report.total = Len(Detect(ps)) - issues("negative time") - issues("gap") + report.counts.gaps
        /\ report.counts.gaps >= issues("gap")
        /\ RepairScore(ps) = 10 => report.score = Len(ps)

(* Runs are the spikes, cut where a point is none. *)
RunsAgree(ps) ==
    LET runs == SpikeRuns(ps)
    IN  /\ FlattenSeq(runs) = Selected(ps, {i \in DOMAIN ps : ps[i].spike})
        /\ \A r \in DOMAIN runs : runs[r] # <<>>
        /\ Len(runs) = Cardinality({i \in DOMAIN ps : ps[i].spike /\ (i = 1 \/ ~ps[i - 1].spike)})

(* The summary's percentiles do not fall, from its least fee to its greatest, *)
(* which are the report's.                                                    *)
SummaryAgrees(ps) ==
    LET s == Summary(ps)
    IN  /\ s.min <= s.p25 /\ s.p25 <= s.median /\ s.median <= s.p75 /\ s.p75 <= s.p95
        /\ s.p95 <= s.p99 /\ s.p99 <= s.max
        /\ s.min = Report(ps).min /\ s.max = Report(ps).max

(* The top fees are the highest ones. *)
TopAgrees(ps) ==
    LET top == TopN(ps, 2)
    IN  /\ top[1].fee = Summary(ps).max
        /\ Len(ps) > 1 => Len(AboveThreshold(ps, top[2].fee)) <= 1

(* Bins hold every point. *)
BinsHoldAll(ps, bins) == SumFunctionOnSet(Histogram(ps, bins), DOMAIN Histogram(ps, bins)) = Len(ps)

(* Two sequences called similar are, but for one of zero fees, within 5%, and *)
(* overlap if the spans of their times do.                                    *)
ComparisonAgrees(a, b) ==
    LET same == Similarity(a, b)  compared == Comparison(a, b)
    IN  /\ 0 <= same.part /\ same.part <= same.of
        /\ FeeSum(b) > 0 /\ compared.verdict = "similar" => 100 * same.part > 95 * same.of
        /\ compared.start <= compared.end <=>
              \E i, j \in DOMAIN a, k, l \in DOMAIN b : a[i].at <= b[k].at /\ b[l].at <= a[j].at

(* The reports on the sequence at hand agree with each other and with it, and *)
(* so does its comparison with what the last tool was given.                  *)
Reports ==
    /\ IssuesAgree(points) /\ RunsAgree(points)
    /\ points # <<>> =>
          /\ SummaryAgrees(points) /\ TopAgrees(points)
          /\ \A bins \in Bins : BinsHoldAll(points, bins)
          /\ before # <<>> => ComparisonAgrees(points, before)

QualitySound == Cleans /\ Reports
=============================================================================
