----------------------------- MODULE FeeInsights -----------------------------
(***************************************************************************)
(* The insights engine of insights/: rolling windows (calculator.rs), the  *)
(* extremes of the current period (tracker.rs), the recent spikes          *)
(* (detector.rs), and the insights that engine.rs publishes, over polls    *)
(* that bring new points, a clock and restarts that rehydrate from rows.   *)
(*                                                                         *)
(* A poll brings what Horizon has closed since the newest point taken,     *)
(* newest first; a restart feeds all rows of the last day, oldest first,   *)
(* as one update. A point has its fee, the time its ledger closed, an id   *)
(* (its transaction hash), and the poll that brought it to this process; a *)
(* fee of 0 stands for any malformed point.                                *)
(***************************************************************************)
EXTENDS SpikeDetection

CONSTANTS
    Fees,           \* fee amounts
    Short, Medium, Long,    \* durations of the three windows
    MinSamples,     \* min_samples of each window
    StaleAfter,     \* INSIGHTS_STALE_AFTER_SECS (5 minutes)
    BufferSize,     \* max_buffer_size (10000)
    CongestionWindow,   \* how long a spike counts as recent
    TrackingPeriod, \* length of a period of extremes
    MaxBatch,       \* bound: points a poll brings
    MaxPoints,      \* bound: points over all polls
    MaxTime         \* bound: the clock stops here

ASSUME InsightsAssumption ==
    /\ Fees \subseteq Nat
    /\ Short \in Nat /\ Medium \in Nat /\ Long \in Nat
    /\ BufferSize \in Nat \ {0} /\ StaleAfter \in Nat
    /\ CongestionWindow \in Nat /\ TrackingPeriod \in Nat \ {0}
    /\ MaxBatch \in Nat /\ MaxPoints \in Nat /\ MaxTime \in Nat

VARIABLES
    now,        \* the clock
    up,         \* main has rehydrated and polls
    rows,       \* points taken so far, as they were stored
    buffer,     \* buffer[w]: the points of window w, front first
    period,     \* current_period: its start and end, its lowest and highest point
    spikes,     \* recent_spikes
    lastUpdate, \* last_update, or None
    insights,   \* last_insights, or NoInsights
    accepted    \* history: the points this process's engine accepted

engine == <<buffer, period, spikes, lastUpdate, insights, accepted>>
vars == <<now, up, rows, engine>>

Windows == {"short", "medium", "long"}
Duration == [short |-> Short, medium |-> Medium, long |-> Long]
None == -1
NoPoint == [at |-> None, fee |-> 0, id |-> 0, polled |-> None]
NoInsights == [at |-> None]

-----------------------------------------------------------------------------
(* Rolling windows. *)

IsIn(p, w, t) == p.at >= t - Duration[w]

(* Faulty: anything old is taken for the end of what is old. *)
CleanFromTheBack(b, w, t) ==
    LET back == SelectLastInSeq(b, LAMBDA p : ~IsIn(p, w, t))
    IN  SubSeq(b, back + 1, Len(b))

(* clean_old_data: old points go while the front is old. *)
Clean(b, w, t) ==
    LET front == SelectInSeq(b, LAMBDA p : IsIn(p, w, t))
    IN  IF front = 0 THEN <<>> ELSE SubSeq(b, front, Len(b))

(* Faulty: evicts one point too late. *)
PushLate(b, p) == Append(IF Len(b) > BufferSize THEN Tail(b) ELSE b, p)

(* CircularBuffer::push. *)
Push(b, p) == Append(IF Len(b) >= BufferSize THEN Tail(b) ELSE b, p)

(* add_data_point, for one window. *)
AddPoint(b, p, w, t) == Clean(IF IsIn(p, w, t) THEN Push(b, p) ELSE b, w, t)

AddAll(b, batch, w, t) ==
    LET after[n \in 0..Len(batch)] ==
            IF n = 0 THEN b ELSE AddPoint(after[n - 1], batch[n], w, t)
    IN  after[Len(batch)]

(* calculate_average_for_window: 0 of nothing, else total / count. *)
Average(b, w) ==
    [total |-> TotalFee(b), count |-> Len(b), partial |-> Len(b) < MinSamples[w] \/ b = <<>>]

-----------------------------------------------------------------------------
(* Extremes. *)

NewPeriod(t) == [start |-> t, end |-> t + TrackingPeriod, min |-> NoPoint, max |-> NoPoint]

(* Faulty: a new highest point is not looked at as the lowest. *)
TrackedElse(p, fee) ==
    IF p.max = NoPoint \/ fee.fee > p.max.fee THEN [p EXCEPT !.max = fee]
    ELSE [p EXCEPT !.min = IF @ = NoPoint \/ fee.fee < @.fee THEN fee ELSE @]

Tracked(p, fee) ==
    [p EXCEPT !.min = IF @ = NoPoint \/ fee.fee < @.fee THEN fee ELSE @,
              !.max = IF @ = NoPoint \/ fee.fee > @.fee THEN fee ELSE @]

Rotated(t) == IF t >= period.end THEN NewPeriod(t) ELSE period

TrackedIn(p, fee) == IF fee.at \in p.start..p.end THEN Tracked(p, fee) ELSE p

(* update_with_fees. *)
Track(batch) ==
    LET after[n \in 0..Len(batch)] ==
            IF n = 0 THEN Rotated(now) ELSE TrackedIn(after[n - 1], batch[n])
    IN  after[Len(batch)]

-----------------------------------------------------------------------------
(* Spikes. *)

(* clean_old_spikes. *)
CleanSpikes(ss, t) ==
    LET front == SelectInSeq(ss, LAMBDA s : s.start >= t - CongestionWindow)
    IN  IF front = 0 THEN <<>> ELSE SubSeq(ss, front, Len(ss))

(* add_spike for each new spike, then clean_old_spikes. *)
WithSpikes(ss, new, t) ==
    LET after[n \in 0..Len(new)] ==
            IF n = 0 THEN ss ELSE CleanSpikes(Append(after[n - 1], new[n]), t)
    IN  CleanSpikes(after[Len(new)], t)

-----------------------------------------------------------------------------
(* An update. *)

Valid(batch) == \A i \in DOMAIN batch : batch[i].fee # 0

(* calculate_data_quality and estimate_expected_data_points. *)
Quality(batch) ==
    [freshness |-> IF lastUpdate = None THEN 0 ELSE now - lastUpdate,
     points |-> Len(batch),
     expected |-> IF lastUpdate = None THEN 1 ELSE Max({1, now - lastUpdate}),
     gaps |-> \E i \in DOMAIN batch : now - batch[i].at > Medium]

(* Faulty: the extremes are taken before the batch is tracked. *)
InsightsEarly(batch) ==
    [at |-> now,
     averages |-> [w \in Windows |-> Average(buffer'[w], w)],
     min |-> period.min, max |-> period.max,
     spikes |-> spikes',
     trend |-> TrendIndicator(spikes'),
     level |-> CongestionLevel(TrendIndicator(spikes')),
     strength |-> TrendStrength(spikes'),
     predicted |-> PredictedDuration(spikes'),
     quality |-> Quality(batch)]

(* The CurrentInsights of an update; NoPoint stands for the default extremes. *)
Insights(batch) ==
    [at |-> now,
     averages |-> [w \in Windows |-> Average(buffer'[w], w)],
     min |-> period'.min, max |-> period'.max,
     spikes |-> spikes',
     trend |-> TrendIndicator(spikes'),
     level |-> CongestionLevel(TrendIndicator(spikes')),
     strength |-> TrendStrength(spikes'),
     predicted |-> PredictedDuration(spikes'),
     quality |-> Quality(batch)]

(* The baseline is the average of the medium window, the batch included. *)
Baseline == [total |-> TotalFee(buffer'["medium"]), count |-> Len(buffer'["medium"])]

(* process_fee_data: a batch that is refused changes nothing. *)
Refuse(batch) ==
    /\ ~Valid(batch)
    /\ UNCHANGED engine

(* The calculator and the tracker take a valid batch. *)
TakeIn(batch) ==
    /\ Valid(batch)
    /\ buffer' = [w \in Windows |-> AddAll(buffer[w], batch, w, now)]
    /\ period' = Track(batch)
    /\ accepted' = accepted \cup ToSet(batch)

(* detect_spikes fails without a baseline: what was taken in stays, what was
   published stays as well. *)
FailBaseline(batch) ==
    /\ TakeIn(batch)
    /\ Baseline.total = 0
    /\ UNCHANGED <<spikes, lastUpdate, insights>>

Publish(batch) ==
    /\ TakeIn(batch)
    /\ Baseline.total > 0
    /\ spikes' = WithSpikes(spikes, Detected(Chronological(batch), Baseline), now)
    /\ lastUpdate' = now
    /\ insights' = Insights(batch)

ProcessFeeData(batch) == Refuse(batch) \/ FailBaseline(batch) \/ Publish(batch)

Empty == [w \in Windows |-> <<>>]

Init ==
    /\ now = 0 /\ up = FALSE /\ rows = <<>>
    /\ buffer = Empty /\ period = NewPeriod(0)
    /\ spikes = <<>> /\ lastUpdate = None /\ insights = NoInsights /\ accepted = {}

Tick ==
    /\ now < MaxTime
    /\ now' = now + 1
    /\ UNCHANGED <<up, rows, engine>>

(* What fetch_since returns, as one batch of this process. *)
LastDay ==
    LET kept == InOrder(rows, {i \in DOMAIN rows : rows[i].at >= now - Long})
    IN  [i \in DOMAIN kept |-> [kept[i] EXCEPT !.polled = now]]

Rehydrate ==
    /\ ~up
    /\ up' = TRUE
    /\ IF LastDay = <<>> THEN UNCHANGED engine ELSE ProcessFeeData(LastDay)
    /\ UNCHANGED <<now, rows>>

(* The batches a poll may bring: points closed after all those taken. *)
Newest == IF rows = <<>> THEN -1 ELSE Max({rows[i].at : i \in DOMAIN rows})
Batches ==
    LET times == (Newest + 1)..now
        size == Min({MaxBatch, MaxPoints - Len(rows)})
        pages == UNION {{p \in [1..n -> times \X Fees] : \A i \in 2..n : p[i - 1][1] >= p[i][1]} :
                            n \in 1..size}
    IN  {[i \in DOMAIN p |-> [at |-> p[i][1], fee |-> p[i][2],
                              id |-> Len(rows) + i, polled |-> now]] : p \in pages}

Poll ==
    /\ up
    /\ \E batch \in Batches :
          /\ rows' = rows \o batch
          /\ ProcessFeeData(batch)
    /\ UNCHANGED <<now, up>>

Restart ==
    /\ up
    /\ up' = FALSE
    /\ buffer' = Empty /\ period' = NewPeriod(now)
    /\ spikes' = <<>> /\ lastUpdate' = None /\ insights' = NoInsights /\ accepted' = {}
    /\ UNCHANGED <<now, rows>>

Next == Tick \/ Rehydrate \/ Poll \/ Restart

Spec == Init /\ [][Next]_vars

-----------------------------------------------------------------------------
(* What the API serves (api/insights.rs, engine.rs). *)

RollingAverages == [w \in Windows |-> Average(buffer[w], w)]

CurrentInsights ==
    IF insights # NoInsights THEN insights
    ELSE [at |-> now, averages |-> RollingAverages, min |-> period.min, max |-> period.max,
          spikes |-> spikes, trend |-> "Normal", level |-> "Low",
          strength |-> TrendStrength(spikes), predicted |-> 0,
          quality |-> [freshness |-> 0, points |-> 0, expected |-> 0, gaps |-> FALSE]]

CongestionTrends ==
    [trend |-> "Normal", level |-> "Low", spikes |-> spikes,
     strength |-> TrendStrength(spikes), predicted |-> 0]

(* percent_change, as a fraction of the window it is compared with, or None. *)
Change(average, window) ==
    LET count == Max({1, average.count})
    IN  IF window.partial \/ window.total = 0 THEN <<None, 1>>
        ELSE <<average.total * window.count - window.total * count, window.total * count>>

(* GET /fees/trend: each window against the next longer one. *)
FeeTrend ==
    LET a == CurrentInsights.averages
    IN  [status |-> CurrentInsights.trend, strength |-> CurrentInsights.strength,
         spikes |-> Len(CurrentInsights.spikes), predicted |-> CurrentInsights.predicted,
         fiveMinutes |-> Change(a["short"], a["medium"]),
         oneHour |-> Change(a["medium"], a["long"]), sixHours |-> Change(a["medium"], a["long"])]

Health ==
    CASE lastUpdate = None -> "starting"
      [] lastUpdate # None /\ now - lastUpdate > StaleAfter -> "stale"
      [] OTHER -> "healthy"

-----------------------------------------------------------------------------
(* Properties. *)

Points == [at : 0..MaxTime, fee : Fees, id : 1..MaxPoints, polled : 0..MaxTime]

(* Every variable has its type, and no window holds more than its buffer may
   (CircularBuffer::max_size). *)
TypeOK ==
    /\ now \in 0..MaxTime /\ up \in BOOLEAN
    /\ ToSet(rows) \subseteq Points
    /\ \A w \in Windows : ToSet(buffer[w]) \subseteq Points /\ Len(buffer[w]) <= BufferSize
    /\ period.start \in 0..now /\ {period.min, period.max} \subseteq Points \cup {NoPoint}
    /\ \A i \in DOMAIN spikes : spikes[i].start \in 0..now /\ spikes[i].len \in MinSpike..now
    /\ lastUpdate \in None..now
    /\ insights.at = lastUpdate
    /\ accepted \subseteq Points

(* A window lacks a point that belongs in it only if its buffer has since
   overflowed, with points of that poll or of later ones; and while the health
   endpoint says healthy, it counts no point older than its duration and the
   time health allows, but for points that came in the same poll as the newest
   of the front. Cleaning stops at the first recent point, whatever the order
   in which the points came (calculator.rs:88). *)
WindowsSound ==
    TypeOK /\ \A w \in Windows :
       /\ \A p \in accepted :
             IsIn(p, w, now) /\ p \notin ToSet(buffer[w]) =>
                Cardinality({q \in accepted : q.polled >= p.polled}) > BufferSize
       /\ Health = "healthy" =>
             \A i \in DOMAIN buffer[w] :
                \/ buffer[w][i].at >= now - StaleAfter - Duration[w]
                \/ buffer[w][i].polled = Head(buffer[w]).polled

(* Recent spikes start one after the end of the other, so start times tell
   them apart and the alert manager's window of spikes is in time order, across
   polls and rehydration (detector.rs:164). *)
SpikesAscend ==
    \A i \in 2..Len(spikes) :
        spikes[i - 1].start + spikes[i - 1].len <= spikes[i].start

(* The lowest and the highest fee of the period bound every accepted point of
   the period, and are such points (tracker.rs); points that came before the
   period are not looked at. *)
ExtremesBound ==
    LET counted == {p \in accepted : p.at \in period.start..period.end}
    IN  IF counted = {} THEN period.min = NoPoint /\ period.max = NoPoint
        ELSE /\ {period.min, period.max} \subseteq counted
             /\ \A p \in counted : p.fee \in period.min.fee..period.max.fee

(* The endpoints that read the live state and the one that serves the published
   insights agree, unless points were accepted since in an update that failed
   (engine.rs:78): an update is published whole. *)
ViewsAgree ==
    lastUpdate # None /\ (\A p \in accepted : p.polled <= lastUpdate) =>
        /\ CurrentInsights.averages = RollingAverages
        /\ CurrentInsights.min = period.min /\ CurrentInsights.max = period.max
        /\ CurrentInsights.spikes = CongestionTrends.spikes
        /\ CurrentInsights.strength = CongestionTrends.strength
        /\ FeeTrend.spikes = Len(spikes)
        /\ FeeTrend.oneHour = Change(RollingAverages["medium"], RollingAverages["long"])

(* An update adds to the recent spikes exactly the longest runs of spiking
   points of its batch that lasted (detect_spikes), in the order of time across
   polls and rehydration: SpikesAscend. *)
DetectsRuns ==
    [][lastUpdate' # lastUpdate /\ up /\ up' =>
        LET batch == Chronological(SubSeq(rows', Len(rows) + 1, Len(rows')))
        IN  /\ SpikesAscend'
            /\ {s \in ToSet(spikes') : s.start >= batch[1].at} =
                  {s \in LastingRuns(batch, Baseline) : s.start >= now - CongestionWindow}]_vars
=============================================================================
