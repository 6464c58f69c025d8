--------------------------- MODULE Recommendations ---------------------------
(***************************************************************************)
(* Advice about fees: the recommendation engine with its cache             *)
(* (recommendation/), the endpoints of api/recommendation.rs and the wait  *)
(* advisory of api/fees.rs. Requests run concurrently with the polling     *)
(* task, which pushes points into the store they read and moves the        *)
(* engine's published condition; each step of a request is what it does    *)
(* between two awaits.                                                     *)
(*                                                                         *)
(* Every point closes at the moment it is pushed; FeePolling models what   *)
(* a poll really brings.                                                   *)
(***************************************************************************)
EXTENDS FeeStatistics

CONSTANTS
    Requests,       \* handler tasks
    Fees,           \* fee amounts that close
    Ledgers,        \* target_ledgers a request may ask for
    Urgencies,      \* urgencies a request may ask for
    Caps,           \* max_fee of a request; NoCap for none
    Published,      \* what the insights engine may publish: a network condition
                    \* and a number of recent spikes
    MinSamples,     \* min_sample_count (10)
    HistoryWindow,  \* history_window_secs (3 hours)
    ShortWindow,    \* a twelfth of it, at least 5 minutes
    WaitWindow,     \* comparison window of an advisory
    RecentWindow,   \* RECENT_WINDOW_MINS
    Rehydrated,     \* the fees main may find in the database at startup
    CacheTTL,       \* ttl of the recommendation cache (10 s)
    MaxPoints,      \* bound: points this process pushes
    MaxTime         \* bound: the clock stops here

NoCap == -1

(* The fees that the store may hold. *)
Amounts == Fees \cup UNION {ToSet(fees) : fees \in Rehydrated}

ASSUME AdviceAssumption ==
    /\ Fees \subseteq Nat \ {0} /\ Ledgers \subseteq 1..100 /\ Caps \subseteq Nat \cup {NoCap}
    /\ <<"normal", 0>> \in Published /\ \A p \in Published : p[2] \in Nat
    /\ 2 \in Ledgers /\ "medium" \in Urgencies
    /\ Urgencies \subseteq {"low", "medium", "high", "urgent"}
    /\ MinSamples \in Nat \ {0} /\ CacheTTL \in Nat \ {0}
    /\ Rehydrated \subseteq Seq(Nat)
    /\ {HistoryWindow, ShortWindow, WaitWindow, RecentWindow} \subseteq Nat
    /\ MaxTime \in Nat /\ MaxPoints \in Nat
    /\ \A f, g \in Amounts : g # 0 /\ f > g => f \div g \in DOMAIN LogScore

VARIABLES
    now,        \* the clock
    store,      \* FeeHistoryStore: points, oldest push first
    insights,   \* the published condition and number of recent spikes
    cache,      \* RecommendationCache: an entry for each key, or NoEntry
    req,        \* req[r]: where request r is, and what it has read
    coldAt      \* history: the last time the store was too small

vars == <<now, store, insights, cache, req, coldAt>>

Conditions == {p[1] : p \in Published}
Keys == Ledgers \X Urgencies \X Conditions
NoEntry == [madeAt |-> -1]
Idle == [at |-> "idle"]

Percentile == [low |-> 30, medium |-> 60, high |-> 80, urgent |-> 95]
Fallback == [low |-> 100, medium |-> 500, high |-> 1000, urgent |-> 5000]

-----------------------------------------------------------------------------
(* Reading the store. *)

(* get_since. *)
FeesSince(since) ==
    LET upTo[n \in 0..Len(store)] ==
            IF n = 0 THEN <<>>
            ELSE IF store[n].at >= since THEN Append(upTo[n - 1], store[n].fee) ELSE upTo[n - 1]
    IN  upTo[Len(store)]

(* GET /fees/history. *)
FeeHistory(window) ==
    [points |-> Len(FeesSince(now - window)), summary |-> Summary(FeesSince(now - window))]

Samples(s, t) == {i \in DOMAIN s : s[i].at >= t - HistoryWindow}
IsCold(s, t) == Cardinality(Samples(s, t)) < MinSamples

(* A cold request holds the store's read lock until its answer is cached. *)
StoreLocked == \E r \in Requests : req[r].at = "cold"

-----------------------------------------------------------------------------
(* Answers. *)

(* fallback_recommendation. *)
ColdAnswer(key) == [cold |-> TRUE, key |-> key, fee |-> Fallback[key[2]], wait |-> key[1]]

(* A recommendation from the samples of both windows, under a cap. *)
WarmAnswer(key, cap) ==
    LET long == Sorted(FeesSince(now - HistoryWindow))
        short == Sorted(FeesSince(now - ShortWindow))
        p == Percentile[key[2]]
        adjusted == Adjusted(NearestRank(long, p), short, long, p)
        fee == IF cap = NoCap THEN adjusted ELSE Min({adjusted, cap})
    IN  [cold |-> FALSE, key |-> key, fee |-> fee, wait |-> EstimateWait(fee, long, key[1])]

(* get_recommend, from the last 100 points whatever their age. *)
SimpleAnswer ==
    LET fees == [i \in DOMAIN store |-> store[i].fee]
        recent == Sorted(SubSeq(fees, Max({1, Len(fees) - 99}), Len(fees)))
        average == Total(recent) \div Len(recent)
        base == Max({1, recent[1]})
        basis == CASE 2 * average < 3 * base -> 20
                   [] 2 * average >= 3 * base /\ average <= 3 * base -> 50
                   [] OTHER -> 70
    IN  [basis |-> basis, fee |-> BasisValue(recent, basis), min |-> recent[1], average |-> average]

-----------------------------------------------------------------------------
(* The recommendation cache. *)

(* Faulty: entries do not expire. *)
FreshForever(key) == cache[key] # NoEntry

(* RecommendationCache::get. *)
Fresh(key) == cache[key] # NoEntry /\ cache[key].madeAt + CacheTTL > now

(* RecommendationCache::set. *)
Cached(key, answer) == [cache EXCEPT ![key] = [madeAt |-> now, answer |-> answer]]

-----------------------------------------------------------------------------
(* Recommendations: POST /fees/recommend and GET /recommend. *)

(* recommend returns: the POST handler answers, the GET handler goes on. *)
Returned(r, answer) ==
    req' = [req EXCEPT ![r] =
        IF req[r].simple THEN [at |-> "recommended"] ELSE [at |-> "answered", answer |-> answer]]

Ask(r, ledgers, urgency, cap, simple) ==
    /\ req[r] = Idle
    /\ req' = [req EXCEPT ![r] = [at |-> "lookup", key |-> <<ledgers, urgency, insights[1]>>,
                                  cap |-> cap, simple |-> simple]]
    /\ UNCHANGED <<now, store, insights, cache, coldAt>>

(* A body that validate_recommend_request accepts. *)
Recommend(r) ==
    \E ledgers \in Ledgers, urgency \in Urgencies, cap \in Caps :
        Ask(r, ledgers, urgency, cap, FALSE)

GetRecommend(r) == Ask(r, 2, "medium", NoCap, TRUE)

Hit(r) ==
    /\ req[r].at = "lookup" /\ Fresh(req[r].key)
    /\ Returned(r, cache[req[r].key].answer)
    /\ UNCHANGED <<now, store, insights, cache, coldAt>>

Miss(r) ==
    /\ req[r].at = "lookup" /\ ~Fresh(req[r].key)
    /\ req' = [req EXCEPT ![r].at = "missed"]
    /\ UNCHANGED <<now, store, insights, cache, coldAt>>

(* Too few samples: the fallback is cached under the store's read lock. *)
StartCold(r) ==
    /\ req[r].at = "missed" /\ IsCold(store, now)
    /\ req' = [req EXCEPT ![r].at = "cold"]
    /\ UNCHANGED <<now, store, insights, cache, coldAt>>

AnswerCold(r) ==
    /\ req[r].at = "cold"
    /\ cache' = Cached(req[r].key, ColdAnswer(req[r].key))
    /\ Returned(r, ColdAnswer(req[r].key))
    /\ UNCHANGED <<now, store, insights, coldAt>>

(* Enough samples: the points are copied and the lock is dropped. *)
Estimate(r) ==
    /\ req[r].at = "missed" /\ ~IsCold(store, now)
    /\ req' = [req EXCEPT ![r] = [at |-> "estimated", key |-> @.key, simple |-> @.simple,
                                  answer |-> WarmAnswer(@.key, @.cap)]]
    /\ UNCHANGED <<now, store, insights, cache, coldAt>>

AnswerWarm(r) ==
    /\ req[r].at = "estimated"
    /\ cache' = Cached(req[r].key, req[r].answer)
    /\ Returned(r, req[r].answer)
    /\ UNCHANGED <<now, store, insights, coldAt>>

(* The second read of GET /recommend: an empty store is an error. *)
AnswerSimple(r) ==
    /\ req[r].at = "recommended"
    /\ req' = [req EXCEPT ![r] = IF store = <<>> THEN [at |-> "failed"]
                                 ELSE [at |-> "simple", answer |-> SimpleAnswer]]
    /\ UNCHANGED <<now, store, insights, cache, coldAt>>

-----------------------------------------------------------------------------
(* GET /fees/wait-advisory: two reads of the store, one of the insights. *)

ReadRecent(r) ==
    /\ req[r] = Idle
    /\ req' = [req EXCEPT ![r] = [at |-> "recent", asOf |-> now,
                                  recent |-> FeesSince(now - RecentWindow)]]
    /\ UNCHANGED <<now, store, insights, cache, coldAt>>

ReadHistory(r) ==
    /\ req[r].at = "recent"
    /\ req' = [req EXCEPT ![r] = [at |-> "compared", recent |-> @.recent,
                                  history |-> FeesSince(@.asOf - WaitWindow)]]
    /\ UNCHANGED <<now, store, insights, cache, coldAt>>

(* The spikes are read and the advisory computed. *)
Advise(r) ==
    /\ req[r].at = "compared"
    /\ req' = [req EXCEPT ![r] = [at |-> "advised", recent |-> @.recent, history |-> @.history,
                                  spikes |-> insights[2],
                                  advice |-> Advice(@.recent, @.history, insights[2])]]
    /\ UNCHANGED <<now, store, insights, cache, coldAt>>

Done(r) ==
    /\ req[r].at \in {"answered", "simple", "failed", "advised"}
    /\ req' = [req EXCEPT ![r] = Idle]
    /\ UNCHANGED <<now, store, insights, cache, coldAt>>

-----------------------------------------------------------------------------
(* The polling task and the clock. *)

(* Faulty: a push does not wait for the store's readers. *)
PushAtOnce(fee) ==
    /\ Cardinality({i \in DOMAIN store : store[i].pushed}) < MaxPoints
    /\ store' = Append(store, [fee |-> fee, at |-> now, pushed |-> TRUE])
    /\ coldAt' = IF IsCold(store', now) THEN now ELSE coldAt
    /\ UNCHANGED <<now, insights, cache, req>>

Push(fee) ==
    /\ ~StoreLocked
    /\ Cardinality({i \in DOMAIN store : store[i].pushed}) < MaxPoints
    /\ store' = Append(store, [fee |-> fee, at |-> now, pushed |-> TRUE])
    /\ coldAt' = IF IsCold(store', now) THEN now ELSE coldAt
    /\ UNCHANGED <<now, insights, cache, req>>

(* An update of the insights engine publishes. *)
Publish ==
    /\ insights' \in Published
    /\ UNCHANGED <<now, store, cache, req, coldAt>>

Tick ==
    /\ now < MaxTime
    /\ now' = now + 1
    /\ coldAt' = IF IsCold(store, now') THEN now' ELSE coldAt
    /\ UNCHANGED <<store, insights, cache, req>>

Init ==
    /\ now = 0
    /\ \E fees \in Rehydrated : store = [i \in DOMAIN fees |-> [fee |-> fees[i], at |-> 0, pushed |-> FALSE]]
    /\ insights = <<"normal", 0>>
    /\ cache = [k \in Keys |-> NoEntry]
    /\ req = [r \in Requests |-> Idle]
    /\ coldAt = IF IsCold(store, 0) THEN 0 ELSE -CacheTTL

Step(r) ==
    \/ Recommend(r) \/ GetRecommend(r) \/ Hit(r) \/ Miss(r)
    \/ StartCold(r) \/ AnswerCold(r) \/ Estimate(r) \/ AnswerWarm(r) \/ AnswerSimple(r)
    \/ ReadRecent(r) \/ ReadHistory(r) \/ Advise(r) \/ Done(r)

Next ==
    \/ \E r \in Requests : Step(r)
    \/ \E fee \in Fees : Push(fee)
    \/ Publish
    \/ Tick

Spec == Init /\ [][Next]_vars

-----------------------------------------------------------------------------
(* Properties. *)

IsAnswer(a) ==
    /\ a.cold \in BOOLEAN /\ a.key \in Keys
    /\ a.fee \in Nat /\ a.wait \in 1..a.key[1]

(* Every variable has its type; an answer never estimates a longer wait than
   its request's target (estimate_wait_ledgers). *)
TypeOK ==
    /\ now \in 0..MaxTime /\ coldAt \in -CacheTTL..now
    /\ \A i \in DOMAIN store : store[i].fee \in Nat /\ store[i].at \in 0..now
    /\ insights \in Published
    /\ \A k \in Keys : cache[k] # NoEntry => cache[k].madeAt \in 0..now /\ IsAnswer(cache[k].answer)
    /\ \A r \in Requests :
        /\ req[r].at \in {"idle", "lookup", "missed", "cold", "estimated", "answered", "recommended",
                          "simple", "failed", "recent", "compared", "advised"}
        /\ req[r].at \in {"answered", "estimated"} => IsAnswer(req[r].answer)

(* Request r is being given a recommendation. *)
Answers(r) == req[r].at # "answered" /\ req'[r].at = "answered"

(* A cold-start answer is only computed for a store that is still too small
   when it is given, and only given from the cache within the TTL of such a
   time: the read lock that a cold request holds keeps points from being pushed
   between its count and its caching (engine.rs:77). *)
ColdStartEnds ==
    [][\A r \in Requests : Answers(r) /\ req'[r].answer.cold =>
        IF req[r].at = "cold" THEN coldAt = now ELSE coldAt + CacheTTL > now]_vars

(* A recommendation was computed for the same target, urgency and condition as
   the request that gets it, and one from the cache within its TTL
   (cache.rs:24), however requests, pushes and updates interleave. *)
AnswersMatch ==
    [][\A r \in Requests : Answers(r) =>
        /\ req'[r].answer.key = req[r].key
        /\ req[r].at = "lookup" => \E k \in Keys :
                  cache[k] = [madeAt |-> cache[k].madeAt, answer |-> req'[r].answer]
                  /\ cache[k].madeAt + CacheTTL > now]_vars

(* Each tier of alternatives offers the cheapest sampled fee that meets its
   confidence, and a faster tier is never cheaper (find_fee_for_confidence and
   README.md of packages/core, step 4); the tiers lie in the range, and the
   cheapest one not above the p95, that GET /fees/history gives for the window. *)
TiersLeast ==
    LET sorted == Sorted(FeesSince(now - HistoryWindow))
        tiers == Tiers(sorted)
        summary == FeeHistory(HistoryWindow).summary
        Enough(t) == {f \in ToSet(sorted) : Reaches(sorted, f, Confidence[t], Within[t])}
    IN  sorted # <<>> =>
            /\ \A t \in DOMAIN tiers : tiers[t] = Min(Enough(t))
            /\ tiers.economy <= tiers.standard /\ tiers.standard <= tiers.fast
            /\ \A t \in DOMAIN tiers : tiers[t] \in summary.min..summary.max
            /\ tiers.economy <= summary.p95

(* The explanation tells of rising fees only: its short window is sorted before
   the trend is taken (engine.rs:302). The statistics of a window bound one
   another: its fees change in sum at least by their range, which is that of
   GET /fees/history, and on average at most by it; the deviation is at most
   half of it; no line fits better than fully. *)
SpreadTold ==
    LET fees == FeesSince(now - HistoryWindow)
        v == Volatility(fees)
        summary == FeeHistory(HistoryWindow).summary
        fit == Trend(fees).fit
    IN  /\ TrendTold(Sorted(FeesSince(now - ShortWindow))) # "downward"
        /\ v.range = summary.max - summary.min
        /\ v.range <= v.change[1] /\ v.change[1] <= v.range * v.change[2]
        /\ 4 * v.variance <= Len(fees) * Len(fees) * v.range * v.range
        /\ fit[1] <= fit[2]

(* What is told of the fees of a window. Every store is also reached with no
   request under way, as requests only read it. *)
FeesTold == (\A r \in Requests : req[r] = Idle) => TiersLeast /\ SpreadTold

Caution == [submit |-> 0, consider |-> 1, wait |-> 2]

(* An advisory never tells to hold back when the current fee is not above half
   of the history, whatever the spikes and the trend, and had the current fee
   been lower it would not have been more cautious (compute_wait_advisory). *)
DearerWaitsMore ==
    \A r \in Requests : req[r].at = "advised" /\ req[r].recent # <<>> =>
        LET recent == req[r].recent
            history == req[r].history
            Cheaper(f) == [recent EXCEPT ![Len(recent)] = f]
        IN  /\ 2 * AtOrBelow(history, Last(recent)) <= Len(history) => req[r].advice = "submit"
            /\ 2 * Below(history, Last(recent)) < Len(history) => req[r].advice = "submit"
            /\ \A f \in Fees : f <= Last(recent) =>
                  Caution[Advice(Cheaper(f), history, req[r].spikes)] <= Caution[req[r].advice]
=============================================================================
