------------------------- MODULE Recommendations_proofs -------------------------
(***************************************************************************)
(* Proofs about Recommendations, for any number of requests, window, TTL,  *)
(* minimum of samples and table of scores: which store, request and time   *)
(* an answer is for, its type, how an advisory follows the fees, and what  *)
(* the tiers of alternatives and the statistics of a window are.           *)
(***************************************************************************)
EXTENDS Recommendations, FiniteSetTheorems, WellFoundedInduction, TLAPS

Point == [fee : Nat, at : Int, pushed : BOOLEAN]

(* The points carry times, and the times of the variables are ordered. *)
TimesInv ==
    /\ now \in Nat /\ coldAt \in Int /\ coldAt <= now
    /\ store \in Seq(Point)
    /\ IsCold(store, now) => coldAt = now

(* A request being answered from a small store keeps the store small; one     *)
(* that found enough samples has an answer of its own.                        *)
Pending == [at : {"lookup", "missed", "cold"}, key : Keys, cap : Caps \cup {NoCap}, simple : BOOLEAN]

RequestOK(q) ==
    /\ q.at \in {"lookup", "missed", "cold"} => q \in Pending
    /\ q.at = "cold" => IsCold(store, now)
    /\ q.at = "estimated" => ~q.answer.cold /\ q.answer.key = q.key /\ q.key \in Keys

RequestsInv ==
    /\ req = [r \in Requests |-> req[r]]
    /\ \A r \in Requests : RequestOK(req[r])

(* The cache holds answers to its keys; a fallback was stored no later than   *)
(* the last time the store was too small.                                     *)
EntryOK(k, entry) ==
    entry # NoEntry =>
        /\ entry = [madeAt |-> entry.madeAt, answer |-> entry.answer]
        /\ entry.madeAt \in Int
        /\ entry.answer.key = k
        /\ entry.answer.cold => entry.madeAt <= coldAt

CacheInv ==
    /\ cache = [k \in Keys |-> cache[k]]
    /\ \A k \in Keys : EntryOK(k, cache[k])

IInv == insights \in Published /\ TimesInv /\ RequestsInv /\ CacheInv

LEMMA SamplesFinite ==
    ASSUME NEW s \in Seq(Point), NEW t
    PROVE  IsFiniteSet(Samples(s, t)) /\ Cardinality(Samples(s, t)) \in Nat
<1>1. Len(s) \in Nat /\ Samples(s, t) \in SUBSET (1..Len(s))
  BY DEF Samples
<1>2. IsFiniteSet(1..Len(s))
  BY <1>1, FS_Interval
<1>3. IsFiniteSet(Samples(s, t))
  BY <1>1, <1>2, FS_Subset
<1> QED
  BY <1>3, FS_CardinalityType

(* A store that is too small stays so as time passes. *)
LEMMA ColdStays ==
    ASSUME NEW s \in Seq(Point), NEW t \in Nat, IsCold(s, t)
    PROVE  IsCold(s, t + 1)
<1>1. \A i \in DOMAIN s : s[i].at \in Int
  <2>1. \A i \in DOMAIN s : s[i] \in Point
    OBVIOUS
  <2> QED
    BY <2>1 DEF Point
<1>2. Samples(s, t + 1) \subseteq Samples(s, t)
  BY <1>1, AdviceAssumption DEF Samples
<1>3. Cardinality(Samples(s, t + 1)) <= Cardinality(Samples(s, t))
  BY <1>2, SamplesFinite, FS_Subset
<1> QED
  BY <1>3, SamplesFinite, AdviceAssumption DEF IsCold

LEMMA InitInv == Init => IInv
<1> SUFFICES ASSUME Init PROVE IInv
  OBVIOUS
<1>1. insights \in Published
  BY AdviceAssumption DEF Init
<1>2. TimesInv
  <2> PICK fees \in Rehydrated : store = [i \in DOMAIN fees |-> [fee |-> fees[i], at |-> 0, pushed |-> FALSE]]
    BY DEF Init
  <2>1. fees \in Seq(Nat)
    BY AdviceAssumption
  <2>2. \A i \in DOMAIN fees : [fee |-> fees[i], at |-> 0, pushed |-> FALSE] \in Point
    BY <2>1 DEF Point
  <2>3. store \in Seq(Point)
    BY <2>1, <2>2
  <2>4. now = 0 /\ coldAt = IF IsCold(store, 0) THEN 0 ELSE -CacheTTL
    BY DEF Init
  <2> QED
    <3>1. now \in Nat /\ coldAt \in Int /\ coldAt <= now
      BY <2>4, AdviceAssumption
    <3>2. IsCold(store, now) => coldAt = now
      BY <2>4
    <3> QED
      BY <3>1, <3>2, <2>3 DEF TimesInv
<1>3. RequestsInv
  BY DEF Init, RequestsInv, RequestOK, Idle
<1>4. CacheInv
  BY DEF Init, CacheInv, EntryOK
<1> QED
  BY <1>1, <1>2, <1>3, <1>4 DEF IInv

-----------------------------------------------------------------------------
(* The steps of a request. *)

(* A request moves to another record; nothing else does. *)
LEMMA RequestMoves ==
    ASSUME IInv, NEW r \in Requests, NEW q, RequestOK(q), req' = [req EXCEPT ![r] = q],
           UNCHANGED <<now, store, insights, cache, coldAt>>
    PROVE  IInv'
<1>1. \A s \in Requests : req'[s] = IF s = r THEN q ELSE req[s]
  BY DEF IInv, RequestsInv
<1>2. RequestsInv'
  BY <1>1 DEF IInv, RequestsInv, RequestOK
<1> QED
  BY <1>2 DEF IInv, TimesInv, CacheInv, EntryOK

(* An answer that is given is nothing to be careful about any more. *)
LEMMA ReturnedMoves ==
    ASSUME NEW r, NEW answer, Returned(r, answer)
    PROVE  \E q : RequestOK(q) /\ req' = [req EXCEPT ![r] = q]
<1> DEFINE q == IF req[r].simple THEN [at |-> "recommended"] ELSE [at |-> "answered", answer |-> answer]
<1>1. q.at \in {"recommended", "answered"}
  OBVIOUS
<1>2. req' = [req EXCEPT ![r] = q]
  BY DEF Returned
<1> HIDE DEF q
<1> QED
  BY <1>1, <1>2 DEF RequestOK

LEMMA AskInv ==
    ASSUME IInv, NEW r \in Requests, NEW ledgers \in Ledgers, NEW urgency \in Urgencies,
           NEW cap \in Caps \cup {NoCap}, NEW simple \in BOOLEAN,
           Ask(r, ledgers, urgency, cap, simple)
    PROVE  IInv'
<1> DEFINE q == [at |-> "lookup", key |-> <<ledgers, urgency, insights[1]>>, cap |-> cap, simple |-> simple]
<1>1. <<ledgers, urgency, insights[1]>> \in Keys
  BY DEF IInv, Keys, Conditions
<1>2. q \in Pending /\ q.at = "lookup"
  BY <1>1 DEF Pending
<1>3. req' = [req EXCEPT ![r] = q] /\ UNCHANGED <<now, store, insights, cache, coldAt>>
  BY DEF Ask
<1> HIDE DEF q
<1> QED
  BY <1>2, <1>3, RequestMoves DEF RequestOK

LEMMA LookupInv ==
    ASSUME IInv, NEW r \in Requests, Miss(r) \/ StartCold(r)
    PROVE  IInv'
<1>1. req[r] \in Pending
  BY DEF IInv, RequestsInv, RequestOK, Miss, StartCold
<1>2. CASE Miss(r)
  <2> DEFINE q == [req[r] EXCEPT !.at = "missed"]
  <2>1. q \in Pending /\ q.at = "missed"
    BY <1>1 DEF Pending
  <2>2. req' = [req EXCEPT ![r] = q] /\ UNCHANGED <<now, store, insights, cache, coldAt>>
    BY <1>2 DEF Miss
  <2> HIDE DEF q
  <2> QED
    BY <2>1, <2>2, RequestMoves DEF RequestOK
<1>3. CASE StartCold(r)
  <2> DEFINE q == [req[r] EXCEPT !.at = "cold"]
  <2>1. q \in Pending /\ q.at = "cold"
    BY <1>1 DEF Pending
  <2>2. req' = [req EXCEPT ![r] = q] /\ UNCHANGED <<now, store, insights, cache, coldAt>> /\ IsCold(store, now)
    BY <1>3 DEF StartCold
  <2> HIDE DEF q
  <2> QED
    BY <2>1, <2>2, RequestMoves DEF RequestOK
<1> QED
  BY <1>2, <1>3

LEMMA EstimateInv ==
    ASSUME IInv, NEW r \in Requests, Estimate(r)
    PROVE  IInv'
<1>1. req[r] \in Pending
  BY DEF IInv, RequestsInv, RequestOK, Estimate
<1> DEFINE answer == WarmAnswer(req[r].key, req[r].cap)
           q == [at |-> "estimated", key |-> req[r].key, simple |-> req[r].simple, answer |-> answer]
<1>2. answer.cold = FALSE /\ answer.key = req[r].key
  BY DEF WarmAnswer
<1>3. req[r].key \in Keys
  BY <1>1 DEF Pending
<1>4. req' = [req EXCEPT ![r] = q] /\ UNCHANGED <<now, store, insights, cache, coldAt>>
  BY DEF Estimate
<1> HIDE DEF answer
<1>5. RequestOK(q)
  BY <1>2, <1>3 DEF RequestOK
<1> HIDE DEF q
<1> QED
  BY <1>4, <1>5, RequestMoves

(* An answer is cached under its key and returned. *)
LEMMA CachedInv ==
    ASSUME IInv, NEW r \in Requests, NEW key \in Keys, NEW answer,
           answer.key = key, answer.cold => coldAt = now,
           cache' = Cached(key, answer), Returned(r, answer),
           UNCHANGED <<now, store, insights, coldAt>>
    PROVE  IInv'
<1> PICK q : RequestOK(q) /\ req' = [req EXCEPT ![r] = q]
  BY ReturnedMoves
<1>1. \A s \in Requests : req'[s] = IF s = r THEN q ELSE req[s]
  BY DEF IInv, RequestsInv
<1>2. RequestsInv'
  BY <1>1 DEF IInv, RequestsInv, RequestOK
<1> DEFINE entry == [madeAt |-> now, answer |-> answer]
<1>3. entry = [madeAt |-> entry.madeAt, answer |-> entry.answer]
  OBVIOUS
<1>4. entry.madeAt = now /\ entry.answer = answer
  OBVIOUS
<1>5. cache' = [cache EXCEPT ![key] = entry]
  BY DEF Cached
<1> HIDE DEF entry
<1>6. EntryOK(key, entry)
  BY <1>3, <1>4 DEF EntryOK, IInv, TimesInv
<1>7. cache = [k \in Keys |-> cache[k]] /\ \A k \in Keys : EntryOK(k, cache[k])
  BY DEF IInv, CacheInv
<1>8. \A k \in Keys : cache'[k] = IF k = key THEN entry ELSE cache[k]
  BY <1>5, <1>7
<1>9. cache' = [k \in Keys |-> cache'[k]]
  BY <1>5, <1>7
<1>10. CacheInv'
  BY <1>6, <1>7, <1>8, <1>9 DEF CacheInv, EntryOK
<1> QED
  BY <1>2, <1>10 DEF IInv, TimesInv

LEMMA AnswerInv ==
    ASSUME IInv, NEW r \in Requests, AnswerCold(r) \/ AnswerWarm(r)
    PROVE  IInv'
<1>1. RequestOK(req[r])
  BY DEF IInv, RequestsInv
<1>2. CASE AnswerCold(r)
  <2>1. req[r].key \in Keys /\ IsCold(store, now)
    BY <1>1, <1>2 DEF AnswerCold, RequestOK, Pending
  <2> DEFINE answer == ColdAnswer(req[r].key)
  <2>2. answer.key = req[r].key
    BY DEF ColdAnswer
  <2>3. coldAt = now
    BY <2>1 DEF IInv, TimesInv
  <2>4. cache' = Cached(req[r].key, answer) /\ Returned(r, answer) /\ UNCHANGED <<now, store, insights, coldAt>>
    BY <1>2 DEF AnswerCold
  <2> HIDE DEF answer
  <2> QED
    BY <2>1, <2>2, <2>3, <2>4, CachedInv
<1>3. CASE AnswerWarm(r)
  <2>1. req[r].key \in Keys /\ ~req[r].answer.cold /\ req[r].answer.key = req[r].key
    BY <1>1, <1>3 DEF AnswerWarm, RequestOK
  <2>2. cache' = Cached(req[r].key, req[r].answer) /\ Returned(r, req[r].answer)
        /\ UNCHANGED <<now, store, insights, coldAt>>
    BY <1>3 DEF AnswerWarm
  <2> QED
    BY <2>1, <2>2, CachedInv
<1> QED
  BY <1>2, <1>3

(* The steps whose requests carry nothing that matters here. *)
LEMMA OtherInv ==
    ASSUME IInv, NEW r \in Requests,
           Hit(r) \/ AnswerSimple(r) \/ ReadRecent(r) \/ ReadHistory(r) \/ Advise(r) \/ Done(r)
    PROVE  IInv'
<1>1. UNCHANGED <<now, store, insights, cache, coldAt>>
  BY DEF Hit, AnswerSimple, ReadRecent, ReadHistory, Advise, Done
<1>2. ASSUME NEW q, req' = [req EXCEPT ![r] = q],
             q.at \in {"recommended", "answered", "failed", "simple", "recent", "compared", "advised", "idle"}
      PROVE  IInv'
  <2>1. RequestOK(q)
    BY <1>2 DEF RequestOK
  <2> QED
    BY <1>1, <1>2, <2>1, RequestMoves
<1>3. CASE Hit(r)
  BY <1>1, <1>3, ReturnedMoves, RequestMoves DEF Hit
<1>4. CASE AnswerSimple(r)
  <2> DEFINE q == IF store = <<>> THEN [at |-> "failed"] ELSE [at |-> "simple", answer |-> SimpleAnswer]
  <2>1. req' = [req EXCEPT ![r] = q]
    BY <1>4 DEF AnswerSimple
  <2>2. q.at \in {"failed", "simple"}
    OBVIOUS
  <2> HIDE DEF q
  <2> QED
    BY <2>1, <2>2, <1>2
<1>5. CASE ReadRecent(r)
  <2> DEFINE q == [at |-> "recent", asOf |-> now, recent |-> FeesSince(now - RecentWindow)]
  <2>1. req' = [req EXCEPT ![r] = q] /\ q.at = "recent"
    BY <1>5 DEF ReadRecent
  <2> HIDE DEF q
  <2> QED
    BY <2>1, <1>2
<1>6. CASE ReadHistory(r)
  <2> DEFINE q == [at |-> "compared", recent |-> req[r].recent, history |-> FeesSince(req[r].asOf - WaitWindow)]
  <2>1. req' = [req EXCEPT ![r] = q] /\ q.at = "compared"
    BY <1>6 DEF ReadHistory
  <2> HIDE DEF q
  <2> QED
    BY <2>1, <1>2
<1>7. CASE Advise(r)
  <2> DEFINE q == [at |-> "advised", recent |-> req[r].recent, history |-> req[r].history,
                   spikes |-> insights[2], advice |-> Advice(req[r].recent, req[r].history, insights[2])]
  <2>1. req' = [req EXCEPT ![r] = q] /\ q.at = "advised"
    BY <1>7 DEF Advise
  <2> HIDE DEF q
  <2> QED
    BY <2>1, <1>2
<1>8. CASE Done(r)
  BY <1>2, <1>8 DEF Done, Idle
<1> QED
  BY <1>3, <1>4, <1>5, <1>6, <1>7, <1>8

LEMMA StepInv ==
    ASSUME IInv, NEW r \in Requests, Step(r)
    PROVE  IInv'
<1>1. CASE Recommend(r)
  BY <1>1, AskInv DEF Recommend
<1>2. CASE GetRecommend(r)
  BY <1>2, AskInv, AdviceAssumption DEF GetRecommend
<1> QED
  BY <1>1, <1>2, LookupInv, EstimateInv, AnswerInv, OtherInv DEF Step

-----------------------------------------------------------------------------
(* The polling task, the insights and the clock. *)

(* The last time the store was too small only moves forward. *)
LEMMA PushInv ==
    ASSUME IInv, NEW fee \in Fees, Push(fee)
    PROVE  IInv'
<1>1. /\ store' = Append(store, [fee |-> fee, at |-> now, pushed |-> TRUE])
      /\ coldAt' = IF IsCold(store', now) THEN now ELSE coldAt
      /\ \A r \in Requests : req[r].at # "cold"
      /\ UNCHANGED <<now, insights, cache, req>>
  BY DEF Push, StoreLocked
<1>2. now \in Nat /\ coldAt \in Int /\ coldAt <= now
  BY DEF IInv, TimesInv
<1>3. store' \in Seq(Point)
  <2>1. [fee |-> fee, at |-> now, pushed |-> TRUE] \in Point
    BY <1>2, AdviceAssumption DEF Point
  <2> QED
    BY <2>1, <1>1 DEF IInv, TimesInv
<1>4. TimesInv'
  BY <1>1, <1>2, <1>3 DEF TimesInv
<1>5. RequestsInv'
  BY <1>1 DEF IInv, RequestsInv, RequestOK
<1>6. CacheInv'
  BY <1>1, <1>2 DEF IInv, CacheInv, EntryOK
<1> QED
  BY <1>1, <1>4, <1>5, <1>6 DEF IInv

LEMMA TickInv ==
    ASSUME IInv, Tick
    PROVE  IInv'
<1>1. /\ now' = now + 1 /\ UNCHANGED <<store, insights, cache, req>>
      /\ coldAt' = IF IsCold(store, now') THEN now' ELSE coldAt
  BY DEF Tick
<1>2. now \in Nat /\ coldAt \in Int /\ coldAt <= now
  BY DEF IInv, TimesInv
<1>3. IsCold(store, now) => IsCold(store, now')
  BY <1>1, ColdStays DEF IInv, TimesInv
<1>4. TimesInv'
  BY <1>1, <1>2 DEF IInv, TimesInv
<1>5. RequestsInv'
  BY <1>1, <1>3 DEF IInv, RequestsInv, RequestOK
<1>6. CacheInv'
  BY <1>1, <1>2 DEF IInv, CacheInv, EntryOK
<1> QED
  BY <1>1, <1>4, <1>5, <1>6 DEF IInv

LEMMA NextInv == IInv /\ [Next]_vars => IInv'
<1> SUFFICES ASSUME IInv, [Next]_vars PROVE IInv'
  OBVIOUS
<1>1. CASE Publish
  BY <1>1 DEF Publish, IInv, TimesInv, RequestsInv, RequestOK, CacheInv, EntryOK
<1>2. CASE UNCHANGED vars
  BY <1>2 DEF vars, IInv, TimesInv, RequestsInv, RequestOK, CacheInv, EntryOK
<1> QED
  BY <1>1, <1>2, StepInv, PushInv, TickInv DEF Next

THEOREM InvHolds == Spec => []IInv
  BY InitInv, NextInv, PTL DEF Spec

-----------------------------------------------------------------------------
(* What an answer is. *)

(* The three ways a recommendation is given. *)
LEMMA AnswerStep ==
    ASSUME IInv, [Next]_vars, NEW r \in Requests, Answers(r)
    PROVE  \/ /\ req[r].at = "lookup" /\ req[r].key \in Keys /\ Fresh(req[r].key)
              /\ req'[r].answer = cache[req[r].key].answer
           \/ /\ req[r].at = "cold" /\ IsCold(store, now)
              /\ req'[r].answer = ColdAnswer(req[r].key)
           \/ /\ req[r].at = "estimated"
              /\ ~req[r].answer.cold /\ req[r].answer.key = req[r].key
              /\ req'[r].answer = req[r].answer
<1>0. req = [s \in Requests |-> req[s]] /\ RequestOK(req[r]) /\ req'[r] # req[r]
  BY DEF IInv, RequestsInv, Answers
<1>1. req' # req
  BY <1>0
<1>2. PICK s \in Requests : Step(s)
  BY <1>1 DEF Next, Push, Publish, Tick, vars
<1>3. ASSUME NEW q, req' = [req EXCEPT ![s] = q] PROVE s = r /\ req'[r] = q
  BY <1>0, <1>3
<1>4. ASSUME NEW q, req' = [req EXCEPT ![s] = q], q.at # "answered" PROVE FALSE
  BY <1>3, <1>4 DEF Answers
<1>5. ASSUME NEW answer, Returned(s, answer) PROVE s = r /\ req'[r].answer = answer
  <2> DEFINE q == IF req[s].simple THEN [at |-> "recommended"] ELSE [at |-> "answered", answer |-> answer]
  <2>1. req' = [req EXCEPT ![s] = q]
    BY <1>5 DEF Returned
  <2>2. q.at = "answered" => q.answer = answer
    OBVIOUS
  <2> HIDE DEF q
  <2>3. s = r /\ req'[r] = q
    BY <2>1, <1>3
  <2> QED
    BY <2>2, <2>3 DEF Answers
<1>6. CASE Hit(s)
  BY <1>0, <1>5, <1>6 DEF Hit, RequestOK, Pending
<1>7. CASE AnswerCold(s)
  BY <1>0, <1>5, <1>7 DEF AnswerCold, RequestOK
<1>8. CASE AnswerWarm(s)
  BY <1>0, <1>5, <1>8 DEF AnswerWarm, RequestOK
<1>9. CASE Recommend(s) \/ GetRecommend(s)
  <2> PICK ledgers, urgency, cap, simple : Ask(s, ledgers, urgency, cap, simple)
    BY <1>9 DEF Recommend, GetRecommend
  <2> DEFINE q == [at |-> "lookup", key |-> <<ledgers, urgency, insights[1]>>, cap |-> cap, simple |-> simple]
  <2>1. req' = [req EXCEPT ![s] = q] /\ q.at = "lookup"
    BY DEF Ask
  <2> HIDE DEF q
  <2> QED
    BY <2>1, <1>4
<1>10. CASE Miss(s) \/ StartCold(s)
  <2>1. req[s] \in Pending
    BY <1>10 DEF IInv, RequestsInv, RequestOK, Miss, StartCold
  <2>2. PICK at \in {"missed", "cold"} : req' = [req EXCEPT ![s].at = at]
    BY <1>10 DEF Miss, StartCold
  <2> DEFINE q == [req[s] EXCEPT !.at = at]
  <2>3. req' = [req EXCEPT ![s] = q] /\ q.at \in {"missed", "cold"}
    BY <2>1, <2>2 DEF Pending
  <2> HIDE DEF q
  <2> QED
    BY <2>3, <1>4
<1>11. CASE Estimate(s)
  <2> DEFINE q == [at |-> "estimated", key |-> req[s].key, simple |-> req[s].simple,
                   answer |-> WarmAnswer(req[s].key, req[s].cap)]
  <2>1. req' = [req EXCEPT ![s] = q] /\ q.at = "estimated"
    BY <1>11 DEF Estimate
  <2> HIDE DEF q
  <2> QED
    BY <2>1, <1>4
<1>12. CASE AnswerSimple(s)
  <2> DEFINE q == IF store = <<>> THEN [at |-> "failed"] ELSE [at |-> "simple", answer |-> SimpleAnswer]
  <2>1. req' = [req EXCEPT ![s] = q] /\ q.at \in {"failed", "simple"}
    BY <1>12 DEF AnswerSimple
  <2> HIDE DEF q
  <2> QED
    BY <2>1, <1>4
<1>13. CASE ReadRecent(s)
  <2> DEFINE q == [at |-> "recent", asOf |-> now, recent |-> FeesSince(now - RecentWindow)]
  <2>1. req' = [req EXCEPT ![s] = q] /\ q.at = "recent"
    BY <1>13 DEF ReadRecent
  <2> HIDE DEF q
  <2> QED
    BY <2>1, <1>4
<1>14. CASE ReadHistory(s)
  <2> DEFINE q == [at |-> "compared", recent |-> req[s].recent, history |-> FeesSince(req[s].asOf - WaitWindow)]
  <2>1. req' = [req EXCEPT ![s] = q] /\ q.at = "compared"
    BY <1>14 DEF ReadHistory
  <2> HIDE DEF q
  <2> QED
    BY <2>1, <1>4
<1>15. CASE Advise(s)
  <2> DEFINE q == [at |-> "advised", recent |-> req[s].recent, history |-> req[s].history,
                   spikes |-> insights[2], advice |-> Advice(req[s].recent, req[s].history, insights[2])]
  <2>1. req' = [req EXCEPT ![s] = q] /\ q.at = "advised"
    BY <1>15 DEF Advise
  <2> HIDE DEF q
  <2> QED
    BY <2>1, <1>4
<1>16. CASE Done(s)
  <2>1. req' = [req EXCEPT ![s] = Idle] /\ Idle.at # "answered"
    BY <1>16 DEF Done, Idle
  <2> QED
    BY <2>1, <1>4
<1> QED
  BY <1>2, <1>6, <1>7, <1>8, <1>9, <1>10, <1>11, <1>12, <1>13, <1>14, <1>15, <1>16 DEF Step

(* A fallback is given for a store that is still too small, or within the TTL *)
(* of a time when it was.                                                     *)
THEOREM ColdStartCorrect == Spec => ColdStartEnds
<1>1. ASSUME IInv, [Next]_vars, NEW r \in Requests, Answers(r), req'[r].answer.cold
      PROVE  IF req[r].at = "cold" THEN coldAt = now ELSE coldAt + CacheTTL > now
  <2>1. CASE req[r].at = "lookup"
    <3>1. /\ req[r].key \in Keys /\ Fresh(req[r].key)
          /\ req'[r].answer = cache[req[r].key].answer
      BY <1>1, <2>1, AnswerStep
    <3>2. cache[req[r].key].madeAt <= coldAt /\ cache[req[r].key].madeAt \in Int
      BY <1>1, <3>1 DEF IInv, CacheInv, EntryOK, Fresh
    <3>3. cache[req[r].key].madeAt + CacheTTL > now
      BY <3>1 DEF Fresh
    <3>4. PICK made \in Int, cold \in Int, t \in Int : made = cache[req[r].key].madeAt /\ cold = coldAt /\ t = now
      BY <1>1, <3>2 DEF IInv, TimesInv
    <3>5. made <= cold /\ made + CacheTTL > t
      BY <3>2, <3>3, <3>4, Zenon
    <3>6. CacheTTL \in Int
      BY AdviceAssumption
    <3>7. cold + CacheTTL > t
      BY <3>5, <3>6
    <3> QED
      BY <2>1, <3>4, <3>7
  <2>2. CASE req[r].at = "cold"
    BY <1>1, <2>2, AnswerStep DEF IInv, TimesInv
  <2> QED
    BY <1>1, <2>1, <2>2, AnswerStep
<1>2. IInv /\ [Next]_vars => [\A r \in Requests : Answers(r) /\ req'[r].answer.cold =>
        IF req[r].at = "cold" THEN coldAt = now ELSE coldAt + CacheTTL > now]_vars
  BY <1>1
<1> QED
  BY <1>2, InvHolds, PTL DEF Spec, ColdStartEnds

(* A request is answered for its own target, urgency and condition, from the  *)
(* cache only within its TTL.                                                 *)
THEOREM AnswersCorrect == Spec => AnswersMatch
<1>1. ASSUME IInv, [Next]_vars, NEW r \in Requests, Answers(r)
      PROVE  /\ req'[r].answer.key = req[r].key
             /\ req[r].at = "lookup" => \E k \in Keys :
                  cache[k] = [madeAt |-> cache[k].madeAt, answer |-> req'[r].answer]
                  /\ cache[k].madeAt + CacheTTL > now
  <2>1. CASE req[r].at = "lookup"
    <3>1. /\ req[r].key \in Keys /\ Fresh(req[r].key)
          /\ req'[r].answer = cache[req[r].key].answer
      BY <1>1, <2>1, AnswerStep
    <3>2. /\ cache[req[r].key] = [madeAt |-> cache[req[r].key].madeAt, answer |-> cache[req[r].key].answer]
          /\ cache[req[r].key].answer.key = req[r].key
      BY <1>1, <3>1 DEF IInv, CacheInv, EntryOK, Fresh
    <3>3. cache[req[r].key].madeAt + CacheTTL > now
      BY <3>1 DEF Fresh
    <3> QED
      BY <3>1, <3>2, <3>3
  <2>2. CASE req[r].at = "cold"
    <3>1. req'[r].answer = ColdAnswer(req[r].key)
      BY <1>1, <2>2, AnswerStep
    <3>2. ColdAnswer(req[r].key).key = req[r].key
      BY DEF ColdAnswer
    <3> QED
      BY <2>2, <3>1, <3>2
  <2>3. CASE req[r].at = "estimated"
    BY <1>1, <2>3, AnswerStep
  <2> QED
    BY <1>1, <2>1, <2>2, <2>3, AnswerStep
<1>2. IInv /\ [Next]_vars => [\A r \in Requests : Answers(r) =>
        /\ req'[r].answer.key = req[r].key
        /\ req[r].at = "lookup" => \E k \in Keys :
                  cache[k] = [madeAt |-> cache[k].madeAt, answer |-> req'[r].answer]
                  /\ cache[k].madeAt + CacheTTL > now]_vars
  BY <1>1
<1> QED
  BY <1>2, InvHolds, PTL DEF Spec, AnswersMatch

-----------------------------------------------------------------------------
(* Numbers. *)

LEMMA LeastElement ==
    ASSUME NEW T, T \subseteq Nat, T # {}
    PROVE  \E m \in T : \A n \in T : m <= n
<1>1. PICK m \in T : \A n \in T : <<n, m>> \notin OpToRel(<, Nat)
  BY WFMin, NatLessThanWellFounded
<1>2. ASSUME NEW n \in T PROVE m <= n
  <2>1. ~ (n < m)
    BY <1>1, <1>2 DEF OpToRel
  <2> QED
    BY <2>1, SMT
<1> QED
  BY <1>1, <1>2

-----------------------------------------------------------------------------
(* Folds, as the recursive functions of the module define them. *)

(* What holds of 0 and passes from k - 1 to k holds up to n. *)
LEMMA ReachesAll ==
    ASSUME NEW n \in Nat, NEW T, 0 \in T, \A k \in 1..n : k - 1 \in T => k \in T
    PROVE  0..n \subseteq T
<1> DEFINE without == (0..n) \ T
<1>1. SUFFICES ASSUME without # {} PROVE FALSE
  OBVIOUS
<1>2. without \subseteq Nat
  OBVIOUS
<1>3. PICK m \in without : \A k \in without : m <= k
  <2> HIDE DEF without
  <2> QED
    BY <1>1, <1>2, LeastElement
<1>4. m \in 1..n /\ m - 1 \in 0..n
  BY <1>3
<1>5. m - 1 \in T
  BY <1>3, <1>4
<1> QED
  BY <1>3, <1>4, <1>5

IsFold(f, n, base, step) == f[0] = base /\ \A k \in 1..n : f[k] = step[k][f[k - 1]]

(* A function defined by what it is at 0 and how it goes on exists. *)
LEMMA FoldExists ==
    ASSUME NEW n \in Nat, NEW S, NEW base \in S, NEW step \in [1..n -> [S -> S]]
    PROVE  \E f \in [0..n -> S] : IsFold(f, n, base, step)
<1> USE DEF IsFold
<1> DEFINE Upto(f, m) == IsFold(f, m, base, step)
           with == {m \in 0..n : \E f \in [0..m -> S] : Upto(f, m)}
<1>1. 0 \in with
  <2> DEFINE f == [k \in 0..0 |-> base]
  <2>1. f \in [0..0 -> S] /\ Upto(f, 0)
    OBVIOUS
  <2>2. \E h \in [0..0 -> S] : Upto(h, 0)
    BY <2>1
  <2> HIDE DEF Upto
  <2> QED
    BY <2>2
<1>2. ASSUME NEW m \in 1..n, m - 1 \in with PROVE m \in with
  <2>1. PICK f \in [0..m - 1 -> S] : Upto(f, m - 1)
    BY <1>2
  <2> DEFINE g == [k \in 0..m |-> IF k = m THEN step[m][f[m - 1]] ELSE f[k]]
  <2>2. f[m - 1] \in S /\ step[m] \in [S -> S]
    BY <2>1
  <2>3. g \in [0..m -> S]
    BY <2>1, <2>2
  <2>4. g[m] = step[m][f[m - 1]] /\ \A k \in 0..m - 1 : g[k] = f[k]
    OBVIOUS
  <2> HIDE DEF g
  <2>5. g[0] = base
    BY <2>1, <2>4
  <2>6. ASSUME NEW k \in 1..m PROVE g[k] = step[k][g[k - 1]]
    <3>1. CASE k = m
      BY <2>4, <3>1
    <3>2. CASE k # m
      <4>1. k \in 1..m - 1 /\ k - 1 \in 0..m - 1 /\ k \in 0..m - 1
        BY <3>2
      <4> QED
        BY <2>1, <2>4, <4>1
    <3> QED
      BY <3>1, <3>2
  <2>7. \E h \in [0..m -> S] : Upto(h, m)
    BY <2>3, <2>5, <2>6
  <2>8. m \in 0..n
    OBVIOUS
  <2> HIDE DEF Upto
  <2> QED
    BY <2>7, <2>8
<1>3. n \in with
  <2> HIDE DEF with
  <2>1. 0..n \subseteq with
    BY <1>1, <1>2, ReachesAll
  <2> QED
    BY <2>1
<1> QED
  BY <1>3

-----------------------------------------------------------------------------
(* Reading the store. *)

(* What get_since has collected of the first n points. *)
Collected(acc, n, since) ==
    /\ acc \in Seq(Nat)
    /\ \A x \in DOMAIN acc : \E i \in 1..n : store[i].at >= since /\ store[i].fee = acc[x]
    /\ \A i \in 1..n : store[i].at >= since => \E x \in DOMAIN acc : acc[x] = store[i].fee

LEMMA CollectedGrows ==
    ASSUME NEW n \in Nat, NEW since, NEW acc, Collected(acc, n, since), store[n + 1].fee \in Nat
    PROVE  Collected(IF store[n + 1].at >= since THEN Append(acc, store[n + 1].fee) ELSE acc, n + 1, since)
<1>1. acc \in Seq(Nat) /\ Len(acc) \in Nat /\ DOMAIN acc = 1..Len(acc)
  BY DEF Collected
<1>2. CASE store[n + 1].at >= since
  <2> DEFINE more == Append(acc, store[n + 1].fee)
  <2>1. /\ more \in Seq(Nat) /\ DOMAIN more = 1..(Len(acc) + 1)
        /\ more[Len(acc) + 1] = store[n + 1].fee
        /\ \A x \in 1..Len(acc) : more[x] = acc[x]
    BY <1>1
  <2> HIDE DEF more
  <2>2. ASSUME NEW x \in DOMAIN more
        PROVE  \E i \in 1..(n + 1) : store[i].at >= since /\ store[i].fee = more[x]
    <3>1. CASE x = Len(acc) + 1
      BY <1>2, <2>1, <3>1
    <3>2. CASE x \in 1..Len(acc)
      <4> PICK i \in 1..n : store[i].at >= since /\ store[i].fee = acc[x]
        BY <1>1, <3>2 DEF Collected
      <4> QED
        BY <2>1, <3>2
    <3> QED
      BY <1>1, <2>1, <2>2, <3>1, <3>2
  <2>3. ASSUME NEW i \in 1..(n + 1), store[i].at >= since
        PROVE  \E x \in DOMAIN more : more[x] = store[i].fee
    <3>1. CASE i = n + 1
      BY <1>1, <2>1, <3>1
    <3>2. CASE i \in 1..n
      <4> PICK x \in DOMAIN acc : acc[x] = store[i].fee
        BY <2>3, <3>2 DEF Collected
      <4>1. x \in DOMAIN more /\ more[x] = acc[x]
        BY <1>1, <2>1
      <4> QED
        BY <4>1
    <3> QED
      BY <3>1, <3>2
  <2>4. Collected(more, n + 1, since)
    BY <2>1, <2>2, <2>3 DEF Collected
  <2> QED
    BY <1>2, <2>4 DEF more
<1>3. CASE ~(store[n + 1].at >= since)
  <2>1. \A i \in 1..(n + 1) : store[i].at >= since => i \in 1..n
    BY <1>3
  <2>2. Collected(acc, n + 1, since)
    BY <1>1, <2>1 DEF Collected
  <2> QED
    BY <1>3, <2>2
<1> QED
  BY <1>2, <1>3

(* get_since returns the fees of the points at or after a time. *)
LEMMA FeesSinceIs ==
    ASSUME store \in Seq(Point), NEW since
    PROVE  Collected(FeesSince(since), Len(store), since)
<1> DEFINE n == Len(store)
           step == [k \in 1..n |-> [acc \in Seq(Nat) |->
                       IF store[k].at >= since THEN Append(acc, store[k].fee) ELSE acc]]
           upTo == CHOOSE f : f = [k \in 0..n |->
                       IF k = 0 THEN <<>>
                       ELSE IF store[k].at >= since THEN Append(f[k - 1], store[k].fee) ELSE f[k - 1]]
<1>1. n \in Nat
  OBVIOUS
<1>2. \A k \in 1..n : store[k].fee \in Nat
  <2> SUFFICES ASSUME NEW k \in 1..n PROVE store[k].fee \in Nat
    OBVIOUS
  <2>1. store[k] \in Point
    OBVIOUS
  <2> QED
    BY <2>1 DEF Point
<1>3. step \in [1..n -> [Seq(Nat) -> Seq(Nat)]]
  <2> HIDE DEF n
  <2> SUFFICES ASSUME NEW k \in 1..n, NEW acc \in Seq(Nat)
               PROVE  (IF store[k].at >= since THEN Append(acc, store[k].fee) ELSE acc) \in Seq(Nat)
    OBVIOUS
  <2> QED
    BY <1>2
<1>4. PICK f \in [0..n -> Seq(Nat)] : IsFold(f, n, <<>>, step)
  <2>1. <<>> \in Seq(Nat)
    OBVIOUS
  <2> HIDE DEF n, step, upTo
  <2> QED
    BY <1>1, <1>3, <2>1, FoldExists
<1>5. f = [k \in 0..n |-> IF k = 0 THEN <<>>
              ELSE IF store[k].at >= since THEN Append(f[k - 1], store[k].fee) ELSE f[k - 1]]
  <2>1. ASSUME NEW k \in 1..n
        PROVE  f[k] = IF store[k].at >= since THEN Append(f[k - 1], store[k].fee) ELSE f[k - 1]
    <3> HIDE DEF n
    <3>1. f[k - 1] \in Seq(Nat)
      BY <1>1, <1>4
    <3>2. step[k][f[k - 1]] = IF store[k].at >= since THEN Append(f[k - 1], store[k].fee) ELSE f[k - 1]
      BY <3>1
    <3> HIDE DEF step
    <3>3. f[k] = step[k][f[k - 1]]
      BY <1>4 DEF IsFold
    <3> QED
      BY <3>2, <3>3
  <2> HIDE DEF n, step, upTo
  <2>2. f[0] = <<>>
    BY <1>4 DEF IsFold
  <2>3. \A k \in 0..n : k = 0 \/ k \in 1..n
    BY <1>1
  <2>4. f = [k \in 0..n |-> f[k]]
    BY <1>4
  <2> QED
    BY <2>1, <2>2, <2>3, <2>4, Zenon
<1>6. upTo = [k \in 0..n |-> IF k = 0 THEN <<>>
                ELSE IF store[k].at >= since THEN Append(upTo[k - 1], store[k].fee) ELSE upTo[k - 1]]
  BY <1>5
<1>7. FeesSince(since) = upTo[n]
  BY DEF FeesSince
<1> HIDE DEF upTo, n, step
<1> DEFINE T == {k \in 0..n : Collected(upTo[k], k, since)}
<1>8. 0 \in T
  <2>1. upTo[0] = <<>>
    BY <1>1, <1>6
  <2>2. Collected(<<>>, 0, since)
    BY DEF Collected
  <2> QED
    BY <1>1, <2>1, <2>2
<1>9. ASSUME NEW k \in 1..n, k - 1 \in T PROVE k \in T
  <2>1. k - 1 \in Nat /\ (k - 1) + 1 = k /\ k \in 0..n /\ k # 0
    BY <1>1
  <2>2. upTo[k] = IF store[k].at >= since THEN Append(upTo[k - 1], store[k].fee) ELSE upTo[k - 1]
    BY <1>6, <2>1
  <2>3. Collected(upTo[k - 1], k - 1, since)
    BY <1>9
  <2>4. store[k].fee \in Nat
    BY <1>2
  <2>5. Collected(IF store[k].at >= since THEN Append(upTo[k - 1], store[k].fee) ELSE upTo[k - 1], k, since)
    BY <2>1, <2>3, <2>4, CollectedGrows
  <2> QED
    BY <2>1, <2>2, <2>5
<1>10. n \in T
  <2> HIDE DEF T
  <2>1. 0..n \subseteq T
    BY <1>1, <1>8, <1>9, ReachesAll
  <2> QED
    BY <1>1, <2>1
<1> QED
  BY <1>7, <1>10 DEF n

-----------------------------------------------------------------------------
(* The order of fees. *)

AllBefore(fees, j) == {i \in DOMAIN fees : Precedes(fees, i, j)}

LEMMA PrecedesOrders ==
    ASSUME NEW fees \in Seq(Nat), NEW i \in 1..Len(fees), NEW j \in 1..Len(fees)
    PROVE  /\ ~Precedes(fees, i, i)
           /\ i # j => Precedes(fees, i, j) \/ Precedes(fees, j, i)
           /\ \A k \in 1..Len(fees) : Precedes(fees, k, i) /\ Precedes(fees, i, j) => Precedes(fees, k, j)
<1>1. \A k \in 1..Len(fees) : fees[k] \in Nat
  OBVIOUS
<1> QED
  BY <1>1 DEF Precedes

LEMMA UptoFinite ==
    ASSUME NEW n \in Nat
    PROVE  IsFiniteSet(1..n) /\ Cardinality(1..n) = n
<1>1. 1 \in Int /\ n \in Int /\ (1 > n => n = 0) /\ n - 1 + 1 = n
  OBVIOUS
<1> QED
  BY <1>1, FS_Interval

LEMMA PlacesFinite ==
    ASSUME NEW fees \in Seq(Nat), NEW A \in SUBSET (DOMAIN fees)
    PROVE  IsFiniteSet(A) /\ Cardinality(A) \in Nat /\ Cardinality(A) <= Len(fees)
<1>1. DOMAIN fees = 1..Len(fees) /\ Len(fees) \in Nat
  OBVIOUS
<1>2. IsFiniteSet(1..Len(fees)) /\ Cardinality(1..Len(fees)) = Len(fees)
  BY <1>1, UptoFinite
<1> QED
  BY <1>1, <1>2, FS_Subset, FS_CardinalityType

LEMMA RankGrows ==
    ASSUME NEW fees \in Seq(Nat), NEW i \in DOMAIN fees, NEW j \in DOMAIN fees, Precedes(fees, i, j)
    PROVE  Cardinality(AllBefore(fees, i)) < Cardinality(AllBefore(fees, j))
<1> DEFINE I == AllBefore(fees, i)
           J == AllBefore(fees, j)
<1>0. DOMAIN fees = 1..Len(fees)
  OBVIOUS
<1>1. I \in SUBSET J
  BY <1>0, PrecedesOrders DEF AllBefore
<1>2. i \in J /\ i \notin I
  BY <1>0, PrecedesOrders DEF AllBefore
<1>3. J \in SUBSET (DOMAIN fees)
  BY DEF AllBefore
<1> HIDE DEF I, J
<1>4. IsFiniteSet(J) /\ Cardinality(J) \in Nat
  BY <1>3, PlacesFinite
<1>5. /\ IsFiniteSet(I) /\ Cardinality(I) \in Nat
      /\ Cardinality(I) <= Cardinality(J) /\ (Cardinality(J) = Cardinality(I) => J = I)
  BY <1>1, <1>4, FS_Subset, FS_CardinalityType
<1> QED
  BY <1>2, <1>4, <1>5 DEF I, J

(* The k-th of the sorted fees is the one that k - 1 others precede. *)
LEMMA SortedIs ==
    ASSUME NEW fees \in Seq(Nat)
    PROVE  /\ Sorted(fees) \in Seq(Nat) /\ Len(Sorted(fees)) = Len(fees)
           /\ \A k \in 1..Len(fees) :
                 /\ Ranked(fees, k - 1) \in DOMAIN fees
                 /\ Sorted(fees)[k] = fees[Ranked(fees, k - 1)]
                 /\ Cardinality(AllBefore(fees, Ranked(fees, k - 1))) = k - 1
<1> DEFINE n == Len(fees)
           rank == [j \in 1..n |-> Cardinality(AllBefore(fees, j))]
<1>1. n \in Nat /\ DOMAIN fees = 1..n
  OBVIOUS
<1>2. rank \in [1..n -> 0..n - 1]
  <2> SUFFICES ASSUME NEW j \in 1..n PROVE Cardinality(AllBefore(fees, j)) \in 0..n - 1
    OBVIOUS
  <2> DEFINE J == AllBefore(fees, j)
  <2>1. J \in SUBSET (1..n) /\ j \notin J
    BY <1>1, PrecedesOrders DEF AllBefore
  <2> HIDE DEF J
  <2>2. IsFiniteSet(1..n) /\ Cardinality(1..n) = n
    BY <1>1, UptoFinite
  <2>3. IsFiniteSet(J) /\ Cardinality(J) <= n /\ (n = Cardinality(J) => 1..n = J)
    BY <2>1, <2>2, FS_Subset
  <2>4. Cardinality(J) \in Nat
    BY <2>3, FS_CardinalityType
  <2>5. Cardinality(J) # n
    BY <2>1, <2>3
  <2> HIDE DEF n
  <2>6. Cardinality(J) \in 0..n - 1
    BY <1>1, <2>3, <2>4, <2>5
  <2> QED
    BY <2>6 DEF J
<1>3. \A i, j \in 1..n : Precedes(fees, i, j) => rank[i] < rank[j]
  BY <1>1, RankGrows
<1>4. \A i, j \in 1..n : rank[i] = rank[j] => i = j
  <2> SUFFICES ASSUME NEW i \in 1..n, NEW j \in 1..n, i # j PROVE rank[i] # rank[j]
    OBVIOUS
  <2>1. Precedes(fees, i, j) \/ Precedes(fees, j, i)
    BY PrecedesOrders
  <2>2. rank[i] \in Int /\ rank[j] \in Int
    BY <1>1, <1>2
  <2> HIDE DEF rank
  <2> QED
    BY <1>3, <2>1, <2>2
<1>5. rank \in Surjection(1..n, 0..n - 1)
  <2> HIDE DEF rank
  <2>1. rank \in Injection(1..n, 0..n - 1)
    BY <1>2, <1>4 DEF Injection, IsInjective
  <2> HIDE DEF n
  <2>2. IsFiniteSet(0..n - 1) /\ Cardinality(0..n - 1) = n
    <3>1. 0 \in Int /\ n - 1 \in Int /\ (0 > n - 1 => n = 0) /\ (n - 1) - 0 + 1 = n
      BY <1>1
    <3> QED
      BY <3>1, FS_Interval
  <2>3. IsFiniteSet(1..n) /\ Cardinality(1..n) = n
    BY <1>1, UptoFinite
  <2> QED
    BY <2>1, <2>2, <2>3, FS_Injection
<1>6. ASSUME NEW m \in 0..n - 1
      PROVE  Ranked(fees, m) \in 1..n /\ rank[Ranked(fees, m)] = m
  <2>1. \E j \in 1..n : rank[j] = m
    BY <1>5 DEF Surjection
  <2>2. \E j \in DOMAIN fees : Cardinality({i \in DOMAIN fees : Precedes(fees, i, j)}) = m
    BY <1>1, <2>1 DEF AllBefore
  <2> QED
    BY <1>1, <2>2 DEF Ranked, AllBefore
<1>7. ASSUME NEW k \in 1..n
      PROVE  /\ Ranked(fees, k - 1) \in DOMAIN fees
             /\ Cardinality(AllBefore(fees, Ranked(fees, k - 1))) = k - 1
  <2>1. k - 1 \in 0..n - 1
    BY <1>1
  <2>2. Ranked(fees, k - 1) \in 1..n /\ rank[Ranked(fees, k - 1)] = k - 1
    <3> HIDE DEF n, rank
    <3> QED
      BY <1>6, <2>1
  <2> QED
    BY <1>1, <2>2
<1>8. Sorted(fees) = [k \in 1..n |-> fees[Ranked(fees, k - 1)]]
  BY <1>1 DEF Sorted
<1>9. \A k \in 1..n : fees[Ranked(fees, k - 1)] \in Nat
  <2> SUFFICES ASSUME NEW k \in 1..n PROVE fees[Ranked(fees, k - 1)] \in Nat
    OBVIOUS
  <2> HIDE DEF n
  <2>1. Ranked(fees, k - 1) \in DOMAIN fees
    BY <1>7
  <2> QED
    BY <2>1
<1> HIDE DEF n
<1>10. Sorted(fees) \in Seq(Nat) /\ Len(Sorted(fees)) = n
  BY <1>1, <1>8, <1>9
<1>11. \A k \in 1..n : Sorted(fees)[k] = fees[Ranked(fees, k - 1)]
  BY <1>8
<1> QED
  BY <1>7, <1>10, <1>11 DEF n

-----------------------------------------------------------------------------
(* What an answer holds. *)

LEMMA MaxOfTwo ==
    ASSUME NEW a \in Int, NEW b \in Int
    PROVE  Max({a, b}) = IF a >= b THEN a ELSE b
<1> DEFINE m == IF a >= b THEN a ELSE b
<1>1. m \in {a, b} /\ \A y \in {a, b} : m >= y
  OBVIOUS
<1>2. Max({a, b}) \in {a, b} /\ \A y \in {a, b} : Max({a, b}) >= y
  <2> HIDE DEF m
  <2> QED
    BY <1>1 DEF Max
<1> QED
  BY <1>2

LEMMA MinOfTwo ==
    ASSUME NEW a \in Int, NEW b \in Int
    PROVE  Min({a, b}) = IF a <= b THEN a ELSE b
<1> DEFINE m == IF a <= b THEN a ELSE b
<1>1. m \in {a, b} /\ \A y \in {a, b} : m <= y
  OBVIOUS
<1>2. Min({a, b}) \in {a, b} /\ \A y \in {a, b} : Min({a, b}) <= y
  <2> HIDE DEF m
  <2> QED
    BY <1>1 DEF Min
<1> QED
  BY <1>2

(* The percentiles that are asked for, and the place of one. *)
Shares == {30, 50, 60, 80, 90, 95}

LEMMA PercentilePlace ==
    ASSUME NEW n \in Nat \ {0}, NEW p \in Shares
    PROVE  Max({1, (p * n + 99) \div 100}) \in 1..n
<1>1. (p * n + 99) \div 100 \in Int /\ (p * n + 99) \div 100 <= n
  <2>1. CASE p = 30
    BY <2>1
  <2>2. CASE p = 50
    BY <2>2
  <2>3. CASE p = 60
    BY <2>3
  <2>4. CASE p = 80
    BY <2>4
  <2>5. CASE p = 90
    BY <2>5
  <2>6. CASE p = 95
    BY <2>6
  <2> QED
    BY <2>1, <2>2, <2>3, <2>4, <2>5, <2>6 DEF Shares
<1> QED
  BY <1>1, MaxOfTwo

LEMMA NearestRankType ==
    ASSUME NEW sorted \in Seq(Nat), Len(sorted) # 0, NEW p \in Shares
    PROVE  NearestRank(sorted, p) \in Nat
<1>1. Len(sorted) \in Nat \ {0}
  OBVIOUS
<1>2. Max({1, (p * Len(sorted) + 99) \div 100}) \in 1..Len(sorted)
  BY <1>1, PercentilePlace
<1> QED
  BY <1>2 DEF NearestRank

LEMMA AdjustedType ==
    ASSUME NEW fee \in Nat, NEW short \in Seq(Nat), NEW long \in Seq(Nat), Len(long) # 0,
           NEW p \in Shares
    PROVE  Adjusted(fee, short, long, p) \in Nat
<1>1. CASE short = <<>>
  BY <1>1 DEF Adjusted
<1>2. CASE short # <<>>
  <2>1. Multiplier(NearestRank(short, p), NearestRank(long, p)) \in {125, 110, 92, 100}
    <3>1. PICK x, y : x = NearestRank(short, p) /\ y = NearestRank(long, p)
      OBVIOUS
    <3>2. Multiplier(x, y) \in {125, 110, 92, 100}
      BY DEF Multiplier
    <3> QED
      BY <3>1, <3>2, Zenon
  <2>2. ASSUME NEW m \in {125, 110, 92, 100} PROVE (fee * m) \div 100 \in Nat
    <3>1. CASE m = 125
      BY <3>1
    <3>2. CASE m = 110
      BY <3>2
    <3>3. CASE m = 92
      BY <3>3
    <3>4. CASE m = 100
      BY <3>4
    <3> QED
      BY <3>1, <3>2, <3>3, <3>4, <2>2
  <2> QED
    BY <2>1, <2>2 DEF Adjusted
<1> QED
  BY <1>1, <1>2

LEMMA EstimateWaitIs ==
    ASSUME NEW fee, NEW sorted, NEW target \in Nat \ {0}
    PROVE  EstimateWait(fee, sorted, target) \in 1..target
<1>1. EstimateWaitUncapped(fee, sorted, target) \in {1, 2, 5}
  BY Zenon DEF EstimateWaitUncapped
<1>2. ASSUME NEW w \in {1, 2, 5} PROVE Min({target, w}) \in 1..target
  BY <1>2, MinOfTwo
<1> QED
  BY <1>1, <1>2 DEF EstimateWait

(* An estimate is made from a store with samples. *)
LEMMA WarmAnswerType ==
    ASSUME IInv, NEW key \in Keys, NEW cap \in Caps \cup {NoCap}, ~IsCold(store, now)
    PROVE  IsAnswer(WarmAnswer(key, cap))
<1> DEFINE fees == FeesSince(now - HistoryWindow)
           long == Sorted(fees)
           short == Sorted(FeesSince(now - ShortWindow))
           p == Percentile[key[2]]
           adjusted == Adjusted(NearestRank(long, p), short, long, p)
           fee == IF cap = NoCap THEN adjusted ELSE Min({adjusted, cap})
<1>1. store \in Seq(Point) /\ now \in Nat
  BY DEF IInv, TimesInv
<1>2. Collected(fees, Len(store), now - HistoryWindow)
      /\ Collected(FeesSince(now - ShortWindow), Len(store), now - ShortWindow)
  BY <1>1, FeesSinceIs
<1>3. fees # <<>>
  <2>1. Samples(store, now) # {}
    <3>1. SUFFICES ASSUME Samples(store, now) = {} PROVE FALSE
      OBVIOUS
    <3>2. Cardinality(Samples(store, now)) = 0
      BY <3>1, FS_EmptySet
    <3> QED
      BY <3>2, AdviceAssumption DEF IsCold
  <2>2. PICK i \in DOMAIN store : store[i].at >= now - HistoryWindow
    BY <2>1 DEF Samples
  <2>3. i \in 1..Len(store)
    BY <1>1
  <2>4. PICK x \in DOMAIN fees : fees[x] = store[i].fee
    BY <1>2, <2>2, <2>3 DEF Collected
  <2> QED
    BY <2>4
<1>4. fees \in Seq(Nat) /\ FeesSince(now - ShortWindow) \in Seq(Nat)
  BY <1>2 DEF Collected
<1> HIDE DEF fees
<1>5. long \in Seq(Nat) /\ Len(long) # 0 /\ short \in Seq(Nat)
  BY <1>3, <1>4, SortedIs
<1>6. key \in Ledgers \X Urgencies \X Conditions
  BY DEF Keys
<1>7. key[1] \in Nat \ {0} /\ key[2] \in {"low", "medium", "high", "urgent"}
  <2>1. key[1] \in Ledgers /\ key[2] \in Urgencies
    BY <1>6
  <2>2. key[1] \in 1..100
    BY <2>1, AdviceAssumption
  <2>3. key[2] \in {"low", "medium", "high", "urgent"}
    BY <2>1, AdviceAssumption, Zenon
  <2> QED
    BY <2>2, <2>3
<1>8. p \in Shares
  BY <1>7 DEF Percentile, Shares
<1> HIDE DEF long, short, p
<1>9. adjusted \in Nat
  <2>1. NearestRank(long, p) \in Nat
    BY <1>5, <1>8, NearestRankType
  <2> DEFINE base == NearestRank(long, p)
  <2> HIDE DEF base
  <2>2. base \in Nat
    BY <2>1 DEF base
  <2>3. Adjusted(base, short, long, p) \in Nat
    BY <1>5, <1>8, <2>2, AdjustedType
  <2> QED
    BY <2>3 DEF base
<1> HIDE DEF adjusted
<1>10. fee \in Nat
  BY <1>9, MinOfTwo, AdviceAssumption DEF NoCap
<1>11. WarmAnswer(key, cap) = [cold |-> FALSE, key |-> key, fee |-> fee, wait |-> EstimateWait(fee, long, key[1])]
  BY DEF WarmAnswer, fees, long, short, p, adjusted
<1> HIDE DEF fee
<1>12. EstimateWait(fee, long, key[1]) \in 1..key[1]
  BY <1>7, EstimateWaitIs
<1> QED
  BY <1>10, <1>11, <1>12 DEF IsAnswer

LEMMA ColdAnswerType ==
    ASSUME NEW key \in Keys
    PROVE  IsAnswer(ColdAnswer(key))
<1>1. key \in Ledgers \X Urgencies \X Conditions
  BY DEF Keys
<1>2. key[1] \in 1..100 /\ key[2] \in {"low", "medium", "high", "urgent"}
  BY <1>1, AdviceAssumption
<1>3. Fallback[key[2]] \in Nat /\ key[1] \in 1..key[1]
  BY <1>2 DEF Fallback
<1> QED
  BY <1>3 DEF IsAnswer, ColdAnswer

-----------------------------------------------------------------------------
(* The types. *)

Stages == {"idle", "lookup", "missed", "cold", "estimated", "answered", "recommended",
           "simple", "failed", "recent", "compared", "advised"}

RequestTyped(q) == q.at \in Stages /\ (q.at \in {"answered", "estimated"} => IsAnswer(q.answer))

LEMMA InitTypes == Init => TypeOK
<1> SUFFICES ASSUME Init PROVE TypeOK
  OBVIOUS
<1>1. now = 0 /\ coldAt = (IF IsCold(store, 0) THEN 0 ELSE -CacheTTL) /\ insights = <<"normal", 0>>
  BY DEF Init
<1>2. now \in 0..MaxTime /\ coldAt \in -CacheTTL..now /\ insights \in Published
  BY <1>1, AdviceAssumption
<1>3. \A i \in DOMAIN store : store[i].fee \in Nat /\ store[i].at \in 0..now
  <2> PICK fees \in Rehydrated : store = [i \in DOMAIN fees |-> [fee |-> fees[i], at |-> 0, pushed |-> FALSE]]
    BY DEF Init
  <2>1. fees \in Seq(Nat)
    BY AdviceAssumption
  <2> QED
    BY <1>1, <2>1
<1>4. \A k \in Keys : cache[k] = NoEntry
  BY DEF Init
<1>5. \A r \in Requests : req[r].at = "idle"
  BY DEF Init, Idle
<1> QED
  BY <1>2, <1>3, <1>4, <1>5 DEF TypeOK

LEMMA TypedMoves ==
    ASSUME IInv, TypeOK, NEW r \in Requests, NEW q, RequestTyped(q), req' = [req EXCEPT ![r] = q],
           UNCHANGED <<now, store, insights, cache, coldAt>>
    PROVE  TypeOK'
<1>1. \A s \in Requests : req'[s] = IF s = r THEN q ELSE req[s]
  BY DEF IInv, RequestsInv
<1> QED
  BY <1>1 DEF TypeOK, RequestTyped, Stages, IsAnswer

LEMMA ReturnedTyped ==
    ASSUME NEW r, NEW answer, IsAnswer(answer), Returned(r, answer)
    PROVE  \E q : RequestTyped(q) /\ req' = [req EXCEPT ![r] = q]
<1> DEFINE q == IF req[r].simple THEN [at |-> "recommended"] ELSE [at |-> "answered", answer |-> answer]
<1>1. \/ q.at = "recommended"
      \/ q.at = "answered" /\ q.answer = answer
  OBVIOUS
<1>2. req' = [req EXCEPT ![r] = q]
  BY DEF Returned
<1> HIDE DEF q
<1> QED
  BY <1>1, <1>2 DEF RequestTyped, Stages

LEMMA CachedTypes ==
    ASSUME IInv, TypeOK, NEW r \in Requests, NEW key \in Keys, NEW answer, IsAnswer(answer),
           cache' = Cached(key, answer), Returned(r, answer), UNCHANGED <<now, store, insights, coldAt>>
    PROVE  TypeOK'
<1> PICK q : RequestTyped(q) /\ req' = [req EXCEPT ![r] = q]
  BY ReturnedTyped
<1>1. \A s \in Requests : req'[s] = IF s = r THEN q ELSE req[s]
  BY DEF IInv, RequestsInv
<1>2. \A k \in Keys : cache'[k] = IF k = key THEN [madeAt |-> now, answer |-> answer] ELSE cache[k]
  BY DEF IInv, CacheInv, Cached
<1>3. now \in 0..now
  BY DEF TypeOK
<1>4. \A k \in Keys : cache'[k] # NoEntry => cache'[k].madeAt \in 0..now /\ IsAnswer(cache'[k].answer)
  <2> SUFFICES ASSUME NEW k \in Keys, cache'[k] # NoEntry
               PROVE  cache'[k].madeAt \in 0..now /\ IsAnswer(cache'[k].answer)
    OBVIOUS
  <2>1. CASE k = key
    BY <1>2, <1>3, <2>1
  <2>2. CASE k # key
    BY <1>2, <2>2 DEF TypeOK
  <2> QED
    BY <2>1, <2>2
<1>5. \A s \in Requests : RequestTyped(req'[s])
  BY <1>1 DEF TypeOK, RequestTyped, Stages
<1> QED
  BY <1>4, <1>5 DEF TypeOK, RequestTyped, Stages, IsAnswer

LEMMA StepTypes ==
    ASSUME IInv, TypeOK, NEW r \in Requests, Step(r)
    PROVE  TypeOK'
<1>0. RequestOK(req[r]) /\ RequestTyped(req[r])
  BY DEF IInv, RequestsInv, TypeOK, RequestTyped, Stages
<1>1. ASSUME NEW q, req' = [req EXCEPT ![r] = q], q.at \in Stages \ {"answered", "estimated"},
             UNCHANGED <<now, store, insights, cache, coldAt>>
      PROVE  TypeOK'
  <2>1. RequestTyped(q)
    BY <1>1 DEF RequestTyped
  <2> QED
    BY <1>1, <2>1, TypedMoves
<1>2. CASE Recommend(r) \/ GetRecommend(r)
  <2> PICK ledgers, urgency, cap, simple : Ask(r, ledgers, urgency, cap, simple)
    BY <1>2 DEF Recommend, GetRecommend
  <2> DEFINE q == [at |-> "lookup", key |-> <<ledgers, urgency, insights[1]>>, cap |-> cap, simple |-> simple]
  <2>1. req' = [req EXCEPT ![r] = q] /\ q.at = "lookup" /\ UNCHANGED <<now, store, insights, cache, coldAt>>
    BY DEF Ask
  <2> HIDE DEF q
  <2> QED
    BY <2>1, <1>1 DEF Stages
<1>3. CASE Hit(r)
  <2>1. req[r].key \in Keys
    BY <1>0, <1>3 DEF Hit, RequestOK, Pending
  <2>2. IsAnswer(cache[req[r].key].answer)
    BY <1>3, <2>1 DEF Hit, Fresh, TypeOK
  <2> QED
    BY <1>3, <2>2, ReturnedTyped, TypedMoves DEF Hit
<1>4. CASE Miss(r) \/ StartCold(r)
  <2>1. req[r] \in Pending
    BY <1>0, <1>4 DEF RequestOK, Miss, StartCold
  <2>2. PICK at \in {"missed", "cold"} : req' = [req EXCEPT ![r].at = at]
    BY <1>4 DEF Miss, StartCold
  <2> DEFINE q == [req[r] EXCEPT !.at = at]
  <2>3. req' = [req EXCEPT ![r] = q] /\ q.at \in {"missed", "cold"}
    BY <2>1, <2>2 DEF Pending
  <2>4. UNCHANGED <<now, store, insights, cache, coldAt>>
    BY <1>4 DEF Miss, StartCold
  <2> HIDE DEF q
  <2> QED
    BY <2>3, <2>4, <1>1 DEF Stages
<1>5. CASE AnswerCold(r)
  <2>1. req[r].key \in Keys
    BY <1>0, <1>5 DEF AnswerCold, RequestOK, Pending
  <2> QED
    BY <1>5, <2>1, ColdAnswerType, CachedTypes DEF AnswerCold
<1>6. CASE Estimate(r)
  <2>1. req[r].key \in Keys /\ req[r].cap \in Caps \cup {NoCap} /\ ~IsCold(store, now)
    BY <1>0, <1>6 DEF Estimate, RequestOK, Pending
  <2> DEFINE answer == WarmAnswer(req[r].key, req[r].cap)
             q == [at |-> "estimated", key |-> req[r].key, simple |-> req[r].simple, answer |-> answer]
  <2>2. IsAnswer(answer)
    BY <2>1, WarmAnswerType
  <2>3. req' = [req EXCEPT ![r] = q] /\ UNCHANGED <<now, store, insights, cache, coldAt>>
    BY <1>6 DEF Estimate
  <2> HIDE DEF answer
  <2>4. RequestTyped(q)
    BY <2>2 DEF RequestTyped, Stages
  <2> HIDE DEF q
  <2> QED
    BY <2>3, <2>4, TypedMoves
<1>7. CASE AnswerWarm(r)
  <2>1. req[r].key \in Keys /\ IsAnswer(req[r].answer)
    BY <1>0, <1>7 DEF AnswerWarm, RequestOK, RequestTyped
  <2> QED
    BY <1>7, <2>1, CachedTypes DEF AnswerWarm
<1>8. CASE AnswerSimple(r)
  <2> DEFINE q == IF store = <<>> THEN [at |-> "failed"] ELSE [at |-> "simple", answer |-> SimpleAnswer]
  <2>1. req' = [req EXCEPT ![r] = q] /\ UNCHANGED <<now, store, insights, cache, coldAt>>
    BY <1>8 DEF AnswerSimple
  <2>2. q.at \in {"failed", "simple"}
    OBVIOUS
  <2> HIDE DEF q
  <2> QED
    BY <2>1, <2>2, <1>1 DEF Stages
<1>9. CASE ReadRecent(r)
  <2> DEFINE q == [at |-> "recent", asOf |-> now, recent |-> FeesSince(now - RecentWindow)]
  <2>1. req' = [req EXCEPT ![r] = q] /\ q.at = "recent" /\ UNCHANGED <<now, store, insights, cache, coldAt>>
    BY <1>9 DEF ReadRecent
  <2> HIDE DEF q
  <2> QED
    BY <2>1, <1>1 DEF Stages
<1>10. CASE ReadHistory(r)
  <2> DEFINE q == [at |-> "compared", recent |-> req[r].recent, history |-> FeesSince(req[r].asOf - WaitWindow)]
  <2>1. req' = [req EXCEPT ![r] = q] /\ q.at = "compared" /\ UNCHANGED <<now, store, insights, cache, coldAt>>
    BY <1>10 DEF ReadHistory
  <2> HIDE DEF q
  <2> QED
    BY <2>1, <1>1 DEF Stages
<1>11. CASE Advise(r)
  <2> DEFINE q == [at |-> "advised", recent |-> req[r].recent, history |-> req[r].history,
                   spikes |-> insights[2], advice |-> Advice(req[r].recent, req[r].history, insights[2])]
  <2>1. req' = [req EXCEPT ![r] = q] /\ q.at = "advised" /\ UNCHANGED <<now, store, insights, cache, coldAt>>
    BY <1>11 DEF Advise
  <2> HIDE DEF q
  <2> QED
    BY <2>1, <1>1 DEF Stages
<1>12. CASE Done(r)
  BY <1>1, <1>12 DEF Done, Idle, Stages
<1> QED
  BY <1>2, <1>3, <1>4, <1>5, <1>6, <1>7, <1>8, <1>9, <1>10, <1>11, <1>12 DEF Step

LEMMA PushTypes ==
    ASSUME IInv, TypeOK, NEW fee \in Fees, Push(fee)
    PROVE  TypeOK'
<1>1. /\ store' = Append(store, [fee |-> fee, at |-> now, pushed |-> TRUE])
      /\ coldAt' \in {now, coldAt} /\ UNCHANGED <<now, insights, cache, req>>
  BY DEF Push
<1>2. now \in 0..MaxTime /\ coldAt \in -CacheTTL..now /\ fee \in Nat
  BY AdviceAssumption DEF TypeOK
<1>3. coldAt' \in -CacheTTL..now' /\ now' \in 0..MaxTime
  BY <1>1, <1>2, AdviceAssumption
<1>4. \A i \in DOMAIN store' : store'[i].fee \in Nat /\ store'[i].at \in 0..now'
  <2> SUFFICES ASSUME NEW i \in DOMAIN store' PROVE store'[i].fee \in Nat /\ store'[i].at \in 0..now'
    OBVIOUS
  <2>1. store \in Seq(Point)
    BY DEF IInv, TimesInv
  <2>2. CASE i = Len(store) + 1
    <3>1. store'[i] = [fee |-> fee, at |-> now, pushed |-> TRUE]
      BY <1>1, <2>1, <2>2
    <3> QED
      BY <1>1, <1>2, <3>1
  <2>3. CASE i \in DOMAIN store
    <3>1. store'[i] = store[i]
      BY <1>1, <2>1, <2>3
    <3> QED
      BY <1>1, <2>3, <3>1 DEF TypeOK
  <2> QED
    BY <1>1, <2>1, <2>2, <2>3
<1> QED
  BY <1>1, <1>3, <1>4 DEF TypeOK, IsAnswer

LEMMA TickTypes ==
    ASSUME TypeOK, Tick
    PROVE  TypeOK'
<1>1. /\ now < MaxTime /\ now' = now + 1 /\ UNCHANGED <<store, insights, cache, req>>
      /\ coldAt' \in {now + 1, coldAt}
  BY DEF Tick
<1>2. now \in 0..MaxTime /\ coldAt \in -CacheTTL..now
  BY DEF TypeOK
<1>3. coldAt' \in -CacheTTL..now' /\ now' \in 0..MaxTime /\ 0..now \subseteq 0..now'
  BY <1>1, <1>2, AdviceAssumption
<1> QED
  BY <1>1, <1>3 DEF TypeOK, IsAnswer

LEMMA NextTypes == IInv /\ TypeOK /\ [Next]_vars => TypeOK'
<1> SUFFICES ASSUME IInv, TypeOK, [Next]_vars PROVE TypeOK'
  OBVIOUS
<1>1. CASE Publish
  BY <1>1 DEF Publish, TypeOK, IsAnswer
<1>2. CASE UNCHANGED vars
  BY <1>2 DEF vars, TypeOK, IsAnswer
<1> QED
  BY <1>1, <1>2, StepTypes, PushTypes, TickTypes DEF Next

(* Every answer, from the cache or not, is a fee that is no negative number and *)
(* a wait of at least one ledger and at most the request's target.             *)
THEOREM TypeCorrect == Spec => []TypeOK
  BY InitTypes, NextTypes, InvHolds, PTL DEF Spec

-----------------------------------------------------------------------------
(* What an advisory is made of. *)

(* u adds x up, place after place. *)
IsSum(u, n, x) == u[0] = 0 /\ \A k \in 1..n : u[k] = u[k - 1] + x[k]

LEMMA TotalSums ==
    ASSUME NEW x \in Seq(Int)
    PROVE  \E u \in [0..Len(x) -> Int] : IsSum(u, Len(x), x) /\ Total(x) = u[Len(x)]
<1> DEFINE n == Len(x)
           Z == Int
           step == [k \in 1..n |-> [sum \in Z |-> sum + x[k]]]
           upTo == CHOOSE f : f = [k \in 0..n |-> IF k = 0 THEN 0 ELSE f[k - 1] + x[k]]
<1>1. n \in Nat /\ \A k \in 1..n : x[k] \in Int
  OBVIOUS
<1>2. step \in [1..n -> [Z -> Z]] /\ 0 \in Z
  BY <1>1
<1>3. PICK f \in [0..n -> Z] : IsFold(f, n, 0, step)
  <2> HIDE DEF n, step, upTo, Z
  <2> QED
    BY <1>1, <1>2, FoldExists
<1>4. \A k \in 0..n : f[k] \in Int
  <2> HIDE DEF n, step
  <2> QED
    BY <1>3
<1>5. f[0] = 0 /\ \A k \in 1..n : f[k] = f[k - 1] + x[k]
  <2>1. ASSUME NEW k \in 1..n PROVE f[k] = f[k - 1] + x[k]
    <3> HIDE DEF n
    <3>1. f[k - 1] \in Int
      BY <1>1, <1>4
    <3>2. step[k][f[k - 1]] = f[k - 1] + x[k]
      BY <3>1
    <3> HIDE DEF step, Z
    <3>3. f[k] = step[k][f[k - 1]]
      BY <1>3 DEF IsFold
    <3> QED
      BY <3>2, <3>3
  <2> QED
    BY <1>3, <2>1 DEF IsFold
<1>6. f = [k \in 0..n |-> IF k = 0 THEN 0 ELSE f[k - 1] + x[k]]
  <2> HIDE DEF n, step, upTo, Z
  <2>1. f = [k \in 0..n |-> f[k]]
    BY <1>3
  <2>2. \A k \in 0..n : k = 0 \/ k \in 1..n
    BY <1>1
  <2> QED
    BY <1>5, <2>1, <2>2, Zenon
<1>7. upTo = [k \in 0..n |-> IF k = 0 THEN 0 ELSE upTo[k - 1] + x[k]]
  BY <1>6
<1>8. Total(x) = upTo[n]
  BY DEF Total
<1> HIDE DEF upTo, step, n, Z
<1>9. upTo[0] = 0 /\ \A k \in 1..n : upTo[k] = upTo[k - 1] + x[k]
  BY <1>1, <1>7
<1>10. \A k \in 0..n : upTo[k] = f[k]
  <2> DEFINE same == {k \in 0..n : upTo[k] = f[k]}
  <2>1. 0 \in same /\ \A k \in 1..n : k - 1 \in same => k \in same
    BY <1>1, <1>5, <1>9
  <2>2. 0..n \subseteq same
    <3> HIDE DEF same
    <3> QED
      BY <1>1, <2>1, ReachesAll
  <2> QED
    BY <2>2
<1>11. upTo \in [0..n -> Int]
  <2>1. \A k \in 0..n : upTo[k] \in Int
    BY <1>4, <1>10
  <2>2. upTo = [k \in 0..n |-> upTo[k]]
    BY <1>7
  <2> QED
    BY <2>1, <2>2
<1> QED
  BY <1>8, <1>9, <1>11 DEF n, IsSum

LEMMA TotalFolds ==
    ASSUME NEW fees \in Seq(Nat)
    PROVE  \E u \in [0..Len(fees) -> Nat] :
              u[0] = 0 /\ (\A k \in 1..Len(fees) : u[k] = u[k - 1] + fees[k]) /\ Total(fees) = u[Len(fees)]
<1>1. Len(fees) \in Nat /\ fees \in Seq(Int) /\ \A k \in 1..Len(fees) : fees[k] \in Nat
  OBVIOUS
<1>2. PICK u \in [0..Len(fees) -> Int] : IsSum(u, Len(fees), fees) /\ Total(fees) = u[Len(fees)]
  BY <1>1, TotalSums
<1> DEFINE T == {k \in 0..Len(fees) : u[k] \in Nat}
<1>3. 0 \in T /\ \A k \in 1..Len(fees) : k - 1 \in T => k \in T
  BY <1>1, <1>2 DEF IsSum
<1>4. 0..Len(fees) \subseteq T
  <2> HIDE DEF T
  <2> QED
    BY <1>1, <1>3, ReachesAll
<1>5. u \in [0..Len(fees) -> Nat]
  BY <1>4
<1> QED
  BY <1>2, <1>5 DEF IsSum

LEMMA TotalGrows ==
    ASSUME NEW a \in Seq(Nat), NEW b \in Seq(Nat), Len(a) = Len(b),
           \A k \in 1..Len(a) : a[k] <= b[k]
    PROVE  Total(a) \in Nat /\ Total(b) \in Nat /\ Total(a) <= Total(b)
<1> PICK u \in [0..Len(a) -> Nat] :
        u[0] = 0 /\ (\A k \in 1..Len(a) : u[k] = u[k - 1] + a[k]) /\ Total(a) = u[Len(a)]
  BY TotalFolds
<1> PICK v \in [0..Len(b) -> Nat] :
        v[0] = 0 /\ (\A k \in 1..Len(b) : v[k] = v[k - 1] + b[k]) /\ Total(b) = v[Len(b)]
  BY TotalFolds
<1> DEFINE T == {k \in 0..Len(a) : u[k] <= v[k]}
<1>1. Len(a) \in Nat /\ \A k \in 1..Len(a) : a[k] \in Nat /\ b[k] \in Nat
  OBVIOUS
<1>2. 0 \in T
  BY <1>1
<1>3. ASSUME NEW k \in 1..Len(a), k - 1 \in T PROVE k \in T
  <2>1. k - 1 \in 0..Len(a) /\ k \in 0..Len(a)
    BY <1>1
  <2>2. u[k - 1] \in Nat /\ v[k - 1] \in Nat /\ u[k - 1] <= v[k - 1] /\ a[k] \in Nat /\ b[k] \in Nat
    BY <1>1, <1>3, <2>1
  <2>3. u[k] = u[k - 1] + a[k] /\ v[k] = v[k - 1] + b[k] /\ a[k] <= b[k]
    OBVIOUS
  <2> QED
    BY <2>1, <2>2, <2>3
<1>4. Len(a) \in T
  <2> HIDE DEF T
  <2>1. 0..Len(a) \subseteq T
    BY <1>1, <1>2, <1>3, ReachesAll
  <2> QED
    BY <1>1, <2>1
<1> QED
  BY <1>1, <1>4

LEMMA TotalType ==
    ASSUME NEW fees \in Seq(Nat)
    PROVE  Total(fees) \in Nat
<1> PICK u \in [0..Len(fees) -> Nat] : Total(fees) = u[Len(fees)]
  BY TotalFolds
<1> QED
  OBVIOUS

LEMMA TimesGrows ==
    ASSUME NEW a \in Int, NEW b \in Int, NEW c \in Nat, a <= b
    PROVE  a * c <= b * c
<1>1. (b - a) * c >= 0
  OBVIOUS
<1> QED
  BY <1>1

LEMMA DivGrows ==
    ASSUME NEW a \in Nat, NEW b \in Nat, NEW c \in Nat \ {0}, a <= b
    PROVE  a \div c <= b \div c
<1> DEFINE p == a \div c
           q == b \div c
<1>1. p \in Nat /\ q \in Nat
  OBVIOUS
<1>2. p * c <= a /\ b < (q + 1) * c
  OBVIOUS
<1> HIDE DEF p, q
<1>3. q + 1 <= p => (q + 1) * c <= p * c
  BY <1>1, TimesGrows
<1>4. p * c \in Int /\ (q + 1) * c \in Int
  BY <1>1
<1>5. ~(q + 1 <= p)
  BY <1>2, <1>3, <1>4
<1>6. p <= q
  BY <1>1, <1>5
<1> QED
  BY <1>6 DEF p, q

(* The median of the history is a fee of it, and with fewer than half of them  *)
(* below a fee it is not below it either.                                      *)
LEMMA MedianIs ==
    ASSUME NEW history \in Seq(Nat), history # <<>>
    PROVE  /\ \E i \in DOMAIN history : NearestRank(Sorted(history), 50) = history[i]
           /\ \A fee \in Nat : 2 * Below(history, fee) < Len(history) =>
                 fee <= NearestRank(Sorted(history), 50)
<1> DEFINE n == Len(history)
           k == Max({1, (50 * n + 99) \div 100})
           i == Ranked(history, k - 1)
<1>1. n \in Nat \ {0} /\ DOMAIN history = 1..n
  OBVIOUS
<1>2. k \in 1..n
  BY <1>1, PercentilePlace DEF Shares
<1>3. 2 * k >= n
  <2>1. (50 * n + 99) \div 100 \in Int /\ 100 * ((50 * n + 99) \div 100) + 100 > 50 * n + 99
    BY <1>1
  <2>2. k >= (50 * n + 99) \div 100
    BY <2>1, MaxOfTwo
  <2> HIDE DEF k, n
  <2> QED
    BY <1>1, <1>2, <2>1, <2>2
<1>4. Len(Sorted(history)) = n
  BY SortedIs
<1>5. NearestRank(Sorted(history), 50) = Sorted(history)[k]
  BY <1>4 DEF NearestRank
<1> HIDE DEF k
<1>6. i \in DOMAIN history /\ Sorted(history)[k] = history[i] /\ Cardinality(AllBefore(history, i)) = k - 1
  BY <1>2, SortedIs
<1> HIDE DEF i, n
<1>7. ASSUME NEW fee \in Nat, history[i] < fee PROVE k <= Below(history, fee)
  <2> DEFINE B == {j \in DOMAIN history : history[j] < fee}
             A == AllBefore(history, i)
  <2>1. \A j \in DOMAIN history : history[j] \in Nat
    OBVIOUS
  <2>2. A \cup {i} \subseteq B /\ i \notin A /\ A \in SUBSET (DOMAIN history) /\ B \in SUBSET (DOMAIN history)
    BY <1>6, <1>7, <2>1 DEF AllBefore, Precedes
  <2>3. Below(history, fee) = Cardinality(B)
    BY DEF Below
  <2> HIDE DEF A, B
  <2>4. IsFiniteSet(A) /\ IsFiniteSet(B) /\ Cardinality(B) \in Nat
    BY <2>2, PlacesFinite
  <2>5. IsFiniteSet(A \cup {i}) /\ Cardinality(A \cup {i}) = Cardinality(A) + 1
    BY <2>2, <2>4, FS_AddElement
  <2>6. Cardinality(A \cup {i}) <= Cardinality(B)
    BY <2>2, <2>4, FS_Subset
  <2>7. Cardinality(A) = k - 1
    BY <1>6 DEF A
  <2> QED
    BY <1>1, <1>2, <2>3, <2>4, <2>5, <2>6, <2>7
<1>8. ASSUME NEW fee \in Nat, 2 * Below(history, fee) < n PROVE fee <= history[i]
  <2>1. Below(history, fee) \in Nat
    <3> DEFINE B == {j \in DOMAIN history : history[j] < fee}
    <3>1. Cardinality(B) \in Nat
      BY PlacesFinite
    <3> QED
      BY <3>1 DEF Below
  <2>2. history[i] \in Nat
    BY <1>6
  <2>3. ~(k <= Below(history, fee))
    BY <1>1, <1>2, <1>3, <1>8, <2>1
  <2> QED
    BY <1>7, <2>2, <2>3
<1> QED
  BY <1>5, <1>6, <1>8 DEF n

LEMMA AmountsAre == Amounts \subseteq Nat /\ Fees \subseteq Amounts
<1>1. \A fees \in Rehydrated : ToSet(fees) \subseteq Nat
  <2> TAKE fees \in Rehydrated
  <2>1. fees \in Seq(Nat)
    BY AdviceAssumption
  <2> QED
    BY <2>1 DEF ToSet
<1>2. Fees \subseteq Nat
  BY AdviceAssumption
<1> QED
  BY <1>1, <1>2 DEF Amounts

(* A dearer fee scores no less, and one up to the median nothing.              *)
LEMMA FeeScoreGrows ==
    ASSUME NEW f \in Amounts, NEW g \in Amounts, NEW median \in Amounts, f <= g
    PROVE  /\ FeeScore(f, median) \in Nat /\ FeeScore(g, median) \in Nat
           /\ FeeScore(f, median) <= FeeScore(g, median)
           /\ g <= median => FeeScore(g, median) = 0
<1>1. f \in Nat /\ g \in Nat /\ median \in Nat
  BY AmountsAre
<1>2. ASSUME NEW x \in Amounts, ~(median = 0 \/ x <= median)
      PROVE  /\ FeeScore(x, median) = LogScore[x \div median]
             /\ x \div median \in DOMAIN LogScore /\ LogScore[x \div median] \in Nat
  <2>1. x \in Nat /\ median # 0 /\ x > median
    BY <1>1, <1>2, AmountsAre
  <2>2. x \div median \in DOMAIN LogScore
    BY <2>1, AdviceAssumption
  <2> QED
    BY <1>2, <2>2, LogScoreAssumption DEF FeeScore
<1>3. ASSUME NEW x \in Amounts, median = 0 \/ x <= median PROVE FeeScore(x, median) = 0
  BY <1>3 DEF FeeScore
<1>4. CASE median = 0 \/ f <= median
  <2>1. FeeScore(f, median) = 0
    BY <1>3, <1>4
  <2> QED
    BY <2>1, <1>2, <1>3
<1>5. CASE ~(median = 0 \/ f <= median)
  <2>1. ~(median = 0 \/ g <= median)
    BY <1>1, <1>5
  <2>2. f \div median <= g \div median
    BY <1>1, <1>5, DivGrows
  <2>3. LogScore[f \div median] <= LogScore[g \div median]
    BY <1>2, <1>5, <2>1, <2>2, LogScoreAssumption
  <2> QED
    BY <1>2, <1>5, <2>1, <2>3
<1> QED
  BY <1>4, <1>5

(* The trend weighs more for a dearer recent window.                           *)
Bonus == [rising |-> 150000, falling |-> -50000, stable |-> 0]

LEMMA OutlookGrows ==
    ASSUME NEW a \in Nat, NEW b \in Nat, a <= b, NEW n \in Nat, NEW total \in Nat, NEW count \in Nat
    PROVE  /\ Outlook(a, n, total, count) \in {"rising", "falling", "stable"}
           /\ Outlook(b, n, total, count) \in {"rising", "falling", "stable"}
           /\ Bonus[Outlook(a, n, total, count)] <= Bonus[Outlook(b, n, total, count)]
<1> DEFINE A == 100 * a * count
           B == 100 * b * count
           high == 115 * total * n
           low == 85 * total * n
<1>1. A \in Int /\ B \in Int /\ high \in Int /\ low \in Int
  OBVIOUS
<1>2. A <= B
  <2>1. 100 * a \in Int /\ 100 * b \in Int /\ 100 * a <= 100 * b
    OBVIOUS
  <2> QED
    BY <2>1, TimesGrows
<1>3. low <= high
  <2>1. 85 * total \in Int /\ 115 * total \in Int /\ 85 * total <= 115 * total
    OBVIOUS
  <2> QED
    BY <2>1, TimesGrows
<1>4. /\ Outlook(a, n, total, count) = CASE A > high -> "rising" [] A < low -> "falling" [] OTHER -> "stable"
      /\ Outlook(b, n, total, count) = CASE B > high -> "rising" [] B < low -> "falling" [] OTHER -> "stable"
  BY DEF Outlook
<1> HIDE DEF A, B, high, low
<1> QED
  BY <1>1, <1>2, <1>3, <1>4 DEF Bonus

(* The score, out of a million. *)
AtMostTen(x) == IF x <= 10 THEN x ELSE 10
Clamped(x) == IF x <= 0 THEN 0 ELSE IF x >= 1000000 THEN 1000000 ELSE x

IsSumOf(sum, fee, median, spikes, outlook) ==
    /\ sum = 45 * FeeScore(fee, median) + 30000 * AtMostTen(spikes) + Bonus[outlook]
    /\ Score(fee, median, spikes, outlook) = Clamped(sum)

ScoreSums(fee, median, spikes, outlook) == \E sum \in Int : IsSumOf(sum, fee, median, spikes, outlook)

LEMMA ScoreIs ==
    ASSUME NEW fee, NEW median, NEW spikes \in Nat, NEW outlook \in {"rising", "falling", "stable"},
           FeeScore(fee, median) \in Nat
    PROVE  ScoreSums(fee, median, spikes, outlook)
<1> DEFINE x == FeeScore(fee, median)
           y == Min({spikes, 10})
           z == Bonus[outlook]
           sum == 45 * x + 30000 * y + z
           capped == Min({1000000, sum})
<1>1. x \in Nat /\ z \in Int
  BY DEF Bonus
<1>2. y = IF spikes <= 10 THEN spikes ELSE 10
  BY MinOfTwo
<1>3. Score(fee, median, spikes, outlook) = Max({0, capped})
  BY DEF Score, Bonus
<1> HIDE DEF x, y, z
<1>4. y \in Nat
  BY <1>2
<1>5. sum \in Int
  BY <1>1, <1>4
<1>6. sum = 45 * x + 30000 * AtMostTen(spikes) + z
  BY <1>2 DEF AtMostTen
<1> HIDE DEF sum
<1>7. capped = IF 1000000 <= sum THEN 1000000 ELSE sum
  BY <1>5, MinOfTwo
<1>8. capped \in Int
  BY <1>5, <1>7
<1> HIDE DEF capped
<1>9. Max({0, capped}) = IF 0 >= capped THEN 0 ELSE capped
  BY <1>8, MaxOfTwo
<1>10. Score(fee, median, spikes, outlook) = Clamped(sum)
  BY <1>3, <1>5, <1>7, <1>9 DEF Clamped
<1>11. IsSumOf(sum, fee, median, spikes, outlook)
  BY <1>6, <1>10 DEF IsSumOf, x, z
<1> QED
  BY <1>5, <1>11, Zenon DEF ScoreSums

Level == [low |-> 0, moderate |-> 1, high |-> 2, critical |-> 3]

LEMMA LabelGrows ==
    ASSUME NEW s \in Nat, NEW t \in Nat, s <= t
    PROVE  /\ Label(s) \in DOMAIN Level /\ Label(t) \in DOMAIN Level /\ Level[Label(s)] <= Level[Label(t)]
           /\ s < 600000 => Label(s) \in {"low", "moderate"}
  BY DEF Label, Level

LEMMA BelowGrows ==
    ASSUME NEW history \in Seq(Nat), NEW f \in Nat, NEW g \in Nat, f <= g
    PROVE  /\ Below(history, f) \in Nat /\ Below(history, g) \in Nat
           /\ Below(history, f) <= Below(history, g) /\ Below(history, f) <= AtOrBelow(history, f)
           /\ AtOrBelow(history, f) \in Nat
<1> DEFINE F == {i \in DOMAIN history : history[i] < f}
           G == {i \in DOMAIN history : history[i] < g}
           E == {i \in DOMAIN history : history[i] <= f}
<1>0. \A i \in DOMAIN history : history[i] \in Nat
  OBVIOUS
<1>1. F \subseteq G /\ F \subseteq E /\ G \in SUBSET (DOMAIN history) /\ E \in SUBSET (DOMAIN history)
      /\ F \in SUBSET (DOMAIN history)
  BY <1>0
<1>2. Below(history, f) = Cardinality(F) /\ Below(history, g) = Cardinality(G) /\ AtOrBelow(history, f) = Cardinality(E)
  BY DEF Below, AtOrBelow
<1> HIDE DEF E, F, G
<1>3. IsFiniteSet(E) /\ IsFiniteSet(G) /\ Cardinality(E) \in Nat /\ Cardinality(G) \in Nat /\ Cardinality(F) \in Nat
  BY <1>1, PlacesFinite
<1> QED
  BY <1>1, <1>2, <1>3, FS_Subset

Verdict(label, elevated) ==
    [low |-> "submit", moderate |-> IF elevated THEN "consider" ELSE "submit",
     high |-> "consider", critical |-> "wait"][label]

LEMMA VerdictGrows ==
    ASSUME NEW l \in DOMAIN Level, NEW m \in DOMAIN Level, Level[l] <= Level[m],
           NEW d \in BOOLEAN, NEW e \in BOOLEAN, d => e
    PROVE  Caution[Verdict(l, d)] <= Caution[Verdict(m, e)]
<1>1. Level[l] \in 0..3 /\ Level[m] \in 0..3
  BY DEF Level
<1>2. CASE l = "low"
  BY <1>2 DEF Level, Verdict, Caution
<1>3. CASE l = "moderate"
  BY <1>3 DEF Level, Verdict, Caution
<1>4. CASE l = "high"
  BY <1>4 DEF Level, Verdict, Caution
<1>5. CASE l = "critical"
  BY <1>5 DEF Level, Verdict, Caution
<1> QED
  BY <1>2, <1>3, <1>4, <1>5 DEF Level

(* The advice for a current fee, given whole amounts.                          *)
LEMMA AdviceIs ==
    ASSUME NEW recent \in Seq(Amounts), recent # <<>>, NEW history \in Seq(Amounts), history # <<>>,
           NEW spikes \in Nat
    PROVE  Advice(recent, history, spikes) =
              Verdict(Label(Score(Last(recent), NearestRank(Sorted(history), 50), spikes,
                                  Outlook(Total(recent), Len(recent), Total(history), Len(history)))),
                      Elevated(history, Last(recent)))
  BY Zenon DEF Advice, CurrentFee, Verdict

LEMMA AmountsCounted ==
    ASSUME NEW fees \in Seq(Amounts), fees # <<>>
    PROVE  /\ fees \in Seq(Nat) /\ Len(fees) \in Nat \ {0} /\ Last(fees) = fees[Len(fees)]
           /\ Last(fees) \in Amounts /\ Last(fees) \in Nat
<1>1. \A i \in 1..Len(fees) : fees[i] \in Amounts /\ fees[i] \in Nat
  <2>1. \A i \in 1..Len(fees) : fees[i] \in Amounts
    OBVIOUS
  <2> QED
    BY <2>1, AmountsAre
<1>2. Len(fees) \in Nat \ {0} /\ fees = [i \in 1..Len(fees) |-> fees[i]]
  OBVIOUS
<1>3. fees \in [1..Len(fees) -> Nat]
  BY <1>1, <1>2
<1>4. fees \in Seq(Nat)
  BY <1>2, <1>3
<1>5. Last(fees) = fees[Len(fees)] /\ Len(fees) \in 1..Len(fees)
  BY <1>2 DEF Last
<1> QED
  BY <1>1, <1>2, <1>4, <1>5

(* The advice does not tell to hold back for a fee with fewer than half of the *)
(* history below it.                                                           *)
LEMMA AdviceSubmits ==
    ASSUME NEW recent \in Seq(Amounts), recent # <<>>, NEW history \in Seq(Amounts), history # <<>>,
           NEW spikes \in Nat, 2 * Below(history, Last(recent)) < Len(history)
    PROVE  Advice(recent, history, spikes) = "submit"
<1> DEFINE fee == Last(recent)
           median == NearestRank(Sorted(history), 50)
           outlook == Outlook(Total(recent), Len(recent), Total(history), Len(history))
           score == Score(fee, median, spikes, outlook)
<1>1. /\ recent \in Seq(Nat) /\ Len(recent) \in Nat \ {0} /\ fee \in Amounts /\ fee \in Nat
      /\ history \in Seq(Nat) /\ Len(history) \in Nat \ {0}
  BY AmountsCounted
<1>2. Total(recent) \in Nat /\ Total(history) \in Nat
  BY <1>1, TotalType
<1>3. outlook \in {"rising", "falling", "stable"}
  BY <1>1, <1>2, OutlookGrows
<1>4. median \in Amounts /\ fee <= median
  <2>1. PICK i \in DOMAIN history : median = history[i]
    BY <1>1, MedianIs
  <2>2. \A x \in Nat : 2 * Below(history, x) < Len(history) => x <= median
    BY <1>1, MedianIs
  <2> QED
    BY <1>1, <2>1, <2>2
<1>5. FeeScore(fee, median) = 0
  <2> HIDE DEF fee, median
  <2>1. fee <= fee
    BY <1>1
  <2> QED
    BY <1>1, <1>4, <2>1, FeeScoreGrows
<1>6. score \in Nat /\ score < 600000
  <2> HIDE DEF fee, median, outlook
  <2>0. PICK sum \in Int : IsSumOf(sum, fee, median, spikes, outlook)
    <3>1. ScoreSums(fee, median, spikes, outlook)
      BY <1>3, <1>5, ScoreIs
    <3> QED
      BY <3>1, Zenon DEF ScoreSums
  <2>1. /\ sum = 45 * FeeScore(fee, median) + 30000 * AtMostTen(spikes) + Bonus[outlook]
        /\ score = Clamped(sum)
    BY <2>0 DEF IsSumOf
  <2>2. Bonus[outlook] \in Int /\ Bonus[outlook] <= 150000
    BY <1>3 DEF Bonus
  <2> HIDE DEF score
  <2> QED
    BY <1>5, <2>1, <2>2 DEF AtMostTen, Clamped
<1>7. Label(score) \in {"low", "moderate"}
  <2> HIDE DEF score
  <2> QED
    BY <1>6, LabelGrows
<1>8. ~Elevated(history, fee)
  <2>1. Below(history, fee) \in Nat
    BY <1>1, BelowGrows
  <2> HIDE DEF fee
  <2> QED
    BY <1>1, <2>1 DEF Elevated, fee
<1>9. Advice(recent, history, spikes) = Verdict(Label(score), Elevated(history, fee))
  BY AdviceIs
<1> HIDE DEF score, fee
<1> QED
  BY <1>7, <1>8, <1>9 DEF Verdict

(* Nor is it more cautious for a cheaper fee.                                  *)
LEMMA AdviceGrows ==
    ASSUME NEW recent \in Seq(Amounts), recent # <<>>, NEW history \in Seq(Amounts), history # <<>>,
           NEW spikes \in Nat, NEW f \in Fees, f <= Last(recent)
    PROVE  Caution[Advice([recent EXCEPT ![Len(recent)] = f], history, spikes)]
              <= Caution[Advice(recent, history, spikes)]
<1> DEFINE cheaper == [recent EXCEPT ![Len(recent)] = f]
           fee == Last(recent)
           median == NearestRank(Sorted(history), 50)
           Trending(fees) == Outlook(Total(fees), Len(fees), Total(history), Len(history))
           low == Score(f, median, spikes, Trending(cheaper))
           high == Score(fee, median, spikes, Trending(recent))
<1>1. /\ recent \in Seq(Nat) /\ Len(recent) \in Nat \ {0} /\ fee = recent[Len(recent)]
      /\ fee \in Amounts /\ fee \in Nat /\ history \in Seq(Nat) /\ Len(history) \in Nat \ {0}
  BY AmountsCounted
<1>2. f \in Amounts /\ f \in Nat
  BY AmountsAre
<1>3. /\ cheaper \in Seq(Amounts) /\ Len(cheaper) = Len(recent) /\ cheaper # <<>>
      /\ \A k \in 1..Len(recent) : cheaper[k] = IF k = Len(recent) THEN f ELSE recent[k]
  BY <1>1, <1>2
<1> HIDE DEF cheaper
<1>4. cheaper \in Seq(Nat) /\ Last(cheaper) = f
  BY <1>1, <1>3, AmountsCounted
<1>5. \A k \in 1..Len(recent) : cheaper[k] <= recent[k]
  <2>1. \A k \in 1..Len(recent) : recent[k] \in Nat
    BY <1>1
  <2>2. f <= recent[Len(recent)]
    BY <1>1
  <2> QED
    BY <1>2, <1>3, <2>1, <2>2
<1>6. Total(cheaper) \in Nat /\ Total(recent) \in Nat /\ Total(cheaper) <= Total(recent) /\ Total(history) \in Nat
  BY <1>1, <1>3, <1>4, <1>5, TotalGrows, TotalType
<1>7. /\ Trending(cheaper) \in {"rising", "falling", "stable"} /\ Trending(recent) \in {"rising", "falling", "stable"}
      /\ Bonus[Trending(cheaper)] <= Bonus[Trending(recent)]
  BY <1>1, <1>3, <1>6, OutlookGrows
<1>8. median \in Amounts
  <2>1. PICK i \in DOMAIN history : median = history[i]
    BY <1>1, MedianIs
  <2> QED
    BY <2>1
<1>9. /\ FeeScore(f, median) \in Nat /\ FeeScore(fee, median) \in Nat
      /\ FeeScore(f, median) <= FeeScore(fee, median)
  BY <1>1, <1>2, <1>8, FeeScoreGrows
<1>10. low \in Nat /\ high \in Nat /\ low <= high
  <2> HIDE DEF fee, median, Trending
  <2> DEFINE s == AtMostTen(spikes)
             a == Bonus[Trending(cheaper)]
             b == Bonus[Trending(recent)]
             p == FeeScore(f, median)
             q == FeeScore(fee, median)
  <2>1. s \in Int /\ a \in Int /\ b \in Int /\ a <= b
    BY <1>7 DEF Bonus, AtMostTen
  <2>2a. PICK x \in Int : IsSumOf(x, f, median, spikes, Trending(cheaper))
    <3>1. ScoreSums(f, median, spikes, Trending(cheaper))
      BY <1>7, <1>9, ScoreIs
    <3> QED
      BY <3>1, Zenon DEF ScoreSums
  <2>2. x = 45 * p + 30000 * s + a /\ low = Clamped(x)
    BY <2>2a DEF IsSumOf
  <2>3a. PICK y \in Int : IsSumOf(y, fee, median, spikes, Trending(recent))
    <3>1. ScoreSums(fee, median, spikes, Trending(recent))
      BY <1>7, <1>9, ScoreIs
    <3> QED
      BY <3>1, Zenon DEF ScoreSums
  <2>3. y = 45 * q + 30000 * s + b /\ high = Clamped(y)
    BY <2>3a DEF IsSumOf
  <2>4. p \in Nat /\ q \in Nat /\ p <= q
    BY <1>9
  <2> HIDE DEF low, high, s, a, b, p, q
  <2>5. x <= y
    BY <2>1, <2>2, <2>3, <2>4
  <2> QED
    BY <2>2, <2>3, <2>5 DEF Clamped
<1>11. Elevated(history, f) => Elevated(history, fee)
  <2>1. Below(history, f) \in Nat /\ Below(history, fee) \in Nat /\ Below(history, f) <= Below(history, fee)
    BY <1>1, <1>2, BelowGrows
  <2> QED
    BY <1>1, <2>1 DEF Elevated
<1>12. Advice(cheaper, history, spikes) = Verdict(Label(low), Elevated(history, f))
  BY <1>3, <1>4, AdviceIs
<1>13. Advice(recent, history, spikes) = Verdict(Label(high), Elevated(history, fee))
  BY AdviceIs
<1> HIDE DEF low, high, fee
<1>14. Label(low) \in DOMAIN Level /\ Label(high) \in DOMAIN Level /\ Level[Label(low)] <= Level[Label(high)]
  BY <1>10, LabelGrows
<1>15. Elevated(history, f) \in BOOLEAN /\ Elevated(history, fee) \in BOOLEAN
  BY DEF Elevated
<1>16. Caution[Verdict(Label(low), Elevated(history, f))] <= Caution[Verdict(Label(high), Elevated(history, fee))]
  BY <1>11, <1>14, <1>15, VerdictGrows
<1> QED
  BY <1>12, <1>13, <1>16 DEF cheaper

-----------------------------------------------------------------------------
(* Advisories.                                                                 *)

(* What an advisory has read: amounts, the current one of which is still in    *)
(* the store when the history is read and so, with a window that is no shorter *)
(* than the recent one, in the history.                                        *)
InHistory(recent, history) ==
    recent # <<>> => \E i \in DOMAIN history : history[i] = Last(recent)

AdviceOK(q) ==
    /\ q.at = "recent" =>
        /\ q.recent \in Seq(Amounts) /\ q.asOf \in Int
        /\ q.recent # <<>> =>
            \E i \in DOMAIN store : store[i].at >= q.asOf - RecentWindow /\ store[i].fee = Last(q.recent)
    /\ q.at \in {"compared", "advised"} =>
        q.recent \in Seq(Amounts) /\ q.history \in Seq(Amounts) /\ InHistory(q.recent, q.history)
    /\ q.at = "advised" => q.spikes \in Nat /\ q.advice = Advice(q.recent, q.history, q.spikes)

AdviceInv ==
    /\ \A i \in DOMAIN store : store[i].fee \in Amounts
    /\ \A r \in Requests : AdviceOK(req[r])

LEMMA AmountsRead ==
    ASSUME store \in Seq(Point), AdviceInv, NEW since
    PROVE  FeesSince(since) \in Seq(Amounts)
<1> DEFINE fees == FeesSince(since)
<1>1. Collected(fees, Len(store), since)
  BY FeesSinceIs
<1> HIDE DEF fees
<1>2. fees \in Seq(Nat) /\ \A x \in DOMAIN fees : \E i \in 1..Len(store) : store[i].fee = fees[x]
  BY <1>1 DEF Collected
<1>3. \A x \in DOMAIN fees : fees[x] \in Amounts
  <2>1. DOMAIN store = 1..Len(store)
    OBVIOUS
  <2> QED
    BY <1>2, <2>1 DEF AdviceInv
<1>4. fees \in Seq(Amounts)
  <2>1. DOMAIN fees = 1..Len(fees) /\ Len(fees) \in Nat /\ fees = [x \in 1..Len(fees) |-> fees[x]]
    BY <1>2
  <2>2. fees \in [1..Len(fees) -> Amounts]
    BY <1>3, <2>1
  <2> QED
    BY <2>1, <2>2
<1> QED
  BY <1>4 DEF fees

LEMMA InitAdvice == Init => AdviceInv
<1> SUFFICES ASSUME Init PROVE AdviceInv
  OBVIOUS
<1> PICK fees \in Rehydrated : store = [i \in DOMAIN fees |-> [fee |-> fees[i], at |-> 0, pushed |-> FALSE]]
  BY DEF Init
<1>1. \A i \in DOMAIN store : store[i].fee \in Amounts
  <2>1. \A i \in DOMAIN fees : fees[i] \in ToSet(fees)
    BY DEF ToSet
  <2>2. ToSet(fees) \subseteq Amounts
    BY DEF Amounts
  <2> QED
    BY <2>1, <2>2
<1>2. \A r \in Requests : req[r].at = "idle"
  BY DEF Init, Idle
<1> QED
  BY <1>1, <1>2 DEF AdviceInv, AdviceOK

LEMMA AdviceMoves ==
    ASSUME IInv, AdviceInv, NEW r \in Requests, NEW q, AdviceOK(q), req' = [req EXCEPT ![r] = q],
           UNCHANGED store
    PROVE  AdviceInv'
<1>1. \A s \in Requests : req'[s] = IF s = r THEN q ELSE req[s]
  BY DEF IInv, RequestsInv
<1> QED
  BY <1>1 DEF AdviceInv, AdviceOK

LEMMA ReadRecentAdvice ==
    ASSUME IInv, AdviceInv, NEW r \in Requests, ReadRecent(r)
    PROVE  AdviceInv'
<1> DEFINE recent == FeesSince(now - RecentWindow)
           q == [at |-> "recent", asOf |-> now, recent |-> recent]
<1>1. store \in Seq(Point) /\ now \in Int
  BY DEF IInv, TimesInv
<1>2. recent \in Seq(Amounts) /\ Collected(recent, Len(store), now - RecentWindow)
  BY <1>1, AmountsRead, FeesSinceIs
<1>3. req' = [req EXCEPT ![r] = q] /\ UNCHANGED store
  BY DEF ReadRecent
<1> HIDE DEF recent
<1>4. recent # <<>> =>
        \E i \in DOMAIN store : store[i].at >= now - RecentWindow /\ store[i].fee = Last(recent)
  <2> SUFFICES ASSUME recent # <<>>
               PROVE  \E i \in DOMAIN store : store[i].at >= now - RecentWindow /\ store[i].fee = Last(recent)
    OBVIOUS
  <2>1. Last(recent) = recent[Len(recent)] /\ Len(recent) \in DOMAIN recent
    <3>1. Len(recent) \in Nat \ {0} /\ DOMAIN recent = 1..Len(recent)
      BY <1>2
    <3> QED
      BY <3>1 DEF Last
  <2>2. PICK i \in 1..Len(store) : store[i].at >= now - RecentWindow /\ store[i].fee = recent[Len(recent)]
    BY <1>2, <2>1 DEF Collected
  <2>3. i \in DOMAIN store
    BY <1>1
  <2> QED
    BY <2>1, <2>2, <2>3
<1>5. AdviceOK(q)
  BY <1>1, <1>2, <1>4 DEF AdviceOK
<1> HIDE DEF q
<1> QED
  BY <1>3, <1>5, AdviceMoves

LEMMA ReadHistoryAdvice ==
    ASSUME RecentWindow <= WaitWindow, IInv, AdviceInv, NEW r \in Requests, ReadHistory(r)
    PROVE  AdviceInv'
<1> DEFINE since == req[r].asOf - WaitWindow
           history == FeesSince(since)
           q == [at |-> "compared", recent |-> req[r].recent, history |-> history]
<1>1. store \in Seq(Point)
  BY DEF IInv, TimesInv
<1>2. /\ req[r].recent \in Seq(Amounts) /\ req[r].asOf \in Int
      /\ req[r].recent # <<>> =>
            \E i \in DOMAIN store : store[i].at >= req[r].asOf - RecentWindow /\ store[i].fee = Last(req[r].recent)
  BY DEF ReadHistory, AdviceInv, AdviceOK
<1>3. history \in Seq(Amounts) /\ Collected(history, Len(store), since)
  BY <1>1, AmountsRead, FeesSinceIs
<1>4. req' = [req EXCEPT ![r] = q] /\ UNCHANGED store
  BY DEF ReadHistory
<1> HIDE DEF history
<1>5. InHistory(req[r].recent, history)
  <2> SUFFICES ASSUME req[r].recent # <<>>
               PROVE  \E x \in DOMAIN history : history[x] = Last(req[r].recent)
    BY DEF InHistory
  <2> PICK i \in DOMAIN store : store[i].at >= req[r].asOf - RecentWindow /\ store[i].fee = Last(req[r].recent)
    BY <1>2
  <2>1. store[i] \in Point /\ i \in 1..Len(store)
    BY <1>1
  <2>2. store[i].at \in Int
    BY <2>1 DEF Point
  <2>3. store[i].at >= since
    BY <1>2, <2>2, AdviceAssumption
  <2> QED
    BY <1>3, <2>1, <2>3 DEF Collected
<1>6. AdviceOK(q)
  BY <1>2, <1>3, <1>5 DEF AdviceOK
<1> HIDE DEF q
<1> QED
  BY <1>4, <1>6, AdviceMoves

LEMMA AdviseAdvice ==
    ASSUME IInv, AdviceInv, NEW r \in Requests, Advise(r)
    PROVE  AdviceInv'
<1> DEFINE advice == Advice(req[r].recent, req[r].history, insights[2])
           q == [at |-> "advised", recent |-> req[r].recent, history |-> req[r].history,
                 spikes |-> insights[2], advice |-> advice]
<1>1. /\ req[r].recent \in Seq(Amounts) /\ req[r].history \in Seq(Amounts)
      /\ InHistory(req[r].recent, req[r].history)
  BY DEF Advise, AdviceInv, AdviceOK
<1>2. insights[2] \in Nat
  BY AdviceAssumption DEF IInv
<1>3. req' = [req EXCEPT ![r] = q] /\ UNCHANGED store
  BY DEF Advise
<1>4. AdviceOK(q)
  <2>1. /\ q.at = "advised" /\ q.recent = req[r].recent /\ q.history = req[r].history
        /\ q.spikes = insights[2] /\ q.advice = advice
    OBVIOUS
  <2>2. q.advice = Advice(q.recent, q.history, q.spikes)
    BY <2>1
  <2> HIDE DEF q
  <2> QED
    BY <1>1, <1>2, <2>1, <2>2 DEF AdviceOK
<1> HIDE DEF q
<1> QED
  BY <1>3, <1>4, AdviceMoves

(* The other steps of a request do not read for an advisory. *)
LEMMA OtherAdvice ==
    ASSUME IInv, AdviceInv, NEW r \in Requests, Step(r), ~ReadRecent(r), ~ReadHistory(r), ~Advise(r)
    PROVE  AdviceInv'
<1>1. ASSUME NEW q, req' = [req EXCEPT ![r] = q], q.at \notin {"recent", "compared", "advised"}, UNCHANGED store
      PROVE  AdviceInv'
  <2>1. AdviceOK(q)
    BY <1>1 DEF AdviceOK
  <2> QED
    BY <1>1, <2>1, AdviceMoves
<1>2. ASSUME NEW answer, Returned(r, answer), UNCHANGED store PROVE AdviceInv'
  <2> DEFINE q == IF req[r].simple THEN [at |-> "recommended"] ELSE [at |-> "answered", answer |-> answer]
  <2>1. q.at \in {"recommended", "answered"}
    OBVIOUS
  <2>2. req' = [req EXCEPT ![r] = q]
    BY <1>2 DEF Returned
  <2> HIDE DEF q
  <2> QED
    BY <1>1, <1>2, <2>1, <2>2
<1>3. CASE Recommend(r) \/ GetRecommend(r)
  <2> PICK ledgers, urgency, cap, simple : Ask(r, ledgers, urgency, cap, simple)
    BY <1>3 DEF Recommend, GetRecommend
  <2> DEFINE q == [at |-> "lookup", key |-> <<ledgers, urgency, insights[1]>>, cap |-> cap, simple |-> simple]
  <2>1. req' = [req EXCEPT ![r] = q] /\ q.at = "lookup" /\ UNCHANGED store
    BY DEF Ask
  <2> HIDE DEF q
  <2> QED
    BY <1>1, <2>1
<1>4. CASE Miss(r) \/ StartCold(r)
  <2>1. req[r] \in Pending
    BY <1>4 DEF IInv, RequestsInv, RequestOK, Miss, StartCold
  <2>2. PICK at \in {"missed", "cold"} : req' = [req EXCEPT ![r].at = at]
    BY <1>4 DEF Miss, StartCold
  <2> DEFINE q == [req[r] EXCEPT !.at = at]
  <2>3. req' = [req EXCEPT ![r] = q] /\ q.at \in {"missed", "cold"}
    BY <2>1, <2>2 DEF Pending
  <2>4. UNCHANGED store
    BY <1>4 DEF Miss, StartCold
  <2> HIDE DEF q
  <2> QED
    BY <1>1, <2>3, <2>4
<1>5. CASE Hit(r) \/ AnswerCold(r) \/ AnswerWarm(r)
  BY <1>2, <1>5 DEF Hit, AnswerCold, AnswerWarm
<1>6. CASE Estimate(r)
  <2> DEFINE q == [at |-> "estimated", key |-> req[r].key, simple |-> req[r].simple,
                   answer |-> WarmAnswer(req[r].key, req[r].cap)]
  <2>1. req' = [req EXCEPT ![r] = q] /\ q.at = "estimated" /\ UNCHANGED store
    BY <1>6 DEF Estimate
  <2> HIDE DEF q
  <2> QED
    BY <1>1, <2>1
<1>7. CASE AnswerSimple(r)
  <2> DEFINE q == IF store = <<>> THEN [at |-> "failed"] ELSE [at |-> "simple", answer |-> SimpleAnswer]
  <2>1. req' = [req EXCEPT ![r] = q] /\ UNCHANGED store
    BY <1>7 DEF AnswerSimple
  <2>2. q.at \in {"failed", "simple"}
    OBVIOUS
  <2> HIDE DEF q
  <2> QED
    BY <1>1, <2>1, <2>2
<1>8. CASE Done(r)
  BY <1>1, <1>8 DEF Done, Idle
<1> QED
  BY <1>3, <1>4, <1>5, <1>6, <1>7, <1>8 DEF Step

LEMMA PushAdvice ==
    ASSUME IInv, AdviceInv, NEW fee \in Fees, Push(fee)
    PROVE  AdviceInv'
<1>1. store' = Append(store, [fee |-> fee, at |-> now, pushed |-> TRUE]) /\ UNCHANGED req
  BY DEF Push
<1>2. store \in Seq(Point)
  BY DEF IInv, TimesInv
<1>3. /\ DOMAIN store' = 1..(Len(store) + 1) /\ DOMAIN store = 1..Len(store) /\ Len(store) \in Nat
      /\ store'[Len(store) + 1].fee = fee
      /\ \A i \in DOMAIN store : store'[i] = store[i]
  BY <1>1, <1>2
<1>4. \A i \in DOMAIN store' : store'[i].fee \in Amounts
  <2> SUFFICES ASSUME NEW i \in DOMAIN store' PROVE store'[i].fee \in Amounts
    OBVIOUS
  <2>1. i = Len(store) + 1 \/ i \in DOMAIN store
    BY <1>3
  <2> QED
    BY <1>3, <2>1, AmountsAre DEF AdviceInv
<1>5. DOMAIN store \subseteq DOMAIN store'
  BY <1>3
<1>6. ASSUME NEW r \in Requests PROVE AdviceOK(req[r])'
  <2> DEFINE Found(points) ==
                 \E i \in DOMAIN points :
                    points[i].at >= req[r].asOf - RecentWindow /\ points[i].fee = Last(req[r].recent)
  <2>1. AdviceOK(req[r])
    BY DEF AdviceInv
  <2>2. Found(store) => Found(store')
    BY <1>3, <1>5
  <2> QED
    BY <1>1, <2>1, <2>2 DEF AdviceOK
<1> QED
  BY <1>4, <1>6 DEF AdviceInv

LEMMA NextAdvice ==
    ASSUME RecentWindow <= WaitWindow, IInv, AdviceInv, [Next]_vars
    PROVE  AdviceInv'
<1>1. CASE Publish \/ Tick \/ UNCHANGED vars
  BY <1>1 DEF Publish, Tick, vars, AdviceInv, AdviceOK
<1>2. CASE \E fee \in Fees : Push(fee)
  BY <1>2, PushAdvice
<1>3. CASE \E r \in Requests : Step(r)
  BY <1>3, ReadRecentAdvice, ReadHistoryAdvice, AdviseAdvice, OtherAdvice
<1> QED
  BY <1>1, <1>2, <1>3 DEF Next

LEMMA AdviceFollows == AdviceInv => DearerWaitsMore
<1> SUFFICES ASSUME AdviceInv, NEW r \in Requests, req[r].at = "advised", req[r].recent # <<>>
             PROVE  LET recent == req[r].recent
                        history == req[r].history
                        Cheaper(f) == [recent EXCEPT ![Len(recent)] = f]
                    IN  /\ 2 * AtOrBelow(history, Last(recent)) <= Len(history) => req[r].advice = "submit"
                        /\ 2 * Below(history, Last(recent)) < Len(history) => req[r].advice = "submit"
                        /\ \A f \in Fees : f <= Last(recent) =>
                              Caution[Advice(Cheaper(f), history, req[r].spikes)] <= Caution[req[r].advice]
  BY DEF DearerWaitsMore
<1> DEFINE recent == req[r].recent
           history == req[r].history
           fee == Last(recent)
<1>1. /\ recent \in Seq(Amounts) /\ history \in Seq(Amounts) /\ InHistory(recent, history)
      /\ req[r].spikes \in Nat /\ req[r].advice = Advice(recent, history, req[r].spikes)
  BY DEF AdviceInv, AdviceOK
<1> HIDE DEF recent, history, fee
<1>2. recent # <<>>
  BY DEF recent
<1>3. PICK i \in DOMAIN history : history[i] = fee
  BY <1>1, <1>2 DEF InHistory, fee
<1>4. history # <<>>
  BY <1>1, <1>3
<1>5. fee \in Nat /\ history \in Seq(Nat) /\ Len(history) \in Nat
  BY <1>1, <1>2, <1>4, AmountsCounted DEF fee
<1>6. 2 * Below(history, fee) < Len(history) => req[r].advice = "submit"
  BY <1>1, <1>2, <1>4, AdviceSubmits DEF fee
<1>7. 2 * AtOrBelow(history, fee) <= Len(history) => 2 * Below(history, fee) < Len(history)
  <2> DEFINE B == {j \in DOMAIN history : history[j] < fee}
             E == {j \in DOMAIN history : history[j] <= fee}
  <2>1. B \subseteq E /\ i \in E /\ i \notin B /\ E \in SUBSET (DOMAIN history) /\ B \in SUBSET (DOMAIN history)
    <3>1. \A j \in DOMAIN history : history[j] \in Nat
      BY <1>5
    <3> QED
      BY <1>3, <1>5, <3>1
  <2>2. Below(history, fee) = Cardinality(B) /\ AtOrBelow(history, fee) = Cardinality(E)
    BY DEF Below, AtOrBelow
  <2> HIDE DEF B, E
  <2>3. IsFiniteSet(E) /\ Cardinality(E) \in Nat /\ Cardinality(B) \in Nat
    BY <1>5, <2>1, PlacesFinite
  <2>4. Cardinality(B) <= Cardinality(E) /\ (Cardinality(E) = Cardinality(B) => B = E)
    BY <2>1, <2>3, FS_Subset
  <2> QED
    BY <1>5, <2>1, <2>2, <2>3, <2>4
<1>8. \A f \in Fees : f <= fee =>
        Caution[Advice([recent EXCEPT ![Len(recent)] = f], history, req[r].spikes)] <= Caution[req[r].advice]
  BY <1>1, <1>2, <1>4, AdviceGrows DEF fee
<1> QED
  BY <1>6, <1>7, <1>8 DEF recent, history, fee

(* With a comparison window that is no shorter than the recent one (the code's *)
(* defaults are a day and five minutes), an advisory never tells to hold back  *)
(* for a fee that is not above half of the history, and had the fee been lower *)
(* it would not have been more cautious, whatever is pushed between its reads. *)
THEOREM AdvisoryCorrect ==
    ASSUME RecentWindow <= WaitWindow
    PROVE  Spec => []DearerWaitsMore
<1>1. IInv /\ AdviceInv /\ [Next]_vars => AdviceInv'
  BY NextAdvice
<1> QED
  BY <1>1, InitAdvice, InvHolds, AdviceFollows, PTL DEF Spec

-----------------------------------------------------------------------------
(* The spread of a list. *)

LEMMA DeviationStep ==
    ASSUME NEW k \in Int, NEW p \in Int, NEW u \in Int, NEW v \in Int,
           NEW s \in Int, NEW t \in Int, NEW a \in Int, NEW b \in Int
    PROVE  p + a * b + (k + 1) * (s * t) - s * (v + b) - t * (u + a)
              = p + k * (s * t) - s * v - t * u + (a - s) * (b - t)
  OBVIOUS

LEMMA CovarianceStep ==
    ASSUME NEW k \in Int, NEW p \in Int, NEW u \in Int, NEW v \in Int, NEW a \in Int, NEW b \in Int
    PROVE  k * (p + a * b) - (u + a) * (v + b)
              = (k - 1) * p - u * v + (p + (k - 1) * (a * b) - a * v - b * u)
  OBVIOUS

(* Where the differences of two lists never have opposite signs, what they vary *)
(* together, times the square of their length, grows from place to place.       *)
LEMMA CovarianceGrows ==
    ASSUME NEW n \in Nat, NEW x, NEW y, NEW u, NEW v, NEW p,
           \A i \in 1..n : x[i] \in Int /\ y[i] \in Int,
           \A k \in 0..n : u[k] \in Int /\ v[k] \in Int /\ p[k] \in Int,
           IsSum(u, n, x), IsSum(v, n, y), p[0] = 0, \A k \in 1..n : p[k] = p[k - 1] + x[k] * y[k],
           \A i, j \in 1..n : (x[i] - x[j]) * (y[i] - y[j]) >= 0
    PROVE  /\ \A k \in 1..n : k * p[k] - u[k] * v[k] >= (k - 1) * p[k - 1] - u[k - 1] * v[k - 1]
           /\ \A k \in 0..n : k * p[k] - u[k] * v[k] >= 0
<1>1. u[0] = 0 /\ v[0] = 0 /\ \A k \in 1..n : u[k] = u[k - 1] + x[k] /\ v[k] = v[k - 1] + y[k]
  BY DEF IsSum
<1>2. ASSUME NEW m \in 1..n, NEW k \in 0..n
      PROVE  p[k] + k * (x[m] * y[m]) - x[m] * v[k] - y[m] * u[k] >= 0
  <2> DEFINE T == {j \in 0..n : p[j] + j * (x[m] * y[m]) - x[m] * v[j] - y[m] * u[j] >= 0}
  <2>1. 0 \in T
    <3>1. PICK s \in Int, t \in Int : s = x[m] /\ t = y[m]
      OBVIOUS
    <3>2. p[0] + 0 * (s * t) - s * v[0] - t * u[0] >= 0
      <4>1. 0 * (s * t) = 0 /\ s * 0 = 0 /\ t * 0 = 0
        OBVIOUS
      <4> QED
        BY <1>1, <4>1
    <3>3. 0 \in 0..n
      OBVIOUS
    <3> QED
      BY <3>1, <3>2, <3>3
  <2>2. ASSUME NEW j \in 1..n, j - 1 \in T PROVE j \in T
    <3>1. PICK s \in Int, t \in Int, a \in Int, b \in Int : s = x[m] /\ t = y[m] /\ a = x[j] /\ b = y[j]
      OBVIOUS
    <3>2. PICK i \in Int, P \in Int, U \in Int, V \in Int : i = j - 1 /\ P = p[j - 1] /\ U = u[j - 1] /\ V = v[j - 1]
      <4>1. j - 1 \in 0..n
        OBVIOUS
      <4> QED
        BY <4>1
    <3>3. P + i * (s * t) - s * V - t * U >= 0
      BY <2>2, <3>1, <3>2
    <3>4. (a - s) * (b - t) >= 0
      BY <3>1
    <3>5. P + a * b + (i + 1) * (s * t) - s * (V + b) - t * (U + a) >= 0
      BY <3>3, <3>4, DeviationStep
    <3>6. j = i + 1 /\ p[j] = P + a * b /\ u[j] = U + a /\ v[j] = V + b
      BY <1>1, <3>1, <3>2
    <3>7. p[j] + j * (s * t) - s * v[j] - t * u[j] >= 0
      BY <3>5, <3>6
    <3>8. j \in 0..n
      OBVIOUS
    <3> QED
      BY <3>1, <3>7, <3>8
  <2>3. 0..n \subseteq T
    <3> HIDE DEF T
    <3> QED
      BY <2>1, <2>2, ReachesAll
  <2> QED
    BY <2>3
<1>3. ASSUME NEW k \in 1..n
      PROVE  k * p[k] - u[k] * v[k] >= (k - 1) * p[k - 1] - u[k - 1] * v[k - 1]
  <2>1. PICK a \in Int, b \in Int : a = x[k] /\ b = y[k]
    OBVIOUS
  <2>2. PICK P \in Int, U \in Int, V \in Int : P = p[k - 1] /\ U = u[k - 1] /\ V = v[k - 1]
    <3>1. k - 1 \in 0..n
      OBVIOUS
    <3> QED
      BY <3>1
  <2>3. P + (k - 1) * (a * b) - a * V - b * U >= 0
    <3>1. k - 1 \in 0..n
      OBVIOUS
    <3>2. p[k - 1] + (k - 1) * (x[k] * y[k]) - x[k] * v[k - 1] - y[k] * u[k - 1] >= 0
      BY <1>2, <3>1
    <3> QED
      BY <2>1, <2>2, <3>2
  <2>4. k * (P + a * b) - (U + a) * (V + b) >= (k - 1) * P - U * V
    <3>1. k * (P + a * b) - (U + a) * (V + b) = (k - 1) * P - U * V + (P + (k - 1) * (a * b) - a * V - b * U)
      BY CovarianceStep
    <3>2. PICK c \in Int : c = (k - 1) * P - U * V
      OBVIOUS
    <3>3. PICK d \in Int : d = P + (k - 1) * (a * b) - a * V - b * U
      OBVIOUS
    <3> QED
      BY <2>3, <3>1, <3>2, <3>3
  <2>5. p[k] = P + a * b /\ u[k] = U + a /\ v[k] = V + b
    BY <1>1, <2>1, <2>2
  <2> QED
    BY <2>2, <2>4, <2>5
<1>4. \A k \in 0..n : k * p[k] - u[k] * v[k] >= 0
  <2> DEFINE T == {k \in 0..n : k * p[k] - u[k] * v[k] >= 0}
  <2>1. 0 \in T
    BY <1>1
  <2>2. ASSUME NEW k \in 1..n, k - 1 \in T PROVE k \in T
    <3>1. PICK a \in Int, b \in Int : a = k * p[k] - u[k] * v[k] /\ b = (k - 1) * p[k - 1] - u[k - 1] * v[k - 1]
      <4>1. k - 1 \in 0..n /\ k \in 0..n
        OBVIOUS
      <4>2. p[k] \in Int /\ u[k] \in Int /\ v[k] \in Int /\ p[k - 1] \in Int /\ u[k - 1] \in Int /\ v[k - 1] \in Int
        BY <4>1
      <4>3. k * p[k] - u[k] * v[k] \in Int /\ (k - 1) * p[k - 1] - u[k - 1] * v[k - 1] \in Int
        BY <4>2
      <4> QED
        BY <4>3
    <3>2. a >= b /\ b >= 0
      BY <1>3, <2>2, <3>1
    <3>3. a >= 0 /\ k \in 0..n
      BY <3>2
    <3> QED
      BY <3>1, <3>3
  <2>3. 0..n \subseteq T
    <3> HIDE DEF T
    <3> QED
      BY <2>1, <2>2, ReachesAll
  <2> QED
    BY <2>3
<1> QED
  BY <1>3, <1>4

LEMMA CombinedSquare ==
    ASSUME NEW a \in Int, NEW b \in Int, NEW x \in Int, NEW y \in Int
    PROVE  (a * x + b * y) * (a * x + b * y) = (a * a) * (x * x) + (2 * (a * b)) * (x * y) + (b * b) * (y * y)
  OBVIOUS

LEMMA CombinedSpread ==
    ASSUME NEW n \in Int, NEW a \in Int, NEW b \in Int, NEW u \in Int, NEW v \in Int,
           NEW p \in Int, NEW q \in Int, NEW r \in Int
    PROVE  n * ((a * a) * p + (2 * (a * b)) * q + (b * b) * r) - (a * u + b * v) * (a * u + b * v)
              = (a * a) * (n * p - u * u) + (2 * (a * b)) * (n * q - u * v) + (b * b) * (n * r - v * v)
<1>1. (a * u + b * v) * (a * u + b * v) = (a * a) * (u * u) + (2 * (a * b)) * (u * v) + (b * b) * (v * v)
  BY CombinedSquare
<1>2. PICK s \in Int, t \in Int, w \in Int : s = a * a /\ t = 2 * (a * b) /\ w = b * b
  OBVIOUS
<1>3. PICK uu \in Int, uv \in Int, vv \in Int : uu = u * u /\ uv = u * v /\ vv = v * v
  OBVIOUS
<1>4. n * (s * p + t * q + w * r) - (s * uu + t * uv + w * vv) = s * (n * p - uu) + t * (n * q - uv) + w * (n * r - vv)
  OBVIOUS
<1> QED
  BY <1>1, <1>2, <1>3, <1>4

LEMMA DividesOut ==
    ASSUME NEW a \in Int, NEW b \in Int, NEW c \in Int, a > 0,
           (b * b) * a + (2 * (b * (-a))) * b + ((-a) * (-a)) * c >= 0
    PROVE  b * b <= a * c
<1>1. (b * b) * a + (2 * (b * (-a))) * b + ((-a) * (-a)) * c = a * (a * c - b * b)
  OBVIOUS
<1>2. PICK d \in Int : d = a * c - b * b
  OBVIOUS
<1>3. a * d >= 0
  BY <1>1, <1>2
<1>4. d >= 0
  BY <1>3
<1> QED
  BY <1>2, <1>4

(* No line fits better than fully. *)
LEMMA SquareOfCovariance ==
    ASSUME NEW n \in Nat, NEW x, NEW y, NEW u, NEW v, NEW p, NEW q, NEW r,
           \A i \in 1..n : x[i] \in Int /\ y[i] \in Int,
           \A k \in 0..n : u[k] \in Int /\ v[k] \in Int /\ p[k] \in Int /\ q[k] \in Int /\ r[k] \in Int,
           IsSum(u, n, x), IsSum(v, n, y),
           p[0] = 0 /\ q[0] = 0 /\ r[0] = 0,
           \A k \in 1..n : p[k] = p[k - 1] + x[k] * x[k] /\ q[k] = q[k - 1] + x[k] * y[k] /\ r[k] = r[k - 1] + y[k] * y[k],
           n * p[n] - u[n] * u[n] > 0
    PROVE  (n * q[n] - u[n] * v[n]) * (n * q[n] - u[n] * v[n]) <= (n * p[n] - u[n] * u[n]) * (n * r[n] - v[n] * v[n])
<1>1. u[n] \in Int /\ v[n] \in Int /\ p[n] \in Int /\ q[n] \in Int /\ r[n] \in Int /\ n \in 0..n
  OBVIOUS
<1>2. PICK A \in Int, B \in Int, C \in Int :
          A = n * p[n] - u[n] * u[n] /\ B = n * q[n] - u[n] * v[n] /\ C = n * r[n] - v[n] * v[n]
  <2>1. PICK P \in Int, Q \in Int, R \in Int, U \in Int, V \in Int : P = p[n] /\ Q = q[n] /\ R = r[n] /\ U = u[n] /\ V = v[n]
    BY <1>1
  <2>2. n * P - U * U \in Int /\ n * Q - U * V \in Int /\ n * R - V * V \in Int
    OBVIOUS
  <2> QED
    BY <2>1, <2>2
<1>3. PICK a \in Int, b \in Int : a = B /\ b = -A
  OBVIOUS
<1> DEFINE z == [i \in 1..n |-> a * x[i] + b * y[i]]
           w == [k \in 0..n |-> a * u[k] + b * v[k]]
           s == [k \in 0..n |-> (a * a) * p[k] + (2 * (a * b)) * q[k] + (b * b) * r[k]]
<1>4. \A i \in 1..n : z[i] = a * x[i] + b * y[i] /\ z[i] \in Int
  OBVIOUS
<1>5. \A k \in 0..n : w[k] = a * u[k] + b * v[k] /\ w[k] \in Int
  OBVIOUS
<1>6. \A k \in 0..n : s[k] = (a * a) * p[k] + (2 * (a * b)) * q[k] + (b * b) * r[k] /\ s[k] \in Int
  <2>1. PICK d \in Int, e \in Int, f \in Int : d = a * a /\ e = 2 * (a * b) /\ f = b * b
    OBVIOUS
  <2>2. \A k \in 0..n : s[k] = d * p[k] + e * q[k] + f * r[k] /\ s[k] \in Int
    BY <2>1
  <2> QED
    BY <2>1, <2>2
<1> HIDE DEF z, w, s
<1>7. IsSum(w, n, z)
  <2>1. w[0] = 0
    <3>1. u[0] = 0 /\ v[0] = 0 /\ 0 \in 0..n /\ a * 0 + b * 0 = 0
      BY DEF IsSum
    <3>2. w[0] = a * u[0] + b * v[0]
      BY <1>5, <3>1
    <3> QED
      BY <3>1, <3>2, Zenon
  <2>2. ASSUME NEW k \in 1..n PROVE w[k] = w[k - 1] + z[k]
    <3>1. k \in 0..n /\ k - 1 \in 0..n
      OBVIOUS
    <3>2. PICK U \in Int, V \in Int, X \in Int, Y \in Int : U = u[k - 1] /\ V = v[k - 1] /\ X = x[k] /\ Y = y[k]
      BY <3>1
    <3>3. u[k] = U + X /\ v[k] = V + Y
      BY <3>2 DEF IsSum
    <3>4. a * (U + X) + b * (V + Y) = (a * U + b * V) + (a * X + b * Y)
      OBVIOUS
    <3>5. w[k] = a * (U + X) + b * (V + Y) /\ w[k - 1] = a * U + b * V /\ z[k] = a * X + b * Y
      BY <1>4, <1>5, <3>1, <3>2, <3>3
    <3> QED
      BY <3>4, <3>5
  <2> QED
    BY <2>1, <2>2 DEF IsSum
<1>8. s[0] = 0 /\ \A k \in 1..n : s[k] = s[k - 1] + z[k] * z[k]
  <2>1. PICK d \in Int, e \in Int, f \in Int : d = a * a /\ e = 2 * (a * b) /\ f = b * b
    OBVIOUS
  <2>2. \A k \in 0..n : s[k] = d * p[k] + e * q[k] + f * r[k]
    BY <1>6, <2>1
  <2>3. s[0] = 0
    <3>1. 0 \in 0..n /\ d * 0 + e * 0 + f * 0 = 0
      OBVIOUS
    <3>2. s[0] = d * p[0] + e * q[0] + f * r[0]
      BY <2>2, <3>1
    <3> QED
      BY <3>1, <3>2, Zenon
  <2>4. ASSUME NEW k \in 1..n PROVE s[k] = s[k - 1] + z[k] * z[k]
    <3>1. k \in 0..n /\ k - 1 \in 0..n
      OBVIOUS
    <3>2. PICK P \in Int, Q \in Int, R \in Int : P = p[k - 1] /\ Q = q[k - 1] /\ R = r[k - 1]
      BY <3>1
    <3>3. PICK X \in Int, Y \in Int : X = x[k] /\ Y = y[k]
      OBVIOUS
    <3>4. PICK xx \in Int, xy \in Int, yy \in Int : xx = X * X /\ xy = X * Y /\ yy = Y * Y
      OBVIOUS
    <3>5. s[k] = d * (P + xx) + e * (Q + xy) + f * (R + yy) /\ s[k - 1] = d * P + e * Q + f * R
      BY <2>2, <3>1, <3>2, <3>3, <3>4
    <3>6. z[k] * z[k] = d * xx + e * xy + f * yy
      <4>1. z[k] = a * X + b * Y
        BY <1>4, <3>3
      <4>2. (a * X + b * Y) * (a * X + b * Y) = (a * a) * (X * X) + (2 * (a * b)) * (X * Y) + (b * b) * (Y * Y)
        BY CombinedSquare
      <4> QED
        BY <2>1, <3>4, <4>1, <4>2, Zenon
    <3>7. d * (P + xx) + e * (Q + xy) + f * (R + yy) = (d * P + e * Q + f * R) + (d * xx + e * xy + f * yy)
      OBVIOUS
    <3> QED
      BY <3>5, <3>6, <3>7
  <2> QED
    BY <2>3, <2>4
<1>9. \A i, j \in 1..n : (z[i] - z[j]) * (z[i] - z[j]) >= 0
  <2> SUFFICES ASSUME NEW i \in 1..n, NEW j \in 1..n PROVE (z[i] - z[j]) * (z[i] - z[j]) >= 0
    OBVIOUS
  <2>1. PICK d \in Int : d = z[i] - z[j]
    BY <1>4
  <2>2. d * d >= 0
    OBVIOUS
  <2> QED
    BY <2>1, <2>2
<1>10. n * s[n] - w[n] * w[n] >= 0
  <2>1. \A k \in 0..n : k * s[k] - w[k] * w[k] >= 0
    BY <1>4, <1>5, <1>6, <1>7, <1>8, <1>9, CovarianceGrows
  <2> QED
    BY <1>1, <2>1
<1>11. n * s[n] - w[n] * w[n] = (a * a) * A + (2 * (a * b)) * B + (b * b) * C
  <2>1. PICK P \in Int, Q \in Int, R \in Int, U \in Int, V \in Int : P = p[n] /\ Q = q[n] /\ R = r[n] /\ U = u[n] /\ V = v[n]
    BY <1>1
  <2>2. s[n] = (a * a) * P + (2 * (a * b)) * Q + (b * b) * R /\ w[n] = a * U + b * V
    BY <1>1, <1>5, <1>6, <2>1
  <2>3. n * ((a * a) * P + (2 * (a * b)) * Q + (b * b) * R) - (a * U + b * V) * (a * U + b * V)
           = (a * a) * (n * P - U * U) + (2 * (a * b)) * (n * Q - U * V) + (b * b) * (n * R - V * V)
    BY CombinedSpread
  <2> QED
    BY <1>2, <2>1, <2>2, <2>3
<1>12. B * B <= A * C
  <2>1. A > 0
    BY <1>2
  <2>2. (B * B) * A + (2 * (B * (-A))) * B + ((-A) * (-A)) * C >= 0
    BY <1>3, <1>10, <1>11
  <2> QED
    BY <2>1, <2>2, DividesOut
<1> QED
  BY <1>2, <1>12

LEMMA RangeStep ==
    ASSUME NEW k \in Int, NEW r \in Int, NEW v \in Int, NEW low \in Int, NEW high \in Int, NEW f \in Int
    PROVE  (low + high) * (v + f) - (r + f * f) - (k + 1) * (low * high)
              = (low + high) * v - r - k * (low * high) + (f - low) * (high - f)
  OBVIOUS

LEMMA RangeSquare ==
    ASSUME NEW n \in Nat, NEW r \in Int, NEW v \in Int, NEW low \in Int, NEW high \in Int,
           (low + high) * v - r - n * (low * high) >= 0
    PROVE  4 * (n * r - v * v) <= n * n * (high - low) * (high - low)
<1>1. PICK d \in Int : d = (low + high) * v - r - n * (low * high)
  OBVIOUS
<1>2. n * n * (high - low) * (high - low) - 4 * (n * r - v * v)
         = (n * (low + high) - 2 * v) * (n * (low + high) - 2 * v) + 4 * (n * d)
  BY <1>1
<1>3. PICK e \in Int : e = n * (low + high) - 2 * v
  OBVIOUS
<1>4. e * e >= 0 /\ n * d >= 0
  BY <1>1
<1>5. PICK a \in Int, b \in Int : a = n * n * (high - low) * (high - low) /\ b = 4 * (n * r - v * v)
  OBVIOUS
<1> QED
  BY <1>2, <1>3, <1>4, <1>5

(* The deviation is at most half of the range. *)
LEMMA SpreadWithin ==
    ASSUME NEW n \in Nat, NEW f, NEW v, NEW r, NEW low \in Int, NEW high \in Int,
           \A i \in 1..n : f[i] \in Int /\ low <= f[i] /\ f[i] <= high,
           \A k \in 0..n : v[k] \in Int /\ r[k] \in Int,
           IsSum(v, n, f), r[0] = 0, \A k \in 1..n : r[k] = r[k - 1] + f[k] * f[k]
    PROVE  4 * (n * r[n] - v[n] * v[n]) <= n * n * (high - low) * (high - low)
<1> DEFINE T == {k \in 0..n : (low + high) * v[k] - r[k] - k * (low * high) >= 0}
<1>1. 0 \in T
  <2>1. v[0] = 0 /\ r[0] = 0 /\ 0 \in 0..n /\ (low + high) * 0 - 0 - 0 * (low * high) >= 0
    BY DEF IsSum
  <2> QED
    BY <2>1
<1>2. ASSUME NEW k \in 1..n, k - 1 \in T PROVE k \in T
  <2>1. PICK i \in Int, V \in Int, R \in Int, F \in Int : i = k - 1 /\ V = v[k - 1] /\ R = r[k - 1] /\ F = f[k]
    <3>1. k - 1 \in 0..n
      OBVIOUS
    <3> QED
      BY <3>1
  <2>2. k = i + 1 /\ k \in 0..n /\ v[k] = V + F /\ r[k] = R + F * F
    BY <2>1 DEF IsSum
  <2>3. (low + high) * V - R - i * (low * high) >= 0
    BY <1>2, <2>1
  <2>4. (F - low) * (high - F) >= 0
    <3>1. F - low \in Nat /\ high - F \in Nat
      BY <2>1
    <3>2. PICK a \in Nat, b \in Nat : a = F - low /\ b = high - F
      BY <3>1
    <3>3. a * b \in Nat
      OBVIOUS
    <3> QED
      BY <3>2, <3>3
  <2>5. (low + high) * (V + F) - (R + F * F) - (i + 1) * (low * high) >= 0
    <3>1. PICK a \in Int, b \in Int : a = (low + high) * V - R - i * (low * high) /\ b = (F - low) * (high - F)
      OBVIOUS
    <3>2. a + b >= 0
      BY <2>3, <2>4, <3>1
    <3>3. (low + high) * (V + F) - (R + F * F) - (i + 1) * (low * high) = a + b
      BY <3>1, RangeStep
    <3> QED
      BY <3>2, <3>3
  <2> QED
    BY <2>2, <2>5
<1>3. n \in T
  <2> HIDE DEF T
  <2>1. 0..n \subseteq T
    BY <1>1, <1>2, ReachesAll
  <2> QED
    BY <2>1
<1>4. v[n] \in Int /\ r[n] \in Int
  OBVIOUS
<1> QED
  BY <1>3, <1>4, RangeSquare

(* Changes add up to the range at least, and to as many ranges as there are steps *)
(* at most.                                                                       *)
LEMMA ChangesSpan ==
    ASSUME NEW n \in Nat, NEW f, NEW u, NEW range \in Nat, \A k \in 0..n : u[k] \in Int,
           \A i \in 1..n : f[i] \in Int, \A i, j \in 1..n : f[i] - f[j] <= range,
           u[0] = 0, \A k \in 1..n : u[k] = u[k - 1] + (IF k = 1 THEN 0 ELSE IF f[k] >= f[k - 1] THEN f[k] - f[k - 1] ELSE f[k - 1] - f[k])
    PROVE  /\ \A i, j \in 1..n : f[j] - f[i] <= u[n]
           /\ n = 0 => u[n] = 0
           /\ n # 0 => u[n] <= range * (n - 1)
<1> DEFINE T == {k \in 0..n :
        /\ u[k] >= 0 /\ \A i, j \in 1..k : f[j] - f[i] <= u[k]
        /\ k = 0 \/ u[k] <= range * (k - 1)}
<1>1. 0 \in T
  OBVIOUS
<1>2. ASSUME NEW k \in 1..n, k - 1 \in T PROVE k \in T
  <2>1. k - 1 \in 0..n /\ k \in 0..n
    OBVIOUS
  <2>2. PICK U \in Int, F \in Int : U = u[k - 1] /\ F = f[k]
    BY <2>1
  <2>3. U >= 0 /\ (\A i, j \in 1..(k - 1) : f[j] - f[i] <= U) /\ (k - 1 = 0 \/ U <= range * ((k - 1) - 1))
    BY <1>2, <2>2
  <2>4. CASE k = 1
    <3>1. u[k] = 0 /\ range * (k - 1) = 0
      BY <2>4
    <3>2. \A i, j \in 1..k : i = 1 /\ j = 1
      BY <2>4
    <3>3. \A i, j \in 1..k : f[j] - f[i] <= u[k]
      BY <2>2, <2>4, <3>1, <3>2
    <3> QED
      BY <2>1, <3>1, <3>3
  <2>5. CASE k # 1
    <3>1. k - 1 \in 1..n
      BY <2>5
    <3>2. PICK G \in Int, c \in Nat : /\ G = f[k - 1] /\ u[k] = U + c /\ c <= range
                                      /\ F - G <= c /\ G - F <= c
      <4>1. PICK G \in Int : G = f[k - 1]
        BY <3>1
      <4>2. PICK c : c = IF F >= G THEN F - G ELSE G - F
        OBVIOUS
      <4>3. F - G <= range /\ G - F <= range
        BY <2>2, <3>1, <4>1
      <4>4. u[k] = U + c
        BY <2>2, <2>5, <4>1, <4>2
      <4>5. c \in Nat /\ c <= range /\ F - G <= c /\ G - F <= c
        BY <4>2, <4>3
      <4> QED
        BY <4>1, <4>4, <4>5
    <3>3. u[k] >= 0
      BY <2>3, <3>2
    <3>4. u[k] <= range * (k - 1)
      <4>1. U <= range * ((k - 1) - 1)
        BY <2>3, <2>5
      <4>2. range * ((k - 1) - 1) + range = range * (k - 1)
        OBVIOUS
      <4>3. PICK a \in Int, b \in Int : a = range * ((k - 1) - 1) /\ b = range * (k - 1)
        OBVIOUS
      <4> QED
        BY <3>2, <4>1, <4>2, <4>3
    <3>5. ASSUME NEW i \in 1..k, NEW j \in 1..k PROVE f[j] - f[i] <= u[k]
      <4>1. \A m \in 1..k : m = k \/ m \in 1..(k - 1)
        OBVIOUS
      <4>2. k - 1 \in 1..(k - 1)
        BY <2>5
      <4>3. f[i] \in Int /\ f[j] \in Int
        OBVIOUS
      <4>4. CASE i # k /\ j # k
        <5>1. f[j] - f[i] <= U
          BY <2>3, <4>1, <4>4
        <5> QED
          BY <3>2, <4>3, <5>1
      <4>5. CASE i = k /\ j # k
        <5>1. f[j] - f[k - 1] <= U
          BY <2>3, <4>1, <4>2, <4>5
        <5> QED
          BY <2>2, <3>2, <4>3, <4>5, <5>1
      <4>6. CASE i # k /\ j = k
        <5>1. f[k - 1] - f[i] <= U
          BY <2>3, <4>1, <4>2, <4>6
        <5> QED
          BY <2>2, <3>2, <4>3, <4>6, <5>1
      <4>7. CASE i = k /\ j = k
        BY <3>3, <4>3, <4>7
      <4> QED
        BY <4>4, <4>5, <4>6, <4>7
    <3> QED
      BY <2>1, <3>3, <3>4, <3>5
  <2> QED
    BY <2>4, <2>5
<1>3. n \in T
  <2> HIDE DEF T
  <2>1. 0..n \subseteq T
    BY <1>1, <1>2, ReachesAll
  <2> QED
    BY <2>1
<1> QED
  BY <1>3

(* What is sorted ascends, and has each fee. *)
LEMMA SortedAscends ==
    ASSUME NEW fees \in Seq(Nat)
    PROVE  /\ \A k, l \in 1..Len(fees) : k <= l => Sorted(fees)[k] <= Sorted(fees)[l]
           /\ \A j \in 1..Len(fees) : \E k \in 1..Len(fees) : Sorted(fees)[k] = fees[j]
<1>1. DOMAIN fees = 1..Len(fees) /\ Len(fees) \in Nat /\ \A i \in 1..Len(fees) : fees[i] \in Nat
  OBVIOUS
<1>2. ASSUME NEW k \in 1..Len(fees), NEW l \in 1..Len(fees), k <= l PROVE Sorted(fees)[k] <= Sorted(fees)[l]
  <2>1. PICK i \in 1..Len(fees), j \in 1..Len(fees) : i = Ranked(fees, k - 1) /\ j = Ranked(fees, l - 1)
    BY <1>1, SortedIs
  <2>2. /\ Sorted(fees)[k] = fees[i] /\ Sorted(fees)[l] = fees[j]
        /\ Cardinality(AllBefore(fees, i)) = k - 1 /\ Cardinality(AllBefore(fees, j)) = l - 1
    BY <2>1, SortedIs
  <2>3. ~Precedes(fees, j, i)
    <3>1. Precedes(fees, j, i) => l - 1 < k - 1
      BY <1>1, <2>2, RankGrows
    <3> QED
      BY <1>2, <3>1
  <2> QED
    BY <1>1, <2>2, <2>3 DEF Precedes
<1>3. ASSUME NEW j \in 1..Len(fees) PROVE \E k \in 1..Len(fees) : Sorted(fees)[k] = fees[j]
  <2>1. PICK m : m = Cardinality(AllBefore(fees, j))
    OBVIOUS
  <2>2. m \in Nat /\ m <= Len(fees) /\ m # Len(fees)
    <3> DEFINE J == AllBefore(fees, j)
    <3>1. J \in SUBSET (1..Len(fees)) /\ j \notin J
      BY <1>1, PrecedesOrders DEF AllBefore
    <3> HIDE DEF J
    <3>2. IsFiniteSet(1..Len(fees)) /\ Cardinality(1..Len(fees)) = Len(fees)
      BY <1>1, UptoFinite
    <3>3. IsFiniteSet(J) /\ Cardinality(J) <= Len(fees) /\ (Len(fees) = Cardinality(J) => 1..Len(fees) = J)
      BY <3>1, <3>2, FS_Subset
    <3>4. Cardinality(J) \in Nat
      BY <3>3, FS_CardinalityType
    <3>5. Cardinality(J) # Len(fees)
      BY <3>1, <3>3
    <3> QED
      BY <2>1, <3>3, <3>4, <3>5 DEF J
  <2>3. m + 1 \in 1..Len(fees) /\ (m + 1) - 1 = m
    <3>1. PICK n \in Nat : n = Len(fees)
      BY <1>1
    <3>2. m \in Nat /\ m <= n /\ m # n
      BY <2>2, <3>1
    <3>3. m + 1 \in 1..n /\ (m + 1) - 1 = m
      BY <3>2
    <3> QED
      BY <3>1, <3>3
  <2>4. PICK i \in 1..Len(fees) : i = Ranked(fees, m)
    BY <1>1, <2>3, SortedIs
  <2>5. Sorted(fees)[m + 1] = fees[i] /\ Cardinality(AllBefore(fees, i)) = m
    <3>1. Sorted(fees)[m + 1] = fees[Ranked(fees, (m + 1) - 1)] /\ Cardinality(AllBefore(fees, Ranked(fees, (m + 1) - 1))) = (m + 1) - 1
      BY <2>3, SortedIs
    <3> QED
      BY <2>3, <2>4, <3>1
  <2>6. i = j
    <3>1. Precedes(fees, i, j) => m < m
      BY <1>1, <2>1, <2>5, RankGrows
    <3>2. Precedes(fees, j, i) => m < m
      BY <1>1, <2>1, <2>5, RankGrows
    <3>3. ~(m < m)
      BY <2>2
    <3> QED
      BY <3>1, <3>2, <3>3, PrecedesOrders
  <2> QED
    BY <2>3, <2>5, <2>6
<1> QED
  BY <1>2, <1>3

LEMMA TotalOf ==
    ASSUME NEW n \in Nat, NEW x \in [1..n -> Int]
    PROVE  \E u \in [0..n -> Int] : IsSum(u, n, x) /\ Total(x) = u[n]
<1>1. x \in Seq(Int) /\ Len(x) = n
  OBVIOUS
<1> QED
  BY <1>1, TotalSums

(* r adds the products of x and y up. *)
IsProductSum(r, n, x, y) == r[0] = 0 /\ \A k \in 1..n : r[k] = r[k - 1] + x[k] * y[k]

LEMMA ProductsOf ==
    ASSUME NEW n \in Nat, NEW x, NEW y, NEW z \in [1..n -> Int], \A i \in 1..n : z[i] = x[i] * y[i]
    PROVE  \E r \in [0..n -> Int] : IsProductSum(r, n, x, y) /\ Total(z) = r[n]
<1>1. PICK r \in [0..n -> Int] : IsSum(r, n, z) /\ Total(z) = r[n]
  BY TotalOf
<1>2. IsProductSum(r, n, x, y)
  BY <1>1 DEF IsSum, IsProductSum
<1> QED
  BY <1>1, <1>2

(* A trend compares the places of a list, from 0, with its fees. *)
TrendSums(fees, n, x, u, v, p, q, r) ==
    /\ \A i \in 1..n : x[i] = i - 1
    /\ IsSum(u, n, x) /\ IsSum(v, n, fees)
    /\ IsProductSum(p, n, x, x) /\ IsProductSum(q, n, x, fees) /\ IsProductSum(r, n, fees, fees)
    /\ \A k \in 0..n : u[k] \in Int /\ v[k] \in Int /\ p[k] \in Int /\ q[k] \in Int /\ r[k] \in Int
    /\ Total(fees) = v[n] /\ SpreadOf(fees) = n * r[n] - v[n] * v[n] /\ SpreadOf(x) = n * p[n] - u[n] * u[n]
    /\ Trend(fees).direction = LET xy == n * q[n] - u[n] * v[n] IN
          CASE xy > 0 -> "upward" [] xy < 0 -> "downward" [] xy = 0 -> "sideways"
    /\ Trend(fees).fit = LET xy == n * q[n] - u[n] * v[n] IN <<xy * xy, SpreadOf(x) * SpreadOf(fees)>>

LEMMA TrendSumsExist ==
    ASSUME NEW fees \in Seq(Nat)
    PROVE  \E x, u, v, p, q, r : TrendSums(fees, Len(fees), x, u, v, p, q, r)
<1>1. PICK n \in Nat : n = Len(fees)
  OBVIOUS
<1>2. DOMAIN fees = 1..n /\ fees \in [1..n -> Int] /\ \A i \in 1..n : fees[i] \in Int
  BY <1>1
<1>3. PICK x : x = [i \in 1..n |-> i - 1]
  OBVIOUS
<1>4. x \in [1..n -> Int] /\ DOMAIN x = 1..n /\ Len(x) = n /\ \A i \in 1..n : x[i] \in Int /\ x[i] = i - 1
  BY <1>3
<1>5. PICK u \in [0..n -> Int] : IsSum(u, n, x) /\ Total(x) = u[n]
  BY <1>4, TotalOf
<1>6. PICK v \in [0..n -> Int] : IsSum(v, n, fees) /\ Total(fees) = v[n]
  BY <1>2, TotalOf
<1>7. PICK p \in [0..n -> Int] : IsProductSum(p, n, x, x) /\ Total([i \in 1..n |-> x[i] * x[i]]) = p[n]
  <2>1. PICK z : z = [i \in 1..n |-> x[i] * x[i]]
    OBVIOUS
  <2>2. \A i \in 1..n : x[i] * x[i] \in Int
    BY <1>2, <1>4
  <2>3. z \in [1..n -> Int] /\ \A i \in 1..n : z[i] = x[i] * x[i]
    BY <2>1, <2>2
  <2>4. \E s \in [0..n -> Int] : IsProductSum(s, n, x, x) /\ Total(z) = s[n]
    BY <2>3, ProductsOf
  <2> QED
    BY <2>1, <2>4, Zenon
<1>8. PICK q \in [0..n -> Int] : IsProductSum(q, n, x, fees) /\ Total([i \in 1..n |-> x[i] * fees[i]]) = q[n]
  <2>1. PICK z : z = [i \in 1..n |-> x[i] * fees[i]]
    OBVIOUS
  <2>2. \A i \in 1..n : x[i] * fees[i] \in Int
    BY <1>2, <1>4
  <2>3. z \in [1..n -> Int] /\ \A i \in 1..n : z[i] = x[i] * fees[i]
    BY <2>1, <2>2
  <2>4. \E s \in [0..n -> Int] : IsProductSum(s, n, x, fees) /\ Total(z) = s[n]
    BY <2>3, ProductsOf
  <2> QED
    BY <2>1, <2>4, Zenon
<1>9. PICK r \in [0..n -> Int] : IsProductSum(r, n, fees, fees) /\ Total([i \in 1..n |-> fees[i] * fees[i]]) = r[n]
  <2>1. PICK z : z = [i \in 1..n |-> fees[i] * fees[i]]
    OBVIOUS
  <2>2. \A i \in 1..n : fees[i] * fees[i] \in Int
    <3> SUFFICES ASSUME NEW i \in 1..n PROVE fees[i] * fees[i] \in Int
      OBVIOUS
    <3>1. PICK c \in Int : c = fees[i]
      BY <1>2
    <3>2. c * c \in Int
      OBVIOUS
    <3> QED
      BY <3>1, <3>2, Zenon
  <2>3. z \in [1..n -> Int] /\ \A i \in 1..n : z[i] = fees[i] * fees[i]
    BY <2>1, <2>2
  <2>4. \E s \in [0..n -> Int] : IsProductSum(s, n, fees, fees) /\ Total(z) = s[n]
    BY <2>3, ProductsOf
  <2> QED
    BY <2>1, <2>4, Zenon
<1>10. SpreadOf(fees) = n * r[n] - v[n] * v[n] /\ SpreadOf(x) = n * p[n] - u[n] * u[n]
  BY <1>1, <1>2, <1>4, <1>5, <1>6, <1>7, <1>9, Zenon DEF SpreadOf
<1>11. \A k \in 0..n : u[k] \in Int /\ v[k] \in Int /\ p[k] \in Int /\ q[k] \in Int /\ r[k] \in Int
  OBVIOUS
<1>12. PICK xy : xy = n * q[n] - u[n] * v[n]
  OBVIOUS
<1>13. Trend(fees) = [direction |-> CASE xy > 0 -> "upward" [] xy < 0 -> "downward" [] xy = 0 -> "sideways",
                      slope |-> <<xy, SpreadOf(x)>>, fit |-> <<xy * xy, SpreadOf(x) * SpreadOf(fees)>>]
  BY <1>1, <1>2, <1>3, <1>5, <1>6, <1>8, <1>12, Zenon DEF Trend
<1>14. /\ Trend(fees).direction = CASE xy > 0 -> "upward" [] xy < 0 -> "downward" [] xy = 0 -> "sideways"
       /\ Trend(fees).fit = <<xy * xy, SpreadOf(x) * SpreadOf(fees)>>
  <2>1. PICK d, m, f : /\ d = CASE xy > 0 -> "upward" [] xy < 0 -> "downward" [] xy = 0 -> "sideways"
                       /\ m = <<xy, SpreadOf(x)>> /\ f = <<xy * xy, SpreadOf(x) * SpreadOf(fees)>>
    OBVIOUS
  <2>2. Trend(fees) = [direction |-> d, slope |-> m, fit |-> f]
    BY <1>13, <2>1, Zenon
  <2>3. Trend(fees).direction = d /\ Trend(fees).fit = f
    BY <2>2
  <2> QED
    BY <2>1, <2>3, Zenon
<1>15. TrendSums(fees, n, x, u, v, p, q, r)
  BY <1>4, <1>5, <1>6, <1>7, <1>8, <1>9, <1>10, <1>11, <1>12, <1>14, Zenon DEF TrendSums
<1> QED
  BY <1>1, <1>15

(* The places of a list are not all the same. *)
LEMMA PlacesSpread ==
    ASSUME NEW n \in Nat, n >= 2, NEW x, NEW u, NEW p, \A i \in 1..n : x[i] = i - 1, IsSum(u, n, x),
           IsProductSum(p, n, x, x), \A k \in 0..n : u[k] \in Int /\ p[k] \in Int
    PROVE  n * p[n] - u[n] * u[n] > 0
<1>1. \A i \in 1..n : x[i] \in Int
  OBVIOUS
<1>2. \A i, j \in 1..n : (x[i] - x[j]) * (x[i] - x[j]) >= 0
  <2> SUFFICES ASSUME NEW i \in 1..n, NEW j \in 1..n PROVE (x[i] - x[j]) * (x[i] - x[j]) >= 0
    OBVIOUS
  <2>1. PICK d \in Int : d = x[i] - x[j]
    BY <1>1
  <2>2. d * d >= 0
    OBVIOUS
  <2> QED
    BY <2>1, <2>2
<1>3. \A k \in 1..n : k * p[k] - u[k] * u[k] >= (k - 1) * p[k - 1] - u[k - 1] * u[k - 1]
  BY <1>1, <1>2, CovarianceGrows DEF IsProductSum
<1> DEFINE T == {k \in 0..n : k >= 2 => k * p[k] - u[k] * u[k] > 0}
<1>4. 0 \in T
  OBVIOUS
<1>5. ASSUME NEW k \in 1..n, k - 1 \in T PROVE k \in T
  <2>1. CASE k = 1
    BY <2>1
  <2>2. CASE k = 2
    <3>1. u[0] = 0 /\ u[1] = u[0] + x[1] /\ u[2] = u[1] + x[2] /\ x[1] = 0 /\ x[2] = 1
      <4>1. 1 \in 1..n /\ 2 \in 1..n /\ 1 - 1 = 0 /\ 2 - 1 = 1
        OBVIOUS
      <4>2. u[1] = u[1 - 1] + x[1] /\ u[2] = u[2 - 1] + x[2] /\ u[0] = 0
        BY <4>1 DEF IsSum
      <4>3. x[1] = 1 - 1 /\ x[2] = 2 - 1
        BY <4>1
      <4> QED
        BY <4>1, <4>2, <4>3
    <3>2. p[0] = 0 /\ p[1] = p[0] + x[1] * x[1] /\ p[2] = p[1] + x[2] * x[2]
      <4>1. 1 \in 1..n /\ 2 \in 1..n /\ 1 - 1 = 0 /\ 2 - 1 = 1
        OBVIOUS
      <4>2. p[1] = p[1 - 1] + x[1] * x[1] /\ p[2] = p[2 - 1] + x[2] * x[2] /\ p[0] = 0
        BY <4>1 DEF IsProductSum
      <4> QED
        BY <4>1, <4>2
    <3>3. u[2] = 1 /\ p[2] = 1
      BY <3>1, <3>2
    <3> QED
      BY <2>2, <3>3
  <2>3. CASE k > 2
    <3>1. k - 1 \in 0..n /\ k \in 0..n
      OBVIOUS
    <3>2. (k - 1) * p[k - 1] - u[k - 1] * u[k - 1] > 0
      BY <1>5, <2>3
    <3>3. PICK U \in Int, P \in Int, V \in Int, Q \in Int : U = u[k - 1] /\ P = p[k - 1] /\ V = u[k] /\ Q = p[k]
      BY <3>1
    <3>4. PICK a \in Int, b \in Int : a = (k - 1) * P - U * U /\ b = k * Q - V * V
      OBVIOUS
    <3>5. b >= a /\ a > 0
      BY <1>3, <3>2, <3>3, <3>4
    <3>6. b > 0
      BY <3>5
    <3> QED
      BY <3>1, <3>3, <3>4, <3>6
  <2> QED
    BY <2>1, <2>2, <2>3
<1>6. n \in T
  <2> HIDE DEF T
  <2>1. 0..n \subseteq T
    BY <1>4, <1>5, ReachesAll
  <2> QED
    BY <2>1
<1> QED
  BY <1>6

LEMMA FitBounded ==
    ASSUME NEW fees \in Seq(Nat) PROVE Trend(fees).fit[1] <= Trend(fees).fit[2]
<1>1. PICK n \in Nat : n = Len(fees)
  OBVIOUS
<1>2. PICK x, u, v, p, q, r : TrendSums(fees, n, x, u, v, p, q, r)
  BY <1>1, TrendSumsExist
<1>3. \A i \in 1..n : fees[i] \in Int /\ x[i] \in Int
  BY <1>1, <1>2 DEF TrendSums
<1>4. n \in 0..n /\ u[n] \in Int /\ v[n] \in Int /\ p[n] \in Int /\ q[n] \in Int /\ r[n] \in Int
  <2>1. n \in 0..n
    OBVIOUS
  <2> QED
    BY <1>2, <2>1 DEF TrendSums
<1>5. PICK A \in Int, B \in Int, C \in Int :
          A = n * p[n] - u[n] * u[n] /\ B = n * q[n] - u[n] * v[n] /\ C = n * r[n] - v[n] * v[n]
  <2>1. PICK P \in Int, Q \in Int, R \in Int, U \in Int, V \in Int : P = p[n] /\ Q = q[n] /\ R = r[n] /\ U = u[n] /\ V = v[n]
    BY <1>4
  <2>2. n * P - U * U \in Int /\ n * Q - U * V \in Int /\ n * R - V * V \in Int
    OBVIOUS
  <2> QED
    BY <2>1, <2>2
<1>6. Trend(fees).fit = <<B * B, A * C>>
  BY <1>2, <1>5 DEF TrendSums
<1>7. B * B <= A * C
  <2>1. CASE n >= 2
    <3>1. A > 0
      BY <1>2, <1>5, <2>1, PlacesSpread DEF TrendSums
    <3>2. (n * q[n] - u[n] * v[n]) * (n * q[n] - u[n] * v[n]) <= (n * p[n] - u[n] * u[n]) * (n * r[n] - v[n] * v[n])
      BY <1>2, <1>3, <1>5, <3>1, SquareOfCovariance DEF TrendSums, IsProductSum
    <3> QED
      BY <1>5, <3>2
  <2>2. CASE n < 2
    <3>1. u[n] = 0 /\ p[n] = 0 /\ q[n] = 0
      <4>1. CASE n = 0
        BY <1>2, <4>1 DEF TrendSums, IsSum, IsProductSum
      <4>2. CASE n = 1
        <5>1. 1 \in 1..n /\ 1 - 1 = 0
          BY <4>2
        <5>2. u[0] = 0 /\ p[0] = 0 /\ q[0] = 0 /\ x[1] = 0
          BY <1>2, <5>1 DEF TrendSums, IsSum, IsProductSum
        <5>3. u[1] = u[0] + x[1] /\ p[1] = p[0] + x[1] * x[1] /\ q[1] = q[0] + x[1] * fees[1]
          BY <1>2, <5>1 DEF TrendSums, IsSum, IsProductSum
        <5>4. 0 * fees[1] = 0
          BY <1>3, <5>1
        <5> QED
          BY <4>2, <5>2, <5>3, <5>4
      <4> QED
        BY <2>2, <4>1, <4>2
    <3>2. A = 0 /\ B = 0
      <4>1. n * 0 = 0 /\ 0 * 0 = 0 /\ 0 * v[n] = 0
        BY <1>4
      <4> QED
        BY <1>5, <3>1, <4>1
    <3> QED
      BY <3>2
  <2> QED
    BY <2>1, <2>2
<1> QED
  BY <1>6, <1>7

(* A sorted window never falls. *)
LEMMA SortedNeverFalls ==
    ASSUME NEW fees \in Seq(Nat) PROVE TrendTold(Sorted(fees)) # "downward"
<1> DEFINE y == Sorted(fees)
<1>1. y \in Seq(Nat) /\ Len(y) = Len(fees) /\ \A k, l \in 1..Len(fees) : k <= l => y[k] <= y[l]
  BY SortedIs, SortedAscends
<1> HIDE DEF y
<1>2. PICK n \in Nat : n = Len(fees)
  OBVIOUS
<1>3. PICK x, u, v, p, q, r : TrendSums(y, n, x, u, v, p, q, r)
  BY <1>1, <1>2, TrendSumsExist
<1>4. \A i \in 1..n : y[i] \in Int /\ x[i] \in Int /\ x[i] = i - 1
  BY <1>1, <1>2, <1>3 DEF TrendSums
<1>5. \A i, j \in 1..n : (x[i] - x[j]) * (y[i] - y[j]) >= 0
  <2> SUFFICES ASSUME NEW i \in 1..n, NEW j \in 1..n PROVE (x[i] - x[j]) * (y[i] - y[j]) >= 0
    OBVIOUS
  <2>1. PICK a \in Int, b \in Int : a = x[i] - x[j] /\ b = y[i] - y[j]
    <3>1. PICK p1 \in Int, p2 \in Int, p3 \in Int, p4 \in Int : p1 = x[i] /\ p2 = x[j] /\ p3 = y[i] /\ p4 = y[j]
      BY <1>4, Zenon
    <3>2. p1 - p2 \in Int /\ p3 - p4 \in Int
      OBVIOUS
    <3> QED
      BY <3>1, <3>2, Zenon
  <2>2. a = i - j
    BY <1>4, <2>1
  <2>3. CASE i <= j
    <3>1. y[i] <= y[j]
      BY <1>1, <1>2, <2>3
    <3>2. -a \in Nat /\ -b \in Nat
      <4>1. PICK p1 \in Int, p2 \in Int : p1 = y[i] /\ p2 = y[j]
        BY <1>4
      <4>2. b = p1 - p2 /\ p1 <= p2
        BY <2>1, <3>1, <4>1
      <4> QED
        BY <2>2, <2>3, <4>2
    <3>3. PICK c \in Nat, d \in Nat : c = -a /\ d = -b
      BY <3>2
    <3>4. a * b = c * d /\ c * d >= 0
      BY <3>3
    <3> QED
      BY <2>1, <3>4
  <2>4. CASE j < i
    <3>1. y[j] <= y[i]
      BY <1>1, <1>2, <2>4
    <3>2. a \in Nat /\ b \in Nat
      <4>1. PICK p1 \in Int, p2 \in Int : p1 = y[i] /\ p2 = y[j]
        BY <1>4
      <4>2. b = p1 - p2 /\ p2 <= p1
        BY <2>1, <3>1, <4>1
      <4> QED
        BY <2>2, <2>4, <4>2
    <3>3. a * b >= 0
      BY <3>2
    <3> QED
      BY <2>1, <3>3
  <2> QED
    BY <2>3, <2>4
<1>6. n * q[n] - u[n] * v[n] >= 0
  <2>1. \A k \in 0..n : k * q[k] - u[k] * v[k] >= 0
    BY <1>3, <1>4, <1>5, CovarianceGrows DEF TrendSums, IsProductSum
  <2>2. n \in 0..n
    OBVIOUS
  <2> QED
    BY <2>1, <2>2
<1>7. PICK B \in Int : B = n * q[n] - u[n] * v[n]
  <2>1. n \in 0..n
    OBVIOUS
  <2>2. PICK Q \in Int, U \in Int, V \in Int : Q = q[n] /\ U = u[n] /\ V = v[n]
    BY <1>3, <2>1 DEF TrendSums
  <2>3. n * Q - U * V \in Int
    OBVIOUS
  <2> QED
    BY <2>2, <2>3
<1>8. Trend(y).direction = CASE B > 0 -> "upward" [] B < 0 -> "downward" [] B = 0 -> "sideways"
  BY <1>3, <1>7, Zenon DEF TrendSums
<1>9. Trend(y).direction \in {"upward", "sideways"}
  BY <1>6, <1>7, <1>8
<1>10. TrendTold(y) = Trend(y).direction \/ TrendTold(y) = "none"
  BY Zenon DEF TrendTold
<1> QED
  BY <1>9, <1>10 DEF y

(* The least and the largest of a list are its sorted list's ends. *)
LEMMA SortedEnds ==
    ASSUME NEW fees \in Seq(Nat), fees # <<>>
    PROVE  /\ Sorted(fees)[1] \in Nat /\ Last(Sorted(fees)) \in Nat /\ Sorted(fees)[1] <= Last(Sorted(fees))
           /\ \A i \in 1..Len(fees) : Sorted(fees)[1] <= fees[i] /\ fees[i] <= Last(Sorted(fees))
           /\ \E i, j \in 1..Len(fees) : fees[i] = Sorted(fees)[1] /\ fees[j] = Last(Sorted(fees))
<1>1. PICK n \in Nat : n = Len(fees) /\ n # 0 /\ 1 \in 1..n /\ n \in 1..n
  <2>1. Len(fees) \in Nat /\ Len(fees) # 0
    OBVIOUS
  <2> QED
    BY <2>1
<1>2. PICK y \in Seq(Nat) : y = Sorted(fees) /\ Len(y) = n
  BY <1>1, SortedIs
<1>3. Last(y) = y[n] /\ y[1] \in Nat /\ y[n] \in Nat
  BY <1>1, <1>2 DEF Last
<1>4. /\ \A k, l \in 1..n : k <= l => y[k] <= y[l]
      /\ \A j \in 1..n : \E k \in 1..n : y[k] = fees[j]
  BY <1>1, <1>2, SortedAscends
<1>5. \A k \in 1..n : \E i \in 1..n : y[k] = fees[i]
  <2> SUFFICES ASSUME NEW k \in 1..n PROVE \E i \in 1..n : y[k] = fees[i]
    OBVIOUS
  <2>1. PICK i \in DOMAIN fees : i = Ranked(fees, k - 1) /\ Sorted(fees)[k] = fees[Ranked(fees, k - 1)]
    BY <1>1, SortedIs
  <2>2. DOMAIN fees = 1..n
    BY <1>1
  <2> QED
    BY <1>2, <2>1, <2>2
<1>6. \A i \in 1..n : y[1] <= fees[i] /\ fees[i] <= y[n]
  <2> SUFFICES ASSUME NEW i \in 1..n PROVE y[1] <= fees[i] /\ fees[i] <= y[n]
    OBVIOUS
  <2>1. PICK k \in 1..n : y[k] = fees[i]
    BY <1>4
  <2>2. 1 <= k /\ k <= n
    OBVIOUS
  <2> QED
    BY <1>1, <1>4, <2>1, <2>2
<1>7. y[1] <= y[n]
  <2>1. 1 <= n
    BY <1>1
  <2> QED
    BY <1>1, <1>4, <2>1, Zenon
<1>8. \E i, j \in 1..n : fees[i] = y[1] /\ fees[j] = y[n]
  BY <1>1, <1>5
<1> QED
  BY <1>1, <1>2, <1>3, <1>6, <1>7, <1>8

(* The changes of a list are summed without their signs. *)
LEMMA ChangesAre ==
    ASSUME NEW fees \in Seq(Nat), NEW n \in Nat, n = Len(fees)
    PROVE  \E u \in [0..n -> Int] :
              /\ u[0] = 0
              /\ \A k \in 1..n : u[k] = u[k - 1] + (IF k = 1 THEN 0 ELSE IF fees[k] >= fees[k - 1] THEN fees[k] - fees[k - 1] ELSE fees[k - 1] - fees[k])
              /\ Changes(fees) = u[n]
<1>1. DOMAIN fees = 1..n /\ \A i \in 1..n : fees[i] \in Int
  OBVIOUS
<1>2. PICK z : z = [i \in 1..n |-> IF i = 1 THEN 0 ELSE Max({fees[i] - fees[i - 1], fees[i - 1] - fees[i]})]
  OBVIOUS
<1>3. ASSUME NEW i \in 1..n
      PROVE  /\ z[i] \in Int
             /\ z[i] = IF i = 1 THEN 0 ELSE IF fees[i] >= fees[i - 1] THEN fees[i] - fees[i - 1] ELSE fees[i - 1] - fees[i]
  <2>1. z[i] = IF i = 1 THEN 0 ELSE Max({fees[i] - fees[i - 1], fees[i - 1] - fees[i]})
    BY <1>2
  <2>2. CASE i = 1
    BY <2>1, <2>2
  <2>3. CASE i # 1
    <3>1. i - 1 \in 1..n
      BY <2>3
    <3>2. PICK a \in Int, b \in Int : a = fees[i] /\ b = fees[i - 1]
      BY <1>1, <3>1
    <3>3. a - b \in Int /\ b - a \in Int
      OBVIOUS
    <3>4. Max({a - b, b - a}) = IF a - b >= b - a THEN a - b ELSE b - a
      BY <3>3, MaxOfTwo
    <3>5. z[i] = Max({a - b, b - a})
      BY <2>1, <2>3, <3>2, Zenon
    <3>6. z[i] = IF a >= b THEN a - b ELSE b - a
      BY <3>4, <3>5
    <3> QED
      BY <2>3, <3>2, <3>6
  <2> QED
    BY <2>2, <2>3
<1>4. z \in [1..n -> Int]
  <2>1. z = [i \in 1..n |-> z[i]]
    BY <1>2
  <2> QED
    BY <1>3, <2>1
<1>5. PICK u \in [0..n -> Int] : IsSum(u, n, z) /\ Total(z) = u[n]
  BY <1>4, TotalOf
<1>6. Changes(fees) = Total(z)
  BY <1>1, <1>2, Zenon DEF Changes
<1>7. \A k \in 1..n : u[k] = u[k - 1] + (IF k = 1 THEN 0 ELSE IF fees[k] >= fees[k - 1] THEN fees[k] - fees[k - 1] ELSE fees[k - 1] - fees[k])
  <2>1. \A k \in 1..n : u[k] = u[k - 1] + z[k]
    BY <1>5 DEF IsSum
  <2> QED
    BY <1>3, <2>1, Zenon
<1> QED
  BY <1>5, <1>6, <1>7 DEF IsSum

(* The statistics of a window bound one another, and agree with its summary. *)
StatisticsMeet(fees) ==
    LET v == Volatility(fees)
        summary == Summary(fees)
    IN  /\ v.range = summary.max - summary.min
        /\ v.range <= v.change[1] /\ v.change[1] <= v.range * v.change[2]
        /\ 4 * v.variance <= Len(fees) * Len(fees) * v.range * v.range

LEMMA StatisticsHold ==
    ASSUME NEW fees \in Seq(Nat) PROVE StatisticsMeet(fees)
<1>1. CASE fees = <<>>
  <2>1. Volatility(fees) = [variance |-> 0, change |-> <<0, 1>>, max |-> 0, min |-> 0, range |-> 0]
    BY <1>1 DEF Volatility
  <2>2. Summary(fees) = [min |-> 0, max |-> 0, total |-> 0, p50 |-> 0, p95 |-> 0] /\ Len(fees) = 0
    BY <1>1 DEF Summary
  <2> QED
    BY <2>1, <2>2 DEF StatisticsMeet
<1>2. CASE fees # <<>>
  <2>1. PICK n \in Nat : n = Len(fees) /\ n # 0
    <3>1. Len(fees) \in Nat /\ Len(fees) # 0
      BY <1>2
    <3> QED
      BY <3>1
  <2>2. PICK low \in Nat, high \in Nat :
          /\ low = Sorted(fees)[1] /\ high = Last(Sorted(fees)) /\ low <= high
          /\ \A i \in 1..n : low <= fees[i] /\ fees[i] <= high
          /\ \E i, j \in 1..n : fees[i] = low /\ fees[j] = high
    BY <1>2, <2>1, SortedEnds
  <2>3. PICK range \in Nat : range = high - low
    BY <2>2
  <2>4. PICK changes, variance : changes = Changes(fees) /\ variance = SpreadOf(fees)
    OBVIOUS
  <2>5. Max({1, n - 1}) = IF 1 >= n - 1 THEN 1 ELSE n - 1
    <3>1. n - 1 \in Int
      OBVIOUS
    <3> QED
      BY <3>1, MaxOfTwo
  <2>6. PICK steps \in Nat : steps = Max({1, n - 1}) /\ steps >= 1 /\ steps >= n - 1
    BY <2>1, <2>5
  <2>7. Volatility(fees) = [variance |-> variance, change |-> <<changes, steps>>, max |-> high, min |-> low, range |-> range]
    BY <1>2, <2>1, <2>2, <2>3, <2>4, <2>6, Zenon DEF Volatility
  <2>8. PICK total, half, most : Summary(fees) = [min |-> low, max |-> high, total |-> total, p50 |-> half, p95 |-> most]
    BY <1>2, <2>2, Zenon DEF Summary
  <2>9. \A i \in 1..n : fees[i] \in Int
    BY <2>1
  <2>10. changes \in Int /\ range <= changes /\ changes <= range * steps
    <3>1. PICK u \in [0..n -> Int] :
              /\ u[0] = 0
              /\ \A k \in 1..n : u[k] = u[k - 1] + (IF k = 1 THEN 0 ELSE IF fees[k] >= fees[k - 1] THEN fees[k] - fees[k - 1] ELSE fees[k - 1] - fees[k])
              /\ changes = u[n]
      BY <2>1, <2>4, ChangesAre
    <3>2. \A i, j \in 1..n : fees[i] - fees[j] <= range
      <4> SUFFICES ASSUME NEW i \in 1..n, NEW j \in 1..n PROVE fees[i] - fees[j] <= range
        OBVIOUS
      <4>1. PICK a \in Int, b \in Int : a = fees[i] /\ b = fees[j]
        BY <2>9
      <4>2. a <= high /\ low <= b
        BY <2>2, <4>1
      <4>3. a - b <= range
        BY <2>3, <4>2
      <4> QED
        BY <4>1, <4>3
    <3>3. \A k \in 0..n : u[k] \in Int
      OBVIOUS
    <3>4. (\A i, j \in 1..n : fees[j] - fees[i] <= u[n]) /\ u[n] <= range * (n - 1)
      BY <2>1, <2>9, <3>1, <3>2, <3>3, ChangesSpan
    <3>5. PICK i \in 1..n, j \in 1..n : fees[i] = low /\ fees[j] = high
      BY <2>2
    <3>6. range <= changes
      BY <2>3, <3>1, <3>4, <3>5
    <3>7. range * (n - 1) <= range * steps
      <4>1. PICK d \in Nat : d = steps - (n - 1)
        BY <2>6
      <4>2. range * d >= 0 /\ range * steps = range * (n - 1) + range * d
        BY <4>1
      <4>3. PICK a \in Int, b \in Int, c \in Int : a = range * steps /\ b = range * (n - 1) /\ c = range * d
        OBVIOUS
      <4> QED
        BY <4>2, <4>3
    <3>8. u[n] \in Int
      OBVIOUS
    <3>9. PICK a \in Int, b \in Int, c \in Int : a = range * (n - 1) /\ b = range * steps /\ c = u[n]
      BY <3>8
    <3>10. c <= a /\ a <= b
      BY <3>4, <3>7, <3>9
    <3>11. c <= b
      BY <3>10
    <3> QED
      BY <3>1, <3>6, <3>9, <3>11
  <2>11. 4 * variance <= n * n * range * range
    <3>1. PICK x, u, v, p, q, r : TrendSums(fees, n, x, u, v, p, q, r)
      BY <2>1, TrendSumsExist
    <3>2. 4 * (n * r[n] - v[n] * v[n]) <= n * n * (high - low) * (high - low)
      BY <2>2, <2>9, <3>1, SpreadWithin DEF TrendSums, IsProductSum
    <3>3. variance = n * r[n] - v[n] * v[n]
      BY <2>4, <3>1 DEF TrendSums
    <3> QED
      BY <2>3, <3>2, <3>3
  <2> HIDE DEF Volatility
  <2>12. /\ Volatility(fees).range = range /\ Volatility(fees).change[1] = changes
         /\ Volatility(fees).change[2] = steps /\ Volatility(fees).variance = variance
    BY <2>7
  <2>13. Summary(fees).max = high /\ Summary(fees).min = low
    BY <2>8
  <2> QED
    BY <2>1, <2>3, <2>10, <2>11, <2>12, <2>13, Zenon DEF StatisticsMeet
<1> QED
  BY <1>1, <1>2

-----------------------------------------------------------------------------
(* The cheapest fee that is good enough. *)

(* Powers are products, factor after factor. *)
LEMMA PowerFolds ==
    ASSUME NEW x \in Int, NEW n \in Nat
    PROVE  \E f \in [0..n -> Int] : f[0] = 1 /\ (\A k \in 1..n : f[k] = f[k - 1] * x) /\ Power(x, n) = f[n]
<1> DEFINE Z == Int
           step == [k \in 1..n |-> [power \in Z |-> power * x]]
           p == CHOOSE f : f = [k \in 0..n |-> IF k = 0 THEN 1 ELSE f[k - 1] * x]
<1>1. \A power \in Int : power * x \in Int
  OBVIOUS
<1>2. step \in [1..n -> [Z -> Z]] /\ 1 \in Z
  BY <1>1
<1>3. PICK f \in [0..n -> Z] : IsFold(f, n, 1, step)
  <2> HIDE DEF step, p, Z
  <2> QED
    BY <1>2, FoldExists
<1>4. \A k \in 0..n : f[k] \in Int
  <2> HIDE DEF step
  <2> QED
    BY <1>3
<1>5. f[0] = 1 /\ \A k \in 1..n : f[k] = f[k - 1] * x
  <2>1. ASSUME NEW k \in 1..n PROVE f[k] = f[k - 1] * x
    <3>1. f[k - 1] \in Int
      BY <1>4
    <3>2. step[k][f[k - 1]] = f[k - 1] * x
      BY <3>1
    <3> HIDE DEF step, Z
    <3>3. f[k] = step[k][f[k - 1]]
      BY <1>3 DEF IsFold
    <3> QED
      BY <3>2, <3>3
  <2> QED
    BY <1>3, <2>1 DEF IsFold
<1>6. f = [k \in 0..n |-> IF k = 0 THEN 1 ELSE f[k - 1] * x]
  <2> HIDE DEF step, p, Z
  <2>1. f = [k \in 0..n |-> f[k]]
    BY <1>3
  <2>2. \A k \in 0..n : k = 0 \/ k \in 1..n
    OBVIOUS
  <2> QED
    BY <1>5, <2>1, <2>2, Zenon
<1>7. p = [k \in 0..n |-> IF k = 0 THEN 1 ELSE p[k - 1] * x]
  BY <1>6
<1>8. Power(x, n) = p[n]
  BY DEF Power
<1> HIDE DEF p, step, Z
<1>9. p[0] = 1 /\ \A k \in 1..n : p[k] = p[k - 1] * x
  BY <1>7
<1>10. \A k \in 0..n : p[k] = f[k]
  <2> DEFINE same == {k \in 0..n : p[k] = f[k]}
  <2>1. 0 \in same /\ \A k \in 1..n : k - 1 \in same => k \in same
    BY <1>5, <1>9
  <2>2. 0..n \subseteq same
    <3> HIDE DEF same
    <3> QED
      BY <2>1, ReachesAll
  <2> QED
    BY <2>2
<1>11. Power(x, n) = f[n]
  BY <1>8, <1>10
<1>12. f \in [0..n -> Int]
  BY <1>3 DEF Z
<1> QED
  BY <1>5, <1>11, <1>12

LEMMA PowersAre ==
    ASSUME NEW x \in Int
    PROVE  Power(x, 1) = x /\ Power(x, 2) = x * x /\ Power(x, 5) = x * x * x * x * x
<1>1. PICK f \in [0..1 -> Int] : f[0] = 1 /\ (\A k \in 1..1 : f[k] = f[k - 1] * x) /\ Power(x, 1) = f[1]
  BY PowerFolds
<1>2. PICK g \in [0..2 -> Int] : g[0] = 1 /\ (\A k \in 1..2 : g[k] = g[k - 1] * x) /\ Power(x, 2) = g[2]
  BY PowerFolds
<1>3. PICK h \in [0..5 -> Int] : h[0] = 1 /\ (\A k \in 1..5 : h[k] = h[k - 1] * x) /\ Power(x, 5) = h[5]
  BY PowerFolds
<1>4. Power(x, 1) = x
  <2>1. f[1] = f[1 - 1] * x
    BY <1>1
  <2>2. 1 - 1 = 0 /\ 1 * x = x
    OBVIOUS
  <2> QED
    BY <1>1, <2>1, <2>2, Zenon
<1>5. Power(x, 2) = x * x
  <2>1. g[1] = g[1 - 1] * x /\ g[2] = g[2 - 1] * x
    BY <1>2
  <2>2. 1 - 1 = 0 /\ 2 - 1 = 1 /\ 1 * x = x
    OBVIOUS
  <2> QED
    BY <1>2, <2>1, <2>2, Zenon
<1>6. Power(x, 5) = x * x * x * x * x
  <2>1. /\ h[1] = h[1 - 1] * x /\ h[2] = h[2 - 1] * x /\ h[3] = h[3 - 1] * x
        /\ h[4] = h[4 - 1] * x /\ h[5] = h[5 - 1] * x
    BY <1>3
  <2>2. 1 - 1 = 0 /\ 2 - 1 = 1 /\ 3 - 1 = 2 /\ 4 - 1 = 3 /\ 5 - 1 = 4 /\ 1 * x = x
    OBVIOUS
  <2>3. h[1] = x
    BY <1>3, <2>1, <2>2, Zenon
  <2>4. h[2] = x * x
    BY <2>1, <2>2, <2>3, Zenon
  <2>5. h[3] = x * x * x
    BY <2>1, <2>2, <2>4, Zenon
  <2>6. h[4] = x * x * x * x
    BY <2>1, <2>2, <2>5, Zenon
  <2>7. h[5] = x * x * x * x * x
    BY <2>1, <2>2, <2>6, Zenon
  <2> QED
    BY <1>3, <2>7, Zenon
<1> QED
  BY <1>4, <1>5, <1>6

(* Powers of naturals grow with their base; those of 0 are 0. *)
LEMMA PowerGrows ==
    ASSUME NEW a \in Nat, NEW b \in Nat, a <= b, NEW n \in Nat
    PROVE  /\ Power(a, n) \in Nat /\ Power(b, n) \in Nat /\ Power(a, n) <= Power(b, n)
           /\ n # 0 /\ a = 0 => Power(a, n) = 0
<1>0. a \in Int /\ b \in Int
  OBVIOUS
<1>1. PICK f \in [0..n -> Int] : f[0] = 1 /\ (\A k \in 1..n : f[k] = f[k - 1] * a) /\ Power(a, n) = f[n]
  BY <1>0, PowerFolds
<1>2. PICK g \in [0..n -> Int] : g[0] = 1 /\ (\A k \in 1..n : g[k] = g[k - 1] * b) /\ Power(b, n) = g[n]
  BY <1>0, PowerFolds
<1> DEFINE T == {k \in 0..n : f[k] >= 0 /\ g[k] >= 0 /\ f[k] <= g[k]}
<1>3. 0 \in T
  BY <1>1, <1>2
<1>4. ASSUME NEW k \in 1..n, k - 1 \in T PROVE k \in T
  <2>1. k - 1 \in 0..n /\ k \in 0..n
    OBVIOUS
  <2>2. PICK x \in Nat, y \in Nat : x = f[k - 1] /\ y = g[k - 1] /\ x <= y
    BY <1>4, <2>1
  <2>3. PICK c \in Nat, d \in Nat : y = x + c /\ b = a + d
    <3>1. y - x \in Nat /\ b - a \in Nat /\ y = x + (y - x) /\ b = a + (b - a)
      BY <2>2
    <3> QED
      BY <3>1
  <2>4. y * b = x * a + (x * d + c * a + c * d)
    BY <2>3
  <2>5. x * a >= 0 /\ x * d >= 0 /\ c * a >= 0 /\ c * d >= 0
    OBVIOUS
  <2>6. PICK s \in Int, t \in Int, v \in Int, w \in Int, z \in Int :
            s = x * a /\ t = x * d /\ v = c * a /\ w = c * d /\ z = y * b
    OBVIOUS
  <2>7. z = s + (t + v + w) /\ s >= 0 /\ t >= 0 /\ v >= 0 /\ w >= 0
    BY <2>4, <2>5, <2>6
  <2>8. s >= 0 /\ z >= 0 /\ s <= z
    BY <2>7
  <2>9. f[k] = s /\ g[k] = z
    BY <1>1, <1>2, <2>2, <2>6
  <2> QED
    BY <2>1, <2>8, <2>9
<1>5. n \in T
  <2> HIDE DEF T
  <2>1. 0..n \subseteq T
    BY <1>3, <1>4, ReachesAll
  <2> QED
    BY <2>1
<1>6. n # 0 /\ a = 0 => Power(a, n) = 0
  <2> SUFFICES ASSUME n # 0, a = 0 PROVE Power(a, n) = 0
    OBVIOUS
  <2>1. n \in 1..n /\ n - 1 \in 0..n
    OBVIOUS
  <2>2. PICK x \in Int : x = f[n - 1]
    BY <2>1
  <2>3. f[n] = x * a
    BY <1>1, <2>1, <2>2
  <2>4. x * 0 = 0
    OBVIOUS
  <2> QED
    BY <1>1, <2>3, <2>4, Zenon
<1>7. f[n] \in Int /\ g[n] \in Int
  OBVIOUS
<1> QED
  BY <1>1, <1>2, <1>5, <1>6, <1>7

LEMMA AtOrBelowIs ==
    ASSUME NEW fees \in Seq(Nat), NEW fee \in Nat, NEW more \in Nat, fee <= more
    PROVE  /\ AtOrBelow(fees, fee) \in 0..Len(fees) /\ AtOrBelow(fees, more) \in 0..Len(fees)
           /\ AtOrBelow(fees, fee) <= AtOrBelow(fees, more)
           /\ (\A i \in 1..Len(fees) : fees[i] <= fee) => AtOrBelow(fees, fee) = Len(fees)
<1>1. PICK n \in Nat : n = Len(fees)
  OBVIOUS
<1>2. DOMAIN fees = 1..n /\ \A i \in 1..n : fees[i] \in Nat
  BY <1>1
<1> DEFINE A == {i \in 1..n : fees[i] <= fee}
           B == {i \in 1..n : fees[i] <= more}
<1>3. AtOrBelow(fees, fee) = Cardinality(A) /\ AtOrBelow(fees, more) = Cardinality(B)
  BY <1>2 DEF AtOrBelow
<1>4. A \in SUBSET B /\ B \in SUBSET (1..n) /\ ((\A i \in 1..n : fees[i] <= fee) => A = 1..n)
  BY <1>2
<1> HIDE DEF A, B
<1>5. IsFiniteSet(1..n) /\ Cardinality(1..n) = n
  BY UptoFinite
<1>6. IsFiniteSet(B) /\ Cardinality(B) <= n
  <2>1. IsFiniteSet(B) /\ Cardinality(B) <= Cardinality(1..n)
    BY <1>4, <1>5, FS_Subset
  <2> QED
    BY <1>5, <2>1
<1>7. IsFiniteSet(A) /\ Cardinality(A) <= Cardinality(B)
  BY <1>4, <1>6, FS_Subset
<1>8. Cardinality(A) \in Nat /\ Cardinality(B) \in Nat
  BY <1>6, <1>7, FS_CardinalityType
<1>9. Cardinality(A) \in 0..n /\ Cardinality(B) \in 0..n
  BY <1>6, <1>7, <1>8
<1>10. (\A i \in 1..n : fees[i] <= fee) => Cardinality(A) = n
  BY <1>4, <1>5
<1> QED
  BY <1>1, <1>3, <1>7, <1>9, <1>10

(* Whether a fee is good enough: of n fees, q are above it. *)
ReachesBy(sorted, fee, percent, ledgers, n, q) ==
    /\ n = Len(sorted) /\ q = n - AtOrBelow(sorted, fee)
    /\ Reaches(sorted, fee, percent, ledgers)
          <=> 100 * (Power(n, ledgers) - Power(q, ledgers)) >= percent * Power(n, ledgers)

LEMMA ReachesIs ==
    ASSUME NEW sorted \in Seq(Nat), NEW fee \in Nat, NEW percent \in Nat, NEW ledgers \in Nat
    PROVE  \E n \in Nat : \E q \in 0..n : ReachesBy(sorted, fee, percent, ledgers, n, q)
<1>1. PICK n \in Nat : n = Len(sorted)
  OBVIOUS
<1>2. AtOrBelow(sorted, fee) \in 0..n
  BY <1>1, AtOrBelowIs
<1>3. PICK q \in 0..n : q = n - AtOrBelow(sorted, fee)
  BY <1>2
<1>4. Reaches(sorted, fee, percent, ledgers)
         <=> 100 * (Power(n, ledgers) - Power(q, ledgers)) >= percent * Power(n, ledgers)
  BY <1>1, <1>3, Zenon DEF Reaches
<1> QED
  BY <1>1, <1>3, <1>4 DEF ReachesBy

(* A dearer fee is at least as good; the dearest is good enough. *)
LEMMA ReachesGrows ==
    ASSUME NEW sorted \in Seq(Nat), NEW fee \in Nat, NEW more \in Nat, fee <= more,
           NEW percent \in 0..100, NEW ledgers \in Nat \ {0}
    PROVE  /\ Reaches(sorted, fee, percent, ledgers) => Reaches(sorted, more, percent, ledgers)
           /\ (\A i \in 1..Len(sorted) : sorted[i] <= fee) => Reaches(sorted, fee, percent, ledgers)
<1>0. percent \in Nat /\ ledgers \in Nat
  OBVIOUS
<1>1. PICK n \in Nat : \E q \in 0..n : ReachesBy(sorted, fee, percent, ledgers, n, q)
  BY <1>0, ReachesIs
<1>2. PICK q \in 0..n, r \in 0..n :
          ReachesBy(sorted, fee, percent, ledgers, n, q) /\ ReachesBy(sorted, more, percent, ledgers, n, r)
  <2>1. PICK m \in Nat : \E r \in 0..m : ReachesBy(sorted, more, percent, ledgers, m, r)
    BY <1>0, ReachesIs
  <2>2. m = n
    BY <1>1, <2>1 DEF ReachesBy
  <2> QED
    BY <1>1, <2>1, <2>2
<1>3. /\ AtOrBelow(sorted, fee) \in 0..n /\ AtOrBelow(sorted, more) \in 0..n
      /\ AtOrBelow(sorted, fee) <= AtOrBelow(sorted, more)
      /\ (\A i \in 1..n : sorted[i] <= fee) => AtOrBelow(sorted, fee) = n
  <2>1. n = Len(sorted)
    BY <1>2 DEF ReachesBy
  <2> QED
    BY <2>1, AtOrBelowIs
<1>4. q \in Nat /\ r \in Nat /\ r <= q /\ q <= n /\ ((\A i \in 1..n : sorted[i] <= fee) => q = 0)
  <2>1. q = n - AtOrBelow(sorted, fee) /\ r = n - AtOrBelow(sorted, more)
    BY <1>2 DEF ReachesBy
  <2>2. PICK a \in 0..n, b \in 0..n : a = AtOrBelow(sorted, fee) /\ b = AtOrBelow(sorted, more)
    BY <1>3
  <2>3. a <= b /\ ((\A i \in 1..n : sorted[i] <= fee) => a = n)
    BY <1>3, <2>2
  <2>4. q = n - a /\ r = n - b
    BY <2>1, <2>2
  <2> QED
    BY <2>3, <2>4
<1>5. Power(r, ledgers) \in Nat /\ Power(q, ledgers) \in Nat /\ Power(r, ledgers) <= Power(q, ledgers)
  BY <1>4, PowerGrows
<1>6. Power(n, ledgers) \in Nat /\ (q = 0 => Power(q, ledgers) = 0)
  BY <1>4, PowerGrows
<1>7. PICK P \in Nat, Q \in Nat, R \in Nat : P = Power(n, ledgers) /\ Q = Power(q, ledgers) /\ R = Power(r, ledgers)
  BY <1>5, <1>6
<1>8. PICK w \in Int : w = percent * P /\ w <= 100 * P
  <2>1. PICK rest \in Nat : percent + rest = 100
    <3>1. 100 - percent \in Nat /\ percent + (100 - percent) = 100
      OBVIOUS
    <3> QED
      BY <3>1
  <2>2. percent * P + rest * P = 100 * P
    BY <2>1
  <2>3. PICK a \in Int, b \in Int : a = percent * P /\ b = rest * P
    OBVIOUS
  <2>4. b >= 0
    BY <2>3
  <2> QED
    BY <2>2, <2>3, <2>4
<1>9. Reaches(sorted, fee, percent, ledgers) <=> 100 * (P - Q) >= w
  BY <1>2, <1>7, <1>8, Zenon DEF ReachesBy
<1>10. Reaches(sorted, more, percent, ledgers) <=> 100 * (P - R) >= w
  BY <1>2, <1>7, <1>8, Zenon DEF ReachesBy
<1>11. R <= Q /\ (q = 0 => Q = 0)
  BY <1>5, <1>6, <1>7
<1>12. 100 * (P - Q) >= w => 100 * (P - R) >= w
  BY <1>11
<1>13. q = 0 => 100 * (P - Q) >= w
  BY <1>8, <1>11
<1> QED
  <2>1. n = Len(sorted)
    BY <1>2 DEF ReachesBy
  <2> QED
    BY <1>4, <1>9, <1>10, <1>12, <1>13, <2>1, Zenon

(* One turn of the loop of find_fee_for_confidence, on the pair of lo and hi. *)
Narrowed(sorted, percent, ledgers, pair) ==
    IF pair[1] >= pair[2] THEN pair
    ELSE LET mid == pair[1] + (pair[2] - pair[1]) \div 2
         IN  IF Reaches(sorted, sorted[mid], percent, ledgers) THEN <<pair[1], mid>> ELSE <<mid + 1, pair[2]>>

(* The pairs that the loop goes through. *)
Search(sorted, percent, ledgers, n, search) ==
    /\ search[1] = <<1, n>>
    /\ \A k \in 2..n : search[k] = Narrowed(sorted, percent, ledgers, search[k - 1])

LEMMA HalvingFolds ==
    ASSUME NEW sorted \in Seq(Nat), NEW percent, NEW ledgers, NEW n \in Nat \ {0}, n = Len(sorted)
    PROVE  \E search : Search(sorted, percent, ledgers, n, search) /\ Halving(sorted, percent, ledgers) = search[n][1]
<1> DEFINE Z == Int \X Int
           step == [k \in 1..n |-> [pair \in Z |-> Narrowed(sorted, percent, ledgers, pair)]]
           search == CHOOSE f : f = [k \in DOMAIN sorted |->
                         IF k = 1 THEN <<1, Len(sorted)>> ELSE Narrowed(sorted, percent, ledgers, f[k - 1])]
<1>1. DOMAIN sorted = 1..n
  OBVIOUS
<1>2. \A pair \in Z : Narrowed(sorted, percent, ledgers, pair) \in Z
  <2> SUFFICES ASSUME NEW pair \in Z PROVE Narrowed(sorted, percent, ledgers, pair) \in Z
    OBVIOUS
  <2>1. PICK mid \in Int : mid = pair[1] + (pair[2] - pair[1]) \div 2
    <3>1. PICK a \in Int, b \in Int : a = pair[1] /\ b = pair[2]
      OBVIOUS
    <3>2. (b - a) \div 2 \in Int
      OBVIOUS
    <3> QED
      BY <3>1, <3>2
  <2>2. <<pair[1], mid>> \in Z /\ <<mid + 1, pair[2]>> \in Z
    OBVIOUS
  <2> QED
    BY <2>1, <2>2, Zenon DEF Narrowed
<1>3. step \in [1..n -> [Z -> Z]] /\ <<1, n>> \in Z
  BY <1>2
<1>4. PICK f \in [0..n -> Z] : IsFold(f, n, <<1, n>>, step)
  <2> HIDE DEF step, search, Z
  <2> QED
    BY <1>3, FoldExists
<1>5. f[0] = <<1, n>> /\ \A k \in 1..n : f[k] = Narrowed(sorted, percent, ledgers, f[k - 1])
  <2>1. ASSUME NEW k \in 1..n PROVE f[k] = Narrowed(sorted, percent, ledgers, f[k - 1])
    <3>1. f[k - 1] \in Z
      <4>1. k - 1 \in 0..n
        OBVIOUS
      <4> HIDE DEF Z, step
      <4> QED
        BY <1>4, <4>1
    <3>2. step[k][f[k - 1]] = Narrowed(sorted, percent, ledgers, f[k - 1])
      <4> HIDE DEF Z
      <4> QED
        BY <3>1
    <3> HIDE DEF step, Z
    <3>3. f[k] = step[k][f[k - 1]]
      BY <1>4 DEF IsFold
    <3> QED
      BY <3>2, <3>3
  <2> HIDE DEF step, Z
  <2> QED
    BY <1>4, <2>1 DEF IsFold
<1> DEFINE g == [k \in 1..n |-> f[k - 1]]
<1>6. \A k \in 1..n : g[k] = f[k - 1]
  OBVIOUS
<1>7. \A k \in 1..n : g[k] = IF k = 1 THEN <<1, n>> ELSE Narrowed(sorted, percent, ledgers, g[k - 1])
  <2> SUFFICES ASSUME NEW k \in 1..n
               PROVE  g[k] = IF k = 1 THEN <<1, n>> ELSE Narrowed(sorted, percent, ledgers, g[k - 1])
    OBVIOUS
  <2> HIDE DEF g, step, search, Z
  <2>1. CASE k = 1
    <3>1. 1 - 1 = 0
      OBVIOUS
    <3> QED
      BY <1>5, <1>6, <2>1, <3>1
  <2>2. CASE k # 1
    <3>1. k - 1 \in 1..n
      BY <2>2
    <3> QED
      BY <1>5, <1>6, <2>2, <3>1
  <2> QED
    BY <2>1, <2>2
<1>8. g = [k \in DOMAIN sorted |-> IF k = 1 THEN <<1, Len(sorted)>> ELSE Narrowed(sorted, percent, ledgers, g[k - 1])]
  <2>1. g = [k \in 1..n |-> g[k]]
    OBVIOUS
  <2> HIDE DEF g, step, search, Z
  <2> QED
    BY <1>1, <1>7, <2>1, Zenon
<1>9. search = [k \in DOMAIN sorted |-> IF k = 1 THEN <<1, Len(sorted)>> ELSE Narrowed(sorted, percent, ledgers, search[k - 1])]
  <2> HIDE DEF g, step, Z
  <2> QED
    BY <1>8
<1>10. Halving(sorted, percent, ledgers) = search[n][1]
  BY DEF Halving, Narrowed
<1>11. Search(sorted, percent, ledgers, n, search)
  <2> HIDE DEF g, step, search, Z
  <2>1. \A k \in 1..n : search[k] = IF k = 1 THEN <<1, n>> ELSE Narrowed(sorted, percent, ledgers, search[k - 1])
    BY <1>1, <1>9
  <2>2. 1 \in 1..n /\ \A k \in 2..n : k \in 1..n /\ k # 1
    OBVIOUS
  <2> QED
    BY <2>1, <2>2, Zenon DEF Search
<1> QED
  BY <1>10, <1>11

(* What the loop keeps: the fee at hi is good enough, none before lo is, and after *)
(* k - 1 turns they have met or are closer by as much.                             *)
Narrowing(sorted, percent, ledgers, n, k, pair) ==
    \E lo, hi \in 1..n :
        /\ pair = <<lo, hi>> /\ lo <= hi /\ (lo = hi \/ hi - lo <= n - k)
        /\ Reaches(sorted, sorted[hi], percent, ledgers)
        /\ \A j \in 1..n : j < lo => ~Reaches(sorted, sorted[j], percent, ledgers)

LEMMA PlaceIsNat == ASSUME NEW s \in Seq(Nat), NEW i \in 1..Len(s) PROVE s[i] \in Nat
  OBVIOUS

LEMMA NarrowedKeeps ==
    ASSUME NEW sorted \in Seq(Nat), NEW percent \in 0..100, NEW ledgers \in Nat \ {0}, NEW n \in Nat, n = Len(sorted),
           \A i, j \in 1..n : i <= j => sorted[i] <= sorted[j],
           NEW k \in 2..n, NEW pair, Narrowing(sorted, percent, ledgers, n, k - 1, pair)
    PROVE  Narrowing(sorted, percent, ledgers, n, k, Narrowed(sorted, percent, ledgers, pair))
<1> DEFINE good(i) == Reaches(sorted, sorted[i], percent, ledgers)
<1>1. PICK lo \in 1..n, hi \in 1..n :
        /\ pair = <<lo, hi>> /\ lo <= hi /\ (lo = hi \/ hi - lo <= n - (k - 1))
        /\ good(hi) /\ \A j \in 1..n : j < lo => ~good(j)
  BY DEF Narrowing
<1>2. pair[1] = lo /\ pair[2] = hi
  BY <1>1
<1>3. \A i, j \in 1..n : i <= j /\ good(i) => good(j)
  <2> SUFFICES ASSUME NEW i \in 1..n, NEW j \in 1..n, i <= j, good(i) PROVE good(j)
    OBVIOUS
  <2>1. sorted[i] \in Nat /\ sorted[j] \in Nat /\ sorted[i] <= sorted[j]
    <3> HIDE DEF good
    <3>1. sorted[i] \in Nat /\ sorted[j] \in Nat
      <4>1. i \in 1..Len(sorted) /\ j \in 1..Len(sorted)
        BY Zenon
      <4> QED
        BY <4>1, PlaceIsNat, Zenon
    <3>2. sorted[i] <= sorted[j]
      BY Zenon
    <3> QED
      BY <3>1, <3>2
  <2> QED
    BY <2>1, ReachesGrows
<1> HIDE DEF good
<1>4. CASE lo >= hi
  <2>1. lo = hi
    BY <1>1, <1>4
  <2>2. Narrowed(sorted, percent, ledgers, pair) = pair
    BY <1>2, <1>4, Zenon DEF Narrowed
  <2> QED
    BY <1>1, <2>1, <2>2, Zenon DEF Narrowing, good
<1>5. CASE lo < hi
  <2>1. PICK mid \in Int : mid = lo + (hi - lo) \div 2
    OBVIOUS
  <2>2. mid \in 1..n /\ lo <= mid /\ mid < hi
    <3>1. PICK d \in Nat : d = hi - lo /\ d >= 1
      BY <1>5
    <3>2. d \div 2 \in Nat /\ d \div 2 < d
      BY <3>1
    <3>3. mid = lo + d \div 2 /\ hi = lo + d
      BY <2>1, <3>1
    <3> QED
      BY <3>2, <3>3
  <2>3. ~(lo >= hi)
    BY <1>5
  <2>4. Narrowed(sorted, percent, ledgers, pair) = IF good(mid) THEN <<lo, mid>> ELSE <<mid + 1, hi>>
    BY <1>2, <2>1, <2>3, Zenon DEF Narrowed, good
  <2>5. hi - lo <= n - (k - 1)
    BY <1>1, <1>5
  <2>6. CASE good(mid)
    <3>1. lo <= mid /\ mid - lo <= n - k
      BY <2>2, <2>5
    <3>2. Narrowed(sorted, percent, ledgers, pair) = <<lo, mid>>
      BY <2>4, <2>6
    <3>3. \A j \in 1..n : j < lo => ~good(j)
      BY <1>1, Zenon
    <3>4. Narrowing(sorted, percent, ledgers, n, k, <<lo, mid>>)
      BY <2>2, <2>6, <3>1, <3>3, Zenon DEF Narrowing, good
    <3> QED
      BY <3>2, <3>4, Zenon
  <2>7. CASE ~good(mid)
    <3>1. mid + 1 \in 1..n /\ mid + 1 <= hi /\ hi - (mid + 1) <= n - k
      <4>1. mid + 1 <= hi
        BY <2>2
      <4>2. mid + 1 \in 1..n
        BY <2>2, <4>1
      <4>3. hi - (mid + 1) <= n - k
        BY <2>2, <2>5
      <4> QED
        BY <4>1, <4>2, <4>3, Zenon
    <3>2. Narrowed(sorted, percent, ledgers, pair) = <<mid + 1, hi>>
      BY <2>4, <2>7
    <3>3. \A j \in 1..n : j < mid + 1 => ~good(j)
      <4> SUFFICES ASSUME NEW j \in 1..n, j < mid + 1, good(j) PROVE FALSE
        OBVIOUS
      <4>1. j <= mid
        OBVIOUS
      <4> QED
        BY <1>3, <2>2, <2>7, <4>1
    <3> QED
      BY <1>1, <3>1, <3>2, <3>3, Zenon DEF Narrowing, good
  <2> QED
    BY <2>6, <2>7
<1> QED
  BY <1>4, <1>5

(* The loop ends at the first fee that is good enough. *)
LEMMA HalvingLeast ==
    ASSUME NEW sorted \in Seq(Nat), NEW percent \in 0..100, NEW ledgers \in Nat \ {0}, NEW n \in Nat \ {0}, n = Len(sorted),
           \A i, j \in 1..n : i <= j => sorted[i] <= sorted[j]
    PROVE  \E m \in 1..n :
              /\ Halving(sorted, percent, ledgers) = m /\ Reaches(sorted, sorted[m], percent, ledgers)
              /\ \A j \in 1..n : j < m => ~Reaches(sorted, sorted[j], percent, ledgers)
<1>1. PICK search : Search(sorted, percent, ledgers, n, search) /\ Halving(sorted, percent, ledgers) = search[n][1]
  BY HalvingFolds
<1> DEFINE T == {k \in 0..n : k = 0 \/ Narrowing(sorted, percent, ledgers, n, k, search[k])}
<1>2. 0 \in T
  OBVIOUS
<1>3. ASSUME NEW k \in 1..n, k - 1 \in T PROVE k \in T
  <2>1. k \in 0..n
    OBVIOUS
  <2>2. CASE k = 1
    <3>1. 1 \in 1..n /\ n \in 1..n /\ 1 <= n /\ n - 1 <= n - 1
      OBVIOUS
    <3>2. sorted[n] \in Nat /\ sorted[n] <= sorted[n] /\ \A i \in 1..Len(sorted) : sorted[i] <= sorted[n]
      BY <3>1
    <3>3. Reaches(sorted, sorted[n], percent, ledgers)
      BY <3>2, ReachesGrows
    <3>4. search[1] = <<1, n>>
      BY <1>1 DEF Search
    <3>5. \A j \in 1..n : ~(j < 1)
      OBVIOUS
    <3>6. Narrowing(sorted, percent, ledgers, n, 1, search[1])
      BY <3>1, <3>3, <3>4, <3>5, Zenon DEF Narrowing
    <3> QED
      BY <2>1, <2>2, <3>6
  <2>3. CASE k # 1
    <3>1. k \in 2..n /\ k - 1 # 0
      BY <2>3
    <3>2. Narrowing(sorted, percent, ledgers, n, k - 1, search[k - 1])
      BY <1>3, <3>1
    <3>3. search[k] = Narrowed(sorted, percent, ledgers, search[k - 1])
      BY <1>1, <3>1 DEF Search
    <3>4. Narrowing(sorted, percent, ledgers, n, k, Narrowed(sorted, percent, ledgers, search[k - 1]))
      BY <3>1, <3>2, NarrowedKeeps
    <3> QED
      BY <2>1, <3>3, <3>4, Zenon
  <2> QED
    BY <2>2, <2>3
<1>4. Narrowing(sorted, percent, ledgers, n, n, search[n])
  <2>1. n \in T
    <3> HIDE DEF T
    <3>1. 0..n \subseteq T
      BY <1>2, <1>3, ReachesAll
    <3> QED
      BY <3>1
  <2> QED
    BY <2>1
<1>5. PICK lo \in 1..n, hi \in 1..n :
        /\ search[n] = <<lo, hi>> /\ lo <= hi /\ (lo = hi \/ hi - lo <= n - n)
        /\ Reaches(sorted, sorted[hi], percent, ledgers)
        /\ \A j \in 1..n : j < lo => ~Reaches(sorted, sorted[j], percent, ledgers)
  BY <1>4 DEF Narrowing
<1>6. lo = hi
  BY <1>5
<1>7. Halving(sorted, percent, ledgers) = lo
  BY <1>1, <1>5
<1> QED
  BY <1>5, <1>6, <1>7

Ascends(sorted, n) ==
    n = Len(sorted) /\ \A i, j \in 1..n : i <= j => sorted[i] <= sorted[j]

(* The fee of a tier: the cheapest one that reaches the tier's percentage. *)
Cheapest(sorted, n, percent, ledgers, fee) ==
    /\ \E m \in 1..n : fee = sorted[m]
    /\ Reaches(sorted, fee, percent, ledgers)
    /\ \A j \in 1..n : Reaches(sorted, sorted[j], percent, ledgers) => fee <= sorted[j]

LEMMA FindFeeCheapest ==
    ASSUME NEW sorted \in Seq(Nat), NEW percent \in 0..100, NEW ledgers \in Nat \ {0}, NEW n \in Nat \ {0},
           Ascends(sorted, n)
    PROVE  Cheapest(sorted, n, percent, ledgers, FindFee(sorted, percent, ledgers))
<1>1. PICK m \in 1..n :
         /\ Halving(sorted, percent, ledgers) = m /\ Reaches(sorted, sorted[m], percent, ledgers)
         /\ \A j \in 1..n : j < m => ~Reaches(sorted, sorted[j], percent, ledgers)
  BY HalvingLeast DEF Ascends
<1>2. FindFee(sorted, percent, ledgers) = sorted[m]
  BY <1>1, Zenon DEF FindFee
<1>3. \A j \in 1..n : Reaches(sorted, sorted[j], percent, ledgers) => sorted[m] <= sorted[j]
  <2> SUFFICES ASSUME NEW j \in 1..n, Reaches(sorted, sorted[j], percent, ledgers) PROVE sorted[m] <= sorted[j]
    OBVIOUS
  <2>1. ~(j < m)
    BY <1>1
  <2>2. m <= j
    BY <2>1
  <2> QED
    BY <2>2 DEF Ascends
<1> QED
  BY <1>1, <1>2, <1>3, Zenon DEF Cheapest

LEMMA CheapestIsMin ==
    ASSUME NEW sorted \in Seq(Nat), NEW n \in Nat, n = Len(sorted), NEW percent, NEW ledgers, NEW fee,
           Cheapest(sorted, n, percent, ledgers, fee)
    PROVE  fee = Min({f \in ToSet(sorted) : Reaches(sorted, f, percent, ledgers)})
<1> DEFINE E == {f \in ToSet(sorted) : Reaches(sorted, f, percent, ledgers)}
<1>1. ToSet(sorted) = {sorted[i] : i \in 1..n} /\ \A i \in 1..n : sorted[i] \in Nat
  BY DEF ToSet
<1>2. fee \in E /\ \A f \in E : fee <= f
  BY <1>1 DEF Cheapest
<1>3. E \subseteq Nat
  BY <1>1
<1> HIDE DEF E
<1>4. Min(E) \in E /\ \A f \in E : Min(E) <= f
  BY <1>2 DEF Min
<1>5. Min(E) <= fee /\ fee <= Min(E) /\ Min(E) \in Nat /\ fee \in Nat
  BY <1>2, <1>3, <1>4
<1>6. fee = Min(E)
  BY <1>5
<1> QED
  BY <1>6 DEF E

(* Of n fees, q are above. *)
LEMMA FastIsStandard ==
    ASSUME NEW n \in Nat, NEW q \in Nat, q <= n, 100 * (n - q) >= 99 * n \/ 20 * q <= n
    PROVE  100 * (n * n - q * q) >= 90 * (n * n)
<1>1. 20 * q <= n
  OBVIOUS
<1>2. PICK d \in Nat : n = 20 * q + d
  <2>1. n - 20 * q \in Nat /\ n = 20 * q + (n - 20 * q)
    BY <1>1
  <2> QED
    BY <2>1
<1>3. n * n = 400 * (q * q) + 40 * (q * d) + d * d
  BY <1>2
<1>4. q * q >= 0 /\ q * d >= 0 /\ d * d >= 0
  OBVIOUS
<1>5. PICK a \in Int, b \in Int, c \in Int, e \in Int : a = q * q /\ b = q * d /\ c = d * d /\ e = n * n
  OBVIOUS
<1>6. 100 * (e - a) >= 90 * e
  BY <1>3, <1>4, <1>5
<1> QED
  BY <1>5, <1>6

LEMMA StandardIsEconomy ==
    ASSUME NEW n \in Nat, NEW q \in Nat, q <= n, 100 * (n * n - q * q) >= 90 * (n * n)
    PROVE  100 * (n * n * n * n * n - q * q * q * q * q) >= 70 * (n * n * n * n * n)
<1>1. PICK a \in Nat, b \in Nat : a = n * n /\ b = q * q
  OBVIOUS
<1>2. PICK d \in Nat : a = 10 * b + d
  <2>1. a >= 10 * b
    BY <1>1
  <2>2. a - 10 * b \in Nat /\ a = 10 * b + (a - 10 * b)
    BY <2>1
  <2> QED
    BY <2>2
<1>3. PICK e \in Nat : n = q + e
  <2>1. n - q \in Nat /\ n = q + (n - q)
    OBVIOUS
  <2> QED
    BY <2>1
<1>4. n * n * n * n * n = a * a * n /\ q * q * q * q * q = b * b * q
  BY <1>1
<1>5. a * a = 100 * (b * b) + 20 * (b * d) + d * d
  BY <1>2
<1>6. PICK bb \in Nat, c \in Nat : bb = b * b /\ a * a = 100 * bb + c
  <2>1. PICK u \in Nat, v \in Nat, w \in Nat : u = b * b /\ v = b * d /\ w = d * d
    OBVIOUS
  <2>2. a * a = 100 * u + (20 * v + w) /\ 20 * v + w \in Nat
    BY <1>5, <2>1
  <2> QED
    BY <2>1, <2>2
<1>7. a * a * n = (100 * bb + c) * n
  BY <1>6
<1>8. (100 * bb + c) * n = 100 * (bb * q) + 100 * (bb * e) + c * n
  BY <1>3
<1>9. PICK x \in Nat, y \in Nat, z \in Nat : x = bb * q /\ y = bb * e /\ z = c * n
  OBVIOUS
<1>10. PICK N \in Nat : N = 100 * x + 100 * y + z
  OBVIOUS
<1>11. n * n * n * n * n = N
  BY <1>4, <1>7, <1>8, <1>9, <1>10
<1>12. q * q * q * q * q = x
  BY <1>4, <1>6, <1>9
<1>13. 100 * (N - x) >= 70 * N
  BY <1>10
<1> QED
  BY <1>11, <1>12, <1>13

(* Of n fees, q are above: what each tier asks of them. *)
Tested(sorted, fee, n, q) ==
    /\ n = Len(sorted) /\ q = n - AtOrBelow(sorted, fee)
    /\ Reaches(sorted, fee, 99, 1) <=> 100 * (n - q) >= 99 * n
    /\ Reaches(sorted, fee, 90, 2) <=> 100 * (n * n - q * q) >= 90 * (n * n)
    /\ Reaches(sorted, fee, 70, 5) <=> 100 * (n * n * n * n * n - q * q * q * q * q) >= 70 * (n * n * n * n * n)

LEMMA FasterReaches ==
    ASSUME NEW sorted \in Seq(Nat), NEW fee \in Nat
    PROVE  \E n \in Nat : \E q \in 0..n : Tested(sorted, fee, n, q)
<1>1. PICK n \in Nat : \E q \in 0..n : ReachesBy(sorted, fee, 99, 1, n, q)
  BY ReachesIs
<1>2. PICK q \in 0..n : ReachesBy(sorted, fee, 99, 1, n, q)
  BY <1>1
<1>3. ReachesBy(sorted, fee, 90, 2, n, q)
  <2>1. \E m \in Nat : \E p \in 0..m : ReachesBy(sorted, fee, 90, 2, m, p)
    BY ReachesIs
  <2> QED
    BY <1>2, <2>1, Zenon DEF ReachesBy
<1>4. ReachesBy(sorted, fee, 70, 5, n, q)
  <2>1. \E m \in Nat : \E p \in 0..m : ReachesBy(sorted, fee, 70, 5, m, p)
    BY ReachesIs
  <2> QED
    BY <1>2, <2>1, Zenon DEF ReachesBy
<1>5. n \in Int /\ q \in Int
  OBVIOUS
<1>6. /\ Power(n, 1) = n /\ Power(n, 2) = n * n /\ Power(n, 5) = n * n * n * n * n
      /\ Power(q, 1) = q /\ Power(q, 2) = q * q /\ Power(q, 5) = q * q * q * q * q
  BY <1>5, PowersAre
<1>7. n = Len(sorted) /\ q = n - AtOrBelow(sorted, fee)
  BY <1>2 DEF ReachesBy
<1>8. Reaches(sorted, fee, 99, 1) <=> 100 * (n - q) >= 99 * n
  BY <1>2, <1>6, Zenon DEF ReachesBy
<1>9. Reaches(sorted, fee, 90, 2) <=> 100 * (n * n - q * q) >= 90 * (n * n)
  BY <1>3, <1>6, Zenon DEF ReachesBy
<1>10. Reaches(sorted, fee, 70, 5) <=> 100 * (n * n * n * n * n - q * q * q * q * q) >= 70 * (n * n * n * n * n)
  BY <1>4, <1>6, Zenon DEF ReachesBy
<1>11. Tested(sorted, fee, n, q)
  BY <1>7, <1>8, <1>9, <1>10, Zenon DEF Tested
<1> QED
  BY <1>11

(* What is good enough for a faster tier is for a slower one. *)
LEMMA TiersNest ==
    ASSUME NEW sorted \in Seq(Nat), NEW fee \in Nat
    PROVE  /\ Reaches(sorted, fee, 99, 1) => Reaches(sorted, fee, 90, 2)
           /\ Reaches(sorted, fee, 90, 2) => Reaches(sorted, fee, 70, 5)
<1>1. PICK n \in Nat : \E q \in 0..n : Tested(sorted, fee, n, q)
  BY FasterReaches
<1>2. PICK q \in 0..n : Tested(sorted, fee, n, q)
  BY <1>1
<1>3. q \in Nat /\ q <= n
  OBVIOUS
<1>4. 100 * (n - q) >= 99 * n => 100 * (n * n - q * q) >= 90 * (n * n)
  BY <1>3, FastIsStandard
<1>5. 100 * (n * n - q * q) >= 90 * (n * n) => 100 * (n * n * n * n * n - q * q * q * q * q) >= 70 * (n * n * n * n * n)
  BY <1>3, StandardIsEconomy
<1> QED
  BY <1>2, <1>4, <1>5, Zenon DEF Tested

(* The p95 is good enough for the economy tier. *)
LEMMA HighReaches ==
    ASSUME NEW sorted \in Seq(Nat), NEW n \in Nat \ {0}, Ascends(sorted, n)
    PROVE  /\ NearestRank(sorted, 95) \in Nat /\ Reaches(sorted, NearestRank(sorted, 95), 70, 5)
           /\ \E k \in 1..n : NearestRank(sorted, 95) = sorted[k]
<1>1. PICK k \in 1..n : k = Max({1, (95 * n + 99) \div 100})
  <2>1. 95 \in Shares
    BY DEF Shares
  <2>2. Max({1, (95 * n + 99) \div 100}) \in 1..n
    BY <2>1, PercentilePlace
  <2> QED
    BY <2>2
<1>2. 100 * k >= 95 * n
  <2>1. PICK m \in Int : m = (95 * n + 99) \div 100
    OBVIOUS
  <2>2. 100 * m >= 95 * n
    BY <2>1
  <2>3. k = IF 1 >= m THEN 1 ELSE m
    BY <1>1, <2>1, MaxOfTwo
  <2>4. k >= m
    BY <2>3
  <2> QED
    BY <2>2, <2>4
<1>3. PICK fee \in Nat : fee = sorted[k] /\ NearestRank(sorted, 95) = fee
  <2>1. n = Len(sorted)
    BY DEF Ascends
  <2>2. sorted[k] \in Nat
    BY <2>1
  <2>3. NearestRank(sorted, 95) = sorted[k]
    BY <1>1, <2>1, Zenon DEF NearestRank
  <2> QED
    BY <2>2, <2>3
<1>4. AtOrBelow(sorted, fee) >= k
  <2> DEFINE A == {i \in 1..n : sorted[i] <= fee}
  <2>1. AtOrBelow(sorted, fee) = Cardinality(A)
    <3>1. DOMAIN sorted = 1..n
      BY DEF Ascends
    <3> QED
      BY <3>1 DEF AtOrBelow
  <2>2. 1..k \in SUBSET A
    BY <1>3 DEF Ascends
  <2>3. A \in SUBSET (1..n)
    OBVIOUS
  <2> HIDE DEF A
  <2>4. IsFiniteSet(1..n) /\ IsFiniteSet(1..k) /\ Cardinality(1..k) = k
    BY UptoFinite
  <2>5. IsFiniteSet(A)
    BY <2>3, <2>4, FS_Subset
  <2>6. Cardinality(1..k) <= Cardinality(A)
    BY <2>2, <2>5, FS_Subset
  <2>7. Cardinality(A) \in Nat
    BY <2>5, FS_CardinalityType
  <2> QED
    BY <2>1, <2>4, <2>6, <2>7
<1>5. PICK m \in Nat : \E q \in 0..m : Tested(sorted, fee, m, q)
  BY FasterReaches
<1>6. m = n
  BY <1>5 DEF Ascends, Tested
<1>7. PICK q \in 0..n : Tested(sorted, fee, n, q)
  BY <1>5, <1>6
<1>8. q \in Nat /\ q <= n /\ 20 * q <= n
  <2>1. AtOrBelow(sorted, fee) \in 0..n
    <3>1. fee <= fee /\ n = Len(sorted)
      BY DEF Ascends
    <3> QED
      BY <3>1, AtOrBelowIs
  <2>2. PICK a \in 0..n : a = AtOrBelow(sorted, fee)
    BY <2>1
  <2>3. q = n - a /\ a >= k
    BY <1>4, <1>7, <2>2 DEF Tested
  <2> QED
    BY <1>2, <2>3
<1>9. 100 * (n * n - q * q) >= 90 * (n * n)
  BY <1>8, FastIsStandard
<1>10. Reaches(sorted, fee, 70, 5)
  <2>1. Reaches(sorted, fee, 90, 2)
    BY <1>7, <1>9, Zenon DEF Tested
  <2> QED
    BY <2>1, TiersNest
<1> QED
  BY <1>3, <1>10

(* What TiersLeast tells of the fees of a window. *)
TiersMeet(fees) ==
    LET sorted == Sorted(fees)
        tiers == Tiers(sorted)
        summary == Summary(fees)
        Enough(t) == {f \in ToSet(sorted) : Reaches(sorted, f, Confidence[t], Within[t])}
    IN  sorted # <<>> =>
            /\ \A t \in DOMAIN tiers : tiers[t] = Min(Enough(t))
            /\ tiers.economy <= tiers.standard /\ tiers.standard <= tiers.fast
            /\ \A t \in DOMAIN tiers : tiers[t] \in summary.min..summary.max
            /\ tiers.economy <= summary.p95

LEMMA TiersHold ==
    ASSUME NEW fees \in Seq(Nat) PROVE TiersMeet(fees)
<1> SUFFICES ASSUME Sorted(fees) # <<>> PROVE TiersMeet(fees)
  BY DEF TiersMeet
<1>1. PICK n \in Nat \ {0} : n = Len(fees)
  <2>1. Sorted(fees) \in Seq(Nat) /\ Len(Sorted(fees)) = Len(fees)
    BY SortedIs
  <2>2. Len(Sorted(fees)) # 0
    BY <2>1
  <2> QED
    BY <2>1, <2>2
<1>2. PICK sorted \in Seq(Nat) : sorted = Sorted(fees) /\ n = Len(sorted)
  BY <1>1, SortedIs
<1>3. Ascends(sorted, n)
  BY <1>1, <1>2, SortedAscends DEF Ascends
<1>4. \A percent \in 0..100, ledgers \in Nat \ {0} :
          /\ Cheapest(sorted, n, percent, ledgers, FindFee(sorted, percent, ledgers))
          /\ FindFee(sorted, percent, ledgers) = Min({f \in ToSet(sorted) : Reaches(sorted, f, percent, ledgers)})
  <2> SUFFICES ASSUME NEW percent \in 0..100, NEW ledgers \in Nat \ {0}
               PROVE  /\ Cheapest(sorted, n, percent, ledgers, FindFee(sorted, percent, ledgers))
                      /\ FindFee(sorted, percent, ledgers) = Min({f \in ToSet(sorted) : Reaches(sorted, f, percent, ledgers)})
    OBVIOUS
  <2>1. Cheapest(sorted, n, percent, ledgers, FindFee(sorted, percent, ledgers))
    BY <1>3, FindFeeCheapest
  <2> QED
    BY <1>2, <2>1, CheapestIsMin
<1>5. PICK economy, standard, fast :
          economy = FindFee(sorted, 70, 5) /\ standard = FindFee(sorted, 90, 2) /\ fast = FindFee(sorted, 99, 1)
  OBVIOUS
<1>6. /\ Cheapest(sorted, n, 70, 5, economy) /\ Cheapest(sorted, n, 90, 2, standard) /\ Cheapest(sorted, n, 99, 1, fast)
      /\ economy = Min({f \in ToSet(sorted) : Reaches(sorted, f, 70, 5)})
      /\ standard = Min({f \in ToSet(sorted) : Reaches(sorted, f, 90, 2)})
      /\ fast = Min({f \in ToSet(sorted) : Reaches(sorted, f, 99, 1)})
  <2>1. 70 \in 0..100 /\ 90 \in 0..100 /\ 99 \in 0..100 /\ 5 \in Nat \ {0} /\ 2 \in Nat \ {0} /\ 1 \in Nat \ {0}
    OBVIOUS
  <2>2. Cheapest(sorted, n, 70, 5, economy) /\ economy = Min({f \in ToSet(sorted) : Reaches(sorted, f, 70, 5)})
    BY <1>4, <1>5, <2>1, Zenon
  <2>3. Cheapest(sorted, n, 90, 2, standard) /\ standard = Min({f \in ToSet(sorted) : Reaches(sorted, f, 90, 2)})
    BY <1>4, <1>5, <2>1, Zenon
  <2>4. Cheapest(sorted, n, 99, 1, fast) /\ fast = Min({f \in ToSet(sorted) : Reaches(sorted, f, 99, 1)})
    BY <1>4, <1>5, <2>1, Zenon
  <2> QED
    BY <2>2, <2>3, <2>4, Zenon
<1>7. \A i \in 1..n : sorted[i] \in Nat
  BY <1>2
<1>8. PICK i \in 1..n, j \in 1..n, k \in 1..n : economy = sorted[i] /\ standard = sorted[j] /\ fast = sorted[k]
  BY <1>6 DEF Cheapest
<1>9. economy <= standard /\ standard <= fast
  <2>1. Reaches(sorted, sorted[j], 70, 5) /\ Reaches(sorted, sorted[k], 90, 2)
    <3>1. Reaches(sorted, sorted[j], 90, 2) /\ Reaches(sorted, sorted[k], 99, 1)
      BY <1>6, <1>8 DEF Cheapest
    <3> QED
      BY <1>7, <3>1, TiersNest
  <2> QED
    BY <1>6, <1>8, <2>1 DEF Cheapest
<1>10. PICK low \in Nat, high \in Nat : low = sorted[1] /\ high = Last(sorted) /\ \A m \in 1..n : sorted[m] \in low..high
  <2>1. 1 \in 1..n /\ n \in 1..n /\ Last(sorted) = sorted[n]
    BY <1>2 DEF Last
  <2>2. \A m \in 1..n : sorted[1] <= sorted[m] /\ sorted[m] <= sorted[n]
    <3> SUFFICES ASSUME NEW m \in 1..n PROVE sorted[1] <= sorted[m] /\ sorted[m] <= sorted[n]
      OBVIOUS
    <3>1. 1 <= m /\ m <= n
      OBVIOUS
    <3> QED
      BY <1>3, <2>1, <3>1 DEF Ascends
  <2>3. sorted[1] \in Nat /\ sorted[n] \in Nat
    BY <1>7, <2>1
  <2>4. \A m \in 1..n : sorted[m] \in sorted[1]..sorted[n]
    BY <1>7, <2>2, <2>3
  <2> QED
    BY <2>1, <2>3, <2>4
<1>11. PICK most : most = NearestRank(sorted, 95)
  OBVIOUS
<1>12. economy <= most
  <2>1. PICK m \in 1..n : most = sorted[m] /\ Reaches(sorted, sorted[m], 70, 5)
    BY <1>3, <1>11, HighReaches
  <2> QED
    BY <1>6, <2>1 DEF Cheapest
<1>13. PICK total, half : Summary(fees) = [min |-> low, max |-> high, total |-> total, p50 |-> half, p95 |-> most]
  <2>1. fees # <<>>
    BY <1>1
  <2> QED
    BY <1>2, <1>10, <1>11, <2>1, Zenon DEF Summary
<1>14. Summary(fees).min = low /\ Summary(fees).max = high /\ Summary(fees).p95 = most
  BY <1>13
<1>15. /\ DOMAIN Tiers(sorted) = {"economy", "standard", "fast"}
       /\ Tiers(sorted)["economy"] = economy /\ Tiers(sorted)["standard"] = standard /\ Tiers(sorted)["fast"] = fast
  <2>1. DOMAIN Confidence = {"economy", "standard", "fast"}
    BY DEF Confidence
  <2>2. /\ Confidence["economy"] = 70 /\ Confidence["standard"] = 90 /\ Confidence["fast"] = 99
        /\ Within["economy"] = 5 /\ Within["standard"] = 2 /\ Within["fast"] = 1
    BY DEF Confidence, Within
  <2>3. DOMAIN Tiers(sorted) = DOMAIN Confidence
        /\ \A t \in DOMAIN Confidence : Tiers(sorted)[t] = FindFee(sorted, Confidence[t], Within[t])
    BY Zenon DEF Tiers
  <2>4. Tiers(sorted)["economy"] = FindFee(sorted, Confidence["economy"], Within["economy"])
    BY <2>1, <2>3
  <2>5. Tiers(sorted)["standard"] = FindFee(sorted, Confidence["standard"], Within["standard"])
    BY <2>1, <2>3
  <2>6. Tiers(sorted)["fast"] = FindFee(sorted, Confidence["fast"], Within["fast"])
    BY <2>1, <2>3
  <2>7. DOMAIN Tiers(sorted) = {"economy", "standard", "fast"}
    BY <2>1, <2>3
  <2>8. Tiers(sorted)["economy"] = economy
    BY <1>5, <2>2, <2>4
  <2>9. Tiers(sorted)["standard"] = standard
    BY <1>5, <2>2, <2>5
  <2>10. Tiers(sorted)["fast"] = fast
    BY <1>5, <2>2, <2>6
  <2> QED
    BY <2>7, <2>8, <2>9, <2>10
<1>16. ASSUME NEW t \in {"economy", "standard", "fast"}
       PROVE  /\ Tiers(sorted)[t] = Min({f \in ToSet(sorted) : Reaches(sorted, f, Confidence[t], Within[t])})
              /\ Tiers(sorted)[t] \in low..high
  <2>1. /\ Confidence["economy"] = 70 /\ Confidence["standard"] = 90 /\ Confidence["fast"] = 99
        /\ Within["economy"] = 5 /\ Within["standard"] = 2 /\ Within["fast"] = 1
    BY DEF Confidence, Within
  <2>2. economy \in low..high /\ standard \in low..high /\ fast \in low..high
    BY <1>8, <1>10
  <2>3. CASE t = "economy"
    BY <1>6, <1>15, <2>1, <2>2, <2>3, Zenon
  <2>4. CASE t = "standard"
    BY <1>6, <1>15, <2>1, <2>2, <2>4, Zenon
  <2>5. CASE t = "fast"
    BY <1>6, <1>15, <2>1, <2>2, <2>5, Zenon
  <2> QED
    BY <2>3, <2>4, <2>5
<1> QED
  BY <1>2, <1>9, <1>12, <1>14, <1>15, <1>16, Zenon DEF TiersMeet

(* What is told of a window holds of any store that the service has. *)
LEMMA FeesToldFollows == IInv => FeesTold
<1> SUFFICES ASSUME IInv PROVE TiersLeast /\ SpreadTold
  BY DEF FeesTold
<1>1. store \in Seq(Point)
  BY DEF IInv, TimesInv
<1>2. PICK fees, short : fees = FeesSince(now - HistoryWindow) /\ short = FeesSince(now - ShortWindow)
  OBVIOUS
<1>3. fees \in Seq(Nat) /\ short \in Seq(Nat)
  BY <1>1, <1>2, FeesSinceIs DEF Collected
<1>4. FeeHistory(HistoryWindow).summary = Summary(fees)
  BY <1>2 DEF FeeHistory
<1>5. TiersLeast
  <2>1. TiersMeet(fees)
    BY <1>3, TiersHold
  <2> QED
    BY <1>2, <1>4, <2>1, Zenon DEF TiersLeast, TiersMeet
<1>6. SpreadTold
  <2>1. StatisticsMeet(fees) /\ TrendTold(Sorted(short)) # "downward" /\ Trend(fees).fit[1] <= Trend(fees).fit[2]
    BY <1>3, StatisticsHold, SortedNeverFalls, FitBounded
  <2> QED
    BY <1>2, <1>4, <2>1, Zenon DEF SpreadTold, StatisticsMeet
<1> QED
  BY <1>5, <1>6

(* Each tier offers the cheapest sampled fee that meets its confidence, a      *)
(* faster one none cheaper, and the statistics of a window bound one another   *)
(* (find_fee_for_confidence, compute_volatility, analyze_trend).               *)
THEOREM FeesToldCorrect == Spec => []FeesTold
BY InvHolds, FeesToldFollows, PTL
=================================================================================
