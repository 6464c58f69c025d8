----------------------------- MODULE Gateway_proofs -----------------------------
(***************************************************************************)
(* Proofs about Gateway and the limiter it extends, for every rate, period *)
(* and map limit, any number of clients and concurrent requests, whatever  *)
(* they ask for and whatever environment the process starts in.            *)
(*                                                                         *)
(* First the limiter by itself. The argument is about InBucket(c), the     *)
(* units the next request of c will find. Eviction does not change it      *)
(* (LevelUnderEviction): the bucket it forgets would have been full. A     *)
(* tick adds at most Rate to it, a request takes what it is let through    *)
(* for. Then every step of the gateway is shown to be a step of the        *)
(* limiter or to leave it alone, which carries these results over, and     *)
(* last what handlers, loops and tables account for.                       *)
(***************************************************************************)
EXTENDS Gateway, FiniteSetTheorems, WellFoundedInduction, TLAPS

-----------------------------------------------------------------------------
(* Arithmetic. *)

LEMMA ProductNat ==
    ASSUME NEW a \in Nat, NEW b \in Nat
    PROVE  a * b \in Nat
  BY SMT

LEMMA Distribute ==
    ASSUME NEW a \in Int, NEW k \in Int
    PROVE  /\ (a + 1) * k = a * k + k
           /\ (a - 1) * k = a * k - k
           /\ 0 * k = 0
           /\ a * k \in Int
  BY SMT

LEMMA Monotone ==
    ASSUME NEW a \in Int, NEW b \in Int, NEW k \in Nat, a <= b
    PROVE  a * k <= b * k
<1>1. (b - a) * k \in Nat
  BY ProductNat
<1>2. (b - a) * k = b * k - a * k
  BY SMT
<1> QED
  BY <1>1, <1>2, SMT

(* Dividing what is missing by the rate and rounding up waits long enough. *)
LEMMA RoundedUp ==
    ASSUME NEW x \in Nat, NEW k \in Nat \ {0}
    PROVE  /\ (x + k - 1) \div k \in Int
           /\ ((x + k - 1) \div k) * k >= x
  BY SMT

(* The constants: a token and a full bucket are units, and there is room for
   a token. *)
LEMMA Units ==
    /\ Rate \in Nat \ {0} /\ Token \in Nat \ {0} /\ Full \in Nat
    /\ Token <= Full /\ Full = Token * Rate
<1>1. Rate \in Nat \ {0} /\ Token \in Nat \ {0}
  BY RateAssumption DEF Token
<1>2. Full \in Nat /\ Full = Token * Rate
  BY <1>1, ProductNat, SMT DEF Full
<1>3. 1 * Token <= Rate * Token
  BY <1>1, Monotone
<1> QED
  BY <1>1, <1>2, <1>3, SMT DEF Full

-----------------------------------------------------------------------------
(* What a request finds. *)

(* The level of a bucket is between nothing and full. *)
LEMMA LevelInRange ==
    ASSUME TypeOK, NEW c \in Clients
    PROVE  /\ InBucket(c) \in 0..Full
           /\ (now - refilled[c]) * Rate \in Nat
<1>1. tokens[c] \in 0..Full /\ now - refilled[c] \in Nat
  BY SMT DEF TypeOK, Times
<1>2. (now - refilled[c]) * Rate \in Nat
  BY <1>1, Units, ProductNat
<1> QED
  BY <1>1, <1>2, Units, SMT DEF InBucket, Refilled

(* Time passes: the level rises by Rate, or to the top. *)
LEMMA LevelUnderTick ==
    ASSUME TypeOK, Tick, NEW c \in Clients
    PROVE  /\ InBucket(c)' <= InBucket(c) + Rate
           /\ InBucket(c)' <= Full
           /\ InBucket(c)' = InBucket(c) + Rate \/ InBucket(c)' = Full
<1> DEFINE e == now - refilled[c]
<1>1. now \in Nat /\ now' = now + 1 /\ tokens' = tokens /\ refilled' = refilled /\ known' = known
  BY DEF Tick, TypeOK, Times
<1>2. tokens[c] \in 0..Full /\ e \in Nat
  BY SMT DEF TypeOK, Times
<1>3. (e + 1) * Rate = e * Rate + Rate /\ e * Rate \in Nat
  BY <1>2, Units, Distribute, ProductNat
<1>4. (now' - refilled'[c]) * Rate = e * Rate + Rate
  <2>1. now' - refilled'[c] = e + 1
    BY <1>1, <1>2, SMT DEF TypeOK, Times
  <2> QED
    BY <2>1, <1>3
<1>5. Refilled(c) = IF tokens[c] + e * Rate <= Full THEN tokens[c] + e * Rate ELSE Full
  BY DEF Refilled
<1>6. Refilled(c)' =
        IF tokens[c] + (e * Rate + Rate) <= Full THEN tokens[c] + (e * Rate + Rate) ELSE Full
  BY <1>1, <1>4 DEF Refilled
<1> HIDE DEF e
<1>7. CASE c \in known
  <2>1. InBucket(c) = Refilled(c) /\ InBucket(c)' = Refilled(c)'
    BY <1>1, <1>7 DEF InBucket
  <2> QED
    BY <2>1, <1>2, <1>3, <1>5, <1>6, Units, SMT
<1>8. CASE c \notin known
  BY <1>1, <1>8, Units, SMT DEF InBucket
<1> QED
  BY <1>7, <1>8

(* Eviction is not noticed: what it forgets has been refilled. *)
LEMMA LevelUnderEviction ==
    ASSUME TypeOK, NEW r \in Requests, Evict(r), NEW c \in Clients
    PROVE  InBucket(c)' = InBucket(c)
<1>1. now' = now /\ tokens' = tokens /\ refilled' = refilled /\ known' = Kept
  BY DEF Evict
<1>2. Refilled(c)' = Refilled(c)
  BY <1>1 DEF Refilled
<1>3. CASE c \in known \ Kept
  <2>1. /\ now \in Int /\ refilled[c] \in Int /\ tokens[c] \in 0..Full
        /\ refilled[c] + StaleAfter < now
    BY <1>3, RateAssumption, SMT DEF Kept, TypeOK, Times
  <2>2. Token <= now - refilled[c]
    BY <2>1, RateAssumption, StaleAssumption, SMT DEF Token
  <2>3. Token * Rate <= (now - refilled[c]) * Rate
    BY <2>1, <2>2, Units, Monotone, SMT
  <2>4. (now - refilled[c]) * Rate \in Int
    BY LevelInRange
  <2>5. Refilled(c) = Full
    BY <2>1, <2>3, <2>4, Units, SMT DEF Refilled
  <2> QED
    BY <1>1, <1>3, <2>5 DEF InBucket
<1>4. CASE c \notin known \ Kept
  BY <1>1, <1>2, <1>4 DEF InBucket, Kept
<1> QED
  BY <1>3, <1>4

(* A request leaves what it did not take, and only in its own bucket. *)
LEMMA LevelUnderConsume ==
    ASSUME TypeOK, NEW r \in Requests, NEW units \in 0..Full, Consume(r, units),
           NEW c \in Clients
    PROVE  InBucket(c)' = IF c = client[r] THEN units ELSE InBucket(c)
<1>1. /\ now' = now /\ known' = known \cup {client[r]}
      /\ tokens' = [tokens EXCEPT ![client[r]] = units]
      /\ refilled' = [refilled EXCEPT ![client[r]] = now]
  BY DEF Consume
<1>2. CASE c = client[r]
  <2>1. c \in known' /\ tokens'[c] = units /\ refilled'[c] = now
    BY <1>1, <1>2 DEF TypeOK
  <2>2. (now' - refilled'[c]) * Rate = 0
    <3>1. now' - refilled'[c] = 0
      BY <1>1, <2>1, SMT DEF TypeOK, Times
    <3> QED
      BY <3>1, Units, Distribute
  <2>3. Refilled(c)' = units
    BY <2>1, <2>2, Units, SMT DEF Refilled
  <2> QED
    BY <1>2, <2>1, <2>3 DEF InBucket
<1>3. CASE c # client[r]
  <2>1. tokens'[c] = tokens[c] /\ refilled'[c] = refilled[c] /\ (c \in known' <=> c \in known)
    BY <1>1, <1>3 DEF TypeOK
  <2> QED
    BY <1>1, <1>3, <2>1 DEF InBucket, Refilled
<1> QED
  BY <1>2, <1>3

-----------------------------------------------------------------------------
(* Types. *)

LEMMA TypeInit == Init => TypeOK
<1> SUFFICES ASSUME Init PROVE TypeOK
  OBVIOUS
<1>1. 0 \in Times
  BY RateAssumption DEF Times
<1> QED
  BY <1>1, Units, SMT DEF Init, TypeOK, Stages, None

(* The step of a request at its bucket, as far as types go. *)
LEMMA ConsumeType ==
    ASSUME TypeOK, NEW r \in Requests, NEW units \in 0..Full, Consume(r, units)
    PROVE  /\ now' = now /\ client' = client /\ now \in Times /\ client[r] \in Clients
           /\ stage' \in [Requests -> Stages]
           /\ known' \subseteq Clients
           /\ tokens' \in [Clients -> 0..Full]
           /\ refilled' \in [Clients -> 0..now]
<1>1. now \in 0..now
  BY DEF TypeOK, Times
<1> QED
  BY <1>1 DEF TypeOK, Consume, Stages

LEMMA TypeStep == TypeOK /\ [Next]_vars => TypeOK'
<1> SUFFICES ASSUME TypeOK, [Next]_vars PROVE TypeOK'
  OBVIOUS
<1> USE RateAssumption DEF None
<1>1. CASE Tick
  <2>1. now' \in Times /\ 0..now \subseteq 0..now'
    BY <1>1, SMT DEF Tick, TypeOK, Times
  <2> QED
    BY <1>1, <2>1 DEF Tick, TypeOK, flow, history
<1>2. ASSUME NEW r \in Requests, Arrive(r) PROVE TypeOK'
  BY <1>2 DEF Arrive, TypeOK, history, Stages
<1>3. ASSUME NEW r \in Requests, Evict(r) PROVE TypeOK'
  BY <1>3 DEF Evict, Kept, TypeOK, history, Stages
<1>4. ASSUME NEW r \in Requests, Admit(r) PROVE TypeOK'
  <2> DEFINE c == client[r]
  <2>1. c \in Clients
    BY DEF TypeOK
  <2>2. InBucket(c) - Token \in 0..Full
    BY <1>4, <2>1, LevelInRange, Units, SMT DEF Admit
  <2>3. Consume(r, InBucket(c) - Token)
    BY <1>4 DEF Admit
  <2>4. admitted' \in [Clients -> [Times -> Nat]]
    <3>1. \A s \in Times : admitted[c][s] \in Nat
      BY <2>1 DEF TypeOK
    <3>2. [s \in Times |-> IF s <= now THEN admitted[c][s] + 1 ELSE admitted[c][s]]
             \in [Times -> Nat]
      BY <3>1, SMT
    <3>3. admitted' = [admitted EXCEPT ![c] =
             [s \in Times |-> IF s <= now THEN admitted[c][s] + 1 ELSE admitted[c][s]]]
      BY <1>4 DEF Admit
    <3> QED
      BY <3>2, <3>3, <2>1 DEF TypeOK
  <2>5. waitUntil' \in [Clients -> {None} \cup Nat]
    BY <1>4 DEF Admit, TypeOK
  <2> QED
    BY <2>2, <2>3, <2>4, <2>5, ConsumeType DEF TypeOK
<1>5. ASSUME NEW r \in Requests, Reject(r) PROVE TypeOK'
  <2> DEFINE c == client[r]
  <2>1. c \in Clients
    BY DEF TypeOK
  <2>2. InBucket(c) \in 0..Full
    BY <2>1, LevelInRange
  <2>3. Consume(r, InBucket(c))
    BY <1>5 DEF Reject
  <2>4. waitUntil' \in [Clients -> {None} \cup Nat]
    <3>1. RetryAfter(InBucket(c)) \in Nat
      <4>1. Token - InBucket(c) \in Nat
        BY <1>5, <2>2, Units, SMT DEF Reject
      <4>2. (Token - InBucket(c) + Rate - 1) \div Rate \in Int
        BY <4>1, Units, RoundedUp
      <4> QED
        BY <4>2, SMT DEF RetryAfter
    <3>2. now \in Nat
      BY DEF TypeOK, Times
    <3> QED
      BY <1>5, <3>1, <3>2 DEF Reject, TypeOK
  <2>5. admitted' = admitted
    BY <1>5 DEF Reject
  <2> QED
    BY <2>2, <2>3, <2>4, <2>5, ConsumeType DEF TypeOK
<1>6. CASE UNCHANGED vars
  BY <1>6 DEF TypeOK, vars, flow, history
<1> QED
  BY <1>1, <1>2, <1>3, <1>4, <1>5, <1>6 DEF Next

(* Buckets hold between nothing and their capacity and are never refilled in
   the future, whatever requests and evictions interleave. *)
THEOREM TypeCorrect == Spec => []TypeOK
  BY TypeInit, TypeStep, PTL DEF Spec

-----------------------------------------------------------------------------
(* The rate. *)

(* What a client got since s, and what it would find now, is at most a full
   bucket and what was refilled since s; nothing was let through in the
   future. *)
RateInv ==
    \A c \in Clients : \A s \in Times :
        /\ s > now => admitted[c][s] = 0
        /\ s <= now => admitted[c][s] * Token + InBucket(c) <= Full + (now - s) * Rate

LEMMA RateInit == Init => RateInv
<1> SUFFICES ASSUME Init, NEW c \in Clients, NEW s \in Times
             PROVE  /\ s > now => admitted[c][s] = 0
                    /\ s <= now => admitted[c][s] * Token + InBucket(c) <= Full + (now - s) * Rate
  BY DEF RateInv
<1>1. now = 0 /\ admitted[c][s] = 0 /\ InBucket(c) = Full /\ s \in Nat
  BY DEF Init, InBucket, Times
<1>2. 0 * Token = 0 /\ 0 * Rate = 0
  BY Units, Distribute
<1>3. s <= now => now - s = 0
  BY <1>1, SMT
<1> QED
  BY <1>1, <1>2, <1>3, Units, SMT

LEMMA RateStep == TypeOK /\ TypeOK' /\ RateInv /\ [Next]_vars => RateInv'
<1> SUFFICES ASSUME TypeOK, TypeOK', RateInv, [Next]_vars, NEW c \in Clients, NEW s \in Times
             PROVE  /\ s > now' => admitted'[c][s] = 0
                    /\ s <= now' => admitted'[c][s] * Token + InBucket(c)'
                                        <= Full + (now' - s) * Rate
  BY DEF RateInv
<1>1. /\ s \in Nat /\ now \in Nat /\ admitted[c][s] \in Nat /\ InBucket(c) \in 0..Full
      /\ s > now => admitted[c][s] = 0
      /\ s <= now => admitted[c][s] * Token + InBucket(c) <= Full + (now - s) * Rate
      /\ admitted[c][s] * Token \in Nat /\ (now - s) * Rate \in Int
  <2>1. s \in Nat /\ now \in Nat /\ admitted[c][s] \in Nat
    <3>1. Times \subseteq Nat
      BY SMT DEF Times
    <3>2. now \in Times /\ admitted[c] \in [Times -> Nat]
      BY DEF TypeOK
    <3> QED
      BY <3>1, <3>2
  <2>2. admitted[c][s] * Token \in Nat
    BY <2>1, Units, ProductNat
  <2>3. (now - s) * Rate \in Int
    BY <2>1, Units, Distribute
  <2> QED
    BY <2>1, <2>2, <2>3, LevelInRange DEF RateInv
<1>2. CASE Tick
  <2>1. now' = now + 1 /\ admitted' = admitted
    BY <1>2 DEF Tick, history
  <2>2. InBucket(c)' <= InBucket(c) + Rate /\ InBucket(c)' <= Full /\ InBucket(c)' \in Int
    BY <1>2, LevelUnderTick, <1>1, Units, SMT
  <2>3. (now' - s) * Rate = (now - s) * Rate + Rate
    <3>1. now' - s = (now - s) + 1 /\ now - s \in Int
      BY <2>1, <1>1, SMT
    <3> QED
      BY <3>1, Units, Distribute
  <2>4. CASE s <= now
    BY <2>1, <2>2, <2>3, <2>4, <1>1, Units, SMT
  <2>5. CASE s = now + 1
    <3>1. admitted'[c][s] * Token = 0 /\ (now' - s) * Rate = 0
      <4>1. admitted'[c][s] = 0 /\ now' - s = 0
        BY <2>1, <2>5, <1>1, SMT
      <4> QED
        BY <4>1, Units, Distribute
    <3> QED
      BY <3>1, <2>1, <2>2, <2>5, <1>1, Units, SMT
  <2> QED
    BY <2>1, <2>4, <2>5, <1>1, SMT
<1>3. ASSUME NEW r \in Requests, Arrive(r)
      PROVE  now' = now /\ admitted' = admitted /\ InBucket(c)' = InBucket(c)
  BY <1>3 DEF Arrive, history, InBucket, Refilled
<1>4. ASSUME NEW r \in Requests, Evict(r)
      PROVE  now' = now /\ admitted' = admitted /\ InBucket(c)' = InBucket(c)
  BY <1>4, LevelUnderEviction DEF Evict, history
<1>5. ASSUME NEW r \in Requests, Reject(r)
      PROVE  now' = now /\ admitted' = admitted /\ InBucket(c)' = InBucket(c)
  <2>1. client[r] \in Clients
    BY DEF TypeOK
  <2>2. InBucket(client[r]) \in 0..Full /\ Consume(r, InBucket(client[r]))
    BY <1>5, <2>1, LevelInRange DEF Reject
  <2>3. InBucket(c)' = InBucket(c)
    BY <2>2, LevelUnderConsume
  <2> QED
    BY <1>5, <2>2, <2>3 DEF Reject, Consume
<1>6. ASSUME NEW r \in Requests, Admit(r), c # client[r]
      PROVE  now' = now /\ admitted'[c] = admitted[c] /\ InBucket(c)' = InBucket(c)
  <2>1. client[r] \in Clients
    BY DEF TypeOK
  <2>2. InBucket(client[r]) - Token \in 0..Full /\ Consume(r, InBucket(client[r]) - Token)
    BY <1>6, <2>1, LevelInRange, Units, SMT DEF Admit
  <2>3. InBucket(c)' = InBucket(c)
    BY <1>6, <2>2, LevelUnderConsume
  <2> QED
    BY <1>6, <2>2, <2>3 DEF Admit, Consume, TypeOK
<1>7. ASSUME NEW r \in Requests, Admit(r), c = client[r]
      PROVE  /\ now' = now /\ InBucket(c)' = InBucket(c) - Token
             /\ admitted'[c][s] = IF s <= now THEN admitted[c][s] + 1 ELSE admitted[c][s]
  <2>1. InBucket(c) - Token \in 0..Full /\ Consume(r, InBucket(c) - Token)
    BY <1>7, <1>1, Units, SMT DEF Admit
  <2>2. InBucket(c)' = InBucket(c) - Token
    BY <1>7, <2>1, LevelUnderConsume
  <2> QED
    BY <1>7, <2>1, <2>2 DEF Admit, Consume, TypeOK
<1>8. CASE UNCHANGED vars
  BY <1>1, <1>8 DEF vars, flow, history, InBucket, Refilled
<1>9. ASSUME NEW r \in Requests, Admit(r), c = client[r]
      PROVE  /\ s > now' => admitted'[c][s] = 0
             /\ s <= now' => admitted'[c][s] * Token + InBucket(c)' <= Full + (now' - s) * Rate
  <2>1. (admitted[c][s] + 1) * Token = admitted[c][s] * Token + Token
    BY <1>1, Units, Distribute
  <2>2. CASE s <= now
    <3>1. admitted'[c][s] * Token = admitted[c][s] * Token + Token
      BY <1>7, <1>9, <2>1, <2>2
    <3> QED
      BY <1>7, <1>9, <3>1, <2>2, <1>1, Units, SMT
  <2>3. CASE s > now
    BY <1>7, <1>9, <2>3, <1>1, SMT
  <2> QED
    BY <2>2, <2>3, <1>1, SMT
<1> QED
  BY <1>1, <1>2, <1>3, <1>4, <1>5, <1>6, <1>8, <1>9 DEF Next

(* In any stretch of time a client gets at most a full bucket and the refill,
   although its bucket may be evicted in between: an entry that is two minutes
   old was full again. *)
THEOREM RateIsKept == Spec => []WithinRate
<1>1. Spec => []RateInv
  BY RateInit, RateStep, TypeCorrect, PTL DEF Spec
<1>2. TypeOK /\ RateInv => WithinRate
  <2> SUFFICES ASSUME TypeOK, RateInv, NEW c \in Clients, NEW s \in 0..now
               PROVE  admitted[c][s] * Token <= Full + (now - s) * Rate
    BY DEF WithinRate
  <2>1. s \in Times /\ s <= now /\ s \in Nat /\ now \in Nat
    BY RateAssumption, SMT DEF TypeOK, Times
  <2>2. admitted[c][s] * Token \in Nat /\ (now - s) * Rate \in Int
    BY <2>1, Units, ProductNat, Distribute, SMT DEF TypeOK
  <2> QED
    BY <2>1, <2>2, LevelInRange, Units, SMT DEF RateInv
<1> QED
  BY <1>1, <1>2, TypeCorrect, PTL

-----------------------------------------------------------------------------
(* Retry-After. *)

(* While a client waits, what it would find and what is refilled until the
   moment it was told make up a token. *)
WaitInv ==
    \A c \in Clients : waitUntil[c] # None =>
        IF now >= waitUntil[c]
        THEN InBucket(c) >= Token
        ELSE InBucket(c) + (waitUntil[c] - now) * Rate >= Token

LEMMA WaitInit == Init => WaitInv
  BY DEF Init, WaitInv

(* What Retry-After promises. *)
LEMMA LongEnough ==
    ASSUME NEW units \in Nat, units < Token
    PROVE  /\ RetryAfter(units) \in Nat \ {0}
           /\ units + RetryAfter(units) * Rate >= Token
<1> DEFINE q == (Token - units + Rate - 1) \div Rate
<1>1. Token - units \in Nat \ {0}
  BY Units, SMT
<1>2. q \in Int /\ q * Rate >= Token - units
  BY <1>1, Units, RoundedUp
<1>3. q >= 1
  <2> SUFFICES ASSUME q <= 0 PROVE FALSE
    BY <1>2, SMT
  <2>1. q * Rate <= 0 * Rate
    BY <1>2, Units, Monotone
  <2> QED
    BY <2>1, <1>1, <1>2, Units, Distribute, SMT
<1>4. RetryAfter(units) = q
  BY <1>2, <1>3, SMT DEF RetryAfter
<1>5. q * Rate \in Int
  BY <1>2, Units, Distribute
<1> HIDE DEF q
<1> QED
  BY <1>2, <1>3, <1>4, <1>5, Units, SMT

LEMMA WaitStep == TypeOK /\ TypeOK' /\ WaitInv /\ [Next]_vars => WaitInv'
<1> SUFFICES ASSUME TypeOK, TypeOK', WaitInv, [Next]_vars, NEW c \in Clients, waitUntil'[c] # None
             PROVE  IF now' >= waitUntil'[c]
                    THEN InBucket(c)' >= Token
                    ELSE InBucket(c)' + (waitUntil'[c] - now') * Rate >= Token
  BY DEF WaitInv
<1>1. now \in Nat /\ waitUntil'[c] \in Nat /\ InBucket(c) \in 0..Full
  BY LevelInRange DEF TypeOK, Times
<1>2. CASE Tick
  <2>1. now' = now + 1 /\ waitUntil' = waitUntil
    BY <1>2 DEF Tick, history
  <2> DEFINE ahead == waitUntil[c] - now
  <2>2. ahead \in Int /\ waitUntil'[c] - now' = ahead - 1
    BY <1>1, <2>1, SMT
  <2>3. (ahead - 1) * Rate = ahead * Rate - Rate /\ ahead * Rate \in Int
        /\ (ahead - 1) * Rate \in Int
    <3>1. ahead - 1 \in Int /\ Rate \in Int
      BY <2>2, Units, SMT
    <3> QED
      BY <2>2, <3>1, Distribute
  <2>4. /\ InBucket(c)' <= Full
        /\ InBucket(c)' = InBucket(c) + Rate \/ InBucket(c)' = Full
    BY <1>2, LevelUnderTick
  <2>5. IF now >= waitUntil[c] THEN InBucket(c) >= Token
                               ELSE InBucket(c) + ahead * Rate >= Token
    BY <2>1 DEF WaitInv
  <2>6. CASE now >= waitUntil[c]
    BY <2>1, <2>4, <2>5, <2>6, <1>1, Units, SMT
  <2>7. CASE now + 1 = waitUntil[c]
    <3>1. ahead = 1 /\ 1 * Rate = Rate
      BY <2>7, <1>1, Units, SMT
    <3>2. InBucket(c) + Rate >= Token
      BY <2>5, <2>7, <3>1, <1>1, SMT
    <3> QED
      BY <2>1, <2>4, <2>7, <3>2, <1>1, Units, SMT
  <2>8. CASE now + 1 < waitUntil[c]
    <3>1. (waitUntil'[c] - now') * Rate = ahead * Rate - Rate
      BY <2>2, <2>3
    <3>2. ahead * Rate >= Rate
      <4>1. 1 * Rate <= ahead * Rate
        BY <2>2, <2>8, <1>1, <2>1, Units, Monotone, SMT
      <4> QED
        BY <4>1, <2>3, Units, SMT
    <3>3. InBucket(c) + ahead * Rate >= Token
      BY <2>5, <2>8, <2>1, <1>1, SMT
    <3>4. InBucket(c)' + (ahead * Rate - Rate) >= Token
      BY <2>3, <2>4, <3>2, <3>3, <1>1, Units, SMT
    <3>5. ~ (now' >= waitUntil'[c])
      BY <2>1, <2>8, <1>1, SMT
    <3> QED
      BY <3>1, <3>4, <3>5
  <2> QED
    BY <2>6, <2>7, <2>8, <2>1, <1>1, SMT
<1>3. ASSUME NEW r \in Requests, Arrive(r)
      PROVE  now' = now /\ waitUntil' = waitUntil /\ InBucket(c)' = InBucket(c)
  BY <1>3 DEF Arrive, history, InBucket, Refilled
<1>4. ASSUME NEW r \in Requests, Evict(r)
      PROVE  now' = now /\ waitUntil' = waitUntil /\ InBucket(c)' = InBucket(c)
  BY <1>4, LevelUnderEviction DEF Evict, history
<1>5. ASSUME NEW r \in Requests, Admit(r)
      PROVE  now' = now /\ waitUntil'[c] = waitUntil[c] /\ InBucket(c)' = InBucket(c)
  <2>1. client[r] \in Clients /\ client[r] # c
    BY <1>5 DEF Admit, TypeOK
  <2>2. InBucket(client[r]) - Token \in 0..Full /\ Consume(r, InBucket(client[r]) - Token)
    BY <1>5, <2>1, LevelInRange, Units, SMT DEF Admit
  <2>3. InBucket(c)' = InBucket(c)
    BY <2>1, <2>2, LevelUnderConsume
  <2> QED
    BY <1>5, <2>1, <2>2, <2>3 DEF Admit, Consume, TypeOK
<1>6. ASSUME NEW r \in Requests, Reject(r), c # client[r]
      PROVE  now' = now /\ waitUntil'[c] = waitUntil[c] /\ InBucket(c)' = InBucket(c)
  <2>1. client[r] \in Clients
    BY DEF TypeOK
  <2>2. InBucket(client[r]) \in 0..Full /\ Consume(r, InBucket(client[r]))
    BY <1>6, <2>1, LevelInRange DEF Reject
  <2>3. InBucket(c)' = InBucket(c)
    BY <1>6, <2>2, LevelUnderConsume
  <2> QED
    BY <1>6, <2>2, <2>3 DEF Reject, Consume, TypeOK
<1>7. ASSUME NEW r \in Requests, Reject(r), c = client[r]
      PROVE  IF now' >= waitUntil'[c]
             THEN InBucket(c)' >= Token
             ELSE InBucket(c)' + (waitUntil'[c] - now') * Rate >= Token
  <2> DEFINE units == InBucket(c)
  <2>1. units \in Nat /\ units < Token /\ Consume(r, units)
    BY <1>1, <1>7, Units, SMT DEF Reject
  <2>2. now' = now /\ InBucket(c)' = units
    BY <1>1, <1>7, <2>1, LevelUnderConsume DEF Consume
  <2>3. waitUntil'[c] = now + RetryAfter(units)
    BY <1>7 DEF Reject, TypeOK
  <2>4. RetryAfter(units) \in Nat \ {0} /\ units + RetryAfter(units) * Rate >= Token
    BY <2>1, LongEnough
  <2>5. waitUntil'[c] - now' = RetryAfter(units) /\ ~ (now' >= waitUntil'[c])
    BY <2>2, <2>3, <2>4, <1>1, SMT
  <2> HIDE DEF units
  <2> QED
    BY <2>2, <2>4, <2>5
<1>8. CASE UNCHANGED vars
  BY <1>8 DEF vars, flow, history, InBucket, Refilled, WaitInv
<1>9. ASSUME now' = now, waitUntil'[c] = waitUntil[c], InBucket(c)' = InBucket(c)
      PROVE  IF now' >= waitUntil'[c]
             THEN InBucket(c)' >= Token
             ELSE InBucket(c)' + (waitUntil'[c] - now') * Rate >= Token
  BY <1>9 DEF WaitInv
<1> QED
  BY <1>2, <1>3, <1>4, <1>5, <1>6, <1>7, <1>8, <1>9 DEF Next

(* Whoever waits for Retry-After finds a token: rounding is on the safe side
   and eviction takes nothing away. *)
THEOREM WaitingIsEnough == Spec => []RetryAfterSuffices
<1>1. Spec => []WaitInv
  BY WaitInit, WaitStep, TypeCorrect, PTL DEF Spec
<1>2. WaitInv => RetryAfterSuffices
  BY DEF WaitInv, RetryAfterSuffices
<1> QED
  BY <1>1, <1>2, PTL
-----------------------------------------------------------------------------
(* The limiter within the gateway. *)

LEMMA HandleKeeps ==
    ASSUME NEW r \in Requests, Handle(r)
    PROVE  UNCHANGED <<vars, process, config, loops, listening, stocked, polled, entered>>
  BY DEF Handle, Scrape, Refuse, LookUp, AskHorizon, HorizonAnswers, Compute, Recommended, Simple,
         History, Disconnect, Respond, Goes, operationVars

LEMMA GatewayStepsLimiter == [GatewayNext]_gatewayVars => [Next]_vars
<1> SUFFICES ASSUME [GatewayNext]_gatewayVars PROVE [Next]_vars
  OBVIOUS
<1>1. ASSUME NEW r \in Requests, Knock(r) \/ Sweep(r) \/ Enter(r) \/ Limited(r) PROVE Next
  BY <1>1 DEF Knock, Sweep, Enter, Limited, Next
<1>2. ASSUME NEW r \in Requests, Handle(r) PROVE UNCHANGED vars
  BY <1>2, HandleKeeps
<1>3. CASE Save \/ PruneSaved
  BY <1>3 DEF Save, PruneSaved
<1>4. CASE UNCHANGED gatewayVars
  BY <1>4 DEF gatewayVars
<1> QED
  BY <1>1, <1>2, <1>3, <1>4 DEF GatewayNext, Next

(* The gateway implements the limiter: no handler, loop or table gets at its  *)
(* buckets, and every request goes through all of enforce_rate_limit.         *)
THEOREM GatewayLimits == GatewaySpec => Spec
<1>1. GatewayInit => Init
  BY DEF GatewayInit
<1> QED
  BY <1>1, GatewayStepsLimiter, PTL DEF GatewaySpec, Spec

(* In any stretch of time a client of the gateway gets at most a full bucket  *)
(* and the refill, whatever handlers run and whichever requests evict.        *)
THEOREM GatewayKeepsRate == GatewaySpec => []WithinRate
  BY GatewayLimits, RateIsKept, PTL

(* Whoever waits for Retry-After is let through by the gateway.               *)
THEOREM GatewayWaits == GatewaySpec => []RetryAfterSuffices
  BY GatewayLimits, WaitingIsEnough, PTL

-----------------------------------------------------------------------------
(* The loops and their metrics. *)

Polling == {l \in Loops : loops[l] = "poll"}

(* Until the process is up nothing was polled. *)
OperationInv ==
    /\ OperationSound
    /\ polled \in [done : Nat, failed : Nat]
    /\ process = "starting" => metrics = NoMetrics /\ polled = NonePolled

LEMMA PollingFinite == IsFiniteSet(Polling) /\ Cardinality(Polling) \in Nat
<1>1. IsFiniteSet(Loops)
  <2>1. Loops = ({} \cup {"fees"}) \cup {"stats"}
    BY DEF Loops
  <2> QED
    BY <2>1, FS_EmptySet, FS_AddElement
<1>2. Polling \in SUBSET Loops
  BY DEF Polling
<1> QED
  BY <1>1, <1>2, FS_Subset, FS_CardinalityType

LEMMA OperationInitially == OperationInit => OperationInv
<1> SUFFICES ASSUME OperationInit PROVE OperationInv
  OBVIOUS
<1>1. Polling = {}
  BY DEF OperationInit, Polling
<1>2. Cardinality(Polling) = 0
  BY <1>1, FS_EmptySet
<1>3. OperationTypeOK
  <2>1. listening \in BOOLEAN /\ stocked \in BOOLEAN
    BY Zenon DEF OperationInit
  <2>2. metrics \in [polls : 0..MaxPolls, pollErrors : Nat, points : Nat, spikes : Nat,
                    recommendations : Nat]
    BY OperationAssumption DEF OperationInit, NoMetrics
  <2> QED
    BY <2>1, <2>2 DEF OperationInit, OperationTypeOK
<1>4. \A l \in Loops : loops[l] # "stopped"
  BY DEF OperationInit
<1> QED
  BY <1>2, <1>3, <1>4 DEF OperationInit, OperationInv, OperationSound, NoMetrics, NonePolled, Polling

(* What a configuration that starts has made sure of. *)
LEMMA Configured ==
    ASSUME NEW env \in Environments, Starts(env)
    PROVE  Resolved(env).interval = "given" /\ Resolved(env).lenient["rate_limit"] # "zero"
<1>1. "poll_interval" \in Looked(env) /\ "poll_interval" \in Required
  BY DEF Looked, Settings, Required
<1>2. env["poll_interval"] = "given"
  BY <1>1 DEF Starts, Accepted, Numbers, Required
<1>3. Fallback("rate_limit", env["rate_limit"]) # "zero"
  BY DEF Fallback
<1> QED
  BY <1>2, <1>3 DEF Resolved, Lenient

LEMMA OperationStep == OperationInv /\ OperationNext => OperationInv'
<1> SUFFICES ASSUME OperationInv, OperationNext PROVE OperationInv'
  OBVIOUS
<1> USE DEF OperationInv, OperationSound, OperationTypeOK
<1>0. /\ metrics.polls \in Nat /\ metrics.pollErrors \in Nat /\ metrics.points \in Nat
      /\ metrics.spikes \in Nat /\ polled.done \in Nat /\ polled.failed \in Nat
      /\ DOMAIN loops = Loops
  BY OperationAssumption
<1>1. CASE Start
  <2>1. /\ metrics' = NoMetrics /\ polled' = NonePolled /\ process' = "up"
        /\ stocked' \in BOOLEAN /\ UNCHANGED <<loops, listening, metrics, polled>>
    BY <1>1 DEF Start
  <2>2. config'.interval = "given" /\ config'.lenient["rate_limit"] # "zero"
    BY <1>1, Configured DEF Start
  <2> QED
    BY <2>1, <2>2 DEF NoMetrics, NonePolled
<1>2. CASE FailToStart
  BY <1>2 DEF FailToStart
<1>3. CASE Listen
  BY <1>3 DEF Listen
<1>4. ASSUME NEW l \in Loops, StartPoll(l) PROVE OperationInv'
  <2>1. /\ loops' = [loops EXCEPT ![l] = "poll"] /\ loops[l] = "wait"
        /\ metrics' = [metrics EXCEPT !.polls = @ + 1] /\ metrics.polls < MaxPolls
        /\ listening' \in {listening, TRUE} /\ process = "up"
        /\ UNCHANGED <<process, config, stocked, polled>>
    BY <1>4 DEF StartPoll
  <2>2. Polling' = Polling \cup {l} /\ l \notin Polling
    BY <2>1 DEF Polling
  <2>3. Cardinality(Polling') = Cardinality(Polling) + 1
    BY <2>2, PollingFinite, FS_AddElement
  <2>4. metrics.polls + 1 \in 0..MaxPolls
    BY <2>1, <1>0, OperationAssumption
  <2>5. (\E k \in Loops : loops'[k] = "stopped") => (\E k \in Loops : loops[k] = "stopped")
    BY <2>1
  <2>6. loops' \in [Loops -> {"wait", "poll", "stopped"}] /\ listening' \in BOOLEAN
    BY <2>1
  <2>7. metrics.polls = polled.done + polled.failed + Cardinality(Polling)
    BY DEF Polling
  <2>8. metrics'.polls = polled'.done + polled'.failed + Cardinality(Polling')
    BY <2>1, <2>3, <2>7, <1>0, PollingFinite
  <2>9. OperationTypeOK' /\ metrics'.pollErrors = metrics.pollErrors
        /\ metrics'.points = metrics.points
    BY <2>1, <2>4, <2>6, <1>0
  <2>10. metrics'.points > 0 => stocked'
    BY <2>1, <2>9
  <2>11. (\E k \in Loops : loops'[k] = "stopped") => listening'
    <3>1. listening => listening'
      BY <2>1, Zenon
    <3> QED
      BY <2>5, <3>1, Zenon
  <2>12. OperationSound'
    BY <2>1, <2>8, <2>9, <2>10, <2>11 DEF Polling
  <2> QED
    BY <2>1, <2>12
<1>5. ASSUME NEW l \in Loops, PollFails(l) PROVE OperationInv'
  <2>1. /\ loops' = [loops EXCEPT ![l] = "wait"] /\ loops[l] = "poll"
        /\ metrics' = [metrics EXCEPT !.pollErrors = @ + 1]
        /\ polled' = [polled EXCEPT !.failed = @ + 1]
        /\ process = "up" /\ UNCHANGED <<process, config, listening, stocked>>
    BY <1>5 DEF PollFails
  <2>2. Polling' = Polling \ {l} /\ l \in Polling
    BY <2>1 DEF Polling
  <2>3. Cardinality(Polling') = Cardinality(Polling) - 1
    BY <2>2, PollingFinite, FS_RemoveElement
  <2>4. (\E k \in Loops : loops'[k] = "stopped") => (\E k \in Loops : loops[k] = "stopped")
    BY <2>1
  <2>5. metrics.polls = polled.done + polled.failed + Cardinality(Polling)
    BY DEF Polling
  <2>6. metrics'.polls = polled'.done + polled'.failed + Cardinality(Polling')
    BY <2>1, <2>3, <2>5, <1>0, PollingFinite
  <2>7. OperationTypeOK' /\ metrics'.points = metrics.points
        /\ metrics'.pollErrors = metrics.pollErrors + 1
    BY <2>1, <1>0
  <2>8. polled' \in [done : Nat, failed : Nat] /\ polled'.done = polled.done
        /\ polled'.failed = polled.failed + 1
    BY <2>1, <1>0
  <2>9. metrics'.points > 0 => stocked'
    BY <2>1, <2>7
  <2>10. (\E k \in Loops : loops'[k] = "stopped") => listening'
    BY <2>1, <2>4, Zenon
  <2>11. metrics'.pollErrors = polled'.failed
         /\ (process' = "up" /\ config'.attempts = "zero" =>
                metrics'.pollErrors = polled'.done + polled'.failed)
    BY <2>1, <2>7, <2>8, <1>0
  <2>12. OperationSound'
    BY <2>1, <2>6, <2>7, <2>9, <2>10, <2>11 DEF Polling
  <2> QED
    BY <2>1, <2>8, <2>12
<1>6. ASSUME NEW l \in Loops, PollEnds(l) PROVE OperationInv'
  <2>1. /\ loops' = [loops EXCEPT ![l] = "wait"] /\ loops[l] = "poll" /\ process = "up"
        /\ polled' = [polled EXCEPT !.done = @ + 1] /\ config.attempts # "zero"
        /\ UNCHANGED <<process, config, listening>>
    BY <1>6 DEF PollEnds
  <2>2. Polling' = Polling \ {l} /\ l \in Polling
    BY <2>1 DEF Polling
  <2>3. Cardinality(Polling') = Cardinality(Polling) - 1
    BY <2>2, PollingFinite, FS_RemoveElement
  <2>4. (\E k \in Loops : loops'[k] = "stopped") => (\E k \in Loops : loops[k] = "stopped")
    BY <2>1
  <2>5. metrics.polls = polled.done + polled.failed + Cardinality(Polling)
    BY DEF Polling
  <2>6. /\ metrics' \in [polls : 0..MaxPolls, pollErrors : Nat, points : Nat, spikes : Nat,
                         recommendations : Nat]
        /\ metrics'.polls = metrics.polls /\ metrics'.pollErrors = metrics.pollErrors
        /\ stocked' \in BOOLEAN
        /\ metrics'.points > 0 => stocked'
    <3>1. CASE UNCHANGED <<stocked, metrics>>
      BY <3>1
    <3>2. ASSUME NEW more \in {0, 1}, NEW recent \in {0, 1}, stocked' = TRUE,
                 metrics' = [metrics EXCEPT !.points = @ + more, !.spikes = @ + recent]
          PROVE  /\ metrics' \in [polls : 0..MaxPolls, pollErrors : Nat, points : Nat,
                                  spikes : Nat, recommendations : Nat]
                 /\ metrics'.polls = metrics.polls /\ metrics'.pollErrors = metrics.pollErrors
      <4>1. metrics.points + more \in Nat /\ metrics.spikes + recent \in Nat
        BY <1>0
      <4> QED
        BY <3>2, <4>1
    <3> QED
      BY <1>6, <3>1, <3>2 DEF PollEnds
  <2>7. metrics'.polls = polled'.done + polled'.failed + Cardinality(Polling')
    BY <2>1, <2>3, <2>5, <2>6, <1>0, PollingFinite
  <2> QED
    BY <2>1, <2>4, <2>6, <2>7, <1>0 DEF Polling
<1>7. CASE Interrupt
  <2>1. CASE listening
    <3>1. PICK heard \in SUBSET {l \in Loops : loops[l] = "wait"} :
             loops' = [l \in Loops |-> IF l \in heard THEN "stopped" ELSE loops[l]]
      BY <1>7, <2>1 DEF Interrupt
    <3>2. UNCHANGED <<process, config, listening, stocked, metrics, polled>>
      BY <1>7, <2>1 DEF Interrupt
    <3>3. loops' \in [Loops -> {"wait", "poll", "stopped"}] /\ Polling' = Polling
      BY <3>1 DEF Polling
    <3> QED
      BY <2>1, <3>2, <3>3 DEF Polling
  <2>2. CASE ~listening
    BY <1>7, <2>2 DEF Interrupt
  <2> QED
    BY <2>1, <2>2
<1> QED
  BY <1>1, <1>2, <1>3, <1>4, <1>5, <1>6, <1>7 DEF OperationNext

(* A handler touches nothing of it but the counter of recommendations. *)
LEMMA OperationByHandler ==
    ASSUME OperationInv, UNCHANGED <<process, config, loops, listening, stocked, polled>>,
           metrics' = metrics \/ (process = "up" /\ Counted)
    PROVE  OperationInv'
<1>1. CASE metrics' = metrics
  BY <1>1 DEF OperationInv, OperationSound, OperationTypeOK
<1>2. CASE process = "up" /\ Counted
  <2>1. /\ metrics' \in [polls : 0..MaxPolls, pollErrors : Nat, points : Nat, spikes : Nat,
                         recommendations : Nat]
        /\ metrics'.polls = metrics.polls /\ metrics'.pollErrors = metrics.pollErrors
        /\ metrics'.points = metrics.points
    BY <1>2 DEF Counted, OperationInv, OperationSound, OperationTypeOK
  <2> QED
    BY <1>2, <2>1 DEF OperationInv, OperationSound, OperationTypeOK
<1> QED
  BY <1>1, <1>2

-----------------------------------------------------------------------------
(* The page of the history. *)

LEMMA LeastElement ==
    ASSUME NEW T, T \subseteq Nat, T # {}
    PROVE  \E m \in T : \A n \in T : m <= n
<1>1. PICK m \in T : \A n \in T : <<n, m>> \notin OpToRel(<, Nat)
  BY WFMin, NatLessThanWellFounded
<1>2. ASSUME NEW n \in T PROVE m <= n
  <2>1. ~ (n < m)
    BY <1>1, <1>2 DEF OpToRel
  <2> QED
    BY <2>1, SMT
<1> QED
  BY <1>1, <1>2

LEMMA GreatestElement ==
    ASSUME NEW M \in Nat, NEW T, T \subseteq 1..M, T # {}
    PROVE  \E m \in T : \A n \in T : n <= m
<1> DEFINE U == {M - t : t \in T}
<1>1. U \subseteq Nat /\ U # {}
  BY SMT
<1>2. PICK u \in U : \A v \in U : u <= v
  BY <1>1, LeastElement
<1>3. PICK m \in T : u = M - m
  BY <1>2
<1>4. ASSUME NEW n \in T PROVE n <= m
  <2>1. u <= M - n
    BY <1>2
  <2> QED
    BY <1>3, <2>1, SMT
<1> QED
  BY <1>4

(* What Newest chooses, for a limit of n rows. *)
IsPage(page, rows, n) ==
    /\ page \in UNION {[1..k -> rows] : k \in 0..n}
    /\ Len(page) = n \/ \A row \in rows : \E i \in DOMAIN page : page[i] = row
    /\ \A i, j \in DOMAIN page : i < j => page[i] > page[j]
    /\ \A i \in DOMAIN page, row \in rows : row > page[i] => \E j \in DOMAIN page : page[j] = row

(* A page that does not list every row can be made longer by the newest of    *)
(* the others.                                                                *)
LEMMA LongerPage ==
    ASSUME NEW M \in Nat, NEW rows, rows \subseteq 1..M, NEW n \in Nat, NEW page,
           IsPage(page, rows, n)
    PROVE  \E longer : IsPage(longer, rows, n + 1)
<1>1. PICK k \in 0..n : page \in [1..k -> rows]
  BY DEF IsPage
<1>2. DOMAIN page = 1..k /\ Len(page) = k
  BY <1>1
<1>3. CASE \A row \in rows : \E i \in DOMAIN page : page[i] = row
  <2>1. k \in 0..n + 1
    BY <1>1
  <2> QED
    BY <1>1, <1>3, <2>1 DEF IsPage
<1>4. CASE ~ \A row \in rows : \E i \in DOMAIN page : page[i] = row
  <2> DEFINE rest == {row \in rows : ~ \E i \in DOMAIN page : page[i] = row}
  <2>1. k = n
    BY <1>2, <1>4 DEF IsPage
  <2>2. rest \subseteq 1..M /\ rest # {}
    BY <1>4
  <2>3. PICK next \in rest : \A row \in rest : row <= next
    BY <2>2, GreatestElement
  <2> DEFINE longer == [i \in 1..n + 1 |-> IF i = n + 1 THEN next ELSE page[i]]
  <2>4. longer \in [1..n + 1 -> rows]
    BY <1>1, <2>1, <2>3
  <2>5. DOMAIN longer = 1..n + 1 /\ Len(longer) = n + 1
    BY <2>4
  <2>6. longer[n + 1] = next /\ \A i \in 1..n : longer[i] = page[i]
    OBVIOUS
  <2>7. \A row \in rows : row \in rest \/ \E j \in 1..n : page[j] = row
    BY <1>2, <2>1
  <2>8. \A i \in 1..n : page[i] \in rows /\ page[i] \in Int
    <3>1. \A i \in 1..n : page[i] \in rows
      BY <1>1, <2>1
    <3>2. \A row \in rows : row \in Int
      OBVIOUS
    <3> QED
      BY <3>1, <3>2
  <2>9. next \in Int /\ next \in rows /\ \A j \in 1..n : page[j] # next
    BY <1>2, <2>1, <2>2, <2>3
  <2> HIDE DEF rest, longer
  <2>10. ASSUME NEW i \in 1..n + 1, NEW j \in 1..n + 1, i < j
         PROVE  longer[i] > longer[j]
    <3>1. CASE j <= n
      BY <2>6, <2>10, <3>1, <1>2, <2>1 DEF IsPage
    <3>2. CASE j = n + 1
      <4>1. i \in 1..n
        BY <2>10, <3>2
      <4>2. ~ (next > page[i])
        BY <1>2, <2>1, <2>9, <4>1 DEF IsPage
      <4> QED
        BY <2>6, <2>8, <2>9, <3>2, <4>1, <4>2
    <3> QED
      BY <3>1, <3>2
  <2>11. ASSUME NEW i \in 1..n + 1, NEW row \in rows, row > longer[i]
         PROVE  \E j \in 1..n + 1 : longer[j] = row
    <3>1. CASE \E j \in 1..n : page[j] = row
      BY <2>6, <3>1
    <3>2. CASE row \in rest
      <4>1. row <= next /\ row \in Int
        BY <2>2, <2>3, <3>2
      <4>2. i \in 1..n
        BY <2>6, <2>9, <2>11, <4>1
      <4>3. \E j \in 1..n : page[j] = row
        BY <1>2, <2>1, <2>6, <2>11, <4>2 DEF IsPage
      <4> QED
        BY <2>6, <4>3
    <3> QED
      BY <2>7, <3>1, <3>2
  <2> QED
    BY <2>4, <2>5, <2>10, <2>11 DEF IsPage
<1> QED
  BY <1>3, <1>4

LEMMA PageExists ==
    ASSUME NEW M \in Nat, NEW rows, rows \subseteq 1..M, NEW n \in Nat
    PROVE  \E page : IsPage(page, rows, n)
<1> DEFINE without == {m \in Nat : ~ \E page : IsPage(page, rows, m)}
<1>1. SUFFICES ASSUME without # {} PROVE FALSE
  OBVIOUS
<1>2. PICK m \in without : \A k \in without : m <= k
  <2>1. without \subseteq Nat
    OBVIOUS
  <2> HIDE DEF without
  <2> QED
    BY <1>1, <2>1, LeastElement
<1>3. m # 0
  <2> DEFINE none == [i \in 1..0 |-> i]
  <2>1. none \in [1..0 -> rows] /\ Len(none) = 0 /\ DOMAIN none = {} /\ 0 \in 0..0
    <3>1. 1..0 = {}
      BY SMT
    <3>2. DOMAIN none = 1..0
      OBVIOUS
    <3>3. none \in [1..0 -> rows]
      BY <3>1
    <3>4. Len(none) = 0
      BY <3>2
    <3> QED
      BY <3>1, <3>2, <3>3, <3>4
  <2> HIDE DEF none
  <2>2. IsPage(none, rows, 0)
    BY <2>1 DEF IsPage
  <2> QED
    BY <2>2
<1>4. m - 1 \in Nat /\ m - 1 \notin without
  BY <1>2, <1>3
<1>5. \E page : IsPage(page, rows, (m - 1) + 1)
  BY <1>4, LongerPage
<1> QED
  BY <1>4, <1>5

LEMMA NewestDescends ==
    ASSUME NEW M \in Nat, NEW rows, rows \subseteq 1..M
    PROVE  \A i, j \in DOMAIN Newest(rows) : i < j => Newest(rows)[i] > Newest(rows)[j]
<1>1. \E page : IsPage(page, rows, HistoryLimit)
  BY PageExists, GatewayAssumption
<1>2. Newest(rows) = CHOOSE page : IsPage(page, rows, HistoryLimit)
  BY DEF Newest, IsPage
<1>3. IsPage(Newest(rows), rows, HistoryLimit)
  BY <1>1, <1>2
<1> QED
  BY <1>3 DEF IsPage

-----------------------------------------------------------------------------
(* Handlers. *)

Handling ==
    [at : {"limiter", "begun", "upstream", "computed"}, route : Routes, key : BOOLEAN,
     valid : BOOLEAN]

(* A request is in the limiter as long as enforce_rate_limit runs for it,     *)
(* only an account lookup asks Horizon, and what runs has passed the key.     *)
HandlerSound(r) ==
    /\ stage[r] # "out" <=> handler[r].at = "limiter"
    /\ handler[r].at = "upstream" => handler[r].route = "account"
    /\ process = "starting" => handler[r] = NoHandler
    /\ handler[r].at \in {"begun", "upstream", "computed"} /\ handler[r].route # "metrics" =>
          (config.key => handler[r].key)

HandlersInv ==
    /\ handler \in [Requests -> {NoHandler} \cup Handling]
    /\ \A r \in Requests : HandlerSound(r)

(* What is left of handler h when it goes to `place`. *)
MovedTo(h, place) == [h EXCEPT !.at = place]

LEMMA Moved ==
    ASSUME NEW h \in Handling, NEW place \in {"limiter", "begun", "upstream", "computed"}
    PROVE  /\ MovedTo(h, place) \in Handling /\ MovedTo(h, place).at = place
           /\ MovedTo(h, place).route = h.route /\ MovedTo(h, place).key = h.key
  BY DEF Handling, MovedTo

Answers(r) == handler' = [handler EXCEPT ![r] = NoHandler]

(* Everything a handler may do in a step: answer without advice, answer with  *)
(* advice, call Horizon, or compute a recommendation.                         *)
HandleEffect(r) ==
    \/ Answers(r) /\ UNCHANGED <<advised, metrics, stamp, saving>>
    \/ /\ handler[r].at = "computed" /\ handler[r].route \in Advice
       /\ Answers(r) /\ advised' = advised + 1 /\ Counted /\ UNCHANGED <<stamp, saving>>
    \/ /\ handler[r].at = "begun" /\ handler[r].route = "account"
       /\ handler' = [handler EXCEPT ![r] = MovedTo(handler[r], "upstream")]
       /\ UNCHANGED <<advised, metrics, stamp, saving>>
    \/ /\ handler[r].at = "begun" /\ handler[r].route \in Advice
       /\ handler' = [handler EXCEPT ![r] = MovedTo(handler[r], "computed")]
       /\ UNCHANGED <<advised, metrics>>
       /\ \/ stamp' = stamp + 1 /\ saving' = saving \cup {stamp + 1}
          \/ UNCHANGED <<stamp, saving>>

LEMMA HandleDoes ==
    ASSUME HandlersInv, NEW r \in Requests, Handle(r)
    PROVE  /\ process = "up" /\ handler[r].at \in {"begun", "upstream", "computed"}
           /\ saved' = saved /\ (listed' = listed \/ listed' = Newest(saved))
           /\ HandleEffect(r)
<1> USE DEF HandleEffect, Answers, Respond, Begun
<1>1. CASE Scrape(r)
  BY <1>1 DEF Scrape, Advice
<1>2. CASE Refuse(r)
  BY <1>2 DEF Refuse, StatusOf
<1>3. CASE LookUp(r)
  BY <1>3 DEF LookUp, Advice
<1>4. CASE AskHorizon(r)
  BY <1>4 DEF AskHorizon, Goes, MovedTo
<1>5. CASE HorizonAnswers(r)
  <2>1. handler[r].route = "account"
    BY <1>5 DEF HorizonAnswers, HandlersInv, HandlerSound
  <2>2. handler[r].route \notin Advice
    BY <2>1 DEF Advice
  <2> QED
    BY <1>5, <2>2 DEF HorizonAnswers
<1>6. CASE Compute(r)
  BY <1>6 DEF Compute, Goes, MovedTo, Advice
<1>7. CASE Recommended(r)
  BY <1>7 DEF Recommended, Advice
<1>8. CASE Simple(r)
  <2>1. "simple" \in Advice
    BY DEF Advice
  <2>2. CASE stocked
    BY <1>8, <2>1, <2>2 DEF Simple
  <2>3. CASE ~stocked
    BY <1>8, <2>3 DEF Simple, StatusOf
  <2> QED
    BY <2>2, <2>3
<1>9. CASE History(r)
  BY <1>9 DEF History, Advice
<1>10. CASE Disconnect(r)
  BY <1>10 DEF Disconnect, operationVars
<1> QED
  BY <1>1, <1>2, <1>3, <1>4, <1>5, <1>6, <1>7, <1>8, <1>9, <1>10 DEF Handle

(* Every step keeps HandlersInv: it is enough to look at the one request that *)
(* moves.                                                                     *)
LEMMA HandlerStep ==
    ASSUME HandlersInv, NEW r \in Requests, NEW h \in {NoHandler} \cup Handling,
           handler' = [handler EXCEPT ![r] = h],
           UNCHANGED <<process, config>>,
           \A q \in Requests \ {r} : stage'[q] = stage[q],
           HandlerSound(r)'
    PROVE  HandlersInv'
<1>1. handler' \in [Requests -> {NoHandler} \cup Handling]
  BY DEF HandlersInv
<1>2. ASSUME NEW q \in Requests, q # r PROVE HandlerSound(q)'
  <2>1. handler'[q] = handler[q] /\ stage'[q] = stage[q] /\ HandlerSound(q)
    BY <1>2 DEF HandlersInv
  <2> QED
    BY <2>1 DEF HandlerSound
<1> QED
  BY <1>1, <1>2 DEF HandlersInv

LEMMA HandlersStep ==
    ASSUME TypeOK, HandlersInv, GatewayNext
    PROVE  HandlersInv'
<1> USE DEF HandlersInv
<1>0. /\ NoHandler.at = "none"
      /\ \A h \in Handling : h.at \in {"limiter", "begun", "upstream", "computed"}
  BY DEF NoHandler, Handling
<1>1. CASE UNCHANGED <<stage, process, config, handler>>
  BY <1>1 DEF HandlerSound
<1>2. CASE OperationNext /\ UNCHANGED <<vars, handlerVars>>
  <2>1. UNCHANGED <<stage, handler>>
    BY <1>2 DEF vars, flow, handlerVars
  <2>2. CASE Start
    BY <2>1, <2>2, <1>0 DEF Start, HandlerSound
  <2>3. CASE ~Start
    <3>1. config' = config /\ (process' = "starting" => process = "starting")
      BY <1>2, <2>3 DEF OperationNext, FailToStart, Listen, Interrupt, StartPoll, PollFails, PollEnds
    <3> QED
      BY <2>1, <3>1 DEF HandlerSound
  <2> QED
    BY <2>2, <2>3
<1>3. ASSUME NEW r \in Requests, Knock(r) PROVE HandlersInv'
  <2>1. PICK ask \in Asks(now) : handler' = [handler EXCEPT
           ![r] = [at |-> "limiter", route |-> ask.route, key |-> ask.key, valid |-> ask.valid]]
    BY <1>3 DEF Knock
  <2> DEFINE h == [at |-> "limiter", route |-> ask.route, key |-> ask.key, valid |-> ask.valid]
  <2>2. ask \in [route : Routes, key : BOOLEAN, valid : BOOLEAN]
    BY <2>1, AsksAssumption DEF TypeOK
  <2>3. h \in Handling /\ h.at = "limiter"
    BY <2>2 DEF Handling
  <2>4. /\ process = "up" /\ UNCHANGED <<process, config>>
        /\ stage'[r] # "out" /\ \A q \in Requests \ {r} : stage'[q] = stage[q]
    BY <1>3 DEF Knock, Arrive, operationVars, TypeOK
  <2> HIDE DEF h
  <2>5. handler'[r] = h
    BY <2>1 DEF h
  <2>6. HandlerSound(r)'
    BY <2>3, <2>4, <2>5 DEF HandlerSound
  <2> QED
    BY <2>1, <2>3, <2>4, <2>6, HandlerStep DEF h
<1>4. ASSUME NEW r \in Requests, Sweep(r) PROVE HandlersInv'
  <2>1. /\ UNCHANGED <<process, config, handler>> /\ stage[r] # "out" /\ stage'[r] # "out"
        /\ \A q \in Requests \ {r} : stage'[q] = stage[q]
    BY <1>4 DEF Sweep, Evict, operationVars, handlerVars, TypeOK
  <2> QED
    BY <2>1 DEF HandlerSound
<1>5. ASSUME NEW r \in Requests, Enter(r) PROVE HandlersInv'
  <2> DEFINE h == IF LetIn(handler[r]) THEN MovedTo(handler[r], "begun") ELSE NoHandler
  <2>1. /\ UNCHANGED <<process, config>> /\ stage[r] # "out" /\ stage'[r] = "out"
        /\ \A q \in Requests \ {r} : stage'[q] = stage[q]
        /\ handler' = [handler EXCEPT ![r] = h]
    BY <1>5 DEF Enter, Admit, Consume, operationVars, TypeOK, MovedTo
  <2>2. handler[r].at = "limiter" /\ handler[r] \in Handling /\ process # "starting"
    BY <2>1, <1>0 DEF HandlerSound
  <2>3. CASE LetIn(handler[r])
    <3>1. h \in Handling /\ h.at = "begun" /\ h.route = handler[r].route /\ h.key = handler[r].key
      BY <2>2, <2>3, Moved
    <3>2. handler'[r] = h
      BY <2>1
    <3>3. h.route # "metrics" => (config.key => h.key)
      BY <3>1, <2>3 DEF LetIn
    <3> HIDE DEF h
    <3>4. HandlerSound(r)'
      BY <2>1, <2>2, <3>1, <3>2, <3>3 DEF HandlerSound
    <3> QED
      BY <2>1, <3>1, <3>4, HandlerStep
  <2>4. CASE ~LetIn(handler[r])
    <3>1. h = NoHandler /\ handler'[r] = NoHandler
      BY <2>1, <2>4
    <3>2. HandlerSound(r)'
      BY <2>1, <3>1, <1>0 DEF HandlerSound
    <3> HIDE DEF h
    <3> QED
      BY <2>1, <3>1, <3>2, HandlerStep
  <2> QED
    BY <2>3, <2>4
<1>6. ASSUME NEW r \in Requests, Limited(r) PROVE HandlersInv'
  <2>1. /\ UNCHANGED <<process, config>> /\ stage'[r] = "out"
        /\ \A q \in Requests \ {r} : stage'[q] = stage[q]
        /\ handler' = [handler EXCEPT ![r] = NoHandler]
    BY <1>6 DEF Limited, Reject, Consume, operationVars, TypeOK
  <2>2. HandlerSound(r)'
    BY <2>1, <1>0 DEF HandlerSound
  <2> QED
    BY <2>1, <2>2, HandlerStep
<1>7. ASSUME NEW r \in Requests, Handle(r) PROVE HandlersInv'
  <2>1. /\ process = "up" /\ handler[r].at \in {"begun", "upstream", "computed"}
        /\ HandleEffect(r) /\ UNCHANGED <<stage, process, config>>
    BY <1>7, HandleDoes, HandleKeeps DEF vars, flow
  <2>2. handler[r] \in Handling /\ stage[r] = "out"
    BY <2>1, <1>0 DEF HandlerSound
  <2>3. CASE Answers(r)
    <3>1. HandlerSound(r)'
      BY <2>1, <2>2, <2>3, <1>0 DEF HandlerSound, Answers
    <3> QED
      BY <2>1, <2>3, <3>1, HandlerStep DEF Answers
  <2>4. ASSUME NEW place \in {"upstream", "computed"}, handler[r].at = "begun",
               place = "upstream" => handler[r].route = "account",
               handler' = [handler EXCEPT ![r] = MovedTo(handler[r], place)]
        PROVE  HandlersInv'
    <3> DEFINE h == MovedTo(handler[r], place)
    <3>1. h \in Handling /\ h.at = place /\ h.route = handler[r].route /\ h.key = handler[r].key
      BY <2>2, Moved
    <3>2. handler'[r] = h /\ HandlerSound(r)
      BY <2>4
    <3> HIDE DEF h
    <3>3. HandlerSound(r)'
      BY <2>1, <2>2, <2>4, <3>1, <3>2 DEF HandlerSound
    <3> QED
      BY <2>1, <2>4, <3>1, <3>3, HandlerStep DEF h
  <2>5. "computed" # "upstream"
    OBVIOUS
  <2> QED
    BY <2>1, <2>3, <2>4, <2>5 DEF HandleEffect
<1>8. CASE Tick /\ UNCHANGED <<operationVars, handlerVars>>
  BY <1>1, <1>8 DEF Tick, flow, operationVars, handlerVars
<1>9. CASE Save \/ PruneSaved
  BY <1>1, <1>9 DEF Save, PruneSaved, vars, flow, operationVars
<1> QED
  BY <1>2, <1>3, <1>4, <1>5, <1>6, <1>7, <1>8, <1>9 DEF GatewayNext

-----------------------------------------------------------------------------
(* The table of recommendations. *)

RowsInv ==
    /\ stamp \in Nat /\ saving \subseteq 1..stamp /\ saved \subseteq 1..stamp
    /\ saving \cap saved = {}
    /\ \A i, j \in DOMAIN listed : i < j => listed[i] > listed[j]

LEMMA RowsStep ==
    ASSUME HandlersInv, RowsInv, GatewayNext
    PROVE  RowsInv'
<1> USE DEF RowsInv
<1>1. CASE UNCHANGED <<stamp, saving, saved, listed>>
  BY <1>1
<1>2. CASE Save
  BY <1>2 DEF Save
<1>3. CASE PruneSaved
  BY <1>3 DEF PruneSaved
<1>4. ASSUME NEW r \in Requests, Handle(r) PROVE RowsInv'
  <2>1. saved' = saved /\ (listed' = listed \/ listed' = Newest(saved))
    BY <1>4, HandleDoes
  <2>2. \A i, j \in DOMAIN listed' : i < j => listed'[i] > listed'[j]
    BY <2>1, NewestDescends
  <2>3. UNCHANGED <<stamp, saving>> \/ (stamp' = stamp + 1 /\ saving' = saving \cup {stamp + 1})
    BY <1>4, HandleDoes DEF HandleEffect
  <2>4. 1..stamp \subseteq 1..stamp + 1 /\ stamp + 1 \in 1..stamp + 1 /\ stamp + 1 \notin 1..stamp
    OBVIOUS
  <2>5. CASE UNCHANGED <<stamp, saving>>
    BY <2>1, <2>2, <2>5
  <2>6. CASE stamp' = stamp + 1 /\ saving' = saving \cup {stamp + 1}
    <3>1. stamp' \in Nat /\ saving' \subseteq 1..stamp' /\ saved' \subseteq 1..stamp'
      BY <2>1, <2>4, <2>6
    <3>2. saving' \cap saved' = {}
      BY <2>1, <2>4, <2>6
    <3> QED
      BY <2>2, <3>1, <3>2
  <2> QED
    BY <2>3, <2>5, <2>6
<1> QED
  BY <1>1, <1>2, <1>3, <1>4
  DEF GatewayNext, Knock, Sweep, Enter, Limited, handlerVars

-----------------------------------------------------------------------------
(* What is counted. *)

LetIns == UNION {{c} \X (1..admitted[c][0]) : c \in Clients}
Advising(places) == {r \in Requests : handler[r].at \in places /\ handler[r].route \in Advice}
Underway == Advising({"begun", "computed"})
Asked == Advising({"begun"})

EnteredInv ==
    /\ entered \in [advice : Nat, other : Nat]
    /\ IsFiniteSet(LetIns)
    /\ entered.advice + entered.other <= Cardinality(LetIns)

AdviceInv ==
    /\ stamp \in Nat /\ advised \in Nat
    /\ metrics.recommendations = advised
    /\ IsFiniteSet(Underway) /\ IsFiniteSet(Asked)
    /\ advised + Cardinality(Underway) <= entered.advice
    /\ stamp + Cardinality(Asked) <= entered.advice

LEMMA EnteredStep ==
    ASSUME TypeOK, HandlersInv, EnteredInv, GatewayNext
    PROVE  EnteredInv'
<1> USE DEF EnteredInv
<1>1. CASE UNCHANGED <<admitted, entered>>
  BY <1>1 DEF LetIns
<1>2. ASSUME NEW r \in Requests, Enter(r) PROVE EnteredInv'
  <2> DEFINE c == client[r]
             new == <<c, admitted[c][0] + 1>>
  <2>1. c \in Clients /\ 0 \in Times /\ 0 <= now
    BY RateAssumption DEF TypeOK, Times
  <2>2. \A d \in Clients : admitted[d][0] \in Nat
    BY <2>1 DEF TypeOK
  <2>3. admitted'[c][0] = admitted[c][0] + 1
        /\ \A d \in Clients : d # c => admitted'[d][0] = admitted[d][0]
    BY <1>2, <2>1 DEF Enter, Admit, TypeOK
  <2>4. LetIns' = LetIns \cup {new}
    <3>1. 1..(admitted[c][0] + 1) = (1..admitted[c][0]) \cup {admitted[c][0] + 1}
      BY <2>1, <2>2
    <3>2. ASSUME NEW x
          PROVE  x \in LetIns' <=> (x \in LetIns \/ x = new)
      <4>1. x \in LetIns' <=> \E d \in Clients : x \in {d} \X (1..admitted'[d][0])
        BY DEF LetIns
      <4>2. x \in LetIns <=> \E d \in Clients : x \in {d} \X (1..admitted[d][0])
        BY DEF LetIns
      <4>3. x \in {c} \X (1..admitted'[c][0]) <=> (x \in {c} \X (1..admitted[c][0]) \/ x = new)
        BY <2>3, <3>1
      <4>4. \A d \in Clients : d # c => {d} \X (1..admitted'[d][0]) = {d} \X (1..admitted[d][0])
        BY <2>3
      <4> QED
        BY <2>1, <4>1, <4>2, <4>3, <4>4
    <3> QED
      BY <3>2
  <2>5. new \notin LetIns
    BY <2>1, <2>2 DEF LetIns
  <2>6. Cardinality(LetIns') = Cardinality(LetIns) + 1 /\ IsFiniteSet(LetIns')
        /\ Cardinality(LetIns) \in Nat
    BY <2>4, <2>5, FS_AddElement, FS_CardinalityType
  <2>7. \/ UNCHANGED entered
        \/ \E kind \in {"advice", "other"} : entered' = [entered EXCEPT ![kind] = @ + 1]
    BY <1>2 DEF Enter, Kind
  <2>8. CASE UNCHANGED entered
    BY <2>6, <2>8
  <2>9. CASE entered' = [entered EXCEPT !["advice"] = @ + 1]
    BY <2>6, <2>9
  <2>10. CASE entered' = [entered EXCEPT !["other"] = @ + 1]
    BY <2>6, <2>10
  <2> QED
    BY <2>7, <2>8, <2>9, <2>10
<1>3. ASSUME NEW r \in Requests, Knock(r) \/ Sweep(r) \/ Limited(r) \/ Handle(r)
      PROVE  UNCHANGED <<admitted, entered>>
  <2>1. CASE Knock(r) \/ Sweep(r) \/ Limited(r)
    BY <2>1 DEF Knock, Sweep, Limited, Arrive, Evict, Reject, history, handlerVars
  <2>2. CASE Handle(r)
    BY <2>2, HandleKeeps DEF vars, history
  <2> QED
    BY <1>3, <2>1, <2>2
<1>4. CASE Save \/ PruneSaved
  BY <1>1, <1>4 DEF Save, PruneSaved, vars, history
<1> QED
  BY <1>1, <1>2, <1>3, <1>4 DEF GatewayNext, Tick, vars, history, handlerVars

(* One request moves in, on or out. *)
LEMMA AdvisingMoves ==
    ASSUME HandlersInv, NEW r \in Requests, NEW h, handler' = [handler EXCEPT ![r] = h],
           NEW places, IsFiniteSet(Advising(places)),
           NEW in \in BOOLEAN, in <=> (h.at \in places /\ h.route \in Advice)
    PROVE  /\ IsFiniteSet(Advising(places)') /\ Cardinality(Advising(places)) \in Nat
           /\ Cardinality(Advising(places)') \in Nat
           /\ in /\ r \in Advising(places) =>
                Cardinality(Advising(places)') = Cardinality(Advising(places))
           /\ in /\ r \notin Advising(places) =>
                Cardinality(Advising(places)') = Cardinality(Advising(places)) + 1
           /\ ~in /\ r \in Advising(places) =>
                Cardinality(Advising(places)') = Cardinality(Advising(places)) - 1
           /\ ~in /\ r \notin Advising(places) =>
                Cardinality(Advising(places)') = Cardinality(Advising(places))
<1> DEFINE A == Advising(places)
<1>1. handler'[r] = h /\ \A q \in Requests : q # r => handler'[q] = handler[q]
  BY DEF HandlersInv
<1>2. CASE in
  <2>1. A' = A \cup {r}
    BY <1>1, <1>2 DEF Advising
  <2> HIDE DEF A
  <2>2. IsFiniteSet(A') /\ Cardinality(A') = IF r \in A THEN Cardinality(A) ELSE Cardinality(A) + 1
    BY <2>1, FS_AddElement DEF A
  <2> QED
    BY <1>2, <2>2, FS_CardinalityType DEF A
<1>3. CASE ~in
  <2>1. A' = A \ {r}
    BY <1>1, <1>3 DEF Advising
  <2> HIDE DEF A
  <2>2. IsFiniteSet(A)
    BY DEF A
  <2>3. IsFiniteSet(A \ {r})
        /\ Cardinality(A \ {r}) = IF r \in A THEN Cardinality(A) - 1 ELSE Cardinality(A)
    BY <2>2, FS_RemoveElement
  <2>4. Cardinality(A) \in Nat /\ Cardinality(A') \in Nat
    BY <2>1, <2>2, <2>3, FS_CardinalityType
  <2>5. CASE r \in A
    BY <1>3, <2>1, <2>3, <2>4, <2>5 DEF A
  <2>6. CASE r \notin A
    BY <1>3, <2>1, <2>3, <2>4, <2>6 DEF A
  <2> QED
    BY <2>5, <2>6
<1> QED
  BY <1>2, <1>3

LEMMA AdviceStep ==
    ASSUME TypeOK, OperationInv, HandlersInv, EnteredInv, AdviceInv, GatewayNext
    PROVE  AdviceInv'
<1> USE DEF AdviceInv
<1>0. /\ NoHandler.at = "none" /\ entered.advice \in Nat
      /\ \A r \in Requests : handler[r].at = "limiter" => r \notin Underway /\ r \notin Asked
      /\ \A r \in Requests : handler[r] = NoHandler => r \notin Underway /\ r \notin Asked
      /\ Cardinality(Underway) \in Nat /\ Cardinality(Asked) \in Nat
  BY FS_CardinalityType DEF NoHandler, EnteredInv, Underway, Asked, Advising
<1>1. CASE UNCHANGED <<handler, advised, stamp, entered>> /\ metrics'.recommendations = metrics.recommendations
  BY <1>1 DEF Underway, Asked, Advising
<1>2. CASE OperationNext /\ UNCHANGED <<vars, handlerVars>>
  <2>1. metrics'.recommendations = metrics.recommendations
    BY <1>2 DEF OperationNext, Start, FailToStart, Listen, StartPoll, PollFails, PollEnds, Interrupt,
                OperationInv, OperationSound, OperationTypeOK
  <2> QED
    BY <1>1, <1>2, <2>1 DEF handlerVars
<1>3. ASSUME NEW r \in Requests, NEW h, handler' = [handler EXCEPT ![r] = h],
             r \notin Underway, r \notin Asked, h.at = "none" \/ h.at = "limiter",
             UNCHANGED <<advised, stamp, metrics, entered>>
      PROVE  AdviceInv'
  <2>1. ~ (h.at \in {"begun", "computed"} /\ h.route \in Advice)
        /\ ~ (h.at \in {"begun"} /\ h.route \in Advice)
    BY <1>3
  <2>2. IsFiniteSet(Underway') /\ Cardinality(Underway') = Cardinality(Underway)
    BY <1>3, <2>1, AdvisingMoves DEF Underway
  <2>3. IsFiniteSet(Asked') /\ Cardinality(Asked') = Cardinality(Asked)
    BY <1>3, <2>1, AdvisingMoves DEF Asked
  <2> QED
    BY <1>3, <2>2, <2>3
<1>4. ASSUME NEW r \in Requests, Knock(r) PROVE AdviceInv'
  <2>1. PICK ask : handler' = [handler EXCEPT
           ![r] = [at |-> "limiter", route |-> ask.route, key |-> ask.key, valid |-> ask.valid]]
    BY <1>4 DEF Knock
  <2>2. handler[r] = NoHandler /\ UNCHANGED <<advised, stamp, metrics, entered>>
    BY <1>4 DEF Knock, operationVars
  <2> DEFINE h == [at |-> "limiter", route |-> ask.route, key |-> ask.key, valid |-> ask.valid]
  <2>3. h.at = "limiter"
    OBVIOUS
  <2> HIDE DEF h
  <2> QED
    BY <1>0, <1>3, <2>1, <2>2, <2>3 DEF h
<1>5. ASSUME NEW r \in Requests, Enter(r) PROVE AdviceInv'
  <2>1. handler[r].at = "limiter" /\ handler[r] \in Handling
    BY <1>5 DEF Enter, Admit, HandlersInv, HandlerSound, NoHandler
  <2>2. UNCHANGED <<advised, stamp, metrics>> /\ r \notin Underway /\ r \notin Asked
    BY <1>0, <1>5, <2>1 DEF Enter, operationVars
  <2>3. CASE LetIn(handler[r])
    <3> DEFINE h == MovedTo(handler[r], "begun")
               in == h.route \in Advice
    <3>1. handler' = [handler EXCEPT ![r] = h]
          /\ entered' = [entered EXCEPT ![Kind(handler[r].route)] = @ + 1]
      BY <1>5, <2>3 DEF Enter, MovedTo
    <3>2. h.at = "begun" /\ h.route = handler[r].route
      BY <2>1, Moved
    <3>3. in <=> (h.at \in {"begun", "computed"} /\ h.route \in Advice)
      BY <3>2
    <3>4. in <=> (h.at \in {"begun"} /\ h.route \in Advice)
      BY <3>2
    <3> HIDE DEF h
    <3>5. CASE in
      <4>1. entered'.advice = entered.advice + 1
        BY <3>1, <3>2, <3>5 DEF Kind, EnteredInv
      <4>2. IsFiniteSet(Underway') /\ Cardinality(Underway') = Cardinality(Underway) + 1
        BY <2>2, <3>1, <3>3, <3>5, AdvisingMoves DEF Underway
      <4>3. IsFiniteSet(Asked') /\ Cardinality(Asked') = Cardinality(Asked) + 1
        BY <2>2, <3>1, <3>4, <3>5, AdvisingMoves DEF Asked
      <4> QED
        BY <1>0, <2>2, <4>1, <4>2, <4>3
    <3>6. CASE ~in
      <4>1. entered'.advice = entered.advice
        BY <3>1, <3>2, <3>6 DEF Kind, EnteredInv
      <4>2. IsFiniteSet(Underway') /\ Cardinality(Underway') = Cardinality(Underway)
        BY <2>2, <3>1, <3>3, <3>6, AdvisingMoves DEF Underway
      <4>3. IsFiniteSet(Asked') /\ Cardinality(Asked') = Cardinality(Asked)
        BY <2>2, <3>1, <3>4, <3>6, AdvisingMoves DEF Asked
      <4> QED
        BY <1>0, <2>2, <4>1, <4>2, <4>3
    <3> QED
      BY <3>5, <3>6
  <2>4. CASE ~LetIn(handler[r])
    <3>1. handler' = [handler EXCEPT ![r] = NoHandler] /\ UNCHANGED entered
      BY <1>5, <2>4 DEF Enter
    <3> QED
      BY <1>0, <1>3, <2>2, <3>1
  <2> QED
    BY <2>3, <2>4
<1>6. ASSUME NEW r \in Requests, Limited(r) PROVE AdviceInv'
  <2>1. handler[r].at = "limiter"
    BY <1>6 DEF Limited, Reject, HandlersInv, HandlerSound
  <2>2. handler' = [handler EXCEPT ![r] = NoHandler]
        /\ UNCHANGED <<advised, stamp, metrics, entered>>
    BY <1>6 DEF Limited, operationVars
  <2> QED
    BY <1>0, <1>3, <2>1, <2>2
<1>7. ASSUME NEW r \in Requests, Handle(r) PROVE AdviceInv'
  <2>1. handler[r].at \in {"begun", "upstream", "computed"} /\ HandleEffect(r) /\ entered' = entered
    BY <1>7, HandleDoes, HandleKeeps
  <2>2. handler[r] \in Handling
    BY <1>0, <2>1 DEF HandlersInv
  <2>3. ASSUME Answers(r)
        PROVE  /\ IsFiniteSet(Underway') /\ IsFiniteSet(Asked')
               /\ Cardinality(Underway') \in Nat /\ Cardinality(Asked') \in Nat
               /\ Cardinality(Underway') <= Cardinality(Underway)
               /\ Cardinality(Asked') <= Cardinality(Asked)
               /\ r \in Underway => Cardinality(Underway') = Cardinality(Underway) - 1
    <3>1. ~ (NoHandler.at \in {"begun", "computed"} /\ NoHandler.route \in Advice)
          /\ ~ (NoHandler.at \in {"begun"} /\ NoHandler.route \in Advice)
      BY <1>0
    <3>2. /\ IsFiniteSet(Underway') /\ Cardinality(Underway') \in Nat
          /\ r \in Underway => Cardinality(Underway') = Cardinality(Underway) - 1
          /\ r \notin Underway => Cardinality(Underway') = Cardinality(Underway)
      BY <2>3, <3>1, AdvisingMoves DEF Underway, Answers
    <3>3. /\ IsFiniteSet(Asked') /\ Cardinality(Asked') \in Nat
          /\ r \in Asked => Cardinality(Asked') = Cardinality(Asked) - 1
          /\ r \notin Asked => Cardinality(Asked') = Cardinality(Asked)
      BY <2>3, <3>1, AdvisingMoves DEF Asked, Answers
    <3> QED
      BY <1>0, <3>2, <3>3
  <2>4. CASE Answers(r) /\ UNCHANGED <<advised, metrics, stamp, saving>>
    BY <1>0, <2>1, <2>3, <2>4
  <2>5. CASE /\ handler[r].at = "computed" /\ handler[r].route \in Advice
             /\ Answers(r) /\ advised' = advised + 1 /\ Counted /\ UNCHANGED <<stamp, saving>>
    <3>1. r \in Underway
      BY <2>5 DEF Underway, Advising
    <3>2. metrics'.recommendations = metrics.recommendations + 1
      BY <2>5 DEF Counted, OperationInv, OperationSound, OperationTypeOK
    <3> QED
      BY <1>0, <2>1, <2>3, <2>5, <3>1, <3>2
  <2>6. CASE /\ handler[r].at = "begun" /\ handler[r].route = "account"
             /\ handler' = [handler EXCEPT ![r] = MovedTo(handler[r], "upstream")]
             /\ UNCHANGED <<advised, metrics, stamp, saving>>
    <3> DEFINE h == MovedTo(handler[r], "upstream")
    <3>1. h.at = "upstream" /\ r \notin Underway /\ r \notin Asked
      BY <2>2, <2>6, Moved DEF Underway, Asked, Advising, Advice
    <3>2. ~ (h.at \in {"begun", "computed"} /\ h.route \in Advice)
          /\ ~ (h.at \in {"begun"} /\ h.route \in Advice)
      BY <3>1
    <3> HIDE DEF h
    <3>3. IsFiniteSet(Underway') /\ Cardinality(Underway') = Cardinality(Underway)
      BY <2>6, <3>1, <3>2, AdvisingMoves DEF Underway, h
    <3>4. IsFiniteSet(Asked') /\ Cardinality(Asked') = Cardinality(Asked)
      BY <2>6, <3>1, <3>2, AdvisingMoves DEF Asked, h
    <3> QED
      BY <2>1, <2>6, <3>3, <3>4
  <2>7. CASE /\ handler[r].at = "begun" /\ handler[r].route \in Advice
             /\ handler' = [handler EXCEPT ![r] = MovedTo(handler[r], "computed")]
             /\ UNCHANGED <<advised, metrics>>
             /\ stamp' = stamp + 1 \/ UNCHANGED stamp
    <3> DEFINE h == MovedTo(handler[r], "computed")
    <3>1. h.at = "computed" /\ h.route = handler[r].route /\ r \in Underway /\ r \in Asked
      BY <2>2, <2>7, Moved DEF Underway, Asked, Advising
    <3>2. (h.at \in {"begun", "computed"} /\ h.route \in Advice)
          /\ ~ (h.at \in {"begun"} /\ h.route \in Advice)
      BY <2>7, <3>1
    <3> HIDE DEF h
    <3>3. IsFiniteSet(Underway') /\ Cardinality(Underway') = Cardinality(Underway)
      BY <2>7, <3>1, <3>2, AdvisingMoves DEF Underway, h
    <3>4. IsFiniteSet(Asked') /\ Cardinality(Asked') = Cardinality(Asked) - 1
      BY <2>7, <3>1, <3>2, AdvisingMoves DEF Asked, h
    <3> QED
      BY <1>0, <2>1, <2>7, <3>3, <3>4
  <2> QED
    BY <2>1, <2>4, <2>5, <2>6, <2>7 DEF HandleEffect
<1>8. CASE Tick /\ UNCHANGED <<operationVars, handlerVars>>
  BY <1>1, <1>8 DEF operationVars, handlerVars
<1>9. CASE Save \/ PruneSaved
  BY <1>1, <1>9 DEF Save, PruneSaved, operationVars
<1>10. ASSUME NEW r \in Requests, Sweep(r) PROVE AdviceInv'
  BY <1>1, <1>10 DEF Sweep, operationVars, handlerVars
<1> QED
  BY <1>2, <1>4, <1>5, <1>6, <1>7, <1>8, <1>9, <1>10 DEF GatewayNext

-----------------------------------------------------------------------------
(* The gateway. *)

GatewayInv ==
    TypeOK /\ OperationInv /\ HandlersInv /\ RowsInv /\ EnteredInv /\ AdviceInv

LEMMA GatewayInitially == GatewayInit => GatewayInv
<1> SUFFICES ASSUME GatewayInit PROVE GatewayInv
  OBVIOUS
<1>1. TypeOK /\ OperationInv
  BY TypeInit, OperationInitially DEF GatewayInit
<1>2. HandlersInv
  BY DEF GatewayInit, Init, HandlersInv, HandlerSound, NoHandler
<1>3. RowsInv
  BY DEF GatewayInit, RowsInv
<1>4. EnteredInv
  <2>1. \A c \in Clients : 1..admitted[c][0] = {}
    <3>1. 0 \in Times
      BY RateAssumption DEF Times
    <3>2. \A c \in Clients : admitted[c][0] = 0
      BY <3>1 DEF GatewayInit, Init
    <3> QED
      BY <3>2, SMT
  <2>2. LetIns = {}
    BY <2>1 DEF LetIns
  <2>3. entered \in [advice : Nat, other : Nat] /\ entered.advice + entered.other = 0
    BY DEF GatewayInit
  <2> QED
    BY <2>2, <2>3, FS_EmptySet DEF EnteredInv
<1>5. AdviceInv
  <2>1. Underway = {} /\ Asked = {}
    BY DEF GatewayInit, NoHandler, Underway, Asked, Advising
  <2>2. metrics.recommendations = 0 /\ entered.advice = 0 /\ stamp = 0 /\ advised = 0
    BY DEF GatewayInit, OperationInit, NoMetrics
  <2> QED
    BY <2>1, <2>2, FS_EmptySet DEF AdviceInv
<1> QED
  BY <1>1, <1>2, <1>3, <1>4, <1>5 DEF GatewayInv

LEMMA GatewayInductive == GatewayInv /\ [GatewayNext]_gatewayVars => GatewayInv'
<1> SUFFICES ASSUME GatewayInv, [GatewayNext]_gatewayVars PROVE GatewayInv'
  OBVIOUS
<1> USE DEF GatewayInv
<1>1. TypeOK'
  BY GatewayStepsLimiter, TypeStep
<1>2. CASE GatewayNext
  <2>1. OperationInv'
    <3>1. CASE OperationNext
      BY <3>1, OperationStep
    <3>2. ASSUME NEW r \in Requests, Handle(r) PROVE OperationInv'
      BY <3>2, HandleKeeps, HandleDoes, OperationByHandler DEF HandleEffect
    <3>3. CASE UNCHANGED operationVars
      BY <3>3, OperationByHandler DEF operationVars
    <3> QED
      BY <1>2, <3>1, <3>2, <3>3
      DEF GatewayNext, Save, PruneSaved, Knock, Sweep, Enter, Limited
  <2> QED
    BY <1>1, <1>2, <2>1, HandlersStep, RowsStep, EnteredStep, AdviceStep
<1>3. CASE UNCHANGED gatewayVars
  <2>1. /\ UNCHANGED <<stage, admitted, process, config, loops, listening, stocked, metrics, polled>>
        /\ UNCHANGED <<handler, stamp, saving, saved, listed, entered, advised>>
    BY <1>3 DEF gatewayVars, vars, flow, history, operationVars, handlerVars
  <2>2. OperationInv'
    BY <2>1, OperationByHandler
  <2>3. HandlersInv' /\ RowsInv'
    BY <2>1 DEF HandlersInv, HandlerSound, RowsInv
  <2>4. EnteredInv' /\ AdviceInv'
    BY <2>1 DEF EnteredInv, AdviceInv, LetIns, Underway, Asked, Advising
  <2> QED
    BY <1>1, <2>2, <2>3, <2>4
<1> QED
  BY <1>2, <1>3

LEMMA GatewayInvImplies == GatewayInv => Accounted
<1> SUFFICES ASSUME GatewayInv PROVE Accounted
  OBVIOUS
<1> USE DEF GatewayInv
<1>1. GatewayTypeOK
  <2>1. \A r \in Requests : handler[r].at \in {"none", "limiter", "begun", "upstream", "computed"}
    BY DEF HandlersInv, Handling, NoHandler
  <2> QED
    BY <2>1 DEF GatewayTypeOK, RowsInv
<1>2. LetThrough = Cardinality(LetIns)
  BY DEF LetThrough, LetIns
<1>3. InAdvice({"begun", "computed"}) = Cardinality(Underway)
      /\ InAdvice({"begun"}) = Cardinality(Asked)
  BY DEF InAdvice, Underway, Asked, Advising
<1>4. \A r \in Requests :
         handler[r].at \in {"begun", "upstream", "computed"} /\ handler[r].route # "metrics" =>
             (config.key => handler[r].key)
  BY DEF HandlersInv, HandlerSound
<1> QED
  BY <1>1, <1>2, <1>3, <1>4 DEF Accounted, OperationInv, RowsInv, EnteredInv, AdviceInv

(* Whatever requests overlap, are given up, or go before the insert of their  *)
(* row: what runs, is computed, counted and saved goes back to a request that *)
(* the limiter let through and that brought the key, the metrics of the loops *)
(* account for every poll, and the history lists its rows newest first.       *)
THEOREM GatewayAccounts == GatewaySpec => []Accounted
  BY GatewayInitially, GatewayInductive, GatewayInvImplies, PTL DEF GatewaySpec
=============================================================================
