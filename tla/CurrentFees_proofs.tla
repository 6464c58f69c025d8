-------------------------- MODULE CurrentFees_proofs --------------------------
(***************************************************************************)
(* Proofs about CurrentFees, for any number of clients, any TTL and any    *)
(* timeout.                                                                *)
(*                                                                         *)
(* Three invariants carry the argument: QueueInv says that the mutex is    *)
(* one, FlightInv relates a call under way to the cache it found, and      *)
(* AgeInv bounds the age of what is cached and sent.                       *)
(***************************************************************************)
EXTENDS CurrentFees, TLAPS

-----------------------------------------------------------------------------
(* The queue of the mutex. *)

Queued == {queue[i] : i \in 1..Len(queue)}

Distinct == \A i, j \in 1..Len(queue) : queue[i] = queue[j] => i = j

(* Whoever leaves is gone, the others keep their order. *)
LEMMA LeaveFacts ==
    ASSUME queue \in Seq(Clients), Distinct, NEW c \in Clients, queue' = Leave(c)
    PROVE  /\ queue' \in Seq(Clients) /\ Distinct'
           /\ Queued' = Queued \ {c}
           /\ \A d \in Clients : d # c /\ Holds(d) => Holds(d)'
<1>1. CASE \A i \in 1..Len(queue) : queue[i] # c
  <2>1. queue' = queue
    BY <1>1 DEF Leave
  <2>2. c \notin Queued
    BY <1>1 DEF Queued
  <2> QED
    BY <2>1, <2>2 DEF Distinct, Queued, Holds
<1>2. CASE ~ \A i \in 1..Len(queue) : queue[i] # c
  <2> DEFINE k == CHOOSE i \in 1..Len(queue) : queue[i] = c
  <2>1. k \in 1..Len(queue) /\ queue[k] = c
    BY <1>2
  <2>2. queue' = [j \in 1..(Len(queue) - 1) |-> IF j < k THEN queue[j] ELSE queue[j + 1]]
    BY <1>2 DEF Leave
  <2> HIDE DEF k
  <2>3. Len(queue) \in Nat \ {0} /\ k \in Nat /\ \A i \in 1..Len(queue) : queue[i] \in Clients
    BY <2>1, SMT
  <2>4. queue' \in Seq(Clients) /\ Len(queue') = Len(queue) - 1
    BY <2>2, <2>3, SMT
  <2>5. \A j \in 1..Len(queue') : queue'[j] = IF j < k THEN queue[j] ELSE queue[j + 1]
    BY <2>2, <2>4
  <2>6. Distinct'
    <3> SUFFICES ASSUME NEW i \in 1..Len(queue'), NEW j \in 1..Len(queue'), queue'[i] = queue'[j]
                 PROVE  i = j
      BY DEF Distinct
    <3> QED
      BY <2>1, <2>3, <2>4, <2>5, SMT DEF Distinct
  <2>7. \A j \in 1..Len(queue') : queue'[j] \in Queued \ {c}
    <3> SUFFICES ASSUME NEW j \in 1..Len(queue') PROVE queue'[j] \in Queued \ {c}
      OBVIOUS
    <3> DEFINE i == IF j < k THEN j ELSE j + 1
    <3>1. i \in 1..Len(queue) /\ i # k /\ queue'[j] = queue[i]
      BY <2>1, <2>3, <2>4, <2>5, SMT
    <3>2. queue[i] # c
      BY <3>1, <2>1 DEF Distinct
    <3> QED
      BY <3>1, <3>2 DEF Queued
  <2>8. \A i \in 1..Len(queue) : i # k => queue[i] \in Queued'
    <3> SUFFICES ASSUME NEW i \in 1..Len(queue), i # k PROVE queue[i] \in Queued'
      OBVIOUS
    <3> DEFINE j == IF i < k THEN i ELSE i - 1
    <3>1. j \in 1..Len(queue') /\ queue'[j] = queue[i]
      BY <2>1, <2>3, <2>4, <2>5, SMT
    <3> QED
      BY <3>1 DEF Queued
  <2>9. Queued' = Queued \ {c}
    <3>1. Queued' \subseteq Queued \ {c}
      BY <2>7 DEF Queued
    <3>2. Queued \ {c} \subseteq Queued'
      BY <2>1, <2>8 DEF Queued
    <3> QED
      BY <3>1, <3>2
  <2>10. ASSUME NEW d \in Clients, d # c, Holds(d) PROVE Holds(d)'
    <3>1. queue[1] = d /\ k # 1
      BY <2>1, <2>3, <2>10, SMT DEF Holds
    <3>2. 1 \in 1..Len(queue') /\ queue'[1] = d
      BY <2>1, <2>3, <2>4, <2>5, <3>1, SMT
    <3> QED
      BY <2>4, <3>2, SMT DEF Holds
  <2> QED
    BY <2>4, <2>6, <2>9, <2>10
<1> QED
  BY <1>1, <1>2

(* A newcomer is last. *)
LEMMA AppendFacts ==
    ASSUME queue \in Seq(Clients), Distinct, NEW c \in Clients, c \notin Queued,
           queue' = Append(queue, c)
    PROVE  /\ queue' \in Seq(Clients) /\ Distinct'
           /\ Queued' = Queued \cup {c}
           /\ \A d \in Clients : Holds(d) => Holds(d)'
<1>1. Len(queue) \in Nat /\ Len(queue') = Len(queue) + 1 /\ queue' \in Seq(Clients)
  BY SMT
<1>2. \A i \in 1..Len(queue') : queue'[i] = IF i <= Len(queue) THEN queue[i] ELSE c
  BY <1>1, SMT
<1>3. \A i \in 1..Len(queue) : queue[i] # c
  BY DEF Queued
<1>4. Distinct'
  <2> SUFFICES ASSUME NEW i \in 1..Len(queue'), NEW j \in 1..Len(queue'), queue'[i] = queue'[j]
               PROVE  i = j
    BY DEF Distinct
  <2> QED
    BY <1>1, <1>2, <1>3, SMT DEF Distinct
<1>5. Queued' = Queued \cup {c}
  <2>1. \A x : x \in Queued' <=> \E i \in 1..Len(queue') : queue'[i] = x
    BY DEF Queued
  <2>2. \A x : x \in Queued <=> \E i \in 1..Len(queue) : queue[i] = x
    BY DEF Queued
  <2>3. 1..Len(queue') = (1..Len(queue)) \cup {Len(queue')}
    BY <1>1, SMT
  <2>4. queue'[Len(queue')] = c /\ \A i \in 1..Len(queue) : queue'[i] = queue[i]
    BY <1>1, <1>2, SMT
  <2> QED
    BY <2>1, <2>2, <2>3, <2>4
<1>6. ASSUME NEW d \in Clients, Holds(d) PROVE Holds(d)'
  BY <1>1, <1>2, <1>6, SMT DEF Holds
<1> QED
  BY <1>1, <1>4, <1>5, <1>6

-----------------------------------------------------------------------------
(* Types, with what Horizon needs to have: a newest payload. *)

HasNewest == \E p \in published : \A q \in published : q <= p

TypeInv == TypeOK /\ HasNewest

LEMMA NewestFacts ==
    ASSUME TypeInv
    PROVE  /\ Newest \in published /\ Newest \in Times
           /\ \A q \in published : q <= Newest
<1>1. Newest \in published /\ \A q \in published : q <= Newest
  BY DEF TypeInv, HasNewest, Newest
<1>2. published \subseteq Times
  BY TimeAssumption, SMT DEF TypeInv, TypeOK, Times
<1> QED
  BY <1>1, <1>2

LEMMA LeaveType ==
    ASSUME queue \in Seq(Clients), NEW c \in Clients
    PROVE  Leave(c) \in Seq(Clients)
<1>1. CASE \A i \in 1..Len(queue) : queue[i] # c
  BY <1>1 DEF Leave
<1>2. CASE ~ \A i \in 1..Len(queue) : queue[i] # c
  <2> DEFINE k == CHOOSE i \in 1..Len(queue) : queue[i] = c
  <2>1. k \in 1..Len(queue)
    BY <1>2
  <2>2. Leave(c) = [j \in 1..(Len(queue) - 1) |-> IF j < k THEN queue[j] ELSE queue[j + 1]]
    BY <1>2 DEF Leave
  <2> HIDE DEF k
  <2> QED
    BY <2>1, <2>2, SMT
<1> QED
  BY <1>1, <1>2

LEMMA TypeInit == Init => TypeInv
<1> SUFFICES ASSUME Init PROVE TypeInv
  OBVIOUS
<1>1. 0 \in Times /\ 0 \in 0..0
  BY TimeAssumption, SMT DEF Times
<1> QED
  BY <1>1 DEF Init, TypeInv, TypeOK, HasNewest, Stages, Empty

LEMMA TypeStep == TypeInv /\ [Next]_vars => TypeInv'
<1> SUFFICES ASSUME TypeInv, [Next]_vars PROVE TypeInv'
  OBVIOUS
<1> USE DEF TypeInv, TypeOK
<1>1. CASE Tick
  <2>1. /\ now' = now + 1 /\ now' \in Times /\ now \in Nat
        /\ UNCHANGED <<stage, queue, request, cache, copy>>
    BY <1>1, TimeAssumption, SMT DEF Tick, Times
  <2>2. published' \subseteq 0..now' /\ 0 \in published'
    BY <1>1, <2>1, SMT DEF Tick
  <2>3. HasNewest'
    <3>1. CASE published' = published
      BY <3>1 DEF HasNewest
    <3>2. CASE published' = published \cup {now + 1}
      <4>1. \A q \in published : q <= now + 1
        BY <2>1, SMT
      <4>2. now + 1 <= now + 1
        BY <2>1, SMT
      <4>3. now + 1 \in published' /\ \A q \in published' : q <= now + 1
        BY <3>2, <4>1, <4>2, Zenon
      <4> QED
        BY <4>3, Zenon DEF HasNewest
    <3> QED
      BY <1>1, <3>1, <3>2 DEF Tick
  <2> QED
    BY <2>1, <2>2, <2>3 DEF request
<1>2. ASSUME NEW c \in Clients, Arrive(c) PROVE TypeInv'
  <2>1. queue' \in Seq(Clients)
    BY <1>2, SMT DEF Arrive
  <2> QED
    BY <1>2, <2>1 DEF Arrive, request, HasNewest, Stages
<1>3. ASSUME NEW c \in Clients, Hit(c) PROVE TypeInv'
  <2>1. queue' \in Seq(Clients)
    BY <1>3, LeaveType DEF Hit
  <2>2. cache.value # None /\ cache.value \in {None} \cup Times
    BY <1>3 DEF Hit, IsFresh
  <2> QED
    BY <1>3, <2>1, <2>2 DEF Hit, HasNewest, Stages
<1>4. ASSUME NEW c \in Clients, Miss(c) PROVE TypeInv'
  BY <1>4 DEF Miss, HasNewest, Stages
<1>5. ASSUME NEW c \in Clients, HorizonReads(c) PROVE TypeInv'
  BY <1>5, NewestFacts DEF HorizonReads, HasNewest
<1>6. ASSUME NEW c \in Clients, FetchEnds(c) PROVE TypeInv'
  <2>1. queue' \in Seq(Clients)
    BY <1>6, LeaveType DEF FetchEnds
  <2>2. answer[c] \in Times /\ answer[c] # None
    BY <1>6 DEF FetchEnds
  <2>3. cache' \in [value : {None} \cup Times, at : {None} \cup Times]
    BY <1>6, <2>2 DEF FetchEnds
  <2> QED
    BY <1>6, <2>1, <2>2, <2>3 DEF FetchEnds, HasNewest, Stages
<1>7. ASSUME NEW c \in Clients, FetchFails(c) PROVE TypeInv'
  <2>1. queue' \in Seq(Clients)
    BY <1>7, LeaveType DEF FetchFails
  <2> QED
    BY <1>7, <2>1 DEF FetchFails, HasNewest, Stages
<1>8. ASSUME NEW c \in Clients, Reply(c) \/ NotModified(c) PROVE TypeInv'
  <2>1. Done(c) /\ copy' \in [Clients -> {None} \cup Times]
    BY <1>8 DEF Reply, NotModified
  <2> QED
    BY <2>1 DEF Done, HasNewest, Stages
<1>9. ASSUME NEW c \in Clients, Disconnect(c) PROVE TypeInv'
  <2>1. queue' \in Seq(Clients)
    BY <1>9, LeaveType DEF Disconnect
  <2> QED
    BY <1>9, <2>1 DEF Disconnect, HasNewest, Stages
<1>10. CASE UNCHANGED vars
  BY <1>10 DEF vars, request, HasNewest
<1> QED
  BY <1>1, <1>2, <1>3, <1>4, <1>5, <1>6, <1>7, <1>8, <1>9, <1>10 DEF Next, Progress

LEMMA TypeInvariant == Spec => []TypeInv
  BY TypeInit, TypeStep, PTL DEF Spec

(* Every variable has its type and every reply has a payload. *)
THEOREM TypeCorrect == Spec => []TypeOK
  BY TypeInvariant, PTL DEF TypeInv

-----------------------------------------------------------------------------
(* One call at a time. *)

InLine == {c \in Clients : stage[c] \in {"queued", "fetching"}}

(* The queue holds the requests in line, once each, and a call to Horizon is
   made only by its head. *)
QueueInv ==
    /\ Distinct
    /\ Queued = InLine
    /\ \A c \in Clients : stage[c] = "fetching" => Holds(c)

LEMMA QueueInit == Init => QueueInv
<1> SUFFICES ASSUME Init PROVE QueueInv
  OBVIOUS
<1>1. 1..Len(queue) = {}
  BY SMT DEF Init
<1> QED
  BY <1>1 DEF Init, QueueInv, Distinct, Queued, InLine

(* A request leaves the line. *)
LEMMA LeaveLine ==
    ASSUME TypeInv, QueueInv, NEW c \in Clients, NEW w,
           w \notin {"queued", "fetching"},
           queue' = Leave(c), stage' = [stage EXCEPT ![c] = w]
    PROVE  QueueInv'
<1>1. /\ Distinct' /\ Queued' = Queued \ {c}
      /\ \A d \in Clients : d # c /\ Holds(d) => Holds(d)'
  BY LeaveFacts DEF TypeInv, TypeOK, QueueInv
<1>2. \A d \in Clients : stage'[d] = IF d = c THEN w ELSE stage[d]
  BY DEF TypeInv, TypeOK
<1>3. InLine' = InLine \ {c}
  BY <1>2 DEF InLine
<1> QED
  BY <1>1, <1>2, <1>3 DEF QueueInv

LEMMA QueueStep == TypeInv /\ QueueInv /\ [Next]_vars => QueueInv'
<1> SUFFICES ASSUME TypeInv, QueueInv, [Next]_vars PROVE QueueInv'
  OBVIOUS
<1>1. CASE UNCHANGED <<queue, stage>>
  BY <1>1 DEF QueueInv, Distinct, Queued, InLine, Holds
<1>2. ASSUME NEW c \in Clients, Arrive(c) PROVE QueueInv'
  <2>1. c \notin Queued
    BY <1>2 DEF Arrive, QueueInv, InLine
  <2>2. /\ Distinct' /\ Queued' = Queued \cup {c}
        /\ \A d \in Clients : Holds(d) => Holds(d)'
    BY <1>2, <2>1, AppendFacts DEF Arrive, TypeInv, TypeOK, QueueInv
  <2>3. \A d \in Clients : stage'[d] = IF d = c THEN "queued" ELSE stage[d]
    BY <1>2 DEF Arrive, TypeInv, TypeOK
  <2>4. InLine' = InLine \cup {c}
    BY <2>3 DEF InLine
  <2> QED
    BY <2>2, <2>3, <2>4 DEF QueueInv
<1>3. ASSUME NEW c \in Clients, Hit(c) \/ FetchEnds(c) PROVE QueueInv'
  BY <1>3, LeaveLine DEF Hit, FetchEnds
<1>4. ASSUME NEW c \in Clients, FetchFails(c) \/ Disconnect(c) PROVE QueueInv'
  BY <1>4, LeaveLine DEF FetchFails, Disconnect
<1>5. ASSUME NEW c \in Clients, Miss(c) PROVE QueueInv'
  <2>1. \A d \in Clients : stage'[d] = IF d = c THEN "fetching" ELSE stage[d]
    BY <1>5 DEF Miss, TypeInv, TypeOK
  <2>2. queue' = queue /\ Holds(c) /\ stage[c] = "queued"
    BY <1>5 DEF Miss
  <2>3. InLine' = InLine
    BY <2>1, <2>2 DEF InLine
  <2> QED
    BY <2>1, <2>2, <2>3 DEF QueueInv, Distinct, Queued, Holds
<1>6. ASSUME NEW c \in Clients, Reply(c) \/ NotModified(c) PROVE QueueInv'
  <2>1. queue' = queue /\ stage' = [stage EXCEPT ![c] = "out"] /\ stage[c] = "replying"
    BY <1>6 DEF Reply, NotModified, Done
  <2>2. \A d \in Clients : stage'[d] = IF d = c THEN "out" ELSE stage[d]
    BY <2>1 DEF TypeInv, TypeOK
  <2>3. InLine' = InLine
    BY <2>1, <2>2 DEF InLine
  <2> QED
    BY <2>1, <2>2, <2>3 DEF QueueInv, Distinct, Queued, Holds
<1> QED
  BY <1>1, <1>2, <1>3, <1>4, <1>5, <1>6 DEF Next, Progress, Tick, HorizonReads, vars

(* Two requests never call Horizon at the same time: both would be the head
   of the mutex's queue. *)
THEOREM OneCall == Spec => []SingleFlight
<1>1. Spec => []QueueInv
  BY QueueInit, QueueStep, TypeInvariant, PTL DEF Spec
<1>2. QueueInv => SingleFlight
  BY DEF QueueInv, SingleFlight, Holds
<1> QED
  BY <1>1, <1>2, PTL

-----------------------------------------------------------------------------
(* The age of statistics. *)

(* A call under way began within the timeout, after what is cached had grown
   old; its answer is not older than what is cached, nor than what Horizon
   had when it began. Nobody else has an answer. *)
FlightInv == \A c \in Clients :
    /\ stage[c] # "fetching" => answer[c] = None
    /\ stage[c] = "fetching" =>
        /\ begun[c] \in 0..now /\ now <= begun[c] + FetchTimeout
        /\ cache.value # None => begun[c] > cache.at + Ttl
        /\ answer[c] # None =>
            /\ answer[c] \in published
            /\ cache.value <= answer[c]
            /\ \A p \in published : p <= begun[c] => p <= answer[c]

(* What is cached, and what a request got, is no older than the timeout, or
   the TTL and the timeout, at the time it was cached or got. *)
AgeInv ==
    /\ cache.value \in published \cup {None}
    /\ cache.at <= now
    /\ \A p \in published :
        cache.value # None /\ p + FetchTimeout <= cache.at => p <= cache.value
    /\ \A c \in Clients : stage[c] = "replying" =>
        /\ readAt[c] <= now
        /\ \A p \in published : p + Ttl + FetchTimeout <= readAt[c] => p <= payload[c]

LEMMA AgeInit == Init => FlightInv /\ AgeInv
  BY SMT DEF Init, FlightInv, AgeInv, Empty, None

(* The integers the arguments are about. *)
LEMMA Numbers ==
    ASSUME TypeInv
    PROVE  /\ now \in Nat /\ Ttl \in Nat /\ FetchTimeout \in Nat
           /\ published \subseteq 0..now
           /\ cache.value \in Int /\ cache.at \in Int
           /\ \A c \in Clients : /\ begun[c] \in Int /\ answer[c] \in Int
                                /\ payload[c] \in Int /\ readAt[c] \in Int
<1>1. {None} \cup Times \subseteq Int /\ Times \subseteq Nat
  BY SMT DEF Times, None
<1> QED
  BY <1>1, TimeAssumption DEF TypeInv, TypeOK

(* While c has the call, only c can end one. *)
LEMMA OthersKeepCache ==
    ASSUME QueueInv, NEW c \in Clients, stage[c] = "fetching",
           NEW d \in Clients, FetchEnds(d)
    PROVE  d = c
  BY DEF QueueInv, Holds, FetchEnds

LEMMA FlightStep ==
    TypeInv /\ QueueInv /\ AgeInv /\ FlightInv /\ [Next]_vars => FlightInv'
<1> SUFFICES ASSUME TypeInv, QueueInv, AgeInv, FlightInv, [Next]_vars PROVE FlightInv'
  OBVIOUS
<1>1. CASE UNCHANGED <<now, published, stage, begun, answer, cache>>
  BY <1>1 DEF FlightInv
<1>2. CASE Tick
  <2>1. /\ now' = now + 1 /\ published' \in {published, published \cup {now + 1}}
        /\ UNCHANGED <<stage, begun, answer, cache>>
    BY <1>2 DEF Tick, request
  <2> SUFFICES ASSUME NEW c \in Clients, stage[c] = "fetching"
               PROVE  /\ begun[c] \in 0..now' /\ now' <= begun[c] + FetchTimeout
                      /\ answer[c] # None =>
                            /\ answer[c] \in published'
                            /\ \A p \in published' : p <= begun[c] => p <= answer[c]
    BY <2>1 DEF FlightInv
  <2>2. begun[c] \in 0..now /\ now < begun[c] + FetchTimeout
    BY <1>2 DEF Tick, FlightInv
  <2>3. \A p \in published' : p <= begun[c] => p \in published
    BY <2>1, <2>2, Numbers, SMT
  <2> QED
    BY <2>1, <2>2, <2>3, Numbers, SMT DEF FlightInv
<1>3. ASSUME NEW d \in Clients, Miss(d) PROVE FlightInv'
  <2>1. /\ UNCHANGED <<now, published, answer, cache>>
        /\ \A c \in Clients : stage'[c] = IF c = d THEN "fetching" ELSE stage[c]
        /\ \A c \in Clients : begun'[c] = IF c = d THEN now ELSE begun[c]
        /\ answer[d] = None
    BY <1>3 DEF Miss, TypeInv, TypeOK, FlightInv
  <2>2. cache.value # None => now > cache.at + Ttl
    BY <1>3, Numbers, SMT DEF Miss, IsFresh
  <2>3. now \in 0..now /\ now <= now + FetchTimeout
    BY Numbers, SMT
  <2> QED
    BY <2>1, <2>2, <2>3 DEF FlightInv
<1>4. ASSUME NEW d \in Clients, HorizonReads(d) PROVE FlightInv'
  <2>1. /\ UNCHANGED <<now, published, stage, begun, cache>> /\ stage[d] = "fetching"
        /\ \A c \in Clients : answer'[c] = IF c = d THEN Newest ELSE answer[c]
    BY <1>4 DEF HorizonReads, TypeInv, TypeOK
  <2>2. Newest \in published /\ \A p \in published : p <= Newest
    BY NewestFacts
  <2>3. cache.value <= Newest
    BY <2>2, Numbers, SMT DEF AgeInv, None
  <2> QED
    BY <2>1, <2>2, <2>3 DEF FlightInv
<1>5. ASSUME NEW d \in Clients, FetchEnds(d) PROVE FlightInv'
  <2>1. /\ \A c \in Clients : stage'[c] = IF c = d THEN "replying" ELSE stage[c]
        /\ \A c \in Clients : answer'[c] = IF c = d THEN None ELSE answer[c]
    BY <1>5 DEF FetchEnds, TypeInv, TypeOK
  <2>2. \A c \in Clients : stage[c] = "fetching" => c = d
    BY <1>5, OthersKeepCache
  <2> QED
    BY <2>1, <2>2 DEF FlightInv
<1>6. ASSUME NEW d \in Clients, FetchFails(d) \/ Disconnect(d) PROVE FlightInv'
  <2>1. /\ UNCHANGED <<now, published, cache>>
        /\ \A c \in Clients : stage'[c] = IF c = d THEN "out" ELSE stage[c]
        /\ \A c \in Clients : begun'[c] = IF c = d THEN None ELSE begun[c]
        /\ \A c \in Clients : answer'[c] = IF c = d THEN None ELSE answer[c]
    BY <1>6 DEF FetchFails, Disconnect, TypeInv, TypeOK
  <2> QED
    BY <2>1 DEF FlightInv
<1>7. ASSUME NEW d \in Clients, Arrive(d) \/ Hit(d) \/ Reply(d) \/ NotModified(d)
      PROVE  FlightInv'
  <2>1. /\ UNCHANGED <<now, published, begun, answer, cache>>
        /\ stage[d] # "fetching"
        /\ \A c \in Clients : c # d => stage'[c] = stage[c]
        /\ stage'[d] # "fetching"
    BY <1>7 DEF Arrive, Hit, Reply, NotModified, Done, request, TypeInv, TypeOK
  <2> QED
    BY <2>1 DEF FlightInv
<1> QED
  BY <1>1, <1>2, <1>3, <1>4, <1>5, <1>6, <1>7 DEF Next, Progress, vars, request

LEMMA AgeStep ==
    TypeInv /\ FlightInv /\ AgeInv /\ [Next]_vars => AgeInv'
<1> SUFFICES ASSUME TypeInv, FlightInv, AgeInv, [Next]_vars PROVE AgeInv'
  OBVIOUS
<1>1. CASE UNCHANGED vars
  BY <1>1 DEF AgeInv, vars, request
<1>2. CASE Tick
  <2>1. /\ now' = now + 1 /\ published' \in {published, published \cup {now + 1}}
        /\ UNCHANGED <<stage, cache, payload, readAt>>
    BY <1>2 DEF Tick, request
  <2>2. \A p \in published' : p <= now => p \in published
    BY <2>1, Numbers, SMT
  <2>3. \A p \in published' : p + FetchTimeout <= cache.at => p \in published
    BY <2>1, <2>2, Numbers, SMT DEF AgeInv
  <2>4. \A c \in Clients : stage[c] = "replying" =>
            /\ readAt[c] <= now'
            /\ \A p \in published' : p + Ttl + FetchTimeout <= readAt[c] => p \in published
    BY <2>1, <2>2, Numbers, SMT DEF AgeInv
  <2>5. cache.at <= now' /\ cache.value \in published' \cup {None}
    BY <2>1, Numbers, SMT DEF AgeInv
  <2> QED
    BY <2>1, <2>3, <2>4, <2>5 DEF AgeInv
<1>3. ASSUME NEW d \in Clients, Hit(d) PROVE AgeInv'
  <2>1. /\ UNCHANGED <<now, published, cache>>
        /\ \A c \in Clients : stage'[c] = IF c = d THEN "replying" ELSE stage[c]
        /\ \A c \in Clients : payload'[c] = IF c = d THEN cache.value ELSE payload[c]
        /\ \A c \in Clients : readAt'[c] = IF c = d THEN now ELSE readAt[c]
        /\ cache.value # None /\ now - cache.at <= Ttl
    BY <1>3 DEF Hit, IsFresh, TypeInv, TypeOK
  <2>2. now <= now /\ \A p \in published : p + Ttl + FetchTimeout <= now => p <= cache.value
    BY <2>1, Numbers, SMT DEF AgeInv
  <2> QED
    BY <2>1, <2>2 DEF AgeInv
<1>4. ASSUME NEW d \in Clients, FetchEnds(d) PROVE AgeInv'
  <2>1. /\ UNCHANGED <<now, published>> /\ cache' = [value |-> answer[d], at |-> now]
        /\ \A c \in Clients : stage'[c] = IF c = d THEN "replying" ELSE stage[c]
        /\ \A c \in Clients : payload'[c] = IF c = d THEN answer[d] ELSE payload[c]
        /\ \A c \in Clients : readAt'[c] = IF c = d THEN now ELSE readAt[c]
    BY <1>4 DEF FetchEnds, TypeInv, TypeOK
  <2>2. /\ answer[d] \in published /\ now <= begun[d] + FetchTimeout
        /\ \A p \in published : p <= begun[d] => p <= answer[d]
    BY <1>4 DEF FetchEnds, FlightInv
  <2>3. /\ now <= now
        /\ \A p \in published : p + FetchTimeout <= now => p <= answer[d]
        /\ \A p \in published : p + Ttl + FetchTimeout <= now => p <= answer[d]
    BY <2>2, Numbers, SMT
  <2> QED
    BY <2>1, <2>2, <2>3 DEF AgeInv
<1>5. ASSUME NEW d \in Clients,
             \/ Arrive(d) \/ Miss(d) \/ HorizonReads(d) \/ FetchFails(d)
             \/ Reply(d) \/ NotModified(d) \/ Disconnect(d)
      PROVE  AgeInv'
  <2>1. /\ UNCHANGED <<now, published, cache>>
        /\ \A c \in Clients : stage'[c] = "replying" =>
                stage[c] = "replying" /\ payload'[c] = payload[c] /\ readAt'[c] = readAt[c]
    BY <1>5 DEF Arrive, Miss, HorizonReads, FetchFails, Reply, NotModified, Disconnect,
                Done, request, TypeInv, TypeOK
  <2> QED
    BY <2>1 DEF AgeInv
<1> QED
  BY <1>1, <1>2, <1>3, <1>4, <1>5 DEF Next, Progress

LEMMA Invariants == Spec => [](TypeInv /\ QueueInv /\ FlightInv /\ AgeInv)
<1>1. Init => TypeInv /\ QueueInv /\ FlightInv /\ AgeInv
  BY TypeInit, QueueInit, AgeInit
<1>2. TypeInv /\ QueueInv /\ FlightInv /\ AgeInv /\ [Next]_vars
        => TypeInv' /\ QueueInv' /\ FlightInv' /\ AgeInv'
  BY TypeStep, QueueStep, FlightStep, AgeStep
<1> QED
  BY <1>1, <1>2, PTL DEF Spec

(* What a request got misses nothing Horizon had published a TTL and a timeout
   before. *)
THEOREM FreshEnough == Spec => []ServedFresh
<1>1. AgeInv => ServedFresh
  BY DEF AgeInv, ServedFresh
<1> QED
  BY <1>1, Invariants, PTL

(* The cache never goes back to older statistics. *)
THEOREM CacheMovesOn == Spec => NeverOlder
<1>1. TypeInv /\ FlightInv /\ [Next]_vars => [cache'.value >= cache.value]_vars
  <2> SUFFICES ASSUME TypeInv, FlightInv, [Next]_vars PROVE cache'.value >= cache.value
    OBVIOUS
  <2>1. CASE cache' = cache
    BY <2>1, Numbers, SMT
  <2>2. ASSUME NEW c \in Clients, FetchEnds(c) PROVE cache'.value >= cache.value
    <3>1. cache'.value = answer[c] /\ cache.value <= answer[c]
      BY <2>2 DEF FetchEnds, FlightInv
    <3> QED
      BY <3>1, Numbers, SMT
  <2> QED
    BY <2>1, <2>2 DEF Next, Progress, Tick, Arrive, Hit, Miss, HorizonReads, FetchFails,
                      Reply, NotModified, Done, Disconnect, vars
<1> QED
  BY <1>1, Invariants, PTL DEF Spec, NeverOlder

(* Two payloads enter the cache more than a TTL apart. *)
THEOREM OnePerTtl == Spec => OneFetchPerTtl
<1>1. TypeInv /\ FlightInv /\ [Next]_vars
        => [cache' # cache /\ cache.value # None => cache'.at > cache.at + Ttl]_vars
  <2> SUFFICES ASSUME TypeInv, FlightInv, [Next]_vars, cache' # cache, cache.value # None
               PROVE  cache'.at > cache.at + Ttl
    OBVIOUS
  <2>1. PICK c \in Clients : FetchEnds(c)
    BY DEF Next, Progress, Tick, Arrive, Hit, Miss, HorizonReads, FetchFails,
           Reply, NotModified, Done, Disconnect, vars
  <2>2. cache'.at = now /\ begun[c] > cache.at + Ttl /\ begun[c] \in 0..now
    BY <2>1 DEF FetchEnds, FlightInv
  <2> QED
    BY <2>2, Numbers, SMT
<1> QED
  BY <1>1, Invariants, PTL DEF Spec, OneFetchPerTtl
=============================================================================
