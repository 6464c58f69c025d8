----------------------------- MODULE CurrentFees -----------------------------
(***************************************************************************)
(* GET /fees/current: the handler current_fees of api/fees.rs and the      *)
(* ResponseCache of cache.rs it shares with every other request. A request *)
(* holds the cache's mutex from the freshness check to the cache write,    *)
(* across the call to Horizon.                                             *)
(*                                                                         *)
(* Time is a number. Fee statistics are named by the time Horizon          *)
(* published them, so a newer payload is a larger number.                  *)
(***************************************************************************)
EXTENDS Integers, Sequences

CONSTANTS
    Clients,        \* who asks, one request at a time
    Ttl,            \* CACHE_TTL_SECONDS
    FetchTimeout,   \* the HTTP client gives up after this long (10 s)
    MaxTime         \* bound: the clock stops here

ASSUME TimeAssumption ==
    Ttl \in Nat /\ FetchTimeout \in Nat /\ MaxTime \in Nat

None == -1
Times == 0..MaxTime

VARIABLES
    now,        \* the clock
    published,  \* when Horizon published fee statistics
    stage,      \* stage[c]: where the request of c is
    queue,      \* requests at fee_cache's mutex, first come first served; the
                \* head holds it
    begun,      \* begun[c]: when the request of c called Horizon
    answer,     \* answer[c]: what Horizon read for it, not yet received
    cache,      \* ResponseCache: value and cached_at
    payload,    \* payload[c]: what the request of c will send
    readAt,     \* readAt[c]: when it got its payload
    copy        \* copy[c]: what c has, named by its ETag

vars == <<now, published, stage, queue, begun, answer, cache, payload, readAt, copy>>

request == <<begun, answer, payload, readAt>>

Stages == {"out", "queued", "fetching", "replying"}

Empty == [value |-> None, at |-> None]

Newest == CHOOSE p \in published : \A q \in published : q <= p

IsFreshByAge == now - cache.at <= Ttl       \* faulty: an empty cache has an age
IsFresh == cache.value # None /\ now - cache.at <= Ttl

(* A tokio mutex wakes its waiters in order. *)
HoldsAnyway(c) == c \in {queue[i] : i \in 1..Len(queue)}    \* faulty: no mutex
Holds(c) == queue # <<>> /\ Head(queue) = c

(* The guard is dropped, or the waiter leaves the mutex's queue. *)
Leave(c) ==
    IF \A i \in 1..Len(queue) : queue[i] # c THEN queue
    ELSE LET i == CHOOSE i \in 1..Len(queue) : queue[i] = c
         IN  [j \in 1..(Len(queue) - 1) |-> IF j < i THEN queue[j] ELSE queue[j + 1]]

Init ==
    /\ now = 0 /\ published = {0}
    /\ stage = [c \in Clients |-> "out"] /\ queue = <<>>
    /\ begun = [c \in Clients |-> None] /\ answer = [c \in Clients |-> None]
    /\ cache = Empty
    /\ payload = [c \in Clients |-> None] /\ readAt = [c \in Clients |-> None]
    /\ copy = [c \in Clients |-> None]

-----------------------------------------------------------------------------
(* The world: a request in flight to Horizon does not outlive the timeout. *)

Tick ==
    /\ now < MaxTime
    /\ \A c \in Clients : stage[c] = "fetching" => now < begun[c] + FetchTimeout
    /\ now' = now + 1
    /\ published' \in {published, published \cup {now + 1}}
    /\ UNCHANGED <<stage, queue, request, cache, copy>>

-----------------------------------------------------------------------------
(* The handler. *)

Arrive(c) ==
    /\ stage[c] = "out"
    /\ stage' = [stage EXCEPT ![c] = "queued"]
    /\ queue' = Append(queue, c)
    /\ UNCHANGED <<now, published, request, cache, copy>>

(* Faulty: answers what is cached, fresh or not. *)
HitStale(c) ==
    /\ stage[c] = "queued" /\ Holds(c) /\ cache.value # None
    /\ payload' = [payload EXCEPT ![c] = cache.value]
    /\ readAt' = [readAt EXCEPT ![c] = now]
    /\ stage' = [stage EXCEPT ![c] = "replying"]
    /\ queue' = Leave(c)
    /\ UNCHANGED <<now, published, begun, answer, cache, copy>>

(* The lock is granted and the cache is fresh. *)
Hit(c) ==
    /\ stage[c] = "queued" /\ Holds(c) /\ IsFresh
    /\ payload' = [payload EXCEPT ![c] = cache.value]
    /\ readAt' = [readAt EXCEPT ![c] = now]
    /\ stage' = [stage EXCEPT ![c] = "replying"]
    /\ queue' = Leave(c)
    /\ UNCHANGED <<now, published, begun, answer, cache, copy>>

(* The lock is granted and the cache is not fresh: Horizon is called with the
   lock held. *)
Miss(c) ==
    /\ stage[c] = "queued" /\ Holds(c) /\ ~IsFresh
    /\ stage' = [stage EXCEPT ![c] = "fetching"]
    /\ begun' = [begun EXCEPT ![c] = now]
    /\ UNCHANGED <<now, published, queue, answer, cache, payload, readAt, copy>>

(* Horizon reads its statistics at some moment of the call. *)
HorizonReads(c) ==
    /\ stage[c] = "fetching" /\ answer[c] = None
    /\ answer' = [answer EXCEPT ![c] = Newest]
    /\ UNCHANGED <<now, published, stage, queue, begun, cache, payload, readAt, copy>>

(* The answer arrives, is cached with the time of its arrival, and the lock is
   dropped. *)
FetchEnds(c) ==
    /\ stage[c] = "fetching" /\ answer[c] # None
    /\ cache' = [value |-> answer[c], at |-> now]
    /\ payload' = [payload EXCEPT ![c] = answer[c]]
    /\ readAt' = [readAt EXCEPT ![c] = now]
    /\ stage' = [stage EXCEPT ![c] = "replying"]
    /\ queue' = Leave(c)
    /\ begun' = [begun EXCEPT ![c] = None] /\ answer' = [answer EXCEPT ![c] = None]
    /\ UNCHANGED <<now, published, copy>>

(* Faulty: an error returns with the guard kept. *)
FetchFailsLocked(c) ==
    /\ stage[c] = "fetching"
    /\ stage' = [stage EXCEPT ![c] = "out"]
    /\ begun' = [begun EXCEPT ![c] = None] /\ answer' = [answer EXCEPT ![c] = None]
    /\ UNCHANGED <<now, published, queue, cache, payload, readAt, copy>>

(* The call fails or times out: the error drops the lock and the cache stays
   as it was, so the next request in the queue calls Horizon again. *)
FetchFails(c) ==
    /\ stage[c] = "fetching"
    /\ stage' = [stage EXCEPT ![c] = "out"]
    /\ queue' = Leave(c)
    /\ begun' = [begun EXCEPT ![c] = None] /\ answer' = [answer EXCEPT ![c] = None]
    /\ UNCHANGED <<now, published, cache, payload, readAt, copy>>

Done(c) ==
    /\ stage' = [stage EXCEPT ![c] = "out"]
    /\ payload' = [payload EXCEPT ![c] = None] /\ readAt' = [readAt EXCEPT ![c] = None]
    /\ UNCHANGED <<now, published, queue, begun, answer, cache>>

(* If-None-Match names another payload: 200 with the payload and its ETag. *)
Reply(c) ==
    /\ stage[c] = "replying" /\ copy[c] # payload[c]
    /\ copy' = [copy EXCEPT ![c] = payload[c]]
    /\ Done(c)

(* 304: the client keeps what it has. *)
NotModified(c) ==
    /\ stage[c] = "replying" /\ copy[c] = payload[c]
    /\ UNCHANGED copy
    /\ Done(c)

(* The client goes away: the handler is dropped at its await, with the guard
   it holds. *)
Disconnect(c) ==
    /\ stage[c] # "out"
    /\ stage' = [stage EXCEPT ![c] = "out"]
    /\ queue' = Leave(c)
    /\ begun' = [begun EXCEPT ![c] = None] /\ answer' = [answer EXCEPT ![c] = None]
    /\ payload' = [payload EXCEPT ![c] = None] /\ readAt' = [readAt EXCEPT ![c] = None]
    /\ UNCHANGED <<now, published, cache, copy>>

-----------------------------------------------------------------------------
Progress(c) ==
    Hit(c) \/ Miss(c) \/ FetchEnds(c) \/ FetchFails(c) \/ Reply(c) \/ NotModified(c)

Next ==
    \/ Tick
    \/ \E c \in Clients :
        Arrive(c) \/ Progress(c) \/ HorizonReads(c) \/ Disconnect(c)

(* The handler's own steps are taken: the mutex is handed on, and a call ends
   because the HTTP client has a timeout. *)
Fairness == \A c \in Clients : WF_vars(Progress(c))

Spec == Init /\ [][Next]_vars /\ Fairness

-----------------------------------------------------------------------------
(* Properties. *)

(* Every variable has its type, and a reply has a payload (current_fees: "a
   fresh cache with no payload should be impossible"). *)
TypeOK ==
    /\ now \in Times
    /\ published \subseteq 0..now /\ 0 \in published
    /\ stage \in [Clients -> Stages]
    /\ queue \in Seq(Clients)
    /\ begun \in [Clients -> {None} \cup Times]
    /\ answer \in [Clients -> {None} \cup Times]
    /\ cache \in [value : {None} \cup Times, at : {None} \cup Times]
    /\ payload \in [Clients -> {None} \cup Times]
    /\ \A c \in Clients : stage[c] = "replying" => payload[c] # None
    /\ readAt \in [Clients -> {None} \cup Times]
    /\ copy \in [Clients -> {None} \cup Times]

(* One call to Horizon at a time, however many requests find the cache stale:
   the comment in current_fees promises to prevent a thundering herd. *)
SingleFlight ==
    \A c, d \in Clients : stage[c] = "fetching" /\ stage[d] = "fetching" => c = d

(* Two payloads enter the cache more than the TTL apart: a request that waited
   behind a fetch does not fetch again. *)
OneFetchPerTtl ==
    [][cache' # cache /\ cache.value # None => cache'.at > cache.at + Ttl]_vars

(* What a request got misses nothing Horizon had published a TTL and a timeout
   earlier: the age of a payload counts from its arrival, so the time of the
   call comes on top of the TTL. *)
ServedFresh ==
    \A c \in Clients : stage[c] = "replying" =>
        \A p \in published : p + Ttl + FetchTimeout <= readAt[c] => p <= payload[c]

(* The cache never goes back to older statistics, whichever calls fail, time
   out or are abandoned. *)
NeverOlder == [][cache'.value >= cache.value]_vars

(* A request ends: with an answer, an error, or because its client left. *)
RequestEnds == \A c \in Clients : (stage[c] = "queued") ~> (stage[c] = "out")
=============================================================================
