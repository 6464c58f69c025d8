------------------------------ MODULE RateLimit ------------------------------
(***************************************************************************)
(* The rate limiter of middleware/rate_limit.rs: a token bucket per client *)
(* address in a map shared by concurrent requests, refilled by the clock,  *)
(* whose stale entries a request evicts when it finds the map large.       *)
(*                                                                         *)
(* Time is in seconds. A bucket refills Rate tokens in Period seconds; to  *)
(* keep whole numbers, a token counts Period units, so a second is worth   *)
(* Rate units and a full bucket holds Rate * Period.                       *)
(***************************************************************************)
EXTENDS Integers, FiniteSets

CONSTANTS
    Requests,   \* requests in flight
    Clients,    \* client addresses
    Rate,       \* RATE_LIMIT_PER_MINUTE, at least 1: tokens in a full bucket
    Period,     \* the minute it takes to refill an empty bucket (60)
    StaleAfter, \* evict_stale_buckets: seconds since the last refill (120)
    MapLimit,   \* entries above which a request evicts (10000)
    MaxTime     \* bound: the clock stops here

ASSUME RateAssumption ==
    /\ Rate \in Nat \ {0} /\ Period \in Nat \ {0}
    /\ StaleAfter \in Nat /\ MapLimit \in Nat /\ MaxTime \in Nat

(* An entry is evicted only after it would have been refilled. *)
ASSUME StaleAssumption == StaleAfter >= Period

VARIABLES
    now,        \* the clock
    stage,      \* stage[r]: where request r is in enforce_rate_limit
    client,     \* client[r]: the address request r came from
    known,      \* addresses that have a bucket
    tokens,     \* tokens[c]: units in the bucket of c
    refilled,   \* refilled[c]: last_refill of the bucket of c
    admitted,   \* history: admitted[c][s], requests of c let through since s
    waitUntil   \* history: when Retry-After told c to come back, or None

flow == <<stage, client>>
history == <<admitted, waitUntil>>
vars == <<now, flow, known, tokens, refilled, history>>

Times == 0..MaxTime
None == -1
Token == Period
Full == Rate * Token

Stages == {"out", "evict", "consume"}

(* Faulty: the bucket is not capped. *)
RefilledUncapped(c) == tokens[c] + (now - refilled[c]) * Rate

(* TokenBucket::refill, at the time of a request. *)
Refilled(c) ==
    LET level == tokens[c] + (now - refilled[c]) * Rate
    IN  IF level <= Full THEN level ELSE Full

(* The bucket a request finds: a new one is full. *)
InBucket(c) == IF c \in known THEN Refilled(c) ELSE Full

(* seconds_until_next_token, rounded up and at least 1. *)
RoundedDown(units) ==                               \* faulty
    LET s == (Token - units) \div Rate IN IF s < 1 THEN 1 ELSE s
RetryAfter(units) ==
    LET s == (Token - units + Rate - 1) \div Rate IN IF s < 1 THEN 1 ELSE s

(* evict_stale_buckets keeps what was refilled recently. *)
KeptNone == {}                                      \* faulty: clears the map
Kept == {c \in known : refilled[c] + StaleAfter >= now}

Init ==
    /\ now = 0 /\ known = {}
    /\ stage = [r \in Requests |-> "out"]
    /\ client \in [Requests -> Clients]
    /\ tokens = [c \in Clients |-> Full] /\ refilled = [c \in Clients |-> 0]
    /\ admitted = [c \in Clients |-> [s \in Times |-> 0]]
    /\ waitUntil = [c \in Clients |-> None]

Tick ==
    /\ now < MaxTime
    /\ now' = now + 1
    /\ UNCHANGED <<flow, known, tokens, refilled, history>>

(* A request comes in and looks at the size of the map. *)
Arrive(r) ==
    /\ stage[r] = "out"
    /\ \E c \in Clients : client' = [client EXCEPT ![r] = c]
    /\ stage' = [stage EXCEPT ![r] =
                    IF Cardinality(known) > MapLimit THEN "evict" ELSE "consume"]
    /\ UNCHANGED <<now, known, tokens, refilled, history>>

(* It evicts; others may have consumed or evicted since it looked. *)
Evict(r) ==
    /\ stage[r] = "evict"
    /\ known' = Kept
    /\ stage' = [stage EXCEPT ![r] = "consume"]
    /\ UNCHANGED <<now, client, tokens, refilled, history>>

(* try_consume, under the lock of the bucket: a bucket is made if there is
   none, refilled, and left with `units`. *)
Consume(r, units) ==
    /\ known' = known \cup {client[r]}
    /\ tokens' = [tokens EXCEPT ![client[r]] = units]
    /\ refilled' = [refilled EXCEPT ![client[r]] = now]
    /\ stage' = [stage EXCEPT ![r] = "out"]
    /\ UNCHANGED <<now, client>>

(* There is a token: the request is let through. *)
Admit(r) ==
    LET c == client[r]
    IN  /\ stage[r] = "consume" /\ InBucket(c) >= Token
        /\ Consume(r, InBucket(c) - Token)
        /\ admitted' = [admitted EXCEPT ![c] =
                            [s \in Times |-> IF s <= now THEN @[s] + 1 ELSE @[s]]]
        /\ waitUntil' = [waitUntil EXCEPT ![c] = None]

(* There is none: 429 with Retry-After. *)
Reject(r) ==
    LET c == client[r]
    IN  /\ stage[r] = "consume" /\ InBucket(c) < Token
        /\ Consume(r, InBucket(c))
        /\ waitUntil' = [waitUntil EXCEPT ![c] = now + RetryAfter(InBucket(c))]
        /\ UNCHANGED admitted

Next ==
    \/ Tick
    \/ \E r \in Requests : Arrive(r) \/ Evict(r) \/ Admit(r) \/ Reject(r)

Spec == Init /\ [][Next]_vars

-----------------------------------------------------------------------------
(* Properties. *)

(* Every variable has its type; a bucket holds between nothing and its
   capacity, and was refilled in the past (TokenBucket). *)
TypeOK ==
    /\ now \in Times
    /\ stage \in [Requests -> Stages]
    /\ client \in [Requests -> Clients]
    /\ known \subseteq Clients
    /\ tokens \in [Clients -> 0..Full]
    /\ refilled \in [Clients -> 0..now]
    /\ admitted \in [Clients -> [Times -> Nat]]
    /\ waitUntil \in [Clients -> {None} \cup Nat]

(* In any stretch of time a client gets at most a full bucket and what the
   bucket refills meanwhile, whatever is evicted in between and by whom. *)
WithinRate ==
    \A c \in Clients : \A s \in 0..now :
        admitted[c][s] * Token <= Full + (now - s) * Rate

(* A client that waits as long as Retry-After says finds a token, even if its
   bucket is evicted meanwhile. *)
RetryAfterSuffices ==
    \A c \in Clients :
        waitUntil[c] # None /\ now >= waitUntil[c] => InBucket(c) >= Token
=============================================================================
