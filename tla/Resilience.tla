------------------------------ MODULE Resilience ------------------------------
(***************************************************************************)
(* The devkit's circuit breaker (resilience/circuit_breaker.rs) and        *)
(* bulkhead (resilience/bulkhead.rs), used together: a caller asks the     *)
(* breaker, takes a permit of the bulkhead, runs its operation and records *)
(* the outcome. The breaker's methods take &mut self and are atomic; a     *)
(* step of the bulkhead is one atomic operation on one of its counters.    *)
(***************************************************************************)
EXTENDS Integers, FiniteSets

CONSTANTS
    Callers,            \* threads
    Capacity,           \* max_concurrent of the bulkhead
    FailureThreshold, SuccessThreshold, Cooldown,   \* the breaker's configuration
    MaxCalls,           \* bound: calls
    MaxTime             \* bound: the clock stops here

ASSUME ResilienceAssumption ==
    /\ IsFiniteSet(Callers)
    /\ Capacity \in Nat \ {0}   \* Bulkhead::new refuses 0
    /\ FailureThreshold \in Nat \ {0} /\ SuccessThreshold \in Nat \ {0}     \* new clamps both
    /\ Cooldown \in Nat /\ MaxCalls \in Nat /\ MaxTime \in Nat

VARIABLES
    now,        \* the clock
    state,      \* the breaker: Closed, Open or HalfOpen
    failures, successes,    \* consecutive_failures, consecutive_successes
    openedAt,   \* opened_at, or Never
    lastAt,     \* last_transition: its time, or Never
    blocked,    \* rejected_calls
    inFlight,   \* permits out
    admitted, rejected,     \* the bulkhead's counts of calls
    peak,       \* peak_in_flight
    call,       \* call[c]: where caller c is
    highest     \* history: the most permits ever out

breaker == <<state, failures, successes, openedAt, lastAt, blocked>>
bulkhead == <<inFlight, admitted, rejected, peak>>
resilienceVars == <<now, breaker, bulkhead, call, highest>>

Never == -1
Stages == {"idle", "load", "try", "won", "counted", "permit", "running"}
Idle == [at |-> "idle", seen |-> 0, execute |-> FALSE]

At(c, stage) == call' = [call EXCEPT ![c].at = stage]

-----------------------------------------------------------------------------
(* The circuit breaker. *)

CooldownElapsed == openedAt = Never \/ now - openedAt >= Cooldown

TransitionTo(s) == state' = s /\ lastAt' = now

(* is_call_permitted_at says yes: a cooled-down breaker goes half-open. *)
Permit ==
    \/ state \in {"Closed", "HalfOpen"} /\ UNCHANGED breaker
    \/ /\ state = "Open" /\ CooldownElapsed
       /\ TransitionTo("HalfOpen")
       /\ UNCHANGED <<failures, successes, openedAt, blocked>>

(* It says no. *)
Refuse ==
    /\ state = "Open" /\ ~CooldownElapsed
    /\ blocked' = blocked + 1
    /\ UNCHANGED <<state, failures, successes, openedAt, lastAt>>

RecordSuccess ==
    \/ state = "Open" /\ UNCHANGED breaker
    \/ /\ state = "Closed"
       /\ failures' = 0
       /\ UNCHANGED <<state, successes, openedAt, lastAt, blocked>>
    \/ /\ state = "HalfOpen" /\ successes + 1 < SuccessThreshold
       /\ successes' = successes + 1
       /\ UNCHANGED <<state, failures, openedAt, lastAt, blocked>>
    \/ /\ state = "HalfOpen" /\ successes + 1 >= SuccessThreshold
       /\ failures' = 0 /\ successes' = 0 /\ openedAt' = Never
       /\ TransitionTo("Closed")
       /\ UNCHANGED blocked

ShouldOpen == state = "HalfOpen" \/ failures + 1 >= FailureThreshold

(* Faulty: a failure that comes late starts the cooldown of an open breaker again. *)
RecordFailureExtending ==
    \/ state = "Open" /\ openedAt' = now /\ UNCHANGED <<state, failures, successes, lastAt, blocked>>
    \/ /\ state # "Open" /\ ~ShouldOpen
       /\ failures' = failures + 1 /\ successes' = 0
       /\ UNCHANGED <<state, openedAt, lastAt, blocked>>
    \/ /\ state # "Open" /\ ShouldOpen
       /\ failures' = failures + 1 /\ successes' = 0 /\ openedAt' = now
       /\ TransitionTo("Open")
       /\ UNCHANGED blocked

RecordFailure ==
    \/ state = "Open" /\ UNCHANGED breaker
    \/ /\ state # "Open" /\ ~ShouldOpen
       /\ failures' = failures + 1 /\ successes' = 0
       /\ UNCHANGED <<state, openedAt, lastAt, blocked>>
    \/ /\ state # "Open" /\ ShouldOpen
       /\ failures' = failures + 1 /\ successes' = 0 /\ openedAt' = now
       /\ TransitionTo("Open")
       /\ UNCHANGED blocked

ForceOpen ==
    /\ openedAt' = now /\ failures' = FailureThreshold /\ successes' = 0
    /\ TransitionTo("Open")
    /\ UNCHANGED <<now, blocked, bulkhead, call, highest>>

Reset ==
    /\ state' = "Closed" /\ failures' = 0 /\ successes' = 0
    /\ openedAt' = Never /\ lastAt' = Never
    /\ UNCHANGED <<now, blocked, bulkhead, call, highest>>

-----------------------------------------------------------------------------
(* A call. *)

(* Bound: the calls so far. *)
Started == blocked + admitted + rejected + Cardinality({c \in Callers : call[c].at \in {"load", "try", "won"}})

(* The breaker lets the call pass; `execute` says how it will use the bulkhead. *)
Ask(c) ==
    /\ call[c].at = "idle" /\ Started < MaxCalls
    /\ Permit
    /\ \E execute \in BOOLEAN :
          call' = [call EXCEPT ![c] = [at |-> "load", seen |-> 0, execute |-> execute]]
    /\ UNCHANGED <<now, bulkhead, highest>>

(* Without the breaker's leave the caller gives up. *)
TurnAway(c) ==
    /\ call[c].at = "idle" /\ Started < MaxCalls
    /\ Refuse
    /\ UNCHANGED <<now, bulkhead, call, highest>>

(* try_acquire reads in_flight. *)
Load(c) ==
    /\ call[c].at = "load"
    /\ call' = [call EXCEPT ![c] = [@ EXCEPT !.at = "try", !.seen = inFlight]]
    /\ UNCHANGED <<now, breaker, bulkhead, highest>>

Saturated(c) ==
    /\ call[c].at = "try" /\ call[c].seen >= Capacity
    /\ rejected' = rejected + 1
    /\ call' = [call EXCEPT ![c] = Idle]
    /\ UNCHANGED <<now, breaker, inFlight, admitted, peak, highest>>

(* Faulty: a store of what was read instead of a compare-and-exchange. *)
Store(c) ==
    /\ call[c].at = "try" /\ call[c].seen < Capacity
    /\ inFlight' = call[c].seen + 1
    /\ highest' = IF inFlight' > highest THEN inFlight' ELSE highest
    /\ At(c, "won")
    /\ UNCHANGED <<now, breaker, admitted, rejected, peak>>

(* The compare-and-exchange succeeds. *)
Win(c) ==
    /\ call[c].at = "try" /\ call[c].seen < Capacity
    /\ inFlight = call[c].seen
    /\ inFlight' = call[c].seen + 1
    /\ highest' = IF inFlight' > highest THEN inFlight' ELSE highest
    /\ At(c, "won")
    /\ UNCHANGED <<now, breaker, admitted, rejected, peak>>

(* It fails and takes the value it observed; a spurious failure changes nothing. *)
Lose(c) ==
    /\ call[c].at = "try" /\ call[c].seen < Capacity
    /\ inFlight # call[c].seen
    /\ call' = [call EXCEPT ![c] = [@ EXCEPT !.at = "try", !.seen = inFlight]]
    /\ UNCHANGED <<now, breaker, bulkhead, highest>>

Count(c) ==
    /\ call[c].at = "won"
    /\ admitted' = admitted + 1
    /\ At(c, "counted")
    /\ UNCHANGED <<now, breaker, inFlight, rejected, peak, highest>>

(* fetch_max of what the exchange wrote; try_acquire returns a permit. *)
RaisePeak(c) ==
    /\ call[c].at = "counted"
    /\ peak' = IF call[c].seen + 1 > peak THEN call[c].seen + 1 ELSE peak
    /\ At(c, "permit")
    /\ UNCHANGED <<now, breaker, inFlight, admitted, rejected, highest>>

(* Faulty: the permit of execute is dropped twice. *)
ExecuteAndKeep(c) ==
    /\ call[c].at = "permit" /\ call[c].execute
    /\ inFlight' = inFlight - 1
    /\ call' = [call EXCEPT ![c].execute = FALSE]
    /\ UNCHANGED <<now, breaker, admitted, rejected, peak, highest>>

(* execute drops its permit, then runs the operation. *)
Execute(c) ==
    /\ call[c].at = "permit" /\ call[c].execute
    /\ inFlight' = inFlight - 1
    /\ At(c, "running")
    /\ UNCHANGED <<now, breaker, admitted, rejected, peak, highest>>

(* A caller with a permit of its own runs its operation under it. *)
Release(c) ==
    /\ call[c].at = "permit" /\ ~call[c].execute
    /\ inFlight' = inFlight - 1
    /\ At(c, "running")
    /\ UNCHANGED <<now, breaker, admitted, rejected, peak, highest>>

(* The outcome is recorded, whatever the breaker has become since it was asked. *)
Succeed(c) ==
    /\ call[c].at = "running"
    /\ RecordSuccess
    /\ call' = [call EXCEPT ![c] = Idle]
    /\ UNCHANGED <<now, bulkhead, highest>>

Fail(c) ==
    /\ call[c].at = "running"
    /\ RecordFailure
    /\ call' = [call EXCEPT ![c] = Idle]
    /\ UNCHANGED <<now, bulkhead, highest>>

Tick ==
    /\ now < MaxTime
    /\ now' = now + 1
    /\ UNCHANGED <<breaker, bulkhead, call, highest>>

ResilienceInit ==
    /\ now = 0
    /\ state = "Closed" /\ failures = 0 /\ successes = 0 /\ openedAt = Never /\ lastAt = Never
    /\ blocked = 0
    /\ inFlight = 0 /\ admitted = 0 /\ rejected = 0 /\ peak = 0
    /\ call = [c \in Callers |-> Idle]
    /\ highest = 0

Step(c) ==
    \/ Ask(c) \/ TurnAway(c) \/ Load(c) \/ Saturated(c) \/ Win(c) \/ Lose(c)
    \/ Count(c) \/ RaisePeak(c) \/ Execute(c) \/ Release(c)
    \/ Succeed(c) \/ Fail(c)

ResilienceNext == (\E c \in Callers : Step(c)) \/ ForceOpen \/ Reset \/ Tick

ResilienceSpec == ResilienceInit /\ [][ResilienceNext]_resilienceVars

-----------------------------------------------------------------------------
(* Properties. *)

(* Type invariant: every counter keeps its range; a permit given back twice   *)
(* would take in_flight below zero (in the code: round to usize::MAX).        *)
ResilienceTypeOK ==
    /\ now \in Nat
    /\ state \in {"Closed", "Open", "HalfOpen"}
    /\ failures \in Nat /\ successes \in Nat
    /\ openedAt \in Nat \cup {Never} /\ lastAt \in Nat \cup {Never}
    /\ blocked \in Nat /\ inFlight \in Nat /\ admitted \in Nat /\ rejected \in Nat
    /\ peak \in Nat /\ highest \in Nat
    /\ call \in [Callers -> [at : Stages, seen : Nat, execute : BOOLEAN]]

(* Callers between their exchange and the end of their permit. *)
Holders == {c \in Callers : call[c].at \in {"won", "counted", "permit"}}

(* The bulkhead, whose callers interleave between the atomic operations of    *)
(* try_acquire: in_flight is the number of permits out and within capacity,   *)
(* peak_in_flight never claims more than was ever out, and it lags behind     *)
(* only while somebody is between the exchange and fetch_max.                 *)
BulkheadSound ==
    /\ inFlight = Cardinality(Holders)
    /\ inFlight <= highest /\ highest <= Capacity
    /\ peak <= highest
    /\ (\A c \in Callers : call[c].at \notin {"won", "counted"}) => peak = highest

(* The breaker, whose outcomes are recorded by callers it let pass in another *)
(* state: closed it is below its threshold and remembers no opening, open it  *)
(* is open since its last transition, and it lets nothing pass (goes          *)
(* half-open) before the whole cooldown since that opening.                   *)
BreakerSound ==
    /\ state = "Closed" =>
          openedAt = Never /\ successes = 0 /\ failures < FailureThreshold
    /\ state = "Open" =>
          openedAt # Never /\ openedAt = lastAt /\ openedAt <= now /\ successes = 0
    /\ state = "HalfOpen" =>
          /\ successes < SuccessThreshold
          /\ openedAt # Never /\ openedAt + Cooldown <= lastAt /\ lastAt <= now
=============================================================================
