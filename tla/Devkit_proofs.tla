----------------------------- MODULE Devkit_proofs -----------------------------
(***************************************************************************)
(* Proofs about Devkit: the bulkhead and the breaker of Resilience, for    *)
(* every number of callers, capacity, threshold and cooldown; the log of   *)
(* LogRotation, for every configuration and number of lines; the spans,    *)
(* timers and reports of Tracing; the fees, loads and fixtures of          *)
(* Simulation, for every generator; what the tools of DataQuality that     *)
(* clean leave, for every sequence of points; and the types of the whole.  *)
(* A step of the whole is a step of one part or leaves it alone.           *)
(* DataTold_proofs goes on with the meters and with the reports.           *)
(***************************************************************************)
EXTENDS Devkit, FiniteSetTheorems, WellFoundedInduction, TLAPS

LEMMA StepOfResilience == [Next]_vars => [ResilienceNext]_resilienceVars
  BY DEF Next, DevkitNext, TracingNext, vars, devkitVars

LEMMA StepOfLog == [Next]_vars => [LogNext]_logVars
  BY DEF Next, DevkitNext, TracingNext, vars, devkitVars

-----------------------------------------------------------------------------
(* The breaker and the bulkhead. The breaker's invariant is inductive as it     *)
(* stands. The bulkhead's is not: that the peak has caught up when nobody is on *)
(* the way says nothing of who it waits for while somebody is. PeakFollows says *)
(* it: the highest count is the peak, or a caller that has not raised the peak  *)
(* yet wrote it.                                                                *)

(* Callers between their exchange and their fetch_max. *)
OnTheWay(c) == call[c].at \in {"won", "counted"}

PeakFollows ==
    /\ \A c \in Callers : OnTheWay(c) => call[c].seen + 1 <= highest
    /\ peak = highest \/ \E c \in Callers : OnTheWay(c) /\ call[c].seen + 1 = highest

BulkheadInv ==
    /\ inFlight = Cardinality(Holders)
    /\ inFlight <= highest /\ highest <= Capacity
    /\ peak <= highest
    /\ PeakFollows

ResilienceInv == ResilienceTypeOK /\ BulkheadInv /\ BreakerSound

-----------------------------------------------------------------------------
(* The breaker. *)

(* What a step does to the breaker keeps its invariant, whoever takes it. *)
LEMMA BreakerStep ==
    ASSUME ResilienceTypeOK, BreakerSound, now' = now,
           Permit \/ Refuse \/ RecordSuccess \/ RecordFailure \/ UNCHANGED breaker
    PROVE  /\ BreakerSound'
           /\ state' \in {"Closed", "Open", "HalfOpen"}
           /\ failures' \in Nat /\ successes' \in Nat /\ blocked' \in Nat
           /\ openedAt' \in Nat \cup {Never} /\ lastAt' \in Nat \cup {Never}
<1> USE ResilienceAssumption DEF ResilienceTypeOK, BreakerSound, Never
<1>1. CASE Permit
  BY <1>1, SMT DEF Permit, TransitionTo, CooldownElapsed, breaker
<1>2. CASE Refuse
  BY <1>2, SMT DEF Refuse
<1>3. CASE RecordSuccess
  BY <1>3, SMT DEF RecordSuccess, TransitionTo, breaker
<1>4. CASE RecordFailure
  BY <1>4, SMT DEF RecordFailure, ShouldOpen, TransitionTo, breaker
<1>5. CASE UNCHANGED breaker
  BY <1>5, SMT DEF breaker
<1> QED
  BY <1>1, <1>2, <1>3, <1>4, <1>5

-----------------------------------------------------------------------------
(* Who holds a permit. *)

LEMMA HoldersFinite ==
    /\ IsFiniteSet(Holders)
    /\ Cardinality(Holders) \in Nat
<1>1. Holders \in SUBSET Callers
  BY DEF Holders
<1>2. IsFiniteSet(Callers)
  BY ResilienceAssumption
<1>3. IsFiniteSet(Holders)
  BY <1>1, <1>2, FS_Subset
<1> QED
  BY <1>3, FS_CardinalityType

(* One caller moves: the number of holders follows it. *)
LEMMA HoldersMove ==
    ASSUME NEW c \in Callers, NEW r, call \in [Callers -> [at : Stages, seen : Nat, execute : BOOLEAN]],
           call' = [call EXCEPT ![c] = r]
    PROVE  /\ (call[c].at \notin {"won", "counted", "permit"} /\ r.at \in {"won", "counted", "permit"})
                 => Cardinality(Holders)' = Cardinality(Holders) + 1
           /\ (call[c].at \in {"won", "counted", "permit"} /\ r.at \notin {"won", "counted", "permit"})
                 => Cardinality(Holders)' = Cardinality(Holders) - 1 /\ Cardinality(Holders) >= 1
           /\ (call[c].at \in {"won", "counted", "permit"} <=> r.at \in {"won", "counted", "permit"})
                 => Cardinality(Holders)' = Cardinality(Holders)
<1> DEFINE P == {"won", "counted", "permit"}
<1>1. \A d \in Callers : call'[d] = IF d = c THEN r ELSE call[d]
  OBVIOUS
<1>2. Holders' = {d \in Callers : call'[d].at \in P}
  BY DEF Holders
<1>3. ASSUME call[c].at \notin P, r.at \in P
      PROVE  Cardinality(Holders)' = Cardinality(Holders) + 1
  <2>1. Holders' = Holders \cup {c} /\ c \notin Holders
    BY <1>1, <1>2, <1>3 DEF Holders
  <2> QED
    BY <2>1, HoldersFinite, FS_AddElement
<1>4. ASSUME call[c].at \in P, r.at \notin P
      PROVE  Cardinality(Holders)' = Cardinality(Holders) - 1 /\ Cardinality(Holders) >= 1
  <2>1. Holders' = Holders \ {c} /\ c \in Holders
    BY <1>1, <1>2, <1>4 DEF Holders
  <2>2. Cardinality(Holders)' = Cardinality(Holders) - 1
    BY <2>1, HoldersFinite, FS_RemoveElement
  <2>3. Cardinality(Holders) # 0
    BY <2>1, HoldersFinite, FS_EmptySet
  <2> QED
    BY <2>2, <2>3, HoldersFinite, SMT
<1>5. ASSUME call[c].at \in P <=> r.at \in P
      PROVE  Cardinality(Holders)' = Cardinality(Holders)
  <2>1. Holders' = Holders
    BY <1>1, <1>2, <1>5 DEF Holders
  <2> QED
    BY <2>1
<1> QED
  BY <1>3, <1>4, <1>5

(* A caller that is not on the way before or after moves: the peak's lag is
   what it was. *)
LEMMA PeakUndisturbed ==
    ASSUME NEW c \in Callers, NEW r, ResilienceTypeOK, PeakFollows,
           call' = [call EXCEPT ![c] = r], peak' = peak, highest' = highest,
           \/ call[c].at \notin {"won", "counted"} /\ r.at \notin {"won", "counted"}
           \/ call[c].at = "won" /\ r.at = "counted" /\ r.seen = call[c].seen
    PROVE  PeakFollows'
  BY SMT DEF ResilienceTypeOK, PeakFollows, OnTheWay

-----------------------------------------------------------------------------
(* The induction. *)

LEMMA InitResilience == ResilienceInit => ResilienceInv
<1> SUFFICES ASSUME ResilienceInit PROVE ResilienceInv
  OBVIOUS
<1> USE ResilienceAssumption DEF ResilienceInit
<1>1. ResilienceTypeOK
  BY SMT DEF ResilienceTypeOK, Idle, Stages, Never
<1>2. Holders = {}
  BY SMT DEF Holders, Idle
<1>3. BulkheadInv
  BY <1>2, FS_EmptySet, SMT DEF BulkheadInv, PeakFollows, OnTheWay, Idle
<1>4. BreakerSound
  BY SMT DEF BreakerSound
<1> QED
  BY <1>1, <1>3, <1>4 DEF ResilienceInv

(* A step of a caller other than those that count permits or the peak. *)
LEMMA QuietStep ==
    ASSUME ResilienceInv, NEW c \in Callers, NEW r \in [at : Stages, seen : Nat, execute : BOOLEAN],
           call' = [call EXCEPT ![c] = r],
           inFlight' = inFlight, peak' = peak, highest' = highest,
           \/ call[c].at \notin {"won", "counted", "permit"} /\ r.at \notin {"won", "counted", "permit"}
           \/ call[c].at = "won" /\ r.at = "counted" /\ r.seen = call[c].seen
    PROVE  BulkheadInv' /\ call' \in [Callers -> [at : Stages, seen : Nat, execute : BOOLEAN]]
<1>1. call \in [Callers -> [at : Stages, seen : Nat, execute : BOOLEAN]]
  BY DEF ResilienceInv, ResilienceTypeOK
<1>2. Cardinality(Holders)' = Cardinality(Holders)
  BY <1>1, HoldersMove
<1>3. PeakFollows'
  BY PeakUndisturbed DEF ResilienceInv, BulkheadInv
<1> QED
  BY <1>1, <1>2, <1>3 DEF ResilienceInv, BulkheadInv

LEMMA NextResilience == ResilienceInv /\ [ResilienceNext]_resilienceVars => ResilienceInv'
<1> SUFFICES ASSUME ResilienceInv, [ResilienceNext]_resilienceVars PROVE ResilienceInv'
  OBVIOUS
<1> DEFINE Call == [at : Stages, seen : Nat, execute : BOOLEAN]
<1>a. ResilienceTypeOK /\ BulkheadInv /\ BreakerSound /\ call \in [Callers -> Call]
  BY DEF ResilienceInv, ResilienceTypeOK
<1>b. \A c \in Callers : call[c] \in Call
  BY <1>a
<1>1. ASSUME NEW c \in Callers, Ask(c) PROVE ResilienceInv'
  <2> PICK execute \in BOOLEAN :
          call' = [call EXCEPT ![c] = [at |-> "load", seen |-> 0, execute |-> execute]]
    BY <1>1 DEF Ask
  <2> DEFINE r == [at |-> "load", seen |-> 0, execute |-> execute]
  <2>a. r \in Call /\ r.at = "load" /\ call[c].at = "idle" /\ call' = [call EXCEPT ![c] = r]
    BY <1>1 DEF Ask, Stages
  <2>b. inFlight' = inFlight /\ peak' = peak /\ highest' = highest
    BY <1>1 DEF Ask, bulkhead
  <2> HIDE DEF r
  <2>1. BulkheadInv' /\ call' \in [Callers -> Call]
    BY <2>a, <2>b, QuietStep
  <2>2. now' = now /\ Permit /\ inFlight' = inFlight /\ peak' = peak /\ highest' = highest
        /\ admitted' = admitted /\ rejected' = rejected
    BY <1>1 DEF Ask, bulkhead
  <2> QED
    BY <2>1, <2>2, <1>a, BreakerStep DEF ResilienceInv, ResilienceTypeOK
<1>2. ASSUME NEW c \in Callers, TurnAway(c) PROVE ResilienceInv'
  <2>1. now' = now /\ Refuse /\ UNCHANGED <<bulkhead, call, highest>>
    BY <1>2 DEF TurnAway
  <2>2. BulkheadInv'
    BY <2>1, <1>a DEF BulkheadInv, PeakFollows, OnTheWay, Holders, bulkhead
  <2> QED
    BY <2>1, <2>2, <1>a, BreakerStep DEF ResilienceInv, ResilienceTypeOK, bulkhead
<1>3. ASSUME NEW c \in Callers, Load(c) \/ Lose(c) PROVE ResilienceInv'
  <2> DEFINE r == [call[c] EXCEPT !.at = "try", !.seen = inFlight]
  <2>c. call[c] \in Call /\ inFlight \in Nat /\ "try" \in Stages
    BY <1>a, <1>b DEF ResilienceTypeOK, Stages
  <2>d. r \in Call /\ r.at = "try"
    BY <2>c
  <2>e. call[c].at \in {"load", "try"}
    BY <1>3 DEF Load, Lose
  <2>a. r \in Call /\ r.at = "try" /\ call[c].at \in {"load", "try"}
    BY <2>d, <2>e
  <2>b. call' = [call EXCEPT ![c] = r]
    BY <1>3 DEF Load, Lose
  <2> HIDE DEF r
  <2>1. call' = [call EXCEPT ![c] = r] /\ r \in Call /\ call[c].at \in {"load", "try"} /\ r.at = "try"
    BY <2>a, <2>b
  <2>2. UNCHANGED <<now, breaker, bulkhead, highest>>
    BY <1>3 DEF Load, Lose
  <2>3. BulkheadInv' /\ call' \in [Callers -> Call]
    BY <2>1, <2>2, QuietStep DEF bulkhead
  <2> QED
    BY <2>2, <2>3, <1>a, BreakerStep DEF ResilienceInv, ResilienceTypeOK, bulkhead
<1>4. ASSUME NEW c \in Callers, Saturated(c) PROVE ResilienceInv'
  <2>1. call' = [call EXCEPT ![c] = Idle] /\ Idle \in Call /\ call[c].at = "try" /\ Idle.at = "idle"
    BY <1>4 DEF Saturated, Idle, Stages
  <2>2. UNCHANGED <<now, breaker, inFlight, admitted, peak, highest>> /\ rejected' = rejected + 1
    BY <1>4 DEF Saturated
  <2>3. BulkheadInv' /\ call' \in [Callers -> Call]
    BY <2>1, <2>2, QuietStep
  <2> QED
    BY <2>2, <2>3, <1>a, BreakerStep DEF ResilienceInv, ResilienceTypeOK
<1>5. ASSUME NEW c \in Callers, Win(c) PROVE ResilienceInv'
  <2> DEFINE r == [call[c] EXCEPT !.at = "won"]
  <2>1. call' = [call EXCEPT ![c] = r] /\ r \in Call /\ call[c].at = "try" /\ r.at = "won"
        /\ r.seen = call[c].seen
    BY <1>5, <1>a, <1>b, SMT DEF Win, At, Stages
  <2>2. /\ UNCHANGED <<now, breaker, admitted, rejected, peak>>
        /\ inFlight = call[c].seen /\ inFlight < Capacity /\ inFlight' = inFlight + 1
        /\ highest' = IF inFlight' > highest THEN inFlight' ELSE highest
    BY <1>5, SMT DEF Win
  <2>3. inFlight \in Nat /\ highest \in Nat /\ peak \in Nat /\ Capacity \in Nat
    BY <1>a, ResilienceAssumption DEF ResilienceTypeOK
  <2>4. Cardinality(Holders)' = Cardinality(Holders) + 1
    BY <2>1, <1>a, HoldersMove
  <2>5. call' \in [Callers -> Call]
    BY <2>1, <1>a
  <2>6. \A d \in Callers : call'[d] = IF d = c THEN r ELSE call[d]
    BY <2>1, <1>a
  <2>7. PeakFollows'
    <3>1. \A d \in Callers : call'[d].at \in {"won", "counted"} => call'[d].seen + 1 <= highest'
      BY <2>1, <2>2, <2>3, <2>6, <1>a, <1>b, SMT DEF BulkheadInv, PeakFollows, OnTheWay
    <3>2. CASE inFlight' > highest
      BY <3>2, <2>1, <2>2, <2>6, <3>1, SMT DEF PeakFollows, OnTheWay
    <3>3. CASE ~(inFlight' > highest)
      BY <3>3, <2>1, <2>2, <2>6, <3>1, <1>a, SMT DEF BulkheadInv, PeakFollows, OnTheWay
    <3> QED
      BY <3>2, <3>3
  <2>8. BulkheadInv'
    BY <2>2, <2>3, <2>4, <2>7, <1>a, SMT DEF BulkheadInv
  <2> QED
    BY <2>2, <2>3, <2>5, <2>8, <1>a, BreakerStep, SMT DEF ResilienceInv, ResilienceTypeOK
<1>6. ASSUME NEW c \in Callers, Count(c) PROVE ResilienceInv'
  <2> DEFINE r == [call[c] EXCEPT !.at = "counted"]
  <2>1. call' = [call EXCEPT ![c] = r] /\ r \in Call /\ call[c].at = "won" /\ r.at = "counted"
        /\ r.seen = call[c].seen
    BY <1>6, <1>a, <1>b, SMT DEF Count, At, Stages
  <2>2. UNCHANGED <<now, breaker, inFlight, rejected, peak, highest>> /\ admitted' = admitted + 1
    BY <1>6 DEF Count
  <2>3. BulkheadInv' /\ call' \in [Callers -> Call]
    BY <2>1, <2>2, QuietStep
  <2> QED
    BY <2>2, <2>3, <1>a, BreakerStep DEF ResilienceInv, ResilienceTypeOK
<1>7. ASSUME NEW c \in Callers, RaisePeak(c) PROVE ResilienceInv'
  <2> DEFINE r == [call[c] EXCEPT !.at = "permit"]
  <2>1. call' = [call EXCEPT ![c] = r] /\ r \in Call /\ call[c].at = "counted" /\ r.at = "permit"
    BY <1>7, <1>a, <1>b, SMT DEF RaisePeak, At, Stages
  <2>2. /\ UNCHANGED <<now, breaker, inFlight, admitted, rejected, highest>>
        /\ peak' = IF call[c].seen + 1 > peak THEN call[c].seen + 1 ELSE peak
    BY <1>7 DEF RaisePeak
  <2>3. inFlight \in Nat /\ highest \in Nat /\ peak \in Nat /\ call[c].seen \in Nat
    BY <1>a, <1>b DEF ResilienceTypeOK
  <2>4. Cardinality(Holders)' = Cardinality(Holders)
    BY <2>1, <1>a, HoldersMove
  <2>5. call' \in [Callers -> Call]
    BY <2>1, <1>a
  <2>6. \A d \in Callers : call'[d] = IF d = c THEN r ELSE call[d]
    BY <2>1, <1>a
  <2>7. peak' <= highest /\ peak' \in Nat /\ peak' >= call[c].seen + 1 /\ peak' >= peak
    BY <2>1, <2>2, <2>3, <1>a, SMT DEF BulkheadInv, PeakFollows, OnTheWay
  <2>8. PeakFollows'
    <3>1. \A d \in Callers : call'[d].at \in {"won", "counted"} => call'[d].seen + 1 <= highest'
      BY <2>1, <2>2, <2>6, <1>a, SMT DEF BulkheadInv, PeakFollows, OnTheWay
    <3>2. CASE peak = highest
      BY <3>2, <3>1, <2>2, <2>3, <2>7, SMT DEF PeakFollows, OnTheWay
    <3>3. CASE \E d \in Callers : OnTheWay(d) /\ call[d].seen + 1 = highest
      <4> PICK d \in Callers : OnTheWay(d) /\ call[d].seen + 1 = highest
        BY <3>3
      <4>1. CASE d = c
        BY <4>1, <3>1, <2>2, <2>3, <2>7, SMT DEF PeakFollows, OnTheWay
      <4>2. CASE d # c
        BY <4>2, <3>1, <2>2, <2>6 DEF PeakFollows, OnTheWay
      <4> QED
        BY <4>1, <4>2
    <3> QED
      BY <3>2, <3>3, <1>a DEF BulkheadInv, PeakFollows
  <2>9. BulkheadInv'
    BY <2>2, <2>4, <2>7, <2>8, <1>a DEF BulkheadInv
  <2> QED
    BY <2>2, <2>5, <2>7, <2>9, <1>a, BreakerStep DEF ResilienceInv, ResilienceTypeOK
<1>8. ASSUME NEW c \in Callers, Execute(c) \/ Release(c) PROVE ResilienceInv'
  <2> DEFINE r == [call[c] EXCEPT !.at = "running"]
  <2>1. call' = [call EXCEPT ![c] = r] /\ r \in Call /\ call[c].at = "permit" /\ r.at = "running"
    BY <1>8, <1>a, <1>b, SMT DEF Execute, Release, At, Stages
  <2>2. UNCHANGED <<now, breaker, admitted, rejected, peak, highest>> /\ inFlight' = inFlight - 1
    BY <1>8 DEF Execute, Release
  <2>3. Cardinality(Holders)' = Cardinality(Holders) - 1 /\ Cardinality(Holders) >= 1
    BY <2>1, <1>a, HoldersMove
  <2>4. call' \in [Callers -> Call]
    BY <2>1, <1>a
  <2>5. PeakFollows'
    BY <2>1, <2>2, <1>a, PeakUndisturbed DEF BulkheadInv
  <2>6. inFlight \in Nat /\ highest \in Nat /\ inFlight = Cardinality(Holders)
    BY <1>a DEF ResilienceTypeOK, BulkheadInv
  <2>7. BulkheadInv' /\ inFlight' \in Nat
    BY <2>2, <2>3, <2>5, <2>6, <1>a, SMT DEF BulkheadInv
  <2> QED
    BY <2>2, <2>4, <2>7, <1>a, BreakerStep DEF ResilienceInv, ResilienceTypeOK
<1>9. ASSUME NEW c \in Callers, Succeed(c) \/ Fail(c) PROVE ResilienceInv'
  <2>1. call' = [call EXCEPT ![c] = Idle] /\ Idle \in Call /\ call[c].at = "running" /\ Idle.at = "idle"
    BY <1>9 DEF Succeed, Fail, Idle, Stages
  <2>2. UNCHANGED <<now, bulkhead, highest>> /\ (RecordSuccess \/ RecordFailure)
    BY <1>9 DEF Succeed, Fail
  <2>3. BulkheadInv' /\ call' \in [Callers -> Call]
    BY <2>1, <2>2, QuietStep DEF bulkhead
  <2> QED
    BY <2>2, <2>3, <1>a, BreakerStep DEF ResilienceInv, ResilienceTypeOK, bulkhead
<1>10. ASSUME ForceOpen \/ Reset PROVE ResilienceInv'
  <2>1. UNCHANGED <<now, blocked, bulkhead, call, highest>>
    BY <1>10 DEF ForceOpen, Reset
  <2>2. BulkheadInv'
    BY <2>1, <1>a DEF BulkheadInv, PeakFollows, OnTheWay, Holders, bulkhead
  <2>3. BreakerSound' /\ ResilienceTypeOK'
    BY <1>10, <2>1, <1>a, ResilienceAssumption, SMT
       DEF ForceOpen, Reset, BreakerSound, ResilienceTypeOK, TransitionTo, Never, bulkhead
  <2> QED
    BY <2>2, <2>3 DEF ResilienceInv
<1>11. ASSUME Tick PROVE ResilienceInv'
  <2>1. now' = now + 1 /\ UNCHANGED <<breaker, bulkhead, call, highest>>
    BY <1>11 DEF Tick
  <2>2. BulkheadInv'
    BY <2>1, <1>a DEF BulkheadInv, PeakFollows, OnTheWay, Holders, bulkhead
  <2>3. BreakerSound' /\ ResilienceTypeOK'
    BY <2>1, <1>a, SMT DEF BreakerSound, ResilienceTypeOK, Never, breaker, bulkhead
  <2> QED
    BY <2>2, <2>3 DEF ResilienceInv
<1>12. ASSUME UNCHANGED resilienceVars PROVE ResilienceInv'
  BY <1>12, <1>a DEF ResilienceInv, ResilienceTypeOK, BreakerSound, BulkheadInv, PeakFollows, OnTheWay, Holders,
                     resilienceVars, breaker, bulkhead
<1> QED
  BY <1>1, <1>2, <1>3, <1>4, <1>5, <1>6, <1>7, <1>8, <1>9, <1>10, <1>11, <1>12 DEF ResilienceNext, Step

LEMMA ResilienceHolds == Spec => []ResilienceInv
<1>1. Init => ResilienceInv
  BY InitResilience DEF Init
<1> QED
  BY <1>1, StepOfResilience, NextResilience, PTL DEF Spec

(* Every counter keeps its range; in_flight never falls below zero.           *)
THEOREM ResilienceTypes == Spec => []ResilienceTypeOK
<1>1. ResilienceInv => ResilienceTypeOK
  BY DEF ResilienceInv
<1> QED
  BY <1>1, ResilienceHolds, PTL

(* The bulkhead admits no more than its capacity, counts the permits that are *)
(* out, and its peak is exact once nobody is between exchange and fetch_max.  *)
THEOREM BulkheadCorrect == Spec => []BulkheadSound
<1>1. ResilienceInv => BulkheadSound
  BY DEF ResilienceInv, BulkheadInv, PeakFollows, OnTheWay, BulkheadSound
<1> QED
  BY <1>1, ResilienceHolds, PTL

(* The breaker's state agrees with its counters and its clock, whatever       *)
(* outcomes late callers record.                                              *)
THEOREM BreakerCorrect == Spec => []BreakerSound
<1>1. ResilienceInv => BreakerSound
  BY DEF ResilienceInv
<1> QED
  BY <1>1, ResilienceHolds, PTL

-----------------------------------------------------------------------------
(* Numbers, and the size of a file as the fold it is. *)

LEMMA LeastElement ==
    ASSUME NEW T, T \subseteq Nat, T # {}
    PROVE  \E m \in T : \A n \in T : m <= n
<1>1. PICK m \in T : \A n \in T : <<n, m>> \notin OpToRel(<, Nat)
  BY WFMin, NatLessThanWellFounded
<1>2. ASSUME NEW n \in T PROVE m <= n
  <2>1. ~ (n < m)
    BY <1>1, <1>2 DEF OpToRel
  <2> QED
    BY <2>1, SMT
<1> QED
  BY <1>1, <1>2

(* What holds of 0 and passes from k - 1 to k holds up to n. *)
LEMMA ReachesAll ==
    ASSUME NEW n \in Nat, NEW T, 0 \in T, \A k \in 1..n : k - 1 \in T => k \in T
    PROVE  0..n \subseteq T
<1> DEFINE without == (0..n) \ T
<1>1. SUFFICES ASSUME without # {} PROVE FALSE
  OBVIOUS
<1>2. without \subseteq Nat
  OBVIOUS
<1>3. PICK m \in without : \A k \in without : m <= k
  <2> HIDE DEF without
  <2> QED
    BY <1>1, <1>2, LeastElement
<1>4. m \in 1..n /\ m - 1 \in 0..n
  BY <1>3
<1>5. m - 1 \in T
  BY <1>3, <1>4
<1> QED
  BY <1>3, <1>4, <1>5

(* The sums of the first k numbers of a sequence exist. *)
IsSum(u, n, x) == u[0] = 0 /\ \A k \in 1..n : u[k] = u[k - 1] + x[k]

LEMMA SumExists ==
    ASSUME NEW n \in Nat, NEW x, \A k \in 1..n : x[k] \in Nat
    PROVE  \E u \in [0..n -> Nat] : IsSum(u, n, x)
<1> DEFINE with == {m \in 0..n : \E u \in [0..m -> Nat] : IsSum(u, m, x)}
<1>1. 0 \in with
  <2> DEFINE u == [k \in 0..0 |-> 0]
  <2>1. u \in [0..0 -> Nat] /\ IsSum(u, 0, x)
    BY DEF IsSum
  <2> QED
    BY <2>1
<1>2. ASSUME NEW m \in 1..n, m - 1 \in with PROVE m \in with
  <2>1. PICK u \in [0..m - 1 -> Nat] : IsSum(u, m - 1, x)
    BY <1>2
  <2> DEFINE v == [k \in 0..m |-> IF k = m THEN u[m - 1] + x[m] ELSE u[k]]
  <2>2. u[m - 1] + x[m] \in Nat
    BY <2>1
  <2>3. v \in [0..m -> Nat]
    BY <2>1, <2>2
  <2>4. v[m] = u[m - 1] + x[m] /\ \A k \in 0..m - 1 : v[k] = u[k]
    OBVIOUS
  <2> HIDE DEF v
  <2>5. ASSUME NEW k \in 1..m PROVE v[k] = v[k - 1] + x[k]
    <3>1. CASE k = m
      BY <2>4, <3>1
    <3>2. CASE k # m
      <4>1. k \in 1..m - 1 /\ k - 1 \in 0..m - 1 /\ k \in 0..m - 1
        BY <3>2
      <4> QED
        BY <2>1, <2>4, <4>1 DEF IsSum
    <3> QED
      BY <3>1, <3>2
  <2>6. v[0] = 0
    BY <2>1, <2>4 DEF IsSum
  <2>7. IsSum(v, m, x)
    BY <2>5, <2>6 DEF IsSum
  <2>8. m \in 0..n
    OBVIOUS
  <2> QED
    BY <2>3, <2>7, <2>8
<1>3. n \in with
  <2> HIDE DEF with
  <2>1. 0..n \subseteq with
    BY <1>1, <1>2, ReachesAll
  <2> QED
    BY <2>1
<1> QED
  BY <1>3

(* Such sums are determined. *)
LEMMA SumsAgree ==
    ASSUME NEW n \in Nat, NEW x, NEW u, NEW v, IsSum(u, n, x), IsSum(v, n, x)
    PROVE  u[n] = v[n]
<1> DEFINE T == {k \in 0..n : u[k] = v[k]}
<1>1. 0 \in T
  BY DEF IsSum
<1>2. ASSUME NEW k \in 1..n, k - 1 \in T PROVE k \in T
  BY <1>2 DEF IsSum
<1>3. n \in T
  <2> HIDE DEF T
  <2>1. 0..n \subseteq T
    BY <1>1, <1>2, ReachesAll
  <2> QED
    BY <2>1
<1> QED
  BY <1>3

LogLine == [number : Nat, size : Nat]

LEMMA SizeFolds ==
    ASSUME NEW file \in Seq(LogLine)
    PROVE  \E u \in [0..Len(file) -> Nat] :
              IsSum(u, Len(file), [k \in 1..Len(file) |-> file[k].size]) /\ SizeOf(file) = u[Len(file)]
<1> DEFINE n == Len(file)
           x == [k \in 1..n |-> file[k].size]
           upTo == CHOOSE f : f = [k \in 0..n |-> IF k = 0 THEN 0 ELSE f[k - 1] + file[k].size]
<1>1. n \in Nat /\ \A k \in 1..n : x[k] = file[k].size /\ x[k] \in Nat
  <2>1. \A k \in 1..n : file[k] \in LogLine
    OBVIOUS
  <2> QED
    BY <2>1 DEF LogLine
<1>2. PICK u \in [0..n -> Nat] : IsSum(u, n, x)
  <2> HIDE DEF n, x
  <2> QED
    BY <1>1, SumExists
<1>3. u = [k \in 0..n |-> IF k = 0 THEN 0 ELSE u[k - 1] + file[k].size]
  <2> HIDE DEF n, x, upTo
  <2>1. u[0] = 0 /\ \A k \in 1..n : u[k] = u[k - 1] + file[k].size
    BY <1>1, <1>2 DEF IsSum
  <2>2. \A k \in 0..n : k = 0 \/ k \in 1..n
    BY <1>1
  <2>3. u = [k \in 0..n |-> u[k]]
    BY <1>2
  <2> QED
    BY <2>1, <2>2, <2>3, Zenon
<1>4. upTo = [k \in 0..n |-> IF k = 0 THEN 0 ELSE upTo[k - 1] + file[k].size]
  BY <1>3
<1>5. SizeOf(file) = upTo[n]
  BY DEF SizeOf
<1> HIDE DEF n, x, upTo
<1>6. IsSum(upTo, n, x)
  BY <1>1, <1>4 DEF IsSum
<1>7. upTo[n] = u[n]
  BY <1>1, <1>2, <1>6, SumsAgree
<1> QED
  BY <1>2, <1>5, <1>7 DEF n, x

LEMMA SizeGrows ==
    ASSUME NEW file \in Seq(LogLine), NEW line \in LogLine
    PROVE  SizeOf(file) \in Nat /\ SizeOf(Append(file, line)) = SizeOf(file) + line.size
<1> DEFINE longer == Append(file, line)
           n == Len(file)
<1>1. longer \in Seq(LogLine) /\ Len(longer) = n + 1 /\ n \in Nat
  OBVIOUS
<1>2. longer[n + 1] = line /\ \A k \in 1..n : longer[k] = file[k]
  OBVIOUS
<1> HIDE DEF longer
<1>3. PICK u \in [0..n -> Nat] : IsSum(u, n, [k \in 1..n |-> file[k].size]) /\ SizeOf(file) = u[n]
  BY SizeFolds
<1>4. PICK v \in [0..n + 1 -> Nat] :
          IsSum(v, n + 1, [k \in 1..(n + 1) |-> longer[k].size]) /\ SizeOf(longer) = v[n + 1]
  BY <1>1, SizeFolds
<1> HIDE DEF n
<1>5. IsSum(v, n, [k \in 1..n |-> file[k].size])
  <2>1. \A k \in 1..n : k \in 1..(n + 1)
    BY <1>1
  <2> QED
    BY <1>2, <1>4, <2>1 DEF IsSum
<1>6. v[n] = u[n]
  BY <1>1, <1>3, <1>5, SumsAgree
<1>7. v[n + 1] = v[n] + line.size
  <2>1. n + 1 \in 1..(n + 1) /\ (n + 1) - 1 = n
    BY <1>1
  <2> QED
    BY <1>2, <1>4, <2>1 DEF IsSum
<1> QED
  BY <1>1, <1>3, <1>4, <1>6, <1>7 DEF longer, n

LEMMA SizeOfNothing == SizeOf(<<>>) = 0
<1>1. <<>> \in Seq(LogLine) /\ Len(<<>>) = 0
  OBVIOUS
<1>2. PICK u \in [0..0 -> Nat] :
          IsSum(u, 0, [k \in 1..0 |-> <<>>[k].size]) /\ SizeOf(<<>>) = u[0]
  BY <1>1, SizeFolds
<1> QED
  BY <1>2 DEF IsSum

-----------------------------------------------------------------------------
(* The log directory. *)

IsArchive(name) == name = <<name[1], name[2]>> /\ name[1] \in 0..MaxStamp /\ name[2] \in Nat

LEMMA ArchiveIsNot == \A s, i : <<s, i>> # Active /\ <<s, i>>[1] = s /\ <<s, i>>[2] = i
  BY DEF Active

(* Files are sequences of lines, each of which is in one place. *)
DirOK(dir, n) ==
    /\ dir = [name \in DOMAIN dir |-> dir[name]]
    /\ \A name \in DOMAIN dir : (name = Active \/ IsArchive(name)) /\ dir[name] \in Seq(LogLine)
    /\ \A name \in DOMAIN dir : \A i \in DOMAIN dir[name] : dir[name][i].number \in 1..n
    /\ \A a, b \in DOMAIN dir : \A i \in DOMAIN dir[a], m \in DOMAIN dir[b] :
          dir[a][i].number = dir[b][m].number => a = b /\ i = m

(* What the process wrote: lines of ascending numbers, in parts up to the index. *)
WroteOK(wrote, at, n) ==
    /\ wrote \in Seq([line : LogLine, part : Nat])
    /\ \A k \in DOMAIN wrote : wrote[k].line.number \in 1..n /\ wrote[k].part <= at
    /\ \A j, k \in DOMAIN wrote : j < k => wrote[j].line.number < wrote[k].line.number

(* Its lines are in archives made since their part, and of this process; they   *)
(* are found in their order; and none is missing but with max_files rotations.  *)
Placed(dir, wrote, at) ==
    \A name \in DOMAIN dir \ {Active} : \A i \in DOMAIN dir[name], k \in DOMAIN wrote :
        dir[name][i] = wrote[k].line => wrote[k].part <= name[2] /\ name[2] < at

Ordered(dir, wrote) ==
    \A a, b \in DOMAIN dir : \A i \in DOMAIN dir[a], m \in DOMAIN dir[b], j, k \in DOMAIN wrote :
        j < k /\ dir[a][i] = wrote[j].line /\ dir[b][m] = wrote[k].line => Sooner(a, i, b, m)

Found(dir, wrote, at) ==
    \A k \in DOMAIN wrote : wrote[k].part >= at - logConfig.max_files =>
        \E name \in DOMAIN dir : \E i \in DOMAIN dir[name] : dir[name][i] = wrote[k].line

KeptIn(dir, wrote, at, n) ==
    DirOK(dir, n) /\ Placed(dir, wrote, at) /\ Ordered(dir, wrote) /\ Found(dir, wrote, at)

(* Without times in the names, an archive of max_files rotations ago is left   *)
(* only where a rename failed.                                                 *)
Mine(dir, name, wrote) == \E i \in DOMAIN dir[name], k \in DOMAIN wrote : dir[name][i] = wrote[k].line

Cleared(dir, wrote, at, failed) ==
    ~logConfig.timestamp_suffix =>
        \A name \in DOMAIN dir \ {Active} :
            /\ name[1] = 0
            /\ Mine(dir, name, wrote) =>
                  name[2] + logConfig.max_files >= at \/ name[2] + logConfig.max_files \in failed

LEMMA Elements ==
    ASSUME NEW S, NEW s \in Seq(S)
    PROVE  s = [k \in 1..Len(s) |-> s[k]] /\ DOMAIN s = 1..Len(s) /\ Len(s) \in Nat /\ \A k \in DOMAIN s : s[k] \in S
  OBVIOUS

LEMMA NoPlaces == ASSUME NEW n \in Nat PROVE 1..n = {} <=> n = 0
<1>1. n # 0 => 1 \in 1..n
  OBVIOUS
<1>2. n = 0 => 1..n = {}
  OBVIOUS
<1> QED
  BY <1>1, <1>2

LEMMA NoElements ==
    ASSUME NEW n \in Nat, NEW s, s = [i \in 1..n |-> s[i]]
    PROVE  s = <<>> <=> n = 0
<1> DEFINE S == {s[i] : i \in 1..n}
<1>1. \A i \in 1..n : s[i] \in S
  OBVIOUS
<1> HIDE DEF S
<1>2. s \in [1..n -> S]
  BY <1>1
<1>3. s \in Seq(S) /\ Len(s) = n
  BY <1>2
<1> QED
  BY <1>3

LEMMA WroteLines ==
    ASSUME NEW wrote, NEW at \in Nat, NEW n \in Nat, WroteOK(wrote, at, n)
    PROVE  \A k \in DOMAIN wrote : /\ wrote[k] \in [line : LogLine, part : Nat] /\ wrote[k].part \in Nat
                                   /\ wrote[k].part <= at /\ wrote[k].line \in LogLine
                                   /\ wrote[k].line.number \in 1..n /\ wrote[k].line.number # n + 1
<1>1. wrote \in Seq([line : LogLine, part : Nat])
      /\ \A k \in DOMAIN wrote : wrote[k].part <= at /\ wrote[k].line.number \in 1..n
  BY DEF WroteOK
<1>2. \A k \in DOMAIN wrote : wrote[k] \in [line : LogLine, part : Nat]
  <2> DEFINE S == [line : LogLine, part : Nat]
  <2>1. wrote \in Seq(S)
    BY <1>1
  <2> HIDE DEF S
  <2>2. \A k \in DOMAIN wrote : wrote[k] \in S
    BY <2>1, Elements
  <2> QED
    BY <2>2 DEF S
<1>3. \A i \in 1..n : i # n + 1
  OBVIOUS
<1> QED
  BY <1>1, <1>2, <1>3

LEMMA RenamedKeeps ==
    ASSUME NEW dir, NEW wrote, NEW at \in Nat, NEW n \in Nat, NEW to, to = <<to[1], at>>, to[1] \in 0..MaxStamp,
           logConfig.max_files \in Nat, Active \in DOMAIN dir, KeptIn(dir, wrote, at, n), WroteOK(wrote, at, n)
    PROVE  KeptIn(Renamed(dir, to), wrote, at + 1, n) /\ Active \notin DOMAIN Renamed(dir, to)
<1> DEFINE new == Renamed(dir, to)
           From(name) == IF name = to THEN Active ELSE name
<1>1. to # Active /\ to[2] = at /\ IsArchive(to)
  BY ArchiveIsNot DEF IsArchive
<1>2. /\ new = [name \in DOMAIN new |-> new[name]]
      /\ DOMAIN new = (DOMAIN dir \ {Active}) \cup {to}
      /\ \A name \in DOMAIN new : new[name] = dir[From(name)] /\ From(name) \in DOMAIN dir
  BY DEF Renamed
<1> HIDE DEF new
<1>3. \A a, b \in DOMAIN new : From(a) = From(b) => a = b
  BY <1>1, <1>2
<1>4. DirOK(new, n)
  <2>1. \A name \in DOMAIN new : (name = Active \/ IsArchive(name)) /\ new[name] \in Seq(LogLine)
    BY <1>1, <1>2 DEF KeptIn, DirOK
  <2>2. \A name \in DOMAIN new : \A i \in DOMAIN new[name] : new[name][i].number \in 1..n
    BY <1>2 DEF KeptIn, DirOK
  <2>3. ASSUME NEW a \in DOMAIN new, NEW b \in DOMAIN new, NEW i \in DOMAIN new[a], NEW m \in DOMAIN new[b],
               new[a][i].number = new[b][m].number
        PROVE  a = b /\ i = m
    <3>1. From(a) = From(b) /\ i = m
      BY <1>2, <2>3 DEF KeptIn, DirOK
    <3> QED
      BY <1>3, <3>1
  <2> QED
    BY <1>2, <2>1, <2>2, <2>3 DEF DirOK
<1>5. \A k \in DOMAIN wrote : wrote[k].part \in Nat /\ wrote[k].part <= at
  BY WroteLines
<1>6. Placed(new, wrote, at + 1)
  <2> SUFFICES ASSUME NEW name \in DOMAIN new \ {Active}, NEW i \in DOMAIN new[name], NEW k \in DOMAIN wrote,
                      new[name][i] = wrote[k].line
               PROVE  wrote[k].part <= name[2] /\ name[2] < at + 1
    BY DEF Placed
  <2>1. CASE name = to
    BY <1>1, <1>5, <2>1
  <2>2. CASE name # to
    <3>1. name \in DOMAIN dir \ {Active} /\ new[name] = dir[name]
      BY <1>2, <2>2
    <3>2. name[2] \in Nat
      BY <3>1 DEF KeptIn, DirOK, IsArchive
    <3>3. wrote[k].part <= name[2] /\ name[2] < at
      BY <3>1 DEF KeptIn, Placed
    <3> QED
      BY <3>2, <3>3
  <2> QED
    BY <2>1, <2>2
<1>7. Ordered(new, wrote)
  <2> SUFFICES ASSUME NEW a \in DOMAIN new, NEW b \in DOMAIN new, NEW i \in DOMAIN new[a], NEW m \in DOMAIN new[b],
                      NEW j \in DOMAIN wrote, NEW k \in DOMAIN wrote, j < k,
                      new[a][i] = wrote[j].line, new[b][m] = wrote[k].line
               PROVE  Sooner(a, i, b, m)
    BY DEF Ordered
  <2>1. Sooner(From(a), i, From(b), m)
    BY <1>2 DEF KeptIn, Ordered
  <2>2. CASE a = to
    BY <1>1, <1>2, <2>1, <2>2 DEF Sooner
  <2>3. CASE a # to /\ b = to
    <3>1. a \in DOMAIN dir \ {Active} /\ new[a] = dir[a]
      BY <1>2, <2>3
    <3>2. a[2] < at
      BY <3>1 DEF KeptIn, Placed
    <3> QED
      BY <1>1, <2>3, <3>1, <3>2 DEF Sooner
  <2>4. CASE a # to /\ b # to
    BY <2>1, <2>4
  <2> QED
    BY <2>2, <2>3, <2>4
<1>8. Found(new, wrote, at + 1)
  <2> SUFFICES ASSUME NEW k \in DOMAIN wrote, wrote[k].part >= at + 1 - logConfig.max_files
               PROVE  \E name \in DOMAIN new : \E i \in DOMAIN new[name] : new[name][i] = wrote[k].line
    BY DEF Found
  <2>1. wrote[k].part >= at - logConfig.max_files
    BY <1>5
  <2>2. PICK name \in DOMAIN dir : \E i \in DOMAIN dir[name] : dir[name][i] = wrote[k].line
    BY <2>1 DEF KeptIn, Found
  <2>i. PICK i \in DOMAIN dir[name] : dir[name][i] = wrote[k].line
    BY <2>2
  <2>3. CASE name = Active
    <3>1. to \in DOMAIN new /\ new[to] = dir[name]
      BY <1>2, <2>3
    <3> QED
      BY <2>i, <3>1
  <2>4. CASE name # Active
    <3>1. name[2] < at
      BY <2>i, <2>4 DEF KeptIn, Placed
    <3>2. name \in DOMAIN new /\ new[name] = dir[name]
      BY <1>1, <1>2, <2>4, <3>1
    <3> QED
      BY <2>i, <3>2
  <2> QED
    BY <2>3, <2>4
<1> QED
  BY <1>1, <1>2, <1>4, <1>6, <1>7, <1>8 DEF KeptIn, new

(* An archive that is old enough may go. *)
LEMMA RemovedKeeps ==
    ASSUME NEW dir, NEW wrote, NEW at \in Nat, NEW n \in Nat, NEW gone, gone # Active,
           gone[2] + logConfig.max_files < at, logConfig.max_files \in Nat, gone[2] \in Int,
           KeptIn(dir, wrote, at, n), WroteOK(wrote, at, n)
    PROVE  KeptIn(Restrict(dir, DOMAIN dir \ {gone}), wrote, at, n)
<1> DEFINE new == Restrict(dir, DOMAIN dir \ {gone})
<1>1. /\ new = [name \in DOMAIN new |-> new[name]]
      /\ DOMAIN new = DOMAIN dir \ {gone}
      /\ \A name \in DOMAIN new : new[name] = dir[name]
  BY DEF Restrict
<1> HIDE DEF new
<1>2. DirOK(new, n)
  <2>1. \A name \in DOMAIN new : (name = Active \/ IsArchive(name)) /\ new[name] \in Seq(LogLine)
    BY <1>1 DEF KeptIn, DirOK
  <2>2. \A name \in DOMAIN new : \A i \in DOMAIN new[name] : new[name][i].number \in 1..n
    BY <1>1 DEF KeptIn, DirOK
  <2>3. \A a, b \in DOMAIN new : \A i \in DOMAIN new[a], m \in DOMAIN new[b] :
            new[a][i].number = new[b][m].number => a = b /\ i = m
    BY <1>1 DEF KeptIn, DirOK
  <2> QED
    BY <1>1, <2>1, <2>2, <2>3 DEF DirOK
<1>3. Placed(new, wrote, at)
  BY <1>1 DEF KeptIn, Placed
<1>4. Ordered(new, wrote)
  BY <1>1 DEF KeptIn, Ordered
<1>5. Found(new, wrote, at)
  <2> SUFFICES ASSUME NEW k \in DOMAIN wrote, wrote[k].part >= at - logConfig.max_files
               PROVE  \E name \in DOMAIN new : \E i \in DOMAIN new[name] : new[name][i] = wrote[k].line
    BY DEF Found
  <2>1. PICK name \in DOMAIN dir : \E i \in DOMAIN dir[name] : dir[name][i] = wrote[k].line
    BY DEF KeptIn, Found
  <2>i. PICK i \in DOMAIN dir[name] : dir[name][i] = wrote[k].line
    BY <2>1
  <2>2. wrote[k].part \in Nat
    BY WroteLines
  <2>3. name # gone
    <3> SUFFICES ASSUME name = gone PROVE FALSE
      OBVIOUS
    <3>1. wrote[k].part <= gone[2]
      BY <2>i DEF KeptIn, Placed
    <3> QED
      BY <2>2, <3>1
  <2>4. name \in DOMAIN new /\ new[name] = dir[name]
    BY <1>1, <2>3
  <2> QED
    BY <2>i, <2>4
<1> QED
  BY <1>2, <1>3, <1>4, <1>5 DEF KeptIn, new

LEMMA OpenedKeeps ==
    ASSUME NEW dir, NEW wrote, NEW at, NEW n, KeptIn(dir, wrote, at, n)
    PROVE  /\ KeptIn(Opened(dir), wrote, at, n) /\ Active \in DOMAIN Opened(dir)
           /\ Opened(dir)[Active] = IF Active \in DOMAIN dir THEN dir[Active] ELSE <<>>
<1> DEFINE new == Opened(dir)
<1>1. /\ new = [name \in DOMAIN new |-> new[name]]
      /\ DOMAIN new = DOMAIN dir \cup {Active}
      /\ \A name \in DOMAIN dir : new[name] = dir[name]
      /\ new[Active] = IF Active \in DOMAIN dir THEN dir[Active] ELSE <<>>
  BY DEF Opened
<1> HIDE DEF new
<1>2. /\ \A name \in DOMAIN new : \A i \in DOMAIN new[name] : name \in DOMAIN dir /\ new[name] = dir[name]
      /\ <<>> \in Seq(LogLine)
  BY <1>1
<1>3. DirOK(new, n)
  <2>1. \A name \in DOMAIN new : (name = Active \/ IsArchive(name)) /\ new[name] \in Seq(LogLine)
    BY <1>1, <1>2 DEF KeptIn, DirOK
  <2>2. \A name \in DOMAIN new : \A i \in DOMAIN new[name] : new[name][i].number \in 1..n
    BY <1>2 DEF KeptIn, DirOK
  <2>3. \A a, b \in DOMAIN new : \A i \in DOMAIN new[a], m \in DOMAIN new[b] :
            new[a][i].number = new[b][m].number => a = b /\ i = m
    BY <1>2 DEF KeptIn, DirOK
  <2> QED
    BY <1>1, <2>1, <2>2, <2>3 DEF DirOK
<1>4. Placed(new, wrote, at)
  BY <1>2 DEF KeptIn, Placed
<1>5. Ordered(new, wrote)
  BY <1>2 DEF KeptIn, Ordered
<1>6. Found(new, wrote, at)
  <2> SUFFICES ASSUME NEW k \in DOMAIN wrote, wrote[k].part >= at - logConfig.max_files
               PROVE  \E name \in DOMAIN new : \E i \in DOMAIN new[name] : new[name][i] = wrote[k].line
    BY DEF Found
  <2>1. PICK name \in DOMAIN dir : \E i \in DOMAIN dir[name] : dir[name][i] = wrote[k].line
    BY DEF KeptIn, Found
  <2>i. PICK i \in DOMAIN dir[name] : dir[name][i] = wrote[k].line
    BY <2>1
  <2>2. name \in DOMAIN new /\ new[name] = dir[name]
    BY <1>1
  <2> QED
    BY <2>i, <2>2
<1> QED
  BY <1>1, <1>3, <1>4, <1>5, <1>6 DEF KeptIn, new

(* A line is added to the active file, and to what was written. *)
LEMMA AppendedKeeps ==
    ASSUME NEW dir, NEW wrote, NEW at \in Nat, NEW n \in Nat, NEW line \in LogLine, line.number = n + 1,
           Active \in DOMAIN dir, KeptIn(dir, wrote, at, n), WroteOK(wrote, at, n)
    PROVE  LET more == Append(wrote, [line |-> line, part |-> at])
           IN  /\ KeptIn([dir EXCEPT ![Active] = Append(@, line)], more, at, n + 1)
               /\ WroteOK(more, at, n + 1)
<1> DEFINE new == [dir EXCEPT ![Active] = Append(@, line)]
           more == Append(wrote, [line |-> line, part |-> at])
           last == Len(wrote) + 1
           end == Len(dir[Active]) + 1
<1>1. wrote \in Seq([line : LogLine, part : Nat]) /\ dir[Active] \in Seq(LogLine)
  BY DEF WroteOK, KeptIn, DirOK
<1>2. [line |-> line, part |-> at] \in [line : LogLine, part : Nat]
  OBVIOUS
<1>3. /\ more \in Seq([line : LogLine, part : Nat]) /\ DOMAIN more = DOMAIN wrote \cup {last} /\ last \notin DOMAIN wrote
      /\ more[last] = [line |-> line, part |-> at] /\ \A k \in DOMAIN wrote : more[k] = wrote[k] /\ k < last /\ k \in Nat
      /\ last \in Nat
  BY <1>1, <1>2
<1>4. /\ new = [name \in DOMAIN new |-> new[name]] /\ DOMAIN new = DOMAIN dir
      /\ new[Active] = Append(dir[Active], line)
      /\ \A name \in DOMAIN dir \ {Active} : new[name] = dir[name]
  BY DEF KeptIn, DirOK
<1>5. /\ new[Active] \in Seq(LogLine) /\ DOMAIN new[Active] = DOMAIN dir[Active] \cup {end} /\ end \notin DOMAIN dir[Active]
      /\ new[Active][end] = line /\ \A i \in DOMAIN dir[Active] : new[Active][i] = dir[Active][i] /\ i < end
  BY <1>1, <1>4
<1> HIDE DEF new, more, last, end
<1>6. ASSUME NEW name \in DOMAIN new, NEW i \in DOMAIN new[name]
      PROVE  \/ name \in DOMAIN dir /\ i \in DOMAIN dir[name] /\ new[name][i] = dir[name][i]
             \/ name = Active /\ i = end /\ new[name][i] = line
  BY <1>4, <1>5
<1>7. \A name \in DOMAIN dir : \A i \in DOMAIN dir[name] :
          dir[name][i].number \in 1..n /\ dir[name][i].number # n + 1 /\ dir[name][i] # line
  <2>1. \A name \in DOMAIN dir : \A i \in DOMAIN dir[name] : dir[name][i].number \in 1..n
    BY DEF KeptIn, DirOK
  <2> QED
    BY <2>1
<1>8. DirOK(new, n + 1)
  <2>1. \A name \in DOMAIN new : (name = Active \/ IsArchive(name)) /\ new[name] \in Seq(LogLine)
    BY <1>4, <1>5 DEF KeptIn, DirOK
  <2>2. \A name \in DOMAIN new : \A i \in DOMAIN new[name] : new[name][i].number \in 1..(n + 1)
    BY <1>6, <1>7
  <2>3. \A a, b \in DOMAIN new : \A i \in DOMAIN new[a], m \in DOMAIN new[b] :
            new[a][i].number = new[b][m].number => a = b /\ i = m
    BY <1>6, <1>7 DEF KeptIn, DirOK
  <2> QED
    BY <1>4, <2>1, <2>2, <2>3 DEF DirOK
<1>9. /\ \A k \in DOMAIN wrote : wrote[k].line.number \in 1..n /\ wrote[k].part \in Nat /\ wrote[k].part <= at
      /\ \A k \in DOMAIN wrote : wrote[k].line # line
  BY WroteLines
<1>10. WroteOK(more, at, n + 1)
  <2>1. \A k \in DOMAIN more : more[k].line.number \in 1..(n + 1) /\ more[k].part <= at
    BY <1>3, <1>9
  <2>2. \A j, k \in DOMAIN more : j < k => more[j].line.number < more[k].line.number
    <3> SUFFICES ASSUME NEW j \in DOMAIN more, NEW k \in DOMAIN more, j < k
                 PROVE  more[j].line.number < more[k].line.number
      OBVIOUS
    <3>1. j \in DOMAIN wrote
      BY <1>3
    <3>2. CASE k \in DOMAIN wrote
      BY <1>3, <3>1, <3>2 DEF WroteOK
    <3>3. CASE k = last
      BY <1>3, <1>9, <3>1, <3>3
    <3> QED
      BY <1>3, <3>2, <3>3
  <2> QED
    BY <1>3, <2>1, <2>2 DEF WroteOK
<1>11. Placed(new, more, at)
  <2> SUFFICES ASSUME NEW name \in DOMAIN new \ {Active}, NEW i \in DOMAIN new[name], NEW k \in DOMAIN more,
                      new[name][i] = more[k].line
               PROVE  more[k].part <= name[2] /\ name[2] < at
    BY DEF Placed
  <2>1. name \in DOMAIN dir \ {Active} /\ i \in DOMAIN dir[name] /\ new[name][i] = dir[name][i]
    BY <1>4, <1>6
  <2>2. new[name][i] # line
    BY <1>7, <2>1
  <2>3. k \in DOMAIN wrote
    BY <1>3, <2>2
  <2> QED
    BY <1>3, <2>1, <2>3 DEF KeptIn, Placed
<1>12. Ordered(new, more)
  <2> SUFFICES ASSUME NEW a \in DOMAIN new, NEW b \in DOMAIN new, NEW i \in DOMAIN new[a], NEW m \in DOMAIN new[b],
                      NEW j \in DOMAIN more, NEW k \in DOMAIN more, j < k,
                      new[a][i] = more[j].line, new[b][m] = more[k].line
               PROVE  Sooner(a, i, b, m)
    BY DEF Ordered
  <2>1. j \in DOMAIN wrote /\ more[j] = wrote[j]
    BY <1>3
  <2>2. a \in DOMAIN dir /\ i \in DOMAIN dir[a] /\ new[a][i] = dir[a][i]
    BY <1>6, <1>9, <2>1
  <2>3. CASE k \in DOMAIN wrote
    <3>1. b \in DOMAIN dir /\ m \in DOMAIN dir[b] /\ new[b][m] = dir[b][m] /\ more[k] = wrote[k]
      BY <1>3, <1>6, <1>9, <2>3
    <3> QED
      BY <2>1, <2>2, <2>3, <3>1 DEF KeptIn, Ordered
  <2>4. CASE k = last
    <3>1. b = Active /\ m = end
      BY <1>3, <1>6, <1>7, <2>4
    <3> QED
      BY <1>5, <2>2, <3>1 DEF Sooner
  <2> QED
    BY <1>3, <2>3, <2>4
<1>13. Found(new, more, at)
  <2> SUFFICES ASSUME NEW k \in DOMAIN more, more[k].part >= at - logConfig.max_files
               PROVE  \E name \in DOMAIN new : \E i \in DOMAIN new[name] : new[name][i] = more[k].line
    BY DEF Found
  <2>1. CASE k = last
    BY <1>3, <1>4, <1>5, <2>1
  <2>2. CASE k \in DOMAIN wrote
    <3>1. PICK name \in DOMAIN dir : \E i \in DOMAIN dir[name] : dir[name][i] = wrote[k].line
      BY <1>3, <2>2 DEF KeptIn, Found
    <3>i. PICK i \in DOMAIN dir[name] : dir[name][i] = wrote[k].line
      BY <3>1
    <3>2. name \in DOMAIN new /\ i \in DOMAIN new[name] /\ new[name][i] = dir[name][i]
      BY <1>4, <1>5, <3>i
    <3> QED
      BY <1>3, <2>2, <3>i, <3>2
  <2> QED
    BY <1>3, <2>1, <2>2
<1> QED
  BY <1>8, <1>10, <1>11, <1>12, <1>13 DEF KeptIn, new, more

(* The clock of lines, or the index without a rename, goes on. *)
LEMMA LaterKeeps ==
    ASSUME NEW dir, NEW wrote, NEW at \in Nat, NEW n \in Nat, NEW next \in {at, at + 1}, NEW more \in {n, n + 1},
           logConfig.max_files \in Nat, KeptIn(dir, wrote, at, n), WroteOK(wrote, at, n)
    PROVE  KeptIn(dir, wrote, next, more) /\ WroteOK(wrote, next, more)
<1>1. next \in Nat /\ at <= next /\ 1..n \subseteq 1..more
  OBVIOUS
<1>2. DirOK(dir, more)
  BY <1>1 DEF KeptIn, DirOK
<1>3. Placed(dir, wrote, next)
  <2> SUFFICES ASSUME NEW name \in DOMAIN dir \ {Active}, NEW i \in DOMAIN dir[name], NEW k \in DOMAIN wrote,
                      dir[name][i] = wrote[k].line
               PROVE  wrote[k].part <= name[2] /\ name[2] < next
    BY DEF Placed
  <2>1. wrote[k].part <= name[2] /\ name[2] < at
    BY DEF KeptIn, Placed
  <2>2. name[2] \in Nat
    BY DEF KeptIn, DirOK, IsArchive
  <2> QED
    BY <1>1, <2>1, <2>2
<1>4. Found(dir, wrote, next)
  <2>1. \A k \in DOMAIN wrote : wrote[k].part \in Nat
    BY WroteLines
  <2>2. \A k \in DOMAIN wrote : wrote[k].part >= next - logConfig.max_files => wrote[k].part >= at - logConfig.max_files
    BY <1>1, <2>1
  <2> QED
    BY <2>2 DEF KeptIn, Found
<1>5. WroteOK(wrote, next, more)
  <2>1. \A k \in DOMAIN wrote : wrote[k].part \in Nat /\ wrote[k].part <= at /\ wrote[k].line.number \in 1..n
    BY WroteLines
  <2>2. \A k \in DOMAIN wrote : wrote[k].line.number \in 1..more /\ wrote[k].part <= next
    BY <1>1, <2>1
  <2> QED
    BY <2>2 DEF WroteOK
<1> QED
  BY <1>2, <1>3, <1>4, <1>5 DEF KeptIn

(* A new process has written nothing. *)
LEMMA ForgetKeeps ==
    ASSUME NEW dir, NEW n \in Nat, DirOK(dir, n)
    PROVE  KeptIn(dir, <<>>, 0, n) /\ WroteOK(<<>>, 0, n)
<1>1. DOMAIN <<>> = {} /\ <<>> \in Seq([line : LogLine, part : Nat])
  OBVIOUS
<1>2. WroteOK(<<>>, 0, n)
  BY <1>1 DEF WroteOK
<1>3. Placed(dir, <<>>, 0) /\ Ordered(dir, <<>>) /\ Found(dir, <<>>, 0)
  BY <1>1 DEF Placed, Ordered, Found
<1> QED
  BY <1>2, <1>3 DEF KeptIn

LEMMA RetainedKeeps ==
    ASSUME NEW dir, NEW wrote, NEW at \in Nat, NEW n \in Nat, NEW later, logConfig.max_files \in Nat,
           KeptIn(dir, wrote, at + 1, n), WroteOK(wrote, at + 1, n)
    PROVE  /\ KeptIn(Retained(dir, at, later), wrote, at + 1, n)
           /\ Active \in DOMAIN Retained(dir, at, later) => Active \in DOMAIN dir
<1>1. CASE at < logConfig.max_files
  BY <1>1 DEF Retained
<1>2. CASE at >= logConfig.max_files
  <2> DEFINE gone == Archive(at - logConfig.max_files, later)
             new == Restrict(dir, DOMAIN dir \ {gone})
  <2>1. gone # Active /\ gone[2] = at - logConfig.max_files
    BY ArchiveIsNot DEF Archive
  <2>2. Retained(dir, at, later) = new /\ DOMAIN new = DOMAIN dir \ {gone}
    BY <1>2 DEF Retained, Restrict
  <2>3. at + 1 \in Nat /\ gone[2] \in Int /\ gone[2] + logConfig.max_files < at + 1
    BY <2>1
  <2> HIDE DEF gone
  <2>4. KeptIn(new, wrote, at + 1, n)
    BY <2>1, <2>3, RemovedKeeps
  <2> QED
    BY <2>2, <2>4
<1> QED
  BY <1>1, <1>2

LEMMA FailedClears ==
    ASSUME NEW dir, NEW wrote, NEW at \in Nat, NEW n \in Nat, NEW failed, logConfig.max_files \in Nat,
           DirOK(dir, n), Cleared(dir, wrote, at, failed)
    PROVE  Cleared(dir, wrote, at + 1, failed \cup {at})
<1> SUFFICES ASSUME ~logConfig.timestamp_suffix, NEW name \in DOMAIN dir \ {Active}
             PROVE  /\ name[1] = 0
                    /\ Mine(dir, name, wrote) =>
                          \/ name[2] + logConfig.max_files >= at + 1
                          \/ name[2] + logConfig.max_files \in failed \cup {at}
  BY DEF Cleared
<1>1. name[2] \in Nat
  BY DEF DirOK, IsArchive
<1>2. /\ name[1] = 0
      /\ Mine(dir, name, wrote) => name[2] + logConfig.max_files >= at \/ name[2] + logConfig.max_files \in failed
  BY DEF Cleared
<1> QED
  BY <1>1, <1>2

LEMMA RenamedClears ==
    ASSUME NEW dir, NEW wrote, NEW at \in Nat, NEW n \in Nat, NEW failed, NEW s, NEW later,
           logConfig.max_files \in Nat, logConfig.timestamp_suffix \in BOOLEAN,
           DirOK(dir, n), Cleared(dir, wrote, at, failed)
    PROVE  Cleared(Retained(Renamed(dir, Archive(at, s)), at, later), wrote, at + 1, failed)
<1> DEFINE to == <<0, at>>
           mid == Renamed(dir, to)
           gone == <<0, at - logConfig.max_files>>
           new == Retained(mid, at, later)
<1> SUFFICES ASSUME ~logConfig.timestamp_suffix, NEW name \in DOMAIN Retained(Renamed(dir, Archive(at, s)), at, later) \ {Active}
             PROVE  /\ name[1] = 0
                    /\ Mine(Retained(Renamed(dir, Archive(at, s)), at, later), name, wrote) =>
                          name[2] + logConfig.max_files >= at + 1 \/ name[2] + logConfig.max_files \in failed
  BY DEF Cleared
<1>1. Archive(at, s) = to /\ Archive(at - logConfig.max_files, later) = gone
  BY DEF Archive
<1>2. to[1] = 0 /\ to[2] = at /\ gone[1] = 0 /\ gone[2] = at - logConfig.max_files
  BY ArchiveIsNot
<1>3. /\ DOMAIN mid = (DOMAIN dir \ {Active}) \cup {to}
      /\ \A m \in DOMAIN mid : m # to => mid[m] = dir[m]
  BY DEF Renamed
<1> HIDE DEF mid
<1>4. name \in DOMAIN mid \ {Active} /\ new[name] = mid[name] /\ (at >= logConfig.max_files => name # gone)
  <2>1. name \in DOMAIN new \ {Active}
    BY <1>1 DEF mid
  <2>2. CASE at >= logConfig.max_files
    BY <1>1, <2>1, <2>2 DEF Retained, Restrict
  <2>3. CASE at < logConfig.max_files
    BY <2>1, <2>3 DEF Retained
  <2> QED
    BY <2>2, <2>3
<1>5. Retained(Renamed(dir, Archive(at, s)), at, later) = new
  BY <1>1 DEF mid
<1> HIDE DEF new
<1>6. CASE name = to
  <2>1. logConfig.max_files # 0
    <3> SUFFICES ASSUME logConfig.max_files = 0 PROVE FALSE
      OBVIOUS
    <3>1. gone = to /\ at >= logConfig.max_files
      OBVIOUS
    <3> QED
      BY <1>4, <1>6, <3>1
  <2> QED
    BY <1>2, <1>6, <2>1
<1>7. CASE name # to
  <2>1. name \in DOMAIN dir \ {Active} /\ new[name] = dir[name]
    BY <1>3, <1>4, <1>7
  <2>2. IsArchive(name)
    BY <2>1 DEF DirOK
  <2>3. name[1] = 0
    BY <2>1 DEF Cleared
  <2>4. ASSUME Mine(new, name, wrote)
        PROVE  name[2] + logConfig.max_files >= at + 1 \/ name[2] + logConfig.max_files \in failed
    <3>1. name[2] + logConfig.max_files >= at \/ name[2] + logConfig.max_files \in failed
      BY <2>1, <2>4 DEF Cleared, Mine
    <3>2. name = <<0, name[2]>> /\ name[2] \in Nat
      BY <2>2, <2>3 DEF IsArchive
    <3>3. name[2] + logConfig.max_files # at
      <4> SUFFICES ASSUME name[2] + logConfig.max_files = at PROVE FALSE
        OBVIOUS
      <4>1. at >= logConfig.max_files /\ name[2] = at - logConfig.max_files
        BY <3>2
      <4> QED
        BY <1>4, <3>2, <4>1
    <3> QED
      BY <3>1, <3>2, <3>3
  <2> QED
    BY <1>5, <2>3, <2>4
<1> QED
  BY <1>6, <1>7

LEMMA OpenedClears ==
    ASSUME NEW dir, NEW wrote, NEW at, NEW failed, Cleared(dir, wrote, at, failed)
    PROVE  Cleared(Opened(dir), wrote, at, failed)
  BY DEF Cleared, Opened, Mine

LEMMA AppendedClears ==
    ASSUME NEW dir, NEW wrote, NEW at \in Nat, NEW n \in Nat, NEW failed, NEW line \in LogLine, line.number = n + 1,
           Active \in DOMAIN dir, DirOK(dir, n), WroteOK(wrote, at, n), Cleared(dir, wrote, at, failed)
    PROVE  Cleared([dir EXCEPT ![Active] = Append(@, line)], Append(wrote, [line |-> line, part |-> at]), at, failed)
<1> DEFINE new == [dir EXCEPT ![Active] = Append(@, line)]
           more == Append(wrote, [line |-> line, part |-> at])
<1>1. DOMAIN new = DOMAIN dir /\ \A name \in DOMAIN dir \ {Active} : new[name] = dir[name]
  BY DEF DirOK
<1>2. \A k \in DOMAIN more : (k \in DOMAIN wrote /\ more[k] = wrote[k]) \/ more[k].line = line
  <2>1. wrote \in Seq([line : LogLine, part : Nat])
    BY DEF WroteOK
  <2> QED
    BY <2>1
<1>3. \A name \in DOMAIN dir : \A i \in DOMAIN dir[name] : dir[name][i] # line
  <2>1. \A name \in DOMAIN dir : \A i \in DOMAIN dir[name] : dir[name][i].number \in 1..n
    BY DEF DirOK
  <2> QED
    BY <2>1
<1> HIDE DEF new, more
<1>4. \A name \in DOMAIN dir \ {Active} : Mine(new, name, more) => Mine(dir, name, wrote)
  BY <1>1, <1>2, <1>3 DEF Mine
<1>5. Cleared(new, more, at, failed)
  BY <1>1, <1>4 DEF Cleared
<1> QED
  BY <1>5 DEF new, more

-----------------------------------------------------------------------------
(* The log's invariant is more than LogKeeps: that lines of one number are one *)
(* line, that an archive holds no line of a later part and of this process     *)
(* only lines from before the index, and that names without times share theirs *)
(* are what keeps a rename, the removal after it and an append from            *)
(* overtaking or losing a line.                                                *)

OpenWriter == writer = "open" => Active \in DOMAIN files /\ size = SizeOf(files[Active])

Fits == Active \in DOMAIN files /\ Len(files[Active]) > 1 => SizeOf(files[Active]) <= logConfig.max_file_size

LogCounters ==
    /\ logConfig \in LogConfigs /\ writer \in {"none", "open", "closed"}
    /\ size \in Nat /\ index \in Nat /\ stamp \in 1..MaxStamp /\ lines \in 0..MaxLines

LogInv ==
    /\ LogCounters
    /\ KeptIn(files, written, index, lines) /\ WroteOK(written, index, lines)
    /\ Cleared(files, written, index, skipped)
    /\ OpenWriter /\ Fits

(* The configuration is one the assumption is about. *)
LEMMA Configured ==
    ASSUME LogInv
    PROVE  /\ logConfig.max_files \in Nat /\ logConfig.max_file_size \in Nat /\ logConfig.timestamp_suffix \in BOOLEAN
           /\ index \in Nat /\ lines \in Nat /\ stamp \in 0..MaxStamp /\ size \in Nat /\ MaxStamp \in Nat /\ MaxLines \in Nat
  BY LogRotationAssumption DEF LogInv, LogCounters

(* The directory once the active file was archived, or without one. *)
Archived(later) ==
    IF Active \in DOMAIN files THEN Retained(Renamed(files, Archive(index, stamp)), index, later) ELSE files

NextIndex == IF Active \in DOMAIN files THEN index + 1 ELSE index

LEMMA ArchivedKeeps ==
    ASSUME LogInv, NEW later
    PROVE  /\ KeptIn(Archived(later), written, NextIndex, lines) /\ WroteOK(written, NextIndex, lines)
           /\ Cleared(Archived(later), written, NextIndex, skipped)
           /\ Active \notin DOMAIN Archived(later) /\ NextIndex \in Nat
<1>1. CASE Active \in DOMAIN files
  <2> DEFINE to == Archive(index, stamp)
             mid == Renamed(files, to)
             new == Retained(mid, index, later)
  <2>1. Archived(later) = new /\ NextIndex = index + 1
    BY <1>1 DEF Archived, NextIndex
  <2>2. to = <<to[1], index>> /\ to[1] \in 0..MaxStamp
    BY Configured, ArchiveIsNot DEF Archive
  <2>3. KeptIn(files, written, index, lines) /\ WroteOK(written, index, lines) /\ Cleared(files, written, index, skipped)
        /\ DirOK(files, lines)
    BY DEF LogInv, KeptIn
  <2>4. Cleared(new, written, index + 1, skipped)
    BY <2>3, Configured, RenamedClears
  <2> HIDE DEF to
  <2>5. KeptIn(mid, written, index + 1, lines) /\ Active \notin DOMAIN mid
    BY <1>1, <2>2, <2>3, Configured, RenamedKeeps
  <2>6. index + 1 \in {index, index + 1} /\ lines \in {lines, lines + 1}
    OBVIOUS
  <2>7. WroteOK(written, index + 1, lines)
    BY <2>3, <2>6, Configured, LaterKeeps
  <2> HIDE DEF mid
  <2>8. KeptIn(new, written, index + 1, lines) /\ Active \notin DOMAIN new
    BY <2>5, <2>7, Configured, RetainedKeeps
  <2> QED
    BY <2>1, <2>4, <2>7, <2>8, Configured
<1>2. CASE Active \notin DOMAIN files
  BY <1>2, Configured DEF Archived, NextIndex, LogInv
<1> QED
  BY <1>1, <1>2

(* What a rotation leaves, done or failed. *)
RotatedOK(r) ==
    /\ KeptIn(r.files, written, r.index, lines) /\ WroteOK(written, r.index, lines)
    /\ Cleared(r.files, written, r.index, Skips(r))
    /\ r.index \in Nat /\ r.size \in Nat /\ r.stamp \in {stamp, stamp + 1}
    /\ r.result = "done" => Active \in DOMAIN r.files /\ r.files[Active] = <<>> /\ r.size = 0
    /\ r.result # "done" => Active \notin DOMAIN r.files \/ r.files = files

LEMMA RotationsKeep ==
    ASSUME LogInv, NEW r \in Rotations
    PROVE  RotatedOK(r)
<1>1. \/ \E later \in {stamp, stamp + 1} :
            r = [result |-> "done", files |-> Opened(Archived(later)), size |-> 0, index |-> NextIndex, stamp |-> later]
      \/ r = [result |-> "open", files |-> Archived(stamp), size |-> size, index |-> NextIndex, stamp |-> stamp]
      \/ /\ r = [result |-> "rename", files |-> files, size |-> size, index |-> NextIndex, stamp |-> stamp]
         /\ Active \in DOMAIN files
  BY DEF Rotations, Archived, NextIndex
<1>2. CASE \E later \in {stamp, stamp + 1} :
             r = [result |-> "done", files |-> Opened(Archived(later)), size |-> 0, index |-> NextIndex, stamp |-> later]
  <2>1. PICK later \in {stamp, stamp + 1} :
             r = [result |-> "done", files |-> Opened(Archived(later)), size |-> 0, index |-> NextIndex, stamp |-> later]
    BY <1>2
  <2> DEFINE dir == Archived(later)
             next == NextIndex
  <2>2. /\ KeptIn(dir, written, next, lines) /\ WroteOK(written, next, lines)
        /\ Cleared(dir, written, next, skipped) /\ Active \notin DOMAIN dir /\ next \in Nat
    BY ArchivedKeeps
  <2>3. r.result = "done" /\ r.files = Opened(dir) /\ r.size = 0 /\ r.index = next /\ r.stamp = later
    BY <2>1
  <2> HIDE DEF dir, next
  <2>4. /\ KeptIn(Opened(dir), written, next, lines) /\ Active \in DOMAIN Opened(dir) /\ Opened(dir)[Active] = <<>>
        /\ Cleared(Opened(dir), written, next, skipped)
    BY <2>2, OpenedKeeps, OpenedClears
  <2>5. Skips(r) = skipped
    BY <2>3 DEF Skips
  <2> QED
    BY <2>2, <2>3, <2>4, <2>5 DEF RotatedOK
<1>3. CASE r = [result |-> "open", files |-> Archived(stamp), size |-> size, index |-> NextIndex, stamp |-> stamp]
  <2>1. r.result = "open" /\ r.files = Archived(stamp) /\ r.size = size /\ r.index = NextIndex /\ r.stamp = stamp
    BY <1>3
  <2>2. Skips(r) = skipped
    BY <2>1 DEF Skips
  <2> QED
    BY <2>1, <2>2, Configured, ArchivedKeeps DEF RotatedOK
<1>4. CASE /\ r = [result |-> "rename", files |-> files, size |-> size, index |-> NextIndex, stamp |-> stamp]
           /\ Active \in DOMAIN files
  <2>1. r.result = "rename" /\ r.files = files /\ r.size = size /\ r.index = index + 1 /\ r.stamp = stamp
    BY <1>4 DEF NextIndex
  <2>2. Skips(r) = skipped \cup {index}
    BY <2>1 DEF Skips
  <2>3. index + 1 \in {index, index + 1} /\ lines \in {lines, lines + 1}
    OBVIOUS
  <2>4. KeptIn(files, written, index, lines) /\ WroteOK(written, index, lines) /\ Cleared(files, written, index, skipped)
        /\ DirOK(files, lines)
    BY DEF LogInv, KeptIn
  <2>5. KeptIn(files, written, index + 1, lines) /\ WroteOK(written, index + 1, lines)
    BY <2>3, <2>4, Configured, LaterKeeps
  <2>6. Cleared(files, written, index + 1, skipped \cup {index})
    BY <2>4, Configured, FailedClears
  <2> QED
    BY <2>1, <2>2, <2>5, <2>6, Configured DEF RotatedOK
<1> QED
  BY <1>1, <1>2, <1>3, <1>4

LEMMA KeptNext ==
    ASSUME logConfig' = logConfig, KeptIn(files', written', index', lines'), WroteOK(written', index', lines'),
           Cleared(files', written', index', skipped')
    PROVE  KeptIn(files, written, index, lines)' /\ WroteOK(written, index, lines)'
           /\ Cleared(files, written, index, skipped)'
  BY DEF KeptIn, DirOK, Placed, Ordered, Found, Cleared, Mine, WroteOK

LEMMA ActiveLines ==
    ASSUME NEW dir, NEW n, DirOK(dir, n), Active \in DOMAIN dir
    PROVE  dir[Active] \in Seq(LogLine) /\ SizeOf(dir[Active]) \in Nat
<1>1. dir[Active] \in Seq(LogLine)
  BY DEF DirOK
<1>2. [number |-> 0, size |-> 0] \in LogLine
  BY DEF LogLine
<1> DEFINE file == dir[Active]
           line == [number |-> 0, size |-> 0]
<1> HIDE DEF file, line
<1>3. file \in Seq(LogLine) /\ line \in LogLine
  BY <1>1, <1>2 DEF file, line
<1>4. SizeOf(file) \in Nat
  BY <1>3, SizeGrows
<1> QED
  BY <1>1, <1>4 DEF file

(* A line added to an active file of a known size. *)
LEMMA LineAdded ==
    ASSUME NEW dir, NEW n, NEW line \in LogLine, DirOK(dir, n), Active \in DOMAIN dir
    PROVE  LET new == [dir EXCEPT ![Active] = Append(@, line)]
           IN  /\ Active \in DOMAIN new /\ SizeOf(new[Active]) = SizeOf(dir[Active]) + line.size
               /\ Len(new[Active]) = Len(dir[Active]) + 1
<1> DEFINE file == dir[Active]
           new == [dir EXCEPT ![Active] = Append(@, line)]
<1>1. file \in Seq(LogLine)
  BY ActiveLines
<1>2. new[Active] = Append(file, line) /\ Active \in DOMAIN new
  BY DEF DirOK
<1> HIDE DEF file, new
<1>3. SizeOf(Append(file, line)) = SizeOf(file) + line.size /\ Len(Append(file, line)) = Len(file) + 1
  BY <1>1, SizeGrows
<1> QED
  BY <1>2, <1>3 DEF file, new

LEMMA InitLog == ASSUME LogInit PROVE LogInv
<1>1. DOMAIN files = {} /\ files = [name \in DOMAIN files |-> files[name]]
  BY DEF LogInit
<1>2. DirOK(files, 0)
  BY <1>1 DEF DirOK
<1>3. KeptIn(files, <<>>, 0, 0) /\ WroteOK(<<>>, 0, 0)
  BY <1>2, ForgetKeeps
<1>4. Cleared(files, <<>>, 0, {})
  BY <1>1 DEF Cleared
<1>5. OpenWriter /\ Fits
  BY <1>1 DEF LogInit, OpenWriter, Fits
<1>6. LogCounters
  BY LogRotationAssumption DEF LogInit, LogCounters
<1> QED
  BY <1>3, <1>4, <1>5, <1>6 DEF LogInit, LogInv

LEMMA OpenLogKeeps == ASSUME LogInv, OpenLog PROVE LogInv'
<1>1. /\ files' = Opened(files) /\ writer' = "open" /\ size' = SizeOf(files'[Active]) /\ index' = 0
      /\ written' = <<>> /\ skipped' = {} /\ logConfig' = logConfig /\ stamp' = stamp /\ lines' = lines
  BY DEF OpenLog
<1>2. KeptIn(Opened(files), written, index, lines) /\ Active \in DOMAIN Opened(files)
      /\ Opened(files)[Active] = IF Active \in DOMAIN files THEN files[Active] ELSE <<>>
  BY OpenedKeeps DEF LogInv
<1>3. DirOK(files', lines) /\ Active \in DOMAIN files'
  BY <1>1, <1>2 DEF KeptIn
<1>4. KeptIn(files', <<>>, 0, lines) /\ WroteOK(<<>>, 0, lines)
  BY <1>3, Configured, ForgetKeeps
<1>5. Cleared(files', <<>>, 0, {})
  <2>1. Cleared(files', written, index, skipped)
    BY <1>1, OpenedClears DEF LogInv
  <2>2. DOMAIN <<>> = {}
    OBVIOUS
  <2> QED
    BY <2>1, <2>2 DEF Cleared, Mine
<1>6. OpenWriter'
  BY <1>1, <1>3 DEF OpenWriter
<1>7. Fits'
  <2>1. CASE Active \in DOMAIN files
    BY <1>1, <1>2, <2>1 DEF LogInv, Fits
  <2>2. CASE Active \notin DOMAIN files
    <3>1. Len(files'[Active]) = 0
      BY <1>1, <1>2, <2>2
    <3> QED
      BY <3>1 DEF Fits
  <2> QED
    BY <2>1, <2>2
<1>8. LogCounters'
  <2>1. SizeOf(files'[Active]) \in Nat
    BY <1>3, ActiveLines
  <2> QED
    BY <1>1, <2>1 DEF LogInv, LogCounters
<1> QED
  BY <1>1, <1>4, <1>5, <1>6, <1>7, <1>8, KeptNext DEF LogInv

LEMMA NewLine ==
    ASSUME LogInv, NEW bytes \in LineSizes
    PROVE  Line(bytes) \in LogLine /\ Line(bytes).number = lines + 1 /\ Line(bytes).size = bytes /\ bytes \in Nat
  BY Configured, LogRotationAssumption DEF Line, LogLine

LEMMA WriteLineKeeps == ASSUME LogInv, WriteLine PROVE LogInv'
<1>1. PICK bytes \in LineSizes :
          /\ ~TooLong(Line(bytes))
          /\ IF writer = "open"
             THEN /\ files' = [files EXCEPT ![Active] = Append(@, Line(bytes))]
                  /\ size' = size + bytes
                  /\ written' = Append(written, [line |-> Line(bytes), part |-> index])
             ELSE UNCHANGED <<files, size, written>>
  BY DEF WriteLine
<1>2. /\ lines' = lines + 1 /\ lines < MaxLines
      /\ logConfig' = logConfig /\ writer' = writer /\ index' = index /\ stamp' = stamp /\ skipped' = skipped
  BY DEF WriteLine
<1>3. KeptIn(files, written, index, lines) /\ WroteOK(written, index, lines) /\ Cleared(files, written, index, skipped)
      /\ DirOK(files, lines)
  BY DEF LogInv, KeptIn
<1> DEFINE line == Line(bytes)
<1>4. line \in LogLine /\ line.number = lines + 1 /\ line.size = bytes /\ bytes \in Nat
  BY NewLine
<1>5. CASE writer = "open"
  <2>1. Active \in DOMAIN files /\ size = SizeOf(files[Active])
    BY <1>5 DEF LogInv, OpenWriter
  <2>2. /\ files' = [files EXCEPT ![Active] = Append(@, line)] /\ size' = size + bytes
        /\ written' = Append(written, [line |-> line, part |-> index])
    BY <1>1, <1>5
  <2>3. size + bytes <= logConfig.max_file_size
    BY <1>1, <1>4, Configured DEF TooLong
  <2> HIDE DEF line
  <2>4. KeptIn(files', written', index, lines + 1) /\ WroteOK(written', index, lines + 1)
    BY <1>3, <1>4, <2>1, <2>2, Configured, AppendedKeeps
  <2>5. Cleared(files', written', index, skipped)
    BY <1>3, <1>4, <2>1, <2>2, Configured, AppendedClears
  <2>6. Active \in DOMAIN files' /\ SizeOf(files'[Active]) = size + bytes
    BY <1>3, <1>4, <2>1, <2>2, LineAdded
  <2>7. OpenWriter' /\ Fits'
    BY <1>2, <2>2, <2>3, <2>6 DEF OpenWriter, Fits
  <2>8. LogCounters'
    BY <1>2, <1>4, <2>2, Configured DEF LogInv, LogCounters
  <2> QED
    BY <1>2, <2>4, <2>5, <2>7, <2>8, KeptNext DEF LogInv
<1>6. CASE writer # "open"
  <2>1. files' = files /\ size' = size /\ written' = written
    BY <1>1, <1>6
  <2>2. index \in {index, index + 1} /\ lines + 1 \in {lines, lines + 1}
    OBVIOUS
  <2>3. KeptIn(files, written, index, lines + 1) /\ WroteOK(written, index, lines + 1)
    BY <1>3, <2>2, Configured, LaterKeeps
  <2>4. OpenWriter' /\ Fits'
    BY <1>2, <1>6, <2>1 DEF LogInv, OpenWriter, Fits
  <2>5. LogCounters'
    BY <1>2, <2>1, Configured DEF LogInv, LogCounters
  <2> QED
    BY <1>2, <1>3, <2>1, <2>3, <2>4, <2>5, KeptNext DEF LogInv
<1> QED
  BY <1>5, <1>6

LEMMA WriteLongKeeps == ASSUME LogInv, WriteLong PROVE LogInv'
<1>1. PICK bytes \in LineSizes, r \in Rotations :
          /\ TooLong(Line(bytes)) /\ r.stamp <= MaxStamp
          /\ index' = r.index /\ stamp' = r.stamp /\ skipped' = Skips(r)
          /\ IF r.result = "done"
             THEN /\ files' = [r.files EXCEPT ![Active] = Append(@, Line(bytes))]
                  /\ size' = r.size + bytes /\ writer' = "open"
                  /\ written' = Append(written, [line |-> Line(bytes), part |-> r.index])
             ELSE files' = r.files /\ size' = r.size /\ writer' = "closed" /\ UNCHANGED written
  BY DEF WriteLong
<1>2. lines' = lines + 1 /\ lines < MaxLines /\ logConfig' = logConfig
  BY DEF WriteLong
<1>3. RotatedOK(r)
  BY RotationsKeep
<1> DEFINE line == Line(bytes)
           dir == r.files
           next == r.index
           failed == Skips(r)
<1>4. line \in LogLine /\ line.number = lines + 1 /\ line.size = bytes /\ bytes \in Nat
  BY NewLine
<1>5. /\ KeptIn(dir, written, next, lines) /\ WroteOK(written, next, lines) /\ Cleared(dir, written, next, failed)
      /\ DirOK(dir, lines) /\ next \in Nat
      /\ index' = next /\ skipped' = failed
  BY <1>1, <1>3 DEF RotatedOK, KeptIn
<1>6. stamp' \in 1..MaxStamp /\ r.size \in Nat
  BY <1>1, <1>3, Configured DEF RotatedOK, LogInv, LogCounters
<1>7. CASE r.result = "done"
  <2>1. Active \in DOMAIN dir /\ dir[Active] = <<>> /\ r.size = 0
    BY <1>3, <1>7 DEF RotatedOK
  <2>2. /\ files' = [dir EXCEPT ![Active] = Append(@, line)] /\ size' = 0 + bytes /\ writer' = "open"
        /\ written' = Append(written, [line |-> line, part |-> next])
    BY <1>1, <1>7, <2>1
  <2> HIDE DEF line, dir, next, failed
  <2>3. KeptIn(files', written', next, lines + 1) /\ WroteOK(written', next, lines + 1)
    BY <1>4, <1>5, <2>1, <2>2, Configured, AppendedKeeps
  <2>4. Cleared(files', written', next, failed)
    BY <1>4, <1>5, <2>1, <2>2, Configured, AppendedClears
  <2>5. Active \in DOMAIN files' /\ SizeOf(files'[Active]) = SizeOf(<<>>) + bytes /\ Len(files'[Active]) = 1
    <3>1. /\ Active \in DOMAIN files' /\ SizeOf(files'[Active]) = SizeOf(dir[Active]) + line.size
          /\ Len(files'[Active]) = Len(dir[Active]) + 1
      BY <1>4, <1>5, <2>1, <2>2, LineAdded
    <3>2. Len(<<>>) = 0
      OBVIOUS
    <3> QED
      BY <1>4, <2>1, <3>1, <3>2
  <2>6. OpenWriter' /\ Fits'
    BY <2>2, <2>5, SizeOfNothing DEF OpenWriter, Fits
  <2>7. LogCounters'
    BY <1>2, <1>4, <1>5, <1>6, <2>2, Configured DEF LogInv, LogCounters
  <2> QED
    BY <1>2, <1>5, <2>3, <2>4, <2>6, <2>7, KeptNext DEF LogInv
<1>8. CASE r.result # "done"
  <2>1. files' = dir /\ size' = r.size /\ written' = written /\ writer' = "closed"
    BY <1>1, <1>8
  <2>2. Active \notin DOMAIN dir \/ dir = files
    BY <1>3, <1>8 DEF RotatedOK
  <2> HIDE DEF line, dir, next, failed
  <2>3. next \in {next, next + 1} /\ lines + 1 \in {lines, lines + 1}
    OBVIOUS
  <2>4. KeptIn(dir, written, next, lines + 1) /\ WroteOK(written, next, lines + 1)
    BY <1>5, <2>3, Configured, LaterKeeps
  <2>5. OpenWriter' /\ Fits'
    BY <1>2, <2>1, <2>2 DEF LogInv, OpenWriter, Fits
  <2>6. LogCounters'
    BY <1>2, <1>5, <1>6, <2>1, Configured DEF LogInv, LogCounters
  <2> QED
    BY <1>2, <1>5, <2>1, <2>4, <2>5, <2>6, KeptNext DEF LogInv
<1> QED
  BY <1>7, <1>8

LEMMA RotateLogKeeps == ASSUME LogInv, RotateLog PROVE LogInv'
<1>1. PICK r \in Rotations :
          /\ r.stamp <= MaxStamp
          /\ files' = r.files /\ size' = r.size /\ index' = r.index /\ stamp' = r.stamp
          /\ writer' = (IF r.result = "done" THEN "open" ELSE "closed") /\ skipped' = Skips(r)
  BY DEF RotateLog
<1>2. lines' = lines /\ written' = written /\ logConfig' = logConfig
  BY DEF RotateLog
<1>3. RotatedOK(r)
  BY RotationsKeep
<1>4. /\ KeptIn(files', written', index', lines') /\ WroteOK(written', index', lines')
      /\ Cleared(files', written', index', skipped') /\ index' \in Nat
  BY <1>1, <1>2, <1>3 DEF RotatedOK
<1>5. stamp' \in 1..MaxStamp /\ size' \in Nat
  BY <1>1, <1>3, Configured DEF RotatedOK, LogInv, LogCounters
<1>6. OpenWriter' /\ Fits'
  <2>1. CASE r.result = "done"
    <3>1. Active \in DOMAIN files' /\ files'[Active] = <<>> /\ size' = 0 /\ Len(<<>>) = 0
      BY <1>1, <1>3, <2>1 DEF RotatedOK
    <3> QED
      BY <3>1, SizeOfNothing DEF OpenWriter, Fits
  <2>2. CASE r.result # "done"
    <3>1. (Active \notin DOMAIN files' \/ files' = files) /\ writer' = "closed"
      BY <1>1, <1>3, <2>2 DEF RotatedOK
    <3> QED
      BY <1>2, <3>1 DEF LogInv, OpenWriter, Fits
  <2> QED
    BY <2>1, <2>2
<1>7. LogCounters'
  BY <1>1, <1>2, <1>4, <1>5, Configured DEF LogInv, LogCounters
<1> QED
  BY <1>2, <1>4, <1>6, <1>7, KeptNext DEF LogInv

(* Steps that change neither the directory nor what is known of it. *)
LEMMA SameLogKeeps ==
    ASSUME LogInv, UNCHANGED <<logConfig, files, size, index, lines, written, skipped>>,
           writer' \in {"none", "closed"} \/ writer' = writer, stamp' \in 1..MaxStamp
    PROVE  LogInv'
<1>1. /\ logConfig' = logConfig /\ files' = files /\ size' = size /\ index' = index /\ lines' = lines
      /\ written' = written /\ skipped' = skipped
  OBVIOUS
<1>2. /\ KeptIn(files', written', index', lines') /\ WroteOK(written', index', lines')
      /\ Cleared(files', written', index', skipped')
  BY <1>1 DEF LogInv
<1>3. OpenWriter' /\ Fits' /\ LogCounters'
  BY <1>1 DEF LogInv, OpenWriter, Fits, LogCounters
<1> QED
  BY <1>1, <1>2, <1>3, KeptNext DEF LogInv

LEMMA NextLog == ASSUME LogInv, [LogNext]_logVars PROVE LogInv'
<1>1. stamp \in 1..MaxStamp /\ MaxStamp \in Nat
  BY Configured DEF LogInv, LogCounters
<1>2. CASE OpenLog
  BY <1>2, OpenLogKeeps
<1>3. CASE WriteLine
  BY <1>3, WriteLineKeeps
<1>4. CASE WriteLong
  BY <1>4, WriteLongKeeps
<1>5. CASE RotateLog
  BY <1>5, RotateLogKeeps
<1>6. CASE CloseLog
  BY <1>1, <1>6, SameLogKeeps DEF CloseLog
<1>7. CASE StopLog
  BY <1>1, <1>7, SameLogKeeps DEF StopLog
<1>8. CASE SecondPasses
  BY <1>1, <1>8, SameLogKeeps DEF SecondPasses
<1>9. CASE UNCHANGED logVars
  BY <1>1, <1>9, SameLogKeeps DEF logVars
<1> QED
  BY <1>2, <1>3, <1>4, <1>5, <1>6, <1>7, <1>8, <1>9 DEF LogNext

LEMMA LogHolds == Spec => []LogInv
<1>1. Init => LogInv
  BY InitLog DEF Init
<1>2. LogInv /\ [Next]_vars => LogInv'
  BY StepOfLog, NextLog
<1> QED
  BY <1>1, <1>2, PTL DEF Spec

LEMMA LogInvKeeps == ASSUME LogInv PROVE LogKeeps
<1>1. KeptIn(files, written, index, lines) /\ DirOK(files, lines)
  BY DEF LogInv, KeptIn
<1>2. \A k \in DOMAIN written : written[k].part >= index - logConfig.max_files =>
          \E name \in DOMAIN files : \E i \in DOMAIN files[name] : files[name][i] = written[k].line
  BY <1>1 DEF KeptIn, Found
<1>3. \A a, b \in DOMAIN files : \A i \in DOMAIN files[a], m \in DOMAIN files[b], j, k \in DOMAIN written :
          files[a][i] = written[j].line /\ files[b][m] = written[k].line =>
             (j < k => Sooner(a, i, b, m)) /\ (j = k => a = b /\ i = m)
  <2>1. Ordered(files, written)
    BY <1>1 DEF KeptIn
  <2>2. \A a, b \in DOMAIN files : \A i \in DOMAIN files[a], m \in DOMAIN files[b], j \in DOMAIN written :
            files[a][i] = written[j].line /\ files[b][m] = written[j].line => a = b /\ i = m
    BY <1>1 DEF DirOK
  <2> QED
    BY <2>1, <2>2 DEF Ordered
<1>4. ~logConfig.timestamp_suffix => \A name \in OwnArchives :
          name[2] + logConfig.max_files >= index \/ name[2] + logConfig.max_files \in skipped
  BY DEF LogInv, Cleared, OwnArchives, Mine
<1> QED
  BY <1>2, <1>3, <1>4 DEF LogKeeps, LogInv, OpenWriter, Fits

(* Rotation loses no line too early, whatever fails: for every configuration,   *)
(* size of lines and number of rotations, what LogKeeps says of the directory.  *)
THEOREM LogCorrect == Spec => []LogKeeps
  BY LogHolds, LogInvKeeps, PTL

LEMMA LogInvTypes == ASSUME LogInv PROVE LogTypeOK
<1>1. DirOK(files, lines) /\ LogCounters
  BY DEF LogInv, KeptIn
<1>2. \A name \in DOMAIN files : name = Active \/ name \in (0..MaxStamp) \X Nat
  BY <1>1 DEF DirOK, IsArchive
<1>3. 1..lines \subseteq 1..MaxLines
  BY Configured DEF LogInv, LogCounters
<1>4. \A name \in DOMAIN files : \A i \in DOMAIN files[name] : files[name][i].number \in 1..MaxLines
  BY <1>1, <1>3 DEF DirOK
<1> QED
  BY <1>1, <1>2, <1>4 DEF LogTypeOK, LogCounters

(* The log's part of the type invariant. *)
THEOREM LogTypes == Spec => []LogTypeOK
  BY LogHolds, LogInvTypes, PTL

-----------------------------------------------------------------------------
(* Sums over sets, as numbers of cells: one column for each member.          *)

Cells(s, w, M) == {p \in s \X (1..M) : p[2] <= w[p[1]]}

LEMMA CellsStep ==
    ASSUME NEW s, IsFiniteSet(s), NEW M \in Nat, NEW w, \A x \in s : w[x] \in 0..M, NEW x \in s
    PROVE  /\ IsFiniteSet(s \ {x}) /\ Cardinality(s \ {x}) = Cardinality(s) - 1
           /\ Cardinality(Cells(s, w, M)) \in Nat /\ Cardinality(Cells(s \ {x}, w, M)) \in Nat
           /\ Cardinality(Cells(s, w, M)) = Cardinality(Cells(s \ {x}, w, M)) + w[x]
<1> DEFINE rest == Cells(s \ {x}, w, M)
           column == {x} \X (1..w[x])
<1>1. IsFiniteSet(s \ {x}) /\ Cardinality(s \ {x}) = Cardinality(s) - 1
  BY FS_RemoveElement
<1>2. IsFiniteSet(1..M) /\ IsFiniteSet(1..w[x]) /\ Cardinality(1..w[x]) = w[x]
  BY FS_Interval
<1>3. IsFiniteSet(rest)
  <2>1. IsFiniteSet((s \ {x}) \X (1..M))
    BY <1>1, <1>2, FS_Product
  <2>2. rest \in SUBSET ((s \ {x}) \X (1..M))
    BY DEF Cells
  <2> HIDE DEF rest
  <2> QED
    BY <2>1, <2>2, FS_Subset
<1>4. IsFiniteSet(column) /\ Cardinality(column) = w[x]
  <2>1. IsFiniteSet({x}) /\ Cardinality({x}) = 1
    BY FS_Singleton
  <2>2. IsFiniteSet({x} \X (1..w[x])) /\ Cardinality({x} \X (1..w[x])) = Cardinality({x}) * Cardinality(1..w[x])
    BY <1>2, <2>1, FS_Product
  <2> QED
    BY <1>2, <2>1, <2>2
<1>5. rest \cap column = {} /\ Cells(s, w, M) = rest \cup column
  BY DEF Cells
<1> HIDE DEF rest, column
<1>6. IsFiniteSet(rest \cup column) /\ Cardinality(rest \cup column) = Cardinality(rest) + Cardinality(column)
  <2>1. /\ IsFiniteSet(rest \cup column)
        /\ Cardinality(rest \cup column) = Cardinality(rest) + Cardinality(column) - Cardinality(rest \cap column)
    BY <1>3, <1>4, FS_Union
  <2>2. Cardinality(rest \cap column) = 0
    BY <1>5, FS_EmptySet
  <2>3. Cardinality(rest) \in Nat /\ Cardinality(column) \in Nat
    BY <1>3, <1>4, FS_CardinalityType
  <2> QED
    BY <2>1, <2>2, <2>3
<1>7. Cardinality(rest) \in Nat /\ Cardinality(rest \cup column) \in Nat
  BY <1>3, <1>6, FS_CardinalityType
<1> QED
  BY <1>1, <1>4, <1>5, <1>6, <1>7 DEF rest

LEMMA NoCells == ASSUME NEW M, NEW w PROVE Cardinality(Cells({}, w, M)) = 0
<1>1. Cells({}, w, M) = {}
  BY DEF Cells
<1> QED
  BY <1>1, FS_EmptySet

(* What a fold over a set adds up to, whichever member it takes at a time. *)
AddsUp(u, S, w) ==
    \A s \in SUBSET S : u[s] = IF s = {} THEN 0 ELSE u[s \ {CHOOSE x \in s : TRUE}] + w[CHOOSE x \in s : TRUE]

LEMMA CellsAddUp ==
    ASSUME NEW S, IsFiniteSet(S), NEW M \in Nat, NEW w, \A x \in S : w[x] \in 0..M
    PROVE  AddsUp([s \in SUBSET S |-> Cardinality(Cells(s, w, M))], S, w)
<1> DEFINE u == [s \in SUBSET S |-> Cardinality(Cells(s, w, M))]
<1> SUFFICES ASSUME NEW s \in SUBSET S
             PROVE  u[s] = IF s = {} THEN 0 ELSE u[s \ {CHOOSE x \in s : TRUE}] + w[CHOOSE x \in s : TRUE]
  BY DEF AddsUp
<1>1. \A t \in SUBSET S : u[t] = Cardinality(Cells(t, w, M))
  OBVIOUS
<1> HIDE DEF u
<1>2. CASE s = {}
  BY <1>1, <1>2, NoCells
<1>3. CASE s # {}
  <2>1. PICK x \in s : x = CHOOSE y \in s : TRUE
    BY <1>3
  <2>2. IsFiniteSet(s) /\ \A y \in s : w[y] \in 0..M
    BY FS_Subset
  <2>3. Cardinality(Cells(s, w, M)) = Cardinality(Cells(s \ {x}, w, M)) + w[x]
    BY <2>2, CellsStep
  <2> QED
    BY <1>1, <1>3, <2>1, <2>3
<1> QED
  BY <1>2, <1>3

LEMMA AddsUpOnce ==
    ASSUME NEW S, IsFiniteSet(S), NEW M \in Nat, NEW w, \A x \in S : w[x] \in 0..M, NEW u, AddsUp(u, S, w)
    PROVE  u[S] = Cardinality(Cells(S, w, M))
<1> DEFINE T == {n \in Nat : \A s \in SUBSET S : Cardinality(s) = n => u[s] = Cardinality(Cells(s, w, M))}
<1>1. 0 \in T
  <2> SUFFICES ASSUME NEW s \in SUBSET S, Cardinality(s) = 0 PROVE u[s] = Cardinality(Cells(s, w, M))
    OBVIOUS
  <2>1. s = {}
    BY FS_Subset, FS_EmptySet
  <2>2. u[s] = 0
    BY <2>1 DEF AddsUp
  <2> QED
    BY <2>1, <2>2, NoCells
<1>2. ASSUME NEW k \in 1..Cardinality(S), k - 1 \in T PROVE k \in T
  <2> SUFFICES ASSUME NEW s \in SUBSET S, Cardinality(s) = k PROVE u[s] = Cardinality(Cells(s, w, M))
    BY FS_CardinalityType
  <2>1. s # {}
    BY FS_EmptySet
  <2>2. PICK x \in s : x = CHOOSE y \in s : TRUE
    BY <2>1
  <2>3. IsFiniteSet(s) /\ \A y \in s : w[y] \in 0..M
    BY FS_Subset
  <2>4. /\ Cardinality(s \ {x}) = k - 1 /\ Cardinality(Cells(s, w, M)) = Cardinality(Cells(s \ {x}, w, M)) + w[x]
    BY <2>3, CellsStep
  <2>5. u[s \ {x}] = Cardinality(Cells(s \ {x}, w, M))
    BY <1>2, <2>4
  <2>6. u[s] = u[s \ {x}] + w[x]
    BY <2>1, <2>2 DEF AddsUp
  <2> QED
    BY <2>4, <2>5, <2>6
<1>3. Cardinality(S) \in Nat
  BY FS_CardinalityType
<1>4. Cardinality(S) \in T
  <2> HIDE DEF T
  <2>1. 0..Cardinality(S) \subseteq T
    BY <1>1, <1>2, <1>3, ReachesAll
  <2> QED
    BY <1>3, <2>1
<1> QED
  BY <1>4

LEMMA ElapsedCounts ==
    ASSUME NEW timers, NEW M \in Nat, IsFiniteSet(DOMAIN timers), \A x \in DOMAIN timers : Elapsed(timers[x]) \in 0..M
    PROVE  ElapsedSum(timers) = Cardinality(Cells(DOMAIN timers, [x \in DOMAIN timers |-> Elapsed(timers[x])], M))
<1> DEFINE S == DOMAIN timers
           w == [x \in S |-> Elapsed(timers[x])]
           Sums(u) == [s \in SUBSET S |-> IF s = {} THEN 0
                                          ELSE u[s \ {CHOOSE x \in s : TRUE}] + Elapsed(timers[CHOOSE x \in s : TRUE])]
           sums == CHOOSE u : u = Sums(u)
<1>1. ElapsedSum(timers) = sums[S]
  BY Zenon DEF ElapsedSum, FoldFunction, FoldFunctionOnSet, MapThenFoldSet
<1>2. \A x \in S : w[x] = Elapsed(timers[x]) /\ w[x] \in 0..M
  OBVIOUS
<1>3. ASSUME NEW u PROVE u = [s \in SUBSET S |-> u[s]] /\ AddsUp(u, S, w) => u = Sums(u)
  <2> SUFFICES ASSUME u = [s \in SUBSET S |-> u[s]], AddsUp(u, S, w) PROVE u = Sums(u)
    OBVIOUS
  <2>1. ASSUME NEW s \in SUBSET S PROVE u[s] = Sums(u)[s]
    <3>1. s # {} => (CHOOSE x \in s : TRUE) \in S
      OBVIOUS
    <3> QED
      BY <1>2, <2>1, <3>1 DEF AddsUp
  <2> QED
    BY <2>1
<1>4. ASSUME NEW u, u = Sums(u) PROVE AddsUp(u, S, w)
  <2> SUFFICES ASSUME NEW s \in SUBSET S
               PROVE  u[s] = IF s = {} THEN 0 ELSE u[s \ {CHOOSE x \in s : TRUE}] + w[CHOOSE x \in s : TRUE]
    BY DEF AddsUp
  <2>1. s # {} => (CHOOSE x \in s : TRUE) \in S
    OBVIOUS
  <2>2. u[s] = Sums(u)[s]
    BY <1>4
  <2> QED
    BY <1>2, <2>1, <2>2
<1> HIDE DEF w, Sums
<1>5. sums = Sums(sums)
  <2> DEFINE u == [s \in SUBSET S |-> Cardinality(Cells(s, w, M))]
  <2>1. AddsUp(u, S, w)
    BY <1>2, CellsAddUp
  <2>2. u = [s \in SUBSET S |-> u[s]]
    OBVIOUS
  <2> HIDE DEF u
  <2>3. u = Sums(u)
    BY <1>3, <2>1, <2>2
  <2> QED
    BY <2>3
<1>6. AddsUp(sums, S, w)
  BY <1>4, <1>5
<1>7. sums[S] = Cardinality(Cells(S, w, M))
  <2> HIDE DEF sums
  <2> QED
    BY <1>2, <1>6, AddsUpOnce
<1> QED
  BY <1>1, <1>7 DEF w

-----------------------------------------------------------------------------
(* Timers. *)

LEMMA StepOfTimers == [Next]_vars => [TimerNext]_timerVars
  BY DEF Next, DevkitNext, TracingNext, vars, tracingVars

PlainTimer == [start : Nat, elapsed : Nat \cup {NoTime}]

Runs(t, from) == t.start \in from..clock /\ (t.elapsed = NoTime \/ t.elapsed \in 0..(clock - t.start))

ChildrenInv ==
    timer # None =>
        /\ timer = [start |-> timer.start, elapsed |-> timer.elapsed, children |-> timer.children]
        /\ Runs(timer, 0) /\ timer.children \in Seq(PlainTimer)
        /\ \A i \in DOMAIN timer.children : Runs(timer.children[i], timer.start)

WatchesInv ==
    /\ IsFiniteSet(DOMAIN watches)
    /\ \A name \in DOMAIN watches : watches[name] \in PlainTimer /\ Runs(watches[name], 0)

(* A run under way began after the sum so far, and after the last reset. *)
ExecutionInv ==
    /\ execution = [start |-> execution.start, total |-> execution.total, count |-> execution.count]
    /\ execution.total \in Nat /\ execution.count \in Nat /\ cleared \in 0..clock
    /\ execution.start \in cleared..clock \cup {NoTime}
    /\ execution.total <= (IF execution.start = NoTime THEN clock ELSE execution.start) - cleared

TimerInv == clock \in Nat /\ ChildrenInv /\ WatchesInv /\ ExecutionInv

LEMMA InitTimers == ASSUME TracingInit PROVE TimerInv
<1>1. clock = 0 /\ timer = None /\ execution = [start |-> NoTime, total |-> 0, count |-> 0] /\ cleared = 0
  BY DEF TracingInit, NoExecution
<1>2. DOMAIN watches = {}
  BY DEF TracingInit
<1>3. WatchesInv
  BY <1>2, FS_EmptySet DEF WatchesInv
<1>4. ExecutionInv
  BY <1>1 DEF ExecutionInv
<1> QED
  BY <1>1, <1>3, <1>4 DEF TimerInv, ChildrenInv

LEMMA NextChildren == ASSUME TimerInv, [TimerNext]_timerVars PROVE ChildrenInv'
<1> USE DEF TimerInv
<1>1. CASE StartTimer
  <2>1. timer' = [start |-> clock, elapsed |-> NoTime, children |-> <<>>] /\ clock' = clock /\ clock \in Nat
    BY <1>1 DEF StartTimer
  <2> QED
    BY <2>1 DEF ChildrenInv, Runs
<1>2. CASE StopTimer
  <2>1. timer # None /\ timer' = [timer EXCEPT !.elapsed = clock - timer.start] /\ clock' = clock
    BY <1>2 DEF StopTimer, Stopped
  <2>2. timer'.start = timer.start /\ timer'.elapsed = clock - timer.start /\ timer'.children = timer.children
    BY <2>1 DEF ChildrenInv
  <2>3. timer' = [start |-> timer'.start, elapsed |-> timer'.elapsed, children |-> timer'.children]
    BY <2>1 DEF ChildrenInv
  <2> QED
    BY <2>1, <2>2, <2>3 DEF ChildrenInv, Runs
<1>3. CASE StartChild
  <2> DEFINE new == [start |-> clock, elapsed |-> NoTime]
  <2>1. timer # None /\ timer' = [timer EXCEPT !.children = Append(timer.children, new)] /\ clock' = clock
    BY <1>3 DEF StartChild, NewTimer
  <2>2. /\ timer'.start = timer.start /\ timer'.elapsed = timer.elapsed
        /\ timer'.children = Append(timer.children, new)
    BY <2>1 DEF ChildrenInv
  <2>3. timer' = [start |-> timer'.start, elapsed |-> timer'.elapsed, children |-> timer'.children]
    BY <2>1 DEF ChildrenInv
  <2>4. new \in PlainTimer /\ Runs(new, timer.start)
    BY <2>1 DEF PlainTimer, ChildrenInv, Runs
  <2> HIDE DEF new
  <2>5. \A i \in DOMAIN Append(timer.children, new) : Runs(Append(timer.children, new)[i], timer.start)
    BY <2>1, <2>4 DEF ChildrenInv
  <2>6. Append(timer.children, new) \in Seq(PlainTimer)
    BY <2>1, <2>4 DEF ChildrenInv
  <2> QED
    BY <2>1, <2>2, <2>3, <2>5, <2>6 DEF ChildrenInv, Runs
<1>4. CASE StopChild
  <2> DEFINE n == Len(timer.children)
             old == timer.children[n]
             new == [old EXCEPT !.elapsed = clock - old.start]
             after == [timer.children EXCEPT ![n] = new]
  <2>1. timer # None /\ timer.children # <<>> /\ timer' = [timer EXCEPT !.children = after] /\ clock' = clock
    BY <1>4 DEF StopChild, Stopped, Last, ChildrenInv
  <2>2. timer'.start = timer.start /\ timer'.elapsed = timer.elapsed /\ timer'.children = after
    BY <2>1 DEF ChildrenInv
  <2>3. timer' = [start |-> timer'.start, elapsed |-> timer'.elapsed, children |-> timer'.children]
    BY <2>1 DEF ChildrenInv
  <2>4. n \in DOMAIN timer.children /\ old \in PlainTimer /\ Runs(old, timer.start)
    BY <2>1 DEF ChildrenInv
  <2>5. new = [start |-> old.start, elapsed |-> clock - old.start] /\ old.start \in timer.start..clock /\ timer.start \in Nat
    BY <2>1, <2>4 DEF PlainTimer, Runs, ChildrenInv
  <2> HIDE DEF new, old
  <2>6. new \in PlainTimer /\ Runs(new, timer.start)
    BY <2>5 DEF PlainTimer, Runs
  <2> HIDE DEF n
  <2>7. after \in Seq(PlainTimer) /\ \A i \in DOMAIN after : Runs(after[i], timer.start)
    BY <2>1, <2>4, <2>6 DEF ChildrenInv
  <2> HIDE DEF after
  <2> QED
    BY <2>1, <2>2, <2>3, <2>7 DEF ChildrenInv, Runs
<1>5. CASE TimePasses
  <2>1. timer' = timer /\ clock' = clock + 1
    BY <1>5 DEF TimePasses
  <2>2. ASSUME NEW t, NEW from \in Nat, Runs(t, from) PROVE t.start \in from..clock' /\ (t.elapsed = NoTime \/ t.elapsed \in 0..(clock' - t.start))
    BY <2>1, <2>2 DEF Runs
  <2>3. timer # None => timer.start \in Nat
    BY DEF ChildrenInv, Runs
  <2> QED
    BY <2>1, <2>2, <2>3 DEF ChildrenInv, Runs
<1>6. CASE timer' = timer /\ clock' = clock
  BY <1>6 DEF ChildrenInv, Runs
<1> QED
  BY <1>1, <1>2, <1>3, <1>4, <1>5, <1>6
  DEF TimerNext, timerVars, StartWatch, StopWatch, ResetWatches, StartExecution, StopExecution, ResetExecution

LEMMA NextWatches == ASSUME TimerInv, [TimerNext]_timerVars PROVE WatchesInv'
<1> USE DEF TimerInv
<1>1. CASE StartWatch
  <2>1. PICK name \in Watched : watches' = Overlaid([n \in {name} |-> NewTimer], watches)
    BY <1>1 DEF StartWatch
  <2>2. clock' = clock
    BY <1>1 DEF StartWatch
  <2>3. /\ DOMAIN watches' = DOMAIN watches \cup {name}
        /\ \A n \in DOMAIN watches' : watches'[n] = IF n = name THEN NewTimer ELSE watches[n]
    BY <2>1 DEF Overlaid
  <2>4. IsFiniteSet(DOMAIN watches')
    BY <2>3, FS_AddElement DEF WatchesInv
  <2>5. NewTimer \in PlainTimer /\ Runs(NewTimer, 0)
    BY DEF NewTimer, PlainTimer, Runs
  <2> QED
    BY <2>2, <2>3, <2>4, <2>5 DEF WatchesInv, Runs
<1>2. CASE StopWatch
  <2>1. PICK name \in DOMAIN watches : watches' = [watches EXCEPT ![name] = Stopped(@)]
    BY <1>2 DEF StopWatch
  <2>2. clock' = clock
    BY <1>2 DEF StopWatch
  <2>3. watches[name] \in PlainTimer /\ Runs(watches[name], 0)
    BY DEF WatchesInv
  <2>4. Stopped(watches[name]) \in PlainTimer /\ Runs(Stopped(watches[name]), 0)
    BY <2>3 DEF Stopped, PlainTimer, Runs
  <2>5. /\ DOMAIN watches' = DOMAIN watches
        /\ \A n \in DOMAIN watches' : watches'[n] = IF n = name THEN Stopped(watches[name]) ELSE watches[n]
    BY <2>1
  <2> QED
    BY <2>2, <2>4, <2>5 DEF WatchesInv, Runs
<1>3. CASE ResetWatches
  <2>1. DOMAIN watches' = {}
    BY <1>3 DEF ResetWatches
  <2> QED
    BY <2>1, FS_EmptySet DEF WatchesInv
<1>4. CASE TimePasses
  <2>1. watches' = watches /\ clock' = clock + 1
    BY <1>4 DEF TimePasses
  <2>2. ASSUME NEW t, Runs(t, 0) PROVE t.start \in 0..clock' /\ (t.elapsed = NoTime \/ t.elapsed \in 0..(clock' - t.start))
    BY <2>1, <2>2 DEF Runs
  <2> QED
    BY <2>1, <2>2 DEF WatchesInv, Runs
<1>5. CASE watches' = watches /\ clock' = clock
  BY <1>5 DEF WatchesInv, Runs
<1> QED
  BY <1>1, <1>2, <1>3, <1>4, <1>5
  DEF TimerNext, timerVars, StartTimer, StopTimer, StartChild, StopChild, StartExecution, StopExecution, ResetExecution

LEMMA NextExecution == ASSUME TimerInv, [TimerNext]_timerVars PROVE ExecutionInv'
<1> USE DEF TimerInv, NoTime
<1>1. CASE StartExecution
  <2>1. execution' = [start |-> clock, total |-> execution.total, count |-> execution.count] /\ clock' = clock /\ cleared' = cleared
    BY <1>1 DEF StartExecution, ExecutionInv
  <2> QED
    BY <2>1 DEF ExecutionInv
<1>2. CASE StopExecution
  BY <1>2 DEF StopExecution, ExecutionInv
<1>3. CASE ResetExecution
  BY <1>3 DEF ResetExecution, ExecutionInv, NoExecution
<1>4. CASE TimePasses
  BY <1>4 DEF TimePasses, ExecutionInv
<1>5. CASE execution' = execution /\ clock' = clock /\ cleared' = cleared
  BY <1>5 DEF ExecutionInv
<1> QED
  BY <1>1, <1>2, <1>3, <1>4, <1>5
  DEF TimerNext, timerVars, StartTimer, StopTimer, StartChild, StopChild, StartWatch, StopWatch, ResetWatches

LEMMA NextTimers == ASSUME TimerInv, [TimerNext]_timerVars PROVE TimerInv'
<1>1. clock' \in Nat
  BY DEF TimerInv, TimerNext, timerVars, StartTimer, StopTimer, StartChild, StopChild, StartWatch, StopWatch, ResetWatches,
         StartExecution, StopExecution, ResetExecution, TimePasses
<1> QED
  BY <1>1, NextChildren, NextWatches, NextExecution DEF TimerInv

LEMMA DivBelow == ASSUME NEW a \in Nat, NEW b \in Nat \ {0} PROVE b * (a \div b) <= a
  OBVIOUS

(* Timers that run one after the other within a span of time share it. *)
LEMMA SequelFits ==
    ASSUME NEW n \in Nat, NEW M \in Nat, NEW first \in Nat, NEW span \in Nat, NEW start, NEW w,
           \A i \in 1..n : start[i] \in Nat /\ w[i] \in 0..M /\ first <= start[i] /\ start[i] + w[i] <= first + span,
           \A i \in 2..n : start[i - 1] + w[i - 1] <= start[i]
    PROVE  Cardinality(Cells(1..n, w, M)) <= span
<1>1. ASSUME NEW i \in 1..n, NEW k \in 1..n, i < k PROVE start[i] + w[i] <= start[k]
  <2> DEFINE T == {d \in 0..n : d \in (i + 1)..n => start[i] + w[i] <= start[d]}
  <2>1. 0 \in T
    OBVIOUS
  <2>2. ASSUME NEW d \in 1..n, d - 1 \in T PROVE d \in T
    <3>1. CASE d <= i
      BY <3>1
    <3>2. CASE d = i + 1
      <4>1. d \in 2..n /\ d - 1 = i
        BY <3>2
      <4>2. start[i] + w[i] <= start[d]
        BY <4>1
      <4> QED
        BY <4>2
    <3>3. CASE d > i + 1
      <4>1. d \in 2..n /\ d - 1 \in (i + 1)..n /\ d - 1 \in 1..n
        BY <3>3
      <4>2. start[i] + w[i] <= start[d - 1] /\ start[d - 1] + w[d - 1] <= start[d]
        BY <2>2, <4>1
      <4>3. start[i] + w[i] <= start[d]
        BY <4>1, <4>2
      <4> QED
        BY <4>3
    <3> QED
      BY <3>1, <3>2, <3>3
  <2>3. k \in T
    <3> HIDE DEF T
    <3>1. 0..n \subseteq T
      BY <2>1, <2>2, ReachesAll
    <3> QED
      BY <3>1
  <2> QED
    BY <1>1, <2>3
<1> DEFINE C == Cells(1..n, w, M)
           f == [p \in C |-> start[p[1]] + p[2]]
           R == (first + 1)..(first + span)
<1>2. \A p \in C : p = <<p[1], p[2]>> /\ p[1] \in 1..n /\ p[2] \in 1..M /\ p[2] <= w[p[1]]
  BY DEF Cells
<1> HIDE DEF C
<1>3. f \in [C -> R]
  <2> SUFFICES ASSUME NEW p \in C PROVE start[p[1]] + p[2] \in R
    OBVIOUS
  <2>1. /\ start[p[1]] \in Nat /\ w[p[1]] \in 0..M /\ first <= start[p[1]] /\ start[p[1]] + w[p[1]] <= first + span
        /\ p[2] \in 1..M /\ p[2] <= w[p[1]]
    BY <1>2
  <2> QED
    BY <2>1
<1>4. ASSUME NEW p \in C, NEW q \in C, f[p] = f[q] PROVE p = q
  <2>1. p = <<p[1], p[2]>> /\ p[1] \in 1..n /\ p[2] \in 1..M /\ p[2] <= w[p[1]]
    BY <1>2
  <2>2. q = <<q[1], q[2]>> /\ q[1] \in 1..n /\ q[2] \in 1..M /\ q[2] <= w[q[1]]
    BY <1>2
  <2>3. start[p[1]] + p[2] = start[q[1]] + q[2]
    BY <1>4
  <2>4. start[p[1]] \in Nat /\ w[p[1]] \in 0..M /\ start[q[1]] \in Nat /\ w[q[1]] \in 0..M
    BY <2>1, <2>2
  <2>5. ~(p[1] < q[1])
    <3> SUFFICES ASSUME p[1] < q[1] PROVE FALSE
      OBVIOUS
    <3>1. start[p[1]] + w[p[1]] <= start[q[1]]
      BY <1>1, <2>1, <2>2
    <3> QED
      BY <2>1, <2>2, <2>3, <2>4, <3>1
  <2>6. ~(q[1] < p[1])
    <3> SUFFICES ASSUME q[1] < p[1] PROVE FALSE
      OBVIOUS
    <3>1. start[q[1]] + w[q[1]] <= start[p[1]]
      BY <1>1, <2>1, <2>2
    <3> QED
      BY <2>1, <2>2, <2>3, <2>4, <3>1
  <2>7. p[1] = q[1]
    BY <2>1, <2>2, <2>5, <2>6
  <2>8. p[2] = q[2]
    BY <2>1, <2>2, <2>3, <2>4, <2>7
  <2> QED
    BY <2>1, <2>2, <2>7, <2>8
<1> HIDE DEF f
<1>5. f \in Injection(C, R)
  BY <1>3, <1>4, Zenon DEF Injection, IsInjective
<1>6. IsFiniteSet(R) /\ Cardinality(R) = span
  BY FS_Interval
<1> HIDE DEF R
<1>7. Cardinality(C) <= Cardinality(R)
  BY <1>5, <1>6, FS_Injection
<1> QED
  BY <1>6, <1>7 DEF C

LEMMA ElapsedWithin ==
    ASSUME NEW t, NEW from \in Nat, clock \in Nat, Runs(t, from)
    PROVE  Elapsed(t) \in 0..clock /\ t.start \in from..clock
  BY DEF Runs, Elapsed

LEMMA TimerInvAdds == ASSUME TimerInv PROVE TimesAddUp
<1>1. clock \in Nat /\ ChildrenInv /\ WatchesInv /\ ExecutionInv
  BY DEF TimerInv
<1>2. execution.total + (IF execution.start = NoTime THEN 0 ELSE clock - execution.start) <= clock - cleared
  BY <1>1 DEF ExecutionInv, NoTime
<1>3. execution.count * Average(execution) <= execution.total
  <2>1. CASE execution.count = 0
    BY <1>1, <2>1 DEF Average, ExecutionInv
  <2>2. CASE execution.count # 0
    <3>1. execution.count \in Nat \ {0} /\ execution.total \in Nat
      BY <1>1, <2>2 DEF ExecutionInv
    <3>2. execution.count * (execution.total \div execution.count) <= execution.total
      BY <3>1, DivBelow
    <3> QED
      BY <2>2, <3>2 DEF Average
  <2> QED
    BY <2>1, <2>2
<1>4. ElapsedSum(watches) <= Cardinality(DOMAIN watches) * clock
  <2> DEFINE S == DOMAIN watches
             w == [x \in S |-> Elapsed(watches[x])]
  <2>1. \A x \in S : Elapsed(watches[x]) \in 0..clock
    BY <1>1, ElapsedWithin DEF WatchesInv
  <2>2. IsFiniteSet(S)
    BY <1>1 DEF WatchesInv
  <2>3. ElapsedSum(watches) = Cardinality(Cells(S, w, clock))
    BY <1>1, <2>1, <2>2, ElapsedCounts
  <2>4. Cells(S, w, clock) \in SUBSET (S \X (1..clock))
    BY DEF Cells
  <2>5. IsFiniteSet(1..clock) /\ Cardinality(1..clock) = clock
    BY <1>1, FS_Interval
  <2> HIDE DEF S, w
  <2>6. IsFiniteSet(S \X (1..clock)) /\ Cardinality(S \X (1..clock)) = Cardinality(S) * Cardinality(1..clock)
    BY <2>2, <2>5, FS_Product
  <2>7. Cardinality(Cells(S, w, clock)) <= Cardinality(S \X (1..clock))
    BY <2>4, <2>6, FS_Subset
  <2> QED
    BY <2>3, <2>5, <2>6, <2>7 DEF S
<1>5. ASSUME timer # None,
             \A i \in DOMAIN timer.children :
                timer.children[i].start + Elapsed(timer.children[i]) <= timer.start + Elapsed(timer),
             \A i \in 2..Len(timer.children) :
                timer.children[i].start >= timer.children[i - 1].start + Elapsed(timer.children[i - 1])
      PROVE  TotalWithChildren(timer) <= 2 * Elapsed(timer)
  <2> DEFINE c == timer.children
             n == Len(c)
             w == [x \in 1..n |-> Elapsed(c[x])]
             start == [x \in 1..n |-> c[x].start]
             first == timer.start
             span == Elapsed(timer)
  <2>1. Runs(timer, 0) /\ c \in Seq(PlainTimer) /\ DOMAIN c = 1..n /\ n \in Nat /\ \A i \in 1..n : Runs(c[i], first)
    BY <1>1, <1>5 DEF ChildrenInv
  <2>2. first \in Nat /\ span \in 0..clock
    BY <1>1, <2>1, ElapsedWithin
  <2>3. \A i \in 1..n : start[i] = c[i].start /\ w[i] = Elapsed(c[i])
    OBVIOUS
  <2>4. \A i \in 1..n : Elapsed(c[i]) \in 0..clock /\ c[i].start \in first..clock
    BY <1>1, <2>1, <2>2, ElapsedWithin
  <2>5. \A i \in 1..n : start[i] \in Nat /\ w[i] \in 0..clock /\ first <= start[i] /\ start[i] + w[i] <= first + span
    BY <1>5, <2>1, <2>2, <2>3, <2>4
  <2>6. \A i \in 2..n : start[i - 1] + w[i - 1] <= start[i]
    <3> SUFFICES ASSUME NEW i \in 2..n PROVE start[i - 1] + w[i - 1] <= start[i]
      OBVIOUS
    <3>1. i \in 1..n /\ i - 1 \in 1..n
      BY <2>1
    <3>2. c[i].start >= c[i - 1].start + Elapsed(c[i - 1])
      BY <1>5
    <3>3. start[i] \in Nat /\ start[i - 1] \in Nat /\ w[i - 1] \in 0..clock
      BY <2>5, <3>1
    <3> QED
      BY <2>3, <3>1, <3>2, <3>3
  <2> HIDE DEF n
  <2>7. ElapsedSum(c) = Cardinality(Cells(1..n, w, clock))
    <3>0. IsFiniteSet(1..n)
      BY <2>1, FS_Interval
    <3>1. IsFiniteSet(DOMAIN c) /\ \A x \in DOMAIN c : Elapsed(c[x]) \in 0..clock
      BY <2>1, <2>4, <3>0
    <3>2. ElapsedSum(c) = Cardinality(Cells(DOMAIN c, [x \in DOMAIN c |-> Elapsed(c[x])], clock))
      BY <1>1, <3>1, ElapsedCounts
    <3> QED
      BY <2>1, <3>2
  <2> HIDE DEF c, w, start, first, span
  <2>8. Cardinality(Cells(1..n, w, clock)) <= span
    <3>1. span \in Nat
      BY <1>1, <2>2
    <3> QED
      BY <1>1, <2>1, <2>2, <2>5, <2>6, <3>1, SequelFits
  <2>9. IsFiniteSet(1..n) /\ \A x \in 1..n : w[x] \in 0..clock
    BY <2>1, <2>5, FS_Interval
  <2>10. Cardinality(Cells(1..n, w, clock)) \in Nat
    <3> DEFINE all == (1..n) \X (1..clock)
    <3>1. IsFiniteSet(1..clock)
      BY <1>1, FS_Interval
    <3>2. IsFiniteSet(all)
      BY <2>9, <3>1, FS_Product
    <3>3. Cells(1..n, w, clock) \in SUBSET all
      BY DEF Cells
    <3> HIDE DEF all
    <3> QED
      BY <3>2, <3>3, FS_Subset, FS_CardinalityType
  <2>11. TotalWithChildren(timer) = span + ElapsedSum(c)
    BY DEF TotalWithChildren, span, c
  <2>12. span + Cardinality(Cells(1..n, w, clock)) <= 2 * span
    BY <2>2, <2>8, <2>10
  <2> QED
    BY <2>7, <2>11, <2>12 DEF span
<1> QED
  BY <1>2, <1>3, <1>4, <1>5 DEF TimesAddUp

(* No moment is counted twice, for any number of timers and any clock. *)
THEOREM TimersCorrect == Spec => []TimesAddUp
<1>1. Init => TimerInv
  BY InitTimers DEF Init
<1>2. TimerInv /\ [Next]_vars => TimerInv'
  BY StepOfTimers, NextTimers
<1>3. TimerInv => TimesAddUp
  BY TimerInvAdds
<1> QED
  BY <1>1, <1>2, <1>3, PTL DEF Spec

-----------------------------------------------------------------------------
(* Health reports. *)

LEMMA StepOfHealth == [Next]_vars => [HealthNext]_healthVars
  BY DEF Next, DevkitNext, TracingNext, vars, tracingVars

(* The results listed are those of the checks now, and so is the status, unless *)
(* an outcome changed.                                                          *)
HealthInv ==
    /\ checks \in Seq(Checks) /\ \A check \in Checks : works[check] \in BOOLEAN
    /\ DOMAIN works = Checks
    /\ report # None =>
          /\ report = [results |-> report.results, status |-> report.status, changed |-> report.changed]
          /\ ~report.changed => report.results = RunAll
          /\ ~report.changed /\ report.status # "" => report.status = StatusOf(report.results)

LEMMA InitHealth == ASSUME TracingInit PROVE HealthInv
<1>1. works = [check \in Checks |-> check \notin FailingChecks] /\ checks = <<>> /\ report = None
  BY DEF TracingInit, Outcomes
<1> QED
  BY <1>1 DEF HealthInv

LEMMA NextHealth == ASSUME HealthInv, [HealthNext]_healthVars PROVE HealthInv'
<1>1. CASE RegisterCheck
  <2>1. PICK check \in Checks : checks' = Append(checks, check)
    BY <1>1 DEF RegisterCheck
  <2>2. report' = None /\ works' = works
    BY <1>1 DEF RegisterCheck
  <2>3. checks' \in Seq(Checks)
    <3> DEFINE C == Checks
    <3>1. checks \in Seq(C) /\ check \in C
      BY DEF HealthInv, Checks
    <3> HIDE DEF C
    <3>2. Append(checks, check) \in Seq(C)
      BY <3>1
    <3> QED
      BY <2>1, <3>2 DEF C
  <2> QED
    BY <2>2, <2>3 DEF HealthInv
<1>2. CASE OutcomeChanges
  <2>1. PICK check \in PathChecks : works' = [works EXCEPT ![check] = ~@]
    BY <1>2 DEF OutcomeChanges
  <2>2. checks' = checks /\ report' = (IF report = None THEN None ELSE [report EXCEPT !.changed = TRUE])
    BY <1>2 DEF OutcomeChanges
  <2>3. DOMAIN works' = Checks /\ \A c \in Checks : works'[c] \in BOOLEAN
    BY <2>1 DEF HealthInv
  <2>4. CASE report = None
    BY <2>2, <2>3, <2>4 DEF HealthInv
  <2>5. CASE report # None
    <3>1. /\ report'.results = report.results /\ report'.status = report.status /\ report'.changed = TRUE
          /\ report' = [results |-> report'.results, status |-> report'.status, changed |-> report'.changed]
      BY <2>2, <2>5 DEF HealthInv
    <3> QED
      BY <2>2, <2>3, <3>1 DEF HealthInv
  <2> QED
    BY <2>4, <2>5
<1>3. CASE ListResults
  <2>1. works' = works /\ checks' = checks /\ report' = [results |-> RunAll, status |-> "", changed |-> FALSE]
    BY <1>3 DEF ListResults
  <2>2. report'.results = RunAll /\ report'.status = "" /\ report'.changed = FALSE /\ RunAll' = RunAll
    BY <2>1 DEF RunAll
  <2> QED
    BY <2>1, <2>2 DEF HealthInv
<1>4. CASE AddStatus
  <2>1. works' = works /\ checks' = checks /\ report # None /\ report' = [report EXCEPT !.status = StatusOf(RunAll)]
    BY <1>4 DEF AddStatus
  <2>2. /\ report'.results = report.results /\ report'.status = StatusOf(RunAll) /\ report'.changed = report.changed
        /\ report' = [results |-> report'.results, status |-> report'.status, changed |-> report'.changed]
    BY <2>1 DEF HealthInv
  <2>3. RunAll' = RunAll
    BY <2>1 DEF RunAll
  <2>4. ~report'.changed => report'.results = RunAll' /\ report'.status = StatusOf(report'.results)
    BY <2>1, <2>2, <2>3 DEF HealthInv
  <2>5. StatusOf(report.results)' = StatusOf(report'.results)
    BY DEF StatusOf
  <2> QED
    BY <2>1, <2>2, <2>4, <2>5 DEF HealthInv
<1>5. CASE DeliverReport
  BY <1>5 DEF DeliverReport, HealthInv
<1>6. CASE UNCHANGED healthVars
  <2>1. works' = works /\ checks' = checks /\ report' = report
    BY <1>6 DEF healthVars
  <2>2. RunAll' = RunAll /\ StatusOf(report.results)' = StatusOf(report.results)
    BY <2>1 DEF RunAll, StatusOf
  <2> QED
    BY <2>1, <2>2 DEF HealthInv
<1> QED
  BY <1>1, <1>2, <1>3, <1>4, <1>5, <1>6 DEF HealthNext

LEMMA HealthInvFits == ASSUME HealthInv PROVE ReportFits
<1> SUFFICES ASSUME report # None, report.status # "", ~report.changed
             PROVE  /\ report.status = "healthy" <=> report.results # <<>> /\ \A i \in DOMAIN report.results : report.results[i].ok
                    /\ report.status = "unhealthy" <=> \A i \in DOMAIN report.results : ~report.results[i].ok
  BY DEF ReportFits
<1> DEFINE results == report.results
           failed == {i \in DOMAIN results : ~results[i].ok}
<1>1. results = RunAll /\ report.status = StatusOf(results)
  BY DEF HealthInv
<1>2. \A i \in DOMAIN checks : checks[i] \in Checks /\ works[checks[i]] \in BOOLEAN
  <2>1. checks \in Seq(Checks) /\ \A check \in Checks : works[check] \in BOOLEAN
    BY DEF HealthInv
  <2>2. \A i \in DOMAIN checks : checks[i] \in Checks
    BY <2>1, Elements
  <2> QED
    BY <2>1, <2>2
<1>3. DOMAIN checks = 1..Len(checks) /\ Len(checks) \in Nat
  BY Elements DEF HealthInv
<1>4. \A i \in DOMAIN results : results[i].ok \in BOOLEAN
  <2> HIDE DEF results
  <2> QED
    BY <1>1, <1>2 DEF RunAll
<1>5. results = <<>> <=> DOMAIN results = {}
  <2> HIDE DEF results
  <2>1. results = [i \in 1..Len(checks) |-> results[i]] /\ Len(checks) \in Nat
    BY <1>1, <1>3 DEF RunAll
  <2>2. results = <<>> <=> Len(checks) = 0
    BY <2>1, NoElements
  <2>3. DOMAIN results = 1..Len(checks)
    BY <1>1, <1>3 DEF RunAll
  <2> QED
    BY <2>1, <2>2, <2>3, NoPlaces
<1>6. CASE failed = DOMAIN results
  <2>1. StatusOf(results) = "unhealthy"
    BY <1>6 DEF StatusOf
  <2> QED
    BY <1>1, <1>6, <1>5, <2>1
<1>7. CASE failed # DOMAIN results /\ failed # {}
  <2>1. StatusOf(results) = "degraded"
    BY <1>7 DEF StatusOf
  <2> QED
    BY <1>1, <1>4, <1>7, <2>1
<1>8. CASE failed # DOMAIN results /\ failed = {}
  <2>1. StatusOf(results) = "healthy"
    BY <1>8 DEF StatusOf
  <2> QED
    BY <1>1, <1>4, <1>8, <1>5, <2>1
<1> QED
  BY <1>6, <1>7, <1>8

(* A report's status fits its results, for any checks. *)
THEOREM ReportsCorrect == Spec => []ReportFits
<1>1. Init => HealthInv
  BY InitHealth DEF Init
<1>2. HealthInv /\ [Next]_vars => HealthInv'
  BY StepOfHealth, NextHealth
<1>3. HealthInv => ReportFits
  BY HealthInvFits
<1> QED
  BY <1>1, <1>2, <1>3, PTL DEF Spec

-----------------------------------------------------------------------------
(* Trace contexts. *)

Baggages == UNION {[names -> Values] : names \in SUBSET Keys}
TraceContexts == [trace : Nat, span : Nat \ {0}, parent : Nat, baggage : Baggages]

IdsInv ==
    /\ generated \in Nat /\ started \in Nat /\ IsFiniteSet(contexts)
    /\ contexts \subseteq TraceContexts /\ extracted \subseteq TraceContexts
    /\ \A c \in contexts : c.span <= generated
    /\ \A c, d \in contexts : c.span = d.span => c = d

(* The span that is the parent of one with the number id in its trace. *)
Fathers(trace, span, id, made, met) ==
    \E p \in made \cup met : p.span = span /\ p.trace = trace /\ (p \in met \/ p.span < id)

Linked(c, made, met) == (c.parent = 0 /\ c.span = c.trace) \/ Fathers(c.trace, c.parent, c.span, made, met)

LinksInv == \A c \in contexts : Linked(c, contexts, extracted)

CountInv == started <= Cardinality({c \in contexts : c.parent # 0})

(* The current context is a copy: the one in hand may have got baggage since. *)
RegistryInv ==
    /\ hung => current = None
    /\ current # None => current \in TraceContexts /\ Fathers(current.trace, current.span, generated + 1, contexts, extracted)

GivenLast(key, i) ==
    /\ i \in DOMAIN injected /\ key \in DOMAIN injected[i].baggage
    /\ \A j \in DOMAIN injected : key \in DOMAIN injected[j].baggage => j <= i

CarrierInv ==
    /\ injected \in Seq(TraceContexts)
    /\ carrier = [header |-> carrier.header, baggage |-> carrier.baggage]
    /\ carrier.baggage \in Baggages
    /\ injected = <<>> => carrier.header = NoHeader
    /\ injected # <<>> => carrier.header = <<Last(injected).trace, Last(injected).span>>
    /\ \A key \in DOMAIN carrier.baggage : \E i \in DOMAIN injected : key \in DOMAIN injected[i].baggage
    /\ \A key, i : GivenLast(key, i) => key \in DOMAIN carrier.baggage /\ carrier.baggage[key] = injected[i].baggage[key]

TraceInv == IdsInv /\ LinksInv /\ CountInv /\ RegistryInv /\ CarrierInv

LEMMA StepOfTraces == [Next]_vars => [TraceNext]_traceVars
  BY DEF Next, DevkitNext, TracingNext, vars, tracingVars

LEMMA FathersKept ==
    ASSUME NEW made, NEW met, NEW made2, NEW met2, NEW trace, NEW span, NEW id \in Nat, NEW id2 \in Nat,
           made \subseteq TraceContexts, id <= id2, met \subseteq met2,
           \A p \in made : \E q \in made2 : q.span = p.span /\ q.trace = p.trace,
           Fathers(trace, span, id, made, met)
    PROVE  Fathers(trace, span, id2, made2, met2)
<1>1. PICK p \in made \cup met : p.span = span /\ p.trace = trace /\ (p \in met \/ p.span < id)
  BY DEF Fathers
<1>2. CASE p \in met
  BY <1>1, <1>2 DEF Fathers
<1>3. CASE p \in made /\ p.span < id
  <2>1. PICK q \in made2 : q.span = p.span /\ q.trace = p.trace
    BY <1>3
  <2>2. p.span \in Nat
    BY <1>3 DEF TraceContexts
  <2>3. q.span < id2
    BY <1>3, <2>1, <2>2
  <2> QED
    BY <1>1, <2>1, <2>3 DEF Fathers
<1> QED
  BY <1>1, <1>2, <1>3

LEMMA NoBaggage == <<>> \in Baggages /\ DOMAIN <<>> = {}
<1>1. DOMAIN <<>> = {}
  OBVIOUS
<1>2. <<>> = [name \in {} |-> CHOOSE value : TRUE]
  OBVIOUS
<1>3. [name \in {} |-> CHOOSE value : TRUE] \in [{} -> Values]
  OBVIOUS
<1>4. {} \in SUBSET Keys
  OBVIOUS
<1> QED
  BY <1>1, <1>2, <1>3, <1>4 DEF Baggages

LEMMA OverlaidFits ==
    ASSUME NEW top \in Baggages, NEW below \in Baggages PROVE Overlaid(top, below) \in Baggages
<1>1. PICK names \in SUBSET Keys : top \in [names -> Values]
  BY DEF Baggages
<1>2. PICK others \in SUBSET Keys : below \in [others -> Values]
  BY DEF Baggages
<1>3. Overlaid(top, below) \in [names \cup others -> Values]
  BY <1>1, <1>2 DEF Overlaid
<1>4. names \cup others \in SUBSET Keys
  OBVIOUS
<1> QED
  BY <1>3, <1>4 DEF Baggages

LEMMA SingleFits ==
    ASSUME NEW key \in Keys, NEW value \in Values PROVE [k \in {key} |-> value] \in Baggages
<1>1. [k \in {key} |-> value] \in [{key} -> Values]
  OBVIOUS
<1> QED
  BY <1>1 DEF Baggages

LEMMA RootFits ==
    ASSUME NEW id \in Nat \ {0}
    PROVE  Root(id) \in TraceContexts /\ Root(id).span = id /\ Root(id).trace = id /\ Root(id).parent = 0
  BY NoBaggage DEF Root, TraceContexts

LEMMA ChildFits ==
    ASSUME NEW ctx \in TraceContexts, NEW id \in Nat \ {0}
    PROVE  /\ ChildSpan(ctx, id) \in TraceContexts
           /\ ChildSpan(ctx, id).span = id /\ ChildSpan(ctx, id).trace = ctx.trace
           /\ ChildSpan(ctx, id).parent = ctx.span /\ ctx.span \in Nat \ {0}
  BY DEF ChildSpan, TraceContexts

LEMMA BaggageAdded ==
    ASSUME NEW ctx \in TraceContexts, NEW key \in Keys, NEW value \in Values
    PROVE  /\ WithBaggage(ctx, key, value) \in TraceContexts
           /\ WithBaggage(ctx, key, value).span = ctx.span /\ WithBaggage(ctx, key, value).trace = ctx.trace
           /\ WithBaggage(ctx, key, value).parent = ctx.parent
<1> DEFINE b == Overlaid([k \in {key} |-> value], ctx.baggage)
<1>1. b \in Baggages
  <2>1. ctx.baggage \in Baggages
    BY DEF TraceContexts
  <2> QED
    BY <2>1, SingleFits, OverlaidFits
<1>2. WithBaggage(ctx, key, value) = [ctx EXCEPT !.baggage = b]
  BY DEF WithBaggage
<1> HIDE DEF b
<1> QED
  BY <1>1, <1>2 DEF TraceContexts

LEMMA HeaderParts == \A a, b : <<a, b>>[1] = a /\ <<a, b>>[2] = b
  OBVIOUS

LEMMA InitTrace == ASSUME TracingInit PROVE TraceInv
<1>1. IdsInv /\ LinksInv /\ RegistryInv
  BY FS_EmptySet DEF TracingInit, IdsInv, LinksInv, RegistryInv
<1>2. CountInv
  <2>1. {c \in contexts : c.parent # 0} = {} /\ started = 0
    BY DEF TracingInit
  <2> QED
    BY <2>1, FS_EmptySet DEF CountInv
<1>3. CarrierInv
  <2>1. injected = <<>> /\ carrier = [header |-> NoHeader, baggage |-> <<>>]
    BY DEF TracingInit, EmptyCarrier
  <2> QED
    BY <2>1, NoBaggage DEF CarrierInv, GivenLast
<1> QED
  BY <1>1, <1>2, <1>3 DEF TraceInv

Made(c) ==
    /\ generated' = generated + 1 /\ contexts' = contexts \cup {c}
    /\ c.span = generated + 1 /\ Linked(c, contexts, extracted)
    /\ started' = started \/ (started' = started + 1 /\ c.parent # 0)
    /\ UNCHANGED <<extracted, current, hung>>

LEMMA MakesOne == ASSUME TraceInv, NewRoot \/ NewChild \/ StartSpan PROVE \E c \in TraceContexts : Made(c)
<1>1. generated \in Nat /\ generated + 1 \in Nat \ {0}
  BY DEF TraceInv, IdsInv
<1>2. CASE NewRoot
  <2>1. /\ Root(generated + 1) \in TraceContexts /\ Root(generated + 1).span = generated + 1
        /\ Root(generated + 1).trace = generated + 1 /\ Root(generated + 1).parent = 0
    BY <1>1, RootFits
  <2> QED
    BY <1>2, <2>1 DEF NewRoot, Made, Linked
<1>3. CASE NewChild
  <2>1. PICK ctx \in InHand : contexts' = contexts \cup {ChildSpan(ctx, generated + 1)}
    BY <1>3 DEF NewChild
  <2>2. ctx \in TraceContexts /\ (ctx \in extracted \/ ctx.span < generated + 1)
    <3>1. ctx \in contexts => ctx.span <= generated /\ ctx.span \in Nat
      BY DEF TraceInv, IdsInv, TraceContexts
    <3> QED
      BY <1>1, <3>1 DEF TraceInv, IdsInv, InHand
  <2>3. /\ ChildSpan(ctx, generated + 1) \in TraceContexts /\ ChildSpan(ctx, generated + 1).span = generated + 1
        /\ ChildSpan(ctx, generated + 1).trace = ctx.trace /\ ChildSpan(ctx, generated + 1).parent = ctx.span
    BY <1>1, <2>2, ChildFits
  <2>4. Fathers(ctx.trace, ctx.span, generated + 1, contexts, extracted)
    BY <2>2 DEF Fathers, InHand
  <2> QED
    BY <1>3, <2>1, <2>3, <2>4 DEF NewChild, Made, Linked
<1>4. CASE StartSpan
  <2>1. current \in TraceContexts /\ Fathers(current.trace, current.span, generated + 1, contexts, extracted)
    BY <1>4 DEF StartSpan, TraceInv, RegistryInv
  <2>2. /\ ChildSpan(current, generated + 1) \in TraceContexts /\ ChildSpan(current, generated + 1).span = generated + 1
        /\ ChildSpan(current, generated + 1).trace = current.trace /\ ChildSpan(current, generated + 1).parent = current.span
        /\ current.span # 0
    BY <1>1, <2>1, ChildFits
  <2> QED
    BY <1>4, <2>1, <2>2 DEF StartSpan, Made, Linked
<1> QED
  BY <1>2, <1>3, <1>4

LEMMA MadeKeeps ==
    ASSUME TraceInv, NEW c \in TraceContexts, Made(c) PROVE IdsInv' /\ LinksInv' /\ CountInv' /\ RegistryInv'
<1>1. /\ generated \in Nat /\ started \in Nat /\ IsFiniteSet(contexts) /\ contexts \subseteq TraceContexts
      /\ \A d \in contexts : d.span <= generated /\ d.span \in Nat
  BY DEF TraceInv, IdsInv, TraceContexts
<1>2. /\ generated' = generated + 1 /\ contexts' = contexts \cup {c} /\ c.span = generated + 1
      /\ extracted' = extracted /\ current' = current /\ hung' = hung
  BY DEF Made
<1>3. c \notin contexts
  BY <1>1, <1>2
<1>4. IdsInv'
  <2>1. IsFiniteSet(contexts')
    BY <1>1, <1>2, FS_AddElement
  <2>2. \A d \in contexts' : d.span <= generated'
    BY <1>1, <1>2
  <2>3. \A d, e \in contexts' : d.span = e.span => d = e
    BY <1>1, <1>2 DEF TraceInv, IdsInv
  <2>4. generated' \in Nat /\ started' \in Nat
    BY <1>1, <1>2 DEF Made
  <2> QED
    BY <1>1, <1>2, <2>1, <2>2, <2>3, <2>4 DEF TraceInv, IdsInv
<1>5. LinksInv'
  <2> SUFFICES ASSUME NEW d \in contexts' PROVE Linked(d, contexts', extracted')
    BY DEF LinksInv
  <2>1. Linked(d, contexts, extracted) /\ d.span \in Nat
    BY <1>1, <1>2 DEF Made, TraceInv, LinksInv
  <2>2. CASE d.parent = 0 /\ d.span = d.trace
    BY <2>2 DEF Linked
  <2>3. CASE Fathers(d.trace, d.parent, d.span, contexts, extracted)
    <3>1. d.span <= d.span /\ extracted \subseteq extracted'
      BY <2>1, <1>2
    <3>2. \A p \in contexts : \E q \in contexts' : q.span = p.span /\ q.trace = p.trace
      BY <1>2
    <3>3. Fathers(d.trace, d.parent, d.span, contexts', extracted')
      BY <1>1, <2>1, <2>3, <3>1, <3>2, FathersKept
    <3> QED
      BY <3>3 DEF Linked
  <2> QED
    BY <2>1, <2>2, <2>3 DEF Linked
<1>6. CountInv'
  <2> DEFINE kids == {d \in contexts : d.parent # 0}
             more == {d \in contexts' : d.parent # 0}
  <2>1. IsFiniteSet(kids) /\ started <= Cardinality(kids) /\ c \notin kids
    BY <1>1, <1>3, FS_Subset DEF TraceInv, CountInv
  <2>2. Cardinality(kids) \in Nat /\ Cardinality(kids \cup {c}) = Cardinality(kids) + 1
    BY <2>1, FS_CardinalityType, FS_AddElement
  <2>3. CASE c.parent = 0
    <3>1. more = kids /\ started' = started
      BY <1>2, <2>3 DEF Made
    <3> QED
      BY <2>1, <3>1 DEF CountInv
  <2>4. CASE c.parent # 0
    <3>1. more = kids \cup {c} /\ started' <= started + 1
      BY <1>1, <1>2, <2>4 DEF Made
    <3>2. started' \in Nat
      BY <1>1 DEF Made
    <3>3. started' <= Cardinality(more)
      <4> HIDE DEF kids, more
      <4>1. Cardinality(more) = Cardinality(kids) + 1
        BY <2>2, <3>1
      <4> QED
        BY <1>1, <2>1, <2>2, <3>1, <3>2, <4>1
    <3> QED
      BY <3>3 DEF CountInv
  <2> QED
    BY <2>3, <2>4
<1>7. RegistryInv'
  <2> SUFFICES ASSUME current # None PROVE Fathers(current.trace, current.span, generated' + 1, contexts', extracted')
    BY <1>2 DEF TraceInv, RegistryInv
  <2>1. Fathers(current.trace, current.span, generated + 1, contexts, extracted)
    BY DEF TraceInv, RegistryInv
  <2>2. extracted \subseteq extracted' /\ generated + 1 \in Nat /\ generated' + 1 \in Nat /\ generated + 1 <= generated' + 1
    BY <1>1, <1>2
  <2>3. \A p \in contexts : \E q \in contexts' : q.span = p.span /\ q.trace = p.trace
    BY <1>2
  <2> QED
    BY <1>1, <2>1, <2>2, <2>3, FathersKept
<1> QED
  BY <1>4, <1>5, <1>6, <1>7

(* A context with more baggage stands for the one it was. *)
LEMMA BaggageKeeps ==
    ASSUME TraceInv, AddBaggage PROVE IdsInv' /\ LinksInv' /\ CountInv' /\ RegistryInv'
<1>1. /\ generated \in Nat /\ IsFiniteSet(contexts) /\ contexts \subseteq TraceContexts
      /\ \A d \in contexts : d.span <= generated /\ d.span \in Nat
      /\ \A d, e \in contexts : d.span = e.span => d = e
  BY DEF TraceInv, IdsInv, TraceContexts
<1>2. PICK ctx \in contexts, key \in Keys, value \in Values :
          contexts' = (contexts \ {ctx}) \cup {WithBaggage(ctx, key, value)}
  BY DEF AddBaggage
<1>3. PICK new \in TraceContexts :
          /\ contexts' = (contexts \ {ctx}) \cup {new}
          /\ new.span = ctx.span /\ new.trace = ctx.trace /\ new.parent = ctx.parent
  BY <1>1, <1>2, BaggageAdded
<1>4. /\ generated' = generated /\ started' = started /\ extracted' = extracted /\ current' = current /\ hung' = hung
  BY DEF AddBaggage
<1>5. new \notin contexts \ {ctx}
  BY <1>1, <1>3
<1>6. \A p \in contexts : \E q \in contexts' : q.span = p.span /\ q.trace = p.trace
  BY <1>3
<1>7. extracted \subseteq extracted'
  BY <1>4
<1>8. IdsInv'
  <2>1. IsFiniteSet(contexts')
    <3>1. IsFiniteSet(contexts \ {ctx})
      BY <1>1, FS_RemoveElement
    <3> QED
      BY <1>3, <3>1, FS_AddElement
  <2>2. \A d \in contexts' : d.span <= generated'
    BY <1>1, <1>3, <1>4
  <2>3. \A d, e \in contexts' : d.span = e.span => d = e
    BY <1>1, <1>3
  <2> QED
    BY <1>1, <1>3, <1>4, <2>1, <2>2, <2>3 DEF TraceInv, IdsInv
<1>9. LinksInv'
  <2> SUFFICES ASSUME NEW d \in contexts' PROVE Linked(d, contexts', extracted')
    BY DEF LinksInv
  <2>1. PICK e \in contexts : e.span = d.span /\ e.trace = d.trace /\ e.parent = d.parent
    BY <1>3
  <2>2. Linked(e, contexts, extracted) /\ e.span \in Nat
    BY <1>1 DEF TraceInv, LinksInv
  <2>3. CASE e.parent = 0 /\ e.span = e.trace
    BY <2>1, <2>3 DEF Linked
  <2>4. CASE Fathers(e.trace, e.parent, e.span, contexts, extracted)
    <3>1. e.span <= e.span
      BY <2>2
    <3>2. Fathers(e.trace, e.parent, e.span, contexts', extracted')
      BY <1>1, <1>6, <1>7, <2>2, <2>4, <3>1, FathersKept
    <3> QED
      BY <2>1, <3>2 DEF Linked
  <2> QED
    BY <2>2, <2>3, <2>4 DEF Linked
<1>10. CountInv'
  <2> DEFINE kids == {d \in contexts : d.parent # 0}
             kept == {d \in contexts' : d.parent # 0}
  <2>1. IsFiniteSet(kids) /\ started <= Cardinality(kids)
    BY <1>1, FS_Subset DEF TraceInv, CountInv
  <2>2. CASE ctx.parent = 0
    <3>1. kept = kids
      BY <1>3, <2>2
    <3> QED
      BY <1>4, <2>1, <3>1 DEF CountInv
  <2>3. CASE ctx.parent # 0
    <3>1. kept = (kids \ {ctx}) \cup {new} /\ ctx \in kids /\ new \notin kids \ {ctx}
      BY <1>3, <1>5, <2>3
    <3> HIDE DEF kids
    <3>2. /\ IsFiniteSet(kids \ {ctx}) /\ Cardinality(kids \ {ctx}) = Cardinality(kids) - 1
      BY <2>1, <3>1, FS_RemoveElement
    <3>3. Cardinality(kept) = Cardinality(kids \ {ctx}) + 1
      <4> HIDE DEF kept
      <4> QED
        BY <3>1, <3>2, FS_AddElement
    <3>4. Cardinality(kids) \in Nat
      BY <2>1, FS_CardinalityType
    <3>5. Cardinality(kept) = Cardinality(kids)
      BY <3>2, <3>3, <3>4
    <3> QED
      BY <1>4, <2>1, <3>5 DEF CountInv
  <2> QED
    BY <2>2, <2>3
<1>11. RegistryInv'
  <2> SUFFICES ASSUME current # None PROVE Fathers(current.trace, current.span, generated + 1, contexts', extracted')
    BY <1>4 DEF TraceInv, RegistryInv
  <2>1. Fathers(current.trace, current.span, generated + 1, contexts, extracted)
    BY DEF TraceInv, RegistryInv
  <2>2. generated + 1 \in Nat /\ generated + 1 <= generated + 1
    BY <1>1
  <2> QED
    BY <1>1, <1>6, <1>7, <2>1, <2>2, FathersKept
<1> QED
  BY <1>8, <1>9, <1>10, <1>11

LEMMA ExtractKeeps ==
    ASSUME TraceInv, Extract PROVE IdsInv' /\ LinksInv' /\ CountInv' /\ RegistryInv'
<1>1. /\ generated \in Nat /\ contexts \subseteq TraceContexts
      /\ \A d \in contexts : d.span \in Nat
  BY DEF TraceInv, IdsInv, TraceContexts
<1>2. /\ generated' = generated /\ started' = started /\ contexts' = contexts /\ current' = current /\ hung' = hung
      /\ extracted' = extracted \cup {Extracted} /\ carrier.header # NoHeader
  BY DEF Extract
<1>3. Extracted \in TraceContexts
  <2>1. /\ injected \in Seq(TraceContexts) /\ injected # <<>> /\ carrier.baggage \in Baggages
        /\ carrier.header = <<Last(injected).trace, Last(injected).span>>
    BY <1>2 DEF TraceInv, CarrierInv
  <2>2. Last(injected) \in TraceContexts
    <3> DEFINE S == TraceContexts
    <3> HIDE DEF S
    <3>1. \A s \in Seq(S) : s # <<>> => Last(s) \in S
      BY DEF Last
    <3> QED
      BY <2>1, <3>1 DEF S
  <2>3. carrier.header[1] = Last(injected).trace /\ carrier.header[2] = Last(injected).span
    BY <2>1, HeaderParts
  <2>4. carrier.header[1] \in Nat /\ carrier.header[2] \in Nat \ {0}
    BY <2>2, <2>3 DEF TraceContexts
  <2> QED
    BY <2>1, <2>4 DEF Extracted, TraceContexts
<1>4. extracted \subseteq extracted' /\ \A p \in contexts : \E q \in contexts' : q.span = p.span /\ q.trace = p.trace
  BY <1>2
<1>5. IdsInv'
  BY <1>2, <1>3 DEF TraceInv, IdsInv
<1>6. LinksInv'
  <2> SUFFICES ASSUME NEW d \in contexts PROVE Linked(d, contexts', extracted')
    BY <1>2 DEF LinksInv
  <2>1. Linked(d, contexts, extracted) /\ d.span \in Nat /\ d.span <= d.span
    BY <1>1 DEF TraceInv, LinksInv
  <2>2. Fathers(d.trace, d.parent, d.span, contexts, extracted) => Fathers(d.trace, d.parent, d.span, contexts', extracted')
    BY <1>1, <1>4, <2>1, FathersKept
  <2> QED
    BY <2>1, <2>2 DEF Linked
<1>7. CountInv'
  BY <1>2 DEF TraceInv, CountInv
<1>8. RegistryInv'
  <2> SUFFICES ASSUME current # None PROVE Fathers(current.trace, current.span, generated + 1, contexts', extracted')
    BY <1>2 DEF TraceInv, RegistryInv
  <2>1. Fathers(current.trace, current.span, generated + 1, contexts, extracted)
    BY DEF TraceInv, RegistryInv
  <2>2. generated + 1 \in Nat /\ generated + 1 <= generated + 1
    BY <1>1
  <2> QED
    BY <1>1, <1>4, <2>1, <2>2, FathersKept
<1> QED
  BY <1>5, <1>6, <1>7, <1>8

LEMMA RegistryKeeps ==
    ASSUME TraceInv, SetCurrent \/ GetNone \/ ClearCurrent \/ Inject \/ Arrive \/ EmptyIt \/ UNCHANGED traceVars
    PROVE  IdsInv' /\ LinksInv' /\ CountInv' /\ RegistryInv'
<1>1. /\ generated' = generated /\ started' = started /\ contexts' = contexts /\ extracted' = extracted
      /\ \/ current' = current
         \/ current' = None /\ hung' = hung
         \/ current' \in InHand /\ ~hung /\ hung' = hung
      /\ hung' = hung \/ (current = None /\ current' = None)
  BY DEF SetCurrent, GetNone, ClearCurrent, Inject, Arrive, EmptyIt, traceVars
<1>2. IdsInv' /\ LinksInv' /\ CountInv'
  BY <1>1 DEF TraceInv, IdsInv, LinksInv, CountInv
<1>3. RegistryInv'
  <2>1. CASE current' = current \/ current' = None
    BY <1>1, <2>1 DEF TraceInv, RegistryInv
  <2>2. CASE current' \in InHand /\ ~hung /\ hung' = hung
    <3>1. current' \in contexts => current'.span <= generated /\ current'.span \in Nat
      BY DEF TraceInv, IdsInv, TraceContexts
    <3>2. generated \in Nat /\ current' \in TraceContexts
      BY <2>2 DEF TraceInv, IdsInv, InHand
    <3>3. current' \in extracted \/ (current' \in contexts /\ current'.span < generated + 1)
      BY <2>2, <3>1, <3>2 DEF InHand
    <3>4. Fathers(current'.trace, current'.span, generated + 1, contexts, extracted)
      BY <3>3 DEF Fathers
    <3> QED
      BY <1>1, <2>2, <3>2, <3>4 DEF RegistryInv
  <2> QED
    BY <1>1, <2>1, <2>2
<1> QED
  BY <1>2, <1>3

LEMMA LatestElement ==
    ASSUME NEW n \in Nat, NEW T, T \subseteq 1..n, T # {} PROVE \E m \in T : \A k \in T : k <= m
<1> DEFINE U == {n - k : k \in T}
<1>1. U \subseteq Nat /\ U # {}
  <2>1. \A k \in T : n - k \in Nat
    OBVIOUS
  <2> QED
    BY <2>1, Zenon
<1>2. PICK u \in U : \A v \in U : u <= v
  <2> HIDE DEF U
  <2> QED
    BY <1>1, LeastElement
<1>3. PICK m \in T : u = n - m
  BY <1>2
<1>4. \A k \in T : n - m <= n - k
  BY <1>2, <1>3
<1> QED
  BY <1>3, <1>4

LEMMA OverlaidParts ==
    ASSUME NEW top, NEW below
    PROVE  /\ DOMAIN Overlaid(top, below) = DOMAIN top \cup DOMAIN below
           /\ \A x \in DOMAIN top : Overlaid(top, below)[x] = top[x]
           /\ \A x \in DOMAIN below \ DOMAIN top : Overlaid(top, below)[x] = below[x]
  BY DEF Overlaid

LEMMA Appended ==
    ASSUME NEW S, NEW s \in Seq(S), NEW x \in S
    PROVE  /\ Append(s, x) \in Seq(S) /\ Append(s, x) # <<>> /\ Last(Append(s, x)) = x
           /\ DOMAIN Append(s, x) = DOMAIN s \cup {Len(s) + 1} /\ Append(s, x)[Len(s) + 1] = x
           /\ Len(s) + 1 \notin DOMAIN s /\ \A i \in DOMAIN s : Append(s, x)[i] = s[i] /\ i < Len(s) + 1
  BY DEF Last

(* The baggage in the carrier after one more context was injected. *)
LEMMA InjectKeeps == ASSUME TraceInv, Inject PROVE CarrierInv'
<1> DEFINE S == TraceContexts
<1>1. PICK ctx \in InHand :
          /\ carrier' = [header |-> <<ctx.trace, ctx.span>>, baggage |-> Overlaid(ctx.baggage, carrier.baggage)]
          /\ injected' = Append(injected, ctx)
  BY DEF Inject
<1>2. ctx \in S /\ ctx.baggage \in Baggages /\ injected \in Seq(S)
  BY DEF TraceInv, IdsInv, InHand, CarrierInv, TraceContexts
<1>3. PICK n : n = Len(injected) + 1
  OBVIOUS
<1>4. /\ injected' \in Seq(S) /\ injected' # <<>> /\ Last(injected') = ctx
      /\ DOMAIN injected' = DOMAIN injected \cup {n} /\ injected'[n] = ctx
      /\ n \notin DOMAIN injected /\ \A i \in DOMAIN injected : injected'[i] = injected[i] /\ i < n
  <2> HIDE DEF S
  <2> QED
    BY <1>1, <1>2, <1>3, Appended
<1>5. n \in Nat /\ DOMAIN injected \subseteq Nat
  <2> HIDE DEF S
  <2> QED
    BY <1>2, <1>3, Elements
<1>6. PICK old : old = carrier.baggage
  OBVIOUS
<1>7. PICK new : new = Overlaid(ctx.baggage, old)
  OBVIOUS
<1>8. /\ DOMAIN new = DOMAIN ctx.baggage \cup DOMAIN old
      /\ \A key \in DOMAIN ctx.baggage : new[key] = ctx.baggage[key]
      /\ \A key \in DOMAIN old \ DOMAIN ctx.baggage : new[key] = old[key]
  BY <1>7, OverlaidParts
<1>9. carrier'.baggage = new /\ new \in Baggages
  <2>1. old \in Baggages
    BY <1>6 DEF TraceInv, CarrierInv
  <2> QED
    BY <1>1, <1>2, <1>6, <1>7, <2>1, OverlaidFits
<1>10. \A key \in DOMAIN new : \E i \in DOMAIN injected' : key \in DOMAIN injected'[i].baggage
  <2> SUFFICES ASSUME NEW key \in DOMAIN new PROVE \E i \in DOMAIN injected' : key \in DOMAIN injected'[i].baggage
    OBVIOUS
  <2>1. CASE key \in DOMAIN ctx.baggage
    BY <1>4, <2>1
  <2>2. CASE key \in DOMAIN old
    <3>1. PICK i \in DOMAIN injected : key \in DOMAIN injected[i].baggage
      BY <1>6, <2>2 DEF TraceInv, CarrierInv
    <3> QED
      BY <1>4, <3>1
  <2> QED
    BY <1>8, <2>1, <2>2
<1>11. \A key, i : GivenLast(key, i)' => key \in DOMAIN new /\ new[key] = injected'[i].baggage[key]
  <2> SUFFICES ASSUME NEW key, NEW i \in DOMAIN injected', key \in DOMAIN injected'[i].baggage,
                      \A j \in DOMAIN injected' : key \in DOMAIN injected'[j].baggage => j <= i
               PROVE  key \in DOMAIN new /\ new[key] = injected'[i].baggage[key]
    BY DEF GivenLast
  <2>1. CASE key \in DOMAIN ctx.baggage
    <3>1. n <= i
      BY <1>4, <2>1
    <3>2. i = n
      BY <1>4, <1>5, <3>1
    <3> QED
      BY <1>4, <1>8, <2>1, <3>2
  <2>2. CASE key \notin DOMAIN ctx.baggage
    <3>1. i \in DOMAIN injected
      BY <1>4, <2>2
    <3>2. GivenLast(key, i)
      BY <1>4, <3>1 DEF GivenLast
    <3>3. key \in DOMAIN old /\ old[key] = injected[i].baggage[key]
      BY <1>6, <3>2 DEF TraceInv, CarrierInv
    <3> QED
      BY <1>4, <1>8, <2>2, <3>1, <3>3
  <2> QED
    BY <2>1, <2>2
<1>12. carrier' = [header |-> carrier'.header, baggage |-> carrier'.baggage] /\ carrier'.header = <<ctx.trace, ctx.span>>
  BY <1>1
<1> QED
  BY <1>4, <1>9, <1>10, <1>11, <1>12 DEF CarrierInv

LEMMA OneGiven ==
    ASSUME NEW S, NEW x \in S PROVE <<x>> \in Seq(S) /\ <<x>> # <<>> /\ Last(<<x>>) = x /\ \A i \in DOMAIN <<x>> : <<x>>[i] = x
  BY DEF Last

LEMMA ArriveKeeps == ASSUME Arrive PROVE CarrierInv'
<1>1. PICK header \in Headers :
          /\ carrier' = [header |-> header, baggage |-> <<>>]
          /\ injected' = <<[trace |-> header[1], span |-> header[2], parent |-> 0, baggage |-> <<>>]>>
  BY DEF Arrive
<1>2. PICK ctx : ctx = [trace |-> header[1], span |-> header[2], parent |-> 0, baggage |-> <<>>]
  OBVIOUS
<1>3. header = <<header[1], header[2]>> /\ header[1] \in Nat /\ header[2] \in Nat \ {0}
  BY TracingAssumption DEF TracingAssumption
<1>4. ctx \in TraceContexts /\ ctx.baggage = <<>> /\ ctx.trace = header[1] /\ ctx.span = header[2]
  BY <1>2, <1>3, NoBaggage DEF TraceContexts
<1>5. /\ injected' \in Seq(TraceContexts) /\ injected' # <<>> /\ Last(injected') = ctx
      /\ \A i \in DOMAIN injected' : injected'[i].baggage = <<>>
  <2> DEFINE S == TraceContexts
  <2>1. ctx \in S /\ ctx.baggage = <<>>
    BY <1>4
  <2> HIDE DEF S
  <2>2. <<ctx>> \in Seq(S) /\ <<ctx>> # <<>> /\ Last(<<ctx>>) = ctx /\ \A i \in DOMAIN <<ctx>> : <<ctx>>[i] = ctx
    BY <2>1, OneGiven
  <2>3. injected' = <<ctx>>
    BY <1>1, <1>2
  <2> QED
    BY <2>1, <2>2, <2>3 DEF S
<1>6. \A key, i : ~GivenLast(key, i)'
  BY <1>5, NoBaggage DEF GivenLast
<1>7. carrier'.baggage = <<>> /\ carrier'.header = header /\ carrier' = [header |-> carrier'.header, baggage |-> carrier'.baggage]
  BY <1>1
<1> QED
  BY <1>3, <1>4, <1>5, <1>6, <1>7, NoBaggage DEF CarrierInv

LEMMA EmptyItKeeps == ASSUME EmptyIt PROVE CarrierInv'
<1>1. injected' = <<>> /\ carrier' = [header |-> NoHeader, baggage |-> <<>>]
  BY DEF EmptyIt, EmptyCarrier
<1> QED
  BY <1>1, NoBaggage DEF CarrierInv, GivenLast

LEMMA SameCarrierKeeps == ASSUME TraceInv, UNCHANGED <<carrier, injected>> PROVE CarrierInv'
<1>1. \A key, i : GivenLast(key, i)' <=> GivenLast(key, i)
  BY DEF GivenLast
<1> QED
  BY <1>1 DEF TraceInv, CarrierInv

LEMMA NextTrace == ASSUME TraceInv, [TraceNext]_traceVars PROVE TraceInv'
<1>1. CASE NewRoot \/ NewChild \/ StartSpan
  <2>1. IdsInv' /\ LinksInv' /\ CountInv' /\ RegistryInv'
    BY <1>1, MakesOne, MadeKeeps
  <2>2. CarrierInv'
    BY <1>1, SameCarrierKeeps DEF NewRoot, NewChild, StartSpan
  <2> QED
    BY <2>1, <2>2 DEF TraceInv
<1>2. CASE AddBaggage
  BY <1>2, BaggageKeeps, SameCarrierKeeps DEF AddBaggage, TraceInv
<1>3. CASE Extract
  BY <1>3, ExtractKeeps, SameCarrierKeeps DEF Extract, TraceInv
<1>4. CASE SetCurrent \/ GetNone \/ ClearCurrent \/ UNCHANGED traceVars
  <2>1. CarrierInv'
    BY <1>4, SameCarrierKeeps DEF SetCurrent, GetNone, ClearCurrent, traceVars
  <2> QED
    BY <1>4, <2>1, RegistryKeeps DEF TraceInv
<1>5. CASE Inject \/ Arrive \/ EmptyIt
  BY <1>5, RegistryKeeps, InjectKeeps, ArriveKeeps, EmptyItKeeps DEF TraceInv
<1> QED
  BY <1>1, <1>2, <1>3, <1>4, <1>5 DEF TraceNext

LEMMA TraceInvLinks == ASSUME TraceInv PROVE SpansLink
<1>1. \A c, d \in contexts : c.span = d.span => c = d
  BY DEF TraceInv, IdsInv
<1>2. \A c \in contexts :
         \/ c.parent = 0 /\ c.span = c.trace
         \/ \E p \in InHand : p.span = c.parent /\ p.trace = c.trace /\ (p \in extracted \/ p.span < c.span)
  BY DEF TraceInv, LinksInv, Linked, Fathers, InHand
<1>3. started <= Cardinality({c \in contexts : c.parent # 0}) /\ (hung => current = None)
  BY DEF TraceInv, CountInv, RegistryInv
<1>4. ASSUME carrier.header # NoHeader
      PROVE  /\ Extracted.trace = Last(injected).trace /\ Extracted.span = Last(injected).span
             /\ \A key :
                   LET given == {i \in DOMAIN injected : key \in DOMAIN injected[i].baggage} IN
                   /\ key \in DOMAIN Extracted.baggage <=> given # {}
                   /\ \A i \in given : (\A j \in given : j <= i) =>
                         Extracted.baggage[key] = injected[i].baggage[key]
  <2>1. carrier.header = <<Last(injected).trace, Last(injected).span>>
    BY <1>4 DEF TraceInv, CarrierInv
  <2>2. Extracted.trace = carrier.header[1] /\ Extracted.span = carrier.header[2] /\ Extracted.baggage = carrier.baggage
    BY DEF Extracted
  <2>3. Extracted.trace = Last(injected).trace /\ Extracted.span = Last(injected).span
    BY <2>1, <2>2, HeaderParts
  <2> SUFFICES ASSUME NEW key
               PROVE  LET given == {i \in DOMAIN injected : key \in DOMAIN injected[i].baggage} IN
                      /\ key \in DOMAIN carrier.baggage <=> given # {}
                      /\ \A i \in given : (\A j \in given : j <= i) => carrier.baggage[key] = injected[i].baggage[key]
    BY <2>2, <2>3
  <2> DEFINE given == {i \in DOMAIN injected : key \in DOMAIN injected[i].baggage}
  <2>4. \A i \in given : (\A j \in given : j <= i) => GivenLast(key, i)
    BY DEF GivenLast
  <2>5. \A i \in given : (\A j \in given : j <= i) =>
           key \in DOMAIN carrier.baggage /\ carrier.baggage[key] = injected[i].baggage[key]
    BY <2>4 DEF TraceInv, CarrierInv
  <2>6. key \in DOMAIN carrier.baggage => given # {}
    BY DEF TraceInv, CarrierInv
  <2>7. given # {} => \E i \in given : \A j \in given : j <= i
    <3> DEFINE S == TraceContexts
    <3>1. injected \in Seq(S)
      BY DEF TraceInv, CarrierInv
    <3>2. DOMAIN injected = 1..Len(injected) /\ Len(injected) \in Nat
      <4> HIDE DEF S
      <4> QED
        BY <3>1, Elements
    <3>3. given \subseteq 1..Len(injected)
      BY <3>2
    <3> HIDE DEF given
    <3> QED
      BY <3>2, <3>3, LatestElement
  <2> QED
    BY <2>5, <2>6, <2>7
<1> QED
  BY <1>1, <1>2, <1>3, <1>4 DEF SpansLink

(* Spans link, whatever contexts and baggage there are and whatever headers come in. *)
THEOREM SpansCorrect == Spec => []SpansLink
<1>1. Init => TraceInv
  BY InitTrace DEF Init
<1>2. TraceInv /\ [Next]_vars => TraceInv'
  BY StepOfTraces, NextTrace
<1>3. TraceInv => SpansLink
  BY TraceInvLinks
<1> QED
  BY <1>1, <1>2, <1>3, PTL DEF Spec

(* What is observed of a program, its spans, times and health, agrees with what *)
(* happened in it.                                                              *)
THEOREM ObservationsCorrect == Spec => []Observes
<1>1. SpansLink /\ TimesAddUp /\ ReportFits => Observes
  BY DEF Observes
<1> QED
  BY <1>1, SpansCorrect, TimersCorrect, ReportsCorrect, PTL

-----------------------------------------------------------------------------
(* Simulations. *)

IsFold(f, n, base, step) == f[0] = base /\ \A k \in 1..n : f[k] = step[k][f[k - 1]]

(* A function defined by what it is at 0 and how it goes on exists. *)
LEMMA FoldExists ==
    ASSUME NEW n \in Nat, NEW S, NEW base \in S, NEW step \in [1..n -> [S -> S]]
    PROVE  \E f \in [0..n -> S] : IsFold(f, n, base, step)
<1> USE DEF IsFold
<1> DEFINE Upto(f, m) == IsFold(f, m, base, step)
           with == {m \in 0..n : \E f \in [0..m -> S] : Upto(f, m)}
<1>1. 0 \in with
  <2> DEFINE f == [k \in 0..0 |-> base]
  <2>1. f \in [0..0 -> S] /\ Upto(f, 0)
    OBVIOUS
  <2>2. \E h \in [0..0 -> S] : Upto(h, 0)
    BY <2>1
  <2> HIDE DEF Upto
  <2> QED
    BY <2>2
<1>2. ASSUME NEW m \in 1..n, m - 1 \in with PROVE m \in with
  <2>1. PICK f \in [0..m - 1 -> S] : Upto(f, m - 1)
    BY <1>2
  <2> DEFINE g == [k \in 0..m |-> IF k = m THEN step[m][f[m - 1]] ELSE f[k]]
  <2>2. f[m - 1] \in S /\ step[m] \in [S -> S]
    BY <2>1
  <2>3. g \in [0..m -> S]
    BY <2>1, <2>2
  <2>4. g[m] = step[m][f[m - 1]] /\ \A k \in 0..m - 1 : g[k] = f[k]
    OBVIOUS
  <2> HIDE DEF g
  <2>5. g[0] = base
    BY <2>1, <2>4
  <2>6. ASSUME NEW k \in 1..m PROVE g[k] = step[k][g[k - 1]]
    <3>1. CASE k = m
      BY <2>4, <3>1
    <3>2. CASE k # m
      <4>1. k \in 1..m - 1 /\ k - 1 \in 0..m - 1 /\ k \in 0..m - 1
        BY <3>2
      <4> QED
        BY <2>1, <2>4, <4>1
    <3> QED
      BY <3>1, <3>2
  <2>7. \E h \in [0..m -> S] : Upto(h, m)
    BY <2>3, <2>5, <2>6
  <2>8. m \in 0..n
    OBVIOUS
  <2> HIDE DEF Upto
  <2> QED
    BY <2>7, <2>8
<1>3. n \in with
  <2> HIDE DEF with
  <2>1. 0..n \subseteq with
    BY <1>1, <1>2, ReachesAll
  <2> QED
    BY <2>1
<1> QED
  BY <1>3

IsIteration(f, n, base, step) == f[0] = base /\ \A k \in 1..n : f[k] = step[f[k - 1]]

LEMMA IterationExists ==
    ASSUME NEW n \in Nat, NEW S, NEW base \in S, NEW step \in [S -> S]
    PROVE  \E f \in [0..n -> S] : IsIteration(f, n, base, step)
<1> DEFINE each == [k \in 1..n |-> step]
<1>1. each \in [1..n -> [S -> S]] /\ \A k \in 1..n : each[k] = step
  OBVIOUS
<1> HIDE DEF each
<1>2. PICK f \in [0..n -> S] : IsFold(f, n, base, each)
  BY <1>1, FoldExists
<1> QED
  BY <1>1, <1>2 DEF IsFold, IsIteration

LEMMA IterationsAgree ==
    ASSUME NEW n \in Nat, NEW base, NEW step, NEW f, NEW h,
           IsIteration(f, n, base, step), IsIteration(h, n, base, step)
    PROVE  \A k \in 0..n : f[k] = h[k]
<1> DEFINE same == {k \in 0..n : f[k] = h[k]}
<1>1. 0 \in same /\ \A k \in 1..n : k - 1 \in same => k \in same
  BY DEF IsIteration
<1>2. 0..n \subseteq same
  <2> HIDE DEF same
  <2> QED
    BY <1>1, ReachesAll
<1> QED
  BY <1>2

(* The generator's state after n steps goes on with its step. *)
DrawnOf(seed, n) == CHOOSE f : f = [i \in 0..n |-> IF i = 0 THEN seed ELSE NextRng[f[i - 1]]]

LEMMA DrawnIterates ==
    ASSUME NEW seed \in Seeds, NEW n \in Nat
    PROVE  DrawnOf(seed, n) \in [0..n -> Seeds] /\ IsIteration(DrawnOf(seed, n), n, seed, NextRng)
<1> DEFINE d == DrawnOf(seed, n)
<1>1. PICK f \in [0..n -> Seeds] : IsIteration(f, n, seed, NextRng)
  BY IterationExists, SimulationAssumption DEF SimulationAssumption
<1>2. f = [i \in 0..n |-> IF i = 0 THEN seed ELSE NextRng[f[i - 1]]]
  <2>1. \A i \in 0..n : i = 0 \/ i \in 1..n
    OBVIOUS
  <2>2. f = [i \in 0..n |-> f[i]]
    OBVIOUS
  <2>3. f[0] = seed /\ \A i \in 1..n : f[i] = NextRng[f[i - 1]]
    BY <1>1 DEF IsIteration
  <2> QED
    BY <2>1, <2>2, <2>3, Zenon
<1>3. d = [i \in 0..n |-> IF i = 0 THEN seed ELSE NextRng[d[i - 1]]]
  BY <1>2, Zenon DEF DrawnOf
<1>4. IsIteration(d, n, seed, NextRng)
  <2> HIDE DEF d
  <2>1. d[0] = seed
    BY <1>3
  <2>2. \A k \in 1..n : d[k] = NextRng[d[k - 1]]
    BY <1>3
  <2> QED
    BY <2>1, <2>2 DEF IsIteration
<1>5. d = f
  <2> HIDE DEF d
  <2>1. \A k \in 0..n : d[k] = f[k]
    BY <1>1, <1>4, IterationsAgree
  <2>2. d = [i \in 0..n |-> d[i]]
    BY <1>3, Zenon
  <2> QED
    BY <2>1, <2>2
<1> QED
  BY <1>4, <1>5

LEMMA DrawnSteps ==
    ASSUME NEW seed \in Seeds, NEW n \in Nat
    PROVE  /\ Drawn(seed, n) \in Seeds /\ Drawn(seed, 0) = seed
           /\ Drawn(seed, n + 1) = NextRng[Drawn(seed, n)]
<1>1. ASSUME NEW m \in Nat PROVE Drawn(seed, m) = DrawnOf(seed, m)[m]
  BY Zenon DEF Drawn, DrawnOf
<1>2. /\ DrawnOf(seed, n) \in [0..n -> Seeds] /\ IsIteration(DrawnOf(seed, n), n, seed, NextRng)
      /\ IsIteration(DrawnOf(seed, n + 1), n + 1, seed, NextRng) /\ IsIteration(DrawnOf(seed, 0), 0, seed, NextRng)
  BY DrawnIterates
<1>3. IsIteration(DrawnOf(seed, n + 1), n, seed, NextRng)
  <2>1. PICK f : f = DrawnOf(seed, n + 1)
    OBVIOUS
  <2>2. f[0] = seed /\ \A k \in 1..(n + 1) : f[k] = NextRng[f[k - 1]]
    BY <1>2, <2>1 DEF IsIteration
  <2>3. \A k \in 1..n : k \in 1..(n + 1)
    OBVIOUS
  <2> QED
    BY <2>1, <2>2, <2>3 DEF IsIteration
<1>4. DrawnOf(seed, n + 1)[n] = DrawnOf(seed, n)[n]
  BY <1>2, <1>3, IterationsAgree
<1>5. DrawnOf(seed, n + 1)[n + 1] = NextRng[DrawnOf(seed, n + 1)[n]] /\ DrawnOf(seed, 0)[0] = seed /\ DrawnOf(seed, n)[n] \in Seeds
  BY <1>2 DEF IsIteration
<1>6. Drawn(seed, 0) = seed
  BY <1>1, <1>5
<1> QED
  BY <1>1, <1>4, <1>5, <1>6

LEMMA ClampWithin ==
    ASSUME NEW x \in Int, NEW low \in Int, NEW high \in Int, low <= high PROVE Clamp(x, low, high) \in low..high
  BY DEF Clamp

LEMMA NoiseIsInt == ASSUME NEW rng \in Seeds, NEW amplitude \in Int PROVE Noise(rng, amplitude) \in Int
<1>1. Unit[rng] \in Int /\ Scale \in Nat \ {0}
  BY SimulationAssumption DEF SimulationAssumption
<1>2. PICK x \in Int : x = (2 * Unit[rng] - Scale) * amplitude
  BY <1>1
<1>3. x \div Scale \in Int
  BY <1>1, <1>2
<1> QED
  BY <1>2, <1>3 DEF Noise

FeeModels ==
    [kind : {"model"}, config : {c \in FeeConfigs : ValidFees(c)}, state : Int, rng : Seeds, generated : Nat]

LEMMA ConfigFits ==
    ASSUME NEW c \in FeeConfigs, ValidFees(c)
    PROVE  /\ c.base \in Int /\ c.volatility \in Int /\ c.trend \in Int /\ c.min \in Int /\ c.max \in Int
           /\ c.seed \in Seeds /\ c.min <= c.max /\ c.base \in c.min..c.max /\ Amplitude(c) \in Int
<1>1. /\ c.base \in Int /\ c.volatility \in Int /\ c.trend \in Int /\ c.min \in Int /\ c.max \in Int
      /\ c.seed \in Seeds \cup {0} /\ Scale \in Nat \ {0}
  BY SimulationAssumption DEF SimulationAssumption
<1>2. PICK x \in Int : x = c.volatility * c.base
  BY <1>1
<1>3. x \div Scale \in Int
  BY <1>1, <1>2
<1> QED
  BY <1>1, <1>2, <1>3 DEF ValidFees, Amplitude

(* The fee after another is the one of the configuration and the generator. *)
FeeAfter(c, fee, rng) == Clamp(fee + c.trend + Noise(rng, Amplitude(c)), c.min, c.max)

LEMMA NextFeeFits ==
    ASSUME NEW m \in FeeModels
    PROVE  /\ NextFee(m) \in FeeModels /\ NextFee(m).config = m.config
           /\ NextFee(m).rng = NextRng[m.rng] /\ NextFee(m).generated = m.generated + 1
           /\ NextFee(m).state = FeeAfter(m.config, m.state, NextRng[m.rng])
           /\ NextFee(m).state \in m.config.min..m.config.max
<1>1. m.config \in FeeConfigs /\ ValidFees(m.config) /\ m.state \in Int /\ m.rng \in Seeds /\ m.generated \in Nat
  BY DEF FeeModels
<1>2. PICK rng : rng = NextRng[m.rng]
  OBVIOUS
<1>3. rng \in Seeds
  BY <1>1, <1>2, SimulationAssumption DEF SimulationAssumption
<1>4. PICK fee : fee = FeeAfter(m.config, m.state, rng)
  OBVIOUS
<1>5. fee \in m.config.min..m.config.max /\ fee \in Int
  <2>1. /\ m.config.trend \in Int /\ m.config.min \in Int /\ m.config.max \in Int
        /\ m.config.min <= m.config.max /\ Amplitude(m.config) \in Int
    BY <1>1, ConfigFits
  <2>2. Noise(rng, Amplitude(m.config)) \in Int
    BY <1>3, <2>1, NoiseIsInt
  <2>3. m.state + m.config.trend + Noise(rng, Amplitude(m.config)) \in Int
    BY <1>1, <2>1, <2>2
  <2>4. fee \in m.config.min..m.config.max
    BY <1>4, <2>1, <2>3, ClampWithin DEF FeeAfter
  <2> QED
    BY <2>1, <2>4
<1>6. NextFee(m) = [m EXCEPT !.rng = rng, !.generated = m.generated + 1, !.state = fee]
  BY <1>2, <1>4 DEF NextFee, FeeAfter
<1>7. PICK f : f = NextFee(m)
  OBVIOUS
<1>8. /\ f \in FeeModels /\ f.config = m.config /\ f.rng = rng /\ f.generated = m.generated + 1 /\ f.state = fee
  <2>1. fee \in Int
    BY <1>5
  <2> QED
    <3> DEFINE C == {c \in FeeConfigs : ValidFees(c)}
               M == [kind : {"model"}, config : C, state : Int, rng : Seeds, generated : Nat]
    <3>1. m \in M
      BY DEF FeeModels
    <3> HIDE DEF C
    <3>2. PICK made \in Nat : made = m.generated + 1
      BY <3>1
    <3>3. f = [m EXCEPT !.rng = rng, !.generated = made, !.state = fee]
      BY <1>6, <1>7, <3>2
    <3>4. /\ f \in M /\ f.config = m.config /\ f.rng = rng /\ f.generated = made /\ f.state = fee
      BY <1>3, <2>1, <3>1, <3>3
    <3> QED
      BY <3>2, <3>4 DEF C, FeeModels
<1> QED
  BY <1>2, <1>4, <1>5, <1>7, <1>8

FeesInv ==
    /\ fees \in Seq(Int)
    /\ model # Nothing =>
          /\ model \in FeeModels /\ model.generated = Len(fees) /\ model.state \in model.config.min..model.config.max
          /\ model.rng = Drawn(model.config.seed, Len(fees))
          /\ model.state = IF fees = <<>> THEN model.config.base ELSE fees[Len(fees)]
          /\ \A i \in DOMAIN fees :
                fees[i] = FeeAfter(model.config, IF i = 1 THEN model.config.base ELSE fees[i - 1],
                                   Drawn(model.config.seed, i))

(* A model that just began. *)
LEMMA BegunFits ==
    ASSUME NEW m \in FeeModels, m.generated = 0, m.state = m.config.base, m.rng = m.config.seed,
           model' = m, fees' = <<>>
    PROVE  FeesInv'
<1>1. fees' \in Seq(Int) /\ Len(fees') = 0 /\ DOMAIN fees' = {}
  OBVIOUS
<1>2. m.config.seed \in Seeds /\ m.config.base \in m.config.min..m.config.max
  BY ConfigFits DEF FeeModels
<1>3. Drawn(m.config.seed, 0) = m.config.seed
  BY <1>2, DrawnSteps
<1> QED
  BY <1>1, <1>2, <1>3 DEF FeesInv

LEMMA NewModelKeeps == ASSUME NewModel PROVE FeesInv'
<1>1. PICK c \in FeeConfigs :
          ValidFees(c) /\ model' = [kind |-> "model", config |-> c, state |-> c.base, rng |-> c.seed, generated |-> 0]
  BY DEF NewModel
<1>2. c.base \in Int /\ c.seed \in Seeds
  BY <1>1, ConfigFits
<1>3. /\ model' \in FeeModels /\ model'.generated = 0 /\ model'.state = model'.config.base
      /\ model'.rng = model'.config.seed /\ fees' = <<>>
  BY <1>1, <1>2 DEF FeeModels, NewModel
<1>4. PICK m : m = model'
  OBVIOUS
<1> QED
  BY <1>3, <1>4, BegunFits

LEMMA ResetModelKeeps == ASSUME FeesInv, ResetModel PROVE FeesInv'
<1>1. model \in FeeModels /\ fees' = <<>>
      /\ model' = [model EXCEPT !.state = model.config.base, !.rng = model.config.seed, !.generated = 0]
  BY DEF FeesInv, ResetModel
<1>2. model.config.base \in Int /\ model.config.seed \in Seeds
  BY <1>1, ConfigFits DEF FeeModels
<1>3. /\ model' \in FeeModels /\ model'.generated = 0 /\ model'.state = model'.config.base
      /\ model'.rng = model'.config.seed
  BY <1>1, <1>2 DEF FeeModels
<1>4. PICK m : m = model'
  OBVIOUS
<1> QED
  BY <1>1, <1>3, <1>4, BegunFits

(* The models after 0..count fees, as generate() takes them. *)
Models(m, count) == CHOOSE f : f = [i \in 0..count |-> IF i = 0 THEN m ELSE NextFee(f[i - 1])]

LEMMA ModelsFollow ==
    ASSUME NEW m \in FeeModels, NEW count \in Nat
    PROVE  /\ Models(m, count)[0] = m
           /\ \A i \in 0..count : Models(m, count)[i] \in FeeModels
           /\ \A i \in 1..count : Models(m, count)[i] = NextFee(Models(m, count)[i - 1])
<1> DEFINE g == [x \in FeeModels |-> NextFee(x)]
           after == Models(m, count)
<1>1. g \in [FeeModels -> FeeModels]
  BY NextFeeFits
<1>2. PICK f \in [0..count -> FeeModels] : IsIteration(f, count, m, g)
  <2> HIDE DEF g
  <2> QED
    BY <1>1, IterationExists
<1>3. f[0] = m /\ \A i \in 1..count : f[i] = NextFee(f[i - 1])
  <2>1. \A i \in 1..count : f[i] = g[f[i - 1]] /\ f[i - 1] \in FeeModels
    <3> HIDE DEF g
    <3>1. \A i \in 1..count : f[i] = g[f[i - 1]]
      BY <1>2 DEF IsIteration
    <3>2. \A i \in 1..count : i - 1 \in 0..count
      OBVIOUS
    <3> QED
      BY <1>2, <3>1, <3>2
  <2>2. f[0] = m
    BY <1>2 DEF IsIteration
  <2> QED
    BY <2>1, <2>2
<1>4. f = [i \in 0..count |-> IF i = 0 THEN m ELSE NextFee(f[i - 1])]
  <2>1. \A i \in 0..count : i = 0 \/ i \in 1..count
    OBVIOUS
  <2>2. f = [i \in 0..count |-> f[i]]
    BY <1>2
  <2> QED
    BY <1>3, <2>1, <2>2, Zenon
<1>5. after = [i \in 0..count |-> IF i = 0 THEN m ELSE NextFee(after[i - 1])]
  BY <1>4, Zenon DEF Models
<1>6. after[0] = m /\ \A i \in 1..count : after[i] = NextFee(after[i - 1])
  <2> HIDE DEF after
  <2> QED
    BY <1>5
<1>7. \A i \in 0..count : after[i] \in FeeModels
  <2> DEFINE good == {i \in 0..count : after[i] \in FeeModels}
  <2> HIDE DEF after
  <2>1. 0 \in good /\ \A i \in 1..count : i - 1 \in good => i \in good
    BY <1>6, NextFeeFits
  <2>2. 0..count \subseteq good
    <3> HIDE DEF good
    <3> QED
      BY <2>1, ReachesAll
  <2> QED
    BY <2>2
<1> QED
  BY <1>6, <1>7

LEMMA Joined ==
    ASSUME NEW S, NEW s \in Seq(S), NEW n \in Nat, NEW t \in [1..n -> S]
    PROVE  /\ s \o t \in Seq(S) /\ Len(s \o t) = Len(s) + n /\ Len(s) \in Nat /\ DOMAIN s = 1..Len(s)
           /\ DOMAIN (s \o t) = 1..(Len(s) + n)
           /\ \A i \in 1..Len(s) : (s \o t)[i] = s[i]
           /\ \A i \in 1..n : (s \o t)[Len(s) + i] = t[i]
<1>1. t \in Seq(S) /\ Len(t) = n
  OBVIOUS
<1> QED
  BY <1>1

LEMMA GenerateKeeps == ASSUME FeesInv, Generate PROVE FeesInv'
<1> DEFINE after(count) == Models(model, count)
<1>1. PICK count \in 1..(MaxLength - Len(fees)) :
          /\ model' = Models(model, count)[count]
          /\ fees' = fees \o [i \in 1..count |-> Models(model, count)[i].state]
  BY Zenon DEF Generate, Models
<1>2. PICK c, seed, L, m : c = model.config /\ seed = model.config.seed /\ L = Len(fees) /\ m = Models(model, count)
  OBVIOUS
<1>3. /\ fees \in Seq(Int) /\ L \in Nat /\ count \in Nat \ {0} /\ model \in FeeModels
      /\ model.generated = L /\ model.state \in c.min..c.max /\ model.rng = Drawn(seed, L)
  <2>1. fees \in Seq(Int) /\ model # Nothing
    BY DEF FeesInv, Generate
  <2>2. Len(fees) \in Nat
    BY <2>1
  <2>3. MaxLength \in Nat
    BY SimulationAssumption DEF SimulationAssumption
  <2> QED
    BY <1>2, <2>1, <2>2, <2>3 DEF FeesInv
<1>4. c \in FeeConfigs /\ ValidFees(c) /\ seed \in Seeds
  <2>1. c \in FeeConfigs /\ ValidFees(c)
    BY <1>2, <1>3 DEF FeeModels
  <2> QED
    BY <1>2, <2>1, ConfigFits
<1>5. /\ m[0] = model /\ \A i \in 0..count : m[i] \in FeeModels
      /\ \A i \in 1..count : m[i] = NextFee(m[i - 1])
  BY <1>2, <1>3, ModelsFollow
<1>6. \A i \in 0..count :
         m[i].config = c /\ m[i].generated = L + i /\ m[i].rng = Drawn(seed, L + i) /\ m[i].state \in c.min..c.max
  <2> DEFINE good == {i \in 0..count :
                 m[i].config = c /\ m[i].generated = L + i /\ m[i].rng = Drawn(seed, L + i) /\ m[i].state \in c.min..c.max}
  <2>1. 0 \in good
    BY <1>2, <1>3, <1>5
  <2>2. ASSUME NEW i \in 1..count, i - 1 \in good PROVE i \in good
    <3>1. /\ m[i - 1].config = c /\ m[i - 1].generated = L + (i - 1) /\ m[i - 1].rng = Drawn(seed, L + (i - 1))
          /\ m[i - 1] \in FeeModels /\ m[i] = NextFee(m[i - 1])
      BY <1>5, <2>2
    <3>2. /\ m[i].config = c /\ m[i].generated = m[i - 1].generated + 1 /\ m[i].rng = NextRng[m[i - 1].rng]
          /\ m[i].state \in c.min..c.max
      BY <3>1, NextFeeFits
    <3>3. L + (i - 1) \in Nat /\ L + (i - 1) + 1 = L + i
      BY <1>3
    <3>4. Drawn(seed, L + (i - 1) + 1) = NextRng[Drawn(seed, L + (i - 1))]
      BY <1>4, <3>3, DrawnSteps
    <3> QED
      BY <1>3, <3>1, <3>2, <3>3, <3>4
  <2>3. 0..count \subseteq good
    <3> HIDE DEF good
    <3> QED
      BY <1>3, <2>1, <2>2, ReachesAll
  <2> QED
    BY <2>3
<1>7. \A i \in 1..count : m[i].state = FeeAfter(c, m[i - 1].state, Drawn(seed, L + i))
  <2> SUFFICES ASSUME NEW i \in 1..count PROVE m[i].state = FeeAfter(c, m[i - 1].state, Drawn(seed, L + i))
    OBVIOUS
  <2>1. m[i - 1] \in FeeModels /\ m[i - 1].config = c /\ m[i] = NextFee(m[i - 1])
    BY <1>5, <1>6
  <2>2. m[i].state = FeeAfter(c, m[i - 1].state, NextRng[m[i - 1].rng]) /\ m[i].rng = NextRng[m[i - 1].rng]
    BY <2>1, NextFeeFits
  <2> QED
    BY <1>6, <2>2
<1>8. /\ fees' \in Seq(Int) /\ Len(fees') = L + count /\ DOMAIN fees' = 1..(L + count) /\ DOMAIN fees = 1..L
      /\ \A i \in 1..L : fees'[i] = fees[i]
      /\ \A i \in 1..count : fees'[L + i] = m[i].state
  <2> DEFINE t == [i \in 1..count |-> m[i].state]
  <2>1. t \in [1..count -> Int]
    BY <1>5 DEF FeeModels
  <2>2. fees' = fees \o t /\ \A i \in 1..count : t[i] = m[i].state
    BY <1>1, <1>2
  <2> HIDE DEF t
  <2> QED
    BY <1>2, <1>3, <2>1, <2>2, Joined
<1>9. \A i \in 1..L : fees[i] = FeeAfter(c, IF i = 1 THEN c.base ELSE fees[i - 1], Drawn(seed, i))
  <2>1. model # Nothing
    BY DEF Generate
  <2> QED
    BY <1>2, <1>8, <2>1 DEF FeesInv
<1>10. m[0].state = IF L = 0 THEN c.base ELSE fees[L]
  <2>1. model # Nothing
    BY DEF Generate
  <2>2. fees = <<>> <=> L = 0
    BY <1>2, <1>3
  <2> QED
    BY <1>2, <1>5, <2>1, <2>2 DEF FeesInv
<1>11. \A i \in DOMAIN fees' : fees'[i] = FeeAfter(c, IF i = 1 THEN c.base ELSE fees'[i - 1], Drawn(seed, i))
  <2> SUFFICES ASSUME NEW i \in 1..(L + count)
               PROVE  fees'[i] = FeeAfter(c, IF i = 1 THEN c.base ELSE fees'[i - 1], Drawn(seed, i))
    BY <1>8
  <2>1. CASE i <= L
    <3>1. i \in 1..L /\ fees'[i] = fees[i] /\ (i # 1 => i - 1 \in 1..L)
      BY <1>3, <1>8, <2>1
    <3> QED
      BY <1>8, <1>9, <3>1
  <2>2. CASE i > L
    <3>1. PICK j \in 1..count : i = L + j
      BY <1>3, <2>2
    <3>2. fees'[i] = FeeAfter(c, m[j - 1].state, Drawn(seed, i))
      BY <1>7, <1>8, <3>1
    <3>3. m[j - 1].state = IF i = 1 THEN c.base ELSE fees'[i - 1]
      <4>1. CASE j = 1
        <5>1. i - 1 = L /\ (i = 1 <=> L = 0) /\ (L # 0 => L \in 1..L)
          BY <1>3, <3>1, <4>1
        <5> QED
          BY <1>8, <1>10, <4>1, <5>1
      <4>2. CASE j # 1
        <5>1. j - 1 \in 1..count /\ i - 1 = L + (j - 1) /\ i # 1
          BY <1>3, <3>1, <4>2
        <5> QED
          BY <1>8, <5>1
      <4> QED
        BY <4>1, <4>2
    <3> QED
      BY <3>2, <3>3
  <2> QED
    BY <1>3, <2>1, <2>2
<1>12. /\ model' \in FeeModels /\ model'.config = c /\ model'.generated = L + count
       /\ model'.rng = Drawn(seed, L + count) /\ model'.state \in c.min..c.max /\ model'.state = fees'[L + count]
  BY <1>1, <1>2, <1>3, <1>5, <1>6, <1>8
<1>13. fees' # <<>>
  BY <1>3, <1>8
<1> QED
  BY <1>2, <1>8, <1>11, <1>12, <1>13 DEF FeesInv

LEMMA NextFees == ASSUME FeesInv, [SimulationNext]_simulationVars PROVE FeesInv'
<1>1. CASE UNCHANGED <<model, fees>>
  BY <1>1 DEF FeesInv
<1> QED
  BY <1>1, NewModelKeeps, ResetModelKeeps, GenerateKeeps
     DEF SimulationNext, simulationVars, NewLoad, FromFee, ResetLoad, BuildFixture, BuildWalk, Built

-----------------------------------------------------------------------------
(* Loads. *)

LoadStates == [kind : {"load"}, config : {c \in LoadConfigs : ValidLoad(c)}, rng : Seeds, last : Int, samples : Nat]

LoadAfter(c, fee, floor, ceiling, rng) ==
    LET span == c.max - c.min
        correlated == (Normalized(fee, floor, ceiling) * span * c.correlation) \div (Scale * Scale)
    IN  Clamp(c.min + correlated + Noise(rng, (c.noise * span) \div Scale), c.min, c.max)

LEMMA LoadConfigFits ==
    ASSUME NEW c \in LoadConfigs, ValidLoad(c)
    PROVE  /\ c.min \in Int /\ c.max \in Int /\ c.correlation \in Int /\ c.noise \in Int
           /\ c.seed \in Seeds /\ c.min <= c.max
  BY SimulationAssumption DEF SimulationAssumption, ValidLoad

LEMMA NormalizedIsInt ==
    ASSUME NEW fee \in Int, NEW floor \in Int, NEW ceiling \in Int PROVE Normalized(fee, floor, ceiling) \in Int
<1>1. Scale \in Nat
  BY SimulationAssumption DEF SimulationAssumption
<1>2. CASE ceiling > floor
  <2>1. PICK x \in Int, y \in Nat \ {0} : x = (fee - floor) * Scale /\ y = ceiling - floor
    BY <1>1, <1>2
  <2>2. x \div y \in Int
    BY <2>1
  <2>3. Clamp(x \div y, 0, Scale) \in Int
    BY <1>1, <2>2 DEF Clamp
  <2> QED
    BY <1>2, <2>1, <2>3 DEF Normalized
<1>3. CASE ceiling <= floor
  BY <1>3 DEF Normalized
<1> QED
  BY <1>2, <1>3

LEMMA LoadAfterFits ==
    ASSUME NEW c \in LoadConfigs, ValidLoad(c), NEW fee \in Int, NEW floor \in Int, NEW ceiling \in Int, NEW rng \in Seeds
    PROVE  LoadAfter(c, fee, floor, ceiling, rng) \in c.min..c.max /\ LoadAfter(c, fee, floor, ceiling, rng) \in Int
<1>1. /\ c.min \in Int /\ c.max \in Int /\ c.correlation \in Int /\ c.noise \in Int /\ c.min <= c.max
      /\ Scale \in Nat \ {0}
  BY LoadConfigFits, SimulationAssumption DEF SimulationAssumption
<1>2. PICK x \in Int : x = Normalized(fee, floor, ceiling) * (c.max - c.min) * c.correlation
  <2>1. PICK y \in Int : y = Normalized(fee, floor, ceiling)
    BY NormalizedIsInt
  <2>2. y * (c.max - c.min) * c.correlation \in Int
    BY <1>1
  <2> QED
    BY <2>1, <2>2
<1>3. PICK y \in Nat \ {0} : y = Scale * Scale
  <2>1. Scale * Scale \in Nat \ {0}
    BY <1>1
  <2> QED
    BY <2>1
<1>4. PICK z \in Int : z = c.noise * (c.max - c.min)
  BY <1>1
<1>5. x \div y \in Int /\ z \div Scale \in Int
  BY <1>1, <1>2, <1>3, <1>4
<1>6. Noise(rng, z \div Scale) \in Int
  BY <1>5, NoiseIsInt
<1>7. PICK u \in Int : u = c.min + x \div y + Noise(rng, z \div Scale)
  BY <1>1, <1>5, <1>6
<1>8. LoadAfter(c, fee, floor, ceiling, rng) = Clamp(u, c.min, c.max)
  BY <1>2, <1>3, <1>4, <1>7 DEF LoadAfter
<1>9. Clamp(u, c.min, c.max) \in c.min..c.max
  BY <1>1, <1>7, ClampWithin
<1> QED
  BY <1>1, <1>8, <1>9

LEMMA FollowFits ==
    ASSUME NEW l \in LoadStates, NEW fee \in Int, NEW floor \in Int, NEW ceiling \in Int
    PROVE  /\ FollowFee(l, fee, floor, ceiling) \in LoadStates
           /\ FollowFee(l, fee, floor, ceiling).config = l.config
           /\ FollowFee(l, fee, floor, ceiling).rng = NextRng[l.rng]
           /\ FollowFee(l, fee, floor, ceiling).samples = l.samples + 1
           /\ FollowFee(l, fee, floor, ceiling).last = LoadAfter(l.config, fee, floor, ceiling, NextRng[l.rng])
           /\ FollowFee(l, fee, floor, ceiling).last \in l.config.min..l.config.max
<1>1. l.config \in LoadConfigs /\ ValidLoad(l.config) /\ l.rng \in Seeds /\ l.samples \in Nat
  BY DEF LoadStates
<1>2. PICK rng : rng = NextRng[l.rng]
  OBVIOUS
<1>3. rng \in Seeds
  BY <1>1, <1>2, SimulationAssumption DEF SimulationAssumption
<1>4. PICK last : last = LoadAfter(l.config, fee, floor, ceiling, rng)
  OBVIOUS
<1>5. last \in Int /\ last \in l.config.min..l.config.max
  BY <1>1, <1>3, <1>4, LoadAfterFits
<1>6. FollowFee(l, fee, floor, ceiling) = [l EXCEPT !.rng = rng, !.samples = l.samples + 1, !.last = last]
  BY <1>2, <1>4 DEF FollowFee, LoadAfter
<1>7. PICK f : f = FollowFee(l, fee, floor, ceiling)
  OBVIOUS
<1>8. /\ f \in LoadStates /\ f.config = l.config /\ f.rng = rng /\ f.samples = l.samples + 1 /\ f.last = last
  <2>1. last \in Int
    BY <1>5
  <2> QED
    <3> DEFINE C == {c \in LoadConfigs : ValidLoad(c)}
               M == [kind : {"load"}, config : C, rng : Seeds, last : Int, samples : Nat]
    <3>1. l \in M
      BY DEF LoadStates
    <3> HIDE DEF C
    <3>2. PICK samples \in Nat : samples = l.samples + 1
      BY <3>1
    <3>3. f = [l EXCEPT !.rng = rng, !.samples = samples, !.last = last]
      BY <1>6, <1>7, <3>2
    <3>4. /\ f \in M /\ f.config = l.config /\ f.rng = rng /\ f.samples = samples /\ f.last = last
      BY <1>3, <2>1, <3>1, <3>3
    <3> QED
      BY <3>2, <3>4 DEF C, LoadStates
<1> QED
  BY <1>2, <1>4, <1>5, <1>7, <1>8

Followed == [fee : Int, floor : Int, ceiling : Int, load : Int]

LoadsInv ==
    /\ loads \in Seq(Followed)
    /\ load # Nothing =>
          /\ load \in LoadStates /\ load.samples = Len(loads) /\ load.last \in load.config.min..load.config.max
          /\ load.rng = Drawn(load.config.seed, Len(loads))
          /\ \A i \in DOMAIN loads :
                loads[i].load = LoadAfter(load.config, loads[i].fee, loads[i].floor, loads[i].ceiling,
                                          Drawn(load.config.seed, i))

(* A load that just began. *)
LEMMA LoadBegunFits ==
    ASSUME NEW l \in LoadStates, l.samples = 0, l.last = l.config.min, l.rng = l.config.seed, load' = l, loads' = <<>>
    PROVE  LoadsInv'
<1>1. loads' \in Seq(Followed) /\ Len(loads') = 0 /\ DOMAIN loads' = {}
  OBVIOUS
<1>2. l.config.seed \in Seeds /\ l.config.min \in l.config.min..l.config.max
  BY LoadConfigFits DEF LoadStates
<1>3. Drawn(l.config.seed, 0) = l.config.seed
  BY <1>2, DrawnSteps
<1> QED
  BY <1>1, <1>2, <1>3 DEF LoadsInv

LEMMA NewLoadKeeps == ASSUME NewLoad PROVE LoadsInv'
<1>1. PICK c \in LoadConfigs :
          ValidLoad(c) /\ load' = [kind |-> "load", config |-> c, rng |-> c.seed, last |-> c.min, samples |-> 0]
  BY DEF NewLoad
<1>2. c.min \in Int /\ c.seed \in Seeds
  BY <1>1, LoadConfigFits
<1>3. /\ load' \in LoadStates /\ load'.samples = 0 /\ load'.last = load'.config.min
      /\ load'.rng = load'.config.seed /\ loads' = <<>>
  BY <1>1, <1>2 DEF LoadStates, NewLoad
<1>4. PICK l : l = load'
  OBVIOUS
<1> QED
  BY <1>3, <1>4, LoadBegunFits

LEMMA ResetLoadKeeps == ASSUME LoadsInv, ResetLoad PROVE LoadsInv'
<1>1. load \in LoadStates /\ loads' = <<>>
      /\ load' = [load EXCEPT !.rng = load.config.seed, !.last = load.config.min, !.samples = 0]
  BY DEF LoadsInv, ResetLoad
<1>2. load.config.min \in Int /\ load.config.seed \in Seeds
  BY <1>1, LoadConfigFits DEF LoadStates
<1>3. /\ load' \in LoadStates /\ load'.samples = 0 /\ load'.last = load'.config.min
      /\ load'.rng = load'.config.seed
  BY <1>1, <1>2 DEF LoadStates
<1>4. PICK l : l = load'
  OBVIOUS
<1> QED
  BY <1>1, <1>3, <1>4, LoadBegunFits

LEMMA FromFeeKeeps == ASSUME FeesInv, LoadsInv, FromFee PROVE LoadsInv'
<1>1. PICK fee, floor, ceiling, n : fee = fees[Len(loads) + 1] /\ floor = model.config.min /\ ceiling = model.config.max /\ n = Len(loads)
  OBVIOUS
<1>2. /\ load # Nothing /\ model # Nothing /\ n < Len(fees) /\ load' = FollowFee(load, fee, floor, ceiling)
      /\ loads' = Append(loads, [fee |-> fee, floor |-> floor, ceiling |-> ceiling, load |-> load'.last])
  BY <1>1 DEF FromFee
<1>3. n \in Nat /\ fee \in Int
  <2>1. fees \in Seq(Int) /\ loads \in Seq(Followed)
    BY DEF FeesInv, LoadsInv
  <2>2. Len(loads) \in Nat
    BY <2>1, Elements
  <2>3. Len(loads) + 1 \in 1..Len(fees)
    BY <1>1, <1>2, <2>1, <2>2
  <2> QED
    BY <1>1, <2>1, <2>2, <2>3
<1>4. floor \in Int /\ ceiling \in Int
  <2>1. model \in FeeModels
    BY <1>2 DEF FeesInv
  <2> QED
    BY <1>1, <2>1, ConfigFits DEF FeeModels
<1>5. PICK c, seed : c = load.config /\ seed = load.config.seed
  OBVIOUS
<1>6. /\ load \in LoadStates /\ load.samples = n /\ load.rng = Drawn(seed, n)
      /\ \A i \in DOMAIN loads :
            loads[i].load = LoadAfter(c, loads[i].fee, loads[i].floor, loads[i].ceiling, Drawn(seed, i))
  BY <1>1, <1>2, <1>5 DEF LoadsInv
<1>7. seed \in Seeds /\ Drawn(seed, n + 1) = NextRng[Drawn(seed, n)]
  <2>1. seed \in Seeds
    BY <1>5, <1>6, LoadConfigFits DEF LoadStates
  <2> QED
    BY <1>3, <2>1, DrawnSteps
<1>8. /\ load' \in LoadStates /\ load'.config = c /\ load'.rng = Drawn(seed, n + 1) /\ load'.samples = n + 1
      /\ load'.last = LoadAfter(c, fee, floor, ceiling, Drawn(seed, n + 1)) /\ load'.last \in c.min..c.max
  <2>1. PICK next : next = FollowFee(load, fee, floor, ceiling)
    OBVIOUS
  <2>2. /\ next \in LoadStates /\ next.config = c /\ next.rng = NextRng[load.rng] /\ next.samples = load.samples + 1
        /\ next.last = LoadAfter(c, fee, floor, ceiling, NextRng[load.rng]) /\ next.last \in c.min..c.max
    BY <1>3, <1>4, <1>5, <1>6, <2>1, FollowFits
  <2> QED
    BY <1>2, <1>6, <1>7, <2>1, <2>2
<1>9. PICK entry : entry = [fee |-> fee, floor |-> floor, ceiling |-> ceiling, load |-> load'.last]
  OBVIOUS
<1>10. entry \in Followed
  BY <1>3, <1>4, <1>8, <1>9 DEF Followed, LoadStates
<1>11. /\ loads' \in Seq(Followed) /\ Len(loads') = n + 1 /\ DOMAIN loads' = DOMAIN loads \cup {n + 1}
       /\ loads'[n + 1] = entry /\ \A i \in DOMAIN loads : loads'[i] = loads[i] /\ n + 1 \notin DOMAIN loads
  <2> DEFINE S == Followed
  <2>1. loads \in Seq(S) /\ entry \in S /\ loads' = Append(loads, entry)
    BY <1>2, <1>9, <1>10 DEF LoadsInv
  <2> HIDE DEF S
  <2>2. /\ loads' \in Seq(S) /\ Len(loads') = Len(loads) + 1 /\ DOMAIN loads' = DOMAIN loads \cup {Len(loads) + 1}
        /\ loads'[Len(loads) + 1] = entry /\ \A i \in DOMAIN loads : loads'[i] = loads[i] /\ Len(loads) + 1 \notin DOMAIN loads
    BY <2>1
  <2> QED
    BY <1>1, <2>2 DEF S
<1>12. \A i \in DOMAIN loads' :
          loads'[i].load = LoadAfter(c, loads'[i].fee, loads'[i].floor, loads'[i].ceiling, Drawn(seed, i))
  <2>1. entry.load = load'.last /\ entry.fee = fee /\ entry.floor = floor /\ entry.ceiling = ceiling
    BY <1>9
  <2> QED
    BY <1>6, <1>8, <1>11, <2>1
<1> QED
  BY <1>5, <1>8, <1>11, <1>12 DEF LoadsInv

LEMMA NextLoads == ASSUME FeesInv, LoadsInv, [SimulationNext]_simulationVars PROVE LoadsInv'
<1>1. CASE UNCHANGED <<load, loads>>
  BY <1>1 DEF LoadsInv
<1> QED
  BY <1>1, NewLoadKeeps, ResetLoadKeeps, FromFeeKeeps
     DEF SimulationNext, simulationVars, NewModel, Generate, ResetModel, BuildFixture, BuildWalk, Built

-----------------------------------------------------------------------------
(* Fixtures. *)

LEMMA TimesLess == ASSUME NEW c \in Nat \ {0}, NEW x \in Int, NEW y \in Int, c * x < c * y PROVE x < y
<1>1. y <= x => c * y <= c * x
  <2> SUFFICES ASSUME y <= x PROVE c * y <= c * x
    OBVIOUS
  <2>1. PICK d \in Nat : x = y + d
    <3>1. x - y \in Nat /\ x = y + (x - y)
      OBVIOUS
    <3> QED
      BY <3>1
  <2>2. c * x = c * y + c * d /\ c * d \in Nat /\ c * y \in Int
    BY <2>1
  <2> QED
    BY <2>2
<1>2. c * x \in Int /\ c * y \in Int
  OBVIOUS
<1> QED
  BY <1>1, <1>2

LEMMA DivIs ==
    ASSUME NEW a \in Int, NEW c \in Nat \ {0}, NEW q \in Int, c * q <= a, a < c * q + c PROVE a \div c = q
<1>1. PICK p \in Int : p = a \div c
  OBVIOUS
<1>2. c * p <= a /\ a < c * p + c
  BY <1>1
<1>3. /\ c * p \in Int /\ c * q \in Int /\ c * (p + 1) = c * p + c /\ c * (q + 1) = c * q + c
      /\ c * (p + 1) \in Int /\ c * (q + 1) \in Int
  OBVIOUS
<1>4. c * p < c * (q + 1) /\ c * q < c * (p + 1)
  BY <1>2, <1>3
<1>5. p < q + 1 /\ q < p + 1
  BY <1>4, TimesLess
<1> QED
  BY <1>1, <1>5

LEMMA DivGrows ==
    ASSUME NEW a \in Int, NEW b \in Int, NEW c \in Nat \ {0}, a <= b PROVE a \div c <= b \div c
<1>1. PICK p \in Int, q \in Int : p = a \div c /\ q = b \div c
  OBVIOUS
<1>2. c * p <= a /\ b < c * q + c
  BY <1>1
<1>3. c * p \in Int /\ c * q \in Int /\ c * (q + 1) = c * q + c /\ c * (q + 1) \in Int
  OBVIOUS
<1>4. c * p < c * (q + 1)
  BY <1>2, <1>3
<1>5. p < q + 1
  BY <1>4, TimesLess
<1> QED
  BY <1>1, <1>5

LEMMA RoundedIsInt == ASSUME NEW a \in Int, NEW b \in Nat \ {0} PROVE Rounded(a, b) \in Int
<1>1. PICK c \in Nat \ {0} : c = 2 * b
  OBVIOUS
<1>2. (2 * a + b) \div c \in Int /\ (b - 2 * a) \div c \in Int
  OBVIOUS
<1> QED
  BY <1>1, <1>2 DEF Rounded

LEMMA RoundedWhole == ASSUME NEW d \in Int, NEW b \in Nat \ {0} PROVE Rounded(d * b, b) = d
<1>1. PICK x \in Int, c \in Nat \ {0} : x = d * b /\ c = 2 * b
  OBVIOUS
<1>2. c * d = 2 * x /\ c * (-d) = -(2 * x)
  BY <1>1
<1>3. (2 * x + b) \div c = d
  BY <1>1, <1>2, DivIs
<1>4. (b - 2 * x) \div c = -d
  BY <1>1, <1>2, DivIs
<1> QED
  BY <1>1, <1>3, <1>4 DEF Rounded

LEMMA RoundedGrows ==
    ASSUME NEW x \in Int, NEW y \in Int, NEW b \in Nat \ {0}, x <= y PROVE Rounded(x, b) <= Rounded(y, b)
<1>1. PICK c \in Nat \ {0} : c = 2 * b
  OBVIOUS
<1>2. CASE x >= 0
  <2>1. (2 * x + b) \div c <= (2 * y + b) \div c
    BY DivGrows
  <2> QED
    BY <1>1, <1>2, <2>1 DEF Rounded
<1>3. CASE y < 0
  <2>1. (b - 2 * y) \div c <= (b - 2 * x) \div c /\ (b - 2 * y) \div c \in Int /\ (b - 2 * x) \div c \in Int
    BY DivGrows
  <2> QED
    BY <1>1, <1>3, <2>1 DEF Rounded
<1>4. CASE x < 0 /\ y >= 0
  <2>1. 0 \div c = 0
    BY DivIs
  <2>2. 0 \div c <= (b - 2 * x) \div c /\ 0 \div c <= (2 * y + b) \div c
    BY <1>4, DivGrows
  <2>3. (b - 2 * x) \div c \in Int /\ (2 * y + b) \div c \in Int
    OBVIOUS
  <2> QED
    BY <1>1, <1>4, <2>1, <2>2, <2>3 DEF Rounded
<1> QED
  BY <1>2, <1>3, <1>4

LEMMA LeastValue ==
    ASSUME NEW n \in Nat \ {0}, NEW v, \A i \in 1..n : v[i] \in Int PROVE \E i \in 1..n : \A j \in 1..n : v[i] <= v[j]
<1> DEFINE T == {k \in 0..n : k = 0 \/ \E i \in 1..k : \A j \in 1..k : v[i] <= v[j]}
<1>1. 0 \in T
  OBVIOUS
<1>2. ASSUME NEW k \in 1..n, k - 1 \in T PROVE k \in T
  <2>1. CASE k = 1
    <3>1. \A j \in 1..k : v[1] <= v[j]
      BY <2>1
    <3> QED
      BY <2>1, <3>1
  <2>2. CASE k # 1
    <3>1. PICK i \in 1..(k - 1) : \A j \in 1..(k - 1) : v[i] <= v[j]
      BY <1>2, <2>2
    <3>2. \A j \in 1..k : j = k \/ j \in 1..(k - 1)
      OBVIOUS
    <3>3. i \in 1..k /\ v[i] \in Int /\ v[k] \in Int /\ \A j \in 1..k : v[j] \in Int
      OBVIOUS
    <3>4. CASE v[i] <= v[k]
      <4>1. \A j \in 1..k : v[i] <= v[j]
        BY <3>1, <3>2, <3>4
      <4> QED
        BY <3>3, <4>1
    <3>5. CASE v[k] < v[i]
      <4>1. \A j \in 1..k : v[k] <= v[j]
        BY <3>1, <3>2, <3>3, <3>5
      <4> QED
        BY <4>1
    <3> QED
      BY <3>3, <3>4, <3>5
  <2> QED
    BY <2>1, <2>2
<1>3. n \in T
  <2> HIDE DEF T
  <2>1. 0..n \subseteq T
    BY <1>1, <1>2, ReachesAll
  <2> QED
    BY <2>1
<1> QED
  BY <1>3

LEMMA GreatestValue ==
    ASSUME NEW n \in Nat \ {0}, NEW v, \A i \in 1..n : v[i] \in Int PROVE \E i \in 1..n : \A j \in 1..n : v[j] <= v[i]
<1> DEFINE w == [i \in 1..n |-> -v[i]]
<1>1. \A i \in 1..n : w[i] = -v[i] /\ w[i] \in Int
  OBVIOUS
<1> HIDE DEF w
<1>2. PICK i \in 1..n : \A j \in 1..n : w[i] <= w[j]
  BY <1>1, LeastValue
<1>3. \A j \in 1..n : v[j] <= v[i]
  <2> SUFFICES ASSUME NEW j \in 1..n PROVE v[j] <= v[i]
    OBVIOUS
  <2>1. w[i] <= w[j] /\ w[i] = -v[i] /\ w[j] = -v[j] /\ v[i] \in Int /\ v[j] \in Int
    BY <1>1, <1>2
  <2> QED
    BY <2>1
<1> QED
  BY <1>3

(* The records of a fixture whose fees are g. *)
AreRecords(records, n, g) == records = [i \in 1..n |-> [ledger |-> Start + i - 1, fee |-> g[i]]]

(* u adds up what records, n of them, come to. *)
IsTotal(u, records, n) ==
    TotalFee(records) = u[n] /\ u[0] = 0 /\ \A k \in 1..n : u[k] = u[k - 1] + records[k].fee

LEMMA TotalIs ==
    ASSUME NEW n \in Nat, NEW records, Len(records) = n, \A i \in 1..n : records[i].fee \in Int
    PROVE  \E u \in [0..n -> Int] : IsTotal(u, records, n)
<1> USE DEF IsTotal
<1> DEFINE Z == Int
           step == [k \in 1..n |-> [sum \in Z |-> sum + records[k].fee]]
           upTo == CHOOSE u : u = [k \in 0..n |-> IF k = 0 THEN 0 ELSE u[k - 1] + records[k].fee]
<1>1. step \in [1..n -> [Z -> Z]] /\ 0 \in Z
  OBVIOUS
<1>2. PICK u \in [0..n -> Int] : IsFold(u, n, 0, step)
  <2> HIDE DEF step, Z
  <2>1. \E u \in [0..n -> Z] : IsFold(u, n, 0, step)
    BY <1>1, FoldExists
  <2> QED
    BY <2>1 DEF Z
<1>3. u[0] = 0 /\ \A k \in 1..n : u[k] = u[k - 1] + records[k].fee
  <2>1. ASSUME NEW k \in 1..n PROVE u[k] = u[k - 1] + records[k].fee
    <3>1. u[k] = step[k][u[k - 1]]
      <4> HIDE DEF step
      <4> QED
        BY <1>2 DEF IsFold
    <3>2. u[k - 1] \in Int
      OBVIOUS
    <3> QED
      BY <3>1, <3>2
  <2> QED
    BY <1>2, <2>1 DEF IsFold
<1>4. u = [k \in 0..n |-> IF k = 0 THEN 0 ELSE u[k - 1] + records[k].fee]
  <2>1. \A k \in 0..n : k = 0 \/ k \in 1..n
    OBVIOUS
  <2>2. u = [k \in 0..n |-> u[k]]
    OBVIOUS
  <2> QED
    BY <1>3, <2>1, <2>2, Zenon
<1>5. upTo = [k \in 0..n |-> IF k = 0 THEN 0 ELSE upTo[k - 1] + records[k].fee]
  BY <1>4, Zenon
<1>6. \A k \in 0..n : upTo[k] = u[k]
  <2> DEFINE same == {k \in 0..n : upTo[k] = u[k]}
  <2>1. 0 \in same
    <3> HIDE DEF upTo
    <3> QED
      BY <1>3, <1>5
  <2>2. ASSUME NEW k \in 1..n, k - 1 \in same PROVE k \in same
    <3>1. upTo[k - 1] = u[k - 1]
      BY <2>2
    <3>2. upTo[k] = upTo[k - 1] + records[k].fee
      <4> HIDE DEF upTo
      <4> QED
        BY <1>5
    <3> QED
      BY <1>3, <3>1, <3>2
  <2>3. 0..n \subseteq same
    <3> HIDE DEF same
    <3> QED
      BY <2>1, <2>2, ReachesAll
  <2> QED
    BY <2>3
<1>7. TotalFee(records) = upTo[n]
  BY Zenon DEF TotalFee
<1>8. TotalFee(records) = u[n]
  <2> HIDE DEF upTo
  <2> QED
    BY <1>6, <1>7
<1> QED
  BY <1>3, <1>8

LEMMA TimesUp ==
    ASSUME NEW k \in Int, NEW m \in Int PROVE (k - 1) * m + m = k * m /\ (k - 1) * m \in Int /\ k * m \in Int
  OBVIOUS

(* The total is between the number of records times the least and the greatest fee. *)
LEMMA RecordsFit ==
    ASSUME NEW n \in Nat, NEW g, \A i \in 1..n : g[i] \in Int, NEW records, AreRecords(records, n, g)
    PROVE  /\ Len(records) = n /\ DOMAIN records = 1..n
           /\ \A i \in 1..n : records[i].ledger = Start + i - 1 /\ records[i].fee = g[i]
           /\ Len(records) * MinFee(records) <= TotalFee(records)
           /\ TotalFee(records) <= Len(records) * PeakFee(records)
<1>1. /\ DOMAIN records = 1..n /\ records = [i \in 1..n |-> records[i]]
      /\ \A i \in 1..n : records[i].ledger = Start + i - 1 /\ records[i].fee = g[i]
  <2>1. records = [i \in 1..n |-> [ledger |-> Start + i - 1, fee |-> g[i]]]
    BY DEF AreRecords
  <2>2. \A i \in 1..n : records[i] = [ledger |-> Start + i - 1, fee |-> g[i]]
    BY <2>1
  <2> QED
    BY <2>1, <2>2
<1>2. Len(records) = n /\ (records = <<>> <=> n = 0)
  <2>1. records \in Seq({records[i] : i \in 1..n}) /\ Len(records) = n
    <3> DEFINE S == {records[i] : i \in 1..n}
    <3>1. \A i \in 1..n : records[i] \in S
      OBVIOUS
    <3> HIDE DEF S
    <3>2. records \in [1..n -> S]
      BY <1>1, <3>1
    <3>3. records \in Seq(S) /\ Len(records) = n
      BY <3>2
    <3> QED
      BY <3>3 DEF S
  <2> QED
    BY <1>1, <2>1, NoElements
<1>3. PICK u \in [0..n -> Int] :
          TotalFee(records) = u[n] /\ u[0] = 0 /\ \A k \in 1..n : u[k] = u[k - 1] + g[k]
  <2>1. \A i \in 1..n : records[i].fee = g[i] /\ records[i].fee \in Int
    BY <1>1
  <2>2. PICK u \in [0..n -> Int] : IsTotal(u, records, n)
    <3>1. \A i \in 1..n : records[i].fee \in Int
      BY <2>1
    <3> QED
      BY <1>2, <3>1, TotalIs
  <2> QED
    BY <2>1, <2>2 DEF IsTotal
<1>4. CASE n = 0
  <2>1. MinFee(records) = 0 /\ PeakFee(records) = 0 /\ TotalFee(records) = 0
    BY <1>2, <1>3, <1>4 DEF MinFee, PeakFee
  <2> QED
    BY <1>1, <1>2, <1>4, <2>1
<1>5. CASE n # 0
  <2>1. \A x \in FeesOf(records) : \E i \in 1..n : x = g[i]
    BY <1>1 DEF FeesOf
  <2>2. \A i \in 1..n : g[i] \in FeesOf(records)
    BY <1>1 DEF FeesOf
  <2>3. PICK least \in FeesOf(records) : \A y \in FeesOf(records) : least <= y
    <3>1. PICK i \in 1..n : \A j \in 1..n : g[i] <= g[j]
      BY <1>5, LeastValue
    <3> QED
      BY <2>1, <2>2, <3>1
  <2>4. PICK greatest \in FeesOf(records) : \A y \in FeesOf(records) : greatest >= y
    <3>1. PICK i \in 1..n : \A j \in 1..n : g[j] <= g[i]
      BY <1>5, GreatestValue
    <3>2. \A j \in 1..n : g[i] >= g[j]
      BY <3>1
    <3> QED
      BY <2>1, <2>2, <3>2
  <2>5. PICK low, high : low = MinFee(records) /\ high = PeakFee(records)
    OBVIOUS
  <2>6. low \in FeesOf(records) /\ \A y \in FeesOf(records) : low <= y
    BY <1>2, <1>5, <2>3, <2>5 DEF MinFee
  <2>7. high \in FeesOf(records) /\ \A y \in FeesOf(records) : high >= y
    BY <1>2, <1>5, <2>4, <2>5 DEF PeakFee
  <2>8. low \in Int /\ high \in Int /\ \A i \in 1..n : low <= g[i] /\ g[i] <= high
    <3>1. low \in Int /\ high \in Int
      BY <2>1, <2>6, <2>7
    <3>2. ASSUME NEW i \in 1..n PROVE low <= g[i] /\ g[i] <= high
      <4>1. low <= g[i] /\ high >= g[i] /\ g[i] \in Int
        BY <2>2, <2>6, <2>7
      <4> QED
        BY <3>1, <4>1
    <3> QED
      BY <3>1, <3>2
  <2> DEFINE T == {k \in 0..n : k * low <= u[k] /\ u[k] <= k * high}
  <2>9. 0 \in T
    BY <1>3, <2>8
  <2>10. ASSUME NEW k \in 1..n, k - 1 \in T PROVE k \in T
    <3>1. (k - 1) * low <= u[k - 1] /\ u[k - 1] <= (k - 1) * high
      BY <2>10
    <3>2. /\ (k - 1) * low + low = k * low /\ (k - 1) * high + high = k * high
          /\ (k - 1) * low \in Int /\ (k - 1) * high \in Int
      BY <2>8, TimesUp
    <3>3. u[k] = u[k - 1] + g[k] /\ u[k - 1] \in Int /\ g[k] \in Int /\ low <= g[k] /\ g[k] <= high
      BY <1>3, <2>8
    <3>4. k * low <= u[k] /\ u[k] <= k * high
      BY <2>8, <3>1, <3>2, <3>3
    <3> QED
      BY <3>4
  <2>11. n \in T
    <3> HIDE DEF T
    <3>1. 0..n \subseteq T
      BY <2>9, <2>10, ReachesAll
    <3> QED
      BY <3>1
  <2> QED
    BY <1>1, <1>2, <1>3, <2>5, <2>11
<1> QED
  BY <1>4, <1>5

FixtureFits(f) ==
    LET records == f.records  a == f.a  b == f.b IN
    /\ \A i \in DOMAIN records : records[i].ledger = Start + i - 1
    /\ Len(records) * MinFee(records) <= TotalFee(records)
    /\ TotalFee(records) <= Len(records) * PeakFee(records)
    /\ f.kind \in {"flat", "spikes", "burst"} => FeesOf(records) \subseteq {a, b}
    /\ f.kind = "ramp" /\ Len(records) >= 2 =>
          /\ records[1].fee = a /\ records[Len(records)].fee = b
          /\ \A i \in 2..Len(records) :
                IF a <= b THEN records[i - 1].fee <= records[i].fee
                ELSE records[i - 1].fee >= records[i].fee
    /\ f.kind = "walk" => \A fee \in FeesOf(records) : (fee - a) * (fee - a) <= b * b

(* What is left to show of a fixture, by its kind. *)
LEMMA FixtureByKind ==
    ASSUME NEW f, NEW n \in Nat, NEW g, \A i \in 1..n : g[i] \in Int, AreRecords(f.records, n, g),
           f.kind \in {"flat", "spikes", "burst"} => \A i \in 1..n : g[i] \in {f.a, f.b},
           f.kind = "ramp" /\ n >= 2 =>
              /\ g[1] = f.a /\ g[n] = f.b
              /\ \A i \in 2..n : IF f.a <= f.b THEN g[i - 1] <= g[i] ELSE g[i - 1] >= g[i],
           f.kind = "walk" => \A i \in 1..n : (g[i] - f.a) * (g[i] - f.a) <= f.b * f.b
    PROVE  FixtureFits(f)
<1>1. PICK records : records = f.records
  OBVIOUS
<1>2. /\ Len(records) = n /\ DOMAIN records = 1..n
      /\ \A i \in 1..n : records[i].ledger = Start + i - 1 /\ records[i].fee = g[i]
      /\ Len(records) * MinFee(records) <= TotalFee(records)
      /\ TotalFee(records) <= Len(records) * PeakFee(records)
  BY <1>1, RecordsFit
<1>3. \A fee \in FeesOf(records) : \E i \in 1..n : fee = g[i]
  BY <1>2 DEF FeesOf
<1>4. f.kind \in {"flat", "spikes", "burst"} => FeesOf(records) \subseteq {f.a, f.b}
  BY <1>3
<1>5. f.kind = "walk" => \A fee \in FeesOf(records) : (fee - f.a) * (fee - f.a) <= f.b * f.b
  BY <1>3
<1>6. f.kind = "ramp" /\ Len(records) >= 2 =>
         /\ records[1].fee = f.a /\ records[Len(records)].fee = f.b
         /\ \A i \in 2..Len(records) :
               IF f.a <= f.b THEN records[i - 1].fee <= records[i].fee ELSE records[i - 1].fee >= records[i].fee
  <2> SUFFICES ASSUME f.kind = "ramp", n >= 2
               PROVE  /\ records[1].fee = f.a /\ records[n].fee = f.b
                      /\ \A i \in 2..n : IF f.a <= f.b THEN records[i - 1].fee <= records[i].fee
                                         ELSE records[i - 1].fee >= records[i].fee
    BY <1>2
  <2>1. records[1].fee = g[1] /\ records[n].fee = g[n]
    BY <1>2
  <2>2. \A i \in 2..n : records[i].fee = g[i] /\ records[i - 1].fee = g[i - 1]
    BY <1>2
  <2> QED
    BY <2>1, <2>2
<1>7. \A i \in DOMAIN records : records[i].ledger = Start + i - 1
  BY <1>2
<1> QED
  BY <1>1, <1>2, <1>4, <1>5, <1>6, <1>7 DEF FixtureFits

LEMMA RampFees ==
    ASSUME NEW n \in Nat, n >= 2, NEW from \in Nat, NEW to \in Nat,
           NEW g, \A i \in 1..n : g[i] = from + Rounded((to - from) * (i - 1), n - 1)
    PROVE  /\ g[1] = from /\ g[n] = to
           /\ \A i \in 2..n : IF from <= to THEN g[i - 1] <= g[i] ELSE g[i - 1] >= g[i]
<1>1. PICK d \in Int, b \in Nat \ {0} : d = to - from /\ b = n - 1
  <2>1. to - from \in Int /\ n - 1 \in Nat \ {0}
    OBVIOUS
  <2> QED
    BY <2>1
<1>2. g[1] = from
  <2>1. d * 0 = 0 /\ 0 * b = 0
    OBVIOUS
  <2>2. Rounded(0, b) = 0
    BY <2>1, RoundedWhole
  <2>3. g[1] = from + Rounded(d * (1 - 1), b)
    BY <1>1
  <2> QED
    BY <2>1, <2>2, <2>3
<1>3. g[n] = to
  <2>1. g[n] = from + Rounded(d * b, b)
    BY <1>1
  <2>2. Rounded(d * b, b) = d
    BY RoundedWhole
  <2> QED
    BY <1>1, <2>1, <2>2
<1>4. ASSUME NEW i \in 2..n PROVE IF from <= to THEN g[i - 1] <= g[i] ELSE g[i - 1] >= g[i]
  <2>1. PICK x \in Int, y \in Int : x = d * (i - 2) /\ y = d * (i - 1)
    OBVIOUS
  <2>2. y = x + d
    BY <2>1
  <2>3. g[i - 1] = from + Rounded(x, b) /\ g[i] = from + Rounded(y, b)
    <3>1. i - 1 \in 1..n /\ (i - 1) - 1 = i - 2 /\ i \in 1..n
      OBVIOUS
    <3>2. g[i - 1] = from + Rounded((to - from) * ((i - 1) - 1), n - 1) /\ g[i] = from + Rounded((to - from) * (i - 1), n - 1)
      BY <3>1
    <3> QED
      BY <1>1, <2>1, <3>1, <3>2
  <2>4. Rounded(x, b) \in Int /\ Rounded(y, b) \in Int
    BY RoundedIsInt
  <2>5. CASE from <= to
    <3>1. x <= y
      BY <1>1, <2>2, <2>5
    <3>2. Rounded(x, b) <= Rounded(y, b)
      BY <3>1, RoundedGrows
    <3> QED
      BY <2>3, <2>4, <2>5, <3>2
  <2>6. CASE ~(from <= to)
    <3>1. y <= x
      BY <1>1, <2>2, <2>6
    <3>2. Rounded(y, b) <= Rounded(x, b)
      BY <3>1, RoundedGrows
    <3> QED
      BY <2>3, <2>4, <2>6, <3>2
  <2> QED
    BY <2>5, <2>6
<1> QED
  BY <1>2, <1>3, <1>4

LEMMA SquareWithin ==
    ASSUME NEW x \in Int, NEW b \in Int, NEW w \in Nat, w = b \/ w = -b, -w <= x, x <= w PROVE x * x <= b * b
<1>1. (w - x) * (w + x) \in Nat
  <2>1. w - x \in Nat /\ w + x \in Nat
    OBVIOUS
  <2> QED
    BY <2>1
<1>2. (w - x) * (w + x) = w * w - x * x
  OBVIOUS
<1>3. w * w = b * b
  OBVIOUS
<1>4. w * w \in Int /\ x * x \in Int
  OBVIOUS
<1> QED
  BY <1>1, <1>2, <1>3, <1>4

(* The fees of a walk: those after each step of the generator. *)
WalkOf(n, base, spread, seed) ==
    LET width == IF spread < 0 THEN -spread ELSE spread
    IN  CHOOSE f : f = [i \in 0..n |->
            IF i = 0 THEN [rng |-> seed, fee |-> base]
            ELSE [rng |-> NextRng[f[i - 1].rng], fee |->
                     Clamp(f[i - 1].fee + Rounded((2 * Unit[NextRng[f[i - 1].rng]] - Scale) * spread, Scale),
                           base - width, base + width)]]

LEMMA WalkStays ==
    ASSUME NEW n \in Nat, NEW base \in Nat, NEW spread \in Int, NEW seed \in Seeds
    PROVE  \A i \in 0..n :
              /\ WalkOf(n, base, spread, seed)[i].fee \in Int
              /\ (WalkOf(n, base, spread, seed)[i].fee - base) * (WalkOf(n, base, spread, seed)[i].fee - base) <= spread * spread
<1>1. PICK width \in Nat : width = IF spread < 0 THEN -spread ELSE spread
  OBVIOUS
<1> DEFINE S == [rng : Seeds, fee : (base - width)..(base + width)]
           begin == [rng |-> seed, fee |-> base]
           after(s) == [rng |-> NextRng[s.rng], fee |->
                           Clamp(s.fee + Rounded((2 * Unit[NextRng[s.rng]] - Scale) * spread, Scale),
                                 base - width, base + width)]
           step == [s \in S |-> after(s)]
           walk == WalkOf(n, base, spread, seed)
<1>2. begin \in S
  OBVIOUS
<1>3. \A s \in S : after(s) \in S
  <2> SUFFICES ASSUME NEW s \in S PROVE after(s) \in S
    OBVIOUS
  <2>1. PICK rng \in Seeds : rng = NextRng[s.rng]
    BY SimulationAssumption DEF SimulationAssumption
  <2>2. Unit[rng] \in Int /\ Scale \in Nat \ {0}
    BY SimulationAssumption DEF SimulationAssumption
  <2>3. PICK x \in Int : x = (2 * Unit[rng] - Scale) * spread
    BY <2>2
  <2>4. Rounded(x, Scale) \in Int
    BY <2>2, RoundedIsInt
  <2>5. PICK y \in Int : y = s.fee + Rounded(x, Scale)
    BY <2>4
  <2>6. Clamp(y, base - width, base + width) \in (base - width)..(base + width)
    <3>1. PICK low \in Int, high \in Int : low = base - width /\ high = base + width
      OBVIOUS
    <3>2. low <= high
      BY <3>1
    <3> QED
      BY <3>1, <3>2, ClampWithin
  <2>7. after(s) = [rng |-> rng, fee |-> Clamp(y, base - width, base + width)]
    BY <2>1, <2>3, <2>5
  <2> HIDE DEF after
  <2> QED
    BY <2>6, <2>7
<1>4. step \in [S -> S]
  <2> HIDE DEF after, S
  <2> QED
    BY <1>3
<1>5. PICK f \in [0..n -> S] : IsIteration(f, n, begin, step)
  <2> HIDE DEF step, S, begin
  <2> QED
    BY <1>2, <1>4, IterationExists
<1>6. f[0] = begin /\ \A i \in 1..n : f[i] = after(f[i - 1])
  <2>1. ASSUME NEW i \in 1..n PROVE f[i] = after(f[i - 1])
    <3>1. f[i] = step[f[i - 1]]
      <4> HIDE DEF step, S, after, begin
      <4> QED
        BY <1>5 DEF IsIteration
    <3>2. f[i - 1] \in S
      <4> HIDE DEF S
      <4> QED
        BY <1>5
    <3> HIDE DEF S, after
    <3> QED
      BY <3>1, <3>2
  <2> HIDE DEF step, S, after, begin
  <2> QED
    BY <1>5, <2>1 DEF IsIteration
<1>7. f = [i \in 0..n |-> IF i = 0 THEN begin ELSE after(f[i - 1])]
  <2> HIDE DEF step, S, after, begin
  <2>1. \A i \in 0..n : i = 0 \/ i \in 1..n
    OBVIOUS
  <2>2. f = [i \in 0..n |-> f[i]]
    BY <1>5
  <2> QED
    BY <1>6, <2>1, <2>2, Zenon
<1>8. walk = CHOOSE h : h = [i \in 0..n |-> IF i = 0 THEN begin ELSE after(h[i - 1])]
  BY <1>1 DEF WalkOf
<1>9. walk = [i \in 0..n |-> IF i = 0 THEN begin ELSE after(walk[i - 1])]
  <2> HIDE DEF walk, after, begin, S, step
  <2> QED
    BY <1>7, <1>8, Zenon
<1>10. \A i \in 0..n : walk[i] \in S
  <2> DEFINE good == {i \in 0..n : walk[i] \in S}
  <2> HIDE DEF walk, after, begin, S, step
  <2>1. 0 \in good
    BY <1>2, <1>9
  <2>2. ASSUME NEW i \in 1..n, i - 1 \in good PROVE i \in good
    <3>1. walk[i] = after(walk[i - 1])
      BY <1>9
    <3> QED
      BY <1>3, <2>2, <3>1
  <2>3. 0..n \subseteq good
    <3> HIDE DEF good
    <3> QED
      BY <2>1, <2>2, ReachesAll
  <2> QED
    BY <2>3
<1>11. ASSUME NEW s \in S PROVE s.fee \in Int /\ (s.fee - base) * (s.fee - base) <= spread * spread
  <2>1. PICK x \in Int : x = s.fee - base
    OBVIOUS
  <2>2. -width <= x /\ x <= width
    BY <2>1
  <2>3. x * x <= spread * spread
    BY <1>1, <2>2, SquareWithin
  <2> QED
    BY <2>1, <2>3
<1> QED
  <2> HIDE DEF S
  <2> QED
    BY <1>10, <1>11

LEMMA FlatFits ==
    ASSUME NEW n \in Nat, NEW a \in Nat, NEW b \in Int, NEW f, f.records = Flat(n, a), f.a = a, f.b = b,
           f.kind \in {"flat", "walk"}
    PROVE  FixtureFits(f)
<1> DEFINE g == [i \in 1..n |-> a]
<1>1. AreRecords(f.records, n, g)
  BY DEF Flat, Records, AreRecords
<1>2. \A i \in 1..n : g[i] = a
  OBVIOUS
<1>3. (a - a) * (a - a) <= b * b
  <2>1. b * b \in Nat
    <3>1. CASE b >= 0
      BY <3>1
    <3>2. CASE b < 0
      <4>1. -b \in Nat /\ b * b = (-b) * (-b)
        BY <3>2
      <4>2. (-b) * (-b) \in Nat
        BY <4>1
      <4> QED
        BY <4>1, <4>2
    <3> QED
      BY <3>1, <3>2
  <2>2. (a - a) * (a - a) = 0
    OBVIOUS
  <2> QED
    BY <2>1, <2>2
<1> HIDE DEF g
<1>4. \A i \in 1..n : g[i] \in Int
  BY <1>2
<1>5. f.kind \in {"flat", "spikes", "burst"} => \A i \in 1..n : g[i] \in {f.a, f.b}
  BY <1>2
<1>6. f.kind # "ramp"
  OBVIOUS
<1>7. f.kind = "walk" => \A i \in 1..n : (g[i] - f.a) * (g[i] - f.a) <= f.b * f.b
  BY <1>2, <1>3
<1> QED
  BY <1>1, <1>4, <1>5, <1>6, <1>7, FixtureByKind

LEMMA BuiltFits == ASSUME BuildFixture PROVE FixtureFits(fixture')
<1>1. MaxLength \in Nat /\ FixtureFees \subseteq Nat
  BY SimulationAssumption DEF SimulationAssumption
<1>2. PICK n \in 0..MaxLength, a \in FixtureFees, b \in FixtureFees, k \in 0..MaxLength :
          \/ Built("flat", a, a, Flat(n, a)) \/ Built("ramp", a, b, Ramp(n, a, b))
          \/ Built("spikes", a, b, Spikes(n, a, b, k)) \/ Built("burst", a, b, Burst(n, a, b, k, MaxLength - 1))
  BY DEF BuildFixture
<1>3. n \in Nat /\ a \in Nat /\ b \in Nat
  BY <1>1
<1>4. PICK f : f = fixture'
  OBVIOUS
<1>5. CASE Built("flat", a, a, Flat(n, a))
  <2>1. f.kind = "flat" /\ f.a = a /\ f.b = a /\ f.records = Flat(n, a)
    BY <1>4, <1>5 DEF Built
  <2> QED
    BY <1>3, <1>4, <2>1, FlatFits
<1>6. CASE Built("ramp", a, b, Ramp(n, a, b))
  <2>1. f.kind = "ramp" /\ f.a = a /\ f.b = b /\ f.records = Ramp(n, a, b)
    BY <1>4, <1>6 DEF Built
  <2> DEFINE g == [i \in 1..n |-> IF n = 1 THEN a ELSE a + Rounded((b - a) * (i - 1), n - 1)]
  <2>2. AreRecords(f.records, n, g)
    BY <2>1 DEF Ramp, Records, AreRecords
  <2>3. \A i \in 1..n : g[i] = IF n = 1 THEN a ELSE a + Rounded((b - a) * (i - 1), n - 1)
    OBVIOUS
  <2> HIDE DEF g
  <2>4. \A i \in 1..n : g[i] \in Int
    <3> SUFFICES ASSUME NEW i \in 1..n, n # 1 PROVE g[i] \in Int
      BY <1>3, <2>3
    <3>1. PICK x \in Int, c \in Nat \ {0} : x = (b - a) * (i - 1) /\ c = n - 1
      <4>1. (b - a) * (i - 1) \in Int /\ n - 1 \in Nat \ {0}
        BY <1>3
      <4> QED
        BY <4>1
    <3>2. Rounded(x, c) \in Int
      BY RoundedIsInt
    <3> QED
      BY <1>3, <2>3, <3>1, <3>2
  <2>5. n >= 2 => /\ g[1] = a /\ g[n] = b
                  /\ \A i \in 2..n : IF a <= b THEN g[i - 1] <= g[i] ELSE g[i - 1] >= g[i]
    <3> SUFFICES ASSUME n >= 2 PROVE /\ g[1] = a /\ g[n] = b
                                     /\ \A i \in 2..n : IF a <= b THEN g[i - 1] <= g[i] ELSE g[i - 1] >= g[i]
      OBVIOUS
    <3>1. \A i \in 1..n : g[i] = a + Rounded((b - a) * (i - 1), n - 1)
      BY <2>3
    <3> QED
      BY <1>3, <3>1, RampFees
  <2>6. f.kind = "ramp" /\ n >= 2 =>
           /\ g[1] = f.a /\ g[n] = f.b
           /\ \A i \in 2..n : IF f.a <= f.b THEN g[i - 1] <= g[i] ELSE g[i - 1] >= g[i]
    BY <2>1, <2>5
  <2>7. f.kind \notin {"flat", "spikes", "burst"} /\ f.kind # "walk"
    BY <2>1
  <2> QED
    BY <1>3, <1>4, <2>2, <2>4, <2>6, <2>7, FixtureByKind
<1>7. CASE Built("spikes", a, b, Spikes(n, a, b, k)) \/ Built("burst", a, b, Burst(n, a, b, k, MaxLength - 1))
  <2>1. /\ f.kind \in {"spikes", "burst"} /\ f.a = a /\ f.b = b
        /\ f.records = Spikes(n, a, b, k) \/ f.records = Burst(n, a, b, k, MaxLength - 1)
    BY <1>4, <1>7 DEF Built
  <2>2. PICK g : AreRecords(f.records, n, g) /\ \A i \in 1..n : g[i] \in {a, b}
    <3>1. CASE f.records = Spikes(n, a, b, k)
      <4> DEFINE g == [i \in 1..n |-> IF (i - 1) % (IF k < 1 THEN 1 ELSE k) = 0 THEN b ELSE a]
      <4>1. AreRecords(f.records, n, g)
        BY <3>1, Zenon DEF Spikes, Records, AreRecords
      <4>2. \A i \in 1..n : g[i] \in {a, b}
        OBVIOUS
      <4> QED
        BY <4>1, <4>2
    <3>2. CASE f.records = Burst(n, a, b, k, MaxLength - 1)
      <4> DEFINE g == [i \in 1..n |-> IF i - 1 >= k /\ i - 1 < MaxLength - 1 THEN b ELSE a]
      <4>1. AreRecords(f.records, n, g)
        BY <3>2, Zenon DEF Burst, Records, AreRecords
      <4>2. \A i \in 1..n : g[i] \in {a, b}
        OBVIOUS
      <4> QED
        BY <4>1, <4>2
    <3> QED
      BY <2>1, <3>1, <3>2
  <2>3. \A i \in 1..n : g[i] \in Int
    BY <1>3, <2>2
  <2>4. f.kind # "ramp" /\ f.kind # "walk" /\ \A i \in 1..n : g[i] \in {f.a, f.b}
    BY <2>1, <2>2
  <2> QED
    BY <1>3, <1>4, <2>2, <2>3, <2>4, FixtureByKind
<1> QED
  BY <1>2, <1>5, <1>6, <1>7

LEMMA WalkFits == ASSUME BuildWalk PROVE FixtureFits(fixture')
<1>1. MaxLength \in Nat /\ FixtureFees \subseteq Nat /\ Spreads \subseteq Int
  BY SimulationAssumption DEF SimulationAssumption
<1>2. PICK n \in 0..MaxLength, base \in FixtureFees, spread \in Spreads, seed \in Seeds \cup {0} :
          Built("walk", base, spread, RandomWalk(n, base, spread, seed))
  BY DEF BuildWalk
<1>3. n \in Nat /\ base \in Nat /\ spread \in Int
  BY <1>1
<1>4. PICK f : f = fixture'
  OBVIOUS
<1>5. f.kind = "walk" /\ f.a = base /\ f.b = spread /\ f.records = RandomWalk(n, base, spread, seed)
  BY <1>2, <1>4 DEF Built
<1>6. CASE seed = 0
  <2>1. f.records = Flat(n, base)
    BY <1>5, <1>6 DEF RandomWalk
  <2> QED
    BY <1>3, <1>4, <1>5, <2>1, FlatFits
<1>7. CASE seed # 0
  <2> DEFINE g == [i \in 1..n |-> WalkOf(n, base, spread, seed)[(i - 1) + 1].fee]
  <2>1. AreRecords(f.records, n, g)
    BY <1>5, <1>7, Zenon DEF RandomWalk, Records, AreRecords, WalkOf
  <2>2. \A i \in 1..n : g[i] \in Int /\ (g[i] - base) * (g[i] - base) <= spread * spread
    <3> SUFFICES ASSUME NEW i \in 1..n PROVE g[i] \in Int /\ (g[i] - base) * (g[i] - base) <= spread * spread
      OBVIOUS
    <3>1. i \in 0..n /\ (i - 1) + 1 = i
      BY <1>3
    <3>2. g[i] = WalkOf(n, base, spread, seed)[i].fee
      BY <3>1
    <3> HIDE DEF g
    <3>3. seed \in Seeds
      BY <1>7
    <3> QED
      BY <1>3, <3>1, <3>2, <3>3, WalkStays
  <2> HIDE DEF g
  <2>3. f.kind # "ramp" /\ f.kind \notin {"flat", "spikes", "burst"}
    BY <1>5
  <2>4. f.kind = "walk" => \A i \in 1..n : (g[i] - f.a) * (g[i] - f.a) <= f.b * f.b
    BY <1>5, <2>2
  <2> QED
    BY <1>3, <1>4, <2>1, <2>2, <2>3, <2>4, FixtureByKind
<1> QED
  BY <1>6, <1>7

-----------------------------------------------------------------------------
(* What a simulation does follows from its configuration. *)

SimulationInv == FeesInv /\ LoadsInv /\ (fixture # Nothing => FixtureFits(fixture))

LEMMA StepOfSimulation == [Next]_vars => [SimulationNext]_simulationVars
  BY DEF Next, DevkitNext, TracingNext, vars, devkitVars

LEMMA InitSimulation == ASSUME SimulationInit PROVE SimulationInv
  BY DEF SimulationInit, SimulationInv, FeesInv, LoadsInv

LEMMA NextSimulation == ASSUME SimulationInv, [SimulationNext]_simulationVars PROVE SimulationInv'
<1>1. FeesInv' /\ LoadsInv'
  BY NextFees, NextLoads DEF SimulationInv
<1>2. fixture' # Nothing => FixtureFits(fixture')
  <2>1. CASE UNCHANGED fixture
    BY <2>1 DEF SimulationInv
  <2>2. CASE BuildFixture \/ BuildWalk
    BY <2>2, BuiltFits, WalkFits
  <2> QED
    BY <2>1, <2>2 DEF SimulationNext, simulationVars, NewModel, Generate, ResetModel, NewLoad, FromFee, ResetLoad
<1>3. (fixture # Nothing => FixtureFits(fixture))'
  BY <1>2 DEF FixtureFits
<1> QED
  BY <1>1, <1>3 DEF SimulationInv

LEMMA SimulationInvReplays == ASSUME SimulationInv PROVE Replays
<1>1. ASSUME model # Nothing, NEW i \in DOMAIN fees
      PROVE  fees[i] = Clamp((IF i = 1 THEN model.config.base ELSE fees[i - 1]) + model.config.trend
                             + Noise(Drawn(model.config.seed, i), Amplitude(model.config)),
                             model.config.min, model.config.max)
  BY <1>1 DEF SimulationInv, FeesInv, FeeAfter
<1>2. ASSUME load # Nothing, NEW i \in DOMAIN loads
      PROVE  loads[i].load = FollowFee([load EXCEPT !.rng = Drawn(load.config.seed, i - 1)],
                                       loads[i].fee, loads[i].floor, loads[i].ceiling).last
  <2>1. loads \in Seq(Followed) /\ load \in LoadStates
    BY <1>2 DEF SimulationInv, LoadsInv
  <2>2. loads[i] \in Followed /\ i \in Nat \ {0}
    <3> DEFINE S == Followed
    <3>1. loads \in Seq(S) /\ i \in DOMAIN loads
      BY <1>2, <2>1
    <3> HIDE DEF S
    <3>2. loads[i] \in S /\ i \in Nat \ {0}
      BY <3>1
    <3> QED
      BY <3>2 DEF S
  <2>3. PICK j \in Nat, seed \in Seeds : j = i - 1 /\ seed = load.config.seed
    <3>1. i - 1 \in Nat /\ load.config.seed \in Seeds
      BY <2>1, <2>2, LoadConfigFits DEF LoadStates
    <3> QED
      BY <3>1
  <2>4. Drawn(seed, j) \in Seeds /\ Drawn(seed, i) = NextRng[Drawn(seed, j)]
    <3>1. Drawn(seed, j) \in Seeds /\ Drawn(seed, j + 1) = NextRng[Drawn(seed, j)]
      BY DrawnSteps
    <3>2. j + 1 = i
      BY <2>2, <2>3
    <3> QED
      BY <3>1, <3>2
  <2>5. PICK l : l = [load EXCEPT !.rng = Drawn(seed, j)]
    OBVIOUS
  <2>6. l \in LoadStates /\ l.config = load.config /\ l.rng = Drawn(seed, j)
    BY <2>1, <2>4, <2>5 DEF LoadStates
  <2>7. loads[i].fee \in Int /\ loads[i].floor \in Int /\ loads[i].ceiling \in Int
    BY <2>2 DEF Followed
  <2>8. FollowFee(l, loads[i].fee, loads[i].floor, loads[i].ceiling).last =
           LoadAfter(load.config, loads[i].fee, loads[i].floor, loads[i].ceiling, NextRng[Drawn(seed, j)])
    BY <2>6, <2>7, FollowFits
  <2>9. loads[i].load = LoadAfter(load.config, loads[i].fee, loads[i].floor, loads[i].ceiling, Drawn(seed, i))
    BY <1>2, <2>3 DEF SimulationInv, LoadsInv
  <2> QED
    BY <2>3, <2>4, <2>5, <2>8, <2>9
<1>3. fixture # Nothing => FixtureFits(fixture)
  BY DEF SimulationInv
<1> QED
  BY <1>1, <1>2, <1>3, Zenon DEF Replays, FixtureFits

LEMMA SimulationInvTypes == ASSUME SimulationInv PROVE SimulationTypeOK
<1>1. \A seed \in Seeds, n \in Nat : Drawn(seed, n) \in Seeds
  BY DrawnSteps
<1>2. ASSUME model # Nothing PROVE model.rng \in Seeds
  BY <1>2 DEF SimulationInv, FeesInv, FeeModels
<1>3. ASSUME load # Nothing PROVE load.rng \in Seeds
  BY <1>3 DEF SimulationInv, LoadsInv, LoadStates
<1> QED
  BY <1>2, <1>3 DEF SimulationInv, FeesInv, LoadsInv, SimulationTypeOK

LEMMA SimulationHolds == Spec => []SimulationInv
<1>1. Init => SimulationInv
  BY InitSimulation DEF Init
<1>2. SimulationInv /\ [Next]_vars => SimulationInv'
  BY StepOfSimulation, NextSimulation
<1> QED
  BY <1>1, <1>2, PTL DEF Spec

(* Fees and loads are those of the configuration, however they were asked for, *)
(* and fixtures have the shape of their kind, for every generator.             *)
THEOREM ReplaysCorrect == Spec => []Replays
  BY SimulationHolds, SimulationInvReplays, PTL

(* Fees and loads stay within their limits, the generator among its states. *)
THEOREM SimulationTypes == Spec => []SimulationTypeOK
  BY SimulationHolds, SimulationInvTypes, PTL

-----------------------------------------------------------------------------
(* The tools for recorded points, which are recursive functions of them. *)

FeePoint == [ledger : Nat, fee : Nat, at : Nat, spike : BOOLEAN]

(* f adds numbers up, place after place. *)
AddsTo(f, numbers) == f[0] = 0 /\ \A k \in 1..Len(numbers) : f[k] = f[k - 1] + numbers[k]

LEMMA AddedFolds ==
    ASSUME NEW numbers \in Seq(Int)
    PROVE  \E f \in [0..Len(numbers) -> Int] : AddsTo(f, numbers) /\ Added(numbers) = f[Len(numbers)]
<1> DEFINE n == Len(numbers)
           Z == Int
           step == [k \in 1..n |-> [acc \in Z |-> acc + numbers[k]]]
           upTo == CHOOSE f : f = [k \in 0..n |-> IF k = 0 THEN 0 ELSE f[k - 1] + numbers[k]]
<1>1. n \in Nat
  OBVIOUS
<1>2. ASSUME NEW k \in 1..n, NEW acc \in Z PROVE acc + numbers[k] \in Z
  OBVIOUS
<1>3. 0 \in Z
  OBVIOUS
<1>4. step \in [1..n -> [Z -> Z]]
  <2> HIDE DEF n, Z
  <2> QED
    BY <1>2
<1>5. PICK f \in [0..n -> Z] : IsFold(f, n, 0, step)
  <2> HIDE DEF n, step, upTo, Z
  <2> QED
    BY <1>1, <1>3, <1>4, FoldExists
<1>6. \A k \in 1..n : f[k - 1] \in Z /\ f[k] \in Z
  <2> HIDE DEF n, step, Z
  <2> QED
    BY <1>1
<1>7. f[0] = 0 /\ \A k \in 1..n : f[k] = f[k - 1] + numbers[k]
  <2>1. ASSUME NEW k \in 1..n PROVE f[k] = f[k - 1] + numbers[k]
    <3> HIDE DEF n, Z
    <3>1. step[k][f[k - 1]] = f[k - 1] + numbers[k]
      BY <1>6
    <3> HIDE DEF step
    <3>2. f[k] = step[k][f[k - 1]]
      BY <1>5 DEF IsFold
    <3> QED
      BY <3>1, <3>2
  <2> HIDE DEF step, Z
  <2> QED
    BY <1>5, <2>1 DEF IsFold
<1>8. f = [k \in 0..n |-> IF k = 0 THEN 0 ELSE f[k - 1] + numbers[k]]
  <2> HIDE DEF n, step, upTo, Z
  <2>1. f = [k \in 0..n |-> f[k]]
    OBVIOUS
  <2>2. \A k \in 0..n : k = 0 \/ k \in 1..n
    BY <1>1
  <2> QED
    BY <1>7, <2>1, <2>2, Zenon
<1>9. upTo = [k \in 0..n |-> IF k = 0 THEN 0 ELSE upTo[k - 1] + numbers[k]]
  BY <1>8
<1>10. Added(numbers) = upTo[n]
  BY DEF Added
<1> HIDE DEF n, step, upTo, Z
<1>11. upTo[0] = 0 /\ \A k \in 1..n : upTo[k] = upTo[k - 1] + numbers[k]
  <2>1. 0 \in 0..n /\ \A k \in 1..n : k \in 0..n /\ k # 0
    BY <1>1
  <2> QED
    BY <1>9, <2>1, Zenon
<1>12. \A k \in 0..n : upTo[k] = f[k]
  <2> DEFINE same == {k \in 0..n : upTo[k] = f[k]}
  <2>1. 0 \in same /\ \A k \in 1..n : k - 1 \in same => k \in same
    BY <1>1, <1>7, <1>11
  <2>2. 0..n \subseteq same
    <3> HIDE DEF same
    <3> QED
      BY <1>1, <2>1, ReachesAll
  <2> QED
    BY <2>2
<1>13. Added(numbers) = f[n]
  BY <1>1, <1>10, <1>12
<1>14. AddsTo(f, numbers)
  BY <1>7 DEF AddsTo, n
<1> QED
  BY <1>13, <1>14 DEF n, Z

(* f selects what is at some places, place after place. *)
Selects(f, seq, places) == f[0] = <<>> /\ \A k \in 1..Len(seq) : f[k] = (IF k \in places THEN Append(f[k - 1], seq[k]) ELSE f[k - 1])

LEMMA SelectedFolds ==
    ASSUME NEW A, NEW seq \in Seq(A), NEW places
    PROVE  \E f \in [0..Len(seq) -> Seq(A)] : Selects(f, seq, places) /\ Selected(seq, places) = f[Len(seq)]
<1> DEFINE n == Len(seq)
           Z == Seq(A)
           step == [k \in 1..n |-> [acc \in Z |-> (IF k \in places THEN Append(acc, seq[k]) ELSE acc)]]
           upTo == CHOOSE f : f = [k \in 0..n |-> IF k = 0 THEN <<>> ELSE (IF k \in places THEN Append(f[k - 1], seq[k]) ELSE f[k - 1])]
<1>1. n \in Nat
  OBVIOUS
<1>2. ASSUME NEW k \in 1..n, NEW acc \in Z PROVE (IF k \in places THEN Append(acc, seq[k]) ELSE acc) \in Z
  <2>1. seq[k] \in A
    OBVIOUS
  <2>2. Append(acc, seq[k]) \in Z
    BY <2>1
  <2> QED
    BY <2>2
<1>3. <<>> \in Z
  OBVIOUS
<1>4. step \in [1..n -> [Z -> Z]]
  <2> HIDE DEF n, Z
  <2> QED
    BY <1>2
<1>5. PICK f \in [0..n -> Z] : IsFold(f, n, <<>>, step)
  <2> HIDE DEF n, step, upTo, Z
  <2> QED
    BY <1>1, <1>3, <1>4, FoldExists
<1>6. \A k \in 1..n : f[k - 1] \in Z /\ f[k] \in Z
  <2> HIDE DEF n, step, Z
  <2> QED
    BY <1>1
<1>7. f[0] = <<>> /\ \A k \in 1..n : f[k] = (IF k \in places THEN Append(f[k - 1], seq[k]) ELSE f[k - 1])
  <2>1. ASSUME NEW k \in 1..n PROVE f[k] = (IF k \in places THEN Append(f[k - 1], seq[k]) ELSE f[k - 1])
    <3> HIDE DEF n, Z
    <3>1. step[k][f[k - 1]] = (IF k \in places THEN Append(f[k - 1], seq[k]) ELSE f[k - 1])
      BY <1>6
    <3> HIDE DEF step
    <3>2. f[k] = step[k][f[k - 1]]
      BY <1>5 DEF IsFold
    <3> QED
      BY <3>1, <3>2
  <2> HIDE DEF step, Z
  <2> QED
    BY <1>5, <2>1 DEF IsFold
<1>8. f = [k \in 0..n |-> IF k = 0 THEN <<>> ELSE (IF k \in places THEN Append(f[k - 1], seq[k]) ELSE f[k - 1])]
  <2> HIDE DEF n, step, upTo, Z
  <2>1. f = [k \in 0..n |-> f[k]]
    OBVIOUS
  <2>2. \A k \in 0..n : k = 0 \/ k \in 1..n
    BY <1>1
  <2> QED
    BY <1>7, <2>1, <2>2, Zenon
<1>9. upTo = [k \in 0..n |-> IF k = 0 THEN <<>> ELSE (IF k \in places THEN Append(upTo[k - 1], seq[k]) ELSE upTo[k - 1])]
  BY <1>8
<1>10. Selected(seq, places) = upTo[n]
  BY DEF Selected
<1> HIDE DEF n, step, upTo, Z
<1>11. upTo[0] = <<>> /\ \A k \in 1..n : upTo[k] = (IF k \in places THEN Append(upTo[k - 1], seq[k]) ELSE upTo[k - 1])
  <2>1. 0 \in 0..n /\ \A k \in 1..n : k \in 0..n /\ k # 0
    BY <1>1
  <2> QED
    BY <1>9, <2>1, Zenon
<1>12. \A k \in 0..n : upTo[k] = f[k]
  <2> DEFINE same == {k \in 0..n : upTo[k] = f[k]}
  <2>1. 0 \in same /\ \A k \in 1..n : k - 1 \in same => k \in same
    BY <1>1, <1>7, <1>11
  <2>2. 0..n \subseteq same
    <3> HIDE DEF same
    <3> QED
      BY <1>1, <2>1, ReachesAll
  <2> QED
    BY <2>2
<1>13. Selected(seq, places) = f[n]
  BY <1>1, <1>10, <1>12
<1>14. Selects(f, seq, places)
  BY <1>7 DEF Selects, n
<1> QED
  BY <1>13, <1>14 DEF n, Z

(* f keeps points of new ledgers, place after place. *)
Keeps(f, ps) == f[0] = <<>> /\ \A k \in 1..Len(ps) : f[k] = (IF ps[k].ledger \in LedgersOf(f[k - 1]) THEN f[k - 1] ELSE Append(f[k - 1], ps[k]))

LEMMA KeptFolds ==
    ASSUME NEW ps \in Seq(FeePoint)
    PROVE  \E f \in [0..Len(ps) -> Seq(FeePoint)] : Keeps(f, ps) /\ RemoveDuplicates(ps) = f[Len(ps)]
<1> DEFINE n == Len(ps)
           Z == Seq(FeePoint)
           step == [k \in 1..n |-> [acc \in Z |-> (IF ps[k].ledger \in LedgersOf(acc) THEN acc ELSE Append(acc, ps[k]))]]
           upTo == CHOOSE f : f = [k \in 0..n |-> IF k = 0 THEN <<>> ELSE (IF ps[k].ledger \in LedgersOf(f[k - 1]) THEN f[k - 1] ELSE Append(f[k - 1], ps[k]))]
<1>1. n \in Nat
  OBVIOUS
<1>2. ASSUME NEW k \in 1..n, NEW acc \in Z PROVE (IF ps[k].ledger \in LedgersOf(acc) THEN acc ELSE Append(acc, ps[k])) \in Z
  <2>1. ps[k] \in FeePoint
    OBVIOUS
  <2>2. Append(acc, ps[k]) \in Z
    BY <2>1
  <2> QED
    BY <2>2
<1>3. <<>> \in Z
  OBVIOUS
<1>4. step \in [1..n -> [Z -> Z]]
  <2> HIDE DEF n, Z
  <2> QED
    BY <1>2
<1>5. PICK f \in [0..n -> Z] : IsFold(f, n, <<>>, step)
  <2> HIDE DEF n, step, upTo, Z
  <2> QED
    BY <1>1, <1>3, <1>4, FoldExists
<1>6. \A k \in 1..n : f[k - 1] \in Z /\ f[k] \in Z
  <2> HIDE DEF n, step, Z
  <2> QED
    BY <1>1
<1>7. f[0] = <<>> /\ \A k \in 1..n : f[k] = (IF ps[k].ledger \in LedgersOf(f[k - 1]) THEN f[k - 1] ELSE Append(f[k - 1], ps[k]))
  <2>1. ASSUME NEW k \in 1..n PROVE f[k] = (IF ps[k].ledger \in LedgersOf(f[k - 1]) THEN f[k - 1] ELSE Append(f[k - 1], ps[k]))
    <3> HIDE DEF n, Z
    <3>1. step[k][f[k - 1]] = (IF ps[k].ledger \in LedgersOf(f[k - 1]) THEN f[k - 1] ELSE Append(f[k - 1], ps[k]))
      BY <1>6
    <3> HIDE DEF step
    <3>2. f[k] = step[k][f[k - 1]]
      BY <1>5 DEF IsFold
    <3> QED
      BY <3>1, <3>2
  <2> HIDE DEF step, Z
  <2> QED
    BY <1>5, <2>1 DEF IsFold
<1>8. f = [k \in 0..n |-> IF k = 0 THEN <<>> ELSE (IF ps[k].ledger \in LedgersOf(f[k - 1]) THEN f[k - 1] ELSE Append(f[k - 1], ps[k]))]
  <2> HIDE DEF n, step, upTo, Z
  <2>1. f = [k \in 0..n |-> f[k]]
    OBVIOUS
  <2>2. \A k \in 0..n : k = 0 \/ k \in 1..n
    BY <1>1
  <2> QED
    BY <1>7, <2>1, <2>2, Zenon
<1>9. upTo = [k \in 0..n |-> IF k = 0 THEN <<>> ELSE (IF ps[k].ledger \in LedgersOf(upTo[k - 1]) THEN upTo[k - 1] ELSE Append(upTo[k - 1], ps[k]))]
  BY <1>8
<1>10. RemoveDuplicates(ps) = upTo[n]
  BY DEF RemoveDuplicates
<1> HIDE DEF n, step, upTo, Z
<1>11. upTo[0] = <<>> /\ \A k \in 1..n : upTo[k] = (IF ps[k].ledger \in LedgersOf(upTo[k - 1]) THEN upTo[k - 1] ELSE Append(upTo[k - 1], ps[k]))
  <2>1. 0 \in 0..n /\ \A k \in 1..n : k \in 0..n /\ k # 0
    BY <1>1
  <2> QED
    BY <1>9, <2>1, Zenon
<1>12. \A k \in 0..n : upTo[k] = f[k]
  <2> DEFINE same == {k \in 0..n : upTo[k] = f[k]}
  <2>1. 0 \in same /\ \A k \in 1..n : k - 1 \in same => k \in same
    BY <1>1, <1>7, <1>11
  <2>2. 0..n \subseteq same
    <3> HIDE DEF same
    <3> QED
      BY <1>1, <2>1, ReachesAll
  <2> QED
    BY <2>2
<1>13. RemoveDuplicates(ps) = f[n]
  BY <1>1, <1>10, <1>12
<1>14. Keeps(f, ps)
  BY <1>7 DEF Keeps, n
<1> QED
  BY <1>13, <1>14 DEF n, Z

(* Twice two numbers' weighted mean, rounded, lies between them. *)
LEMMA TimesPositive == ASSUME NEW x \in Nat, NEW y \in Nat PROVE x * y \in Nat
  OBVIOUS

LEMMA BetweenLower ==
    ASSUME NEW a \in Nat, NEW b \in Nat, a <= b, NEW gap \in Nat \ {0}, NEW i \in 0..gap
    PROVE  Between(a, b, i, gap) \in a..b
<1> DEFINE top == 2 * (a * gap + (b - a) * i) + gap
<1>1. PICK rise \in Nat : rise = b - a
  OBVIOUS
<1>2. PICK rest \in Nat : rest = gap - i
  OBVIOUS
<1>3. PICK x \in Nat : x = rise * i
  BY TimesPositive
<1>4. PICK y \in Nat : y = rise * rest
  BY TimesPositive
<1>5. top = 2 * gap * a + 2 * x + gap
  <2>1. (b - a) * i = x
    BY <1>1, <1>3
  <2>2. top = 2 * (a * gap + x) + gap
    BY <2>1
  <2> HIDE DEF top
  <2> QED
    BY <2>2
<1>6. x + y = rise * gap
  <2>1. i + rest = gap
    BY <1>2
  <2>2. rise * i + rise * rest = rise * (i + rest)
    BY <1>1, <1>2
  <2> QED
    BY <1>3, <1>4, <2>1, <2>2
<1>7. top = 2 * gap * b + gap - 2 * y
  <2>1. b = a + rise
    BY <1>1
  <2>2. 2 * gap * b = 2 * gap * a + 2 * (rise * gap)
    BY <1>1, <2>1
  <2> HIDE DEF top
  <2> QED
    BY <1>5, <1>6, <2>2
<1>8. PICK whole \in Nat \ {0} : whole = 2 * gap
  OBVIOUS
<1>9. top \in Int /\ whole * a <= top /\ top < whole * (b + 1)
  <2>1. whole * (b + 1) = 2 * gap * b + 2 * gap /\ whole * a = 2 * gap * a
    BY <1>8
  <2> HIDE DEF top
  <2> QED
    BY <1>3, <1>4, <1>5, <1>7, <2>1
<1>10. Between(a, b, i, gap) = top \div whole
  BY <1>8 DEF Between
<1> HIDE DEF top
<1>11. top \div whole \in Int
  BY <1>9
<1>12. PICK d \in Int : d = top \div whole
  BY <1>11
<1>13. whole * d <= top /\ top < whole * d + whole
  BY <1>8, <1>9, <1>12
<1>14. whole * d < whole * (b + 1) /\ whole * a < whole * (d + 1)
  BY <1>9, <1>13
<1>15. d < b + 1 /\ a < d + 1
  BY <1>14, TimesLess
<1> QED
  BY <1>10, <1>12, <1>15

LEMMA BetweenWithin ==
    ASSUME NEW a \in Nat, NEW b \in Nat, NEW gap \in Nat \ {0}, NEW i \in 0..gap
    PROVE  /\ Between(a, b, i, gap) \in Nat
           /\ a <= b => Between(a, b, i, gap) \in a..b
           /\ b <= a => Between(a, b, i, gap) \in b..a
<1>1. CASE a <= b
  <2>1. Between(a, b, i, gap) \in a..b
    BY <1>1, BetweenLower
  <2>2. b <= a => a = b
    BY <1>1
  <2> QED
    BY <1>1, <2>1, <2>2
<1>2. CASE b < a
  <2>1. PICK rest \in 0..gap : rest = gap - i
    OBVIOUS
  <2>2. b * gap + (a - b) * rest = a * gap + (b - a) * i
    <3>1. PICK d \in Int : d = a - b
      OBVIOUS
    <3>2. b * gap + d * (gap - i) = (b + d) * gap + (0 - d) * i
      OBVIOUS
    <3>3. b + d = a /\ 0 - d = b - a
      BY <3>1
    <3> QED
      BY <2>1, <3>1, <3>2, <3>3
  <2>3. Between(a, b, i, gap) = Between(b, a, rest, gap)
    BY <2>2 DEF Between
  <2>4. b <= a
    BY <1>2
  <2>5. Between(b, a, rest, gap) \in b..a
    BY <2>4, BetweenLower
  <2> QED
    BY <1>2, <2>3, <2>5
<1> QED
  BY <1>1, <1>2

(* Points between two ledgers are fee points, one for each ledger. *)
LEMMA InterpolatedIs ==
    ASSUME NEW p \in FeePoint, NEW q \in FeePoint
    PROVE  /\ Interpolated(p, q) \in Seq(FeePoint)
           /\ p.ledger < q.ledger =>
                /\ Len(Interpolated(p, q)) = q.ledger - p.ledger - 1
                /\ \A i \in 1..(q.ledger - p.ledger - 1) :
                      LET x == Interpolated(p, q)[i] IN
                      /\ x.ledger = p.ledger + i
                      /\ p.fee <= q.fee => x.fee \in p.fee..q.fee
                      /\ q.fee <= p.fee => x.fee \in q.fee..p.fee
                      /\ p.at <= q.at => x.at \in p.at..q.at
<1> DEFINE gap == q.ledger - p.ledger
           x(i) == [ledger |-> p.ledger + i, fee |-> Between(p.fee, q.fee, i, gap),
                    at |-> Between(p.at, q.at, i, gap), spike |-> FALSE]
<1>1. Interpolated(p, q) = [i \in 1..(gap - 1) |-> x(i)]
  BY DEF Interpolated
<1>2. p.ledger \in Nat /\ q.ledger \in Nat /\ p.fee \in Nat /\ q.fee \in Nat /\ p.at \in Nat /\ q.at \in Nat
  BY DEF FeePoint
<1>3. gap \in Int
  BY <1>2
<1>4. ASSUME NEW i \in 1..(gap - 1)
      PROVE  /\ x(i) \in FeePoint /\ x(i).ledger = p.ledger + i
             /\ p.fee <= q.fee => x(i).fee \in p.fee..q.fee
             /\ q.fee <= p.fee => x(i).fee \in q.fee..p.fee
             /\ p.at <= q.at => x(i).at \in p.at..q.at
  <2>1. gap \in Nat \ {0} /\ i \in 0..gap
    BY <1>3
  <2> HIDE DEF gap
  <2>2. PICK fee \in Nat : /\ fee = Between(p.fee, q.fee, i, gap)
                           /\ p.fee <= q.fee => fee \in p.fee..q.fee
                           /\ q.fee <= p.fee => fee \in q.fee..p.fee
    BY <1>2, <2>1, BetweenWithin
  <2>3. PICK at \in Nat : at = Between(p.at, q.at, i, gap) /\ (p.at <= q.at => at \in p.at..q.at)
    BY <1>2, <2>1, BetweenWithin
  <2>4. x(i) = [ledger |-> p.ledger + i, fee |-> fee, at |-> at, spike |-> FALSE]
    BY <2>2, <2>3
  <2>5. p.ledger + i \in Nat
    BY <1>2, <2>1
  <2> HIDE DEF x
  <2> QED
    BY <2>2, <2>3, <2>4, <2>5 DEF FeePoint
<1>5. CASE p.ledger < q.ledger
  <2>1. gap - 1 \in Nat
    BY <1>2, <1>5
  <2> HIDE DEF gap, x
  <2>2. Interpolated(p, q) \in Seq(FeePoint) /\ Len(Interpolated(p, q)) = gap - 1
    BY <1>1, <1>4, <2>1
  <2>3. \A i \in 1..(gap - 1) : Interpolated(p, q)[i] = x(i)
    BY <1>1
  <2> QED
    BY <1>4, <2>2, <2>3 DEF gap
<1>6. CASE ~ p.ledger < q.ledger
  <2>1. 1..(gap - 1) = {} /\ 1..0 = {}
    BY <1>2, <1>6
  <2> HIDE DEF gap, x
  <2>2. Interpolated(p, q) = <<>>
    BY <1>1, <2>1
  <2> QED
    BY <1>6, <2>2
<1> QED
  BY <1>5, <1>6

LEMMA UptoFinite ==
    ASSUME NEW n \in Nat
    PROVE  IsFiniteSet(1..n) /\ Cardinality(1..n) = n
<1>1. 1 \in Int /\ n \in Int /\ (1 > n => n = 0) /\ n - 1 + 1 = n
  OBVIOUS
<1> QED
  BY <1>1, FS_Interval

(* A strict total order of the places of a sequence, and a way through them *)
(* that follows it.                                                        *)
StrictOn(order, n) ==
    \A i, j \in 1..n :
       /\ <<i, j>> \in order => <<j, i>> \notin order
       /\ i = j \/ <<i, j>> \in order \/ <<j, i>> \in order
       /\ \A k \in 1..n : <<i, j>> \in order /\ <<j, k>> \in order => <<i, k>> \in order

Follows(place, order, n) ==
    /\ place \in [1..n -> 1..n]
    /\ \A k, l \in 1..n : k < l => <<place[k], place[l]>> \in order

Ahead(order, n, j) == {i \in 1..n : <<i, j>> \in order}

LEMMA RankGrows ==
    ASSUME NEW n \in Nat, NEW order, StrictOn(order, n), NEW i \in 1..n, NEW j \in 1..n, <<i, j>> \in order
    PROVE  Cardinality(Ahead(order, n, i)) < Cardinality(Ahead(order, n, j))
<1> DEFINE I == Ahead(order, n, i)
           J == Ahead(order, n, j)
<1>1. I \in SUBSET J
  BY DEF Ahead, StrictOn
<1>2. i \in J /\ i \notin I
  BY DEF Ahead, StrictOn
<1>3. J \in SUBSET (1..n)
  BY DEF Ahead
<1> HIDE DEF I, J
<1>4. IsFiniteSet(J) /\ Cardinality(J) \in Nat
  BY <1>3, UptoFinite, FS_Subset, FS_CardinalityType
<1>5. /\ IsFiniteSet(I) /\ Cardinality(I) \in Nat
      /\ Cardinality(I) <= Cardinality(J) /\ (Cardinality(J) = Cardinality(I) => J = I)
  BY <1>1, <1>4, FS_Subset, FS_CardinalityType
<1> QED
  BY <1>2, <1>4, <1>5 DEF I, J

(* A place with each number of others ahead. *)
LEMMA RankIs ==
    ASSUME NEW n \in Nat, NEW order, StrictOn(order, n)
    PROVE  \A m \in 0..n - 1 : \E j \in 1..n : Cardinality(Ahead(order, n, j)) = m
<1> DEFINE rank == [j \in 1..n |-> Cardinality(Ahead(order, n, j))]
<1>1. rank \in [1..n -> 0..n - 1]
  <2> SUFFICES ASSUME NEW j \in 1..n PROVE Cardinality(Ahead(order, n, j)) \in 0..n - 1
    OBVIOUS
  <2> DEFINE J == Ahead(order, n, j)
  <2>1. J \in SUBSET (1..n) /\ j \notin J
    BY DEF Ahead, StrictOn
  <2> HIDE DEF J
  <2>2. IsFiniteSet(1..n) /\ Cardinality(1..n) = n
    BY UptoFinite
  <2>3. IsFiniteSet(J) /\ Cardinality(J) <= n /\ (n = Cardinality(J) => 1..n = J)
    BY <2>1, <2>2, FS_Subset
  <2>4. Cardinality(J) \in Nat
    BY <2>3, FS_CardinalityType
  <2>5. Cardinality(J) # n
    BY <2>1, <2>3
  <2>6. Cardinality(J) \in 0..n - 1
    BY <2>3, <2>4, <2>5
  <2> QED
    BY <2>6 DEF J
<1>2. \A i, j \in 1..n : <<i, j>> \in order => rank[i] < rank[j]
  BY RankGrows
<1>3. \A i, j \in 1..n : rank[i] = rank[j] => i = j
  <2> SUFFICES ASSUME NEW i \in 1..n, NEW j \in 1..n, i # j PROVE rank[i] # rank[j]
    OBVIOUS
  <2>1. <<i, j>> \in order \/ <<j, i>> \in order
    BY DEF StrictOn
  <2>2. rank[i] \in Int /\ rank[j] \in Int
    BY <1>1
  <2> HIDE DEF rank
  <2> QED
    BY <1>2, <2>1, <2>2
<1>4. rank \in Surjection(1..n, 0..n - 1)
  <2> HIDE DEF rank
  <2>1. rank \in Injection(1..n, 0..n - 1)
    BY <1>1, <1>3 DEF Injection, IsInjective
  <2>2. IsFiniteSet(0..n - 1) /\ Cardinality(0..n - 1) = n
    <3>1. 0 \in Int /\ n - 1 \in Int /\ (0 > n - 1 => n = 0) /\ (n - 1) - 0 + 1 = n
      OBVIOUS
    <3> QED
      BY <3>1, FS_Interval
  <2>3. IsFiniteSet(1..n) /\ Cardinality(1..n) = n
    BY UptoFinite
  <2> QED
    BY <2>1, <2>2, <2>3, FS_Injection
<1> QED
  BY <1>4 DEF Surjection

(* A sequence in an order of its places is the sequence, read along the order. *)
LEMMA InOrderIs ==
    ASSUME NEW A, NEW seq \in Seq(A), NEW order, StrictOn(order, Len(seq))
    PROVE  /\ InOrderOf(seq, order) \in Seq(A) /\ Len(InOrderOf(seq, order)) = Len(seq)
           /\ \E place : /\ Follows(place, order, Len(seq))
                         /\ \A k \in 1..Len(seq) : InOrderOf(seq, order)[k] = seq[place[k]]
<1> DEFINE n == Len(seq)
           at(k) == CHOOSE j \in DOMAIN seq : Cardinality({i \in DOMAIN seq : <<i, j>> \in order}) = k - 1
           place == [k \in 1..n |-> at(k)]
<1>1. n \in Nat /\ DOMAIN seq = 1..n
  OBVIOUS
<1>2. ASSUME NEW k \in 1..n PROVE at(k) \in 1..n /\ Cardinality(Ahead(order, n, at(k))) = k - 1
  <2>1. k - 1 \in 0..n - 1
    BY <1>1
  <2>2. \E j \in 1..n : Cardinality(Ahead(order, n, j)) = k - 1
    <3> HIDE DEF n
    <3> QED
      BY <1>1, <2>1, RankIs DEF n
  <2>3. at(k) = CHOOSE j \in 1..n : Cardinality(Ahead(order, n, j)) = k - 1
    BY <1>1 DEF Ahead
  <2> HIDE DEF at, n
  <2> QED
    BY <2>2, <2>3
<1>3. place \in [1..n -> 1..n]
  BY <1>2
<1>4. ASSUME NEW k \in 1..n, NEW l \in 1..n, k < l PROVE <<place[k], place[l]>> \in order
  <2> HIDE DEF at, n
  <2>1. PICK a \in 1..n, b \in 1..n : a = at(k) /\ b = at(l)
    BY <1>2
  <2>2. Cardinality(Ahead(order, n, a)) = k - 1 /\ Cardinality(Ahead(order, n, b)) = l - 1
    BY <1>2, <2>1
  <2>3. a # b
    BY <1>1, <1>4, <2>2
  <2>4. <<b, a>> \notin order
    <3> SUFFICES ASSUME <<b, a>> \in order PROVE FALSE
      OBVIOUS
    <3>1. Cardinality(Ahead(order, n, b)) < Cardinality(Ahead(order, n, a))
      BY <1>1, RankGrows DEF n
    <3> QED
      BY <1>1, <1>4, <2>2, <3>1
  <2>5. <<a, b>> \in order
    BY <2>3, <2>4 DEF StrictOn, n
  <2> QED
    BY <2>1, <2>5
<1>5. InOrderOf(seq, order) = [k \in 1..n |-> seq[at(k)]]
  BY <1>1 DEF InOrderOf
<1>6. \A k \in 1..n : seq[at(k)] \in A /\ place[k] = at(k)
  <2> SUFFICES ASSUME NEW k \in 1..n PROVE seq[at(k)] \in A
    OBVIOUS
  <2>1. \A j \in 1..n : seq[j] \in A
    OBVIOUS
  <2> HIDE DEF n, at
  <2>2. at(k) \in 1..n
    BY <1>2, Zenon
  <2> QED
    BY <2>1, <2>2, Zenon
<1> HIDE DEF n, at, place
<1>7. InOrderOf(seq, order) \in Seq(A) /\ Len(InOrderOf(seq, order)) = n
  BY <1>1, <1>5, <1>6
<1>8. \A k \in 1..n : InOrderOf(seq, order)[k] = seq[place[k]]
  BY <1>5, <1>6
<1>9. Follows(place, order, n)
  BY <1>3, <1>4 DEF Follows
<1> QED
  BY <1>7, <1>8, <1>9 DEF n

LEMMA SelectedIs ==
    ASSUME NEW A, NEW seq \in Seq(A), NEW places
    PROVE  Selected(seq, places) \in Seq(A)
<1>1. PICK f \in [0..Len(seq) -> Seq(A)] : Selected(seq, places) = f[Len(seq)]
  BY SelectedFolds
<1> QED
  BY <1>1

LEMMA LedgersAppend ==
    ASSUME NEW s \in Seq(FeePoint), NEW p \in FeePoint
    PROVE  /\ Append(s, p) \in Seq(FeePoint) /\ LedgersOf(Append(s, p)) = LedgersOf(s) \cup {p.ledger}
           /\ LedgersOf(s) = {s[i].ledger : i \in 1..Len(s)}
<1> DEFINE t == Append(s, p)
<1>1. t \in Seq(FeePoint) /\ Len(t) = Len(s) + 1 /\ t[Len(s) + 1] = p /\ \A i \in 1..Len(s) : t[i] = s[i]
  OBVIOUS
<1>2. DOMAIN s = 1..Len(s) /\ DOMAIN t = 1..Len(t) /\ Len(s) \in Nat
  BY <1>1
<1> HIDE DEF t
<1>3. LedgersOf(t) = {t[i].ledger : i \in 1..Len(s) + 1} /\ LedgersOf(s) = {s[i].ledger : i \in 1..Len(s)}
  BY <1>1, <1>2 DEF LedgersOf
<1>4. \A i \in 1..Len(s) + 1 : i \in 1..Len(s) \/ i = Len(s) + 1
  BY <1>2
<1>5. \A i \in 1..Len(s) : i \in 1..Len(s) + 1
  BY <1>2
<1>6. Len(s) + 1 \in 1..Len(s) + 1
  BY <1>2
<1>7. LedgersOf(t) = LedgersOf(s) \cup {p.ledger}
  BY <1>1, <1>3, <1>4, <1>5, <1>6, Zenon
<1> QED
  BY <1>1, <1>3, <1>7 DEF t

(* No two points of a sequence have one ledger. *)
OnePerLedger(ps) == \A i, j \in 1..Len(ps) : ps[i].ledger = ps[j].ledger => i = j

(* What removing duplicates keeps is the first point of every ledger. *)
LEMMA KeptIs ==
    ASSUME NEW ps \in Seq(FeePoint)
    PROVE  /\ RemoveDuplicates(ps) = Firsts(ps)
           /\ RemoveDuplicates(ps) \in Seq(FeePoint) /\ OnePerLedger(RemoveDuplicates(ps))
           /\ LedgersOf(RemoveDuplicates(ps)) = LedgersOf(ps)
<1> DEFINE n == Len(ps)
           places == {i \in DOMAIN ps : \A j \in 1..(i - 1) : ps[j].ledger # ps[i].ledger}
           told(k) == {ps[i].ledger : i \in 1..k}
<1>1. n \in Nat /\ DOMAIN ps = 1..n
  OBVIOUS
<1>2. PICK f \in [0..n -> Seq(FeePoint)] : Keeps(f, ps) /\ RemoveDuplicates(ps) = f[n]
  BY KeptFolds
<1>3. PICK g \in [0..n -> Seq(FeePoint)] : Selects(g, ps, places) /\ Selected(ps, places) = g[n]
  <2> HIDE DEF places
  <2> QED
    BY SelectedFolds
<1>4. Firsts(ps) = Selected(ps, places)
  BY DEF Firsts
<1>5. \A k \in 1..n : k \in places <=> ps[k].ledger \notin told(k - 1)
  BY <1>1
<1> DEFINE T == {k \in 0..n : f[k] = g[k] /\ LedgersOf(f[k]) = told(k) /\ OnePerLedger(f[k])}
<1>6. 0 \in T
  <2>1. f[0] = <<>> /\ g[0] = <<>>
    BY <1>2, <1>3 DEF Keeps, Selects
  <2>2. LedgersOf(<<>>) = {} /\ told(0) = {} /\ OnePerLedger(<<>>)
    BY DEF LedgersOf, OnePerLedger
  <2> QED
    BY <1>1, <2>1, <2>2
<1>7. ASSUME NEW k \in 1..n, k - 1 \in T PROVE k \in T
  <2> DEFINE s == f[k - 1]
             p == ps[k]
  <2>1. s \in Seq(FeePoint) /\ p \in FeePoint /\ k \in 0..n
    BY <1>1
  <2>2. f[k] = IF p.ledger \in LedgersOf(s) THEN s ELSE Append(s, p)
    BY <1>2 DEF Keeps
  <2>3. g[k] = IF k \in places THEN Append(g[k - 1], p) ELSE g[k - 1]
    BY <1>3 DEF Selects
  <2>4. g[k - 1] = s /\ LedgersOf(s) = told(k - 1) /\ OnePerLedger(s)
    BY <1>7
  <2>5. told(k) = told(k - 1) \cup {p.ledger}
    <3>1. \A i \in 1..k : i \in 1..k - 1 \/ i = k
      BY <1>1
    <3>2. k \in 1..k /\ \A i \in 1..k - 1 : i \in 1..k
      BY <1>1
    <3> QED
      BY <3>1, <3>2, Zenon
  <2>6. k \in places <=> p.ledger \notin told(k - 1)
    BY <1>5
  <2> HIDE DEF s, p, places, told, T
  <2>7. f[k] = g[k]
    BY <2>2, <2>3, <2>4, <2>6
  <2>8. CASE p.ledger \in LedgersOf(s)
    <3>1. f[k] = s /\ told(k) = told(k - 1)
      BY <2>2, <2>4, <2>5, <2>8
    <3> QED
      BY <2>1, <2>4, <2>7, <3>1 DEF T
  <2>9. CASE p.ledger \notin LedgersOf(s)
    <3>1. f[k] = Append(s, p)
      BY <2>2, <2>9
    <3>2. LedgersOf(f[k]) = told(k)
      BY <2>1, <2>4, <2>5, <3>1, LedgersAppend
    <3>3. OnePerLedger(Append(s, p))
      <4>0. LedgersOf(s) = {s[i].ledger : i \in 1..Len(s)}
        BY <2>1, LedgersAppend
      <4>1. \A i \in 1..Len(s) : s[i].ledger # p.ledger
        BY <2>9, <4>0
      <4> DEFINE t == Append(s, p)
      <4>2. Len(t) = Len(s) + 1 /\ t[Len(s) + 1] = p /\ Len(s) \in Nat /\ \A i \in 1..Len(s) : t[i] = s[i]
        BY <2>1
      <4>3. \A i \in 1..Len(s) + 1 : i \in 1..Len(s) \/ i = Len(s) + 1
        BY <4>2
      <4> HIDE DEF t
      <4> QED
        BY <2>4, <4>1, <4>2, <4>3 DEF OnePerLedger, t
    <3> QED
      BY <2>1, <2>7, <3>1, <3>2, <3>3 DEF T
  <2> QED
    BY <2>8, <2>9
<1>8. n \in T
  <2> HIDE DEF T
  <2>1. 0..n \subseteq T
    BY <1>1, <1>6, <1>7, ReachesAll
  <2> QED
    BY <1>1, <2>1
<1>9. LedgersOf(ps) = told(n)
  BY <1>1 DEF LedgersOf
<1> QED
  BY <1>1, <1>2, <1>3, <1>4, <1>8, <1>9

LEMMA SameSeq ==
    ASSUME NEW A, NEW s \in Seq(A), NEW t \in Seq(A), Len(s) = Len(t), \A i \in 1..Len(t) : s[i] = t[i]
    PROVE  s = t
  OBVIOUS

LEMMA ReverseIs ==
    ASSUME NEW A, NEW s \in Seq(A)
    PROVE  /\ Reverse(s) \in Seq(A) /\ Len(Reverse(s)) = Len(s)
           /\ \A k \in 1..Len(s) : Reverse(s)[k] = s[Len(s) + 1 - k]
<1> DEFINE n == Len(s)
<1>1. n \in Nat /\ DOMAIN s = 1..n /\ \A i \in 1..n : s[i] \in A
  OBVIOUS
<1>2. Reverse(s) = [i \in 1..n |-> s[(n - i) + 1]]
  BY DEF Reverse
<1> HIDE DEF n
<1>3. \A i \in 1..n : (n - i) + 1 \in 1..n /\ (n - i) + 1 = n + 1 - i
  BY <1>1
<1>4. \A i \in 1..n : s[(n - i) + 1] \in A
  BY <1>1, <1>3
<1>5. Reverse(s) \in Seq(A) /\ Len(Reverse(s)) = n
  BY <1>1, <1>2, <1>4
<1>6. \A k \in 1..n : Reverse(s)[k] = s[n + 1 - k]
  <2> SUFFICES ASSUME NEW k \in 1..n PROVE Reverse(s)[k] = s[n + 1 - k]
    OBVIOUS
  <2>1. Reverse(s)[k] = s[(n - k) + 1]
    BY <1>2
  <2>2. (n - k) + 1 = n + 1 - k
    BY <1>3
  <2> QED
    BY <2>1, <2>2
<1> QED
  BY <1>5, <1>6 DEF n

JoinsUp(s, t, n, S) ==
    /\ s \o t \in Seq(S) /\ Len(s \o t) = Len(s) + n
    /\ \A i \in 1..Len(s) : (s \o t)[i] = s[i]
    /\ \A i \in 1..n : (s \o t)[Len(s) + i] = t[i]

LEMMA JoinedUp ==
    ASSUME NEW S, NEW s \in Seq(S), NEW n \in Nat, NEW t \in [1..n -> S] PROVE JoinsUp(s, t, n, S)
  BY Joined DEF JoinsUp

MovesOver(s, t, e) == Append(s, e) \o Reverse(t) = s \o Reverse(Append(t, e))

LEMMA ReverseMoves ==
    ASSUME NEW A, NEW s \in Seq(A), NEW t \in Seq(A), NEW e \in A
    PROVE  MovesOver(s, t, e)
<1> DEFINE m == Len(s)
           n == Len(t)
           r == Reverse(t)
           te == Append(t, e)
           x == Reverse(te)
           u == Append(s, e) \o r
           v == s \o x
<1>1. te \in Seq(A) /\ Len(te) = n + 1 /\ te[n + 1] = e /\ \A i \in 1..n : te[i] = t[i]
  OBVIOUS
<1>2. m \in Nat /\ n \in Nat
  OBVIOUS
<1>3. r \in Seq(A) /\ Len(r) = n /\ \A k \in 1..n : r[k] = t[n + 1 - k]
  BY ReverseIs
<1>4. x \in Seq(A) /\ Len(x) = n + 1 /\ \A k \in 1..n + 1 : x[k] = te[n + 1 + 1 - k]
  <2> HIDE DEF te, n
  <2> QED
    BY <1>1, ReverseIs
<1> HIDE DEF r, te, x
<1>5. /\ u \in Seq(A) /\ Len(u) = m + 1 + n /\ u[m + 1] = e
      /\ \A i \in 1..m : u[i] = s[i]
      /\ \A i \in 1..n : u[m + 1 + i] = r[i]
  <2> DEFINE w == Append(s, e)
  <2>1. w \in Seq(A) /\ Len(w) = m + 1 /\ w[m + 1] = e /\ \A i \in 1..m : w[i] = s[i]
    OBVIOUS
  <2>2. r \in [1..n -> A]
    BY <1>3
  <2> HIDE DEF n, m, w
  <2>3. /\ w \o r \in Seq(A) /\ Len(w \o r) = Len(w) + n
        /\ \A i \in 1..Len(w) : (w \o r)[i] = w[i]
        /\ \A i \in 1..n : (w \o r)[Len(w) + i] = r[i]
    <3>1. JoinsUp(w, r, n, A)
      BY <1>2, <2>1, <2>2, JoinedUp
    <3> QED
      BY <3>1, Zenon DEF JoinsUp
  <2>4. m + 1 \in 1..m + 1 /\ \A i \in 1..m : i \in 1..m + 1
    BY <1>2
  <2>5. u = w \o r
    BY Zenon DEF w
  <2> HIDE DEF u
  <2> QED
    BY <2>1, <2>3, <2>4, <2>5, Zenon
<1>6. /\ v \in Seq(A) /\ Len(v) = m + 1 + n
      /\ \A i \in 1..m : v[i] = s[i]
      /\ \A i \in 1..n + 1 : v[m + i] = x[i]
  <2>1. PICK l \in Nat : l = n + 1
    OBVIOUS
  <2>2. /\ v \in Seq(A) /\ Len(v) = m + l
        /\ \A i \in 1..m : v[i] = s[i]
        /\ \A i \in 1..l : v[m + i] = x[i]
    <3>1. x \in [1..l -> A]
      BY <1>4, <2>1
    <3> HIDE DEF v
    <3> QED
      BY <3>1, Joined DEF v
  <2> HIDE DEF v, n, m
  <2> QED
    BY <1>2, <2>1, <2>2
<1> HIDE DEF m, n, u, v
<1>7. v[m + 1] = e
  <2>1. 1 \in 1..n + 1 /\ n + 1 + 1 - 1 = n + 1
    BY <1>2
  <2> QED
    BY <1>1, <1>4, <1>6, <2>1
<1>8. ASSUME NEW i \in 1..n PROVE v[m + 1 + i] = u[m + 1 + i]
  <2>1. i + 1 \in 1..n + 1 /\ m + (i + 1) = m + 1 + i /\ n + 1 + 1 - (i + 1) = n + 1 - i /\ n + 1 - i \in 1..n
    BY <1>2
  <2>2. v[m + 1 + i] = x[i + 1]
    BY <1>6, <2>1
  <2>3. x[i + 1] = te[n + 1 - i]
    BY <1>4, <2>1
  <2>4. te[n + 1 - i] = t[n + 1 - i]
    BY <1>1, <2>1
  <2> QED
    BY <1>3, <1>5, <2>2, <2>3, <2>4
<1>9. ASSUME NEW k \in 1..m + 1 + n PROVE u[k] = v[k]
  <2>1. CASE k \in 1..m
    BY <1>5, <1>6, <2>1
  <2>2. CASE k = m + 1
    BY <1>5, <1>7, <2>2
  <2>3. CASE k \notin 1..m /\ k # m + 1
    <3>1. k - (m + 1) \in 1..n /\ m + 1 + (k - (m + 1)) = k
      BY <1>2, <2>3
    <3> QED
      BY <1>8, <3>1
  <2> QED
    BY <2>1, <2>2, <2>3
<1>10. u = v
  BY <1>5, <1>6, <1>9
<1> QED
  BY <1>10, Zenon DEF MovesOver, u, v, r, x, te

(* Selecting backwards selects the same. *)
LEMMA SelectedBackwards ==
    ASSUME NEW A, NEW seq \in Seq(A), NEW P, NEW Q,
           \A k \in 1..Len(seq) : k \in Q <=> Len(seq) + 1 - k \in P
    PROVE  Reverse(Selected(Reverse(seq), Q)) = Selected(seq, P)
<1> DEFINE n == Len(seq)
           back == Reverse(seq)
<1>1. n \in Nat
  OBVIOUS
<1>2. back \in Seq(A) /\ Len(back) = n /\ \A k \in 1..n : back[k] = seq[n + 1 - k]
  BY ReverseIs
<1>3. PICK g \in [0..n -> Seq(A)] : Selects(g, seq, P) /\ Selected(seq, P) = g[n]
  BY SelectedFolds
<1>4. PICK f \in [0..n -> Seq(A)] : Selects(f, back, Q) /\ Selected(back, Q) = f[n]
  <2> HIDE DEF back, n
  <2>0. back \in Seq(A)
    BY <1>2
  <2>1. \E f \in [0..Len(back) -> Seq(A)] : Selects(f, back, Q) /\ Selected(back, Q) = f[Len(back)]
    BY <2>0, SelectedFolds
  <2> QED
    BY <1>2, <2>1
<1> DEFINE T == {k \in 0..n : g[n - k] \o Reverse(f[k]) = g[n]}
<1>5. 0 \in T
  <2>1. f[0] = <<>> /\ n - 0 = n /\ n \in 0..n /\ 0 \in 0..n
    BY <1>1, <1>4 DEF Selects
  <2>2. Reverse(<<>>) = <<>>
    BY DEF Reverse
  <2>3. g[n] \in Seq(A)
    BY <2>1
  <2>4. g[n] \o <<>> = g[n]
    BY <2>3
  <2> HIDE DEF n
  <2> QED
    BY <2>1, <2>2, <2>4
<1>6. ASSUME NEW k \in 1..n, k - 1 \in T PROVE k \in T
  <2> DEFINE j == n + 1 - k
             e == seq[j]
  <2>1. j \in 1..n /\ j - 1 = n - k /\ n - k \in 0..n /\ j = n - (k - 1) /\ k \in 0..n /\ k - 1 \in 0..n /\ j \in 0..n
    BY <1>1
  <2>2. e \in A
    BY <2>1
  <2>3. g[j] \o Reverse(f[k - 1]) = g[n]
    BY <1>6, <2>1
  <2>4. g[j] = IF j \in P THEN Append(g[n - k], e) ELSE g[n - k]
    <3> HIDE DEF n, j
    <3>1. g[j] = IF j \in P THEN Append(g[j - 1], seq[j]) ELSE g[j - 1]
      BY <1>3, <2>1 DEF Selects, n
    <3> QED
      BY <2>1, <3>1
  <2>5. f[k] = IF j \in P THEN Append(f[k - 1], e) ELSE f[k - 1]
    <3>1. f[k] = IF k \in Q THEN Append(f[k - 1], back[k]) ELSE f[k - 1]
      BY <1>2, <1>4 DEF Selects
    <3>2. k \in Q <=> j \in P
      OBVIOUS
    <3>3. back[k] = e
      BY <1>2
    <3> QED
      BY <3>1, <3>2, <3>3
  <2>6. g[n - k] \in Seq(A) /\ f[k - 1] \in Seq(A)
    BY <2>1
  <2> HIDE DEF n, j, e, back
  <2>7. g[n - k] \o Reverse(f[k]) = g[n]
    <3>1. CASE j \in P
      <4>1. Append(g[n - k], e) \o Reverse(f[k - 1]) = g[n - k] \o Reverse(Append(f[k - 1], e))
        <5>1. PICK s \in Seq(A), t \in Seq(A) : s = g[n - k] /\ t = f[k - 1]
          BY <2>6
        <5>2. MovesOver(s, t, e)
          BY <2>2, ReverseMoves
        <5>3. Append(s, e) \o Reverse(t) = s \o Reverse(Append(t, e))
          BY <5>2, Zenon DEF MovesOver
        <5> QED
          BY <5>1, <5>3, Zenon
      <4> QED
        BY <2>3, <2>4, <2>5, <3>1, <4>1
    <3>2. CASE j \notin P
      BY <2>3, <2>4, <2>5, <3>2
    <3> QED
      BY <3>1, <3>2
  <2> QED
    BY <2>1, <2>7
<1>7. n \in T
  <2> HIDE DEF T
  <2>1. 0..n \subseteq T
    BY <1>1, <1>5, <1>6, ReachesAll
  <2> QED
    BY <1>1, <2>1
<1>8. g[0] = <<>> /\ n - n = 0
  BY <1>1, <1>3 DEF Selects
<1>9. Reverse(f[n]) \in Seq(A)
  <2>1. f[n] \in Seq(A)
    BY <1>1
  <2> QED
    BY <2>1, ReverseIs
<1> HIDE DEF n, back
<1>10. <<>> \o Reverse(f[n]) = g[n]
  BY <1>7, <1>8
<1>11. Reverse(f[n]) = g[n]
  BY <1>9, <1>10
<1> QED
  BY <1>3, <1>4, <1>11 DEF back

(* What removing duplicates from the end keeps is the last point of every ledger. *)
LEMMA KeptLastIs ==
    ASSUME NEW ps \in Seq(FeePoint)
    PROVE  RemoveDuplicatesKeepLast(ps) = Lasts(ps) /\ RemoveDuplicatesKeepLast(ps) \in Seq(FeePoint)
<1> DEFINE n == Len(ps)
           back == Reverse(ps)
           P == {i \in DOMAIN ps : \A j \in (i + 1)..Len(ps) : ps[j].ledger # ps[i].ledger}
           Q == {i \in DOMAIN back : \A j \in 1..(i - 1) : back[j].ledger # back[i].ledger}
<1>1. n \in Nat /\ DOMAIN ps = 1..n
  OBVIOUS
<1>2. back \in Seq(FeePoint) /\ Len(back) = n /\ \A k \in 1..n : back[k] = ps[n + 1 - k]
  BY ReverseIs
<1>3. DOMAIN back = 1..n
  <2> HIDE DEF back, n
  <2> QED
    BY <1>2
<1>4. ASSUME NEW k \in 1..n PROVE k \in Q <=> n + 1 - k \in P
  <2> DEFINE i == n + 1 - k
  <2>1. i \in 1..n /\ back[k] = ps[i]
    <3> HIDE DEF back, P, Q
    <3> QED
      BY <1>1, <1>2
  <2>2. k \in Q <=> \A j \in 1..(k - 1) : back[j].ledger # ps[i].ledger
    BY <1>3, <2>1
  <2>3. i \in P <=> \A j \in (i + 1)..n : ps[j].ledger # ps[i].ledger
    BY <1>1, <2>1
  <2> HIDE DEF back, P, Q
  <2>4. \A j \in 1..(k - 1) : n + 1 - j \in (i + 1)..n /\ back[j] = ps[n + 1 - j]
    BY <1>1, <1>2
  <2>5. \A j \in (i + 1)..n : n + 1 - j \in 1..(k - 1) /\ back[n + 1 - j] = ps[j]
    <3> SUFFICES ASSUME NEW j \in (i + 1)..n PROVE n + 1 - j \in 1..(k - 1) /\ back[n + 1 - j] = ps[j]
      OBVIOUS
    <3>1. n + 1 - j \in 1..n /\ n + 1 - j \in 1..(k - 1) /\ n + 1 - (n + 1 - j) = j
      BY <1>1
    <3> HIDE DEF n
    <3> QED
      BY <1>2, <3>1
  <2> HIDE DEF n, i
  <2> QED
    BY <2>2, <2>3, <2>4, <2>5 DEF i
<1>5. RemoveDuplicates(back) = Selected(back, Q)
  <2> HIDE DEF n
  <2>1. RemoveDuplicates(back) = Firsts(back)
    <3> HIDE DEF back
    <3> QED
      BY <1>2, KeptIs
  <2> QED
    BY <2>1 DEF Firsts
<1>6. Reverse(Selected(back, Q)) = Selected(ps, P)
  <2> HIDE DEF P, Q
  <2> QED
    BY <1>4, SelectedBackwards
<1>7. Lasts(ps) = Selected(ps, P)
  BY DEF Lasts
<1>8. RemoveDuplicatesKeepLast(ps) = Reverse(RemoveDuplicates(back))
  BY DEF RemoveDuplicatesKeepLast
<1> HIDE DEF n, back, P, Q
<1>9. Selected(ps, P) \in Seq(FeePoint)
  BY SelectedIs
<1> QED
  BY <1>5, <1>6, <1>7, <1>8, <1>9

(* f fills the gaps, point after point. *)
Fills(f, ps) == f[0] = <<>> /\ \A k \in 1..Len(ps) : f[k] = (IF k = 1 THEN <<ps[1]>> ELSE Append(f[k - 1] \o Interpolated(ps[k - 1], ps[k]), ps[k]))

LEMMA FilledFolds ==
    ASSUME NEW ps \in Seq(FeePoint)
    PROVE  \E f \in [0..Len(ps) -> Seq(FeePoint)] : Fills(f, ps) /\ FillGaps(ps) = f[Len(ps)]
<1> DEFINE n == Len(ps)
           Z == Seq(FeePoint)
           step == [k \in 1..n |-> [acc \in Z |-> (IF k = 1 THEN <<ps[1]>> ELSE Append(acc \o Interpolated(ps[k - 1], ps[k]), ps[k]))]]
           upTo == CHOOSE f : f = [k \in 0..n |-> IF k = 0 THEN <<>> ELSE (IF k = 1 THEN <<ps[1]>> ELSE Append(f[k - 1] \o Interpolated(ps[k - 1], ps[k]), ps[k]))]
<1>1. n \in Nat
  OBVIOUS
<1>2. ASSUME NEW k \in 1..n, NEW acc \in Z PROVE (IF k = 1 THEN <<ps[1]>> ELSE Append(acc \o Interpolated(ps[k - 1], ps[k]), ps[k])) \in Z
  <2>1. CASE k = 1
    <3>1. ps[1] \in FeePoint
      BY <2>1
    <3> QED
      BY <2>1, <3>1
  <2>2. CASE k # 1
    <3>1. k - 1 \in 1..n
      BY <1>1, <2>2
    <3>2. ps[k - 1] \in FeePoint /\ ps[k] \in FeePoint
      BY <3>1
    <3>3. PICK between \in Seq(FeePoint) : between = Interpolated(ps[k - 1], ps[k])
      BY <3>2, InterpolatedIs
    <3>4. acc \o between \in Seq(FeePoint)
      OBVIOUS
    <3>5. Append(acc \o between, ps[k]) \in Seq(FeePoint)
      BY <3>2, <3>4
    <3> QED
      BY <2>2, <3>3, <3>5
  <2> QED
    BY <2>1, <2>2
<1>3. <<>> \in Z
  OBVIOUS
<1>4. step \in [1..n -> [Z -> Z]]
  <2> HIDE DEF n, Z
  <2> QED
    BY <1>2
<1>5. PICK f \in [0..n -> Z] : IsFold(f, n, <<>>, step)
  <2> HIDE DEF n, step, upTo, Z
  <2> QED
    BY <1>1, <1>3, <1>4, FoldExists
<1>6. \A k \in 1..n : f[k - 1] \in Z /\ f[k] \in Z
  <2> HIDE DEF n, step, Z
  <2> QED
    BY <1>1
<1>7. f[0] = <<>> /\ \A k \in 1..n : f[k] = (IF k = 1 THEN <<ps[1]>> ELSE Append(f[k - 1] \o Interpolated(ps[k - 1], ps[k]), ps[k]))
  <2>1. ASSUME NEW k \in 1..n PROVE f[k] = (IF k = 1 THEN <<ps[1]>> ELSE Append(f[k - 1] \o Interpolated(ps[k - 1], ps[k]), ps[k]))
    <3> HIDE DEF n, Z
    <3>1. step[k][f[k - 1]] = (IF k = 1 THEN <<ps[1]>> ELSE Append(f[k - 1] \o Interpolated(ps[k - 1], ps[k]), ps[k]))
      BY <1>6
    <3> HIDE DEF step
    <3>2. f[k] = step[k][f[k - 1]]
      BY <1>5 DEF IsFold
    <3> QED
      BY <3>1, <3>2
  <2> HIDE DEF step, Z
  <2> QED
    BY <1>5, <2>1 DEF IsFold
<1>8. f = [k \in 0..n |-> IF k = 0 THEN <<>> ELSE (IF k = 1 THEN <<ps[1]>> ELSE Append(f[k - 1] \o Interpolated(ps[k - 1], ps[k]), ps[k]))]
  <2> HIDE DEF n, step, upTo, Z
  <2>1. f = [k \in 0..n |-> f[k]]
    OBVIOUS
  <2>2. \A k \in 0..n : k = 0 \/ k \in 1..n
    BY <1>1
  <2> QED
    BY <1>7, <2>1, <2>2, Zenon
<1>9. upTo = [k \in 0..n |-> IF k = 0 THEN <<>> ELSE (IF k = 1 THEN <<ps[1]>> ELSE Append(upTo[k - 1] \o Interpolated(ps[k - 1], ps[k]), ps[k]))]
  BY <1>8
<1>10. FillGaps(ps) = upTo[n]
  BY DEF FillGaps
<1> HIDE DEF n, step, upTo, Z
<1>11. upTo[0] = <<>> /\ \A k \in 1..n : upTo[k] = (IF k = 1 THEN <<ps[1]>> ELSE Append(upTo[k - 1] \o Interpolated(ps[k - 1], ps[k]), ps[k]))
  <2>1. 0 \in 0..n /\ \A k \in 1..n : k \in 0..n /\ k # 0
    BY <1>1
  <2> QED
    BY <1>9, <2>1, Zenon
<1>12. \A k \in 0..n : upTo[k] = f[k]
  <2> DEFINE same == {k \in 0..n : upTo[k] = f[k]}
  <2>1. 0 \in same /\ \A k \in 1..n : k - 1 \in same => k \in same
    BY <1>1, <1>7, <1>11
  <2>2. 0..n \subseteq same
    <3> HIDE DEF same
    <3> QED
      BY <1>1, <2>1, ReachesAll
  <2> QED
    BY <2>2
<1>13. FillGaps(ps) = f[n]
  BY <1>1, <1>10, <1>12
<1>14. Fills(f, ps)
  BY <1>7 DEF Fills, n
<1> QED
  BY <1>13, <1>14 DEF n, Z

(* What is said of a point: a kind of issue, and its ledger. *)
IssueKinds == {"zero fee", "duplicate", "out of order", "gap", "outlier", "negative time"}
IssueRecord == [kind : IssueKinds, ledger : Nat]

LEMMA IssuesFit ==
    ASSUME NEW ps \in Seq(FeePoint), NEW i \in 1..Len(ps)
    PROVE  IssuesAt(ps, i) \in Seq(IssueRecord)
<1> DEFINE If(holds, kind) == IF holds THEN Issue(kind, ps[i]) ELSE <<>>
<1>1. ps[i].ledger \in Nat
  <2>1. ps[i] \in FeePoint
    OBVIOUS
  <2> QED
    BY <2>1 DEF FeePoint
<1>0. <<>> \in Seq(IssueRecord)
  OBVIOUS
<1>2. \A kind \in IssueKinds : Issue(kind, ps[i]) \in Seq(IssueRecord)
  <2> SUFFICES ASSUME NEW kind \in IssueKinds PROVE Issue(kind, ps[i]) \in Seq(IssueRecord)
    OBVIOUS
  <2>1. [kind |-> kind, ledger |-> ps[i].ledger] \in IssueRecord
    BY <1>1 DEF IssueRecord
  <2> QED
    BY <2>1 DEF Issue
<1>3. PICK a \in Seq(IssueRecord) : a = If(ps[i].fee = 0, "zero fee")
  <2>1. Issue("zero fee", ps[i]) \in Seq(IssueRecord)
    BY <1>2 DEF IssueKinds
  <2>2. If(ps[i].fee = 0, "zero fee") \in Seq(IssueRecord)
    BY <1>0, <2>1, Zenon
  <2> QED
    BY <2>2
<1>4. PICK b \in Seq(IssueRecord) : b = If(\E j \in 1..(i - 1) : ps[j].ledger = ps[i].ledger, "duplicate")
  <2>1. Issue("duplicate", ps[i]) \in Seq(IssueRecord)
    BY <1>2 DEF IssueKinds
  <2>2. If(\E j \in 1..(i - 1) : ps[j].ledger = ps[i].ledger, "duplicate") \in Seq(IssueRecord)
    BY <1>0, <2>1, Zenon
  <2> QED
    BY <2>2
<1>5. PICK c \in Seq(IssueRecord) : c = If(i > 1 /\ ps[i].at < ps[i - 1].at, "out of order")
  <2>1. Issue("out of order", ps[i]) \in Seq(IssueRecord)
    BY <1>2 DEF IssueKinds
  <2>2. If(i > 1 /\ ps[i].at < ps[i - 1].at, "out of order") \in Seq(IssueRecord)
    BY <1>0, <2>1, Zenon
  <2> QED
    BY <2>2
<1>6. PICK d \in Seq(IssueRecord) : d = If(i > 1 /\ ps[i].ledger > ps[i - 1].ledger + 1, "gap")
  <2>1. Issue("gap", ps[i]) \in Seq(IssueRecord)
    BY <1>2 DEF IssueKinds
  <2>2. If(i > 1 /\ ps[i].ledger > ps[i - 1].ledger + 1, "gap") \in Seq(IssueRecord)
    BY <1>0, <2>1, Zenon
  <2> QED
    BY <2>2
<1>7. PICK e \in Seq(IssueRecord) : e = If(IsOutlier(ps, i), "outlier")
  <2>1. Issue("outlier", ps[i]) \in Seq(IssueRecord)
    BY <1>2 DEF IssueKinds
  <2>2. If(IsOutlier(ps, i), "outlier") \in Seq(IssueRecord)
    BY <1>0, <2>1, Zenon
  <2> QED
    BY <2>2
<1>8. PICK f \in Seq(IssueRecord) : f = If(ps[i].at > Far, "negative time")
  <2>1. Issue("negative time", ps[i]) \in Seq(IssueRecord)
    BY <1>2 DEF IssueKinds
  <2>2. If(ps[i].at > Far, "negative time") \in Seq(IssueRecord)
    BY <1>0, <2>1, Zenon
  <2> QED
    BY <2>2
<1>9. IssuesAt(ps, i) = a \o b \o c \o d \o e \o f
  BY <1>3, <1>4, <1>5, <1>6, <1>7, <1>8 DEF IssuesAt
<1>10. a \o b \o c \o d \o e \o f \in Seq(IssueRecord)
  OBVIOUS
<1> QED
  BY <1>9, <1>10

(* f finds the issues, point after point. *)
Finds(f, ps) == f[0] = <<>> /\ \A k \in 1..Len(ps) : f[k] = f[k - 1] \o IssuesAt(ps, k)

LEMMA DetectFolds ==
    ASSUME NEW ps \in Seq(FeePoint)
    PROVE  \E f \in [0..Len(ps) -> Seq(IssueRecord)] : Finds(f, ps) /\ Detect(ps) = f[Len(ps)]
<1> DEFINE n == Len(ps)
           Z == Seq(IssueRecord)
           step == [k \in 1..n |-> [acc \in Z |-> acc \o IssuesAt(ps, k)]]
           upTo == CHOOSE f : f = [k \in 0..n |-> IF k = 0 THEN <<>> ELSE f[k - 1] \o IssuesAt(ps, k)]
<1>1. n \in Nat
  OBVIOUS
<1>2. ASSUME NEW k \in 1..n, NEW acc \in Z PROVE acc \o IssuesAt(ps, k) \in Z
  <2>1. PICK found \in Seq(IssueRecord) : found = IssuesAt(ps, k)
    BY IssuesFit
  <2>2. acc \o found \in Seq(IssueRecord)
    OBVIOUS
  <2> QED
    BY <2>1, <2>2
<1>3. <<>> \in Z
  OBVIOUS
<1>4. step \in [1..n -> [Z -> Z]]
  <2> HIDE DEF n, Z
  <2> QED
    BY <1>2
<1>5. PICK f \in [0..n -> Z] : IsFold(f, n, <<>>, step)
  <2> HIDE DEF n, step, upTo, Z
  <2> QED
    BY <1>1, <1>3, <1>4, FoldExists
<1>6. \A k \in 1..n : f[k - 1] \in Z /\ f[k] \in Z
  <2> HIDE DEF n, step, Z
  <2> QED
    BY <1>1
<1>7. f[0] = <<>> /\ \A k \in 1..n : f[k] = f[k - 1] \o IssuesAt(ps, k)
  <2>1. ASSUME NEW k \in 1..n PROVE f[k] = f[k - 1] \o IssuesAt(ps, k)
    <3> HIDE DEF n, Z
    <3>1. step[k][f[k - 1]] = f[k - 1] \o IssuesAt(ps, k)
      BY <1>6
    <3> HIDE DEF step
    <3>2. f[k] = step[k][f[k - 1]]
      BY <1>5 DEF IsFold
    <3> QED
      BY <3>1, <3>2
  <2> HIDE DEF step, Z
  <2> QED
    BY <1>5, <2>1 DEF IsFold
<1>8. f = [k \in 0..n |-> IF k = 0 THEN <<>> ELSE f[k - 1] \o IssuesAt(ps, k)]
  <2> HIDE DEF n, step, upTo, Z
  <2>1. f = [k \in 0..n |-> f[k]]
    OBVIOUS
  <2>2. \A k \in 0..n : k = 0 \/ k \in 1..n
    BY <1>1
  <2> QED
    BY <1>7, <2>1, <2>2, Zenon
<1>9. upTo = [k \in 0..n |-> IF k = 0 THEN <<>> ELSE upTo[k - 1] \o IssuesAt(ps, k)]
  BY <1>8
<1>10. Detect(ps) = upTo[n]
  BY DEF Detect
<1> HIDE DEF n, step, upTo, Z
<1>11. upTo[0] = <<>> /\ \A k \in 1..n : upTo[k] = upTo[k - 1] \o IssuesAt(ps, k)
  <2>1. 0 \in 0..n /\ \A k \in 1..n : k \in 0..n /\ k # 0
    BY <1>1
  <2> QED
    BY <1>9, <2>1, Zenon
<1>12. \A k \in 0..n : upTo[k] = f[k]
  <2> DEFINE same == {k \in 0..n : upTo[k] = f[k]}
  <2>1. 0 \in same /\ \A k \in 1..n : k - 1 \in same => k \in same
    <3>1. 0 \in 0..n /\ \A k \in 1..n : k \in 0..n
      BY <1>1
    <3> QED
      BY <1>7, <1>11, <3>1, Zenon
  <2>2. 0..n \subseteq same
    <3> HIDE DEF same
    <3> QED
      BY <1>1, <2>1, ReachesAll
  <2> QED
    BY <2>2
<1>13. Detect(ps) = f[n]
  BY <1>1, <1>10, <1>12
<1>14. Finds(f, ps)
  BY <1>7 DEF Finds, n
<1> QED
  BY <1>13, <1>14 DEF n, Z

LEMMA DetectIs == ASSUME NEW ps \in Seq(FeePoint) PROVE Detect(ps) \in Seq(IssueRecord)
<1>1. PICK f \in [0..Len(ps) -> Seq(IssueRecord)] : Detect(ps) = f[Len(ps)]
  BY DetectFolds
<1> QED
  BY <1>1

LEMMA AddedIs ==
    ASSUME NEW numbers \in Seq(Nat) PROVE Added(numbers) \in Nat
<1> DEFINE n == Len(numbers)
<1>0. numbers \in Seq(Int) /\ n \in Nat
  OBVIOUS
<1>1. PICK f \in [0..n -> Int] : AddsTo(f, numbers) /\ Added(numbers) = f[n]
  BY <1>0, AddedFolds
<1> DEFINE T == {k \in 0..n : f[k] \in Nat}
<1>2. 0 \in T
  BY <1>0, <1>1 DEF AddsTo
<1>3. ASSUME NEW k \in 1..n, k - 1 \in T PROVE k \in T
  <2>1. f[k] = f[k - 1] + numbers[k] /\ numbers[k] \in Nat
    BY <1>1 DEF AddsTo
  <2> QED
    BY <1>3, <2>1
<1>4. 0..n \subseteq T
  <2> HIDE DEF T, n
  <2> QED
    BY <1>0, <1>2, <1>3, ReachesAll
<1> QED
  BY <1>0, <1>1, <1>4

LEMMA FeeSumIs == ASSUME NEW ps \in Seq(FeePoint) PROVE FeeSum(ps) \in Nat
<1>1. \A i \in DOMAIN ps : ps[i].fee \in Nat
  <2> SUFFICES ASSUME NEW i \in DOMAIN ps PROVE ps[i].fee \in Nat
    OBVIOUS
  <2>1. ps[i] \in FeePoint
    OBVIOUS
  <2> QED
    BY <2>1 DEF FeePoint
<1>2. DOMAIN ps = 1..Len(ps) /\ Len(ps) \in Nat
  OBVIOUS
<1>3. FeeSeq(ps) \in Seq(Nat)
  BY <1>1, <1>2 DEF FeeSeq
<1> QED
  BY <1>3, AddedIs DEF FeeSum

LEMMA QuotientIsNat == ASSUME NEW a \in Nat, NEW c \in Nat \ {0} PROVE a \div c \in Nat
  OBVIOUS

LEMMA LesserOf == ASSUME NEW a \in Int, NEW b \in Int PROVE Min({a, b}) = IF a <= b THEN a ELSE b
<1> DEFINE m == IF a <= b THEN a ELSE b
<1>1. m \in {a, b} /\ \A y \in {a, b} : m <= y
  OBVIOUS
<1>2. \A x \in {a, b} : (\A y \in {a, b} : x <= y) => x = m
  OBVIOUS
<1> QED
  BY <1>1, <1>2 DEF Min

LEMMA ReplacementFits ==
    ASSUME NEW ps \in Seq(FeePoint), NEW ledger PROVE Replacement(ps, ledger) \in Nat
<1>1. PICK neighbors \in Seq(FeePoint) : neighbors = Selected(ps, {i \in DOMAIN ps : ps[i].ledger # ledger /\ ps[i].fee > 0})
  BY SelectedIs
<1>2. Replacement(ps, ledger) = IF neighbors = <<>> THEN DefaultFee ELSE FeeSum(neighbors) \div Len(neighbors)
  BY <1>1 DEF Replacement
<1>3. neighbors # <<>> => Len(neighbors) \in Nat \ {0}
  OBVIOUS
<1>4. FeeSum(neighbors) \in Nat
  BY FeeSumIs
<1>5. neighbors # <<>> => FeeSum(neighbors) \div Len(neighbors) \in Nat
  BY <1>3, <1>4, QuotientIsNat
<1> QED
  BY <1>2, <1>5, DataQualityAssumption

(* Repair may change the fee of a point with an issue at its ledger. *)
LEMMA RepairPointIs ==
    ASSUME NEW ps \in Seq(FeePoint), ps # <<>>, NEW issue \in IssueRecord, NEW p \in FeePoint
    PROVE  /\ RepairPoint(ps, issue, p) \in FeePoint
           /\ \E fee \in Nat : /\ RepairPoint(ps, issue, p) = [p EXCEPT !.fee = fee]
                               /\ fee = p.fee \/ issue.ledger = p.ledger
<1>1. p.fee \in Nat /\ p.ledger \in Nat /\ p.at \in Nat /\ p.spike \in BOOLEAN
  BY DEF FeePoint
<1>2. p = [p EXCEPT !.fee = p.fee]
  BY DEF FeePoint
<1>3. \A fee \in Nat : [p EXCEPT !.fee = fee] \in FeePoint
  BY DEF FeePoint
<1>4. Replacement(ps, issue.ledger) \in Nat
  BY ReplacementFits
<1>5. Min({p.fee, (2 * FeeSum(ps)) \div Len(ps)}) \in Nat
  <2>1. Len(ps) \in Nat \ {0} /\ 2 * FeeSum(ps) \in Nat
    BY FeeSumIs
  <2>2. PICK q \in Nat : q = (2 * FeeSum(ps)) \div Len(ps)
    BY <2>1, QuotientIsNat
  <2>3. Min({p.fee, q}) \in Nat
    BY <1>1, LesserOf
  <2> QED
    BY <2>2, <2>3
<1>6. \E fee \in Nat : /\ RepairPoint(ps, issue, p) = [p EXCEPT !.fee = fee]
                       /\ fee = p.fee \/ issue.ledger = p.ledger
  <2>1. CASE p.ledger # issue.ledger
    BY <1>1, <1>2, <2>1 DEF RepairPoint
  <2>2. CASE p.ledger = issue.ledger /\ issue.kind = "zero fee"
    <3>1. RepairPoint(ps, issue, p) = [p EXCEPT !.fee = Replacement(ps, issue.ledger)]
      BY <2>2 DEF RepairPoint
    <3> QED
      BY <1>4, <2>2, <3>1
  <2>3. CASE p.ledger = issue.ledger /\ issue.kind = "negative time"
    <3>1. RepairPoint(ps, issue, p) = [p EXCEPT !.fee = 0]
      BY <2>3 DEF RepairPoint
    <3> QED
      BY <2>3, <3>1
  <2>4. CASE p.ledger = issue.ledger /\ issue.kind = "outlier"
    <3>1. RepairPoint(ps, issue, p) = [p EXCEPT !.fee = Min({p.fee, (2 * FeeSum(ps)) \div Len(ps)})]
      BY <2>4 DEF RepairPoint
    <3> QED
      BY <1>5, <2>4, <3>1
  <2>5. CASE p.ledger = issue.ledger /\ issue.kind \notin {"zero fee", "negative time", "outlier"}
    <3>1. RepairPoint(ps, issue, p) = p
      BY <2>5 DEF RepairPoint
    <3> QED
      BY <1>1, <1>2, <3>1
  <2> QED
    BY <2>1, <2>2, <2>3, <2>4, <2>5
<1> QED
  BY <1>3, <1>6

(* Points of ledgers of their own are ordered by time. *)
LEMMA ByTimeOrders ==
    ASSUME NEW ps \in Seq(FeePoint), OnePerLedger(ps) PROVE StrictOn(ByTime(ps), Len(ps))
<1>1. DOMAIN ps = 1..Len(ps)
  OBVIOUS
<1>2. \A i \in 1..Len(ps) : ps[i].at \in Int /\ ps[i].ledger \in Int
  <2> SUFFICES ASSUME NEW i \in 1..Len(ps) PROVE ps[i].at \in Int /\ ps[i].ledger \in Int
    OBVIOUS
  <2>1. ps[i] \in FeePoint
    OBVIOUS
  <2> QED
    BY <2>1 DEF FeePoint
<1>3. \A i, j \in 1..Len(ps) : <<i, j>> \in ByTime(ps) <=>
         ps[i].at < ps[j].at \/ (ps[i].at = ps[j].at /\ ps[i].ledger < ps[j].ledger)
  BY <1>1 DEF ByTime, Earlier
<1> SUFFICES ASSUME NEW i \in 1..Len(ps), NEW j \in 1..Len(ps)
             PROVE  /\ <<i, j>> \in ByTime(ps) => <<j, i>> \notin ByTime(ps)
                    /\ i = j \/ <<i, j>> \in ByTime(ps) \/ <<j, i>> \in ByTime(ps)
                    /\ \A k \in 1..Len(ps) :
                          <<i, j>> \in ByTime(ps) /\ <<j, k>> \in ByTime(ps) => <<i, k>> \in ByTime(ps)
  BY DEF StrictOn
<1>4. <<i, j>> \in ByTime(ps) => <<j, i>> \notin ByTime(ps)
  <2>1. PICK a \in Int, b \in Int, x \in Int, y \in Int :
             a = ps[i].at /\ b = ps[j].at /\ x = ps[i].ledger /\ y = ps[j].ledger
    BY <1>2, Zenon
  <2>2. <<i, j>> \in ByTime(ps) <=> a < b \/ (a = b /\ x < y)
    BY <1>3, <2>1, Zenon
  <2>3. <<j, i>> \in ByTime(ps) <=> b < a \/ (b = a /\ y < x)
    BY <1>3, <2>1, Zenon
  <2> QED
    BY <2>2, <2>3
<1>5. i = j \/ <<i, j>> \in ByTime(ps) \/ <<j, i>> \in ByTime(ps)
  <2> SUFFICES ASSUME i # j PROVE <<i, j>> \in ByTime(ps) \/ <<j, i>> \in ByTime(ps)
    OBVIOUS
  <2>1. ps[i].ledger # ps[j].ledger
    BY DEF OnePerLedger
  <2> QED
    BY <1>2, <1>3, <2>1
<1>6. ASSUME NEW k \in 1..Len(ps), <<i, j>> \in ByTime(ps), <<j, k>> \in ByTime(ps) PROVE <<i, k>> \in ByTime(ps)
  <2>1. PICK t \in Int, u \in Int, w \in Int : t = ps[i].at /\ u = ps[j].at /\ w = ps[k].at
    BY <1>2
  <2>2. PICK a \in Int, b \in Int, c \in Int : a = ps[i].ledger /\ b = ps[j].ledger /\ c = ps[k].ledger
    BY <1>2
  <2>3. (t < u \/ (t = u /\ a < b)) /\ (u < w \/ (u = w /\ b < c))
    BY <1>3, <1>6, <2>1, <2>2
  <2>4. t < w \/ (t = w /\ a < c)
    BY <2>3
  <2> QED
    BY <1>3, <2>1, <2>2, <2>4
<1> QED
  BY <1>4, <1>5, <1>6

LEMMA KeptSome == ASSUME NEW ps \in Seq(FeePoint), NEW i \in DOMAIN RemoveDuplicates(ps) PROVE ps # <<>>
<1>1. RemoveDuplicates(ps)[i].ledger \in LedgersOf(RemoveDuplicates(ps))
  BY DEF LedgersOf
<1>2. LedgersOf(ps) # {}
  BY <1>1, KeptIs
<1> QED
  BY <1>2 DEF LedgersOf

LEMMA KeptByTime ==
    ASSUME NEW ps \in Seq(FeePoint), NEW kept \in Seq(FeePoint), kept = RemoveDuplicates(ps)
    PROVE  /\ StrictOn(ByTime(kept), Len(kept))
           /\ InOrderOf(kept, ByTime(kept)) \in [1..Len(kept) -> FeePoint]
<1>1. StrictOn(ByTime(kept), Len(kept))
  BY KeptIs, ByTimeOrders
<1>2. PICK b \in Seq(FeePoint) : b = InOrderOf(kept, ByTime(kept)) /\ Len(b) = Len(kept)
  BY <1>1, InOrderIs
<1>3. b \in [1..Len(kept) -> FeePoint]
  BY <1>2
<1> QED
  BY <1>1, <1>2, <1>3

(* f repairs what is kept, issue after issue. *)
Repairs(f, ps) == f[0] = InOrderOf(RemoveDuplicates(ps), ByTime(RemoveDuplicates(ps))) /\ \A k \in 1..Len(Detect(ps)) : f[k] = [i \in DOMAIN RemoveDuplicates(ps) |-> RepairPoint(ps, Detect(ps)[k], f[k - 1][i])]

LEMMA RepairFolds ==
    ASSUME NEW ps \in Seq(FeePoint)
    PROVE  \E f \in [0..Len(Detect(ps)) -> [DOMAIN RemoveDuplicates(ps) -> FeePoint]] : Repairs(f, ps) /\ Repaired(ps) = f[Len(Detect(ps))]
<1> DEFINE n == Len(Detect(ps))
           Z == [DOMAIN RemoveDuplicates(ps) -> FeePoint]
           step == [k \in 1..n |-> [acc \in Z |-> [i \in DOMAIN RemoveDuplicates(ps) |-> RepairPoint(ps, Detect(ps)[k], acc[i])]]]
           upTo == CHOOSE f : f = [k \in 0..n |-> IF k = 0 THEN InOrderOf(RemoveDuplicates(ps), ByTime(RemoveDuplicates(ps))) ELSE [i \in DOMAIN RemoveDuplicates(ps) |-> RepairPoint(ps, Detect(ps)[k], f[k - 1][i])]]
<1>1. n \in Nat
  BY DetectIs
<1>2. ASSUME NEW k \in 1..n, NEW acc \in Z PROVE [i \in DOMAIN RemoveDuplicates(ps) |-> RepairPoint(ps, Detect(ps)[k], acc[i])] \in Z
  <2>1. Detect(ps)[k] \in IssueRecord
    BY DetectIs
  <2> SUFFICES ASSUME NEW i \in DOMAIN RemoveDuplicates(ps)
               PROVE  RepairPoint(ps, Detect(ps)[k], acc[i]) \in FeePoint
    OBVIOUS
  <2>2. ps # <<>>
    BY KeptSome
  <2>3. PICK p \in FeePoint, issue \in IssueRecord : p = acc[i] /\ issue = Detect(ps)[k]
    BY <2>1
  <2>4. RepairPoint(ps, issue, p) \in FeePoint
    BY <2>2, RepairPointIs
  <2> QED
    BY <2>3, <2>4
<1>3. InOrderOf(RemoveDuplicates(ps), ByTime(RemoveDuplicates(ps))) \in Z
  <2>1. PICK kept \in Seq(FeePoint) : kept = RemoveDuplicates(ps)
    BY KeptIs
  <2>2. InOrderOf(kept, ByTime(kept)) \in [1..Len(kept) -> FeePoint]
    BY <2>1, KeptByTime
  <2>3. DOMAIN kept = 1..Len(kept)
    OBVIOUS
  <2> QED
    BY <2>1, <2>2, <2>3
<1>4. step \in [1..n -> [Z -> Z]]
  <2> HIDE DEF n, Z
  <2> QED
    BY <1>2
<1>5. PICK f \in [0..n -> Z] : IsFold(f, n, InOrderOf(RemoveDuplicates(ps), ByTime(RemoveDuplicates(ps))), step)
  <2> HIDE DEF n, step, upTo, Z
  <2> QED
    BY <1>1, <1>3, <1>4, FoldExists
<1>6. \A k \in 1..n : f[k - 1] \in Z /\ f[k] \in Z
  <2> HIDE DEF n, step, Z
  <2> QED
    BY <1>1
<1>7. f[0] = InOrderOf(RemoveDuplicates(ps), ByTime(RemoveDuplicates(ps))) /\ \A k \in 1..n : f[k] = [i \in DOMAIN RemoveDuplicates(ps) |-> RepairPoint(ps, Detect(ps)[k], f[k - 1][i])]
  <2>1. ASSUME NEW k \in 1..n PROVE f[k] = [i \in DOMAIN RemoveDuplicates(ps) |-> RepairPoint(ps, Detect(ps)[k], f[k - 1][i])]
    <3> HIDE DEF n, Z
    <3>1. step[k][f[k - 1]] = [i \in DOMAIN RemoveDuplicates(ps) |-> RepairPoint(ps, Detect(ps)[k], f[k - 1][i])]
      BY <1>6
    <3> HIDE DEF step
    <3>2. f[k] = step[k][f[k - 1]]
      BY <1>5 DEF IsFold
    <3> QED
      BY <3>1, <3>2
  <2> HIDE DEF step, Z
  <2> QED
    BY <1>5, <2>1 DEF IsFold
<1>8. f = [k \in 0..n |-> IF k = 0 THEN InOrderOf(RemoveDuplicates(ps), ByTime(RemoveDuplicates(ps))) ELSE [i \in DOMAIN RemoveDuplicates(ps) |-> RepairPoint(ps, Detect(ps)[k], f[k - 1][i])]]
  <2> HIDE DEF n, step, upTo, Z
  <2>1. f = [k \in 0..n |-> f[k]]
    OBVIOUS
  <2>2. \A k \in 0..n : k = 0 \/ k \in 1..n
    BY <1>1
  <2> QED
    BY <1>7, <2>1, <2>2, Zenon
<1>9. upTo = [k \in 0..n |-> IF k = 0 THEN InOrderOf(RemoveDuplicates(ps), ByTime(RemoveDuplicates(ps))) ELSE [i \in DOMAIN RemoveDuplicates(ps) |-> RepairPoint(ps, Detect(ps)[k], upTo[k - 1][i])]]
  BY <1>8
<1>10. Repaired(ps) = upTo[n]
  BY DEF Repaired
<1> HIDE DEF n, step, upTo, Z
<1>11. upTo[0] = InOrderOf(RemoveDuplicates(ps), ByTime(RemoveDuplicates(ps))) /\ \A k \in 1..n : upTo[k] = [i \in DOMAIN RemoveDuplicates(ps) |-> RepairPoint(ps, Detect(ps)[k], upTo[k - 1][i])]
  <2>1. 0 \in 0..n /\ \A k \in 1..n : k \in 0..n /\ k # 0
    BY <1>1
  <2> QED
    BY <1>9, <2>1, Zenon
<1>12. \A k \in 0..n : upTo[k] = f[k]
  <2> DEFINE same == {k \in 0..n : upTo[k] = f[k]}
  <2>1. 0 \in same /\ \A k \in 1..n : k - 1 \in same => k \in same
    <3>1. 0 \in 0..n /\ \A k \in 1..n : k \in 0..n
      BY <1>1
    <3>2. upTo[0] = f[0]
      BY <1>7, <1>11
    <3>3. ASSUME NEW k \in 1..n, upTo[k - 1] = f[k - 1] PROVE upTo[k] = f[k]
      <4>1. upTo[k] = [i \in DOMAIN RemoveDuplicates(ps) |-> RepairPoint(ps, Detect(ps)[k], upTo[k - 1][i])]
        BY <1>11
      <4>2. f[k] = [i \in DOMAIN RemoveDuplicates(ps) |-> RepairPoint(ps, Detect(ps)[k], f[k - 1][i])]
        BY <1>7
      <4> QED
        BY <3>3, <4>1, <4>2, Zenon
    <3> QED
      BY <3>1, <3>2, <3>3
  <2>2. 0..n \subseteq same
    <3> HIDE DEF same
    <3> QED
      BY <1>1, <2>1, ReachesAll
  <2> QED
    BY <2>2
<1>13. Repaired(ps) = f[n]
  BY <1>1, <1>10, <1>12
<1>14. Repairs(f, ps)
  BY <1>7 DEF Repairs, n
<1> QED
  BY <1>13, <1>14 DEF n, Z

(* What repair returns: the points kept, by time, their fees changed where there is an issue. *)
LEMMA RepairedIs ==
    ASSUME NEW ps \in Seq(FeePoint)
    PROVE  /\ Repaired(ps) \in Seq(FeePoint) /\ Len(Repaired(ps)) = Len(Firsts(ps))
           /\ \A i \in 2..Len(Repaired(ps)) : Earlier(Repaired(ps)[i - 1], Repaired(ps)[i])
           /\ \A i \in DOMAIN Repaired(ps) : \E p \in ToSet(Firsts(ps)) :
                 /\ Repaired(ps)[i] = [p EXCEPT !.fee = Repaired(ps)[i].fee]
                 /\ Repaired(ps)[i].fee = p.fee \/ \E issue \in ToSet(Detect(ps)) : issue.ledger = p.ledger
<1>1. PICK kept \in Seq(FeePoint) : kept = RemoveDuplicates(ps) /\ kept = Firsts(ps)
  BY KeptIs
<1>2. PICK m \in Nat : m = Len(kept) /\ DOMAIN kept = 1..m
  OBVIOUS
<1>3. PICK b \in [1..m -> FeePoint] : b = InOrderOf(kept, ByTime(kept))
  BY <1>1, <1>2, KeptByTime
<1>4. PICK place : Follows(place, ByTime(kept), m) /\ \A k \in 1..m : b[k] = kept[place[k]]
  <2>1. StrictOn(ByTime(kept), Len(kept))
    BY <1>1, KeptByTime
  <2>2. \E place : /\ Follows(place, ByTime(kept), Len(kept))
                   /\ \A k \in 1..Len(kept) : InOrderOf(kept, ByTime(kept))[k] = kept[place[k]]
    BY <2>1, InOrderIs
  <2> QED
    BY <1>2, <1>3, <2>2
<1>5. PICK issues \in Seq(IssueRecord) : issues = Detect(ps)
  BY DetectIs
<1>6. PICK n \in Nat : n = Len(issues)
  OBVIOUS
<1>7. PICK f \in [0..n -> [1..m -> FeePoint]] : Repairs(f, ps) /\ Repaired(ps) = f[n]
  BY <1>1, <1>2, <1>5, <1>6, RepairFolds
<1>8. f[0] = b /\ \A k \in 1..n : f[k] = [i \in 1..m |-> RepairPoint(ps, issues[k], f[k - 1][i])]
  BY <1>1, <1>2, <1>3, <1>5, <1>6, <1>7 DEF Repairs
<1> DEFINE Within(x, p) == /\ x = [p EXCEPT !.fee = x.fee]
                           /\ x.fee = p.fee \/ \E issue \in ToSet(issues) : issue.ledger = p.ledger
           T == {k \in 0..n : \A i \in 1..m : Within(f[k][i], b[i])}
<1>9. 0 \in T
  <2>1. \A p \in FeePoint : p = [p EXCEPT !.fee = p.fee]
    BY DEF FeePoint
  <2>2. \A i \in 1..m : Within(b[i], b[i])
    BY <2>1
  <2> HIDE DEF Within
  <2> QED
    BY <1>8, <2>2
<1>10. ASSUME NEW k \in 1..n, k - 1 \in T PROVE k \in T
  <2>1. k \in 0..n /\ k - 1 \in 0..n
    OBVIOUS
  <2>2. ASSUME NEW i \in 1..m PROVE Within(f[k][i], b[i])
    <3>1. PICK p \in FeePoint, x \in FeePoint, y \in FeePoint : p = b[i] /\ x = f[k - 1][i] /\ y = f[k][i]
      <4>1. f[k] \in [1..m -> FeePoint] /\ f[k - 1] \in [1..m -> FeePoint]
        BY <2>1
      <4>2. b[i] \in FeePoint /\ f[k][i] \in FeePoint /\ f[k - 1][i] \in FeePoint
        BY <4>1
      <4> QED
        BY <4>2
    <3>2. PICK issue \in IssueRecord : issue = issues[k] /\ issue \in ToSet(issues)
      <4>1. k \in DOMAIN issues /\ issues[k] \in IssueRecord
        BY <1>6
      <4> QED
        BY <4>1 DEF ToSet
    <3>3. Within(x, p)
      BY <1>10, <3>1
    <3>4. y = RepairPoint(ps, issue, x)
      BY <1>8, <3>1, <3>2
    <3>5. ps # <<>>
      BY <1>1, <1>2, KeptSome
    <3>6. PICK fee \in Nat : y = [x EXCEPT !.fee = fee] /\ (fee = x.fee \/ issue.ledger = x.ledger)
      <4>1. \E fee \in Nat : /\ RepairPoint(ps, issue, x) = [x EXCEPT !.fee = fee]
                             /\ fee = x.fee \/ issue.ledger = x.ledger
        BY <3>5, RepairPointIs
      <4> QED
        BY <3>4, <4>1
    <3>7. y.fee = fee /\ x.ledger = p.ledger /\ y = [p EXCEPT !.fee = fee]
      BY <3>3, <3>6 DEF FeePoint
    <3>8. y.fee = p.fee \/ \E z \in ToSet(issues) : z.ledger = p.ledger
      BY <3>2, <3>3, <3>6, <3>7
    <3> QED
      BY <3>1, <3>7, <3>8
  <2> HIDE DEF Within
  <2> QED
    BY <2>1, <2>2
<1>11. n \in T
  <2> HIDE DEF T
  <2>1. 0..n \subseteq T
    BY <1>9, <1>10, ReachesAll
  <2> QED
    BY <2>1
<1>12. PICK r \in [1..m -> FeePoint] : r = Repaired(ps) /\ \A i \in 1..m : Within(r[i], b[i])
  <2>1. f[n] \in [1..m -> FeePoint]
    OBVIOUS
  <2> HIDE DEF Within
  <2> QED
    BY <1>7, <1>11, <2>1
<1>13. r \in Seq(FeePoint) /\ Len(r) = m /\ DOMAIN r = 1..m
  OBVIOUS
<1>14. ASSUME NEW i \in 2..m PROVE Earlier(r[i - 1], r[i])
  <2>1. i \in 1..m /\ i - 1 \in 1..m /\ i - 1 < i
    OBVIOUS
  <2>2. PICK p \in FeePoint, q \in FeePoint : p = b[i - 1] /\ q = b[i]
    BY <2>1
  <2>3. <<place[i - 1], place[i]>> \in ByTime(kept)
    BY <1>4, <2>1 DEF Follows
  <2>4. Earlier(p, q)
    BY <1>4, <2>1, <2>2, <2>3 DEF ByTime
  <2>5. Within(r[i - 1], p) /\ Within(r[i], q)
    BY <1>12, <2>1, <2>2
  <2>6. r[i - 1].at = p.at /\ r[i - 1].ledger = p.ledger /\ r[i].at = q.at /\ r[i].ledger = q.ledger
    BY <2>5 DEF FeePoint
  <2> QED
    BY <2>4, <2>6 DEF Earlier
<1>15. ASSUME NEW i \in 1..m PROVE \E p \in ToSet(kept) : Within(r[i], p)
  <2>1. place[i] \in DOMAIN kept
    BY <1>2, <1>4 DEF Follows
  <2>2. b[i] \in ToSet(kept)
    BY <1>4, <2>1 DEF ToSet
  <2> HIDE DEF Within
  <2> QED
    BY <1>12, <2>2
<1>16. /\ Repaired(ps) \in Seq(FeePoint) /\ Len(Repaired(ps)) = Len(Firsts(ps))
       /\ \A i \in 2..Len(Repaired(ps)) : Earlier(Repaired(ps)[i - 1], Repaired(ps)[i])
  <2> HIDE DEF Within
  <2> QED
    BY <1>1, <1>2, <1>12, <1>13, <1>14
<1>17. \A i \in DOMAIN Repaired(ps) : \E p \in ToSet(Firsts(ps)) : Within(Repaired(ps)[i], p)
  <2> HIDE DEF Within
  <2> QED
    BY <1>1, <1>12, <1>13, <1>15
<1> QED
  BY <1>5, <1>16, <1>17

LEMMA BetweenGrows ==
    ASSUME NEW a \in Nat, NEW b \in Nat, a <= b, NEW gap \in Nat \ {0},
           NEW i \in Nat, NEW j \in Nat, i <= j
    PROVE  Between(a, b, i, gap) <= Between(a, b, j, gap)
<1>1. PICK rise \in Nat : rise = b - a
  OBVIOUS
<1>2. PICK more \in Nat : j = i + more
  <2>1. j - i \in Nat /\ j = i + (j - i)
    OBVIOUS
  <2> QED
    BY <2>1
<1>3. rise * j = rise * i + rise * more /\ rise * more \in Nat /\ rise * i \in Nat /\ a * gap \in Nat
  BY <1>2
<1>4. PICK x \in Int, y \in Int : x = 2 * (a * gap + rise * i) + gap /\ y = 2 * (a * gap + rise * j) + gap /\ x <= y
  <2>1. PICK u \in Nat, v \in Nat, w \in Nat : u = a * gap /\ v = rise * i /\ w = rise * more
    BY <1>3
  <2>2. 2 * (u + v) + gap <= 2 * (u + (v + w)) + gap
    OBVIOUS
  <2> QED
    BY <1>3, <2>1, <2>2
<1>5. 2 * gap \in Nat \ {0}
  OBVIOUS
<1>6. x \div (2 * gap) <= y \div (2 * gap)
  BY <1>4, <1>5, DivGrows
<1> QED
  BY <1>1, <1>4, <1>6 DEF Between

LEMMA InterpolatedRises ==
    ASSUME NEW p \in FeePoint, NEW q \in FeePoint, p.at <= q.at,
           NEW j \in 2..(q.ledger - p.ledger - 1)
    PROVE  Interpolated(p, q)[j - 1].at <= Interpolated(p, q)[j].at
<1>1. PICK gap \in Int : gap = q.ledger - p.ledger
  BY DEF FeePoint
<1>2. p.at \in Nat /\ q.at \in Nat /\ gap \in Nat \ {0} /\ j - 1 \in Nat /\ j \in Nat /\ j - 1 <= j
  BY <1>1 DEF FeePoint
<1>3. j \in 1..(gap - 1) /\ j - 1 \in 1..(gap - 1)
  BY <1>1
<1>4. \A i \in 1..(gap - 1) : Interpolated(p, q)[i].at = Between(p.at, q.at, i, gap)
  BY <1>1 DEF Interpolated
<1>5. Between(p.at, q.at, j - 1, gap) <= Between(p.at, q.at, j, gap)
  BY <1>2, BetweenGrows
<1> QED
  BY <1>3, <1>4, <1>5

LEMMA LedgersRise ==
    ASSUME NEW ps \in Seq(FeePoint), InOrder(ps), NEW i \in 1..Len(ps), NEW j \in 1..Len(ps), i < j
    PROVE  ps[i].ledger < ps[j].ledger
<1> DEFINE T == {k \in 0..Len(ps) : i < k => ps[i].ledger < ps[k].ledger}
<1>1. \A k \in 1..Len(ps) : ps[k].ledger \in Nat
  <2> SUFFICES ASSUME NEW k \in 1..Len(ps) PROVE ps[k].ledger \in Nat
    OBVIOUS
  <2>1. ps[k] \in FeePoint
    OBVIOUS
  <2> QED
    BY <2>1 DEF FeePoint
<1>2. Len(ps) \in Nat
  OBVIOUS
<1>3. 0 \in T
  BY <1>2
<1>4. ASSUME NEW k \in 1..Len(ps), k - 1 \in T PROVE k \in T
  <2> SUFFICES ASSUME i < k PROVE ps[i].ledger < ps[k].ledger
    OBVIOUS
  <2>1. k \in 2..Len(ps) /\ k - 1 \in 1..Len(ps)
    BY <1>2
  <2>2. ps[k - 1].ledger < ps[k].ledger
    BY <1>1, <2>1 DEF InOrder
  <2>3. i = k - 1 \/ i < k - 1
    BY <2>1
  <2> QED
    BY <1>1, <1>4, <2>1, <2>2, <2>3
<1>5. 0..Len(ps) \subseteq T
  <2> HIDE DEF T
  <2> QED
    BY <1>2, <1>3, <1>4, ReachesAll
<1> QED
  BY <1>5

FeeBetween(x, a, b) == (a <= b => a <= x /\ x <= b) /\ (b <= a => b <= x /\ x <= a)

(* s is the first k points of a sequence in order, its gaps filled. *)
Filled(s, ps, k) ==
    /\ Len(s) = ps[k].ledger - ps[1].ledger + 1
    /\ \A j \in 1..Len(s) : s[j].ledger = ps[1].ledger + j - 1
    /\ \A j \in 2..Len(s) : s[j - 1].at <= s[j].at
    /\ \A i \in 1..k : s[ps[i].ledger - ps[1].ledger + 1] = ps[i]
    /\ \A i \in 2..k, j \in 1..Len(s) :
          ps[i - 1].ledger <= s[j].ledger /\ s[j].ledger <= ps[i].ledger
             => FeeBetween(s[j].fee, ps[i - 1].fee, ps[i].fee)

IsJoined(t, A, s, x, e) ==
    /\ t \in Seq(A) /\ Len(t) = Len(s) + Len(x) + 1
    /\ \A j \in 1..Len(s) : t[j] = s[j]
    /\ \A i \in 1..Len(x) : t[Len(s) + i] = x[i]
    /\ t[Len(s) + Len(x) + 1] = e

LEMMA JoinedAround ==
    ASSUME NEW A, NEW s \in Seq(A), NEW x \in Seq(A), NEW e \in A
    PROVE  IsJoined(Append(s \o x, e), A, s, x, e)
<1>1. PICK u \in Seq(A) : /\ u = s \o x /\ Len(u) = Len(s) + Len(x)
                          /\ \A j \in 1..Len(s) : u[j] = s[j]
                          /\ \A i \in 1..Len(x) : u[Len(s) + i] = x[i]
  <2>1. s \o x \in Seq(A)
    OBVIOUS
  <2>2. /\ Len(s \o x) = Len(s) + Len(x)
        /\ \A j \in 1..Len(s) : (s \o x)[j] = s[j]
        /\ \A i \in 1..Len(x) : (s \o x)[Len(s) + i] = x[i]
    OBVIOUS
  <2> QED
    BY <2>1, <2>2
<1> DEFINE t == Append(u, e)
<1>2. t \in Seq(A) /\ Len(t) = Len(u) + 1 /\ t[Len(u) + 1] = e /\ \A i \in 1..Len(u) : t[i] = u[i]
  OBVIOUS
<1>3. Len(s) \in Nat /\ Len(x) \in Nat
  OBVIOUS
<1>4. /\ \A j \in 1..Len(s) : j \in 1..Len(s) + Len(x)
      /\ \A i \in 1..Len(x) : Len(s) + i \in 1..Len(s) + Len(x)
  BY <1>3
<1> HIDE DEF t
<1>5. IsJoined(t, A, s, x, e)
  BY <1>1, <1>2, <1>4 DEF t, IsJoined
<1> QED
  BY <1>1, <1>5, Zenon DEF t

LEMMA FillsOn ==
    ASSUME NEW ps \in Seq(FeePoint), InOrder(ps), NEW k \in 2..Len(ps), NEW s \in Seq(FeePoint), Filled(s, ps, k - 1)
    PROVE  Filled(Append(s \o Interpolated(ps[k - 1], ps[k]), ps[k]), ps, k)
<1>1. k - 1 \in 1..Len(ps) /\ k \in 1..Len(ps) /\ 1 \in 1..Len(ps)
  OBVIOUS
<1>2. PICK p \in FeePoint, q \in FeePoint, o \in FeePoint : p = ps[k - 1] /\ q = ps[k] /\ o = ps[1]
  BY <1>1
<1>3. PICK pl \in Nat, ql \in Nat, first \in Nat :
         /\ pl = p.ledger /\ ql = q.ledger /\ first = o.ledger /\ p.fee \in Nat /\ q.fee \in Nat
         /\ p.at \in Nat /\ q.at \in Nat
  <2>1. /\ p.ledger \in Nat /\ q.ledger \in Nat /\ o.ledger \in Nat /\ p.fee \in Nat /\ q.fee \in Nat
        /\ p.at \in Nat /\ q.at \in Nat
    BY DEF FeePoint
  <2> QED
    BY <2>1
<1>4. pl < ql /\ p.at <= q.at /\ first <= pl
  <2>1. q.ledger > p.ledger /\ q.at >= p.at
    BY <1>2 DEF InOrder
  <2>2. k - 1 = 1 \/ 1 < k - 1
    BY <1>1
  <2>3. 1 < k - 1 => o.ledger < p.ledger
    BY <1>1, <1>2, LedgersRise
  <2>4. k - 1 = 1 => o = p
    BY <1>2
  <2> QED
    BY <1>3, <2>1, <2>2, <2>3, <2>4
<1>5. PICK g \in Nat, L \in Nat : g = ql - pl /\ g > 0 /\ L = Len(s) /\ pl = first + L - 1 /\ L > 0
  <2>1. Len(s) = pl - first + 1
    BY <1>2, <1>3 DEF Filled
  <2>2. PICK g \in Nat : g = ql - pl /\ g > 0
    BY <1>4
  <2>3. PICK L \in Nat : L = Len(s)
    OBVIOUS
  <2>4. pl = first + L - 1 /\ L > 0
    BY <1>4, <2>1, <2>3
  <2> QED
    BY <2>2, <2>3, <2>4
<1>5a. ql - first + 1 = L + g /\ ql = first + (L + g) - 1
  BY <1>5
<1>5b. g # 1 => 1 \in 1..g - 1
  BY <1>5
<1>6. PICK between \in Seq(FeePoint) :
         /\ between = Interpolated(p, q) /\ Len(between) = g - 1
         /\ \A i \in 1..g - 1 :
               /\ between[i].ledger = pl + i
               /\ FeeBetween(between[i].fee, p.fee, q.fee)
               /\ p.at <= between[i].at /\ between[i].at <= q.at
         /\ \A i \in 2..g - 1 : between[i - 1].at <= between[i].at
  <2>1. PICK between \in Seq(FeePoint) : between = Interpolated(p, q)
    BY InterpolatedIs
  <2>2. Len(between) = g - 1
    BY <1>3, <1>4, <1>5, <2>1, InterpolatedIs
  <2>3. ASSUME NEW i \in 1..g - 1
        PROVE  /\ between[i].ledger = pl + i
               /\ p.fee <= q.fee => between[i].fee \in p.fee..q.fee
               /\ q.fee <= p.fee => between[i].fee \in q.fee..p.fee
               /\ p.at <= q.at => between[i].at \in p.at..q.at
    <3>1. p.ledger < q.ledger
      BY <1>3, <1>4
    <3>2. i \in 1..(q.ledger - p.ledger - 1)
      BY <1>3, <1>5
    <3>3. /\ between[i].ledger = p.ledger + i
          /\ p.fee <= q.fee => between[i].fee \in p.fee..q.fee
          /\ q.fee <= p.fee => between[i].fee \in q.fee..p.fee
          /\ p.at <= q.at => between[i].at \in p.at..q.at
      BY <2>1, <3>1, <3>2, InterpolatedIs
    <3> QED
      BY <1>3, <3>3
  <2>4. ASSUME NEW i \in 1..g - 1
        PROVE  /\ between[i].ledger = pl + i
               /\ FeeBetween(between[i].fee, p.fee, q.fee)
               /\ p.at <= between[i].at /\ between[i].at <= q.at
    BY <1>4, <2>3 DEF FeeBetween
  <2>5. \A i \in 2..g - 1 : between[i - 1].at <= between[i].at
    BY <1>3, <1>4, <1>5, <2>1, InterpolatedRises
  <2> QED
    BY <2>1, <2>2, <2>4, <2>5
<1> DEFINE t == Append(s \o between, q)
<1>7. /\ t \in Seq(FeePoint) /\ Len(t) = L + g
      /\ \A j \in 1..L : t[j] = s[j]
      /\ \A i \in 1..g - 1 : t[L + i] = between[i]
      /\ t[L + g] = q
  <2>1. PICK m \in Nat : m = g - 1
    BY <1>5
  <2>2. /\ t \in Seq(FeePoint) /\ Len(t) = L + m + 1
        /\ \A j \in 1..L : t[j] = s[j]
        /\ \A i \in 1..m : t[L + i] = between[i]
        /\ t[L + m + 1] = q
    <3>1. /\ t \in Seq(FeePoint) /\ Len(t) = Len(s) + Len(between) + 1
          /\ \A j \in 1..Len(s) : t[j] = s[j]
          /\ \A i \in 1..Len(between) : t[Len(s) + i] = between[i]
          /\ t[Len(s) + Len(between) + 1] = q
      <4>1. s \in Seq(FeePoint) /\ between \in Seq(FeePoint) /\ q \in FeePoint
        BY <1>5, <1>6
      <4>2. IsJoined(t, FeePoint, s, between, q)
        BY <4>1, JoinedAround, Zenon
      <4> QED
        BY <4>2, Zenon DEF IsJoined
    <3> HIDE DEF t
    <3> QED
      BY <1>5, <1>6, <2>1, <3>1
  <2>3. L + m + 1 = L + g /\ m = g - 1
    BY <2>1
  <2> HIDE DEF t
  <2> QED
    BY <2>2, <2>3
<1> HIDE DEF t
<1>8. \A j \in 1..L + g : j \in 1..L \/ j = L + g \/ (j - L \in 1..g - 1 /\ L + (j - L) = j)
  OBVIOUS
<1>9. Filled(s, ps, k - 1) /\ s[L] = p
  <2>1. pl - first + 1 = L
    BY <1>5
  <2>2. k - 1 \in 1..k - 1
    BY <1>1
  <2>3. s[pl - first + 1] = p
    BY <1>2, <1>3, <2>2 DEF Filled
  <2> QED
    BY <2>1, <2>3
<1>10. Len(t) = ps[k].ledger - ps[1].ledger + 1
  <2>1. ql - first + 1 = L + g
    BY <1>5
  <2> QED
    BY <1>2, <1>3, <1>7, <2>1
<1>11. \A j \in 1..L : s[j].ledger = first + j - 1
  BY <1>2, <1>3, <1>5, <1>9 DEF Filled
<1>12. ASSUME NEW j \in 1..L + g PROVE t[j].ledger = first + j - 1
  <2>1. CASE j \in 1..L
    BY <1>7, <1>11, <2>1
  <2>2. CASE j = L + g
    <3>1. t[j].ledger = ql
      BY <1>3, <1>7, <2>2
    <3>2. ql = first + j - 1
      BY <1>5a, <2>2
    <3> QED
      BY <3>1, <3>2
  <2>3. CASE j - L \in 1..g - 1 /\ L + (j - L) = j
    <3>1. t[j] = between[j - L]
      BY <1>7, <2>3
    <3>2. between[j - L].ledger = pl + (j - L)
      BY <1>6, <2>3
    <3>3. pl + (j - L) = first + j - 1
      BY <1>5
    <3> QED
      BY <3>1, <3>2, <3>3
  <2> QED
    BY <1>8, <2>1, <2>2, <2>3
<1>13. ASSUME NEW j \in 2..L + g PROVE t[j - 1].at <= t[j].at
  <2>0. j \in 1..L + g /\ j - 1 \in 1..L + g
    OBVIOUS
  <2>1. CASE j \in 1..L
    <3>1. j - 1 \in 1..L /\ j \in 2..L
      BY <2>1
    <3>2. s[j - 1].at <= s[j].at
      BY <1>5, <1>9, <3>1 DEF Filled
    <3> QED
      BY <1>7, <3>1, <3>2
  <2>2. CASE j = L + 1
    <3>1. t[j - 1] = p
      <4>1. j - 1 = L /\ L \in 1..L
        BY <1>5, <2>2
      <4>2. t[L] = s[L]
        BY <1>7, <4>1, Zenon
      <4> QED
        BY <1>9, <4>1, <4>2, Zenon
    <3>2. CASE g = 1
      <4>1. t[j] = q
        BY <1>7, <2>2, <3>2
      <4> QED
        BY <1>4, <3>1, <4>1
    <3>3. CASE g # 1
      <4>1. 1 \in 1..g - 1
        BY <1>5b, <3>3
      <4>2. t[j] = between[1]
        BY <1>7, <2>2, <4>1
      <4> QED
        BY <1>6, <3>1, <4>1, <4>2
    <3> QED
      BY <3>2, <3>3
  <2>3. CASE j \notin 1..L /\ j # L + 1
    <3>1. PICK i \in 2..g : j = L + i /\ j - 1 = L + (i - 1)
      <4>1. j - L \in 2..g /\ j = L + (j - L) /\ j - 1 = L + ((j - L) - 1)
        BY <2>0, <2>3
      <4> QED
        BY <4>1
    <3>2. i - 1 \in 1..g - 1
      OBVIOUS
    <3>3. t[j - 1] = between[i - 1]
      BY <1>7, <3>1, <3>2
    <3>4. CASE i = g
      BY <1>6, <1>7, <3>1, <3>2, <3>3, <3>4
    <3>5. CASE i # g
      <4>1. i \in 2..g - 1 /\ i \in 1..g - 1
        BY <3>5
      <4> QED
        BY <1>6, <1>7, <3>1, <3>3, <4>1
    <3> QED
      BY <3>4, <3>5
  <2> QED
    BY <2>1, <2>2, <2>3
<1>14. ASSUME NEW i \in 1..k PROVE t[ps[i].ledger - first + 1] = ps[i]
  <2>1. CASE i = k
    <3>1. ql - first + 1 = L + g
      BY <1>5
    <3> QED
      BY <1>2, <1>3, <1>7, <2>1, <3>1
  <2>2. CASE i # k
    <3>1. i \in 1..k - 1 /\ i \in 1..Len(ps)
      BY <2>2
    <3>2. PICK x \in FeePoint : x = ps[i]
      BY <3>1
    <3>3. PICK xl \in Nat : xl = x.ledger
      BY DEF FeePoint
    <3>4. first <= xl /\ xl <= pl
      <4>1. i = k - 1 \/ i < k - 1
        BY <3>1
      <4>2. i < k - 1 => xl < pl
        BY <1>1, <1>2, <1>3, <3>1, <3>2, <3>3, LedgersRise
      <4>3. i = k - 1 => xl = pl
        BY <1>2, <1>3, <3>2, <3>3
      <4>4. i = 1 \/ 1 < i
        BY <3>1
      <4>5. 1 < i => first < xl
        BY <1>1, <1>2, <1>3, <3>1, <3>2, <3>3, LedgersRise
      <4>6. i = 1 => first = xl
        BY <1>2, <1>3, <3>2, <3>3
      <4> QED
        BY <4>1, <4>2, <4>3, <4>4, <4>5, <4>6
    <3>5. xl - first + 1 \in 1..L
      BY <1>5, <3>4
    <3>6. s[xl - first + 1] = x
      BY <1>2, <1>3, <1>9, <3>1, <3>2, <3>3 DEF Filled
    <3> QED
      BY <1>7, <3>2, <3>3, <3>5, <3>6
  <2> QED
    BY <2>1, <2>2
<1>15. ASSUME NEW i \in 2..k, NEW j \in 1..L + g,
              ps[i - 1].ledger <= t[j].ledger, t[j].ledger <= ps[i].ledger
       PROVE  FeeBetween(t[j].fee, ps[i - 1].fee, ps[i].fee)
  <2>0. t[j].ledger = first + j - 1
    BY <1>12
  <2>1. CASE i # k /\ j \in 1..L
    <3>1. i \in 2..k - 1 /\ t[j] = s[j]
      BY <1>7, <2>1
    <3> QED
      BY <1>5, <1>9, <1>15, <2>1, <3>1 DEF Filled
  <2>2. CASE i # k /\ j \notin 1..L
    <3>1. i \in 1..Len(ps) /\ (i = k - 1 \/ i < k - 1)
      BY <2>2
    <3>2. PICK x \in FeePoint : x = ps[i]
      BY <3>1
    <3>3. PICK xl \in Nat : xl = x.ledger
      BY DEF FeePoint
    <3>4. i < k - 1 => xl < pl
      BY <1>1, <1>2, <1>3, <3>1, <3>2, <3>3, LedgersRise
    <3>5. i = k - 1 => xl = pl
      BY <1>2, <1>3, <3>2, <3>3
    <3>6. xl <= pl /\ first + j - 1 <= xl
      BY <1>15, <2>0, <3>1, <3>2, <3>3, <3>4, <3>5
    <3>7. j <= L
      BY <1>5, <3>6
    <3> QED
      BY <2>2, <3>7
  <2>3. CASE i = k /\ j \in 1..L
    <3>0. pl <= first + j - 1
      BY <1>2, <1>3, <1>15, <2>0, <2>3
    <3>1. j = L
      BY <1>5, <2>3, <3>0
    <3>2. t[j] = p
      BY <1>7, <1>9, <2>3, <3>1
    <3> QED
      BY <1>2, <1>3, <2>3, <3>2 DEF FeeBetween
  <2>4. CASE i = k /\ j = L + g
    BY <1>2, <1>3, <1>7, <2>4 DEF FeeBetween
  <2>5. CASE i = k /\ j - L \in 1..g - 1 /\ L + (j - L) = j
    <3>1. t[j] = between[j - L]
      BY <1>7, <2>5
    <3> QED
      BY <1>2, <1>6, <2>5, <3>1
  <2> QED
    BY <1>8, <2>1, <2>2, <2>3, <2>4, <2>5
<1>16. Filled(t, ps, k)
  <2>1. ps[1].ledger = first /\ Len(t) = L + g
    BY <1>2, <1>3, <1>7
  <2> QED
    BY <1>10, <1>12, <1>13, <1>14, <1>15, <2>1 DEF Filled
<1> QED
  BY <1>2, <1>6, <1>16 DEF t

LEMMA FilledIs ==
    ASSUME NEW ps \in Seq(FeePoint), InOrder(ps), ps # <<>>
    PROVE  Filled(FillGaps(ps), ps, Len(ps))
<1> DEFINE n == Len(ps)
<1>1. n \in Nat /\ n >= 1 /\ 1 \in 1..n
  OBVIOUS
<1>2. PICK f \in [0..n -> Seq(FeePoint)] : Fills(f, ps) /\ FillGaps(ps) = f[n]
  BY FilledFolds
<1>3. \A k \in 1..n : f[k] = IF k = 1 THEN <<ps[1]>> ELSE Append(f[k - 1] \o Interpolated(ps[k - 1], ps[k]), ps[k])
  BY <1>2 DEF Fills
<1> DEFINE T == {k \in 0..n : k # 0 => Filled(f[k], ps, k)}
<1>4. 0 \in T
  BY <1>1
<1>5. ASSUME NEW k \in 1..n, k - 1 \in T PROVE k \in T
  <2>1. CASE k = 1
    <3>1. f[1] = <<ps[1]>>
      BY <1>1, <1>3
    <3>2. PICK o \in FeePoint, first \in Nat : o = ps[1] /\ first = o.ledger
      <4>1. PICK o \in FeePoint : o = ps[1]
        BY <1>1
      <4>2. o.ledger \in Nat
        BY DEF FeePoint
      <4> QED
        BY <4>1, <4>2
    <3>3. Len(f[1]) = 1 /\ f[1][1] = o
      BY <3>1, <3>2
    <3>4. first - first + 1 = 1 /\ first + 1 - 1 = first
      OBVIOUS
    <3>5. 1..1 = {1} /\ 2..1 = {}
      OBVIOUS
    <3>6. Filled(f[1], ps, 1)
      BY <3>2, <3>3, <3>4, <3>5 DEF Filled
    <3> QED
      BY <1>1, <2>1, <3>6
  <2>2. CASE k # 1
    <3>1. k \in 2..n /\ k - 1 \in 0..n /\ k - 1 # 0
      BY <1>1, <2>2
    <3>2. Filled(f[k - 1], ps, k - 1)
      BY <1>5, <3>1
    <3>3. PICK s \in Seq(FeePoint) : s = f[k - 1]
      BY <3>1
    <3>4. Filled(Append(s \o Interpolated(ps[k - 1], ps[k]), ps[k]), ps, k)
      BY <3>1, <3>2, <3>3, FillsOn
    <3>5. f[k] = Append(s \o Interpolated(ps[k - 1], ps[k]), ps[k])
      BY <1>3, <2>2, <3>3
    <3>6. Filled(f[k], ps, k)
      BY <3>4, <3>5, Zenon
    <3>7. k \in 0..n
      BY <3>1
    <3> QED
      BY <3>6, <3>7
  <2> QED
    BY <2>1, <2>2
<1>6. n \in T
  <2> HIDE DEF T
  <2>1. 0..n \subseteq T
    <3> HIDE DEF n
    <3> QED
      BY <1>1, <1>4, <1>5, ReachesAll
  <2> QED
    BY <1>1, <2>1
<1> QED
  BY <1>1, <1>2, <1>6

LEMMA LedgersSpread ==
    ASSUME NEW ps \in Seq(FeePoint), InOrder(ps), ps # <<>>
    PROVE  \A k \in 1..Len(ps) : ps[1].ledger + k - 1 <= ps[k].ledger
<1> DEFINE T == {k \in 0..Len(ps) : k # 0 => ps[1].ledger + k - 1 <= ps[k].ledger}
<1>1. Len(ps) \in Nat /\ 1 \in 1..Len(ps)
  OBVIOUS
<1>2. \A k \in 1..Len(ps) : ps[k].ledger \in Nat
  <2> SUFFICES ASSUME NEW k \in 1..Len(ps) PROVE ps[k].ledger \in Nat
    OBVIOUS
  <2>1. ps[k] \in FeePoint
    OBVIOUS
  <2> QED
    BY <2>1 DEF FeePoint
<1>3. 0 \in T
  BY <1>1
<1>4. ASSUME NEW k \in 1..Len(ps), k - 1 \in T PROVE k \in T
  <2>1. CASE k = 1
    <3>1. ps[1].ledger \in Nat
      BY <1>1, <1>2
    <3>2. ps[1].ledger + k - 1 <= ps[k].ledger
      BY <2>1, <3>1
    <3> QED
      BY <1>1, <3>2
  <2>2. CASE k # 1
    <3>1. k \in 2..Len(ps) /\ k - 1 \in 1..Len(ps)
      BY <1>1, <2>2
    <3>2. PICK first \in Nat, a \in Nat, b \in Nat : first = ps[1].ledger /\ a = ps[k - 1].ledger /\ b = ps[k].ledger
      BY <1>1, <1>2, <3>1
    <3>3. a < b
      BY <3>1, <3>2 DEF InOrder
    <3>4. first + (k - 1) - 1 <= a
      BY <1>4, <3>1, <3>2
    <3>5. first + k - 1 <= b
      BY <3>3, <3>4
    <3> QED
      BY <1>1, <3>2, <3>5
  <2> QED
    BY <2>1, <2>2
<1>5. 0..Len(ps) \subseteq T
  <2> HIDE DEF T
  <2> QED
    BY <1>1, <1>3, <1>4, ReachesAll
<1> QED
  BY <1>5

(* Selecting the places that an increasing sequence lists reads along it. *)
Lists(m, L, P, n) ==
    /\ m \in [1..L -> 1..n]
    /\ \A i, j \in 1..L : i < j => m[i] < m[j]
    /\ \A k \in 1..n : k \in P <=> \E i \in 1..L : m[i] = k

LEMMA SelectionIs ==
    ASSUME NEW A, NEW seq \in Seq(A), NEW P, NEW L \in Nat, NEW m, Lists(m, L, P, Len(seq))
    PROVE  /\ Selected(seq, P) \in Seq(A) /\ Len(Selected(seq, P)) = L
           /\ \A i \in 1..L : Selected(seq, P)[i] = seq[m[i]]
<1> USE DEF Lists
<1> DEFINE n == Len(seq)
<1>1. n \in Nat
  OBVIOUS
<1>2. PICK g \in [0..n -> Seq(A)] : Selects(g, seq, P) /\ Selected(seq, P) = g[n]
  BY SelectedFolds
<1>3. g[0] = <<>> /\ \A k \in 1..n : g[k] = IF k \in P THEN Append(g[k - 1], seq[k]) ELSE g[k - 1]
  BY <1>2 DEF Selects
<1> DEFINE Upto(k, c) == /\ Len(g[k]) = c
                         /\ \A i \in 1..c : m[i] <= k /\ g[k][i] = seq[m[i]]
                         /\ \A i \in 1..L : c < i => k < m[i]
           T == {k \in 0..n : \E c \in 0..L : Upto(k, c)}
<1>4. \A i \in 1..L : m[i] \in Int /\ 1 <= m[i] /\ m[i] <= n
  BY <1>1
<1>5. 0 \in T
  <2>1. Len(g[0]) = 0 /\ 0 \in 0..n /\ 0 \in 0..L
    BY <1>1, <1>3
  <2>2. Upto(0, 0)
    BY <1>4, <2>1
  <2> HIDE DEF Upto
  <2> QED
    BY <2>1, <2>2
<1>6. ASSUME NEW k \in 1..n, k - 1 \in T PROVE k \in T
  <2>1. PICK c \in 0..L : Upto(k - 1, c)
    BY <1>6
  <2>2. k \in 0..n /\ k - 1 \in 0..n /\ seq[k] \in A
    BY <1>1
  <2>3. PICK s \in Seq(A) : s = g[k - 1]
    BY <2>2
  <2>4. CASE c < L /\ m[c + 1] = k
    <3>1. c + 1 \in 0..L /\ c + 1 \in 1..L
      BY <2>4
    <3>2. k \in P
      BY <2>4, <3>1
    <3>3. PICK t \in Seq(A) : t = g[k] /\ t = Append(s, seq[k])
      BY <1>3, <2>2, <2>3, <3>2
    <3>4. Len(t) = c + 1 /\ t[c + 1] = seq[k] /\ \A i \in 1..c : t[i] = s[i]
      BY <2>1, <2>2, <2>3, <3>3
    <3>5. ASSUME NEW i \in 1..c + 1 PROVE m[i] <= k /\ t[i] = seq[m[i]]
      <4>1. CASE i = c + 1
        BY <2>4, <3>4, <4>1
      <4>2. CASE i # c + 1
        <5>1. i \in 1..c /\ i \in 1..L
          BY <3>1, <4>2
        <5>2. m[i] <= k - 1 /\ s[i] = seq[m[i]]
          BY <2>1, <2>3, <5>1
        <5> QED
          BY <1>4, <3>4, <5>1, <5>2
      <4> QED
        BY <4>1, <4>2
    <3>6. ASSUME NEW i \in 1..L, c + 1 < i PROVE k < m[i]
      BY <2>4, <3>1, <3>6
    <3>7. Upto(k, c + 1)
      BY <3>3, <3>4, <3>5, <3>6
    <3> HIDE DEF Upto
    <3> QED
      BY <2>2, <3>1, <3>7
  <2>5. CASE ~(c < L /\ m[c + 1] = k)
    <3>1. ASSUME NEW i \in 1..L, c < i PROVE k < m[i]
      <4>1. c + 1 \in 1..L /\ c < L
        BY <3>1
      <4>2. k - 1 < m[c + 1] /\ m[c + 1] # k
        BY <2>1, <2>5, <4>1
      <4>3. k < m[c + 1]
        BY <1>4, <4>1, <4>2
      <4>4. i = c + 1 \/ c + 1 < i
        BY <3>1
      <4>5. c + 1 < i => m[c + 1] < m[i]
        BY <4>1
      <4> QED
        BY <1>4, <4>1, <4>3, <4>4, <4>5
    <3>2. k \notin P
      <4> SUFFICES ASSUME NEW i \in 1..L, m[i] = k PROVE FALSE
        OBVIOUS
      <4>1. c < i => k < m[i]
        BY <3>1
      <4>2. ~(c < i) => i \in 1..c
        OBVIOUS
      <4>3. i \in 1..c => m[i] <= k - 1
        BY <2>1
      <4> QED
        BY <4>1, <4>2, <4>3
    <3>3. g[k] = s
      BY <1>3, <2>3, <3>2
    <3>4. Upto(k, c)
      <4>1. ASSUME NEW i \in 1..c PROVE m[i] <= k /\ s[i] = seq[m[i]]
        <5>1. m[i] <= k - 1 /\ s[i] = seq[m[i]]
          BY <2>1, <2>3
        <5>2. m[i] \in Int
          BY <1>4
        <5> QED
          BY <5>1, <5>2
      <4> QED
        BY <2>1, <2>3, <3>1, <3>3, <4>1
    <3> HIDE DEF Upto
    <3> QED
      BY <2>2, <3>4
  <2> QED
    BY <2>4, <2>5
<1>7. n \in T
  <2> HIDE DEF T
  <2>1. 0..n \subseteq T
    <3> HIDE DEF n
    <3> QED
      BY <1>1, <1>5, <1>6, ReachesAll
  <2> QED
    BY <1>1, <2>1
<1>8. PICK c \in 0..L : Upto(n, c)
  BY <1>7
<1>9. c = L
  <2> SUFFICES ASSUME c < L PROVE FALSE
    OBVIOUS
  <2>1. L \in 1..L
    OBVIOUS
  <2> QED
    BY <1>1, <1>4, <1>8, <2>1
<1>10. g[n] \in Seq(A)
  BY <1>1
<1> HIDE DEF n
<1> QED
  BY <1>2, <1>8, <1>9, <1>10

(* Some places and the others make up the whole. *)
LEMMA SelectedOthers ==
    ASSUME NEW A, NEW seq \in Seq(A), NEW P, NEW Q, \A k \in 1..Len(seq) : k \in Q <=> k \notin P
    PROVE  Len(Selected(seq, P)) + Len(Selected(seq, Q)) = Len(seq)
<1> DEFINE n == Len(seq)
<1>1. n \in Nat
  OBVIOUS
<1>2. PICK f \in [0..n -> Seq(A)] : Selects(f, seq, P) /\ Selected(seq, P) = f[n]
  BY SelectedFolds
<1>3. PICK g \in [0..n -> Seq(A)] : Selects(g, seq, Q) /\ Selected(seq, Q) = g[n]
  BY SelectedFolds
<1> DEFINE T == {k \in 0..n : Len(f[k]) + Len(g[k]) = k}
<1>4. 0 \in T
  BY <1>1, <1>2, <1>3 DEF Selects
<1>5. ASSUME NEW k \in 1..n, k - 1 \in T PROVE k \in T
  <2>1. k \in 0..n /\ k - 1 \in 0..n /\ seq[k] \in A
    BY <1>1
  <2>2. PICK s \in Seq(A), t \in Seq(A) : s = f[k - 1] /\ t = g[k - 1]
    BY <2>1
  <2>3. Len(s) + Len(t) = k - 1
    BY <1>5, <2>2
  <2>4. Len(Append(s, seq[k])) = Len(s) + 1 /\ Len(Append(t, seq[k])) = Len(t) + 1 /\ Len(s) \in Nat /\ Len(t) \in Nat
    BY <2>1
  <2>5. f[k] = IF k \in P THEN Append(s, seq[k]) ELSE s
    BY <1>2, <2>2 DEF Selects
  <2>6. g[k] = IF k \in P THEN t ELSE Append(t, seq[k])
    BY <1>3, <2>2 DEF Selects
  <2>7. Len(f[k]) + Len(g[k]) = k
    BY <2>3, <2>4, <2>5, <2>6
  <2> QED
    BY <2>1, <2>7
<1>6. 0..n \subseteq T
  <2> HIDE DEF T, n
  <2> QED
    BY <1>1, <1>4, <1>5, ReachesAll
<1>7. Len(f[n]) + Len(g[n]) = n
  <2>1. n \in T
    <3> HIDE DEF T, n
    <3> QED
      BY <1>1, <1>6
  <2> HIDE DEF n
  <2> QED
    BY <2>1, Zenon
<1> HIDE DEF T
<1> QED
  BY <1>2, <1>3, <1>7, Zenon

LEMMA GreaterOf == ASSUME NEW a \in Int, NEW b \in Int PROVE Max({a, b}) = IF a <= b THEN b ELSE a
<1> DEFINE m == IF a <= b THEN b ELSE a
<1>1. m \in {a, b} /\ \A y \in {a, b} : m >= y
  OBVIOUS
<1>2. \A x \in {a, b} : (\A y \in {a, b} : x >= y) => x = m
  OBVIOUS
<1> QED
  BY <1>1, <1>2 DEF Max

LEMMA NothingAdded ==
    ASSUME NEW numbers \in Seq(Int), \A i \in 1..Len(numbers) : numbers[i] = 0 PROVE Added(numbers) = 0
<1> DEFINE n == Len(numbers)
<1>0. n \in Nat
  OBVIOUS
<1>1. PICK f \in [0..n -> Int] : AddsTo(f, numbers) /\ Added(numbers) = f[n]
  BY AddedFolds
<1> DEFINE T == {k \in 0..n : f[k] = 0}
<1>2. 0 \in T
  BY <1>0, <1>1 DEF AddsTo
<1>3. ASSUME NEW k \in 1..n, k - 1 \in T PROVE k \in T
  <2>1. f[k] = f[k - 1] + numbers[k] /\ numbers[k] = 0
    BY <1>1 DEF AddsTo
  <2> QED
    BY <1>3, <2>1
<1>4. 0..n \subseteq T
  <2> HIDE DEF T, n
  <2> QED
    BY <1>0, <1>2, <1>3, ReachesAll
<1> QED
  BY <1>0, <1>1, <1>4

(* Of points ledger after ledger, in the order of time, nothing is counted. *)
LEMMA NothingCounted ==
    ASSUME NEW s \in Seq(FeePoint), NEW first \in Nat,
           \A j \in 1..Len(s) : s[j].ledger = first + j - 1,
           \A j \in 2..Len(s) : s[j - 1].at <= s[j].at
    PROVE  Counts(s).gaps = 0 /\ Counts(s).duplicates = 0 /\ Counts(s).outOfOrder = 0
<1> DEFINE n == Len(s)
           gap == [i \in DOMAIN s |-> IF i = 1 THEN 0 ELSE Max({0, s[i].ledger - s[i - 1].ledger - 1})]
<1>1. n \in Nat /\ DOMAIN s = 1..n
  OBVIOUS
<1>2. ASSUME NEW i \in 1..n PROVE gap[i] = 0
  <2>1. CASE i = 1
    BY <1>1, <2>1
  <2>2. CASE i # 1
    <3>1. i - 1 \in 1..n
      BY <1>1, <2>2
    <3>2. s[i].ledger - s[i - 1].ledger - 1 = 0
      <4>1. s[i].ledger = first + i - 1 /\ s[i - 1].ledger = first + (i - 1) - 1
        BY <3>1
      <4>2. (first + i - 1) - (first + (i - 1) - 1) - 1 = 0
        BY <1>1
      <4> QED
        BY <4>1, <4>2
    <3>3. Max({0, 0}) = 0
      BY GreaterOf
    <3>4. gap[i] = Max({0, s[i].ledger - s[i - 1].ledger - 1})
      BY <1>1, <2>2
    <3> HIDE DEF gap
    <3> QED
      BY <3>2, <3>3, <3>4
  <2> QED
    BY <2>1, <2>2
<1>3. Added(gap) = 0
  <2>1. DOMAIN gap = 1..n /\ gap = [i \in 1..n |-> gap[i]]
    BY <1>1
  <2> HIDE DEF gap, n
  <2>2. gap \in [1..n -> Int]
    BY <1>2, <2>1
  <2>3. gap \in Seq(Int) /\ Len(gap) = n
    <3>1. n \in Nat
      BY <1>1
    <3> QED
      BY <2>2, <3>1
  <2> QED
    BY <1>2, <2>3, NothingAdded
<1>4. Counts(s).gaps = 0
  BY <1>3 DEF Counts
<1>5. Cardinality(LedgersOf(s)) = n
  <2>1. \A x : x \in LedgersOf(s) <=> \E j \in 1..n : x = first + j - 1
    BY <1>1 DEF LedgersOf
  <2>2. \A x : x \in first..(first + n - 1) <=> \E j \in 1..n : x = first + j - 1
    <3>1. ASSUME NEW x \in first..(first + n - 1) PROVE \E j \in 1..n : x = first + j - 1
      <4>1. x - first + 1 \in 1..n /\ x = first + (x - first + 1) - 1
        BY <1>1
      <4> QED
        BY <4>1
    <3>2. \A j \in 1..n : first + j - 1 \in first..(first + n - 1)
      BY <1>1
    <3> QED
      BY <3>1, <3>2
  <2>3. LedgersOf(s) = first..(first + n - 1)
    BY <2>1, <2>2
  <2>4. /\ first \in Int /\ first + n - 1 \in Int /\ (first > first + n - 1 => n = 0)
        /\ (first + n - 1) - first + 1 = n
    BY <1>1
  <2> QED
    BY <2>3, <2>4, FS_Interval
<1>6. Counts(s).duplicates = 0
  BY <1>1, <1>5 DEF Counts, DuplicateCount
<1>7. {i \in DOMAIN s \ {1} : s[i].at < s[i - 1].at} = {}
  <2> SUFFICES ASSUME NEW i \in 1..n, i # 1, s[i].at < s[i - 1].at PROVE FALSE
    BY <1>1
  <2>1. i \in 2..n /\ i - 1 \in 1..n
    BY <1>1
  <2>2. s[i - 1].at <= s[i].at
    BY <2>1
  <2>3. PICK p \in FeePoint, q \in FeePoint : p = s[i - 1] /\ q = s[i]
    BY <2>1
  <2>4. p.at \in Nat /\ q.at \in Nat
    BY DEF FeePoint
  <2> QED
    BY <2>2, <2>3, <2>4
<1>8. Counts(s).outOfOrder = 0
  BY <1>7, FS_EmptySet DEF Counts
<1> QED
  BY <1>4, <1>6, <1>8

(* What filling the gaps of a sequence in order promises. *)
FillsWell(given, result) ==
    LET counts == Counts(result) IN
    /\ counts.gaps = 0 /\ counts.duplicates = 0 /\ counts.outOfOrder = 0
    /\ Selected(result, {i \in DOMAIN result : result[i].ledger \in LedgersOf(given)}) = given
    /\ Len(result) = Len(given) + GapCount(given)
    /\ Len(InterpolatedOnly(given)) = GapCount(given)
    /\ \A i \in 2..Len(given) : \A p \in ToSet(result) :
          p.ledger \in given[i - 1].ledger..given[i].ledger =>
             /\ Min({given[i - 1].fee, given[i].fee}) <= p.fee
             /\ p.fee <= Max({given[i - 1].fee, given[i].fee})

LEMMA FillIsSeq == ASSUME NEW ps \in Seq(FeePoint) PROVE FillGaps(ps) \in Seq(FeePoint)
<1>1. PICK f \in [0..Len(ps) -> Seq(FeePoint)] : FillGaps(ps) = f[Len(ps)]
  BY FilledFolds
<1> QED
  BY <1>1

LEMMA FillsNothing == FillsWell(<<>>, FillGaps(<<>>))
<1>1. <<>> \in Seq(FeePoint) /\ Len(<<>>) = 0 /\ DOMAIN <<>> = {}
  OBVIOUS
<1>2. FillGaps(<<>>) = <<>>
  BY <1>1, FilledFolds DEF Fills
<1>3. ASSUME NEW places PROVE Selected(<<>>, places) = <<>>
  <2>1. PICK seq \in Seq(FeePoint) : seq = <<>> /\ Len(seq) = 0
    BY <1>1
  <2>2. PICK f \in [0..Len(seq) -> Seq(FeePoint)] : Selects(f, seq, places) /\ Selected(seq, places) = f[Len(seq)]
    BY SelectedFolds
  <2> QED
    BY <2>1, <2>2 DEF Selects
<1>4. Counts(<<>>).gaps = 0 /\ Counts(<<>>).duplicates = 0 /\ Counts(<<>>).outOfOrder = 0
  <2>1. PICK s \in Seq(FeePoint) : s = <<>> /\ Len(s) = 0
    BY <1>1
  <2>2. 1..0 = {} /\ 2..0 = {} /\ 0 \in Nat
    OBVIOUS
  <2>3. /\ \A j \in 1..Len(s) : s[j].ledger = 0 + j - 1
        /\ \A j \in 2..Len(s) : s[j - 1].at <= s[j].at
    BY <2>1, <2>2
  <2>4. Counts(s).gaps = 0 /\ Counts(s).duplicates = 0 /\ Counts(s).outOfOrder = 0
    BY <2>2, <2>3, NothingCounted
  <2> QED
    BY <2>1, <2>4
<1>5. GapCount(<<>>) = 0
  BY <1>1 DEF GapCount
<1>6. InterpolatedOnly(<<>>) = <<>>
  BY <1>2, <1>3 DEF InterpolatedOnly
<1>7. Selected(<<>>, {i \in DOMAIN <<>> : <<>>[i].ledger \in LedgersOf(<<>>)}) = <<>>
  BY <1>3
<1>8. 2..0 = {} /\ 0 = 0 + 0
  OBVIOUS
<1> QED
  BY <1>1, <1>2, <1>4, <1>5, <1>6, <1>7, <1>8 DEF FillsWell

LEMMA FillsInOrder ==
    ASSUME NEW ps \in Seq(FeePoint), InOrder(ps) PROVE FillsWell(ps, FillGaps(ps))
<1>1. CASE ps = <<>>
  BY <1>1, FillsNothing
<1>2. CASE ps # <<>>
  <2>1. PICK r \in Seq(FeePoint) : r = FillGaps(ps)
    BY FillIsSeq
  <2>2. Filled(r, ps, Len(ps))
    BY <1>2, <2>1, FilledIs
  <2>3. PICK L \in Nat \ {0}, n \in Nat : L = Len(ps) /\ n = Len(r) /\ DOMAIN ps = 1..L /\ DOMAIN r = 1..n
    BY <1>2
  <2>4. 1 \in 1..L /\ L \in 1..L
    BY <2>3
  <2>5. PICK led \in [1..L -> Nat] : \A i \in 1..L : led[i] = ps[i].ledger
    <3>1. \A i \in 1..L : ps[i].ledger \in Nat
      <4> SUFFICES ASSUME NEW i \in 1..L PROVE ps[i].ledger \in Nat
        OBVIOUS
      <4>1. ps[i] \in FeePoint
        BY <2>3
      <4> QED
        BY <4>1 DEF FeePoint
    <3>2. [i \in 1..L |-> ps[i].ledger] \in [1..L -> Nat]
      BY <3>1
    <3> QED
      BY <3>2
  <2>6. PICK first \in Nat, last \in Nat : first = led[1] /\ last = led[L]
    BY <2>4
  <2>7. /\ n = last - first + 1
        /\ \A j \in 1..n : r[j].ledger = first + j - 1
        /\ \A j \in 2..n : r[j - 1].at <= r[j].at
        /\ \A i \in 1..L : r[led[i] - first + 1] = ps[i]
        /\ \A i \in 2..L, j \in 1..n :
              ps[i - 1].ledger <= r[j].ledger /\ r[j].ledger <= ps[i].ledger
                 => FeeBetween(r[j].fee, ps[i - 1].fee, ps[i].fee)
    BY <2>2, <2>3, <2>4, <2>5, <2>6 DEF Filled
  <2>8. \A i, j \in 1..L : i < j => led[i] < led[j]
    BY <2>3, <2>5, LedgersRise
  <2>9. \A k \in 1..L : first + k - 1 <= led[k]
    BY <1>2, <2>3, <2>4, <2>5, <2>6, LedgersSpread
  <2>10. Counts(r).gaps = 0 /\ Counts(r).duplicates = 0 /\ Counts(r).outOfOrder = 0
    BY <2>3, <2>7, NothingCounted
  <2>11. L <= n
    <3>1. first + L - 1 <= led[L]
      BY <2>4, <2>9, Zenon
    <3>2. first + L - 1 <= last
      BY <2>6, <3>1, Zenon
    <3>3. n = last - first + 1
      BY <2>7, Zenon
    <3> QED
      BY <3>2, <3>3
  <2>12. GapCount(ps) = n - L
    <3>1. CASE L < 2
      <4>1. L = 1
        BY <3>1
      <4>2. n = 1
        BY <2>6, <2>7, <4>1
      <4> QED
        BY <2>3, <4>1, <4>2 DEF GapCount
    <3>2. CASE ~(L < 2)
      <4>1. GapCount(ps) = Max({0, last - first + 1 - L})
        BY <2>3, <2>4, <2>5, <2>6, <3>2 DEF GapCount
      <4>2. last - first + 1 - L = n - L /\ n - L \in Nat
        BY <2>7, <2>11
      <4>3. Max({0, n - L}) = n - L
        BY <4>2, GreaterOf
      <4> QED
        BY <4>1, <4>2, <4>3
    <3> QED
      BY <3>1, <3>2
  <2> DEFINE P == {i \in DOMAIN r : r[i].ledger \in LedgersOf(ps)}
             Q == {i \in DOMAIN r : r[i].ledger \notin LedgersOf(ps)}
             m == [i \in 1..L |-> led[i] - first + 1]
  <2>13. \A i \in 1..L : led[i] - first + 1 \in 1..n
    <3> SUFFICES ASSUME NEW i \in 1..L PROVE led[i] - first + 1 \in 1..n
      OBVIOUS
    <3>1. PICK x \in Nat : x = led[i]
      OBVIOUS
    <3>2. first <= x
      BY <2>9, <3>1
    <3>3. i = L \/ i < L
      OBVIOUS
    <3>4. x <= last
      BY <2>4, <2>6, <2>8, <3>1, <3>3
    <3>5. x - first + 1 \in 1..n
      BY <2>7, <3>2, <3>4
    <3> QED
      BY <3>1, <3>5
  <2>14. m \in [1..L -> 1..n]
    BY <2>13
  <2>15. \A i, j \in 1..L : i < j => m[i] < m[j]
    <3> SUFFICES ASSUME NEW i \in 1..L, NEW j \in 1..L, i < j PROVE m[i] < m[j]
      OBVIOUS
    <3>1. PICK x \in Nat, y \in Nat : x = led[i] /\ y = led[j]
      OBVIOUS
    <3>2. x < y
      BY <2>8, <3>1
    <3> QED
      BY <3>1, <3>2
  <2>16. ASSUME NEW k \in 1..n PROVE k \in P <=> \E i \in 1..L : m[i] = k
    <3>1. k \in P <=> \E i \in 1..L : led[i] = first + k - 1
      <4>1. r[k].ledger = first + k - 1
        BY <2>7, Zenon
      <4>2. k \in P <=> r[k].ledger \in LedgersOf(ps)
        BY <2>3
      <4>3. \A x : x \in LedgersOf(ps) <=> \E i \in 1..L : x = ps[i].ledger
        BY <2>3, Zenon DEF LedgersOf
      <4> HIDE DEF P
      <4>4. k \in P <=> \E i \in 1..L : first + k - 1 = ps[i].ledger
        BY <4>1, <4>2, <4>3, Zenon
      <4> QED
        BY <2>5, <4>4, Zenon
    <3>2. \A i \in 1..L : led[i] = first + k - 1 <=> m[i] = k
      <4> SUFFICES ASSUME NEW i \in 1..L PROVE led[i] = first + k - 1 <=> led[i] - first + 1 = k
        OBVIOUS
      <4>1. PICK x \in Nat : x = led[i]
        OBVIOUS
      <4>2. x = first + k - 1 <=> x - first + 1 = k
        OBVIOUS
      <4> QED
        BY <4>1, <4>2
    <3> HIDE DEF P, m
    <3> QED
      BY <3>1, <3>2
  <2>17. /\ Selected(r, P) \in Seq(FeePoint) /\ Len(Selected(r, P)) = L
         /\ \A i \in 1..L : Selected(r, P)[i] = r[m[i]]
    <3> HIDE DEF P, m
    <3>1. Lists(m, L, P, Len(r)) /\ L \in Nat
      BY <2>3, <2>14, <2>15, <2>16 DEF Lists
    <3> QED
      BY <3>1, SelectionIs
  <2>18. Selected(r, P) = ps
    <3>1. \A i \in 1..L : r[m[i]] = ps[i]
      BY <2>7
    <3> HIDE DEF P, m
    <3>2. PICK t \in Seq(FeePoint) : t = Selected(r, P) /\ Len(t) = L /\ \A i \in 1..L : t[i] = ps[i]
      <4>1. \A i \in 1..L : Selected(r, P)[i] = ps[i]
        BY <2>17, <3>1, Zenon
      <4> QED
        BY <2>17, <4>1, Zenon
    <3>3. t = ps
      BY <2>3, <3>2, SameSeq
    <3> QED
      BY <3>2, <3>3
  <2>19. InterpolatedOnly(ps) = Selected(r, Q)
    BY <2>1 DEF InterpolatedOnly
  <2>20. Len(Selected(r, P)) + Len(Selected(r, Q)) = n
    <3>1. \A k \in 1..n : k \in Q <=> k \notin P
      BY <2>3
    <3> HIDE DEF P, Q
    <3> QED
      BY <2>3, <3>1, SelectedOthers
  <2>21. Len(InterpolatedOnly(ps)) = n - L
    <3>1. Selected(r, Q) \in Seq(FeePoint)
      <4> HIDE DEF Q
      <4> QED
        BY SelectedIs
    <3>2. PICK c \in Nat : c = Len(Selected(r, Q))
      <4> HIDE DEF Q
      <4> QED
        BY <3>1
    <3> HIDE DEF P, Q
    <3>3. L + c = n
      BY <2>17, <2>20, <3>2
    <3>4. c = n - L
      BY <3>3
    <3> QED
      BY <2>19, <3>2, <3>4
  <2>22. ASSUME NEW i \in 2..L, NEW p \in ToSet(r), p.ledger \in ps[i - 1].ledger..ps[i].ledger
         PROVE  /\ Min({ps[i - 1].fee, ps[i].fee}) <= p.fee
                /\ p.fee <= Max({ps[i - 1].fee, ps[i].fee})
    <3>1. PICK j \in 1..n : p = r[j]
      BY <2>3 DEF ToSet
    <3>2. i \in 1..L /\ i - 1 \in 1..L
      OBVIOUS
    <3>3. PICK x \in FeePoint, y \in FeePoint, z \in FeePoint : x = ps[i - 1] /\ y = ps[i] /\ z = p
      BY <2>3, <3>1, <3>2
    <3>4. /\ x.fee \in Nat /\ y.fee \in Nat /\ z.fee \in Nat
          /\ x.ledger \in Nat /\ y.ledger \in Nat /\ z.ledger \in Nat
      BY DEF FeePoint
    <3>5. x.ledger <= z.ledger /\ z.ledger <= y.ledger
      BY <2>22, <3>3, <3>4
    <3>6. FeeBetween(z.fee, x.fee, y.fee)
      BY <2>7, <3>1, <3>3, <3>5
    <3>7. /\ Min({x.fee, y.fee}) = IF x.fee <= y.fee THEN x.fee ELSE y.fee
          /\ Max({x.fee, y.fee}) = IF x.fee <= y.fee THEN y.fee ELSE x.fee
      <4>1. PICK a \in Nat, b \in Nat : a = x.fee /\ b = y.fee
        BY <3>4
      <4>2. a \in Int /\ b \in Int
        OBVIOUS
      <4>3. Min({a, b}) = IF a <= b THEN a ELSE b
        BY ONLY <4>2, LesserOf
      <4>4. Max({a, b}) = IF a <= b THEN b ELSE a
        BY ONLY <4>2, GreaterOf
      <4> QED
        BY <4>1, <4>3, <4>4
    <3>8. Min({x.fee, y.fee}) <= z.fee /\ z.fee <= Max({x.fee, y.fee})
      BY <3>4, <3>6, <3>7 DEF FeeBetween
    <3> QED
      BY <3>3, <3>8
  <2>23. n = L + GapCount(ps) /\ Len(InterpolatedOnly(ps)) = GapCount(ps)
    BY <2>12, <2>21
  <2> HIDE DEF Q, m
  <2>24. FillsWell(ps, r)
    BY <2>3, <2>10, <2>18, <2>22, <2>23 DEF FillsWell
  <2> QED
    BY <2>1, <2>24
<1> QED
  BY <1>1, <1>2

-----------------------------------------------------------------------------
(* The invariant of the tools for recorded points: the sequence at hand and what *)
(* the last tool was given are sequences of fee points, and the tool did what it *)
(* promises.                                                                     *)

QualityInv ==
    /\ points \in Seq(FeePoint) /\ before \in Seq(FeePoint)
    /\ tool \in {"record", "keep first", "keep last", "merge", "repair", "fill"}
    /\ Cleans

LEMMA QualityInvTypes == ASSUME QualityInv PROVE QualityTypeOK
<1>1. ASSUME NEW i \in DOMAIN points
      PROVE  points[i].ledger \in Nat /\ points[i].fee \in Nat /\ points[i].at \in Nat /\ points[i].spike \in BOOLEAN
  <2>1. points[i] \in FeePoint
    <3>1. points \in Seq(FeePoint)
      BY DEF QualityInv
    <3> QED
      BY <3>1
  <2> QED
    BY <2>1 DEF FeePoint
<1> QED
  BY <1>1 DEF QualityInv, QualityTypeOK

LEMMA InitQuality == ASSUME QualityInit PROVE QualityInv
<1>1. <<>> \in Seq(FeePoint)
  OBVIOUS
<1>2. Cleans
  BY DEF QualityInit, Cleans
<1> QED
  BY <1>1, <1>2 DEF QualityInit, QualityInv

LEMMA RecordPointKeeps == ASSUME QualityInv, RecordPoint PROVE QualityInv'
<1>1. PICK p \in FeePoint : points' = Append(points, p)
  BY DataQualityAssumption DEF RecordPoint, FeePoint
<1>2. points' \in Seq(FeePoint)
  <2>1. points \in Seq(FeePoint)
    BY DEF QualityInv
  <2>2. Append(points, p) \in Seq(FeePoint)
    BY <2>1
  <2> QED
    BY <1>1, <2>2
<1>3. tool' = "record" /\ before' \in Seq(FeePoint)
  BY DEF RecordPoint, QualityInv
<1>4. Cleans'
  BY <1>3 DEF Cleans
<1> QED
  BY <1>2, <1>3, <1>4 DEF QualityInv

LEMMA DedupKeeps == ASSUME QualityInv, Dedup PROVE QualityInv'
<1>1. before' = points /\ points \in Seq(FeePoint)
  BY DEF QualityInv, Dedup, Use
<1>2. CASE Use("keep first", points, RemoveDuplicates(points))
  <2>1. tool' = "keep first" /\ points' = RemoveDuplicates(points)
    BY <1>2 DEF Use
  <2>2. points' = Firsts(before') /\ points' \in Seq(FeePoint)
    BY <1>1, <2>1, KeptIs
  <2>3. Cleans'
    BY <2>1, <2>2 DEF Cleans
  <2> QED
    BY <1>1, <2>1, <2>2, <2>3 DEF QualityInv
<1>3. CASE Use("keep last", points, RemoveDuplicatesKeepLast(points))
  <2>1. tool' = "keep last" /\ points' = RemoveDuplicatesKeepLast(points)
    BY <1>3 DEF Use
  <2>2. points' = Lasts(before') /\ points' \in Seq(FeePoint)
    BY <1>1, <2>1, KeptLastIs
  <2>3. Cleans'
    BY <2>1, <2>2 DEF Cleans
  <2> QED
    BY <1>1, <2>1, <2>2, <2>3 DEF QualityInv
<1> QED
  BY <1>2, <1>3 DEF Dedup

LEMMA MergeBackKeeps == ASSUME QualityInv, MergeBack PROVE QualityInv'
<1>1. PICK both \in Seq(FeePoint) : both = points \o before
  <2>1. points \in Seq(FeePoint) /\ before \in Seq(FeePoint)
    BY DEF QualityInv
  <2>2. points \o before \in Seq(FeePoint)
    BY <2>1
  <2> QED
    BY <2>2
<1>2. tool' = "merge" /\ before' = both /\ points' = RemoveDuplicates(both)
  BY <1>1 DEF MergeBack, Use, MergeOf
<1>3. points' = Firsts(before') /\ points' \in Seq(FeePoint)
  BY <1>2, KeptIs
<1>4. Cleans'
  BY <1>2, <1>3 DEF Cleans
<1> QED
  BY <1>2, <1>3, <1>4 DEF QualityInv

LEMMA RunRepairKeeps == ASSUME QualityInv, RunRepair PROVE QualityInv'
<1>1. before' = points /\ points \in Seq(FeePoint) /\ tool' = "repair" /\ points' = Repaired(before')
  BY DEF QualityInv, RunRepair, Use
<1>2. before' \in Seq(FeePoint)
  BY <1>1
<1>3. /\ points' \in Seq(FeePoint) /\ Len(points') = Len(Firsts(before'))
      /\ \A i \in 2..Len(points') : Earlier(points'[i - 1], points'[i])
      /\ \A i \in DOMAIN points' : \E p \in ToSet(Firsts(before')) :
            /\ points'[i] = [p EXCEPT !.fee = points'[i].fee]
            /\ points'[i].fee = p.fee \/ \E issue \in ToSet(Detect(before')) : issue.ledger = p.ledger
  BY <1>1, <1>2, RepairedIs
<1>4. Cleans'
  BY <1>1, <1>3 DEF Cleans
<1> QED
  BY <1>1, <1>2, <1>3, <1>4 DEF QualityInv

LEMMA RunFillKeeps == ASSUME QualityInv, RunFill PROVE QualityInv'
<1>1. before' = points /\ points \in Seq(FeePoint) /\ tool' = "fill" /\ points' = FillGaps(before')
  BY DEF QualityInv, RunFill, Use
<1>2. before' \in Seq(FeePoint)
  BY <1>1
<1>3. points' \in Seq(FeePoint)
  BY <1>1, <1>2, FillIsSeq
<1>4. InOrder(before') => FillsWell(before', points')
  BY <1>1, <1>2, FillsInOrder
<1>5. Cleans'
  BY <1>1, <1>4 DEF Cleans, FillsWell
<1> QED
  BY <1>1, <1>2, <1>3, <1>5 DEF QualityInv

LEMMA NextQuality == ASSUME QualityInv, [QualityNext]_qualityVars PROVE QualityInv'
<1>1. CASE UNCHANGED qualityVars
  BY <1>1 DEF QualityInv, qualityVars, Cleans
<1> QED
  BY <1>1, RecordPointKeeps, DedupKeeps, MergeBackKeeps, RunRepairKeeps, RunFillKeeps DEF QualityNext

LEMMA StepOfQuality == [Next]_vars => [QualityNext]_qualityVars
  BY DEF Next, DevkitNext, TracingNext, vars, devkitVars

LEMMA QualityHolds == Spec => []QualityInv
<1>1. Init => QualityInv
  BY InitQuality DEF Init
<1>2. QualityInv /\ [Next]_vars => QualityInv'
  BY StepOfQuality, NextQuality
<1> QED
  BY <1>1, <1>2, PTL DEF Spec

(* The duplicate remover, repair and the gap interpolator do what they promise, *)
(* for every sequence of points that was recorded or comes out of another tool. *)
THEOREM CleansCorrect == Spec => []Cleans
<1>1. QualityInv => Cleans
  BY DEF QualityInv
<1> QED
  BY <1>1, QualityHolds, PTL

(* The breaker, the bulkhead, the simulations, the points and the log keep to *)
(* their types.                                                                *)
THEOREM DevkitTypes == Spec => []TypeOK
<1>1. QualityInv => QualityTypeOK
  BY QualityInvTypes
<1>2. ResilienceTypeOK /\ SimulationTypeOK /\ QualityTypeOK /\ LogTypeOK => TypeOK
  BY DEF TypeOK
<1> QED
  BY <1>1, <1>2, ResilienceTypes, SimulationTypes, QualityHolds, LogTypes, PTL
=============================================================================
