-------------------------- MODULE PollingTask_proofs ---------------------------
(***************************************************************************)
(* Proofs about what the polling task steps through. First the pipeline,   *)
(* for every network, page size, capacity, retry limit and number of       *)
(* crashes that the assumptions of FeePolling allow; then the alert        *)
(* manager, for any number of spikes, configs, webhooks and restarts. The  *)
(* two share no variable.                                                  *)
(***************************************************************************)
EXTENDS FeePolling, AlertManager, FiniteSetTheorems, SequenceTheorems, WellFoundedInduction, TLAPS

-----------------------------------------------------------------------------
(* The store as a sequence.                                                *)

(* s holds no transaction twice. *)
Distinct(s) == \A i, j \in 1..Len(s) : i # j => s[i] # s[j]

(* An entry is followed only by newer ones and by ones less than Reorder
   older. *)
Close(s) == \A i, j \in 1..Len(s) : i < j => s[i] < s[j] + Reorder

(* The constants are numbers, and the capacity covers a page and what can be
   out of order behind an entry. *)
LEMMA ConstantFacts ==
    /\ Reorder \in Nat /\ Reorder >= FetchLimit /\ Reorder >= LedgerSize /\ Reorder >= 1
    /\ FetchLimit \in Nat /\ FetchLimit >= 1
    /\ LedgerSize \in Nat /\ LedgerSize >= 1
    /\ Capacity \in Nat /\ Capacity >= 1
    /\ Capacity >= FetchLimit + Reorder - 1
  BY BoundsAssumption, CapacityAssumption DEF Reorder

(* Fewer than Reorder + (T - x) entries follow an entry x of a distinct, close
   sequence over 1..T: they are distinct numbers between x - Reorder and T. *)
LEMMA FollowersBounded ==
    ASSUME NEW T \in Nat, NEW t \in Seq(1..T), Distinct(t), Close(t),
           NEW i \in 1..Len(t)
    PROVE  Len(t) - i <= T - t[i] + Reorder - 1
<1> DEFINE x == t[i]
           A == x - Reorder + 1
           S == (A..T) \ {x}
           D == (i+1)..Len(t)
           f == [j \in D |-> t[j]]
<1>0. /\ Len(t) \in Nat /\ i \in Nat /\ x \in 1..T /\ Reorder \in Nat /\ Reorder >= 1
      /\ \A j \in 1..Len(t) : t[j] \in 1..T
  BY ConstantFacts, LenProperties, ElementOfSeq
<1>1. A \in Int /\ A <= x /\ x \in A..T
  BY <1>0
<1>2. IsFiniteSet(A..T) /\ Cardinality(A..T) = T - A + 1
  <2>1. A \in Int /\ T \in Int /\ ~(A > T)
    BY <1>0, <1>1
  <2> HIDE DEF A
  <2> QED BY <2>1, FS_Interval
<1>3. IsFiniteSet(S) /\ Cardinality(S) = T - A
  <2>1. IsFiniteSet(S) /\ Cardinality(S) = Cardinality(A..T) - 1
    BY <1>1, <1>2, FS_RemoveElement
  <2> QED BY <1>0, <1>1, <1>2, <2>1
<1>4. \A j \in D : t[j] \in S
  <2> SUFFICES ASSUME NEW j \in D PROVE t[j] \in S
    OBVIOUS
  <2>1. j \in 1..Len(t) /\ i < j /\ j # i
    BY <1>0
  <2>2. x < t[j] + Reorder
    BY <2>1 DEF Close
  <2>3. t[j] # x
    BY <2>1 DEF Distinct
  <2> QED BY <1>0, <2>1, <2>2, <2>3
<1>5. f \in Injection(D, S)
  <2>1. f \in [D -> S]
    BY <1>4
  <2>2. \A j, k \in D : f[j] = f[k] => j = k
    <3> SUFFICES ASSUME NEW j \in D, NEW k \in D, j # k PROVE t[j] # t[k]
      OBVIOUS
    <3>1. j \in 1..Len(t) /\ k \in 1..Len(t)
      BY <1>0
    <3> QED BY <3>1 DEF Distinct
  <2> QED BY <2>1, <2>2 DEF Injection, IsInjective
<1>6. Cardinality(D) <= T - A
  BY <1>3, <1>5, FS_Injection
<1>7. Cardinality(D) = Len(t) - i
  BY <1>0, FS_Interval
<1> QED BY <1>0, <1>6, <1>7

(* How many entries leave when b is pushed behind s. *)
Over(s, b) == IF Len(s \o b) > Capacity THEN Len(s \o b) - Capacity ELSE 0

(* PushAll keeps the last entries of s \o b, at most Capacity of them. *)
LEMMA PushAllIndex ==
    ASSUME NEW T \in Nat, NEW s \in Seq(1..T), NEW b \in Seq(1..T)
    PROVE  /\ Over(s, b) \in Nat
           /\ PushAll(s, b) \in Seq(1..T)
           /\ Len(PushAll(s, b)) = Len(s \o b) - Over(s, b)
           /\ Len(PushAll(s, b)) <= Capacity
           /\ \A i \in 1..Len(PushAll(s, b)) :
                /\ i + Over(s, b) \in 1..Len(s \o b)
                /\ PushAll(s, b)[i] = (s \o b)[i + Over(s, b)]
<1> DEFINE t == s \o b
           over == Over(s, b)
<1>1. t \in Seq(1..T) /\ Len(t) \in Nat
  BY ConcatProperties, LenProperties
<1>2. over \in Nat /\ over <= Len(t) /\ Len(t) - over <= Capacity
  BY <1>1, ConstantFacts DEF Over
<1>3. PushAll(s, b) = SubSeq(t, over + 1, Len(t))
  BY DEF PushAll, Over
<1> HIDE DEF t, over
<1>4. \A i \in (over+1)..Len(t) : t[i] \in 1..T
  BY <1>1, <1>2, ElementOfSeq
<1>5. /\ SubSeq(t, over + 1, Len(t)) \in Seq(1..T)
      /\ Len(SubSeq(t, over + 1, Len(t))) = Len(t) - over
      /\ \A i \in 1..(Len(t) - over) :
           SubSeq(t, over + 1, Len(t))[i] = t[i + over]
  <2> DEFINE m == over + 1
             n == Len(t)
  <2>1. m \in Int /\ n \in Int
    BY <1>1, <1>2
  <2>2. /\ SubSeq(t, m, n) \in Seq(1..T)
        /\ Len(SubSeq(t, m, n)) = IF m <= n THEN n - m + 1 ELSE 0
        /\ \A i \in 1..(n - m + 1) : SubSeq(t, m, n)[i] = t[m + i - 1]
    BY <1>4, <2>1, SubSeqProperties
  <2>3. n - m + 1 = n - over
    BY <1>1, <1>2
  <2>4. Len(SubSeq(t, m, n)) = n - over
    BY <1>1, <1>2, <2>2
  <2>5. ASSUME NEW i \in 1..(n - over) PROVE SubSeq(t, m, n)[i] = t[i + over]
    <3>1. m + i - 1 = i + over
      BY <1>1, <1>2
    <3> QED BY <2>2, <2>3, <3>1
  <2> QED BY <2>2, <2>4, <2>5
<1>6. /\ over \in Nat
      /\ PushAll(s, b) \in Seq(1..T)
      /\ Len(PushAll(s, b)) = Len(t) - over
      /\ Len(PushAll(s, b)) <= Capacity
      /\ \A i \in 1..Len(PushAll(s, b)) :
            /\ i + over \in 1..Len(t)
            /\ PushAll(s, b)[i] = t[i + over]
  BY <1>1, <1>2, <1>3, <1>5
<1> QED BY <1>6 DEF t, over

(* What a push into the store leaves, when what is pushed keeps the sequence
   distinct and close: the store stays distinct, close and within capacity,
   holds nothing new but b, and still holds everything of the latest page. *)
LEMMA PushKeeps ==
    ASSUME NEW T \in Nat, NEW s \in Seq(1..T), NEW b \in Seq(1..T),
           Distinct(s \o b), Close(s \o b)
    PROVE  /\ PushAll(s, b) \in Seq(1..T)
           /\ Len(PushAll(s, b)) <= Capacity
           /\ Distinct(PushAll(s, b))
           /\ Close(PushAll(s, b))
           /\ Elements(PushAll(s, b)) \subseteq Elements(s) \cup Elements(b)
           /\ \A x \in Elements(s) \cup Elements(b) :
                x + FetchLimit > T => x \in Elements(PushAll(s, b))
<1> DEFINE t == s \o b
           over == Over(s, b)
           p == PushAll(s, b)
<1>1. t \in Seq(1..T) /\ Len(t) \in Nat /\ Len(s) \in Nat /\ Len(b) \in Nat
  BY ConcatProperties, LenProperties
<1>2. /\ Len(t) = Len(s) + Len(b)
      /\ \A i \in 1..Len(t) : t[i] = IF i <= Len(s) THEN s[i] ELSE b[i - Len(s)]
  BY ConcatProperties
<1>3. /\ over \in Nat /\ p \in Seq(1..T) /\ Len(p) = Len(t) - over
      /\ Len(p) <= Capacity
      /\ \A i \in 1..Len(p) : i + over \in 1..Len(t) /\ p[i] = t[i + over]
  BY PushAllIndex
<1>4. Len(p) \in Nat
  BY <1>3, LenProperties
<1>5. over = IF Len(t) > Capacity THEN Len(t) - Capacity ELSE 0
  BY DEF Over
<1>6. Distinct(t) /\ Close(t)
  OBVIOUS
<1>7. Elements(t) = Elements(s) \cup Elements(b)
  <2>1. Elements(t) \subseteq Elements(s) \cup Elements(b)
    BY <1>1, <1>2 DEF Elements
  <2>2. Elements(s) \subseteq Elements(t)
    BY <1>1, <1>2 DEF Elements
  <2>3. ASSUME NEW i \in 1..Len(b) PROVE b[i] \in Elements(t)
    <3>1. i + Len(s) \in 1..Len(t) /\ ~(i + Len(s) <= Len(s)) /\ i + Len(s) - Len(s) = i
      BY <1>1, <1>2
    <3>2. t[i + Len(s)] = b[i]
      BY <1>2, <3>1
    <3> QED BY <3>1, <3>2 DEF Elements
  <2> QED BY <2>1, <2>2, <2>3 DEF Elements
<1> HIDE DEF t, over, p
<1>8. Distinct(p)
  <2> SUFFICES ASSUME NEW i \in 1..Len(p), NEW j \in 1..Len(p), i # j
               PROVE  p[i] # p[j]
    BY DEF Distinct
  <2>1. i + over \in 1..Len(t) /\ j + over \in 1..Len(t) /\ i + over # j + over
    BY <1>3, <1>4
  <2>2. t[i + over] # t[j + over]
    BY <1>6, <2>1 DEF Distinct
  <2> QED BY <1>3, <2>2
<1>9. Close(p)
  <2> SUFFICES ASSUME NEW i \in 1..Len(p), NEW j \in 1..Len(p), i < j
               PROVE  p[i] < p[j] + Reorder
    BY DEF Close
  <2>1. i + over \in 1..Len(t) /\ j + over \in 1..Len(t) /\ i + over < j + over
    BY <1>3, <1>4
  <2>2. t[i + over] < t[j + over] + Reorder
    BY <1>6, <2>1 DEF Close
  <2> QED BY <1>3, <2>2
<1>10. Elements(p) \subseteq Elements(t)
  BY <1>3 DEF Elements
<1>11. ASSUME NEW x \in Elements(t), x + FetchLimit > T
       PROVE  x \in Elements(p)
  <2>1. PICK i \in 1..Len(t) : x = t[i]
    BY DEF Elements
  <2>2. x \in 1..T
    BY <1>1, <2>1, ElementOfSeq
  <2>3. Len(t) - i <= T - x + Reorder - 1
    BY <1>1, <1>6, <2>1, FollowersBounded
  <2>4. Len(t) - i < Capacity
    BY <1>1, <1>11, <2>2, <2>3, ConstantFacts
  <2>5. i > over
    BY <1>1, <1>5, <2>4, ConstantFacts
  <2>6. i - over \in 1..Len(p) /\ (i - over) + over = i
    BY <1>1, <1>3, <2>5
  <2>7. p[i - over] = t[i]
    BY <1>3, <2>6
  <2> QED BY <2>1, <2>6, <2>7 DEF Elements
<1> QED BY <1>3, <1>7, <1>8, <1>9, <1>10, <1>11 DEF t, p

(* A sequence of Cardinality(S) distinct members of S lists all of S. *)
LEMMA ListsAll ==
    ASSUME NEW S, IsFiniteSet(S), NEW s \in [1..Cardinality(S) -> S],
           \A i, j \in 1..Cardinality(S) : i # j => s[i] # s[j]
    PROVE  s \in Seq(S) /\ Len(s) = Cardinality(S) /\ Elements(s) = S
<1> DEFINE n == Cardinality(S)
<1>1. n \in Nat
  BY FS_CardinalityType
<1>2. s \in Seq(S) /\ Len(s) = n
  BY <1>1
<1>3. s \in Injection(1..n, S)
  BY DEF Injection, IsInjective
<1>4. Cardinality(1..n) = n
  BY <1>1, FS_Interval
<1>5. s \in Surjection(1..n, S)
  BY <1>3, <1>4, FS_Injection
<1>6. Elements(s) = S
  BY <1>2, <1>5 DEF Surjection, Elements
<1> QED BY <1>2, <1>6

-----------------------------------------------------------------------------
(* Types.                                                                  *)

(* TypeOK, and a task that sleeps has an attempt left: without it the attempt
   counter is not bounded by induction. *)
TypeInv == TypeOK /\ (pc = "backoff" => attempt < MaxAttempts)

(* Subsets of 1..tip are finite. *)
LEMMA FinitePoints ==
    ASSUME NEW T \in Nat, NEW S \in SUBSET (1..T)
    PROVE  IsFiniteSet(S) /\ Cardinality(S) \in Nat
<1>1. IsFiniteSet(1..T)
  BY FS_Interval
<1>2. IsFiniteSet(S)
  BY <1>1, FS_Subset
<1> QED BY <1>2, FS_CardinalityType

(* What a page of points looks like as a sequence. *)
LEMMA NewestFirstFacts ==
    ASSUME NEW T \in Nat, NEW S \in SUBSET (1..T), NEW s \in NewestFirst(S)
    PROVE  s \in Seq(1..T) /\ Distinct(s) /\ Elements(s) = S
<1> DEFINE n == Cardinality(S)
<1>1. IsFiniteSet(S) /\ n \in Nat
  BY FinitePoints
<1>2. s \in [1..n -> S] /\ \A i, j \in 1..n : i < j => s[i] > s[j]
  BY DEF NewestFirst
<1>0. \A x \in S : x \in Nat /\ x >= 1 /\ x <= T
  OBVIOUS
<1>3. \A i, j \in 1..n : i # j => s[i] # s[j]
  <2> SUFFICES ASSUME NEW i \in 1..n, NEW j \in 1..n, i # j PROVE s[i] # s[j]
    OBVIOUS
  <2>1. s[i] \in S /\ s[j] \in S
    BY <1>2
  <2>2. s[i] \in Nat /\ s[j] \in Nat
    BY <1>0, <2>1
  <2>3. i < j \/ j < i
    BY <1>1
  <2> QED BY <1>2, <2>2, <2>3
<1>4. s \in Seq(S) /\ Len(s) = n /\ Elements(s) = S
  BY <1>1, <1>2, <1>3, ListsAll
<1>5. s \in Seq(1..T)
  BY <1>4, SeqMonotonic
<1> QED BY <1>3, <1>4, <1>5 DEF Distinct

(* What the rows of the last day look like as a sequence. *)
LEMMA ByTimestampFacts ==
    ASSUME NEW T \in Nat, T <= MaxTx, NEW S \in SUBSET (1..T), NEW s \in ByTimestamp(S)
    PROVE  s \in Seq(1..T) /\ Distinct(s) /\ Close(s) /\ Elements(s) = S
<1> DEFINE n == Cardinality(S)
<1>1. IsFiniteSet(S) /\ n \in Nat
  BY FinitePoints
<1>2. /\ s \in [1..n -> S]
      /\ \A i, j \in 1..n : i < j => s[i] # s[j] /\ LedgerOf[s[i]] <= LedgerOf[s[j]]
  BY DEF ByTimestamp
<1>0. \A x \in S : x \in Nat /\ x >= 1 /\ x <= T
  OBVIOUS
<1>3. \A i, j \in 1..n : i # j => s[i] # s[j]
  <2> SUFFICES ASSUME NEW i \in 1..n, NEW j \in 1..n, i # j PROVE s[i] # s[j]
    OBVIOUS
  <2>1. i < j \/ j < i
    BY <1>1
  <2> QED BY <1>2, <2>1
<1>4. s \in Seq(S) /\ Len(s) = n /\ Elements(s) = S
  BY <1>1, <1>2, <1>3, ListsAll
<1>5. s \in Seq(1..T)
  BY <1>4, SeqMonotonic
<1>6. \A i, j \in 1..n : i < j => s[i] < s[j] + Reorder
  <2> SUFFICES ASSUME NEW i \in 1..n, NEW j \in 1..n, i < j
               PROVE  s[i] < s[j] + Reorder
    OBVIOUS
  <2>0. s[i] \in S /\ s[j] \in S
    BY <1>2
  <2>1. s[i] \in Tx /\ s[j] \in Tx /\ s[i] \in Nat /\ s[j] \in Nat
    <3>1. MaxTx \in Nat
      BY BoundsAssumption
    <3>2. \A x \in S : x \in Tx
      BY <1>0, <3>1 DEF Tx
    <3> QED BY <1>0, <2>0, <3>2
  <2>2. LedgerOf[s[i]] <= LedgerOf[s[j]] /\ LedgerOf[s[i]] \in Nat /\ LedgerOf[s[j]] \in Nat
    BY <1>2, <2>1, LedgerAssumption
  <2>3. CASE s[i] <= s[j]
    BY <2>1, <2>3, ConstantFacts
  <2>4. CASE s[j] <= s[i]
    <3>1. LedgerOf[s[i]] = LedgerOf[s[j]]
      BY <2>1, <2>2, <2>4, LedgerAssumption
    <3>2. s[i] < s[j] + LedgerSize
      BY <2>1, <3>1, LedgerAssumption
    <3> QED BY <2>1, <3>2, ConstantFacts
  <2> QED BY <2>1, <2>3, <2>4
<1> QED BY <1>3, <1>4, <1>5, <1>6 DEF Distinct, Close

(* Nothing but a push changes what kind of value the store is. *)
LEMMA TypeInit == Init => TypeInv
  BY BoundsAssumption, ConstantFacts
  DEF Init, TypeInv, TypeOK, States, NoPoints

(* Handing points to the calculator keeps its counts natural numbers. *)
LEMMA AddType ==
    ASSUME NEW b, analysed \in [Tx -> Nat]
    PROVE  Add(b) \in [Tx -> Nat]
  BY DEF Add

LEMMA TypeStep == TypeInv /\ [Next]_vars => TypeInv'
<1> SUFFICES ASSUME TypeInv, [Next]_vars PROVE TypeInv'
  OBVIOUS
<1> USE DEF TypeInv, TypeOK, States
<1>0. tip \in Nat /\ tip <= MaxTx /\ MaxTx \in Nat /\ MaxAttempts \in Nat /\ MaxCrashes \in Nat
  BY BoundsAssumption
<1>1. CASE Apply
  <2>1. 1..tip \subseteq 1..tip' /\ tip' \in 0..MaxTx
    BY <1>0, <1>1 DEF Apply
  <2>2. store' \in Seq(1..tip')
    BY <1>1, <2>1, SeqMonotonic DEF Apply, memory
  <2> QED BY <1>1, <2>1, <2>2 DEF Apply, memory
<1>2. CASE Rehydrate
  <2>1. LastDay \in SUBSET (1..tip)
    BY DEF LastDay
  <2>2. PICK s \in ByTimestamp(LastDay) : store' = PushAll(<<>>, s)
    BY <1>2 DEF Rehydrate
  <2>3. s \in Seq(1..tip) /\ <<>> \in Seq(1..tip)
    BY <1>0, <2>1, ByTimestampFacts
  <2>4. store' \in Seq(1..tip) /\ Len(store') <= Capacity
    BY <1>0, <2>2, <2>3, PushAllIndex
  <2>5. analysed' \in [Tx -> Nat]
    BY <1>2, AddType DEF Rehydrate
  <2> QED BY <1>2, <2>1, <2>4, <2>5 DEF Rehydrate
<1>3. CASE StartCold
  BY <1>3 DEF StartCold, memory
<1>4. CASE Crash
  BY <1>0, <1>4, ConstantFacts DEF Crash, NoPoints
<1>5. CASE StopPolling
  BY <1>5 DEF StopPolling, memory
<1>6. CASE Tick
  BY <1>0, <1>6 DEF Tick, memory
<1>7. CASE FetchPage
  BY <1>7 DEF FetchPage, Page, memory
<1>8. CASE FetchFormatError
  BY <1>8 DEF FetchFormatError, memory
<1>9. CASE FetchNetworkError
  BY <1>9 DEF FetchNetworkError, memory
<1>10. CASE BackoffEnds
  BY <1>0, <1>10 DEF BackoffEnds, memory
<1>11. CASE FetchExhausted
  BY <1>11 DEF FetchExhausted, memory
<1>12. CASE FilterKnown
  BY <1>12 DEF FilterKnown, memory
<1>13. CASE PushBatch
  <2>1. PICK s \in NewestFirst(batch) : store' = PushAll(store, s)
    BY <1>13 DEF PushBatch
  <2>2. s \in Seq(1..tip)
    BY <1>0, <2>1, NewestFirstFacts
  <2>3. store' \in Seq(1..tip) /\ Len(store') <= Capacity
    BY <1>0, <2>1, <2>2, PushAllIndex
  <2> QED BY <1>13, <2>3 DEF PushBatch
<1>14. CASE Analyse
  BY <1>14, AddType DEF Analyse
<1>15. CASE Persist
  BY <1>15 DEF Persist, memory
<1>16. CASE PersistFails
  BY <1>16 DEF PersistFails
<1>17. CASE Prune
  BY <1>17 DEF Prune, memory
<1>18. CASE UNCHANGED vars
  BY <1>18 DEF vars
<1> QED BY <1>1, <1>2, <1>3, <1>4, <1>5, <1>6, <1>7, <1>8, <1>9, <1>10, <1>11,
           <1>12, <1>13, <1>14, <1>15, <1>16, <1>17, <1>18 DEF Next, PollStep

(* Every variable keeps its type, the store its capacity and a poll its retry
   limit, whatever the constants. *)
THEOREM TypeCorrect == Spec => []TypeOK
<1>1. Spec => []TypeInv
  BY TypeInit, TypeStep, PTL DEF Spec
<1> QED BY <1>1, PTL DEF TypeInv

-----------------------------------------------------------------------------
(* What the store remembers.                                               *)

(* The store holds no transaction twice and is in order up to Reorder, holds
   only what was pushed, and the engine was given only what was pushed. *)
StoreInv ==
    /\ Distinct(store)
    /\ Close(store)
    /\ Elements(store) \subseteq pushed
    /\ \A x \in Tx : analysed[x] > 0 => x \in pushed
    /\ pc = "down" => store = <<>> /\ pushed = {} /\ analysed = NoPoints

(* The points in hand come from one page, no older than FetchLimit behind
   anything pushed so far; what they repeat is in the store until the filter
   removes it; after the push they are pushed, and the engine has yet to see
   them. *)
BatchInv ==
    /\ pc \in {"filter", "push"} =>
         \A x \in batch : \A y \in batch \cup pushed : y < x + FetchLimit
    /\ pc = "filter" => batch \cap pushed \subseteq Elements(store)
    /\ pc = "push" => batch \cap pushed = {}
    /\ pc \in {"analyse", "persist"} => batch \subseteq pushed
    /\ pc = "analyse" => \A x \in batch : analysed[x] = 0

MemoryInv == StoreInv /\ PageRemembered /\ BatchInv

(* The first store is empty. *)
LEMMA EmptyStore == Distinct(<<>>) /\ Close(<<>>) /\ Elements(<<>>) = {}
  BY DEF Distinct, Close, Elements

LEMMA MemoryInit == Init => MemoryInv
  BY EmptyStore
  DEF Init, MemoryInv, StoreInv, PageRemembered, BatchInv, NoPoints

(* Pushing a fresh page behind a distinct, close store keeps it so. *)
LEMMA FreshPage ==
    ASSUME NEW T \in Nat, NEW s \in Seq(1..T), NEW b \in Seq(1..T),
           Distinct(s), Close(s), Distinct(b),
           Elements(s) \cap Elements(b) = {},
           \A x \in Elements(b) : \A y \in Elements(b) \cup Elements(s) : y < x + FetchLimit
    PROVE  Distinct(s \o b) /\ Close(s \o b)
<1> DEFINE t == s \o b
<1>1. Len(s) \in Nat /\ Len(b) \in Nat
  BY LenProperties
<1>2. /\ t \in Seq(1..T) /\ Len(t) = Len(s) + Len(b)
      /\ \A i \in 1..Len(t) : t[i] = IF i <= Len(s) THEN s[i] ELSE b[i - Len(s)]
  BY ConcatProperties
<1> HIDE DEF t
<1>3. \A i \in 1..Len(t) :
        \/ i \in 1..Len(s) /\ t[i] = s[i] /\ t[i] \in Elements(s)
        \/ i > Len(s) /\ i - Len(s) \in 1..Len(b) /\ t[i] = b[i - Len(s)] /\ t[i] \in Elements(b)
  BY <1>1, <1>2 DEF Elements
<1>4. \A i \in 1..Len(t) : t[i] \in Nat
  BY <1>2, ElementOfSeq
<1>5. Distinct(t)
  <2> SUFFICES ASSUME NEW i \in 1..Len(t), NEW j \in 1..Len(t), i # j PROVE t[i] # t[j]
    BY DEF Distinct
  <2>1. CASE i \in 1..Len(s) /\ j \in 1..Len(s)
    BY <1>1, <1>3, <2>1 DEF Distinct
  <2>2. CASE i > Len(s) /\ j > Len(s)
    <3>1. i - Len(s) # j - Len(s)
      BY <1>1, <1>2
    <3> QED BY <1>1, <1>3, <2>2, <3>1 DEF Distinct
  <2>3. CASE i \in 1..Len(s) /\ j > Len(s)
    <3>1. t[i] \in Elements(s) /\ t[j] \in Elements(b)
      BY <1>1, <1>3, <2>3
    <3> QED BY <3>1
  <2>4. CASE i > Len(s) /\ j \in 1..Len(s)
    <3>1. t[j] \in Elements(s) /\ t[i] \in Elements(b)
      BY <1>1, <1>3, <2>4
    <3> QED BY <3>1
  <2> QED BY <1>3, <2>1, <2>2, <2>3, <2>4
<1>6. Close(t)
  <2> SUFFICES ASSUME NEW i \in 1..Len(t), NEW j \in 1..Len(t), i < j
               PROVE  t[i] < t[j] + Reorder
    BY DEF Close
  <2>0. t[i] \in Nat /\ t[j] \in Nat /\ Reorder >= FetchLimit /\ Reorder \in Nat /\ FetchLimit \in Nat
    BY <1>4, ConstantFacts
  <2>1. CASE j \in 1..Len(s)
    <3>1. i \in 1..Len(s) /\ t[i] = s[i] /\ t[j] = s[j]
      BY <1>1, <1>2, <1>3, <2>1
    <3> QED BY <2>1, <3>1 DEF Close
  <2>2. CASE j > Len(s)
    <3>1. t[j] \in Elements(b) /\ t[i] \in Elements(b) \cup Elements(s)
      BY <1>1, <1>3, <2>2
    <3>2. t[i] < t[j] + FetchLimit
      BY <3>1
    <3> QED BY <2>0, <3>2
  <2> QED BY <1>3, <2>1, <2>2
<1> QED BY <1>5, <1>6 DEF t

(* Every action keeps the memory invariant. *)
LEMMA MemoryStep == TypeInv /\ TypeInv' /\ MemoryInv /\ [Next]_vars => MemoryInv'
<1> SUFFICES ASSUME TypeInv, TypeInv', MemoryInv, [Next]_vars PROVE MemoryInv'
  OBVIOUS
<1>0. /\ tip \in Nat /\ tip <= MaxTx /\ tip' \in Nat
      /\ store \in Seq(1..tip)
      /\ \A x \in pushed \cup batch \cup db : x \in Nat /\ x >= 1 /\ x <= tip
      /\ analysed \in [Tx -> Nat]
      /\ \A x \in batch : x \in Tx
      /\ FetchLimit \in Nat /\ FetchLimit >= 1
  BY BoundsAssumption DEF TypeInv, TypeOK, Tx
<1>s. /\ Distinct(store) /\ Close(store) /\ Elements(store) \subseteq pushed
      /\ \A x \in Tx : analysed[x] > 0 => x \in pushed
      /\ pc = "down" => store = <<>> /\ pushed = {} /\ analysed = NoPoints
  BY DEF MemoryInv, StoreInv
<1>p. \A x \in pushed : x + FetchLimit > tip => x \in Elements(store)
  BY DEF MemoryInv, PageRemembered
<1>b. BatchInv
  BY DEF MemoryInv
<1>1. CASE Apply
  <2>1. StoreInv' /\ BatchInv'
    BY <1>1, <1>s, <1>b DEF Apply, memory, StoreInv, BatchInv
  <2>2. PageRemembered'
    BY <1>0, <1>1, <1>p DEF Apply, memory, PageRemembered
  <2> QED BY <2>1, <2>2 DEF MemoryInv
<1>2. CASE Rehydrate
  <2>1. LastDay \in SUBSET (1..tip)
    BY DEF LastDay, TypeInv, TypeOK
  <2>2. PICK s \in ByTimestamp(LastDay) : store' = PushAll(<<>>, s)
    BY <1>2 DEF Rehydrate
  <2>3. s \in Seq(1..tip) /\ Distinct(s) /\ Close(s) /\ Elements(s) = LastDay
    BY <1>0, <2>1, ByTimestampFacts
  <2>4. <<>> \o s = s /\ <<>> \in Seq(1..tip)
    BY <2>3, ConcatEmptySeq
  <2>5. Distinct(<<>> \o s) /\ Close(<<>> \o s)
    BY <2>3, <2>4
  <2>6. /\ Distinct(store') /\ Close(store')
        /\ Elements(store') \subseteq LastDay
        /\ \A x \in LastDay : x + FetchLimit > tip => x \in Elements(store')
    BY <1>0, <2>2, <2>3, <2>4, <2>5, PushKeeps, EmptyStore
  <2>7. pushed' = LastDay /\ pc' = "idle" /\ tip' = tip /\ pc = "down"
    BY <1>2 DEF Rehydrate
  <2>8. \A x \in Tx : analysed'[x] > 0 => x \in pushed'
    <3>1. analysed = NoPoints
      BY <1>s, <2>7
    <3> QED BY <1>2, <2>7, <3>1 DEF Rehydrate, Add, NoPoints
  <2>9. Elements(store)' = Elements(store')
    BY DEF Elements
  <2>10. StoreInv'
    BY <2>6, <2>7, <2>8, <2>9 DEF StoreInv, Distinct, Close
  <2>11. PageRemembered' /\ BatchInv'
    BY <2>6, <2>7, <2>9 DEF PageRemembered, BatchInv
  <2> QED BY <2>10, <2>11 DEF MemoryInv
<1>4. CASE Crash
  <2>1. /\ store' = <<>> /\ pushed' = {} /\ batch' = {} /\ pc' = "down"
        /\ analysed' = NoPoints
    BY <1>4 DEF Crash
  <2>2. \A x \in Tx : ~(NoPoints[x] > 0)
    BY DEF NoPoints
  <2>3. StoreInv'
    BY <2>1, <2>2, EmptyStore DEF StoreInv, Distinct, Close, Elements
  <2> QED BY <2>1, <2>3 DEF MemoryInv, PageRemembered, BatchInv
<1>7. CASE FetchPage
  <2>1. /\ pc = "fetch" /\ pc' \in {"idle", "filter"} /\ batch' = Page \ Dropped
        /\ tip' = tip /\ store' = store /\ pushed' = pushed /\ analysed' = analysed
    BY <1>7 DEF FetchPage, memory
  <2>2. StoreInv'
    BY <1>s, <2>1 DEF StoreInv
  <2>3. PageRemembered'
    BY <1>p, <2>1 DEF PageRemembered
  <2>4. \A x \in batch' : x \in Nat /\ x <= tip /\ x + FetchLimit > tip
    BY <1>0, <2>1 DEF Page
  <2>5. \A x \in batch' : \A y \in batch' \cup pushed' : y < x + FetchLimit
    BY <1>0, <2>1, <2>4
  <2>6. batch' \cap pushed' \subseteq Elements(store)
    BY <1>p, <2>1, <2>4
  <2>7. BatchInv'
    BY <2>1, <2>5, <2>6 DEF BatchInv, Elements
  <2> QED BY <2>2, <2>3, <2>7 DEF MemoryInv
<1>12. CASE FilterKnown
  <2>1. /\ pc = "filter" /\ pc' \in {"idle", "push"} /\ batch' = batch \ Elements(store)
        /\ tip' = tip /\ store' = store /\ pushed' = pushed /\ analysed' = analysed
    BY <1>12 DEF FilterKnown, memory
  <2>2. StoreInv' /\ PageRemembered'
    BY <1>s, <1>p, <2>1 DEF StoreInv, PageRemembered
  <2>3. /\ \A x \in batch : \A y \in batch \cup pushed : y < x + FetchLimit
        /\ batch \cap pushed \subseteq Elements(store)
    BY <1>b, <2>1 DEF BatchInv
  <2>4. batch' \cap pushed' = {}
    BY <2>1, <2>3
  <2>5. \A x \in batch' : \A y \in batch' \cup pushed' : y < x + FetchLimit
    BY <2>1, <2>3
  <2>6. BatchInv'
    BY <2>1, <2>4, <2>5 DEF BatchInv
  <2> QED BY <2>2, <2>6 DEF MemoryInv
<1>13. CASE PushBatch
  <2>1. PICK s \in NewestFirst(batch) : store' = PushAll(store, s)
    BY <1>13 DEF PushBatch
  <2>2. batch \in SUBSET (1..tip)
    BY DEF TypeInv, TypeOK
  <2>3. s \in Seq(1..tip) /\ Distinct(s) /\ Elements(s) = batch
    BY <1>0, <2>2, NewestFirstFacts
  <2>4. /\ pc = "push" /\ pc' = "analyse" /\ tip' = tip /\ batch' = batch
        /\ pushed' = pushed \cup batch /\ analysed' = analysed
    BY <1>13 DEF PushBatch
  <2>5. /\ \A x \in batch : \A y \in batch \cup pushed : y < x + FetchLimit
        /\ batch \cap pushed = {}
    BY <1>b, <2>4 DEF BatchInv
  <2>6. Elements(store) \cap Elements(s) = {}
    BY <1>s, <2>3, <2>5
  <2>7. \A x \in Elements(s) : \A y \in Elements(s) \cup Elements(store) : y < x + FetchLimit
    BY <1>s, <2>3, <2>5
  <2>8. \A i, j \in 1..Len(s) : i > j => s[i] \in Nat
    BY <1>0, <2>3, ElementOfSeq
  <2>9. Distinct(store \o s) /\ Close(store \o s)
    BY <1>0, <1>s, <2>3, <2>6, <2>7, FreshPage
  <2>10. /\ Distinct(store') /\ Close(store')
         /\ Elements(store') \subseteq Elements(store) \cup batch
         /\ \A x \in Elements(store) \cup batch :
              x + FetchLimit > tip => x \in Elements(store')
    BY <1>0, <2>1, <2>3, <2>9, PushKeeps
  <2>11. StoreInv'
    BY <1>s, <2>4, <2>10 DEF StoreInv, Distinct, Close, Elements
  <2>12. PageRemembered'
    <3>1. \A x \in pushed' : x + FetchLimit > tip' => x \in Elements(store')
      BY <1>p, <2>4, <2>10
    <3> QED BY <3>1 DEF PageRemembered, Elements
  <2>13. \A x \in batch' : analysed'[x] = 0
    BY <1>0, <1>s, <2>4, <2>5
  <2>14. BatchInv'
    BY <2>4, <2>13 DEF BatchInv
  <2> QED BY <2>11, <2>12, <2>14 DEF MemoryInv
<1>14. CASE Analyse
  <2>1. /\ pc = "analyse" /\ pc' = "persist" /\ tip' = tip /\ batch' = batch
        /\ store' = store /\ pushed' = pushed
        /\ analysed' = Add(batch) \/ analysed' = analysed
    BY <1>14 DEF Analyse
  <2>2. batch \subseteq pushed
    BY <1>b, <2>1 DEF BatchInv
  <2>3. \A x \in Tx : analysed'[x] > 0 => x \in pushed
    BY <1>0, <1>s, <2>1, <2>2 DEF Add
  <2>4. StoreInv' /\ PageRemembered'
    BY <1>s, <1>p, <2>1, <2>3 DEF StoreInv, PageRemembered
  <2>5. BatchInv'
    BY <2>1, <2>2 DEF BatchInv
  <2> QED BY <2>4, <2>5 DEF MemoryInv
<1>15. CASE Persist \/ PersistFails \/ Prune
  <2>1. /\ tip' = tip /\ store' = store /\ pushed' = pushed /\ analysed' = analysed
        /\ pc' \in {"prune", "idle"}
    BY <1>15 DEF Persist, PersistFails, Prune, memory
  <2> QED BY <1>s, <1>p, <2>1 DEF MemoryInv, StoreInv, PageRemembered, BatchInv
<1>16. CASE \/ StartCold \/ StopPolling \/ Tick \/ FetchFormatError
            \/ FetchNetworkError \/ BackoffEnds \/ FetchExhausted
  <2>1. /\ tip' = tip /\ store' = store /\ pushed' = pushed /\ analysed' = analysed
        /\ pc' \in {"idle", "stopped", "fetch", "backoff"}
    BY <1>16 DEF StartCold, StopPolling, Tick, FetchFormatError, FetchNetworkError,
                 BackoffEnds, FetchExhausted, memory
  <2> QED BY <1>s, <1>p, <2>1 DEF MemoryInv, StoreInv, PageRemembered, BatchInv
<1>18. CASE UNCHANGED vars
  BY <1>18, <1>s, <1>p, <1>b DEF vars, MemoryInv, StoreInv, PageRemembered, BatchInv
<1> QED BY <1>1, <1>2, <1>4, <1>7, <1>12, <1>13, <1>14, <1>15, <1>16, <1>18
        DEF Next, PollStep

(* The two invariants together. *)
LEMMA MemoryCorrect == Spec => [](TypeInv /\ MemoryInv)
<1>1. Init => TypeInv /\ MemoryInv
  BY TypeInit, MemoryInit
<1>2. TypeInv /\ MemoryInv /\ [Next]_vars => (TypeInv /\ MemoryInv)'
  BY TypeStep, MemoryStep
<1> QED BY <1>1, <1>2, PTL DEF Spec

(* The store holds no transaction twice, for every page size and capacity
   CapacityAssumption allows, through any overlap of pages and any number of
   restarts (poll_once's filter and push). *)
THEOREM NeverTwice == Spec => []NoDuplicates
<1>1. MemoryInv => NoDuplicates
  BY DEF MemoryInv, StoreInv, NoDuplicates, Distinct
<1> QED BY <1>1, MemoryCorrect, PTL

(* Eviction never forgets what the next page repeats (store.rs push). *)
THEOREM PageIsRemembered == Spec => []PageRemembered
<1>1. MemoryInv => PageRemembered
  BY DEF MemoryInv
<1> QED BY <1>1, MemoryCorrect, PTL

-----------------------------------------------------------------------------
(* What the engine and the database are owed.                              *)

(* Every point the pipeline holds is a transaction of the network. *)
LEMMA InTx ==
    ASSUME TypeInv
    PROVE  /\ \A x \in pushed : x \in Tx
           /\ \A x \in batch : x \in Tx
           /\ \A x \in db : x \in Tx
           /\ analysed \in [Tx -> Nat] /\ LastDay \subseteq db
<1>1. tip \in Nat /\ tip <= MaxTx /\ MaxTx \in Nat
  BY BoundsAssumption DEF TypeInv, TypeOK
<1>2. \A x \in 1..tip : x \in Tx
  BY <1>1 DEF Tx
<1>3. pushed \subseteq 1..tip /\ batch \subseteq 1..tip /\ db \subseteq 1..tip
  BY DEF TypeInv, TypeOK
<1> QED BY <1>2, <1>3 DEF TypeInv, TypeOK, LastDay

LEMMA SkippedStep ==
    TypeInv /\ MemoryInv /\ NothingSkipped /\ [Next]_vars => NothingSkipped'
<1> SUFFICES ASSUME TypeInv, MemoryInv, NothingSkipped, [Next]_vars,
                    pushed' \cap Malformed = {}
             PROVE  pushed' \ Analysed' \subseteq IF pc' = "analyse" THEN batch' ELSE {}
  BY DEF NothingSkipped
<1>0. /\ \A x \in pushed \cup batch : x \in Tx
      /\ analysed \in [Tx -> Nat] /\ LastDay \subseteq Tx
  BY InTx
<1>1. CASE Rehydrate
  <2>1. /\ pushed' = LastDay /\ pc' = "idle"
        /\ analysed' = IF LastDay \cap Malformed = {} THEN Add(LastDay) ELSE analysed
    BY <1>1 DEF Rehydrate
  <2>2. \A x \in LastDay : analysed'[x] > 0
    BY <1>0, <2>1 DEF Add
  <2> QED BY <1>0, <2>1, <2>2 DEF Analysed
<1>2. CASE PushBatch
  <2>1. /\ pushed' = pushed \cup batch /\ pc = "push" /\ pc' = "analyse"
        /\ batch' = batch /\ analysed' = analysed
    BY <1>2 DEF PushBatch
  <2>2. pushed \ Analysed \subseteq {}
    BY <2>1 DEF NothingSkipped
  <2> QED BY <2>1, <2>2 DEF Analysed
<1>3. CASE Analyse
  <2>1. /\ pushed' = pushed /\ pc = "analyse" /\ pc' = "persist"
        /\ analysed' = IF batch \cap Malformed = {} THEN Add(batch) ELSE analysed
    BY <1>3 DEF Analyse
  <2>2. batch \subseteq pushed /\ pushed \ Analysed \subseteq batch
    BY <2>1 DEF MemoryInv, BatchInv, NothingSkipped
  <2>3. analysed' = Add(batch)
    BY <2>1, <2>2
  <2>4. \A x \in pushed : analysed'[x] > 0
    BY <1>0, <2>2, <2>3 DEF Add, Analysed
  <2> QED BY <1>0, <2>1, <2>4 DEF Analysed
<1>4. CASE Crash
  BY <1>4 DEF Crash
<1>5. CASE Apply \/ UNCHANGED vars
  BY <1>5 DEF Apply, vars, memory, NothingSkipped, Analysed
<1>6. CASE \/ StartCold \/ StopPolling \/ Tick \/ FetchFormatError
           \/ FetchNetworkError \/ BackoffEnds \/ FetchExhausted
           \/ FetchPage \/ FilterKnown \/ Persist \/ PersistFails \/ Prune
  <2>1. pushed' = pushed /\ analysed' = analysed /\ pc # "analyse" /\ pc' # "analyse"
    BY <1>6 DEF StartCold, StopPolling, Tick, FetchFormatError, FetchNetworkError,
                BackoffEnds, FetchExhausted, FetchPage, FilterKnown, Persist,
                PersistFails, Prune, memory
  <2> QED BY <2>1 DEF NothingSkipped, Analysed
<1> QED BY <1>1, <1>2, <1>3, <1>4, <1>5, <1>6 DEF Next, PollStep

(* As long as no malformed point is taken, the engine is given every point the
   store takes, before the poll that took it goes on to the insert
   (process_fee_data in poll_once and at startup). *)
THEOREM EngineSkipsNothing == Spec => []NothingSkipped
<1>1. Init => NothingSkipped
  BY DEF Init, NothingSkipped
<1> QED BY <1>1, SkippedStep, MemoryCorrect, PTL DEF Spec

LEMMA SavedStep ==
    TypeInv /\ TypeInv' /\ MemoryInv /\ StoredIsSaved /\ [Next]_vars => StoredIsSaved'
<1> SUFFICES ASSUME TypeInv, TypeInv', MemoryInv, StoredIsSaved, [Next]_vars,
                    NEW x \in Elements(store'), x \notin db'
             PROVE  \/ x \in missed'
                    \/ LedgerOf[x] + Retention < Now'
                    \/ x \in batch' /\ pc' \in {"analyse", "persist"}
  BY DEF StoredIsSaved, Elements
<1>0. /\ tip \in Nat /\ tip <= MaxTx /\ Retention \in Nat
      /\ store \in Seq(1..tip) /\ MaxTx \in Nat
  BY BoundsAssumption DEF TypeInv, TypeOK
<1>1. Elements(store) \subseteq 1..tip
  <2>1. \A i \in 1..Len(store) : store[i] \in 1..tip
    BY <1>0, ElementOfSeq
  <2> QED BY <2>1 DEF Elements
<1>2. x \in Elements(store) \ db =>
        \/ x \in missed
        \/ LedgerOf[x] + Retention < Now
        \/ x \in batch /\ pc \in {"analyse", "persist"}
  BY DEF StoredIsSaved
<1>3. CASE Apply
  <2>1. /\ store' = store /\ db' = db /\ missed' = missed /\ batch' = batch /\ pc' = pc
        /\ tip' = tip + 1 /\ tip < MaxTx
    BY <1>3 DEF Apply, memory
  <2>2. x \in 1..tip
    BY <1>1, <2>1
  <2>3. Now = LedgerOf[tip] /\ Now' = LedgerOf[tip + 1]
    BY <1>0, <2>1, <2>2 DEF Now
  <2>4. tip \in Tx /\ tip + 1 \in Tx /\ x \in Tx
    BY <1>0, <2>1, <2>2 DEF Tx
  <2>5. Now \in Nat /\ Now' \in Nat /\ LedgerOf[x] \in Nat /\ Now <= Now'
    BY <1>0, <2>3, <2>4, LedgerAssumption
  <2> QED BY <1>0, <1>2, <2>1, <2>5
<1>4. CASE Rehydrate
  <2>1. PICK s \in ByTimestamp(LastDay) : store' = PushAll(<<>>, s)
    BY <1>4 DEF Rehydrate
  <2>2. LastDay \in SUBSET (1..tip) /\ LastDay \subseteq db /\ db' = db
    BY <1>4 DEF LastDay, TypeInv, TypeOK, Rehydrate
  <2>3. s \in Seq(1..tip) /\ Distinct(s) /\ Close(s) /\ Elements(s) = LastDay
    BY <1>0, <2>2, ByTimestampFacts
  <2>4. <<>> \o s = s /\ <<>> \in Seq(1..tip)
    BY <2>3, ConcatEmptySeq
  <2>5. Distinct(<<>> \o s) /\ Close(<<>> \o s)
    BY <2>3, <2>4
  <2>6. Elements(store') \subseteq LastDay
    BY <1>0, <2>1, <2>3, <2>4, <2>5, PushKeeps, EmptyStore
  <2> QED BY <2>2, <2>6
<1>5. CASE PushBatch
  <2>1. PICK s \in NewestFirst(batch) : store' = PushAll(store, s)
    BY <1>5 DEF PushBatch
  <2>2. /\ pc = "push" /\ pc' = "analyse" /\ batch' = batch /\ db' = db
        /\ missed' = missed /\ tip' = tip
    BY <1>5 DEF PushBatch
  <2>3. Elements(store') \subseteq Elements(store) \cup batch
    <3>1. batch \in SUBSET (1..tip)
      BY DEF TypeInv, TypeOK
    <3>2. s \in Seq(1..tip) /\ Distinct(s) /\ Elements(s) = batch
      BY <1>0, <3>1, NewestFirstFacts
    <3>3. /\ \A y \in batch : \A z \in batch \cup pushed : z < y + FetchLimit
          /\ batch \cap pushed = {}
          /\ Distinct(store) /\ Close(store) /\ Elements(store) \subseteq pushed
      BY <2>2 DEF MemoryInv, BatchInv, StoreInv
    <3>4. Elements(store) \cap Elements(s) = {}
      BY <3>2, <3>3
    <3>5. \A y \in Elements(s) : \A z \in Elements(s) \cup Elements(store) : z < y + FetchLimit
      BY <3>2, <3>3
    <3>6. Distinct(store \o s) /\ Close(store \o s)
      BY <1>0, <3>2, <3>3, <3>4, <3>5, FreshPage
    <3> QED BY <1>0, <2>1, <3>2, <3>6, PushKeeps
  <2>4. Now' = Now
    BY <2>2 DEF Now
  <2> QED BY <1>2, <2>2, <2>3, <2>4
<1>6. CASE Crash
  BY <1>6, EmptyStore DEF Crash
<1>7. CASE Persist
  <2>1. /\ store' = store /\ db' = db \cup batch /\ missed' = missed /\ tip' = tip
    BY <1>7 DEF Persist, memory
  <2>2. Now' = Now
    BY <2>1 DEF Now
  <2> QED BY <1>2, <2>1, <2>2
<1>8. CASE PersistFails
  <2>1. /\ store' = store /\ db' = db /\ missed' = missed \cup batch /\ tip' = tip
    BY <1>8 DEF PersistFails
  <2>2. Now' = Now
    BY <2>1 DEF Now
  <2> QED BY <1>2, <2>1, <2>2
<1>9. CASE Prune
  <2>1. /\ pc = "prune" /\ store' = store /\ missed' = missed /\ tip' = tip
        /\ db' = db \/ db' = {y \in db : LedgerOf[y] + Retention >= Now}
    BY <1>9 DEF Prune, memory
  <2>2. Now' = Now /\ x \in 1..tip /\ tip # 0
    BY <1>0, <1>1, <2>1 DEF Now
  <2>3. x \in Tx /\ tip \in Tx /\ Now = LedgerOf[tip]
    BY <1>0, <2>2 DEF Tx, Now
  <2>4. LedgerOf[x] \in Nat /\ Now \in Nat
    BY <2>3, LedgerAssumption
  <2>5. CASE x \in db
    BY <1>0, <2>1, <2>2, <2>4, <2>5
  <2>6. CASE x \notin db
    BY <1>2, <2>1, <2>2, <2>6
  <2> QED BY <2>5, <2>6
<1>10. CASE \/ StartCold \/ StopPolling \/ Tick \/ FetchFormatError
            \/ FetchNetworkError \/ BackoffEnds \/ FetchExhausted
            \/ FetchPage \/ FilterKnown
  <2>1. /\ store' = store /\ db' = db /\ missed' = missed /\ tip' = tip
        /\ pc \notin {"analyse", "persist"}
    BY <1>10 DEF StartCold, StopPolling, Tick, FetchFormatError, FetchNetworkError,
                 BackoffEnds, FetchExhausted, FetchPage, FilterKnown, memory
  <2>2. Now' = Now
    BY <2>1 DEF Now
  <2> QED BY <1>2, <2>1, <2>2
<1>11. CASE Analyse
  <2>1. /\ store' = store /\ db' = db /\ missed' = missed /\ tip' = tip
        /\ pc = "analyse" /\ pc' = "persist" /\ batch' = batch
    BY <1>11 DEF Analyse
  <2>2. Now' = Now
    BY <2>1 DEF Now
  <2> QED BY <1>2, <2>1, <2>2
<1>12. CASE UNCHANGED vars
  BY <1>2, <1>12 DEF vars, Now
<1> QED BY <1>3, <1>4, <1>5, <1>6, <1>7, <1>8, <1>9, <1>10, <1>11, <1>12 DEF Next, PollStep

(* What the store holds the database holds, but for failed inserts, expiry and
   the poll under way (insert_fee_points, prune_older_than, rehydration). *)
THEOREM StoreIsDurable == Spec => []StoredIsSaved
<1>1. Init => StoredIsSaved
  BY EmptyStore DEF Init, StoredIsSaved
<1> QED BY <1>1, SavedStep, TypeStep, MemoryCorrect, PTL DEF Spec

-----------------------------------------------------------------------------
(* The promise.                                                            *)

LEMMA LogInit == Init => Log!Init
  BY DEF Init, NoPoints, Log!Init, Log!OnceEach

LEMMA LogStep == TypeInv /\ MemoryInv /\ [Next]_vars => [Log!Next]_(Log!logVars)
<1> SUFFICES ASSUME TypeInv, MemoryInv, [Next]_vars, UNCHANGED (Log!logVars) => FALSE
             PROVE  Log!Next
  OBVIOUS
<1>0. /\ \A x \in pushed \cup batch \cup db : x \in Tx
      /\ analysed \in [Tx -> Nat] /\ LastDay \subseteq Tx
      /\ pc = "down" => pushed = {} /\ analysed = NoPoints
  BY InTx DEF MemoryInv, StoreInv
<1>1. NoPoints = Log!OnceEach({})
  BY DEF NoPoints, Log!OnceEach
<1>2. CASE Rehydrate
  <2>1. /\ pc = "down" /\ pushed' = LastDay /\ db' = db
        /\ analysed' = Add(LastDay) \/ analysed' = analysed
    BY <1>2 DEF Rehydrate
  <2>2. pushed = {} /\ analysed = NoPoints
    BY <1>0, <2>1
  <2>3. Add(LastDay) = Log!OnceEach(LastDay)
    BY <2>2 DEF Add, NoPoints, Log!OnceEach
  <2>4. LastDay \subseteq db
    BY DEF LastDay
  <2>5. Log!Restore(LastDay)
    BY <1>1, <2>1, <2>2, <2>3, <2>4 DEF Log!Restore
  <2> QED BY <1>0, <2>5 DEF Log!Next
<1>3. CASE Crash
  BY <1>1, <1>3 DEF Crash, Log!Next, Log!Forget
<1>4. CASE PushBatch
  <2>1. /\ pc = "push" /\ pushed' = pushed \cup batch /\ db' = db /\ analysed' = analysed
    BY <1>4 DEF PushBatch
  <2>2. batch \cap pushed = {}
    BY <2>1 DEF MemoryInv, BatchInv
  <2>3. batch # {}
    BY <2>1 DEF Log!logVars
  <2>4. Log!Take(batch)
    BY <2>1, <2>2, <2>3 DEF Log!Take
  <2> QED BY <1>0, <2>4 DEF Log!Next
<1>5. CASE Analyse
  <2>1. /\ pc = "analyse" /\ pushed' = pushed /\ db' = db
        /\ analysed' = Add(batch) \/ analysed' = analysed
    BY <1>5 DEF Analyse
  <2>2. batch \subseteq pushed /\ \A x \in batch : analysed[x] = 0
    BY <2>1 DEF MemoryInv, BatchInv
  <2>3. analysed' = Add(batch)
    BY <2>1 DEF Log!logVars
  <2>4. analysed' = [x \in Tx |-> IF x \in batch THEN 1 ELSE analysed[x]]
    BY <1>0, <2>2, <2>3 DEF Add
  <2>5. Log!Count(batch)
    BY <2>1, <2>2, <2>4 DEF Log!Count
  <2> QED BY <1>0, <2>5 DEF Log!Next
<1>6. CASE Persist
  <2>1. /\ pc = "persist" /\ pushed' = pushed /\ db' = db \cup batch /\ analysed' = analysed
    BY <1>6 DEF Persist, memory
  <2>2. batch \subseteq pushed
    BY <2>1 DEF MemoryInv, BatchInv
  <2>3. Log!Save(batch)
    BY <2>1, <2>2 DEF Log!Save
  <2> QED BY <1>0, <2>3 DEF Log!Next
<1>7. CASE Prune
  <2> DEFINE kept == {x \in db : LedgerOf[x] + Retention >= Now}
             gone == db \ kept
  <2>1. pushed' = pushed /\ analysed' = analysed /\ db' \in {db, kept}
    BY <1>7 DEF Prune, memory
  <2>2. db' = db \ gone
    BY <2>1 DEF Log!logVars
  <2>3. Log!Expire(gone)
    BY <2>1, <2>2 DEF Log!Expire
  <2>4. gone \in SUBSET Tx
    BY <1>0
  <2> QED BY <2>3, <2>4 DEF Log!Next
<1>8. CASE \/ Apply \/ StartCold \/ StopPolling \/ Tick \/ FetchFormatError
           \/ FetchNetworkError \/ BackoffEnds \/ FetchExhausted
           \/ FetchPage \/ FilterKnown \/ PersistFails \/ UNCHANGED vars
  BY <1>8 DEF Apply, StartCold, StopPolling, Tick, FetchFormatError,
              FetchNetworkError, BackoffEnds, FetchExhausted, FetchPage,
              FilterKnown, PersistFails, vars, memory, Log!logVars
<1> QED BY <1>2, <1>3, <1>4, <1>5, <1>6, <1>7, <1>8 DEF Next, PollStep

(* The pipeline takes and analyses no transaction twice, saves only what it
   took and restores only what it saved: it implements IngestLog. *)
THEOREM Ingests == Spec => IngestsOnce
<1>1. Spec => Log!Init
  BY LogInit, PTL DEF Spec
<1>2. Spec => [][Log!Next]_(Log!logVars)
  BY LogStep, MemoryCorrect, PTL DEF Spec
<1> QED BY <1>1, <1>2, PTL DEF IngestsOnce, Log!LogSpec

-----------------------------------------------------------------------------
(* The alert manager. *)

-----------------------------------------------------------------------------
(* The worst spike. *)

LEMMA LeastElement ==
    ASSUME NEW T, T \subseteq Nat, T # {}
    PROVE  \E m \in T : \A n \in T : m <= n
<1>1. PICK m \in T : \A n \in T : <<n, m>> \notin OpToRel(<, Nat)
  BY WFMin, NatLessThanWellFounded
<1>2. ASSUME NEW n \in T PROVE m <= n
  <2>1. m \in Nat /\ n \in Nat
    OBVIOUS
  <2>2. ~ (n < m)
    BY <1>1, <1>2, <2>1 DEF OpToRel
  <2> QED
    BY <2>1, <2>2, SMT
<1> QED
  BY <1>1, <1>2

LEMMA GreatestElement ==
    ASSUME NEW M \in Nat, NEW T, T \subseteq 0..M, T # {}
    PROVE  \E m \in T : \A n \in T : n <= m
<1> DEFINE U == {M - t : t \in T}
<1>1. U \subseteq Nat /\ U # {}
  BY SMT
<1>2. PICK u \in U : \A v \in U : u <= v
  BY <1>1, LeastElement
<1>3. PICK m \in T : u = M - m
  BY <1>2
<1>4. ASSUME NEW n \in T PROVE n <= m
  <2>1. M - n \in U
    OBVIOUS
  <2>2. M - m <= M - n
    BY <2>1, <1>2, <1>3
  <2> QED
    BY <2>2, SMT
<1> QED
  BY <1>4

(* max_by_key finds a spike when one qualifies: of the most severe, the last. *)
LEMMA WorstFacts ==
    ASSUME ManagerTypeOK, Qualifying # {}
    PROVE  Worst \in Qualifying /\ Worst \in Spikes /\ Worst # None
<1>1. Qualifying \subseteq Spikes /\ Spikes \subseteq 0..MaxSpikes /\ 0 \notin Spikes
  BY AlertAssumption, SMT DEF Qualifying, RecentSpikes, Spikes, ManagerTypeOK
<1> DEFINE Ranks == {SeverityOf[s] : s \in Qualifying}
<1>2. Ranks \subseteq 0..3 /\ Ranks # {}
  <2>1. \A s \in Qualifying : SeverityOf[s] \in 0..3
    BY <1>1, AlertAssumption
  <2> QED
    BY <2>1
<1>3. PICK r \in Ranks : \A q \in Ranks : q <= r
  <2>1. 3 \in Nat
    OBVIOUS
  <2> HIDE DEF Ranks
  <2> QED
    BY <1>2, <2>1, GreatestElement
<1> DEFINE Top == {s \in Qualifying : SeverityOf[s] = r}
<1>4. Top \subseteq 0..MaxSpikes /\ Top # {}
  BY <1>1, <1>3
<1>5. PICK w \in Top : \A t \in Top : t <= w
  <2> HIDE DEF Top
  <2> QED
    BY <1>4, AlertAssumption, GreatestElement
<1>6. ASSUME NEW t \in Qualifying
      PROVE  \/ SeverityOf[t] < SeverityOf[w]
             \/ SeverityOf[t] = SeverityOf[w] /\ t <= w
  <2>1. SeverityOf[t] \in 0..3 /\ SeverityOf[t] <= r /\ SeverityOf[w] = r /\ r \in 0..3
    BY <1>1, <1>2, <1>3, <1>5, AlertAssumption
  <2>2. SeverityOf[t] = r => t <= w
    BY <1>5
  <2> QED
    BY <2>1, <2>2, SMT
<1>7. Worst \in Qualifying
  BY <1>5, <1>6 DEF Worst
<1> QED
  BY <1>1, <1>7 DEF None

-----------------------------------------------------------------------------
(* Types. *)

LEMMA ManagerTypeInit == ManagerInit => ManagerTypeOK
<1> SUFFICES ASSUME ManagerInit PROVE ManagerTypeOK
  OBVIOUS
<1>1. detected \in 0..MaxSpikes /\ oldest \in 1..(detected + 1)
  BY AlertAssumption, SMT DEF ManagerInit
<1>2. update \in [good : BOOLEAN, stale : BOOLEAN]
  BY DEF ManagerInit, NoUpdate
<1> QED
  BY <1>1, <1>2 DEF ManagerInit, ManagerTypeOK

(* What a check of spikes leaves behind. *)
LEMMA DispatchFacts ==
    ASSUME ManagerTypeOK, NEW own, own \subseteq {Identity(s) : s \in RecentSpikes}, Dispatch(own)
    PROVE  /\ seen' \subseteq RecentSpikes \X ({"start"} \cup Urls)
           /\ seen' \subseteq Spikes \X Tags
           /\ inflight' \subseteq Pairs
           /\ {p \in Spikes \X Urls :
                    /\ p[1] \in RecentSpikes
                    /\ \E c \in loaded : c.url = p[2] /\ Meets(p[1], c.threshold)} \subseteq sent'
<1>1. RecentSpikes \subseteq Spikes
  BY AlertAssumption, SMT DEF RecentSpikes, Spikes, ManagerTypeOK
<1>2. Retained \subseteq {Identity(s) : s \in RecentSpikes}
  BY DEF Retained
<1>3. Due(Retained) \subseteq Pairs /\ \A p \in Due(Retained) : p[1] \in RecentSpikes
  BY DEF Due
<1>4. \A p \in Due(Retained) : DedupKey(p[1], p[2]) \in RecentSpikes \X ({"start"} \cup Urls)
  BY <1>3 DEF DedupKey, Pairs
<1>5. \A s \in RecentSpikes : Identity(s) \in RecentSpikes \X ({"start"} \cup Urls)
  BY DEF Identity
<1>6. seen' \subseteq RecentSpikes \X ({"start"} \cup Urls)
  BY <1>2, <1>4, <1>5 DEF Dispatch
<1>7. {"start"} \cup Urls \subseteq Tags
  BY DEF Tags
<1>8. \A p \in Pairs : DedupKey(p[1], p[2]) \notin Retained
  <2> SUFFICES ASSUME NEW p \in Pairs, NEW s \in RecentSpikes, DedupKey(p[1], p[2]) = Identity(s)
               PROVE  FALSE
    BY <1>2
  <2> QED
    BY TagAssumption DEF Pairs, DedupKey, Identity
<1>9. {p \in Spikes \X Urls :
           /\ p[1] \in RecentSpikes
           /\ \E c \in loaded : c.url = p[2] /\ Meets(p[1], c.threshold)} \subseteq Due(Retained)
  BY <1>8 DEF Due, Pairs
<1>10. seen' \subseteq Spikes \X Tags
  BY <1>1, <1>6, <1>7
<1> QED
  BY <1>3, <1>6, <1>9, <1>10 DEF Dispatch, ManagerTypeOK

(* The four outcomes of a check of spikes. *)
LEMMA SpikeCheck ==
    ASSUME ManagerTypeOK, SpikeStarts \/ SpikeGoesOn \/ SpikeEnds \/ NoSpike
    PROVE  /\ active' = IF Qualifying = {} THEN None ELSE Worst
           /\ active' \in Spikes \cup {None}
           /\ phase' = "good_window"
           /\ UNCHANGED <<settings, window, rows, events, restarts, update, loaded,
                          goodActive, staleActive>>
           /\ \E own : /\ own \subseteq {Identity(s) : s \in RecentSpikes}
                       /\ Dispatch(own)
<1>1. CASE SpikeStarts \/ SpikeGoesOn
  <2>1. Worst \in Qualifying /\ Worst \in Spikes
    BY <1>1, WorstFacts DEF SpikeStarts, SpikeGoesOn
  <2>2. {Identity(Worst)} \subseteq {Identity(s) : s \in RecentSpikes}
    BY <2>1 DEF Qualifying
  <2> QED
    BY <1>1, <2>1, <2>2 DEF SpikeStarts, SpikeGoesOn, CheckDone
<1>2. CASE SpikeEnds \/ NoSpike
  <2>1. {} \subseteq {Identity(s) : s \in RecentSpikes} /\ Dispatch({})
    BY <1>2 DEF SpikeEnds, NoSpike
  <2>2. /\ Qualifying = {} /\ active' = None /\ phase' = "good_window"
        /\ UNCHANGED <<settings, window, rows, events, restarts, update, loaded,
                       goodActive, staleActive>>
    BY <1>2 DEF SpikeEnds, NoSpike, CheckDone
  <2> QED
    BY <2>1, <2>2
<1> QED
  BY <1>1, <1>2

(* The window only slides forward. *)
LEMMA WindowSlides ==
    ASSUME ManagerTypeOK, detected' \in detected..MaxSpikes, oldest' \in oldest..(detected' + 1)
    PROVE  detected' \in 0..MaxSpikes /\ oldest' \in 1..(detected' + 1)
<1>1. detected \in 0..MaxSpikes /\ oldest \in 1..(detected + 1) /\ MaxSpikes \in Nat
  BY AlertAssumption DEF ManagerTypeOK
<1>2. detected' \in 0..MaxSpikes
  BY <1>1, SMT
<1>3. oldest' \in 1..(detected' + 1)
  <2> DEFINE d == detected  o == oldest  dp == detected'  op == oldest'
  <2>1. d \in Nat /\ dp \in Nat /\ o \in Int /\ 1 <= o /\ op \in o..(dp + 1)
    <3>1. d \in Nat /\ o \in Int /\ 1 <= o
      BY <1>1
    <3>2. dp \in Nat
      BY <1>1, <1>2
    <3> QED
      BY <3>1, <3>2
  <2> HIDE DEF d, o, dp, op
  <2>2. op \in 1..(dp + 1)
    BY <2>1
  <2> QED
    BY <2>2 DEF dp, op
<1> QED
  BY <1>2, <1>3

LEMMA ManagerTypeStep == ManagerTypeOK /\ [ManagerNext]_managerVars => ManagerTypeOK'
<1> SUFFICES ASSUME ManagerTypeOK, [ManagerNext]_managerVars PROVE ManagerTypeOK'
  OBVIOUS
<1> USE DEF local, settings, window, state, history
<1>1. CASE Update
  <2>1. detected' \in 0..MaxSpikes /\ oldest' \in 1..(detected' + 1)
    BY <1>1, WindowSlides DEF Update
  <2>2. update' \in [good : BOOLEAN, stale : BOOLEAN]
    <3>1. CASE hook
      <4>1. update' \in [good : IF detected' >= oldest' + 2 THEN BOOLEAN ELSE {FALSE},
                        stale : BOOLEAN]
        BY <1>1, <3>1 DEF Update
      <4> QED
        BY <4>1
    <3>2. CASE ~hook
      <4>1. update' = NoUpdate
        BY <1>1, <3>2 DEF Update
      <4> QED
        BY <4>1 DEF NoUpdate
    <3> QED
      BY <3>1, <3>2
  <2>3. phase' \in {"idle", "load", "spike", "good_window", "stale_data"}
    BY <1>1 DEF Update, ManagerTypeOK
  <2> QED
    BY <1>1, <2>1, <2>2, <2>3 DEF Update, ManagerTypeOK
<1>2. CASE LoadConfigs
  BY <1>2 DEF LoadConfigs, ManagerTypeOK
<1>3. CASE SpikeStarts \/ SpikeGoesOn \/ SpikeEnds \/ NoSpike
  <2>1. PICK own : own \subseteq {Identity(s) : s \in RecentSpikes} /\ Dispatch(own)
    BY <1>3, SpikeCheck
  <2>2. seen' \subseteq Spikes \X Tags /\ inflight' \subseteq Pairs
    BY <2>1, DispatchFacts
  <2>3. /\ active' \in Spikes \cup {None} /\ phase' = "good_window"
        /\ UNCHANGED <<settings, window, rows, events, restarts, update, loaded,
                       goodActive, staleActive>>
    BY <1>3, SpikeCheck
  <2> QED
    BY <2>2, <2>3 DEF ManagerTypeOK
<1>4. CASE CheckGoodWindow
  BY <1>4 DEF CheckGoodWindow, CheckDone, ManagerTypeOK
<1>5. CASE CheckStaleData
  BY <1>5 DEF CheckStaleData, CheckDone, ManagerTypeOK, NoUpdate
<1>6. CASE LogEvent \/ LogFails \/ PruneEvents
  BY <1>6 DEF LogEvent, LogFails, PruneEvents, ManagerTypeOK
<1>7. CASE EnableConfig \/ DisableConfig \/ ChangeThreshold
  BY <1>7 DEF EnableConfig, DisableConfig, ChangeThreshold, ConfigAction, ManagerTypeOK
<1>8. CASE Restart
  <2>1. detected' \in 0..MaxSpikes /\ oldest' \in 1..(detected' + 1)
    BY <1>8, WindowSlides DEF Restart
  <2>2. seen' \subseteq Spikes \X Tags
    <3>1. PICK newest \in SUBSET events : seen' \in {{LoggedKey(p[1]) : p \in newest}, {}}
      BY <1>8 DEF Restart
    <3>2. \A p \in newest : LoggedKey(p[1]) \in Spikes \X Tags
      BY <3>1 DEF ManagerTypeOK, Pairs, LoggedKey, Tags
    <3> QED
      BY <3>1, <3>2
  <2> QED
    BY <1>8, <2>1, <2>2 DEF Restart, ManagerTypeOK, NoUpdate
<1>9. CASE UNCHANGED managerVars
  BY <1>9 DEF managerVars, ManagerTypeOK
<1> QED
  BY <1>1, <1>2, <1>3, <1>4, <1>5, <1>6, <1>7, <1>8, <1>9 DEF ManagerNext, Check

(* Every variable has its type; the window stays a stretch of the spikes. *)
THEOREM ManagerTypeCorrect == ManagerSpec => []ManagerTypeOK
  BY ManagerTypeInit, ManagerTypeStep, PTL DEF ManagerSpec

-----------------------------------------------------------------------------
(* What a check leaves behind: the three invariants hold from the check of
   spikes to the end of the update, because nothing but the check touches the
   window, the dedup set and the loaded configs meanwhile. *)

CheckInv == SeenBounded /\ ActiveIsWorst /\ ConfigsServed

LEMMA CheckStep == ManagerTypeOK /\ CheckInv /\ [ManagerNext]_managerVars => CheckInv'
<1> SUFFICES ASSUME ManagerTypeOK, CheckInv, [ManagerNext]_managerVars PROVE CheckInv'
  OBVIOUS
<1> USE DEF local, settings, window, state, history
<1>1. CASE SpikeStarts \/ SpikeGoesOn \/ SpikeEnds \/ NoSpike
  <2>1. PICK own : own \subseteq {Identity(s) : s \in RecentSpikes} /\ Dispatch(own)
    BY <1>1, SpikeCheck
  <2>2. /\ seen' \subseteq RecentSpikes \X ({"start"} \cup Urls)
        /\ {p \in Spikes \X Urls :
                    /\ p[1] \in RecentSpikes
                    /\ \E c \in loaded : c.url = p[2] /\ Meets(p[1], c.threshold)} \subseteq sent'
    BY <2>1, DispatchFacts
  <2>3. /\ active' = IF Qualifying = {} THEN None ELSE Worst
        /\ UNCHANGED <<oldest, detected, loaded>>
    BY <1>1, SpikeCheck
  <2>4. RecentSpikes' = RecentSpikes /\ Qualifying' = Qualifying /\ Worst' = Worst
    BY <2>3 DEF RecentSpikes, Qualifying, Worst
  <2> QED
    BY <2>2, <2>3, <2>4 DEF CheckInv, SeenBounded, ActiveIsWorst, ConfigsServed
<1>2. CASE Update \/ LoadConfigs \/ CheckStaleData \/ Restart
  <2>1. ~ Checked'
    BY <1>2 DEF Update, LoadConfigs, CheckStaleData, CheckDone, Restart, Checked
  <2> QED
    BY <2>1 DEF CheckInv, SeenBounded, ActiveIsWorst, ConfigsServed
<1>3. CASE \/ CheckGoodWindow \/ LogEvent \/ LogFails \/ PruneEvents
           \/ EnableConfig \/ DisableConfig \/ ChangeThreshold \/ UNCHANGED managerVars
  <2>1. /\ Checked' => Checked
        /\ UNCHANGED <<oldest, detected, seen, active, loaded, sent>>
    BY <1>3 DEF CheckGoodWindow, CheckDone, LogEvent, LogFails, PruneEvents, EnableConfig,
                DisableConfig, ChangeThreshold, ConfigAction, managerVars, Checked
  <2>2. RecentSpikes' = RecentSpikes /\ Qualifying' = Qualifying /\ Worst' = Worst
    BY <2>1 DEF RecentSpikes, Qualifying, Worst
  <2> QED
    BY <2>1, <2>2 DEF CheckInv, SeenBounded, ActiveIsWorst, ConfigsServed
<1> QED
  BY <1>1, <1>2, <1>3 DEF ManagerNext, Check

LEMMA CheckCorrect == ManagerSpec => []CheckInv
<1>1. ManagerInit => CheckInv
  BY DEF ManagerInit, CheckInv, SeenBounded, ActiveIsWorst, ConfigsServed, Checked
<1> QED
  BY <1>1, CheckStep, ManagerTypeCorrect, PTL DEF ManagerSpec

(* The dedup set never outgrows the window: pruning keeps up with what checks
   insert. *)
THEOREM DedupIsBounded == ManagerSpec => []SeenBounded
  BY CheckCorrect, PTL DEF CheckInv

(* The manager believes in the worst qualifying spike, whichever alert types
   are enabled. *)
THEOREM BelievesTheWorst == ManagerSpec => []ActiveIsWorst
  BY CheckCorrect, PTL DEF CheckInv

(* No key silences a webhook that was not served. *)
THEOREM EveryConfigIsServed == ManagerSpec => []ConfigsServed
  BY CheckCorrect, PTL DEF CheckInv

-----------------------------------------------------------------------------
(* The manager implements EdgeAlerts. *)

(* The flags are what the last update showed. *)
ShownInv ==
    /\ shown \in [{"spike", "good_window", "stale_data"} -> BOOLEAN]
    /\ shown["spike"] <=> active # None
    /\ shown["good_window"] <=> goodActive
    /\ shown["stale_data"] <=> staleActive

LEMMA ShownInit == ManagerInit => ShownInv /\ Alerts!Init
<1> SUFFICES ASSUME ManagerInit PROVE ShownInv /\ Alerts!Init
  OBVIOUS
<1>1. shown = [c \in {"spike", "good_window", "stale_data"} |-> FALSE]
  BY DEF ManagerInit, Calm
<1> QED
  BY <1>1 DEF ManagerInit, ShownInv, Alerts!Init, Alerts!Nothing, Alerts!Conditions

(* A check is Show of its condition. *)
LEMMA ShowStep ==
    ASSUME ShownInv, NEW c \in {"spike", "good_window", "stale_data"}, NEW b \in BOOLEAN,
           shown' = [shown EXCEPT ![c] = b], posted' = Alerts!Edge(c, shown[c], b) \cap enabled,
           enabled' = enabled
    PROVE  [Alerts!Next]_(Alerts!edgeVars)
  BY DEF Alerts!Next, Alerts!Show, Alerts!Conditions

LEMMA EdgeFacts ==
    /\ Alerts!Edge("spike", FALSE, TRUE) = {"spike"}
    /\ Alerts!Edge("spike", TRUE, FALSE) = {"recovery"}
    /\ \A b \in BOOLEAN, c \in {"spike", "good_window", "stale_data"} : Alerts!Edge(c, b, b) = {}
    /\ \A c \in {"good_window", "stale_data"} :
        Alerts!Edge(c, FALSE, TRUE) = {c} /\ Alerts!Edge(c, TRUE, FALSE) = {}
  BY DEF Alerts!Edge

LEMMA EdgeStep ==
    ManagerTypeOK /\ ShownInv /\ [ManagerNext]_managerVars
        => ShownInv' /\ [Alerts!Next]_(Alerts!edgeVars)
<1> SUFFICES ASSUME ManagerTypeOK, ShownInv, [ManagerNext]_managerVars
             PROVE  ShownInv' /\ [Alerts!Next]_(Alerts!edgeVars)
  OBVIOUS
<1> USE DEF local, settings, window, state, history
<1>1. CASE SpikeStarts
  <2>1. Worst # None
    BY <1>1, WorstFacts DEF SpikeStarts
  <2>2. /\ active = None /\ active' = Worst /\ enabled' = enabled
        /\ goodActive' = goodActive /\ staleActive' = staleActive
        /\ shown' = [shown EXCEPT !["spike"] = TRUE] /\ posted' = {"spike"} \cap enabled
    BY <1>1 DEF SpikeStarts, CheckDone, Post
  <2>3. ShownInv'
    BY <2>1, <2>2 DEF ShownInv
  <2>4. shown["spike"] = FALSE
    BY <2>2 DEF ShownInv
  <2>5. posted' = Alerts!Edge("spike", shown["spike"], TRUE) \cap enabled
    BY <2>2, <2>4, EdgeFacts
  <2> QED
    BY <2>2, <2>3, <2>5, ShowStep
<1>2. CASE SpikeGoesOn
  <2>1. Worst # None
    BY <1>2, WorstFacts DEF SpikeGoesOn
  <2>2. /\ active # None /\ active' = Worst /\ enabled' = enabled
        /\ goodActive' = goodActive /\ staleActive' = staleActive
        /\ shown' = [shown EXCEPT !["spike"] = TRUE] /\ posted' = {} \cap enabled
    BY <1>2 DEF SpikeGoesOn, CheckDone, Post
  <2>3. ShownInv'
    BY <2>1, <2>2 DEF ShownInv
  <2>4. shown["spike"] = TRUE
    BY <2>2 DEF ShownInv
  <2>5. posted' = Alerts!Edge("spike", shown["spike"], TRUE) \cap enabled
    BY <2>2, <2>4, EdgeFacts
  <2> QED
    BY <2>2, <2>3, <2>5, ShowStep
<1>3. CASE SpikeEnds
  <2>1. /\ active # None /\ active' = None /\ enabled' = enabled
        /\ goodActive' = goodActive /\ staleActive' = staleActive
        /\ shown' = [shown EXCEPT !["spike"] = FALSE] /\ posted' = {"recovery"} \cap enabled
    BY <1>3 DEF SpikeEnds, CheckDone, Post
  <2>2. ShownInv'
    BY <2>1 DEF ShownInv
  <2>3. shown["spike"] = TRUE
    BY <2>1 DEF ShownInv
  <2>4. posted' = Alerts!Edge("spike", shown["spike"], FALSE) \cap enabled
    BY <2>1, <2>3, EdgeFacts
  <2> QED
    BY <2>1, <2>2, <2>4, ShowStep
<1>4. CASE NoSpike
  <2>1. /\ active = None /\ active' = None /\ enabled' = enabled
        /\ goodActive' = goodActive /\ staleActive' = staleActive
        /\ shown' = [shown EXCEPT !["spike"] = FALSE] /\ posted' = {} \cap enabled
    BY <1>4 DEF NoSpike, CheckDone, Post
  <2>2. ShownInv'
    BY <2>1 DEF ShownInv
  <2>3. shown["spike"] = FALSE
    BY <2>1 DEF ShownInv
  <2>4. posted' = Alerts!Edge("spike", shown["spike"], FALSE) \cap enabled
    BY <2>1, <2>3, EdgeFacts
  <2> QED
    BY <2>1, <2>2, <2>4, ShowStep
<1>5. CASE CheckGoodWindow
  <2>1. /\ goodActive' = update.good /\ enabled' = enabled /\ update.good \in BOOLEAN
        /\ active' = active /\ staleActive' = staleActive
        /\ shown' = [shown EXCEPT !["good_window"] = update.good]
        /\ posted' = (IF update.good /\ ~goodActive THEN {"good_window"} ELSE {}) \cap enabled
    BY <1>5 DEF CheckGoodWindow, CheckDone, Post, ManagerTypeOK
  <2>2. ShownInv'
    BY <2>1 DEF ShownInv
  <2>3. shown["good_window"] \in BOOLEAN /\ goodActive \in BOOLEAN
        /\ shown["good_window"] = goodActive
    BY DEF ShownInv, ManagerTypeOK
  <2>4. Alerts!Edge("good_window", shown["good_window"], update.good) =
            IF update.good /\ ~goodActive THEN {"good_window"} ELSE {}
    BY <2>1, <2>3, EdgeFacts
  <2> QED
    BY <2>1, <2>2, <2>4, ShowStep
<1>6. CASE CheckStaleData
  <2>1. /\ staleActive' = update.stale /\ enabled' = enabled /\ update.stale \in BOOLEAN
        /\ active' = active /\ goodActive' = goodActive
        /\ shown' = [shown EXCEPT !["stale_data"] = update.stale]
        /\ posted' = (IF update.stale /\ ~staleActive THEN {"stale_data"} ELSE {}) \cap enabled
    BY <1>6 DEF CheckStaleData, CheckDone, Post, ManagerTypeOK
  <2>2. ShownInv'
    BY <2>1 DEF ShownInv
  <2>3. shown["stale_data"] \in BOOLEAN /\ staleActive \in BOOLEAN
        /\ shown["stale_data"] = staleActive
    BY DEF ShownInv, ManagerTypeOK
  <2>4. Alerts!Edge("stale_data", shown["stale_data"], update.stale) =
            IF update.stale /\ ~staleActive THEN {"stale_data"} ELSE {}
    BY <2>1, <2>3, EdgeFacts
  <2> QED
    BY <2>1, <2>2, <2>4, ShowStep
<1>7. CASE Restart
  <2>1. /\ shown' = [c \in {"spike", "good_window", "stale_data"} |-> FALSE]
        /\ active' = None /\ goodActive' = FALSE /\ staleActive' = FALSE
        /\ enabled' \in TypeSets /\ posted' = {}
    BY <1>7 DEF Restart, Calm
  <2>2. ShownInv'
    BY <2>1 DEF ShownInv
  <2>3. Alerts!Restart
    BY <2>1 DEF Alerts!Restart, Alerts!Nothing, Alerts!Conditions
  <2> QED
    BY <2>2, <2>3 DEF Alerts!Next
<1>8. CASE \/ Update \/ LoadConfigs \/ LogEvent \/ LogFails \/ PruneEvents
           \/ EnableConfig \/ DisableConfig \/ ChangeThreshold \/ UNCHANGED managerVars
  <2>1. UNCHANGED <<active, goodActive, staleActive, shown, posted, enabled>>
    BY <1>8 DEF Update, LoadConfigs, LogEvent, LogFails, PruneEvents, EnableConfig,
                DisableConfig, ChangeThreshold, ConfigAction, managerVars
  <2> QED
    BY <2>1 DEF ShownInv, Alerts!edgeVars
<1> QED
  BY <1>1, <1>2, <1>3, <1>4, <1>5, <1>6, <1>7, <1>8 DEF ManagerNext, Check

(* The subscriber of the default webhook sees exactly the edges of what the
   updates show, of the enabled types, across restarts. *)
THEOREM PostsEdgesOnly == ManagerSpec => PostsEdges
<1>1. ManagerSpec => [](ManagerTypeOK /\ ShownInv)
  BY ShownInit, EdgeStep, ManagerTypeCorrect, PTL DEF ManagerSpec
<1> QED
  BY <1>1, ShownInit, EdgeStep, PTL DEF ManagerSpec, PostsEdges, Alerts!EdgeSpec
=============================================================================
