--------------------------- MODULE FeeInsights_proofs ---------------------------
(***************************************************************************)
(* Proofs about FeeInsights, for every set of fees, every length of the    *)
(* windows, the buffers, the period and the health limit, and any batches, *)
(* polls and restarts.                                                     *)
(***************************************************************************)
EXTENDS FeeInsights, FiniteSetTheorems, WellFoundedInduction, TLAPS

-----------------------------------------------------------------------------
(* Numbers. *)

LEMMA LeastElement ==
    ASSUME NEW T, T \subseteq Nat, T # {}
    PROVE  \E m \in T : \A n \in T : m <= n
<1>1. PICK m \in T : \A n \in T : <<n, m>> \notin OpToRel(<, Nat)
  BY WFMin, NatLessThanWellFounded
<1>2. ASSUME NEW n \in T PROVE m <= n
  <2>1. ~ (n < m)
    BY <1>1, <1>2 DEF OpToRel
  <2> QED
    BY <2>1, SMT
<1> QED
  BY <1>1, <1>2

LEMMA GreatestElement ==
    ASSUME NEW M \in Nat, NEW T, T \subseteq 0..M, T # {}
    PROVE  \E m \in T : \A n \in T : n <= m
<1> DEFINE U == {M - t : t \in T}
<1>1. U \subseteq Nat /\ U # {}
  BY SMT
<1>2. PICK u \in U : \A v \in U : u <= v
  BY <1>1, LeastElement
<1>3. PICK m \in T : u = M - m
  BY <1>2
<1>4. ASSUME NEW n \in T PROVE n <= m
  <2>1. u <= M - n
    BY <1>2
  <2> QED
    BY <1>3, <2>1, SMT
<1> QED
  BY <1>4

-----------------------------------------------------------------------------
(* Folds, as the recursive functions of the module define them. *)

(* What holds of 0 and passes from k - 1 to k holds up to n. *)
LEMMA Reaches ==
    ASSUME NEW n \in Nat, NEW T, 0 \in T, \A k \in 1..n : k - 1 \in T => k \in T
    PROVE  0..n \subseteq T
<1> DEFINE without == (0..n) \ T
<1>1. SUFFICES ASSUME without # {} PROVE FALSE
  OBVIOUS
<1>2. without \subseteq Nat
  OBVIOUS
<1>3. PICK m \in without : \A k \in without : m <= k
  <2> HIDE DEF without
  <2> QED
    BY <1>1, <1>2, LeastElement
<1>4. m \in 1..n /\ m - 1 \in 0..n
  BY <1>3
<1>5. m - 1 \in T
  BY <1>3, <1>4
<1> QED
  BY <1>3, <1>4, <1>5

IsFold(f, n, base, step) == f[0] = base /\ \A k \in 1..n : f[k] = step[k][f[k - 1]]

(* A function defined by what it is at 0 and how it goes on exists. *)
LEMMA FoldExists ==
    ASSUME NEW n \in Nat, NEW S, NEW base \in S, NEW step \in [1..n -> [S -> S]]
    PROVE  \E f \in [0..n -> S] : IsFold(f, n, base, step)
<1> USE DEF IsFold
<1> DEFINE Upto(f, m) == IsFold(f, m, base, step)
           with == {m \in 0..n : \E f \in [0..m -> S] : Upto(f, m)}
<1>1. 0 \in with
  <2> DEFINE f == [k \in 0..0 |-> base]
  <2>1. f \in [0..0 -> S] /\ Upto(f, 0)
    OBVIOUS
  <2>2. \E h \in [0..0 -> S] : Upto(h, 0)
    BY <2>1
  <2> HIDE DEF Upto
  <2> QED
    BY <2>2
<1>2. ASSUME NEW m \in 1..n, m - 1 \in with PROVE m \in with
  <2>1. PICK f \in [0..m - 1 -> S] : Upto(f, m - 1)
    BY <1>2
  <2> DEFINE g == [k \in 0..m |-> IF k = m THEN step[m][f[m - 1]] ELSE f[k]]
  <2>2. f[m - 1] \in S /\ step[m] \in [S -> S]
    BY <2>1
  <2>3. g \in [0..m -> S]
    BY <2>1, <2>2
  <2>4. g[m] = step[m][f[m - 1]] /\ \A k \in 0..m - 1 : g[k] = f[k]
    OBVIOUS
  <2> HIDE DEF g
  <2>5. g[0] = base
    BY <2>1, <2>4
  <2>6. ASSUME NEW k \in 1..m PROVE g[k] = step[k][g[k - 1]]
    <3>1. CASE k = m
      BY <2>4, <3>1
    <3>2. CASE k # m
      <4>1. k \in 1..m - 1 /\ k - 1 \in 0..m - 1 /\ k \in 0..m - 1
        BY <3>2
      <4> QED
        BY <2>1, <2>4, <4>1
    <3> QED
      BY <3>1, <3>2
  <2>7. \E h \in [0..m -> S] : Upto(h, m)
    BY <2>3, <2>5, <2>6
  <2>8. m \in 0..n
    OBVIOUS
  <2> HIDE DEF Upto
  <2> QED
    BY <2>7, <2>8
<1>3. n \in with
  <2> HIDE DEF with
  <2>1. 0..n \subseteq with
    BY <1>1, <1>2, Reaches
  <2> QED
    BY <2>1
<1> QED
  BY <1>3

(* The total of the fees of a window of well-formed points. *)
LEMMA TotalPositive ==
    ASSUME NEW s, s \in Seq(Points), \A i \in DOMAIN s : s[i].fee # 0
    PROVE  TotalFee(s) \in Nat /\ (TotalFee(s) > 0 <=> s # << >>)
<1> DEFINE n == Len(s)
           step == [k \in 1..n |-> [sum \in Nat |-> sum + s[k].fee]]
           total == CHOOSE f : f = [k \in 0..n |-> IF k = 0 THEN 0 ELSE f[k - 1] + s[k].fee]
<1>1. n \in Nat /\ DOMAIN s = 1..n
  OBVIOUS
<1>2. \A k \in 1..n : s[k].fee \in Nat /\ s[k].fee > 0
  <2> SUFFICES ASSUME NEW k \in 1..n PROVE s[k].fee \in Nat /\ s[k].fee > 0
    OBVIOUS
  <2>1. s[k] \in Points /\ s[k].fee # 0
    BY <1>1
  <2>2. s[k].fee \in Fees
    BY <2>1 DEF Points
  <2>3. s[k].fee \in Nat
    BY <2>2, InsightsAssumption
  <2>4. s[k].fee # 0
    BY <2>1
  <2> QED
    BY <2>3, <2>4
<1>3. step \in [1..n -> [Nat -> Nat]]
  BY <1>2
<1>4. PICK f \in [0..n -> Nat] : IsFold(f, n, 0, step)
  <2> HIDE DEF n, step, total
  <2> QED
    BY <1>1, <1>3, FoldExists
<1>5. f = [k \in 0..n |-> IF k = 0 THEN 0 ELSE f[k - 1] + s[k].fee]
  <2>1. ASSUME NEW k \in 1..n PROVE f[k] = f[k - 1] + s[k].fee
    <3> HIDE DEF n
    <3>1. f[k - 1] \in Nat
      BY <1>1, <1>4
    <3>2. step[k][f[k - 1]] = f[k - 1] + s[k].fee
      BY <3>1
    <3> HIDE DEF step
    <3>3. f[k] = step[k][f[k - 1]]
      BY <1>4 DEF IsFold
    <3> QED
      BY <3>2, <3>3
  <2> HIDE DEF n, step, total
  <2>2. f[0] = 0
    BY <1>4 DEF IsFold
  <2> QED
    BY <1>4, <2>1, <2>2
<1>6. total = [k \in 0..n |-> IF k = 0 THEN 0 ELSE total[k - 1] + s[k].fee]
  BY <1>5
<1>7. TotalFee(s) = total[n]
  BY DEF TotalFee
<1>8. n = 0 <=> s = << >>
  BY SMT
<1> HIDE DEF total, n, step
<1>9. ASSUME NEW k \in 1..n PROVE total[k] = total[k - 1] + s[k].fee
  BY <1>1, <1>6
<1> DEFINE T == {k \in 0..n : total[k] \in Nat /\ (total[k] > 0 <=> k > 0)}
<1>10. ASSUME NEW k \in 1..n, k - 1 \in T PROVE k \in T
  <2>1. total[k - 1] \in Nat /\ s[k].fee \in Nat /\ s[k].fee > 0
    BY <1>2, <1>10
  <2>2. total[k] = total[k - 1] + s[k].fee
    BY <1>9
  <2>3. total[k] \in Nat /\ total[k] > 0
    BY <2>1, <2>2
  <2> QED
    BY <1>1, <2>3
<1>11. n \in T
  <2> HIDE DEF T
  <2>1. total[0] = 0
    BY <1>1, <1>6
  <2>2. 0 \in T
    BY <1>1, <2>1 DEF T
  <2>3. 0..n \subseteq T
    BY <1>1, <1>10, <2>2, Reaches
  <2> QED
    BY <1>1, <2>3
<1> QED
  BY <1>1, <1>7, <1>8, <1>11

-----------------------------------------------------------------------------
(* The extremes of a period. *)

Extremes == [start : Int, end : Int, min : Points \cup {NoPoint}, max : Points \cup {NoPoint}]

(* p holds the lowest and the highest fee of the points of C in the period. *)
Bounding(p, C) ==
    LET counted == {q \in C : q.at \in p.start..p.end}
    IN  IF counted = {} THEN p.min = NoPoint /\ p.max = NoPoint
        ELSE /\ {p.min, p.max} \subseteq counted
             /\ \A q \in counted : q.fee \in p.min.fee..p.max.fee

LEMMA PointFields ==
    ASSUME NEW p \in Points
    PROVE  /\ p.at \in Int /\ p.polled \in Int /\ p.id \in Int /\ p.fee \in Nat
           /\ p.at >= 0 /\ p.at <= MaxTime /\ p.id >= 1
           /\ p # NoPoint
<1>1. p.fee \in Fees
  BY DEF Points
<1>2. p.fee \in Nat
  BY <1>1, InsightsAssumption
<1>3. p.at \in 0..MaxTime /\ p.polled \in 0..MaxTime /\ p.id \in 1..MaxPoints
  BY DEF Points
<1>4. NoPoint.at = -1
  BY DEF NoPoint, None
<1> QED
  BY <1>2, <1>3, <1>4, InsightsAssumption

LEMMA TrackedInType ==
    ASSUME NEW p \in Extremes, NEW fee \in Points
    PROVE  TrackedIn(p, fee) \in Extremes
BY DEF TrackedIn, Tracked, Extremes

LEMMA TrackedInBounds ==
    ASSUME NEW p \in Extremes, NEW C \in SUBSET Points, NEW fee \in Points, Bounding(p, C)
    PROVE  Bounding(TrackedIn(p, fee), C \cup {fee})
<1> DEFINE q == TrackedIn(p, fee)
           counted == {x \in C : x.at \in p.start..p.end}
           counted2 == {x \in C \cup {fee} : x.at \in q.start..q.end}
<1>1. q.start = p.start /\ q.end = p.end
  BY DEF TrackedIn, Tracked, Extremes
<1>2. CASE fee.at \notin p.start..p.end
  <2>1. q = p
    BY <1>2 DEF TrackedIn
  <2>2. counted2 = counted
    BY <1>1, <1>2
  <2> QED
    BY <2>1, <2>2 DEF Bounding
<1>3. CASE fee.at \in p.start..p.end
  <2>1. counted2 = counted \cup {fee} /\ counted2 # {}
    BY <1>1, <1>3
  <2>2. /\ q.min = IF p.min = NoPoint \/ fee.fee < p.min.fee THEN fee ELSE p.min
        /\ q.max = IF p.max = NoPoint \/ fee.fee > p.max.fee THEN fee ELSE p.max
    BY <1>3 DEF TrackedIn, Tracked, Extremes
  <2>3. fee.fee \in Nat
    BY PointFields
  <2>4. /\ {q.min, q.max} \subseteq counted2
        /\ \A x \in counted2 : x.fee \in q.min.fee..q.max.fee
    <3>1. CASE counted = {}
      <4>1. q.min = fee /\ q.max = fee
        BY <2>2, <3>1 DEF Bounding
      <4> QED
        BY <2>1, <2>3, <3>1, <4>1
    <3>2. CASE counted # {}
      <4>1. /\ p.min \in counted /\ p.max \in counted
            /\ \A x \in counted : x.fee \in p.min.fee..p.max.fee
        BY <3>2 DEF Bounding
      <4>2. p.min \in Points /\ p.max \in Points /\ counted \subseteq Points
        BY <4>1
      <4>3. p.min # NoPoint /\ p.max # NoPoint /\ p.min.fee \in Nat /\ p.max.fee \in Nat
        BY <4>2, PointFields
      <4>4. \A x \in counted : x.fee \in Nat
        BY <4>2, PointFields
      <4>5. q.min \in {fee, p.min} /\ q.min.fee <= fee.fee /\ q.min.fee <= p.min.fee
        BY <2>2, <2>3, <4>3
      <4>6. q.max \in {fee, p.max} /\ q.max.fee >= fee.fee /\ q.max.fee >= p.max.fee
        BY <2>2, <2>3, <4>3
      <4>7. q.min.fee \in Nat /\ q.max.fee \in Nat
        BY <2>3, <4>3, <4>5, <4>6
      <4>8. ASSUME NEW x \in counted2 PROVE x.fee \in q.min.fee..q.max.fee
        <5>1. CASE x = fee
          BY <2>3, <4>5, <4>6, <4>7, <5>1
        <5>2. CASE x \in counted
          <6>1. x.fee \in Nat /\ x.fee \in p.min.fee..p.max.fee
            BY <4>1, <4>4, <5>2
          <6> HIDE DEF q
          <6> QED
            BY <4>3, <4>5, <4>6, <4>7, <6>1
        <5> QED
          BY <2>1, <5>1, <5>2
      <4> QED
        BY <2>1, <4>1, <4>5, <4>6, <4>8
    <3> QED
      BY <3>1, <3>2
  <2> QED
    BY <2>1, <2>4 DEF Bounding
<1> QED
  BY <1>2, <1>3

Tracks(f, batch) ==
    f[0] = Rotated(now) /\ \A k \in 1..Len(batch) : f[k] = TrackedIn(f[k - 1], batch[k])

LEMMA TrackFolds ==
    ASSUME NEW batch \in Seq(Points), Rotated(now) \in Extremes
    PROVE  \E f \in [0..Len(batch) -> Extremes] :
              Tracks(f, batch) /\ Track(batch) = f[Len(batch)]
<1> DEFINE n == Len(batch)
           first == Rotated(now)
           step == [k \in 1..n |-> [p \in Extremes |-> TrackedIn(p, batch[k])]]
           F(f) == [k \in 0..n |-> IF k = 0 THEN Rotated(now)
                                   ELSE TrackedIn(f[k - 1], batch[k])]
           after == CHOOSE f : f = F(f)
<1>1. n \in Nat /\ \A k \in 1..n : batch[k] \in Points
  OBVIOUS
<1>2. step \in [1..n -> [Extremes -> Extremes]]
  BY <1>1, TrackedInType
<1>3. PICK f \in [0..n -> Extremes] : IsFold(f, n, first, step)
  <2> HIDE DEF n, step, first
  <2>1. first \in Extremes
    BY DEF first
  <2> QED
    BY <1>1, <1>2, <2>1, FoldExists
<1>4. f = F(f)
  <2>1. ASSUME NEW k \in 1..n PROVE f[k] = TrackedIn(f[k - 1], batch[k])
    <3> HIDE DEF n
    <3>1. f[k - 1] \in Extremes
      BY <1>1, <1>3
    <3>2. step[k][f[k - 1]] = TrackedIn(f[k - 1], batch[k])
      BY <3>1
    <3> HIDE DEF step
    <3>3. f[k] = step[k][f[k - 1]]
      BY <1>3 DEF IsFold
    <3> QED
      BY <3>2, <3>3
  <2> HIDE DEF n, step
  <2>2. f[0] = Rotated(now)
    BY <1>3 DEF IsFold
  <2> QED
    BY <1>3, <2>1, <2>2
<1>5. after = F(after)
  <2> HIDE DEF F
  <2> QED
    BY <1>4
<1>6. Track(batch) = after[n]
  BY DEF Track
<1> HIDE DEF after, step
<1>7. ASSUME NEW k \in 1..n PROVE after[k] = TrackedIn(after[k - 1], batch[k])
  <2> HIDE DEF n
  <2> QED
    BY <1>1, <1>5
<1>8. after[0] = Rotated(now)
  <2> HIDE DEF n
  <2> QED
    BY <1>1, <1>5
<1>9. \A k \in 0..n : after[k] \in Extremes
  <2> DEFINE T == {k \in 0..n : after[k] \in Extremes}
  <2> HIDE DEF n
  <2>1. 0 \in T
    BY <1>1, <1>8
  <2>2. ASSUME NEW k \in 1..n, k - 1 \in T PROVE k \in T
    BY <1>1, <1>7, <2>2, TrackedInType
  <2>3. 0..n \subseteq T
    <3> HIDE DEF T
    <3> QED
      BY <1>1, <2>1, <2>2, Reaches
  <2> QED
    BY <2>3
<1>10. after \in [0..n -> Extremes]
  <2> HIDE DEF n
  <2> QED
    BY <1>5, <1>9
<1>11. Tracks(after, batch)
  BY <1>7, <1>8 DEF Tracks
<1> QED
  BY <1>6, <1>10, <1>11

(* The points of a batch up to the k-th. *)
Upto(batch, k) == {batch[i] : i \in 1..k}

LEMMA UptoSteps ==
    ASSUME NEW S, NEW batch \in Seq(S)
    PROVE  /\ Len(batch) \in Nat
           /\ Upto(batch, 0) = {}
           /\ Upto(batch, Len(batch)) = ToSet(batch)
           /\ \A k \in 1..Len(batch) :
                 /\ batch[k] \in S
                 /\ Upto(batch, k) = Upto(batch, k - 1) \cup {batch[k]}
                 /\ Upto(batch, k - 1) \subseteq S
<1>1. Upto(batch, 0) = {}
  BY DEF Upto
<1>2. Upto(batch, Len(batch)) = ToSet(batch)
  BY DEF Upto, ToSet
<1>3. ASSUME NEW k \in 1..Len(batch)
      PROVE  /\ batch[k] \in S
             /\ Upto(batch, k) = Upto(batch, k - 1) \cup {batch[k]}
             /\ Upto(batch, k - 1) \subseteq S
  <2>1. 1..k = (1..k - 1) \cup {k}
    OBVIOUS
  <2>2. \A i \in 1..k : batch[i] \in S
    OBVIOUS
  <2> QED
    BY <2>1, <2>2 DEF Upto
<1> QED
  BY <1>1, <1>2, <1>3

LEMMA TrackBounds ==
    ASSUME NEW batch \in Seq(Points), Rotated(now) \in Extremes,
           NEW C \in SUBSET Points, Bounding(Rotated(now), C)
    PROVE  /\ Track(batch) \in Extremes
           /\ Track(batch).start = Rotated(now).start
           /\ Track(batch).end = Rotated(now).end
           /\ Bounding(Track(batch), C \cup ToSet(batch))
<1> DEFINE n == Len(batch)
<1>1. PICK f \in [0..n -> Extremes] : Tracks(f, batch) /\ Track(batch) = f[n]
  BY TrackFolds
<1>2. n \in Nat
  OBVIOUS
<1> DEFINE T == {k \in 0..n : /\ f[k].start = Rotated(now).start
                              /\ f[k].end = Rotated(now).end
                              /\ Bounding(f[k], C \cup Upto(batch, k))}
<1>3. 0 \in T
  <2>1. f[0] = Rotated(now) /\ C \cup Upto(batch, 0) = C
    BY <1>1, UptoSteps DEF Tracks
  <2> QED
    BY <1>2, <2>1
<1>4. ASSUME NEW k \in 1..n, k - 1 \in T PROVE k \in T
  <2>1. /\ f[k] = TrackedIn(f[k - 1], batch[k]) /\ f[k - 1] \in Extremes
        /\ batch[k] \in Points
    BY <1>1, <1>2 DEF Tracks
  <2>2. C \cup Upto(batch, k - 1) \in SUBSET Points
    BY UptoSteps
  <2>3. C \cup Upto(batch, k) = (C \cup Upto(batch, k - 1)) \cup {batch[k]}
    BY UptoSteps
  <2>4. Bounding(f[k], C \cup Upto(batch, k))
    BY <1>4, <2>1, <2>2, <2>3, TrackedInBounds
  <2>5. f[k].start = f[k - 1].start /\ f[k].end = f[k - 1].end
    BY <2>1 DEF TrackedIn, Tracked, Extremes
  <2> QED
    BY <1>4, <2>4, <2>5
<1>5. n \in T
  <2> HIDE DEF T, n
  <2>1. 0..n \subseteq T
    BY <1>2, <1>3, <1>4, Reaches
  <2> QED
    BY <1>2, <2>1
<1>6. C \cup Upto(batch, n) = C \cup ToSet(batch)
  BY UptoSteps
<1> QED
  BY <1>1, <1>2, <1>5, <1>6

-----------------------------------------------------------------------------
(* Windows. *)

LEMMA LeastIsMin ==
    ASSUME NEW T, T \subseteq Nat, T # {}
    PROVE  Min(T) \in T /\ \A k \in T : Min(T) <= k
<1>1. \E m \in T : \A k \in T : m <= k
  BY LeastElement
<1> QED
  BY <1>1 DEF Min

(* Cleaning keeps what is from the first recent point on. *)
LEMMA CleanKeeps ==
    ASSUME NEW b \in Seq(Points), NEW w \in Windows, NEW t
    PROVE  \/ /\ Clean(b, w, t) = << >>
              /\ \A i \in 1..Len(b) : ~IsIn(b[i], w, t)
           \/ \E front \in 1..Len(b) :
                 /\ Clean(b, w, t) = SubSeq(b, front, Len(b))
                 /\ IsIn(b[front], w, t)
                 /\ \A i \in 1..front - 1 : ~IsIn(b[i], w, t)
<1> DEFINE T == {i \in 1..Len(b) : IsIn(b[i], w, t)}
<1>1. Clean(b, w, t) = IF (IF T # {} THEN Min(T) ELSE 0) = 0 THEN << >>
                       ELSE SubSeq(b, IF T # {} THEN Min(T) ELSE 0, Len(b))
  BY DEF Clean, SelectInSeq
<1>2. CASE T = {}
  <2>1. Clean(b, w, t) = << >>
    BY <1>1, <1>2
  <2> QED
    BY <1>2, <2>1
<1>3. CASE T # {}
  <2>1. T \subseteq Nat
    OBVIOUS
  <2>2. PICK m : m = Min(T)
    OBVIOUS
  <2>3. m \in T /\ \A k \in T : m <= k
    <3> HIDE DEF T
    <3> QED
      BY <1>3, <2>1, <2>2, LeastIsMin
  <2>4. m \in 1..Len(b) /\ IsIn(b[m], w, t)
    BY <2>3
  <2>5. Clean(b, w, t) = SubSeq(b, m, Len(b))
    <3> HIDE DEF T
    <3> QED
      BY <1>1, <1>3, <2>2, <2>4
  <2>6. ASSUME NEW i \in 1..m - 1 PROVE ~IsIn(b[i], w, t)
    <3>1. i \in 1..Len(b) /\ ~(m <= i)
      BY <2>4
    <3>2. i \notin T
      BY <2>3, <3>1
    <3> QED
      BY <3>1, <3>2
  <2> QED
    BY <2>4, <2>5, <2>6
<1> QED
  BY <1>2, <1>3

(* The points of b are distinct points of A, in the order of their polls. *)
OrderedIn(b, A) ==
    /\ b \in Seq(Points)
    /\ \A i \in 1..Len(b) : b[i] \in A
    /\ \A i, j \in 1..Len(b) : i < j => b[i] # b[j] /\ b[i].polled <= b[j].polled

(* More points than a buffer holds came with the poll of p or later. *)
Outrun(p, A) == Cardinality({q \in A : q.polled >= p.polled}) > BufferSize

(* What a window keeps of the points of A. *)
Held(b, A, w, t) ==
    /\ OrderedIn(b, A) /\ Len(b) <= BufferSize
    /\ \A p \in A : IsIn(p, w, t) /\ p \notin {b[i] : i \in 1..Len(b)} => Outrun(p, A)

LEMMA OutrunGrows ==
    ASSUME NEW A, NEW B, A \subseteq B, IsFiniteSet(B), NEW p, Outrun(p, A)
    PROVE  Outrun(p, B)
<1> DEFINE S == {q \in A : q.polled >= p.polled}
           T == {q \in B : q.polled >= p.polled}
<1>1. S \in SUBSET T /\ T \in SUBSET B
  OBVIOUS
<1>2. Cardinality(S) <= Cardinality(T) /\ Cardinality(S) \in Nat /\ Cardinality(T) \in Nat
  <2> HIDE DEF S, T
  <2>1. IsFiniteSet(T)
    BY <1>1, FS_Subset
  <2>2. IsFiniteSet(S) /\ Cardinality(S) <= Cardinality(T)
    BY <1>1, <2>1, FS_Subset
  <2> QED
    BY <2>1, <2>2, FS_CardinalityType
<1>3. Cardinality(S) > BufferSize
  BY DEF Outrun
<1>4. Cardinality(T) > BufferSize
  <2> HIDE DEF S, T
  <2> QED
    BY <1>2, <1>3, InsightsAssumption
<1> QED
  BY <1>4 DEF Outrun

LEMMA IsInType ==
    ASSUME NEW w \in Windows
    PROVE  Duration[w] \in Nat
BY InsightsAssumption DEF Windows, Duration

LEMMA CleanHolds ==
    ASSUME NEW A, NEW w \in Windows, NEW t \in Int, NEW b, Held(b, A, w, t)
    PROVE  /\ Held(Clean(b, w, t), A, w, t)
           /\ Clean(b, w, t) = << >> \/ IsIn(Clean(b, w, t)[1], w, t)
           /\ (\E i \in 1..Len(b) : IsIn(b[i], w, t)) => Clean(b, w, t) # << >>
<1>1. b \in Seq(Points) /\ OrderedIn(b, A)
  BY DEF Held, OrderedIn
<1>2. CASE Clean(b, w, t) = << >> /\ \A i \in 1..Len(b) : ~IsIn(b[i], w, t)
  <2>1. OrderedIn(<< >>, A) /\ Len(<< >>) = 0 /\ 0 <= BufferSize
    BY InsightsAssumption DEF OrderedIn
  <2>2. ASSUME NEW p \in A, IsIn(p, w, t) PROVE Outrun(p, A)
    BY <1>2, <2>2 DEF Held
  <2> QED
    BY <1>2, <2>1, <2>2 DEF Held
<1>3. ASSUME NEW front \in 1..Len(b), Clean(b, w, t) = SubSeq(b, front, Len(b)),
             IsIn(b[front], w, t), \A i \in 1..front - 1 : ~IsIn(b[i], w, t)
      PROVE  /\ Held(Clean(b, w, t), A, w, t)
             /\ IsIn(Clean(b, w, t)[1], w, t)
             /\ Clean(b, w, t) # << >>
  <2> DEFINE c == SubSeq(b, front, Len(b))
  <2>1. /\ c \in Seq(Points) /\ Len(c) = Len(b) - front + 1 /\ Len(c) \in Nat
        /\ \A i \in 1..Len(c) : c[i] = b[front + i - 1] /\ front + i - 1 \in 1..Len(b)
    BY <1>1
  <2> HIDE DEF c
  <2>2. 1 \in 1..Len(c) /\ c[1] = b[front] /\ c # << >>
    BY <2>1
  <2>3. OrderedIn(c, A)
    <3>1. \A i \in 1..Len(c) : c[i] \in A
      BY <1>1, <2>1 DEF OrderedIn
    <3>2. ASSUME NEW i \in 1..Len(c), NEW j \in 1..Len(c), i < j
          PROVE  c[i] # c[j] /\ c[i].polled <= c[j].polled
      <4>1. front + i - 1 < front + j - 1
        BY <3>2
      <4> QED
        BY <1>1, <2>1, <4>1 DEF OrderedIn
    <3> QED
      BY <2>1, <3>1, <3>2 DEF OrderedIn
  <2>4. Len(c) <= BufferSize
    BY <1>1, <2>1, InsightsAssumption DEF Held
  <2>5. ASSUME NEW p \in A, IsIn(p, w, t), p \notin {c[i] : i \in 1..Len(c)}
        PROVE  Outrun(p, A)
    <3>1. ASSUME NEW i \in 1..Len(b) PROVE p # b[i]
      <4>1. CASE i < front
        BY <1>3, <2>5, <4>1
      <4>2. CASE i >= front
        <5>1. i - front + 1 \in 1..Len(c) /\ front + (i - front + 1) - 1 = i
          BY <2>1, <4>2
        <5>2. c[i - front + 1] = b[i]
          BY <2>1, <5>1
        <5> QED
          BY <2>5, <5>1, <5>2
      <4> QED
        BY <4>1, <4>2
    <3> QED
      BY <2>5, <3>1 DEF Held
  <2>6. Held(c, A, w, t)
    BY <2>3, <2>4, <2>5 DEF Held
  <2> QED
    BY <1>3, <2>2, <2>6 DEF c
<1> QED
  BY <1>1, <1>2, <1>3, CleanKeeps

LEMMA OutrunBy ==
    ASSUME NEW A, IsFiniteSet(A), NEW b, OrderedIn(b, A), Len(b) = BufferSize,
           NEW q \in A, q \notin {b[i] : i \in 1..Len(b)}, NEW p, \A i \in 1..Len(b) : b[i].polled >= p.polled,
           q.polled >= p.polled
    PROVE  Outrun(p, A)
<1> DEFINE n == Len(b)
           S == {b[i] : i \in 1..n}
           T == {x \in A : x.polled >= p.polled}
           f == [i \in 1..n |-> b[i]]
<1>1. n \in Nat /\ b \in Seq(Points)
  BY DEF OrderedIn
<1>2. \A i, j \in 1..n : b[i] = b[j] => i = j
  <2> SUFFICES ASSUME NEW i \in 1..n, NEW j \in 1..n, i # j PROVE b[i] # b[j]
    OBVIOUS
  <2>1. i < j \/ j < i
    BY <1>1
  <2> QED
    BY <2>1 DEF OrderedIn
<1>3. f \in Bijection(1..n, S)
  <2>1. f \in [1..n -> S] /\ \A y \in S : \E i \in 1..n : f[i] = y
    OBVIOUS
  <2>2. \A i, j \in 1..n : f[i] = f[j] => i = j
    BY <1>2
  <2> HIDE DEF f, S, n
  <2> QED
    BY <2>1, <2>2 DEF Bijection, Injection, Surjection, IsInjective
<1>4. IsFiniteSet(S) /\ Cardinality(S) = n
  <2>1. IsFiniteSet(1..n) /\ Cardinality(1..n) = n
    BY <1>1, FS_Interval
  <2> HIDE DEF f, S, n
  <2> QED
    BY <1>3, <2>1, FS_Bijection DEF ExistsBijection
<1>5. IsFiniteSet(S \cup {q}) /\ Cardinality(S \cup {q}) = n + 1
  <2>1. q \notin S
    OBVIOUS
  <2> HIDE DEF S, n
  <2> QED
    BY <1>4, <2>1, FS_AddElement
<1>6. S \cup {q} \in SUBSET T /\ T \in SUBSET A
  BY DEF OrderedIn
<1>7. Cardinality(S \cup {q}) <= Cardinality(T) /\ Cardinality(T) \in Nat
  <2> HIDE DEF S, T
  <2>1. IsFiniteSet(T)
    BY <1>6, FS_Subset
  <2> QED
    BY <1>6, <2>1, FS_Subset, FS_CardinalityType
<1>8. Cardinality(T) > BufferSize
  <2> HIDE DEF S, T
  <2> QED
    BY <1>1, <1>5, <1>7
<1> QED
  BY <1>8 DEF Outrun

LEMMA PushHolds ==
    ASSUME NEW A \in SUBSET Points, IsFiniteSet(A), NEW w \in Windows, NEW t \in Int,
           NEW b, Held(b, A, w, t), NEW p \in Points \ A, \A q \in A : q.polled <= p.polled
    PROVE  /\ Held(Push(b, p), A \cup {p}, w, t)
           /\ \E i \in 1..Len(Push(b, p)) : Push(b, p)[i] = p
<1> DEFINE B == A \cup {p}
           kept == IF Len(b) >= BufferSize THEN Tail(b) ELSE b
           c == Append(kept, p)
<1>1. /\ b \in Seq(Points) /\ Len(b) \in Nat /\ Len(b) <= BufferSize
      /\ BufferSize \in Nat /\ BufferSize > 0 /\ OrderedIn(b, A)
  BY InsightsAssumption DEF Held, OrderedIn
<1>2. IsFiniteSet(B)
  BY FS_AddElement
<1>3. OrderedIn(b, B)
  BY <1>1 DEF OrderedIn
<1>4. OrderedIn(kept, A) /\ Len(kept) < BufferSize
  <2>1. CASE Len(b) < BufferSize
    BY <1>1, <2>1
  <2>2. CASE Len(b) >= BufferSize
    <3> DEFINE d == Tail(b)
    <3>1. b # << >>
      BY <1>1, <2>2
    <3>2. d \in Seq(Points) /\ Len(d) = Len(b) - 1 /\ \A i \in 1..Len(d) : d[i] = b[i + 1]
      BY <1>1, <3>1
    <3> HIDE DEF d
    <3>3. \A i \in 1..Len(d) : i + 1 \in 1..Len(b)
      BY <1>1, <3>2
    <3>4. \A i, j \in 1..Len(d) : i < j => i + 1 < j + 1
      BY <1>1, <3>2
    <3>5. \A i \in 1..Len(d) : d[i] \in A
      BY <1>1, <3>2, <3>3 DEF OrderedIn
    <3>6. ASSUME NEW i \in 1..Len(d), NEW j \in 1..Len(d), i < j
          PROVE  d[i] # d[j] /\ d[i].polled <= d[j].polled
      <4>1. i + 1 < j + 1 /\ i + 1 \in 1..Len(b) /\ j + 1 \in 1..Len(b)
        BY <3>3, <3>4, <3>6
      <4>2. d[i] = b[i + 1] /\ d[j] = b[j + 1]
        BY <3>2
      <4> QED
        BY <1>1, <4>1, <4>2 DEF OrderedIn
    <3>7. OrderedIn(d, A)
      BY <3>2, <3>5, <3>6 DEF OrderedIn
    <3> QED
      BY <1>1, <2>2, <3>2, <3>7 DEF d
  <2> QED
    BY <1>1, <2>1, <2>2
<1>5. /\ kept \in Seq(Points) /\ Len(kept) \in Nat
      /\ c \in Seq(Points) /\ Len(c) = Len(kept) + 1 /\ c[Len(c)] = p
      /\ \A i \in 1..Len(kept) : c[i] = kept[i] /\ i \in 1..Len(c)
  <2>1. kept \in Seq(Points)
    BY <1>4 DEF OrderedIn
  <2> HIDE DEF kept
  <2> QED
    BY <2>1
<1>6. OrderedIn(c, B)
  <2> HIDE DEF kept, c
  <2>1. \A i \in 1..Len(c) : i \in 1..Len(kept) \/ i = Len(c)
    BY <1>5
  <2>2. \A i \in 1..Len(c) : c[i] \in B
    BY <1>4, <1>5, <2>1 DEF OrderedIn
  <2>3. ASSUME NEW i \in 1..Len(c), NEW j \in 1..Len(c), i < j
        PROVE  c[i] # c[j] /\ c[i].polled <= c[j].polled
    <3>1. i \in 1..Len(kept) /\ c[i] = kept[i] /\ c[i] \in A
      BY <1>4, <1>5, <2>3 DEF OrderedIn
    <3>2. CASE j = Len(c)
      BY <1>5, <3>1, <3>2
    <3>3. CASE j \in 1..Len(kept)
      BY <1>4, <1>5, <2>3, <3>1, <3>3 DEF OrderedIn
    <3> QED
      BY <2>1, <3>2, <3>3
  <2> QED
    BY <1>5, <2>2, <2>3 DEF OrderedIn
<1>7. ASSUME NEW q \in B, IsIn(q, w, t), q \notin {c[i] : i \in 1..Len(c)}
      PROVE  Outrun(q, B)
  <2>1. q # p /\ q \in A
    <3>1. Len(c) \in 1..Len(c) /\ c[Len(c)] = p
      BY <1>5
    <3> HIDE DEF c
    <3> QED
      BY <1>7, <3>1
  <2>2. \A i \in 1..Len(kept) : q # kept[i]
    <3> HIDE DEF c, kept
    <3> QED
      BY <1>5, <1>7
  <2>3. CASE q \notin {b[i] : i \in 1..Len(b)}
    <3>1. Outrun(q, A)
      BY <1>7, <2>1, <2>3 DEF Held
    <3> QED
      BY <1>2, <3>1, OutrunGrows
  <2>4. CASE q \in {b[i] : i \in 1..Len(b)}
    <3>1. PICK i \in 1..Len(b) : q = b[i]
      BY <2>4
    <3>2. Len(b) = BufferSize
      BY <1>1, <2>2, <3>1
    <3>3. i = 1
      <4> SUFFICES ASSUME i # 1 PROVE FALSE
        OBVIOUS
      <4>1. b # << >> /\ kept = Tail(b)
        BY <1>1, <3>2
      <4>2. i - 1 \in 1..Len(Tail(b)) /\ Tail(b)[i - 1] = b[i]
        BY <1>1, <4>1
      <4> HIDE DEF kept
      <4> QED
        BY <2>2, <3>1, <4>1, <4>2
    <3>4. \A j \in 1..Len(b) : b[j].polled >= q.polled
      <4>1. q.polled \in Int
        BY <2>1, PointFields
      <4> SUFFICES ASSUME NEW j \in 1..Len(b) PROVE b[j].polled >= q.polled
        OBVIOUS
      <4>2. b[j].polled \in Int
        BY <1>1, PointFields
      <4>3. j = 1 \/ 1 < j
        BY <1>1
      <4> QED
        BY <1>1, <3>1, <3>3, <4>1, <4>2, <4>3 DEF OrderedIn
    <3>5. p.polled >= q.polled
      <4>1. q.polled \in Int /\ p.polled \in Int /\ q.polled <= p.polled
        BY <2>1, PointFields
      <4> QED
        BY <4>1
    <3>6. p \notin {b[j] : j \in 1..Len(b)}
      BY <1>1 DEF OrderedIn
    <3> HIDE DEF B
    <3>7. p \in B
      BY DEF B
    <3> QED
      BY <1>2, <1>3, <3>2, <3>4, <3>5, <3>6, <3>7, OutrunBy
  <2> QED
    BY <2>3, <2>4
<1>8. Push(b, p) = c
  BY DEF Push
<1>9. Len(c) <= BufferSize /\ Len(c) \in 1..Len(c)
  <2> HIDE DEF kept, c
  <2> QED
    BY <1>1, <1>4, <1>5
<1> HIDE DEF c, B
<1>10. Held(c, B, w, t)
  BY <1>6, <1>7, <1>9 DEF Held
<1> QED
  BY <1>5, <1>8, <1>9, <1>10 DEF B

HasRecent(b, w, t) == \E i \in 1..Len(b) : IsIn(b[i], w, t)
Cleaned(b, w, t) == b = << >> \/ IsIn(b[1], w, t)

LEMMA CleanedHas ==
    ASSUME NEW b \in Seq(Points), NEW w, NEW t, Cleaned(b, w, t), b # << >>
    PROVE  HasRecent(b, w, t)
<1>1. 1 \in 1..Len(b)
  OBVIOUS
<1> QED
  BY <1>1 DEF Cleaned, HasRecent

LEMMA AddPointType ==
    ASSUME NEW b \in Seq(Points), NEW p \in Points, NEW w \in Windows, NEW t
    PROVE  AddPoint(b, p, w, t) \in Seq(Points)
<1> DEFINE c == IF IsIn(p, w, t) THEN Push(b, p) ELSE b
<1>1. c \in Seq(Points)
  <2>1. Len(b) >= BufferSize => b # << >>
    BY InsightsAssumption
  <2>2. Len(b) >= BufferSize => Tail(b) \in Seq(Points)
    BY <2>1
  <2>3. Push(b, p) \in Seq(Points)
    BY <2>2 DEF Push
  <2> QED
    BY <2>3
<1>2. AddPoint(b, p, w, t) = Clean(c, w, t)
  BY DEF AddPoint
<1> HIDE DEF c
<1>3. CASE Clean(c, w, t) = << >>
  BY <1>2, <1>3
<1>4. ASSUME NEW front \in 1..Len(c), Clean(c, w, t) = SubSeq(c, front, Len(c))
      PROVE  AddPoint(b, p, w, t) \in Seq(Points)
  BY <1>1, <1>2, <1>4
<1> QED
  BY <1>1, <1>3, <1>4, CleanKeeps

LEMMA AddPointHolds ==
    ASSUME NEW A \in SUBSET Points, IsFiniteSet(A), NEW w \in Windows, NEW t \in Int,
           NEW b, Held(b, A, w, t), NEW p \in Points \ A, \A q \in A : q.polled <= p.polled
    PROVE  /\ Held(AddPoint(b, p, w, t), A \cup {p}, w, t)
           /\ Cleaned(AddPoint(b, p, w, t), w, t)
           /\ HasRecent(b, w, t) => HasRecent(AddPoint(b, p, w, t), w, t)
<1> DEFINE B == A \cup {p}
           c == IF IsIn(p, w, t) THEN Push(b, p) ELSE b
<1>1. Held(c, B, w, t) /\ (HasRecent(b, w, t) => HasRecent(c, w, t))
  <2>1. CASE IsIn(p, w, t)
    <3>1. /\ Held(Push(b, p), A \cup {p}, w, t)
          /\ \E i \in 1..Len(Push(b, p)) : Push(b, p)[i] = p
      BY PushHolds
    <3> QED
      BY <2>1, <3>1 DEF HasRecent
  <2>2. CASE ~IsIn(p, w, t)
    <3>1. OrderedIn(b, B)
      BY DEF Held, OrderedIn
    <3>2. ASSUME NEW q \in B, IsIn(q, w, t), q \notin {b[i] : i \in 1..Len(b)}
          PROVE  Outrun(q, B)
      <4>1. q \in A
        BY <2>2, <3>2
      <4>2. Outrun(q, A)
        BY <3>2, <4>1 DEF Held
      <4>3. IsFiniteSet(B)
        BY FS_AddElement
      <4> QED
        BY <4>2, <4>3, OutrunGrows
    <3>3. Held(b, B, w, t)
      BY <3>1, <3>2 DEF Held
    <3> QED
      BY <2>2, <3>3
  <2> QED
    BY <2>1, <2>2
<1>2. AddPoint(b, p, w, t) = Clean(c, w, t)
  BY DEF AddPoint
<1> HIDE DEF c
<1>3. /\ Held(Clean(c, w, t), B, w, t) /\ Cleaned(Clean(c, w, t), w, t)
      /\ HasRecent(c, w, t) => Clean(c, w, t) # << >>
  BY <1>1, CleanHolds DEF Cleaned, HasRecent
<1>4. Clean(c, w, t) \in Seq(Points)
  BY <1>3 DEF Held, OrderedIn
<1>5. HasRecent(c, w, t) => HasRecent(Clean(c, w, t), w, t)
  BY <1>3, <1>4, CleanedHas
<1> QED
  BY <1>1, <1>2, <1>3, <1>5

Adds(f, b, batch, w, t) ==
    f[0] = b /\ \A k \in 1..Len(batch) : f[k] = AddPoint(f[k - 1], batch[k], w, t)

LEMMA AddAllFolds ==
    ASSUME NEW b \in Seq(Points), NEW batch \in Seq(Points), NEW w \in Windows, NEW t
    PROVE  \E f \in [0..Len(batch) -> Seq(Points)] :
              Adds(f, b, batch, w, t) /\ AddAll(b, batch, w, t) = f[Len(batch)]
<1> DEFINE n == Len(batch)
           S == Seq(Points)
           step == [k \in 1..n |-> [c \in S |-> AddPoint(c, batch[k], w, t)]]
           F(f) == [k \in 0..n |-> IF k = 0 THEN b ELSE AddPoint(f[k - 1], batch[k], w, t)]
           after == CHOOSE f : f = F(f)
<1>1. n \in Nat /\ \A k \in 1..n : batch[k] \in Points
  OBVIOUS
<1>2. \A k \in 1..n : \A c \in S : AddPoint(c, batch[k], w, t) \in S
  BY <1>1, AddPointType
<1>3. step \in [1..n -> [S -> S]]
  <2> HIDE DEF n, S
  <2> QED
    BY <1>2
<1>4. PICK f \in [0..n -> S] : IsFold(f, n, b, step)
  <2>1. b \in S
    OBVIOUS
  <2> HIDE DEF n, step, S
  <2> QED
    BY <1>1, <1>3, <2>1, FoldExists
<1>5. f = F(f)
  <2>1. ASSUME NEW k \in 1..n PROVE f[k] = AddPoint(f[k - 1], batch[k], w, t)
    <3> HIDE DEF n, S
    <3>1. f[k - 1] \in S
      BY <1>1, <1>4
    <3>2. step[k][f[k - 1]] = AddPoint(f[k - 1], batch[k], w, t)
      BY <3>1
    <3> HIDE DEF step
    <3>3. f[k] = step[k][f[k - 1]]
      BY <1>4 DEF IsFold
    <3> QED
      BY <3>2, <3>3
  <2> HIDE DEF n, step, S
  <2>2. f[0] = b
    BY <1>4 DEF IsFold
  <2> QED
    BY <1>4, <2>1, <2>2
<1>6. after = F(after)
  <2> HIDE DEF F
  <2> QED
    BY <1>5
<1>7. AddAll(b, batch, w, t) = after[n]
  BY DEF AddAll
<1> HIDE DEF after, step, S
<1>8. ASSUME NEW k \in 1..n PROVE after[k] = AddPoint(after[k - 1], batch[k], w, t)
  <2> HIDE DEF n
  <2> QED
    BY <1>1, <1>6
<1>9. after[0] = b
  <2> HIDE DEF n
  <2> QED
    BY <1>1, <1>6
<1>10. \A k \in 0..n : after[k] \in S
  <2> DEFINE T == {k \in 0..n : after[k] \in S}
  <2> HIDE DEF n
  <2>1. 0 \in T
    BY <1>1, <1>9 DEF S
  <2>2. ASSUME NEW k \in 1..n, k - 1 \in T PROVE k \in T
    BY <1>1, <1>2, <1>8, <2>2
  <2>3. 0..n \subseteq T
    <3> HIDE DEF T
    <3> QED
      BY <1>1, <2>1, <2>2, Reaches
  <2> QED
    BY <2>3
<1>11. after \in [0..n -> S]
  <2> HIDE DEF n
  <2> QED
    BY <1>6, <1>10
<1>12. Adds(after, b, batch, w, t)
  BY <1>8, <1>9 DEF Adds
<1> QED
  BY <1>7, <1>11, <1>12 DEF S

(* The points of batch are distinct, new to A, and of a poll at t, the last. *)
Fresh(batch, A, t) ==
    /\ \A q \in A : q.polled <= t
    /\ \A i \in 1..Len(batch) : batch[i] \notin A /\ batch[i].polled = t
    /\ \A i, j \in 1..Len(batch) : i # j => batch[i] # batch[j]

LEMMA AddAllHolds ==
    ASSUME NEW A \in SUBSET Points, IsFiniteSet(A), NEW w \in Windows, NEW t \in Int,
           NEW b, Held(b, A, w, t), NEW batch \in Seq(Points), Fresh(batch, A, t)
    PROVE  /\ Held(AddAll(b, batch, w, t), A \cup ToSet(batch), w, t)
           /\ batch # << >> => Cleaned(AddAll(b, batch, w, t), w, t)
           /\ HasRecent(b, w, t) => HasRecent(AddAll(b, batch, w, t), w, t)
<1>1. b \in Seq(Points) /\ Len(batch) \in Nat
  BY DEF Held, OrderedIn
<1>2. PICK f \in [0..Len(batch) -> Seq(Points)] :
              Adds(f, b, batch, w, t) /\ AddAll(b, batch, w, t) = f[Len(batch)]
  BY <1>1, AddAllFolds
<1> DEFINE n == Len(batch)
<1> DEFINE T == {k \in 0..n : /\ IsFiniteSet(A \cup Upto(batch, k))
                              /\ Held(f[k], A \cup Upto(batch, k), w, t)
                              /\ k > 0 => Cleaned(f[k], w, t)
                              /\ HasRecent(b, w, t) => HasRecent(f[k], w, t)}
<1>3. 0 \in T
  <2>1. f[0] = b /\ A \cup Upto(batch, 0) = A
    BY <1>2, UptoSteps DEF Adds
  <2>2. IsFiniteSet(A \cup Upto(batch, 0)) /\ Held(f[0], A \cup Upto(batch, 0), w, t)
    BY <2>1, Zenon
  <2>3. HasRecent(b, w, t) => HasRecent(f[0], w, t)
    BY <2>1, Zenon
  <2>4. 0 \in 0..n /\ ~(0 > 0)
    BY <1>1
  <2> QED
    BY <2>2, <2>3, <2>4, Zenon
<1>4. ASSUME NEW k \in 1..n, k - 1 \in T PROVE k \in T
  <2> DEFINE B == A \cup Upto(batch, k - 1)
  <2>1. f[k] = AddPoint(f[k - 1], batch[k], w, t) /\ batch[k] \in Points
    BY <1>1, <1>2 DEF Adds
  <2>2. B \in SUBSET Points
    BY UptoSteps
  <2>3. A \cup Upto(batch, k) = B \cup {batch[k]}
    BY UptoSteps
  <2>4. batch[k] \notin B
    <3>1. \A i \in 1..k - 1 : i \in 1..n /\ i # k
      BY <1>1
    <3> QED
      BY <3>1 DEF Upto, Fresh
  <2>5. \A q \in B : q.polled <= batch[k].polled
    <3>1. \A i \in 1..k - 1 : i \in 1..n
      BY <1>1
    <3>2. batch[k].polled = t
      BY DEF Fresh
    <3>3. \A q \in Upto(batch, k - 1) : q.polled = t
      BY <3>1 DEF Upto, Fresh
    <3> QED
      BY <3>2, <3>3 DEF Fresh
  <2>6. /\ IsFiniteSet(B) /\ Held(f[k - 1], B, w, t)
        /\ HasRecent(b, w, t) => HasRecent(f[k - 1], w, t)
    BY <1>4
  <2> HIDE DEF B, T, n
  <2>7. batch[k] \in Points \ B
    BY <2>1, <2>4
  <2>8. /\ Held(f[k], B \cup {batch[k]}, w, t) /\ Cleaned(f[k], w, t)
        /\ HasRecent(f[k - 1], w, t) => HasRecent(f[k], w, t)
    BY <2>1, <2>2, <2>5, <2>6, <2>7, AddPointHolds
  <2>9. IsFiniteSet(B \cup {batch[k]})
    BY <2>6, FS_AddElement
  <2>10. k \in 0..n /\ k > 0
    BY <1>1
  <2> QED
    BY <2>3, <2>6, <2>8, <2>9, <2>10 DEF T
<1>5. n \in T
  <2>1. n \in Nat
    BY <1>1
  <2> HIDE DEF T, n
  <2>2. 0..n \subseteq T
    BY <2>1, <1>3, <1>4, Reaches
  <2> QED
    BY <2>1, <2>2
<1>6. Upto(batch, n) = ToSet(batch)
  BY UptoSteps
<1>7. batch # << >> => n > 0
  OBVIOUS
<1> QED
  BY <1>2, <1>5, <1>6, <1>7

-----------------------------------------------------------------------------
(* The order of time. *)

BeforeAll(s, K, j) == {k \in K : Before(s, k, j)}

LEMMA BeforeOrders ==
    ASSUME NEW s \in Seq(Points), NEW i \in 1..Len(s), NEW j \in 1..Len(s)
    PROVE  /\ ~Before(s, i, i)
           /\ i # j => Before(s, i, j) \/ Before(s, j, i)
           /\ \A k \in 1..Len(s) : Before(s, k, i) /\ Before(s, i, j) => Before(s, k, j)
<1>1. \A k \in 1..Len(s) : s[k].at \in Int
  <2> TAKE k \in 1..Len(s)
  <2>1. s[k] \in Points
    OBVIOUS
  <2> QED
    BY <2>1, PointFields
<1> QED
  BY <1>1 DEF Before

LEMMA RankGrows ==
    ASSUME NEW s \in Seq(Points), NEW K \in SUBSET (1..Len(s)), IsFiniteSet(K),
           NEW i \in K, NEW j \in K, Before(s, i, j)
    PROVE  Cardinality(BeforeAll(s, K, i)) < Cardinality(BeforeAll(s, K, j))
<1> DEFINE I == BeforeAll(s, K, i)
           J == BeforeAll(s, K, j)
<1>1. I \in SUBSET J
  BY BeforeOrders DEF BeforeAll
<1>2. i \in J /\ i \notin I
  BY BeforeOrders DEF BeforeAll
<1>3. J \in SUBSET K
  BY DEF BeforeAll
<1> HIDE DEF I, J
<1>4. IsFiniteSet(J) /\ Cardinality(J) \in Nat
  BY <1>3, FS_Subset, FS_CardinalityType
<1>5. /\ IsFiniteSet(I) /\ Cardinality(I) \in Nat
      /\ Cardinality(I) <= Cardinality(J) /\ (Cardinality(J) = Cardinality(I) => J = I)
  BY <1>1, <1>4, FS_Subset, FS_CardinalityType
<1> QED
  BY <1>2, <1>4, <1>5 DEF I, J

(* f puts the positions of K in the order of time. *)
Ordering(f, s, K) ==
    /\ f \in [1..Cardinality(K) -> K]
    /\ \A i \in 1..Cardinality(K) : InOrder(s, K)[i] = s[f[i]]
    /\ \A i, j \in 1..Cardinality(K) : i < j => Before(s, f[i], f[j])

LEMMA InOrderOrders ==
    ASSUME NEW s \in Seq(Points), NEW K \in SUBSET (1..Len(s))
    PROVE  /\ IsFiniteSet(K) /\ Cardinality(K) \in Nat
           /\ InOrder(s, K) \in Seq(Points) /\ Len(InOrder(s, K)) = Cardinality(K)
           /\ \E f \in Surjection(1..Cardinality(K), K) : Ordering(f, s, K)
<1> DEFINE n == Cardinality(K)
           rank == [j \in K |-> Cardinality(BeforeAll(s, K, j))]
           f == [i \in 1..n |-> Ranked(s, K, i - 1)]
<1>1. IsFiniteSet(K) /\ n \in Nat
  <2>1. IsFiniteSet(1..Len(s))
    BY FS_Interval
  <2> QED
    BY <2>1, FS_Subset, FS_CardinalityType
<1>2. rank \in [K -> 0..n - 1]
  <2> SUFFICES ASSUME NEW j \in K PROVE Cardinality(BeforeAll(s, K, j)) \in 0..n - 1
    OBVIOUS
  <2> DEFINE J == BeforeAll(s, K, j)
  <2>1. J \in SUBSET K /\ j \notin J
    BY BeforeOrders DEF BeforeAll
  <2> HIDE DEF J
  <2>2. IsFiniteSet(J) /\ Cardinality(J) <= n /\ (n = Cardinality(J) => K = J)
    BY <1>1, <2>1, FS_Subset
  <2>3. Cardinality(J) \in Nat
    BY <2>2, FS_CardinalityType
  <2>4. Cardinality(J) # n
    BY <2>1, <2>2
  <2> HIDE DEF n
  <2>5. Cardinality(J) \in 0..n - 1
    BY <1>1, <2>2, <2>3, <2>4
  <2> QED
    BY <2>5 DEF J
<1>3. \A i, j \in K : Before(s, i, j) => rank[i] < rank[j]
  BY <1>1, RankGrows
<1>4. \A i, j \in K : rank[i] = rank[j] => i = j
  <2> SUFFICES ASSUME NEW i \in K, NEW j \in K, i # j PROVE rank[i] # rank[j]
    OBVIOUS
  <2>1. Before(s, i, j) \/ Before(s, j, i)
    BY BeforeOrders
  <2>2. rank[i] \in Int /\ rank[j] \in Int
    BY <1>1, <1>2
  <2> HIDE DEF rank
  <2> QED
    BY <1>3, <2>1, <2>2
<1>5. rank \in Surjection(K, 0..n - 1)
  <2> HIDE DEF rank
  <2>1. rank \in Injection(K, 0..n - 1)
    BY <1>2, <1>4 DEF Injection, IsInjective
  <2> HIDE DEF n
  <2>2. IsFiniteSet(0..n - 1) /\ Cardinality(0..n - 1) = n
    <3>1. 0 \in Int /\ n - 1 \in Int /\ (0 > n - 1 => n = 0) /\ (n - 1) - 0 + 1 = n
      BY <1>1
    <3> QED
      BY <3>1, FS_Interval
  <2>3. Cardinality(0..n - 1) = Cardinality(K)
    BY <2>2 DEF n
  <2> QED
    BY <2>1, <2>2, <2>3, FS_Injection
<1>6. ASSUME NEW m \in 0..n - 1
      PROVE  Ranked(s, K, m) \in K /\ rank[Ranked(s, K, m)] = m
  <2>1. \E j \in K : rank[j] = m
    BY <1>5 DEF Surjection
  <2>2. \E j \in K : Cardinality({k \in K : Before(s, k, j)}) = m
    BY <2>1 DEF BeforeAll
  <2> QED
    BY <2>2 DEF Ranked, BeforeAll
<1>7. /\ f \in [1..n -> K]
      /\ \A i \in 1..n : rank[f[i]] = i - 1
  <2> SUFFICES ASSUME NEW i \in 1..n
               PROVE  Ranked(s, K, i - 1) \in K /\ rank[Ranked(s, K, i - 1)] = i - 1
    OBVIOUS
  <2>1. i - 1 \in 0..n - 1
    BY <1>1
  <2> HIDE DEF n, rank
  <2> QED
    BY <1>6, <2>1
<1>8. f \in Surjection(1..n, K)
  <2> SUFFICES ASSUME NEW j \in K PROVE \E i \in 1..n : f[i] = j
    BY <1>7 DEF Surjection
  <2> HIDE DEF rank, f, n
  <2>1. PICK i : i = rank[j] + 1
    OBVIOUS
  <2>2. i \in 1..n /\ i - 1 = rank[j]
    BY <1>1, <1>2, <2>1
  <2>3. rank[f[i]] = rank[j] /\ f[i] \in K
    BY <1>7, <2>2
  <2>4. f[i] = j
    BY <1>4, <2>3
  <2> QED
    BY <2>2, <2>4
<1>9. InOrder(s, K) = [i \in 1..n |-> s[f[i]]]
  BY DEF InOrder
<1>10. InOrder(s, K) \in Seq(Points) /\ Len(InOrder(s, K)) = n
  <2> HIDE DEF f, n
  <2>1. \A i \in 1..n : s[f[i]] \in Points
    <3> SUFFICES ASSUME NEW i \in 1..n PROVE s[f[i]] \in Points
      OBVIOUS
    <3>1. f[i] \in 1..Len(s)
      BY <1>7
    <3> QED
      BY <3>1
  <2> QED
    BY <1>1, <1>9, <2>1
<1>11. \A i \in 1..n : InOrder(s, K)[i] = s[f[i]]
  <2> HIDE DEF f, n
  <2> QED
    BY <1>9
<1>12. ASSUME NEW i \in 1..n, NEW j \in 1..n, i < j PROVE Before(s, f[i], f[j])
  <2> HIDE DEF f, n, rank
  <2>1. f[i] \in K /\ f[j] \in K /\ rank[f[i]] = i - 1 /\ rank[f[j]] = j - 1
    BY <1>7
  <2>2. rank[f[i]] < rank[f[j]] /\ rank[f[i]] \in Int /\ rank[f[j]] \in Int
    BY <1>1, <1>12, <2>1
  <2>3. ~(rank[f[j]] < rank[f[i]]) /\ rank[f[i]] # rank[f[j]]
    BY <2>2
  <2>4. f[i] # f[j] /\ ~Before(s, f[j], f[i])
    BY <1>3, <2>1, <2>3
  <2> QED
    BY <2>1, <2>4, BeforeOrders
<1>13. Ordering(f, s, K)
  BY <1>7, <1>11, <1>12 DEF Ordering
<1> QED
  BY <1>1, <1>8, <1>10, <1>13

-----------------------------------------------------------------------------
(* Spikes. *)

Bases == [total : Nat, count : Nat]
SpikesAt(t) == [start : 0..t, len : MinSpike..t, peak : Nat, total : Nat, count : Nat]
Opens(t) == [start : 0..t, len : Int, peak : Nat, total : Nat, count : Nat]
Scans(t) == [open : Opens(t) \cup {NoSpikeYet}, found : Seq(SpikesAt(t))]
PointsAt(t) == {p \in Points : p.at \in 0..t}

LEMMA ClosedType ==
    ASSUME NEW t \in Nat, NEW found \in Seq(SpikesAt(t)), NEW open \in Opens(t),
           NEW p \in PointsAt(t)
    PROVE  Closed(found, open, p) \in Seq(SpikesAt(t))
<1> DEFINE ended == [open EXCEPT !.len = p.at - open.start]
<1>1. /\ open.start \in 0..t /\ open.peak \in Nat /\ open.total \in Nat /\ open.count \in Nat
      /\ p.at \in 0..t
  BY DEF Opens, PointsAt
<1>2. ended.len = p.at - open.start
  BY DEF Opens
<1>3. CASE ~(ended.len >= MinSpike)
  BY <1>3 DEF Closed
<1>4. CASE ended.len >= MinSpike
  <2>1. p.at - open.start \in MinSpike..t
    <3>1. p.at - open.start >= MinSpike
      BY <1>2, <1>4
    <3> QED
      BY <1>1, <3>1, SpikeAssumption
  <2>2. ended \in SpikesAt(t)
    <3>1. ended = [start |-> open.start, len |-> p.at - open.start, peak |-> open.peak,
                   total |-> open.total, count |-> open.count]
      BY DEF Opens
    <3> HIDE DEF ended
    <3> QED
      BY <1>1, <2>1, <3>1 DEF SpikesAt
  <2>3. Closed(found, open, p) = Append(found, ended)
    BY <1>4 DEF Closed
  <2> HIDE DEF ended
  <2> QED
    BY <2>2, <2>3
<1> QED
  BY <1>3, <1>4

LEMMA ScanType ==
    ASSUME NEW t \in Nat, NEW acc \in Scans(t), NEW p \in PointsAt(t), NEW base \in Bases
    PROVE  Scan(acc, p, base) \in Scans(t)
<1>1. /\ acc.open \in Opens(t) \cup {NoSpikeYet} /\ acc.found \in Seq(SpikesAt(t))
      /\ acc = [open |-> acc.open, found |-> acc.found]
  BY DEF Scans
<1>2. p \in Points /\ p.at \in 0..t
  BY DEF PointsAt
<1>3. p.fee \in Nat
  BY <1>2, PointFields
<1>4. base.total \in Nat /\ base.count \in Nat
  BY DEF Bases
<1>5. CASE IsSpiking(p, base) /\ acc.open = NoSpikeYet
  <2>1. Opened(p, base) \in Opens(t)
    BY <1>2, <1>3, <1>4 DEF Opens, Opened
  <2>2. Scan(acc, p, base) = [acc EXCEPT !.open = Opened(p, base)]
    BY <1>5 DEF Scan
  <2> QED
    BY <1>1, <2>1, <2>2 DEF Scans
<1>6. CASE IsSpiking(p, base) /\ acc.open # NoSpikeYet
  <2> DEFINE o == acc.open
             longer == Longer(o, p)
  <2>1. o \in Opens(t)
    BY <1>1, <1>6
  <2>2. Scan(acc, p, base) = [acc EXCEPT !.open = longer]
    <3>1. Scan(acc, p, base) = [acc EXCEPT !.open = Longer(@, p)]
      BY <1>6 DEF Scan
    <3> QED
      BY <3>1
  <2> HIDE DEF o
  <2>3. /\ o.start \in 0..t /\ o.peak \in Nat /\ o.total \in Nat /\ o.count \in Nat
        /\ p.at - o.start \in Int
    BY <1>2, <2>1 DEF Opens
  <2>4. longer \in Opens(t)
    <3> DEFINE peak == IF p.fee > o.peak THEN p.fee ELSE o.peak
    <3>1. peak \in Nat
      BY <1>3, <2>3
    <3>2. longer = [o EXCEPT !.len = p.at - o.start, !.peak = peak]
      BY <2>1 DEF Opens, Longer
    <3> HIDE DEF peak, longer
    <3>3. longer = [start |-> o.start, len |-> p.at - o.start, peak |-> peak,
                    total |-> o.total, count |-> o.count]
      BY <2>1, <3>2 DEF Opens
    <3> QED
      BY <2>3, <3>1, <3>3 DEF Opens
  <2> HIDE DEF longer
  <2> QED
    BY <1>1, <2>2, <2>4 DEF Scans
<1>7. CASE ~IsSpiking(p, base) /\ acc.open = NoSpikeYet
  BY <1>7 DEF Scan
<1>8. CASE ~IsSpiking(p, base) /\ acc.open # NoSpikeYet
  <2>1. acc.open \in Opens(t)
    BY <1>1, <1>8
  <2>2. Closed(acc.found, acc.open, p) \in Seq(SpikesAt(t))
    BY <1>1, <2>1, ClosedType
  <2>3. Scan(acc, p, base) = [open |-> NoSpikeYet, found |-> Closed(acc.found, acc.open, p)]
    BY <1>8 DEF Scan
  <2> QED
    BY <2>2, <2>3 DEF Scans
<1> QED
  BY <1>5, <1>6, <1>7, <1>8

(* The scan of the points of s, as a function of how many were looked at. *)
Scanning(f, s, base) ==
    /\ f[0] = [open |-> NoSpikeYet, found |-> << >>]
    /\ \A k \in 1..Len(s) : f[k] = Scan(f[k - 1], s[k], base)

LEMMA ScanFolds ==
    ASSUME NEW t \in Nat, NEW s \in Seq(Points), s # << >>, NEW base \in Bases,
           \A i \in 1..Len(s) : s[i].at \in 0..t
    PROVE  \E f \in [0..Len(s) -> Scans(t)] :
              /\ Scanning(f, s, base)
              /\ Detected(s, base) = IF f[Len(s)].open = NoSpikeYet THEN f[Len(s)].found
                                     ELSE Closed(f[Len(s)].found, f[Len(s)].open, s[Len(s)])
<1> DEFINE n == Len(s)
           S == Scans(t)
           first == [open |-> NoSpikeYet, found |-> << >>]
           step == [k \in 1..n |-> [acc \in S |-> Scan(acc, s[k], base)]]
           F(f) == [k \in 0..n |-> IF k = 0 THEN [open |-> NoSpikeYet, found |-> << >>]
                                   ELSE Scan(f[k - 1], s[k], base)]
           scan == CHOOSE f : f = F(f)
           end == scan[n]
<1>0. n = Len(s)
  OBVIOUS
<1>1. n \in Nat /\ n \in 1..n /\ Last(s) = s[n] /\ \A k \in 1..n : s[k] \in PointsAt(t)
  BY DEF PointsAt, Last
<1>2. \A k \in 1..n : \A acc \in S : Scan(acc, s[k], base) \in S
  BY <1>1, ScanType
<1>3. step \in [1..n -> [S -> S]]
  <2> HIDE DEF n, S
  <2> QED
    BY <1>2
<1>4. first \in S
  BY DEF Scans
<1>5. PICK f \in [0..n -> S] : IsFold(f, n, first, step)
  <2> HIDE DEF n, step, S, first
  <2> QED
    BY <1>1, <1>3, <1>4, FoldExists
<1>6. f = F(f)
  <2>1. ASSUME NEW k \in 1..n PROVE f[k] = Scan(f[k - 1], s[k], base)
    <3> HIDE DEF n, S
    <3>1. f[k - 1] \in S
      BY <1>1, <1>5
    <3>2. step[k][f[k - 1]] = Scan(f[k - 1], s[k], base)
      BY <3>1
    <3> HIDE DEF step
    <3>3. f[k] = step[k][f[k - 1]]
      BY <1>5 DEF IsFold
    <3> QED
      BY <3>2, <3>3
  <2> HIDE DEF n, step, S
  <2>2. f[0] = first
    BY <1>5 DEF IsFold
  <2> QED
    BY <1>5, <2>1, <2>2
<1>7. scan = F(scan)
  <2> HIDE DEF F
  <2> QED
    BY <1>6
<1>8. Detected(s, base) = IF end.open = NoSpikeYet THEN end.found
                          ELSE Closed(end.found, end.open, Last(s))
  BY DEF Detected
<1> HIDE DEF scan, step, S
<1>9. scan[0] = first /\ \A k \in 1..n : scan[k] = Scan(scan[k - 1], s[k], base)
  <2> HIDE DEF n
  <2>1. scan[0] = first
    BY <1>1, <1>7
  <2>2. ASSUME NEW k \in 1..n PROVE scan[k] = Scan(scan[k - 1], s[k], base)
    BY <1>1, <1>7
  <2> HIDE DEF F
  <2> QED
    BY <2>1, <2>2
<1> DEFINE T == {k \in 0..n : scan[k] \in S}
<1>10. 0 \in T
  <2> HIDE DEF n, first
  <2> QED
    BY <1>1, <1>4, <1>9
<1>11. ASSUME NEW k \in 1..n, k - 1 \in T PROVE k \in T
  <2> HIDE DEF n
  <2>1. scan[k] = Scan(scan[k - 1], s[k], base)
    BY <1>9
  <2>2. scan[k - 1] \in S
    BY <1>11
  <2>3. Scan(scan[k - 1], s[k], base) \in S
    BY <1>2, <2>2
  <2> QED
    BY <1>1, <2>1, <2>3
<1>12. 0..n \subseteq T
  <2> HIDE DEF n, T
  <2> QED
    BY <1>1, <1>10, <1>11, Reaches
<1> DEFINE g == [k \in 0..n |-> scan[k]]
<1>13. g \in [0..n -> S] /\ \A k \in 0..n : g[k] = scan[k]
  <2> HIDE DEF n
  <2> QED
    BY <1>12
<1>14. Scanning(g, s, base)
  <2> HIDE DEF n, g
  <2>1. g[0] = first /\ \A k \in 1..n : g[k] = Scan(g[k - 1], s[k], base)
    <3> HIDE DEF first, F
    <3>1. g[0] = first
      BY <1>1, <1>9, <1>13
    <3>2. ASSUME NEW k \in 1..n PROVE g[k] = Scan(g[k - 1], s[k], base)
      <4>1. k \in 0..n /\ k - 1 \in 0..n
        BY <1>1
      <4>2. g[k] = scan[k] /\ g[k - 1] = scan[k - 1] /\ scan[k] = Scan(scan[k - 1], s[k], base)
        BY <1>9, <1>13, <4>1
      <4> QED
        BY <4>2
    <3> QED
      BY <3>1, <3>2
  <2> QED
    BY <1>0, <2>1 DEF Scanning
<1>15. g[n] = end
  <2> HIDE DEF n, g
  <2> QED
    BY <1>1, <1>13
<1> HIDE DEF g
<1> QED
  BY <1>1, <1>8, <1>13, <1>14, <1>15 DEF S

LEMMA DetectedType ==
    ASSUME NEW t \in Nat, NEW s \in Seq(Points), s # << >>, NEW base \in Bases,
           \A i \in 1..Len(s) : s[i].at \in 0..t
    PROVE  Detected(s, base) \in Seq(SpikesAt(t))
<1>1. PICK f \in [0..Len(s) -> Scans(t)] :
         Detected(s, base) = IF f[Len(s)].open = NoSpikeYet THEN f[Len(s)].found
                             ELSE Closed(f[Len(s)].found, f[Len(s)].open, s[Len(s)])
  BY ScanFolds
<1>2. PICK end \in Scans(t) : end = f[Len(s)]
  OBVIOUS
<1>3. end.open \in Opens(t) \cup {NoSpikeYet} /\ end.found \in Seq(SpikesAt(t))
  BY DEF Scans
<1>4. s[Len(s)] \in PointsAt(t)
  BY DEF PointsAt
<1>5. CASE end.open = NoSpikeYet
  BY <1>1, <1>2, <1>3, <1>5
<1>6. CASE end.open # NoSpikeYet
  BY <1>1, <1>2, <1>3, <1>4, <1>6, ClosedType
<1> QED
  BY <1>5, <1>6

LEMMA CleanSpikesType ==
    ASSUME NEW S, NEW ss \in Seq(S), NEW t
    PROVE  CleanSpikes(ss, t) \in Seq(S)
<1> DEFINE T == {i \in 1..Len(ss) : ss[i].start >= t - CongestionWindow}
<1>1. CleanSpikes(ss, t) = IF (IF T # {} THEN Min(T) ELSE 0) = 0 THEN << >>
                           ELSE SubSeq(ss, IF T # {} THEN Min(T) ELSE 0, Len(ss))
  BY DEF CleanSpikes, SelectInSeq
<1>2. CASE T = {}
  BY <1>1, <1>2
<1>3. CASE T # {}
  <2>1. T \subseteq Nat /\ T \subseteq 1..Len(ss)
    OBVIOUS
  <2>2. PICK m : m = Min(T)
    OBVIOUS
  <2> HIDE DEF T
  <2>3. m \in 1..Len(ss)
    BY <1>3, <2>1, <2>2, LeastIsMin
  <2>4. CleanSpikes(ss, t) = SubSeq(ss, m, Len(ss))
    BY <1>1, <1>3, <2>2, <2>3
  <2> QED
    BY <2>3, <2>4
<1> QED
  BY <1>2, <1>3

(* Adding spikes one by one, as a function of how many were added. *)
Adding(f, ss, new, t) ==
    /\ f[0] = ss
    /\ \A k \in 1..Len(new) : f[k] = CleanSpikes(Append(f[k - 1], new[k]), t)

LEMMA WithSpikesFolds ==
    ASSUME NEW t, NEW S, NEW ss \in Seq(S), NEW new \in Seq(S)
    PROVE  \E f \in [0..Len(new) -> Seq(S)] :
              Adding(f, ss, new, t) /\ WithSpikes(ss, new, t) = CleanSpikes(f[Len(new)], t)
<1> DEFINE n == Len(new)
           Q == Seq(S)
           step == [k \in 1..n |-> [q \in Q |-> CleanSpikes(Append(q, new[k]), t)]]
           F(f) == [k \in 0..n |-> IF k = 0 THEN ss
                                   ELSE CleanSpikes(Append(f[k - 1], new[k]), t)]
           after == CHOOSE f : f = F(f)
<1>0. n = Len(new)
  OBVIOUS
<1>1. n \in Nat /\ ss \in Q
  OBVIOUS
<1>2. ASSUME NEW k \in 1..n, NEW q \in Q PROVE CleanSpikes(Append(q, new[k]), t) \in Q
  <2>1. Append(q, new[k]) \in Q
    OBVIOUS
  <2> QED
    BY <2>1, CleanSpikesType
<1>3. step \in [1..n -> [Q -> Q]]
  <2> HIDE DEF n, Q
  <2> QED
    BY <1>2
<1>4. PICK f \in [0..n -> Q] : IsFold(f, n, ss, step)
  <2> HIDE DEF n, step, Q
  <2> QED
    BY <1>1, <1>3, FoldExists
<1>5. f = F(f)
  <2>1. ASSUME NEW k \in 1..n PROVE f[k] = CleanSpikes(Append(f[k - 1], new[k]), t)
    <3> HIDE DEF n, Q
    <3>1. f[k - 1] \in Q
      BY <1>1, <1>4
    <3>2. step[k][f[k - 1]] = CleanSpikes(Append(f[k - 1], new[k]), t)
      BY <3>1
    <3> HIDE DEF step
    <3>3. f[k] = step[k][f[k - 1]]
      BY <1>4 DEF IsFold
    <3> QED
      BY <3>2, <3>3
  <2> HIDE DEF n, step, Q
  <2>2. f[0] = ss
    BY <1>4 DEF IsFold
  <2> QED
    BY <1>4, <2>1, <2>2
<1>6. after = F(after)
  <2> HIDE DEF F
  <2> QED
    BY <1>5
<1>7. WithSpikes(ss, new, t) = CleanSpikes(after[n], t)
  BY DEF WithSpikes
<1> HIDE DEF after, step, Q
<1>8. after[0] = ss /\ \A k \in 1..n : after[k] = CleanSpikes(Append(after[k - 1], new[k]), t)
  <2> HIDE DEF n
  <2> QED
    BY <1>1, <1>6
<1> DEFINE T == {k \in 0..n : after[k] \in Q}
<1>9. 0 \in T
  <2> HIDE DEF n
  <2> QED
    BY <1>1, <1>8
<1>10. ASSUME NEW k \in 1..n, k - 1 \in T PROVE k \in T
  <2> HIDE DEF n
  <2>1. after[k] = CleanSpikes(Append(after[k - 1], new[k]), t)
    BY <1>8
  <2> QED
    BY <1>1, <1>2, <1>10, <2>1
<1>11. 0..n \subseteq T
  <2> HIDE DEF n, T
  <2> QED
    BY <1>1, <1>9, <1>10, Reaches
<1> DEFINE g == [k \in 0..n |-> after[k]]
<1>12. g \in [0..n -> Q] /\ \A k \in 0..n : g[k] = after[k]
  <2> HIDE DEF n
  <2> QED
    BY <1>11
<1>13. Adding(g, ss, new, t) /\ g[n] = after[n]
  <2> HIDE DEF n, g
  <2>1. g[0] = ss /\ \A k \in 1..n : g[k] = CleanSpikes(Append(g[k - 1], new[k]), t)
    <3> HIDE DEF F
    <3>1. g[0] = ss
      BY <1>1, <1>8, <1>12
    <3>2. ASSUME NEW k \in 1..n PROVE g[k] = CleanSpikes(Append(g[k - 1], new[k]), t)
      <4>1. k \in 0..n /\ k - 1 \in 0..n
        BY <1>1
      <4>2. /\ g[k] = after[k] /\ g[k - 1] = after[k - 1]
            /\ after[k] = CleanSpikes(Append(after[k - 1], new[k]), t)
        BY <1>8, <1>12, <4>1
      <4> QED
        BY <4>2
    <3> QED
      BY <3>1, <3>2
  <2> QED
    BY <1>0, <1>1, <1>12, <2>1 DEF Adding
<1> HIDE DEF g
<1> QED
  BY <1>7, <1>12, <1>13 DEF Q

LEMMA WithSpikesType ==
    ASSUME NEW t, NEW S, NEW ss \in Seq(S), NEW new \in Seq(S)
    PROVE  WithSpikes(ss, new, t) \in Seq(S)
<1>1. PICK f \in [0..Len(new) -> Seq(S)] : WithSpikes(ss, new, t) = CleanSpikes(f[Len(new)], t)
  BY WithSpikesFolds
<1>2. f[Len(new)] \in Seq(S)
  OBVIOUS
<1> QED
  BY <1>1, <1>2, CleanSpikesType

-----------------------------------------------------------------------------
(* The inductive invariant. *)

RowsInv ==
    /\ now \in 0..MaxTime /\ up \in BOOLEAN
    /\ rows \in Seq(Points) /\ Len(rows) <= MaxPoints
    /\ \A i \in 1..Len(rows) : rows[i].id = i /\ rows[i].at <= now

(* What was accepted are rows, in the order in which they came. *)
AcceptedInv ==
    /\ accepted \subseteq Points /\ IsFiniteSet(accepted) /\ (~up => accepted = {})
    /\ \A p \in accepted :
          /\ p.fee # 0 /\ p.at <= p.polled /\ p.polled <= now
          /\ p.id \in 1..Len(rows) /\ rows[p.id].at = p.at
    /\ \A p, q \in accepted : p.polled < q.polled => p.at <= q.at

(* A window holds the last points that belong in it, and is cleaned by every
   update; after one the medium window is not empty. *)
BufferInv ==
    /\ buffer \in [Windows -> Seq(Points)]
    /\ \A w \in Windows : Held(buffer[w], accepted, w, now)
    /\ lastUpdate # None => \A w \in Windows : Cleaned(buffer[w], w, lastUpdate)
    /\ lastUpdate = now => HasRecent(buffer["medium"], "medium", now)

(* The period in which a point came has not ended by then. *)
PeriodInv ==
    /\ period \in Extremes /\ period.start \in 0..now
    /\ period.end = period.start + TrackingPeriod
    /\ Bounding(period, accepted)
    /\ \A p \in accepted : p.polled = now => now < period.end

Shown ==
    /\ insights.averages = RollingAverages
    /\ insights.min = period.min /\ insights.max = period.max
    /\ insights.spikes = spikes /\ insights.strength = TrendStrength(spikes)

UpToDate == lastUpdate # None /\ \A p \in accepted : p.polled <= lastUpdate

PublishedInv ==
    /\ lastUpdate \in None..now /\ insights.at = lastUpdate
    /\ spikes \in Seq(SpikesAt(now))
    /\ UpToDate => Shown

Inv == RowsInv /\ AcceptedInv /\ BufferInv /\ PeriodInv /\ PublishedInv

LEMMA Initially == Init => Inv
<1> SUFFICES ASSUME Init PROVE Inv
  OBVIOUS
<1>1. /\ now = 0 /\ up = FALSE /\ rows = << >> /\ accepted = {} /\ lastUpdate = -1
      /\ insights.at = -1 /\ spikes = << >>
  BY DEF Init, None, NoInsights
<1>2. RowsInv
  <2>1. up \in BOOLEAN
    BY <1>1
  <2>2. now \in 0..MaxTime /\ rows \in Seq(Points) /\ Len(rows) = 0 /\ 0 <= MaxPoints
    BY <1>1, InsightsAssumption
  <2>3. \A i \in 1..Len(rows) : rows[i].id = i /\ rows[i].at <= now
    BY <2>2
  <2> QED
    BY <2>1, <2>2, <2>3 DEF RowsInv
<1>3. AcceptedInv
  BY <1>1, FS_EmptySet DEF AcceptedInv
<1>4. BufferInv
  <2>1. buffer = [w \in Windows |-> << >>]
    BY DEF Init, Empty
  <2>2. \A w \in Windows : Held(<< >>, {}, w, 0)
    BY InsightsAssumption DEF Held, OrderedIn
  <2> QED
    BY <1>1, <2>1, <2>2 DEF BufferInv, None
<1>5. PeriodInv
  <2>1. period = [start |-> 0, end |-> 0 + TrackingPeriod, min |-> NoPoint, max |-> NoPoint]
    BY DEF Init, NewPeriod
  <2>2. period \in Extremes
    BY <2>1, InsightsAssumption DEF Extremes
  <2>3. Bounding(period, {})
    BY <2>1 DEF Bounding
  <2> QED
    BY <1>1, <2>1, <2>2, <2>3, InsightsAssumption DEF PeriodInv
<1>6. PublishedInv
  BY <1>1 DEF PublishedInv, UpToDate, None
<1> QED
  BY <1>2, <1>3, <1>4, <1>5, <1>6 DEF Inv

(* A batch of new points, which the rows hold after the step. *)
Arrives(batch) ==
    /\ batch \in Seq(Points) /\ batch # << >> /\ Fresh(batch, accepted, now)
    /\ \A i \in 1..Len(batch) :
          /\ batch[i].at \in 0..now /\ batch[i].id \in 1..Len(rows')
          /\ rows'[batch[i].id].at = batch[i].at
          /\ \A p \in accepted : p.at <= batch[i].at

Grows == Len(rows') >= Len(rows) /\ \A i \in 1..Len(rows) : rows'[i] = rows[i]

LEMMA BatchSet ==
    ASSUME NEW batch \in Seq(Points)
    PROVE  /\ IsFiniteSet(ToSet(batch)) /\ ToSet(batch) \subseteq Points
           /\ \A p \in ToSet(batch) : \E i \in 1..Len(batch) : p = batch[i]
           /\ \A i \in 1..Len(batch) : batch[i] \in ToSet(batch) /\ batch[i] \in Points
<1>1. /\ ToSet(batch) \subseteq Points
      /\ \A p \in ToSet(batch) : \E i \in 1..Len(batch) : p = batch[i]
      /\ \A i \in 1..Len(batch) : batch[i] \in ToSet(batch) /\ batch[i] \in Points
  BY DEF ToSet
<1>2. IsFiniteSet(ToSet(batch))
  <2> DEFINE n == Len(batch)
             f == [i \in 1..n |-> batch[i]]
  <2>1. f \in Surjection(1..n, ToSet(batch))
    <3>1. f \in [1..n -> ToSet(batch)] /\ \A y \in ToSet(batch) : \E i \in 1..n : f[i] = y
      BY DEF ToSet
    <3> HIDE DEF f, n
    <3> QED
      BY <3>1 DEF Surjection
  <2>2. IsFiniteSet(1..n)
    BY FS_Interval
  <2> HIDE DEF f, n
  <2> QED
    BY <2>1, <2>2, FS_Surjection
<1> QED
  BY <1>1, <1>2

LEMMA AcceptedGrows ==
    ASSUME Inv, RowsInv', Grows, now' = now, up', NEW batch, Arrives(batch), TakeIn(batch)
    PROVE  AcceptedInv'
<1>1. accepted' = accepted \cup ToSet(batch)
  BY DEF TakeIn
<1>2. accepted \subseteq Points /\ IsFiniteSet(accepted) /\ batch \in Seq(Points)
  BY DEF Inv, AcceptedInv, Arrives
<1>3. accepted' \subseteq Points /\ IsFiniteSet(accepted')
  BY <1>1, <1>2, BatchSet, FS_Union
<1>4. \A i \in 1..Len(batch) : batch[i].fee # 0
  BY <1>2 DEF TakeIn, Valid
<1>5. now \in Int /\ Len(rows) \in Nat /\ Len(rows') \in Nat
  BY DEF Inv, RowsInv
<1>6. ASSUME NEW p \in accepted'
      PROVE  /\ p.fee # 0 /\ p.at <= p.polled /\ p.polled <= now'
             /\ p.id \in 1..Len(rows') /\ rows'[p.id].at = p.at
  <2>1. CASE p \in accepted
    <3>1. /\ p.fee # 0 /\ p.at <= p.polled /\ p.polled <= now
          /\ p.id \in 1..Len(rows) /\ rows[p.id].at = p.at
      BY <2>1 DEF Inv, AcceptedInv
    <3>2. p.id \in 1..Len(rows') /\ rows'[p.id] = rows[p.id]
      BY <1>5, <3>1 DEF Grows
    <3> QED
      BY <3>1, <3>2
  <2>2. CASE p \in ToSet(batch)
    <3>1. PICK i \in 1..Len(batch) : p = batch[i]
      BY <1>2, <2>2, BatchSet
    <3>2. p.polled = now
      BY <3>1 DEF Arrives, Fresh
    <3>3. p.at \in 0..now /\ p.id \in 1..Len(rows') /\ rows'[p.id].at = p.at
      BY <3>1 DEF Arrives
    <3> QED
      BY <1>4, <1>5, <3>1, <3>2, <3>3
  <2> QED
    BY <1>1, <2>1, <2>2
<1>7. ASSUME NEW p \in accepted', NEW q \in accepted', p.polled < q.polled
      PROVE  p.at <= q.at
  <2>1. CASE q \in ToSet(batch)
    <3>1. PICK i \in 1..Len(batch) : q = batch[i]
      BY <1>2, <2>1, BatchSet
    <3>2. q.polled = now
      BY <3>1 DEF Arrives, Fresh
    <3>3. p \in accepted
      <4> SUFFICES ASSUME p \in ToSet(batch) PROVE FALSE
        BY <1>1
      <4>1. PICK j \in 1..Len(batch) : p = batch[j]
        BY <1>2, BatchSet
      <4>2. p.polled = now
        BY <4>1 DEF Arrives, Fresh
      <4> QED
        BY <1>5, <1>7, <3>2, <4>2
    <3> QED
      BY <3>1, <3>3 DEF Arrives
  <2>2. CASE q \in accepted /\ p \in accepted
    BY <1>7, <2>2 DEF Inv, AcceptedInv
  <2>3. CASE q \in accepted /\ p \in ToSet(batch)
    <3>1. PICK j \in 1..Len(batch) : p = batch[j]
      BY <1>2, <2>3, BatchSet
    <3>2. p.polled = now /\ q.polled <= now
      BY <2>3, <3>1 DEF Arrives, Fresh
    <3>3. q.polled \in Int
      BY <1>2, <2>3, PointFields
    <3> QED
      BY <1>5, <1>7, <3>2, <3>3
  <2> QED
    BY <1>1, <2>1, <2>2, <2>3
<1> QED
  BY <1>3, <1>6, <1>7 DEF AcceptedInv

LEMMA BufferGrows ==
    ASSUME Inv, NEW batch, Arrives(batch), TakeIn(batch)
    PROVE  /\ buffer' \in [Windows -> Seq(Points)]
           /\ \A w \in Windows :
                 /\ Held(buffer'[w], accepted', w, now) /\ Cleaned(buffer'[w], w, now)
                 /\ HasRecent(buffer[w], w, now) => HasRecent(buffer'[w], w, now)
<1>1. /\ accepted' = accepted \cup ToSet(batch)
      /\ buffer' = [w \in Windows |-> AddAll(buffer[w], batch, w, now)]
  BY DEF TakeIn
<1>2. /\ accepted \in SUBSET Points /\ IsFiniteSet(accepted) /\ batch \in Seq(Points)
      /\ Fresh(batch, accepted, now) /\ batch # << >> /\ now \in Int
  BY DEF Inv, RowsInv, AcceptedInv, Arrives
<1>3. ASSUME NEW w \in Windows
      PROVE  /\ Held(buffer'[w], accepted', w, now) /\ Cleaned(buffer'[w], w, now)
             /\ HasRecent(buffer[w], w, now) => HasRecent(buffer'[w], w, now)
  <2>1. Held(buffer[w], accepted, w, now)
    BY DEF Inv, BufferInv
  <2>2. buffer'[w] = AddAll(buffer[w], batch, w, now)
    BY <1>1
  <2> QED
    BY <1>1, <1>2, <2>1, <2>2, AddAllHolds
<1>4. \A w \in Windows : buffer'[w] \in Seq(Points)
  BY <1>3 DEF Held, OrderedIn
<1> QED
  BY <1>1, <1>3, <1>4

LEMMA PeriodGrows ==
    ASSUME Inv, AcceptedInv', now' = now, NEW batch, Arrives(batch), TakeIn(batch)
    PROVE  PeriodInv'
<1> DEFINE first == Rotated(now)
<1>1. /\ accepted' = accepted \cup ToSet(batch) /\ period' = Track(batch)
  BY DEF TakeIn
<1>2. /\ accepted \in SUBSET Points /\ batch \in Seq(Points) /\ now \in Nat
      /\ period \in Extremes /\ period.start \in 0..now
      /\ period.end = period.start + TrackingPeriod /\ Bounding(period, accepted)
      /\ TrackingPeriod \in Nat /\ TrackingPeriod > 0
  BY InsightsAssumption DEF Inv, RowsInv, AcceptedInv, PeriodInv, Arrives
<1>3. /\ first \in Extremes /\ first.start \in 0..now
      /\ first.end = first.start + TrackingPeriod /\ now < first.end
      /\ Bounding(first, accepted)
  <2>1. CASE now >= period.end
    <3>1. first = [start |-> now, end |-> now + TrackingPeriod, min |-> NoPoint, max |-> NoPoint]
      BY <2>1 DEF Rotated, NewPeriod
    <3>2. \A p \in accepted : p.at \notin first.start..first.end
      <4> SUFFICES ASSUME NEW p \in accepted PROVE p.at \notin now..now + TrackingPeriod
        BY <3>1
      <4>1. p.at <= p.polled /\ p.polled <= now /\ (p.polled = now => now < period.end)
        BY DEF Inv, AcceptedInv, PeriodInv
      <4>2. p.at \in Int /\ p.polled \in Int
        BY <1>2, PointFields
      <4>3. period.end \in Int
        BY <1>2
      <4> QED
        BY <1>2, <2>1, <4>1, <4>2, <4>3
    <3>3. Bounding(first, accepted)
      <4>1. first.min = NoPoint /\ first.max = NoPoint
        BY <3>1
      <4> HIDE DEF first
      <4> QED
        BY <3>2, <4>1 DEF Bounding
    <3>4. first \in Extremes
      BY <1>2, <3>1 DEF Extremes
    <3>5. /\ first.start \in 0..now
          /\ first.end = first.start + TrackingPeriod /\ now < first.end
      BY <1>2, <3>1
    <3> QED
      BY <3>3, <3>4, <3>5
  <2>2. CASE ~(now >= period.end)
    <3>1. first = period
      BY <2>2 DEF Rotated
    <3> HIDE DEF first
    <3>2. now < first.end
      BY <1>2, <2>2, <3>1
    <3> QED
      BY <1>2, <3>1, <3>2
  <2> QED
    BY <2>1, <2>2
<1>4. /\ period' \in Extremes /\ period'.start = first.start /\ period'.end = first.end
      /\ Bounding(period', accepted')
  BY <1>1, <1>2, <1>3, TrackBounds
<1> HIDE DEF first
<1>5. /\ period'.start \in 0..now' /\ period'.end = period'.start + TrackingPeriod
      /\ \A p \in accepted' : p.polled = now' => now' < period'.end
  BY <1>3, <1>4
<1> QED
  BY <1>4, <1>5 DEF PeriodInv

(* The average that a batch is compared with. *)
LEMMA BaselineIs ==
    ASSUME AcceptedInv', Held(buffer'["medium"], accepted', "medium", now)
    PROVE  Baseline \in Bases /\ (Baseline.total > 0 <=> buffer'["medium"] # << >>)
<1> DEFINE b == buffer'["medium"]
<1>1. b \in Seq(Points) /\ \A i \in 1..Len(b) : b[i] \in accepted'
  BY DEF Held, OrderedIn
<1>2. \A p \in accepted' : p.fee # 0
  BY DEF AcceptedInv
<1> HIDE DEF b
<1>3. \A i \in DOMAIN b : b[i].fee # 0
  BY <1>1, <1>2
<1>4. TotalFee(b) \in Nat /\ (TotalFee(b) > 0 <=> b # << >>) /\ Len(b) \in Nat
  BY <1>1, <1>3, TotalPositive
<1>5. Baseline = [total |-> TotalFee(b), count |-> Len(b)]
  BY DEF Baseline, b
<1>6. Baseline \in Bases /\ Baseline.total = TotalFee(b)
  BY <1>4, <1>5 DEF Bases
<1> QED
  BY <1>4, <1>6 DEF b

(* The points of s are in the order of time. *)
Timely(s) == \A i, j \in 1..Len(s) : i <= j => s[i].at <= s[j].at

LEMMA ChronologicalIs ==
    ASSUME NEW batch \in Seq(Points), batch # << >>
    PROVE  LET s == Chronological(batch)
           IN  /\ s \in Seq(Points) /\ s # << >> /\ Timely(s)
               /\ \A i \in 1..Len(s) : \E j \in 1..Len(batch) : s[i] = batch[j]
<1> DEFINE K == 1..Len(batch)
           s == InOrder(batch, K)
<1>1. Chronological(batch) = s
  BY DEF Chronological
<1>2. Cardinality(K) = Len(batch) /\ Len(batch) > 0
  <2>1. Len(batch) \in Nat /\ Len(batch) > 0
    OBVIOUS
  <2> QED
    BY <2>1, FS_Interval
<1>3. /\ s \in Seq(Points) /\ Len(s) = Cardinality(K)
      /\ \E f \in Surjection(1..Cardinality(K), K) : Ordering(f, batch, K)
  <2>1. K \in SUBSET (1..Len(batch))
    OBVIOUS
  <2> HIDE DEF K
  <2> QED
    BY <2>1, InOrderOrders
<1>4. PICK f : Ordering(f, batch, K)
  BY <1>3
<1>5. \A i \in 1..Len(s) : f[i] \in K /\ s[i] = batch[f[i]]
  <2> HIDE DEF K
  <2> QED
    BY <1>3, <1>4 DEF Ordering
<1>6. Timely(s)
  <2> SUFFICES ASSUME NEW i \in 1..Len(s), NEW j \in 1..Len(s), i <= j PROVE s[i].at <= s[j].at
    BY DEF Timely
  <2> HIDE DEF s, K
  <2>1. s[i] = batch[f[i]] /\ s[j] = batch[f[j]] /\ s[i].at \in Int /\ s[j].at \in Int
    <3>1. s[i] \in Points /\ s[j] \in Points
      BY <1>3
    <3> QED
      BY <1>5, <3>1, PointFields
  <2>2. CASE i = j
    BY <2>1, <2>2
  <2>3. CASE i # j
    <3>1. i < j /\ i \in 1..Cardinality(K) /\ j \in 1..Cardinality(K)
      BY <1>3, <2>3
    <3>2. Before(batch, f[i], f[j])
      BY <1>4, <3>1 DEF Ordering
    <3>3. s[i].at < s[j].at \/ s[i].at = s[j].at
      BY <2>1, <3>2 DEF Before
    <3> QED
      BY <2>1, <3>3
  <2> QED
    BY <2>2, <2>3
<1>7. s # << >>
  <2> HIDE DEF s, K
  <2> QED
    BY <1>2, <1>3
<1> HIDE DEF s
<1> QED
  BY <1>1, <1>3, <1>5, <1>6, <1>7

LEMMA SpikesGrow ==
    ASSUME Inv, NEW batch, Arrives(batch), NEW base \in Bases
    PROVE  WithSpikes(spikes, Detected(Chronological(batch), base), now) \in Seq(SpikesAt(now))
<1> DEFINE s == Chronological(batch)
<1>1. /\ s \in Seq(Points) /\ s # << >>
      /\ \A i \in 1..Len(s) : \E j \in 1..Len(batch) : s[i] = batch[j]
  BY ChronologicalIs DEF Arrives
<1>2. \A i \in 1..Len(s) : s[i].at \in 0..now
  BY <1>1 DEF Arrives
<1>3. now \in Nat /\ spikes \in Seq(SpikesAt(now))
  BY DEF Inv, RowsInv, PublishedInv
<1> HIDE DEF s
<1>4. Detected(s, base) \in Seq(SpikesAt(now))
  BY <1>1, <1>2, <1>3, DetectedType
<1> QED
  BY <1>3, <1>4, WithSpikesType DEF s

LEMMA CleanedBefore ==
    ASSUME NEW w \in Windows, NEW b \in Seq(Points), NEW t \in Int, NEW u \in Int, u <= t,
           Cleaned(b, w, t)
    PROVE  Cleaned(b, w, u)
<1>1. CASE b = << >>
  BY <1>1 DEF Cleaned
<1>2. CASE b # << >>
  <2>1. IsIn(b[1], w, t) /\ b[1] \in Points
    BY <1>2 DEF Cleaned
  <2>2. b[1].at \in Int /\ Duration[w] \in Nat
    BY <2>1, PointFields, IsInType
  <2>3. IsIn(b[1], w, u)
    BY <2>1, <2>2 DEF IsIn
  <2> QED
    BY <2>3 DEF Cleaned
<1> QED
  BY <1>1, <1>2

LEMMA Updates ==
    ASSUME Inv, RowsInv', Grows, now' = now, up', NEW batch, Arrives(batch), TakeIn(batch),
           FailBaseline(batch) \/ Publish(batch)
    PROVE  Inv'
<1>1. /\ AcceptedInv' /\ PeriodInv'
  BY AcceptedGrows, PeriodGrows
<1>2. /\ buffer' \in [Windows -> Seq(Points)]
      /\ \A w \in Windows :
            /\ Held(buffer'[w], accepted', w, now) /\ Cleaned(buffer'[w], w, now)
            /\ HasRecent(buffer[w], w, now) => HasRecent(buffer'[w], w, now)
  BY BufferGrows
<1>3. Baseline \in Bases /\ (Baseline.total > 0 <=> buffer'["medium"] # << >>)
  BY <1>1, <1>2, BaselineIs DEF Windows
<1>4. lastUpdate \in -1..now /\ now \in Nat /\ None = -1
  BY DEF Inv, RowsInv, PublishedInv, None
<1>5. CASE Publish(batch)
  <2>1. /\ spikes' = WithSpikes(spikes, Detected(Chronological(batch), Baseline), now)
        /\ lastUpdate' = now /\ Baseline.total > 0 /\ insights' = Insights(batch)
    BY <1>5 DEF Publish
  <2>2. HasRecent(buffer'["medium"], "medium", now)
    BY <1>2, <1>3, <2>1, CleanedHas DEF Windows
  <2>3. BufferInv'
    BY <1>2, <2>1, <2>2 DEF BufferInv
  <2>4. spikes' \in Seq(SpikesAt(now))
    BY <1>3, <2>1, SpikesGrow
  <2>5. insights'.at = now
    BY <2>1 DEF Insights
  <2>6. Shown'
    BY <2>1 DEF Shown, Insights, RollingAverages
  <2>7. PublishedInv'
    BY <1>4, <2>1, <2>4, <2>5, <2>6 DEF PublishedInv
  <2> QED
    BY <1>1, <2>3, <2>7 DEF Inv
<1>6. CASE FailBaseline(batch)
  <2>1. /\ Baseline.total = 0 /\ spikes' = spikes /\ lastUpdate' = lastUpdate
        /\ insights' = insights
    BY <1>6 DEF FailBaseline
  <2>2. lastUpdate # now
    <3> SUFFICES ASSUME lastUpdate = now PROVE FALSE
      OBVIOUS
    <3>1. HasRecent(buffer["medium"], "medium", now)
      BY DEF Inv, BufferInv
    <3>2. HasRecent(buffer'["medium"], "medium", now)
      BY <1>2, <3>1 DEF Windows
    <3>3. buffer'["medium"] # << >>
      BY <3>2 DEF HasRecent
    <3> QED
      BY <1>3, <2>1, <3>3
  <2>3. BufferInv'
    <3>1. ASSUME NEW w \in Windows, lastUpdate # None PROVE Cleaned(buffer'[w], w, lastUpdate)
      BY <1>2, <1>4, <3>1, CleanedBefore
    <3> QED
      BY <1>2, <2>1, <2>2, <3>1 DEF BufferInv
  <2>4. ~UpToDate'
    <3>1. batch[1] \in accepted' /\ batch[1].polled = now
      <4>1. batch \in Seq(Points) /\ 1 \in 1..Len(batch)
        BY DEF Arrives
      <4>2. batch[1] \in ToSet(batch)
        BY <4>1, BatchSet
      <4> QED
        BY <4>1, <4>2 DEF TakeIn, Arrives, Fresh
    <3>2. ~(now <= lastUpdate)
      BY <1>4, <2>2
    <3> QED
      BY <2>1, <3>1, <3>2 DEF UpToDate
  <2>5. PublishedInv'
    BY <2>1, <2>4 DEF Inv, PublishedInv
  <2> QED
    BY <1>1, <2>3, <2>5 DEF Inv
<1> QED
  BY <1>5, <1>6

LEMMA StaysPut ==
    ASSUME Inv, RowsInv', Grows, now' = now, up' \/ up' = up, UNCHANGED engine
    PROVE  Inv'
<1>1. /\ buffer' = buffer /\ period' = period /\ spikes' = spikes
      /\ lastUpdate' = lastUpdate /\ insights' = insights /\ accepted' = accepted
  BY DEF engine
<1>2. AcceptedInv'
  <2>1. \A p \in accepted : p.id \in 1..Len(rows') /\ rows'[p.id] = rows[p.id]
    <3>1. Len(rows) \in Nat /\ Len(rows') \in Nat
      BY DEF Inv, RowsInv
    <3> QED
      BY <3>1 DEF Grows, Inv, AcceptedInv
  <2>2. ~up' => accepted' = {}
    BY <1>1 DEF Inv, AcceptedInv
  <2> QED
    BY <1>1, <2>1, <2>2 DEF Inv, AcceptedInv
<1>3. BufferInv' /\ PeriodInv'
  BY <1>1 DEF Inv, BufferInv, PeriodInv
<1>4. PublishedInv'
  BY <1>1 DEF Inv, PublishedInv, UpToDate, Shown, RollingAverages
<1> QED
  BY <1>2, <1>3, <1>4 DEF Inv

LEMMA Processes ==
    ASSUME Inv, RowsInv', Grows, now' = now, up', NEW batch, Arrives(batch),
           ProcessFeeData(batch)
    PROVE  Inv'
<1>1. CASE Refuse(batch)
  BY <1>1, StaysPut DEF Refuse
<1>2. CASE FailBaseline(batch) \/ Publish(batch)
  BY <1>2, Updates DEF FailBaseline, Publish
<1> QED
  BY <1>1, <1>2 DEF ProcessFeeData

(* Polls. *)

LEMMA NewestIs ==
    ASSUME RowsInv
    PROVE  Newest \in -1..now /\ \A i \in 1..Len(rows) : rows[i].at <= Newest
<1>1. now \in Nat /\ rows \in Seq(Points) /\ DOMAIN rows = 1..Len(rows)
  BY DEF RowsInv
<1>2. \A i \in 1..Len(rows) : rows[i].at \in 0..now
  <2> SUFFICES ASSUME NEW i \in 1..Len(rows) PROVE rows[i].at \in 0..now
    OBVIOUS
  <2>1. rows[i] \in Points /\ rows[i].at <= now
    BY <1>1 DEF RowsInv
  <2>2. rows[i].at \in Int /\ rows[i].at >= 0
    BY <2>1, PointFields
  <2> QED
    BY <1>1, <2>1, <2>2
<1>3. CASE rows = << >>
  BY <1>1, <1>3 DEF Newest
<1>4. CASE rows # << >>
  <2> DEFINE T == {rows[i].at : i \in DOMAIN rows}
  <2>1. T \subseteq 0..now /\ rows[1].at \in T /\ \A i \in 1..Len(rows) : rows[i].at \in T
    BY <1>1, <1>2, <1>4
  <2>2. Newest = Max(T)
    BY <1>4 DEF Newest
  <2> HIDE DEF T
  <2>3. \E m \in T : \A n \in T : n <= m
    BY <1>1, <2>1, GreatestElement
  <2>4. \E m \in T : \A n \in T : m >= n
    BY <1>1, <2>1, <2>3
  <2>5. Max(T) \in T /\ \A n \in T : Max(T) >= n
    BY <2>4 DEF Max
  <2>6. PICK m : m = Newest
    OBVIOUS
  <2>7. m \in T /\ \A n \in T : m >= n
    BY <2>2, <2>5, <2>6
  <2>8. m \in -1..now
    BY <1>1, <2>1, <2>7
  <2>9. \A i \in 1..Len(rows) : rows[i].at <= m
    BY <1>1, <1>2, <2>1, <2>7, <2>8
  <2> QED
    BY <2>6, <2>8, <2>9
<1> QED
  BY <1>3, <1>4

(* A batch of n points that follow the rows. *)
Following(batch, n) ==
    /\ batch \in Seq(Points) /\ Len(batch) = n
    /\ \A i \in 1..n :
          /\ batch[i].at \in (Newest + 1)..now
          /\ batch[i].id = Len(rows) + i /\ batch[i].polled = now

LEMMA BatchesFollow ==
    ASSUME RowsInv, NEW batch \in Batches
    PROVE  \E n \in Nat \ {0} : Len(rows) + n <= MaxPoints /\ Following(batch, n)
<1> DEFINE size == Min({MaxBatch, MaxPoints - Len(rows)})
           times == (Newest + 1)..now
           left == MaxPoints - Len(rows)
           made(p) == [i \in DOMAIN p |-> [at |-> p[i][1], fee |-> p[i][2],
                                           id |-> Len(rows) + i, polled |-> now]]
<1>1. now \in 0..MaxTime /\ Len(rows) \in Nat /\ MaxPoints \in Nat /\ MaxBatch \in Nat
      /\ left \in Nat /\ MaxTime \in Nat
  <2>1. rows \in Seq(Points) /\ Len(rows) <= MaxPoints /\ now \in 0..MaxTime
    BY DEF RowsInv
  <2> QED
    BY <2>1, InsightsAssumption
<1>2. Newest \in -1..now
  BY NewestIs
<1>3. size \in Nat /\ size <= left
  <2>1. {MaxBatch, left} \subseteq Nat
    BY <1>1
  <2> HIDE DEF left
  <2>2. size = Min({MaxBatch, left})
    BY DEF left
  <2>3. PICK m : m = Min({MaxBatch, left})
    OBVIOUS
  <2>4. m \in {MaxBatch, left} /\ m <= left
    BY <2>1, <2>3, LeastIsMin
  <2> QED
    BY <2>1, <2>2, <2>3, <2>4
<1>4. \E n \in 1..size : \E p \in [1..n -> times \X Fees] : batch = made(p)
  <2> DEFINE page(n) == {p \in [1..n -> times \X Fees] :
                            \A i \in 2..n : p[i - 1][1] >= p[i][1]}
             pages == UNION {page(n) : n \in 1..size}
  <2>1. Batches = {made(p) : p \in pages}
    BY DEF Batches
  <2> HIDE DEF made, pages
  <2>2. PICK p \in pages : batch = made(p)
    BY <2>1
  <2>3. \E n \in 1..size : p \in page(n)
    BY DEF pages
  <2> QED
    BY <2>2, <2>3
<1>5. PICK n \in 1..size : \E p \in [1..n -> times \X Fees] : batch = made(p)
  BY <1>4
<1>6. PICK p \in [1..n -> times \X Fees] : batch = made(p)
  BY <1>5
<1>7. n \in Nat \ {0} /\ Len(rows) + n <= MaxPoints
  <2> HIDE DEF size
  <2> QED
    BY <1>1, <1>3, <1>5
<1>8. ASSUME NEW i \in 1..n
      PROVE  /\ batch[i] \in Points /\ batch[i].at \in times
             /\ batch[i].id = Len(rows) + i /\ batch[i].polled = now
  <2>1. p[i][1] \in times /\ p[i][2] \in Fees
    BY <1>6
  <2>2. batch[i] = [at |-> p[i][1], fee |-> p[i][2], id |-> Len(rows) + i, polled |-> now]
    BY <1>6
  <2>3. p[i][1] \in 0..MaxTime
    BY <1>1, <1>2, <2>1
  <2>4. Len(rows) + i \in 1..MaxPoints
    BY <1>1, <1>7
  <2> HIDE DEF times
  <2> QED
    BY <1>1, <2>1, <2>2, <2>3, <2>4 DEF Points
<1>9. batch \in Seq(Points) /\ Len(batch) = n
  <2>1. DOMAIN p = 1..n
    BY <1>6
  <2>2. batch = [i \in 1..n |-> batch[i]]
    BY <1>6, <2>1
  <2> HIDE DEF made, size
  <2>3. batch \in [1..n -> Points]
    BY <1>8, <2>2
  <2> QED
    BY <1>7, <2>3
<1>10. Following(batch, n)
  BY <1>8, <1>9 DEF Following
<1> QED
  BY <1>7, <1>10

LEMMA PollArrives ==
    ASSUME Inv, NEW batch \in Batches, rows' = rows \o batch, now' = now, up' = up
    PROVE  RowsInv' /\ Grows /\ Arrives(batch)
<1>1. RowsInv
  BY DEF Inv
<1>2. PICK n \in Nat \ {0} : Len(rows) + n <= MaxPoints /\ Following(batch, n)
  BY <1>1, BatchesFollow
<1>3. /\ batch \in Seq(Points) /\ Len(batch) = n /\ batch # << >>
      /\ rows \in Seq(Points) /\ Len(rows) \in Nat /\ now \in Nat
  BY <1>1, <1>2 DEF RowsInv, Following
<1>4. /\ rows' \in Seq(Points) /\ Len(rows') = Len(rows) + n
      /\ \A i \in 1..Len(rows) : rows'[i] = rows[i]
      /\ \A i \in 1..n : rows'[Len(rows) + i] = batch[i]
  <2>1. /\ rows \o batch \in Seq(Points) /\ Len(rows \o batch) = Len(rows) + Len(batch)
        /\ \A i \in 1..Len(rows) : (rows \o batch)[i] = rows[i]
        /\ \A i \in 1..Len(batch) : (rows \o batch)[Len(rows) + i] = batch[i]
    <3>1. rows \in Seq(Points) /\ batch \in Seq(Points)
      BY <1>3
    <3>2. rows \o batch \in Seq(Points)
      BY <3>1
    <3>3. Len(rows \o batch) = Len(rows) + Len(batch)
      BY <3>1
    <3>4. \A i \in 1..Len(rows) : (rows \o batch)[i] = rows[i]
      BY <3>1
    <3>5. \A i \in 1..Len(batch) : (rows \o batch)[Len(rows) + i] = batch[i]
      BY <3>1
    <3> QED
      BY <3>2, <3>3, <3>4, <3>5
  <2> QED
    BY <1>3, <2>1
<1>5. Newest \in -1..now /\ \A i \in 1..Len(rows) : rows[i].at <= Newest
  BY <1>1, NewestIs
<1>6. \A i \in 1..n : /\ batch[i].at \in 0..now /\ batch[i].at > Newest
                      /\ batch[i].id = Len(rows) + i /\ batch[i].polled = now
  BY <1>2, <1>3, <1>5 DEF Following
<1>7. Grows
  BY <1>3, <1>4 DEF Grows
<1>8. ASSUME NEW i \in 1..Len(rows') PROVE rows'[i].id = i /\ rows'[i].at <= now
  <2>1. CASE i \in 1..Len(rows)
    BY <1>1, <1>4, <2>1 DEF RowsInv
  <2>2. CASE i \notin 1..Len(rows)
    <3>1. PICK j \in 1..n : i = Len(rows) + j
      <4>1. i - Len(rows) \in 1..n /\ i = Len(rows) + (i - Len(rows))
        BY <1>2, <1>3, <1>4, <2>2
      <4> QED
        BY <4>1
    <3>2. rows'[i] = batch[j] /\ batch[j].id = i
      BY <1>4, <1>6, <3>1
    <3>3. batch[j].at \in 0..now
      BY <1>6
    <3> QED
      BY <1>3, <3>2, <3>3
  <2> QED
    BY <2>1, <2>2
<1>9. RowsInv'
  <2>1. Len(rows') <= MaxPoints
    BY <1>2, <1>4
  <2>2. up' \in BOOLEAN /\ now' \in 0..MaxTime
    BY <1>1 DEF RowsInv
  <2> QED
    BY <1>4, <1>8, <2>1, <2>2 DEF RowsInv
<1>10. Fresh(batch, accepted, now)
  <2>1. \A q \in accepted : q.polled <= now /\ q.id \in 1..Len(rows)
    BY DEF Inv, AcceptedInv
  <2>2. ASSUME NEW i \in 1..n PROVE batch[i] \notin accepted
    <3>1. batch[i].id = Len(rows) + i
      BY <1>6
    <3>2. batch[i].id \notin 1..Len(rows)
      BY <1>2, <1>3, <3>1
    <3> QED
      BY <2>1, <3>2
  <2>3. ASSUME NEW i \in 1..n, NEW j \in 1..n, i # j PROVE batch[i] # batch[j]
    <3>1. batch[i].id = Len(rows) + i /\ batch[j].id = Len(rows) + j
      BY <1>6
    <3>2. Len(rows) + i # Len(rows) + j
      BY <1>2, <1>3, <2>3
    <3> QED
      BY <3>1, <3>2
  <2> QED
    BY <1>3, <1>6, <2>1, <2>2, <2>3 DEF Fresh
<1>11. ASSUME NEW i \in 1..n
       PROVE  /\ batch[i].id \in 1..Len(rows') /\ rows'[batch[i].id].at = batch[i].at
              /\ \A p \in accepted : p.at <= batch[i].at
  <2>1. Len(rows) + i \in 1..Len(rows')
    BY <1>2, <1>3, <1>4
  <2>2. \A p \in accepted : p.at <= Newest
    <3> SUFFICES ASSUME NEW p \in accepted PROVE p.at <= Newest
      OBVIOUS
    <3>1. p.id \in 1..Len(rows) /\ rows[p.id].at = p.at
      BY DEF Inv, AcceptedInv
    <3> QED
      BY <1>5, <3>1
  <2>3. \A p \in accepted : p.at \in Int
    BY PointFields DEF Inv, AcceptedInv
  <2>4. \A p \in accepted : p.at <= batch[i].at
    BY <1>3, <1>5, <1>6, <2>2, <2>3
  <2> QED
    BY <1>4, <1>6, <2>1, <2>4
<1> QED
  BY <1>3, <1>6, <1>7, <1>9, <1>10, <1>11 DEF Arrives

LEMMA Polls ==
    ASSUME Inv, Poll PROVE Inv'
<1>1. PICK batch \in Batches : rows' = rows \o batch /\ ProcessFeeData(batch)
  BY DEF Poll
<1>2. up /\ now' = now /\ up' = up
  BY DEF Poll
<1>3. RowsInv' /\ Grows /\ Arrives(batch)
  BY <1>1, <1>2, PollArrives
<1>4. up'
  BY <1>2
<1> QED
  BY <1>1, <1>2, <1>3, <1>4, Processes

(* A restart takes in the rows of the last day, each once. *)
LEMMA LastDayArrives ==
    ASSUME Inv, ~up, UNCHANGED <<now, rows>>, LastDay # << >>
    PROVE  Arrives(LastDay)
<1> DEFINE K == {i \in DOMAIN rows : rows[i].at >= now - Long}
           kept == InOrder(rows, K)
           n == Cardinality(K)
           day == [i \in DOMAIN kept |-> [kept[i] EXCEPT !.polled = now]]
<1>1. /\ rows \in Seq(Points) /\ DOMAIN rows = 1..Len(rows) /\ now \in 0..MaxTime
      /\ now \in Nat /\ Len(rows) \in Nat
  BY InsightsAssumption DEF Inv, RowsInv
<1>2. accepted = {}
  BY DEF Inv, AcceptedInv
<1>3. LastDay = day
  BY DEF LastDay
<1>4. K \in SUBSET (1..Len(rows))
  BY <1>1
<1> HIDE DEF K
<1>5. /\ n \in Nat /\ kept \in Seq(Points) /\ Len(kept) = n /\ DOMAIN kept = 1..n
      /\ \E f \in Surjection(1..n, K) : Ordering(f, rows, K)
  BY <1>1, <1>4, InOrderOrders
<1>6. PICK f : Ordering(f, rows, K)
  BY <1>5
<1>7. ASSUME NEW i \in 1..n
      PROVE  /\ f[i] \in 1..Len(rows) /\ kept[i] = rows[f[i]] /\ kept[i] \in Points
             /\ kept[i].id = f[i] /\ kept[i].at \in 0..now
  <2>1. f[i] \in K /\ kept[i] = rows[f[i]]
    BY <1>6 DEF Ordering
  <2>2. f[i] \in 1..Len(rows)
    BY <1>4, <2>1
  <2>3. kept[i] \in Points
    BY <1>1, <2>1, <2>2
  <2>4. kept[i].id = f[i] /\ kept[i].at <= now
    BY <2>1, <2>2 DEF Inv, RowsInv
  <2>5. kept[i].at \in Int /\ kept[i].at >= 0
    BY <2>3, PointFields
  <2>6. kept[i].at \in 0..now
    BY <1>1, <2>4, <2>5
  <2> QED
    BY <2>1, <2>2, <2>3, <2>4, <2>6
<1> HIDE DEF kept, n
<1>8. ASSUME NEW i \in 1..n
      PROVE  /\ day[i] \in Points /\ day[i].at = kept[i].at /\ day[i].id = kept[i].id
             /\ day[i].polled = now
  <2>1. day[i] = [kept[i] EXCEPT !.polled = now]
    BY <1>5
  <2>2. kept[i] \in Points
    BY <1>7
  <2> HIDE DEF day
  <2> QED
    BY <1>1, <2>1, <2>2 DEF Points
<1>9. day \in Seq(Points) /\ Len(day) = n
  <2>1. day = [i \in 1..n |-> day[i]]
    BY <1>5
  <2> HIDE DEF day
  <2>2. day \in [1..n -> Points]
    BY <1>8, <2>1
  <2> QED
    BY <1>5, <2>2
<1> HIDE DEF day
<1>10. ASSUME NEW i \in 1..n, NEW j \in 1..n, i # j PROVE day[i] # day[j]
  <2>1. i < j \/ j < i
    BY <1>5, <1>10
  <2>2. i \in 1..Cardinality(K) /\ j \in 1..Cardinality(K)
    BY DEF n
  <2>3. Before(rows, f[i], f[j]) \/ Before(rows, f[j], f[i])
    BY <1>6, <2>1, <2>2 DEF Ordering
  <2>4. f[i] # f[j]
    BY <1>1, <1>7, <2>3, BeforeOrders
  <2>5. day[i].id = f[i] /\ day[j].id = f[j]
    BY <1>7, <1>8
  <2> QED
    BY <2>4, <2>5
<1>11. Fresh(day, accepted, now)
  BY <1>2, <1>8, <1>9, <1>10 DEF Fresh
<1>12. ASSUME NEW i \in 1..n
       PROVE  /\ day[i].at \in 0..now /\ day[i].id \in 1..Len(rows')
              /\ rows'[day[i].id].at = day[i].at
  <2>1. day[i].at = kept[i].at /\ day[i].id = f[i] /\ kept[i] = rows[f[i]]
    BY <1>7, <1>8
  <2> QED
    BY <1>7, <2>1
<1>13. day # << >>
  BY <1>3
<1> QED
  BY <1>2, <1>3, <1>9, <1>11, <1>12, <1>13 DEF Arrives

LEMMA Rehydrates ==
    ASSUME Inv, Rehydrate PROVE Inv'
<1>1. ~up /\ up' = TRUE /\ now' = now /\ rows' = rows
  BY DEF Rehydrate
<1>2. RowsInv'
  <2>1. up' \in BOOLEAN
    BY <1>1
  <2> QED
    BY <1>1, <2>1 DEF Inv, RowsInv
<1>3. Grows
  <2>1. Len(rows) \in Nat
    BY DEF Inv, RowsInv
  <2> QED
    BY <1>1, <2>1 DEF Grows
<1>4. CASE LastDay = << >>
  <2>1. UNCHANGED engine
    BY <1>4 DEF Rehydrate
  <2> QED
    BY <1>1, <1>2, <1>3, <2>1, StaysPut
<1>5. CASE LastDay # << >>
  <2>1. ProcessFeeData(LastDay)
    BY <1>5 DEF Rehydrate
  <2>2. Arrives(LastDay)
    BY <1>1, <1>5, LastDayArrives
  <2> QED
    BY <1>1, <1>2, <1>3, <2>1, <2>2, Processes
<1> QED
  BY <1>4, <1>5

LEMMA Ticks ==
    ASSUME Inv, Tick PROVE Inv'
<1>1. /\ now < MaxTime /\ now' = now + 1 /\ up' = up /\ rows' = rows
      /\ buffer' = buffer /\ period' = period /\ spikes' = spikes
      /\ lastUpdate' = lastUpdate /\ insights' = insights /\ accepted' = accepted
  BY DEF Tick, engine
<1>2. now \in 0..MaxTime /\ now \in Nat /\ MaxTime \in Nat
  BY InsightsAssumption DEF Inv, RowsInv
<1>3. RowsInv'
  <2>1. up' \in BOOLEAN
    BY <1>1 DEF Inv, RowsInv
  <2>2. now' \in 0..MaxTime /\ now' >= now
    BY <1>1, <1>2
  <2>3. \A i \in 1..Len(rows) : rows[i].at \in Int /\ rows[i].at <= now /\ rows[i].id = i
    <3> SUFFICES ASSUME NEW i \in 1..Len(rows) PROVE rows[i].at \in Int
      BY DEF Inv, RowsInv
    <3>1. rows[i] \in Points
      BY DEF Inv, RowsInv
    <3> QED
      BY <3>1, PointFields
  <2>4. \A i \in 1..Len(rows) : rows[i].at <= now'
    BY <1>2, <2>2, <2>3
  <2> QED
    BY <1>1, <2>1, <2>2, <2>3, <2>4 DEF Inv, RowsInv
<1>4. \A p \in accepted : p.polled \in Int /\ p.at \in Int /\ p.polled <= now
  BY PointFields DEF Inv, AcceptedInv
<1>5. \A p \in accepted : p.polled <= now' /\ p.polled # now'
  BY <1>1, <1>2, <1>4
<1>6. AcceptedInv'
  BY <1>1, <1>5 DEF Inv, AcceptedInv
<1>7. ASSUME NEW w \in Windows PROVE Held(buffer[w], accepted, w, now')
  <2>1. Held(buffer[w], accepted, w, now)
    BY DEF Inv, BufferInv
  <2>2. ASSUME NEW p \in accepted, IsIn(p, w, now') PROVE IsIn(p, w, now)
    <3>1. p.at \in Int /\ Duration[w] \in Nat
      BY <1>4, IsInType
    <3> QED
      BY <1>1, <1>2, <2>2, <3>1 DEF IsIn
  <2> QED
    BY <2>1, <2>2 DEF Held
<1>8. lastUpdate \in -1..now
  BY DEF Inv, PublishedInv, None
<1>9. lastUpdate # now'
  BY <1>1, <1>2, <1>8
<1>10. BufferInv'
  BY <1>1, <1>7, <1>9 DEF Inv, BufferInv
<1>11. PeriodInv'
  <2>1. period.start \in 0..now'
    BY <1>1, <1>2 DEF Inv, PeriodInv
  <2> QED
    BY <1>1, <1>5, <2>1 DEF Inv, PeriodInv
<1>12. PublishedInv'
  <2>1. spikes' \in Seq(SpikesAt(now'))
    <3>1. 0..now \subseteq 0..now' /\ MinSpike..now \subseteq MinSpike..now'
      BY <1>1, <1>2, SpikeAssumption
    <3>2. SpikesAt(now) \subseteq SpikesAt(now')
      BY <3>1 DEF SpikesAt
    <3>3. spikes \in Seq(SpikesAt(now))
      BY DEF Inv, PublishedInv
    <3> QED
      BY <1>1, <3>2, <3>3
  <2>2. lastUpdate' \in None..now'
    BY <1>1, <1>2, <1>8 DEF None
  <2>3. UpToDate' => Shown'
    BY <1>1 DEF Inv, PublishedInv, UpToDate, Shown, RollingAverages
  <2> QED
    BY <1>1, <2>1, <2>2, <2>3 DEF Inv, PublishedInv
<1> QED
  BY <1>3, <1>6, <1>10, <1>11, <1>12 DEF Inv

LEMMA Restarts ==
    ASSUME Inv, Restart PROVE Inv'
<1>1. /\ now' = now /\ rows' = rows /\ up' = FALSE /\ buffer' = Empty
      /\ period' = NewPeriod(now) /\ spikes' = << >> /\ lastUpdate' = -1
      /\ insights'.at = -1 /\ accepted' = {}
  BY DEF Restart, None, NoInsights
<1>2. now \in Nat
  BY DEF Inv, RowsInv
<1>3. RowsInv'
  <2>1. up' \in BOOLEAN
    BY <1>1
  <2> QED
    BY <1>1, <2>1 DEF Inv, RowsInv
<1>4. AcceptedInv'
  BY <1>1, FS_EmptySet DEF AcceptedInv
<1>5. BufferInv'
  <2>1. buffer' = [w \in Windows |-> << >>]
    BY <1>1 DEF Empty
  <2>2. \A w \in Windows : Held(<< >>, {}, w, now)
    BY InsightsAssumption DEF Held, OrderedIn
  <2>3. lastUpdate' # now' /\ lastUpdate' = None
    BY <1>1, <1>2 DEF None
  <2> QED
    BY <1>1, <2>1, <2>2, <2>3 DEF BufferInv
<1>6. PeriodInv'
  <2>1. period' = [start |-> now, end |-> now + TrackingPeriod, min |-> NoPoint, max |-> NoPoint]
    BY <1>1 DEF NewPeriod
  <2>2. period' \in Extremes
    BY <1>2, <2>1, InsightsAssumption DEF Extremes
  <2>3. Bounding(period', {})
    BY <2>1 DEF Bounding
  <2>4. period'.start \in 0..now' /\ period'.end = period'.start + TrackingPeriod
    BY <1>1, <1>2, <2>1
  <2> QED
    BY <1>1, <2>2, <2>3, <2>4 DEF PeriodInv
<1>7. PublishedInv'
  <2>1. lastUpdate' \in None..now' /\ lastUpdate' = None
    BY <1>1, <1>2 DEF None
  <2> QED
    BY <1>1, <2>1 DEF PublishedInv, UpToDate
<1> QED
  BY <1>3, <1>4, <1>5, <1>6, <1>7 DEF Inv

LEMMA Inductive == Inv /\ [Next]_vars => Inv'
<1> SUFFICES ASSUME Inv, [Next]_vars PROVE Inv'
  OBVIOUS
<1>1. CASE UNCHANGED vars
  BY <1>1 DEF vars, engine, Inv, RowsInv, AcceptedInv, BufferInv, PeriodInv, PublishedInv,
              UpToDate, Shown, RollingAverages
<1> QED
  BY <1>1, Ticks, Rehydrates, Polls, Restarts DEF Next

THEOREM Invariant == Spec => []Inv
BY Initially, Inductive, PTL DEF Spec

-----------------------------------------------------------------------------
(* What the invariant says of the properties that are checked. *)

LEMMA Types == Inv => TypeOK
<1> SUFFICES ASSUME Inv PROVE TypeOK
  OBVIOUS
<1>1. now \in 0..MaxTime /\ up \in BOOLEAN
  BY DEF Inv, RowsInv
<1>2. ToSet(rows) \subseteq Points /\ accepted \subseteq Points
  BY DEF Inv, RowsInv, AcceptedInv, ToSet
<1>3. ASSUME NEW w \in Windows
      PROVE  ToSet(buffer[w]) \subseteq Points /\ Len(buffer[w]) <= BufferSize
  BY DEF Inv, BufferInv, Held, OrderedIn, ToSet
<1>4. period.start \in 0..now /\ {period.min, period.max} \subseteq Points \cup {NoPoint}
  BY DEF Inv, PeriodInv, Extremes
<1>5. ASSUME NEW i \in DOMAIN spikes
      PROVE  spikes[i].start \in 0..now /\ spikes[i].len \in MinSpike..now
  <2>1. spikes[i] \in SpikesAt(now)
    BY DEF Inv, PublishedInv
  <2> QED
    BY <2>1 DEF SpikesAt
<1>6. lastUpdate \in None..now /\ insights.at = lastUpdate
  BY DEF Inv, PublishedInv
<1> QED
  BY <1>1, <1>2, <1>3, <1>4, <1>5, <1>6 DEF TypeOK

LEMMA WindowsAreSound == Inv => WindowsSound
<1> SUFFICES ASSUME Inv PROVE WindowsSound
  OBVIOUS
<1>1. TypeOK
  BY Types
<1>2. now \in Int /\ accepted \subseteq Points /\ StaleAfter \in Nat
  BY InsightsAssumption DEF Inv, RowsInv, AcceptedInv
<1>3. ASSUME NEW w \in Windows, NEW p \in accepted, IsIn(p, w, now), p \notin ToSet(buffer[w])
      PROVE  Cardinality({q \in accepted : q.polled >= p.polled}) > BufferSize
  <2>1. Held(buffer[w], accepted, w, now)
    BY DEF Inv, BufferInv
  <2>2. p \notin {buffer[w][i] : i \in 1..Len(buffer[w])}
    BY <1>3, <2>1 DEF ToSet, Held, OrderedIn
  <2> QED
    BY <1>3, <2>1, <2>2 DEF Held, Outrun
<1>4. ASSUME NEW w \in Windows, Health = "healthy", NEW i \in DOMAIN buffer[w]
      PROVE  \/ buffer[w][i].at >= now - StaleAfter - Duration[w]
             \/ buffer[w][i].polled = Head(buffer[w]).polled
  <2> DEFINE b == buffer[w]
             old == b[1]
             p == b[i]
  <2>1. lastUpdate # None /\ ~(now - lastUpdate > StaleAfter)
    BY <1>4 DEF Health
  <2>2. lastUpdate \in -1..now
    BY DEF Inv, PublishedInv, None
  <2>3. b \in Seq(Points) /\ OrderedIn(b, accepted)
    BY DEF Inv, BufferInv, Held, OrderedIn
  <2>4. i \in 1..Len(b) /\ 1 \in 1..Len(b) /\ b # << >> /\ Head(b) = old
    BY <1>4, <2>3
  <2>5. Cleaned(b, w, lastUpdate)
    BY <2>1 DEF Inv, BufferInv
  <2>6. old.at >= lastUpdate - Duration[w]
    BY <2>4, <2>5 DEF Cleaned, IsIn
  <2>7. old \in accepted /\ p \in accepted
    BY <2>3, <2>4 DEF OrderedIn
  <2>8. /\ old.at \in Int /\ old.polled \in Int /\ p.at \in Int /\ p.polled \in Int
        /\ Duration[w] \in Nat
    BY <1>2, <2>7, PointFields, IsInType
  <2>9. old.polled <= p.polled
    <3>1. i = 1 \/ 1 < i
      BY <2>4
    <3> QED
      BY <2>3, <2>4, <2>8, <3>1 DEF OrderedIn
  <2>10. old.polled < p.polled => old.at <= p.at
    BY <2>7 DEF Inv, AcceptedInv
  <2> HIDE DEF old, p
  <2>11. p.at >= now - StaleAfter - Duration[w] \/ p.polled = old.polled
    BY <1>2, <2>1, <2>2, <2>6, <2>8, <2>9, <2>10
  <2> QED
    BY <2>4, <2>11 DEF old, p
<1> QED
  BY <1>1, <1>3, <1>4 DEF WindowsSound

(* A window lacks a point that belongs in it only if more points came with it
   or since than its buffer holds; and while health says healthy, it counts no
   point older than health allows, unless of the poll of its front. So for
   windows and buffers of any length, any batches, failures and restarts. *)
THEOREM WindowsKeep == Spec => []WindowsSound
BY Invariant, WindowsAreSound, PTL

(* The extremes bound every point of the period, and are such points, over any
   rotations, restarts and updates that failed. *)
THEOREM ExtremesKeep == Spec => []ExtremesBound
<1>1. Inv => ExtremesBound
  BY DEF Inv, PeriodInv, Bounding, ExtremesBound
<1> QED
  BY <1>1, Invariant, PTL

(* An update is published whole: unless one failed since, what is published is
   what the live state says, for either kind of endpoint. *)
THEOREM ViewsMeet == Spec => []ViewsAgree
<1>1. Inv => ViewsAgree
  <2> SUFFICES ASSUME Inv, lastUpdate # None, \A p \in accepted : p.polled <= lastUpdate
               PROVE  /\ CurrentInsights.averages = RollingAverages
                      /\ CurrentInsights.min = period.min /\ CurrentInsights.max = period.max
                      /\ CurrentInsights.spikes = CongestionTrends.spikes
                      /\ CurrentInsights.strength = CongestionTrends.strength
                      /\ FeeTrend.spikes = Len(spikes)
                      /\ FeeTrend.oneHour = Change(RollingAverages["medium"],
                                                   RollingAverages["long"])
    BY DEF ViewsAgree
  <2>1. Shown
    BY DEF Inv, PublishedInv, UpToDate
  <2>2. CurrentInsights = insights
    <3>1. insights.at # None
      BY DEF Inv, PublishedInv
    <3> QED
      BY <3>1 DEF CurrentInsights, NoInsights
  <2> QED
    BY <2>1, <2>2 DEF Shown, CongestionTrends, FeeTrend
<1> QED
  BY <1>1, Invariant, PTL

-----------------------------------------------------------------------------
(* What the detector finds: the longest runs of spiking points. *)

(* The spike o has been open since position i, with every point up to k. *)
OpenSince(o, i, k, s, base) ==
    /\ i \in RunStarts(s, base) /\ k \in i..Len(s) /\ \A j \in i..k : IsSpiking(s[j], base)
    /\ o.start = s[i].at /\ o.total = base.total /\ o.count = base.count
    /\ \E j \in i..k : o.peak = s[j].fee
    /\ \A j \in i..k : s[j].fee <= o.peak

(* What ends a run that is open at k: the next point, or the end of the data. *)
Ending(end, k, s, base) ==
    /\ end \in 1..Len(s)
    /\ (k = Len(s) /\ end = k) \/ (end = k + 1 /\ ~IsSpiking(s[end], base))

LEMMA RunIs ==
    ASSUME NEW t \in Nat, NEW s \in Seq(Points), NEW base, NEW o \in Opens(t),
           NEW i, NEW k, OpenSince(o, i, k, s, base), NEW end, Ending(end, k, s, base)
    PROVE  RunOf(i, s, base) = [o EXCEPT !.len = s[end].at - o.start]
<1> DEFINE after == {j \in DOMAIN s : j > i /\ ~IsSpiking(s[j], base)}
           last == IF after = {} THEN Len(s) ELSE Min(after) - 1
           stop == IF after = {} THEN Len(s) ELSE Min(after)
           fees == {s[j].fee : j \in i..k}
<1>1. /\ Len(s) \in Nat /\ DOMAIN s = 1..Len(s) /\ i \in 1..Len(s) /\ k \in i..Len(s)
      /\ \A j \in i..k : IsSpiking(s[j], base)
  BY DEF OpenSince, RunStarts
<1>2. last = k /\ stop = end
  <2>1. CASE k = Len(s) /\ end = k
    <3>1. after = {}
      BY <1>1, <2>1
    <3> QED
      BY <2>1, <3>1
  <2>2. CASE end = k + 1 /\ ~IsSpiking(s[end], base)
    <3>1. end \in 1..Len(s)
      BY DEF Ending
    <3>2. end \in after /\ after \subseteq Nat /\ \A j \in after : j >= end
      BY <1>1, <2>2, <3>1
    <3> HIDE DEF after
    <3>3. PICK m : m = Min(after)
      OBVIOUS
    <3>4. m \in after /\ m <= end
      BY <3>2, <3>3, LeastIsMin
    <3>5. m = end
      BY <1>1, <2>2, <3>2, <3>4
    <3>6. after # {}
      BY <3>2
    <3>7. last = m - 1 /\ stop = m
      BY <3>3, <3>6
    <3> HIDE DEF last, stop
    <3> QED
      BY <1>1, <2>2, <3>5, <3>7
  <2> QED
    BY <2>1, <2>2 DEF Ending
<1>3. o.peak = Max(fees)
  <2>1. o.peak \in fees /\ o.peak \in Nat /\ \A x \in fees : o.peak >= x
    BY DEF OpenSince, Opens
  <2>2. fees \subseteq Int
    <3> SUFFICES ASSUME NEW j \in i..k PROVE s[j].fee \in Int
      OBVIOUS
    <3>1. s[j] \in Points
      BY <1>1
    <3> QED
      BY <3>1, PointFields
  <2> HIDE DEF fees
  <2>3. PICK m : m = Max(fees)
    OBVIOUS
  <2>4. m \in fees /\ \A x \in fees : m >= x
    BY <2>1, <2>3 DEF Max
  <2>5. m = o.peak
    BY <2>1, <2>2, <2>4
  <2> QED
    BY <2>3, <2>5
<1>4. RunOf(i, s, base) = [start |-> s[i].at, len |-> s[stop].at - s[i].at,
                           peak |-> Max({s[j].fee : j \in i..last}),
                           total |-> base.total, count |-> base.count]
  BY DEF RunOf
<1> HIDE DEF after, last, stop
<1>5. RunOf(i, s, base) = [start |-> s[i].at, len |-> s[end].at - s[i].at,
                           peak |-> o.peak, total |-> base.total, count |-> base.count]
  BY <1>2, <1>3, <1>4
<1>6. o.start = s[i].at /\ o.total = base.total /\ o.count = base.count
  BY DEF OpenSince
<1>7. [o EXCEPT !.len = s[end].at - o.start]
      = [start |-> o.start, len |-> s[end].at - o.start, peak |-> o.peak,
         total |-> o.total, count |-> o.count]
  BY DEF Opens
<1> QED
  BY <1>5, <1>6, <1>7

(* The runs that have come to an end by k. *)
EndedBy(k, s, base) == {i \in RunStarts(s, base) : \E j \in i..k : ~IsSpiking(s[j], base)}

LEMMA SpikingEndsNone ==
    ASSUME NEW s \in Seq(Points), NEW base, NEW k \in 1..Len(s), IsSpiking(s[k], base)
    PROVE  EndedBy(k, s, base) = EndedBy(k - 1, s, base)
<1>1. ASSUME NEW i \in RunStarts(s, base)
      PROVE  (\E j \in i..k : ~IsSpiking(s[j], base)) <=> \E j \in i..k - 1 : ~IsSpiking(s[j], base)
  <2>1. i \in 1..Len(s)
    BY DEF RunStarts
  <2>2. \A j \in i..k : j = k \/ j \in i..k - 1
    BY <2>1
  <2>3. \A j \in i..k - 1 : j \in i..k
    BY <2>1
  <2> QED
    BY <2>2, <2>3
<1> QED
  BY <1>1 DEF EndedBy

(* The run that is open at k is the only one that has not ended. *)
LEMMA OneIsOpen ==
    ASSUME NEW s \in Seq(Points), NEW base, NEW o, NEW i, NEW k, OpenSince(o, i, k, s, base),
           NEW r \in RunStarts(s, base), r <= k, \A j \in r..k : IsSpiking(s[j], base)
    PROVE  r = i
<1>1. i \in 1..Len(s) /\ k \in i..Len(s) /\ r \in 1..Len(s) /\ Len(s) \in Nat
  BY DEF OpenSince, RunStarts
<1>2. CASE r < i
  <2>1. i - 1 \in r..k /\ i # 1
    BY <1>1, <1>2
  <2>2. ~IsSpiking(s[i - 1], base)
    BY <2>1 DEF OpenSince, RunStarts
  <2> QED
    BY <2>1, <2>2
<1>3. CASE i < r
  <2>1. r - 1 \in i..k /\ r # 1
    BY <1>1, <1>3
  <2>2. ~IsSpiking(s[r - 1], base)
    BY <2>1 DEF RunStarts
  <2> QED
    BY <2>1, <2>2 DEF OpenSince
<1> QED
  BY <1>1, <1>2, <1>3

LEMMA EndsTheOpen ==
    ASSUME NEW s \in Seq(Points), NEW base, NEW k \in 1..Len(s), ~IsSpiking(s[k], base),
           NEW o, NEW i, OpenSince(o, i, k - 1, s, base)
    PROVE  EndedBy(k, s, base) = EndedBy(k - 1, s, base) \cup {i}
<1>1. i \in RunStarts(s, base) /\ i \in 1..Len(s) /\ k - 1 \in i..Len(s) /\ k \in i..k
  BY DEF OpenSince, RunStarts
<1>2. i \in EndedBy(k, s, base)
  BY <1>1 DEF EndedBy
<1>3. ASSUME NEW r \in EndedBy(k - 1, s, base) PROVE r \in EndedBy(k, s, base)
  <2>1. r \in RunStarts(s, base) /\ r \in 1..Len(s) /\ \E j \in r..k - 1 : ~IsSpiking(s[j], base)
    BY DEF EndedBy, RunStarts
  <2>2. \A j \in r..k - 1 : j \in r..k
    BY <2>1
  <2> QED
    BY <2>1, <2>2 DEF EndedBy
<1>4. ASSUME NEW r \in EndedBy(k, s, base), r \notin EndedBy(k - 1, s, base) PROVE r = i
  <2>1. r \in RunStarts(s, base) /\ r \in 1..Len(s) /\ \E j \in r..k : ~IsSpiking(s[j], base)
    BY DEF EndedBy, RunStarts
  <2>2. \A j \in r..k - 1 : IsSpiking(s[j], base)
    BY <1>4, <2>1 DEF EndedBy
  <2>3. r # k
    BY <2>1 DEF RunStarts
  <2>4. r <= k - 1
    BY <2>1, <2>3
  <2> QED
    BY <2>1, <2>2, <2>4, OneIsOpen
<1> QED
  BY <1>2, <1>3, <1>4

LEMMA NoneIsOpen ==
    ASSUME NEW s \in Seq(Points), NEW base, NEW k \in 1..Len(s), ~IsSpiking(s[k], base),
           k = 1 \/ ~IsSpiking(s[k - 1], base)
    PROVE  EndedBy(k, s, base) = EndedBy(k - 1, s, base)
<1>1. ASSUME NEW r \in EndedBy(k - 1, s, base) PROVE r \in EndedBy(k, s, base)
  <2>1. r \in RunStarts(s, base) /\ r \in 1..Len(s) /\ \E j \in r..k - 1 : ~IsSpiking(s[j], base)
    BY DEF EndedBy, RunStarts
  <2>2. \A j \in r..k - 1 : j \in r..k
    BY <2>1
  <2> QED
    BY <2>1, <2>2 DEF EndedBy
<1>2. ASSUME NEW r \in EndedBy(k, s, base) PROVE r \in EndedBy(k - 1, s, base)
  <2>1. r \in RunStarts(s, base) /\ r \in 1..Len(s) /\ \E j \in r..k : ~IsSpiking(s[j], base)
    BY DEF EndedBy, RunStarts
  <2>2. r # k
    BY <2>1 DEF RunStarts
  <2>3. k # 1 /\ k - 1 \in r..k - 1
    BY <2>1, <2>2
  <2> QED
    BY <2>1, <2>3 DEF EndedBy
<1> QED
  BY <1>1, <1>2

(* At the end of the data every run has ended but the open one. *)
LEMMA AllHaveEnded ==
    ASSUME NEW s \in Seq(Points), s # << >>, NEW base
    PROVE  /\ ~IsSpiking(s[Len(s)], base) => RunStarts(s, base) = EndedBy(Len(s), s, base)
           /\ \A o, i : OpenSince(o, i, Len(s), s, base) =>
                 RunStarts(s, base) = EndedBy(Len(s), s, base) \cup {i}
<1> DEFINE n == Len(s)
<1>1. n \in Nat /\ n >= 1 /\ \A r \in RunStarts(s, base) : r \in 1..n /\ r <= n /\ n \in r..n
  BY DEF RunStarts
<1>2. \A r \in RunStarts(s, base) :
         r \in EndedBy(n, s, base) \/ \A j \in r..n : IsSpiking(s[j], base)
  BY DEF EndedBy
<1>3. EndedBy(n, s, base) \subseteq RunStarts(s, base)
  BY DEF EndedBy
<1>4. ASSUME NEW o, NEW i, OpenSince(o, i, n, s, base)
      PROVE  RunStarts(s, base) = EndedBy(n, s, base) \cup {i}
  <2>1. i \in RunStarts(s, base)
    BY <1>4 DEF OpenSince
  <2>2. ASSUME NEW r \in RunStarts(s, base), r \notin EndedBy(n, s, base) PROVE r = i
    BY <1>1, <1>2, <1>4, <2>2, OneIsOpen
  <2> QED
    BY <1>3, <2>1, <2>2
<1>5. ASSUME ~IsSpiking(s[n], base) PROVE RunStarts(s, base) = EndedBy(n, s, base)
  BY <1>1, <1>2, <1>3, <1>5
<1> QED
  BY <1>4, <1>5

(* Spikes that follow each other, and that lie within a span of time. *)
Ascending(q) == \A i, j \in 1..Len(q) : i < j => q[i].start + q[i].len <= q[j].start
Spanned(q, a, b) == \A i \in 1..Len(q) : a <= q[i].start /\ q[i].start + q[i].len <= b

LEMMA AppendAscends ==
    ASSUME NEW t, NEW q \in Seq(SpikesAt(t)), NEW x \in SpikesAt(t),
           Ascending(q), \A i \in 1..Len(q) : q[i].start + q[i].len <= x.start
    PROVE  Ascending(Append(q, x)) /\ ToSet(Append(q, x)) = ToSet(q) \cup {x}
<1>1. /\ Append(q, x) \in Seq(SpikesAt(t)) /\ Len(Append(q, x)) = Len(q) + 1 /\ Len(q) \in Nat
      /\ Append(q, x)[Len(q) + 1] = x /\ \A i \in 1..Len(q) : Append(q, x)[i] = q[i]
  OBVIOUS
<1> DEFINE p == Append(q, x)
<1> HIDE DEF p
<1>2. ASSUME NEW i \in 1..Len(p), NEW j \in 1..Len(p), i < j
      PROVE  p[i].start + p[i].len <= p[j].start
  <2>1. i \in 1..Len(q) /\ p[i] = q[i]
    BY <1>1, <1>2 DEF p
  <2>2. CASE j = Len(q) + 1
    BY <1>1, <2>1, <2>2 DEF p
  <2>3. CASE j # Len(q) + 1
    <3>1. j \in 1..Len(q) /\ p[j] = q[j]
      BY <1>1, <1>2, <2>3 DEF p
    <3> QED
      BY <1>2, <2>1, <3>1 DEF Ascending
  <2> QED
    BY <2>2, <2>3
<1>3. DOMAIN p = 1..Len(p) /\ DOMAIN q = 1..Len(q) /\ Len(p) = Len(q) + 1
  BY <1>1 DEF p
<1>4. ToSet(p) = {p[i] : i \in 1..Len(p)} /\ ToSet(q) = {q[i] : i \in 1..Len(q)}
  BY <1>3 DEF ToSet
<1>5. \A i \in 1..Len(q) : i \in 1..Len(p) /\ p[i] = q[i]
  BY <1>1, <1>3 DEF p
<1>6. \A i \in 1..Len(p) : i \in 1..Len(q) \/ p[i] = x
  BY <1>1, <1>3 DEF p
<1>7. Len(p) \in 1..Len(p) /\ p[Len(p)] = x
  BY <1>1, <1>3 DEF p
<1>8. ToSet(p) = ToSet(q) \cup {x}
  BY <1>4, <1>5, <1>6, <1>7
<1> QED
  BY <1>2, <1>8 DEF p, Ascending

(* The runs that begin at positions of I and lasted. *)
Lasting(I, s, base) == {r \in {RunOf(i, s, base) : i \in I} : r.len >= MinSpike}

(* What is found of the runs that begin at positions of I, all before u. *)
Finds(found, I, u, s, base) ==
    Ascending(found) /\ Spanned(found, s[1].at, u) /\ ToSet(found) = Lasting(I, s, base)

LEMMA Closes ==
    ASSUME NEW t \in Nat, NEW s \in Seq(Points), Timely(s), \A i \in 1..Len(s) : s[i].at \in 0..t,
           NEW base, NEW o \in Opens(t), NEW i, NEW k, OpenSince(o, i, k, s, base),
           NEW end, Ending(end, k, s, base), NEW I,
           NEW found \in Seq(SpikesAt(t)), Finds(found, I, o.start, s, base)
    PROVE  Finds(Closed(found, o, s[end]), I \cup {i}, s[end].at, s, base)
<1>0. Ascending(found) /\ Spanned(found, s[1].at, o.start) /\ ToSet(found) = Lasting(I, s, base)
  BY DEF Finds
<1> DEFINE run == RunOf(i, s, base)
<1>1. run = [o EXCEPT !.len = s[end].at - o.start]
  BY RunIs
<1>2. /\ run.start = o.start /\ run.len = s[end].at - o.start /\ o.start = s[i].at
      /\ i \in 1..Len(s) /\ end \in 1..Len(s) /\ i <= end /\ 1 \in 1..Len(s)
  <2>1. run.start = o.start /\ run.len = s[end].at - o.start
    BY <1>1 DEF Opens
  <2>2. i \in 1..Len(s) /\ k \in i..Len(s) /\ o.start = s[i].at
    BY DEF OpenSince, RunStarts
  <2> QED
    BY <2>1, <2>2 DEF Ending
<1>3. s[1].at <= s[i].at /\ s[i].at <= s[end].at /\ s[i].at \in Int /\ s[end].at \in Int /\ s[1].at \in Int
  <2>1. s[1].at <= s[i].at /\ s[i].at <= s[end].at
    BY <1>2 DEF Timely
  <2> QED
    BY <1>2, <2>1
<1>4. Closed(found, o, s[end]) = IF run.len >= MinSpike THEN Append(found, run) ELSE found
  BY <1>1 DEF Closed
<1>5. Lasting(I \cup {i}, s, base)
      = IF run.len >= MinSpike THEN ToSet(found) \cup {run} ELSE ToSet(found)
  BY <1>0 DEF Lasting
<1> HIDE DEF run
<1>6. Spanned(found, s[1].at, s[end].at)
  <2> SUFFICES ASSUME NEW j \in 1..Len(found) PROVE found[j].start + found[j].len <= s[end].at
    BY <1>0 DEF Spanned
  <2>1. found[j] \in SpikesAt(t) /\ found[j].start + found[j].len <= s[i].at
    BY <1>0, <1>2 DEF Spanned
  <2>2. ASSUME NEW x \in SpikesAt(t) PROVE x.start \in Int /\ x.len \in Int
    BY DEF SpikesAt
  <2>3. found[j].start \in Int /\ found[j].len \in Int
    BY <2>1, <2>2
  <2> QED
    BY <1>3, <2>1, <2>3
<1>7. CASE run.len >= MinSpike
  <2>1. run \in SpikesAt(t)
    <3>1. s[end] \in PointsAt(t)
      BY <1>2 DEF PointsAt
    <3>2. Closed(found, o, s[end]) \in Seq(SpikesAt(t))
      BY <3>1, ClosedType
    <3>3. Append(found, run) \in Seq(SpikesAt(t))
      BY <1>4, <1>7, <3>2
    <3>4. Append(found, run)[Len(found) + 1] = run /\ Len(found) + 1 \in 1..Len(Append(found, run))
      OBVIOUS
    <3> QED
      BY <3>3, <3>4
  <2>2. Ascending(Append(found, run)) /\ ToSet(Append(found, run)) = ToSet(found) \cup {run}
    <3>1. \A j \in 1..Len(found) : found[j].start + found[j].len <= run.start
      BY <1>0, <1>2 DEF Spanned
    <3> QED
      BY <1>0, <2>1, <3>1, AppendAscends
  <2>3. Spanned(Append(found, run), s[1].at, s[end].at)
    <3> SUFFICES ASSUME NEW j \in 1..Len(Append(found, run))
                 PROVE  /\ s[1].at <= Append(found, run)[j].start
                        /\ Append(found, run)[j].start + Append(found, run)[j].len <= s[end].at
      BY DEF Spanned
    <3>1. CASE j \in 1..Len(found)
      <4>1. Append(found, run)[j] = found[j]
        BY <2>1, <3>1
      <4> QED
        BY <1>6, <3>1, <4>1 DEF Spanned
    <3>2. CASE j \notin 1..Len(found)
      <4>1. Append(found, run)[j] = run
        BY <2>1, <3>2
      <4> QED
        BY <1>2, <1>3, <4>1
    <3> QED
      BY <3>1, <3>2
  <2> QED
    BY <1>4, <1>5, <1>7, <2>2, <2>3 DEF Finds
<1>8. CASE ~(run.len >= MinSpike)
  BY <1>0, <1>4, <1>5, <1>6, <1>8 DEF Finds
<1> QED
  BY <1>7, <1>8

(* What the scan has found after k points of s. *)
ScanSound(acc, k, s, base) ==
    /\ IF acc.open = NoSpikeYet
       THEN /\ k = 0 \/ ~IsSpiking(s[k], base)
            /\ IF k = 0 THEN acc.found = << >> ELSE Spanned(acc.found, s[1].at, s[k].at)
       ELSE /\ \E i : OpenSince(acc.open, i, k, s, base)
            /\ Spanned(acc.found, s[1].at, acc.open.start)
    /\ Ascending(acc.found)
    /\ ToSet(acc.found) = Lasting(EndedBy(k, s, base), s, base)

LEMMA ScanFinds ==
    ASSUME NEW t \in Nat, NEW s \in Seq(Points), Timely(s), \A i \in 1..Len(s) : s[i].at \in 0..t,
           NEW base \in Bases, NEW k \in 1..Len(s), NEW acc \in Scans(t), ScanSound(acc, k - 1, s, base)
    PROVE  ScanSound(Scan(acc, s[k], base), k, s, base)
<1> DEFINE p == s[k]
           next == Scan(acc, p, base)
<1>1. /\ acc.open \in Opens(t) \cup {NoSpikeYet} /\ acc.found \in Seq(SpikesAt(t))
      /\ p \in Points /\ p.at \in 0..t /\ p.fee \in Nat
  BY PointFields DEF Scans
<1>2. k # 1 => k - 1 \in 1..Len(s) /\ s[k - 1].at <= p.at
  BY DEF Timely
<1>3. Ascending(acc.found) /\ ToSet(acc.found) = Lasting(EndedBy(k - 1, s, base), s, base)
  BY DEF ScanSound
<1>4. CASE acc.open = NoSpikeYet
  <2>1. /\ k = 1 \/ ~IsSpiking(s[k - 1], base)
        /\ k = 1 => acc.found = << >>
        /\ k # 1 => Spanned(acc.found, s[1].at, s[k - 1].at)
    BY <1>4 DEF ScanSound
  <2>2. Spanned(acc.found, s[1].at, p.at)
    <3>1. CASE k = 1
      BY <2>1, <3>1 DEF Spanned
    <3>2. CASE k # 1
      <4>1. s[k - 1].at \in Int /\ p.at \in Int /\ s[k - 1].at <= p.at
        BY <1>1, <1>2, <3>2
      <4>2. ASSUME NEW j \in 1..Len(acc.found)
            PROVE  acc.found[j].start + acc.found[j].len \in Int
        <5>1. acc.found[j] \in SpikesAt(t)
          BY <1>1
        <5>2. ASSUME NEW x \in SpikesAt(t) PROVE x.start + x.len \in Int
          BY SpikeAssumption DEF SpikesAt
        <5> QED
          BY <5>1, <5>2
      <4> QED
        BY <2>1, <3>2, <4>1, <4>2 DEF Spanned
    <3> QED
      BY <3>1, <3>2
  <2>3. CASE IsSpiking(p, base)
    <3>1. next = [acc EXCEPT !.open = Opened(p, base)]
      BY <1>4, <2>3 DEF Scan
    <3>2. next.open = Opened(p, base) /\ next.found = acc.found
      BY <3>1 DEF Scans
    <3>3. OpenSince(Opened(p, base), k, k, s, base)
      <4>1. k \in RunStarts(s, base)
        BY <2>1, <2>3 DEF RunStarts
      <4> QED
        BY <1>1, <2>3, <4>1 DEF OpenSince, Opened
    <3>4. Opened(p, base).start = p.at /\ Opened(p, base) # NoSpikeYet
      BY <1>1 DEF Opened, NoSpikeYet
    <3>5. EndedBy(k, s, base) = EndedBy(k - 1, s, base)
      BY <2>3, SpikingEndsNone
    <3> HIDE DEF next
    <3> QED
      BY <1>3, <2>2, <3>2, <3>3, <3>4, <3>5 DEF ScanSound, next
  <2>4. CASE ~IsSpiking(p, base)
    <3>1. next = acc
      BY <1>4, <2>4 DEF Scan
    <3>2. EndedBy(k, s, base) = EndedBy(k - 1, s, base)
      BY <2>1, <2>4, NoneIsOpen
    <3>3. k # 0
      OBVIOUS
    <3> HIDE DEF next
    <3> QED
      BY <1>3, <1>4, <2>2, <2>4, <3>1, <3>2, <3>3 DEF ScanSound, next
  <2> QED
    BY <2>3, <2>4
<1>5. CASE acc.open # NoSpikeYet
  <2> DEFINE o == acc.open
  <2>1. o \in Opens(t) /\ Spanned(acc.found, s[1].at, o.start)
    BY <1>1, <1>5 DEF ScanSound
  <2>2. PICK i : OpenSince(o, i, k - 1, s, base)
    BY <1>5 DEF ScanSound
  <2>3. i \in 1..Len(s) /\ k - 1 \in i..Len(s) /\ i \in RunStarts(s, base)
    BY <2>2 DEF OpenSince, RunStarts
  <2>4. CASE IsSpiking(p, base)
    <3> DEFINE longer == Longer(o, p)
    <3>1. next = [acc EXCEPT !.open = longer]
      <4>1. next = [acc EXCEPT !.open = Longer(@, p)]
        BY <1>5, <2>4 DEF Scan
      <4> QED
        BY <4>1
    <3>2. next.open = longer /\ next.found = acc.found
      <4> HIDE DEF longer, next
      <4> QED
        BY <3>1 DEF Scans
    <3>3. /\ longer.start = o.start /\ longer.total = o.total /\ longer.count = o.count
          /\ longer.peak = IF p.fee > o.peak THEN p.fee ELSE o.peak
      <4> HIDE DEF o
      <4> QED
        BY <2>1 DEF Opens, Longer
    <3>4. o.start >= 0 /\ o.start \in Int /\ o.peak \in Nat
      <4> HIDE DEF o
      <4> QED
        BY <2>1 DEF Opens
    <3>5. longer # NoSpikeYet
      <4> HIDE DEF o, longer
      <4>1. NoSpikeYet.start = -1
        BY DEF NoSpikeYet
      <4> QED
        BY <3>3, <3>4, <4>1
    <3> HIDE DEF o, longer, next
    <3>6. OpenSince(longer, i, k, s, base)
      <4>1. /\ \A j \in i..k - 1 : IsSpiking(s[j], base) /\ s[j].fee <= o.peak
            /\ \E j \in i..k - 1 : o.peak = s[j].fee
            /\ o.start = s[i].at /\ o.total = base.total /\ o.count = base.count
        BY <2>2 DEF OpenSince
      <4>2. \A j \in i..k : j = k \/ j \in i..k - 1
        BY <2>3
      <4>3. k \in i..k /\ k \in i..Len(s) /\ \A j \in i..k - 1 : j \in i..k
        BY <2>3
      <4>4. \A j \in i..k : IsSpiking(s[j], base)
        BY <2>4, <4>1, <4>2
      <4>5. \A j \in i..k : s[j].fee \in Int
        BY <2>3, PointFields
      <4>6. \A j \in i..k : s[j].fee <= longer.peak
        <5> SUFFICES ASSUME NEW j \in i..k PROVE s[j].fee <= longer.peak
          OBVIOUS
        <5>1. CASE j = k
          BY <1>1, <3>3, <3>4, <5>1
        <5>2. CASE j # k
          <6>1. s[j].fee <= o.peak /\ s[j].fee \in Int
            BY <4>1, <4>2, <4>5, <5>2
          <6> QED
            BY <1>1, <3>3, <3>4, <6>1
        <5> QED
          BY <5>1, <5>2
      <4>7. \E j \in i..k : longer.peak = s[j].fee
        BY <3>3, <4>1, <4>3
      <4> QED
        BY <2>3, <3>3, <4>1, <4>3, <4>4, <4>6, <4>7 DEF OpenSince
    <3>7. EndedBy(k, s, base) = EndedBy(k - 1, s, base)
      BY <2>4, SpikingEndsNone
    <3> QED
      BY <1>3, <2>1, <3>2, <3>3, <3>5, <3>6, <3>7 DEF ScanSound, next
  <2>5. CASE ~IsSpiking(p, base)
    <3> DEFINE c == Closed(acc.found, o, p)
    <3>1. next = [open |-> NoSpikeYet, found |-> c]
      BY <1>5, <2>5 DEF Scan
    <3>2. Ending(k, k - 1, s, base)
      BY <2>5 DEF Ending
    <3>3. EndedBy(k, s, base) = EndedBy(k - 1, s, base) \cup {i}
      BY <2>2, <2>5, EndsTheOpen
    <3>4. /\ Ascending(c) /\ Spanned(c, s[1].at, s[k].at)
          /\ ToSet(c) = Lasting(EndedBy(k - 1, s, base) \cup {i}, s, base)
      <4> HIDE DEF o
      <4>1. PICK h, I, found : h = k - 1 /\ I = EndedBy(k - 1, s, base) /\ found = acc.found
        OBVIOUS
      <4>2. /\ found \in Seq(SpikesAt(t)) /\ o \in Opens(t) /\ Finds(found, I, o.start, s, base)
            /\ OpenSince(o, i, h, s, base) /\ Ending(k, h, s, base)
        BY <1>1, <1>3, <2>1, <2>2, <3>2, <4>1 DEF Finds
      <4>3. Finds(Closed(found, o, s[k]), I \cup {i}, s[k].at, s, base)
        BY <4>2, Closes
      <4> QED
        BY <4>1, <4>3 DEF Finds
    <3>5. k # 0
      OBVIOUS
    <3> HIDE DEF c, next
    <3> QED
      BY <2>5, <3>1, <3>3, <3>4, <3>5 DEF ScanSound, next
  <2> QED
    BY <2>4, <2>5
<1> QED
  BY <1>4, <1>5

LEMMA DetectedFinds ==
    ASSUME NEW t \in Nat, NEW s \in Seq(Points), s # << >>, Timely(s),
           \A i \in 1..Len(s) : s[i].at \in 0..t, NEW base \in Bases
    PROVE  Finds(Detected(s, base), RunStarts(s, base), s[Len(s)].at, s, base)
<1> DEFINE n == Len(s)
<1>1. PICK f \in [0..n -> Scans(t)] :
         /\ Scanning(f, s, base)
         /\ Detected(s, base) = IF f[n].open = NoSpikeYet THEN f[n].found
                                ELSE Closed(f[n].found, f[n].open, s[n])
  BY ScanFolds
<1>2. n \in Nat /\ n \in 1..n /\ n # 0
  OBVIOUS
<1> HIDE DEF n
<1> DEFINE T == {k \in 0..n : ScanSound(f[k], k, s, base)}
<1>3. 0 \in T
  <2>1. f[0] = [open |-> NoSpikeYet, found |-> << >>]
    BY <1>1 DEF Scanning
  <2>2. Ascending(<< >>)
    BY DEF Ascending
  <2>3. ToSet(<< >>) = Lasting(EndedBy(0, s, base), s, base)
    <3>1. EndedBy(0, s, base) = {}
      <4>1. \A i \in RunStarts(s, base) : i \in 1..Len(s)
        BY DEF RunStarts
      <4> QED
        BY <4>1 DEF EndedBy
    <3>2. Lasting({}, s, base) = {}
      BY DEF Lasting
    <3>3. ToSet(<< >>) = {}
      BY DEF ToSet
    <3> QED
      BY <3>1, <3>2, <3>3
  <2>4. ScanSound([open |-> NoSpikeYet, found |-> << >>], 0, s, base)
    BY <2>2, <2>3 DEF ScanSound
  <2> QED
    BY <1>2, <2>1, <2>4
<1>4. ASSUME NEW k \in 1..n, k - 1 \in T PROVE k \in T
  <2>1. ScanSound(f[k - 1], k - 1, s, base) /\ f[k - 1] \in Scans(t)
    BY <1>2, <1>4
  <2>2. f[k] = Scan(f[k - 1], s[k], base)
    BY <1>1 DEF Scanning, n
  <2>3. ScanSound(Scan(f[k - 1], s[k], base), k, s, base)
    BY <2>1, ScanFinds DEF n
  <2> QED
    BY <1>2, <2>2, <2>3
<1>5. 0..n \subseteq T
  <2> HIDE DEF T
  <2> QED
    BY <1>2, <1>3, <1>4, Reaches
<1>6. PICK end \in Scans(t) : end = f[n] /\ ScanSound(end, n, s, base)
  BY <1>2, <1>5
<1>7. /\ Ascending(end.found) /\ ToSet(end.found) = Lasting(EndedBy(n, s, base), s, base)
      /\ end.found \in Seq(SpikesAt(t)) /\ end.open \in Opens(t) \cup {NoSpikeYet}
  BY <1>6 DEF ScanSound, Scans
<1>8. CASE end.open = NoSpikeYet
  <2>1. ~IsSpiking(s[n], base) /\ Spanned(end.found, s[1].at, s[n].at)
    BY <1>2, <1>6, <1>8 DEF ScanSound
  <2>2. RunStarts(s, base) = EndedBy(n, s, base)
    BY <2>1, AllHaveEnded DEF n
  <2> QED
    BY <1>1, <1>6, <1>7, <1>8, <2>1, <2>2 DEF Finds, n
<1>9. CASE end.open # NoSpikeYet
  <2> DEFINE o == end.open
             I == EndedBy(n, s, base)
  <2>1. o \in Opens(t) /\ Spanned(end.found, s[1].at, o.start)
    BY <1>6, <1>7, <1>9 DEF ScanSound
  <2>2. PICK i : OpenSince(o, i, n, s, base)
    BY <1>6, <1>9 DEF ScanSound
  <2>3. RunStarts(s, base) = I \cup {i}
    BY <2>2, AllHaveEnded DEF n
  <2>4. Ending(n, n, s, base)
    BY <1>2 DEF Ending, n
  <2>5. Finds(end.found, I, o.start, s, base)
    BY <1>7, <2>1 DEF Finds
  <2> HIDE DEF o, I
  <2>6. Finds(Closed(end.found, o, s[n]), I \cup {i}, s[n].at, s, base)
    BY <1>7, <2>1, <2>2, <2>4, <2>5, Closes
  <2> QED
    BY <1>1, <1>6, <1>9, <2>3, <2>6 DEF o, n
<1> QED
  BY <1>8, <1>9

-----------------------------------------------------------------------------
(* What is kept of the spikes. *)

Recent(x, t) == x.start >= t - CongestionWindow

LEMMA SpikeFields ==
    ASSUME NEW t, NEW x \in SpikesAt(t)
    PROVE  x.start \in Int /\ x.len \in Int /\ x.len >= 0 /\ x.start <= x.start + x.len
BY SpikeAssumption DEF SpikesAt

LEMMA ElementsIn ==
    ASSUME NEW S, NEW q \in Seq(S)
    PROVE  /\ ToSet(q) = {q[i] : i \in 1..Len(q)} /\ ToSet(q) \subseteq S
           /\ \A i \in 1..Len(q) : q[i] \in S
BY DEF ToSet

LEMMA CleanSpikesKeeps ==
    ASSUME NEW u, NEW q \in Seq(SpikesAt(u)), Ascending(q), NEW t \in Int
    PROVE  /\ Ascending(CleanSpikes(q, t))
           /\ ToSet(CleanSpikes(q, t)) = {x \in ToSet(q) : Recent(x, t)}
<1> DEFINE T == {i \in 1..Len(q) : q[i].start >= t - CongestionWindow}
<1>1. CleanSpikes(q, t) = IF (IF T # {} THEN Min(T) ELSE 0) = 0 THEN << >>
                          ELSE SubSeq(q, IF T # {} THEN Min(T) ELSE 0, Len(q))
  BY DEF CleanSpikes, SelectInSeq
<1>2. T = {i \in 1..Len(q) : Recent(q[i], t)} /\ T \subseteq Nat /\ T \subseteq 1..Len(q)
  BY DEF Recent
<1>3. ToSet(q) = {q[i] : i \in 1..Len(q)}
  BY ElementsIn
<1> HIDE DEF T
<1>4. CASE T = {}
  <2>1. CleanSpikes(q, t) = << >>
    BY <1>1, <1>4
  <2>2. Ascending(<< >>) /\ ToSet(<< >>) = {}
    BY DEF Ascending, ToSet
  <2>3. {x \in ToSet(q) : Recent(x, t)} = {}
    BY <1>2, <1>3, <1>4
  <2> QED
    BY <2>1, <2>2, <2>3
<1>5. CASE T # {}
  <2>1. PICK m : m = Min(T)
    OBVIOUS
  <2>2. m \in T /\ m \in 1..Len(q) /\ Len(q) \in Nat /\ \A i \in T : m <= i
    <3>1. m \in T /\ \A i \in T : m <= i
      BY <1>2, <1>5, <2>1, LeastIsMin
    <3> QED
      BY <1>2, <3>1
  <2>3. CleanSpikes(q, t) = SubSeq(q, m, Len(q))
    <3>1. (IF T # {} THEN Min(T) ELSE 0) = m /\ m # 0
      BY <1>5, <2>1, <2>2
    <3> QED
      BY <1>1, <3>1
  <2> DEFINE c == SubSeq(q, m, Len(q))
  <2>4. /\ c \in Seq(SpikesAt(u)) /\ Len(c) = Len(q) - m + 1
        /\ \A i \in 1..Len(c) : c[i] = q[m + i - 1] /\ m + i - 1 \in m..Len(q)
    BY <2>2
  <2>5. ToSet(c) = {c[i] : i \in 1..Len(c)}
    <3> HIDE DEF c
    <3> QED
      BY <2>4, ElementsIn
  <2> HIDE DEF c
  <2>6. Ascending(c)
    <3> SUFFICES ASSUME NEW i \in 1..Len(c), NEW j \in 1..Len(c), i < j
                 PROVE  c[i].start + c[i].len <= c[j].start
      BY DEF Ascending
    <3>1. m + i - 1 \in 1..Len(q) /\ m + j - 1 \in 1..Len(q) /\ m + i - 1 < m + j - 1
      BY <2>2, <2>4
    <3>2. c[i] = q[m + i - 1] /\ c[j] = q[m + j - 1]
      BY <2>4
    <3> QED
      BY <3>1, <3>2 DEF Ascending
  <2>7. ASSUME NEW i \in 1..Len(q), i >= m PROVE Recent(q[i], t) /\ q[i] \in ToSet(c)
    <3>1. i - m + 1 \in 1..Len(c) /\ m + (i - m + 1) - 1 = i
      BY <2>2, <2>4, <2>7
    <3>2. c[i - m + 1] = q[i]
      BY <2>4, <3>1
    <3>3. q[m].start <= q[i].start
      <4>1. q[m] \in SpikesAt(u) /\ q[i] \in SpikesAt(u)
        BY <2>2
      <4>2. q[m].start \in Int /\ q[m].start <= q[m].start + q[m].len
        BY <4>1, SpikeFields
      <4>3. q[i].start \in Int /\ q[m].len \in Int
        BY <4>1, SpikeFields
      <4>4. CASE i = m
        BY <4>2, <4>4
      <4>5. CASE i # m
        <5>1. q[m].start + q[m].len <= q[i].start
          BY <2>2, <2>7, <4>5 DEF Ascending
        <5> QED
          BY <4>2, <4>3, <5>1
      <4> QED
        BY <4>4, <4>5
    <3>4. q[m].start \in Int /\ q[i].start \in Int
      <4>1. q[m] \in SpikesAt(u) /\ q[i] \in SpikesAt(u)
        BY <2>2
      <4> QED
        BY <4>1, SpikeFields
    <3>5. Recent(q[m], t)
      BY <1>2, <2>2
    <3>6. Recent(q[i], t)
      BY <3>3, <3>4, <3>5, InsightsAssumption DEF Recent
    <3> QED
      BY <2>5, <3>1, <3>2, <3>6
  <2>8. \A i \in 1..Len(q) : Recent(q[i], t) => i >= m
    BY <1>2, <2>2
  <2>9. \A i \in 1..Len(c) : \E j \in 1..Len(q) : j >= m /\ c[i] = q[j]
    <3> TAKE i \in 1..Len(c)
    <3>1. c[i] = q[m + i - 1] /\ m + i - 1 \in 1..Len(q) /\ m + i - 1 >= m
      BY <2>2, <2>4
    <3> QED
      BY <3>1
  <2>10. ToSet(c) = {x \in ToSet(q) : Recent(x, t)}
    BY <1>3, <2>5, <2>7, <2>8, <2>9
  <2> QED
    BY <2>3, <2>6, <2>10 DEF c
<1> QED
  BY <1>4, <1>5

(* What was kept of the old spikes and of the first k new ones. *)
AddSound(q, k, ss, new, t) ==
    LET all == ToSet(ss) \cup {new[j] : j \in 1..k}
    IN  /\ Ascending(q) /\ ToSet(q) \subseteq all
        /\ {x \in ToSet(q) : Recent(x, t)} = {x \in all : Recent(x, t)}

LEMMA WithSpikesKeeps ==
    ASSUME NEW t \in Nat, NEW ss \in Seq(SpikesAt(t)), NEW new \in Seq(SpikesAt(t)),
           Ascending(ss), Ascending(new),
           \A i \in 1..Len(ss), j \in 1..Len(new) : ss[i].start + ss[i].len <= new[j].start
    PROVE  /\ Ascending(WithSpikes(ss, new, t))
           /\ ToSet(WithSpikes(ss, new, t)) = {x \in ToSet(ss) \cup ToSet(new) : Recent(x, t)}
<1> DEFINE n == Len(new)
           S == SpikesAt(t)
           added(k) == {new[j] : j \in 1..k}
<1>1. PICK f \in [0..n -> Seq(S)] :
         Adding(f, ss, new, t) /\ WithSpikes(ss, new, t) = CleanSpikes(f[n], t)
  BY WithSpikesFolds
<1>2. n \in Nat /\ ToSet(ss) = {ss[i] : i \in 1..Len(ss)} /\ ToSet(new) = added(n)
  BY ElementsIn
<1> DEFINE T == {k \in 0..n : AddSound(f[k], k, ss, new, t)}
<1>3. 0 \in T
  <2>1. f[0] = ss /\ added(0) = {}
    BY <1>1 DEF Adding
  <2>2. AddSound(ss, 0, ss, new, t)
    <3> HIDE DEF n
    <3> QED
      BY <2>1 DEF AddSound
  <2> QED
    BY <1>2, <2>1, <2>2
<1>4. ASSUME NEW k \in 1..n, k - 1 \in T PROVE k \in T
  <2> DEFINE q == f[k - 1]
             y == new[k]
             p == Append(q, y)
             old == ToSet(ss) \cup added(k - 1)
             all == ToSet(ss) \cup added(k)
  <2>1. q \in Seq(S) /\ y \in S /\ AddSound(q, k - 1, ss, new, t) /\ f[k] = CleanSpikes(p, t)
    BY <1>1, <1>2, <1>4 DEF Adding
  <2>2. all = old \cup {y}
    <3>1. added(k) = added(k - 1) \cup {new[k]}
      <4>1. \A j \in 1..k : j = k \/ j \in 1..k - 1
        OBVIOUS
      <4>2. k \in 1..k /\ \A j \in 1..k - 1 : j \in 1..k
        OBVIOUS
      <4> QED
        BY <4>1, <4>2
    <3> QED
      BY <3>1
  <2>3. /\ Ascending(q) /\ ToSet(q) \subseteq old
        /\ {x \in ToSet(q) : Recent(x, t)} = {x \in old : Recent(x, t)}
    BY <2>1 DEF AddSound
  <2>4. \A x \in old : x.start + x.len <= y.start
    <3> SUFFICES ASSUME NEW x \in old PROVE x.start + x.len <= y.start
      OBVIOUS
    <3>1. CASE x \in ToSet(ss)
      <4>1. PICK i \in 1..Len(ss) : x = ss[i]
        BY <1>2, <3>1
      <4>2. ss[i].start + ss[i].len <= new[k].start
        OBVIOUS
      <4> QED
        BY <4>1, <4>2
    <3>2. CASE x \in added(k - 1)
      <4>1. PICK j \in 1..k - 1 : x = new[j]
        BY <3>2
      <4>2. j \in 1..n /\ j < k
        BY <1>2
      <4>3. new[j].start + new[j].len <= new[k].start
        BY <4>2 DEF Ascending
      <4> QED
        BY <4>1, <4>3
    <3> QED
      BY <3>1, <3>2
  <2> HIDE DEF S, q, y, old, all
  <2>5. \A i \in 1..Len(q) : q[i].start + q[i].len <= y.start
    <3>1. \A i \in 1..Len(q) : q[i] \in ToSet(q)
      BY <2>1, ElementsIn
    <3> QED
      BY <2>3, <2>4, <3>1
  <2>6. Ascending(p) /\ ToSet(p) = ToSet(q) \cup {y} /\ p \in Seq(S)
    <3>1. p \in Seq(S)
      BY <2>1
    <3> QED
      BY <2>1, <2>3, <2>5, <3>1, AppendAscends DEF S
  <2> HIDE DEF p
  <2>7. Ascending(CleanSpikes(p, t)) /\ ToSet(CleanSpikes(p, t)) = {x \in ToSet(p) : Recent(x, t)}
    BY <2>6, CleanSpikesKeeps DEF S
  <2>8. AddSound(f[k], k, ss, new, t)
    <3> DEFINE c == CleanSpikes(p, t)
    <3>1. Ascending(c) /\ ToSet(c) \subseteq all
      BY <2>2, <2>3, <2>6, <2>7
    <3>2. {x \in ToSet(c) : Recent(x, t)} = {x \in all : Recent(x, t)}
      BY <2>2, <2>3, <2>6, <2>7
    <3> HIDE DEF c
    <3> QED
      BY <2>1, <3>1, <3>2 DEF AddSound, all, c
  <2> QED
    BY <1>2, <2>8
<1>5. 0..n \subseteq T
  <2> HIDE DEF n, T
  <2> QED
    BY <1>2, <1>3, <1>4, Reaches
<1>6. f[n] \in Seq(S) /\ AddSound(f[n], n, ss, new, t)
  BY <1>2, <1>5
<1>7. PICK q \in Seq(S) : q = f[n]
  BY <1>6
<1>8. /\ Ascending(q)
      /\ {x \in ToSet(q) : Recent(x, t)} = {x \in ToSet(ss) \cup ToSet(new) : Recent(x, t)}
  BY <1>2, <1>6, <1>7 DEF AddSound
<1>9. Ascending(CleanSpikes(q, t)) /\ ToSet(CleanSpikes(q, t)) = {x \in ToSet(q) : Recent(x, t)}
  BY <1>7, <1>8, CleanSpikesKeeps
<1> HIDE DEF n, S
<1> QED
  BY <1>1, <1>7, <1>8, <1>9

-----------------------------------------------------------------------------
(* The spikes of an update. *)

(* The recent spikes follow each other, and ended with points of the rows. *)
SpikesInv ==
    /\ Ascending(spikes)
    /\ ~up => spikes = << >>
    /\ \A i \in 1..Len(spikes) :
          \E j \in 1..Len(rows) : spikes[i].start + spikes[i].len <= rows[j].at

(* What an update makes of the spikes, when those before it ended earlier. *)
LEMMA UpdateFinds ==
    ASSUME Inv, Ascending(spikes), NEW batch, Arrives(batch), NEW base \in Bases,
           \A i \in 1..Len(spikes), j \in 1..Len(batch) :
              spikes[i].start + spikes[i].len <= batch[j].at
    PROVE  LET s == Chronological(batch)
               after == WithSpikes(spikes, Detected(s, base), now)
           IN  /\ \E j \in 1..Len(batch) : s[1] = batch[j]
               /\ Ascending(after)
               /\ ToSet(after) = {x \in ToSet(spikes) \cup LastingRuns(s, base) : Recent(x, now)}
               /\ \A x \in LastingRuns(s, base) :
                     /\ s[1].at <= x.start
                     /\ \E j \in 1..Len(batch) : x.start + x.len <= batch[j].at
<1> DEFINE s == Chronological(batch)
           new == Detected(s, base)
<1>1. /\ s \in Seq(Points) /\ s # << >> /\ Timely(s)
      /\ \A i \in 1..Len(s) : \E j \in 1..Len(batch) : s[i] = batch[j]
  BY ChronologicalIs DEF Arrives
<1>2. \A i \in 1..Len(s) : s[i].at \in 0..now
  BY <1>1 DEF Arrives
<1>3. now \in Nat /\ spikes \in Seq(SpikesAt(now))
  BY DEF Inv, RowsInv, PublishedInv
<1> HIDE DEF s
<1>4. 1 \in 1..Len(s) /\ Len(s) \in 1..Len(s)
  BY <1>1
<1>5. new \in Seq(SpikesAt(now)) /\ Finds(new, RunStarts(s, base), s[Len(s)].at, s, base)
  BY <1>1, <1>2, <1>3, DetectedType, DetectedFinds
<1> HIDE DEF new
<1>6. /\ Ascending(new) /\ Spanned(new, s[1].at, s[Len(s)].at) /\ ToSet(new) = LastingRuns(s, base)
  BY <1>5 DEF Finds, Lasting, LastingRuns
<1>7. ASSUME NEW i \in 1..Len(spikes), NEW j \in 1..Len(new)
      PROVE  spikes[i].start + spikes[i].len <= new[j].start
  <2>1. PICK k \in 1..Len(batch) : s[1] = batch[k]
    BY <1>1, <1>4
  <2>2. spikes[i].start + spikes[i].len <= s[1].at /\ s[1].at <= new[j].start
    BY <1>6, <2>1 DEF Spanned
  <2>3. spikes[i] \in SpikesAt(now) /\ new[j] \in SpikesAt(now)
    BY <1>3, <1>5
  <2>4. spikes[i].start \in Int /\ spikes[i].len \in Int /\ new[j].start \in Int
    BY <2>3, SpikeFields
  <2>5. s[1].at \in Int
    BY <1>2, <1>4
  <2> QED
    BY <2>2, <2>4, <2>5
<1>8. /\ Ascending(WithSpikes(spikes, new, now))
      /\ ToSet(WithSpikes(spikes, new, now)) = {x \in ToSet(spikes) \cup ToSet(new) : Recent(x, now)}
  BY <1>3, <1>5, <1>6, <1>7, WithSpikesKeeps
<1>9. ASSUME NEW x \in LastingRuns(s, base)
      PROVE  s[1].at <= x.start /\ \E j \in 1..Len(batch) : x.start + x.len <= batch[j].at
  <2>1. PICK i \in 1..Len(new) : x = new[i]
    BY <1>5, <1>6, ElementsIn
  <2>2. s[1].at <= x.start /\ x.start + x.len <= s[Len(s)].at
    BY <1>6, <2>1 DEF Spanned
  <2> QED
    BY <1>1, <1>4, <2>2
<1>10. \E j \in 1..Len(batch) : s[1] = batch[j]
  BY <1>1, <1>4
<1> QED
  BY <1>6, <1>8, <1>9, <1>10 DEF s, new

LEMMA SpikesUpdated ==
    ASSUME Inv, Inv', SpikesInv, now' = now, up', Grows, NEW batch, Arrives(batch), Publish(batch),
           \A i \in 1..Len(spikes), j \in 1..Len(batch) :
              spikes[i].start + spikes[i].len <= batch[j].at
    PROVE  SpikesInv'
<1> DEFINE s == Chronological(batch)
<1>1. Baseline \in Bases
  <2>1. AcceptedInv' /\ Held(buffer'["medium"], accepted', "medium", now)
    BY DEF Inv, BufferInv, Windows
  <2> QED
    BY <2>1, BaselineIs
<1>2. spikes' = WithSpikes(spikes, Detected(s, Baseline), now)
  BY DEF Publish
<1>3. /\ Ascending(spikes')
      /\ ToSet(spikes') = {x \in ToSet(spikes) \cup LastingRuns(s, Baseline) : Recent(x, now)}
      /\ \A x \in LastingRuns(s, Baseline) :
            \E j \in 1..Len(batch) : x.start + x.len <= batch[j].at
  BY <1>1, <1>2, UpdateFinds DEF SpikesInv
<1>4. \A j \in 1..Len(batch) : batch[j].id \in 1..Len(rows') /\ rows'[batch[j].id].at = batch[j].at
  BY DEF Arrives
<1>5. \A j \in 1..Len(rows) : j \in 1..Len(rows') /\ rows'[j] = rows[j]
  <2>1. Len(rows) \in Nat /\ Len(rows') \in Nat
    BY DEF Inv, RowsInv
  <2> QED
    BY <2>1 DEF Grows
<1>6. /\ ToSet(spikes) = {spikes[i] : i \in 1..Len(spikes)}
      /\ ToSet(spikes') = {spikes'[i] : i \in 1..Len(spikes')}
  BY ElementsIn DEF Inv, PublishedInv
<1> HIDE DEF s
<1>7. ASSUME NEW i \in 1..Len(spikes')
      PROVE  \E j \in 1..Len(rows') : spikes'[i].start + spikes'[i].len <= rows'[j].at
  <2>1. spikes'[i] \in ToSet(spikes) \cup LastingRuns(s, Baseline)
    BY <1>3, <1>6
  <2>2. CASE spikes'[i] \in ToSet(spikes)
    <3>1. PICK h \in 1..Len(spikes) : spikes'[i] = spikes[h]
      BY <1>6, <2>2
    <3>2. PICK j \in 1..Len(rows) : spikes[h].start + spikes[h].len <= rows[j].at
      BY DEF SpikesInv
    <3> QED
      BY <1>5, <3>1, <3>2
  <2>3. CASE spikes'[i] \in LastingRuns(s, Baseline)
    <3>1. PICK j \in 1..Len(batch) : spikes'[i].start + spikes'[i].len <= batch[j].at
      BY <1>3, <2>3
    <3> QED
      BY <1>4, <3>1
  <2> QED
    BY <2>1, <2>2, <2>3
<1> QED
  BY <1>3, <1>7 DEF SpikesInv

LEMMA SpikesStay ==
    ASSUME Inv, Inv', SpikesInv, Grows, spikes' = spikes, up' \/ up' = up
    PROVE  SpikesInv'
<1>1. \A j \in 1..Len(rows) : j \in 1..Len(rows') /\ rows'[j] = rows[j]
  <2>1. Len(rows) \in Nat /\ Len(rows') \in Nat
    BY DEF Inv, RowsInv
  <2> QED
    BY <2>1 DEF Grows
<1>2. ASSUME NEW i \in 1..Len(spikes)
      PROVE  \E j \in 1..Len(rows') : spikes[i].start + spikes[i].len <= rows'[j].at
  <2>1. PICK j \in 1..Len(rows) : spikes[i].start + spikes[i].len <= rows[j].at
    BY DEF SpikesInv
  <2> QED
    BY <1>1, <2>1
<1>3. ~up' => spikes = << >>
  BY DEF SpikesInv
<1> QED
  BY <1>2, <1>3 DEF SpikesInv

(* Horizon brings what closed after all the rows. *)
LEMMA PollIsLater ==
    ASSUME Inv, SpikesInv, NEW batch \in Batches,
           NEW i \in 1..Len(spikes), NEW j \in 1..Len(batch)
    PROVE  spikes[i].start + spikes[i].len <= batch[j].at /\ spikes[i].start < batch[j].at
<1>1. RowsInv /\ now \in Nat
  BY DEF Inv, RowsInv
<1>2. PICK n \in Nat \ {0} : Following(batch, n)
  BY <1>1, BatchesFollow
<1>3. batch[j].at \in (Newest + 1)..now
  BY <1>2 DEF Following
<1>4. Newest \in -1..now /\ \A k \in 1..Len(rows) : rows[k].at <= Newest
  BY <1>1, NewestIs
<1>5. PICK k \in 1..Len(rows) : spikes[i].start + spikes[i].len <= rows[k].at
  BY DEF SpikesInv
<1>6. rows[k].at \in Int
  <2>1. rows[k] \in Points
    BY <1>1 DEF RowsInv
  <2> QED
    BY <2>1, PointFields
<1>7. spikes[i] \in SpikesAt(now)
  BY DEF Inv, PublishedInv
<1>8. /\ spikes[i].start \in Int /\ spikes[i].len \in Int
      /\ spikes[i].start <= spikes[i].start + spikes[i].len
  BY <1>7, SpikeFields
<1>9. PICK a \in Int, b \in Int, x \in Int, y \in Int, q \in Int :
         /\ a = spikes[i].start /\ b = spikes[i].start + spikes[i].len
         /\ x = rows[k].at /\ y = batch[j].at /\ q = Newest
  <2>1. spikes[i].start + spikes[i].len \in Int
    BY <1>8
  <2>2. Newest \in Int /\ batch[j].at \in Int
    BY <1>1, <1>3, <1>4
  <2> QED
    BY <1>6, <1>8, <2>1, <2>2, Zenon
<1>10. a <= b /\ b <= x /\ x <= q /\ q < y
  <2>1. a <= b /\ b <= x /\ x <= q
    BY <1>4, <1>5, <1>8, <1>9, Zenon
  <2>2. q < y
    BY <1>1, <1>3, <1>9
  <2> QED
    BY <2>1, <2>2, Zenon
<1>11. b <= y /\ a < y
  BY <1>10
<1> QED
  BY <1>9, <1>11, Zenon

LEMMA SpikesProcessed ==
    ASSUME Inv, Inv', SpikesInv, now' = now, up', Grows, NEW batch, Arrives(batch),
           ProcessFeeData(batch),
           \A i \in 1..Len(spikes), j \in 1..Len(batch) :
              spikes[i].start + spikes[i].len <= batch[j].at
    PROVE  SpikesInv'
<1>1. CASE Publish(batch)
  BY <1>1, SpikesUpdated
<1>2. CASE FailBaseline(batch)
  BY <1>2, SpikesStay DEF FailBaseline
<1>3. CASE Refuse(batch)
  BY <1>3, SpikesStay DEF Refuse, engine
<1> QED
  BY <1>1, <1>2, <1>3 DEF ProcessFeeData

LEMMA SpikesStep == Inv /\ Inv' /\ SpikesInv /\ [Next]_vars => SpikesInv'
<1> SUFFICES ASSUME Inv, Inv', SpikesInv, [Next]_vars PROVE SpikesInv'
  OBVIOUS
<1>1. Len(rows) \in Nat
  BY DEF Inv, RowsInv
<1>2. CASE Tick \/ UNCHANGED vars
  <2>1. spikes' = spikes /\ rows' = rows /\ up' = up
    BY <1>2 DEF Tick, vars, engine
  <2>2. Grows
    BY <1>1, <2>1 DEF Grows
  <2> QED
    BY <2>1, <2>2, SpikesStay
<1>3. CASE Poll
  <2>1. PICK batch \in Batches : rows' = rows \o batch /\ ProcessFeeData(batch)
    BY <1>3 DEF Poll
  <2>2. up' /\ now' = now /\ up' = up
    BY <1>3 DEF Poll
  <2>3. Grows /\ Arrives(batch)
    BY <2>1, <2>2, PollArrives
  <2>4. \A i \in 1..Len(spikes), j \in 1..Len(batch) :
           spikes[i].start + spikes[i].len <= batch[j].at
    BY PollIsLater
  <2> QED
    BY <2>1, <2>2, <2>3, <2>4, SpikesProcessed
<1>4. CASE Rehydrate
  <2>1. ~up /\ up' /\ now' = now /\ rows' = rows
    BY <1>4 DEF Rehydrate
  <2>2. Grows
    BY <1>1, <2>1 DEF Grows
  <2>3. CASE LastDay = << >>
    <3>1. spikes' = spikes
      BY <1>4, <2>3 DEF Rehydrate, engine
    <3> QED
      BY <2>1, <2>2, <3>1, SpikesStay
  <2>4. CASE LastDay # << >>
    <3>1. ProcessFeeData(LastDay) /\ Arrives(LastDay)
      BY <1>4, <2>1, <2>4, LastDayArrives DEF Rehydrate
    <3>2. spikes = << >>
      BY <2>1 DEF SpikesInv
    <3>3. \A i \in 1..Len(spikes), j \in 1..Len(LastDay) :
             spikes[i].start + spikes[i].len <= LastDay[j].at
      BY <3>2
    <3> QED
      BY <2>1, <2>2, <3>1, <3>3, SpikesProcessed
  <2> QED
    BY <2>3, <2>4
<1>5. CASE Restart
  <2>1. spikes' = << >>
    BY <1>5 DEF Restart
  <2> QED
    BY <2>1 DEF SpikesInv, Ascending
<1> QED
  BY <1>2, <1>3, <1>4, <1>5 DEF Next

(* What the action property says of a step. *)
DetectsIn ==
    lastUpdate' # lastUpdate /\ up /\ up' =>
        LET batch == Chronological(SubSeq(rows', Len(rows) + 1, Len(rows')))
        IN  /\ SpikesAscend'
            /\ {s \in ToSet(spikes') : s.start >= batch[1].at} =
                  {s \in LastingRuns(batch, Baseline) : s.start >= now - CongestionWindow}

LEMMA PollDetects ==
    ASSUME Inv, Inv', SpikesInv, SpikesInv', Poll, lastUpdate' # lastUpdate
    PROVE  DetectsIn
<1>1. PICK batch \in Batches : rows' = rows \o batch /\ ProcessFeeData(batch)
  BY DEF Poll
<1>2. up' /\ now' = now /\ up' = up
  BY DEF Poll
<1>3. Arrives(batch)
  BY <1>1, <1>2, PollArrives
<1>4. Publish(batch)
  BY <1>1 DEF ProcessFeeData, Refuse, FailBaseline, engine
<1>5. Baseline \in Bases
  <2>1. AcceptedInv' /\ Held(buffer'["medium"], accepted', "medium", now)
    BY <1>2 DEF Inv, BufferInv, Windows
  <2> QED
    BY <2>1, BaselineIs
<1> DEFINE s == Chronological(batch)
<1>6. SubSeq(rows', Len(rows) + 1, Len(rows')) = batch
  <2>1. rows \in Seq(Points) /\ batch \in Seq(Points)
    BY <1>3 DEF Inv, RowsInv, Arrives
  <2>2. SubSeq(rows \o batch, Len(rows) + 1, Len(rows \o batch)) = batch
    BY <2>1
  <2> QED
    BY <1>1, <2>2
<1>7. SpikesAscend'
  <2>1. Len(spikes') \in Nat
    BY DEF Inv, PublishedInv
  <2>2. \A i \in 2..Len(spikes') :
           i - 1 \in 1..Len(spikes') /\ i \in 1..Len(spikes') /\ i - 1 < i
    BY <2>1
  <2> QED
    BY <2>2 DEF SpikesAscend, SpikesInv, Ascending
<1>8. \A i \in 1..Len(spikes), j \in 1..Len(batch) :
         spikes[i].start + spikes[i].len <= batch[j].at /\ spikes[i].start < batch[j].at
  BY PollIsLater
<1>9. spikes' = WithSpikes(spikes, Detected(s, Baseline), now)
  BY <1>4 DEF Publish
<1>10. /\ \E j \in 1..Len(batch) : s[1] = batch[j]
       /\ ToSet(spikes') = {x \in ToSet(spikes) \cup LastingRuns(s, Baseline) : Recent(x, now)}
       /\ \A x \in LastingRuns(s, Baseline) : s[1].at <= x.start
  BY <1>3, <1>5, <1>8, <1>9, UpdateFinds DEF SpikesInv
<1> HIDE DEF s
<1>11. \A x \in ToSet(spikes) : ~(x.start >= s[1].at)
  <2> SUFFICES ASSUME NEW x \in ToSet(spikes) PROVE ~(x.start >= s[1].at)
    OBVIOUS
  <2>1. PICK i \in 1..Len(spikes) : x = spikes[i]
    BY ElementsIn DEF Inv, PublishedInv
  <2>2. PICK j \in 1..Len(batch) : s[1] = batch[j]
    BY <1>10
  <2>3. spikes[i].start < batch[j].at
    BY <1>8
  <2>4. spikes[i].start \in Int /\ batch[j].at \in Int
    <3>1. spikes[i] \in SpikesAt(now) /\ batch[j] \in Points
      BY <1>3 DEF Inv, PublishedInv, Arrives
    <3> QED
      BY <3>1, SpikeFields, PointFields
  <2> QED
    BY <2>1, <2>2, <2>3, <2>4
<1>12. {x \in ToSet(spikes') : x.start >= s[1].at} = {x \in LastingRuns(s, Baseline) : Recent(x, now)}
  <2>1. \A x \in LastingRuns(s, Baseline) : x.start >= s[1].at
    <3> TAKE x \in LastingRuns(s, Baseline)
    <3>1. s[1].at <= x.start
      BY <1>10
    <3> QED
      BY <3>1
  <2> QED
    BY <1>10, <1>11, <2>1
<1> QED
  BY <1>6, <1>7, <1>12 DEF DetectsIn, Recent, s

(* An update finds exactly the longest runs of spiking points that lasted, in the
   order of time, and keeps them while they are recent (detect_spikes, add_spike):
   for every multiplier, every length of spikes, window and batch. *)
THEOREM DetectsWell == Spec => DetectsRuns
<1>1. Init => SpikesInv
  BY DEF Init, SpikesInv, Ascending
<1>2. Inv /\ Inv' /\ SpikesInv /\ SpikesInv' /\ [Next]_vars => [DetectsIn]_vars
  <2> SUFFICES ASSUME Inv, Inv', SpikesInv, SpikesInv', Next, lastUpdate' # lastUpdate, up, up'
               PROVE  DetectsIn
    BY DEF DetectsIn
  <2>1. CASE Poll
    BY <2>1, PollDetects
  <2>2. CASE Tick \/ Rehydrate \/ Restart
    BY <2>2 DEF Tick, Rehydrate, Restart, engine
  <2> QED
    BY <2>1, <2>2 DEF Next
<1>3. Inv /\ Inv' /\ SpikesInv /\ SpikesInv' /\ [Next]_vars =>
      [lastUpdate' # lastUpdate /\ up /\ up' =>
          LET batch == Chronological(SubSeq(rows', Len(rows) + 1, Len(rows')))
          IN  /\ SpikesAscend'
              /\ {s \in ToSet(spikes') : s.start >= batch[1].at} =
                    {s \in LastingRuns(batch, Baseline) : s.start >= now - CongestionWindow}]_vars
  BY <1>2 DEF DetectsIn
<1> QED
  BY <1>1, <1>3, Invariant, SpikesStep, PTL DEF Spec, DetectsRuns
=============================================================================
