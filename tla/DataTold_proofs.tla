---------------------------- MODULE DataTold_proofs ----------------------------
(***************************************************************************)
(* Proofs about what Devkit says of data: what the part Metering counts,   *)
(* for every history of reports, uses of a registry and jobs of the        *)
(* analysis and of the simulations; and what the part DataQuality reports  *)
(* on every sequence of points the tools can leave.                        *)
(***************************************************************************)
EXTENDS Devkit_proofs

-----------------------------------------------------------------------------
(* The meters. What a sequence weighs is a fold, place after place. *)

(* f weighs a sequence, place after place. *)
Weighs(f, seq, weight) == f[0] = 0 /\ \A k \in 1..Len(seq) : f[k] = f[k - 1] + weight[seq[k]]

LEMMA SummedFolds ==
    ASSUME NEW R, NEW seq \in Seq(R), NEW weight \in [R -> Int]
    PROVE  \E f \in [0..Len(seq) -> Int] : Weighs(f, seq, weight) /\ Summed(seq, weight) = f[Len(seq)]
<1> DEFINE n == Len(seq)
           Z == Int
           step == [k \in 1..n |-> [acc \in Z |-> acc + weight[seq[k]]]]
           upTo == CHOOSE f : f = [k \in 0..n |-> IF k = 0 THEN 0 ELSE f[k - 1] + weight[seq[k]]]
<1>1. n \in Nat
  OBVIOUS
<1>2. ASSUME NEW k \in 1..n, NEW acc \in Z PROVE acc + weight[seq[k]] \in Z
  <2>1. seq[k] \in R
    OBVIOUS
  <2>2. weight[seq[k]] \in Int
    BY <2>1
  <2> QED
    BY <2>2
<1>3. 0 \in Z
  OBVIOUS
<1>4. step \in [1..n -> [Z -> Z]]
  <2> HIDE DEF n, Z
  <2> QED
    BY <1>2
<1>5. PICK f \in [0..n -> Z] : IsFold(f, n, 0, step)
  <2> HIDE DEF n, step, upTo, Z
  <2> QED
    BY <1>1, <1>3, <1>4, FoldExists
<1>6. \A k \in 1..n : f[k - 1] \in Z /\ f[k] \in Z
  <2> HIDE DEF n, step, Z
  <2> QED
    BY <1>1
<1>7. f[0] = 0 /\ \A k \in 1..n : f[k] = f[k - 1] + weight[seq[k]]
  <2>1. ASSUME NEW k \in 1..n PROVE f[k] = f[k - 1] + weight[seq[k]]
    <3> HIDE DEF n, Z
    <3>1. step[k][f[k - 1]] = f[k - 1] + weight[seq[k]]
      BY <1>6
    <3> HIDE DEF step
    <3>2. f[k] = step[k][f[k - 1]]
      BY <1>5 DEF IsFold
    <3> QED
      BY <3>1, <3>2
  <2> HIDE DEF step, Z
  <2> QED
    BY <1>5, <2>1 DEF IsFold
<1>8. f = [k \in 0..n |-> IF k = 0 THEN 0 ELSE f[k - 1] + weight[seq[k]]]
  <2> HIDE DEF n, step, upTo, Z
  <2>1. f = [k \in 0..n |-> f[k]]
    OBVIOUS
  <2>2. \A k \in 0..n : k = 0 \/ k \in 1..n
    BY <1>1
  <2> QED
    BY <1>7, <2>1, <2>2, Zenon
<1>9. upTo = [k \in 0..n |-> IF k = 0 THEN 0 ELSE upTo[k - 1] + weight[seq[k]]]
  BY <1>8
<1>10. Summed(seq, weight) = upTo[n]
  BY DEF Summed
<1> HIDE DEF n, step, upTo, Z
<1>11. upTo[0] = 0 /\ \A k \in 1..n : upTo[k] = upTo[k - 1] + weight[seq[k]]
  <2>1. 0 \in 0..n /\ \A k \in 1..n : k \in 0..n /\ k # 0
    BY <1>1
  <2> QED
    BY <1>9, <2>1, Zenon
<1>12. \A k \in 0..n : upTo[k] = f[k]
  <2> DEFINE same == {k \in 0..n : upTo[k] = f[k]}
  <2>1. 0 \in same /\ \A k \in 1..n : k - 1 \in same => k \in same
    BY <1>1, <1>7, <1>11
  <2>2. 0..n \subseteq same
    <3> HIDE DEF same
    <3> QED
      BY <1>1, <2>1, ReachesAll
  <2> QED
    BY <2>2
<1>13. Summed(seq, weight) = f[n]
  BY <1>1, <1>10, <1>12
<1>14. Weighs(f, seq, weight)
  BY <1>7 DEF Weighs, n
<1> QED
  BY <1>13, <1>14 DEF n, Z

LEMMA SummedIs ==
    ASSUME NEW R, NEW seq \in Seq(R), NEW weight \in [R -> Int]
    PROVE  Summed(seq, weight) \in Int
<1>1. PICK f \in [0..Len(seq) -> Int] : Summed(seq, weight) = f[Len(seq)]
  BY SummedFolds
<1> QED
  BY <1>1

LEMMA NothingSummed ==
    ASSUME NEW R, NEW weight \in [R -> Int]
    PROVE  Summed(<<>>, weight) = 0
<1>1. <<>> \in Seq(R) /\ Len(<<>>) = 0
  OBVIOUS
<1>2. PICK f : Weighs(f, <<>>, weight) /\ Summed(<<>>, weight) = f[Len(<<>>)]
  BY <1>1, SummedFolds
<1> QED
  BY <1>1, <1>2 DEF Weighs

LEMMA OneMoreSummed ==
    ASSUME NEW R, NEW seq \in Seq(R), NEW x \in R, NEW weight \in [R -> Int]
    PROVE  Summed(Append(seq, x), weight) = Summed(seq, weight) + weight[x]
<1> DEFINE n == Len(seq)
           more == Append(seq, x)
           each == [k \in 1..n |-> weight[seq[k]]]
<1>1. n \in Nat /\ more \in Seq(R) /\ Len(more) = n + 1 /\ more[n + 1] = x /\ \A k \in 1..n : more[k] = seq[k]
  OBVIOUS
<1>2. PICK f \in [0..n -> Int] : Weighs(f, seq, weight) /\ Summed(seq, weight) = f[n]
  BY SummedFolds
<1>3. PICK g \in [0..Len(more) -> Int] : Weighs(g, more, weight) /\ Summed(more, weight) = g[Len(more)]
  BY <1>1, SummedFolds
<1> HIDE DEF n, more
<1>4. IsSum(f, n, each)
  BY <1>2 DEF IsSum, Weighs, n
<1>5. IsSum(g, n, each)
  <2>1. g[0] = 0 /\ \A k \in 1..Len(more) : g[k] = g[k - 1] + weight[more[k]]
    BY <1>3 DEF Weighs
  <2>2. \A k \in 1..n : k \in 1..Len(more) /\ more[k] = seq[k] /\ each[k] = weight[seq[k]]
    <3>1. n \in Nat /\ Len(more) = n + 1 /\ \A k \in 1..n : more[k] = seq[k]
      BY <1>1
    <3>2. \A k \in 1..n : k \in 1..(n + 1)
      BY <3>1
    <3>3. \A k \in 1..n : each[k] = weight[seq[k]]
      OBVIOUS
    <3> QED
      BY <3>1, <3>2, <3>3, Zenon
  <2> HIDE DEF each
  <2>3. ASSUME NEW k \in 1..n PROVE g[k] = g[k - 1] + each[k]
    <3>1. g[k] = g[k - 1] + weight[more[k]]
      BY <2>1, <2>2, Zenon
    <3> QED
      BY <2>2, <3>1, Zenon
  <2> QED
    BY <2>1, <2>3, Zenon DEF IsSum
<1>6. f[n] = g[n]
  <2> HIDE DEF each
  <2> QED
    BY <1>1, <1>4, <1>5, SumsAgree
<1>7. g[n + 1] = g[n] + weight[x]
  <2>1. n \in Nat /\ Len(more) = n + 1 /\ more[n + 1] = x
    BY <1>1
  <2>2. PICK k \in 1..Len(more) : k = n + 1 /\ k - 1 = n
    BY <2>1
  <2>3. \A i \in 1..Len(more) : g[i] = g[i - 1] + weight[more[i]]
    BY <1>3 DEF Weighs
  <2>4. g[k] = g[k - 1] + weight[more[k]]
    BY <2>3
  <2> QED
    BY <2>1, <2>2, <2>4, Zenon
<1> QED
  BY <1>1, <1>2, <1>3, <1>6, <1>7 DEF more

LEMMA BothSummed ==
    ASSUME NEW R, NEW s \in Seq(R), NEW t \in Seq(R), NEW weight \in [R -> Int]
    PROVE  Summed(s \o t, weight) = Summed(s, weight) + Summed(t, weight)
<1> DEFINE m == Len(s)
           n == Len(t)
           both == s \o t
           each == [k \in 1..m |-> weight[s[k]]]
<1>1. /\ m \in Nat /\ n \in Nat /\ both \in Seq(R) /\ Len(both) = m + n
      /\ \A k \in 1..m : both[k] = s[k]
      /\ \A k \in 1..n : both[m + k] = t[k]
  OBVIOUS
<1>2. PICK f \in [0..m -> Int] : Weighs(f, s, weight) /\ Summed(s, weight) = f[m]
  BY SummedFolds
<1>3. PICK g \in [0..n -> Int] : Weighs(g, t, weight) /\ Summed(t, weight) = g[n]
  BY SummedFolds
<1>4. PICK h \in [0..Len(both) -> Int] : Weighs(h, both, weight) /\ Summed(both, weight) = h[Len(both)]
  BY <1>1, SummedFolds
<1> HIDE DEF m, n, both
<1>5. f[m] = h[m]
  <2>1. IsSum(f, m, each)
    BY <1>2 DEF IsSum, Weighs, m
  <2>2. IsSum(h, m, each)
    <3>1. h[0] = 0 /\ \A k \in 1..Len(both) : h[k] = h[k - 1] + weight[both[k]]
      BY <1>4 DEF Weighs
    <3>2. \A k \in 1..m : k \in 1..Len(both) /\ both[k] = s[k] /\ each[k] = weight[s[k]]
      BY <1>1
    <3> HIDE DEF each
    <3>3. ASSUME NEW k \in 1..m PROVE h[k] = h[k - 1] + each[k]
      <4>1. h[k] = h[k - 1] + weight[both[k]]
        BY <3>1, <3>2, Zenon
      <4> QED
        BY <3>2, <4>1, Zenon
    <3> QED
      BY <3>1, <3>3, Zenon DEF IsSum
  <2> HIDE DEF each
  <2> QED
    BY <1>1, <2>1, <2>2, SumsAgree
<1>6. h[m + n] = h[m] + g[n]
  <2> DEFINE same == {k \in 0..n : h[m + k] = h[m] + g[k]}
  <2>1. 0 \in same
    BY <1>1, <1>3, <1>4 DEF Weighs
  <2>2. ASSUME NEW k \in 1..n, k - 1 \in same PROVE k \in same
    <3>1. h[m + (k - 1)] = h[m] + g[k - 1]
      BY <2>2
    <3>2. m + k \in 1..Len(both) /\ m + k - 1 = m + (k - 1) /\ k - 1 \in 0..n /\ k \in 0..n /\ m \in 0..Len(both)
      BY <1>1
    <3>3. h[m + k] = h[m + k - 1] + weight[both[m + k]]
      BY <1>4, <3>2 DEF Weighs
    <3>4. both[m + k] = t[k]
      BY <1>1
    <3>5. g[k] = g[k - 1] + weight[t[k]]
      BY <1>3 DEF Weighs, n
    <3>6. weight[t[k]] \in Int
      <4>1. t[k] \in R
        BY DEF n
      <4> QED
        BY <4>1
    <3>7. PICK a \in Int, b \in Int, c \in Int : a = h[m] /\ b = g[k - 1] /\ c = weight[t[k]]
      BY <3>2, <3>6
    <3>8. h[m + k] = (a + b) + c /\ g[k] = b + c
      BY <3>1, <3>2, <3>3, <3>4, <3>5, <3>7
    <3>9. h[m + k] = h[m] + g[k]
      BY <3>7, <3>8
    <3> QED
      BY <3>2, <3>9
  <2>3. 0..n \subseteq same
    <3> HIDE DEF same
    <3> QED
      BY <1>1, <2>1, <2>2, ReachesAll
  <2> QED
    BY <1>1, <2>3
<1> QED
  BY <1>1, <1>2, <1>3, <1>4, <1>5, <1>6 DEF both

LEMMA SummedWithin ==
    ASSUME NEW R, NEW seq \in Seq(R), NEW weight \in [R -> Nat]
    PROVE  /\ Summed(seq, weight) \in Nat
           /\ (\A i \in DOMAIN seq : weight[seq[i]] = 0) => Summed(seq, weight) = 0
<1> DEFINE n == Len(seq)
<1>1. weight \in [R -> Int] /\ n \in Nat /\ DOMAIN seq = 1..n
  OBVIOUS
<1>2. PICK f \in [0..n -> Int] : Weighs(f, seq, weight) /\ Summed(seq, weight) = f[n]
  BY <1>1, SummedFolds
<1>3. \A k \in 1..n : f[k] = f[k - 1] + weight[seq[k]] /\ weight[seq[k]] \in Nat
  <2> SUFFICES ASSUME NEW k \in 1..n PROVE f[k] = f[k - 1] + weight[seq[k]] /\ weight[seq[k]] \in Nat
    OBVIOUS
  <2>1. seq[k] \in R
    OBVIOUS
  <2> QED
    BY <1>2, <2>1 DEF Weighs
<1>4. f[0] = 0
  BY <1>2 DEF Weighs
<1> HIDE DEF n
<1>5. f[n] \in Nat
  <2> DEFINE T == {k \in 0..n : f[k] \in Nat}
  <2>1. 0 \in T /\ \A k \in 1..n : k - 1 \in T => k \in T
    BY <1>1, <1>3, <1>4
  <2>2. 0..n \subseteq T
    <3> HIDE DEF T
    <3> QED
      BY <1>1, <2>1, ReachesAll
  <2> QED
    BY <1>1, <2>2
<1>6. ASSUME \A i \in DOMAIN seq : weight[seq[i]] = 0 PROVE f[n] = 0
  <2> DEFINE T == {k \in 0..n : f[k] = 0}
  <2>0. \A k \in 1..n : weight[seq[k]] = 0
    BY <1>1, <1>6
  <2>1. 0 \in T /\ \A k \in 1..n : k - 1 \in T => k \in T
    BY <1>1, <1>3, <1>4, <2>0
  <2>2. 0..n \subseteq T
    <3> HIDE DEF T
    <3> QED
      BY <1>1, <2>1, ReachesAll
  <2> QED
    BY <1>1, <2>2
<1> QED
  BY <1>2, <1>5, <1>6

(* A library's fold over a set adds up, too. *)

LEMMA SumOnSetIs ==
    ASSUME NEW S, IsFiniteSet(S), NEW M \in Nat, NEW w, \A x \in S : w[x] \in 0..M
    PROVE  SumFunctionOnSet(w, S) = Cardinality(Cells(S, w, M))
<1> DEFINE Sums(u) == [s \in SUBSET S |-> IF s = {} THEN 0
                                          ELSE w[CHOOSE x \in s : TRUE] + u[s \ {CHOOSE x \in s : TRUE}]]
           sums == CHOOSE u : u = Sums(u)
           cells == [s \in SUBSET S |-> Cardinality(Cells(s, w, M))]
<1>1. SumFunctionOnSet(w, S) = sums[S]
  BY Zenon DEF SumFunctionOnSet, FoldFunctionOnSet, MapThenFoldSet
<1>2. AddsUp(cells, S, w)
  BY CellsAddUp
<1>3. \A s \in SUBSET S : cells[s] \in Nat
  <2> SUFFICES ASSUME NEW s \in SUBSET S PROVE Cardinality(Cells(s, w, M)) \in Nat
    OBVIOUS
  <2>1. IsFiniteSet(s) /\ \A x \in s : w[x] \in 0..M
    BY FS_Subset
  <2>2. CASE s = {}
    BY <2>2, NoCells
  <2>3. CASE s # {}
    <3>1. PICK x : x \in s
      BY <2>3
    <3> QED
      BY <2>1, <3>1, CellsStep
  <2> QED
    BY <2>2, <2>3
<1>4. cells = Sums(cells)
  <2>1. ASSUME NEW s \in SUBSET S PROVE cells[s] = Sums(cells)[s]
    <3> HIDE DEF cells
    <3>1. CASE s = {}
      BY <1>2, <3>1 DEF AddsUp
    <3>2. CASE s # {}
      <4>1. PICK x \in s : x = CHOOSE y \in s : TRUE
        BY <3>2
      <4>2. w[x] \in Int /\ s \ {x} \in SUBSET S
        BY <4>1
      <4>3. cells[s] = cells[s \ {x}] + w[x]
        BY <1>2, <3>2, <4>1 DEF AddsUp
      <4>5. cells[s \ {x}] \in Int
        <5>1. \A t \in SUBSET S : cells[t] \in Int
          BY <1>3
        <5> QED
          BY <4>2, <5>1, Zenon
      <4>4. Sums(cells)[s] = w[x] + cells[s \ {x}]
        BY <3>2, <4>1
      <4> QED
        BY <4>2, <4>3, <4>4, <4>5
    <3> QED
      BY <3>1, <3>2
  <2> QED
    BY <2>1
<1>5. sums = Sums(sums)
  <2> HIDE DEF cells
  <2> QED
    BY <1>4
<1>6. /\ sums[{}] = 0
      /\ \A s \in SUBSET S : s # {} => \E x \in s : x = (CHOOSE y \in s : TRUE) /\ sums[s] = w[x] + sums[s \ {x}]
  <2>1. \A s \in SUBSET S : sums[s] = Sums(sums)[s]
    BY <1>5
  <2> HIDE DEF sums
  <2>2. {} \in SUBSET S /\ Sums(sums)[{}] = 0
    OBVIOUS
  <2>3. ASSUME NEW s \in SUBSET S, s # {}
        PROVE  \E x \in s : x = (CHOOSE y \in s : TRUE) /\ sums[s] = w[x] + sums[s \ {x}]
    <3>1. PICK x \in s : x = CHOOSE y \in s : TRUE
      BY <2>3
    <3>2. Sums(sums)[s] = w[x] + sums[s \ {x}]
      BY <2>3, <3>1
    <3> QED
      BY <2>1, <3>1, <3>2
  <2> QED
    BY <2>1, <2>2, <2>3
<1> HIDE DEF sums, Sums
<1>7. \A n \in 0..Cardinality(S) : \A s \in SUBSET S : Cardinality(s) = n => sums[s] = cells[s]
  <2> DEFINE T == {n \in 0..Cardinality(S) : \A s \in SUBSET S : Cardinality(s) = n => sums[s] = cells[s]}
  <2>0. Cardinality(S) \in Nat
    BY FS_CardinalityType
  <2>1. 0 \in T
    <3>0. 0 \in 0..Cardinality(S)
      BY <2>0
    <3> SUFFICES ASSUME NEW s \in SUBSET S, Cardinality(s) = 0 PROVE sums[s] = cells[s]
      BY <3>0, Zenon
    <3>1. s = {}
      BY FS_Subset, FS_EmptySet
    <3> QED
      BY <1>2, <1>6, <3>1 DEF AddsUp
  <2>2. ASSUME NEW k \in 1..Cardinality(S), k - 1 \in T PROVE k \in T
    <3>0. k \in 0..Cardinality(S)
      BY <2>0
    <3> SUFFICES ASSUME NEW s \in SUBSET S, Cardinality(s) = k PROVE sums[s] = cells[s]
      BY <3>0, Zenon
    <3>1. s # {}
      BY FS_EmptySet
    <3>2. PICK x \in s : x = (CHOOSE y \in s : TRUE) /\ sums[s] = w[x] + sums[s \ {x}]
      BY <1>6, <3>1
    <3>3. s \ {x} \in SUBSET S /\ Cardinality(s \ {x}) = k - 1
      BY FS_Subset, FS_RemoveElement
    <3>4. sums[s \ {x}] = cells[s \ {x}] /\ cells[s \ {x}] \in Int
      <4> HIDE DEF cells
      <4> QED
        BY <1>3, <2>2, <3>3
    <3>5. cells[s] = cells[s \ {x}] + w[x] /\ w[x] \in Int
      <4>1. w[x] \in Int
        BY <3>2
      <4> HIDE DEF cells
      <4> QED
        BY <1>2, <3>1, <3>2, <4>1 DEF AddsUp
    <3> HIDE DEF cells
    <3> QED
      BY <3>2, <3>4, <3>5
  <2>3. 0..Cardinality(S) \subseteq T
    <3> HIDE DEF T
    <3> QED
      BY <2>0, <2>1, <2>2, ReachesAll
  <2> QED
    BY <2>3
<1>8. Cardinality(S) \in Nat
  BY FS_CardinalityType
<1>9. sums[S] = cells[S]
  <2> HIDE DEF cells
  <2> QED
    BY <1>7, <1>8
<1> QED
  BY <1>1, <1>9

LEMMA BoundExists ==
    ASSUME NEW S, IsFiniteSet(S), NEW w, \A x \in S : w[x] \in Nat
    PROVE  \E M \in Nat : \A x \in S : w[x] \in 0..M
<1> DEFINE Bounded(s) == \E M \in Nat : \A x \in s : w[x] \in 0..M
           T == {n \in 0..Cardinality(S) : \A s \in SUBSET S : Cardinality(s) = n => Bounded(s)}
<1>0. Cardinality(S) \in Nat
  BY FS_CardinalityType
<1>1. 0 \in T
  <2>0. 0 \in 0..Cardinality(S)
    BY <1>0
  <2> SUFFICES ASSUME NEW s \in SUBSET S, Cardinality(s) = 0 PROVE Bounded(s)
    BY <2>0, Zenon
  <2>1. s = {}
    BY FS_Subset, FS_EmptySet
  <2> QED
    BY <2>1
<1>2. ASSUME NEW k \in 1..Cardinality(S), k - 1 \in T PROVE k \in T
  <2>0. k \in 0..Cardinality(S)
    BY <1>0
  <2> HIDE DEF Bounded
  <2> SUFFICES ASSUME NEW s \in SUBSET S, Cardinality(s) = k PROVE Bounded(s)
    BY <2>0, Zenon
  <2>1. PICK x : x \in s
    BY FS_EmptySet
  <2>2. s \ {x} \in SUBSET S /\ Cardinality(s \ {x}) = k - 1
    BY <2>1, FS_Subset, FS_RemoveElement
  <2>3. Bounded(s \ {x})
    BY <1>2, <2>2
  <2>4. PICK M \in Nat : \A y \in s \ {x} : w[y] \in 0..M
    BY <2>3 DEF Bounded
  <2>5. w[x] \in Nat /\ \A y \in s : w[y] \in Nat
    BY <2>1
  <2>6. \A y \in s : w[y] \in 0..(M + w[x])
    BY <2>4, <2>5
  <2>7. M + w[x] \in Nat
    BY <2>5
  <2> QED
    BY <2>6, <2>7 DEF Bounded
<1>3. 0..Cardinality(S) \subseteq T
  <2> HIDE DEF T
  <2> QED
    BY <1>0, <1>1, <1>2, ReachesAll
<1>4. Bounded(S)
  <2> HIDE DEF Bounded
  <2> QED
    BY <1>0, <1>3
<1> QED
  BY <1>4

LEMMA NoneOnSet == ASSUME NEW w PROVE SumFunctionOnSet(w, {}) = 0
<1>1. SumFunctionOnSet(w, {}) = Cardinality(Cells({}, w, 0))
  BY SumOnSetIs, FS_EmptySet
<1> QED
  BY <1>1, NoCells

LEMMA OneOnSet ==
    ASSUME NEW S, IsFiniteSet(S), NEW w, \A x \in S : w[x] \in Nat
    PROVE  /\ SumFunctionOnSet(w, S) \in Nat
           /\ \A x \in S : SumFunctionOnSet(w, S \ {x}) \in Nat /\ SumFunctionOnSet(w, S) = SumFunctionOnSet(w, S \ {x}) + w[x]
<1>1. PICK M \in Nat : \A x \in S : w[x] \in 0..M
  BY BoundExists
<1>2. SumFunctionOnSet(w, S) = Cardinality(Cells(S, w, M))
  BY <1>1, SumOnSetIs
<1>3. ASSUME NEW x \in S
      PROVE  /\ SumFunctionOnSet(w, S) \in Nat /\ SumFunctionOnSet(w, S \ {x}) \in Nat
             /\ SumFunctionOnSet(w, S) = SumFunctionOnSet(w, S \ {x}) + w[x]
  <2>1. /\ IsFiniteSet(S \ {x}) /\ Cardinality(Cells(S, w, M)) \in Nat /\ Cardinality(Cells(S \ {x}, w, M)) \in Nat
        /\ Cardinality(Cells(S, w, M)) = Cardinality(Cells(S \ {x}, w, M)) + w[x]
    <3>1. IsFiniteSet(S) /\ M \in Nat /\ \A y \in S : w[y] \in 0..M
      BY <1>1
    <3>2. IsFiniteSet(S \ {x})
      BY FS_RemoveElement
    <3>3. Cardinality(Cells(S, w, M)) = Cardinality(Cells(S \ {x}, w, M)) + w[x]
      BY <3>1, CellsStep
    <3>4. Cardinality(Cells(S, w, M)) \in Nat /\ Cardinality(Cells(S \ {x}, w, M)) \in Nat
      BY <3>1, CellsStep
    <3> QED
      BY <3>2, <3>3, <3>4
  <2>2. SumFunctionOnSet(w, S \ {x}) = Cardinality(Cells(S \ {x}, w, M))
    <3>1. \A y \in S \ {x} : w[y] \in 0..M
      BY <1>1
    <3> QED
      BY <2>1, <3>1, SumOnSetIs
  <2> QED
    BY <1>2, <2>1, <2>2
<1>4. CASE S = {}
  BY <1>4, NoneOnSet
<1>5. CASE S # {}
  BY <1>3, <1>5
<1> QED
  BY <1>4, <1>5

LEMMA SameOnSet ==
    ASSUME NEW S, IsFiniteSet(S), NEW w, NEW v, \A x \in S : w[x] \in Nat /\ v[x] = w[x]
    PROVE  SumFunctionOnSet(v, S) = SumFunctionOnSet(w, S)
<1>1. PICK M \in Nat : \A x \in S : w[x] \in 0..M
  BY BoundExists
<1>2. \A x \in S : v[x] \in 0..M
  BY <1>1
<1>3. Cells(S, v, M) = Cells(S, w, M)
  BY DEF Cells
<1>4. SumFunctionOnSet(w, S) = Cardinality(Cells(S, w, M))
  BY <1>1, SumOnSetIs
<1>5. SumFunctionOnSet(v, S) = Cardinality(Cells(S, v, M))
  BY <1>2, SumOnSetIs
<1> QED
  BY <1>3, <1>4, <1>5

(* One member's number goes up, or comes in. *)
LEMMA MoreOnSet ==
    ASSUME NEW S, IsFiniteSet(S), NEW w, \A x \in S : w[x] \in Nat, NEW x, NEW v, v[x] \in Nat,
           \A y \in S \ {x} : v[y] = w[y]
    PROVE  SumFunctionOnSet(v, S \cup {x}) = SumFunctionOnSet(w, S) + v[x] - (IF x \in S THEN w[x] ELSE 0)
<1>1. IsFiniteSet(S \cup {x}) /\ \A y \in S \cup {x} : v[y] \in Nat
  BY FS_AddElement
<1>2. IsFiniteSet(S \ {x}) /\ (S \cup {x}) \ {x} = S \ {x} /\ x \in S \cup {x}
  BY FS_Subset
<1>3. /\ SumFunctionOnSet(v, S \ {x}) \in Nat
      /\ SumFunctionOnSet(v, S \cup {x}) = SumFunctionOnSet(v, S \ {x}) + v[x]
  BY <1>1, <1>2, OneOnSet
<1>4. SumFunctionOnSet(v, S \ {x}) = SumFunctionOnSet(w, S \ {x})
  BY <1>2, SameOnSet
<1>5. CASE x \in S
  <2>1. SumFunctionOnSet(w, S) = SumFunctionOnSet(w, S \ {x}) + w[x] /\ w[x] \in Nat
    BY <1>5, OneOnSet
  <2> QED
    BY <1>3, <1>4, <1>5, <2>1
<1>6. CASE x \notin S
  <2>1. S \ {x} = S
    BY <1>6
  <2>2. SumFunctionOnSet(v, S \ {x}) = SumFunctionOnSet(w, S)
    BY <1>4, <2>1
  <2> HIDE <1>2, <1>4
  <2> QED
    BY <1>3, <1>6, <2>2
<1> QED
  BY <1>5, <1>6

-----------------------------------------------------------------------------
(* The error tracker. *)

Tracked == [module : {r.module : r \in ErrorReports}, severity : {r.severity : r \in ErrorReports}, count : Nat]

CodesOf(reps) == {reps[i].code : i \in DOMAIN reps}
CountsOf(e) == [code \in DOMAIN e |-> e[code].count]
OfSeverity(e, severity) == {code \in DOMAIN e : e[code].severity = severity}
CodeFlags(code) == [r \in ErrorReports |-> Flag(r.code = code)]
Steady(reps) == \A i, j \in DOMAIN reps : reps[i].code = reps[j].code => reps[i].severity = reps[j].severity

(* What e keeps of a code is what was reported first. *)
KeepsFirst(e, reps, code) ==
    \E i \in DOMAIN reps :
       /\ reps[i].code = code /\ \A j \in 1..(i - 1) : reps[j].code # code
       /\ e[code].severity = reps[i].severity /\ e[code].module = reps[i].module

ErrorsHeld(e, c, reps) ==
    /\ reps \in Seq(ErrorReports)
    /\ IsFiniteSet(DOMAIN e) /\ DOMAIN e = CodesOf(reps)
    /\ \A code \in DOMAIN e : e[code] \in Tracked
    /\ \A code \in DOMAIN e : e[code].count = Summed(reps, CodeFlags(code))
    /\ \A code \in DOMAIN e : KeepsFirst(e, reps, code)
    /\ c.total = Len(reps) /\ c.total = SumFunctionOnSet(CountsOf(e), DOMAIN e)
    /\ Steady(reps) => /\ c.critical = SumFunctionOnSet(CountsOf(e), OfSeverity(e, "critical"))
                       /\ c.warning = SumFunctionOnSet(CountsOf(e), OfSeverity(e, "warning"))

(* f is e after report r. *)
Reporting(f, e, r) ==
    f = IF r.code \in DOMAIN e THEN [e EXCEPT ![r.code].count = @ + 1]
        ELSE Put(e, r.code, [module |-> r.module, severity |-> r.severity, count |-> 1])

AfterReport(f, e, r) ==
    /\ DOMAIN f = DOMAIN e \cup {r.code}
    /\ \A code \in DOMAIN e \ {r.code} : f[code] = e[code]
    /\ \A code \in DOMAIN f : f[code] \in Tracked
    /\ r.code \in DOMAIN e => /\ f[r.code].count = e[r.code].count + 1 /\ f[r.code].module = e[r.code].module
                              /\ f[r.code].severity = e[r.code].severity
    /\ r.code \notin DOMAIN e => /\ f[r.code].count = 1 /\ f[r.code].module = r.module
                                 /\ f[r.code].severity = r.severity

LEMMA RecordedIs ==
    ASSUME NEW e, \A code \in DOMAIN e : e[code] \in Tracked, NEW r \in ErrorReports, NEW f, Reporting(f, e, r)
    PROVE  AfterReport(f, e, r)
<1>1. PICK x : x = r.code
  OBVIOUS
<1>2. CASE x \in DOMAIN e
  <2>1. e[x] \in Tracked
    BY <1>2
  <2>2. [e[x] EXCEPT !.count = @ + 1] \in Tracked
    BY <2>1 DEF Tracked
  <2>3. f = [e EXCEPT ![x] = [e[x] EXCEPT !.count = @ + 1]]
    BY <1>1, <1>2 DEF Reporting
  <2>4. DOMAIN f = DOMAIN e /\ f[x] = [e[x] EXCEPT !.count = @ + 1] /\ \A code \in DOMAIN e \ {x} : f[code] = e[code]
    BY <1>2, <2>3
  <2>5. f[x].count = e[x].count + 1 /\ f[x].module = e[x].module /\ f[x].severity = e[x].severity
    BY <2>1, <2>4 DEF Tracked
  <2>6. \A code \in DOMAIN f : f[code] \in Tracked
    BY <2>2, <2>4
  <2>7. DOMAIN f = DOMAIN e \cup {x}
    BY <1>2, <2>4
  <2> QED
    BY <1>1, <1>2, <2>4, <2>5, <2>6, <2>7 DEF AfterReport
<1>3. CASE x \notin DOMAIN e
  <2> DEFINE new == [module |-> r.module, severity |-> r.severity, count |-> 1]
  <2>1. new \in Tracked /\ new.count = 1 /\ new.module = r.module /\ new.severity = r.severity
    BY DEF Tracked
  <2> HIDE DEF new
  <2>2. f = Put(e, x, new)
    BY <1>1, <1>3 DEF Reporting, new
  <2>3. DOMAIN f = DOMAIN e \cup {x} /\ f[x] = new /\ \A code \in DOMAIN e \ {x} : f[code] = e[code]
    BY <2>2 DEF Put
  <2>4. \A code \in DOMAIN f : f[code] \in Tracked
    BY <2>1, <2>3
  <2> QED
    BY <1>1, <1>3, <2>1, <2>3, <2>4 DEF AfterReport
<1> QED
  BY <1>2, <1>3

LEMMA FlagsFit == \A code : CodeFlags(code) \in [ErrorReports -> Nat] /\ CodeFlags(code) \in [ErrorReports -> Int]
  BY DEF CodeFlags, Flag

(* What a severity's codes count goes up with a report of it, if no code has two. *)
LEMMA SeverityCounts ==
    ASSUME NEW e, NEW reps \in Seq(ErrorReports), IsFiniteSet(DOMAIN e), DOMAIN e = CodesOf(reps),
           \A code \in DOMAIN e : e[code] \in Tracked,
           \A code \in DOMAIN e : KeepsFirst(e, reps, code),
           NEW r \in ErrorReports, NEW f, Reporting(f, e, r), Steady(Append(reps, r)), NEW severity
    PROVE  SumFunctionOnSet(CountsOf(f), OfSeverity(f, severity)) =
              SumFunctionOnSet(CountsOf(e), OfSeverity(e, severity)) + Flag(r.severity = severity)
<1> DEFINE x == r.code
           B == OfSeverity(e, severity)
           C == OfSeverity(f, severity)
           w == CountsOf(e)
           v == CountsOf(f)
<1>1. /\ DOMAIN f = DOMAIN e \cup {x}
      /\ \A code \in DOMAIN e \ {x} : f[code] = e[code]
      /\ \A code \in DOMAIN f : f[code] \in Tracked
      /\ x \in DOMAIN e => f[x].count = e[x].count + 1 /\ f[x].severity = e[x].severity
      /\ x \notin DOMAIN e => f[x].count = 1 /\ f[x].severity = r.severity
  <2>1. AfterReport(f, e, r)
    BY RecordedIs
  <2> QED
    BY <2>1 DEF AfterReport
<1>2. f[x].severity = r.severity
  <2>1. CASE x \in DOMAIN e
    <3>1. PICK i \in DOMAIN reps : reps[i].code = x /\ e[x].severity = reps[i].severity
      BY <2>1 DEF KeepsFirst
    <3> DEFINE more == Append(reps, r)
               n == Len(reps)
    <3>2. n + 1 \in DOMAIN more /\ more[n + 1] = r /\ i \in DOMAIN more /\ more[i] = reps[i]
      OBVIOUS
    <3> HIDE DEF more, n
    <3>3. more[i].severity = more[n + 1].severity
      BY <3>1, <3>2 DEF Steady, more
    <3> QED
      BY <1>1, <2>1, <3>1, <3>2, <3>3
  <2> QED
    BY <1>1, <2>1
<1>3. /\ \A y \in DOMAIN e : w[y] = e[y].count /\ w[y] \in Nat
      /\ \A y \in DOMAIN f : v[y] = f[y].count /\ v[y] \in Nat
  BY <1>1 DEF CountsOf, Tracked
<1>4. IsFiniteSet(B) /\ B \subseteq DOMAIN e /\ C \subseteq DOMAIN f
  <2>1. B \in SUBSET DOMAIN e /\ C \subseteq DOMAIN f
    BY DEF OfSeverity
  <2> HIDE DEF B, C
  <2> QED
    BY <2>1, FS_Subset
<1>5. x \in DOMAIN f /\ (x \in DOMAIN e => w[x] = e[x].count /\ v[x] = w[x] + 1) /\ (x \notin DOMAIN e => v[x] = 1)
  <2> HIDE DEF x, w, v
  <2> QED
    BY <1>1, <1>3
<1>6. \A y \in DOMAIN e \ {x} : v[y] = w[y]
  <2> HIDE DEF x, w, v
  <2> QED
    BY <1>1, <1>3
<1>7. CASE r.severity = severity
  <2>1. C = B \cup {x} /\ (x \in B <=> x \in DOMAIN e)
    BY <1>1, <1>2, <1>7 DEF OfSeverity
  <2> HIDE DEF B, C, w, v, x
  <2>2. SumFunctionOnSet(v, B \cup {x}) = SumFunctionOnSet(w, B) + v[x] - (IF x \in B THEN w[x] ELSE 0)
    <3>1. /\ \A y \in B : w[y] \in Nat
          /\ v[x] \in Nat
          /\ \A y \in B \ {x} : v[y] = w[y]
      BY <1>3, <1>4, <1>5, <1>6
    <3> QED
      BY <1>4, <3>1, MoreOnSet
  <2>3. SumFunctionOnSet(w, B) \in Nat
    <3>1. \A y \in B : w[y] \in Nat
      BY <1>3, <1>4
    <3> QED
      BY <1>4, <3>1, OneOnSet
  <2>4. v[x] - (IF x \in B THEN w[x] ELSE 0) = 1 /\ v[x] \in Nat /\ (x \in B => w[x] \in Nat)
    BY <1>3, <1>4, <1>5, <2>1
  <2>5. SumFunctionOnSet(v, C) = SumFunctionOnSet(w, B) + 1
    BY <2>1, <2>2, <2>3, <2>4
  <2> QED
    BY <1>7, <2>5 DEF Flag, B, C, w, v
<1>8. CASE r.severity # severity
  <2>1. C = B /\ x \notin B
    BY <1>1, <1>2, <1>8 DEF OfSeverity
  <2> HIDE DEF B, C, w, v, x
  <2>2. \A y \in B : w[y] \in Nat /\ v[y] = w[y]
    BY <1>3, <1>4, <1>6, <2>1
  <2>3. SumFunctionOnSet(v, B) = SumFunctionOnSet(w, B)
    BY <1>4, <2>2, SameOnSet
  <2>4. SumFunctionOnSet(w, B) \in Nat
    BY <1>4, <2>2, OneOnSet
  <2>5. SumFunctionOnSet(v, C) = SumFunctionOnSet(w, B) + 0
    BY <2>1, <2>3, <2>4
  <2> QED
    BY <1>8, <2>5 DEF Flag, B, C, w, v
<1> QED
  BY <1>7, <1>8

LEMMA ReportKeeps ==
    ASSUME NEW e, NEW c, NEW reps, ErrorsHeld(e, c, reps), NEW r \in ErrorReports, NEW f, Reporting(f, e, r),
           NEW d, d.total = c.total + 1, d.critical = c.critical + Flag(r.severity = "critical"),
           d.warning = c.warning + Flag(r.severity = "warning")
    PROVE  ErrorsHeld(f, d, Append(reps, r))
<1> DEFINE more == Append(reps, r)
           n == Len(reps)
           x == r.code
<1>1. /\ reps \in Seq(ErrorReports) /\ IsFiniteSet(DOMAIN e) /\ DOMAIN e = CodesOf(reps)
      /\ \A code \in DOMAIN e : e[code] \in Tracked
      /\ \A code \in DOMAIN e : e[code].count = Summed(reps, CodeFlags(code))
      /\ \A code \in DOMAIN e : KeepsFirst(e, reps, code)
      /\ c.total = n /\ c.total = SumFunctionOnSet(CountsOf(e), DOMAIN e)
  BY DEF ErrorsHeld
<1>2. /\ DOMAIN f = DOMAIN e \cup {x}
      /\ \A code \in DOMAIN e \ {x} : f[code] = e[code]
      /\ \A code \in DOMAIN f : f[code] \in Tracked
      /\ x \in DOMAIN e => /\ f[x].count = e[x].count + 1 /\ f[x].module = e[x].module
                           /\ f[x].severity = e[x].severity
      /\ x \notin DOMAIN e => f[x].count = 1 /\ f[x].module = r.module /\ f[x].severity = r.severity
  <2>1. AfterReport(f, e, r)
    BY <1>1, RecordedIs
  <2> QED
    BY <2>1 DEF AfterReport
<1>0. reps \in Seq(ErrorReports)
  BY <1>1
<1>3. n \in Nat /\ more \in Seq(ErrorReports) /\ DOMAIN more = 1..(n + 1) /\ more[n + 1] = r /\ Len(more) = n + 1
  BY <1>0
<1>4. \A i \in 1..n : more[i] = reps[i]
  BY <1>0
<1>5. DOMAIN reps = 1..n
  BY <1>0
<1> HIDE DEF more, n
<1>6. \A i \in 1..n : i \in 1..(n + 1) /\ i # n + 1
  BY <1>3
<1>7. \A i \in 1..(n + 1) : i = n + 1 \/ i \in 1..n
  BY <1>3
<1>8. DOMAIN f = CodesOf(more)
  <2>1. CodesOf(more) = CodesOf(reps) \cup {x}
    <3>1. n + 1 \in 1..(n + 1)
      BY <1>3
    <3>2. more[n + 1].code = x
      BY <1>3
    <3>3. ASSUME NEW i \in 1..(n + 1) PROVE more[i].code \in CodesOf(reps) \cup {x}
      BY <1>4, <1>5, <1>7, <3>2 DEF CodesOf
    <3>4. ASSUME NEW i \in 1..n PROVE reps[i].code \in CodesOf(more)
      <4>1. i \in DOMAIN more /\ more[i] = reps[i]
        BY <1>3, <1>4, <1>6
      <4> QED
        BY <4>1 DEF CodesOf
    <3>5. x \in CodesOf(more)
      <4>1. \E i \in DOMAIN more : x = more[i].code
        BY <1>3, <3>1, <3>2
      <4> HIDE DEF x
      <4> QED
        BY <4>1, Zenon DEF CodesOf
    <3>6. \A y \in CodesOf(more) : \E i \in 1..(n + 1) : y = more[i].code
      BY <1>3 DEF CodesOf
    <3>7. \A y \in CodesOf(reps) : \E i \in 1..n : y = reps[i].code
      BY <1>5 DEF CodesOf
    <3> HIDE DEF x
    <3> QED
      BY <3>3, <3>4, <3>5, <3>6, <3>7, Zenon
  <2> QED
    BY <1>1, <1>2, <2>1
<1>9. IsFiniteSet(DOMAIN f)
  BY <1>1, <1>2, FS_AddElement
<1>10. ASSUME NEW code \in DOMAIN f PROVE f[code].count = Summed(more, CodeFlags(code))
  <2>1. Summed(more, CodeFlags(code)) = Summed(reps, CodeFlags(code)) + CodeFlags(code)[r]
    BY <1>1, FlagsFit, OneMoreSummed DEF more
  <2>2. Summed(reps, CodeFlags(code)) \in Nat
    BY <1>1, FlagsFit, SummedWithin
  <2>3. CASE code = x /\ x \in DOMAIN e
    <3>1. CodeFlags(code)[r] = 1
      BY <2>3 DEF CodeFlags, Flag
    <3>2. f[code].count = Summed(reps, CodeFlags(code)) + 1
      <4> HIDE DEF x
      <4> QED
        BY <1>1, <1>2, <2>3
    <3> QED
      BY <2>1, <3>1, <3>2
  <2>4. CASE code = x /\ x \notin DOMAIN e
    <3>1. CodeFlags(code)[r] = 1
      BY <2>4 DEF CodeFlags, Flag
    <3>2. Summed(reps, CodeFlags(code)) = 0
      <4>1. ASSUME NEW i \in DOMAIN reps PROVE CodeFlags(code)[reps[i]] = 0
        <5>1. reps[i] \in ErrorReports /\ reps[i].code # code
          BY <1>1, <2>4 DEF CodesOf
        <5> QED
          BY <5>1 DEF CodeFlags, Flag
      <4> QED
        BY <1>1, <4>1, FlagsFit, SummedWithin
    <3>3. f[code].count = 1
      <4> HIDE DEF x
      <4> QED
        BY <1>2, <2>4
    <3> QED
      BY <2>1, <3>1, <3>2, <3>3
  <2>5. CASE code # x
    <3>1. CodeFlags(code)[r] = 0
      BY <2>5 DEF CodeFlags, Flag
    <3>2. f[code].count = Summed(reps, CodeFlags(code))
      <4> HIDE DEF x
      <4> QED
        BY <1>1, <1>2, <2>5
    <3> QED
      BY <2>1, <2>2, <3>1, <3>2
  <2> QED
    BY <2>3, <2>4, <2>5
<1>11. ASSUME NEW code \in DOMAIN f PROVE KeepsFirst(f, more, code)
  <2> HIDE DEF x
  <2>1. CASE code \in DOMAIN e
    <3>1. f[code].severity = e[code].severity /\ f[code].module = e[code].module
      BY <1>2, <2>1
    <3>2. PICK i \in 1..n : /\ reps[i].code = code /\ \A j \in 1..(i - 1) : reps[j].code # code
                            /\ e[code].severity = reps[i].severity /\ e[code].module = reps[i].module
      <4>1. KeepsFirst(e, reps, code)
        BY <1>1, <2>1
      <4> QED
        BY <1>5, <4>1 DEF KeepsFirst
    <3>3. \A j \in 1..(i - 1) : j \in 1..n
      BY <1>3
    <3>4. more[i] = reps[i] /\ i \in DOMAIN more /\ \A j \in 1..(i - 1) : more[j].code # code
      BY <1>3, <1>4, <1>6, <3>2, <3>3, Zenon
    <3> QED
      BY <3>1, <3>2, <3>4, Zenon DEF KeepsFirst
  <2>2. CASE code \notin DOMAIN e
    <3>1. code = x /\ f[code].severity = r.severity /\ f[code].module = r.module
      BY <1>2, <2>2
    <3>2. \A j \in 1..n : reps[j].code # code
      BY <1>1, <1>5, <2>2 DEF CodesOf
    <3>3. n + 1 \in DOMAIN more /\ more[n + 1].code = code /\ n + 1 - 1 = n
      BY <1>3, <3>1 DEF x
    <3>4. \A j \in 1..n : more[j].code # code
      BY <1>4, <3>2, Zenon
    <3>5. PICK i \in DOMAIN more : i = n + 1 /\ i - 1 = n
      BY <1>3, <3>3
    <3>6. \A j \in 1..(i - 1) : more[j].code # code
      BY <3>4, <3>5, Zenon
    <3>7. more[i] = r
      BY <1>3, <3>5
    <3> QED
      BY <3>1, <3>3, <3>5, <3>6, <3>7, Zenon DEF KeepsFirst
  <2> QED
    BY <2>1, <2>2
<1>12. d.total = Len(more) /\ d.total = SumFunctionOnSet(CountsOf(f), DOMAIN f)
  <2> DEFINE w == CountsOf(e)
             v == CountsOf(f)
  <2>1. /\ \A y \in DOMAIN e : w[y] = e[y].count /\ w[y] \in Nat
        /\ \A y \in DOMAIN f : v[y] = f[y].count /\ v[y] \in Nat
    BY <1>1, <1>2 DEF CountsOf, Tracked
  <2> HIDE DEF w, v, x
  <2>2. x \in DOMAIN f
    BY <1>2
  <2>3. \A y \in DOMAIN e \ {x} : v[y] = w[y]
    BY <1>2, <2>1
  <2>4. v[x] = (IF x \in DOMAIN e THEN w[x] ELSE 0) + 1 /\ v[x] \in Nat /\ (x \in DOMAIN e => w[x] \in Nat)
    BY <1>2, <2>1, <2>2
  <2>5. SumFunctionOnSet(v, DOMAIN e \cup {x}) = SumFunctionOnSet(w, DOMAIN e) + v[x] - (IF x \in DOMAIN e THEN w[x] ELSE 0)
    <3>1. IsFiniteSet(DOMAIN e) /\ \A y \in DOMAIN e : w[y] \in Nat
      BY <1>1, <2>1
    <3>2. v[x] \in Nat
      BY <2>4
    <3> QED
      BY <2>3, <3>1, <3>2, MoreOnSet
  <2>6. SumFunctionOnSet(w, DOMAIN e) = n
    BY <1>1 DEF w
  <2>7. SumFunctionOnSet(v, DOMAIN f) = n + 1
    BY <1>2, <1>3, <2>4, <2>5, <2>6
  <2> QED
    BY <1>1, <1>3, <2>7 DEF v
<1>13. Steady(more) => /\ d.critical = SumFunctionOnSet(CountsOf(f), OfSeverity(f, "critical"))
                       /\ d.warning = SumFunctionOnSet(CountsOf(f), OfSeverity(f, "warning"))
  <2> SUFFICES ASSUME Steady(more)
               PROVE  /\ d.critical = SumFunctionOnSet(CountsOf(f), OfSeverity(f, "critical"))
                      /\ d.warning = SumFunctionOnSet(CountsOf(f), OfSeverity(f, "warning"))
    OBVIOUS
  <2>1. Steady(reps)
    <3> SUFFICES ASSUME NEW i \in 1..n, NEW j \in 1..n, reps[i].code = reps[j].code
                 PROVE  reps[i].severity = reps[j].severity
      BY <1>5 DEF Steady
    <3>1. i \in DOMAIN more /\ j \in DOMAIN more /\ more[i] = reps[i] /\ more[j] = reps[j]
      BY <1>3, <1>4, <1>6
    <3> QED
      BY <3>1 DEF Steady
  <2>2. /\ c.critical = SumFunctionOnSet(CountsOf(e), OfSeverity(e, "critical"))
        /\ c.warning = SumFunctionOnSet(CountsOf(e), OfSeverity(e, "warning"))
    BY <2>1 DEF ErrorsHeld
  <2>3. \A severity : SumFunctionOnSet(CountsOf(f), OfSeverity(f, severity)) =
              SumFunctionOnSet(CountsOf(e), OfSeverity(e, severity)) + Flag(r.severity = severity)
    BY <1>1, SeverityCounts DEF more
  <2> QED
    BY <2>2, <2>3
<1> QED
  BY <1>2, <1>3, <1>8, <1>9, <1>10, <1>11, <1>12, <1>13 DEF ErrorsHeld, more

LEMMA NoErrorsHeld == ErrorsHeld(<<>>, NoErrorCounts, <<>>)
<1>1. <<>> \in Seq(ErrorReports) /\ DOMAIN <<>> = {} /\ Len(<<>>) = 0
  OBVIOUS
<1>2. IsFiniteSet({})
  BY FS_EmptySet
<1>3. CodesOf(<<>>) = {} /\ \A severity : OfSeverity(<<>>, severity) = {}
  BY <1>1 DEF CodesOf, OfSeverity
<1>4. NoErrorCounts.total = 0 /\ NoErrorCounts.critical = 0 /\ NoErrorCounts.warning = 0
  BY DEF NoErrorCounts
<1>5. \A w : SumFunctionOnSet(w, {}) = 0
  BY NoneOnSet
<1> QED
  BY <1>1, <1>2, <1>3, <1>4, <1>5, Zenon DEF ErrorsHeld

(* A strict total order of a finite set, and how many come before a member. *)
Orders(order, S) ==
    \A x, y \in S :
       /\ <<x, y>> \in order => <<y, x>> \notin order
       /\ x = y \/ <<x, y>> \in order \/ <<y, x>> \in order
       /\ \A z \in S : <<x, y>> \in order /\ <<y, z>> \in order => <<x, z>> \in order

Before(order, S, x) == {y \in S : <<y, x>> \in order}

LEMMA BeforeGrows ==
    ASSUME NEW S, IsFiniteSet(S), NEW order, Orders(order, S), NEW x \in S, NEW y \in S, <<x, y>> \in order
    PROVE  Cardinality(Before(order, S, x)) < Cardinality(Before(order, S, y))
<1> DEFINE X == Before(order, S, x)
           Y == Before(order, S, y)
<1>1. X \in SUBSET Y
  BY DEF Before, Orders
<1>2. x \in Y /\ x \notin X
  BY DEF Before, Orders
<1>3. Y \in SUBSET S
  BY DEF Before
<1> HIDE DEF X, Y
<1>4. IsFiniteSet(Y) /\ Cardinality(Y) \in Nat
  BY <1>3, FS_Subset, FS_CardinalityType
<1>5. /\ IsFiniteSet(X) /\ Cardinality(X) \in Nat
      /\ Cardinality(X) <= Cardinality(Y) /\ (Cardinality(Y) = Cardinality(X) => Y = X)
  BY <1>1, <1>4, FS_Subset, FS_CardinalityType
<1> QED
  BY <1>2, <1>4, <1>5 DEF X, Y

LEMMA BeforeFits ==
    ASSUME NEW S, IsFiniteSet(S), NEW order, Orders(order, S)
    PROVE  /\ \A x \in S : Cardinality(Before(order, S, x)) \in 0..(Cardinality(S) - 1)
           /\ \A m \in 0..(Cardinality(S) - 1) : \E x \in S : Cardinality(Before(order, S, x)) = m
           /\ \A x, y \in S : Cardinality(Before(order, S, x)) = Cardinality(Before(order, S, y)) => x = y
<1> DEFINE n == Cardinality(S)
           rank == [x \in S |-> Cardinality(Before(order, S, x))]
<1>1. n \in Nat
  BY FS_CardinalityType
<1>2. rank \in [S -> 0..n - 1]
  <2> SUFFICES ASSUME NEW x \in S PROVE Cardinality(Before(order, S, x)) \in 0..n - 1
    OBVIOUS
  <2> DEFINE X == Before(order, S, x)
  <2>1. X \in SUBSET S /\ x \notin X
    BY DEF Before, Orders
  <2> HIDE DEF X
  <2>2. IsFiniteSet(X) /\ Cardinality(X) <= n /\ (n = Cardinality(X) => S = X)
    BY <2>1, FS_Subset
  <2>3. Cardinality(X) \in Nat
    BY <2>2, FS_CardinalityType
  <2>4. Cardinality(X) # n
    BY <2>1, <2>2
  <2> HIDE DEF n
  <2>5. Cardinality(X) \in 0..n - 1
    BY <1>1, <2>2, <2>3, <2>4
  <2> QED
    BY <2>5 DEF X
<1>3. \A x, y \in S : <<x, y>> \in order => rank[x] < rank[y]
  BY BeforeGrows
<1>4. \A x, y \in S : rank[x] = rank[y] => x = y
  <2> SUFFICES ASSUME NEW x \in S, NEW y \in S, x # y PROVE rank[x] # rank[y]
    OBVIOUS
  <2>1. <<x, y>> \in order \/ <<y, x>> \in order
    BY DEF Orders
  <2>2. rank[x] \in Int /\ rank[y] \in Int
    BY <1>2
  <2> HIDE DEF rank
  <2> QED
    BY <1>3, <2>1, <2>2
<1>5. rank \in Surjection(S, 0..n - 1)
  <2>1. IsFiniteSet(0..n - 1) /\ Cardinality(0..n - 1) = n
    <3> HIDE DEF n
    <3>1. 0 \in Int /\ n - 1 \in Int /\ (0 > n - 1 => n = 0) /\ (n - 1) - 0 + 1 = n
      BY <1>1
    <3> QED
      BY <3>1, FS_Interval
  <2> HIDE DEF rank
  <2>2. rank \in Injection(S, 0..n - 1)
    BY <1>2, <1>4 DEF Injection, IsInjective
  <2> QED
    BY <2>1, <2>2, FS_Injection
<1>6. \A m \in 0..n - 1 : \E x \in S : rank[x] = m
  <2> HIDE DEF rank, n
  <2> QED
    BY <1>5 DEF Surjection
<1>7. \A x \in S : rank[x] = Cardinality(Before(order, S, x))
  OBVIOUS
<1> HIDE DEF rank
<1> QED
  BY <1>2, <1>4, <1>6, <1>7

(* The first n are n, and come before the others. *)
LEMMA FirstsAre ==
    ASSUME NEW S, IsFiniteSet(S), NEW order, Orders(order, S), NEW n \in 0..Cardinality(S), NEW T,
           T = {x \in S : Cardinality(Before(order, S, x)) < n}
    PROVE  Cardinality(T) = n /\ \A x \in T, y \in S \ T : <<x, y>> \in order
<1> DEFINE rank == [x \in T |-> Cardinality(Before(order, S, x))]
<1>0. Cardinality(S) \in Nat
  BY FS_CardinalityType
<1>1. /\ \A x \in S : Cardinality(Before(order, S, x)) \in 0..(Cardinality(S) - 1)
      /\ \A m \in 0..(Cardinality(S) - 1) : \E x \in S : Cardinality(Before(order, S, x)) = m
      /\ \A x, y \in S : Cardinality(Before(order, S, x)) = Cardinality(Before(order, S, y)) => x = y
  BY BeforeFits
<1>2. \A x \in T : rank[x] = Cardinality(Before(order, S, x)) /\ x \in S
  OBVIOUS
<1>3. rank \in [T -> 0..n - 1]
  <2> SUFFICES ASSUME NEW x \in T PROVE Cardinality(Before(order, S, x)) \in 0..n - 1
    OBVIOUS
  <2>1. Cardinality(Before(order, S, x)) < n /\ Cardinality(Before(order, S, x)) \in 0..(Cardinality(S) - 1)
    BY <1>1
  <2> QED
    BY <1>0, <2>1
<1>4. \A m \in 0..n - 1 : \E x \in T : Cardinality(Before(order, S, x)) = m
  <2> SUFFICES ASSUME NEW m \in 0..n - 1 PROVE \E x \in T : Cardinality(Before(order, S, x)) = m
    OBVIOUS
  <2>1. m \in 0..(Cardinality(S) - 1) /\ m < n
    BY <1>0
  <2>2. PICK x \in S : Cardinality(Before(order, S, x)) = m
    BY <1>1, <2>1
  <2> QED
    BY <2>1, <2>2
<1>5. IsFiniteSet(T)
  BY FS_Subset
<1>6. rank \in Bijection(T, 0..n - 1)
  <2>1. \A x, y \in T : rank[x] = rank[y] => x = y
    BY <1>1, <1>2
  <2>2. \A m \in 0..n - 1 : \E x \in T : rank[x] = m
    BY <1>2, <1>4
  <2> HIDE DEF rank
  <2> QED
    BY <1>3, <2>1, <2>2 DEF Bijection, Injection, IsInjective, Surjection
<1>7. Cardinality(T) = n
  <2>1. Cardinality(0..n - 1) = n
    <3>1. 0 \in Int /\ n - 1 \in Int /\ (0 > n - 1 => n = 0) /\ (n - 1) - 0 + 1 = n
      BY <1>0
    <3> QED
      BY <3>1, FS_Interval
  <2>2. ExistsBijection(T, 0..n - 1)
    BY <1>6 DEF ExistsBijection
  <2> QED
    BY <1>5, <2>1, <2>2, FS_Bijection
<1>8. ASSUME NEW x \in T, NEW y \in S \ T PROVE <<x, y>> \in order
  <2>1. x \in S /\ x # y /\ Cardinality(Before(order, S, x)) < n /\ ~(Cardinality(Before(order, S, y)) < n)
    OBVIOUS
  <2>2. Cardinality(Before(order, S, x)) \in Int /\ Cardinality(Before(order, S, y)) \in Int
    BY <1>1, <2>1
  <2>3. ASSUME <<y, x>> \in order PROVE FALSE
    <3>1. Cardinality(Before(order, S, y)) < Cardinality(Before(order, S, x))
      BY <2>1, <2>3, BeforeGrows
    <3> QED
      BY <1>0, <2>1, <2>2, <3>1
  <2> QED
    BY <2>1, <2>3 DEF Orders
<1> QED
  BY <1>7, <1>8

LEMMA OftenerOrders ==
    ASSUME NEW S, S \subseteq DOMAIN errors, \A code \in S : code \in Nat /\ errors[code].count \in Nat,
           NEW order, order = {p \in S \X S : Oftener(p[1], p[2])}
    PROVE  Orders(order, S)
<1>1. \A x, y \in S : <<x, y>> \in order <=> Oftener(x, y)
  OBVIOUS
<1>2. ASSUME NEW x \in S, NEW y \in S
      PROVE  (Oftener(x, y) => ~Oftener(y, x)) /\ (x = y \/ Oftener(x, y) \/ Oftener(y, x))
  BY DEF Oftener
<1>3. ASSUME NEW x \in S, NEW y \in S, NEW z \in S, Oftener(x, y), Oftener(y, z) PROVE Oftener(x, z)
  BY <1>3 DEF Oftener
<1>4. ASSUME NEW x \in S, NEW y \in S
      PROVE  /\ <<x, y>> \in order => <<y, x>> \notin order
             /\ x = y \/ <<x, y>> \in order \/ <<y, x>> \in order
             /\ \A z \in S : <<x, y>> \in order /\ <<y, z>> \in order => <<x, z>> \in order
  BY <1>1, <1>2, <1>3, Zenon
<1> QED
  BY <1>4, Zenon DEF Orders

LEMMA HeldIsCounted == ASSUME ErrorsHeld(errors, errorCounts, reported) PROVE ErrorsCounted
<1> DEFINE S == DOMAIN errors
           order == {p \in S \X S : Oftener(p[1], p[2])}
           times(code) == Summed(reported, CodeFlags(code))
<1>1. /\ reported \in Seq(ErrorReports) /\ IsFiniteSet(S) /\ S = CodesOf(reported)
      /\ \A code \in S : errors[code] \in Tracked
      /\ \A code \in S : errors[code].count = times(code)
      /\ \A code \in S : KeepsFirst(errors, reported, code)
      /\ errorCounts.total = Len(reported) /\ errorCounts.total = SumFunctionOnSet(CountsOf(errors), S)
      /\ Steady(reported) => /\ errorCounts.critical = SumFunctionOnSet(CountsOf(errors), OfSeverity(errors, "critical"))
                             /\ errorCounts.warning = SumFunctionOnSet(CountsOf(errors), OfSeverity(errors, "warning"))
  BY DEF ErrorsHeld
<1>2. \A code \in S : code \in Nat /\ errors[code].count \in Nat
  <2>1. \A code \in S : errors[code].count \in Nat
    BY <1>1 DEF Tracked
  <2>2. \A i \in DOMAIN reported : reported[i].code \in Nat
    <3>1. \A i \in DOMAIN reported : reported[i] \in ErrorReports
      BY <1>1
    <3> QED
      BY <3>1, MeteringAssumption
  <2>3. \A code \in S : \E i \in DOMAIN reported : code = reported[i].code
    BY <1>1 DEF CodesOf
  <2> HIDE DEF S
  <2> QED
    BY <2>1, <2>2, <2>3
<1>3. \A x, y \in S : <<x, y>> \in order <=> Oftener(x, y)
  OBVIOUS
<1>4. Orders(order, S)
  <2> HIDE DEF order
  <2> QED
    BY <1>2, OftenerOrders DEF order
<1> HIDE DEF order, times
<1>5. ASSUME NEW n \in 0..Cardinality(S)
      PROVE  Cardinality(Top(n)) = n /\ \A top \in Top(n), other \in S \ Top(n) : times(other) <= times(top)
  <2>1. Top(n) = {x \in S : Cardinality(Before(order, S, x)) < n}
    <3>1. \A x \in S : Before(order, S, x) = {other \in S : Oftener(other, x)}
      BY <1>3 DEF Before
    <3> QED
      BY <3>1 DEF Top
  <2>2. Cardinality(Top(n)) = n /\ \A x \in Top(n), y \in S \ Top(n) : <<x, y>> \in order
    <3>1. IsFiniteSet(S)
      BY <1>1
    <3> HIDE DEF S
    <3> QED
      BY <1>4, <2>1, <3>1, FirstsAre
  <2>3. ASSUME NEW x \in Top(n), NEW y \in S \ Top(n) PROVE times(y) <= times(x)
    <3>1. x \in S /\ y \in S
      BY <2>1
    <3>2. Oftener(x, y)
      BY <1>3, <2>2, <3>1
    <3>3. errors[y].count <= errors[x].count
      BY <1>2, <3>1, <3>2 DEF Oftener
    <3> QED
      BY <1>1, <3>1, <3>3
  <2> QED
    BY <2>2, <2>3
<1>6. ASSUME NEW code \in S
      PROVE  /\ errors[code].count = times(code)
             /\ \E i \in DOMAIN reported :
                   /\ reported[i].code = code /\ \A j \in 1..(i - 1) : reported[j].code # code
                   /\ code \in BySeverity(reported[i].severity) \cap ByModule(reported[i].module)
  <2>1. KeepsFirst(errors, reported, code) /\ errors[code].count = times(code)
    BY <1>1
  <2> QED
    BY <2>1 DEF KeepsFirst, BySeverity, ByModule
<1>7. \A severity : OfSeverity(errors, severity) = BySeverity(severity)
  BY DEF OfSeverity, BySeverity
<1>8. Steady(reported) => /\ errorCounts.critical = SumFunctionOnSet(CountsOf(errors), BySeverity("critical"))
                          /\ errorCounts.warning = SumFunctionOnSet(CountsOf(errors), BySeverity("warning"))
  BY <1>1, <1>7
<1>9. S = {reported[i].code : i \in DOMAIN reported}
  BY <1>1 DEF CodesOf
<1>10. errorCounts.total = Len(reported) /\ errorCounts.total = SumFunctionOnSet(CountsOf(errors), S)
  BY <1>1
<1> QED
  BY <1>5, <1>6, <1>8, <1>9, <1>10, Zenon DEF ErrorsCounted, times, CodeFlags, CountsOf, Steady

-----------------------------------------------------------------------------
(* The metrics. *)

IsMine(u, kind, name) == u.kind = kind /\ u.name = name
TimesUsed(kind, name) == [u \in Uses |-> Flag(u.kind = kind /\ u.name = name)]
ValuesOf(kind, name) == [u \in Uses |-> IF u.kind = kind /\ u.name = name THEN u.value ELSE 0]
Above(kind, name, b) == [u \in Uses |-> Flag(u.kind = kind /\ u.name = name /\ u.value > b)]

IsLast(us, kind, name, value) ==
    \E i \in DOMAIN us :
       /\ IsMine(us[i], kind, name) /\ value = us[i].value
       /\ \A j \in (i + 1)..Len(us) : ~IsMine(us[j], kind, name)

HistogramIs(us, name, h) ==
    /\ h.count \in Nat /\ h.sum \in Nat /\ \A b \in BucketBounds : h.buckets[b] \in Nat
    /\ h.count = Summed(us, TimesUsed("histogram", name)) /\ h.sum = Summed(us, ValuesOf("histogram", name))
    /\ \A b, c \in BucketBounds : b <= c => h.buckets[b] <= h.buckets[c]
    /\ \A b \in BucketBounds : h.count - h.buckets[b] = Summed(us, Above("histogram", name, b))

MetricIs(us, kind, name, metric) ==
    /\ kind = "counter" => metric = Summed(us, ValuesOf(kind, name))
    /\ kind = "gauge" => IsLast(us, kind, name, metric)
    /\ kind = "histogram" => HistogramIs(us, name, metric)

LEMMA WeightsFit ==
    /\ \A kind, name : TimesUsed(kind, name) \in [Uses -> Nat] /\ TimesUsed(kind, name) \in [Uses -> Int]
    /\ \A kind, name : ValuesOf(kind, name) \in [Uses -> Nat] /\ ValuesOf(kind, name) \in [Uses -> Int]
    /\ \A kind, name, b : Above(kind, name, b) \in [Uses -> Nat] /\ Above(kind, name, b) \in [Uses -> Int]
<1>1. \A u \in Uses : u.value \in Nat
  BY MeteringAssumption DEF Uses
<1> QED
  BY <1>1 DEF TimesUsed, ValuesOf, Above, Flag

LEMMA UseAdded ==
    ASSUME NEW us \in Seq(Uses), NEW u \in Uses, NEW w \in [Uses -> Nat]
    PROVE  Summed(Append(us, u), w) = Summed(us, w) + w[u] /\ Summed(us, w) \in Nat /\ w[u] \in Nat
<1>1. w \in [Uses -> Int]
  OBVIOUS
<1>2. Summed(Append(us, u), w) = Summed(us, w) + w[u]
  BY <1>1, OneMoreSummed
<1>3. Summed(us, w) \in Nat
  BY SummedWithin
<1> QED
  BY <1>2, <1>3

LEMMA OtherUse ==
    ASSUME NEW us \in Seq(Uses), NEW u \in Uses, NEW kind, NEW name, ~IsMine(u, kind, name), NEW metric,
           MetricIs(us, kind, name, metric)
    PROVE  MetricIs(Append(us, u), kind, name, metric)
<1> DEFINE more == Append(us, u)
           n == Len(us)
<1>1. /\ n \in Nat /\ DOMAIN us = 1..n /\ DOMAIN more = 1..(n + 1) /\ Len(more) = n + 1 /\ more[n + 1] = u
      /\ \A i \in 1..n : more[i] = us[i]
  OBVIOUS
<1>2. /\ TimesUsed(kind, name)[u] = 0 /\ ValuesOf(kind, name)[u] = 0 /\ \A b : Above(kind, name, b)[u] = 0
  BY DEF TimesUsed, ValuesOf, Above, IsMine, Flag
<1>3. /\ Summed(more, TimesUsed(kind, name)) = Summed(us, TimesUsed(kind, name))
      /\ Summed(more, ValuesOf(kind, name)) = Summed(us, ValuesOf(kind, name))
      /\ \A b : Summed(more, Above(kind, name, b)) = Summed(us, Above(kind, name, b))
  <2>1. ASSUME NEW w \in [Uses -> Nat], w[u] = 0 PROVE Summed(more, w) = Summed(us, w)
    BY <2>1, UseAdded
  <2> HIDE DEF more
  <2> QED
    BY <1>2, <2>1, WeightsFit
<1> HIDE DEF more, n
<1>4. IsLast(us, kind, name, metric) => IsLast(more, kind, name, metric)
  <2> SUFFICES ASSUME IsLast(us, kind, name, metric) PROVE IsLast(more, kind, name, metric)
    OBVIOUS
  <2>1. PICK i \in 1..n : /\ IsMine(us[i], kind, name) /\ metric = us[i].value
                          /\ \A j \in (i + 1)..n : ~IsMine(us[j], kind, name)
    BY <1>1 DEF IsLast, n
  <2>2. i \in DOMAIN more /\ more[i] = us[i]
    BY <1>1
  <2>3. ASSUME NEW j \in (i + 1)..(n + 1) PROVE ~IsMine(more[j], kind, name)
    <3>1. CASE j = n + 1
      BY <1>1, <3>1
    <3>2. CASE j # n + 1
      <4>1. j \in (i + 1)..n /\ j \in 1..n
        BY <1>1, <3>2
      <4> QED
        BY <1>1, <2>1, <4>1
    <3> QED
      BY <3>1, <3>2
  <2> QED
    BY <1>1, <2>1, <2>2, <2>3 DEF IsLast
<1>5. CASE kind = "histogram"
  <2>1. HistogramIs(us, name, metric)
    BY <1>5 DEF MetricIs
  <2>2. HistogramIs(more, name, metric)
    BY <1>3, <1>5, <2>1 DEF HistogramIs
  <2> QED
    BY <1>5, <2>2 DEF MetricIs, more
<1>6. CASE kind # "histogram"
  BY <1>3, <1>4, <1>6 DEF MetricIs, more
<1> QED
  BY <1>5, <1>6

LEMMA FirstUse ==
    ASSUME NEW us \in Seq(Uses), NEW name, \A i \in DOMAIN us : ~IsMine(us[i], "counter", name) PROVE
           MetricIs(us, "counter", name, NewMetric("counter"))
<1>1. \A i \in DOMAIN us : ValuesOf("counter", name)[us[i]] = 0
  <2> SUFFICES ASSUME NEW i \in DOMAIN us PROVE ValuesOf("counter", name)[us[i]] = 0
    OBVIOUS
  <2>1. us[i] \in Uses /\ ~IsMine(us[i], "counter", name)
    OBVIOUS
  <2> QED
    BY <2>1 DEF ValuesOf, IsMine
<1>2. Summed(us, ValuesOf("counter", name)) = 0
  BY <1>1, WeightsFit, SummedWithin
<1> QED
  BY <1>2 DEF MetricIs, NewMetric

LEMMA FirstObservation ==
    ASSUME NEW us \in Seq(Uses), NEW name, \A i \in DOMAIN us : ~IsMine(us[i], "histogram", name) PROVE
           MetricIs(us, "histogram", name, NewMetric("histogram"))
<1>1. ASSUME NEW i \in DOMAIN us
      PROVE  /\ ValuesOf("histogram", name)[us[i]] = 0 /\ TimesUsed("histogram", name)[us[i]] = 0
             /\ \A b : Above("histogram", name, b)[us[i]] = 0
  <2>1. us[i] \in Uses /\ ~IsMine(us[i], "histogram", name)
    OBVIOUS
  <2> QED
    BY <2>1 DEF ValuesOf, TimesUsed, Above, IsMine, Flag
<1>2. /\ Summed(us, ValuesOf("histogram", name)) = 0 /\ Summed(us, TimesUsed("histogram", name)) = 0
      /\ \A b : Summed(us, Above("histogram", name, b)) = 0
  BY <1>1, WeightsFit, SummedWithin
<1>3. HistogramIs(us, name, NewMetric("histogram"))
  BY <1>2 DEF HistogramIs, NewMetric
<1> QED
  BY <1>3 DEF MetricIs

LEMMA OwnUse ==
    ASSUME NEW us \in Seq(Uses), NEW u \in Uses, NEW metric,
           u.kind = "gauge" \/ MetricIs(us, u.kind, u.name, metric)
    PROVE  MetricIs(Append(us, u), u.kind, u.name, Updated(u.kind, metric, u.value))
<1> DEFINE more == Append(us, u)
           n == Len(us)
<1>1. /\ n \in Nat /\ DOMAIN us = 1..n /\ DOMAIN more = 1..(n + 1) /\ Len(more) = n + 1 /\ more[n + 1] = u
      /\ \A i \in 1..n : more[i] = us[i]
  OBVIOUS
<1>2. u.kind \in MetricKinds /\ u.value \in Nat /\ u.value \in Deltas
  BY MeteringAssumption DEF Uses
<1>3. PICK kind, name : kind = u.kind /\ name = u.name
  OBVIOUS
<1>4. /\ TimesUsed(kind, name)[u] = 1 /\ ValuesOf(kind, name)[u] = u.value
      /\ \A b : Above(kind, name, b)[u] = Flag(u.value > b)
  BY <1>3 DEF TimesUsed, ValuesOf, Above, Flag
<1>5. /\ Summed(more, TimesUsed(kind, name)) = Summed(us, TimesUsed(kind, name)) + 1
      /\ Summed(more, ValuesOf(kind, name)) = Summed(us, ValuesOf(kind, name)) + u.value
      /\ \A b : Summed(more, Above(kind, name, b)) = Summed(us, Above(kind, name, b)) + Flag(u.value > b)
  <2>1. ASSUME NEW w \in [Uses -> Nat] PROVE Summed(more, w) = Summed(us, w) + w[u]
    BY <2>1, UseAdded
  <2> HIDE DEF more
  <2> QED
    BY <1>4, <2>1, WeightsFit
<1> HIDE DEF more, n
<1>6. CASE kind = "counter"
  <2>1. metric = Summed(us, ValuesOf(kind, name))
    BY <1>3, <1>6 DEF MetricIs
  <2>2. Updated(kind, metric, u.value) = metric + u.value
    BY <1>6 DEF Updated
  <2>3. Updated(kind, metric, u.value) = Summed(more, ValuesOf(kind, name))
    BY <1>5, <2>1, <2>2
  <2> QED
    BY <1>3, <1>6, <2>3 DEF MetricIs, more
<1>7. CASE kind = "gauge"
  <2>1. Updated(kind, metric, u.value) = u.value
    BY <1>7 DEF Updated
  <2>2. IsLast(more, kind, name, u.value)
    <3>1. PICK i \in DOMAIN more : i = n + 1
      BY <1>1
    <3>2. (i + 1)..Len(more) = {}
      BY <1>1, <3>1
    <3>3. IsMine(more[i], kind, name) /\ u.value = more[i].value
      BY <1>1, <1>3, <3>1 DEF IsMine
    <3> QED
      BY <3>2, <3>3 DEF IsLast
  <2> QED
    BY <1>3, <1>7, <2>1, <2>2 DEF MetricIs, more
<1>8. CASE kind = "histogram"
  <2>1. HistogramIs(us, name, metric)
    BY <1>3, <1>8 DEF MetricIs
  <2>2. PICK v \in Nat : v = u.value
    BY <1>2
  <2>3. PICK h : h = Observed(metric, v)
    OBVIOUS
  <2>4. /\ h.count = metric.count + 1 /\ h.sum = metric.sum + v
        /\ \A b \in BucketBounds : h.buckets[b] = metric.buckets[b] + Flag(v <= b)
    BY <2>3 DEF Observed
  <2>5. \A b \in BucketBounds : b \in Nat
    BY MeteringAssumption
  <2>6. /\ metric.count \in Nat /\ metric.sum \in Nat /\ \A b \in BucketBounds : metric.buckets[b] \in Nat
        /\ \A b, c \in BucketBounds : b <= c => metric.buckets[b] <= metric.buckets[c]
        /\ metric.count = Summed(us, TimesUsed(kind, name)) /\ metric.sum = Summed(us, ValuesOf(kind, name))
        /\ \A b \in BucketBounds : metric.count - metric.buckets[b] = Summed(us, Above(kind, name, b))
    BY <1>8, <2>1 DEF HistogramIs
  <2>7. h.count \in Nat /\ h.sum \in Nat /\ \A b \in BucketBounds : h.buckets[b] \in Nat
    BY <2>4, <2>6 DEF Flag
  <2>8. ASSUME NEW b \in BucketBounds, NEW c \in BucketBounds, b <= c PROVE h.buckets[b] <= h.buckets[c]
    <3>1. Flag(v <= b) <= Flag(v <= c) /\ Flag(v <= b) \in Nat /\ Flag(v <= c) \in Nat
      BY <2>5, <2>8 DEF Flag
    <3>2. PICK p \in Nat, q \in Nat, x \in Nat, y \in Nat :
               p = metric.buckets[b] /\ q = metric.buckets[c] /\ x = Flag(v <= b) /\ y = Flag(v <= c)
      BY <2>6, <3>1, Zenon
    <3>3. p <= q /\ x <= y
      BY <2>6, <2>8, <3>1, <3>2, Zenon
    <3>4. h.buckets[b] = p + x /\ h.buckets[c] = q + y
      BY <2>4, <3>2, Zenon
    <3> QED
      BY <3>3, <3>4
  <2>9. ASSUME NEW b \in BucketBounds PROVE h.count - h.buckets[b] = Summed(more, Above(kind, name, b))
    <3>1. Flag(v > b) = 1 - Flag(v <= b) /\ Flag(v <= b) \in Nat
      BY <2>5 DEF Flag
    <3>2. Summed(more, Above(kind, name, b)) = Summed(us, Above(kind, name, b)) + Flag(v > b)
      BY <1>5, <2>2
    <3> QED
      BY <2>4, <2>6, <3>1, <3>2
  <2>10. h.count = Summed(more, TimesUsed(kind, name)) /\ h.sum = Summed(more, ValuesOf(kind, name))
    BY <1>5, <2>2, <2>4, <2>6
  <2>11. HistogramIs(more, name, h)
    BY <1>8, <2>7, <2>8, <2>9, <2>10 DEF HistogramIs
  <2>12. h = Updated(kind, metric, u.value)
    BY <1>8, <2>2, <2>3 DEF Updated
  <2> QED
    BY <1>3, <1>8, <2>11, <2>12 DEF MetricIs, more
<1> QED
  BY <1>2, <1>3, <1>6, <1>7, <1>8 DEF MetricKinds

NamesUsed(us, kind) == {name \in {us[i].name : i \in DOMAIN us} : \E i \in DOMAIN us : IsMine(us[i], kind, name)}

MetricsHeld(ms, us) ==
    /\ us \in Seq(Uses)
    /\ ms = [kind \in MetricKinds |-> ms[kind]]
    /\ \A kind \in MetricKinds : DOMAIN ms[kind] = NamesUsed(us, kind)
    /\ \A kind \in MetricKinds : \A name \in DOMAIN ms[kind] : MetricIs(us, kind, name, ms[kind][name])

LEMMA UseKeeps ==
    ASSUME NEW ms, NEW us, MetricsHeld(ms, us), NEW u \in Uses, NEW metric, NEW new,
           metric = IF u.name \in DOMAIN ms[u.kind] THEN ms[u.kind][u.name] ELSE NewMetric(u.kind),
           new = [ms EXCEPT ![u.kind] = Put(ms[u.kind], u.name, Updated(u.kind, metric, u.value))]
    PROVE  MetricsHeld(new, Append(us, u))
<1> DEFINE more == Append(us, u)
           n == Len(us)
<1>0. us \in Seq(Uses)
  BY DEF MetricsHeld
<1>1. /\ n \in Nat /\ DOMAIN us = 1..n /\ DOMAIN more = 1..(n + 1) /\ more[n + 1] = u /\ more \in Seq(Uses)
      /\ \A i \in 1..n : more[i] = us[i]
  BY <1>0
<1>2. PICK x, y : x = u.kind /\ y = u.name
  OBVIOUS
<1>3. x \in MetricKinds /\ IsMine(u, x, y)
  BY <1>2 DEF Uses, IsMine
<1>4. \A kind, name : IsMine(u, kind, name) <=> kind = x /\ name = y
  BY <1>2 DEF IsMine
<1>5. /\ \A kind \in MetricKinds : DOMAIN ms[kind] = NamesUsed(us, kind)
      /\ \A kind \in MetricKinds : \A name \in DOMAIN ms[kind] : MetricIs(us, kind, name, ms[kind][name])
      /\ ms = [kind \in MetricKinds |-> ms[kind]]
  BY DEF MetricsHeld
<1>6. PICK v : v = Updated(x, metric, u.value)
  OBVIOUS
<1>7. /\ new = [kind \in MetricKinds |-> new[kind]]
      /\ \A kind \in MetricKinds \ {x} : new[kind] = ms[kind]
      /\ new[x] = Put(ms[x], y, v)
  <2>1. new = [ms EXCEPT ![x] = Put(ms[x], y, v)]
    BY <1>2, <1>6
  <2> QED
    BY <1>3, <1>5, <2>1
<1>8. DOMAIN new[x] = DOMAIN ms[x] \cup {y} /\ new[x][y] = v /\ \A name \in DOMAIN ms[x] \ {y} : new[x][name] = ms[x][name]
  BY <1>7 DEF Put
<1> HIDE DEF more, n
<1>9. \A kind, name : name \in NamesUsed(more, kind) <=> (name \in NamesUsed(us, kind) \/ (kind = x /\ name = y))
  <2> TAKE kind, name
  <2>1. \A s : name \in NamesUsed(s, kind) <=> \E i \in DOMAIN s : IsMine(s[i], kind, name)
    BY DEF NamesUsed, IsMine
  <2>2. \A i \in 1..(n + 1) : i \in 1..n \/ i = n + 1
    BY <1>1
  <2>3. (\A i \in 1..n : i \in 1..(n + 1)) /\ n + 1 \in 1..(n + 1)
    BY <1>1
  <2>4. (\E i \in DOMAIN more : IsMine(more[i], kind, name)) <=> ((\E i \in 1..n : IsMine(us[i], kind, name)) \/ IsMine(u, kind, name))
    BY <1>1, <2>2, <2>3, Zenon
  <2> QED
    BY <1>1, <1>4, <2>1, <2>4, Zenon
<1>10. ASSUME NEW kind \in MetricKinds PROVE DOMAIN new[kind] = NamesUsed(more, kind)
  <2>1. CASE kind = x
    BY <1>3, <1>5, <1>8, <1>9, <2>1
  <2>2. CASE kind # x
    <3>1. DOMAIN new[kind] = NamesUsed(us, kind)
      BY <1>5, <1>7, <2>2
    <3> QED
      BY <1>9, <2>2, <3>1
  <2> QED
    BY <2>1, <2>2
<1>11. ASSUME NEW kind \in MetricKinds, NEW name \in DOMAIN new[kind], ~(kind = x /\ name = y)
       PROVE  MetricIs(more, kind, name, new[kind][name])
  <2>1. name \in DOMAIN ms[kind] /\ new[kind][name] = ms[kind][name]
    <3>1. CASE kind = x
      BY <1>8, <1>11, <3>1
    <3>2. CASE kind # x
      BY <1>7, <1>11, <3>2
    <3> QED
      BY <3>1, <3>2
  <2>2. MetricIs(us, kind, name, ms[kind][name])
    BY <1>5, <2>1
  <2>3. ~IsMine(u, kind, name)
    BY <1>4, <1>11
  <2>4. MetricIs(more, kind, name, ms[kind][name])
    BY <1>0, <2>2, <2>3, OtherUse DEF more
  <2> QED
    BY <2>1, <2>4
<1>12. MetricIs(more, x, y, v)
  <2>1. x = "gauge" \/ MetricIs(us, x, y, metric)
    <3>1. CASE y \in DOMAIN ms[x]
      <4>1. metric = ms[x][y]
        BY <1>2, <3>1
      <4> QED
        BY <1>3, <1>5, <3>1, <4>1
    <3>2. CASE y \notin DOMAIN ms[x]
      <4>1. metric = NewMetric(x)
        BY <1>2, <3>2
      <4>2. \A i \in DOMAIN us : ~IsMine(us[i], x, y)
        BY <1>3, <1>5, <3>2 DEF NamesUsed, IsMine
      <4>3. CASE x = "counter"
        BY <1>0, <4>1, <4>2, <4>3, FirstUse
      <4>4. CASE x = "histogram"
        BY <1>0, <4>1, <4>2, <4>4, FirstObservation
      <4> QED
        BY <1>3, <4>3, <4>4 DEF MetricKinds
    <3> QED
      BY <3>1, <3>2
  <2>2. MetricIs(more, u.kind, u.name, Updated(u.kind, metric, u.value))
    BY <1>0, <1>2, <2>1, OwnUse DEF more
  <2> QED
    BY <1>2, <1>6, <2>2
<1>13. \A kind \in MetricKinds : \A name \in DOMAIN new[kind] : MetricIs(more, kind, name, new[kind][name])
  BY <1>8, <1>11, <1>12
<1> QED
  BY <1>1, <1>7, <1>10, <1>13 DEF MetricsHeld, more

LEMMA NoMetricsHeld == MetricsHeld(NoMetrics, <<>>)
<1>1. <<>> \in Seq(Uses) /\ DOMAIN <<>> = {}
  OBVIOUS
<1>2. \A kind \in MetricKinds : NoMetrics[kind] = <<>> /\ NamesUsed(<<>>, kind) = {}
  BY <1>1 DEF NoMetrics, NamesUsed
<1>3. NoMetrics = [kind \in MetricKinds |-> NoMetrics[kind]]
  BY DEF NoMetrics
<1> QED
  BY <1>1, <1>2, <1>3 DEF MetricsHeld

LEMMA HeldIsMetered == ASSUME MetricsHeld(metrics, uses), collections >= Len(uses) PROVE MetricsCounted
<1>0. uses \in Seq(Uses)
  BY DEF MetricsHeld
<1>1. /\ \A kind \in MetricKinds : DOMAIN metrics[kind] = NamesUsed(uses, kind)
      /\ \A kind \in MetricKinds : \A name \in DOMAIN metrics[kind] : MetricIs(uses, kind, name, metrics[kind][name])
  BY DEF MetricsHeld
<1>2. UNION {{kind} \X DOMAIN metrics[kind] : kind \in MetricKinds} = {<<uses[i].kind, uses[i].name>> : i \in DOMAIN uses}
  <2>1. ASSUME NEW kind \in MetricKinds, NEW name \in DOMAIN metrics[kind]
        PROVE  <<kind, name>> \in {<<uses[i].kind, uses[i].name>> : i \in DOMAIN uses}
    <3>1. PICK i \in DOMAIN uses : IsMine(uses[i], kind, name)
      BY <1>1, <2>1 DEF NamesUsed
    <3> QED
      BY <3>1 DEF IsMine
  <2>2. ASSUME NEW i \in DOMAIN uses
        PROVE  uses[i].kind \in MetricKinds /\ uses[i].name \in DOMAIN metrics[uses[i].kind]
    <3>1. uses[i] \in Uses
      BY <1>0
    <3>2. uses[i].kind \in MetricKinds
      BY <3>1 DEF Uses
    <3>3. uses[i].name \in NamesUsed(uses, uses[i].kind)
      BY DEF NamesUsed, IsMine
    <3> QED
      BY <1>1, <3>2, <3>3
  <2>3. \A p : p \in UNION {{kind} \X DOMAIN metrics[kind] : kind \in MetricKinds}
               <=> \E kind \in MetricKinds : \E name \in DOMAIN metrics[kind] : p = <<kind, name>>
    OBVIOUS
  <2>4. \A p : p \in {<<uses[i].kind, uses[i].name>> : i \in DOMAIN uses}
               <=> \E i \in DOMAIN uses : p = <<uses[i].kind, uses[i].name>>
    OBVIOUS
  <2> QED
    BY <2>1, <2>2, <2>3, <2>4, Zenon
<1>3. MetricCount = Cardinality({<<uses[i].kind, uses[i].name>> : i \in DOMAIN uses})
  BY <1>2 DEF MetricCount
<1>4. ASSUME NEW name \in DOMAIN metrics["counter"] PROVE MetricCounted("counter", name, metrics["counter"][name])
  <2>1. metrics["counter"][name] = Summed(uses, ValuesOf("counter", name))
    BY <1>1 DEF MetricIs, MetricKinds
  <2> QED
    BY <2>1 DEF MetricCounted, ValuesOf, IsMine
<1>5. ASSUME NEW name \in DOMAIN metrics["gauge"] PROVE MetricCounted("gauge", name, metrics["gauge"][name])
  <2>1. IsLast(uses, "gauge", name, metrics["gauge"][name])
    BY <1>1 DEF MetricIs, MetricKinds
  <2> QED
    BY <2>1 DEF MetricCounted, IsLast, IsMine
<1>6. ASSUME NEW name \in DOMAIN metrics["histogram"]
      PROVE  MetricCounted("histogram", name, metrics["histogram"][name])
  <2>1. PICK metric : metric = metrics["histogram"][name]
    OBVIOUS
  <2>2. HistogramIs(uses, name, metric)
    BY <1>1, <2>1 DEF MetricIs, MetricKinds
  <2>3. MetricCounted("histogram", name, metric)
    BY <2>2 DEF MetricCounted, HistogramIs, TimesUsed, ValuesOf, Above, IsMine
  <2> QED
    BY <2>1, <2>3
<1>7. \A kind \in MetricKinds : \A name \in DOMAIN metrics[kind] : MetricCounted(kind, name, metrics[kind][name])
  BY <1>4, <1>5, <1>6 DEF MetricKinds
<1> QED
  BY <1>3, <1>7 DEF MetricsCounted

-----------------------------------------------------------------------------
(* Analysis runs: what each kind of operation adds up to, and the three together. *)

Three(w) == w["percentile"] + w["rolling_window"] + w["spike_classifier"]

JobPoints == [j \in AnalysisJobs |-> j.points]
JobTimes == [j \in AnalysisJobs |-> j.time]
JobSpikes == [j \in AnalysisJobs |-> j.spikes]

TypeOperations(m) == [k \in Kinds |-> TypeOf(m, k).operations]
TypePoints(m) == [k \in Kinds |-> TypeOf(m, k).points]
TypeTimes(m) == [k \in Kinds |-> TypeOf(m, k).time]

AnalysisHeld(m, jobs) ==
    /\ jobs \in Seq(AnalysisJobs) /\ DOMAIN m.byType \subseteq Kinds
    /\ m.operations \in [Kinds -> Nat] /\ Three(m.operations) = Len(jobs)
    /\ TypeOperations(m) \in [Kinds -> Nat] /\ Three(TypeOperations(m)) = Len(jobs)
    /\ TypePoints(m) \in [Kinds -> Nat] /\ TypeTimes(m) \in [Kinds -> Nat]
    /\ m.points \in Nat /\ m.points = Summed(jobs, JobPoints) /\ m.points = Three(TypePoints(m))
    /\ m.time \in Nat /\ m.time = Summed(jobs, JobTimes) /\ m.time = Three(TypeTimes(m))
    /\ m.spikes \in Nat /\ m.spikes = Summed(jobs, JobSpikes)

LEMMA JobsFit ==
    /\ JobPoints \in [AnalysisJobs -> Int] /\ JobTimes \in [AnalysisJobs -> Int] /\ JobSpikes \in [AnalysisJobs -> Int]
    /\ \A j \in AnalysisJobs : j.points \in Nat /\ j.time \in Nat /\ j.spikes \in Nat /\ j.kind \in Kinds
<1>1. \A j \in AnalysisJobs : {j.points, j.spikes, j.time} \subseteq Nat
  BY MeteringAssumption
<1>2. \A j \in AnalysisJobs : j.kind \in Kinds
  BY MeteringAssumption DEF Kinds
<1>3. \A j \in AnalysisJobs : j.points \in Nat /\ j.time \in Nat /\ j.spikes \in Nat
  BY <1>1
<1> QED
  BY <1>2, <1>3 DEF JobPoints, JobTimes, JobSpikes

LEMMA PartOnSet ==
    ASSUME NEW S, IsFiniteSet(S), NEW w, \A y \in S : w[y] \in Nat, NEW x
    PROVE  /\ SumFunctionOnSet(w, S \ {x}) \in Nat
           /\ SumFunctionOnSet(w, S) = SumFunctionOnSet(w, S \ {x}) + (IF x \in S THEN w[x] ELSE 0)
<1>1. CASE x \in S
  BY <1>1, OneOnSet
<1>2. CASE x \notin S
  <2>1. S \ {x} = S
    BY <1>2
  <2> QED
    BY <1>2, <2>1, OneOnSet
<1> QED
  BY <1>1, <1>2

(* The sum over some of the kinds is that of the three, the others counted as nothing. *)
LEMMA KindsSum ==
    ASSUME NEW S, S \subseteq Kinds, NEW w, NEW v \in [Kinds -> Nat], \A k \in Kinds : v[k] = IF k \in S THEN w[k] ELSE 0
    PROVE  SumFunctionOnSet(w, S) = Three(v)
<1>1. PICK a, b, c : a = "percentile" /\ b = "rolling_window" /\ c = "spike_classifier"
  OBVIOUS
<1>2. Kinds = {a, b, c} /\ a # b /\ b # c /\ a # c
  BY <1>1 DEF Kinds
<1>3. IsFiniteSet(Kinds)
  <2>1. Kinds = (({} \cup {a}) \cup {b}) \cup {c}
    BY <1>2
  <2>2. IsFiniteSet({} \cup {a})
    BY FS_EmptySet, FS_AddElement
  <2>3. IsFiniteSet(({} \cup {a}) \cup {b})
    BY <2>2, FS_AddElement
  <2> QED
    BY <2>1, <2>3, FS_AddElement
<1>4. IsFiniteSet(S) /\ IsFiniteSet(S \ {a}) /\ IsFiniteSet((S \ {a}) \ {b})
  BY <1>3, FS_Subset
<1>5. \A y \in S : w[y] \in Nat
  OBVIOUS
<1>6. PICK T, U : T = S \ {a} /\ U = T \ {b}
  OBVIOUS
<1>7. (\A y \in T : w[y] \in Nat) /\ (\A y \in U : w[y] \in Nat) /\ IsFiniteSet(T) /\ IsFiniteSet(U)
  BY <1>4, <1>5, <1>6
<1>8. SumFunctionOnSet(w, T) \in Nat /\ SumFunctionOnSet(w, S) = SumFunctionOnSet(w, T) + v[a]
  BY <1>2, <1>4, <1>5, <1>6, PartOnSet
<1>9. SumFunctionOnSet(w, U) \in Nat /\ SumFunctionOnSet(w, T) = SumFunctionOnSet(w, U) + v[b]
  <2>1. b \in T <=> b \in S
    BY <1>2, <1>6
  <2> QED
    BY <1>2, <1>6, <1>7, <2>1, PartOnSet
<1>10. SumFunctionOnSet(w, U) = v[c]
  <2>1. (c \in U <=> c \in S) /\ U \ {c} = {}
    BY <1>2, <1>6
  <2>2. SumFunctionOnSet(w, U) = SumFunctionOnSet(w, U \ {c}) + (IF c \in U THEN w[c] ELSE 0)
    BY <1>7, PartOnSet
  <2>3. v[c] \in Nat /\ v[c] = IF c \in S THEN w[c] ELSE 0
    BY <1>2
  <2> QED
    BY <2>1, <2>2, <2>3, NoneOnSet
<1>11. v[a] \in Nat /\ v[b] \in Nat /\ v[c] \in Nat
  BY <1>2
<1> QED
  BY <1>1, <1>8, <1>9, <1>10, <1>11 DEF Three

LEMMA NoAnalysisHeld == AnalysisHeld(NoAnalysis, <<>>)
<1>1. <<>> \in Seq(AnalysisJobs) /\ Len(<<>>) = 0
  OBVIOUS
<1>2. Summed(<<>>, JobPoints) = 0 /\ Summed(<<>>, JobTimes) = 0 /\ Summed(<<>>, JobSpikes) = 0
  BY JobsFit, NothingSummed
<1>3. DOMAIN NoAnalysis.byType = {}
  BY DEF NoAnalysis
<1>4. /\ NoAnalysis.operations = [k \in Kinds |-> 0] /\ NoAnalysis.points = 0 /\ NoAnalysis.time = 0
      /\ NoAnalysis.spikes = 0
  BY DEF NoAnalysis
<1>5. \A k \in Kinds : TypeOf(NoAnalysis, k) = NewType
  BY <1>3 DEF TypeOf
<1>6. NewType.operations = 0 /\ NewType.points = 0 /\ NewType.time = 0
  BY DEF NewType
<1>7. /\ TypeOperations(NoAnalysis) = [k \in Kinds |-> 0] /\ TypePoints(NoAnalysis) = [k \in Kinds |-> 0]
      /\ TypeTimes(NoAnalysis) = [k \in Kinds |-> 0]
  BY <1>5, <1>6 DEF TypeOperations, TypePoints, TypeTimes
<1>8. Three([k \in Kinds |-> 0]) = 0 /\ [k \in Kinds |-> 0] \in [Kinds -> Nat]
  BY DEF Three, Kinds
<1> QED
  BY <1>1, <1>2, <1>3, <1>4, <1>7, <1>8 DEF AnalysisHeld

(* One of the three going up. *)
Raised(w, x, d) == [k \in Kinds |-> IF k = x THEN w[k] + d ELSE w[k]]

LEMMA ThreeAdded ==
    ASSUME NEW w \in [Kinds -> Nat], NEW x \in Kinds, NEW d \in Nat
    PROVE  /\ Raised(w, x, d) \in [Kinds -> Nat] /\ Three(w) \in Nat
           /\ Three(Raised(w, x, d)) = Three(w) + d
<1>0. PICK v : v = Raised(w, x, d)
  OBVIOUS
<1>1. \A k \in Kinds : w[k] \in Nat /\ v[k] = IF k = x THEN w[k] + d ELSE w[k]
  BY <1>0 DEF Raised
<1>2. v \in [Kinds -> Nat]
  BY <1>0, <1>1 DEF Raised
<1>3. Three(w) \in Nat /\ Three(v) = Three(w) + d
  BY <1>1, <1>2 DEF Three, Kinds
<1> QED
  BY <1>0, <1>2, <1>3

LEMMA ThreeTogether ==
    ASSUME NEW w \in [Kinds -> Nat], NEW x \in [Kinds -> Nat], NEW v, v = [k \in Kinds |-> w[k] + x[k]]
    PROVE  v \in [Kinds -> Nat] /\ Three(v) = Three(w) + Three(x)
<1>1. \A k \in Kinds : w[k] \in Nat /\ x[k] \in Nat /\ v[k] = w[k] + x[k]
  OBVIOUS
<1>2. v \in [Kinds -> Nat]
  OBVIOUS
<1> QED
  BY <1>1, <1>2 DEF Three, Kinds

LEMMA AnalysedKeeps ==
    ASSUME NEW m, NEW jobs, AnalysisHeld(m, jobs), NEW job \in AnalysisJobs
    PROVE  AnalysisHeld(Analysed(m, job), Append(jobs, job))
<1>1. PICK n : n = Analysed(m, job)
  OBVIOUS
<1>2. PICK x, p, t, s : x = job.kind /\ p = job.points /\ t = job.time /\ s = job.spikes
  OBVIOUS
<1>3. x \in Kinds /\ p \in Nat /\ t \in Nat /\ s \in Nat
  BY <1>2, JobsFit
<1>4. jobs \in Seq(AnalysisJobs) /\ m.operations \in [Kinds -> Nat] /\ DOMAIN m.byType \subseteq Kinds
  BY DEF AnalysisHeld
<1>5. PICK one : one = [operations |-> 1, points |-> p, time |-> t]
  OBVIOUS
<1>6. /\ n.operations = [m.operations EXCEPT ![x] = @ + 1]
      /\ n.points = m.points + p /\ n.spikes = m.spikes + s /\ n.time = m.time + t
      /\ n.byType = Put(m.byType, x, Plus(TypeOf(m, x), one))
  BY <1>1, <1>2, <1>5 DEF Analysed
<1>7. n.operations = Raised(m.operations, x, 1)
  BY <1>4, <1>6 DEF Raised
<1>8. DOMAIN n.byType \subseteq Kinds
  BY <1>3, <1>4, <1>6 DEF Put
<1>9. TypeOf(n, x) = Plus(TypeOf(m, x), one)
  BY <1>6 DEF TypeOf, Put
<1>10. \A k \in Kinds \ {x} : TypeOf(n, k) = TypeOf(m, k)
  BY <1>6 DEF TypeOf, Put
<1>11. /\ TypeOf(n, x).operations = TypeOf(m, x).operations + 1
       /\ TypeOf(n, x).points = TypeOf(m, x).points + p
       /\ TypeOf(n, x).time = TypeOf(m, x).time + t
  BY <1>5, <1>9 DEF Plus
<1>12. /\ TypeOperations(n) = Raised(TypeOperations(m), x, 1)
       /\ TypePoints(n) = Raised(TypePoints(m), x, p)
       /\ TypeTimes(n) = Raised(TypeTimes(m), x, t)
  BY <1>10, <1>11, Zenon DEF Raised, TypeOperations, TypePoints, TypeTimes
<1>13. PICK more : more = Append(jobs, job)
  OBVIOUS
<1>14. more \in Seq(AnalysisJobs) /\ Len(more) = Len(jobs) + 1 /\ Len(jobs) \in Nat
  BY <1>4, <1>13
<1>15. /\ Summed(more, JobPoints) = Summed(jobs, JobPoints) + p
       /\ Summed(more, JobTimes) = Summed(jobs, JobTimes) + t
       /\ Summed(more, JobSpikes) = Summed(jobs, JobSpikes) + s
  <2>1. JobPoints[job] = p /\ JobTimes[job] = t /\ JobSpikes[job] = s
    BY <1>2 DEF JobPoints, JobTimes, JobSpikes
  <2> QED
    BY <1>4, <1>13, <2>1, JobsFit, OneMoreSummed
<1>16. n.operations \in [Kinds -> Nat] /\ Three(n.operations) = Three(m.operations) + 1
  BY <1>3, <1>4, <1>7, ThreeAdded
<1>17. TypeOperations(n) \in [Kinds -> Nat] /\ Three(TypeOperations(n)) = Three(TypeOperations(m)) + 1
  <2>1. TypeOperations(m) \in [Kinds -> Nat]
    BY DEF AnalysisHeld
  <2> QED
    BY <1>3, <1>12, <2>1, ThreeAdded
<1>18. TypePoints(n) \in [Kinds -> Nat] /\ Three(TypePoints(n)) = Three(TypePoints(m)) + p
  <2>1. TypePoints(m) \in [Kinds -> Nat]
    BY DEF AnalysisHeld
  <2> QED
    BY <1>3, <1>12, <2>1, ThreeAdded
<1>19. TypeTimes(n) \in [Kinds -> Nat] /\ Three(TypeTimes(n)) = Three(TypeTimes(m)) + t
  <2>1. TypeTimes(m) \in [Kinds -> Nat]
    BY DEF AnalysisHeld
  <2> QED
    BY <1>3, <1>12, <2>1, ThreeAdded
<1>20. /\ n.points \in Nat /\ n.points = Summed(more, JobPoints) /\ n.points = Three(TypePoints(n))
       /\ n.time \in Nat /\ n.time = Summed(more, JobTimes) /\ n.time = Three(TypeTimes(n))
       /\ n.spikes \in Nat /\ n.spikes = Summed(more, JobSpikes)
  <2>1. /\ m.points \in Nat /\ m.points = Summed(jobs, JobPoints) /\ m.points = Three(TypePoints(m))
        /\ m.time \in Nat /\ m.time = Summed(jobs, JobTimes) /\ m.time = Three(TypeTimes(m))
        /\ m.spikes \in Nat /\ m.spikes = Summed(jobs, JobSpikes)
    BY DEF AnalysisHeld
  <2> QED
    BY <1>3, <1>6, <1>15, <1>18, <1>19, <2>1
<1>21. Three(n.operations) = Len(more) /\ Three(TypeOperations(n)) = Len(more)
  BY <1>14, <1>16, <1>17 DEF AnalysisHeld
<1>22. AnalysisHeld(n, more)
  BY <1>8, <1>14, <1>16, <1>17, <1>18, <1>19, <1>20, <1>21 DEF AnalysisHeld
<1> QED
  BY <1>1, <1>13, <1>22

LEMMA MergedKeeps ==
    ASSUME NEW m, NEW jobs, AnalysisHeld(m, jobs), NEW other, NEW others, AnalysisHeld(other, others)
    PROVE  AnalysisHeld(MergedAnalysis(m, other), jobs \o others)
<1>1. PICK n, both : n = MergedAnalysis(m, other) /\ both = jobs \o others
  OBVIOUS
<1>2. /\ jobs \in Seq(AnalysisJobs) /\ m.operations \in [Kinds -> Nat] /\ DOMAIN m.byType \subseteq Kinds
      /\ others \in Seq(AnalysisJobs) /\ other.operations \in [Kinds -> Nat] /\ DOMAIN other.byType \subseteq Kinds
  BY DEF AnalysisHeld
<1>3. /\ n.operations = [k \in Kinds |-> m.operations[k] + other.operations[k]]
      /\ n.points = m.points + other.points /\ n.spikes = m.spikes + other.spikes /\ n.time = m.time + other.time
      /\ n.byType = [k \in DOMAIN m.byType \cup DOMAIN other.byType |-> Plus(TypeOf(m, k), TypeOf(other, k))]
  BY <1>1 DEF MergedAnalysis
<1>4. DOMAIN n.byType \subseteq Kinds
  BY <1>2, <1>3
<1>5. both \in Seq(AnalysisJobs) /\ Len(both) = Len(jobs) + Len(others) /\ Len(jobs) \in Nat /\ Len(others) \in Nat
  BY <1>1, <1>2
<1>6. /\ Summed(both, JobPoints) = Summed(jobs, JobPoints) + Summed(others, JobPoints)
      /\ Summed(both, JobTimes) = Summed(jobs, JobTimes) + Summed(others, JobTimes)
      /\ Summed(both, JobSpikes) = Summed(jobs, JobSpikes) + Summed(others, JobSpikes)
  BY <1>1, <1>2, JobsFit, BothSummed
<1>7. ASSUME NEW k \in Kinds
      PROVE  /\ TypeOf(n, k).operations = TypeOf(m, k).operations + TypeOf(other, k).operations
             /\ TypeOf(n, k).points = TypeOf(m, k).points + TypeOf(other, k).points
             /\ TypeOf(n, k).time = TypeOf(m, k).time + TypeOf(other, k).time
  <2>1. CASE k \in DOMAIN m.byType \cup DOMAIN other.byType
    <3>1. TypeOf(n, k) = Plus(TypeOf(m, k), TypeOf(other, k))
      BY <1>3, <2>1 DEF TypeOf
    <3> QED
      BY <3>1 DEF Plus
  <2>2. CASE k \notin DOMAIN m.byType \cup DOMAIN other.byType
    <3>1. TypeOf(n, k) = NewType /\ TypeOf(m, k) = NewType /\ TypeOf(other, k) = NewType
      BY <1>3, <2>2 DEF TypeOf
    <3> QED
      BY <3>1 DEF NewType
  <2> QED
    BY <2>1, <2>2
<1>8. /\ TypeOperations(n) = [k \in Kinds |-> TypeOperations(m)[k] + TypeOperations(other)[k]]
      /\ TypePoints(n) = [k \in Kinds |-> TypePoints(m)[k] + TypePoints(other)[k]]
      /\ TypeTimes(n) = [k \in Kinds |-> TypeTimes(m)[k] + TypeTimes(other)[k]]
  BY <1>7 DEF TypeOperations, TypePoints, TypeTimes
<1>9. n.operations \in [Kinds -> Nat] /\ Three(n.operations) = Three(m.operations) + Three(other.operations)
  <2>1. PICK v : v = n.operations
    OBVIOUS
  <2>2. v = [k \in Kinds |-> m.operations[k] + other.operations[k]]
    BY <1>3, <2>1
  <2>3. v \in [Kinds -> Nat] /\ Three(v) = Three(m.operations) + Three(other.operations)
    BY <1>2, <2>2, ThreeTogether
  <2> QED
    BY <2>1, <2>3, Zenon
<1>10. /\ TypeOperations(m) \in [Kinds -> Nat] /\ TypePoints(m) \in [Kinds -> Nat] /\ TypeTimes(m) \in [Kinds -> Nat]
       /\ TypeOperations(other) \in [Kinds -> Nat] /\ TypePoints(other) \in [Kinds -> Nat]
       /\ TypeTimes(other) \in [Kinds -> Nat]
  BY DEF AnalysisHeld
<1>11. /\ TypeOperations(n) \in [Kinds -> Nat]
       /\ Three(TypeOperations(n)) = Three(TypeOperations(m)) + Three(TypeOperations(other))
  BY <1>8, <1>10, ThreeTogether
<1>12. TypePoints(n) \in [Kinds -> Nat] /\ Three(TypePoints(n)) = Three(TypePoints(m)) + Three(TypePoints(other))
  BY <1>8, <1>10, ThreeTogether
<1>13. TypeTimes(n) \in [Kinds -> Nat] /\ Three(TypeTimes(n)) = Three(TypeTimes(m)) + Three(TypeTimes(other))
  BY <1>8, <1>10, ThreeTogether
<1>14. /\ m.points \in Nat /\ m.points = Summed(jobs, JobPoints) /\ m.points = Three(TypePoints(m))
       /\ m.time \in Nat /\ m.time = Summed(jobs, JobTimes) /\ m.time = Three(TypeTimes(m))
       /\ m.spikes \in Nat /\ m.spikes = Summed(jobs, JobSpikes)
       /\ Three(m.operations) = Len(jobs) /\ Three(TypeOperations(m)) = Len(jobs)
  BY DEF AnalysisHeld
<1>15. /\ other.points \in Nat /\ other.points = Summed(others, JobPoints) /\ other.points = Three(TypePoints(other))
       /\ other.time \in Nat /\ other.time = Summed(others, JobTimes) /\ other.time = Three(TypeTimes(other))
       /\ other.spikes \in Nat /\ other.spikes = Summed(others, JobSpikes)
       /\ Three(other.operations) = Len(others) /\ Three(TypeOperations(other)) = Len(others)
  BY DEF AnalysisHeld
<1>16. /\ n.points \in Nat /\ n.points = Summed(both, JobPoints) /\ n.points = Three(TypePoints(n))
       /\ n.time \in Nat /\ n.time = Summed(both, JobTimes) /\ n.time = Three(TypeTimes(n))
       /\ n.spikes \in Nat /\ n.spikes = Summed(both, JobSpikes)
  BY <1>3, <1>6, <1>12, <1>13, <1>14, <1>15
<1>17. Three(n.operations) = Len(both) /\ Three(TypeOperations(n)) = Len(both)
  BY <1>5, <1>9, <1>11, <1>14, <1>15
<1>18. AnalysisHeld(n, both)
  BY <1>4, <1>5, <1>9, <1>11, <1>12, <1>13, <1>16, <1>17 DEF AnalysisHeld
<1> QED
  BY <1>1, <1>18

(* The rate of a whole is not beyond that of each of its parts. *)
LEMMA Mediant ==
    ASSUME NEW S, S \subseteq Kinds, S # {}, NEW p \in [Kinds -> Nat], NEW t \in [Kinds -> Nat],
           \A k \in Kinds \ S : p[k] = 0 /\ t[k] = 0
    PROVE  /\ \E k \in S : Three(p) * t[k] <= p[k] * Three(t)
           /\ \E k \in S : p[k] * Three(t) <= Three(p) * t[k]
<1>1. PICK a, b, c : a = "percentile" /\ b = "rolling_window" /\ c = "spike_classifier"
  OBVIOUS
<1>2. Kinds = {a, b, c}
  BY <1>1 DEF Kinds
<1>3. PICK P \in Nat, T \in Nat : P = Three(p) /\ T = Three(t)
  <2>1. p[a] + p[b] + p[c] \in Nat /\ t[a] + t[b] + t[c] \in Nat
    BY <1>2
  <2> QED
    BY <1>1, <2>1 DEF Three
<1>4. PICK u \in Nat, v \in Nat, w \in Nat, x \in Nat, y \in Nat, z \in Nat :
           u = p[a] /\ v = p[b] /\ w = p[c] /\ x = t[a] /\ y = t[b] /\ z = t[c]
  BY <1>2
<1>5. P = u + v + w /\ T = x + y + z
  BY <1>1, <1>3, <1>4 DEF Three
<1>6. P * x + P * y + P * z = P * T /\ u * T + v * T + w * T = P * T
  BY <1>5
<1>7. PICK L \in [Kinds -> Int], R \in [Kinds -> Int] : \A k \in Kinds : L[k] = P * t[k] /\ R[k] = p[k] * T
  <2>1. PICK L, R : L = [k \in Kinds |-> P * t[k]] /\ R = [k \in Kinds |-> p[k] * T]
    OBVIOUS
  <2>2. L \in [Kinds -> Int] /\ R \in [Kinds -> Int]
    BY <2>1
  <2> QED
    BY <2>1, <2>2
<1>8. L[a] + L[b] + L[c] = R[a] + R[b] + R[c]
  <2>1. L[a] = P * x /\ L[b] = P * y /\ L[c] = P * z /\ R[a] = u * T /\ R[b] = v * T /\ R[c] = w * T
    BY <1>2, <1>4, <1>7
  <2> QED
    BY <1>6, <2>1
<1>9. \A k \in Kinds \ S : L[k] = 0 /\ R[k] = 0
  BY <1>7
<1>10. (\E k \in S : L[k] <= R[k]) /\ \E k \in S : R[k] <= L[k]
  <2>1. /\ L[a] \in Int /\ L[b] \in Int /\ L[c] \in Int /\ R[a] \in Int /\ R[b] \in Int /\ R[c] \in Int
        /\ (a \notin S => L[a] = 0 /\ R[a] = 0) /\ (b \notin S => L[b] = 0 /\ R[b] = 0)
        /\ (c \notin S => L[c] = 0 /\ R[c] = 0)
    BY <1>2, <1>9
  <2>2. a \in S \/ b \in S \/ c \in S
    BY <1>2
  <2>3. \E k \in S : L[k] <= R[k]
    <3>1. ASSUME a \in S => L[a] > R[a], b \in S => L[b] > R[b], c \in S => L[c] > R[c] PROVE FALSE
      BY <1>8, <2>1, <2>2, <3>1
    <3>2. (a \in S /\ L[a] <= R[a]) \/ (b \in S /\ L[b] <= R[b]) \/ (c \in S /\ L[c] <= R[c])
      BY <2>1, <3>1
    <3> QED
      BY <3>2
  <2>4. \E k \in S : R[k] <= L[k]
    <3>1. ASSUME a \in S => L[a] < R[a], b \in S => L[b] < R[b], c \in S => L[c] < R[c] PROVE FALSE
      BY <1>8, <2>1, <2>2, <3>1
    <3>2. (a \in S /\ R[a] <= L[a]) \/ (b \in S /\ R[b] <= L[b]) \/ (c \in S /\ R[c] <= L[c])
      BY <2>1, <3>1
    <3> QED
      BY <3>2
  <2> QED
    BY <2>3, <2>4
<1> QED
  BY <1>3, <1>7, <1>10

LEMMA HeldIsAnalysed == ASSUME NEW m, NEW jobs, AnalysisHeld(m, jobs) PROVE AnalysisCounted(m, jobs)
<1> DEFINE types == DOMAIN m.byType
<1>1. types \subseteq Kinds
  BY DEF AnalysisHeld
<1>2. /\ TypeOperations(m) \in [Kinds -> Nat] /\ TypePoints(m) \in [Kinds -> Nat] /\ TypeTimes(m) \in [Kinds -> Nat]
  BY DEF AnalysisHeld
<1>3. ASSUME NEW k \in Kinds
      PROVE  /\ TypeOperations(m)[k] = IF k \in types THEN [i \in types |-> m.byType[i].operations][k] ELSE 0
             /\ TypePoints(m)[k] = IF k \in types THEN [i \in types |-> m.byType[i].points][k] ELSE 0
             /\ TypeTimes(m)[k] = IF k \in types THEN [i \in types |-> m.byType[i].time][k] ELSE 0
  BY DEF TypeOperations, TypePoints, TypeTimes, TypeOf, NewType
<1>4. /\ \A k \in types : TypePoints(m)[k] = m.byType[k].points /\ TypeTimes(m)[k] = m.byType[k].time
      /\ \A k \in Kinds \ types : TypePoints(m)[k] = 0 /\ TypeTimes(m)[k] = 0
  BY <1>1, <1>3
<1> HIDE DEF types
<1>5. /\ SumFunctionOnSet([k \in types |-> m.byType[k].operations], types) = Three(TypeOperations(m))
      /\ SumFunctionOnSet([k \in types |-> m.byType[k].points], types) = Three(TypePoints(m))
      /\ SumFunctionOnSet([k \in types |-> m.byType[k].time], types) = Three(TypeTimes(m))
  <2>1. PICK o, p, t : /\ o = [k \in types |-> m.byType[k].operations]
                       /\ p = [k \in types |-> m.byType[k].points] /\ t = [k \in types |-> m.byType[k].time]
    OBVIOUS
  <2>2. \A k \in Kinds : /\ TypeOperations(m)[k] = IF k \in types THEN o[k] ELSE 0
                         /\ TypePoints(m)[k] = IF k \in types THEN p[k] ELSE 0
                         /\ TypeTimes(m)[k] = IF k \in types THEN t[k] ELSE 0
    BY <1>3, <2>1
  <2>3. SumFunctionOnSet(o, types) = Three(TypeOperations(m))
    BY <1>1, <1>2, <2>2, KindsSum
  <2>4. SumFunctionOnSet(p, types) = Three(TypePoints(m))
    BY <1>1, <1>2, <2>2, KindsSum
  <2>5. SumFunctionOnSet(t, types) = Three(TypeTimes(m))
    BY <1>1, <1>2, <2>2, KindsSum
  <2> QED
    BY <2>1, <2>3, <2>4, <2>5, Zenon
<1>6. /\ m.points \in Nat /\ m.points = Summed(jobs, JobPoints) /\ m.points = Three(TypePoints(m))
      /\ m.time \in Nat /\ m.time = Summed(jobs, JobTimes) /\ m.time = Three(TypeTimes(m))
      /\ m.spikes = Summed(jobs, JobSpikes)
      /\ Three(m.operations) = Len(jobs) /\ Three(TypeOperations(m)) = Len(jobs)
  BY DEF AnalysisHeld
<1>7. ASSUME \A k \in types : m.byType[k].time > 0, types # {}
      PROVE  /\ \E k \in types : AtMost(Rate(m), Rate(m.byType[k]))
             /\ \E k \in types : AtMost(Rate(m.byType[k]), Rate(m))
  <2>1. \A k \in types : TypeTimes(m)[k] \in Nat /\ TypePoints(m)[k] \in Nat
    BY <1>1, <1>2
  <2>2. ASSUME NEW k \in types
        PROVE  Rate(m.byType[k]) = <<TypePoints(m)[k], TypeTimes(m)[k]>>
    <3>1. m.byType[k].time # 0
      BY <1>4, <1>7, <2>1
    <3> QED
      BY <1>4, <3>1 DEF Rate
  <2>3. m.time > 0
    <3>1. PICK k \in types : TRUE
      BY <1>7
    <3>2. k \in Kinds /\ TypeTimes(m)[k] > 0
      BY <1>1, <1>4, <1>7, <3>1
    <3>3. /\ TypeTimes(m)["percentile"] \in Nat /\ TypeTimes(m)["rolling_window"] \in Nat
          /\ TypeTimes(m)["spike_classifier"] \in Nat
      BY <1>2 DEF Kinds
    <3>4. \/ TypeTimes(m)["percentile"] > 0 \/ TypeTimes(m)["rolling_window"] > 0
          \/ TypeTimes(m)["spike_classifier"] > 0
      BY <3>2 DEF Kinds
    <3>5. Three(TypeTimes(m)) > 0
      BY <3>3, <3>4 DEF Three
    <3> QED
      BY <1>6, <3>5
  <2>4. Rate(m) = <<Three(TypePoints(m)), Three(TypeTimes(m))>>
    BY <1>6, <2>3 DEF Rate
  <2>5. /\ \E k \in types : Three(TypePoints(m)) * TypeTimes(m)[k] <= TypePoints(m)[k] * Three(TypeTimes(m))
        /\ \E k \in types : TypePoints(m)[k] * Three(TypeTimes(m)) <= Three(TypePoints(m)) * TypeTimes(m)[k]
    BY <1>1, <1>2, <1>4, <1>7, Mediant
  <2>6. ASSUME NEW k \in types
        PROVE  /\ AtMost(Rate(m), Rate(m.byType[k]))
                  <=> Three(TypePoints(m)) * TypeTimes(m)[k] <= TypePoints(m)[k] * Three(TypeTimes(m))
               /\ AtMost(Rate(m.byType[k]), Rate(m))
                  <=> TypePoints(m)[k] * Three(TypeTimes(m)) <= Three(TypePoints(m)) * TypeTimes(m)[k]
    BY <2>2, <2>4 DEF AtMost
  <2> QED
    BY <2>5, <2>6
<1>8. TotalOperations(m) = Len(jobs)
  BY <1>6 DEF TotalOperations, Three
<1> QED
  BY <1>5, <1>6, <1>7, <1>8 DEF AnalysisCounted, JobPoints, JobTimes, JobSpikes, types

-----------------------------------------------------------------------------
(* Simulation runs. *)

PlacesIn(seq, P) == {i \in DOMAIN seq : seq[i] \in P}

(* Weights of 0 and 1 count. *)
LEMMA FlagsCount ==
    ASSUME NEW R, NEW seq \in Seq(R), NEW weight \in [R -> Int], NEW P,
           \A x \in R : (x \in P => weight[x] = 1) /\ (x \notin P => weight[x] = 0)
    PROVE  Summed(seq, weight) = Cardinality(PlacesIn(seq, P))
<1> DEFINE n == Len(seq)
           Upto(k) == {i \in 1..k : seq[i] \in P}
<1>1. n \in Nat /\ DOMAIN seq = 1..n
  OBVIOUS
<1>3. PICK f \in [0..n -> Int] : Weighs(f, seq, weight) /\ Summed(seq, weight) = f[n]
  BY SummedFolds
<1>4. f[0] = 0 /\ \A k \in 1..n : f[k] = f[k - 1] + weight[seq[k]]
  BY <1>1, <1>3 DEF Weighs
<1>5. Upto(0) = {} /\ f[0] = Cardinality(Upto(0)) /\ IsFiniteSet(Upto(0))
  <2>1. Upto(0) = {}
    OBVIOUS
  <2> QED
    BY <1>4, <2>1, FS_EmptySet
<1>6. ASSUME NEW k \in 1..n, f[k - 1] = Cardinality(Upto(k - 1)), IsFiniteSet(Upto(k - 1))
      PROVE  f[k] = Cardinality(Upto(k)) /\ IsFiniteSet(Upto(k))
  <2>1. seq[k] \in R /\ k \in Nat /\ k # 0
    BY <1>1
  <2>2. f[k] = f[k - 1] + weight[seq[k]] /\ f[k - 1] \in Int
    <3>1. f[k] = f[k - 1] + weight[seq[k]]
      BY <1>4, Zenon
    <3>2. k - 1 \in 0..n
      BY <1>1
    <3>3. f[k - 1] \in Int
      BY <1>3, <3>2, Zenon
    <3> QED
      BY <3>1, <3>3, Zenon
  <2>3. CASE seq[k] \in P
    <3>1. Upto(k) = Upto(k - 1) \cup {k} /\ k \notin Upto(k - 1)
      BY <2>1, <2>3
    <3>2. Cardinality(Upto(k - 1) \cup {k}) = Cardinality(Upto(k - 1)) + 1 /\ IsFiniteSet(Upto(k - 1) \cup {k})
      BY <1>6, <3>1, FS_AddElement
    <3> QED
      BY <1>6, <2>1, <2>2, <2>3, <3>1, <3>2
  <2>4. CASE seq[k] \notin P
    <3>1. Upto(k) = Upto(k - 1)
      BY <2>1, <2>4
    <3>2. f[k] = f[k - 1]
      BY <2>1, <2>2, <2>4
    <3> QED
      BY <1>6, <3>1, <3>2, Zenon
  <2> QED
    BY <2>3, <2>4
<1> HIDE DEF Upto
<1>7. \A k \in 0..n : f[k] = Cardinality(Upto(k)) /\ IsFiniteSet(Upto(k))
  <2> SUFFICES ASSUME NEW j \in 0..n, ~(f[j] = Cardinality(Upto(j)) /\ IsFiniteSet(Upto(j))) PROVE FALSE
    OBVIOUS
  <2> DEFINE bad == {k \in 0..n : ~(f[k] = Cardinality(Upto(k)) /\ IsFiniteSet(Upto(k)))}
  <2>1. bad \subseteq Nat /\ bad # {}
    BY <1>1
  <2>2. PICK k \in bad : \A i \in bad : k <= i
    BY <2>1, LeastElement
  <2>3. k # 0
    BY <1>5, <2>2
  <2>4. k \in 1..n /\ k - 1 \in 0..n /\ k - 1 < k
    BY <1>1, <2>2, <2>3
  <2>5. k - 1 \notin bad
    BY <2>2, <2>4
  <2> QED
    BY <1>6, <2>2, <2>4, <2>5
<1>8. Upto(n) = PlacesIn(seq, P)
  BY <1>1 DEF Upto, PlacesIn
<1>9. n \in 0..n
  BY <1>1
<1> QED
  BY <1>3, <1>7, <1>8, <1>9

RunPoints == [j \in SimulationJobs |-> j.points]
OfScenario(name, weight) == [j \in SimulationJobs |-> IF j.scenario = name THEN weight[j] ELSE 0]
EachRun == [j \in SimulationJobs |-> 1]
RunSpikes == [j \in SimulationJobs |-> j.spikes]
RunMiddles == [j \in SimulationJobs |-> j.min + j.max]

RunsOf(jobs, name) == {i \in DOMAIN jobs : jobs[i].scenario = name}

IsLeast(least, jobs, mine) ==
    /\ \A i \in mine : least <= jobs[i].min
    /\ (mine = {} /\ least = Most) \/ \E i \in mine : jobs[i].min = least

IsGreatest(greatest, jobs, mine) ==
    /\ \A i \in mine : greatest >= jobs[i].max
    /\ (mine = {} /\ greatest = 0) \/ \E i \in mine : jobs[i].max = greatest

(* An average is a fraction, at most the maximum; and the mean of the middles, unless a merge averaged it. *)
AverageHeld(avg, n, greatest, middles, exact) ==
    /\ avg[1] \in Nat /\ avg[2] \in Nat /\ avg[2] > 0 /\ avg[1] <= greatest * avg[2]
    /\ exact => avg[1] * 2 * n = middles * avg[2]

ScenarioHeld(s, jobs, name, exact) ==
    /\ s.runs \in Nat /\ s.points \in Nat /\ s.spikes \in Nat /\ s.min \in Nat /\ s.max \in Nat
    /\ s.runs = Summed(jobs, OfScenario(name, EachRun))
    /\ s.points = Summed(jobs, OfScenario(name, RunPoints))
    /\ s.spikes = Summed(jobs, OfScenario(name, RunSpikes))
    /\ IsLeast(s.min, jobs, RunsOf(jobs, name)) /\ IsGreatest(s.max, jobs, RunsOf(jobs, name))
    /\ AverageHeld(s.avg, s.runs, s.max, Summed(jobs, OfScenario(name, RunMiddles)), exact)

SimulationHeld(m, jobs, merged) ==
    /\ jobs \in Seq(SimulationJobs)
    /\ m.runs = Len(jobs) /\ m.points = Summed(jobs, RunPoints) /\ m.points \in Nat
    /\ DOMAIN m.byScenario = {jobs[i].scenario : i \in DOMAIN jobs}
    /\ \A name : ScenarioHeld(ScenarioOf(m, name), jobs, name, name \notin merged)

LEMMA RunsFit ==
    /\ \A j \in SimulationJobs : j.points \in Nat /\ j.spikes \in Nat /\ j.min \in Nat /\ j.max \in Nat /\ j.min <= j.max
    /\ \A j \in SimulationJobs : j.max <= Most
    /\ Most \in Nat
    /\ RunPoints \in [SimulationJobs -> Nat] /\ RunPoints \in [SimulationJobs -> Int]
    /\ \A w \in {EachRun, RunPoints, RunSpikes, RunMiddles} : \A name :
          /\ OfScenario(name, w) \in [SimulationJobs -> Nat] /\ OfScenario(name, w) \in [SimulationJobs -> Int]
          /\ \A j \in SimulationJobs : OfScenario(name, w)[j] = IF j.scenario = name THEN w[j] ELSE 0
<1>1. \A j \in SimulationJobs : {j.points, j.spikes, j.time} \subseteq Nat
  BY MeteringAssumption
<1>2. Most \in Nat /\ \A j \in SimulationJobs : j.max \in 0..Most /\ j.min \in 0..j.max
  BY MeteringAssumption
<1>3. \A j \in SimulationJobs : j.points \in Nat /\ j.spikes \in Nat /\ j.min \in Nat /\ j.max \in Nat /\ j.min <= j.max /\ j.max <= Most
  BY <1>1, <1>2
<1>4. RunPoints \in [SimulationJobs -> Nat] /\ RunPoints \in [SimulationJobs -> Int]
  BY <1>3 DEF RunPoints
<1>5. ASSUME NEW w \in {EachRun, RunPoints, RunSpikes, RunMiddles} PROVE w \in [SimulationJobs -> Nat]
  BY <1>3, <1>5 DEF EachRun, RunPoints, RunSpikes, RunMiddles
<1>6. ASSUME NEW w \in [SimulationJobs -> Nat], NEW name
      PROVE  /\ OfScenario(name, w) \in [SimulationJobs -> Nat] /\ OfScenario(name, w) \in [SimulationJobs -> Int]
             /\ \A j \in SimulationJobs : OfScenario(name, w)[j] = IF j.scenario = name THEN w[j] ELSE 0
  BY <1>6 DEF OfScenario
<1> QED
  BY <1>2, <1>3, <1>4, <1>5, <1>6

LEMMA NewScenarioHeld == ASSUME NEW name, NEW exact PROVE ScenarioHeld(NewScenario, <<>>, name, exact)
<1>1. <<>> \in Seq(SimulationJobs) /\ DOMAIN <<>> = {}
  OBVIOUS
<1>2. \A w \in {EachRun, RunPoints, RunSpikes, RunMiddles} : Summed(<<>>, OfScenario(name, w)) = 0
  BY RunsFit, NothingSummed
<1>3. RunsOf(<<>>, name) = {}
  BY <1>1 DEF RunsOf
<1>4. Most \in Nat
  BY RunsFit
<1>5. /\ NewScenario.runs = 0 /\ NewScenario.points = 0 /\ NewScenario.spikes = 0 /\ NewScenario.avg = <<0, 1>>
      /\ NewScenario.min = Most /\ NewScenario.max = 0
  BY DEF NewScenario
<1>6. IsLeast(Most, <<>>, {}) /\ IsGreatest(0, <<>>, {})
  BY DEF IsLeast, IsGreatest
<1>7. AverageHeld(<<0, 1>>, 0, 0, 0, exact)
  BY DEF AverageHeld
<1>8. /\ Summed(<<>>, OfScenario(name, RunMiddles)) = 0 /\ Summed(<<>>, OfScenario(name, EachRun)) = 0
      /\ Summed(<<>>, OfScenario(name, RunPoints)) = 0 /\ Summed(<<>>, OfScenario(name, RunSpikes)) = 0
  BY <1>2
<1>9. PICK s : s = NewScenario
  OBVIOUS
<1>10. /\ IsLeast(s.min, <<>>, RunsOf(<<>>, name)) /\ IsGreatest(s.max, <<>>, RunsOf(<<>>, name))
       /\ AverageHeld(s.avg, s.runs, s.max, Summed(<<>>, OfScenario(name, RunMiddles)), exact)
  BY <1>3, <1>5, <1>6, <1>7, <1>8, <1>9, Zenon
<1>11. s.runs = 0 /\ s.points = 0 /\ s.spikes = 0 /\ s.min \in Nat /\ s.max = 0
  BY <1>4, <1>5, <1>9
<1>12. ScenarioHeld(s, <<>>, name, exact)
  BY <1>8, <1>10, <1>11 DEF ScenarioHeld
<1> QED
  BY <1>9, <1>12

LEMMA NoSimulationHeld == SimulationHeld(NoSimulation, <<>>, {})
<1>1. <<>> \in Seq(SimulationJobs) /\ DOMAIN <<>> = {} /\ Len(<<>>) = 0
  OBVIOUS
<1>2. NoSimulation.runs = 0 /\ NoSimulation.points = 0 /\ NoSimulation.byScenario = <<>>
  BY DEF NoSimulation
<1>3. Summed(<<>>, RunPoints) = 0
  BY RunsFit, NothingSummed
<1>4. \A name : ScenarioOf(NoSimulation, name) = NewScenario
  BY <1>1, <1>2 DEF ScenarioOf
<1>5. \A name : ScenarioHeld(ScenarioOf(NoSimulation, name), <<>>, name, name \notin {})
  BY <1>4, NewScenarioHeld
<1> QED
  BY <1>1, <1>2, <1>3, <1>5 DEF SimulationHeld

(* A run's own scenario, and another's, with one more run. *)
LEMMA RunSummed ==
    ASSUME NEW jobs \in Seq(SimulationJobs), NEW job \in SimulationJobs, NEW name,
           NEW w \in {EachRun, RunPoints, RunSpikes, RunMiddles}
    PROVE  /\ Summed(jobs, OfScenario(name, w)) \in Nat
           /\ Summed(Append(jobs, job), OfScenario(name, w)) =
                 Summed(jobs, OfScenario(name, w)) + (IF job.scenario = name THEN w[job] ELSE 0)
<1>1. PICK v \in [SimulationJobs -> Nat] : v = OfScenario(name, w)
  BY RunsFit
<1>2. v \in [SimulationJobs -> Int] /\ v[job] = IF job.scenario = name THEN w[job] ELSE 0
  BY <1>1, RunsFit
<1>3. Summed(jobs, v) \in Nat
  BY SummedWithin
<1>4. Summed(Append(jobs, job), v) = Summed(jobs, v) + v[job]
  BY <1>2, OneMoreSummed
<1> QED
  BY <1>1, <1>2, <1>3, <1>4

OneMoreRun(jobs, more, job, name) ==
    /\ \A i \in RunsOf(jobs, name) : i \in RunsOf(more, name) /\ more[i] = jobs[i]
    /\ \A i \in RunsOf(more, name) :
          (i \in RunsOf(jobs, name) /\ more[i] = jobs[i]) \/ (more[i] = job /\ job.scenario = name)
    /\ job.scenario = name => \E i \in RunsOf(more, name) : more[i] = job

LEMMA RunAdded ==
    ASSUME NEW jobs \in Seq(SimulationJobs), NEW job \in SimulationJobs, NEW name
    PROVE  OneMoreRun(jobs, Append(jobs, job), job, name)
<1> DEFINE n == Len(jobs)
           more == Append(jobs, job)
<1>1. /\ n \in Nat /\ DOMAIN jobs = 1..n /\ DOMAIN more = 1..(n + 1) /\ more[n + 1] = job
      /\ \A i \in 1..n : more[i] = jobs[i]
  OBVIOUS
<1> HIDE DEF more, n
<1>2. \A i \in 1..(n + 1) : i \in 1..n \/ i = n + 1
  BY <1>1
<1>3. (\A i \in 1..n : i \in 1..(n + 1)) /\ n + 1 \in 1..(n + 1)
  BY <1>1
<1>4. \A i \in RunsOf(jobs, name) : i \in RunsOf(more, name) /\ more[i] = jobs[i]
  BY <1>1, <1>3 DEF RunsOf
<1>5. \A i \in RunsOf(more, name) : (i \in RunsOf(jobs, name) /\ more[i] = jobs[i]) \/ (i = n + 1 /\ job.scenario = name)
  BY <1>1, <1>2 DEF RunsOf
<1>6. job.scenario = name => n + 1 \in RunsOf(more, name)
  BY <1>1, <1>3 DEF RunsOf
<1>7. OneMoreRun(jobs, more, job, name)
  BY <1>1, <1>4, <1>5, <1>6 DEF OneMoreRun
<1> QED
  BY <1>7 DEF more

LEMMA OtherRun ==
    ASSUME NEW jobs \in Seq(SimulationJobs), NEW job \in SimulationJobs, NEW name, job.scenario # name, NEW s, NEW exact,
           ScenarioHeld(s, jobs, name, exact)
    PROVE  ScenarioHeld(s, Append(jobs, job), name, exact)
<1>1. PICK more : more = Append(jobs, job)
  OBVIOUS
<1>2. ASSUME NEW w \in {EachRun, RunPoints, RunSpikes, RunMiddles}
      PROVE  Summed(more, OfScenario(name, w)) = Summed(jobs, OfScenario(name, w))
  BY <1>1, RunSummed
<1>3. /\ Summed(more, OfScenario(name, EachRun)) = Summed(jobs, OfScenario(name, EachRun))
      /\ Summed(more, OfScenario(name, RunPoints)) = Summed(jobs, OfScenario(name, RunPoints))
      /\ Summed(more, OfScenario(name, RunSpikes)) = Summed(jobs, OfScenario(name, RunSpikes))
      /\ Summed(more, OfScenario(name, RunMiddles)) = Summed(jobs, OfScenario(name, RunMiddles))
  BY <1>2
<1>4. /\ \A i \in RunsOf(jobs, name) : i \in RunsOf(more, name) /\ more[i] = jobs[i]
      /\ \A i \in RunsOf(more, name) : i \in RunsOf(jobs, name) /\ more[i] = jobs[i]
  <2>1. OneMoreRun(jobs, more, job, name)
    BY <1>1, RunAdded
  <2> QED
    BY <2>1 DEF OneMoreRun
<1>5. IsLeast(s.min, jobs, RunsOf(jobs, name)) => IsLeast(s.min, more, RunsOf(more, name))
  BY <1>4 DEF IsLeast
<1>6. IsGreatest(s.max, jobs, RunsOf(jobs, name)) => IsGreatest(s.max, more, RunsOf(more, name))
  BY <1>4 DEF IsGreatest
<1> QED
  BY <1>1, <1>3, <1>5, <1>6 DEF ScenarioHeld

(* An average over one run more. *)
LEMMA AverageMoves ==
    ASSUME NEW a, NEW n \in Nat, NEW g \in Nat, NEW x \in Nat, NEW exact, AverageHeld(a, n, g, x, exact),
           NEW y \in Nat, NEW h \in Nat, g <= h, y <= 2 * h
    PROVE  AverageHeld(<<2 * a[1] * n + y * a[2], 2 * a[2] * (n + 1)>>, n + 1, h, x + y, exact)
<1>1. PICK p \in Nat, q \in Nat : p = a[1] /\ q = a[2]
  BY DEF AverageHeld
<1>2. q > 0 /\ p <= g * q /\ (exact => p * 2 * n = x * q)
  BY <1>1 DEF AverageHeld
<1>3. PICK r \in Nat, s \in Nat : r = 2 * p * n + y * q /\ s = 2 * q * (n + 1)
  OBVIOUS
<1>4. s > 0
  BY <1>2, <1>3
<1>5. r <= h * s
  <2>1. g * q <= h * q
    OBVIOUS
  <2>2. PICK k \in Nat : k = h * q
    OBVIOUS
  <2>3. p <= k
    BY <1>2, <2>1, <2>2
  <2>4. p * n <= k * n
    BY <2>3
  <2>5. y * q <= 2 * k
    BY <2>2
  <2>6. h * s = 2 * (k * n) + 2 * k
    BY <1>3, <2>2
  <2>7. 2 * p * n = 2 * (p * n) /\ p * n \in Nat /\ k * n \in Nat /\ y * q \in Nat
    OBVIOUS
  <2> QED
    BY <1>3, <2>4, <2>5, <2>6, <2>7
<1>6. ASSUME exact PROVE r * 2 * (n + 1) = (x + y) * s
  <2>1. PICK z \in Nat : z = x * q
    OBVIOUS
  <2>2. r = z + y * q
    BY <1>2, <1>3, <1>6, <2>1
  <2>3. r = (x + y) * q
    BY <2>1, <2>2
  <2>4. PICK u \in Nat : u = 2 * (n + 1)
    OBVIOUS
  <2>5. s = q * u /\ r * 2 * (n + 1) = r * u
    BY <1>3, <2>4
  <2>6. r * u = ((x + y) * q) * u
    BY <2>3
  <2>7. ((x + y) * q) * u = (x + y) * (q * u)
    OBVIOUS
  <2> QED
    BY <2>5, <2>6, <2>7
<1>7. AverageHeld(<<r, s>>, n + 1, h, x + y, exact)
  BY <1>4, <1>5, <1>6 DEF AverageHeld
<1> QED
  BY <1>1, <1>3, <1>7

LEMMA OwnRun ==
    ASSUME NEW jobs \in Seq(SimulationJobs), NEW job \in SimulationJobs, NEW name, job.scenario = name, NEW s, NEW exact,
           ScenarioHeld(s, jobs, name, exact), NEW t,
           t.runs = s.runs + 1, t.points = s.points + job.points, t.spikes = s.spikes + job.spikes,
           t.avg = <<2 * s.avg[1] * s.runs + (job.min + job.max) * s.avg[2], 2 * s.avg[2] * (s.runs + 1)>>,
           t.min = Min({s.min, job.min}), t.max = Max({s.max, job.max})
    PROVE  ScenarioHeld(t, Append(jobs, job), name, exact)
<1>1. PICK more : more = Append(jobs, job)
  OBVIOUS
<1>2. /\ job.points \in Nat /\ job.spikes \in Nat /\ job.min \in Nat /\ job.max \in Nat /\ job.min <= job.max
      /\ job.max <= Most /\ Most \in Nat
  BY RunsFit
<1>3. /\ s.runs \in Nat /\ s.points \in Nat /\ s.spikes \in Nat /\ s.min \in Nat /\ s.max \in Nat
      /\ s.runs = Summed(jobs, OfScenario(name, EachRun))
      /\ s.points = Summed(jobs, OfScenario(name, RunPoints))
      /\ s.spikes = Summed(jobs, OfScenario(name, RunSpikes))
      /\ IsLeast(s.min, jobs, RunsOf(jobs, name)) /\ IsGreatest(s.max, jobs, RunsOf(jobs, name))
      /\ AverageHeld(s.avg, s.runs, s.max, Summed(jobs, OfScenario(name, RunMiddles)), exact)
  BY DEF ScenarioHeld
<1>4. ASSUME NEW w \in {EachRun, RunPoints, RunSpikes, RunMiddles}
      PROVE  Summed(jobs, OfScenario(name, w)) \in Nat /\ Summed(more, OfScenario(name, w)) = Summed(jobs, OfScenario(name, w)) + w[job]
  BY <1>1, RunSummed
<1>5. EachRun[job] = 1 /\ RunPoints[job] = job.points /\ RunSpikes[job] = job.spikes /\ RunMiddles[job] = job.min + job.max
  BY DEF EachRun, RunPoints, RunSpikes, RunMiddles
<1>6. PICK x \in Nat : x = Summed(jobs, OfScenario(name, RunMiddles))
  BY <1>4
<1>7. /\ Summed(more, OfScenario(name, EachRun)) = Summed(jobs, OfScenario(name, EachRun)) + 1
      /\ Summed(more, OfScenario(name, RunPoints)) = Summed(jobs, OfScenario(name, RunPoints)) + job.points
      /\ Summed(more, OfScenario(name, RunSpikes)) = Summed(jobs, OfScenario(name, RunSpikes)) + job.spikes
      /\ Summed(more, OfScenario(name, RunMiddles)) = x + (job.min + job.max)
  BY <1>4, <1>5, <1>6
<1>8. /\ \A i \in RunsOf(jobs, name) : i \in RunsOf(more, name) /\ more[i] = jobs[i]
      /\ \A i \in RunsOf(more, name) : (i \in RunsOf(jobs, name) /\ more[i] = jobs[i]) \/ more[i] = job
      /\ \E i \in RunsOf(more, name) : more[i] = job
  <2>1. OneMoreRun(jobs, more, job, name)
    BY <1>1, RunAdded
  <2> QED
    BY <2>1 DEF OneMoreRun
<1>9. \A i \in RunsOf(jobs, name) : jobs[i].min \in Nat /\ jobs[i].max \in Nat /\ jobs[i].min <= Most
  <2> SUFFICES ASSUME NEW i \in RunsOf(jobs, name) PROVE jobs[i].min \in Nat /\ jobs[i].max \in Nat /\ jobs[i].min <= Most
    OBVIOUS
  <2>1. i \in DOMAIN jobs
    BY DEF RunsOf
  <2>2. PICK r \in SimulationJobs : r = jobs[i]
    BY <2>1
  <2>3. r.min \in Nat /\ r.max \in Nat /\ r.min <= r.max /\ r.max <= Most /\ Most \in Nat
    BY RunsFit
  <2> QED
    BY <2>2, <2>3
<1>10. t.min = (IF s.min <= job.min THEN s.min ELSE job.min) /\ t.max = (IF s.max <= job.max THEN job.max ELSE s.max)
  <2>1. PICK a \in Nat, b \in Nat, c \in Nat, d \in Nat : a = s.min /\ b = job.min /\ c = s.max /\ d = job.max
    BY <1>2, <1>3
  <2>2. Min({a, b}) = (IF a <= b THEN a ELSE b) /\ Max({c, d}) = (IF c <= d THEN d ELSE c)
    BY LesserOf, GreaterOf
  <2> QED
    BY <2>1, <2>2, Zenon
<1>11. IsLeast(t.min, more, RunsOf(more, name))
  <2>1. t.min \in Nat /\ t.min <= s.min /\ t.min <= job.min
    BY <1>2, <1>3, <1>10
  <2>3. ASSUME NEW i \in RunsOf(jobs, name) PROVE t.min <= jobs[i].min
    <3>1. s.min <= jobs[i].min /\ jobs[i].min \in Nat
      BY <1>3, <1>9 DEF IsLeast
    <3> QED
      BY <1>3, <2>1, <3>1
  <2>4. \A i \in RunsOf(more, name) : t.min <= more[i].min
    BY <1>8, <2>1, <2>3
  <2>2. \E i \in RunsOf(more, name) : more[i].min = t.min
    <3>1. CASE s.min <= job.min /\ s.min # job.min
      <4>1. t.min = s.min
        BY <1>10, <3>1
      <4>2. s.min # Most
        <5>1. PICK a \in Nat, b \in Nat : a = s.min /\ b = job.min /\ b <= job.max
          BY <1>2, <1>3, Zenon
        <5>2. a <= b /\ a # b
          BY <3>1, <5>1, Zenon
        <5>3. b <= job.max /\ job.max <= Most /\ job.max \in Nat /\ Most \in Nat
          BY <1>2, <5>1, Zenon
        <5>4. a # Most
          BY <5>2, <5>3
        <5> QED
          BY <5>1, <5>4, Zenon
      <4>3. PICK i \in RunsOf(jobs, name) : jobs[i].min = s.min
        BY <1>3, <4>2 DEF IsLeast
      <4> QED
        BY <1>8, <4>1, <4>3
    <3>2. CASE ~(s.min <= job.min /\ s.min # job.min)
      <4>1. t.min = job.min
        BY <1>2, <1>3, <1>10, <3>2
      <4> QED
        BY <1>8, <4>1
    <3> QED
      BY <3>1, <3>2
  <2> QED
    BY <2>2, <2>4 DEF IsLeast
<1>12. IsGreatest(t.max, more, RunsOf(more, name))
  <2>1. t.max \in Nat /\ t.max >= s.max /\ t.max >= job.max
    BY <1>2, <1>3, <1>10
  <2>3. ASSUME NEW i \in RunsOf(jobs, name) PROVE t.max >= jobs[i].max
    <3>1. s.max >= jobs[i].max /\ jobs[i].max \in Nat
      BY <1>3, <1>9 DEF IsGreatest
    <3> QED
      BY <1>3, <2>1, <3>1
  <2>4. \A i \in RunsOf(more, name) : t.max >= more[i].max
    BY <1>8, <2>1, <2>3
  <2>2. \E i \in RunsOf(more, name) : more[i].max = t.max
    <3>1. CASE ~(s.max <= job.max)
      <4>1. t.max = s.max
        BY <1>10, <3>1
      <4>2. s.max # 0
        BY <1>2, <1>3, <3>1
      <4>3. PICK i \in RunsOf(jobs, name) : jobs[i].max = s.max
        BY <1>3, <4>2 DEF IsGreatest
      <4> QED
        BY <1>8, <4>1, <4>3
    <3>2. CASE s.max <= job.max
      <4>1. t.max = job.max
        BY <1>10, <3>2
      <4> QED
        BY <1>8, <4>1
    <3> QED
      BY <3>1, <3>2
  <2> QED
    BY <2>2, <2>4 DEF IsGreatest
<1>13. AverageHeld(t.avg, t.runs, t.max, x + (job.min + job.max), exact)
  <2>1. PICK n \in Nat, g \in Nat, y \in Nat, h \in Nat : n = s.runs /\ g = s.max /\ y = job.min + job.max /\ h = t.max
    <3>1. s.runs \in Nat /\ s.max \in Nat
      BY <1>3, Zenon
    <3>2. job.min + job.max \in Nat
      BY <1>2
    <3>3. t.max \in Nat
      BY <1>2, <1>3, <1>10, Zenon
    <3> QED
      BY <3>1, <3>2, <3>3, Zenon
  <2>2. g <= h /\ y <= 2 * h
    <3>1. PICK c \in Nat, d \in Nat : c = job.min /\ d = job.max
      BY <1>2
    <3>2. h = (IF g <= d THEN d ELSE g) /\ y = c + d /\ c <= d
      BY <1>2, <1>10, <2>1, <3>1
    <3> QED
      BY <3>2
  <2>3. PICK a : a = s.avg
    OBVIOUS
  <2>4. AverageHeld(a, n, g, x, exact)
    BY <1>3, <1>6, <2>1, <2>3
  <2>5. AverageHeld(<<2 * a[1] * n + y * a[2], 2 * a[2] * (n + 1)>>, n + 1, h, x + y, exact)
    BY <2>2, <2>4, AverageMoves
  <2> QED
    BY <2>1, <2>3, <2>5
<1>14. t.runs \in Nat /\ t.points \in Nat /\ t.spikes \in Nat /\ t.min \in Nat /\ t.max \in Nat
  <2>1. t.min \in Nat /\ t.max \in Nat
    BY <1>2, <1>3, <1>10, Zenon
  <2>2. s.runs + 1 \in Nat /\ s.points + job.points \in Nat /\ s.spikes + job.spikes \in Nat
    <3>1. PICK a \in Nat, b \in Nat, c \in Nat, d \in Nat, e \in Nat :
               a = s.runs /\ b = s.points /\ c = job.points /\ d = s.spikes /\ e = job.spikes
      BY <1>2, <1>3
    <3>2. a + 1 \in Nat /\ b + c \in Nat /\ d + e \in Nat
      OBVIOUS
    <3> QED
      BY <3>1, <3>2
  <2> QED
    BY <2>1, <2>2, Zenon
<1>15. /\ t.runs = Summed(more, OfScenario(name, EachRun)) /\ t.points = Summed(more, OfScenario(name, RunPoints))
       /\ t.spikes = Summed(more, OfScenario(name, RunSpikes))
  BY <1>3, <1>7
<1>16. AverageHeld(t.avg, t.runs, t.max, Summed(more, OfScenario(name, RunMiddles)), exact)
  BY <1>7, <1>13
<1>17. ScenarioHeld(t, more, name, exact)
  BY <1>11, <1>12, <1>14, <1>15, <1>16 DEF ScenarioHeld
<1> QED
  BY <1>1, <1>17

LEMMA SimulatedKeeps ==
    ASSUME NEW m, NEW jobs, NEW merged, SimulationHeld(m, jobs, merged), NEW job \in SimulationJobs
    PROVE  SimulationHeld(Simulated(m, job), Append(jobs, job), merged)
<1>1. PICK x, s, n, more : x = job.scenario /\ s = ScenarioOf(m, x) /\ n = Simulated(m, job) /\ more = Append(jobs, job)
  OBVIOUS
<1>2. PICK t : t = [runs |-> s.runs + 1, points |-> s.points + job.points, spikes |-> s.spikes + job.spikes,
                    avg |-> <<2 * s.avg[1] * s.runs + (job.min + job.max) * s.avg[2], 2 * s.avg[2] * (s.runs + 1)>>,
                    min |-> Min({s.min, job.min}), max |-> Max({s.max, job.max})]
  OBVIOUS
<1>3. n.runs = m.runs + 1 /\ n.points = m.points + job.points /\ n.byScenario = Put(m.byScenario, x, t)
  <2>1. n = [runs |-> m.runs + 1, points |-> m.points + job.points, spikes |-> m.spikes + job.spikes,
             time |-> m.time + job.time, byScenario |-> Put(m.byScenario, x, t)]
    BY <1>1, <1>2, Zenon DEF Simulated
  <2> QED
    BY <2>1
<1>4. ScenarioOf(n, x) = t /\ \A name : name # x => ScenarioOf(n, name) = ScenarioOf(m, name)
  BY <1>3 DEF ScenarioOf, Put
<1>5. /\ jobs \in Seq(SimulationJobs) /\ m.runs = Len(jobs) /\ m.points = Summed(jobs, RunPoints) /\ m.points \in Nat
      /\ DOMAIN m.byScenario = {jobs[i].scenario : i \in DOMAIN jobs}
      /\ \A name : ScenarioHeld(ScenarioOf(m, name), jobs, name, name \notin merged)
  BY DEF SimulationHeld
<1>6. more \in Seq(SimulationJobs) /\ n.runs = Len(more)
  BY <1>1, <1>3, <1>5
<1>7. n.points = Summed(more, RunPoints) /\ n.points \in Nat
  <2>1. RunPoints[job] = job.points /\ job.points \in Nat
    BY RunsFit DEF RunPoints
  <2>2. RunPoints \in [SimulationJobs -> Int]
    BY RunsFit
  <2>3. Summed(more, RunPoints) = Summed(jobs, RunPoints) + RunPoints[job]
    BY <1>1, <1>5, <2>2, OneMoreSummed
  <2> QED
    BY <1>3, <1>5, <2>1, <2>3
<1>8. DOMAIN n.byScenario = {more[i].scenario : i \in DOMAIN more}
  <2>1. /\ Len(jobs) \in Nat /\ DOMAIN jobs = 1..Len(jobs) /\ DOMAIN more = 1..(Len(jobs) + 1)
        /\ more[Len(jobs) + 1] = job /\ \A i \in 1..Len(jobs) : more[i] = jobs[i]
    BY <1>1, <1>5
  <2>2. {more[i].scenario : i \in 1..(Len(jobs) + 1)} = {jobs[i].scenario : i \in 1..Len(jobs)} \cup {x}
    <3>1. \A i \in 1..(Len(jobs) + 1) : i \in 1..Len(jobs) \/ i = Len(jobs) + 1
      BY <2>1
    <3>2. (\A i \in 1..Len(jobs) : i \in 1..(Len(jobs) + 1)) /\ Len(jobs) + 1 \in 1..(Len(jobs) + 1)
      BY <2>1
    <3>3. \A y : y \in {more[i].scenario : i \in 1..(Len(jobs) + 1)}
                 <=> y \in {jobs[i].scenario : i \in 1..Len(jobs)} \cup {x}
      BY <1>1, <2>1, <3>1, <3>2
    <3> QED
      BY <3>3
  <2>3. DOMAIN n.byScenario = DOMAIN m.byScenario \cup {x}
    BY <1>3 DEF Put
  <2> QED
    BY <1>5, <2>1, <2>2, <2>3
<1>9. ASSUME NEW name PROVE ScenarioHeld(ScenarioOf(n, name), more, name, name \notin merged)
  <2>1. PICK exact : exact = (name \notin merged)
    OBVIOUS
  <2>2. ScenarioHeld(ScenarioOf(m, name), jobs, name, exact)
    BY <1>5, <2>1
  <2>3. CASE name = x
    <3>1. ScenarioHeld(s, jobs, name, exact) /\ job.scenario = name
      BY <1>1, <2>2, <2>3
    <3>2. /\ t.runs = s.runs + 1 /\ t.points = s.points + job.points /\ t.spikes = s.spikes + job.spikes
          /\ t.avg = <<2 * s.avg[1] * s.runs + (job.min + job.max) * s.avg[2], 2 * s.avg[2] * (s.runs + 1)>>
          /\ t.min = Min({s.min, job.min}) /\ t.max = Max({s.max, job.max})
      BY <1>2, Zenon
    <3>3. ScenarioHeld(t, more, name, exact)
      BY <1>1, <1>5, <3>1, <3>2, OwnRun
    <3> QED
      BY <1>4, <2>1, <2>3, <3>3
  <2>4. CASE name # x
    <3>1. ScenarioOf(n, name) = ScenarioOf(m, name) /\ job.scenario # name
      BY <1>1, <1>4, <2>4
    <3>2. ScenarioHeld(ScenarioOf(m, name), more, name, exact)
      BY <1>1, <1>5, <2>2, <3>1, OtherRun
    <3> QED
      BY <2>1, <3>1, <3>2
  <2> QED
    BY <2>3, <2>4
<1>10. SimulationHeld(n, more, merged)
  BY <1>6, <1>7, <1>8, <1>9 DEF SimulationHeld
<1> QED
  BY <1>1, <1>10

(* The runs of two together. *)
BothRuns(jobs, others, both, name) ==
    /\ \A i \in RunsOf(jobs, name) : \E k \in RunsOf(both, name) : both[k] = jobs[i]
    /\ \A i \in RunsOf(others, name) : \E k \in RunsOf(both, name) : both[k] = others[i]
    /\ \A k \in RunsOf(both, name) :
          (\E i \in RunsOf(jobs, name) : both[k] = jobs[i]) \/ \E i \in RunsOf(others, name) : both[k] = others[i]

LEMMA RunsTogether ==
    ASSUME NEW jobs \in Seq(SimulationJobs), NEW others \in Seq(SimulationJobs), NEW name
    PROVE  BothRuns(jobs, others, jobs \o others, name)
<1>1. PICK m \in Nat, n \in Nat : m = Len(jobs) /\ n = Len(others)
  OBVIOUS
<1>2. PICK both : both = jobs \o others
  OBVIOUS
<1>3. /\ DOMAIN jobs = 1..m /\ DOMAIN others = 1..n /\ DOMAIN both = 1..(m + n)
      /\ \A i \in 1..m : both[i] = jobs[i]
      /\ \A i \in 1..n : both[m + i] = others[i]
  BY <1>1, <1>2
<1>4. /\ \A i \in 1..m : i \in 1..(m + n)
      /\ \A i \in 1..n : m + i \in 1..(m + n)
  OBVIOUS
<1>5. \A k \in 1..(m + n) : k \in 1..m \/ \E i \in 1..n : k = m + i
  <2> SUFFICES ASSUME NEW k \in 1..(m + n), k \notin 1..m PROVE \E i \in 1..n : k = m + i
    OBVIOUS
  <2>1. k - m \in 1..n /\ k = m + (k - m)
    OBVIOUS
  <2> QED
    BY <2>1
<1>6. \A i \in RunsOf(jobs, name) : \E k \in RunsOf(both, name) : both[k] = jobs[i]
  BY <1>3, <1>4 DEF RunsOf
<1>7. \A i \in RunsOf(others, name) : \E k \in RunsOf(both, name) : both[k] = others[i]
  <2> SUFFICES ASSUME NEW i \in RunsOf(others, name) PROVE \E k \in RunsOf(both, name) : both[k] = others[i]
    OBVIOUS
  <2>1. i \in 1..n /\ others[i].scenario = name
    BY <1>3 DEF RunsOf
  <2>2. PICK k : k = m + i
    OBVIOUS
  <2>3. k \in RunsOf(both, name) /\ both[k] = others[i]
    BY <1>3, <1>4, <2>1, <2>2 DEF RunsOf
  <2> QED
    BY <2>3
<1>8. \A k \in RunsOf(both, name) :
          (\E i \in RunsOf(jobs, name) : both[k] = jobs[i]) \/ \E i \in RunsOf(others, name) : both[k] = others[i]
  <2> SUFFICES ASSUME NEW k \in RunsOf(both, name)
               PROVE  (\E i \in RunsOf(jobs, name) : both[k] = jobs[i]) \/ \E i \in RunsOf(others, name) : both[k] = others[i]
    OBVIOUS
  <2>1. k \in 1..(m + n) /\ both[k].scenario = name
    BY <1>3 DEF RunsOf
  <2>2. CASE k \in 1..m
    BY <1>3, <2>1, <2>2 DEF RunsOf
  <2>3. CASE \E i \in 1..n : k = m + i
    <3>1. PICK i \in 1..n : k = m + i
      BY <2>3
    <3>2. both[k] = others[i]
      BY <1>3, <3>1
    <3>3. i \in RunsOf(others, name)
      BY <1>3, <2>1, <3>2 DEF RunsOf
    <3> QED
      BY <3>2, <3>3
  <2> QED
    BY <1>5, <2>1, <2>2, <2>3
<1>9. BothRuns(jobs, others, both, name)
  BY <1>6, <1>7, <1>8 DEF BothRuns
<1> QED
  BY <1>2, <1>9

LEMMA RunsSummed ==
    ASSUME NEW jobs \in Seq(SimulationJobs), NEW others \in Seq(SimulationJobs), NEW name,
           NEW w \in {EachRun, RunPoints, RunSpikes, RunMiddles}
    PROVE  /\ Summed(jobs, OfScenario(name, w)) \in Nat /\ Summed(others, OfScenario(name, w)) \in Nat
           /\ Summed(jobs \o others, OfScenario(name, w)) =
                 Summed(jobs, OfScenario(name, w)) + Summed(others, OfScenario(name, w))
<1>1. PICK v \in [SimulationJobs -> Nat] : v = OfScenario(name, w)
  BY RunsFit
<1>2. v \in [SimulationJobs -> Int] /\ \A j \in SimulationJobs : v[j] = IF j.scenario = name THEN w[j] ELSE 0
  BY <1>1, RunsFit
<1>3. Summed(jobs, v) \in Nat /\ Summed(others, v) \in Nat
  BY SummedWithin
<1>4. Summed(jobs \o others, v) = Summed(jobs, v) + Summed(others, v)
  BY <1>2, BothSummed
<1> QED
  BY <1>1, <1>3, <1>4

LEMMA NoneSummed ==
    ASSUME NEW others \in Seq(SimulationJobs), NEW name, RunsOf(others, name) = {},
           NEW w \in {EachRun, RunPoints, RunSpikes, RunMiddles}
    PROVE  Summed(others, OfScenario(name, w)) = 0
<1>1. PICK v \in [SimulationJobs -> Nat] : v = OfScenario(name, w)
  BY RunsFit
<1>2. \A j \in SimulationJobs : v[j] = IF j.scenario = name THEN w[j] ELSE 0
  BY <1>1, RunsFit
<1>3. \A i \in DOMAIN others : others[i] \in SimulationJobs /\ others[i].scenario # name
  BY DEF RunsOf
<1>4. \A i \in DOMAIN others : v[others[i]] = 0
  BY <1>2, <1>3
<1>5. Summed(others, v) = 0
  BY <1>4, SummedWithin
<1> QED
  BY <1>1, <1>5

LEMMA AloneHeld ==
    ASSUME NEW jobs \in Seq(SimulationJobs), NEW others \in Seq(SimulationJobs), NEW name, RunsOf(others, name) = {},
           NEW s, NEW exact, ScenarioHeld(s, jobs, name, exact)
    PROVE  ScenarioHeld(s, jobs \o others, name, exact)
<1>1. PICK both : both = jobs \o others
  OBVIOUS
<1>2. ASSUME NEW w \in {EachRun, RunPoints, RunSpikes, RunMiddles}
      PROVE  Summed(both, OfScenario(name, w)) = Summed(jobs, OfScenario(name, w))
  <2>1. Summed(both, OfScenario(name, w)) = Summed(jobs, OfScenario(name, w)) + Summed(others, OfScenario(name, w))
    BY <1>1, RunsSummed
  <2>2. Summed(others, OfScenario(name, w)) = 0
    BY NoneSummed
  <2>3. Summed(jobs, OfScenario(name, w)) \in Nat
    BY RunsSummed
  <2> QED
    BY <2>1, <2>2, <2>3
<1>3. /\ Summed(both, OfScenario(name, EachRun)) = Summed(jobs, OfScenario(name, EachRun))
      /\ Summed(both, OfScenario(name, RunPoints)) = Summed(jobs, OfScenario(name, RunPoints))
      /\ Summed(both, OfScenario(name, RunSpikes)) = Summed(jobs, OfScenario(name, RunSpikes))
      /\ Summed(both, OfScenario(name, RunMiddles)) = Summed(jobs, OfScenario(name, RunMiddles))
  BY <1>2
<1>4. BothRuns(jobs, others, both, name)
  BY <1>1, RunsTogether
<1>5. IsLeast(s.min, jobs, RunsOf(jobs, name)) => IsLeast(s.min, both, RunsOf(both, name))
  BY <1>4, Zenon DEF IsLeast, BothRuns
<1>6. IsGreatest(s.max, jobs, RunsOf(jobs, name)) => IsGreatest(s.max, both, RunsOf(both, name))
  BY <1>4, Zenon DEF IsGreatest, BothRuns
<1> QED
  BY <1>1, <1>3, <1>5, <1>6 DEF ScenarioHeld

LEMMA AveragesMeet ==
    ASSUME NEW a, NEW m, NEW g \in Nat, NEW x, NEW e, AverageHeld(a, m, g, x, e),
           NEW b, NEW n, NEW h \in Nat, NEW y, NEW f, AverageHeld(b, n, h, y, f), NEW k \in Nat, g <= k, h <= k,
           NEW q, NEW z
    PROVE  AverageHeld(<<a[1] * b[2] + b[1] * a[2], 2 * a[2] * b[2]>>, q, k, z, FALSE)
<1>1. PICK p \in Nat, r \in Nat, s \in Nat, t \in Nat : p = a[1] /\ r = a[2] /\ s = b[1] /\ t = b[2]
  BY DEF AverageHeld
<1>2. r > 0 /\ t > 0 /\ p <= g * r /\ s <= h * t
  BY <1>1 DEF AverageHeld
<1>3. PICK u \in Nat, v \in Nat : u = p * t + s * r /\ v = 2 * r * t
  OBVIOUS
<1>4. v > 0
  BY <1>2, <1>3
<1>5. p * t <= k * (r * t)
  <2>1. g * r <= k * r
    OBVIOUS
  <2>2. PICK c \in Nat : c = k * r
    OBVIOUS
  <2>3. p <= c
    BY <1>2, <2>1, <2>2
  <2>4. p * t <= c * t
    BY <2>3
  <2> QED
    BY <2>2, <2>4
<1>6. s * r <= k * (r * t)
  <2>1. h * t <= k * t
    OBVIOUS
  <2>2. PICK c \in Nat : c = k * t
    OBVIOUS
  <2>3. s <= c
    BY <1>2, <2>1, <2>2
  <2>4. s * r <= c * r
    BY <2>3
  <2> QED
    BY <2>2, <2>4
<1>7. u <= k * v
  <2>1. PICK c \in Nat, d \in Nat, e1 \in Nat : c = k * (r * t) /\ d = p * t /\ e1 = s * r
    OBVIOUS
  <2>2. k * v = 2 * c
    BY <1>3, <2>1
  <2> QED
    BY <1>3, <1>5, <1>6, <2>1, <2>2
<1>8. AverageHeld(<<u, v>>, q, k, z, FALSE)
  BY <1>4, <1>7 DEF AverageHeld
<1> QED
  BY <1>1, <1>3, <1>8

LEMMA MergedScenarioHeld ==
    ASSUME NEW jobs \in Seq(SimulationJobs), NEW others \in Seq(SimulationJobs), NEW name,
           NEW s, NEW e, ScenarioHeld(s, jobs, name, e), NEW u, NEW f, ScenarioHeld(u, others, name, f)
    PROVE  ScenarioHeld(MergedScenario(s, u), jobs \o others, name, FALSE)
<1>1. PICK both, t : both = jobs \o others /\ t = MergedScenario(s, u)
  OBVIOUS
<1>2. PICK a \in Nat, b \in Nat, c \in Nat, d \in Nat : a = s.min /\ b = u.min /\ c = s.max /\ d = u.max
  BY DEF ScenarioHeld
<1>3. /\ t.runs = s.runs + u.runs /\ t.points = s.points + u.points /\ t.spikes = s.spikes + u.spikes
      /\ t.avg = <<s.avg[1] * u.avg[2] + u.avg[1] * s.avg[2], 2 * s.avg[2] * u.avg[2]>>
      /\ t.min = (IF a <= b THEN a ELSE b) /\ t.max = (IF c <= d THEN d ELSE c)
  <2>1. Min({a, b}) = (IF a <= b THEN a ELSE b) /\ Max({c, d}) = (IF c <= d THEN d ELSE c)
    BY LesserOf, GreaterOf
  <2>2. /\ t.runs = s.runs + u.runs /\ t.points = s.points + u.points /\ t.spikes = s.spikes + u.spikes
        /\ t.avg = <<s.avg[1] * u.avg[2] + u.avg[1] * s.avg[2], 2 * s.avg[2] * u.avg[2]>>
        /\ t.min = Min({s.min, u.min}) /\ t.max = Max({s.max, u.max})
    BY <1>1, Zenon DEF MergedScenario
  <2> QED
    BY <1>2, <2>1, <2>2, Zenon
<1>4. /\ s.runs \in Nat /\ s.points \in Nat /\ s.spikes \in Nat
      /\ s.runs = Summed(jobs, OfScenario(name, EachRun))
      /\ s.points = Summed(jobs, OfScenario(name, RunPoints))
      /\ s.spikes = Summed(jobs, OfScenario(name, RunSpikes))
      /\ IsLeast(a, jobs, RunsOf(jobs, name)) /\ IsGreatest(c, jobs, RunsOf(jobs, name))
      /\ AverageHeld(s.avg, s.runs, c, Summed(jobs, OfScenario(name, RunMiddles)), e)
  BY <1>2 DEF ScenarioHeld
<1>5. /\ u.runs \in Nat /\ u.points \in Nat /\ u.spikes \in Nat
      /\ u.runs = Summed(others, OfScenario(name, EachRun))
      /\ u.points = Summed(others, OfScenario(name, RunPoints))
      /\ u.spikes = Summed(others, OfScenario(name, RunSpikes))
      /\ IsLeast(b, others, RunsOf(others, name)) /\ IsGreatest(d, others, RunsOf(others, name))
      /\ AverageHeld(u.avg, u.runs, d, Summed(others, OfScenario(name, RunMiddles)), f)
  BY <1>2 DEF ScenarioHeld
<1>6. ASSUME NEW w \in {EachRun, RunPoints, RunSpikes, RunMiddles}
      PROVE  Summed(both, OfScenario(name, w)) = Summed(jobs, OfScenario(name, w)) + Summed(others, OfScenario(name, w))
  BY <1>1, RunsSummed
<1>7. /\ t.runs = Summed(both, OfScenario(name, EachRun)) /\ t.points = Summed(both, OfScenario(name, RunPoints))
      /\ t.spikes = Summed(both, OfScenario(name, RunSpikes))
  BY <1>3, <1>4, <1>5, <1>6
<1>8. t.runs \in Nat /\ t.points \in Nat /\ t.spikes \in Nat /\ t.min \in Nat /\ t.max \in Nat
  <2>1. PICK g \in Nat, h \in Nat, i \in Nat, j \in Nat, k \in Nat, l \in Nat :
             g = s.runs /\ h = s.points /\ i = s.spikes /\ j = u.runs /\ k = u.points /\ l = u.spikes
    BY <1>4, <1>5
  <2>2. g + j \in Nat /\ h + k \in Nat /\ i + l \in Nat
    OBVIOUS
  <2>3. t.min \in Nat /\ t.max \in Nat
    BY <1>3, Zenon
  <2> QED
    BY <1>3, <2>1, <2>2, <2>3
<1>9. BothRuns(jobs, others, both, name)
  BY <1>1, RunsTogether
<1>10. /\ \A i \in RunsOf(jobs, name) : jobs[i] \in SimulationJobs
       /\ \A i \in RunsOf(others, name) : others[i] \in SimulationJobs
  BY DEF RunsOf
<1>11. \A j \in SimulationJobs : j.min \in Nat /\ j.max \in Nat /\ j.min <= Most /\ Most \in Nat
  <2> SUFFICES ASSUME NEW j \in SimulationJobs PROVE j.min \in Nat /\ j.max \in Nat /\ j.min <= Most /\ Most \in Nat
    OBVIOUS
  <2>1. j.min \in Nat /\ j.max \in Nat /\ j.min <= j.max /\ j.max <= Most /\ Most \in Nat
    BY RunsFit
  <2> QED
    BY <2>1
<1>12. IsLeast(t.min, both, RunsOf(both, name))
  <2>1. PICK l \in Nat : l = t.min
    BY <1>8
  <2>2. l = (IF a <= b THEN a ELSE b)
    BY <1>3, <2>1
  <2>3. l <= a /\ l <= b
    BY <2>2
  <2>4. ASSUME NEW i \in RunsOf(jobs, name) PROVE l <= jobs[i].min
    <3>1. a <= jobs[i].min /\ jobs[i].min \in Nat
      BY <1>4, <1>10, <1>11 DEF IsLeast
    <3> QED
      BY <2>3, <3>1
  <2>5. ASSUME NEW i \in RunsOf(others, name) PROVE l <= others[i].min
    <3>1. b <= others[i].min /\ others[i].min \in Nat
      BY <1>5, <1>10, <1>11 DEF IsLeast
    <3> QED
      BY <2>3, <3>1
  <2>6. \A k \in RunsOf(both, name) : l <= both[k].min
    BY <1>9, <2>4, <2>5 DEF BothRuns
  <2>7. \/ RunsOf(both, name) = {} /\ l = Most
        \/ \E k \in RunsOf(both, name) : both[k].min = l
    <3>1. ASSUME \E i \in RunsOf(jobs, name) : jobs[i].min = l PROVE \E k \in RunsOf(both, name) : both[k].min = l
      BY <1>9, <3>1, Zenon DEF BothRuns
    <3>2. ASSUME \E i \in RunsOf(others, name) : others[i].min = l PROVE \E k \in RunsOf(both, name) : both[k].min = l
      BY <1>9, <3>2, Zenon DEF BothRuns
    <3>3. CASE RunsOf(jobs, name) = {} /\ RunsOf(others, name) = {}
      <4>1. RunsOf(both, name) = {}
        BY <1>9, <3>3 DEF BothRuns
      <4>2. a = Most /\ b = Most
        BY <1>4, <1>5, <3>3 DEF IsLeast
      <4> QED
        BY <2>2, <4>1, <4>2
    <3>4. CASE RunsOf(jobs, name) # {} /\ l = a
      BY <1>4, <3>1, <3>4 DEF IsLeast
    <3>5. CASE RunsOf(others, name) # {} /\ l = b
      BY <1>5, <3>2, <3>5 DEF IsLeast
    <3>6. CASE RunsOf(jobs, name) = {} /\ RunsOf(others, name) # {} /\ l # b
      <4>1. a = Most
        BY <1>4, <3>6 DEF IsLeast
      <4>2. PICK i \in RunsOf(others, name) : others[i].min = b
        BY <1>5, <3>6 DEF IsLeast
      <4>3. b <= Most /\ Most \in Nat
        BY <1>10, <1>11, <4>2
      <4> QED
        BY <2>2, <3>6, <4>1, <4>3
    <3>7. CASE RunsOf(jobs, name) # {} /\ RunsOf(others, name) = {} /\ l # a
      <4>1. b = Most
        BY <1>5, <3>7 DEF IsLeast
      <4>2. PICK i \in RunsOf(jobs, name) : jobs[i].min = a
        BY <1>4, <3>7 DEF IsLeast
      <4>3. a <= Most /\ Most \in Nat
        BY <1>10, <1>11, <4>2
      <4> QED
        BY <2>2, <3>7, <4>1, <4>3
    <3>8. l = a \/ l = b
      BY <2>2
    <3> QED
      BY <3>3, <3>4, <3>5, <3>6, <3>7, <3>8
  <2> QED
    BY <2>1, <2>6, <2>7, Zenon DEF IsLeast
<1>13. IsGreatest(t.max, both, RunsOf(both, name))
  <2>1. PICK l \in Nat : l = t.max
    BY <1>8
  <2>2. l = (IF c <= d THEN d ELSE c)
    BY <1>3, <2>1
  <2>3. l >= c /\ l >= d
    BY <2>2
  <2>4. ASSUME NEW i \in RunsOf(jobs, name) PROVE l >= jobs[i].max
    <3>1. c >= jobs[i].max /\ jobs[i].max \in Nat
      BY <1>4, <1>10, <1>11 DEF IsGreatest
    <3> QED
      BY <2>3, <3>1
  <2>5. ASSUME NEW i \in RunsOf(others, name) PROVE l >= others[i].max
    <3>1. d >= others[i].max /\ others[i].max \in Nat
      BY <1>5, <1>10, <1>11 DEF IsGreatest
    <3> QED
      BY <2>3, <3>1
  <2>6. \A k \in RunsOf(both, name) : l >= both[k].max
    BY <1>9, <2>4, <2>5 DEF BothRuns
  <2>7. \/ RunsOf(both, name) = {} /\ l = 0
        \/ \E k \in RunsOf(both, name) : both[k].max = l
    <3>1. ASSUME \E i \in RunsOf(jobs, name) : jobs[i].max = l PROVE \E k \in RunsOf(both, name) : both[k].max = l
      BY <1>9, <3>1, Zenon DEF BothRuns
    <3>2. ASSUME \E i \in RunsOf(others, name) : others[i].max = l PROVE \E k \in RunsOf(both, name) : both[k].max = l
      BY <1>9, <3>2, Zenon DEF BothRuns
    <3>3. CASE RunsOf(jobs, name) = {} /\ RunsOf(others, name) = {}
      <4>1. RunsOf(both, name) = {}
        BY <1>9, <3>3 DEF BothRuns
      <4>2. c = 0 /\ d = 0
        BY <1>4, <1>5, <3>3 DEF IsGreatest
      <4> QED
        BY <2>2, <4>1, <4>2
    <3>4. CASE RunsOf(jobs, name) # {} /\ l = c
      BY <1>4, <3>1, <3>4 DEF IsGreatest
    <3>5. CASE RunsOf(others, name) # {} /\ l = d
      BY <1>5, <3>2, <3>5 DEF IsGreatest
    <3>6. CASE RunsOf(jobs, name) = {} /\ RunsOf(others, name) # {} /\ l # d
      <4>1. c = 0
        BY <1>4, <3>6 DEF IsGreatest
      <4> QED
        BY <2>2, <3>6, <4>1
    <3>7. CASE RunsOf(jobs, name) # {} /\ RunsOf(others, name) = {} /\ l # c
      <4>1. d = 0
        BY <1>5, <3>7 DEF IsGreatest
      <4> QED
        BY <2>2, <3>7, <4>1
    <3>8. l = c \/ l = d
      BY <2>2
    <3> QED
      BY <3>3, <3>4, <3>5, <3>6, <3>7, <3>8
  <2> QED
    BY <2>1, <2>6, <2>7, Zenon DEF IsGreatest
<1>14. AverageHeld(t.avg, t.runs, t.max, Summed(both, OfScenario(name, RunMiddles)), FALSE)
  <2>1. PICK k \in Nat : k = t.max
    BY <1>8
  <2>2. k = (IF c <= d THEN d ELSE c)
    BY <1>3, <2>1
  <2>3. c <= k /\ d <= k
    BY <2>2
  <2>4. PICK g, h : g = s.avg /\ h = u.avg
    OBVIOUS
  <2>5. PICK i, j, x, y : i = s.runs /\ j = u.runs /\ x = Summed(jobs, OfScenario(name, RunMiddles)) /\ y = Summed(others, OfScenario(name, RunMiddles))
    OBVIOUS
  <2>6. AverageHeld(g, i, c, x, e) /\ AverageHeld(h, j, d, y, f)
    BY <1>4, <1>5, <2>4, <2>5, Zenon
  <2>7. \A q, z : AverageHeld(<<g[1] * h[2] + h[1] * g[2], 2 * g[2] * h[2]>>, q, k, z, FALSE)
    BY <2>3, <2>6, AveragesMeet
  <2>8. t.avg = <<g[1] * h[2] + h[1] * g[2], 2 * g[2] * h[2]>>
    BY <1>3, <2>4, Zenon
  <2> QED
    BY <2>1, <2>7, <2>8, Zenon
<1>15. ScenarioHeld(t, both, name, FALSE)
  BY <1>7, <1>8, <1>12, <1>13, <1>14 DEF ScenarioHeld
<1> QED
  BY <1>1, <1>15

LEMMA MergedRunsKeep ==
    ASSUME NEW m, NEW jobs, NEW merged, SimulationHeld(m, jobs, merged),
           NEW other, NEW others, NEW averages, SimulationHeld(other, others, averages)
    PROVE  SimulationHeld(MergedSimulation(m, other), jobs \o others, merged \cup DOMAIN other.byScenario)
<1>1. PICK n, both, D, E : /\ n = MergedSimulation(m, other) /\ both = jobs \o others
                           /\ D = DOMAIN m.byScenario /\ E = DOMAIN other.byScenario
  OBVIOUS
<1>2. /\ n.runs = m.runs + other.runs /\ n.points = m.points + other.points
      /\ n.byScenario = [name \in D \cup E |-> IF name \in E THEN MergedScenario(ScenarioOf(m, name), other.byScenario[name])
                                                              ELSE m.byScenario[name]]
  BY <1>1 DEF MergedSimulation
<1>3. /\ jobs \in Seq(SimulationJobs) /\ m.runs = Len(jobs) /\ m.points = Summed(jobs, RunPoints) /\ m.points \in Nat
      /\ D = {jobs[i].scenario : i \in DOMAIN jobs}
      /\ \A name : ScenarioHeld(ScenarioOf(m, name), jobs, name, name \notin merged)
  BY <1>1 DEF SimulationHeld
<1>4. /\ others \in Seq(SimulationJobs) /\ other.runs = Len(others) /\ other.points = Summed(others, RunPoints)
      /\ other.points \in Nat /\ E = {others[i].scenario : i \in DOMAIN others}
      /\ \A name : ScenarioHeld(ScenarioOf(other, name), others, name, name \notin averages)
  BY <1>1 DEF SimulationHeld
<1>5. both \in Seq(SimulationJobs) /\ n.runs = Len(both)
  BY <1>1, <1>2, <1>3, <1>4
<1>6. n.points = Summed(both, RunPoints) /\ n.points \in Nat
  <2>1. RunPoints \in [SimulationJobs -> Int]
    BY RunsFit
  <2>2. Summed(both, RunPoints) = Summed(jobs, RunPoints) + Summed(others, RunPoints)
    BY <1>1, <1>3, <1>4, <2>1, BothSummed
  <2> QED
    BY <1>2, <1>3, <1>4, <2>2
<1>7. \A s, name : RunsOf(s, name) # {} <=> name \in {s[i].scenario : i \in DOMAIN s}
  BY DEF RunsOf
<1>8. DOMAIN n.byScenario = {both[i].scenario : i \in DOMAIN both}
  <2>1. ASSUME NEW name PROVE name \in D \cup E <=> name \in {both[i].scenario : i \in DOMAIN both}
    <3>1. BothRuns(jobs, others, both, name)
      BY <1>1, <1>3, <1>4, RunsTogether
    <3>2. RunsOf(both, name) # {} <=> RunsOf(jobs, name) # {} \/ RunsOf(others, name) # {}
      BY <3>1 DEF BothRuns
    <3>3. /\ name \in D <=> RunsOf(jobs, name) # {}
          /\ name \in E <=> RunsOf(others, name) # {}
          /\ name \in {both[i].scenario : i \in DOMAIN both} <=> RunsOf(both, name) # {}
      BY <1>3, <1>4, <1>7, Zenon
    <3> QED
      BY <3>2, <3>3, Zenon
  <2>2. DOMAIN n.byScenario = D \cup E
    BY <1>2
  <2>3. D \cup E = {both[i].scenario : i \in DOMAIN both}
    BY <2>1, Zenon
  <2> QED
    BY <2>2, <2>3, Zenon
<1>9. ASSUME NEW name PROVE ScenarioHeld(ScenarioOf(n, name), both, name, name \notin (merged \cup E))
  <2>1. CASE name \in E
    <3>1. ScenarioOf(n, name) = MergedScenario(ScenarioOf(m, name), ScenarioOf(other, name))
      BY <1>1, <1>2, <2>1 DEF ScenarioOf
    <3>2. PICK s, u, e, f : s = ScenarioOf(m, name) /\ u = ScenarioOf(other, name) /\ e = (name \notin merged) /\ f = (name \notin averages)
      OBVIOUS
    <3>3. ScenarioHeld(s, jobs, name, e) /\ ScenarioHeld(u, others, name, f)
      BY <1>3, <1>4, <3>2, Zenon
    <3>4. ScenarioHeld(MergedScenario(s, u), both, name, FALSE)
      BY <1>1, <1>3, <1>4, <3>3, MergedScenarioHeld
    <3>5. (name \notin (merged \cup E)) = FALSE
      BY <2>1
    <3> QED
      BY <3>1, <3>2, <3>4, <3>5, Zenon
  <2>2. CASE name \notin E
    <3>1. ScenarioOf(n, name) = ScenarioOf(m, name)
      BY <1>1, <1>2, <2>2 DEF ScenarioOf
    <3>2. PICK s, e : s = ScenarioOf(m, name) /\ e = (name \notin merged)
      OBVIOUS
    <3>3. ScenarioHeld(s, jobs, name, e)
      BY <1>3, <3>2, Zenon
    <3>4. RunsOf(others, name) = {}
      BY <1>4, <1>7, <2>2, Zenon
    <3>5. ScenarioHeld(s, both, name, e)
      BY <1>1, <1>3, <1>4, <3>3, <3>4, AloneHeld
    <3>6. (name \notin (merged \cup E)) = (name \notin merged)
      BY <2>2
    <3> QED
      BY <3>1, <3>2, <3>5, <3>6, Zenon
  <2> QED
    BY <2>1, <2>2
<1>10. SimulationHeld(n, both, merged \cup E)
  BY <1>5, <1>6, <1>8, <1>9 DEF SimulationHeld
<1> QED
  BY <1>1, <1>10

LEMMA HeldIsSimulated == ASSUME NEW m, NEW jobs, NEW merged, SimulationHeld(m, jobs, merged) PROVE SimulationCounted(m, jobs, merged)
<1>1. /\ jobs \in Seq(SimulationJobs) /\ m.runs = Len(jobs) /\ m.points = Summed(jobs, RunPoints)
      /\ DOMAIN m.byScenario = {jobs[i].scenario : i \in DOMAIN jobs}
      /\ \A name : ScenarioHeld(ScenarioOf(m, name), jobs, name, name \notin merged)
  BY DEF SimulationHeld
<1>2. ASSUME NEW name \in DOMAIN m.byScenario, NEW s, s = m.byScenario[name], NEW mine, mine = RunsOf(jobs, name)
      PROVE  /\ s.runs = Cardinality(mine) /\ s.points = Summed(jobs, OfScenario(name, RunPoints))
             /\ s.spikes = Summed(jobs, OfScenario(name, RunSpikes))
             /\ s.min = Min({jobs[i].min : i \in mine}) /\ s.max = Max({jobs[i].max : i \in mine})
             /\ AtMost(s.avg, <<s.max, 1>>)
             /\ name \notin merged =>
                   s.avg[1] * 2 * s.runs = Summed(jobs, OfScenario(name, RunMiddles)) * s.avg[2]
  <2>1. ScenarioHeld(s, jobs, name, name \notin merged)
    BY <1>1, <1>2 DEF ScenarioOf
  <2>2. mine # {}
    BY <1>1, <1>2 DEF RunsOf
  <2>3. s.runs = Cardinality(mine)
    <3>1. PICK P : P = {j \in SimulationJobs : j.scenario = name}
      OBVIOUS
    <3>2. \A j \in SimulationJobs : /\ j \in P => OfScenario(name, EachRun)[j] = 1
                                    /\ j \notin P => OfScenario(name, EachRun)[j] = 0
      BY <3>1 DEF OfScenario, EachRun
    <3>3. PlacesIn(jobs, P) = mine
      BY <1>1, <1>2, <3>1 DEF RunsOf, PlacesIn
    <3>4. Summed(jobs, OfScenario(name, EachRun)) = Cardinality(PlacesIn(jobs, P))
      <4>1. PICK w : w = OfScenario(name, EachRun)
        OBVIOUS
      <4>2. /\ w \in [SimulationJobs -> Int]
            /\ \A j \in SimulationJobs : (j \in P => w[j] = 1) /\ (j \notin P => w[j] = 0)
        BY <3>2, <4>1, RunsFit
      <4>3. Summed(jobs, w) = Cardinality(PlacesIn(jobs, P))
        BY <1>1, <4>2, FlagsCount
      <4> QED
        BY <4>1, <4>3
    <3> QED
      BY <2>1, <3>3, <3>4 DEF ScenarioHeld
  <2>4. \A i \in mine : jobs[i] \in SimulationJobs
    BY <1>1, <1>2 DEF RunsOf
  <2>5. s.min \in Nat /\ s.max \in Nat /\ IsLeast(s.min, jobs, mine) /\ IsGreatest(s.max, jobs, mine)
    BY <1>2, <2>1 DEF ScenarioHeld
  <2>6. \A i \in mine : jobs[i].min \in Nat /\ jobs[i].max \in Nat
    BY <2>4, RunsFit
  <2>7. s.min = Min({jobs[i].min : i \in mine})
    <3>1. PICK T, l : l \in Nat /\ l = s.min /\ T = {jobs[i].min : i \in mine}
      BY <2>5
    <3>2. l \in T /\ T \subseteq Nat /\ \A y \in T : l <= y
      BY <2>2, <2>5, <2>6, <3>1 DEF IsLeast
    <3>3. \A x \in T : (\A y \in T : x <= y) => x = l
      BY <3>2
    <3> QED
      BY <3>1, <3>2, <3>3 DEF Min
  <2>8. s.max = Max({jobs[i].max : i \in mine})
    <3>1. PICK T, l : l \in Nat /\ l = s.max /\ T = {jobs[i].max : i \in mine}
      BY <2>5
    <3>2. l \in T /\ T \subseteq Nat /\ \A y \in T : l >= y
      BY <2>2, <2>5, <2>6, <3>1 DEF IsGreatest
    <3>3. \A x \in T : (\A y \in T : x >= y) => x = l
      BY <3>2
    <3> QED
      BY <3>1, <3>2, <3>3 DEF Max
  <2>9. AtMost(s.avg, <<s.max, 1>>)
    <3>1. PICK p \in Nat, q \in Nat, g \in Nat : p = s.avg[1] /\ q = s.avg[2] /\ g = s.max
      BY <2>1 DEF ScenarioHeld, AverageHeld
    <3>2. p <= g * q
      BY <2>1, <3>1 DEF ScenarioHeld, AverageHeld
    <3>3. p * 1 <= g * q
      BY <3>2
    <3> QED
      BY <3>1, <3>3 DEF AtMost
  <2>10. name \notin merged => s.avg[1] * 2 * s.runs = Summed(jobs, OfScenario(name, RunMiddles)) * s.avg[2]
    BY <2>1 DEF ScenarioHeld, AverageHeld
  <2> QED
    BY <2>1, <2>3, <2>7, <2>8, <2>9, <2>10 DEF ScenarioHeld
<1>3. \A name \in DOMAIN m.byScenario :
          LET s == m.byScenario[name]
              mine == RunsOf(jobs, name)
          IN  /\ s.runs = Cardinality(mine) /\ s.points = Summed(jobs, OfScenario(name, RunPoints))
              /\ s.spikes = Summed(jobs, OfScenario(name, RunSpikes))
              /\ s.min = Min({jobs[i].min : i \in mine}) /\ s.max = Max({jobs[i].max : i \in mine})
              /\ AtMost(s.avg, <<s.max, 1>>)
              /\ name \notin merged =>
                    s.avg[1] * 2 * s.runs = Summed(jobs, OfScenario(name, RunMiddles)) * s.avg[2]
  BY <1>2
<1> QED
  BY <1>1, <1>3 DEF SimulationCounted, RunsOf, OfScenario, RunPoints, RunSpikes, RunMiddles

-----------------------------------------------------------------------------
(* The meters' invariant, and the steps that keep it. *)

ErrorsInv == ErrorsHeld(errors, errorCounts, reported)

MetricsInv == MetricsHeld(metrics, uses) /\ collections \in Nat /\ collections >= Len(uses)

AnalysisInv ==
    /\ analysis = [c \in Collectors |-> analysis[c]] /\ analysed = [c \in Collectors |-> analysed[c]]
    /\ \A c \in Collectors : AnalysisHeld(analysis[c], analysed[c])

RunsInv ==
    /\ simulated = [c \in Collectors |-> simulated[c]] /\ runs = [c \in Collectors |-> runs[c]]
    /\ averaged = [c \in Collectors |-> averaged[c]]
    /\ \A c \in Collectors : SimulationHeld(simulated[c], runs[c], averaged[c])

MeteringInv == ErrorsInv /\ MetricsInv /\ AnalysisInv /\ RunsInv

LEMMA RecordErrorKeeps == ASSUME ErrorsInv, RecordError PROVE ErrorsInv'
<1>1. PICK r \in ErrorReports :
           /\ Reporting(errors', errors, r)
           /\ errorCounts' = [total |-> errorCounts.total + 1,
                              critical |-> errorCounts.critical + Flag(r.severity = "critical"),
                              warning |-> errorCounts.warning + Flag(r.severity = "warning")]
           /\ reported' = Append(reported, r)
  BY DEF RecordError, Reporting
<1>2. PICK d : d = errorCounts'
  OBVIOUS
<1>3. /\ d.total = errorCounts.total + 1 /\ d.critical = errorCounts.critical + Flag(r.severity = "critical")
      /\ d.warning = errorCounts.warning + Flag(r.severity = "warning")
  BY <1>1, <1>2
<1>4. ErrorsHeld(errors, errorCounts, reported)
  BY DEF ErrorsInv
<1>5. PICK f : f = errors'
  OBVIOUS
<1>6. Reporting(f, errors, r)
  BY <1>1, <1>5
<1>7. ErrorsHeld(f, d, Append(reported, r))
  BY <1>3, <1>4, <1>6, ReportKeeps
<1> QED
  BY <1>1, <1>2, <1>5, <1>7 DEF ErrorsInv

LEMMA ResetErrorsKeeps == ASSUME ResetErrors PROVE ErrorsInv'
  BY NoErrorsHeld DEF ResetErrors, ErrorsInv

LEMMA UseMetricKeeps == ASSUME MetricsInv, UseMetric PROVE MetricsInv'
<1>1. PICK kind \in MetricKinds, name \in Names, value \in Deltas :
           LET known == metrics[kind]
               metric == IF name \in DOMAIN known THEN known[name] ELSE NewMetric(kind)
           IN  /\ metrics' = [metrics EXCEPT ![kind] = Put(known, name, Updated(kind, metric, value))]
               /\ uses' = Append(uses, [kind |-> kind, name |-> name, value |-> value])
  BY DEF UseMetric
<1>2. PICK u \in Uses : u = [kind |-> kind, name |-> name, value |-> value]
  BY DEF Uses
<1>3. u.kind = kind /\ u.name = name /\ u.value = value
  BY <1>2
<1>4. PICK metric, new : /\ metric = IF u.name \in DOMAIN metrics[u.kind] THEN metrics[u.kind][u.name] ELSE NewMetric(u.kind)
                         /\ new = [metrics EXCEPT ![u.kind] = Put(metrics[u.kind], u.name, Updated(u.kind, metric, u.value))]
  OBVIOUS
<1>5. MetricsHeld(metrics, uses) /\ collections \in Nat /\ collections >= Len(uses)
  BY DEF MetricsInv
<1>6. MetricsHeld(new, Append(uses, u))
  BY <1>4, <1>5, UseKeeps
<1>7. metrics' = new /\ uses' = Append(uses, u)
  BY <1>1, <1>2, <1>3, <1>4, Zenon
<1>8. collections' \in Nat /\ collections' >= Len(uses')
  <2>1. uses \in Seq(Uses)
    BY <1>5 DEF MetricsHeld
  <2>2. Len(uses') = Len(uses) + 1 /\ Len(uses) \in Nat
    BY <1>7, <2>1
  <2>3. collections' = collections + 1
    BY DEF UseMetric
  <2> QED
    BY <1>5, <2>2, <2>3
<1> QED
  BY <1>6, <1>7, <1>8 DEF MetricsInv

LEMMA ResetMetricsKeeps == ASSUME MetricsInv, ResetMetrics PROVE MetricsInv'
<1>1. collections' \in Nat /\ Len(<<>>) = 0
  BY DEF MetricsInv, ResetMetrics
<1> QED
  BY <1>1, NoMetricsHeld DEF ResetMetrics, MetricsInv

LEMMA AnalyseKeeps == ASSUME AnalysisInv, RunsInv, Analyse PROVE AnalysisInv' /\ RunsInv'
<1>1. PICK c \in Collectors, job \in AnalysisJobs :
           /\ analysis' = [analysis EXCEPT ![c] = Analysed(@, job)]
           /\ analysed' = [analysed EXCEPT ![c] = Append(@, job)]
  BY DEF Analyse
<1>2. /\ analysis' = [d \in Collectors |-> IF d = c THEN Analysed(analysis[c], job) ELSE analysis[d]]
      /\ analysed' = [d \in Collectors |-> IF d = c THEN Append(analysed[c], job) ELSE analysed[d]]
  BY <1>1 DEF AnalysisInv
<1>3. \A d \in Collectors : AnalysisHeld(analysis[d], analysed[d])
  BY DEF AnalysisInv
<1>4. AnalysisHeld(Analysed(analysis[c], job), Append(analysed[c], job))
  BY <1>3, AnalysedKeeps
<1>5. \A d \in Collectors : AnalysisHeld(analysis'[d], analysed'[d])
  BY <1>2, <1>3, <1>4
<1>6. AnalysisInv'
  BY <1>2, <1>5 DEF AnalysisInv
<1> QED
  BY <1>6 DEF RunsInv, Analyse

LEMMA MergeAnalysisKeeps == ASSUME AnalysisInv, RunsInv, MergeAnalysis PROVE AnalysisInv' /\ RunsInv'
<1>1. PICK c \in Collectors, e \in Collectors :
           /\ analysis' = [analysis EXCEPT ![c] = MergedAnalysis(@, analysis[e])]
           /\ analysed' = [analysed EXCEPT ![c] = @ \o analysed[e]]
  BY DEF MergeAnalysis
<1>2. /\ analysis' = [d \in Collectors |-> IF d = c THEN MergedAnalysis(analysis[c], analysis[e]) ELSE analysis[d]]
      /\ analysed' = [d \in Collectors |-> IF d = c THEN analysed[c] \o analysed[e] ELSE analysed[d]]
  BY <1>1 DEF AnalysisInv
<1>3. \A d \in Collectors : AnalysisHeld(analysis[d], analysed[d])
  BY DEF AnalysisInv
<1>4. AnalysisHeld(MergedAnalysis(analysis[c], analysis[e]), analysed[c] \o analysed[e])
  BY <1>3, MergedKeeps
<1>5. \A d \in Collectors : AnalysisHeld(analysis'[d], analysed'[d])
  BY <1>2, <1>3, <1>4
<1>6. AnalysisInv'
  BY <1>2, <1>5 DEF AnalysisInv
<1> QED
  BY <1>6 DEF RunsInv, MergeAnalysis

LEMMA ResetAnalysisKeeps == ASSUME AnalysisInv, RunsInv, ResetAnalysis PROVE AnalysisInv' /\ RunsInv'
<1>1. PICK c \in Collectors :
           analysis' = [analysis EXCEPT ![c] = NoAnalysis] /\ analysed' = [analysed EXCEPT ![c] = <<>>]
  BY DEF ResetAnalysis
<1>2. /\ analysis' = [d \in Collectors |-> IF d = c THEN NoAnalysis ELSE analysis[d]]
      /\ analysed' = [d \in Collectors |-> IF d = c THEN <<>> ELSE analysed[d]]
  BY <1>1 DEF AnalysisInv
<1>3. \A d \in Collectors : AnalysisHeld(analysis'[d], analysed'[d])
  BY <1>2, NoAnalysisHeld DEF AnalysisInv
<1>4. AnalysisInv'
  BY <1>2, <1>3 DEF AnalysisInv
<1> QED
  BY <1>4 DEF RunsInv, ResetAnalysis

LEMMA RecordRunKeeps == ASSUME AnalysisInv, RunsInv, RecordRun PROVE AnalysisInv' /\ RunsInv'
<1>1. PICK c \in Collectors, job \in SimulationJobs :
           /\ simulated' = [simulated EXCEPT ![c] = Simulated(@, job)]
           /\ runs' = [runs EXCEPT ![c] = Append(@, job)]
  BY DEF RecordRun
<1>2. averaged' = averaged /\ analysis' = analysis /\ analysed' = analysed
  BY DEF RecordRun
<1>3. /\ simulated' = [d \in Collectors |-> IF d = c THEN Simulated(simulated[c], job) ELSE simulated[d]]
      /\ runs' = [d \in Collectors |-> IF d = c THEN Append(runs[c], job) ELSE runs[d]]
  BY <1>1 DEF RunsInv
<1>4. \A d \in Collectors : SimulationHeld(simulated[d], runs[d], averaged[d])
  BY DEF RunsInv
<1>5. SimulationHeld(Simulated(simulated[c], job), Append(runs[c], job), averaged[c])
  BY <1>4, SimulatedKeeps
<1>6. \A d \in Collectors : SimulationHeld(simulated'[d], runs'[d], averaged'[d])
  BY <1>2, <1>3, <1>4, <1>5
<1>7. RunsInv'
  BY <1>2, <1>3, <1>6 DEF RunsInv
<1> QED
  BY <1>2, <1>7 DEF AnalysisInv

LEMMA MergeRunsKeeps == ASSUME AnalysisInv, RunsInv, MergeRuns PROVE AnalysisInv' /\ RunsInv'
<1>1. PICK c \in Collectors, e \in Collectors :
           /\ simulated' = [simulated EXCEPT ![c] = MergedSimulation(@, simulated[e])]
           /\ runs' = [runs EXCEPT ![c] = @ \o runs[e]]
           /\ averaged' = [averaged EXCEPT ![c] = @ \cup DOMAIN simulated[e].byScenario]
  BY DEF MergeRuns
<1>2. analysis' = analysis /\ analysed' = analysed
  BY DEF MergeRuns
<1>3. /\ simulated' = [d \in Collectors |-> IF d = c THEN MergedSimulation(simulated[c], simulated[e]) ELSE simulated[d]]
      /\ runs' = [d \in Collectors |-> IF d = c THEN runs[c] \o runs[e] ELSE runs[d]]
      /\ averaged' = [d \in Collectors |-> IF d = c THEN averaged[c] \cup DOMAIN simulated[e].byScenario ELSE averaged[d]]
  BY <1>1 DEF RunsInv
<1>4. \A d \in Collectors : SimulationHeld(simulated[d], runs[d], averaged[d])
  BY DEF RunsInv
<1>5. SimulationHeld(MergedSimulation(simulated[c], simulated[e]), runs[c] \o runs[e],
                     averaged[c] \cup DOMAIN simulated[e].byScenario)
  BY <1>4, MergedRunsKeep
<1>6. \A d \in Collectors : SimulationHeld(simulated'[d], runs'[d], averaged'[d])
  BY <1>3, <1>4, <1>5
<1>7. RunsInv'
  BY <1>3, <1>6 DEF RunsInv
<1> QED
  BY <1>2, <1>7 DEF AnalysisInv

LEMMA ResetRunsKeeps == ASSUME AnalysisInv, RunsInv, ResetRuns PROVE AnalysisInv' /\ RunsInv'
<1>1. PICK c \in Collectors :
           /\ simulated' = [simulated EXCEPT ![c] = NoSimulation] /\ runs' = [runs EXCEPT ![c] = <<>>]
           /\ averaged' = [averaged EXCEPT ![c] = {}]
  BY DEF ResetRuns
<1>2. analysis' = analysis /\ analysed' = analysed
  BY DEF ResetRuns
<1>3. /\ simulated' = [d \in Collectors |-> IF d = c THEN NoSimulation ELSE simulated[d]]
      /\ runs' = [d \in Collectors |-> IF d = c THEN <<>> ELSE runs[d]]
      /\ averaged' = [d \in Collectors |-> IF d = c THEN {} ELSE averaged[d]]
  BY <1>1 DEF RunsInv
<1>4. \A d \in Collectors : SimulationHeld(simulated'[d], runs'[d], averaged'[d])
  BY <1>3, NoSimulationHeld DEF RunsInv
<1>5. RunsInv'
  BY <1>3, <1>4 DEF RunsInv
<1> QED
  BY <1>2, <1>5 DEF AnalysisInv

LEMMA InitMetering == ASSUME MeteringInit PROVE MeteringInv
<1>1. ErrorsInv
  BY NoErrorsHeld DEF MeteringInit, ErrorsInv
<1>2. MetricsInv
  <2>1. Len(<<>>) = 0
    OBVIOUS
  <2> QED
    BY <2>1, NoMetricsHeld DEF MeteringInit, MetricsInv
<1>3. AnalysisInv
  BY NoAnalysisHeld DEF MeteringInit, AnalysisInv
<1>4. RunsInv
  BY NoSimulationHeld DEF MeteringInit, RunsInv
<1> QED
  BY <1>1, <1>2, <1>3, <1>4 DEF MeteringInv

LEMMA NextMetering == ASSUME MeteringInv, [MeteringNext]_meteringVars PROVE MeteringInv'
<1>1. ErrorsInv /\ MetricsInv /\ AnalysisInv /\ RunsInv
  BY DEF MeteringInv
<1>2. UNCHANGED errorVars => ErrorsInv'
  BY <1>1 DEF errorVars, ErrorsInv
<1>3. UNCHANGED metricVars => MetricsInv'
  BY <1>1 DEF metricVars, MetricsInv
<1>4. UNCHANGED runVars => AnalysisInv' /\ RunsInv'
  BY <1>1 DEF runVars, AnalysisInv, RunsInv
<1>5. CASE (RecordError \/ ResetErrors) /\ UNCHANGED <<metricVars, runVars>>
  BY <1>1, <1>3, <1>4, <1>5, RecordErrorKeeps, ResetErrorsKeeps DEF MeteringInv
<1>6. CASE (UseMetric \/ ResetMetrics) /\ UNCHANGED <<errorVars, runVars>>
  BY <1>1, <1>2, <1>4, <1>6, UseMetricKeeps, ResetMetricsKeeps DEF MeteringInv
<1>7. CASE (Analyse \/ MergeAnalysis \/ ResetAnalysis \/ RecordRun \/ MergeRuns \/ ResetRuns)
           /\ UNCHANGED <<errorVars, metricVars>>
  BY <1>1, <1>2, <1>3, <1>7, AnalyseKeeps, MergeAnalysisKeeps, ResetAnalysisKeeps, RecordRunKeeps, MergeRunsKeeps,
     ResetRunsKeeps DEF MeteringInv
<1>8. CASE UNCHANGED meteringVars
  BY <1>2, <1>3, <1>4, <1>8 DEF MeteringInv, meteringVars
<1> QED
  BY <1>5, <1>6, <1>7, <1>8 DEF MeteringNext

LEMMA StepOfMetering == [Next]_vars => [MeteringNext]_meteringVars
  BY DEF Next, vars

LEMMA MeteringHolds == Spec => []MeteringInv
<1>1. Init => MeteringInv
  BY InitMetering DEF Init
<1>2. MeteringInv /\ [Next]_vars => MeteringInv'
  BY StepOfMetering, NextMetering
<1> QED
  BY <1>1, <1>2, PTL DEF Spec

(* Whatever the error tracker, the metrics collector and the metrics of runs   *)
(* are told, and however runs are merged: what they hold is what they were     *)
(* told since their last reset, for every set of reports, metrics and jobs.    *)
THEOREM MetersCorrect == Spec => []Meters
<1>1. MeteringInv => Meters
  <2> SUFFICES ASSUME MeteringInv PROVE Meters
    OBVIOUS
  <2>1. ErrorsCounted
    BY HeldIsCounted DEF MeteringInv, ErrorsInv
  <2>2. MetricsCounted
    BY HeldIsMetered DEF MeteringInv, MetricsInv
  <2>3. RunsCounted
    BY HeldIsAnalysed, HeldIsSimulated DEF MeteringInv, AnalysisInv, RunsInv, RunsCounted
  <2> QED
    BY <2>1, <2>2, <2>3 DEF Meters
<1> QED
  BY <1>1, MeteringHolds, PTL

-----------------------------------------------------------------------------
(* The reports on a sequence of points. Counting places goes on with each place. *)

Through(P, k) == P \cap (1..k)

LEMMA OneMorePlace ==
    ASSUME NEW P, NEW k \in Nat \ {0}
    PROVE  /\ IsFiniteSet(Through(P, k)) /\ Cardinality(Through(P, k)) \in Nat
           /\ Cardinality(Through(P, k - 1)) \in Nat
           /\ Cardinality(Through(P, k)) = Cardinality(Through(P, k - 1)) + (IF k \in P THEN 1 ELSE 0)
<1> DEFINE S == Through(P, k - 1)
           T == Through(P, k)
<1>1. k - 1 \in Nat
  OBVIOUS
<1>2. IsFiniteSet(1..k) /\ IsFiniteSet(1..k - 1)
  BY <1>1, UptoFinite
<1>3. S \in SUBSET (1..k - 1) /\ T \in SUBSET (1..k)
  BY DEF Through
<1>4. IsFiniteSet(S) /\ IsFiniteSet(T)
  BY <1>2, <1>3, FS_Subset
<1>5. Cardinality(S) \in Nat /\ Cardinality(T) \in Nat
  BY <1>4, FS_CardinalityType
<1>6. CASE k \in P
  <2>1. T = S \cup {k} /\ k \notin S
    BY <1>6 DEF Through
  <2>2. Cardinality(S \cup {k}) = Cardinality(S) + 1
    BY <1>4, <2>1, FS_AddElement
  <2> QED
    BY <1>4, <1>5, <1>6, <2>1, <2>2
<1>7. CASE k \notin P
  <2>1. T = S
    BY <1>7 DEF Through
  <2> QED
    BY <1>4, <1>5, <1>7, <2>1
<1> QED
  BY <1>6, <1>7

LEMMA NoPlace == ASSUME NEW P PROVE Through(P, 0) = {} /\ Cardinality(Through(P, 0)) = 0
<1>1. Through(P, 0) = {}
  BY DEF Through
<1> QED
  BY <1>1, FS_EmptySet

(* f puts sequences one behind the other. *)
Flattens(f, seqs) == f[0] = <<>> /\ \A k \in 1..Len(seqs) : f[k] = f[k - 1] \o seqs[k]

LEMMA FlattenFolds ==
    ASSUME NEW A, NEW seqs \in Seq(Seq(A))
    PROVE  \E f \in [0..Len(seqs) -> Seq(A)] : Flattens(f, seqs) /\ FlattenSeq(seqs) = f[Len(seqs)]
<1> DEFINE n == Len(seqs)
           Z == Seq(A)
           step == [k \in 1..n |-> [acc \in Z |-> acc \o seqs[k]]]
           flatten == CHOOSE f : f = [i \in 1..n |-> IF i = 1 THEN seqs[i] ELSE f[i - 1] \o seqs[i]]
<1>1. n \in Nat
  OBVIOUS
<1>2. ASSUME NEW k \in 1..n, NEW acc \in Z PROVE acc \o seqs[k] \in Z
  <2>1. seqs[k] \in Seq(A)
    OBVIOUS
  <2> QED
    BY <2>1
<1>3. <<>> \in Z
  OBVIOUS
<1>4. step \in [1..n -> [Z -> Z]]
  <2> HIDE DEF n, Z
  <2> QED
    BY <1>2
<1>5. PICK f \in [0..n -> Z] : IsFold(f, n, <<>>, step)
  <2> HIDE DEF n, step, flatten, Z
  <2> QED
    BY <1>1, <1>3, <1>4, FoldExists
<1>6. \A k \in 1..n : f[k - 1] \in Z /\ f[k] \in Z
  <2> HIDE DEF n, step, Z
  <2> QED
    BY <1>1
<1>7. f[0] = <<>> /\ \A k \in 1..n : f[k] = f[k - 1] \o seqs[k]
  <2>1. ASSUME NEW k \in 1..n PROVE f[k] = f[k - 1] \o seqs[k]
    <3> HIDE DEF n, Z
    <3>1. step[k][f[k - 1]] = f[k - 1] \o seqs[k]
      BY <1>6
    <3> HIDE DEF step
    <3>2. f[k] = step[k][f[k - 1]]
      BY <1>5 DEF IsFold
    <3> QED
      BY <3>1, <3>2
  <2> HIDE DEF step, Z
  <2> QED
    BY <1>5, <2>1 DEF IsFold
<1>8. Flattens(f, seqs)
  BY <1>7 DEF Flattens, n
<1>9. CASE n = 0
  <2>1. FlattenSeq(seqs) = <<>>
    BY <1>9 DEF FlattenSeq
  <2> QED
    BY <1>7, <1>8, <1>9, <2>1 DEF n, Z
<1>10. CASE n # 0
  <2> DEFINE h == [i \in 1..n |-> f[i]]
  <2>1. h = [i \in 1..n |-> IF i = 1 THEN seqs[i] ELSE h[i - 1] \o seqs[i]]
    <3>1. ASSUME NEW i \in 1..n PROVE h[i] = IF i = 1 THEN seqs[i] ELSE h[i - 1] \o seqs[i]
      <4>1. seqs[i] \in Seq(A)
        OBVIOUS
      <4>2. CASE i = 1
        <5>1. h[i] = <<>> \o seqs[i]
          <6>1. f[i] = f[i - 1] \o seqs[i]
            BY <1>7, Zenon
          <6>2. h[i] = f[i]
            BY Zenon
          <6>3. i - 1 = 0
            BY <4>2
          <6> HIDE DEF h
          <6> QED
            BY <1>7, <6>1, <6>2, <6>3, Zenon
        <5>2. <<>> \o seqs[i] = seqs[i]
          BY <4>1
        <5> QED
          BY <4>2, <5>1, <5>2
      <4>3. CASE i # 1
        <5>1. i - 1 \in 1..n
          BY <1>1, <4>3
        <5> HIDE DEF n
        <5>2. h[i] = f[i] /\ h[i - 1] = f[i - 1]
          BY <5>1
        <5> HIDE DEF h
        <5> QED
          BY <1>7, <4>3, <5>2
      <4> QED
        BY <4>2, <4>3
    <3> DEFINE g == [i \in 1..n |-> IF i = 1 THEN seqs[i] ELSE h[i - 1] \o seqs[i]]
    <3>2. \A i \in 1..n : h[i] = g[i]
      <4> HIDE DEF n, h
      <4> QED
        BY <3>1
    <3>3. h = [i \in 1..n |-> h[i]] /\ g = [i \in 1..n |-> g[i]]
      <4> HIDE DEF n
      <4> QED
        OBVIOUS
    <3>4. h = g
      <4> HIDE DEF n, h, g
      <4> QED
        BY <3>2, <3>3, Zenon
    <3> QED
      BY <3>4
  <2>2. flatten = [i \in 1..n |-> IF i = 1 THEN seqs[i] ELSE flatten[i - 1] \o seqs[i]]
    <3> HIDE DEF h
    <3> QED
      BY <2>1
  <2>3. FlattenSeq(seqs) = flatten[n]
    BY <1>10 DEF FlattenSeq
  <2> HIDE DEF flatten, h
  <2> DEFINE same == {k \in 0..n : k = 0 \/ flatten[k] = f[k]}
  <2>4. 0 \in same
    BY <1>1
  <2>5. ASSUME NEW k \in 1..n, k - 1 \in same PROVE k \in same
    <3>1. flatten[k] = IF k = 1 THEN seqs[k] ELSE flatten[k - 1] \o seqs[k]
      <4> HIDE DEF n
      <4> QED
        BY <2>2
    <3>2. f[k] = f[k - 1] \o seqs[k] /\ seqs[k] \in Seq(A) /\ k \in 0..n
      <4>1. seqs[k] \in Seq(A)
        OBVIOUS
      <4>2. f[k] = f[k - 1] \o seqs[k]
        BY <1>7, Zenon
      <4>3. k \in 0..n
        BY <1>1
      <4> QED
        BY <4>1, <4>2, <4>3
    <3>3. CASE k = 1
      <4>1. <<>> \o seqs[k] = seqs[k]
        BY <3>2
      <4>2. f[k - 1] = <<>>
        BY <1>7, <3>3
      <4>3. flatten[k] = f[k]
        BY <3>1, <3>2, <3>3, <4>1, <4>2
      <4> QED
        BY <3>2, <4>3
    <3>4. CASE k # 1
      <4>1. flatten[k - 1] = f[k - 1]
        BY <2>5, <3>4
      <4>2. flatten[k] = f[k]
        BY <3>1, <3>2, <3>4, <4>1
      <4> QED
        BY <3>2, <4>2
    <3> QED
      BY <3>3, <3>4
  <2>6. 0..n \subseteq same
    <3> HIDE DEF same, n
    <3> QED
      BY <1>1, <2>4, <2>5, ReachesAll
  <2>7. flatten[n] = f[n]
    <3>1. n \in same
      <4> HIDE DEF same, n
      <4> QED
        BY <1>1, <2>6
    <3> QED
      <4> HIDE DEF n
      <4> QED
        BY <1>10, <3>1, Zenon DEF same
  <2> QED
    BY <1>8, <2>3, <2>7 DEF n, Z
<1> QED
  BY <1>9, <1>10

LEMMA FlattenOn ==
    ASSUME NEW A, NEW seqs \in Seq(Seq(A)), NEW s \in Seq(A)
    PROVE  /\ FlattenSeq(seqs) \in Seq(A)
           /\ FlattenSeq(Append(seqs, s)) = FlattenSeq(seqs) \o s
<1> DEFINE n == Len(seqs)
<1>0. n \in Nat
  OBVIOUS
<1>1. PICK f \in [0..n -> Seq(A)] : Flattens(f, seqs) /\ FlattenSeq(seqs) = f[n]
  BY FlattenFolds
<1>2. PICK more \in Seq(Seq(A)) : more = Append(seqs, s)
  OBVIOUS
<1>3. Len(more) = n + 1 /\ more[n + 1] = s /\ \A k \in 1..n : more[k] = seqs[k]
  BY <1>2
<1>4. PICK g \in [0..(n + 1) -> Seq(A)] : Flattens(g, more) /\ FlattenSeq(more) = g[n + 1]
  <2>1. PICK g \in [0..Len(more) -> Seq(A)] : Flattens(g, more) /\ FlattenSeq(more) = g[Len(more)]
    BY FlattenFolds
  <2> QED
    BY <1>3, <2>1
<1> DEFINE same == {k \in 0..n : g[k] = f[k]}
<1>5. 0 \in same
  BY <1>0, <1>1, <1>4 DEF Flattens
<1>6. ASSUME NEW k \in 1..n, k - 1 \in same PROVE k \in same
  <2>1. k \in 1..Len(more) /\ k \in 0..n
    BY <1>0, <1>3
  <2>2. g[k] = g[k - 1] \o more[k] /\ f[k] = f[k - 1] \o seqs[k]
    BY <1>1, <1>4, <2>1 DEF Flattens
  <2>3. g[k - 1] = f[k - 1] /\ more[k] = seqs[k]
    BY <1>3, <1>6
  <2> QED
    BY <2>1, <2>2, <2>3
<1>7. 0..n \subseteq same
  <2> HIDE DEF same, n
  <2> QED
    BY <1>0, <1>5, <1>6, ReachesAll
<1>8. g[n + 1] = g[n] \o s
  <2>1. n + 1 \in 1..Len(more) /\ (n + 1) - 1 = n
    BY <1>0, <1>3
  <2> QED
    BY <1>3, <1>4, <2>1 DEF Flattens
<1>9. g[n] = f[n] /\ f[n] \in Seq(A)
  <2>1. n \in same
    <3> HIDE DEF same, n
    <3> QED
      BY <1>0, <1>7
  <2> QED
    BY <1>0, <2>1
<1> QED
  BY <1>1, <1>2, <1>4, <1>8, <1>9

(* One step of the scan for runs, and the whole scan. *)
ScanState == [runs : Seq(Seq(FeePoint)), current : Seq(FeePoint)]

Cut(s, p) ==
    CASE p.spike                      -> [s EXCEPT !.current = Append(@, p)]
      [] ~p.spike /\ s.current # <<>> -> [runs |-> Append(s.runs, s.current), current |-> <<>>]
      [] OTHER                        -> s

Cuts(f, ps) == f[0] = [runs |-> <<>>, current |-> <<>>] /\ \A k \in 1..Len(ps) : f[k] = Cut(f[k - 1], ps[k])

LEMMA OneMore == ASSUME NEW A, NEW seq \in Seq(A), NEW x \in A PROVE Append(seq, x) \in Seq(A) /\ Append(seq, x) # <<>>
<1>0. Append(seq, x) \in Seq(A)
  OBVIOUS
<1>1. PICK more \in Seq(A) : more = Append(seq, x)
  BY <1>0, Zenon
<1>2. Len(more) = Len(seq) + 1 /\ Len(seq) \in Nat
  BY <1>1
<1>3. more # <<>>
  BY <1>2
<1> QED
  BY <1>1, <1>3

LEMMA CutIs ==
    ASSUME NEW s \in ScanState, NEW p \in FeePoint
    PROVE  /\ Cut(s, p) \in ScanState
           /\ p.spike => Cut(s, p).runs = s.runs /\ Cut(s, p).current = Append(s.current, p)
           /\ ~p.spike /\ s.current # <<>> => Cut(s, p).runs = Append(s.runs, s.current) /\ Cut(s, p).current = <<>>
           /\ ~p.spike /\ s.current = <<>> => Cut(s, p) = s
<1>1. PICK cut \in Seq(Seq(FeePoint)) : cut = s.runs
  BY DEF ScanState
<1>2. PICK open \in Seq(FeePoint) : open = s.current
  BY DEF ScanState
<1>3. s = [runs |-> cut, current |-> open]
  BY <1>1, <1>2 DEF ScanState
<1>4. PICK longer \in Seq(FeePoint) : longer = Append(open, p)
  BY OneMore
<1>5. PICK more \in Seq(Seq(FeePoint)) : more = Append(cut, open)
  BY OneMore
<1>6. CASE p.spike
  <2>1. Cut(s, p) = [runs |-> cut, current |-> longer]
    BY <1>3, <1>4, <1>6 DEF Cut
  <2> QED
    BY <1>1, <1>2, <1>4, <1>6, <2>1 DEF ScanState
<1>7. CASE ~p.spike /\ s.current # <<>>
  <2>1. Cut(s, p) = [runs |-> more, current |-> <<>>]
    BY <1>1, <1>2, <1>5, <1>7 DEF Cut
  <2>2. <<>> \in Seq(FeePoint)
    OBVIOUS
  <2> QED
    BY <1>1, <1>2, <1>5, <1>7, <2>1, <2>2 DEF ScanState
<1>8. CASE ~p.spike /\ s.current = <<>>
  BY <1>8 DEF Cut
<1> QED
  BY <1>6, <1>7, <1>8

LEMMA ScanFolds ==
    ASSUME NEW ps \in Seq(FeePoint)
    PROVE  \E f \in [0..Len(ps) -> ScanState] :
              /\ Cuts(f, ps)
              /\ SpikeRuns(ps) = (IF f[Len(ps)].current = <<>> THEN f[Len(ps)].runs
                                  ELSE Append(f[Len(ps)].runs, f[Len(ps)].current))
<1> DEFINE n == Len(ps)
           Z == ScanState
           none == [runs |-> <<>>, current |-> <<>>]
           step == [k \in 1..n |-> [s \in Z |-> Cut(s, ps[k])]]
           scan == CHOOSE f : f = [k \in 0..n |-> IF k = 0 THEN [runs |-> <<>>, current |-> <<>>] ELSE CASE ps[k].spike -> [f[k - 1] EXCEPT !.current = Append(@, ps[k])] [] ~ps[k].spike /\ f[k - 1].current # <<>> -> [runs |-> Append(f[k - 1].runs, f[k - 1].current), current |-> <<>>] [] OTHER -> f[k - 1]]
<1>1. n \in Nat
  OBVIOUS
<1>2. ASSUME NEW k \in 1..n, NEW s \in Z PROVE Cut(s, ps[k]) \in Z
  <2>1. ps[k] \in FeePoint
    OBVIOUS
  <2> QED
    BY <2>1, CutIs
<1>3. none \in Z
  BY DEF ScanState
<1>4. step \in [1..n -> [Z -> Z]]
  <2> HIDE DEF n, Z
  <2> QED
    BY <1>2
<1>5. PICK f \in [0..n -> Z] : IsFold(f, n, none, step)
  <2> HIDE DEF n, step, scan, Z, none
  <2> QED
    BY <1>1, <1>3, <1>4, FoldExists
<1>6. \A k \in 1..n : f[k - 1] \in Z /\ f[k] \in Z
  <2> HIDE DEF n, step, Z
  <2> QED
    BY <1>1
<1>7. f[0] = none /\ \A k \in 1..n : f[k] = Cut(f[k - 1], ps[k])
  <2>1. ASSUME NEW k \in 1..n PROVE f[k] = Cut(f[k - 1], ps[k])
    <3> HIDE DEF n, Z
    <3>1. step[k][f[k - 1]] = Cut(f[k - 1], ps[k])
      BY <1>6
    <3> HIDE DEF step
    <3>2. f[k] = step[k][f[k - 1]]
      BY <1>5 DEF IsFold
    <3> QED
      BY <3>1, <3>2
  <2> HIDE DEF step, Z
  <2> QED
    BY <1>5, <2>1 DEF IsFold
<1>8. f = [k \in 0..n |-> IF k = 0 THEN [runs |-> <<>>, current |-> <<>>] ELSE CASE ps[k].spike -> [f[k - 1] EXCEPT !.current = Append(@, ps[k])] [] ~ps[k].spike /\ f[k - 1].current # <<>> -> [runs |-> Append(f[k - 1].runs, f[k - 1].current), current |-> <<>>] [] OTHER -> f[k - 1]]
  <2>0. ASSUME NEW k \in 1..n PROVE f[k] = CASE ps[k].spike -> [f[k - 1] EXCEPT !.current = Append(@, ps[k])] [] ~ps[k].spike /\ f[k - 1].current # <<>> -> [runs |-> Append(f[k - 1].runs, f[k - 1].current), current |-> <<>>] [] OTHER -> f[k - 1]
    <3> HIDE DEF n, step, scan, Z, none
    <3>1. f[k] = Cut(f[k - 1], ps[k])
      BY <1>7
    <3> QED
      BY <3>1, Zenon DEF Cut
  <2>1. f = [k \in 0..n |-> f[k]]
    OBVIOUS
  <2>2. \A k \in 0..n : k = 0 \/ k \in 1..n
    BY <1>1
  <2>3. f[0] = [runs |-> <<>>, current |-> <<>>]
    BY <1>7
  <2> HIDE DEF n, step, scan, Z, none
  <2> QED
    BY <2>0, <2>1, <2>2, <2>3, Zenon
<1>9. scan = [k \in 0..n |-> IF k = 0 THEN [runs |-> <<>>, current |-> <<>>] ELSE CASE ps[k].spike -> [scan[k - 1] EXCEPT !.current = Append(@, ps[k])] [] ~ps[k].spike /\ scan[k - 1].current # <<>> -> [runs |-> Append(scan[k - 1].runs, scan[k - 1].current), current |-> <<>>] [] OTHER -> scan[k - 1]]
  BY <1>8
<1>10. SpikeRuns(ps) = (IF scan[n].current = <<>> THEN scan[n].runs ELSE Append(scan[n].runs, scan[n].current))
  BY DEF SpikeRuns
<1> HIDE DEF n, step, scan, Z
<1>11. scan[0] = none /\ \A k \in 1..n : scan[k] = Cut(scan[k - 1], ps[k])
  <2>1. 0 \in 0..n /\ \A k \in 1..n : k \in 0..n /\ k # 0
    BY <1>1
  <2>2. scan[0] = none
    BY <1>9, <2>1, Zenon
  <2>3. ASSUME NEW k \in 1..n PROVE scan[k] = Cut(scan[k - 1], ps[k])
    BY <1>9, <2>1, Zenon DEF Cut
  <2> QED
    BY <2>2, <2>3
<1> HIDE DEF none
<1>12. \A k \in 0..n : scan[k] = f[k]
  <2> DEFINE same == {k \in 0..n : scan[k] = f[k]}
  <2>1. 0 \in same /\ \A k \in 1..n : k - 1 \in same => k \in same
    <3>1. 0 \in 0..n /\ \A k \in 1..n : k \in 0..n
      BY <1>1
    <3> QED
      BY <1>7, <1>11, <3>1, Zenon
  <2>2. 0..n \subseteq same
    <3> HIDE DEF same
    <3> QED
      BY <1>1, <2>1, ReachesAll
  <2> QED
    BY <2>2
<1>13. scan[n] = f[n]
  BY <1>1, <1>12
<1>14. Cuts(f, ps)
  BY <1>7 DEF Cuts, n, none
<1> QED
  BY <1>10, <1>13, <1>14 DEF n, Z

LEMMA ConcatMore ==
    ASSUME NEW A, NEW s \in Seq(A), NEW t \in Seq(A), NEW x \in A
    PROVE  s \o Append(t, x) = Append(s \o t, x)
<1>0. PICK u \in Seq(A) : u = Append(t, x)
  BY OneMore
<1>8. s \o u \in Seq(A) /\ s \o t \in Seq(A)
  OBVIOUS
<1>1. PICK a \in Seq(A) : a = s \o u
  BY <1>8, Zenon
<1>9. PICK v \in Seq(A) : v = s \o t
  BY <1>8, Zenon
<1>2. PICK b \in Seq(A) : b = Append(v, x)
  BY OneMore
<1>3. /\ Len(s) \in Nat /\ Len(t) \in Nat /\ Len(u) = Len(t) + 1 /\ Len(a) = Len(s) + Len(u)
      /\ Len(v) = Len(s) + Len(t) /\ Len(b) = Len(v) + 1
  BY <1>0, <1>1, <1>9, <1>2
<1>4. ASSUME NEW i \in 1..Len(b) PROVE a[i] = b[i]
  <2>1. CASE i <= Len(s)
    BY <1>1, <1>9, <1>2, <1>3, <2>1
  <2>2. CASE Len(s) < i /\ i <= Len(s) + Len(t)
    <3>1. i - Len(s) \in 1..Len(t)
      BY <1>3, <2>2
    <3> QED
      BY <1>0, <1>1, <1>9, <1>2, <1>3, <2>2, <3>1
  <2>3. CASE i = Len(s) + Len(t) + 1
    BY <1>0, <1>1, <1>9, <1>2, <1>3, <2>3
  <2>4. i \in Nat /\ i >= 1 /\ i <= Len(s) + Len(t) + 1
    BY <1>3
  <2> QED
    BY <1>3, <2>1, <2>2, <2>3, <2>4
<1>5. a = b
  <2>1. Len(a) = Len(b)
    BY <1>3
  <2> QED
    BY <1>4, <2>1, SameSeq
<1> QED
  BY <1>0, <1>1, <1>9, <1>2, <1>5

LEMMA MoreFilled ==
    ASSUME NEW A, NEW cut \in Seq(A), NEW x \in A, x # <<>>, \A r \in 1..Len(cut) : cut[r] # <<>>
    PROVE  \A r \in 1..Len(Append(cut, x)) : Append(cut, x)[r] # <<>>
<1>1. PICK more \in Seq(A) : more = Append(cut, x)
  BY OneMore
<1>2. Len(more) = Len(cut) + 1 /\ more[Len(cut) + 1] = x /\ \A r \in 1..Len(cut) : more[r] = cut[r]
  BY <1>1
<1>3. ASSUME NEW r \in 1..Len(more) PROVE more[r] # <<>>
  <2>1. CASE r = Len(cut) + 1
    BY <1>2, <2>1
  <2>2. CASE r \in 1..Len(cut)
    <3>1. more[r] = cut[r]
      BY <1>2, <2>2
    <3> QED
      BY <2>2, <3>1
  <2> QED
    BY <1>2, <2>1, <2>2
<1> QED
  BY <1>1, <1>3

SpikesOf(ps) == {i \in DOMAIN ps : ps[i].spike}
StartsOf(ps) == {i \in DOMAIN ps : ps[i].spike /\ (i = 1 \/ ~ps[i - 1].spike)}

(* What the scan has after k points, of which it has chosen some. *)
RunsSoFar(s, chosen, ps, k) ==
    /\ FlattenSeq(s.runs) \o s.current = chosen
    /\ \A r \in 1..Len(s.runs) : s.runs[r] # <<>>
    /\ Len(s.runs) + (IF s.current = <<>> THEN 0 ELSE 1) = Cardinality(Through(StartsOf(ps), k))
    /\ s.current # <<>> <=> k \in SpikesOf(ps)

LEMMA RunsStep ==
    ASSUME NEW ps \in Seq(FeePoint), NEW k \in 1..Len(ps), NEW s \in ScanState, NEW chosen \in Seq(FeePoint),
           RunsSoFar(s, chosen, ps, k - 1)
    PROVE  RunsSoFar(Cut(s, ps[k]), IF k \in SpikesOf(ps) THEN Append(chosen, ps[k]) ELSE chosen, ps, k)
<1> DEFINE p == ps[k]
<1>1. p \in FeePoint
  OBVIOUS
<1>2. PICK cut \in Seq(Seq(FeePoint)) : cut = s.runs
  BY DEF ScanState
<1>3. PICK open \in Seq(FeePoint) : open = s.current
  BY DEF ScanState
<1>4. PICK flat \in Seq(FeePoint) : flat = FlattenSeq(cut)
  BY FlattenOn, <1>3
<1>5. flat \o open = chosen
  BY <1>2, <1>3, <1>4 DEF RunsSoFar
<1> DEFINE was == Cardinality(Through(StartsOf(ps), k - 1))
           is == Cardinality(Through(StartsOf(ps), k))
<1>6. was \in Nat /\ is \in Nat /\ is = was + (IF k \in StartsOf(ps) THEN 1 ELSE 0)
  <2>1. k \in Nat \ {0}
    OBVIOUS
  <2> QED
    BY <2>1, OneMorePlace
<1>7. Len(cut) + (IF open = <<>> THEN 0 ELSE 1) = was
  BY <1>2, <1>3 DEF RunsSoFar
<1>8. open # <<>> <=> k - 1 \in SpikesOf(ps)
  BY <1>3 DEF RunsSoFar
<1>9. k \in SpikesOf(ps) <=> p.spike
  BY DEF SpikesOf
<1>10. k \in StartsOf(ps) <=> p.spike /\ open = <<>>
  <2>1. k \in StartsOf(ps) <=> p.spike /\ (k = 1 \/ ~ps[k - 1].spike)
    BY DEF StartsOf
  <2>2. k - 1 \in SpikesOf(ps) <=> k # 1 /\ ps[k - 1].spike
    BY DEF SpikesOf
  <2> QED
    BY <1>8, <2>1, <2>2
<1>11. \A r \in 1..Len(cut) : cut[r] # <<>>
  BY <1>2 DEF RunsSoFar
<1>12. Len(cut) \in Nat
  OBVIOUS
<1> HIDE DEF p, was, is
<1>13. CASE p.spike
  <2>1. Cut(s, p).runs = cut /\ Cut(s, p).current = Append(open, p)
    BY <1>1, <1>2, <1>3, <1>13, CutIs
  <2>2. flat \o Append(open, p) = Append(chosen, p)
    <3>1. flat \o Append(open, p) = Append(flat \o open, p)
      BY <1>1, ConcatMore
    <3> QED
      BY <1>5, <3>1
  <2>3. Append(open, p) # <<>>
    BY <1>1, OneMore
  <2>4. Len(cut) + 1 = is
    BY <1>6, <1>7, <1>10, <1>12, <1>13
  <2> QED
    BY <1>4, <1>6, <1>9, <1>11, <1>13, <2>1, <2>2, <2>3, <2>4 DEF RunsSoFar, p, is
<1>14. CASE ~p.spike /\ open # <<>>
  <2>1. Cut(s, p).runs = Append(cut, open) /\ Cut(s, p).current = <<>>
    BY <1>1, <1>2, <1>3, <1>14, CutIs
  <2>2. FlattenSeq(Append(cut, open)) = flat \o open
    BY <1>4, FlattenOn
  <2>3. chosen \o <<>> = chosen
    OBVIOUS
  <2>4. PICK more \in Seq(Seq(FeePoint)) : more = Append(cut, open)
    BY OneMore
  <2>5. Len(more) = Len(cut) + 1 /\ more[Len(cut) + 1] = open /\ \A r \in 1..Len(cut) : more[r] = cut[r]
    BY <2>4
  <2>6. \A r \in 1..Len(more) : more[r] # <<>>
    BY <1>11, <1>14, <2>4, MoreFilled
  <2>7. Len(more) + 0 = is
    BY <1>6, <1>7, <1>10, <1>12, <1>14, <2>5
  <2> QED
    BY <1>5, <1>6, <1>9, <1>14, <2>1, <2>2, <2>3, <2>4, <2>6, <2>7 DEF RunsSoFar, p, is
<1>15. CASE ~p.spike /\ open = <<>>
  <2>1. Cut(s, p) = s
    BY <1>1, <1>3, <1>15, CutIs
  <2>2. is = was
    BY <1>6, <1>10, <1>15
  <2> QED
    BY <1>3, <1>6, <1>9, <1>15, <2>1, <2>2 DEF RunsSoFar, p, is, was
<1> QED
  BY <1>13, <1>14, <1>15

LEMMA RunsDoAgree == ASSUME NEW ps \in Seq(FeePoint) PROVE RunsAgree(ps)
<1> DEFINE n == Len(ps)
<1>0. n \in Nat /\ DOMAIN ps = 1..n
  OBVIOUS
<1>1. PICK f \in [0..n -> ScanState] :
         /\ Cuts(f, ps)
         /\ SpikeRuns(ps) = (IF f[n].current = <<>> THEN f[n].runs ELSE Append(f[n].runs, f[n].current))
  BY ScanFolds
<1>2. PICK g \in [0..n -> Seq(FeePoint)] : Selects(g, ps, SpikesOf(ps)) /\ Selected(ps, SpikesOf(ps)) = g[n]
  BY SelectedFolds
<1> HIDE DEF n
<1> DEFINE good == {k \in 0..n : RunsSoFar(f[k], g[k], ps, k)}
<1>3. 0 \in good
  <2>1. f[0] = [runs |-> <<>>, current |-> <<>>] /\ g[0] = <<>>
    BY <1>1, <1>2 DEF Cuts, Selects
  <2>2. FlattenSeq(<<>>) = <<>>
    BY DEF FlattenSeq
  <2>3. 0 \notin SpikesOf(ps)
    BY <1>0 DEF SpikesOf
  <2>4. Cardinality(Through(StartsOf(ps), 0)) = 0
    BY NoPlace
  <2>5. Len(<<>>) + 0 = 0 /\ <<>> \o <<>> = <<>>
    OBVIOUS
  <2>6. RunsSoFar(f[0], g[0], ps, 0)
    BY <2>1, <2>2, <2>3, <2>4, <2>5 DEF RunsSoFar
  <2> QED
    BY <1>0, <2>6
<1>4. ASSUME NEW k \in 1..n, k - 1 \in good PROVE k \in good
  <2>1. k - 1 \in 0..n /\ k \in 0..n
    BY <1>0
  <2>2. f[k - 1] \in ScanState /\ g[k - 1] \in Seq(FeePoint)
    BY <2>1
  <2>3. f[k] = Cut(f[k - 1], ps[k])
    BY <1>1 DEF Cuts, n
  <2>4. g[k] = IF k \in SpikesOf(ps) THEN Append(g[k - 1], ps[k]) ELSE g[k - 1]
    BY <1>2 DEF Selects, n
  <2>5. RunsSoFar(Cut(f[k - 1], ps[k]), IF k \in SpikesOf(ps) THEN Append(g[k - 1], ps[k]) ELSE g[k - 1], ps, k)
    BY <1>4, <2>2, RunsStep DEF n
  <2>6. RunsSoFar(f[k], g[k], ps, k)
    BY <2>3, <2>4, <2>5, Zenon
  <2> QED
    BY <2>1, <2>6
<1>5. n \in good
  <2>1. 0..n \subseteq good
    <3> HIDE DEF good
    <3> QED
      BY <1>0, <1>3, <1>4, ReachesAll
  <2> QED
    BY <1>0, <2>1
<1>6. RunsSoFar(f[n], g[n], ps, n)
  BY <1>5
<1>7. PICK cut \in Seq(Seq(FeePoint)), open \in Seq(FeePoint) : cut = f[n].runs /\ open = f[n].current
  <2>1. n \in 0..n
    BY <1>0
  <2>2. f[n] \in ScanState
    BY <2>1
  <2> QED
    BY <2>2 DEF ScanState
<1>8. Through(StartsOf(ps), n) = StartsOf(ps)
  BY <1>0 DEF Through, StartsOf
<1>9. PICK more \in Seq(Seq(FeePoint)) : more = Append(cut, open)
  BY OneMore
<1>10. PICK flat \in Seq(FeePoint) : flat = FlattenSeq(cut)
  BY FlattenOn
<1>11. CASE open = <<>>
  <2>1. SpikeRuns(ps) = cut
    BY <1>1, <1>7, <1>11
  <2>2. flat \o <<>> = flat /\ DOMAIN cut = 1..Len(cut) /\ Len(cut) + 0 = Len(cut)
    OBVIOUS
  <2>3. flat \o open = g[n] /\ \A r \in 1..Len(cut) : cut[r] # <<>>
    BY <1>6, <1>7, <1>10 DEF RunsSoFar
  <2>4. Len(cut) + 0 = Cardinality(StartsOf(ps))
    BY <1>6, <1>7, <1>8, <1>11 DEF RunsSoFar
  <2> QED
    BY <1>2, <1>10, <1>11, <2>1, <2>2, <2>3, <2>4 DEF RunsAgree, SpikesOf, StartsOf
<1>12. CASE open # <<>>
  <2>1. SpikeRuns(ps) = more
    BY <1>1, <1>7, <1>9, <1>12
  <2>2. FlattenSeq(more) = flat \o open
    BY <1>9, <1>10, FlattenOn
  <2>3. flat \o open = g[n] /\ \A r \in 1..Len(cut) : cut[r] # <<>>
    BY <1>6, <1>7, <1>10 DEF RunsSoFar
  <2>4. Len(more) = Len(cut) + 1 /\ more[Len(cut) + 1] = open /\ DOMAIN more = 1..Len(more) /\ Len(cut) \in Nat
        /\ \A r \in 1..Len(cut) : more[r] = cut[r]
    BY <1>9
  <2>5. \A r \in DOMAIN more : more[r] # <<>>
    BY <1>9, <1>12, <2>3, <2>4, MoreFilled
  <2>6. Len(more) = Cardinality(StartsOf(ps))
    BY <1>6, <1>7, <1>8, <1>12, <2>4 DEF RunsSoFar
  <2> QED
    BY <1>2, <2>1, <2>2, <2>3, <2>5, <2>6 DEF RunsAgree, SpikesOf, StartsOf
<1> QED
  BY <1>11, <1>12

-----------------------------------------------------------------------------
(* Issues are counted kind by kind as they are pushed. *)

InTurn(r, s, t) == r \o (s \o t) = (r \o s) \o t

LEMMA ConcatThree ==
    ASSUME NEW A, NEW r \in Seq(A), NEW s \in Seq(A), NEW t \in Seq(A)
    PROVE  InTurn(r, s, t)
<1>1. s \o t \in Seq(A) /\ r \o s \in Seq(A)
  OBVIOUS
<1>2. PICK u \in Seq(A) : u = s \o t
  BY <1>1, Zenon
<1>3. PICK v \in Seq(A) : v = r \o s
  BY <1>1, Zenon
<1>4. r \o u \in Seq(A) /\ v \o t \in Seq(A)
  OBVIOUS
<1>5. PICK a \in Seq(A) : a = r \o u
  BY <1>4, Zenon
<1>6. PICK b \in Seq(A) : b = v \o t
  BY <1>4, Zenon
<1>7. /\ Len(r) \in Nat /\ Len(s) \in Nat /\ Len(t) \in Nat
      /\ Len(u) = Len(s) + Len(t) /\ Len(v) = Len(r) + Len(s)
      /\ Len(a) = Len(r) + Len(u) /\ Len(b) = Len(v) + Len(t)
  BY <1>2, <1>3, <1>5, <1>6
<1>8. ASSUME NEW i \in 1..Len(b) PROVE a[i] = b[i]
  <2>0. i \in Nat /\ i >= 1 /\ i <= Len(r) + Len(s) + Len(t)
    BY <1>7
  <2>1. CASE i <= Len(r)
    BY <1>3, <1>5, <1>6, <1>7, <2>0, <2>1
  <2>2. CASE Len(r) < i /\ i <= Len(r) + Len(s)
    <3>1. i - Len(r) \in 1..Len(s)
      BY <1>7, <2>0, <2>2
    <3>2. a[i] = u[i - Len(r)] /\ u[i - Len(r)] = s[i - Len(r)]
      BY <1>2, <1>5, <1>7, <2>0, <2>2, <3>1
    <3>3. b[i] = v[i] /\ v[i] = s[i - Len(r)]
      BY <1>3, <1>6, <1>7, <2>0, <2>2
    <3> QED
      BY <3>2, <3>3
  <2>3. CASE Len(r) + Len(s) < i
    <3>1. i - Len(r) - Len(s) \in 1..Len(t) /\ i - Len(r) \in 1..Len(u)
      BY <1>7, <2>0, <2>3
    <3>2. a[i] = u[i - Len(r)] /\ u[i - Len(r)] = t[(i - Len(r)) - Len(s)]
      BY <1>2, <1>5, <1>7, <2>0, <2>3, <3>1
    <3>3. b[i] = t[i - Len(v)]
      BY <1>6, <1>7, <2>0, <2>3
    <3>4. i - Len(v) = (i - Len(r)) - Len(s)
      BY <1>7
    <3> QED
      BY <3>2, <3>3, <3>4
  <2> QED
    BY <1>7, <2>0, <2>1, <2>2, <2>3
<1>9. a = b
  <2>1. Len(a) = Len(b)
    BY <1>7
  <2> QED
    BY <1>8, <2>1, SameSeq
<1> QED
  BY <1>2, <1>3, <1>5, <1>6, <1>9 DEF InTurn

OfKind(found, kind) == {i \in 1..Len(found) : found[i].kind = kind}

(* One for a place among those, and the issue told of it. *)
Ones(P, i) == IF i \in P THEN 1 ELSE 0
Told(P, i, kind, p) == IF i \in P THEN Issue(kind, p) ELSE <<>>

LEMMA CountsMore ==
    ASSUME NEW found \in Seq(IssueRecord), NEW x \in IssueRecord, NEW kind
    PROVE  /\ Cardinality(OfKind(found, kind)) \in Nat
           /\ Cardinality(OfKind(Append(found, x), kind)) = Cardinality(OfKind(found, kind)) + (IF x.kind = kind THEN 1 ELSE 0)
<1>1. PICK more \in Seq(IssueRecord) : more = Append(found, x)
  BY OneMore
<1>2. PICK n \in Nat : n = Len(found)
  OBVIOUS
<1>3. Len(more) = n + 1 /\ more[n + 1] = x /\ \A i \in 1..n : more[i] = found[i]
  BY <1>1, <1>2
<1> DEFINE P == OfKind(more, kind)
<1>4. Through(P, n) = OfKind(found, kind)
  BY <1>2, <1>3 DEF Through, OfKind
<1>5. Through(P, n + 1) = P
  BY <1>2, <1>3 DEF Through, OfKind
<1>6. n + 1 \in P <=> x.kind = kind
  BY <1>2, <1>3 DEF OfKind
<1> HIDE DEF P
<1>7. n + 1 \in Nat \ {0} /\ (n + 1) - 1 = n
  OBVIOUS
<1>8. /\ Cardinality(Through(P, n)) \in Nat
      /\ Cardinality(Through(P, n + 1)) = Cardinality(Through(P, n)) + (IF n + 1 \in P THEN 1 ELSE 0)
  BY <1>7, OneMorePlace
<1> QED
  BY <1>1, <1>4, <1>5, <1>6, <1>8 DEF P

LEMMA ToldIs ==
    ASSUME NEW P, NEW i, NEW told \in IssueKinds, NEW p \in FeePoint
    PROVE  Told(P, i, told, p) \in Seq(IssueRecord)
<1>1. [kind |-> told, ledger |-> p.ledger] \in IssueRecord
  BY DEF IssueRecord, FeePoint
<1>2. PICK x \in IssueRecord : x = [kind |-> told, ledger |-> p.ledger]
  BY <1>1, Zenon
<1>3. <<x>> \in Seq(IssueRecord) /\ <<>> \in Seq(IssueRecord)
  OBVIOUS
<1> QED
  BY <1>2, <1>3, Zenon DEF Told, Issue

(* What an issue of one kind, told at the places P, adds to those of a kind. *)
OneAs(told, kind, P, i) == IF told = kind THEN Ones(P, i) ELSE 0

TellsOne(found, P, i, told, p) ==
    /\ found \o Told(P, i, told, p) \in Seq(IssueRecord)
    /\ Len(found \o Told(P, i, told, p)) = Len(found) + Ones(P, i)
    /\ \A kind : Cardinality(OfKind(found \o Told(P, i, told, p), kind))
                   = Cardinality(OfKind(found, kind)) + OneAs(told, kind, P, i)

LEMMA OneTold ==
    ASSUME NEW found \in Seq(IssueRecord), NEW P, NEW i, NEW told \in IssueKinds, NEW p \in FeePoint
    PROVE  TellsOne(found, P, i, told, p)
<1>1. [kind |-> told, ledger |-> p.ledger] \in IssueRecord /\ [kind |-> told, ledger |-> p.ledger].kind = told
  BY DEF IssueRecord, FeePoint
<1>2. PICK x \in IssueRecord : x = [kind |-> told, ledger |-> p.ledger] /\ x.kind = told
  BY <1>1, Zenon
<1>3. CASE i \in P
  <2>1. Told(P, i, told, p) = <<x>> /\ Ones(P, i) = 1
    BY <1>2, <1>3, Zenon DEF Told, Issue, Ones
  <2>2. found \o <<x>> = Append(found, x) /\ Len(Append(found, x)) = Len(found) + 1
    OBVIOUS
  <2>3. Append(found, x) \in Seq(IssueRecord)
    BY OneMore
  <2>4. found \o Told(P, i, told, p) = Append(found, x)
    BY <2>1, <2>2, Zenon
  <2>5. ASSUME NEW kind
        PROVE  Cardinality(OfKind(Append(found, x), kind)) = Cardinality(OfKind(found, kind)) + OneAs(told, kind, P, i)
    <3>1. Cardinality(OfKind(Append(found, x), kind)) = Cardinality(OfKind(found, kind)) + (IF told = kind THEN 1 ELSE 0)
      BY <1>2, CountsMore
    <3>2. OneAs(told, kind, P, i) = (IF told = kind THEN 1 ELSE 0)
      BY <2>1, Zenon DEF OneAs
    <3> QED
      BY <3>1, <3>2, Zenon
  <2> QED
    BY <2>1, <2>2, <2>3, <2>4, <2>5, Zenon DEF TellsOne
<1>4. CASE i \notin P
  <2>1. Told(P, i, told, p) = <<>> /\ Ones(P, i) = 0
    BY <1>4, Zenon DEF Told, Ones
  <2>2. found \o <<>> = found /\ Len(found) = Len(found) + 0
    OBVIOUS
  <2>3. found \o Told(P, i, told, p) = found
    BY <2>1, <2>2, Zenon
  <2>4. ASSUME NEW kind
        PROVE  Cardinality(OfKind(found, kind)) = Cardinality(OfKind(found, kind)) + OneAs(told, kind, P, i)
    <3>1. Cardinality(OfKind(found, kind)) \in Nat
      BY CountsMore
    <3>2. OneAs(told, kind, P, i) = 0
      BY <2>1, Zenon DEF OneAs
    <3> QED
      BY <3>1, <3>2
  <2>5. found \in Seq(IssueRecord)
    OBVIOUS
  <2> QED
    BY <2>1, <2>2, <2>3, <2>4, <2>5, Zenon DEF TellsOne
<1> QED
  BY <1>3, <1>4

(* The places each kind of issue is told of. *)
ZeroFees(ps) == {i \in DOMAIN ps : ps[i].fee = 0}
Repeats(ps) == {i \in DOMAIN ps : \E j \in 1..(i - 1) : ps[j].ledger = ps[i].ledger}
Falls(ps) == {i \in DOMAIN ps \ {1} : ps[i].at < ps[i - 1].at}
Jumps(ps) == {i \in DOMAIN ps \ {1} : ps[i].ledger > ps[i - 1].ledger + 1}
Outliers(ps) == {i \in DOMAIN ps : IsOutlier(ps, i)}
Fars(ps) == {i \in DOMAIN ps : ps[i].at > Far}

LEMMA IssuesAtTells ==
    ASSUME NEW ps \in Seq(FeePoint), NEW i \in 1..Len(ps)
    PROVE  IssuesAt(ps, i) =
              Told(ZeroFees(ps), i, "zero fee", ps[i]) \o Told(Repeats(ps), i, "duplicate", ps[i])
              \o Told(Falls(ps), i, "out of order", ps[i]) \o Told(Jumps(ps), i, "gap", ps[i])
              \o Told(Outliers(ps), i, "outlier", ps[i]) \o Told(Fars(ps), i, "negative time", ps[i])
<1>1. DOMAIN ps = 1..Len(ps)
  OBVIOUS
<1>2. i > 1 <=> i # 1
  OBVIOUS
<1>3. i \in ZeroFees(ps) <=> ps[i].fee = 0
  BY <1>1 DEF ZeroFees
<1>4. i \in Repeats(ps) <=> \E j \in 1..(i - 1) : ps[j].ledger = ps[i].ledger
  BY <1>1 DEF Repeats
<1>5. i \in Falls(ps) <=> i > 1 /\ ps[i].at < ps[i - 1].at
  BY <1>1, <1>2 DEF Falls
<1>6. i \in Jumps(ps) <=> i > 1 /\ ps[i].ledger > ps[i - 1].ledger + 1
  BY <1>1, <1>2 DEF Jumps
<1>7. i \in Outliers(ps) <=> IsOutlier(ps, i)
  BY <1>1 DEF Outliers
<1>8. i \in Fars(ps) <=> ps[i].at > Far
  BY <1>1 DEF Fars
<1> DEFINE If(holds, kind) == IF holds THEN Issue(kind, ps[i]) ELSE <<>>
<1>9. IssuesAt(ps, i) =
         If(ps[i].fee = 0, "zero fee")
         \o If(\E j \in 1..(i - 1) : ps[j].ledger = ps[i].ledger, "duplicate")
         \o If(i > 1 /\ ps[i].at < ps[i - 1].at, "out of order")
         \o If(i > 1 /\ ps[i].ledger > ps[i - 1].ledger + 1, "gap")
         \o If(IsOutlier(ps, i), "outlier")
         \o If(ps[i].at > Far, "negative time")
  BY DEF IssuesAt
<1>10. /\ If(ps[i].fee = 0, "zero fee") = Told(ZeroFees(ps), i, "zero fee", ps[i])
       /\ If(\E j \in 1..(i - 1) : ps[j].ledger = ps[i].ledger, "duplicate") = Told(Repeats(ps), i, "duplicate", ps[i])
       /\ If(i > 1 /\ ps[i].at < ps[i - 1].at, "out of order") = Told(Falls(ps), i, "out of order", ps[i])
       /\ If(i > 1 /\ ps[i].ledger > ps[i - 1].ledger + 1, "gap") = Told(Jumps(ps), i, "gap", ps[i])
       /\ If(IsOutlier(ps, i), "outlier") = Told(Outliers(ps), i, "outlier", ps[i])
       /\ If(ps[i].at > Far, "negative time") = Told(Fars(ps), i, "negative time", ps[i])
  BY <1>3, <1>4, <1>5, <1>6, <1>7, <1>8 DEF Told
<1> HIDE DEF If
<1> QED
  BY <1>9, <1>10, Zenon

(* The issues of one point come after those found before it, one for each set of places it is in. *)
TellsSix(found, ps, i) ==
    /\ Len(found \o IssuesAt(ps, i)) = Len(found) + Ones(ZeroFees(ps), i) + Ones(Repeats(ps), i) + Ones(Falls(ps), i) + Ones(Jumps(ps), i) + Ones(Outliers(ps), i) + Ones(Fars(ps), i)
    /\ \A kind : Cardinality(OfKind(found \o IssuesAt(ps, i), kind)) = Cardinality(OfKind(found, kind))
          + OneAs("zero fee", kind, ZeroFees(ps), i)
          + OneAs("duplicate", kind, Repeats(ps), i)
          + OneAs("out of order", kind, Falls(ps), i)
          + OneAs("gap", kind, Jumps(ps), i)
          + OneAs("outlier", kind, Outliers(ps), i)
          + OneAs("negative time", kind, Fars(ps), i)

LEMMA SixTold ==
    ASSUME NEW ps \in Seq(FeePoint), NEW i \in 1..Len(ps), NEW found \in Seq(IssueRecord)
    PROVE  TellsSix(found, ps, i)
<1>p1. PICK q1 \in IssueKinds : q1 = "zero fee"
  BY DEF IssueKinds
<1>p2. PICK q2 \in IssueKinds : q2 = "duplicate"
  BY DEF IssueKinds
<1>p3. PICK q3 \in IssueKinds : q3 = "out of order"
  BY DEF IssueKinds
<1>p4. PICK q4 \in IssueKinds : q4 = "gap"
  BY DEF IssueKinds
<1>p5. PICK q5 \in IssueKinds : q5 = "outlier"
  BY DEF IssueKinds
<1>p6. PICK q6 \in IssueKinds : q6 = "negative time"
  BY DEF IssueKinds
<1> DEFINE a == Told(ZeroFees(ps), i, q1, ps[i])
           b == Told(Repeats(ps), i, q2, ps[i])
           c == Told(Falls(ps), i, q3, ps[i])
           d == Told(Jumps(ps), i, q4, ps[i])
           e == Told(Outliers(ps), i, q5, ps[i])
           f == Told(Fars(ps), i, q6, ps[i])
           Z == Seq(IssueRecord)
<1>0. ps[i] \in FeePoint
  OBVIOUS
<1>2. a \in Z /\ b \in Z /\ c \in Z /\ d \in Z /\ e \in Z /\ f \in Z
  BY <1>0, ToldIs
<1>3. IssuesAt(ps, i) = a \o b \o c \o d \o e \o f
  BY IssuesAtTells, <1>p1, <1>p2, <1>p3, <1>p4, <1>p5, <1>p6, Zenon
<1> DEFINE r1 == found \o a
           r2 == r1 \o b
           r3 == r2 \o c
           r4 == r3 \o d
           r5 == r4 \o e
           r6 == r5 \o f
<1>t1. TellsOne(found, ZeroFees(ps), i, q1, ps[i])
  BY <1>0, OneTold
<1>4. r1 \in Z /\ Len(r1) = Len(found) + Ones(ZeroFees(ps), i)
  <2>1. r1 \in Z /\ Len(r1) = Len(found) + Ones(ZeroFees(ps), i)
    BY <1>t1, Zenon DEF TellsOne
  <2> QED
    BY <2>1
<1>4a. ASSUME NEW kind
     PROVE  Cardinality(OfKind(r1, kind)) = Cardinality(OfKind(found, kind))
                 + OneAs(q1, kind, ZeroFees(ps), i)
  <2>1. Cardinality(OfKind(r1, kind)) = Cardinality(OfKind(found, kind)) + OneAs(q1, kind, ZeroFees(ps), i)
    BY <1>t1, Zenon DEF TellsOne
  <2> QED
    BY <2>1
<1> HIDE DEF r1
<1>t2. TellsOne(r1, Repeats(ps), i, q2, ps[i])
  BY <1>0, <1>4, OneTold
<1>5. r2 \in Z /\ Len(r2) = Len(found) + Ones(ZeroFees(ps), i) + Ones(Repeats(ps), i)
  <2>1. r2 \in Z /\ Len(r2) = Len(r1) + Ones(Repeats(ps), i)
    BY <1>t2, Zenon DEF TellsOne
  <2> HIDE DEF r2
  <2> QED
    BY <2>1, <1>4, Zenon
<1>5a. ASSUME NEW kind
     PROVE  Cardinality(OfKind(r2, kind)) = Cardinality(OfKind(found, kind))
                 + OneAs(q1, kind, ZeroFees(ps), i)
                 + OneAs(q2, kind, Repeats(ps), i)
  <2>1. Cardinality(OfKind(r2, kind)) = Cardinality(OfKind(r1, kind)) + OneAs(q2, kind, Repeats(ps), i)
    BY <1>t2, Zenon DEF TellsOne
  <2> HIDE DEF r2
  <2> QED
    BY <2>1, <1>4a, Zenon
<1> HIDE DEF r2
<1>t3. TellsOne(r2, Falls(ps), i, q3, ps[i])
  BY <1>0, <1>5, OneTold
<1>6. r3 \in Z /\ Len(r3) = Len(found) + Ones(ZeroFees(ps), i) + Ones(Repeats(ps), i) + Ones(Falls(ps), i)
  <2>1. r3 \in Z /\ Len(r3) = Len(r2) + Ones(Falls(ps), i)
    BY <1>t3, Zenon DEF TellsOne
  <2> HIDE DEF r3
  <2> QED
    BY <2>1, <1>5, Zenon
<1>6a. ASSUME NEW kind
     PROVE  Cardinality(OfKind(r3, kind)) = Cardinality(OfKind(found, kind))
                 + OneAs(q1, kind, ZeroFees(ps), i)
                 + OneAs(q2, kind, Repeats(ps), i)
                 + OneAs(q3, kind, Falls(ps), i)
  <2>1. Cardinality(OfKind(r3, kind)) = Cardinality(OfKind(r2, kind)) + OneAs(q3, kind, Falls(ps), i)
    BY <1>t3, Zenon DEF TellsOne
  <2> HIDE DEF r3
  <2> QED
    BY <2>1, <1>5a, Zenon
<1> HIDE DEF r3
<1>t4. TellsOne(r3, Jumps(ps), i, q4, ps[i])
  BY <1>0, <1>6, OneTold
<1>7. r4 \in Z /\ Len(r4) = Len(found) + Ones(ZeroFees(ps), i) + Ones(Repeats(ps), i) + Ones(Falls(ps), i) + Ones(Jumps(ps), i)
  <2>1. r4 \in Z /\ Len(r4) = Len(r3) + Ones(Jumps(ps), i)
    BY <1>t4, Zenon DEF TellsOne
  <2> HIDE DEF r4
  <2> QED
    BY <2>1, <1>6, Zenon
<1>7a. ASSUME NEW kind
     PROVE  Cardinality(OfKind(r4, kind)) = Cardinality(OfKind(found, kind))
                 + OneAs(q1, kind, ZeroFees(ps), i)
                 + OneAs(q2, kind, Repeats(ps), i)
                 + OneAs(q3, kind, Falls(ps), i)
                 + OneAs(q4, kind, Jumps(ps), i)
  <2>1. Cardinality(OfKind(r4, kind)) = Cardinality(OfKind(r3, kind)) + OneAs(q4, kind, Jumps(ps), i)
    BY <1>t4, Zenon DEF TellsOne
  <2> HIDE DEF r4
  <2> QED
    BY <2>1, <1>6a, Zenon
<1> HIDE DEF r4
<1>t5. TellsOne(r4, Outliers(ps), i, q5, ps[i])
  BY <1>0, <1>7, OneTold
<1>8. r5 \in Z /\ Len(r5) = Len(found) + Ones(ZeroFees(ps), i) + Ones(Repeats(ps), i) + Ones(Falls(ps), i) + Ones(Jumps(ps), i) + Ones(Outliers(ps), i)
  <2>1. r5 \in Z /\ Len(r5) = Len(r4) + Ones(Outliers(ps), i)
    BY <1>t5, Zenon DEF TellsOne
  <2> HIDE DEF r5
  <2> QED
    BY <2>1, <1>7, Zenon
<1>8a. ASSUME NEW kind
     PROVE  Cardinality(OfKind(r5, kind)) = Cardinality(OfKind(found, kind))
                 + OneAs(q1, kind, ZeroFees(ps), i)
                 + OneAs(q2, kind, Repeats(ps), i)
                 + OneAs(q3, kind, Falls(ps), i)
                 + OneAs(q4, kind, Jumps(ps), i)
                 + OneAs(q5, kind, Outliers(ps), i)
  <2>1. Cardinality(OfKind(r5, kind)) = Cardinality(OfKind(r4, kind)) + OneAs(q5, kind, Outliers(ps), i)
    BY <1>t5, Zenon DEF TellsOne
  <2> HIDE DEF r5
  <2> QED
    BY <2>1, <1>7a, Zenon
<1> HIDE DEF r5
<1>t6. TellsOne(r5, Fars(ps), i, q6, ps[i])
  BY <1>0, <1>8, OneTold
<1>9. r6 \in Z /\ Len(r6) = Len(found) + Ones(ZeroFees(ps), i) + Ones(Repeats(ps), i) + Ones(Falls(ps), i) + Ones(Jumps(ps), i) + Ones(Outliers(ps), i) + Ones(Fars(ps), i)
  <2>1. r6 \in Z /\ Len(r6) = Len(r5) + Ones(Fars(ps), i)
    BY <1>t6, Zenon DEF TellsOne
  <2> HIDE DEF r6
  <2> QED
    BY <2>1, <1>8, Zenon
<1>9a. ASSUME NEW kind
     PROVE  Cardinality(OfKind(r6, kind)) = Cardinality(OfKind(found, kind))
                 + OneAs(q1, kind, ZeroFees(ps), i)
                 + OneAs(q2, kind, Repeats(ps), i)
                 + OneAs(q3, kind, Falls(ps), i)
                 + OneAs(q4, kind, Jumps(ps), i)
                 + OneAs(q5, kind, Outliers(ps), i)
                 + OneAs(q6, kind, Fars(ps), i)
  <2>1. Cardinality(OfKind(r6, kind)) = Cardinality(OfKind(r5, kind)) + OneAs(q6, kind, Fars(ps), i)
    BY <1>t6, Zenon DEF TellsOne
  <2> HIDE DEF r6
  <2> QED
    BY <2>1, <1>8a, Zenon
<1>10. found \o IssuesAt(ps, i) = r6
  <2> HIDE DEF a, b, c, d, e, f
  <2> DEFINE m2 == a \o b
             m3 == m2 \o c
             m4 == m3 \o d
             m5 == m4 \o e
  <2>1. m2 \in Z
    BY <1>2
  <2>2. found \o m2 = r2
    <3>1. InTurn(found, a, b)
      BY <1>2, ConcatThree
    <3> QED
      BY <3>1 DEF InTurn, r1, r2
  <2> HIDE DEF m2
  <2>3. m3 \in Z
    BY <1>2, <2>1
  <2>4. found \o m3 = r3
    <3>1. InTurn(found, m2, c)
      BY <1>2, <2>1, ConcatThree
    <3> QED
      BY <2>2, <3>1 DEF InTurn, r3
  <2> HIDE DEF m3
  <2>5. m4 \in Z
    BY <1>2, <2>3
  <2>6. found \o m4 = r4
    <3>1. InTurn(found, m3, d)
      BY <1>2, <2>3, ConcatThree
    <3> QED
      BY <2>4, <3>1 DEF InTurn, r4
  <2> HIDE DEF m4
  <2>7. m5 \in Z
    BY <1>2, <2>5
  <2>8. found \o m5 = r5
    <3>1. InTurn(found, m4, e)
      BY <1>2, <2>5, ConcatThree
    <3> QED
      BY <2>6, <3>1 DEF InTurn, r5
  <2> HIDE DEF m5
  <2>9. InTurn(found, m5, f)
    BY <1>2, <2>7, ConcatThree
  <2>10. IssuesAt(ps, i) = m5 \o f
    BY <1>3 DEF m2, m3, m4, m5
  <2> QED
    BY <2>8, <2>9, <2>10 DEF InTurn, r6
<1> QED
  BY <1>9, <1>9a, <1>10, <1>p1, <1>p2, <1>p3, <1>p4, <1>p5, <1>p6, Zenon DEF TellsSix

(* After k points each kind has been told of as often as a place up to k calls for it. *)
FlaggedAs(ps, kind) ==
    CASE kind = "zero fee"      -> ZeroFees(ps)
      [] kind = "duplicate"     -> Repeats(ps)
      [] kind = "out of order"  -> Falls(ps)
      [] kind = "gap"           -> Jumps(ps)
      [] kind = "outlier"       -> Outliers(ps)
      [] kind = "negative time" -> Fars(ps)

HowMany(P, k) == Cardinality(Through(P, k))

Tallied(found, ps, k) ==
    /\ Len(found) = HowMany(ZeroFees(ps), k) + HowMany(Repeats(ps), k)
                    + HowMany(Falls(ps), k) + HowMany(Jumps(ps), k)
                    + HowMany(Outliers(ps), k) + HowMany(Fars(ps), k)
    /\ \A kind \in IssueKinds : Cardinality(OfKind(found, kind)) = HowMany(FlaggedAs(ps, kind), k)

LEMMA OneIs ==
    ASSUME NEW P, NEW k \in Nat \ {0}
    PROVE  /\ HowMany(P, k) = HowMany(P, k - 1) + Ones(P, k)
           /\ HowMany(P, k) \in Nat /\ HowMany(P, k - 1) \in Nat /\ Ones(P, k) \in Nat
  BY OneMorePlace DEF HowMany, Ones

LEMMA TalliedStep ==
    ASSUME NEW ps \in Seq(FeePoint), NEW k \in 1..Len(ps), NEW found \in Seq(IssueRecord), Tallied(found, ps, k - 1)
    PROVE  Tallied(found \o IssuesAt(ps, k), ps, k)
<1>0. k \in Nat \ {0}
  OBVIOUS
<1> DEFINE more == found \o IssuesAt(ps, k)
<1>1. Len(more) = HowMany(ZeroFees(ps), k) + HowMany(Repeats(ps), k) + HowMany(Falls(ps), k) + HowMany(Jumps(ps), k) + HowMany(Outliers(ps), k) + HowMany(Fars(ps), k)
  <2>1. Len(found) = HowMany(ZeroFees(ps), k - 1) + HowMany(Repeats(ps), k - 1) + HowMany(Falls(ps), k - 1) + HowMany(Jumps(ps), k - 1) + HowMany(Outliers(ps), k - 1) + HowMany(Fars(ps), k - 1)
    BY DEF Tallied
  <2>2. Len(more) = Len(found) + Ones(ZeroFees(ps), k) + Ones(Repeats(ps), k) + Ones(Falls(ps), k) + Ones(Jumps(ps), k) + Ones(Outliers(ps), k) + Ones(Fars(ps), k)
    BY SixTold, Zenon DEF TellsSix
  <2>3. PICK was0 \in Nat, one0 \in Nat : was0 = HowMany(ZeroFees(ps), k - 1) /\ one0 = Ones(ZeroFees(ps), k) /\ HowMany(ZeroFees(ps), k) = was0 + one0
    <3>1. HowMany(ZeroFees(ps), k - 1) \in Nat /\ Ones(ZeroFees(ps), k) \in Nat /\ HowMany(ZeroFees(ps), k) = HowMany(ZeroFees(ps), k - 1) + Ones(ZeroFees(ps), k)
      BY <1>0, OneIs
    <3> QED
      BY <3>1, Zenon
  <2>4. PICK was1 \in Nat, one1 \in Nat : was1 = HowMany(Repeats(ps), k - 1) /\ one1 = Ones(Repeats(ps), k) /\ HowMany(Repeats(ps), k) = was1 + one1
    <3>1. HowMany(Repeats(ps), k - 1) \in Nat /\ Ones(Repeats(ps), k) \in Nat /\ HowMany(Repeats(ps), k) = HowMany(Repeats(ps), k - 1) + Ones(Repeats(ps), k)
      BY <1>0, OneIs
    <3> QED
      BY <3>1, Zenon
  <2>5. PICK was2 \in Nat, one2 \in Nat : was2 = HowMany(Falls(ps), k - 1) /\ one2 = Ones(Falls(ps), k) /\ HowMany(Falls(ps), k) = was2 + one2
    <3>1. HowMany(Falls(ps), k - 1) \in Nat /\ Ones(Falls(ps), k) \in Nat /\ HowMany(Falls(ps), k) = HowMany(Falls(ps), k - 1) + Ones(Falls(ps), k)
      BY <1>0, OneIs
    <3> QED
      BY <3>1, Zenon
  <2>6. PICK was3 \in Nat, one3 \in Nat : was3 = HowMany(Jumps(ps), k - 1) /\ one3 = Ones(Jumps(ps), k) /\ HowMany(Jumps(ps), k) = was3 + one3
    <3>1. HowMany(Jumps(ps), k - 1) \in Nat /\ Ones(Jumps(ps), k) \in Nat /\ HowMany(Jumps(ps), k) = HowMany(Jumps(ps), k - 1) + Ones(Jumps(ps), k)
      BY <1>0, OneIs
    <3> QED
      BY <3>1, Zenon
  <2>7. PICK was4 \in Nat, one4 \in Nat : was4 = HowMany(Outliers(ps), k - 1) /\ one4 = Ones(Outliers(ps), k) /\ HowMany(Outliers(ps), k) = was4 + one4
    <3>1. HowMany(Outliers(ps), k - 1) \in Nat /\ Ones(Outliers(ps), k) \in Nat /\ HowMany(Outliers(ps), k) = HowMany(Outliers(ps), k - 1) + Ones(Outliers(ps), k)
      BY <1>0, OneIs
    <3> QED
      BY <3>1, Zenon
  <2>8. PICK was5 \in Nat, one5 \in Nat : was5 = HowMany(Fars(ps), k - 1) /\ one5 = Ones(Fars(ps), k) /\ HowMany(Fars(ps), k) = was5 + one5
    <3>1. HowMany(Fars(ps), k - 1) \in Nat /\ Ones(Fars(ps), k) \in Nat /\ HowMany(Fars(ps), k) = HowMany(Fars(ps), k - 1) + Ones(Fars(ps), k)
      BY <1>0, OneIs
    <3> QED
      BY <3>1, Zenon
  <2> HIDE DEF more
  <2>9. Len(found) = was0 + was1 + was2 + was3 + was4 + was5
    BY <2>1, <2>3, <2>4, <2>5, <2>6, <2>7, <2>8, Zenon
  <2>10. Len(more) = was0 + was1 + was2 + was3 + was4 + was5 + one0 + one1 + one2 + one3 + one4 + one5
    BY <2>2, <2>9, <2>3, <2>4, <2>5, <2>6, <2>7, <2>8, Zenon
  <2>11. was0 + was1 + was2 + was3 + was4 + was5 + one0 + one1 + one2 + one3 + one4 + one5 = (was0 + one0) + (was1 + one1) + (was2 + one2) + (was3 + one3) + (was4 + one4) + (was5 + one5)
    OBVIOUS
  <2> QED
    BY <2>10, <2>11, <2>3, <2>4, <2>5, <2>6, <2>7, <2>8, Zenon
<1>2. ASSUME NEW kind \in IssueKinds PROVE Cardinality(OfKind(more, kind)) = HowMany(FlaggedAs(ps, kind), k)
  <2>1. Cardinality(OfKind(found, kind)) = HowMany(FlaggedAs(ps, kind), k - 1)
    BY DEF Tallied
  <2>2. Cardinality(OfKind(more, kind)) = Cardinality(OfKind(found, kind))
                 + OneAs("zero fee", kind, ZeroFees(ps), k)
                 + OneAs("duplicate", kind, Repeats(ps), k)
                 + OneAs("out of order", kind, Falls(ps), k)
                 + OneAs("gap", kind, Jumps(ps), k)
                 + OneAs("outlier", kind, Outliers(ps), k)
                 + OneAs("negative time", kind, Fars(ps), k)
    <3>1. TellsSix(found, ps, k)
      BY SixTold, Zenon
    <3> QED
      BY <3>1, Zenon DEF TellsSix
  <2>3. PICK was \in Nat : was = HowMany(FlaggedAs(ps, kind), k - 1)
    BY <1>0, OneIs
  <2>4. HowMany(FlaggedAs(ps, kind), k) = was + Ones(FlaggedAs(ps, kind), k)
    BY <1>0, <2>3, OneIs
  <2>5. CASE kind = "zero fee"
    <3>1. FlaggedAs(ps, kind) = ZeroFees(ps)
      BY <2>5 DEF FlaggedAs
    <3>2. PICK one \in Nat : one = Ones(ZeroFees(ps), k)
      BY <1>0, OneIs
    <3> HIDE DEF more
    <3>3. OneAs("zero fee", kind, ZeroFees(ps), k) = one /\ OneAs("duplicate", kind, Repeats(ps), k) = 0 /\ OneAs("out of order", kind, Falls(ps), k) = 0 /\ OneAs("gap", kind, Jumps(ps), k) = 0 /\ OneAs("outlier", kind, Outliers(ps), k) = 0 /\ OneAs("negative time", kind, Fars(ps), k) = 0
      BY <2>5, <3>2 DEF OneAs
    <3>4. Cardinality(OfKind(more, kind)) = was + one + 0 + 0 + 0 + 0 + 0
      BY <2>1, <2>2, <2>3, <3>3, Zenon
    <3>5. was + one + 0 + 0 + 0 + 0 + 0 = was + one
      OBVIOUS
    <3> QED
      BY <2>4, <3>1, <3>2, <3>4, <3>5, Zenon
  <2>6. CASE kind = "duplicate"
    <3>1. FlaggedAs(ps, kind) = Repeats(ps)
      BY <2>6 DEF FlaggedAs
    <3>2. PICK one \in Nat : one = Ones(Repeats(ps), k)
      BY <1>0, OneIs
    <3> HIDE DEF more
    <3>3. OneAs("zero fee", kind, ZeroFees(ps), k) = 0 /\ OneAs("duplicate", kind, Repeats(ps), k) = one /\ OneAs("out of order", kind, Falls(ps), k) = 0 /\ OneAs("gap", kind, Jumps(ps), k) = 0 /\ OneAs("outlier", kind, Outliers(ps), k) = 0 /\ OneAs("negative time", kind, Fars(ps), k) = 0
      BY <2>6, <3>2 DEF OneAs
    <3>4. Cardinality(OfKind(more, kind)) = was + 0 + one + 0 + 0 + 0 + 0
      BY <2>1, <2>2, <2>3, <3>3, Zenon
    <3>5. was + 0 + one + 0 + 0 + 0 + 0 = was + one
      OBVIOUS
    <3> QED
      BY <2>4, <3>1, <3>2, <3>4, <3>5, Zenon
  <2>7. CASE kind = "out of order"
    <3>1. FlaggedAs(ps, kind) = Falls(ps)
      BY <2>7 DEF FlaggedAs
    <3>2. PICK one \in Nat : one = Ones(Falls(ps), k)
      BY <1>0, OneIs
    <3> HIDE DEF more
    <3>3. OneAs("zero fee", kind, ZeroFees(ps), k) = 0 /\ OneAs("duplicate", kind, Repeats(ps), k) = 0 /\ OneAs("out of order", kind, Falls(ps), k) = one /\ OneAs("gap", kind, Jumps(ps), k) = 0 /\ OneAs("outlier", kind, Outliers(ps), k) = 0 /\ OneAs("negative time", kind, Fars(ps), k) = 0
      BY <2>7, <3>2 DEF OneAs
    <3>4. Cardinality(OfKind(more, kind)) = was + 0 + 0 + one + 0 + 0 + 0
      BY <2>1, <2>2, <2>3, <3>3, Zenon
    <3>5. was + 0 + 0 + one + 0 + 0 + 0 = was + one
      OBVIOUS
    <3> QED
      BY <2>4, <3>1, <3>2, <3>4, <3>5, Zenon
  <2>8. CASE kind = "gap"
    <3>1. FlaggedAs(ps, kind) = Jumps(ps)
      BY <2>8 DEF FlaggedAs
    <3>2. PICK one \in Nat : one = Ones(Jumps(ps), k)
      BY <1>0, OneIs
    <3> HIDE DEF more
    <3>3. OneAs("zero fee", kind, ZeroFees(ps), k) = 0 /\ OneAs("duplicate", kind, Repeats(ps), k) = 0 /\ OneAs("out of order", kind, Falls(ps), k) = 0 /\ OneAs("gap", kind, Jumps(ps), k) = one /\ OneAs("outlier", kind, Outliers(ps), k) = 0 /\ OneAs("negative time", kind, Fars(ps), k) = 0
      BY <2>8, <3>2 DEF OneAs
    <3>4. Cardinality(OfKind(more, kind)) = was + 0 + 0 + 0 + one + 0 + 0
      BY <2>1, <2>2, <2>3, <3>3, Zenon
    <3>5. was + 0 + 0 + 0 + one + 0 + 0 = was + one
      OBVIOUS
    <3> QED
      BY <2>4, <3>1, <3>2, <3>4, <3>5, Zenon
  <2>9. CASE kind = "outlier"
    <3>1. FlaggedAs(ps, kind) = Outliers(ps)
      BY <2>9 DEF FlaggedAs
    <3>2. PICK one \in Nat : one = Ones(Outliers(ps), k)
      BY <1>0, OneIs
    <3> HIDE DEF more
    <3>3. OneAs("zero fee", kind, ZeroFees(ps), k) = 0 /\ OneAs("duplicate", kind, Repeats(ps), k) = 0 /\ OneAs("out of order", kind, Falls(ps), k) = 0 /\ OneAs("gap", kind, Jumps(ps), k) = 0 /\ OneAs("outlier", kind, Outliers(ps), k) = one /\ OneAs("negative time", kind, Fars(ps), k) = 0
      BY <2>9, <3>2 DEF OneAs
    <3>4. Cardinality(OfKind(more, kind)) = was + 0 + 0 + 0 + 0 + one + 0
      BY <2>1, <2>2, <2>3, <3>3, Zenon
    <3>5. was + 0 + 0 + 0 + 0 + one + 0 = was + one
      OBVIOUS
    <3> QED
      BY <2>4, <3>1, <3>2, <3>4, <3>5, Zenon
  <2>10. CASE kind = "negative time"
    <3>1. FlaggedAs(ps, kind) = Fars(ps)
      BY <2>10 DEF FlaggedAs
    <3>2. PICK one \in Nat : one = Ones(Fars(ps), k)
      BY <1>0, OneIs
    <3> HIDE DEF more
    <3>3. OneAs("zero fee", kind, ZeroFees(ps), k) = 0 /\ OneAs("duplicate", kind, Repeats(ps), k) = 0 /\ OneAs("out of order", kind, Falls(ps), k) = 0 /\ OneAs("gap", kind, Jumps(ps), k) = 0 /\ OneAs("outlier", kind, Outliers(ps), k) = 0 /\ OneAs("negative time", kind, Fars(ps), k) = one
      BY <2>10, <3>2 DEF OneAs
    <3>4. Cardinality(OfKind(more, kind)) = was + 0 + 0 + 0 + 0 + 0 + one
      BY <2>1, <2>2, <2>3, <3>3, Zenon
    <3>5. was + 0 + 0 + 0 + 0 + 0 + one = was + one
      OBVIOUS
    <3> QED
      BY <2>4, <3>1, <3>2, <3>4, <3>5, Zenon
  <2> QED
    BY <2>5, <2>6, <2>7, <2>8, <2>9, <2>10 DEF IssueKinds
<1> QED
  BY <1>1, <1>2 DEF Tallied

LEMMA DetectTallies == ASSUME NEW ps \in Seq(FeePoint) PROVE Tallied(Detect(ps), ps, Len(ps))
<1> DEFINE n == Len(ps)
<1>0. n \in Nat
  OBVIOUS
<1>1. PICK f \in [0..n -> Seq(IssueRecord)] : Finds(f, ps) /\ Detect(ps) = f[n]
  BY DetectFolds
<1> DEFINE good == {k \in 0..n : Tallied(f[k], ps, k)}
<1>2. 0 \in good
  <2>1. f[0] = <<>>
    BY <1>1 DEF Finds
  <2>2. Len(<<>>) = 0 /\ \A kind : OfKind(<<>>, kind) = {}
    BY DEF OfKind
  <2>3. \A P : HowMany(P, 0) = 0
    BY NoPlace DEF HowMany
  <2>4. Cardinality({}) = 0
    BY FS_EmptySet
  <2>5. Tallied(<<>>, ps, 0)
    BY <2>2, <2>3, <2>4 DEF Tallied
  <2> QED
    BY <1>0, <2>1, <2>5
<1> HIDE DEF n
<1>3. ASSUME NEW k \in 1..n, k - 1 \in good PROVE k \in good
  <2>1. k - 1 \in 0..n /\ k \in 0..n
    BY <1>0
  <2>2. f[k - 1] \in Seq(IssueRecord)
    BY <2>1
  <2>3. f[k] = f[k - 1] \o IssuesAt(ps, k)
    BY <1>1 DEF Finds, n
  <2>4. Tallied(f[k - 1] \o IssuesAt(ps, k), ps, k)
    BY <1>3, <2>2, TalliedStep DEF n
  <2> QED
    BY <2>1, <2>3, <2>4, Zenon
<1>4. 0..n \subseteq good
  <2> HIDE DEF good
  <2> QED
    BY <1>0, <1>2, <1>3, ReachesAll
<1>5. n \in good
  BY <1>0, <1>4
<1> QED
  BY <1>1, <1>5 DEF n

LEMMA SelectedCounts ==
    ASSUME NEW A, NEW seq \in Seq(A), NEW P
    PROVE  Len(Selected(seq, P)) = HowMany(P, Len(seq))
<1> DEFINE n == Len(seq)
<1>0. n \in Nat
  OBVIOUS
<1>1. PICK f \in [0..n -> Seq(A)] : Selects(f, seq, P) /\ Selected(seq, P) = f[n]
  BY SelectedFolds
<1> DEFINE good == {k \in 0..n : Len(f[k]) = HowMany(P, k)}
<1>2. 0 \in good
  <2>1. f[0] = <<>> /\ Len(<<>>) = 0
    BY <1>1 DEF Selects
  <2>2. HowMany(P, 0) = 0
    BY NoPlace DEF HowMany
  <2> QED
    BY <1>0, <2>1, <2>2
<1> HIDE DEF n
<1>3. ASSUME NEW k \in 1..n, k - 1 \in good PROVE k \in good
  <2>1. k - 1 \in 0..n /\ k \in 0..n /\ k \in Nat \ {0}
    BY <1>0
  <2>2. PICK was \in Seq(A) : was = f[k - 1]
    BY <2>1
  <2>3. seq[k] \in A
    BY DEF n
  <2>4. f[k] = (IF k \in P THEN Append(f[k - 1], seq[k]) ELSE f[k - 1])
    BY <1>1 DEF Selects, n
  <2>5. HowMany(P, k) = HowMany(P, k - 1) + Ones(P, k) /\ HowMany(P, k - 1) \in Nat
    BY <2>1, OneIs
  <2>6. Len(was) = HowMany(P, k - 1)
    BY <1>3, <2>2
  <2>7. CASE k \in P
    <3>1. Ones(P, k) = 1
      BY <2>7 DEF Ones
    <3>2. Len(Append(was, seq[k])) = Len(was) + 1
      BY <2>3
    <3>3. f[k] = Append(was, seq[k])
      BY <2>2, <2>4, <2>7, Zenon
    <3>4. Len(f[k]) = HowMany(P, k)
      BY <2>5, <2>6, <3>1, <3>2, <3>3, Zenon
    <3> QED
      BY <2>1, <3>4
  <2>8. CASE k \notin P
    <3>1. Ones(P, k) = 0
      BY <2>8 DEF Ones
    <3>2. f[k] = was
      BY <2>2, <2>4, <2>8, Zenon
    <3>3. HowMany(P, k) = HowMany(P, k - 1)
      BY <2>5, <3>1
    <3>4. Len(f[k]) = HowMany(P, k)
      BY <2>6, <3>2, <3>3, Zenon
    <3> QED
      BY <2>1, <3>4
  <2> QED
    BY <2>7, <2>8
<1>4. 0..n \subseteq good
  <2> HIDE DEF good
  <2> QED
    BY <1>0, <1>2, <1>3, ReachesAll
<1>5. n \in good
  BY <1>0, <1>4
<1> QED
  BY <1>1, <1>5 DEF n

LEMMA KeptCounts ==
    ASSUME NEW ps \in Seq(FeePoint)
    PROVE  Len(RemoveDuplicates(ps)) = Cardinality(LedgersOf(ps))
<1> DEFINE n == Len(ps)
<1>0. n \in Nat
  OBVIOUS
<1>1. PICK f \in [0..n -> Seq(FeePoint)] : Keeps(f, ps) /\ RemoveDuplicates(ps) = f[n]
  BY KeptFolds
<1> DEFINE fits(k) == IsFiniteSet(LedgersOf(f[k])) /\ Len(f[k]) = Cardinality(LedgersOf(f[k]))
           good == {k \in 0..n : fits(k)}
<1>2. 0 \in good
  <2>1. f[0] = <<>> /\ Len(<<>>) = 0
    BY <1>1 DEF Keeps
  <2>2. LedgersOf(<<>>) = {}
    BY DEF LedgersOf
  <2>3. IsFiniteSet({}) /\ Cardinality({}) = 0
    BY FS_EmptySet
  <2> QED
    BY <1>0, <2>1, <2>2, <2>3
<1> HIDE DEF n
<1>3. ASSUME NEW k \in 1..n, k - 1 \in good PROVE k \in good
  <2>1. k - 1 \in 0..n /\ k \in 0..n
    BY <1>0
  <2>2. PICK was \in Seq(FeePoint) : was = f[k - 1]
    BY <2>1
  <2>3. PICK p \in FeePoint : p = ps[k]
    BY DEF n
  <2>4. f[k] = (IF p.ledger \in LedgersOf(was) THEN was ELSE Append(was, p))
    BY <1>1, <2>2, <2>3 DEF Keeps, n
  <2>5. IsFiniteSet(LedgersOf(was)) /\ Len(was) = Cardinality(LedgersOf(was))
    BY <1>3, <2>2
  <2>6. CASE p.ledger \in LedgersOf(was)
    BY <2>1, <2>4, <2>5, <2>6
  <2>7. CASE p.ledger \notin LedgersOf(was)
    <3>1. f[k] = Append(was, p)
      BY <2>4, <2>7
    <3>2. LedgersOf(Append(was, p)) = LedgersOf(was) \cup {p.ledger}
      BY LedgersAppend
    <3>3. /\ IsFiniteSet(LedgersOf(was) \cup {p.ledger})
          /\ Cardinality(LedgersOf(was) \cup {p.ledger}) = Cardinality(LedgersOf(was)) + 1
      BY <2>5, <2>7, FS_AddElement
    <3>4. Len(Append(was, p)) = Len(was) + 1
      OBVIOUS
    <3>5. fits(k)
      BY <2>5, <3>1, <3>2, <3>3, <3>4, Zenon
    <3> QED
      BY <2>1, <3>5
  <2> QED
    BY <2>6, <2>7
<1>4. 0..n \subseteq good
  <2> HIDE DEF good
  <2> QED
    BY <1>0, <1>2, <1>3, ReachesAll
<1>5. n \in good
  BY <1>0, <1>4
<1>6. LedgersOf(RemoveDuplicates(ps)) = LedgersOf(ps)
  BY KeptIs
<1> QED
  BY <1>1, <1>5, <1>6 DEF n

LEMMA RemovedCounts ==
    ASSUME NEW ps \in Seq(FeePoint)
    PROVE  /\ RemovedPoints(ps) = Selected(ps, Repeats(ps))
           /\ Len(RemovedPoints(ps)) = HowMany(Repeats(ps), Len(ps))
           /\ Len(RemovedPoints(ps)) = DuplicateCount(ps)
<1> DEFINE firsts == {i \in DOMAIN ps : \A j \in 1..(i - 1) : ps[j].ledger # ps[i].ledger}
<1>1. RemovedPoints(ps) = Selected(ps, Repeats(ps))
  BY DEF RemovedPoints, Repeats
<1>2. Len(Selected(ps, Repeats(ps))) = HowMany(Repeats(ps), Len(ps))
  BY SelectedCounts
<1>3. \A k \in 1..Len(ps) : k \in firsts <=> k \notin Repeats(ps)
  BY DEF Repeats
<1>4. Firsts(ps) = Selected(ps, firsts)
  BY DEF Firsts
<1> HIDE DEF firsts
<1>5. Len(Selected(ps, Repeats(ps))) + Len(Selected(ps, firsts)) = Len(ps)
  BY <1>3, SelectedOthers
<1>6. Len(Selected(ps, firsts)) = Cardinality(LedgersOf(ps))
  <2>1. RemoveDuplicates(ps) = Firsts(ps)
    BY KeptIs
  <2>2. Len(RemoveDuplicates(ps)) = Cardinality(LedgersOf(ps))
    BY KeptCounts
  <2> QED
    BY <1>4, <2>1, <2>2, Zenon
<1>7. PICK a \in Nat : a = Len(Selected(ps, Repeats(ps)))
  <2>1. Selected(ps, Repeats(ps)) \in Seq(FeePoint)
    BY SelectedIs
  <2> QED
    BY <2>1
<1>8. PICK b \in Nat : b = Len(Selected(ps, firsts))
  <2>1. Selected(ps, firsts) \in Seq(FeePoint)
    BY SelectedIs
  <2> QED
    BY <2>1
<1>9. PICK n \in Nat : n = Len(ps)
  OBVIOUS
<1>10. a = n - b
  BY <1>5, <1>7, <1>8, <1>9
<1>11. DuplicateCount(ps) = n - b
  BY <1>6, <1>8, <1>9 DEF DuplicateCount
<1> QED
  BY <1>1, <1>2, <1>7, <1>10, <1>11

(* The missing ledgers before the i-th point. *)
MissingBefore(ps, i) == IF i = 1 THEN 0 ELSE Max({0, ps[i].ledger - ps[i - 1].ledger - 1})
GapsOf(ps) == [i \in DOMAIN ps |-> MissingBefore(ps, i)]

LEMMA MissingIs ==
    ASSUME NEW ps \in Seq(FeePoint), NEW i \in 1..Len(ps)
    PROVE  /\ MissingBefore(ps, i) \in Nat
           /\ i \in Jumps(ps) => MissingBefore(ps, i) >= 1
           /\ i \notin Jumps(ps) => MissingBefore(ps, i) = 0
<1>1. CASE i = 1
  BY <1>1 DEF MissingBefore, Jumps
<1>2. CASE i # 1
  <2>1. i - 1 \in 1..Len(ps) /\ DOMAIN ps = 1..Len(ps)
    BY <1>2
  <2>0. ps[i] \in FeePoint /\ ps[i - 1] \in FeePoint
    BY <2>1
  <2>9. ps[i].ledger \in Nat /\ ps[i - 1].ledger \in Nat
    BY <2>0 DEF FeePoint
  <2>2. PICK a \in Nat : a = ps[i].ledger
    BY <2>9, Zenon
  <2>3. PICK b \in Nat : b = ps[i - 1].ledger
    BY <2>9, Zenon
  <2>4. MissingBefore(ps, i) = Max({0, a - b - 1})
    BY <1>2, <2>2, <2>3 DEF MissingBefore
  <2>5. i \in Jumps(ps) <=> a > b + 1
    BY <1>2, <2>1, <2>2, <2>3 DEF Jumps
  <2>6. 0 \in Int /\ a - b - 1 \in Int
    OBVIOUS
  <2>7. Max({0, a - b - 1}) = IF 0 <= a - b - 1 THEN a - b - 1 ELSE 0
    BY <2>6, GreaterOf
  <2> QED
    BY <2>4, <2>5, <2>7
<1> QED
  BY <1>1, <1>2

LEMMA GapsCount ==
    ASSUME NEW ps \in Seq(FeePoint)
    PROVE  /\ GapsOf(ps) \in Seq(Nat) /\ Added(GapsOf(ps)) \in Nat
           /\ Added(GapsOf(ps)) >= HowMany(Jumps(ps), Len(ps))
           /\ HowMany(Jumps(ps), Len(ps)) = 0 => Added(GapsOf(ps)) = 0
<1> DEFINE n == Len(ps)
           P == Jumps(ps)
<1>0. n \in Nat /\ DOMAIN ps = 1..n
  OBVIOUS
<1>1. PICK gaps : gaps = GapsOf(ps)
  OBVIOUS
<1>2. gaps \in Seq(Nat) /\ Len(gaps) = n /\ \A i \in 1..n : gaps[i] = MissingBefore(ps, i)
  <2>1. \A i \in 1..n : MissingBefore(ps, i) \in Nat
    BY MissingIs
  <2>2. gaps = [i \in 1..n |-> MissingBefore(ps, i)]
    BY <1>0, <1>1 DEF GapsOf
  <2> HIDE DEF n
  <2> QED
    BY <1>0, <2>1, <2>2
<1>3. Added(gaps) \in Nat
  BY <1>2, AddedIs
<1>4. gaps \in Seq(Int)
  BY <1>2
<1>5. PICK f \in [0..n -> Int] : AddsTo(f, gaps) /\ Added(gaps) = f[n]
  <2>1. PICK f \in [0..Len(gaps) -> Int] : AddsTo(f, gaps) /\ Added(gaps) = f[Len(gaps)]
    BY <1>4, AddedFolds
  <2> QED
    BY <1>2, <2>1
<1> DEFINE good == {k \in 0..n : f[k] >= HowMany(P, k)}
<1>6. 0 \in good
  <2>1. f[0] = 0
    BY <1>5 DEF AddsTo
  <2>2. HowMany(P, 0) = 0
    BY NoPlace DEF HowMany
  <2> QED
    BY <1>0, <2>1, <2>2
<1>7. ASSUME NEW k \in 1..n, k - 1 \in good PROVE k \in good
  <2>1. k - 1 \in 0..n /\ k \in 0..n /\ k \in Nat \ {0} /\ k \in 1..Len(gaps)
    BY <1>0, <1>2
  <2>2. f[k] = f[k - 1] + gaps[k]
    BY <1>5, <2>1 DEF AddsTo
  <2>3. PICK was \in Int : was = f[k - 1]
    BY <2>1
  <2>4. PICK more \in Nat : more = gaps[k] /\ (k \in P => more >= 1)
    <3>1. gaps[k] = MissingBefore(ps, k)
      BY <1>2
    <3>2. MissingBefore(ps, k) \in Nat /\ (k \in P => MissingBefore(ps, k) >= 1)
      BY MissingIs
    <3> QED
      BY <3>1, <3>2
  <2> HIDE DEF P
  <2>5. PICK h \in Nat : h = HowMany(P, k - 1)
    BY <2>1, OneIs
  <2>6. HowMany(P, k) = h + Ones(P, k)
    BY <2>1, <2>5, OneIs
  <2>7. was >= h
    BY <1>7, <2>3, <2>5
  <2>8. Ones(P, k) = 0 \/ (Ones(P, k) = 1 /\ k \in P)
    BY DEF Ones
  <2>9. was + more >= h + Ones(P, k)
    BY <2>4, <2>7, <2>8
  <2>10. f[k] = was + more
    BY <2>2, <2>3, <2>4
  <2> QED
    BY <2>1, <2>6, <2>9, <2>10
<1>8. 0..n \subseteq good
  <2> HIDE DEF good, n
  <2> QED
    BY <1>0, <1>6, <1>7, ReachesAll
<1>9. f[n] >= HowMany(P, n)
  <2>1. n \in good
    <3> HIDE DEF good, n
    <3> QED
      BY <1>0, <1>8
  <2> QED
    BY <2>1
<1>10. ASSUME HowMany(P, n) = 0 PROVE Added(gaps) = 0
  <2>1. Through(P, n) = P
    BY <1>0 DEF Through, Jumps
  <2>2. IsFiniteSet(P)
    <3>1. IsFiniteSet(1..n)
      BY <1>0, UptoFinite
    <3>2. P \in SUBSET (1..n)
      BY <1>0 DEF Jumps
    <3> QED
      BY <3>1, <3>2, FS_Subset
  <2>3. P = {}
    BY <1>10, <2>1, <2>2, FS_EmptySet DEF HowMany
  <2>4. \A i \in 1..Len(gaps) : gaps[i] = 0
    BY <1>2, <2>3, MissingIs
  <2> QED
    BY <1>4, <2>4, NothingAdded
<1> QED
  BY <1>1, <1>2, <1>3, <1>5, <1>9, <1>10

LEMMA AllThrough ==
    ASSUME NEW ps \in Seq(FeePoint)
    PROVE  /\ HowMany(ZeroFees(ps), Len(ps)) = Cardinality(ZeroFees(ps)) /\ HowMany(Falls(ps), Len(ps)) = Cardinality(Falls(ps))
           /\ HowMany(Outliers(ps), Len(ps)) = Cardinality(Outliers(ps))
<1>1. DOMAIN ps = 1..Len(ps)
  OBVIOUS
<1>2. Through(ZeroFees(ps), Len(ps)) = ZeroFees(ps)
  BY <1>1 DEF Through, ZeroFees
<1>3. Through(Falls(ps), Len(ps)) = Falls(ps)
  BY <1>1 DEF Through, Falls
<1>4. Through(Outliers(ps), Len(ps)) = Outliers(ps)
  BY <1>1 DEF Through, Outliers
<1> QED
  BY <1>2, <1>3, <1>4 DEF HowMany

LEMMA HowManyIs == ASSUME NEW P, NEW n \in Nat PROVE HowMany(P, n) \in Nat
<1>1. CASE n = 0
  BY <1>1, NoPlace DEF HowMany
<1>2. CASE n # 0
  BY <1>2, OneIs
<1> QED
  BY <1>1, <1>2

LEMMA IssuesDoAgree == ASSUME NEW ps \in Seq(FeePoint) PROVE IssuesAgree(ps)
<1> DEFINE n == Len(ps)
           counts == Counts(ps)
<1>0. n \in Nat
  OBVIOUS
<1>1. PICK found \in Seq(IssueRecord) : found = Detect(ps)
  BY DetectIs
<1>2. PICK all \in Nat : all = Len(found)
  OBVIOUS
<1> HIDE DEF n
<1>3. PICK zero \in Nat : zero = HowMany(ZeroFees(ps), n)
  BY <1>0, HowManyIs
<1>4. PICK dup \in Nat : dup = HowMany(Repeats(ps), n)
  BY <1>0, HowManyIs
<1>5. PICK fall \in Nat : fall = HowMany(Falls(ps), n)
  BY <1>0, HowManyIs
<1>6. PICK jump \in Nat : jump = HowMany(Jumps(ps), n)
  BY <1>0, HowManyIs
<1>7. PICK out \in Nat : out = HowMany(Outliers(ps), n)
  BY <1>0, HowManyIs
<1>8. PICK far \in Nat : far = HowMany(Fars(ps), n)
  BY <1>0, HowManyIs
<1>9. Tallied(found, ps, n)
  BY <1>1, DetectTallies DEF n
<1>10. all = zero + dup + fall + jump + out + far
  BY <1>2, <1>3, <1>4, <1>5, <1>6, <1>7, <1>8, <1>9, Zenon DEF Tallied
<1>11. \A kind : IssuesOf(ps, kind) = OfKind(found, kind)
  BY <1>1 DEF IssuesOf, OfKind
<1>12. Cardinality(IssuesOf(ps, "gap")) = jump
  <2>1. "gap" \in IssueKinds /\ FlaggedAs(ps, "gap") = Jumps(ps)
    BY DEF IssueKinds, FlaggedAs
  <2> QED
    BY <1>6, <1>9, <1>11, <2>1, Zenon DEF Tallied
<1>13. Cardinality(IssuesOf(ps, "negative time")) = far
  <2>1. "negative time" \in IssueKinds /\ FlaggedAs(ps, "negative time") = Fars(ps)
    BY DEF IssueKinds, FlaggedAs
  <2> QED
    BY <1>8, <1>9, <1>11, <2>1, Zenon DEF Tallied
<1>14. counts.duplicates = DuplicateCount(ps) /\ DuplicateCount(ps) = dup /\ Len(RemovedPoints(ps)) = dup
  <2>1. counts.duplicates = DuplicateCount(ps)
    BY DEF Counts
  <2> QED
    BY <1>4, <2>1, RemovedCounts DEF n
<1>15. PICK missing \in Nat : missing = counts.gaps /\ missing >= jump /\ (jump = 0 => missing = 0)
  <2>1. counts.gaps = Added(GapsOf(ps))
    BY DEF Counts, GapsOf, MissingBefore
  <2>2. Added(GapsOf(ps)) \in Nat /\ Added(GapsOf(ps)) >= jump /\ (jump = 0 => Added(GapsOf(ps)) = 0)
    BY <1>6, GapsCount DEF n
  <2> QED
    BY <2>1, <2>2
<1>16. counts.outliers = out /\ counts.zeroFees = zero /\ counts.outOfOrder = fall
  <2>1. counts.outliers = Cardinality(Outliers(ps)) /\ counts.zeroFees = Cardinality(ZeroFees(ps)) /\ counts.outOfOrder = Cardinality(Falls(ps))
    BY DEF Counts, Outliers, ZeroFees, Falls
  <2> QED
    BY <1>3, <1>5, <1>7, <2>1, AllThrough DEF n
<1> HIDE DEF counts
<1>17. Report(ps).counts = counts
  BY DEF Report, counts
<1>18. Report(ps).total = dup + missing + out + zero + fall
  <2>1. Report(ps).total = counts.duplicates + counts.gaps + counts.outliers + counts.zeroFees + counts.outOfOrder
    BY DEF Report, counts
  <2> QED
    BY <1>14, <1>15, <1>16, <2>1
<1>19. Report(ps).total = all - far - jump + missing
  BY <1>10, <1>18
<1>20. ASSUME RepairScore(ps) = 10 PROVE Report(ps).score = n
  <2>1. 0 \in Int /\ 10 - all \in Int
    OBVIOUS
  <2>2. Max({0, 10 - all}) = IF 0 <= 10 - all THEN 10 - all ELSE 0
    BY <2>1, GreaterOf
  <2>3. RepairScore(ps) = (IF ps = <<>> THEN 0 ELSE Max({0, 10 - all}))
    BY <1>1, <1>2 DEF RepairScore
  <2>4. all = 0
    BY <1>20, <2>2, <2>3
  <2>5. Report(ps).total = 0
    <3>1. zero = 0 /\ dup = 0 /\ fall = 0 /\ jump = 0 /\ out = 0
      <4> HIDE DEF counts
      <4> QED
        BY <1>10, <2>4
    <3>2. missing = 0
      BY <1>15, <3>1
    <3>3. dup + missing + out + zero + fall = 0
      BY <3>1, <3>2
    <3> QED
      BY <1>18, <3>3, Zenon
  <2>6. Report(ps).score = Max({0, n - Report(ps).total})
    BY DEF Report, n
  <2>7. Report(ps).score = Max({0, n})
    BY <1>0, <2>5, <2>6
  <2>8. 0 \in Int /\ n \in Int
    BY <1>0
  <2>9. Max({0, n}) = IF 0 <= n THEN n ELSE 0
    BY <2>8, GreaterOf
  <2> QED
    BY <1>0, <2>7, <2>9
<1>21. Len(Detect(ps)) = all
  BY <1>1, <1>2
<1> QED
  BY <1>12, <1>13, <1>14, <1>15, <1>17, <1>19, <1>20, <1>21, Zenon DEF IssuesAgree, n

-----------------------------------------------------------------------------
(* Sorting by a value puts the least first, and leaves no place out. *)

LEMMA EveryPlaceFollows ==
    ASSUME NEW n \in Nat, NEW order, StrictOn(order, n), NEW place, Follows(place, order, n)
    PROVE  \A j \in 1..n : \E k \in 1..n : place[k] = j
<1>1. place \in [1..n -> 1..n] /\ \A k, l \in 1..n : k < l => <<place[k], place[l]>> \in order
  BY DEF Follows
<1>2. ASSUME NEW k \in 1..n, NEW l \in 1..n, k < l PROVE place[k] # place[l]
  <2>1. <<place[k], place[l]>> \in order
    BY <1>1, <1>2
  <2>2. PICK a \in 1..n, b \in 1..n : a = place[k] /\ b = place[l]
    BY <1>1
  <2>3. <<b, a>> \notin order
    BY <2>1, <2>2 DEF StrictOn
  <2> QED
    BY <2>1, <2>2, <2>3
<1>3. ASSUME NEW k \in 1..n, NEW l \in 1..n, place[k] = place[l] PROVE k = l
  <2>1. k < l \/ l < k \/ k = l
    OBVIOUS
  <2> QED
    BY <1>2, <1>3, <2>1
<1>4. place \in Injection(1..n, 1..n)
  BY <1>1, <1>3, Zenon DEF Injection, IsInjective
<1>5. IsFiniteSet(1..n)
  BY UptoFinite
<1>6. place \in Surjection(1..n, 1..n)
  BY <1>4, <1>5, FS_Injection
<1> QED
  BY <1>6, Zenon DEF Surjection

LEMMA AscendingIsStrict ==
    ASSUME NEW v \in Seq(Int)
    PROVE  StrictOn(Ascending(v), Len(v))
<1> DEFINE n == Len(v)
<1>1. n \in Nat /\ DOMAIN v = 1..n /\ \A i \in 1..n : v[i] \in Int /\ i \in Int
  OBVIOUS
<1>2. ASSUME NEW i \in 1..n, NEW j \in 1..n
      PROVE  <<i, j>> \in Ascending(v) <=> v[i] < v[j] \/ (v[i] = v[j] /\ i < j)
  BY <1>1 DEF Ascending
<1> HIDE DEF n
<1>3. ASSUME NEW i \in 1..n, NEW j \in 1..n, NEW k \in 1..n,
             <<i, j>> \in Ascending(v), <<j, k>> \in Ascending(v)
      PROVE  <<i, k>> \in Ascending(v)
  <2>1. PICK a \in Int, b \in Int, c \in Int : a = v[i] /\ b = v[j] /\ c = v[k]
    BY <1>1
  <2>2. a < b \/ (a = b /\ i < j)
    BY <1>2, <1>3, <2>1
  <2>3. b < c \/ (b = c /\ j < k)
    BY <1>2, <1>3, <2>1
  <2>4. a < c \/ (a = c /\ i < k)
    BY <1>1, <2>2, <2>3
  <2> QED
    BY <1>2, <2>1, <2>4
<1>4. ASSUME NEW i \in 1..n, NEW j \in 1..n
      PROVE  /\ <<i, j>> \in Ascending(v) => <<j, i>> \notin Ascending(v)
             /\ i = j \/ <<i, j>> \in Ascending(v) \/ <<j, i>> \in Ascending(v)
  <2>1. PICK a \in Int, b \in Int : a = v[i] /\ b = v[j]
    BY <1>1
  <2>2. <<i, j>> \in Ascending(v) <=> a < b \/ (a = b /\ i < j)
    BY <1>2, <2>1
  <2>3. <<j, i>> \in Ascending(v) <=> b < a \/ (b = a /\ j < i)
    BY <1>2, <2>1
  <2> QED
    BY <1>1, <2>2, <2>3
<1> QED
  BY <1>3, <1>4, Zenon DEF StrictOn, n

OrderedBy(A, seq, order) ==
    /\ InOrderOf(seq, order) \in Seq(A) /\ Len(InOrderOf(seq, order)) = Len(seq)
    /\ \E place : /\ Follows(place, order, Len(seq))
                  /\ \A k \in 1..Len(seq) : InOrderOf(seq, order)[k] = seq[place[k]]

LEMMA ComesInOrder ==
    ASSUME NEW A, NEW seq \in Seq(A), NEW order, StrictOn(order, Len(seq)) PROVE OrderedBy(A, seq, order)
  BY InOrderIs DEF OrderedBy

(* What sorting a sequence by the values v of its places does. *)
SortsBy(sorted, seq, v, place) ==
    /\ Len(sorted) = Len(seq)
    /\ place \in [1..Len(seq) -> 1..Len(seq)]
    /\ \A k \in 1..Len(seq) : sorted[k] = seq[place[k]]
    /\ \A k, l \in 1..Len(seq) : k <= l => v[place[k]] <= v[place[l]]
    /\ \A j \in 1..Len(seq) : \E k \in 1..Len(seq) : place[k] = j

LEMMA SortedBy ==
    ASSUME NEW A, NEW seq \in Seq(A), NEW v \in Seq(Int), Len(v) = Len(seq)
    PROVE  /\ InOrderOf(seq, Ascending(v)) \in Seq(A)
           /\ \E place : SortsBy(InOrderOf(seq, Ascending(v)), seq, v, place)
<1> DEFINE n == Len(seq)
           order == Ascending(v)
           sorted == InOrderOf(seq, order)
<1>0. n \in Nat
  OBVIOUS
<1>1. StrictOn(order, n)
  BY AscendingIsStrict
<1>2. /\ sorted \in Seq(A) /\ Len(sorted) = n
      /\ \E place : Follows(place, order, n) /\ \A k \in 1..n : sorted[k] = seq[place[k]]
  <2>1. OrderedBy(A, seq, order)
    BY <1>1, ComesInOrder
  <2> QED
    BY <2>1, Zenon DEF OrderedBy
<1> HIDE DEF order
<1>3. PICK place : Follows(place, order, n) /\ \A k \in 1..n : sorted[k] = seq[place[k]]
  BY <1>2
<1>4. place \in [1..n -> 1..n] /\ \A k, l \in 1..n : k < l => <<place[k], place[l]>> \in order
  BY <1>3 DEF Follows
<1>5. ASSUME NEW k \in 1..n, NEW l \in 1..n, k <= l PROVE v[place[k]] <= v[place[l]]
  <2>1. PICK a \in 1..n, b \in 1..n : a = place[k] /\ b = place[l]
    BY <1>4
  <2>2. v[a] \in Int /\ v[b] \in Int
    OBVIOUS
  <2>3. CASE k = l
    BY <2>1, <2>2, <2>3
  <2>4. CASE k < l
    <3>1. <<a, b>> \in order
      BY <1>4, <2>1, <2>4
    <3>2. v[a] < v[b] \/ v[a] = v[b]
      BY <3>1 DEF order, Ascending
    <3> QED
      BY <2>1, <2>2, <3>2
  <2> QED
    BY <1>0, <1>5, <2>3, <2>4
<1>6. \A j \in 1..n : \E k \in 1..n : place[k] = j
  BY <1>0, <1>1, <1>3, EveryPlaceFollows
<1>7. SortsBy(sorted, seq, v, place)
  BY <1>2, <1>3, <1>4, <1>5, <1>6, Zenon DEF SortsBy
<1> QED
  BY <1>2, <1>7 DEF order

LEMMA FeesAre ==
    ASSUME NEW ps \in Seq(FeePoint)
    PROVE  FeeSeq(ps) \in Seq(Nat) /\ Len(FeeSeq(ps)) = Len(ps) /\ \A i \in 1..Len(ps) : FeeSeq(ps)[i] = ps[i].fee /\ ps[i].fee \in Nat
<1>1. PICK n \in Nat : n = Len(ps)
  OBVIOUS
<1>2. DOMAIN ps = 1..n
  BY <1>1
<1>3. ASSUME NEW i \in 1..n PROVE ps[i].fee \in Nat
  <2>1. ps[i] \in FeePoint
    BY <1>1
  <2> QED
    BY <2>1 DEF FeePoint
<1>4. FeeSeq(ps) = [i \in 1..n |-> ps[i].fee]
  BY <1>2 DEF FeeSeq
<1> QED
  BY <1>1, <1>3, <1>4

LEMMA SortedFeesAscend ==
    ASSUME NEW ps \in Seq(FeePoint)
    PROVE  /\ SortedFees(ps) \in Seq(Nat) /\ Len(SortedFees(ps)) = Len(ps)
           /\ \A k, l \in 1..Len(ps) : k <= l => SortedFees(ps)[k] <= SortedFees(ps)[l]
           /\ \A k \in 1..Len(ps) : \E i \in 1..Len(ps) : SortedFees(ps)[k] = ps[i].fee
           /\ \A i \in 1..Len(ps) : \E k \in 1..Len(ps) : SortedFees(ps)[k] = ps[i].fee
<1>1. PICK paid \in Seq(Nat) : paid = FeeSeq(ps)
  BY FeesAre
<1>2. Len(paid) = Len(ps) /\ \A i \in 1..Len(ps) : paid[i] = ps[i].fee
  BY <1>1, FeesAre
<1>3. paid \in Seq(Int)
  OBVIOUS
<1>4. PICK sorted : sorted = SortedFees(ps)
  OBVIOUS
<1>5. sorted = InOrderOf(paid, Ascending(paid))
  BY <1>1, <1>4 DEF SortedFees
<1>6. sorted \in Seq(Nat) /\ \E place : SortsBy(sorted, paid, paid, place)
  BY <1>3, <1>5, SortedBy
<1>7. PICK place : SortsBy(sorted, paid, paid, place)
  BY <1>6
<1>8. PICK n \in Nat : n = Len(paid)
  OBVIOUS
<1>9. /\ Len(sorted) = n /\ place \in [1..n -> 1..n]
      /\ \A k \in 1..n : sorted[k] = paid[place[k]]
      /\ \A k, l \in 1..n : k <= l => paid[place[k]] <= paid[place[l]]
      /\ \A j \in 1..n : \E k \in 1..n : place[k] = j
  BY <1>7, <1>8, Zenon DEF SortsBy
<1>10. ASSUME NEW k \in 1..n, NEW l \in 1..n, k <= l PROVE sorted[k] <= sorted[l]
  BY <1>9, <1>10
<1>11. ASSUME NEW k \in 1..n PROVE \E i \in 1..n : sorted[k] = paid[i]
  BY <1>9
<1>12. ASSUME NEW i \in 1..n PROVE \E k \in 1..n : sorted[k] = paid[i]
  <2>1. PICK k \in 1..n : place[k] = i
    BY <1>9
  <2>2. sorted[k] = paid[place[k]]
    BY <1>9
  <2> QED
    BY <2>1, <2>2
<1> QED
  BY <1>2, <1>4, <1>6, <1>8, <1>9, <1>10, <1>11, <1>12

LEMMA PercentilePlaces ==
    ASSUME NEW n \in Nat \ {0}
    PROVE  /\ 1 <= (n * 25) \div 100 + 1 /\ (n * 25) \div 100 + 1 <= n \div 2 + 1
           /\ n \div 2 + 1 <= (n * 75) \div 100 + 1 /\ (n * 75) \div 100 + 1 <= (n * 95) \div 100 + 1
           /\ (n * 95) \div 100 + 1 <= (n * 99) \div 100 + 1 /\ (n * 99) \div 100 + 1 <= n
           /\ (n * 25) \div 100 + 1 \in Int /\ n \div 2 + 1 \in Int /\ (n * 75) \div 100 + 1 \in Int
           /\ (n * 95) \div 100 + 1 \in Int /\ (n * 99) \div 100 + 1 \in Int
  OBVIOUS

LEMMA SummaryDoesAgree == ASSUME NEW ps \in Seq(FeePoint), ps # <<>> PROVE SummaryAgrees(ps)
<1>1. PICK n \in Nat : n = Len(ps)
  OBVIOUS
<1>2. n \in Nat \ {0}
  BY <1>1
<1>3. PICK paid \in Seq(Nat) : paid = SortedFees(ps) /\ Len(paid) = n
  BY <1>1, SortedFeesAscend
<1>4. ASSUME NEW k \in 1..n, NEW l \in 1..n, k <= l PROVE paid[k] <= paid[l]
  BY <1>1, <1>3, <1>4, SortedFeesAscend
<1>5. PICK a \in 1..n, b \in 1..n, c \in 1..n, d \in 1..n, e \in 1..n :
         /\ a = (n * 25) \div 100 + 1 /\ b = n \div 2 + 1 /\ c = (n * 75) \div 100 + 1
         /\ d = (n * 95) \div 100 + 1 /\ e = (n * 99) \div 100 + 1
         /\ a <= b /\ b <= c /\ c <= d /\ d <= e
  BY <1>2, PercentilePlaces
<1>6. PICK s : s = Summary(ps)
  OBVIOUS
<1>7. /\ s.min = paid[1] /\ s.max = paid[n] /\ s.median = paid[n \div 2 + 1]
      /\ s.p25 = paid[(n * 25) \div 100 + 1] /\ s.p75 = paid[(n * 75) \div 100 + 1]
      /\ s.p95 = paid[(n * 95) \div 100 + 1] /\ s.p99 = paid[(n * 99) \div 100 + 1]
  BY <1>1, <1>3, <1>6 DEF Summary
<1>8. s.median = paid[b] /\ s.p25 = paid[a] /\ s.p75 = paid[c] /\ s.p95 = paid[d] /\ s.p99 = paid[e]
  BY <1>5, <1>7
<1>9. 1 \in 1..n /\ n \in 1..n
  BY <1>2
<1>10. /\ paid[1] <= paid[a] /\ paid[a] <= paid[b] /\ paid[b] <= paid[c] /\ paid[c] <= paid[d]
       /\ paid[d] <= paid[e] /\ paid[e] <= paid[n]
  <2>1. 1 <= a /\ e <= n
    OBVIOUS
  <2>2. a <= b /\ b <= c /\ c <= d /\ d <= e
    BY <1>5, Zenon
  <2>3. paid[1] <= paid[a] /\ paid[e] <= paid[n]
    BY <1>4, <1>9, <2>1, Zenon
  <2>4. paid[a] <= paid[b] /\ paid[b] <= paid[c]
    BY <1>4, <2>2, Zenon
  <2>5. paid[c] <= paid[d] /\ paid[d] <= paid[e]
    BY <1>4, <2>2, Zenon
  <2> QED
    BY <2>3, <2>4, <2>5, Zenon
<1>11. Report(ps).min = paid[1] /\ Report(ps).max = paid[n]
  BY <1>1, <1>3 DEF Report
<1> QED
  BY <1>6, <1>7, <1>8, <1>10, <1>11, Zenon DEF SummaryAgrees

LEMMA TopDoesAgree == ASSUME NEW ps \in Seq(FeePoint), ps # <<>> PROVE TopAgrees(ps)
<1>1. PICK n \in Nat : n = Len(ps)
  OBVIOUS
<1>2. n \in Nat \ {0} /\ DOMAIN ps = 1..n
  BY <1>1
<1>3. ASSUME NEW i \in 1..n PROVE ps[i].fee \in Nat
  BY <1>1, FeesAre
<1>4. PICK v : v = [i \in DOMAIN ps |-> -ps[i].fee]
  OBVIOUS
<1>5. v \in Seq(Int) /\ Len(v) = n /\ \A i \in 1..n : v[i] = -ps[i].fee
  BY <1>2, <1>3, <1>4
<1>6. PICK ranked : ranked = InOrderOf(ps, Ascending(v))
  OBVIOUS
<1>7. Len(v) = Len(ps)
  BY <1>1, <1>5
<1>8. ranked \in Seq(FeePoint) /\ \E place : SortsBy(ranked, ps, v, place)
  BY <1>5, <1>6, <1>7, SortedBy
<1>9. PICK place : SortsBy(ranked, ps, v, place)
  BY <1>8
<1>10. /\ Len(ranked) = n /\ place \in [1..n -> 1..n]
       /\ \A k \in 1..n : ranked[k] = ps[place[k]]
       /\ \A k, l \in 1..n : k <= l => v[place[k]] <= v[place[l]]
       /\ \A j \in 1..n : \E k \in 1..n : place[k] = j
  BY <1>1, <1>9, Zenon DEF SortsBy
<1>11. ASSUME NEW k \in 1..n, NEW l \in 1..n, k <= l PROVE ps[place[l]].fee <= ps[place[k]].fee
  <2>1. PICK i \in 1..n, j \in 1..n : i = place[k] /\ j = place[l]
    BY <1>10
  <2>2. v[i] <= v[j]
    BY <1>10, <1>11, <2>1
  <2>3. v[i] = -ps[i].fee /\ v[j] = -ps[j].fee
    BY <1>5
  <2>4. PICK x \in Nat, y \in Nat : x = ps[i].fee /\ y = ps[j].fee
    BY <1>3
  <2>5. y <= x
    BY <2>2, <2>3, <2>4
  <2> QED
    BY <2>1, <2>4, <2>5
<1>12. PICK m \in Nat : m = Min({2, n}) /\ m = (IF 2 <= n THEN 2 ELSE n)
  <2>1. 2 \in Int /\ n \in Int
    OBVIOUS
  <2>2. Min({2, n}) = IF 2 <= n THEN 2 ELSE n
    BY <2>1, LesserOf
  <2> QED
    BY <2>2
<1>13. PICK top : top = TopN(ps, 2)
  OBVIOUS
<1>14. top = [k \in 1..m |-> ranked[k]]
  BY <1>1, <1>4, <1>6, <1>12, <1>13 DEF TopN
<1>15. top[1] = ps[place[1]] /\ (n > 1 => top[2] = ps[place[2]])
  <2>1. ASSUME NEW k \in 1..m PROVE top[k] = ps[place[k]]
    <3>1. k \in 1..n
      BY <1>12
    <3>2. top[k] = ranked[k]
      BY <1>14
    <3> QED
      BY <1>10, <3>1, <3>2
  <2>2. 1 \in 1..m /\ (n > 1 => 2 \in 1..m)
    BY <1>2, <1>12
  <2> QED
    BY <2>1, <2>2
<1>16. PICK first \in 1..n : first = place[1]
  BY <1>2, <1>10
<1>17. \A i \in 1..n : ps[i].fee <= ps[first].fee
  <2> TAKE i \in 1..n
  <2>1. PICK l \in 1..n : place[l] = i
    BY <1>10
  <2>2. 1 \in 1..n /\ 1 <= l
    BY <1>2
  <2> QED
    BY <1>11, <1>16, <2>1, <2>2
<1>18. Summary(ps).max = ps[first].fee
  <2>1. PICK paid \in Seq(Nat) : paid = SortedFees(ps)
    BY SortedFeesAscend
  <2>2. /\ \A k, l \in 1..n : k <= l => paid[k] <= paid[l]
        /\ \A k \in 1..n : \E i \in 1..n : paid[k] = ps[i].fee
        /\ \A i \in 1..n : \E k \in 1..n : paid[k] = ps[i].fee
    BY <1>1, <2>1, SortedFeesAscend
  <2>3. Summary(ps).max = paid[n]
    BY <1>1, <2>1 DEF Summary
  <2>4. n \in 1..n
    BY <1>2
  <2>5. PICK i \in 1..n : paid[n] = ps[i].fee
    BY <2>2, <2>4
  <2>6. PICK k \in 1..n : paid[k] = ps[first].fee
    BY <2>2
  <2>7. k <= n
    OBVIOUS
  <2>8. paid[k] <= paid[n]
    BY <2>2, <2>4, <2>7
  <2>9. PICK x \in Nat, y \in Nat : x = ps[i].fee /\ y = ps[first].fee
    BY <1>3
  <2>10. x <= y /\ y <= x
    BY <1>17, <2>5, <2>6, <2>8, <2>9
  <2> QED
    BY <2>3, <2>5, <2>9, <2>10
<1>19. ASSUME n > 1 PROVE Len(AboveThreshold(ps, top[2].fee)) <= 1
  <2> DEFINE P == {i \in DOMAIN ps : ps[i].fee > top[2].fee}
  <2>1. AboveThreshold(ps, top[2].fee) = Selected(ps, P)
    BY DEF AboveThreshold
  <2>2. P \subseteq {first}
    <3> SUFFICES ASSUME NEW i \in 1..n, ps[i].fee > top[2].fee PROVE i = first
      BY <1>2
    <3>1. PICK l \in 1..n : place[l] = i
      BY <1>10
    <3>2. CASE l = 1
      BY <1>16, <3>1, <3>2
    <3>3. CASE l # 1
      <4>1. 2 \in 1..n /\ 2 <= l
        BY <1>19, <3>3
      <4>2. ps[place[l]].fee <= ps[place[2]].fee
        BY <1>11, <4>1
      <4>3. PICK two \in 1..n : two = place[2]
        BY <1>10, <4>1
      <4>4. PICK x \in Nat, y \in Nat : x = ps[i].fee /\ y = ps[two].fee
        BY <1>3
      <4>5. top[2].fee = y
        BY <1>15, <1>19, <4>3, <4>4
      <4>6. x <= y /\ x > y
        BY <3>1, <4>2, <4>3, <4>4, <4>5
      <4> QED
        BY <4>6
    <3> QED
      BY <3>2, <3>3
  <2>3. IsFiniteSet({first}) /\ Cardinality({first}) = 1
    BY FS_Singleton
  <2> HIDE DEF P
  <2>4. Through(P, n) \in SUBSET {first}
    BY <2>2 DEF Through
  <2>5. Cardinality(Through(P, n)) <= 1
    BY <2>3, <2>4, FS_Subset
  <2>6. Len(Selected(ps, P)) = HowMany(P, n)
    BY <1>1, SelectedCounts
  <2> QED
    BY <2>1, <2>5, <2>6 DEF HowMany
<1>20. top[1].fee = Summary(ps).max
  BY <1>15, <1>16, <1>18
<1> QED
  BY <1>1, <1>13, <1>19, <1>20, Zenon DEF TopAgrees

-----------------------------------------------------------------------------
(* Bins hold each place once. *)

BinsUsed(bin, k) == {bin[i] : i \in 1..k}
Into(bin, k, b) == {i \in 1..k : bin[i] = b}
Held(bin, k) == [b \in BinsUsed(bin, k) |-> Cardinality(Into(bin, k, b))]

LEMMA IntoOneMore ==
    ASSUME NEW k \in Nat \ {0}, NEW bin, NEW b
    PROVE  /\ Cardinality(Into(bin, k, b)) \in Nat /\ Cardinality(Into(bin, k - 1, b)) \in Nat
           /\ Cardinality(Into(bin, k, b)) = Cardinality(Into(bin, k - 1, b)) + (IF bin[k] = b THEN 1 ELSE 0)
<1> DEFINE P == Into(bin, k, b)
<1>1. Through(P, k) = Into(bin, k, b)
  BY DEF Through, Into
<1>2. Through(P, k - 1) = Into(bin, k - 1, b)
  <2>1. \A i \in 1..(k - 1) : i \in 1..k
    OBVIOUS
  <2> QED
    BY <2>1 DEF Through, Into
<1>3. k \in P <=> bin[k] = b
  BY DEF Into
<1> HIDE DEF P
<1>4. /\ Cardinality(Through(P, k)) \in Nat /\ Cardinality(Through(P, k - 1)) \in Nat
      /\ Cardinality(Through(P, k)) = Cardinality(Through(P, k - 1)) + (IF k \in P THEN 1 ELSE 0)
  BY OneMorePlace
<1> QED
  BY <1>1, <1>2, <1>3, <1>4

LEMMA BinsUsedMore ==
    ASSUME NEW k \in Nat \ {0}, NEW bin
    PROVE  BinsUsed(bin, k) = BinsUsed(bin, k - 1) \cup {bin[k]}
<1>1. \A i : i \in 1..k <=> i \in 1..(k - 1) \/ i = k
  OBVIOUS
<1> QED
  BY <1>1, Zenon DEF BinsUsed

HoldsEach(bin, k) ==
    /\ IsFiniteSet(BinsUsed(bin, k))
    /\ \A b \in BinsUsed(bin, k) : Held(bin, k)[b] \in Nat
    /\ SumFunctionOnSet(Held(bin, k), BinsUsed(bin, k)) = k

SumsMore(w, v, S, x) ==
    SumFunctionOnSet(v, S \cup {x}) = SumFunctionOnSet(w, S) + v[x] - (IF x \in S THEN w[x] ELSE 0)

LEMMA SumDoesMore ==
    ASSUME NEW S, IsFiniteSet(S), NEW w, \A y \in S : w[y] \in Nat, NEW x, NEW v, v[x] \in Nat,
           \A y \in S \ {x} : v[y] = w[y]
    PROVE  SumsMore(w, v, S, x)
  BY MoreOnSet DEF SumsMore

LEMMA HoldsOneMore ==
    ASSUME NEW k \in Nat \ {0}, NEW bin, HoldsEach(bin, k - 1)
    PROVE  HoldsEach(bin, k)
<1> DEFINE S == BinsUsed(bin, k - 1)
           T == BinsUsed(bin, k)
           w == Held(bin, k - 1)
           v == Held(bin, k)
           x == bin[k]
           was(b) == Cardinality(Into(bin, k - 1, b))
           is(b) == Cardinality(Into(bin, k, b))
<1>1. IsFiniteSet(S) /\ (\A b \in S : w[b] \in Nat) /\ SumFunctionOnSet(w, S) = k - 1
  BY DEF HoldsEach
<1>2. T = S \cup {x}
  BY BinsUsedMore
<1>3. (\A b \in S : w[b] = was(b)) /\ \A b \in T : v[b] = is(b)
  BY DEF Held
<1>4. \A b : is(b) \in Nat /\ was(b) \in Nat /\ is(b) = was(b) + (IF x = b THEN 1 ELSE 0)
  BY IntoOneMore
<1>5. x \notin S => was(x) = 0
  <2> SUFFICES ASSUME x \notin S PROVE was(x) = 0
    OBVIOUS
  <2>1. Into(bin, k - 1, x) = {}
    BY DEF Into, BinsUsed
  <2> QED
    BY <2>1, FS_EmptySet
<1> HIDE DEF S, T, w, v, was, is, x
<1>6. IsFiniteSet(T)
  BY <1>1, <1>2, FS_AddElement
<1>7. \A b \in T : v[b] \in Nat
  BY <1>3, <1>4
<1>8. v[x] \in Nat /\ \A y \in S \ {x} : v[y] = w[y]
  <2>1. x \in T
    BY <1>2
  <2>2. ASSUME NEW y \in S \ {x} PROVE v[y] = w[y]
    <3>1. y \in T /\ x # y
      BY <1>2
    <3>2. is(y) = was(y) + 0 /\ was(y) \in Nat
      BY <1>4, <3>1
    <3> QED
      BY <1>3, <3>1, <3>2
  <2> QED
    BY <1>7, <2>1, <2>2
<1>9. SumFunctionOnSet(v, S \cup {x}) = SumFunctionOnSet(w, S) + v[x] - (IF x \in S THEN w[x] ELSE 0)
  <2>1. SumsMore(w, v, S, x)
    BY <1>1, <1>8, SumDoesMore
  <2> QED
    BY <2>1, Zenon DEF SumsMore
<1>10. v[x] - (IF x \in S THEN w[x] ELSE 0) = 1 /\ v[x] \in Nat
  <2>1. x \in T /\ v[x] = is(x) /\ is(x) = was(x) + 1 /\ was(x) \in Nat
    BY <1>2, <1>3, <1>4
  <2>2. (IF x \in S THEN w[x] ELSE 0) = was(x)
    BY <1>3, <1>5
  <2> QED
    BY <2>1, <2>2
<1>11. SumFunctionOnSet(v, T) = k
  <2>1. PICK held \in Nat : held = v[x]
    BY <1>10
  <2>2. (IF x \in S THEN w[x] ELSE 0) = held - 1
    <3>1. (IF x \in S THEN w[x] ELSE 0) \in Int
      BY <1>1
    <3> QED
      BY <1>10, <2>1, <3>1
  <2>3. SumFunctionOnSet(v, T) = (k - 1) + held - (held - 1)
    BY <1>1, <1>2, <1>9, <2>1, <2>2, Zenon
  <2> QED
    BY <2>3
<1> QED
  BY <1>6, <1>7, <1>11 DEF HoldsEach, S, T, w, v

LEMMA AllAreHeld ==
    ASSUME NEW n \in Nat, NEW bin
    PROVE  HoldsEach(bin, n)
<1> DEFINE good == {k \in 0..n : HoldsEach(bin, k)}
<1>1. 0 \in good
  <2>1. BinsUsed(bin, 0) = {}
    BY DEF BinsUsed
  <2>2. IsFiniteSet({})
    BY FS_EmptySet
  <2>3. SumFunctionOnSet(Held(bin, 0), {}) = 0
    BY NoneOnSet
  <2> QED
    BY <2>1, <2>2, <2>3 DEF HoldsEach
<1>2. ASSUME NEW k \in 1..n, k - 1 \in good PROVE k \in good
  <2>1. k \in Nat \ {0} /\ k \in 0..n
    OBVIOUS
  <2>2. HoldsEach(bin, k)
    BY <1>2, <2>1, HoldsOneMore
  <2> QED
    BY <2>1, <2>2
<1>3. 0..n \subseteq good
  <2> HIDE DEF good
  <2> QED
    BY <1>1, <1>2, ReachesAll
<1> QED
  BY <1>3

LEMMA BinsDoHoldAll == ASSUME NEW ps \in Seq(FeePoint), NEW bins PROVE BinsHoldAll(ps, bins)
<1> DEFINE n == Len(ps)
           width == Max({1, Max({ps[i].fee : i \in DOMAIN ps}) \div bins})
           bin == [i \in 1..n |-> (ps[i].fee \div width) * width]
<1>1. n \in Nat /\ DOMAIN ps = 1..n
  OBVIOUS
<1>2. Histogram(ps, bins) =
         [b \in {(ps[i].fee \div width) * width : i \in 1..n} |->
             Cardinality({i \in 1..n : (ps[i].fee \div width) * width = b})]
  BY <1>1 DEF Histogram
<1>3. \A i \in 1..n : bin[i] = (ps[i].fee \div width) * width
  OBVIOUS
<1> HIDE DEF bin, width, n
<1>4. {(ps[i].fee \div width) * width : i \in 1..n} = BinsUsed(bin, n)
  BY <1>3, Zenon DEF BinsUsed
<1>5. \A b : {i \in 1..n : (ps[i].fee \div width) * width = b} = Into(bin, n, b)
  BY <1>3, Zenon DEF Into
<1>6. Histogram(ps, bins) = Held(bin, n)
  BY <1>2, <1>4, <1>5, Zenon DEF Held
<1>7. DOMAIN Held(bin, n) = BinsUsed(bin, n)
  BY DEF Held
<1>8. SumFunctionOnSet(Held(bin, n), BinsUsed(bin, n)) = n
  BY <1>1, AllAreHeld DEF HoldsEach
<1> QED
  BY <1>6, <1>7, <1>8, Zenon DEF BinsHoldAll, n

-----------------------------------------------------------------------------
(* Two sequences compared. *)

TimesOf(ps) == {ps[i].at : i \in DOMAIN ps}

LEMMA SpanIs ==
    ASSUME NEW ps \in Seq(FeePoint), ps # <<>>
    PROVE  /\ \E i \in DOMAIN ps : Min(TimesOf(ps)) = ps[i].at /\ \A j \in DOMAIN ps : ps[i].at <= ps[j].at
           /\ \E i \in DOMAIN ps : Max(TimesOf(ps)) = ps[i].at /\ \A j \in DOMAIN ps : ps[j].at <= ps[i].at
           /\ \A i \in DOMAIN ps : ps[i].at \in Nat
<1>1. PICK n \in Nat : n = Len(ps)
  OBVIOUS
<1>2. n \in Nat \ {0} /\ DOMAIN ps = 1..n
  BY <1>1
<1>3. ASSUME NEW i \in 1..n PROVE ps[i].at \in Nat
  <2>1. ps[i] \in FeePoint
    BY <1>1
  <2> QED
    BY <2>1 DEF FeePoint
<1> DEFINE v == [i \in 1..n |-> ps[i].at]
<1>4. \A i \in 1..n : v[i] = ps[i].at /\ v[i] \in Int
  BY <1>3
<1> HIDE DEF v
<1>5. PICK least \in 1..n : \A j \in 1..n : v[least] <= v[j]
  BY <1>2, <1>4, LeastValue
<1>6. PICK most \in 1..n : \A j \in 1..n : v[j] <= v[most]
  BY <1>2, <1>4, GreatestValue
<1>7. Min(TimesOf(ps)) = v[least]
  <2>1. v[least] \in TimesOf(ps) /\ \A t \in TimesOf(ps) : v[least] <= t
    BY <1>2, <1>4, <1>5 DEF TimesOf
  <2>2. ASSUME NEW x \in TimesOf(ps), \A t \in TimesOf(ps) : x <= t PROVE x = v[least]
    <3>1. x \in Int
      BY <1>2, <1>3, <2>2 DEF TimesOf
    <3>2. x <= v[least] /\ v[least] <= x
      BY <2>1, <2>2
    <3> QED
      BY <1>4, <3>1, <3>2
  <2> QED
    BY <2>1, <2>2 DEF Min
<1>8. Max(TimesOf(ps)) = v[most]
  <2>1. v[most] \in TimesOf(ps) /\ \A t \in TimesOf(ps) : t <= v[most]
    BY <1>2, <1>4, <1>6 DEF TimesOf
  <2>2. ASSUME NEW x \in TimesOf(ps), \A t \in TimesOf(ps) : t <= x PROVE x = v[most]
    <3>1. x \in Int
      BY <1>2, <1>3, <2>2 DEF TimesOf
    <3>2. x <= v[most] /\ v[most] <= x
      BY <2>1, <2>2
    <3> QED
      BY <1>4, <3>1, <3>2
  <2> QED
    BY <2>1, <2>2 DEF Max
<1> QED
  BY <1>2, <1>3, <1>4, <1>5, <1>6, <1>7, <1>8

LEMMA ComparisonDoesAgree ==
    ASSUME NEW a \in Seq(FeePoint), NEW b \in Seq(FeePoint), a # <<>>, b # <<>>
    PROVE  ComparisonAgrees(a, b)
<1> DEFINE sumA == FeeSum(a) * Len(b)
           sumB == FeeSum(b) * Len(a)
<1>1. FeeSum(a) \in Nat /\ FeeSum(b) \in Nat
  BY FeeSumIs
<1>2. Len(a) \in Nat \ {0} /\ Len(b) \in Nat \ {0}
  OBVIOUS
<1>3. PICK x \in Nat : x = sumA
  <2>1. sumA \in Nat
    BY <1>1, <1>2
  <2> QED
    BY <2>1, Zenon
<1>4. PICK y \in Nat : y = sumB
  <2>1. sumB \in Nat
    BY <1>1, <1>2
  <2> QED
    BY <2>1, Zenon
<1>5. FeeSum(b) > 0 => y > 0
  <2>1. PICK f \in Nat, l \in Nat \ {0} : f = FeeSum(b) /\ l = Len(a)
    BY <1>1, <1>2
  <2>2. y = f * l
    BY <1>4, <2>1
  <2>3. f > 0 => f * l > 0
    OBVIOUS
  <2> QED
    BY <2>1, <2>2, <2>3
<1>6. PICK more \in Nat : more = Max({x, y}) /\ more = (IF x <= y THEN y ELSE x)
  <2>1. Max({x, y}) = IF x <= y THEN y ELSE x
    BY GreaterOf
  <2> QED
    BY <2>1
<1>7. PICK less \in Nat : less = Min({x, y}) /\ less = (IF x <= y THEN x ELSE y)
  <2>1. Min({x, y}) = IF x <= y THEN x ELSE y
    BY LesserOf
  <2> QED
    BY <2>1
<1>8. PICK same : same = Similarity(a, b)
  OBVIOUS
<1>9. same = (IF more = 0 THEN [part |-> 1, of |-> 1] ELSE [part |-> less, of |-> more])
  BY <1>3, <1>4, <1>6, <1>7, <1>8 DEF Similarity
<1>10. 0 <= same.part /\ same.part <= same.of
  BY <1>6, <1>7, <1>9
<1>11. PICK compared : compared = Comparison(a, b)
  OBVIOUS
<1>12. PICK apart \in Nat : apart = (IF x > y THEN x - y ELSE y - x)
  <2>1. (IF x > y THEN x - y ELSE y - x) \in Nat
    OBVIOUS
  <2> QED
    BY <2>1, Zenon
<1>13. compared.verdict = (CASE y = 0 \/ 20 * apart < y -> "similar" [] x > y -> "higher" [] OTHER -> "lower")
  BY <1>3, <1>4, <1>11, <1>12 DEF Comparison
<1>14. ASSUME FeeSum(b) > 0, compared.verdict = "similar" PROVE 100 * same.part > 95 * same.of
  <2>1. y > 0
    BY <1>5, <1>14
  <2>2. 20 * apart < y
    BY <1>13, <1>14, <2>1
  <2>3. more # 0
    BY <1>6, <2>1
  <2>4. same.part = less /\ same.of = more
    BY <1>9, <2>3
  <2>5. 100 * less > 95 * more
    BY <1>6, <1>7, <1>12, <2>1, <2>2
  <2> QED
    BY <2>4, <2>5
<1>15. compared.start = Max({Min(TimesOf(a)), Min(TimesOf(b))}) /\ compared.end = Min({Max(TimesOf(a)), Max(TimesOf(b))})
  BY <1>11 DEF Comparison, TimesOf
<1>16. PICK i \in DOMAIN a, j \in DOMAIN a :
          /\ Min(TimesOf(a)) = a[i].at /\ \A m \in DOMAIN a : a[i].at <= a[m].at
          /\ Max(TimesOf(a)) = a[j].at /\ \A m \in DOMAIN a : a[m].at <= a[j].at
  BY SpanIs
<1>17. PICK k \in DOMAIN b, l \in DOMAIN b :
          /\ Min(TimesOf(b)) = b[k].at /\ \A m \in DOMAIN b : b[k].at <= b[m].at
          /\ Max(TimesOf(b)) = b[l].at /\ \A m \in DOMAIN b : b[m].at <= b[l].at
  BY SpanIs
<1>18. (\A m \in DOMAIN a : a[m].at \in Nat) /\ \A m \in DOMAIN b : b[m].at \in Nat
  BY SpanIs
<1>19. PICK a0 \in Nat, a1 \in Nat, b0 \in Nat, b1 \in Nat : a0 = a[i].at /\ a1 = a[j].at /\ b0 = b[k].at /\ b1 = b[l].at
  BY <1>18
<1>20. a0 <= a1 /\ b0 <= b1
  BY <1>16, <1>17, <1>19
<1>21. compared.start = (IF a0 <= b0 THEN b0 ELSE a0) /\ compared.end = (IF a1 <= b1 THEN a1 ELSE b1)
  <2>1. Max({a0, b0}) = IF a0 <= b0 THEN b0 ELSE a0
    BY GreaterOf
  <2>2. Min({a1, b1}) = IF a1 <= b1 THEN a1 ELSE b1
    BY LesserOf
  <2> QED
    BY <1>15, <1>16, <1>17, <1>19, <2>1, <2>2
<1>22. compared.start <= compared.end <=> a0 <= b1 /\ b0 <= a1
  BY <1>20, <1>21
<1>23. a0 <= b1 /\ b0 <= a1 <=>
          \E p, q \in DOMAIN a, r, s \in DOMAIN b : a[p].at <= b[r].at /\ b[s].at <= a[q].at
  <2>1. ASSUME a0 <= b1, b0 <= a1
        PROVE  \E p, q \in DOMAIN a, r, s \in DOMAIN b : a[p].at <= b[r].at /\ b[s].at <= a[q].at
    <3>1. a[i].at <= b[l].at /\ b[k].at <= a[j].at
      BY <1>19, <2>1
    <3> QED
      BY <3>1, Zenon
  <2>2. ASSUME NEW p \in DOMAIN a, NEW q \in DOMAIN a, NEW r \in DOMAIN b, NEW s \in DOMAIN b,
               a[p].at <= b[r].at, b[s].at <= a[q].at
        PROVE  a0 <= b1 /\ b0 <= a1
    <3>1. PICK tp \in Nat, tq \in Nat, tr \in Nat, ts \in Nat : tp = a[p].at /\ tq = a[q].at /\ tr = b[r].at /\ ts = b[s].at
      BY <1>18
    <3>2. a0 <= tp /\ tq <= a1 /\ tr <= b1 /\ b0 <= ts /\ tp <= tr /\ ts <= tq
      BY <1>16, <1>17, <1>19, <2>2, <3>1
    <3> QED
      BY <3>2
  <2> QED
    BY <2>1, <2>2
<1> QED
  BY <1>8, <1>10, <1>11, <1>14, <1>22, <1>23, Zenon DEF ComparisonAgrees

(* The reports on the sequence at hand agree with each other and with what    *)
(* they report on, whatever was recorded and whichever tools were used: the   *)
(* issues with the counts, the runs with the spikes, the summary and the top  *)
(* fees with the sorted fees, the bins with the points, and the comparison    *)
(* with the sequence the last tool was given.                                 *)
THEOREM ReportsAgree == Spec => []Reports
<1>1. QualityInv => Reports
  <2> SUFFICES ASSUME QualityInv PROVE Reports
    OBVIOUS
  <2>1. points \in Seq(FeePoint) /\ before \in Seq(FeePoint)
    BY DEF QualityInv
  <2>2. IssuesAgree(points) /\ RunsAgree(points)
    BY <2>1, IssuesDoAgree, RunsDoAgree
  <2>3. ASSUME points # <<>> PROVE SummaryAgrees(points) /\ TopAgrees(points)
    BY <2>1, <2>3, SummaryDoesAgree, TopDoesAgree
  <2>4. \A bins \in Bins : BinsHoldAll(points, bins)
    BY <2>1, BinsDoHoldAll
  <2>5. ASSUME points # <<>>, before # <<>> PROVE ComparisonAgrees(points, before)
    BY <2>1, <2>5, ComparisonDoesAgree
  <2> QED
    BY <2>2, <2>3, <2>4, <2>5 DEF Reports
<1> QED
  BY <1>1, QualityHolds, PTL

(* What the devkit says of data is true: its tools clean and report what they *)
(* promise, and its meters hold what they were told.                          *)
THEOREM DataIsTold == Spec => []DataTold
<1>1. Cleans /\ Reports /\ Meters => DataTold
  BY DEF DataTold, QualitySound
<1> QED
  BY <1>1, CleansCorrect, ReportsAgree, MetersCorrect, PTL
=============================================================================
