----------------------------- MODULE SumsProofs -----------------------------
(***************************************************************************)
(* What the proofs need to know about totals: changing one row moves the   *)
(* total by the change of that row, and totals are monotone.  Induction is *)
(* by least counterexample: the least element of a set of naturals comes   *)
(* from the well-foundedness of strict inclusion on finite sets.           *)
(***************************************************************************)
EXTENDS Sums, FiniteSets, FiniteSetTheorems, WellFoundedInduction, TLAPS

\* Every inhabited set of naturals has a least element; used for every
\* induction about the row totals of the authority ledger.
LEMMA LeastNatural ==
  ASSUME NEW T \in SUBSET Nat, NEW n \in T
  PROVE  \E m \in T : \A k \in T : m <= k
<1> DEFINE U == {0..k : k \in T \cap (0..n)}
<1>1. FiniteSubsetsOf(0..n) = SUBSET (0..n)
  <2>1. 0 \in Int /\ n \in Int
    OBVIOUS
  <2>2. IsFiniteSet(0..n)
    BY <2>1, FS_Interval
  <2> QED BY <2>2, FS_FiniteSubsetsOfFinite
<1>2. IsWellFoundedOn(StrictSubsetOrdering(0..n), SUBSET (0..n))
  BY <1>1, FS_StrictSubsetOrderingWellFounded, Zenon
<1>3. U \subseteq SUBSET (0..n) /\ U # {}
  OBVIOUS
<1>4. PICK x \in U : \A y \in U : ~ (<<y, x>> \in StrictSubsetOrdering(0..n))
  <2> HIDE DEF U
  <2> QED BY <1>2, <1>3, WFMin, Zenon
<1>5. PICK m \in T \cap (0..n) : x = 0..m
  OBVIOUS
<1>6. ASSUME NEW k \in T, k < m PROVE FALSE
  <2>1. 0..k \in U /\ 0..k \in SUBSET (0..n) /\ 0..m \in SUBSET (0..n)
    BY <1>6
  <2>2. (0..k) \subseteq (0..m) /\ (0..k) # (0..m)
    BY <1>6
  <2>3. <<0..k, 0..m>> \in StrictSubsetOrdering(0..n)
    BY <2>1, <2>2 DEF StrictSubsetOrdering
  <2> QED BY <1>4, <1>5, <2>1, <2>3, Zenon
<1> QED BY <1>5, <1>6

\* Induction over row numbers, in terms of the set T of counterexamples.
LEMMA NoCounterexample ==
  ASSUME NEW n \in Nat, NEW T \in SUBSET (0..n), 0 \notin T,
         \A m \in 1..n : m - 1 \notin T => m \notin T
  PROVE  T = {}
<1>1. SUFFICES ASSUME NEW k0 \in T PROVE FALSE
  OBVIOUS
<1>2. T \in SUBSET Nat
  OBVIOUS
<1>3. PICK m \in T : \A k \in T : m <= k
  BY <1>2, LeastNatural, Zenon
<1>4. m \in 1..n /\ m - 1 \notin T
  BY <1>3
<1> QED BY <1>4

\* The equation that the recursive definition of PrefixSum asks for.
IsPrefixSum(s, c, n) ==
  s = [i \in 0..n |-> IF i = 0 THEN 0 ELSE s[i - 1] + c[i]]

\* Every row table has prefix sums, and they are integers.
LEMMA PrefixSumExists ==
  ASSUME NEW n \in Nat, NEW c \in [1..n -> Int]
  PROVE  \E s \in [0..n -> Int] : IsPrefixSum(s, c, n)
<1> DEFINE T == {m \in 0..n : ~ \E s \in [0..m -> Int] : IsPrefixSum(s, c, m)}
<1>1. 0 \notin T
  <2>1. [i \in 0..0 |-> 0] \in [0..0 -> Int]
    OBVIOUS
  <2>2. IsPrefixSum([i \in 0..0 |-> 0], c, 0)
    BY DEF IsPrefixSum
  <2> QED BY <2>1, <2>2
<1>2. ASSUME NEW m \in 1..n, m - 1 \notin T PROVE m \notin T
  <2>1. PICK s \in [0..(m-1) -> Int] : IsPrefixSum(s, c, m - 1)
    BY <1>2
  <2> DEFINE t == [i \in 0..m |-> IF i = m THEN s[m - 1] + c[m] ELSE s[i]]
  <2>2. t \in [0..m -> Int]
    OBVIOUS
  <2>3. ASSUME NEW i \in 0..m PROVE t[i] = IF i = 0 THEN 0 ELSE t[i - 1] + c[i]
    <3>1. CASE i = m
      BY <3>1
    <3>2. CASE i # m
      <4>1. i \in 0..(m - 1)
        BY <3>2
      <4>2. s[i] = IF i = 0 THEN 0 ELSE s[i - 1] + c[i]
        BY <4>1, <2>1 DEF IsPrefixSum
      <4> QED BY <4>1, <4>2, <3>2
    <3> QED BY <3>1, <3>2
  <2>4. IsPrefixSum(t, c, m)
    BY <2>2, <2>3, Zenon DEF IsPrefixSum
  <2> QED BY <2>2, <2>4
<1>3. T = {}
  <2> HIDE DEF T
  <2>1. T \in SUBSET (0..n)
    BY DEF T
  <2> QED BY <1>1, <1>2, <2>1, NoCounterexample, Zenon
<1> QED BY <1>3

\* PrefixSum is a function to the integers that satisfies its equation.
LEMMA PrefixSumStep ==
  ASSUME NEW n \in Nat, NEW c \in [1..n -> Int]
  PROVE  /\ PrefixSum(c, n)[0] = 0
         /\ \A i \in 1..n : PrefixSum(c, n)[i] = PrefixSum(c, n)[i - 1] + c[i]
         /\ \A i \in 0..n : PrefixSum(c, n)[i] \in Int
<1>1. PICK s \in [0..n -> Int] : IsPrefixSum(s, c, n)
  BY PrefixSumExists
<1> DEFINE p == PrefixSum(c, n)
           T == {i \in 0..n : p[i] \notin Int}
<1>2. IsPrefixSum(p, c, n)
  BY <1>1, Zenon DEF PrefixSum, IsPrefixSum
<1> HIDE DEF p
<1>3. p[0] = 0 /\ \A i \in 1..n : p[i] = p[i - 1] + c[i]
  BY <1>2 DEF IsPrefixSum
<1>4. 0 \notin T
  BY <1>3
<1>5. ASSUME NEW m \in 1..n, m - 1 \notin T PROVE m \notin T
  <2>1. p[m - 1] \in Int /\ c[m] \in Int /\ p[m] = p[m - 1] + c[m]
    BY <1>3, <1>5
  <2> QED BY <2>1, SMTT(30)
<1>6. T = {}
  <2>1. T \in SUBSET (0..n)
    OBVIOUS
  <2> HIDE DEF T
  <2> QED BY <1>4, <1>5, <2>1, NoCounterexample, Zenon
<1> QED BY <1>3, <1>6, Zenon DEF p

\* A total of integers is an integer.
LEMMA TotalType ==
  ASSUME NEW n \in Nat, NEW c \in [1..n -> Int]
  PROVE  Total(c, n) \in Int
BY PrefixSumStep DEF Total

\* Changing row j alone moves the total by the change of that row.
LEMMA TotalUpdate ==
  ASSUME NEW n \in Nat, NEW c \in [1..n -> Int], NEW d \in [1..n -> Int],
         NEW j \in 1..n, \A i \in 1..n : i # j => d[i] = c[i]
  PROVE  Total(d, n) = Total(c, n) + d[j] - c[j]
<1> DEFINE p == PrefixSum(c, n)
           q == PrefixSum(d, n)
           T == {i \in 0..n : q[i] # IF i < j THEN p[i] ELSE p[i] + d[j] - c[j]}
<1>1. /\ p[0] = 0 /\ \A i \in 1..n : p[i] = p[i - 1] + c[i]
      /\ \A i \in 0..n : p[i] \in Int
  BY PrefixSumStep, Zenon
<1>2. /\ q[0] = 0 /\ \A i \in 1..n : q[i] = q[i - 1] + d[i]
      /\ \A i \in 0..n : q[i] \in Int
  BY PrefixSumStep, Zenon
<1> HIDE DEF p, q
<1>3. 0 \notin T
  BY <1>1, <1>2
<1>4. ASSUME NEW m \in 1..n, m - 1 \notin T PROVE m \notin T
  <2>1. /\ p[m] = p[m - 1] + c[m] /\ q[m] = q[m - 1] + d[m]
        /\ p[m] \in Int /\ q[m] \in Int /\ p[m - 1] \in Int /\ q[m - 1] \in Int
        /\ c[m] \in Int /\ d[m] \in Int /\ c[j] \in Int /\ d[j] \in Int
    BY <1>1, <1>2
  <2>2. q[m - 1] = IF m - 1 < j THEN p[m - 1] ELSE p[m - 1] + d[j] - c[j]
    BY <1>4
  <2>3. CASE m = j
    BY <2>1, <2>2, <2>3
  <2>4. CASE m # j
    <3>1. c[m] = d[m]
      BY <2>4
    <3>2. CASE m < j
      BY <2>1, <2>2, <3>1, <3>2
    <3>3. CASE m > j
      <4>1. q[m - 1] = p[m - 1] + d[j] - c[j]
        BY <2>2, <3>3
      <4>2. q[m] = p[m] + d[j] - c[j]
        BY <2>1, <3>1, <4>1
      <4> QED BY <3>3, <4>2
    <3> QED BY <2>4, <3>2, <3>3
  <2> QED BY <2>3, <2>4
<1>5. T = {}
  <2>1. T \in SUBSET (0..n)
    OBVIOUS
  <2> HIDE DEF T
  <2> QED BY <1>3, <1>4, <2>1, NoCounterexample, Zenon
<1> QED BY <1>5 DEF Total, p, q

\* Totals of rows that are all at most their counterparts are too.
LEMMA TotalMonotone ==
  ASSUME NEW n \in Nat, NEW c \in [1..n -> Int], NEW d \in [1..n -> Int],
         \A i \in 1..n : c[i] <= d[i]
  PROVE  Total(c, n) <= Total(d, n)
<1> DEFINE p == PrefixSum(c, n)
           q == PrefixSum(d, n)
           T == {i \in 0..n : ~(p[i] <= q[i])}
<1>1. /\ p[0] = 0 /\ \A i \in 1..n : p[i] = p[i - 1] + c[i]
      /\ \A i \in 0..n : p[i] \in Int
  BY PrefixSumStep, Zenon
<1>2. /\ q[0] = 0 /\ \A i \in 1..n : q[i] = q[i - 1] + d[i]
      /\ \A i \in 0..n : q[i] \in Int
  BY PrefixSumStep, Zenon
<1> HIDE DEF p, q
<1>3. 0 \notin T
  BY <1>1, <1>2
<1>4. ASSUME NEW m \in 1..n, m - 1 \notin T PROVE m \notin T
  <2>1. /\ p[m] = p[m - 1] + c[m] /\ q[m] = q[m - 1] + d[m]
        /\ p[m - 1] \in Int /\ q[m - 1] \in Int
        /\ c[m] \in Int /\ d[m] \in Int /\ c[m] <= d[m]
    BY <1>1, <1>2
  <2>2. p[m - 1] <= q[m - 1]
    BY <1>4
  <2> QED BY <2>1, <2>2
<1>5. T = {}
  <2>1. T \in SUBSET (0..n)
    OBVIOUS
  <2> HIDE DEF T
  <2> QED BY <1>3, <1>4, <2>1, NoCounterexample, Zenon
<1> QED BY <1>5 DEF Total, p, q

\* The total of an empty column is zero.
LEMMA TotalZero ==
  ASSUME NEW n \in Nat, NEW c \in [1..n -> Int], \A i \in 1..n : c[i] = 0
  PROVE  Total(c, n) = 0
<1> DEFINE p == PrefixSum(c, n)
           T == {i \in 0..n : p[i] # 0}
<1>1. p[0] = 0 /\ \A i \in 1..n : p[i] = p[i - 1] + c[i]
  BY PrefixSumStep
<1> HIDE DEF p
<1>2. 0 \notin T
  BY <1>1
<1>3. ASSUME NEW m \in 1..n, m - 1 \notin T PROVE m \notin T
  <2>1. p[m] = p[m - 1] + c[m] /\ p[m - 1] = 0 /\ c[m] = 0
    BY <1>1, <1>3
  <2> QED BY <2>1
<1>4. T = {}
  <2>1. T \in SUBSET (0..n)
    OBVIOUS
  <2> HIDE DEF T
  <2> QED BY <1>2, <1>3, <2>1, NoCounterexample, Zenon
<1> QED BY <1>4 DEF Total, p
=============================================================================
