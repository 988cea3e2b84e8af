---------------------------- MODULE NumberLemmas ----------------------------
(***************************************************************************)
(* A set of numbers up to some n that has a member has a least and a       *)
(* greatest one.  It follows that what holds of 1, and of k + 1 whenever   *)
(* it holds of k, holds of all numbers, and that a function that is        *)
(* computed for one number after the other exists.                         *)
(***************************************************************************)
EXTENDS Integers, FiniteSetTheorems, WellFoundedInduction, TLAPS

LEMMA SmallestExists ==
  ASSUME NEW n \in Nat, NEW P \in SUBSET (1..n), P # {}
  PROVE  \E i \in P : \A j \in P : i <= j
<1> DEFINE D(i) == {j \in P : j < i}
           T == {D(i) : i \in P}
<1>1. IsFiniteSet(P)
  <2>1. IsFiniteSet(1..n)
    BY FS_Interval
  <2> QED BY <2>1, FS_Subset
<1>2. T \subseteq FiniteSubsetsOf(P) /\ T # {}
  <2>1. \A i \in P : D(i) \subseteq P /\ IsFiniteSet(D(i))
    BY <1>1, FS_Subset
  <2> QED BY <2>1 DEF FiniteSubsetsOf
<1>3. PICK least \in T : \A U \in T : <<U, least>> \notin StrictSubsetOrdering(P)
  <2>1. IsWellFoundedOn(StrictSubsetOrdering(P), FiniteSubsetsOf(P))
    BY <1>1, FS_StrictSubsetOrderingWellFounded
  <2> HIDE DEF T
  <2> QED BY <1>2, <2>1, WFMin
<1>4. PICK i \in P : least = D(i)
  BY <1>3
<1>5. ASSUME NEW j \in P, j < i PROVE FALSE
  <2>1. D(j) \subseteq D(i) /\ j \in D(i) /\ j \notin D(j) /\ D(i) \subseteq P /\ D(j) \in T
    <3>1. \A k \in P : k \in Int
      OBVIOUS
    <3>2. \A k \in D(j) : k \in P /\ k < i
      BY <1>5, <3>1
    <3>3. j \notin D(j)
      BY <3>1
    <3> QED BY <1>5, <3>2, <3>3
  <2>2. <<D(j), D(i)>> \in StrictSubsetOrdering(P)
    BY <2>1 DEF StrictSubsetOrdering
  <2> QED BY <1>3, <1>4, <2>1, <2>2
<1>6. \A j \in P : j \in Int /\ i \in Int
  OBVIOUS
<1> QED BY <1>5, <1>6

LEMMA LargestExists ==
  ASSUME NEW n \in Nat, NEW P \in SUBSET (1..n), P # {}
  PROVE  \E i \in P : \A j \in P : j <= i
<1> DEFINE Q == {n + 1 - i : i \in P}
<1>1. Q \in SUBSET (1..n) /\ Q # {}
  <2>1. \A i \in P : n + 1 - i \in 1..n
    OBVIOUS
  <2> QED BY <2>1
<1>2. PICK k \in Q : \A j \in Q : k <= j
  <2> HIDE DEF Q
  <2> QED BY <1>1, SmallestExists
<1>3. PICK i \in P : k = n + 1 - i
  BY <1>2
<1>4. ASSUME NEW j \in P PROVE j <= i
  <2>1. n + 1 - j \in Q
    OBVIOUS
  <2> QED BY <1>2, <1>3, <2>1
<1> QED BY <1>4

LEMMA CountingUp ==
  ASSUME NEW n \in Nat, NEW S, n # 0 => 1 \in S,
         \A k \in 1..(n - 1) : k \in S => k + 1 \in S
  PROVE  1..n \subseteq S
<1> DEFINE Missing == (1..n) \ S
<1> SUFFICES ASSUME Missing # {} PROVE FALSE
  OBVIOUS
<1>1. PICK k \in Missing : \A j \in Missing : k <= j
  <2>1. Missing \in SUBSET (1..n)
    OBVIOUS
  <2> HIDE DEF Missing
  <2> QED BY <2>1, SmallestExists
<1>2. k \in 1..n /\ k # 1
  BY <1>1
<1>3. k - 1 \in 1..(n - 1) /\ k - 1 + 1 = k
  BY <1>2
<1>4. k - 1 \in S
  BY <1>1, <1>3
<1>5. k \in S
  BY <1>3, <1>4
<1> QED BY <1>1, <1>5

LEMMA CountingFromZero ==
  ASSUME NEW n \in Nat, NEW S, 0 \in S,
         \A k \in 0..(n - 1) : k \in S => k + 1 \in S
  PROVE  0..n \subseteq S
<1> DEFINE P == {k \in 1..n : k \in S}
<1>1. n # 0 => 1 \in P
  BY 0 + 1 = 1
<1>2. \A k \in 1..(n - 1) : k \in P => k + 1 \in P
  OBVIOUS
<1>3. 1..n \subseteq P
  <2> HIDE DEF P
  <2> QED BY <1>1, <1>2, CountingUp
<1>4. \A k \in 0..n : k = 0 \/ k \in 1..n
  OBVIOUS
<1> QED BY <1>3, <1>4

(* There is a function on a..b with the given first value and each other   *)
(* one made of the one before.                                             *)
HasSolution(T, a, b, base, F) ==
  \E f \in [a..b -> T] :
    \A k \in a..b : f[k] = IF k = a THEN base ELSE F[k][f[k - 1]]

LEMMA RecursionExists ==
  ASSUME NEW T, NEW a \in Int, NEW b \in Int, a <= b,
         NEW base \in T, NEW F \in [a..b -> [T -> T]]
  PROVE  HasSolution(T, a, b, base, F)
<1> DEFINE Computes(f, m) ==
             /\ f \in [a..(a + m - 1) -> T]
             /\ \A k \in a..(a + m - 1) : f[k] = IF k = a THEN base ELSE F[k][f[k - 1]]
           n == b - a + 1
           S == {m \in 1..n : \E f : Computes(f, m)}
<1>1. n \in Nat \ {0} /\ a + n - 1 = b
  OBVIOUS
<1>2. 1 \in S
  <2>1. Computes([k \in a..(a + 1 - 1) |-> base], 1)
    OBVIOUS
  <2>2. 1 \in 1..n
    BY <1>1
  <2> HIDE DEF Computes, n
  <2> QED BY <2>1, <2>2
<1>3. ASSUME NEW m \in 1..(n - 1), m \in S PROVE m + 1 \in S
  <2>1. PICK f : Computes(f, m)
    BY <1>3
  <2> DEFINE new == a + m
             g == [k \in a..(a + (m + 1) - 1) |-> IF k = new THEN F[new][f[new - 1]] ELSE f[k]]
  <2>2. new \in a..b /\ new - 1 \in a..(a + m - 1) /\ a + (m + 1) - 1 = new /\ new # a
    OBVIOUS
  <2>3. F[new][f[new - 1]] \in T
    BY <2>1, <2>2
  <2>4. \A k \in a..new : k = new \/ k \in a..(a + m - 1)
    OBVIOUS
  <2>5. g \in [a..(a + (m + 1) - 1) -> T]
    BY <2>1, <2>2, <2>3, <2>4
  <2>6. \A k \in a..(a + (m + 1) - 1) : g[k] = IF k = a THEN base ELSE F[k][g[k - 1]]
    <3>1. \A k \in a..(a + m - 1) : g[k] = f[k]
      BY <2>2
    <3>2. \A k \in a..(a + m - 1) : k # a => k - 1 \in a..(a + m - 1)
      OBVIOUS
    <3>3. g[new] = F[new][g[new - 1]]
      BY <2>2, <3>1
    <3>4. \A k \in a..(a + m - 1) : g[k] = IF k = a THEN base ELSE F[k][g[k - 1]]
      BY <2>1, <3>1, <3>2
    <3> HIDE DEF g
    <3> QED BY <2>2, <2>4, <3>3, <3>4
  <2>7. Computes(g, m + 1)
    BY <2>5, <2>6
  <2> HIDE DEF Computes, g
  <2> QED BY <1>1, <2>7
<1>4. 1..n \subseteq S
  <2> HIDE DEF S, n
  <2> QED BY <1>1, <1>2, <1>3, CountingUp
<1>5. n \in S
  <2> HIDE DEF S, n
  <2> QED BY <1>1, <1>4
<1> QED BY <1>1, <1>5 DEF HasSolution

(* Division with remainder.                                                *)
LEMMA Divides ==
  ASSUME NEW n \in Nat, NEW s \in Nat \ {0}
  PROVE  /\ n \div s \in Nat /\ n % s \in 0..(s - 1)
         /\ n = s * (n \div s) + (n % s)
OBVIOUS

LEMMA DivisionIsUnique ==
  ASSUME NEW s \in Nat \ {0}, NEW q \in Nat, NEW r \in 0..(s - 1)
  PROVE  (s * q + r) \div s = q /\ (s * q + r) % s = r
<1> DEFINE n == s * q + r
           d == n \div s
           m == n % s
<1>1. n \in Nat /\ d \in Nat /\ m \in 0..(s - 1) /\ n = s * d + m
  OBVIOUS
<1> HIDE DEF n, d, m
<1>2. s * q + r = s * d + m
  BY <1>1 DEF n
<1>3. CASE d < q
  <2>1. q - d - 1 \in Nat
    BY <1>1, <1>3
  <2>2. s * q = s * d + s + s * (q - d - 1) /\ s * (q - d - 1) >= 0
    BY <1>1, <2>1
  <2> QED BY <1>1, <1>2, <2>2
<1>4. CASE q < d
  <2>1. d - q - 1 \in Nat
    BY <1>1, <1>4
  <2>2. s * d = s * q + s + s * (d - q - 1) /\ s * (d - q - 1) >= 0
    BY <1>1, <2>1
  <2> QED BY <1>1, <1>2, <2>2
<1>5. CASE d = q
  BY <1>1, <1>2, <1>5 DEF n, d, m
<1> QED BY <1>1, <1>3, <1>4, <1>5
=============================================================================
