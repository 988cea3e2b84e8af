------------------------ MODULE BatchAssignmentProofs ------------------------
(***************************************************************************)
(* What holds of the batches of a bug tracker for every data frame in the  *)
(* order of creation, every target and every length of a day: the reports  *)
(* marked are the first fixes of their batch, the batches used are closed  *)
(* ones, and the stream of a group of reporters adds up to what they       *)
(* reported.                                                               *)
(***************************************************************************)
EXTENDS BatchAssignment, NumberLemmas

-----------------------------------------------------------------------------
(* Sums over sequences.  FoldSeq takes the places of a sequence in an      *)
(* order of its own; a sum does not depend on it.                          *)

Pick(s) == CHOOSE x \in s : TRUE
IsSum(sum, n, g) ==
  sum = [s \in SUBSET (1..n) |-> IF s = {} THEN 0 ELSE g[Pick(s)] + sum[s \ {Pick(s)}]]

LEMMA PartOfInterval ==
  ASSUME NEW n \in Nat, NEW s \in SUBSET (1..n)
  PROVE  /\ IsFiniteSet(s) /\ Cardinality(s) \in 0..n
         /\ Cardinality(s) = 0 <=> s = {}
         /\ \A x \in s : Cardinality(s \ {x}) = Cardinality(s) - 1 /\ s \ {x} \in SUBSET (1..n)
         /\ s # {} => Pick(s) \in s
<1>1. IsFiniteSet(1..n) /\ Cardinality(1..n) = n
  <2>1. IsFiniteSet(1..n) /\ Cardinality(1..n) = IF 1 > n THEN 0 ELSE n - 1 + 1
    BY FS_Interval
  <2> QED BY <2>1
<1>2. IsFiniteSet(s) /\ Cardinality(s) <= n /\ Cardinality(s) \in Nat
  BY <1>1, FS_Subset, FS_CardinalityType
<1>3. Cardinality(s) = 0 <=> s = {}
  BY <1>2, FS_EmptySet
<1>4. \A x \in s : Cardinality(s \ {x}) = Cardinality(s) - 1
  BY <1>2, FS_RemoveElement
<1>5. s # {} => Pick(s) \in s
  BY DEF Pick
<1> QED BY <1>2, <1>3, <1>4, <1>5

LEMMA SumExists ==
  ASSUME NEW n \in Nat, NEW g \in [1..n -> Int]
  PROVE  \E sum : IsSum(sum, n, g)
<1> DEFINE T == [SUBSET (1..n) -> Int]
           base == [s \in SUBSET (1..n) |-> 0]
           F == [k \in 0..n |-> [h \in T |->
                   [s \in SUBSET (1..n) |-> IF s = {} THEN 0 ELSE g[Pick(s)] + h[s \ {Pick(s)}]]]]
<1>1. base \in T
  OBVIOUS
<1>2. F \in [0..n -> [T -> T]]
  <2>1. ASSUME NEW h \in T, NEW s \in SUBSET (1..n)
        PROVE  (IF s = {} THEN 0 ELSE g[Pick(s)] + h[s \ {Pick(s)}]) \in Int
    <3>1. CASE s # {}
      <4>1. Pick(s) \in 1..n /\ s \ {Pick(s)} \in SUBSET (1..n)
        BY <3>1, PartOfInterval
      <4>2. g[Pick(s)] \in Int
        BY <4>1
      <4>3. h[s \ {Pick(s)}] \in Int
        BY <4>1
      <4> QED BY <3>1, <4>2, <4>3
    <3> QED BY <3>1
  <2> QED BY <2>1
<1>3. HasSolution(T, 0, n, base, F)
  <2> HIDE DEF T, base, F
  <2> QED BY <1>1, <1>2, RecursionExists
<1>4. PICK f \in [0..n -> T] :
        \A k \in 0..n : f[k] = IF k = 0 THEN base ELSE F[k][f[k - 1]]
  BY <1>3 DEF HasSolution
<1> DEFINE sum == [s \in SUBSET (1..n) |-> f[Cardinality(s)][s]]
<1>5. ASSUME NEW s \in SUBSET (1..n)
      PROVE  sum[s] = IF s = {} THEN 0 ELSE g[Pick(s)] + sum[s \ {Pick(s)}]
  <2> DEFINE k == Cardinality(s)
  <2>1. k \in 0..n /\ (k = 0 <=> s = {})
    BY PartOfInterval
  <2>2. CASE s = {}
    <3>1. 0 \in 0..n
      OBVIOUS
    <3>2. f[0] = base
      <4> HIDE DEF base, F
      <4> QED BY <1>4, <3>1
    <3> QED BY <2>1, <2>2, <3>2
  <2>3. CASE s # {}
    <3>1. /\ Pick(s) \in s /\ Cardinality(s \ {Pick(s)}) = k - 1
          /\ s \ {Pick(s)} \in SUBSET (1..n)
      BY <2>3, PartOfInterval
    <3> HIDE DEF k
    <3>2. k # 0 /\ k - 1 \in 0..n
      <4>1. k \in 0..n /\ k # 0
        BY <2>1, <2>3
      <4> QED BY ONLY <4>1, n \in Nat
    <3>3. f[k] = F[k][f[k - 1]] /\ f[k - 1] \in T
      BY <1>4, <2>1, <3>2
    <3>4. f[k][s] = g[Pick(s)] + f[k - 1][s \ {Pick(s)}]
      BY <2>1, <2>3, <3>3
    <3>5. sum[s] = f[k][s] /\ sum[s \ {Pick(s)}] = f[k - 1][s \ {Pick(s)}]
      BY <3>1 DEF k
    <3> QED BY <2>3, <3>4, <3>5
  <2> QED BY <2>2, <2>3
<1>6. sum = [s \in SUBSET (1..n) |-> IF s = {} THEN 0 ELSE g[Pick(s)] + sum[s \ {Pick(s)}]]
  BY <1>5
<1> QED BY <1>6 DEF IsSum

LEMMA SumIsNumber ==
  ASSUME NEW n \in Nat, NEW g \in [1..n -> Int], NEW sum, IsSum(sum, n, g)
  PROVE  sum[{}] = 0 /\ \A s \in SUBSET (1..n) : sum[s] \in Int
<1> DEFINE S == {m \in 0..n : \A s \in SUBSET (1..n) : Cardinality(s) = m => sum[s] \in Int}
<1>1. /\ sum[{}] = 0
      /\ \A s \in SUBSET (1..n) : s # {} => sum[s] = g[Pick(s)] + sum[s \ {Pick(s)}]
  BY DEF IsSum
<1>2. 0 \in S
  <2>1. \A s \in SUBSET (1..n) : Cardinality(s) = 0 => s = {}
    BY PartOfInterval
  <2>2. 0 \in 0..n /\ sum[{}] \in Int
    BY <1>1
  <2> QED BY <2>1, <2>2
<1>3. ASSUME NEW m \in 0..(n - 1), m \in S PROVE m + 1 \in S
  <2>1. m \in Nat /\ m + 1 \in 0..n /\ m + 1 - 1 = m /\ m + 1 # 0
    OBVIOUS
  <2>2. ASSUME NEW s \in SUBSET (1..n), Cardinality(s) = m + 1
        PROVE  sum[s] \in Int
    <3>1. s # {} /\ Pick(s) \in s
      BY <2>1, <2>2, PartOfInterval
    <3>2. s \ {Pick(s)} \in SUBSET (1..n) /\ Cardinality(s \ {Pick(s)}) = Cardinality(s) - 1
      BY <3>1, PartOfInterval
    <3>3. sum[s \ {Pick(s)}] \in Int
      BY <1>3, <2>1, <2>2, <3>2
    <3>4. g[Pick(s)] \in Int
      BY <3>1
    <3>5. sum[s] = g[Pick(s)] + sum[s \ {Pick(s)}]
      BY <1>1, <3>1
    <3> QED BY ONLY <3>3, <3>4, <3>5
  <2> QED BY <2>1, <2>2
<1>4. 0..n \subseteq S
  <2> HIDE DEF S
  <2> QED BY <1>2, <1>3, CountingFromZero
<1>5. \A s \in SUBSET (1..n) : Cardinality(s) \in 0..n
  BY PartOfInterval
<1> QED BY <1>1, <1>4, <1>5

(* Any place may be taken first.                                           *)
TakesAnyFirst(sum, n, g) == \A s \in SUBSET (1..n) : \A x \in s : sum[s] = g[x] + sum[s \ {x}]

LEMMA AnyPlaceFirst ==
  ASSUME NEW n \in Nat, NEW g \in [1..n -> Int], NEW sum, IsSum(sum, n, g)
  PROVE  TakesAnyFirst(sum, n, g)
<1> DEFINE Good(s) == \A x \in s : sum[s] = g[x] + sum[s \ {x}]
           S == {m \in 0..n : \A s \in SUBSET (1..n) : Cardinality(s) = m => Good(s)}
<1>1. \A s \in SUBSET (1..n) : s # {} => sum[s] = g[Pick(s)] + sum[s \ {Pick(s)}]
  BY DEF IsSum
<1>2. \A s \in SUBSET (1..n) : sum[s] \in Int
  BY SumIsNumber
<1>3. 0 \in S
  <2>1. \A s \in SUBSET (1..n) : Cardinality(s) = 0 => s = {}
    BY PartOfInterval
  <2>2. Good({}) /\ 0 \in 0..n
    OBVIOUS
  <2> HIDE DEF Good
  <2> QED BY <2>1, <2>2
<1>4. ASSUME NEW m \in 0..(n - 1), m \in S PROVE m + 1 \in S
  <2>1. m \in Nat /\ m + 1 \in 0..n /\ m + 1 - 1 = m /\ m + 1 # 0
    OBVIOUS
  <2>2. ASSUME NEW s \in SUBSET (1..n), Cardinality(s) = m + 1
        PROVE  Good(s)
    <3> DEFINE p == Pick(s)
    <3>1. p \in s /\ s # {}
      BY <2>1, <2>2, PartOfInterval
    <3>2. sum[s] = g[p] + sum[s \ {p}]
      BY <1>1, <3>1
    <3> HIDE DEF p
    <3>3. ASSUME NEW x \in s PROVE Good(s \ {x})
      <4>1. Cardinality(s \ {x}) = Cardinality(s) - 1 /\ s \ {x} \in SUBSET (1..n)
        BY PartOfInterval
      <4>2. Cardinality(s \ {x}) = m
        BY <2>1, <2>2, <4>1
      <4> HIDE DEF Good
      <4> QED BY <1>4, <4>1, <4>2
    <3>4. ASSUME NEW x \in s, x # p PROVE sum[s] = g[x] + sum[s \ {x}]
      <4> DEFINE rest == (s \ {p}) \ {x}
      <4>1. x \in s \ {p} /\ p \in s \ {x} /\ rest = (s \ {x}) \ {p} /\ rest \in SUBSET (1..n)
        BY <3>1, <3>4
      <4>2. sum[s \ {p}] = g[x] + sum[rest]
        BY <3>1, <3>3, <4>1
      <4>3. sum[s \ {x}] = g[p] + sum[rest]
        BY <3>3, <4>1
      <4>4. sum[rest] \in Int
        BY <1>2, <4>1
      <4>5. g[x] \in Int /\ g[p] \in Int
        BY <3>1
      <4> QED BY ONLY <3>2, <4>2, <4>3, <4>4, <4>5
    <3> QED BY <3>2, <3>4
  <2> HIDE DEF Good
  <2> QED BY <2>1, <2>2
<1>5. 0..n \subseteq S
  <2> HIDE DEF S
  <2> QED BY <1>3, <1>4, CountingFromZero
<1>6. \A s \in SUBSET (1..n) : Cardinality(s) \in 0..n
  BY PartOfInterval
<1> QED BY <1>5, <1>6 DEF TakesAnyFirst

(* Two sums of the same numbers are the same.                              *)
LEMMA SumsAgree ==
  ASSUME NEW n \in Nat, NEW g \in [1..n -> Int], NEW sum, IsSum(sum, n, g),
         NEW m \in Nat, n <= m, NEW h \in [1..m -> Int], NEW more, IsSum(more, m, h),
         \A k \in 1..n : g[k] = h[k]
  PROVE  \A s \in SUBSET (1..n) : sum[s] = more[s]
<1> DEFINE S == {c \in 0..n : \A s \in SUBSET (1..n) : Cardinality(s) = c => sum[s] = more[s]}
<1>0. \A s \in SUBSET (1..n) : s \in SUBSET (1..m)
  OBVIOUS
<1>1. \A s \in SUBSET (1..n) : s # {} =>
        /\ sum[s] = g[Pick(s)] + sum[s \ {Pick(s)}]
        /\ more[s] = h[Pick(s)] + more[s \ {Pick(s)}]
  BY <1>0 DEF IsSum
<1>2. 0 \in S
  <2>1. \A s \in SUBSET (1..n) : Cardinality(s) = 0 => s = {}
    BY PartOfInterval
  <2>2. sum[{}] = 0 /\ more[{}] = 0 /\ 0 \in 0..n
    BY SumIsNumber
  <2> QED BY <2>1, <2>2
<1>3. ASSUME NEW c \in 0..(n - 1), c \in S PROVE c + 1 \in S
  <2>1. c \in Nat /\ c + 1 \in 0..n /\ c + 1 - 1 = c /\ c + 1 # 0
    OBVIOUS
  <2>2. ASSUME NEW s \in SUBSET (1..n), Cardinality(s) = c + 1
        PROVE  sum[s] = more[s]
    <3>1. s # {} /\ Pick(s) \in s
      BY <2>1, <2>2, PartOfInterval
    <3>2. s \ {Pick(s)} \in SUBSET (1..n) /\ Cardinality(s \ {Pick(s)}) = Cardinality(s) - 1
      BY <3>1, PartOfInterval
    <3>3. sum[s \ {Pick(s)}] = more[s \ {Pick(s)}]
      BY <1>3, <2>1, <2>2, <3>2
    <3>4. g[Pick(s)] = h[Pick(s)]
      BY <3>1
    <3> QED BY <1>1, <3>1, <3>3, <3>4
  <2> QED BY <2>1, <2>2
<1>4. 0..n \subseteq S
  <2> HIDE DEF S
  <2> QED BY <1>2, <1>3, CountingFromZero
<1>5. \A s \in SUBSET (1..n) : Cardinality(s) \in 0..n
  BY PartOfInterval
<1> QED BY <1>4, <1>5

(* What is summed up: the numbers themselves, or the counts of windows.    *)
Total(s) == FoldSeq(+, 0, s)
TotalCount(s) == FoldSeq(LAMBDA w, n : w.batch_count + n, 0, s)
Counts(s) == [k \in DOMAIN s |-> s[k].batch_count]

LEMMA TotalIsSum ==
  ASSUME NEW s \in Seq(Int)
  PROVE  \E sum : IsSum(sum, Len(s), s) /\ Total(s) = sum[1..Len(s)]
<1> DEFINE Body(sum) == [p \in SUBSET DOMAIN s |->
                           IF p = {} THEN 0 ELSE s[Pick(p)] + sum[p \ {Pick(p)}]]
           chosen == CHOOSE sum : sum = Body(sum)
<1>1. Total(s) = chosen[DOMAIN s]
  BY DEF Total, FoldSeq, FoldFunction, FoldFunctionOnSet, MapThenFoldSet, Pick
<1>2. Len(s) \in Nat /\ DOMAIN s = 1..Len(s) /\ s \in [1..Len(s) -> Int]
  OBVIOUS
<1>3. \E sum : IsSum(sum, Len(s), s)
  BY <1>2, SumExists
<1>4. \E sum : sum = Body(sum)
  BY <1>2, <1>3 DEF IsSum
<1>5. chosen = Body(chosen)
  <2> HIDE DEF Body
  <2> QED BY <1>4
<1>6. IsSum(chosen, Len(s), s)
  <2> HIDE DEF chosen
  <2> QED BY <1>2, <1>5 DEF IsSum
<1> HIDE DEF chosen
<1> QED BY <1>1, <1>2, <1>6

LEMMA TotalCountIsSum ==
  ASSUME NEW s, NEW n \in Nat, DOMAIN s = 1..n, \A k \in 1..n : s[k].batch_count \in Int
  PROVE  \E sum : IsSum(sum, n, Counts(s)) /\ TotalCount(s) = sum[1..n]
<1> DEFINE Body(sum) == [p \in SUBSET DOMAIN s |->
                           IF p = {} THEN 0 ELSE s[Pick(p)].batch_count + sum[p \ {Pick(p)}]]
           chosen == CHOOSE sum : sum = Body(sum)
<1>1. TotalCount(s) = chosen[DOMAIN s]
  BY DEF TotalCount, FoldSeq, FoldFunction, FoldFunctionOnSet, MapThenFoldSet, Pick
<1>2. Counts(s) \in [1..n -> Int] /\ \A k \in 1..n : Counts(s)[k] = s[k].batch_count
  BY DEF Counts
<1>3. \E sum : IsSum(sum, n, Counts(s))
  BY <1>2, SumExists
<1>4. \A p \in SUBSET (1..n) : p # {} => Counts(s)[Pick(p)] = s[Pick(p)].batch_count
  BY <1>2, PartOfInterval
<1>5. ASSUME NEW sum
      PROVE  Body(sum) = [p \in SUBSET (1..n) |->
                            IF p = {} THEN 0 ELSE Counts(s)[Pick(p)] + sum[p \ {Pick(p)}]]
  BY <1>4
<1>6. \E sum : sum = Body(sum)
  <2> HIDE DEF Body
  <2> QED BY <1>3, <1>5 DEF IsSum
<1>7. chosen = Body(chosen)
  <2> HIDE DEF Body
  <2> QED BY <1>6
<1>8. IsSum(chosen, n, Counts(s))
  <2> HIDE DEF chosen
  <2> QED BY <1>5, <1>7 DEF IsSum
<1> HIDE DEF chosen
<1> QED BY <1>1, <1>8

(* A sum over n + 1 places is the last number and the sum over the others. *)
LEMMA SumOfOneMore ==
  ASSUME NEW n \in Nat, NEW g \in [1..n -> Int], NEW sum, IsSum(sum, n, g),
         NEW h \in [1..(n + 1) -> Int], NEW more, IsSum(more, n + 1, h),
         \A k \in 1..n : g[k] = h[k]
  PROVE  /\ more[1..(n + 1)] = sum[1..n] + h[n + 1]
         /\ more[1..(n + 1)] \in Int /\ sum[1..n] \in Int
<1>1. /\ n + 1 \in Nat /\ n <= n + 1 /\ n + 1 \in 1..(n + 1)
      /\ (1..(n + 1)) \ {n + 1} = 1..n
  OBVIOUS
<1>2. more[1..(n + 1)] = h[n + 1] + more[1..n]
  <2> DEFINE m == n + 1
  <2>1. m \in Nat /\ h \in [1..m -> Int] /\ IsSum(more, m, h)
    BY <1>1
  <2>2. m \in 1..m /\ 1..m \in SUBSET (1..m) /\ (1..m) \ {m} = 1..n
    BY <1>1
  <2> HIDE DEF m
  <2>3. TakesAnyFirst(more, m, h)
    BY ONLY <2>1, AnyPlaceFirst
  <2>4. more[1..m] = h[m] + more[(1..m) \ {m}]
    BY <2>2, <2>3 DEF TakesAnyFirst
  <2> QED BY <2>2, <2>4 DEF m
<1>3. sum[1..n] = more[1..n]
  BY <1>1, SumsAgree
<1>4. sum[1..n] \in Int /\ h[n + 1] \in Int
  BY <1>1, SumIsNumber
<1>5. more[1..(n + 1)] \in Int
  BY <1>2, <1>3, <1>4
<1> QED BY <1>2, <1>3, <1>4, <1>5

LEMMA TotalOfOneMore ==
  ASSUME NEW s \in Seq(Int), NEW x \in Int
  PROVE  /\ Total(Append(s, x)) = Total(s) + x
         /\ Total(s) \in Int
<1> DEFINE t == Append(s, x)
           n == Len(s)
<1>1. /\ n \in Nat /\ s \in [1..n -> Int] /\ t \in Seq(Int) /\ Len(t) = n + 1
      /\ t \in [1..(n + 1) -> Int] /\ t[n + 1] = x /\ \A k \in 1..n : s[k] = t[k]
  <2>1. n \in Nat /\ s \in [1..n -> Int]
    OBVIOUS
  <2>2. t \in Seq(Int) /\ Len(t) = n + 1
    OBVIOUS
  <2>3. t[n + 1] = x /\ \A k \in 1..n : s[k] = t[k]
    OBVIOUS
  <2>4. t \in [1..(n + 1) -> Int]
    <3> HIDE DEF t, n
    <3> QED BY <2>1, <2>2
  <2> QED BY <2>1, <2>2, <2>3, <2>4
<1> HIDE DEF t
<1>2. PICK sum : IsSum(sum, n, s) /\ Total(s) = sum[1..n]
  BY TotalIsSum
<1>3. PICK more : IsSum(more, n + 1, t) /\ Total(t) = more[1..(n + 1)]
  BY <1>1, TotalIsSum
<1> HIDE DEF n
<1>4. more[1..(n + 1)] = sum[1..n] + t[n + 1] /\ sum[1..n] \in Int
  BY <1>1, <1>2, <1>3, SumOfOneMore
<1> QED BY <1>1, <1>2, <1>3, <1>4 DEF t

LEMMA TotalOfNone == Total(<< >>) = 0
<1>0. << >> \in Seq(Int) /\ Len(<< >>) = 0
  OBVIOUS
<1>1. PICK sum : IsSum(sum, 0, << >>) /\ Total(<< >>) = sum[1..0]
  BY <1>0, TotalIsSum
<1>2. << >> \in [1..0 -> Int] /\ 1..0 = {}
  OBVIOUS
<1> QED BY <1>1, <1>2, SumIsNumber

Window == [batch_head : Int, batch_count : Int]

LEMMA TotalCountOfNone == TotalCount(<< >>) = 0
<1>0. DOMAIN << >> = 1..0 /\ 1..0 = {}
  OBVIOUS
<1>1. PICK sum : IsSum(sum, 0, Counts(<< >>)) /\ TotalCount(<< >>) = sum[1..0]
  BY <1>0, TotalCountIsSum
<1>2. Counts(<< >>) \in [1..0 -> Int]
  BY <1>0 DEF Counts
<1> QED BY <1>0, <1>1, <1>2, SumIsNumber

(* The total count is that of the last window and that of the others.      *)
LEMMA TotalCountSplits ==
  ASSUME NEW n \in Nat, NEW s, DOMAIN s = 1..n, \A k \in 1..n : s[k].batch_count \in Int,
         NEW t, DOMAIN t = 1..(n + 1), \A k \in 1..(n + 1) : t[k].batch_count \in Int,
         \A k \in 1..n : s[k].batch_count = t[k].batch_count
  PROVE  TotalCount(t) = TotalCount(s) + t[n + 1].batch_count /\ TotalCount(s) \in Int
<1> DEFINE g == Counts(s)
           h == Counts(t)
<1>1. n + 1 \in Nat /\ n + 1 \in 1..(n + 1) /\ \A k \in 1..n : k \in 1..(n + 1)
  OBVIOUS
<1>2. g \in [1..n -> Int] /\ h \in [1..(n + 1) -> Int]
  BY DEF Counts
<1>3. h[n + 1] = t[n + 1].batch_count /\ \A k \in 1..n : g[k] = h[k]
  BY <1>1 DEF Counts
<1>4. PICK sum : IsSum(sum, n, g) /\ TotalCount(s) = sum[1..n]
  BY TotalCountIsSum
<1>5. PICK more : IsSum(more, n + 1, h) /\ TotalCount(t) = more[1..(n + 1)]
  BY <1>1, TotalCountIsSum
<1> HIDE DEF g, h
<1>6. more[1..(n + 1)] = sum[1..n] + h[n + 1] /\ sum[1..n] \in Int
  BY ONLY n \in Nat, <1>2, <1>3, <1>4, <1>5, SumOfOneMore
<1> QED BY <1>3, <1>4, <1>5, <1>6

LEMMA TotalCountOfOneMore ==
  ASSUME NEW s \in Seq(Window), NEW w \in Window
  PROVE  TotalCount(Append(s, w)) = TotalCount(s) + w.batch_count
<1> DEFINE t == Append(s, w)
           n == Len(s)
<1>1. n \in Nat /\ DOMAIN s = 1..n /\ \A k \in 1..n : s[k] \in Window
  OBVIOUS
<1>2. DOMAIN t = 1..(n + 1) /\ t[n + 1] = w /\ \A k \in 1..n : t[k] = s[k]
  OBVIOUS
<1> HIDE DEF t, n
<1>3. \A k \in 1..(n + 1) : t[k] \in Window
  BY <1>1, <1>2
<1>4. \A v \in Window : v.batch_count \in Int
  BY DEF Window
<1>5. TotalCount(t) = TotalCount(s) + t[n + 1].batch_count
  BY <1>1, <1>2, <1>3, <1>4, TotalCountSplits
<1> QED BY <1>2, <1>5 DEF t

LEMMA TotalCountGrows ==
  ASSUME NEW s \in Seq(Window), s # << >>
  PROVE  TotalCount([s EXCEPT ![Len(s)].batch_count = @ + 1]) = TotalCount(s) + 1
<1> DEFINE t == [s EXCEPT ![Len(s)].batch_count = @ + 1]
           m == Len(s)
           n == m - 1
           rest == [k \in 1..n |-> s[k]]
<1>1. m \in Nat /\ m # 0 /\ DOMAIN s = 1..m /\ \A k \in 1..m : s[k] \in Window
  OBVIOUS
<1>2. \A v \in Window : v.batch_count \in Int
  BY DEF Window
<1>3. DOMAIN t = 1..m /\ \A k \in 1..m : k # m => t[k] = s[k]
  BY <1>1
<1>4. t[m].batch_count = s[m].batch_count + 1
  BY <1>1 DEF Window
<1>5. n \in Nat /\ n + 1 = m /\ m \in 1..m /\ \A k \in 1..n : k \in 1..m /\ k # m
  <2>1. m \in Nat /\ m # 0
    BY <1>1
  <2> HIDE DEF m
  <2> QED BY ONLY <2>1 DEF n
<1>6. DOMAIN rest = 1..n /\ \A k \in 1..n : rest[k] = s[k]
  OBVIOUS
<1> HIDE DEF t, n, m, rest
<1>7. TotalCount(s) = TotalCount(rest) + s[n + 1].batch_count /\ TotalCount(rest) \in Int
  BY <1>1, <1>2, <1>5, <1>6, TotalCountSplits
<1>8. TotalCount(t) = TotalCount(rest) + t[n + 1].batch_count
  <2>1. \A k \in 1..(n + 1) : t[k].batch_count \in Int
    BY <1>1, <1>2, <1>3, <1>4, <1>5
  <2> QED BY <1>1, <1>2, <1>3, <1>5, <1>6, <2>1, TotalCountSplits
<1>9. s[m].batch_count \in Int
  BY <1>1, <1>2, <1>5
<1> QED BY <1>4, <1>5, <1>7, <1>8, <1>9 DEF t

-----------------------------------------------------------------------------
(* Of a set of rows, as many are among the first t as there are, up to t.  *)

LEMMA RowsAreFinite ==
  ASSUME NEW n \in Nat, NEW F \in SUBSET (1..n)
  PROVE  IsFiniteSet(F) /\ Cardinality(F) \in Nat
<1>1. IsFiniteSet(1..n)
  BY FS_Interval
<1> QED BY <1>1, FS_Subset, FS_CardinalityType

Below(F, i) == {j \in F : j < i}
FirstOf(F, t) == {i \in F : Cardinality(Below(F, i)) < t}

LEMMA FirstsAreCapped ==
  ASSUME NEW n \in Nat, NEW F \in SUBSET (1..n), NEW t \in Nat
  PROVE  Cardinality(FirstOf(F, t)) = IF Cardinality(F) <= t THEN Cardinality(F) ELSE t
<1> DEFINE P(k) == {j \in F : j <= k}
           Q(k) == {i \in F : i <= k /\ Cardinality(Below(F, i)) < t}
           Right(k) == Cardinality(Q(k)) = IF Cardinality(P(k)) <= t THEN Cardinality(P(k)) ELSE t
           S == {k \in 0..n : Right(k)}
<1>0. \A i \in F : i \in 1..n
  OBVIOUS
<1>1. 0 \in S
  <2>1. P(0) = {} /\ Q(0) = {} /\ 0 \in 0..n
    <3>1. \A i \in F : ~(i <= 0)
      BY <1>0
    <3>2. P(0) = {}
      BY <3>1
    <3>3. Q(0) = {}
      BY <3>1
    <3> QED BY <3>2, <3>3
  <2>2. Cardinality({}) = 0
    BY FS_EmptySet
  <2> QED BY <2>1, <2>2
<1>2. ASSUME NEW k \in 0..(n - 1), k \in S PROVE k + 1 \in S
  <2>1. k \in Nat /\ k + 1 \in 0..n
    OBVIOUS
  <2>2. /\ IsFiniteSet(P(k)) /\ Cardinality(P(k)) \in Nat
        /\ IsFiniteSet(Q(k)) /\ Cardinality(Q(k)) \in Nat
    <3>1. P(k) \in SUBSET (1..n) /\ Q(k) \in SUBSET (1..n)
      OBVIOUS
    <3> HIDE DEF P, Q
    <3> QED BY <3>1, RowsAreFinite
  <2>3. CASE k + 1 \notin F
    <3>1. \A i \in F : i <= k + 1 <=> i <= k
      BY <1>0, <2>1, <2>3
    <3>2. P(k + 1) = P(k) /\ Q(k + 1) = Q(k)
      BY <3>1
    <3> HIDE DEF P, Q
    <3> QED BY <1>2, <2>1, <3>2
  <2>4. CASE k + 1 \in F
    <3>1. \A i \in F : /\ i <= k + 1 <=> i <= k \/ i = k + 1
                       /\ i < k + 1 <=> i <= k
      BY <1>0, <2>1
    <3>2. Below(F, k + 1) = P(k)
      BY <3>1 DEF Below
    <3>3. P(k + 1) = P(k) \cup {k + 1} /\ k + 1 \notin P(k) /\ k + 1 \notin Q(k)
      <4>1. P(k + 1) = P(k) \cup {k + 1}
        BY <2>4, <3>1
      <4>2. ~(k + 1 <= k)
        BY <2>1
      <4> QED BY <4>1, <4>2
    <3>4. Q(k + 1) = IF Cardinality(P(k)) < t THEN Q(k) \cup {k + 1} ELSE Q(k)
      <4>1. \A i : i \in Q(k + 1) <=>
              i \in Q(k) \/ (i = k + 1 /\ Cardinality(Below(F, i)) < t)
        BY <2>4, <3>1
      <4> HIDE DEF P, Q
      <4> QED BY <3>2, <4>1
    <3> HIDE DEF P, Q
    <3>5. Cardinality(P(k + 1)) = Cardinality(P(k)) + 1
      BY <2>2, <3>3, FS_AddElement
    <3>6. Cardinality(Q(k + 1)) = IF Cardinality(P(k)) < t THEN Cardinality(Q(k)) + 1
                                  ELSE Cardinality(Q(k))
      BY <2>2, <3>3, <3>4, FS_AddElement
    <3>7. Right(k)
      BY <1>2
    <3>8. Right(k + 1)
      BY ONLY <2>2, <3>5, <3>6, <3>7, t \in Nat
    <3> QED BY <2>1, <3>8
  <2> QED BY <2>3, <2>4
<1>3. 0..n \subseteq S
  <2> HIDE DEF S
  <2> QED BY <1>1, <1>2, CountingFromZero
<1>4. P(n) = F /\ Q(n) = FirstOf(F, t)
  <2>1. \A i \in F : i <= n
    BY <1>0
  <2>2. P(n) = F
    BY <2>1
  <2>3. Q(n) = FirstOf(F, t)
    BY <2>1 DEF FirstOf
  <2> QED BY <2>2, <2>3
<1>5. Right(n)
  <2> HIDE DEF Right
  <2>1. n \in 0..n
    OBVIOUS
  <2> QED BY <1>3, <2>1
<1> HIDE DEF P, Q
<1> QED BY <1>4, <1>5

-----------------------------------------------------------------------------
(* The inductive invariant.                                                *)

FrameInv ==
  /\ Len(reports) \in Nat /\ Rows = 1..Len(reports)
  /\ \A i \in Rows : Created(i) \in Int /\ (Resolution(i) # None => Resolution(i) \in Int)
  /\ \A i, j \in Rows : i <= j => Created(i) <= Created(j)
  /\ target_fixes \in Nat \ {0} /\ group \in SUBSET Rows /\ row \in Nat \ {0}

(* A loop reaches row k when the k - 1 rows before it are done.            *)
LoopInv ==
  /\ loop \in {"grouping", "marking", "assessing", "windows", "gaps", "done"}
  /\ loop \in {"grouping", "marking", "assessing"} => group = {}
  /\ loop \in {"windows", "gaps"} => group # {}
  /\ loop \in {"grouping", "marking", "windows"} => row <= Len(reports) + 1
  /\ loop = "grouping" => Len(batches) = row - 1
  /\ loop # "grouping" /\ group = {} => Len(batches) = Len(reports)
  /\ group # {} => batches = << >>

(* Batches are runs of rows.                                               *)
BatchesInv ==
  /\ batches \in Seq(Nat) /\ Len(batches) <= Len(reports)
  /\ \A i, j \in DOMAIN batches : i <= j => batches[i] <= batches[j]
  /\ \A i \in DOMAIN batches : batches[i] < Len(batch_starts)

IsFirst(f, rows) == f \in rows /\ \A i \in rows : f <= i
IsLast(l, rows) == l \in rows /\ \A i \in rows : i <= l

(* A batch starts with its first row.                                      *)
StartsInv ==
  /\ batch_starts \in Seq(Int) /\ current_batch \in Nat
  /\ Len(batch_starts) = current_batch + (IF current_batch_start = None THEN 0 ELSE 1)
  /\ \A b \in 0..(Len(batch_starts) - 1) :
       \E f : IsFirst(f, RowsOf(b)) /\ batch_starts[b + 1] = Created(f)
  /\ current_batch_start # None =>
       /\ current_batch_start = batch_starts[current_batch + 1]
       /\ batches # << >> /\ batches[Len(batches)] = current_batch

(* A closed batch ends with the row that fulfils the target, which no row  *)
(* of the open one does.                                                   *)
FixesAt(batch, l) == Cardinality(CurrentFixes(batch_starts[batch + 1], Created(l)))
ClosingInv ==
  /\ \A b \in 0..(current_batch - 1) :
       \E l : IsLast(l, RowsOf(b)) /\ FixesAt(b, l) >= target_fixes
  /\ current_batch_start # None => FixesAt(current_batch, Len(batches)) < target_fixes

(* What the second loop has marked and counted.                            *)
FixesBefore(batch, i) == Below(FixedMeanwhile(batch), i)
IsFirstFix(i) ==
  /\ i \in FixedMeanwhile(batches[i])
  /\ Cardinality(FixesBefore(batches[i], i)) < target_fixes
Capped(n) == IF n <= target_fixes THEN n ELSE target_fixes
MarkingInv ==
  /\ resolved_in_batch \in Seq(BOOLEAN) /\ Len(resolved_in_batch) <= Len(batches)
  /\ \A i \in DOMAIN resolved_in_batch : resolved_in_batch[i] <=> IsFirstFix(i)
  /\ loop = "grouping" => resolved_in_batch = << >> /\ batch_resolved_count = 0
  /\ loop = "marking" =>
       /\ Len(resolved_in_batch) = row - 1
       /\ batch_resolved_count =
            IF row = 1 THEN 0 ELSE Capped(Cardinality(FixesBefore(batches[row - 1], row)))
  /\ loop \in {"assessing", "done"} => Len(resolved_in_batch) = Len(batches)

AssessingInv ==
  /\ loop \notin {"assessing", "done"} => valid_periods = {}
  /\ loop = "assessing" =>
       /\ row <= Cardinality(UniqueBatches) + 1
       /\ valid_periods = {b \in 0..(row - 2) : IsValidPeriod(b)}
  /\ loop = "done" =>
       valid_periods = {b \in 0..(Len(batch_starts) - 1) : IsValidPeriod(b)}

(* The stream of a set of rows: every window starts with one of them, it   *)
(* counts those up to the next one, and the last one is not over.          *)
WithinWindow(ws, k, rows) ==
  {i \in rows : /\ ws[k].batch_head <= Created(i)
                /\ k < Len(ws) => Created(i) < ws[k + 1].batch_head}
StreamOf(ws, rows) ==
  /\ ws \in Seq(Window)
  /\ ws = << >> => rows = {}
  /\ \A k \in DOMAIN ws :
       /\ \E j \in rows : ws[k].batch_head = Created(j)
       /\ ws[k].batch_count = Cardinality(WithinWindow(ws, k, rows))
  /\ \A i \in rows :
       Last(ws).batch_head <= Created(i) =>
         DaysBetween(Last(ws).batch_head, Created(i)) <= WINDOW_SIZE
  /\ TotalCount(ws) = Cardinality(rows)

(* The reports of the group the loop has come to.                          *)
Reached == IF loop = "windows" THEN {i \in group : i < row} ELSE group
WindowsInv == StreamOf(windows, Reached)

GapsInv ==
  /\ interarrival_times \in Seq(Int)
  /\ loop # "done" /\ loop # "gaps" => interarrival_times = << >>
  /\ loop = "gaps" =>
       /\ row <= Len(windows) + 1
       /\ Total(interarrival_times) =
            IF row = 1 THEN 0 ELSE windows[row - 1].batch_head - PeriodStart
  /\ loop = "done" /\ group # {} =>
       Total(interarrival_times) = Last(windows).batch_head - PeriodStart

IInv ==
  /\ FrameInv /\ LoopInv /\ BatchesInv /\ StartsInv /\ ClosingInv
  /\ MarkingInv /\ AssessingInv /\ WindowsInv /\ GapsInv

-----------------------------------------------------------------------------
(* It holds at first.                                                      *)

LEMMA FrameIsSorted ==
  ASSUME NEW n \in Nat, NEW d, d \in Nat, NEW R, R \subseteq Int \cup {None},
         NEW frame \in Frames(n, d, R)
  PROVE  /\ Len(frame) = n /\ DOMAIN frame = 1..n
         /\ \A i \in 1..n : /\ frame[i].created \in Int
                            /\ frame[i].resolution # None => frame[i].resolution \in Int
         /\ \A i, j \in 1..n : i <= j => frame[i].created <= frame[j].created
<1>1. /\ frame \in [1..n -> [created : 0..d, resolution : R]]
      /\ \A i \in 1..(n - 1) : frame[i].created <= frame[i + 1].created
  BY DEF Frames
<1>2. Len(frame) = n /\ DOMAIN frame = 1..n
  BY <1>1
<1>3. \A i \in 1..n : /\ frame[i].created \in Int
                      /\ frame[i].resolution # None => frame[i].resolution \in Int
  <2>1. \A i \in 1..n : frame[i] \in [created : 0..d, resolution : R]
    BY <1>1
  <2>2. \A r \in [created : 0..d, resolution : R] : r.created \in Int /\ r.resolution \in R
    OBVIOUS
  <2>3. \A x \in R : x # None => x \in Int
    OBVIOUS
  <2> QED BY <2>1, <2>2, <2>3
<1>4. ASSUME NEW i \in 1..n PROVE \A j \in 1..n : i <= j => frame[i].created <= frame[j].created
  <2> DEFINE S == {j \in 1..n : i <= j => frame[i].created <= frame[j].created}
  <2>1. n # 0 => 1 \in S
    <3>1. n # 0 => 1 \in 1..n
      OBVIOUS
    <3>2. i <= 1 => i = 1
      OBVIOUS
    <3>3. frame[i].created <= frame[i].created
      BY <1>3
    <3> QED BY <3>1, <3>2, <3>3
  <2>2. ASSUME NEW k \in 1..(n - 1), k \in S PROVE k + 1 \in S
    <3>1. k \in 1..n /\ k + 1 \in 1..n /\ (i <= k + 1 => i <= k \/ i = k + 1)
      OBVIOUS
    <3>2. frame[k].created <= frame[k + 1].created
      BY <1>1
    <3>3. /\ frame[i].created \in Int /\ frame[k].created \in Int
          /\ frame[k + 1].created \in Int
      BY <1>3, <3>1
    <3>4. i <= k => frame[i].created <= frame[k].created
      BY <2>2
    <3>5. i <= k + 1 => frame[i].created <= frame[k + 1].created
      BY <3>1, <3>2, <3>3, <3>4
    <3> QED BY <3>1, <3>5
  <2>3. 1..n \subseteq S
    <3> HIDE DEF S
    <3> QED BY <2>1, <2>2, CountingUp
  <2> QED BY <2>3
<1> QED BY <1>2, <1>3, <1>4

LEMMA InitHolds == Init => IInv
<1> SUFFICES ASSUME Init PROVE IInv
  OBVIOUS
<1> USE BatchAssumption
<1>1. FrameInv /\ ((loop = "grouping" /\ group = {}) \/ (loop = "windows" /\ group # {}))
  <2>1. CASE InitGrouping
    <3>1. PICK n \in 0..MaxReports : reports \in Frames(n, LastDate, 0..LastDate \cup {None})
      BY <2>1 DEF InitGrouping
    <3>2. n \in Nat /\ 0..LastDate \cup {None} \subseteq Int \cup {None} /\ LastDate \in Nat
      OBVIOUS
    <3>3. /\ Len(reports) = n /\ DOMAIN reports = 1..n
          /\ \A i \in 1..n : /\ reports[i].created \in Int
                             /\ reports[i].resolution # None => reports[i].resolution \in Int
          /\ \A i, j \in 1..n : i <= j => reports[i].created <= reports[j].created
      BY <3>1, <3>2, FrameIsSorted
    <3> QED BY <2>1, <3>2, <3>3 DEF InitGrouping, Init, Fresh, FrameInv, Rows, Created, Resolution
  <2>2. CASE InitStream
    <3>1. PICK n \in 1..MaxReports :
            reports \in Frames(n, LastStreamDate, {None}) /\ group \in (SUBSET (1..n)) \ {{}}
      BY <2>2 DEF InitStream
    <3>2. n \in Nat /\ {None} \subseteq Int \cup {None} /\ LastStreamDate \in Nat
      OBVIOUS
    <3>3. /\ Len(reports) = n /\ DOMAIN reports = 1..n
          /\ \A i \in 1..n : /\ reports[i].created \in Int
                             /\ reports[i].resolution # None => reports[i].resolution \in Int
          /\ \A i, j \in 1..n : i <= j => reports[i].created <= reports[j].created
      BY <3>1, <3>2, FrameIsSorted
    <3>4. row = 1 /\ target_fixes \in Nat \ {0} /\ group # {} /\ group \in SUBSET (1..n)
      <4>1. row = 1
        BY DEF Init, Fresh
      <4>2. target_fixes \in Targets
        BY <2>2 DEF InitStream
      <4>3. group # {} /\ group \in SUBSET (1..n)
        BY <3>1
      <4> QED BY <4>1, <4>2, <4>3
    <3>5. FrameInv
      BY <3>2, <3>3, <3>4 DEF FrameInv, Rows, Created, Resolution
    <3> QED BY <2>2, <3>4, <3>5 DEF InitStream
  <2> QED BY <2>1, <2>2 DEF Init
<1>2. Fresh
  BY DEF Init
<1>3. \A S : << >> \in Seq(S) /\ Len(<< >>) = 0 /\ DOMAIN << >> = {}
  OBVIOUS
<1>4. LoopInv
  <2>1. Len(reports) \in Nat /\ row = 1 /\ batches = << >>
    BY <1>1, <1>2 DEF Fresh, FrameInv
  <2> QED BY <1>1, <1>3, <2>1 DEF LoopInv
<1>5. BatchesInv /\ StartsInv /\ ClosingInv
  <2>1. /\ batches = << >> /\ batch_starts = << >> /\ current_batch = 0
        /\ current_batch_start = None /\ Len(reports) \in Nat
    BY <1>1, <1>2 DEF Fresh, FrameInv
  <2>2. BatchesInv
    BY <1>3, <2>1 DEF BatchesInv
  <2>3. StartsInv
    BY <1>3, <2>1 DEF StartsInv
  <2>4. ClosingInv
    BY <2>1 DEF ClosingInv
  <2> QED BY <2>2, <2>3, <2>4
<1>6. MarkingInv
  BY <1>1, <1>2, <1>3 DEF MarkingInv, Fresh
<1>7. AssessingInv
  BY <1>1, <1>2 DEF AssessingInv, Fresh
<1>8. WindowsInv
  <2>1. Reached = {}
    <3>1. \A i \in group : i \in 1..Len(reports) /\ ~(i < 1)
      BY <1>1 DEF FrameInv
    <3> QED BY <1>1, <1>2, <3>1 DEF Reached, Fresh
  <2>2. Cardinality({}) = 0
    BY FS_EmptySet
  <2>3. windows = << >>
    BY <1>2 DEF Fresh
  <2> QED BY <1>3, <2>1, <2>2, <2>3, TotalCountOfNone DEF WindowsInv, StreamOf
<1>9. GapsInv
  BY <1>1, <1>2, <1>3 DEF GapsInv, Fresh
<1> QED BY <1>1, <1>4, <1>5, <1>6, <1>7, <1>8, <1>9 DEF IInv

-----------------------------------------------------------------------------
(* Every step keeps it.                                                    *)

LEMMA FrameKept == FrameInv /\ [Next]_vars => FrameInv'
<1> SUFFICES ASSUME FrameInv, [Next]_vars PROVE FrameInv'
  OBVIOUS
<1>1. reports' = reports /\ target_fixes' = target_fixes /\ group' = group
  BY DEF Next, vars, AssignBatch, MarkResolved, AssessBatch, ExtendWindows, MeasureGap,
         NextLoop, Finished
<1>2. row' = row + 1 \/ row' = 1 \/ row' = row
  BY DEF Next, vars, AssignBatch, MarkResolved, AssessBatch, ExtendWindows, MeasureGap,
         NextLoop, Finished
<1> QED BY <1>1, <1>2 DEF FrameInv, Rows, Created, Resolution

LEMMA LoopKept == IInv /\ [Next]_vars => LoopInv'
<1> SUFFICES ASSUME IInv, [Next]_vars PROVE LoopInv'
  OBVIOUS
<1>1. LoopInv /\ Len(reports) \in Nat /\ row \in Nat /\ batches \in Seq(Nat)
  BY DEF IInv, FrameInv, BatchesInv
<1>2. CASE AssignBatch
  <2>1. /\ loop = "grouping" /\ loop' = loop /\ row <= Len(reports) /\ row' = row + 1
        /\ group' = group /\ reports' = reports /\ batches' = Append(batches, current_batch)
    BY <1>2 DEF AssignBatch
  <2>2. current_batch \in Nat
    BY DEF IInv, StartsInv
  <2>3. Len(batches') = Len(batches) + 1 /\ Len(batches) \in Nat
    BY <1>1, <2>1, <2>2
  <2> QED BY <1>1, <2>1, <2>3 DEF LoopInv
<1>3. CASE MarkResolved
  BY <1>1, <1>3 DEF MarkResolved, LoopInv
<1>4. CASE AssessBatch
  BY <1>1, <1>4 DEF AssessBatch, LoopInv
<1>5. CASE ExtendWindows
  BY <1>1, <1>5 DEF ExtendWindows, LoopInv
<1>6. CASE MeasureGap
  BY <1>1, <1>6 DEF MeasureGap, LoopInv
<1>7. CASE NextLoop
  <2>1. /\ row' = 1 /\ reports' = reports /\ group' = group /\ batches' = batches
        /\ loop \in {"grouping", "marking", "assessing", "windows", "gaps"}
        /\ loop \in {"grouping", "marking", "windows"} => row > Len(reports)
    BY <1>1, <1>7 DEF NextLoop, LoopEnds, LoopInv
  <2>2. /\ loop = "grouping" => loop' = "marking"
        /\ loop = "marking" => loop' = "assessing"
        /\ loop = "assessing" => loop' = "done"
        /\ loop = "windows" => loop' = "gaps"
        /\ loop = "gaps" => loop' = "done"
    BY <1>7 DEF NextLoop
  <2> QED BY <1>1, <2>1, <2>2 DEF LoopInv
<1>8. CASE UNCHANGED vars
  BY <1>1, <1>8 DEF vars, LoopInv
<1> QED BY <1>2, <1>3, <1>4, <1>5, <1>6, <1>7, <1>8 DEF Next, Finished

LEMMA AssignKeepsBatches ==
  ASSUME IInv, AssignBatch
  PROVE  BatchesInv' /\ StartsInv' /\ ClosingInv'
<1>0. current_batch \in Nat
  BY DEF IInv, StartsInv
<1> PICK cb \in Nat : cb = current_batch
  BY <1>0
<1> DEFINE m == Len(batches)
           new == current_batch_start = None
           start == IF new THEN Created(row) ELSE current_batch_start
           full == Cardinality(CurrentFixes(start, Created(row))) >= target_fixes
           nb == batches'
           ns == batch_starts'
<1>a. /\ loop = "grouping" /\ row <= Len(reports) /\ row' = row + 1
      /\ nb = Append(batches, cb)
      /\ ns = IF new THEN Append(batch_starts, start) ELSE batch_starts
      /\ current_batch' = IF full THEN cb + 1 ELSE cb
      /\ current_batch_start' = IF full THEN None ELSE start
      /\ reports' = reports /\ target_fixes' = target_fixes
  BY DEF AssignBatch, NextStart
<1>b. /\ FrameInv /\ BatchesInv /\ StartsInv /\ ClosingInv /\ m = row - 1
  BY <1>a DEF IInv, LoopInv
<1>c. /\ Len(reports) \in Nat /\ Rows = 1..Len(reports) /\ row \in Nat \ {0}
      /\ row \in Rows /\ Created(row) \in Int /\ target_fixes \in Nat
  BY <1>a, <1>b DEF FrameInv
<1>d. /\ batches \in Seq(Nat) /\ batch_starts \in Seq(Int) /\ cb \in Nat /\ m \in Nat
      /\ DOMAIN batches = 1..m /\ \A i \in 1..m : batches[i] \in Nat
  BY <1>b DEF BatchesInv, StartsInv
<1>e. \A b, l : FixesAt(b, l)' = Cardinality(CurrentFixes(ns[b + 1], Created(l)))
  BY <1>a DEF FixesAt, CurrentFixes, Rows, Created, Resolution
<1>f. ASSUME NEW s, NEW d PROVE Cardinality(CurrentFixes(s, d)) \in Nat
  <2>1. CurrentFixes(s, d) \in SUBSET (1..Len(reports))
    BY <1>c DEF CurrentFixes
  <2> QED BY <1>c, <2>1, RowsAreFinite
<1> HIDE DEF m, nb, ns
<1>1. /\ nb \in Seq(Nat) /\ Len(nb) = row /\ DOMAIN nb = 1..row
      /\ nb[row] = cb /\ \A i \in 1..m : nb[i] = batches[i]
  BY <1>a, <1>b, <1>c, <1>d DEF m
<1>2. Len(batch_starts) = cb + (IF new THEN 0 ELSE 1) /\ DOMAIN batch_starts = 1..Len(batch_starts)
  BY <1>b DEF StartsInv
<1>3. start \in Int /\ start # None
  <2>1. CASE new
    BY <1>c, <2>1, BatchAssumption
  <2>2. CASE ~new
    <3>1. current_batch_start = batch_starts[cb + 1] /\ cb + 1 \in 1..Len(batch_starts)
      BY <1>b, <1>2, <1>d, <2>2 DEF StartsInv
    <3>2. \A k \in 1..Len(batch_starts) : batch_starts[k] \in Int
      BY <1>d
    <3> QED BY <2>2, <3>1, <3>2
  <2> QED BY <2>1, <2>2
<1>4. /\ ns \in Seq(Int) /\ Len(ns) = cb + 1 /\ ns[cb + 1] = start
      /\ \A b \in 0..(Len(batch_starts) - 1) : ns[b + 1] = batch_starts[b + 1]
  <2>1. CASE new
    <3> HIDE DEF start
    <3> QED BY <1>a, <1>2, <1>3, <1>d, <2>1
  <2>2. CASE ~new
    <3>1. current_batch_start = batch_starts[cb + 1]
      BY <1>b, <2>2 DEF StartsInv
    <3> QED BY <1>a, <1>2, <1>d, <2>2, <3>1
  <2> QED BY <2>1, <2>2
<1>5. \A i \in 1..m : batches[i] <= cb /\ (new => batches[i] < cb)
  <2>1. \A i \in 1..m : batches[i] < Len(batch_starts)
    BY <1>b, <1>d DEF BatchesInv
  <2> QED BY <1>2, <1>d, <2>1
<1>6. \A i \in 1..row : i \in 1..m \/ i = row
  BY <1>b, <1>c
<1>7. BatchesInv'
  <2>1. ASSUME NEW i \in 1..row, NEW j \in 1..row, i <= j PROVE nb[i] <= nb[j]
    <3>1. CASE i \in 1..m /\ j \in 1..m
      BY <1>1, <1>b, <1>d, <2>1, <3>1 DEF BatchesInv
    <3>2. CASE i \in 1..m /\ j = row
      BY <1>1, <1>5, <3>2
    <3>3. CASE i = row /\ j = row
      BY <1>1, <1>d, <3>3
    <3>4. CASE i = row /\ j \in 1..m
      BY <1>b, <1>c, <1>d, <2>1, <3>4
    <3> QED BY <1>6, <3>1, <3>2, <3>3, <3>4
  <2>2. \A i \in 1..row : nb[i] < cb + 1
    BY <1>1, <1>5, <1>6, <1>d
  <2>3. Len(nb) <= Len(reports')
    BY <1>1, <1>a
  <2>4. BatchesInv' <=>
          /\ nb \in Seq(Nat) /\ Len(nb) <= Len(reports')
          /\ \A i, j \in DOMAIN nb : i <= j => nb[i] <= nb[j]
          /\ \A i \in DOMAIN nb : nb[i] < Len(ns)
    BY DEF BatchesInv, nb, ns
  <2> QED BY <1>1, <1>4, <2>1, <2>2, <2>3, <2>4
<1> DEFINE Old(b) == {i \in 1..m : batches[i] = b}
           New(b) == {i \in 1..row : nb[i] = b}
<1>8. \A b : RowsOf(b) = Old(b)
  BY <1>d DEF RowsOf
<1>9. \A i \in 1..m : i \in 1..row
  BY <1>b, <1>c
<1>10. row \in 1..row
  BY <1>c
<1>11. ASSUME NEW b, b # cb PROVE New(b) = Old(b)
  BY <1>1, <1>6, <1>9, <1>11
<1>12. New(cb) = Old(cb) \cup {row} /\ (new => Old(cb) = {})
  <2>1. new => Old(cb) = {}
    BY <1>5, <1>d
  <2>2. \A i : i \in New(cb) <=> i \in Old(cb) \/ i = row
    BY <1>1, <1>6, <1>9, <1>10
  <2> QED BY <2>1, <2>2
<1>13. \A b : \A i \in Old(b) : i \in Int /\ i < row
  BY <1>b, <1>c
<1> HIDE DEF Old, New, start
<1>14. StartsInv'
  <2>1. ASSUME NEW b \in 0..cb PROVE \E f : IsFirst(f, New(b)) /\ ns[b + 1] = Created(f)
    <3>1. CASE b # cb
      <4>1. b \in 0..(Len(batch_starts) - 1)
        BY <1>2, <3>1
      <4>2. PICK f : IsFirst(f, Old(b)) /\ batch_starts[b + 1] = Created(f)
        BY <1>b, <1>8, <4>1 DEF StartsInv
      <4> QED BY <1>4, <1>11, <3>1, <4>1, <4>2
    <3>2. CASE b = cb /\ new
      <4>1. IsFirst(row, New(cb))
        <5>1. New(cb) = {row}
          BY <1>12, <3>2
        <5> QED BY <1>c, <5>1 DEF IsFirst
      <4>2. start = Created(row)
        BY <3>2 DEF start
      <4> QED BY <1>4, <3>2, <4>1, <4>2
    <3>3. CASE b = cb /\ ~new
      <4>1. cb \in 0..(Len(batch_starts) - 1)
        BY <1>2, <3>3
      <4>2. PICK f : IsFirst(f, Old(cb)) /\ batch_starts[cb + 1] = Created(f)
        BY <1>b, <1>8, <4>1 DEF StartsInv
      <4>3. IsFirst(f, New(cb))
        <5>1. f \in Old(cb) /\ \A i \in Old(cb) : f <= i
          BY <4>2 DEF IsFirst
        <5>2. f <= row
          BY <1>13, <1>c, <5>1
        <5> QED BY <1>12, <5>1, <5>2 DEF IsFirst
      <4> QED BY <1>4, <3>3, <4>1, <4>2, <4>3
    <3> QED BY <3>1, <3>2, <3>3
  <2>2. current_batch' \in Nat
    BY <1>a
  <2>3. Len(ns) = current_batch' + (IF current_batch_start' = None THEN 0 ELSE 1)
    BY <1>a, <1>3, <1>4
  <2>4. current_batch_start' # None =>
          /\ current_batch_start' = ns[current_batch' + 1]
          /\ nb # << >> /\ nb[Len(nb)] = current_batch'
    BY <1>a, <1>1, <1>4, <1>c
  <2>5. StartsInv' <=>
          /\ ns \in Seq(Int) /\ current_batch' \in Nat
          /\ Len(ns) = current_batch' + (IF current_batch_start' = None THEN 0 ELSE 1)
          /\ \A b \in 0..(Len(ns) - 1) :
               \E f : IsFirst(f, {i \in DOMAIN nb : nb[i] = b}) /\ ns[b + 1] = reports'[f].created
          /\ current_batch_start' # None =>
               /\ current_batch_start' = ns[current_batch' + 1]
               /\ nb # << >> /\ nb[Len(nb)] = current_batch'
    BY DEF StartsInv, RowsOf, Created, ns, nb
  <2>6. \A b \in 0..cb : \E f : IsFirst(f, {i \in DOMAIN nb : nb[i] = b}) /\ ns[b + 1] = reports'[f].created
    BY <1>1, <1>a, <2>1 DEF New, Created
  <2>7. Len(ns) - 1 = cb
    BY <1>4
  <2> QED BY <1>4, <2>2, <2>3, <2>4, <2>5, <2>6, <2>7
<1>15. ClosingInv'
  <2>1. ASSUME NEW b \in 0..(cb - 1)
        PROVE  \E l : /\ IsLast(l, New(b))
                      /\ Cardinality(CurrentFixes(ns[b + 1], Created(l))) >= target_fixes
    <3>1. PICK l : IsLast(l, Old(b)) /\ FixesAt(b, l) >= target_fixes
      BY <1>b, <1>8 DEF ClosingInv
    <3>2. b \in 0..(Len(batch_starts) - 1) /\ b # cb
      BY <1>2
    <3> QED BY <1>4, <1>11, <3>1, <3>2 DEF FixesAt
  <2>2. IsLast(row, New(cb)) /\ ns[cb + 1] = start
    BY <1>4, <1>12, <1>13, <1>c DEF IsLast
  <2>3. ASSUME NEW b \in 0..(current_batch' - 1)
        PROVE  \E l : /\ IsLast(l, New(b))
                      /\ Cardinality(CurrentFixes(ns[b + 1], Created(l))) >= target_fixes
    <3>1. b \in 0..(cb - 1) \/ (b = cb /\ full)
      BY <1>a
    <3> HIDE DEF full
    <3>2. CASE b = cb /\ full
      <4>1. Cardinality(CurrentFixes(ns[b + 1], Created(row))) >= target_fixes
        BY <2>2, <3>2 DEF full
      <4> QED BY <2>2, <3>2, <4>1
    <3> QED BY <2>1, <3>1, <3>2
  <2>4. current_batch_start' # None =>
          current_batch' = cb /\ Cardinality(CurrentFixes(ns[cb + 1], Created(row))) < target_fixes
    <3> DEFINE count == Cardinality(CurrentFixes(start, Created(row)))
    <3>1. count \in Nat
      BY <1>f
    <3>2. current_batch_start' # None => current_batch' = cb /\ ~(count >= target_fixes)
      BY <1>a
    <3>3. count = Cardinality(CurrentFixes(ns[cb + 1], Created(row)))
      BY <2>2
    <3> HIDE DEF count
    <3> QED BY <1>c, <3>1, <3>2, <3>3
  <2>5. ClosingInv' <=>
          /\ \A b \in 0..(current_batch' - 1) :
               \E l : IsLast(l, {i \in DOMAIN nb : nb[i] = b}) /\ FixesAt(b, l)' >= target_fixes'
          /\ current_batch_start' # None =>
               Cardinality(CurrentFixes(batch_starts[current_batch + 1], Created(Len(batches))))' < target_fixes'
    BY DEF ClosingInv, RowsOf, nb, FixesAt
  <2>6. Cardinality(CurrentFixes(batch_starts[current_batch + 1], Created(Len(batches))))'
          = Cardinality(CurrentFixes(ns[current_batch' + 1], Created(Len(nb))))
    BY <1>a DEF CurrentFixes, Rows, Created, Resolution, ns, nb
  <2>7. \A b \in 0..(current_batch' - 1) :
          \E l : IsLast(l, {i \in DOMAIN nb : nb[i] = b}) /\ FixesAt(b, l)' >= target_fixes'
    BY <1>1, <1>a, <1>e, <2>3 DEF New
  <2> QED BY <1>1, <1>a, <2>4, <2>5, <2>6, <2>7
<1> QED BY <1>7, <1>14, <1>15

(* A batch lasts from the creation of its first report to that of its last.*)
LEMMA BatchRows ==
  ASSUME IInv, NEW b
  PROVE  /\ Len(reports) \in Nat /\ RowsOf(b) \in SUBSET (1..Len(reports))
         /\ RowsOf(b) \in SUBSET (1..Len(batches)) /\ Len(batches) \in Nat
         /\ \A i \in RowsOf(b) : Created(i) \in Int
         /\ \A i, j \in RowsOf(b) : i <= j => Created(i) <= Created(j)
         /\ FixedMeanwhile(b) \subseteq RowsOf(b)
<1>1. /\ Len(reports) \in Nat /\ Rows = 1..Len(reports) /\ batches \in Seq(Nat)
      /\ Len(batches) <= Len(reports) /\ Len(batches) \in Nat /\ DOMAIN batches = 1..Len(batches)
  BY DEF IInv, FrameInv, BatchesInv
<1>2. RowsOf(b) \in SUBSET (1..Len(batches)) /\ RowsOf(b) \in SUBSET Rows
  <2>1. \A i \in 1..Len(batches) : i \in 1..Len(reports)
    BY <1>1
  <2> QED BY <1>1, <2>1 DEF RowsOf
<1>3. \A i, j \in Rows : i <= j => Created(i) <= Created(j)
  BY DEF IInv, FrameInv
<1>4. \A i \in Rows : Created(i) \in Int
  BY DEF IInv, FrameInv
<1>5. FixedMeanwhile(b) \subseteq RowsOf(b)
  BY DEF FixedMeanwhile
<1> QED BY <1>1, <1>2, <1>3, <1>4, <1>5

LEMMA MaxDateIsLast ==
  ASSUME IInv, NEW b, NEW l, IsLast(l, RowsOf(b))
  PROVE  MaxDate(RowsOf(b)) = Created(l)
<1>1. l \in RowsOf(b) /\ \A i \in RowsOf(b) : Created(i) <= Created(l)
  BY BatchRows DEF IsLast
<1>2. \A i \in RowsOf(b) : Created(i) \in Int
  BY BatchRows
<1> DEFINE dates == {Created(i) : i \in RowsOf(b)}
           Latest(d) == \A i \in RowsOf(b) : Created(i) <= d
<1>3. Created(l) \in dates /\ Latest(Created(l))
  BY <1>1
<1>4. \A d \in dates : Latest(d) => d = Created(l)
  <2>1. \A d \in dates : d \in Int /\ d <= Created(l)
    BY <1>1, <1>2
  <2>2. \A d : Latest(d) => Created(l) <= d
    BY <1>1
  <2>3. Created(l) \in Int
    BY <1>1, <1>2
  <2> HIDE DEF dates, Latest
  <2> QED BY <2>1, <2>2, <2>3
<1>5. MaxDate(RowsOf(b)) = CHOOSE d \in dates : Latest(d)
  BY DEF MaxDate
<1> HIDE DEF dates, Latest
<1> QED BY <1>3, <1>4, <1>5

LEMMA BatchHasEnds ==
  ASSUME IInv, NEW b \in 0..(Len(batch_starts) - 1)
  PROVE  /\ \E f : IsFirst(f, RowsOf(b)) /\ batch_starts[b + 1] = Created(f)
         /\ \E l : IsLast(l, RowsOf(b))
<1>1. PICK f : IsFirst(f, RowsOf(b)) /\ batch_starts[b + 1] = Created(f)
  BY DEF IInv, StartsInv
<1>2. RowsOf(b) # {}
  BY <1>1 DEF IsFirst
<1>3. PICK l \in RowsOf(b) : \A i \in RowsOf(b) : i <= l
  <2>1. Len(reports) \in Nat /\ RowsOf(b) \in SUBSET (1..Len(reports))
    BY BatchRows
  <2> QED BY <1>2, <2>1, LargestExists
<1> QED BY <1>1, <1>3 DEF IsLast

LEMMA FixedWithinBatch ==
  ASSUME IInv, NEW b \in 0..(Len(batch_starts) - 1), NEW i \in RowsOf(b)
  PROVE  i \in FixedMeanwhile(b) <=>
           /\ Resolution(i) # None /\ batch_starts[b + 1] <= Resolution(i)
           /\ Resolution(i) <= MaxDate(RowsOf(b))
<1>1. PICK f : IsFirst(f, RowsOf(b)) /\ batch_starts[b + 1] = Created(f)
  BY BatchHasEnds
<1>2. PICK l : IsLast(l, RowsOf(b))
  BY BatchHasEnds
<1>3. MaxDate(RowsOf(b)) = Created(l)
  BY <1>2, MaxDateIsLast
<1>4. /\ f \in RowsOf(b) /\ l \in RowsOf(b)
      /\ \A j \in RowsOf(b) : Created(f) <= Created(j) /\ Created(j) <= Created(l)
  BY <1>1, <1>2, BatchRows DEF IsFirst, IsLast
<1>5. \A j \in RowsOf(b) : Created(j) \in Int
  BY BatchRows
<1>6. Resolution(i) # None => Resolution(i) \in Int
  <2>1. RowsOf(b) \subseteq Rows
    BY BatchRows DEF IInv, FrameInv
  <2> QED BY <2>1 DEF IInv, FrameInv
<1>7. CASE Resolution(i) # None
  <2> DEFINE r == Resolution(i)
  <2>1. r \in Int
    BY <1>6, <1>7
  <2>2. i \in FixedMeanwhile(b) <=>
          (\E j \in RowsOf(b) : Created(j) <= r) /\ (\E j \in RowsOf(b) : r <= Created(j))
    BY <1>7 DEF FixedMeanwhile
  <2> HIDE DEF r
  <2>3. (\E j \in RowsOf(b) : Created(j) <= r) <=> Created(f) <= r
    BY <1>4, <1>5, <2>1
  <2>4. (\E j \in RowsOf(b) : r <= Created(j)) <=> r <= Created(l)
    BY <1>4, <1>5, <2>1
  <2> QED BY <1>1, <1>3, <1>7, <2>2, <2>3, <2>4 DEF r
<1>8. CASE Resolution(i) = None
  BY <1>8 DEF FixedMeanwhile
<1> QED BY <1>7, <1>8

LEMMA OneRowFurther ==
  ASSUME NEW n \in Nat, NEW F \in SUBSET (1..n), NEW k \in 1..n
  PROVE  /\ Cardinality(Below(F, k)) \in Nat
         /\ Cardinality(Below(F, k + 1)) = IF k \in F THEN Cardinality(Below(F, k)) + 1
                                           ELSE Cardinality(Below(F, k))
<1>1. Below(F, k) \in SUBSET (1..n) /\ k \notin Below(F, k)
  <2>1. ~(k < k)
    OBVIOUS
  <2> QED BY <2>1 DEF Below
<1>2. IsFiniteSet(Below(F, k)) /\ Cardinality(Below(F, k)) \in Nat
  BY <1>1, RowsAreFinite
<1>3. \A i \in F : i < k + 1 <=> i < k \/ i = k
  OBVIOUS
<1>4. Below(F, k + 1) = IF k \in F THEN Below(F, k) \cup {k} ELSE Below(F, k)
  BY <1>3 DEF Below
<1> QED BY <1>1, <1>2, <1>4, FS_AddElement

LEMMA CountSoFarIsRight ==
  ASSUME IInv, loop = "marking", row <= Len(reports)
  PROVE  /\ CountSoFar = Capped(Cardinality(FixesBefore(batches[row], row)))
         /\ Cardinality(FixesBefore(batches[row], row)) \in Nat
<1>1. /\ Len(batches) = Len(reports) /\ row \in 1..Len(reports) /\ Len(reports) \in Nat
      /\ DOMAIN batches = 1..Len(reports) /\ \A i \in 1..Len(reports) : batches[i] \in Nat
      /\ \A i, j \in 1..Len(reports) : i <= j => batches[i] <= batches[j]
      /\ target_fixes \in Nat \ {0}
      /\ batch_resolved_count =
            IF row = 1 THEN 0 ELSE Capped(Cardinality(FixesBefore(batches[row - 1], row)))
  <2>1. Len(batches) = Len(reports) /\ row \in Nat \ {0} /\ Len(reports) \in Nat /\ target_fixes \in Nat \ {0}
    BY DEF IInv, LoopInv, FrameInv
  <2>2. batches \in Seq(Nat) /\ \A i, j \in DOMAIN batches : i <= j => batches[i] <= batches[j]
    BY DEF IInv, BatchesInv
  <2>3. batch_resolved_count =
            IF row = 1 THEN 0 ELSE Capped(Cardinality(FixesBefore(batches[row - 1], row)))
    BY DEF IInv, MarkingInv
  <2> QED BY <2>1, <2>2, <2>3
<1> PICK b : b = batches[row]
  OBVIOUS
<1>2. /\ \A i \in FixesBefore(b, row) : i \in 1..Len(reports) /\ batches[i] = b /\ i < row
      /\ FixesBefore(b, row) \in SUBSET (1..Len(reports))
  <2>1. FixedMeanwhile(b) \subseteq RowsOf(b)
    BY BatchRows
  <2> QED BY <1>1, <2>1 DEF FixesBefore, Below, RowsOf
<1>3. Cardinality(FixesBefore(b, row)) \in Nat
  BY <1>1, <1>2, RowsAreFinite
<1>4. Capped(0) = 0 /\ Cardinality({}) = 0
  BY <1>1, FS_EmptySet DEF Capped
<1>5. CASE row = 1
  <2>1. FixesBefore(b, row) = {}
    BY <1>2, <1>5
  <2>2. CountSoFar = 0
    BY <1>1, <1>5 DEF CountSoFar
  <2> QED BY <1>3, <1>4, <2>1, <2>2
<1>6. CASE row # 1 /\ b = batches[row - 1]
  <2>1. CountSoFar = batch_resolved_count
    BY <1>6 DEF CountSoFar
  <2> QED BY <1>1, <1>3, <1>6, <2>1
<1>7. CASE row # 1 /\ b # batches[row - 1]
  <2>1. row - 1 \in 1..Len(reports) /\ row - 1 <= row
    BY <1>1, <1>7
  <2>2. ASSUME NEW i \in FixesBefore(b, row) PROVE FALSE
    <3>1. i \in 1..Len(reports) /\ i <= row - 1 /\ batches[i] = b
      BY <1>1, <1>2
    <3>2. b <= batches[row - 1] /\ batches[row - 1] <= b /\ b \in Nat /\ batches[row - 1] \in Nat
      BY <1>1, <2>1, <3>1
    <3> QED BY <1>7, <3>2
  <2>3. FixesBefore(b, row) = {}
    BY <2>2
  <2>4. CountSoFar = 0
    BY <1>7 DEF CountSoFar
  <2> QED BY <1>3, <1>4, <2>3, <2>4
<1> QED BY <1>5, <1>6, <1>7

LEMMA MarkKeepsMarking ==
  ASSUME IInv, MarkResolved
  PROVE  MarkingInv'
<1> PICK b : b = batches[row]
  OBVIOUS
<1> DEFINE resolved == /\ CountSoFar < target_fixes
                       /\ Resolution(row) # None
                       /\ batch_starts[b + 1] <= Resolution(row)
                       /\ Resolution(row) <= MaxDate(RowsOf(b))
           C == Cardinality(FixesBefore(b, row))
           F == FixedMeanwhile(b)
           rb == resolved_in_batch'
<1>1. /\ loop = "marking" /\ row <= Len(reports) /\ row' = row + 1 /\ loop' = loop
      /\ rb = Append(resolved_in_batch, resolved)
      /\ batch_resolved_count' = IF resolved THEN CountSoFar + 1 ELSE CountSoFar
      /\ reports' = reports /\ target_fixes' = target_fixes /\ batches' = batches
  BY DEF MarkResolved
<1>2. /\ Len(batches) = Len(reports) /\ row \in 1..Len(reports) /\ Len(reports) \in Nat
      /\ DOMAIN batches = 1..Len(reports) /\ b \in Nat /\ b < Len(batch_starts)
      /\ target_fixes \in Nat \ {0} /\ Len(batch_starts) \in Nat
  <2>1. Len(batches) = Len(reports) /\ row \in Nat \ {0} /\ Len(reports) \in Nat /\ target_fixes \in Nat \ {0}
    BY <1>1 DEF IInv, LoopInv, FrameInv
  <2>2. /\ batches \in Seq(Nat) /\ \A i \in DOMAIN batches : batches[i] < Len(batch_starts)
        /\ batch_starts \in Seq(Int)
    BY DEF IInv, BatchesInv, StartsInv
  <2> QED BY <1>1, <2>1, <2>2
<1>3. /\ resolved_in_batch \in Seq(BOOLEAN) /\ Len(resolved_in_batch) = row - 1
      /\ \A i \in DOMAIN resolved_in_batch : resolved_in_batch[i] <=> IsFirstFix(i)
  BY <1>1 DEF IInv, MarkingInv
<1>4. CountSoFar = Capped(C) /\ C \in Nat
  BY <1>1, CountSoFarIsRight
<1>5. row \in RowsOf(b) /\ b \in 0..(Len(batch_starts) - 1)
  BY <1>2 DEF RowsOf
<1>6. row \in F <=> /\ Resolution(row) # None /\ batch_starts[b + 1] <= Resolution(row)
                    /\ Resolution(row) <= MaxDate(RowsOf(b))
  BY <1>5, FixedWithinBatch
<1>7. resolved <=> row \in F /\ C < target_fixes
  <2>1. Capped(C) < target_fixes <=> C < target_fixes
    BY <1>2, <1>4 DEF Capped
  <2> QED BY <1>4, <1>6, <2>1
<1>8. resolved \in BOOLEAN
  OBVIOUS
<1> HIDE DEF resolved, rb
<1>9. /\ rb \in Seq(BOOLEAN) /\ Len(rb) = row /\ DOMAIN rb = 1..row /\ rb[row] = resolved
      /\ \A i \in 1..(row - 1) : rb[i] = resolved_in_batch[i]
      /\ DOMAIN resolved_in_batch = 1..(row - 1)
  BY <1>1, <1>2, <1>3, <1>8
<1>10. rb[row] <=> IsFirstFix(row)
  BY <1>7, <1>9 DEF IsFirstFix
<1>11. \A i \in 1..row : rb[i] <=> IsFirstFix(i)
  <2>1. \A i \in 1..row : i = row \/ i \in 1..(row - 1)
    BY <1>2
  <2> QED BY <1>3, <1>9, <1>10, <2>1
<1>12. F \in SUBSET (1..Len(reports))
  BY BatchRows
<1>13. Cardinality(Below(F, row + 1)) = IF row \in F THEN C + 1 ELSE C
  BY <1>2, <1>12, OneRowFurther DEF FixesBefore
<1>14. batch_resolved_count' = Capped(Cardinality(FixesBefore(b, row + 1)))
  <2>1. FixesBefore(b, row + 1) = Below(F, row + 1)
    BY DEF FixesBefore
  <2> HIDE DEF F, C
  <2>2. CASE row \in F /\ C < target_fixes
    <3>1. Capped(C) = C /\ Capped(C + 1) = C + 1
      BY <1>2, <1>4, <2>2 DEF Capped
    <3> QED BY <1>1, <1>4, <1>7, <1>13, <2>1, <2>2, <3>1
  <2>3. CASE row \notin F
    BY <1>1, <1>4, <1>7, <1>13, <2>1, <2>3
  <2>4. CASE row \in F /\ ~(C < target_fixes)
    <3>1. Capped(C) = Capped(C + 1)
      BY <1>2, <1>4, <2>4 DEF Capped
    <3> QED BY <1>1, <1>4, <1>7, <1>13, <2>1, <2>4, <3>1
  <2> QED BY <2>2, <2>3, <2>4
<1>15. \A i : IsFirstFix(i)' <=> IsFirstFix(i)
  BY <1>1 DEF IsFirstFix, FixesBefore, Below, FixedMeanwhile, RowsOf, Created, Resolution
<1>16. row' # 1 /\ row' - 1 = row /\ row' = row + 1
  BY <1>1, <1>2
<1>17. Capped(Cardinality(FixesBefore(batches[row - 1], row)))'
         = Capped(Cardinality(FixesBefore(b, row + 1)))
  <2> DEFINE newF == FixedMeanwhile(batches[row - 1])'
  <2>1. batches'[row' - 1] = b
    BY <1>1, <1>16
  <2>2. \A i : i \in newF <=> i \in F
    BY <1>1, <2>1 DEF FixedMeanwhile, RowsOf, Created, Resolution
  <2>3. newF = F
    BY <2>2 DEF FixedMeanwhile
  <2>4. FixesBefore(batches[row - 1], row)' = Below(newF, row')
    BY DEF FixesBefore, Below
  <2> HIDE DEF newF, F
  <2>5. FixesBefore(batches[row - 1], row)' = Below(F, row + 1)
    BY <1>16, <2>3, <2>4
  <2>6. FixesBefore(b, row + 1) = Below(F, row + 1)
    BY DEF FixesBefore, F
  <2> QED BY <1>1, <2>5, <2>6 DEF Capped
<1>18. MarkingInv' <=>
         /\ rb \in Seq(BOOLEAN) /\ Len(rb) <= Len(batches')
         /\ \A i \in DOMAIN rb : rb[i] <=> IsFirstFix(i)'
         /\ loop' = "grouping" => rb = << >> /\ batch_resolved_count' = 0
         /\ loop' = "marking" =>
              /\ Len(rb) = row' - 1
              /\ batch_resolved_count' =
                   IF row' = 1 THEN 0 ELSE Capped(Cardinality(FixesBefore(batches[row - 1], row)))'
         /\ loop' \in {"assessing", "done"} => Len(rb) = Len(batches')
  BY DEF MarkingInv, rb
<1> QED BY <1>1, <1>2, <1>9, <1>11, <1>14, <1>15, <1>16, <1>17, <1>18

(* The first loop is over: batches and their starts stay as they are.      *)
SameFrame ==
  /\ reports' = reports /\ target_fixes' = target_fixes /\ group' = group
SameBatches ==
  /\ batches' = batches /\ batch_starts' = batch_starts
  /\ current_batch' = current_batch /\ current_batch_start' = current_batch_start

LEMMA SameBatchesKept ==
  ASSUME BatchesInv, StartsInv, ClosingInv, SameFrame, SameBatches
  PROVE  BatchesInv' /\ StartsInv' /\ ClosingInv'
<1>1. BatchesInv'
  BY DEF BatchesInv, SameFrame, SameBatches
<1>2. StartsInv'
  BY DEF StartsInv, SameFrame, SameBatches, RowsOf, Created
<1>3. ClosingInv'
  <2>1. \A b, l : FixesAt(b, l)' = FixesAt(b, l)
    BY DEF SameFrame, SameBatches, FixesAt, CurrentFixes, Rows, Created, Resolution
  <2>2. FixesAt(current_batch, Len(batches))' = FixesAt(current_batch, Len(batches))
    BY DEF SameFrame, SameBatches, FixesAt, CurrentFixes, Rows, Created, Resolution
  <2>3. \A b : RowsOf(b)' = RowsOf(b)
    BY DEF SameBatches, RowsOf
  <2>4. ClosingInv' <=>
          /\ \A b \in 0..(current_batch' - 1) :
               \E l : IsLast(l, RowsOf(b)') /\ FixesAt(b, l)' >= target_fixes'
          /\ current_batch_start' # None => FixesAt(current_batch, Len(batches))' < target_fixes'
    BY DEF ClosingInv, IsLast
  <2> QED BY <2>1, <2>2, <2>3, <2>4 DEF ClosingInv, SameFrame, SameBatches
<1> QED BY <1>1, <1>2, <1>3

LEMMA SameMarks ==
  ASSUME SameFrame, batches' = batches, resolved_in_batch' = resolved_in_batch
  PROVE  /\ \A i : IsFirstFix(i)' <=> IsFirstFix(i)
         /\ \A b : IsValidPeriod(b)' <=> IsValidPeriod(b)
         /\ UniqueBatches' = UniqueBatches
<1>1. \A i : IsFirstFix(i)' <=> IsFirstFix(i)
  BY DEF SameFrame, IsFirstFix, FixesBefore, Below, FixedMeanwhile, RowsOf, Created, Resolution
<1>2. \A b : IsValidPeriod(b)' <=> IsValidPeriod(b)
  BY DEF SameFrame, IsValidPeriod, ResolvedIn, RowsOf
<1>3. UniqueBatches' = UniqueBatches
  BY DEF UniqueBatches
<1> QED BY <1>1, <1>2, <1>3

(* The batches are numbered from 0 without a gap.                          *)
LEMMA BatchesAreNumbered ==
  ASSUME IInv
  PROVE  /\ UniqueBatches = 0..(Len(batch_starts) - 1) /\ Len(batch_starts) \in Nat
         /\ Cardinality(UniqueBatches) = Len(batch_starts)
         /\ batches = << >> => Len(batch_starts) = 0
<1>1. Len(batch_starts) \in Nat /\ batches \in Seq(Nat)
  BY DEF IInv, BatchesInv, StartsInv
<1>2. \A i \in DOMAIN batches : batches[i] \in 0..(Len(batch_starts) - 1)
  <2>1. \A i \in DOMAIN batches : batches[i] < Len(batch_starts) /\ batches[i] \in Nat
    BY <1>1 DEF IInv, BatchesInv
  <2> QED BY <1>1, <2>1
<1>3. \A b \in 0..(Len(batch_starts) - 1) : \E i \in DOMAIN batches : batches[i] = b
  BY DEF IInv, StartsInv, IsFirst, RowsOf
<1>4. UniqueBatches = 0..(Len(batch_starts) - 1)
  BY <1>2, <1>3 DEF UniqueBatches, Range
<1>5. Cardinality(0..(Len(batch_starts) - 1)) = Len(batch_starts)
  <2> DEFINE n == Len(batch_starts)
  <2>1. 0 \in Int /\ n - 1 \in Int
    BY <1>1
  <2>2. Cardinality(0..(n - 1)) = IF 0 > n - 1 THEN 0 ELSE (n - 1) - 0 + 1
    BY <2>1, FS_Interval
  <2> HIDE DEF n
  <2> QED BY <1>1, <2>2 DEF n
<1>6. batches = << >> => Len(batch_starts) = 0
  <2>1. Len(batch_starts) # 0 => 0 \in 0..(Len(batch_starts) - 1)
    BY <1>1
  <2> QED BY <1>3, <2>1
<1> QED BY <1>1, <1>4, <1>5, <1>6

LEMMA AssessKeepsAssessing ==
  ASSUME IInv, AssessBatch
  PROVE  AssessingInv'
<1>1. /\ loop = "assessing" /\ loop' = loop /\ row <= Cardinality(UniqueBatches)
      /\ row' = row + 1 /\ row \in Nat \ {0}
      /\ valid_periods' = IF IsValidPeriod(row - 1) THEN valid_periods \cup {row - 1} ELSE valid_periods
      /\ valid_periods = {b \in 0..(row - 2) : IsValidPeriod(b)}
  BY DEF AssessBatch, IInv, FrameInv, AssessingInv
<1>2. /\ \A b : IsValidPeriod(b)' <=> IsValidPeriod(b)
      /\ UniqueBatches' = UniqueBatches
  BY SameMarks DEF AssessBatch, SameFrame
<1>3. Cardinality(UniqueBatches) \in Nat
  BY BatchesAreNumbered
<1>4. valid_periods' = {b \in 0..(row' - 2) : IsValidPeriod(b)}
  <2>1. \A b : b \in 0..(row' - 2) <=> b \in 0..(row - 2) \/ b = row - 1
    BY <1>1
  <2> QED BY <1>1, <2>1
<1> QED BY <1>1, <1>2, <1>3, <1>4 DEF AssessingInv

(* What the loops before the streams leave to the next one.                *)
LEMMA OthersKeepMarking ==
  ASSUME IInv, [Next]_vars, ~MarkResolved
  PROVE  MarkingInv'
<1>1. MarkingInv /\ LoopInv /\ SameFrame /\ resolved_in_batch' = resolved_in_batch
  BY DEF IInv, Next, vars, AssignBatch, AssessBatch, ExtendWindows, MeasureGap,
         NextLoop, Finished, SameFrame
<1>2. CASE AssignBatch
  <2>1. loop = "grouping" /\ loop' = loop /\ batch_resolved_count' = batch_resolved_count
    BY <1>2 DEF AssignBatch
  <2>2. resolved_in_batch = << >> /\ batch_resolved_count = 0
    BY <1>1, <2>1 DEF MarkingInv
  <2>3. batches' = Append(batches, current_batch) /\ batches \in Seq(Nat) /\ current_batch \in Nat
    BY <1>2 DEF AssignBatch, IInv, BatchesInv, StartsInv
  <2>4. Len(<< >>) = 0 /\ DOMAIN << >> = {} /\ << >> \in Seq(BOOLEAN) /\ Len(batches') \in Nat
    BY <2>3
  <2> QED BY <1>1, <2>1, <2>2, <2>4 DEF MarkingInv
<1>3. ASSUME batches' = batches, batch_resolved_count' = batch_resolved_count,
             loop' # "grouping",
             loop' = "marking" => Len(resolved_in_batch) = row' - 1 /\ row' = 1
                                  /\ batch_resolved_count = 0,
             loop' \in {"assessing", "done"} => Len(resolved_in_batch) = Len(batches)
      PROVE  MarkingInv'
  <2>1. \A i : IsFirstFix(i)' <=> IsFirstFix(i)
    BY <1>1, <1>3, SameMarks
  <2>2. MarkingInv' <=>
         /\ resolved_in_batch' \in Seq(BOOLEAN) /\ Len(resolved_in_batch') <= Len(batches')
         /\ \A i \in DOMAIN resolved_in_batch' : resolved_in_batch'[i] <=> IsFirstFix(i)'
         /\ loop' = "grouping" => resolved_in_batch' = << >> /\ batch_resolved_count' = 0
         /\ loop' = "marking" =>
              /\ Len(resolved_in_batch') = row' - 1
              /\ batch_resolved_count' =
                   IF row' = 1 THEN 0 ELSE Capped(Cardinality(FixesBefore(batches[row - 1], row)))'
         /\ loop' \in {"assessing", "done"} => Len(resolved_in_batch') = Len(batches')
    BY DEF MarkingInv
  <2> QED BY <1>1, <1>3, <2>1, <2>2 DEF MarkingInv
<1>4. CASE AssessBatch
  <2>1. /\ loop = "assessing" /\ loop' = loop /\ batches' = batches
        /\ batch_resolved_count' = batch_resolved_count
    BY <1>4 DEF AssessBatch
  <2> QED BY <1>1, <1>3, <2>1 DEF MarkingInv
<1>5. CASE ExtendWindows
  <2>1. /\ loop = "windows" /\ loop' = loop /\ batches' = batches
        /\ batch_resolved_count' = batch_resolved_count
    BY <1>5 DEF ExtendWindows
  <2> QED BY <1>3, <2>1
<1>6. CASE MeasureGap
  <2>1. /\ loop = "gaps" /\ loop' = loop /\ batches' = batches
        /\ batch_resolved_count' = batch_resolved_count
    BY <1>6 DEF MeasureGap
  <2> QED BY <1>3, <2>1
<1>7. CASE NextLoop
  <2>1. /\ batches' = batches /\ batch_resolved_count' = batch_resolved_count /\ row' = 1
        /\ loop \in {"grouping", "marking", "assessing", "windows", "gaps"}
        /\ loop \in {"grouping", "marking", "windows"} => row > Len(reports)
    BY <1>1, <1>7 DEF NextLoop, LoopEnds, LoopInv
  <2>2. /\ loop = "grouping" => loop' = "marking"
        /\ loop = "marking" => loop' = "assessing"
        /\ loop = "assessing" => loop' = "done"
        /\ loop = "windows" => loop' = "gaps"
        /\ loop = "gaps" => loop' = "done"
    BY <1>7 DEF NextLoop
  <2>3. Len(<< >>) = 0 /\ Len(reports) \in Nat /\ row \in Nat /\ Len(resolved_in_batch) \in Nat
    BY <1>1 DEF IInv, FrameInv, MarkingInv
  <2>4. CASE loop = "grouping"
    BY <1>1, <1>3, <2>1, <2>2, <2>3, <2>4 DEF MarkingInv
  <2>5. CASE loop = "marking"
    <3>1. Len(resolved_in_batch) = row - 1 /\ row <= Len(reports) + 1 /\ Len(batches) = Len(reports)
      BY <1>1, <2>5 DEF MarkingInv, LoopInv
    <3> QED BY <1>3, <2>1, <2>2, <2>3, <2>5, <3>1
  <2>6. CASE loop = "assessing"
    BY <1>1, <1>3, <2>1, <2>2, <2>6 DEF MarkingInv
  <2>7. CASE loop = "windows"
    BY <1>3, <2>1, <2>2, <2>7
  <2>8. CASE loop = "gaps"
    <3>1. batches = << >> /\ Len(resolved_in_batch) <= Len(batches)
      BY <1>1, <2>8 DEF MarkingInv, LoopInv
    <3> QED BY <1>3, <2>1, <2>2, <2>3, <2>8, <3>1
  <2> QED BY <2>1, <2>4, <2>5, <2>6, <2>7, <2>8
<1>8. CASE UNCHANGED vars
  <2>1. \A i : IsFirstFix(i)' <=> IsFirstFix(i)
    BY <1>1, <1>8, SameMarks DEF vars
  <2>2. Capped(Cardinality(FixesBefore(batches[row - 1], row)))'
          = Capped(Cardinality(FixesBefore(batches[row - 1], row)))
    BY <1>8 DEF vars, Capped, FixesBefore, Below, FixedMeanwhile, RowsOf, Created, Resolution
  <2> QED BY <1>1, <1>8, <2>1, <2>2 DEF vars, MarkingInv
<1> QED BY <1>2, <1>4, <1>5, <1>6, <1>7, <1>8 DEF Next, Finished

LEMMA OthersKeepAssessing ==
  ASSUME IInv, [Next]_vars, ~AssessBatch
  PROVE  AssessingInv'
<1>1. /\ AssessingInv /\ LoopInv /\ valid_periods' = valid_periods /\ SameFrame
      /\ row \in Nat \ {0}
  BY DEF IInv, FrameInv, Next, vars, AssignBatch, MarkResolved, ExtendWindows, MeasureGap,
         NextLoop, Finished, SameFrame
<1>2. ASSUME loop' = loop, loop \notin {"assessing", "done"} PROVE AssessingInv'
  BY <1>1, <1>2 DEF AssessingInv
<1>3. CASE AssignBatch \/ MarkResolved \/ ExtendWindows \/ MeasureGap
  BY <1>2, <1>3 DEF AssignBatch, MarkResolved, ExtendWindows, MeasureGap
<1>4. CASE NextLoop
  <2>1. /\ batches' = batches /\ batch_starts' = batch_starts /\ row' = 1
        /\ resolved_in_batch' = resolved_in_batch
        /\ loop \in {"grouping", "marking", "assessing", "windows", "gaps"}
        /\ loop = "assessing" => row > Cardinality(UniqueBatches)
    BY <1>1, <1>4 DEF NextLoop, LoopEnds, LoopInv
  <2>2. /\ loop = "grouping" => loop' = "marking"
        /\ loop = "marking" => loop' = "assessing"
        /\ loop = "assessing" => loop' = "done"
        /\ loop = "windows" => loop' = "gaps"
        /\ loop = "gaps" => loop' = "done"
    BY <1>4 DEF NextLoop
  <2>3. /\ \A b : IsValidPeriod(b)' <=> IsValidPeriod(b)
        /\ UniqueBatches' = UniqueBatches
    BY <1>1, <2>1, SameMarks
  <2>4. /\ Cardinality(UniqueBatches) = Len(batch_starts) /\ Len(batch_starts) \in Nat
        /\ batches = << >> => Len(batch_starts) = 0
    BY BatchesAreNumbered
  <2>5. CASE loop = "marking"
    <3>1. valid_periods' = {} /\ 0..(1 - 2) = {}
      BY <1>1, <2>5 DEF AssessingInv
    <3> QED BY <2>1, <2>2, <2>3, <2>4, <2>5, <3>1 DEF AssessingInv
  <2>6. CASE loop = "assessing"
    <3>1. /\ valid_periods = {b \in 0..(row - 2) : IsValidPeriod(b)}
          /\ row <= Cardinality(UniqueBatches) + 1
      BY <1>1, <2>6 DEF AssessingInv
    <3>2. row - 2 = Len(batch_starts) - 1
      BY <1>1, <2>1, <2>4, <2>6, <3>1
    <3> QED BY <1>1, <2>1, <2>2, <2>3, <2>6, <3>1, <3>2 DEF AssessingInv
  <2>7. CASE loop = "gaps"
    <3>1. valid_periods' = {} /\ Len(batch_starts) = 0 /\ 0..(0 - 1) = {}
      BY <1>1, <2>4, <2>7 DEF AssessingInv, LoopInv
    <3> QED BY <2>1, <2>2, <2>3, <2>7, <3>1 DEF AssessingInv
  <2>8. CASE loop \in {"grouping", "windows"}
    BY <1>1, <2>2, <2>8 DEF AssessingInv
  <2> QED BY <2>1, <2>5, <2>6, <2>7, <2>8
<1>5. CASE UNCHANGED vars
  <2>1. /\ \A b : IsValidPeriod(b)' <=> IsValidPeriod(b)
        /\ UniqueBatches' = UniqueBatches
    BY <1>1, <1>5, SameMarks DEF vars
  <2> QED BY <1>1, <1>5, <2>1 DEF vars, AssessingInv
<1> QED BY <1>3, <1>4, <1>5 DEF Next, Finished

-----------------------------------------------------------------------------
(* The stream of one row more.                                             *)

LEMMA StreamFacts ==
  ASSUME FrameInv, NEW ws, NEW S \in SUBSET Rows, StreamOf(ws, S),
         NEW r \in Rows, \A i \in S : i < r
  PROVE  /\ ws \in Seq(Window) /\ Len(ws) \in Nat /\ DOMAIN ws = 1..Len(ws)
         /\ \A k \in 1..Len(ws) : /\ ws[k] \in Window /\ ws[k].batch_head \in Int
                                  /\ ws[k].batch_count \in Int
         /\ \A i \in S \cup {r} : Created(i) \in Int /\ Created(i) <= Created(r)
         /\ \A k \in 1..Len(ws) : ws[k].batch_head <= Created(r)
         /\ IsFiniteSet(S) /\ Cardinality(S) \in Nat /\ r \notin S
<1>1. ws \in Seq(Window) /\ Len(ws) \in Nat /\ DOMAIN ws = 1..Len(ws)
  BY DEF StreamOf
<1>2. \A w \in Window : w.batch_head \in Int /\ w.batch_count \in Int
  BY DEF Window
<1>3. \A k \in 1..Len(ws) : ws[k] \in Window
  BY <1>1
<1>4. /\ Len(reports) \in Nat /\ Rows = 1..Len(reports)
      /\ \A i, j \in Rows : i <= j => Created(i) <= Created(j)
      /\ \A i \in Rows : Created(i) \in Int
  BY DEF FrameInv
<1>5. \A i \in S : i <= r /\ i # r
  BY <1>4
<1>6. \A i \in S \cup {r} : Created(i) \in Int /\ Created(i) <= Created(r)
  BY <1>4, <1>5
<1>7. \A k \in 1..Len(ws) : ws[k].batch_head <= Created(r)
  <2>1. \A k \in 1..Len(ws) : \E j \in S : ws[k].batch_head = Created(j)
    BY <1>1 DEF StreamOf
  <2> QED BY <1>6, <2>1
<1>8. IsFiniteSet(S) /\ Cardinality(S) \in Nat
  BY <1>4, RowsAreFinite
<1> QED BY <1>1, <1>2, <1>3, <1>5, <1>6, <1>7, <1>8

LEMMA StreamGrows ==
  ASSUME FrameInv, NEW ws, NEW S \in SUBSET Rows, StreamOf(ws, S),
         NEW r \in Rows, \A i \in S : i < r, ws # << >>,
         DaysBetween(Last(ws).batch_head, Created(r)) <= WINDOW_SIZE
  PROVE  StreamOf([ws EXCEPT ![Len(ws)].batch_count = @ + 1], S \cup {r})
<1> DEFINE n == Len(ws)
           c == Created(r)
           T == S \cup {r}
           new == [ws EXCEPT ![n].batch_count = @ + 1]
<1>1. /\ ws \in Seq(Window) /\ n \in Nat /\ DOMAIN ws = 1..n
      /\ \A k \in 1..n : ws[k] \in Window /\ ws[k].batch_head \in Int /\ ws[k].batch_count \in Int
      /\ \A i \in T : Created(i) \in Int /\ Created(i) <= c
      /\ \A k \in 1..n : ws[k].batch_head <= c
      /\ IsFiniteSet(S) /\ Cardinality(S) \in Nat /\ r \notin S
  BY StreamFacts
<1>2. n # 0 /\ n \in 1..n /\ Last(ws) = ws[n]
  BY <1>1 DEF Last
<1>3. TotalCount(new) = TotalCount(ws) + 1
  BY <1>1, TotalCountGrows
<1>4. /\ new \in Seq(Window) /\ Len(new) = n /\ DOMAIN new = 1..n
      /\ \A k \in 1..n : new[k].batch_head = ws[k].batch_head
      /\ \A k \in 1..n : new[k].batch_count = IF k = n THEN ws[k].batch_count + 1 ELSE ws[k].batch_count
  <2>1. [ws[n] EXCEPT !.batch_count = @ + 1] \in Window
    BY <1>1, <1>2 DEF Window
  <2>2. new = [ws EXCEPT ![n] = [ws[n] EXCEPT !.batch_count = @ + 1]]
    OBVIOUS
  <2>3. new \in Seq(Window) /\ Len(new) = n /\ DOMAIN new = 1..n
    BY <1>1, <1>2, <2>1, <2>2
  <2>4. \A k \in 1..n : new[k] = IF k = n THEN [ws[n] EXCEPT !.batch_count = @ + 1] ELSE ws[k]
    BY <1>1, <2>2
  <2>5. /\ [ws[n] EXCEPT !.batch_count = @ + 1].batch_head = ws[n].batch_head
        /\ [ws[n] EXCEPT !.batch_count = @ + 1].batch_count = ws[n].batch_count + 1
    BY <1>1, <1>2 DEF Window
  <2> HIDE DEF new
  <2> QED BY <2>3, <2>4, <2>5
<1>5. \A k \in 1..n : \E j \in S : ws[k].batch_head = Created(j)
  BY <1>1 DEF StreamOf
<1>6. \A k \in 1..n : ws[k].batch_count = Cardinality(WithinWindow(ws, k, S))
  BY <1>1 DEF StreamOf
<1> HIDE DEF n, T, new
<1>7. Last(new) = new[n]
  BY <1>4 DEF Last
<1>8. ASSUME NEW k \in 1..n PROVE new[k].batch_count = Cardinality(WithinWindow(new, k, T))
  <2> DEFINE Fits(i) == ws[k].batch_head <= Created(i) /\ (k < n => Created(i) < ws[k + 1].batch_head)
  <2>1. /\ WithinWindow(new, k, T) = {i \in T : Fits(i)}
        /\ WithinWindow(ws, k, S) = {i \in S : Fits(i)}
    <3>1. k < n => k + 1 \in 1..n
      BY <1>1
    <3>2. new[k].batch_head = ws[k].batch_head /\ (k < n => new[k + 1].batch_head = ws[k + 1].batch_head)
      BY <1>4, <3>1
    <3>3. WithinWindow(ws, k, S) = {i \in S : Fits(i)}
      BY DEF WithinWindow, n
    <3>4. WithinWindow(new, k, T) = {i \in T : Fits(i)}
      BY <1>4, <3>2 DEF WithinWindow
    <3> QED BY <3>3, <3>4
  <2>2. CASE k = n
    <3>1. ~(k < n) /\ ws[k].batch_head <= c
      BY <1>1, <2>2
    <3>2. WithinWindow(new, k, T) = WithinWindow(ws, k, S) \cup {r}
      <4>1. Fits(r)
        BY <3>1
      <4> HIDE DEF Fits
      <4> QED BY <2>1, <4>1 DEF T
    <3>3. WithinWindow(ws, k, S) \subseteq S
      BY <2>1
    <3>4. Cardinality(WithinWindow(ws, k, S) \cup {r}) = Cardinality(WithinWindow(ws, k, S)) + 1
      BY <1>1, <3>3, FS_Subset, FS_AddElement
    <3> QED BY <1>4, <1>6, <2>2, <3>2, <3>4
  <2>3. CASE k # n
    <3>1. k < n /\ k + 1 \in 1..n
      BY <1>1, <2>3
    <3>2. ~(c < ws[k + 1].batch_head)
      BY <1>1, <3>1 DEF T
    <3>3. WithinWindow(new, k, T) = WithinWindow(ws, k, S)
      <4>1. ~Fits(r)
        BY <3>1, <3>2
      <4> HIDE DEF Fits
      <4> QED BY <2>1, <4>1 DEF T
    <3> QED BY <1>4, <1>6, <2>3, <3>3
  <2> QED BY <2>2, <2>3
<1>9. \A i \in T : Last(new).batch_head <= Created(i) =>
        DaysBetween(Last(new).batch_head, Created(i)) <= WINDOW_SIZE
  <2>1. Last(new).batch_head = Last(ws).batch_head
    BY <1>2, <1>4, <1>7
  <2> QED BY <2>1 DEF StreamOf, T
<1>10. TotalCount(new) = Cardinality(T)
  <2>1. Cardinality(T) = Cardinality(S) + 1
    BY <1>1, FS_AddElement DEF T
  <2> QED BY <1>3, <2>1 DEF StreamOf
<1>11. new # << >>
  BY <1>2, <1>4
<1>12. StreamOf(new, T)
  <2>1. \A k \in 1..n : \E j \in T : new[k].batch_head = Created(j)
    BY <1>4, <1>5 DEF T
  <2> QED BY <1>4, <1>8, <1>9, <1>10, <1>11, <2>1 DEF StreamOf
<1> QED BY <1>12 DEF new, T, n

LEMMA StreamOpens ==
  ASSUME FrameInv, NEW ws, NEW S \in SUBSET Rows, StreamOf(ws, S),
         NEW r \in Rows, \A i \in S : i < r,
         ws # << >> => ~(DaysBetween(Last(ws).batch_head, Created(r)) <= WINDOW_SIZE)
  PROVE  StreamOf(Append(ws, [batch_head |-> Created(r), batch_count |-> 1]), S \cup {r})
<1> DEFINE n == Len(ws)
           c == Created(r)
           T == S \cup {r}
           w == [batch_head |-> c, batch_count |-> 1]
           new == Append(ws, w)
<1>1. /\ ws \in Seq(Window) /\ n \in Nat /\ DOMAIN ws = 1..n
      /\ \A k \in 1..n : ws[k] \in Window /\ ws[k].batch_head \in Int /\ ws[k].batch_count \in Int
      /\ \A i \in T : Created(i) \in Int /\ Created(i) <= c
      /\ \A k \in 1..n : ws[k].batch_head <= c
      /\ IsFiniteSet(S) /\ Cardinality(S) \in Nat /\ r \notin S
  BY StreamFacts
<1>2. w \in Window /\ c \in Int /\ w.batch_head = c /\ w.batch_count = 1
  BY <1>1 DEF Window
<1> HIDE DEF w
<1>3. TotalCount(new) = TotalCount(ws) + 1
  BY <1>1, <1>2, TotalCountOfOneMore
<1>4. /\ new \in Seq(Window) /\ Len(new) = n + 1 /\ DOMAIN new = 1..(n + 1)
      /\ new[n + 1] = w /\ \A k \in 1..n : new[k] = ws[k]
  BY <1>1, <1>2
<1>5. \A k \in 1..n : \E j \in S : ws[k].batch_head = Created(j)
  BY <1>1 DEF StreamOf
<1>6. \A k \in 1..n : ws[k].batch_count = Cardinality(WithinWindow(ws, k, S))
  BY <1>1 DEF StreamOf
<1>7. /\ n # 0 => Last(ws) = ws[n] /\ n \in 1..n /\ ws # << >>
      /\ n = 0 => S = {}
      /\ n + 1 \in Nat /\ n + 1 \in 1..(n + 1)
  BY <1>1 DEF Last, StreamOf
<1> HIDE DEF n, T, new
(* Nothing of the last window is as late as the new row.                   *)
<1>8. n # 0 => \A i \in S : ws[n].batch_head <= Created(i) => Created(i) < c
  <2> SUFFICES ASSUME n # 0, NEW i \in S, ws[n].batch_head <= Created(i), ~(Created(i) < c)
               PROVE  FALSE
    OBVIOUS
  <2>1. Created(i) = c
    BY <1>1 DEF T
  <2>2. DaysBetween(ws[n].batch_head, Created(i)) <= WINDOW_SIZE
    BY <1>7 DEF StreamOf
  <2> QED BY <1>7, <2>1, <2>2
<1>9. \A i \in S : Created(i) < c
  <2>1. CASE n = 0
    BY <1>7, <2>1
  <2>2. CASE n # 0
    <3>1. PICK j \in S : ws[n].batch_head = Created(j)
      BY <1>5, <1>7, <2>2
    <3>2. ws[n].batch_head < c
      BY <1>1, <1>8, <2>2, <3>1 DEF T
    <3>3. ASSUME NEW i \in S PROVE Created(i) < c
      <4>1. CASE ws[n].batch_head <= Created(i)
        BY <1>8, <2>2, <4>1
      <4>2. CASE ~(ws[n].batch_head <= Created(i))
        BY <1>1, <1>7, <2>2, <3>2, <4>2 DEF T
      <4> QED BY <4>1, <4>2
    <3> QED BY <3>3
  <2> QED BY <2>1, <2>2
<1>10. ASSUME NEW k \in 1..(n + 1) PROVE new[k].batch_count = Cardinality(WithinWindow(new, k, T))
  <2>1. CASE k = n + 1
    <3>1. WithinWindow(new, k, T) = {i \in T : c <= Created(i)}
      <4>1. ~(k < Len(new)) /\ new[k].batch_head = c
        BY <1>2, <1>4, <1>7, <2>1
      <4> QED BY <4>1 DEF WithinWindow
    <3>2. {i \in T : c <= Created(i)} = {r}
      <4>1. \A i \in S : ~(c <= Created(i))
        BY <1>1, <1>2, <1>9 DEF T
      <4>2. c <= Created(r)
        BY <1>2
      <4> QED BY <4>1, <4>2 DEF T
    <3> QED BY <1>2, <1>4, <2>1, <3>1, <3>2, FS_Singleton
  <2>2. CASE k # n + 1
    <3>1. k \in 1..n /\ k < n + 1 /\ new[k] = ws[k] /\ k + 1 \in 1..(n + 1)
      BY <1>1, <1>4, <2>2
    <3> DEFINE Fits(i) == ws[k].batch_head <= Created(i) /\ Created(i) < new[k + 1].batch_head
               Fitted(i) == ws[k].batch_head <= Created(i) /\ (k < n => Created(i) < ws[k + 1].batch_head)
    <3>2. WithinWindow(new, k, T) = {i \in T : Fits(i)}
      BY <1>4, <3>1 DEF WithinWindow
    <3>3. WithinWindow(ws, k, S) = {i \in S : Fitted(i)}
      BY DEF WithinWindow, n
    <3>4. ~Fits(r)
      <4>1. new[k + 1].batch_head <= c
        <5>1. CASE k + 1 = n + 1
          BY <1>2, <1>4, <5>1
        <5>2. CASE k + 1 # n + 1
          <6>1. k + 1 \in 1..n
            BY <1>1, <3>1, <5>2
          <6> QED BY <1>1, <1>4, <6>1
        <5> QED BY <5>1, <5>2
      <4>2. new[k + 1].batch_head \in Int
        <5>1. new[k + 1] \in Window
          BY <1>4, <3>1
        <5>2. \A v \in Window : v.batch_head \in Int
          BY DEF Window
        <5> QED BY <5>1, <5>2
      <4> QED BY <1>2, <4>1, <4>2
    <3>5. ASSUME NEW i \in S PROVE Fits(i) <=> Fitted(i)
      <4>1. CASE k < n
        <5>1. k + 1 \in 1..n
          BY <1>1, <3>1, <4>1
        <5> QED BY <1>4, <4>1, <5>1
      <4>2. CASE ~(k < n)
        <5>1. k = n /\ new[k + 1].batch_head = c
          BY <1>1, <1>2, <1>4, <3>1, <4>2
        <5> QED BY <1>9, <4>2, <5>1
      <4> QED BY <4>1, <4>2
    <3> HIDE DEF Fits, Fitted
    <3>6. WithinWindow(new, k, T) = WithinWindow(ws, k, S)
      BY <3>2, <3>3, <3>4, <3>5 DEF T
    <3> QED BY <1>6, <3>1, <3>6
  <2> QED BY <2>1, <2>2
<1>11. \A i \in T : Last(new).batch_head <= Created(i) =>
         DaysBetween(Last(new).batch_head, Created(i)) <= WINDOW_SIZE
  <2>1. Last(new).batch_head = c
    BY <1>2, <1>4 DEF Last
  <2>2. \A i \in S : ~(c <= Created(i))
    BY <1>1, <1>2, <1>9 DEF T
  <2>3. DaysBetween(c, c) <= WINDOW_SIZE
    <3>1. DaysBetween(c, c) = 0 \div DayLength
      BY <1>2 DEF DaysBetween
    <3>2. DayLength \in Nat \ {0}
      BY BatchAssumption
    <3>3. 0 \div DayLength = 0
      BY ONLY <3>2
    <3> QED BY <3>1, <3>3 DEF WINDOW_SIZE
  <2> QED BY <2>1, <2>2, <2>3 DEF T
<1>12. TotalCount(new) = Cardinality(T)
  <2>1. Cardinality(T) = Cardinality(S) + 1
    BY <1>1, FS_AddElement DEF T
  <2> QED BY <1>3, <2>1 DEF StreamOf
<1>13. new # << >>
  BY <1>1, <1>4
<1>14. StreamOf(new, T)
  <2>1. ASSUME NEW k \in 1..(n + 1) PROVE \E j \in T : new[k].batch_head = Created(j)
    <3>1. CASE k = n + 1
      BY <1>2, <1>4, <3>1 DEF T
    <3>2. CASE k # n + 1
      <4>1. k \in 1..n
        BY <1>1, <3>2
      <4> QED BY <1>4, <1>5, <4>1 DEF T
    <3> QED BY <3>1, <3>2
  <2> QED BY <1>4, <1>10, <1>11, <1>12, <1>13, <2>1 DEF StreamOf
<1> QED BY <1>14 DEF new, T, w

LEMMA SameStream ==
  ASSUME SameFrame, windows' = windows
  PROVE  \A S : StreamOf(windows, S)' <=> StreamOf(windows, S)
BY DEF SameFrame, StreamOf, WithinWindow, Created, DaysBetween, Last, WINDOW_SIZE

LEMMA ExtendKeepsWindows ==
  ASSUME IInv, ExtendWindows
  PROVE  WindowsInv'
<1>1. /\ loop = "windows" /\ loop' = loop /\ row \in 1..Len(reports) /\ row' = row + 1
      /\ SameFrame /\ FrameInv /\ WindowsInv /\ Len(reports) \in Nat
      /\ Rows = 1..Len(reports) /\ group \in SUBSET Rows
  BY DEF IInv, FrameInv, ExtendWindows, SameFrame
<1> PICK S : S = Reached
  OBVIOUS
<1> PICK r : r = row
  OBVIOUS
<1>2. /\ S = {i \in group : i < r} /\ S \in SUBSET Rows /\ StreamOf(windows, S)
      /\ r \in Rows /\ \A i \in S : i < r
  BY <1>1 DEF Reached, WindowsInv
<1>3. Reached' = IF r \in group THEN S \cup {r} ELSE S
  <2>1. Reached' = {i \in group : i < r + 1}
    BY <1>1 DEF Reached, SameFrame
  <2>2. \A i \in group : i < r + 1 <=> i < r \/ i = r
    BY <1>1
  <2> QED BY <1>2, <2>1, <2>2
<1>4. ASSUME NEW T, T = Reached', NEW ws, ws = windows', StreamOf(ws, T) PROVE WindowsInv'
  <2>1. WindowsInv' <=> StreamOf(ws, T)
    BY <1>1, <1>4 DEF WindowsInv, SameFrame, StreamOf, WithinWindow, Created, DaysBetween, Last,
       WINDOW_SIZE
  <2> QED BY <1>4, <2>1
<1>5. CASE r \notin group
  <2>1. windows' = windows
    BY <1>5 DEF ExtendWindows
  <2> QED BY <1>2, <1>3, <1>4, <1>5, <2>1
<1>6. CASE r \in group /\ windows # << >> /\ InLastWindow(Created(r))
  <2>1. windows' = [windows EXCEPT ![Len(windows)].batch_count = @ + 1]
    BY <1>6 DEF ExtendWindows
  <2>2. DaysBetween(Last(windows).batch_head, Created(r)) <= WINDOW_SIZE
    BY <1>6 DEF InLastWindow
  <2>3. StreamOf([windows EXCEPT ![Len(windows)].batch_count = @ + 1], S \cup {r})
    BY <1>1, <1>2, <1>6, <2>2, StreamGrows
  <2> QED BY <1>3, <1>4, <1>6, <2>1, <2>3
<1>7. CASE r \in group /\ ~(windows # << >> /\ InLastWindow(Created(r)))
  <2>1. windows' = Append(windows, [batch_head |-> Created(r), batch_count |-> 1])
    BY <1>7 DEF ExtendWindows
  <2>2. windows # << >> => ~(DaysBetween(Last(windows).batch_head, Created(r)) <= WINDOW_SIZE)
    BY <1>7 DEF InLastWindow
  <2>3. StreamOf(Append(windows, [batch_head |-> Created(r), batch_count |-> 1]), S \cup {r})
    BY <1>1, <1>2, <2>2, StreamOpens
  <2> QED BY <1>3, <1>4, <1>7, <2>1, <2>3
<1> QED BY <1>5, <1>6, <1>7

LEMMA OthersKeepWindows ==
  ASSUME IInv, [Next]_vars, ~ExtendWindows
  PROVE  WindowsInv'
<1>1. WindowsInv /\ FrameInv /\ LoopInv /\ SameFrame /\ windows' = windows
  BY DEF IInv, Next, vars, AssignBatch, MarkResolved, AssessBatch, MeasureGap,
         NextLoop, Finished, SameFrame
<1>2. Reached' = Reached
  <2>1. CASE loop = "windows"
    <3>1. CASE NextLoop
      <4>1. loop' = "gaps" /\ row > Len(reports)
        BY <2>1, <3>1 DEF NextLoop, LoopEnds
      <4>2. \A i \in group : i < row
        BY <1>1, <4>1 DEF FrameInv
      <4> QED BY <1>1, <2>1, <4>1, <4>2 DEF Reached, SameFrame
    <3>2. CASE UNCHANGED vars
      BY <3>2 DEF vars, Reached
    <3> QED BY <2>1, <3>1, <3>2 DEF Next, AssignBatch, MarkResolved, AssessBatch, MeasureGap, Finished
  <2>2. CASE loop # "windows"
    <3>1. loop' # "windows"
      <4>1. CASE NextLoop
        BY <1>1, <2>2, <4>1 DEF NextLoop, LoopEnds, LoopInv
      <4>2. CASE loop' = loop
        BY <2>2, <4>2
      <4> QED BY <4>1, <4>2 DEF Next, vars, AssignBatch, MarkResolved, AssessBatch, MeasureGap, Finished
    <3> QED BY <1>1, <2>2, <3>1 DEF Reached, SameFrame
  <2> QED BY <2>1, <2>2
<1> PICK S : S = Reached
  OBVIOUS
<1>3. StreamOf(windows, S) /\ S = Reached'
  BY <1>1, <1>2 DEF WindowsInv
<1>4. StreamOf(windows, S)'
  BY <1>1, <1>3, SameStream
<1>5. StreamOf(windows, S)' <=> StreamOf(windows, Reached)'
  BY <1>3 DEF StreamOf, WithinWindow
<1> QED BY <1>4, <1>5 DEF WindowsInv

LEMMA MeasureKeepsGaps ==
  ASSUME IInv, MeasureGap
  PROVE  GapsInv'
<1>1. /\ loop = "gaps" /\ loop' = loop /\ row \in 1..Len(windows) /\ row' = row + 1
      /\ windows' = windows /\ reports' = reports /\ group' = group
      /\ interarrival_times' = IF row = 1 /\ GapBefore(1) <= 0 THEN interarrival_times
                               ELSE Append(interarrival_times, GapBefore(row))
  <2>1. row \in Nat \ {0} /\ Len(windows) \in Nat
    BY DEF IInv, FrameInv, WindowsInv, StreamOf
  <2> QED BY <2>1 DEF MeasureGap
<1>2. /\ interarrival_times \in Seq(Int)
      /\ Total(interarrival_times) = IF row = 1 THEN 0 ELSE windows[row - 1].batch_head - PeriodStart
  BY <1>1 DEF IInv, GapsInv
<1>3. /\ Len(windows) \in Nat /\ DOMAIN windows = 1..Len(windows)
      /\ \A k \in 1..Len(windows) :
           windows[k].batch_head \in Int /\ PeriodStart <= windows[k].batch_head
      /\ PeriodStart \in Int
  <2>1. windows \in Seq(Window) /\ Len(windows) \in Nat /\ DOMAIN windows = 1..Len(windows)
    BY DEF IInv, WindowsInv, StreamOf
  <2>2. \A k \in 1..Len(windows) : \E j \in group : windows[k].batch_head = Created(j)
    BY <1>1, <2>1 DEF IInv, WindowsInv, StreamOf, Reached
  <2>3. \A j \in group : /\ Created(j) \in Int /\ Created(1) <= Created(j) /\ Created(1) \in Int
    <3>1. /\ Rows = 1..Len(reports) /\ group \in SUBSET Rows /\ Len(reports) \in Nat
          /\ \A i \in Rows : Created(i) \in Int
          /\ \A i, j \in Rows : i <= j => Created(i) <= Created(j)
      BY DEF IInv, FrameInv
    <3>2. \A j \in group : 1 \in Rows /\ j \in Rows /\ 1 <= j
      BY <3>1
    <3> QED BY <3>1, <3>2
  <2>4. 1 \in 1..Len(windows)
    BY <1>1, <2>1
  <2> QED BY <2>1, <2>2, <2>3, <2>4 DEF PeriodStart
<1>4. GapBefore(row) \in Int
  <2>1. row # 1 => row - 1 \in 1..Len(windows)
    BY <1>1, <1>3
  <2> QED BY <1>1, <1>3, <2>1 DEF GapBefore
<1>5. /\ interarrival_times' \in Seq(Int)
      /\ Total(interarrival_times') = windows[row].batch_head - PeriodStart
  <2>1. CASE row = 1 /\ GapBefore(1) <= 0
    <3>1. windows[1].batch_head - PeriodStart = 0
      BY <1>1, <1>3, <2>1 DEF GapBefore
    <3> QED BY <1>1, <1>2, <2>1, <3>1
  <2>2. CASE ~(row = 1 /\ GapBefore(1) <= 0)
    <3>1. interarrival_times' = Append(interarrival_times, GapBefore(row))
      BY <1>1, <2>2
    <3>2. /\ Total(interarrival_times') = Total(interarrival_times) + GapBefore(row)
          /\ interarrival_times' \in Seq(Int)
      BY <1>2, <1>4, <3>1, TotalOfOneMore
    <3>3. row # 1 => row - 1 \in 1..Len(windows)
      BY <1>1, <1>3
    <3>4. windows[row].batch_head \in Int /\ PeriodStart \in Int
          /\ (row # 1 => windows[row - 1].batch_head \in Int)
      BY <1>1, <1>3, <3>3
    <3> QED BY <1>2, <3>2, <3>4 DEF GapBefore
  <2> QED BY <2>1, <2>2
<1>6. row' # 1 /\ row' - 1 = row /\ row' <= Len(windows) + 1
  BY <1>1, <1>3
<1>7. PeriodStart' = PeriodStart
  BY <1>1 DEF PeriodStart, Created
<1>8. Total(interarrival_times)' = Total(interarrival_times')
  OBVIOUS
<1> QED BY <1>1, <1>5, <1>6, <1>7, <1>8 DEF GapsInv

LEMMA OthersKeepGaps ==
  ASSUME IInv, [Next]_vars, ~MeasureGap
  PROVE  GapsInv'
<1>1. /\ GapsInv /\ LoopInv /\ SameFrame /\ interarrival_times' = interarrival_times
      /\ row \in Nat \ {0}
  BY DEF IInv, FrameInv, Next, vars, AssignBatch, MarkResolved, AssessBatch, ExtendWindows,
         NextLoop, Finished, SameFrame
<1>2. ASSUME loop' = loop, loop \notin {"gaps", "done"} PROVE GapsInv'
  BY <1>1, <1>2 DEF GapsInv
<1>3. CASE AssignBatch \/ MarkResolved \/ AssessBatch \/ ExtendWindows
  BY <1>2, <1>3 DEF AssignBatch, MarkResolved, AssessBatch, ExtendWindows
<1>4. Total(interarrival_times)' = Total(interarrival_times) /\ PeriodStart' = PeriodStart
  BY <1>1 DEF PeriodStart, Created, SameFrame
<1>5. CASE NextLoop
  <2>1. /\ windows' = windows /\ row' = 1
        /\ loop \in {"grouping", "marking", "assessing", "windows", "gaps"}
        /\ loop = "gaps" => row > Len(windows)
    BY <1>1, <1>5 DEF NextLoop, LoopEnds, LoopInv
  <2>2. /\ loop = "grouping" => loop' = "marking"
        /\ loop = "marking" => loop' = "assessing"
        /\ loop = "assessing" => loop' = "done"
        /\ loop = "windows" => loop' = "gaps"
        /\ loop = "gaps" => loop' = "done"
    BY <1>5 DEF NextLoop
  <2>3. Len(windows) \in Nat
    BY DEF IInv, WindowsInv, StreamOf
  <2>4. CASE loop = "windows"
    <3>1. interarrival_times = << >> /\ 1 <= Len(windows) + 1
      BY <1>1, <2>3, <2>4 DEF GapsInv
    <3> QED BY <1>1, <1>4, <2>1, <2>2, <2>4, <3>1, TotalOfNone DEF GapsInv
  <2>5. CASE loop = "gaps"
    <3>1. /\ row <= Len(windows) + 1
          /\ Total(interarrival_times) = IF row = 1 THEN 0 ELSE windows[row - 1].batch_head - PeriodStart
      BY <1>1, <2>5 DEF GapsInv
    <3>2. row - 1 = Len(windows)
      BY <1>1, <2>1, <2>3, <2>5, <3>1
    <3>3. group # {} => Len(windows) # 0
      <4>1. group = Reached /\ (windows = << >> => Reached = {})
        BY <2>5 DEF Reached, IInv, WindowsInv, StreamOf
      <4>2. windows \in Seq(Window)
        BY DEF IInv, WindowsInv, StreamOf
      <4> QED BY <4>1, <4>2
    <3>4. group # {} => Total(interarrival_times) = Last(windows).batch_head - PeriodStart
      BY <1>1, <3>1, <3>2, <3>3 DEF Last
    <3>5. (Last(windows).batch_head - PeriodStart)' = Last(windows).batch_head - PeriodStart
      BY <1>4, <2>1 DEF Last
    <3> QED BY <1>1, <1>4, <2>1, <2>2, <2>5, <3>4, <3>5 DEF GapsInv, SameFrame
  <2>6. CASE loop = "assessing"
    <3>1. group' = {} /\ loop' = "done"
      BY <1>1, <2>2, <2>6 DEF LoopInv, SameFrame
    <3> QED BY <1>1, <3>1 DEF GapsInv
  <2>7. CASE loop \in {"grouping", "marking"}
    BY <1>1, <2>2, <2>7 DEF GapsInv
  <2> QED BY <2>1, <2>4, <2>5, <2>6, <2>7
<1>6. CASE UNCHANGED vars
  <2>1. (Last(windows).batch_head - PeriodStart)' = Last(windows).batch_head - PeriodStart
    BY <1>4, <1>6 DEF Last, vars
  <2> QED BY <1>1, <1>4, <1>6, <2>1 DEF vars, GapsInv
<1> QED BY <1>3, <1>5, <1>6 DEF Next, Finished

-----------------------------------------------------------------------------
LEMMA NextKeeps == IInv /\ [Next]_vars => IInv'
<1> SUFFICES ASSUME IInv, [Next]_vars PROVE IInv'
  OBVIOUS
<1>1. FrameInv' /\ LoopInv'
  BY FrameKept, LoopKept DEF IInv
<1>2. BatchesInv' /\ StartsInv' /\ ClosingInv'
  <2>1. CASE AssignBatch
    BY <2>1, AssignKeepsBatches
  <2>2. CASE ~AssignBatch
    <3>1. SameFrame /\ SameBatches
      BY <2>2 DEF Next, vars, MarkResolved, AssessBatch, ExtendWindows, MeasureGap, NextLoop,
         Finished, SameFrame, SameBatches
    <3> QED BY <3>1, SameBatchesKept DEF IInv
  <2> QED BY <2>1, <2>2
<1>3. MarkingInv'
  BY MarkKeepsMarking, OthersKeepMarking
<1>4. AssessingInv'
  BY AssessKeepsAssessing, OthersKeepAssessing
<1>5. WindowsInv'
  BY ExtendKeepsWindows, OthersKeepWindows
<1>6. GapsInv'
  BY MeasureKeepsGaps, OthersKeepGaps
<1> QED BY <1>1, <1>2, <1>3, <1>4, <1>5, <1>6 DEF IInv

(* The inductive invariant holds of every state: for every data frame in   *)
(* the order of creation, the loops of include_batch_information, simdriver*)
(* and get_report_batches leave what IInv says of the rows done.           *)
THEOREM Invariance == Spec => []IInv
<1>1. Init => IInv
  BY InitHolds
<1>2. IInv /\ [Next]_vars => IInv'
  BY NextKeeps
<1> QED BY <1>1, <1>2, PTL DEF Spec

(* include_batch_information marks in every batch the first reports fixed  *)
(* while it lasted, up to the target, for every data frame and target.     *)
THEOREM MarksAreFirstFixes == Spec => []ResolvedAreFirstFixes
<1>1. IInv => ResolvedAreFirstFixes
  <2> SUFFICES ASSUME IInv, loop \in {"assessing", "done"}, NEW i \in DOMAIN batches
               PROVE  resolved_in_batch[i] <=>
                        /\ i \in FixedMeanwhile(batches[i])
                        /\ Cardinality({j \in FixedMeanwhile(batches[i]) : j < i}) < target_fixes
    BY DEF ResolvedAreFirstFixes
  <2>1. /\ Len(resolved_in_batch) = Len(batches) /\ resolved_in_batch \in Seq(BOOLEAN)
        /\ batches \in Seq(Nat)
    BY DEF IInv, MarkingInv, BatchesInv
  <2>2. i \in DOMAIN resolved_in_batch
    BY <2>1
  <2>3. resolved_in_batch[i] <=> IsFirstFix(i)
    BY <2>2 DEF IInv, MarkingInv
  <2> QED BY <2>3 DEF IsFirstFix, FixesBefore, Below
<1> QED BY <1>1, Invariance, PTL

(* As many reports of a batch are marked as were fixed while it lasted, up *)
(* to the target.                                                          *)
LEMMA MarkedUpToTarget ==
  ASSUME IInv, loop \in {"assessing", "done"}, NEW b
  PROVE  /\ Cardinality(ResolvedIn(b)) =
              IF Cardinality(FixedMeanwhile(b)) <= target_fixes
              THEN Cardinality(FixedMeanwhile(b)) ELSE target_fixes
         /\ ResolvedIn(b) \subseteq FixedMeanwhile(b)
<1>1. /\ Len(resolved_in_batch) = Len(batches) /\ resolved_in_batch \in Seq(BOOLEAN)
      /\ batches \in Seq(Nat) /\ target_fixes \in Nat
      /\ \A i \in DOMAIN resolved_in_batch : resolved_in_batch[i] <=> IsFirstFix(i)
  BY DEF IInv, MarkingInv, BatchesInv, FrameInv
<1>2. DOMAIN resolved_in_batch = DOMAIN batches
  BY <1>1
<1>3. \A i \in RowsOf(b) : resolved_in_batch[i] <=> IsFirstFix(i)
  BY <1>1, <1>2 DEF RowsOf
<1> DEFINE F == FixedMeanwhile(b)
<1>4. Len(reports) \in Nat /\ F \in SUBSET (1..Len(reports)) /\ F \subseteq RowsOf(b)
  BY BatchRows
<1>5. ResolvedIn(b) = FirstOf(F, target_fixes)
  <2> DEFINE First(i) == Cardinality(Below(F, i)) < target_fixes
  <2>1. \A i \in RowsOf(b) : IsFirstFix(i) <=> i \in F /\ First(i)
    BY DEF IsFirstFix, FixesBefore, RowsOf
  <2> HIDE DEF F
  <2>2. FirstOf(F, target_fixes) = {i \in F : First(i)}
    BY DEF FirstOf
  <2> HIDE DEF First
  <2>3. \A i \in RowsOf(b) : resolved_in_batch[i] <=> i \in F /\ First(i)
    BY <1>3, <2>1
  <2> QED BY <1>4, <2>2, <2>3 DEF ResolvedIn
<1>6. FirstOf(F, target_fixes) \subseteq F
  BY DEF FirstOf
<1> HIDE DEF F
<1> QED BY <1>1, <1>4, <1>5, <1>6, FirstsAreCapped DEF F

(* simdriver's observations are batches that a fix ended; of these, it     *)
(* leaves out only those whose dates are out of order or that share a date *)
(* with another batch.                                                     *)
THEOREM ObservationsAreClosed == Spec => []ClosedBatchesAreUsed
<1>1. IInv => ClosedBatchesAreUsed
  <2> SUFFICES ASSUME IInv, loop = "done", NEW b \in UniqueBatches
               PROVE  /\ b \in valid_periods => Closed(b)
                      /\ Closed(b) /\ DatesInOrder(b) /\ ~SharesDate(b) => b \in valid_periods
    BY DEF ClosedBatchesAreUsed
  <2>1. /\ UniqueBatches = 0..(Len(batch_starts) - 1) /\ Len(batch_starts) \in Nat
        /\ b \in 0..(Len(batch_starts) - 1)
    BY BatchesAreNumbered
  <2>2. b \in valid_periods <=> Cardinality(ResolvedIn(b)) = target_fixes
    BY <2>1 DEF IInv, AssessingInv, IsValidPeriod
  <2>3. /\ Cardinality(ResolvedIn(b)) =
              IF Cardinality(FixedMeanwhile(b)) <= target_fixes
              THEN Cardinality(FixedMeanwhile(b)) ELSE target_fixes
        /\ ResolvedIn(b) \subseteq FixedMeanwhile(b)
    BY MarkedUpToTarget
  <2>4. PICK f : IsFirst(f, RowsOf(b)) /\ batch_starts[b + 1] = Created(f)
    BY <2>1, BatchHasEnds
  <2>5. /\ Len(reports) \in Nat /\ Rows = 1..Len(reports) /\ target_fixes \in Nat \ {0}
        /\ \A i \in Rows : Created(i) \in Int /\ (Resolution(i) # None => Resolution(i) \in Int)
        /\ \A i, j \in Rows : i <= j => Created(i) <= Created(j)
    BY DEF IInv, FrameInv
  <2>6. /\ RowsOf(b) \subseteq Rows /\ RowsOf(b) \in SUBSET (1..Len(batches)) /\ Len(batches) \in Nat
        /\ FixedMeanwhile(b) \subseteq RowsOf(b) /\ Len(batches) <= Len(reports)
        /\ \A i, j \in RowsOf(b) : i <= j => Created(i) <= Created(j)
    BY <2>5, BatchRows DEF IInv, BatchesInv
  <2>7. /\ current_batch \in Nat
        /\ Len(batch_starts) = current_batch + (IF current_batch_start = None THEN 0 ELSE 1)
    BY DEF IInv, StartsInv
  <2>8. ASSUME NEW s, NEW d PROVE IsFiniteSet(CurrentFixes(s, d)) /\ Cardinality(CurrentFixes(s, d)) \in Nat
    <3>1. CurrentFixes(s, d) \in SUBSET (1..Len(reports))
      BY <2>5 DEF CurrentFixes
    <3> QED BY <2>5, <3>1, RowsAreFinite
  (* What is marked in the last batch are fixes that did not close it.     *)
  <2>9. ASSUME ~Closed(b) PROVE Cardinality(ResolvedIn(b)) # target_fixes
    <3>1. b = current_batch /\ current_batch_start # None
      BY <2>1, <2>7, <2>9 DEF Closed
    <3>2. FixesAt(b, Len(batches)) < target_fixes
      BY <3>1 DEF IInv, ClosingInv
    <3>3. IsLast(Len(batches), RowsOf(b))
      <4>1. batches # << >> /\ batches[Len(batches)] = b /\ batches \in Seq(Nat)
        BY <3>1 DEF IInv, StartsInv, BatchesInv
      <4>2. Len(batches) \in RowsOf(b)
        BY <4>1 DEF RowsOf
      <4> QED BY <2>6, <4>2 DEF IsLast
    <3>4. MaxDate(RowsOf(b)) = Created(Len(batches))
      BY <3>3, MaxDateIsLast
    <3> DEFINE now == Created(Len(batches))
               fixes == CurrentFixes(batch_starts[b + 1], now)
    <3>5. ASSUME NEW i \in FixedMeanwhile(b) PROVE i \in fixes
      <4>1. /\ i \in RowsOf(b) /\ Resolution(i) # None /\ Resolution(i) <= now
        BY <2>1, <2>6, <3>4, FixedWithinBatch
      <4>2. Created(f) <= Created(i) /\ Created(i) <= now
        BY <2>4, <2>6, <3>3, <4>1 DEF IsFirst, IsLast
      <4> QED BY <2>4, <2>6, <4>1, <4>2 DEF CurrentFixes
    <3>6. Cardinality(ResolvedIn(b)) <= Cardinality(fixes)
      <4>1. ResolvedIn(b) \subseteq fixes
        BY <2>3, <3>5
      <4>2. IsFiniteSet(fixes)
        BY <2>8
      <4> QED BY <4>1, <4>2, FS_Subset
    <3>7. Cardinality(fixes) \in Nat /\ Cardinality(fixes) < target_fixes
      BY <2>8, <3>2 DEF FixesAt
    <3>8. Cardinality(ResolvedIn(b)) \in Nat
      <4>1. ResolvedIn(b) \in SUBSET (1..Len(reports))
        BY <2>3, <2>5, <2>6
      <4> QED BY <2>5, <4>1, RowsAreFinite
    <3> QED BY <2>5, <3>6, <3>7, <3>8
  (* The fixes that closed a batch are its own and were made meanwhile.    *)
  <2>10. ASSUME Closed(b), DatesInOrder(b), ~SharesDate(b)
         PROVE  Cardinality(ResolvedIn(b)) = target_fixes
    <3>1. b \in 0..(current_batch - 1)
      BY <2>1, <2>7, <2>10 DEF Closed
    <3>2. PICK l : IsLast(l, RowsOf(b)) /\ FixesAt(b, l) >= target_fixes
      BY <3>1 DEF IInv, ClosingInv
    <3> DEFINE fixes == CurrentFixes(batch_starts[b + 1], Created(l))
    <3>3. /\ f \in RowsOf(b) /\ l \in RowsOf(b) /\ f \in Rows /\ l \in Rows
          /\ \A i \in RowsOf(b) : f <= i /\ i <= l
      BY <2>4, <2>6, <3>2 DEF IsFirst, IsLast
    <3>4. ASSUME NEW i \in fixes PROVE i \in FixedMeanwhile(b)
      <4>1. /\ i \in Rows /\ Created(f) <= Created(i) /\ Created(i) <= Created(l)
            /\ Resolution(i) # None /\ Resolution(i) <= Created(l)
        BY <2>4 DEF CurrentFixes
      <4>2. i \in RowsOf(b)
        <5> SUFFICES ASSUME i \notin RowsOf(b) PROVE FALSE
          OBVIOUS
        <5>1. Created(f) # Created(i) /\ Created(i) # Created(l)
          BY <2>10, <3>3, <4>1 DEF SharesDate
        <5>2. ~(i <= f) /\ ~(l <= i)
          BY <2>5, <3>3, <4>1, <5>1
        <5>3. f <= i /\ i <= l /\ i \in 1..Len(batches) /\ f \in 1..Len(batches) /\ l \in 1..Len(batches)
          BY <2>5, <2>6, <3>3, <4>1, <5>2
        <5>4. /\ batches \in Seq(Nat) /\ DOMAIN batches = 1..Len(batches)
              /\ \A j, k \in DOMAIN batches : j <= k => batches[j] <= batches[k]
          BY DEF IInv, BatchesInv
        <5>5. batches[f] <= batches[i] /\ batches[i] <= batches[l] /\ batches[i] \in Nat
          BY <5>3, <5>4
        <5>6. batches[f] = b /\ batches[l] = b /\ b \in Nat
          BY <2>1, <3>3 DEF RowsOf
        <5>7. batches[i] = b
          BY <5>5, <5>6
        <5> QED BY <5>3, <5>4, <5>7 DEF RowsOf
      <4>3. Created(i) <= Resolution(i)
        BY <2>10, <4>1, <4>2 DEF DatesInOrder
      <4> QED BY <3>3, <4>1, <4>2, <4>3 DEF FixedMeanwhile
    <3>5. Cardinality(fixes) >= target_fixes
      BY <3>2 DEF FixesAt
    <3>6. /\ Cardinality(fixes) <= Cardinality(FixedMeanwhile(b))
          /\ Cardinality(FixedMeanwhile(b)) \in Nat
      <4>1. FixedMeanwhile(b) \in SUBSET (1..Len(reports))
        BY <2>5, <2>6
      <4>2. IsFiniteSet(FixedMeanwhile(b)) /\ Cardinality(FixedMeanwhile(b)) \in Nat
        BY <2>5, <4>1, RowsAreFinite
      <4>3. fixes \subseteq FixedMeanwhile(b)
        BY <3>4
      <4> QED BY <4>2, <4>3, FS_Subset
    <3>7. Cardinality(fixes) \in Nat
      BY <2>8
    <3> HIDE DEF fixes
    <3> QED BY <2>3, <2>5, <3>5, <3>6, <3>7
  <2> QED BY <2>2, <2>9, <2>10
<1> QED BY <1>1, Invariance, PTL

(* get_report_batches and get_interarrival_times: the counts of the batches*)
(* of a group add up to its reports, each counted between the heads it     *)
(* lies between, and the gaps add up to the time until the last head, for  *)
(* every group, data frame and length of a day.                            *)
THEOREM StreamsAddUp == Spec => []StreamAddsUp
<1>1. IInv => StreamAddsUp
  <2> SUFFICES ASSUME IInv, loop = "done", group # {}
               PROVE  /\ Total(interarrival_times) = Last(windows).batch_head - PeriodStart
                      /\ \A k \in DOMAIN windows :
                           windows[k].batch_count =
                             Cardinality({i \in group :
                               /\ windows[k].batch_head <= Created(i)
                               /\ k < Len(windows) => Created(i) < windows[k + 1].batch_head})
                      /\ TotalCount(windows) = Cardinality(group)
    BY DEF StreamAddsUp, Total, TotalCount
  <2>1. Reached = group
    BY DEF Reached
  <2>2. StreamOf(windows, group)
    BY <2>1 DEF IInv, WindowsInv
  <2>3. Total(interarrival_times) = Last(windows).batch_head - PeriodStart
    BY DEF IInv, GapsInv
  <2> QED BY <2>2, <2>3 DEF StreamOf, WithinWindow
<1> QED BY <1>1, Invariance, PTL
=============================================================================
