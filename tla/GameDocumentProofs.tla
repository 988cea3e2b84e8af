------------------------- MODULE GameDocumentProofs -------------------------
(***************************************************************************)
(* What holds of GameTable for every game, and of GameDocument for every   *)
(* size of the games opened, every bound and any sequence of edits, undos  *)
(* and redos: the iterator visits the profiles in the order of the table,  *)
(* edits change what the table says and nothing else, a dense table is     *)
(* read back as it was, and what undo and redo show was shown before.      *)
(***************************************************************************)
EXTENDS GameDocument, NumberLemmas, SequenceTheorems

-----------------------------------------------------------------------------
(* Products and sums of lists, computed from the left.                     *)

LEMMA ListIs ==
  ASSUME NEW T, NEW s \in Seq(T)
  PROVE  /\ Len(s) \in Nat /\ DOMAIN s = 1..Len(s) /\ s \in [1..Len(s) -> T]
         /\ \A i \in 1..Len(s) : s[i] \in T
OBVIOUS

LEMMA IsList ==
  ASSUME NEW T, NEW n \in Nat, NEW s \in [1..n -> T]
  PROVE  s \in Seq(T) /\ Len(s) = n /\ DOMAIN s = 1..n
OBVIOUS

LEMMA FirstOf ==
  ASSUME NEW T, NEW n \in Nat, NEW d \in [1..n -> T], NEW m \in 0..n
  PROVE  /\ SubSeq(d, 1, m) \in [1..m -> T] /\ SubSeq(d, 1, m) \in Seq(T)
         /\ Len(SubSeq(d, 1, m)) = m
         /\ \A i \in 1..m : SubSeq(d, 1, m)[i] = d[i]
<1>1. d \in Seq(T) /\ Len(d) = n
  OBVIOUS
<1>2. \A i \in 1..m : i \in 1..n
  OBVIOUS
<1>3. SubSeq(d, 1, m) \in Seq(T) /\ Len(SubSeq(d, 1, m)) = m
      /\ \A i \in 1..m : SubSeq(d, 1, m)[i] = d[i]
  BY <1>1, <1>2
<1>4. \A s \in Seq(T) : s \in [1..Len(s) -> T]
  OBVIOUS
<1> QED BY <1>3, <1>4

LEMMA ProductComputed ==
  ASSUME NEW n \in Nat, NEW d \in [1..n -> Nat], NEW f \in [0..n -> Nat],
         f[0] = 1, \A i \in 1..n : f[i] = f[i - 1] * d[i]
  PROVE  Product(d) = f[n]
<1> DEFINE Fits(g) == g = [i \in 0..n |-> IF i = 0 THEN 1 ELSE g[i - 1] * d[i]]
           upTo == CHOOSE g : Fits(g)
           S == {i \in 0..n : upTo[i] = f[i]}
<1>1. Product(d) = upTo[n]
  <2>1. Len(d) = n
    OBVIOUS
  <2> QED BY <2>1 DEF Product
<1>2. Fits(f)
  OBVIOUS
<1>3. \A i \in 0..n : upTo[i] = IF i = 0 THEN 1 ELSE upTo[i - 1] * d[i]
  <2>1. Fits(upTo)
    <3> HIDE DEF Fits
    <3> QED BY <1>2
  <2> HIDE DEF upTo
  <2> QED BY <2>1
<1> HIDE DEF upTo, Fits
<1>4. 0 \in S
  BY <1>3
<1>5. ASSUME NEW i \in 0..(n - 1), i \in S PROVE i + 1 \in S
  <2>1. i + 1 \in 0..n /\ i + 1 \in 1..n /\ i + 1 # 0 /\ (i + 1) - 1 = i
    OBVIOUS
  <2>2. upTo[i + 1] = upTo[(i + 1) - 1] * d[i + 1] /\ f[i + 1] = f[(i + 1) - 1] * d[i + 1]
    BY <1>3, <2>1
  <2> QED BY <1>5, <2>1, <2>2
<1>6. 0..n \subseteq S
  <2> HIDE DEF S
  <2> QED BY <1>4, <1>5, CountingFromZero
<1> QED BY <1>1, <1>6

LEMMA TotalComputed ==
  ASSUME NEW n \in Nat, NEW d \in [1..n -> Int], NEW f \in [0..n -> Int],
         f[0] = 0, \A i \in 1..n : f[i] = f[i - 1] + d[i]
  PROVE  Total(d) = f[n]
<1> DEFINE Fits(g) == g = [i \in 0..n |-> IF i = 0 THEN 0 ELSE g[i - 1] + d[i]]
           upTo == CHOOSE g : Fits(g)
           S == {i \in 0..n : upTo[i] = f[i]}
<1>1. Total(d) = upTo[n]
  <2>1. Len(d) = n
    OBVIOUS
  <2> QED BY <2>1 DEF Total
<1>2. Fits(f)
  OBVIOUS
<1>3. \A i \in 0..n : upTo[i] = IF i = 0 THEN 0 ELSE upTo[i - 1] + d[i]
  <2>1. Fits(upTo)
    <3> HIDE DEF Fits
    <3> QED BY <1>2
  <2> HIDE DEF upTo
  <2> QED BY <2>1
<1> HIDE DEF upTo, Fits
<1>4. 0 \in S
  BY <1>3
<1>5. ASSUME NEW i \in 0..(n - 1), i \in S PROVE i + 1 \in S
  <2>1. i + 1 \in 0..n /\ i + 1 \in 1..n /\ i + 1 # 0 /\ (i + 1) - 1 = i
    OBVIOUS
  <2>2. upTo[i + 1] = upTo[(i + 1) - 1] + d[i + 1] /\ f[i + 1] = f[(i + 1) - 1] + d[i + 1]
    BY <1>3, <2>1
  <2> QED BY <1>5, <2>1, <2>2
<1>6. 0..n \subseteq S
  <2> HIDE DEF S
  <2> QED BY <1>4, <1>5, CountingFromZero
<1> QED BY <1>1, <1>6

(* The product of the first i, and the sum of the first i.                 *)
Place(d, i) == Product(SubSeq(d, 1, i))
UpTo(list, i) == Total(SubSeq(list, 1, i))

LEMMA PlaceFacts ==
  ASSUME NEW n \in Nat, NEW d \in [1..n -> Nat]
  PROVE  /\ \A i \in 0..n : Place(d, i) \in Nat
         /\ Place(d, 0) = 1
         /\ \A i \in 1..n : Place(d, i) = Place(d, i - 1) * d[i]
         /\ Product(d) = Place(d, n)
<1> DEFINE F == [i \in 0..n |-> [x \in Nat |-> IF i = 0 THEN 0 ELSE x * d[i]]]
<1>1. PICK f \in [0..n -> Nat] : \A i \in 0..n : f[i] = IF i = 0 THEN 1 ELSE F[i][f[i - 1]]
  <2>1. F \in [0..n -> [Nat -> Nat]]
    <3>1. \A i \in 0..n : i = 0 \/ d[i] \in Nat
      OBVIOUS
    <3> QED BY <3>1
  <2>2. HasSolution(Nat, 0, n, 1, F)
    <3> HIDE DEF F
    <3>1. 0 \in Int /\ n \in Int /\ 0 <= n /\ 1 \in Nat /\ 0 \in Int
      OBVIOUS
    <3> QED BY <2>1, <3>1, RecursionExists
  <2> HIDE DEF F
  <2> QED BY <2>2 DEF HasSolution
<1>2. f[0] = 1 /\ \A i \in 1..n : f[i] = f[i - 1] * d[i]
  <2>1. \A i \in 1..n : i \in 0..n /\ i - 1 \in 0..n /\ i # 0
    OBVIOUS
  <2>2. \A i \in 1..n : f[i - 1] \in Nat
    BY <2>1
  <2>3. \A i \in 1..n : F[i][f[i - 1]] = f[i - 1] * d[i]
    BY <2>1, <2>2
  <2>4. 0 \in 0..n
    OBVIOUS
  <2> HIDE DEF F
  <2> QED BY <1>1, <2>1, <2>3, <2>4
<1> HIDE DEF F
<1>3. ASSUME NEW m \in 0..n PROVE Place(d, m) = f[m]
  <2> DEFINE first == SubSeq(d, 1, m)
             g == [i \in 0..m |-> f[i]]
  <2>1. first \in [1..m -> Nat] /\ \A i \in 1..m : first[i] = d[i]
    <3> DEFINE T == Nat
    <3>1. d \in [1..n -> T]
      OBVIOUS
    <3> HIDE DEF T
    <3>2. first \in [1..m -> T] /\ \A i \in 1..m : first[i] = d[i]
      BY <3>1, FirstOf
    <3> QED BY <3>2 DEF T
  <2>2. g \in [0..m -> Nat] /\ g[0] = 1 /\ \A i \in 1..m : g[i] = g[i - 1] * first[i]
    <3>1. \A i \in 0..m : i \in 0..n
      OBVIOUS
    <3>2. \A i \in 1..m : i \in 1..n /\ i \in 0..m /\ i - 1 \in 0..m
      OBVIOUS
    <3> HIDE DEF first
    <3> QED BY <1>2, <2>1, <3>1, <3>2
  <2>3. g[m] = f[m]
    OBVIOUS
  <2> HIDE DEF first, g
  <2>4. Product(first) = g[m]
    <3>1. m \in Nat
      OBVIOUS
    <3> QED BY <3>1, <2>1, <2>2, ProductComputed
  <2> QED BY <2>3, <2>4 DEF Place, first
<1>4. Product(d) = f[n]
  BY <1>2, ProductComputed
<1>5. \A i \in 1..n : i \in 0..n /\ i - 1 \in 0..n
  OBVIOUS
<1> QED BY <1>2, <1>3, <1>4, <1>5

LEMMA UpToFacts ==
  ASSUME NEW n \in Nat, NEW d \in [1..n -> Int]
  PROVE  /\ \A i \in 0..n : UpTo(d, i) \in Int
         /\ UpTo(d, 0) = 0
         /\ \A i \in 1..n : UpTo(d, i) = UpTo(d, i - 1) + d[i]
         /\ Total(d) = UpTo(d, n)
<1> DEFINE F == [i \in 0..n |-> [x \in Int |-> IF i = 0 THEN 0 ELSE x + d[i]]]
<1>1. PICK f \in [0..n -> Int] : \A i \in 0..n : f[i] = IF i = 0 THEN 0 ELSE F[i][f[i - 1]]
  <2>1. F \in [0..n -> [Int -> Int]]
    <3>1. \A i \in 0..n : i = 0 \/ d[i] \in Int
      OBVIOUS
    <3> QED BY <3>1
  <2>2. HasSolution(Int, 0, n, 0, F)
    <3> HIDE DEF F
    <3>1. 0 \in Int /\ n \in Int /\ 0 <= n /\ 1 \in Nat /\ 0 \in Int
      OBVIOUS
    <3> QED BY <2>1, <3>1, RecursionExists
  <2> HIDE DEF F
  <2> QED BY <2>2 DEF HasSolution
<1>2. f[0] = 0 /\ \A i \in 1..n : f[i] = f[i - 1] + d[i]
  <2>1. \A i \in 1..n : i \in 0..n /\ i - 1 \in 0..n /\ i # 0
    OBVIOUS
  <2>2. \A i \in 1..n : f[i - 1] \in Int
    BY <2>1
  <2>3. \A i \in 1..n : F[i][f[i - 1]] = f[i - 1] + d[i]
    BY <2>1, <2>2
  <2>4. 0 \in 0..n
    OBVIOUS
  <2> HIDE DEF F
  <2> QED BY <1>1, <2>1, <2>3, <2>4
<1> HIDE DEF F
<1>3. ASSUME NEW m \in 0..n PROVE UpTo(d, m) = f[m]
  <2> DEFINE first == SubSeq(d, 1, m)
             g == [i \in 0..m |-> f[i]]
  <2>1. first \in [1..m -> Int] /\ \A i \in 1..m : first[i] = d[i]
    BY FirstOf
  <2>2. g \in [0..m -> Int] /\ g[0] = 0 /\ \A i \in 1..m : g[i] = g[i - 1] + first[i]
    <3>1. \A i \in 0..m : i \in 0..n
      OBVIOUS
    <3>2. \A i \in 1..m : i \in 1..n /\ i \in 0..m /\ i - 1 \in 0..m
      OBVIOUS
    <3> HIDE DEF first
    <3> QED BY <1>2, <2>1, <3>1, <3>2
  <2>3. g[m] = f[m]
    OBVIOUS
  <2> HIDE DEF first, g
  <2>4. Total(first) = g[m]
    <3>1. m \in Nat
      OBVIOUS
    <3> QED BY <3>1, <2>1, <2>2, TotalComputed
  <2> QED BY <2>3, <2>4 DEF UpTo, first
<1>4. Total(d) = f[n]
  BY <1>2, TotalComputed
<1>5. \A i \in 1..n : i \in 0..n /\ i - 1 \in 0..n
  OBVIOUS
<1> QED BY <1>2, <1>3, <1>4, <1>5

-----------------------------------------------------------------------------
(* Profiles counted: the position of the first player's strategy counts    *)
(* ones, that of the next as many as the first has strategies, and so on.  *)

Positions(d) == {p \in [DOMAIN d -> Nat \ {0}] : \A pl \in DOMAIN d : p[pl] <= d[pl]}
Steps(d, p) == [pl \in DOMAIN d |-> (p[pl] - 1) * Place(d, pl - 1)]
Rank(d, p) == 1 + Total(Steps(d, p))

LEMMA PlacesPositive ==
  ASSUME NEW n \in Nat, NEW d \in [1..n -> Nat \ {0}]
  PROVE  \A i \in 0..n : Place(d, i) \in Nat \ {0}
<1> DEFINE S == {i \in 0..n : Place(d, i) # 0}
<1>1. d \in [1..n -> Nat]
  OBVIOUS
<1>2. 0 \in S
  BY <1>1, PlaceFacts
<1>3. ASSUME NEW i \in 0..(n - 1), i \in S PROVE i + 1 \in S
  <2>1. i + 1 \in 0..n /\ i + 1 \in 1..n /\ (i + 1) - 1 = i /\ i \in 0..n
    OBVIOUS
  <2>2. Place(d, i + 1) = Place(d, (i + 1) - 1) * d[i + 1]
    BY <1>1, <2>1, PlaceFacts
  <2>3. Place(d, i) \in Nat \ {0} /\ d[i + 1] \in Nat \ {0}
    BY <1>1, <1>3, <2>1, PlaceFacts
  <2>4. \A a, b \in Nat \ {0} : a * b # 0
    OBVIOUS
  <2> QED BY <2>1, <2>2, <2>3, <2>4
<1>4. 0..n \subseteq S
  <2> HIDE DEF S
  <2> QED BY <1>2, <1>3, CountingFromZero
<1> QED BY <1>1, <1>4, PlaceFacts

LEMMA StepsFacts ==
  ASSUME NEW n \in Nat, NEW d \in [1..n -> Nat \ {0}], NEW p \in Positions(d)
  PROVE  /\ p \in [1..n -> Nat \ {0}] /\ \A i \in 1..n : p[i] <= d[i]
         /\ Steps(d, p) \in [1..n -> Int]
         /\ UpTo(Steps(d, p), 0) = 0
         /\ \A i \in 0..n : UpTo(Steps(d, p), i) \in 0..(Place(d, i) - 1)
         /\ \A i \in 1..n : UpTo(Steps(d, p), i) =
                              UpTo(Steps(d, p), i - 1) + (p[i] - 1) * Place(d, i - 1)
         /\ Rank(d, p) = 1 + UpTo(Steps(d, p), n)
<1> DEFINE s(i) == UpTo(Steps(d, p), i)
           S == {i \in 0..n : s(i) \in 0..(Place(d, i) - 1)}
<1>1. DOMAIN d = 1..n /\ d \in [1..n -> Nat]
  OBVIOUS
<1>2. p \in [1..n -> Nat \ {0}] /\ \A i \in 1..n : p[i] <= d[i]
  BY <1>1 DEF Positions
<1>3. \A i \in 0..n : Place(d, i) \in Nat \ {0}
  BY PlacesPositive
<1>4. Steps(d, p) \in [1..n -> Int] /\ \A i \in 1..n : Steps(d, p)[i] = (p[i] - 1) * Place(d, i - 1)
  <2>1. \A i \in 1..n : (p[i] - 1) * Place(d, i - 1) \in Int
    <3> SUFFICES ASSUME NEW i \in 1..n PROVE (p[i] - 1) * Place(d, i - 1) \in Int
      OBVIOUS
    <3>1. i - 1 \in 0..n
      OBVIOUS
    <3>2. Place(d, i - 1) \in Nat /\ p[i] - 1 \in Int
      BY <1>2, <1>3, <3>1
    <3> QED BY <3>2
  <2> QED BY <1>1, <2>1 DEF Steps
<1>5. /\ s(0) = 0 /\ \A i \in 0..n : s(i) \in Int
      /\ \A i \in 1..n : s(i) = s(i - 1) + (p[i] - 1) * Place(d, i - 1)
      /\ Total(Steps(d, p)) = s(n)
  BY <1>4, UpToFacts, ZenonT(60)
<1> HIDE DEF s
<1>6. 0 \in S
  BY <1>1, <1>5, PlaceFacts
<1>7. ASSUME NEW i \in 0..(n - 1), i \in S PROVE i + 1 \in S
  <2> DEFINE w == Place(d, i)
             x == p[i + 1]
             y == d[i + 1]
  <2>1. i + 1 \in 0..n /\ i + 1 \in 1..n /\ (i + 1) - 1 = i /\ i \in 0..n
    OBVIOUS
  <2>2. w \in Nat /\ x \in Nat \ {0} /\ y \in Nat \ {0} /\ x <= y /\ s(i) \in 0..(w - 1)
    BY <1>2, <1>3, <1>7, <2>1
  <2>3. s(i + 1) = s(i) + (x - 1) * w /\ Place(d, i + 1) = w * y
    <3>1. s(i + 1) = s((i + 1) - 1) + (p[i + 1] - 1) * Place(d, (i + 1) - 1)
      BY <1>5, <2>1
    <3>2. Place(d, i + 1) = Place(d, (i + 1) - 1) * d[i + 1]
      BY <1>1, <2>1, PlaceFacts
    <3> QED BY <2>1, <3>1, <3>2
  <2> HIDE DEF w, x, y
  <2>4. y - x \in Nat /\ x - 1 \in Nat
    BY <2>2
  <2>5. w * y = (x - 1) * w + w + (y - x) * w /\ (y - x) * w >= 0 /\ (x - 1) * w >= 0
        /\ (x - 1) * w \in Int /\ (y - x) * w \in Int
    BY <2>2, <2>4
  <2>6. s(i + 1) >= 0 /\ s(i + 1) <= Place(d, i + 1) - 1 /\ s(i + 1) \in Int
    <3> DEFINE u == (x - 1) * w
               v == (y - x) * w
               r == s(i)
    <3>1. u \in Int /\ v \in Int /\ u >= 0 /\ v >= 0 /\ r \in 0..(w - 1) /\ w \in Nat
      BY <2>2, <2>5
    <3>2. s(i + 1) = r + u /\ Place(d, i + 1) = u + w + v
      BY <2>3, <2>5
    <3> HIDE DEF u, v, r
    <3> QED BY <3>1, <3>2
  <2>7. Place(d, i + 1) \in Int
    BY <1>3, <2>1
  <2> QED BY <2>1, <2>6, <2>7
<1>8. 0..n \subseteq S
  <2> HIDE DEF S
  <2> QED BY <1>6, <1>7, CountingFromZero
<1> QED BY <1>2, <1>4, <1>5, <1>8 DEF s, Rank

LEMMA DigitsUnique ==
  ASSUME NEW w \in Nat \ {0}, NEW a \in Nat, NEW b \in Nat,
         NEW r \in 0..(w - 1), NEW t \in 0..(w - 1), r + a * w = t + b * w
  PROVE  a = b /\ r = t
<1>1. w * a + r = w * b + t
  OBVIOUS
<1>2. (w * a + r) \div w = a /\ (w * a + r) % w = r
  BY DivisionIsUnique
<1>3. (w * b + t) \div w = b /\ (w * b + t) % w = t
  BY DivisionIsUnique
<1> QED BY <1>1, <1>2, <1>3

LEMMA RankOneToOne ==
  ASSUME NEW n \in Nat, NEW d \in [1..n -> Nat \ {0}],
         NEW p \in Positions(d), NEW q \in Positions(d), Rank(d, p) = Rank(d, q)
  PROVE  p = q
<1> DEFINE s(i) == UpTo(Steps(d, p), i)
           t(i) == UpTo(Steps(d, q), i)
           S == {i \in 0..n : s(i) = t(i) => \A j \in 1..i : p[j] = q[j]}
<1>1. /\ p \in [1..n -> Nat \ {0}] /\ q \in [1..n -> Nat \ {0}]
      /\ \A i \in 0..n : s(i) \in 0..(Place(d, i) - 1) /\ t(i) \in 0..(Place(d, i) - 1)
      /\ \A i \in 1..n : s(i) = s(i - 1) + (p[i] - 1) * Place(d, i - 1)
      /\ \A i \in 1..n : t(i) = t(i - 1) + (q[i] - 1) * Place(d, i - 1)
      /\ 1 + s(n) = 1 + t(n)
  <2>1. /\ p \in [1..n -> Nat \ {0}]
        /\ \A i \in 0..n : s(i) \in 0..(Place(d, i) - 1)
        /\ \A i \in 1..n : s(i) = s(i - 1) + (p[i] - 1) * Place(d, i - 1)
        /\ Rank(d, p) = 1 + s(n)
    BY StepsFacts
  <2>2. /\ q \in [1..n -> Nat \ {0}]
        /\ \A i \in 0..n : t(i) \in 0..(Place(d, i) - 1)
        /\ \A i \in 1..n : t(i) = t(i - 1) + (q[i] - 1) * Place(d, i - 1)
        /\ Rank(d, q) = 1 + t(n)
    BY StepsFacts
  <2> HIDE DEF s, t
  <2> QED BY <2>1, <2>2
<1>2. \A i \in 0..n : Place(d, i) \in Nat \ {0}
  BY PlacesPositive
<1> HIDE DEF s, t
<1>3. 0 \in S
  OBVIOUS
<1>4. ASSUME NEW i \in 0..(n - 1), i \in S PROVE i + 1 \in S
  <2> SUFFICES ASSUME s(i + 1) = t(i + 1) PROVE \A j \in 1..(i + 1) : p[j] = q[j]
    OBVIOUS
  <2>1. i + 1 \in 0..n /\ i + 1 \in 1..n /\ (i + 1) - 1 = i /\ i \in 0..n
    OBVIOUS
  <2> DEFINE w == Place(d, i)
             a == p[i + 1] - 1
             b == q[i + 1] - 1
  <2>2. w \in Nat \ {0} /\ a \in Nat /\ b \in Nat /\ s(i) \in 0..(w - 1) /\ t(i) \in 0..(w - 1)
        /\ p[i + 1] = a + 1 /\ q[i + 1] = b + 1
    <3>1. p[i + 1] \in Nat \ {0} /\ q[i + 1] \in Nat \ {0}
      BY <1>1, <2>1
    <3>2. w \in Nat \ {0} /\ s(i) \in 0..(w - 1) /\ t(i) \in 0..(w - 1)
      BY <1>1, <1>2, <2>1
    <3>3. \A x \in Nat \ {0} : x - 1 \in Nat /\ x = (x - 1) + 1
      OBVIOUS
    <3>4. a \in Nat /\ p[i + 1] = a + 1 /\ b \in Nat /\ q[i + 1] = b + 1
      BY <3>1, <3>3
    <3> HIDE DEF w, a, b
    <3> QED BY <3>2, <3>4
  <2>3. s(i) + a * w = t(i) + b * w
    <3>1. s(i + 1) = s((i + 1) - 1) + (p[i + 1] - 1) * Place(d, (i + 1) - 1)
      BY <1>1, <2>1
    <3>2. t(i + 1) = t((i + 1) - 1) + (q[i + 1] - 1) * Place(d, (i + 1) - 1)
      BY <1>1, <2>1
    <3> QED BY <2>1, <3>1, <3>2
  <2> HIDE DEF w, a, b
  <2>4. a = b /\ s(i) = t(i)
    <3> DEFINE r == s(i)
               u == t(i)
    <3> HIDE DEF r, u
    <3>1. r \in 0..(w - 1) /\ u \in 0..(w - 1) /\ r + a * w = u + b * w
      BY <2>2, <2>3 DEF r, u
    <3>2. a = b /\ r = u
      BY <2>2, <3>1, DigitsUnique
    <3> QED BY <3>2 DEF r, u
  <2>5. \A j \in 1..(i + 1) : j \in 1..i \/ j = i + 1
    OBVIOUS
  <2> QED BY <1>4, <2>2, <2>4, <2>5
<1>5. 0..n \subseteq S
  <2> HIDE DEF S
  <2> QED BY <1>3, <1>4, CountingFromZero
<1>6. s(n) = t(n)
  <2>1. s(n) \in Int /\ t(n) \in Int
    <3>1. n \in 0..n /\ Place(d, n) \in Int
      BY <1>2
    <3>2. \A k \in 0..(Place(d, n) - 1) : k \in Int
      BY <3>1
    <3> QED BY <1>1, <3>1, <3>2
  <2> QED BY <1>1, <2>1
<1>7. n \in S
  BY <1>5
<1>8. \A j \in 1..n : p[j] = q[j]
  BY <1>6, <1>7
<1> QED BY <1>1, <1>8

-----------------------------------------------------------------------------
(* The iterator counts.                                                    *)

LEMMA AllAtLast ==
  ASSUME NEW n \in Nat, NEW d \in [1..n -> Nat \ {0}], NEW p \in Positions(d),
         NEW m \in 0..n, \A j \in 1..m : p[j] = d[j]
  PROVE  UpTo(Steps(d, p), m) = Place(d, m) - 1
<1> DEFINE s(i) == UpTo(Steps(d, p), i)
           S == {i \in 0..m : s(i) = Place(d, i) - 1}
<1>1. /\ s(0) = 0
      /\ \A i \in 1..n : s(i) = s(i - 1) + (p[i] - 1) * Place(d, i - 1)
  BY StepsFacts
<1>2. d \in [1..n -> Nat]
  OBVIOUS
<1>3. Place(d, 0) = 1 /\ \A i \in 0..n : Place(d, i) \in Nat
  BY <1>2, PlaceFacts
<1> HIDE DEF s
<1>4. 0 \in S
  BY <1>1, <1>3
<1>5. ASSUME NEW i \in 0..(m - 1), i \in S PROVE i + 1 \in S
  <2>1. i + 1 \in 0..m /\ i + 1 \in 1..m /\ i + 1 \in 1..n /\ (i + 1) - 1 = i /\ i \in 0..n
    OBVIOUS
  <2> DEFINE w == Place(d, i)
             y == d[i + 1]
  <2>2. w \in Nat /\ y \in Nat
    BY <1>3, <2>1
  <2>3. s(i + 1) = s((i + 1) - 1) + (p[i + 1] - 1) * Place(d, (i + 1) - 1)
    BY <1>1, <2>1
  <2>4. Place(d, i + 1) = Place(d, (i + 1) - 1) * d[i + 1]
    BY <1>2, <2>1, PlaceFacts
  <2>5. p[i + 1] = y /\ s(i) = w - 1
    BY <1>5, <2>1
  <2>6. s(i + 1) = (w - 1) + (y - 1) * w /\ Place(d, i + 1) = w * y
    BY <2>1, <2>3, <2>4, <2>5
  <2> HIDE DEF w, y
  <2>7. (w - 1) + (y - 1) * w = w * y - 1
    BY <2>2
  <2> QED BY <2>1, <2>6, <2>7
<1>6. 0..m \subseteq S
  <2>1. m \in Nat
    OBVIOUS
  <2> HIDE DEF S
  <2> QED BY <1>4, <1>5, <2>1, CountingFromZero
<1>7. m \in 0..m
  OBVIOUS
<1> QED BY <1>6, <1>7 DEF s

LEMMA RankRange ==
  ASSUME NEW n \in Nat, NEW d \in [1..n -> Nat \ {0}], NEW p \in Positions(d)
  PROVE  Product(d) \in Nat \ {0} /\ Rank(d, p) \in 1..Product(d)
<1>1. d \in [1..n -> Nat] /\ n \in 0..n
  OBVIOUS
<1>2. Product(d) = Place(d, n) /\ Place(d, n) \in Nat \ {0}
  BY <1>1, PlaceFacts, PlacesPositive
<1> DEFINE s == UpTo(Steps(d, p), n)
<1>3. s \in 0..(Place(d, n) - 1) /\ Rank(d, p) = 1 + s
  BY <1>1, StepsFacts
<1> HIDE DEF s
<1> QED BY <1>2, <1>3

(* The player who moves on.                                                *)
Moves(d, p, i) == i \in DOMAIN d /\ p[i] < d[i] /\ \A j \in 1..(i - 1) : p[j] = d[j]

LEMMA MoverExists ==
  ASSUME NEW n \in Nat, NEW d \in [1..n -> Nat \ {0}], NEW p \in Positions(d), ~AtLast(d, p)
  PROVE  \E i \in 1..n : Moves(d, p, i)
<1>1. DOMAIN d = 1..n /\ p \in [1..n -> Nat \ {0}] /\ \A i \in 1..n : p[i] <= d[i]
  BY DEF Positions
<1> DEFINE P == {i \in 1..n : p[i] # d[i]}
<1>2. P \in SUBSET (1..n) /\ P # {}
  BY <1>1 DEF AtLast
<1>3. PICK i \in P : \A j \in P : i <= j
  <2> HIDE DEF P
  <2> QED BY <1>2, SmallestExists
<1>4. p[i] < d[i]
  <2>1. p[i] \in Nat /\ d[i] \in Nat /\ p[i] <= d[i] /\ p[i] # d[i]
    BY <1>1
  <2> QED BY <2>1
<1>5. ASSUME NEW j \in 1..(i - 1) PROVE p[j] = d[j]
  <2>1. j \in 1..n /\ ~(i <= j)
    OBVIOUS
  <2> QED BY <1>3, <2>1
<1> QED BY <1>1, <1>4, <1>5 DEF Moves

LEMMA AdvanceIs ==
  ASSUME NEW n \in Nat, NEW d \in [1..n -> Nat \ {0}], NEW p \in Positions(d),
         NEW pl \in 1..n, Moves(d, p, pl)
  PROVE  Advance(d, p) = [j \in 1..n |-> IF j < pl THEN 1 ELSE IF j = pl THEN p[pl] + 1 ELSE p[j]]
<1> DEFINE first == CHOOSE i \in DOMAIN d : p[i] < d[i] /\ \A j \in 1..(i - 1) : p[j] = d[j]
<1>1. DOMAIN d = 1..n /\ p \in [1..n -> Nat \ {0}]
  BY DEF Positions
<1>2. ~AtLast(d, p)
  <2>1. p[pl] < d[pl] /\ pl \in DOMAIN d /\ p[pl] \in Nat /\ d[pl] \in Nat
    BY <1>1 DEF Moves
  <2>2. p[pl] # d[pl]
    BY <2>1
  <2> QED BY <2>1, <2>2 DEF AtLast
<1>3. \A i : Moves(d, p, i) => i = pl
  <2> SUFFICES ASSUME NEW i, Moves(d, p, i) PROVE i = pl
    OBVIOUS
  <2>1. i \in 1..n /\ p[i] # d[i] /\ p[pl] # d[pl]
    <3>1. i \in 1..n /\ p[i] \in Nat /\ d[i] \in Nat /\ p[pl] \in Nat /\ d[pl] \in Nat
      BY <1>1 DEF Moves
    <3> QED BY <3>1 DEF Moves
  <2>2. ~(i < pl)
    <3>1. i < pl => i \in 1..(pl - 1)
      BY <2>1
    <3> QED BY <2>1, <3>1 DEF Moves
  <2>3. ~(pl < i)
    <3>1. pl < i => pl \in 1..(i - 1)
      BY <2>1
    <3> QED BY <2>1, <3>1 DEF Moves
  <2> QED BY <2>1, <2>2, <2>3
<1>4. first = pl
  <2>1. first = CHOOSE i : Moves(d, p, i)
    BY DEF Moves
  <2> HIDE DEF first
  <2> QED BY <1>3, <2>1
<1>5. Advance(d, p) =
        [j \in DOMAIN d |-> CASE j < first -> 1 [] j = first -> p[j] + 1 [] j > first -> p[j]]
  BY <1>2 DEF Advance
<1> HIDE DEF first
<1> QED BY <1>1, <1>4, <1>5

LEMMA AllAtFirst ==
  ASSUME NEW n \in Nat, NEW d \in [1..n -> Nat \ {0}], NEW p \in Positions(d),
         NEW m \in 0..n, \A j \in 1..m : p[j] = 1
  PROVE  UpTo(Steps(d, p), m) = 0
<1> DEFINE s(i) == UpTo(Steps(d, p), i)
           S == {i \in 0..m : s(i) = 0}
<1>1. /\ s(0) = 0
      /\ \A i \in 1..n : s(i) = s(i - 1) + (p[i] - 1) * Place(d, i - 1)
  BY StepsFacts
<1>2. \A i \in 0..n : Place(d, i) \in Nat
  BY PlacesPositive
<1> HIDE DEF s
<1>3. 0 \in S
  BY <1>1
<1>4. ASSUME NEW i \in 0..(m - 1), i \in S PROVE i + 1 \in S
  <2>1. i + 1 \in 0..m /\ i + 1 \in 1..m /\ i + 1 \in 1..n /\ (i + 1) - 1 = i /\ i \in 0..n
    OBVIOUS
  <2>2. s(i + 1) = s((i + 1) - 1) + (p[i + 1] - 1) * Place(d, (i + 1) - 1)
    BY <1>1, <2>1
  <2>3. p[i + 1] = 1 /\ s(i) = 0 /\ Place(d, i) \in Nat
    BY <1>2, <1>4, <2>1
  <2>4. s(i + 1) = 0 + (1 - 1) * Place(d, i)
    BY <2>1, <2>2, <2>3
  <2>5. \A w \in Nat : 0 + (1 - 1) * w = 0
    OBVIOUS
  <2> QED BY <2>1, <2>3, <2>4, <2>5
<1>5. 0..m \subseteq S
  <2>1. m \in Nat
    OBVIOUS
  <2> HIDE DEF S
  <2> QED BY <1>3, <1>4, <2>1, CountingFromZero
<1>6. m \in 0..m
  OBVIOUS
<1> QED BY <1>5, <1>6 DEF s

LEMMA AdvanceCounts ==
  ASSUME NEW n \in Nat, NEW d \in [1..n -> Nat \ {0}], NEW p \in Positions(d), ~AtLast(d, p)
  PROVE  Advance(d, p) \in Positions(d) /\ Rank(d, Advance(d, p)) = Rank(d, p) + 1
<1>1. PICK pl \in 1..n : Moves(d, p, pl)
  BY MoverExists
<1> DEFINE q == Advance(d, p)
           s(i) == UpTo(Steps(d, p), i)
           t(i) == UpTo(Steps(d, q), i)
           S == {i \in 0..n : i >= pl => t(i) = s(i) + 1}
<1>2. q = [j \in 1..n |-> IF j < pl THEN 1 ELSE IF j = pl THEN p[pl] + 1 ELSE p[j]]
  BY <1>1, AdvanceIs
<1>3. DOMAIN d = 1..n /\ p \in [1..n -> Nat \ {0}] /\ \A i \in 1..n : p[i] <= d[i]
  BY DEF Positions
<1>4. p[pl] < d[pl] /\ \A j \in 1..(pl - 1) : p[j] = d[j]
  BY <1>1 DEF Moves
<1>5. q \in Positions(d)
  <2>1. \A j \in 1..n : q[j] \in Nat \ {0} /\ q[j] <= d[j]
    <3> SUFFICES ASSUME NEW j \in 1..n PROVE q[j] \in Nat \ {0} /\ q[j] <= d[j]
      OBVIOUS
    <3>1. p[j] \in Nat \ {0} /\ d[j] \in Nat \ {0} /\ p[j] <= d[j]
      BY <1>3
    <3>2. q[j] = IF j < pl THEN 1 ELSE IF j = pl THEN p[j] + 1 ELSE p[j]
      BY <1>2
    <3> HIDE DEF q
    <3> QED BY <1>4, <3>1, <3>2
  <2>2. q \in [1..n -> Nat \ {0}]
    <3>1. DOMAIN q = 1..n /\ q = [j \in 1..n |-> q[j]]
      BY <1>2
    <3> HIDE DEF q
    <3> QED BY <2>1, <3>1
  <2> HIDE DEF q
  <2> QED BY <1>3, <2>1, <2>2 DEF Positions
<1> HIDE DEF q
<1>6. /\ \A i \in 1..n : s(i) = s(i - 1) + (p[i] - 1) * Place(d, i - 1)
      /\ \A i \in 0..n : s(i) \in 0..(Place(d, i) - 1)
      /\ Rank(d, p) = 1 + s(n)
  BY StepsFacts
<1>7. /\ \A i \in 1..n : t(i) = t(i - 1) + (q[i] - 1) * Place(d, i - 1)
      /\ Rank(d, q) = 1 + t(n)
  BY <1>5, StepsFacts
<1>8. pl - 1 \in 0..n /\ pl \in Nat
  OBVIOUS
<1>9. s(pl - 1) = Place(d, pl - 1) - 1
  BY <1>4, <1>8, AllAtLast
<1>10. t(pl - 1) = 0
  <2>1. \A j \in 1..(pl - 1) : j \in 1..n /\ j < pl
    OBVIOUS
  <2>2. \A j \in 1..(pl - 1) : q[j] = 1
    BY <1>2, <2>1
  <2> QED BY <1>5, <1>8, <2>2, AllAtFirst
<1>11. \A i \in 0..n : Place(d, i) \in Nat \ {0}
  BY PlacesPositive
<1> HIDE DEF s, t
<1>12. t(pl) = s(pl) + 1
  <2> DEFINE w == Place(d, pl - 1)
             x == p[pl]
  <2>1. w \in Nat /\ x \in Nat
    BY <1>3, <1>8, <1>11
  <2>2. s(pl) = (w - 1) + (x - 1) * w
    BY <1>6, <1>9
  <2>3. t(pl) = 0 + ((x + 1) - 1) * w
    <3>1. q[pl] = x + 1
      BY <1>2
    <3> QED BY <1>7, <1>10, <3>1
  <2> HIDE DEF w, x
  <2>4. 0 + ((x + 1) - 1) * w = (w - 1) + (x - 1) * w + 1
    BY <2>1
  <2> QED BY <2>2, <2>3, <2>4
<1>13. 0 \in S
  BY <1>8
<1>14. ASSUME NEW i \in 0..(n - 1), i \in S PROVE i + 1 \in S
  <2>1. i + 1 \in 0..n /\ i + 1 \in 1..n /\ (i + 1) - 1 = i /\ i \in 0..n
    OBVIOUS
  <2>2. CASE i + 1 < pl
    BY <2>1, <2>2
  <2>3. CASE i + 1 = pl
    BY <1>12, <2>1, <2>3
  <2>4. CASE i + 1 > pl
    <3>1. i >= pl /\ q[i + 1] = p[i + 1]
      BY <1>2, <2>1, <2>4
    <3>2. t(i) = s(i) + 1
      BY <1>14, <3>1
    <3>3. s(i + 1) = s((i + 1) - 1) + (p[i + 1] - 1) * Place(d, (i + 1) - 1)
      BY <1>6, <2>1
    <3>4. t(i + 1) = t((i + 1) - 1) + (q[i + 1] - 1) * Place(d, (i + 1) - 1)
      BY <1>7, <2>1
    <3> DEFINE c == (p[i + 1] - 1) * Place(d, i)
               r == s(i)
    <3>5. c \in Int /\ r \in Int
      <4>1. p[i + 1] - 1 \in Int /\ Place(d, i) \in Int
        BY <1>3, <1>11, <2>1
      <4>2. r \in 0..(Place(d, i) - 1)
        BY <1>6, <2>1
      <4>3. \A a, b \in Int : a * b \in Int
        OBVIOUS
      <4> QED BY <4>1, <4>2, <4>3
    <3>6. s(i + 1) = r + c /\ t(i + 1) = (r + 1) + c
      BY <2>1, <3>1, <3>2, <3>3, <3>4
    <3> HIDE DEF c, r
    <3>7. t(i + 1) = s(i + 1) + 1
      BY <3>5, <3>6
    <3> QED BY <2>1, <3>7
  <2> QED BY <1>8, <2>1, <2>2, <2>3, <2>4
<1>15. 0..n \subseteq S
  <2> HIDE DEF S
  <2> QED BY <1>13, <1>14, CountingFromZero
<1>16. t(n) = s(n) + 1
  <2>1. n \in 0..n /\ n >= pl
    OBVIOUS
  <2> QED BY <1>15, <2>1
<1>17. s(n) \in Int
  <2>1. n \in 0..n /\ Place(d, n) \in Int
    BY <1>11
  <2>2. \A k \in 0..(Place(d, n) - 1) : k \in Int
    BY <2>1
  <2> QED BY <1>6, <2>1, <2>2
<1> QED BY <1>5, <1>6, <1>7, <1>16, <1>17 DEF q

LEMMA LastHasLastRank ==
  ASSUME NEW n \in Nat, NEW d \in [1..n -> Nat \ {0}], NEW p \in Positions(d), AtLast(d, p)
  PROVE  Rank(d, p) = Product(d)
<1>1. n \in 0..n /\ DOMAIN d = 1..n /\ d \in [1..n -> Nat]
  OBVIOUS
<1>2. UpTo(Steps(d, p), n) = Place(d, n) - 1
  BY <1>1, AllAtLast DEF AtLast
<1>3. Rank(d, p) = 1 + (Place(d, n) - 1)
  BY <1>2, StepsFacts
<1>4. Product(d) = Place(d, n) /\ Place(d, n) \in Nat
  BY <1>1, PlaceFacts
<1> QED BY <1>3, <1>4

(* The k-th profile visited has rank k, so all are visited, each once.     *)
THEOREM IteratedCounts ==
  ASSUME NEW n \in Nat, NEW d \in [1..n -> Nat \ {0}]
  PROVE  /\ Product(d) \in Nat \ {0}
         /\ Iterated(d) \in [1..Product(d) -> Positions(d)]
         /\ \A k \in 1..Product(d) : Rank(d, Iterated(d)[k]) = k
         /\ \A p \in Positions(d) : Rank(d, p) \in 1..Product(d) /\ Iterated(d)[Rank(d, p)] = p
<1> DEFINE K == Product(d)
           T == Positions(d)
           Fits(g) == g = [k \in 1..K |-> IF k = 1 THEN First(d) ELSE Advance(d, g[k - 1])]
           visited == CHOOSE g : Fits(g)
           F == [k \in 1..K |-> [p \in T |-> IF AtLast(d, p) THEN First(d) ELSE Advance(d, p)]]
<1>1. DOMAIN d = 1..n
  OBVIOUS
<1>2. First(d) \in T /\ Rank(d, First(d)) = 1
  <2>1. First(d) \in T
    BY <1>1 DEF First, Positions
  <2>2. n \in 0..n /\ \A j \in 1..n : First(d)[j] = 1
    BY <1>1 DEF First
  <2>3. UpTo(Steps(d, First(d)), n) = 0
    BY <2>1, <2>2, AllAtFirst
  <2>4. Rank(d, First(d)) = 1 + 0
    BY <2>1, <2>3, StepsFacts
  <2> QED BY <2>1, <2>4
<1>3. K \in Nat \ {0}
  BY <1>2, RankRange
<1>4. \A p \in T : Advance(d, p) \in T
  <2> SUFFICES ASSUME NEW p \in T PROVE Advance(d, p) \in T
    OBVIOUS
  <2>1. CASE AtLast(d, p)
    BY <1>2, <2>1 DEF Advance
  <2>2. CASE ~AtLast(d, p)
    BY <2>2, AdvanceCounts
  <2> QED BY <2>1, <2>2
<1> HIDE DEF T
<1>5. PICK f \in [1..K -> T] : \A k \in 1..K : f[k] = IF k = 1 THEN First(d) ELSE F[k][f[k - 1]]
  <2>1. F \in [1..K -> [T -> T]]
    BY <1>2, <1>4
  <2>2. HasSolution(T, 1, K, First(d), F)
    <3>1. 1 \in Int /\ K \in Int /\ 1 <= K
      BY <1>3
    <3> HIDE DEF F, K
    <3> QED BY <1>2, <2>1, <3>1, RecursionExists
  <2> HIDE DEF F
  <2> QED BY <2>2 DEF HasSolution
<1>6. \A k \in 1..K : k # 1 => k - 1 \in 1..K
  BY <1>3
<1>7. Fits(f)
  <2>1. \A k \in 1..K : f[k] = IF k = 1 THEN First(d) ELSE Advance(d, f[k - 1])
    <3> SUFFICES ASSUME NEW k \in 1..K, k # 1 PROVE F[k][f[k - 1]] = Advance(d, f[k - 1])
      BY <1>5
    <3>1. f[k - 1] \in T
      BY <1>5, <1>6
    <3>2. F[k][f[k - 1]] = IF AtLast(d, f[k - 1]) THEN First(d) ELSE Advance(d, f[k - 1])
      BY <3>1
    <3> QED BY <3>2 DEF Advance
  <2>2. f = [k \in 1..K |-> f[k]]
    BY <1>5
  <2> QED BY <2>1, <2>2
<1>8. Iterated(d) = visited
  BY DEF Iterated
<1>9. Fits(visited)
  <2> HIDE DEF Fits
  <2> QED BY <1>7
<1> HIDE DEF visited, F
<1>10. \A k \in 1..K : visited[k] = IF k = 1 THEN First(d) ELSE Advance(d, visited[k - 1])
  BY <1>9
<1>11. visited = [k \in 1..K |-> visited[k]]
  BY <1>9
<1> HIDE DEF Fits
<1> DEFINE S == {k \in 1..K : visited[k] \in T /\ Rank(d, visited[k]) = k}
<1>12. 1 \in S
  <2>1. 1 \in 1..K
    BY <1>3
  <2> QED BY <1>2, <1>10, <2>1
<1>13. ASSUME NEW k \in 1..(K - 1), k \in S PROVE k + 1 \in S
  <2>1. k + 1 \in 1..K /\ k + 1 # 1 /\ (k + 1) - 1 = k /\ k # K
    BY <1>3
  <2>2. visited[k + 1] = Advance(d, visited[(k + 1) - 1])
    BY <1>10, <2>1
  <2>3. ~AtLast(d, visited[k])
    BY <1>13, <2>1, LastHasLastRank DEF T
  <2>4. visited[k] \in Positions(d) /\ Rank(d, visited[k]) = k
    BY <1>13 DEF T
  <2>5. Advance(d, visited[k]) \in T /\ Rank(d, Advance(d, visited[k])) = k + 1
    BY <2>3, <2>4, AdvanceCounts DEF T
  <2> QED BY <2>1, <2>2, <2>5
<1>14. 1..K \subseteq S
  <2> HIDE DEF S, K
  <2> QED BY <1>3, <1>12, <1>13, CountingUp
<1>15. visited \in [1..K -> T] /\ \A k \in 1..K : Rank(d, visited[k]) = k
  BY <1>11, <1>14
<1>16. ASSUME NEW p \in Positions(d) PROVE Rank(d, p) \in 1..K /\ visited[Rank(d, p)] = p
  <2> DEFINE r == Rank(d, p)
  <2>1. r \in 1..K
    BY RankRange
  <2> HIDE DEF r
  <2>2. visited[r] \in Positions(d) /\ Rank(d, visited[r]) = r
    BY <1>15, <2>1 DEF T
  <2>3. visited[r] = p
    BY <2>2, RankOneToOne DEF r
  <2> QED BY <2>1, <2>3 DEF r
<1> QED BY <1>3, <1>8, <1>15, <1>16 DEF T

-----------------------------------------------------------------------------
(* Games, and the offsets and numbers that IndexStrategies gives.          *)

StrategyRecords == [label : Nat, offset : Int, id : Int]
Games == [strategies : Seq(Seq(StrategyRecords)), results : Seq(Nat), outcomes : Seq(Nat)]

Playable(g) == g \in Games /\ \A pl \in DOMAIN g.strategies : Len(g.strategies[pl]) >= 1

LEMMA PlayableFacts ==
  ASSUME NEW g, Playable(g)
  PROVE  /\ Len(g.strategies) \in Nat /\ DOMAIN g.strategies = 1..Len(g.strategies)
         /\ \A pl \in 1..Len(g.strategies) :
              /\ g.strategies[pl] \in Seq(StrategyRecords)
              /\ Len(g.strategies[pl]) \in Nat \ {0}
              /\ DOMAIN g.strategies[pl] = 1..Len(g.strategies[pl])
              /\ \A st \in 1..Len(g.strategies[pl]) : g.strategies[pl][st] \in StrategyRecords
              /\ NumStrategies(g)[pl] = Len(g.strategies[pl])
         /\ NumStrategies(g) \in [1..Len(g.strategies) -> Nat \ {0}]
         /\ g.results \in Seq(Nat) /\ g.outcomes \in Seq(Nat)
<1>1. g.strategies \in Seq(Seq(StrategyRecords)) /\ g.results \in Seq(Nat) /\ g.outcomes \in Seq(Nat)
      /\ \A pl \in DOMAIN g.strategies : Len(g.strategies[pl]) >= 1
  BY DEF Playable, Games
<1> DEFINE s == g.strategies
           R == StrategyRecords
<1> HIDE DEF s, R
<1>2. s \in Seq(Seq(R)) /\ \A pl \in DOMAIN s : Len(s[pl]) >= 1
  BY <1>1 DEF s, R
<1>3. Len(s) \in Nat /\ DOMAIN s = 1..Len(s) /\ \A pl \in 1..Len(s) : s[pl] \in Seq(R)
  BY <1>2
<1>4. \A pl \in 1..Len(s) : /\ Len(s[pl]) \in Nat \ {0} /\ DOMAIN s[pl] = 1..Len(s[pl])
                            /\ \A st \in 1..Len(s[pl]) : s[pl][st] \in R
  <2> SUFFICES ASSUME NEW pl \in 1..Len(s)
               PROVE  /\ Len(s[pl]) \in Nat \ {0} /\ DOMAIN s[pl] = 1..Len(s[pl])
                      /\ \A st \in 1..Len(s[pl]) : s[pl][st] \in R
    OBVIOUS
  <2> DEFINE list == s[pl]
  <2>1. list \in Seq(R) /\ Len(list) >= 1
    BY <1>2, <1>3
  <2> HIDE DEF list
  <2>2. Len(list) \in Nat /\ DOMAIN list = 1..Len(list) /\ \A st \in 1..Len(list) : list[st] \in R
    BY <2>1, ListIs
  <2>3. Len(list) \in Nat \ {0}
    BY <2>1, <2>2
  <2> QED BY <2>2, <2>3 DEF list
<1>5. NumStrategies(g) = [pl \in 1..Len(s) |-> Len(s[pl])]
  BY <1>3 DEF NumStrategies, s
<1> QED BY <1>1, <1>3, <1>4, <1>5 DEF s, R

LEMMA SubSeqPlace ==
  ASSUME NEW g, Playable(g), NEW pl \in 1..Len(g.strategies)
  PROVE  /\ Place(NumStrategies(g), pl - 1) \in Nat \ {0}
         /\ Total(SubSeq(NumStrategies(g), 1, pl - 1)) \in Int
<1> DEFINE n == Len(g.strategies)
           d == NumStrategies(g)
<1>1. n \in Nat /\ d \in [1..n -> Nat \ {0}] /\ d \in [1..n -> Int] /\ pl - 1 \in 0..n
  BY PlayableFacts
<1> HIDE DEF n, d
<1>2. Place(d, pl - 1) \in Nat \ {0}
  BY <1>1, PlacesPositive
<1>3. UpTo(d, pl - 1) \in Int
  BY <1>1, UpToFacts
<1> QED BY <1>2, <1>3 DEF d, UpTo

IndexedAs(h, g) ==
  \A pl \in 1..Len(g.strategies) : \A st \in 1..Len(g.strategies[pl]) :
    /\ h.strategies[pl][st].label = g.strategies[pl][st].label
    /\ h.strategies[pl][st].offset = (st - 1) * Place(NumStrategies(g), pl - 1)
    /\ h.strategies[pl][st].id = Total(SubSeq(NumStrategies(g), 1, pl - 1)) + st

LEMMA IndexedStrategies ==
  ASSUME NEW g, Playable(g), NEW h, h = IndexStrategies(g)
  PROVE  /\ Playable(h) /\ h.results = g.results /\ h.outcomes = g.outcomes
         /\ Len(h.strategies) = Len(g.strategies) /\ NumStrategies(h) = NumStrategies(g)
         /\ Labels(h) = Labels(g) /\ IndexedAs(h, g)
<1> DEFINE n == Len(g.strategies)
           d == NumStrategies(g)
           new(pl, st) == [g.strategies[pl][st] EXCEPT
                            !.offset = (st - 1) * Place(d, pl - 1),
                            !.id = Total(SubSeq(d, 1, pl - 1)) + st]
           lists == [pl \in 1..n |-> [st \in 1..d[pl] |-> new(pl, st)]]
<1>1. /\ n \in Nat /\ DOMAIN g.strategies = 1..n /\ d \in [1..n -> Nat \ {0}]
      /\ \A pl \in 1..n : /\ d[pl] = Len(g.strategies[pl])
                          /\ DOMAIN g.strategies[pl] = 1..d[pl]
                          /\ \A st \in 1..d[pl] : g.strategies[pl][st] \in StrategyRecords
  <2>1. /\ n \in Nat /\ DOMAIN g.strategies = 1..n /\ d \in [1..n -> Nat \ {0}]
        /\ \A pl \in 1..n : d[pl] = Len(g.strategies[pl])
    BY PlayableFacts
  <2>2. \A pl \in 1..n : DOMAIN g.strategies[pl] = 1..Len(g.strategies[pl])
    BY PlayableFacts
  <2>3. \A pl \in 1..n : \A st \in 1..Len(g.strategies[pl]) : g.strategies[pl][st] \in StrategyRecords
    BY PlayableFacts
  <2> HIDE DEF n, d
  <2> QED BY <2>1, <2>2, <2>3
<1>2. h = [g EXCEPT !.strategies = lists]
  BY <1>1 DEF IndexStrategies, Place
<1>3. g \in Games
  BY DEF Playable
<1>4. ASSUME NEW pl \in 1..n, NEW st \in 1..d[pl]
      PROVE  /\ new(pl, st) \in StrategyRecords
             /\ new(pl, st).label = g.strategies[pl][st].label
             /\ new(pl, st).offset = (st - 1) * Place(d, pl - 1)
             /\ new(pl, st).id = Total(SubSeq(d, 1, pl - 1)) + st
  <2>1. Place(d, pl - 1) \in Nat /\ Total(SubSeq(d, 1, pl - 1)) \in Int /\ st - 1 \in Int /\ st \in Int
    BY SubSeqPlace, <1>1
  <2>2. (st - 1) * Place(d, pl - 1) \in Int /\ Total(SubSeq(d, 1, pl - 1)) + st \in Int
    BY <2>1
  <2>3. g.strategies[pl][st] \in StrategyRecords
    BY <1>1
  <2> HIDE DEF d, n
  <2> QED BY <2>2, <2>3 DEF StrategyRecords
<1> HIDE DEF new
<1>5. \A pl \in 1..n : lists[pl] = [st \in 1..d[pl] |-> new(pl, st)]
                       /\ lists[pl] \in Seq(StrategyRecords) /\ Len(lists[pl]) = d[pl]
  <2> SUFFICES ASSUME NEW pl \in 1..n
               PROVE  /\ lists[pl] = [st \in 1..d[pl] |-> new(pl, st)]
                      /\ lists[pl] \in Seq(StrategyRecords) /\ Len(lists[pl]) = d[pl]
    OBVIOUS
  <2> DEFINE list == [st \in 1..d[pl] |-> new(pl, st)]
             m == d[pl]
  <2>1. m \in Nat
    BY <1>1
  <2>2. list \in [1..m -> StrategyRecords]
    BY <1>4
  <2>3. lists[pl] = list
    OBVIOUS
  <2> HIDE DEF list, m
  <2>4. list \in Seq(StrategyRecords) /\ Len(list) = m
    BY <2>1, <2>2, IsList
  <2> QED BY <2>3, <2>4 DEF list, m
<1>6. lists \in Seq(Seq(StrategyRecords)) /\ Len(lists) = n /\ DOMAIN lists = 1..n
  <2>1. lists \in [1..n -> Seq(StrategyRecords)]
    BY <1>5
  <2> HIDE DEF lists, n
  <2> QED BY <1>1, <2>1, IsList
<1> HIDE DEF lists
<1>7. h \in Games /\ h.strategies = lists /\ h.results = g.results /\ h.outcomes = g.outcomes
  BY <1>2, <1>3, <1>6 DEF Games
<1>8. Playable(h)
  BY <1>1, <1>5, <1>6, <1>7 DEF Playable
<1>9. NumStrategies(h) = d
  BY <1>1, <1>5, <1>6, <1>7 DEF NumStrategies
<1>10. \A pl \in 1..n : \A st \in 1..d[pl] : lists[pl][st] = new(pl, st)
  BY <1>5
<1>11. Labels(h) = Labels(g)
  <2>1. \A pl \in 1..n : DOMAIN lists[pl] = 1..d[pl]
    BY <1>5
  <2>2. \A pl \in 1..n : [st \in DOMAIN h.strategies[pl] |-> h.strategies[pl][st].label]
                       = [st \in DOMAIN g.strategies[pl] |-> g.strategies[pl][st].label]
    BY <1>1, <1>4, <1>7, <1>10, <2>1
  <2> HIDE DEF n, d
  <2> QED BY <1>1, <1>6, <1>7, <2>2 DEF Labels
<1>12. IndexedAs(h, g)
  <2> SUFFICES ASSUME NEW pl \in 1..n, NEW st \in 1..d[pl]
               PROVE  /\ h.strategies[pl][st].label = g.strategies[pl][st].label
                      /\ h.strategies[pl][st].offset = (st - 1) * Place(d, pl - 1)
                      /\ h.strategies[pl][st].id = Total(SubSeq(d, 1, pl - 1)) + st
    BY <1>1 DEF IndexedAs
  <2>1. h.strategies[pl][st] = new(pl, st)
    BY <1>7, <1>10
  <2> QED BY <1>4, <2>1
<1> QED BY <1>1, <1>6, <1>7, <1>8, <1>9, <1>11, <1>12

-----------------------------------------------------------------------------
(* Profiles of positions and profiles of labels stand for each other.      *)

Label == 1..(MaxStrategies + 1)

WellLabelled(g) ==
  \A pl \in DOMAIN g.strategies :
    /\ \A st \in DOMAIN g.strategies[pl] : g.strategies[pl][st].label \in Label
    /\ \A st, other \in DOMAIN g.strategies[pl] :
         g.strategies[pl][st].label = g.strategies[pl][other].label => st = other

Profiles(g) == Positions(NumStrategies(g))
Named(g, q) == [pl \in DOMAIN g.strategies |-> g.strategies[pl][q[pl]].label]
Position(g, p) ==
  [pl \in DOMAIN p |->
    CHOOSE st \in DOMAIN g.strategies[pl] : g.strategies[pl][st].label = p[pl]]

LEMMA LabelIsNat == Label \subseteq Nat /\ 1 \in Label
BY DocumentAssumption DEF Label

LEMMA ProfilesAre ==
  ASSUME NEW g, Playable(g)
  PROVE  \A q : q \in Profiles(g) <=>
                  /\ q \in [1..Len(g.strategies) -> Nat \ {0}]
                  /\ \A pl \in 1..Len(g.strategies) : q[pl] \in 1..Len(g.strategies[pl])
<1> DEFINE n == Len(g.strategies)
           d == NumStrategies(g)
<1>1. DOMAIN d = 1..n /\ \A pl \in 1..n : d[pl] = Len(g.strategies[pl]) /\ d[pl] \in Nat
  BY PlayableFacts
<1>2. \A q : q \in Profiles(g) <=> q \in [1..n -> Nat \ {0}] /\ \A pl \in 1..n : q[pl] <= d[pl]
  BY <1>1 DEF Profiles, Positions
<1>3. \A q : q \in [1..n -> Nat \ {0}] => \A pl \in 1..n : q[pl] <= d[pl] <=> q[pl] \in 1..d[pl]
  <2> SUFFICES ASSUME NEW q \in [1..n -> Nat \ {0}], NEW pl \in 1..n
               PROVE  q[pl] <= d[pl] <=> q[pl] \in 1..d[pl]
    OBVIOUS
  <2>1. q[pl] \in Nat \ {0} /\ d[pl] \in Nat
    BY <1>1
  <2> QED BY <2>1
<1> HIDE DEF n, d
<1>4. \A q : q \in Profiles(g) <=> q \in [1..n -> Nat \ {0}] /\ \A pl \in 1..n : q[pl] \in 1..d[pl]
  BY <1>2, <1>3
<1> QED BY <1>1, <1>4 DEF n

LEMMA LabelsAre ==
  ASSUME NEW g, Playable(g)
  PROVE  /\ DOMAIN Labels(g) = 1..Len(g.strategies) /\ Labels(g) \in Seq(Seq(Nat))
         /\ Len(Labels(g)) = Len(g.strategies)
         /\ \A pl \in 1..Len(g.strategies) :
              /\ Labels(g)[pl] = [st \in 1..Len(g.strategies[pl]) |-> g.strategies[pl][st].label]
              /\ Len(Labels(g)[pl]) = Len(g.strategies[pl])
              /\ DOMAIN Labels(g)[pl] = 1..Len(g.strategies[pl])
              /\ \A x : x \in ToSet(Labels(g)[pl]) <=>
                         \E st \in 1..Len(g.strategies[pl]) : x = g.strategies[pl][st].label
<1> DEFINE n == Len(g.strategies)
           L == Labels(g)
<1>1. /\ n \in Nat /\ DOMAIN g.strategies = 1..n
      /\ \A pl \in 1..n : /\ Len(g.strategies[pl]) \in Nat
                          /\ DOMAIN g.strategies[pl] = 1..Len(g.strategies[pl])
                          /\ \A st \in 1..Len(g.strategies[pl]) : g.strategies[pl][st].label \in Nat
  <2>1. \A r \in StrategyRecords : r.label \in Nat
    BY DEF StrategyRecords
  <2>2. \A pl \in 1..n : \A st \in 1..Len(g.strategies[pl]) : g.strategies[pl][st] \in StrategyRecords
    BY PlayableFacts
  <2>3. /\ n \in Nat /\ DOMAIN g.strategies = 1..n
        /\ \A pl \in 1..n : Len(g.strategies[pl]) \in Nat
                         /\ DOMAIN g.strategies[pl] = 1..Len(g.strategies[pl])
    BY PlayableFacts
  <2> HIDE DEF n
  <2> QED BY <2>1, <2>2, <2>3
<1> HIDE DEF n
<1>2. L = [pl \in 1..n |-> [st \in DOMAIN g.strategies[pl] |-> g.strategies[pl][st].label]]
  BY <1>1 DEF Labels
<1> HIDE DEF L
<1>3. ASSUME NEW pl \in 1..n
      PROVE  /\ L[pl] = [st \in 1..Len(g.strategies[pl]) |-> g.strategies[pl][st].label]
             /\ L[pl] \in Seq(Nat) /\ Len(L[pl]) = Len(g.strategies[pl])
             /\ DOMAIN L[pl] = 1..Len(g.strategies[pl])
             /\ \A x : x \in ToSet(L[pl]) <=>
                        \E st \in 1..Len(g.strategies[pl]) : x = g.strategies[pl][st].label
  <2> DEFINE m == Len(g.strategies[pl])
             list == [st \in 1..m |-> g.strategies[pl][st].label]
  <2>1. L[pl] = list
    BY <1>1, <1>2
  <2>2. m \in Nat /\ list \in [1..m -> Nat]
    BY <1>1
  <2>3. list \in Seq(Nat) /\ Len(list) = m /\ DOMAIN list = 1..m
    <3> HIDE DEF m, list
    <3> QED BY <2>2, IsList
  <2>4. \A x : x \in ToSet(list) <=> \E st \in 1..m : x = g.strategies[pl][st].label
    BY DEF ToSet
  <2> HIDE DEF list, m
  <2> QED BY <2>1, <2>3, <2>4 DEF list, m
<1>4. L \in Seq(Seq(Nat)) /\ Len(L) = n /\ DOMAIN L = 1..n
  <2>1. L \in [1..n -> Seq(Nat)]
    BY <1>2, <1>3
  <2> QED BY <1>1, <2>1, IsList
<1> QED BY <1>3, <1>4 DEF L, n

LEMMA NamesAre ==
  ASSUME NEW g, Playable(g)
  PROVE  \A p : p \in ProfilesOver(Labels(g)) <=>
                  /\ p = [pl \in 1..Len(g.strategies) |-> p[pl]]
                  /\ \A pl \in 1..Len(g.strategies) :
                       \E st \in 1..Len(g.strategies[pl]) : p[pl] = g.strategies[pl][st].label
<1> DEFINE n == Len(g.strategies)
           L == Labels(g)
           U == UNION {ToSet(L[pl]) : pl \in DOMAIN L}
<1>1. DOMAIN L = 1..n
      /\ \A pl \in 1..n : \A x : x \in ToSet(L[pl]) <=>
                                 \E st \in 1..Len(g.strategies[pl]) : x = g.strategies[pl][st].label
  BY LabelsAre, ZenonT(60)
<1>2. \A p : p \in ProfilesOver(L) <=> p \in [1..n -> U] /\ \A pl \in 1..n : p[pl] \in ToSet(L[pl])
  BY <1>1 DEF ProfilesOver
<1>3. \A pl \in 1..n : \A x : x \in ToSet(L[pl]) => x \in U
  BY <1>1
<1> HIDE DEF L, U, n
<1>4. \A p : p \in ProfilesOver(L) <=>
               p = [pl \in 1..n |-> p[pl]] /\ \A pl \in 1..n : p[pl] \in ToSet(L[pl])
  BY <1>2, <1>3
<1> QED BY <1>1, <1>4, ZenonT(60) DEF L, n

LEMMA NamedFacts ==
  ASSUME NEW g, Playable(g), WellLabelled(g)
  PROVE  /\ \A q \in Profiles(g) : Named(g, q) \in ProfilesOver(Labels(g)) /\ Position(g, Named(g, q)) = q
         /\ \A p \in ProfilesOver(Labels(g)) : Position(g, p) \in Profiles(g) /\ Named(g, Position(g, p)) = p
<1> DEFINE n == Len(g.strategies)
           lab(pl, st) == g.strategies[pl][st].label
           m(pl) == Len(g.strategies[pl])
<1>1. /\ n \in Nat /\ DOMAIN g.strategies = 1..n
      /\ \A pl \in 1..n : m(pl) \in Nat /\ DOMAIN g.strategies[pl] = 1..m(pl)
  BY PlayableFacts
<1>2. \A pl \in 1..n : \A st, other \in 1..m(pl) : lab(pl, st) = lab(pl, other) => st = other
  BY <1>1 DEF WellLabelled
<1>3. \A q : q \in Profiles(g) <=> q \in [1..n -> Nat \ {0}] /\ \A pl \in 1..n : q[pl] \in 1..m(pl)
  BY ProfilesAre
<1>4. \A p : p \in ProfilesOver(Labels(g)) <=>
               p = [pl \in 1..n |-> p[pl]] /\ \A pl \in 1..n : \E st \in 1..m(pl) : p[pl] = lab(pl, st)
  BY NamesAre
<1>5. \A q : Named(g, q) = [pl \in 1..n |-> lab(pl, q[pl])]
  BY <1>1 DEF Named
<1>6. \A p : Position(g, p) = [pl \in DOMAIN p |-> CHOOSE st \in DOMAIN g.strategies[pl] : lab(pl, st) = p[pl]]
  BY DEF Position
<1> HIDE DEF n, lab, m
<1>7. \A pl \in 1..n : \A st \in 1..m(pl) : (CHOOSE x \in 1..m(pl) : lab(pl, x) = lab(pl, st)) = st
  BY <1>2
<1>8. ASSUME NEW q \in Profiles(g)
      PROVE  Named(g, q) \in ProfilesOver(Labels(g)) /\ Position(g, Named(g, q)) = q
  <2> DEFINE p == Named(g, q)
  <2>1. p = [pl \in 1..n |-> lab(pl, q[pl])] /\ \A pl \in 1..n : q[pl] \in 1..m(pl)
    BY <1>3, <1>5
  <2>2. q = [pl \in 1..n |-> q[pl]]
    BY <1>3
  <2> HIDE DEF p
  <2>3. p \in ProfilesOver(Labels(g))
    <3>1. DOMAIN p = 1..n /\ \A pl \in 1..n : p[pl] = lab(pl, q[pl])
      BY <2>1
    <3>2. p = [pl \in 1..n |-> p[pl]]
      BY <2>1
    <3>3. \A pl \in 1..n : \E st \in 1..m(pl) : p[pl] = lab(pl, st)
      BY <2>1, <3>1
    <3> QED BY <1>4, <3>2, <3>3
  <2>4. Position(g, p) = [pl \in 1..n |-> CHOOSE st \in 1..m(pl) : lab(pl, st) = lab(pl, q[pl])]
    <3>1. DOMAIN p = 1..n /\ \A pl \in 1..n : p[pl] = lab(pl, q[pl])
      BY <2>1
    <3>2. Position(g, p) = [pl \in DOMAIN p |-> CHOOSE st \in DOMAIN g.strategies[pl] : lab(pl, st) = p[pl]]
      BY <1>6
    <3>3. \A pl \in 1..n : (CHOOSE st \in DOMAIN g.strategies[pl] : lab(pl, st) = p[pl])
                         = (CHOOSE st \in 1..m(pl) : lab(pl, st) = lab(pl, q[pl]))
      BY <1>1, <3>1
    <3> QED BY <3>1, <3>2, <3>3
  <2>5. Position(g, p) = q
    BY <1>7, <2>1, <2>2, <2>4
  <2> QED BY <2>3, <2>5 DEF p
<1>9. ASSUME NEW p \in ProfilesOver(Labels(g))
      PROVE  Position(g, p) \in Profiles(g) /\ Named(g, Position(g, p)) = p
  <2> DEFINE q == Position(g, p)
  <2>1. p = [pl \in 1..n |-> p[pl]] /\ \A pl \in 1..n : \E st \in 1..m(pl) : p[pl] = lab(pl, st)
    BY <1>4
  <2>2. q = [pl \in 1..n |-> CHOOSE st \in DOMAIN g.strategies[pl] : lab(pl, st) = p[pl]]
    <3>1. DOMAIN p = 1..n
      BY <2>1
    <3> QED BY <1>6, <3>1, ZenonT(60)
  <2> HIDE DEF q
  <2>3. \A pl \in 1..n : q[pl] \in 1..m(pl) /\ lab(pl, q[pl]) = p[pl]
    <3> SUFFICES ASSUME NEW pl \in 1..n PROVE q[pl] \in 1..m(pl) /\ lab(pl, q[pl]) = p[pl]
      OBVIOUS
    <3>1. q[pl] = CHOOSE st \in DOMAIN g.strategies[pl] : lab(pl, st) = p[pl]
      BY <2>2
    <3>2. DOMAIN g.strategies[pl] = 1..m(pl) /\ \E st \in 1..m(pl) : lab(pl, st) = p[pl]
      BY <1>1, <2>1
    <3> QED BY <3>1, <3>2
  <2>4. q \in Profiles(g)
    <3>1. \A pl \in 1..n : q[pl] \in Nat \ {0}
      BY <1>1, <2>3
    <3>2. q \in [1..n -> Nat \ {0}]
      BY <2>2, <3>1
    <3> QED BY <1>3, <2>3, <3>2
  <2>5. Named(g, q) = p
    <3>1. Named(g, q) = [pl \in 1..n |-> lab(pl, q[pl])]
      BY <1>5
    <3> QED BY <2>1, <2>3, <3>1
  <2> QED BY <2>4, <2>5 DEF q
<1> QED BY <1>8, <1>9

LEMMA PayoffsAre ==
  ASSUME NEW g, Playable(g), WellLabelled(g)
  PROVE  /\ Payoffs(g) = [p \in ProfilesOver(Labels(g)) |-> GetPayoff(g, Position(g, p))]
         /\ DOMAIN Payoffs(g) = ProfilesOver(Labels(g))
         /\ \A q \in Profiles(g) : Payoffs(g)[Named(g, q)] = GetPayoff(g, q)
<1>1. Payoffs(g) = [p \in ProfilesOver(Labels(g)) |-> GetPayoff(g, Position(g, p))]
  BY DEF Payoffs, Position
<1> QED BY <1>1, NamedFacts

(* The combinations of PayoffTable are the profiles of labels.             *)
LEMMA CombinationsAre ==
  ASSUME NEW g, Playable(g), WellLabelled(g)
  PROVE  PT!Combinations(Labels(g)) = ProfilesOver(Labels(g))
<1> DEFINE n == Len(g.strategies)
           L == Labels(g)
           U == UNION {ToSet(L[pl]) : pl \in DOMAIN L}
<1>1. DOMAIN L = 1..n
      /\ \A pl \in 1..n : \A x : x \in ToSet(L[pl]) <=>
                                 \E st \in 1..Len(g.strategies[pl]) : x = g.strategies[pl][st].label
  BY LabelsAre, ZenonT(60)
<1>2. \A pl \in 1..n : ToSet(L[pl]) \subseteq Label
  <2>1. DOMAIN g.strategies = 1..n
        /\ \A pl \in 1..n : DOMAIN g.strategies[pl] = 1..Len(g.strategies[pl])
    BY PlayableFacts
  <2> HIDE DEF L, n
  <2> QED BY <1>1, <2>1 DEF WellLabelled
<1>3. ProfilesOver(L) = {p \in [1..n -> U] : \A pl \in 1..n : p[pl] \in ToSet(L[pl])}
  BY <1>1 DEF ProfilesOver
<1>4. PT!Combinations(L) = {p \in [1..n -> Label] : \A pl \in 1..n : p[pl] \in ToSet(L[pl])}
  <2>1. \A list : PT!ToSet(list) = ToSet(list)
    BY DEF PT!ToSet, ToSet
  <2>2. PT!Combinations(L) = {p \in [DOMAIN L -> Label] : \A pl \in DOMAIN L : p[pl] \in PT!ToSet(L[pl])}
    BY DEF PT!Combinations, Label
  <2> HIDE DEF L, n
  <2> QED BY <1>1, <2>1, <2>2
<1>5. \A pl \in 1..n : ToSet(L[pl]) \subseteq U
  BY <1>1
<1> HIDE DEF L, U, n
<1> QED BY <1>2, <1>3, <1>4, <1>5 DEF L

-----------------------------------------------------------------------------
(* A table in which the offsets of each profile lead to an entry of its    *)
(* own, and no two entries share an outcome.                               *)

Located(g) ==
  /\ \A pl \in DOMAIN g.strategies : \A st \in DOMAIN g.strategies[pl] : g.strategies[pl][st].offset >= 0
  /\ \A q \in Profiles(g) : Index(g, q) \in 1..Len(g.results)
  /\ \A q, r \in Profiles(g) : Index(g, q) = Index(g, r) => q = r

OwnOutcomes(results, outcomes) ==
  /\ \A k \in 1..Len(results) : results[k] \in 0..Len(outcomes)
  /\ \A j, k \in 1..Len(results) : results[j] = results[k] /\ results[j] # Null => j = k

Sound(g) ==
  /\ Playable(g) /\ WellLabelled(g) /\ Located(g)
  /\ Product(NumStrategies(g)) <= Len(g.results)
  /\ OwnOutcomes(g.results, g.outcomes)

DenselyPlaced(g) ==
  \A pl \in 1..Len(g.strategies) : \A st \in 1..Len(g.strategies[pl]) :
    g.strategies[pl][st].offset = (st - 1) * Place(NumStrategies(g), pl - 1)

InTurn(g) ==
  \A pl \in 1..Len(g.strategies) : \A st \in 1..Len(g.strategies[pl]) :
    g.strategies[pl][st].id = Total(SubSeq(NumStrategies(g), 1, pl - 1)) + st

LEMMA DenseIs ==
  ASSUME NEW g, Playable(g)
  PROVE  (Dense(g) <=> DenselyPlaced(g)) /\ (Numbered(g) <=> InTurn(g))
<1> DEFINE h == IndexStrategies(g)
<1>1. IndexedAs(h, g)
  BY IndexedStrategies
<1>2. DOMAIN g.strategies = 1..Len(g.strategies)
      /\ \A pl \in 1..Len(g.strategies) : DOMAIN g.strategies[pl] = 1..Len(g.strategies[pl])
  BY PlayableFacts
<1>3. Dense(g) <=> \A pl \in 1..Len(g.strategies) : \A st \in 1..Len(g.strategies[pl]) :
                     g.strategies[pl][st].offset = h.strategies[pl][st].offset
  BY <1>2 DEF Dense
<1>4. Numbered(g) <=> \A pl \in 1..Len(g.strategies) : \A st \in 1..Len(g.strategies[pl]) :
                        g.strategies[pl][st].id = h.strategies[pl][st].id
  BY <1>2 DEF Numbered
<1> HIDE DEF h
<1>5. Dense(g) <=> DenselyPlaced(g)
  BY <1>1, <1>3 DEF DenselyPlaced, IndexedAs
<1>6. Numbered(g) <=> InTurn(g)
  BY <1>1, <1>4 DEF InTurn, IndexedAs
<1> QED BY <1>5, <1>6

LEMMA IndexIs ==
  ASSUME NEW g, Playable(g), NEW q \in Profiles(g)
  PROVE  /\ Index(g, q) = 1 + Total([pl \in 1..Len(g.strategies) |-> g.strategies[pl][q[pl]].offset])
         /\ [pl \in 1..Len(g.strategies) |-> g.strategies[pl][q[pl]].offset]
              \in [1..Len(g.strategies) -> Int]
         /\ Index(g, q) \in Int
<1> DEFINE n == Len(g.strategies)
           offsets == [pl \in 1..n |-> g.strategies[pl][q[pl]].offset]
<1>1. DOMAIN q = 1..n /\ \A pl \in 1..n : q[pl] \in 1..Len(g.strategies[pl])
  BY ProfilesAre
<1>2. Index(g, q) = 1 + Total(offsets)
  BY <1>1 DEF Index
<1>3. \A pl \in 1..n : \A st \in 1..Len(g.strategies[pl]) : g.strategies[pl][st] \in StrategyRecords
  BY PlayableFacts
<1>4. offsets \in [1..n -> Int]
  BY <1>1, <1>3 DEF StrategyRecords
<1>5. Total(offsets) \in Int
  <2>1. n \in Nat
    BY PlayableFacts
  <2>2. n \in 0..n
    BY <2>1
  <2> HIDE DEF n, offsets
  <2> QED BY <1>4, <2>1, <2>2, UpToFacts
<1> HIDE DEF offsets
<1>6. Index(g, q) \in Int
  BY <1>2, <1>5
<1> QED BY <1>2, <1>4, <1>6 DEF offsets, n

LEMMA DenseIndex ==
  ASSUME NEW g, Playable(g), DenselyPlaced(g)
  PROVE  /\ \A q \in Profiles(g) : Index(g, q) = Rank(NumStrategies(g), q)
         /\ \A pl \in 1..Len(g.strategies) : \A st \in 1..Len(g.strategies[pl]) :
              g.strategies[pl][st].offset >= 0
<1> DEFINE n == Len(g.strategies)
           d == NumStrategies(g)
<1>1. n \in Nat /\ d \in [1..n -> Nat \ {0}]
  BY PlayableFacts
<1>2. \A q \in Profiles(g) : \A pl \in 1..n : q[pl] \in 1..Len(g.strategies[pl])
  BY ProfilesAre
<1>3. \A pl \in 1..n : \A st \in 1..Len(g.strategies[pl]) :
        g.strategies[pl][st].offset = (st - 1) * Place(d, pl - 1)
  BY DEF DenselyPlaced
<1>4. ASSUME NEW q \in Profiles(g) PROVE Index(g, q) = Rank(d, q)
  <2>1. Index(g, q) = 1 + Total([pl \in 1..n |-> g.strategies[pl][q[pl]].offset])
    BY IndexIs
  <2>2. Steps(d, q) = [pl \in 1..n |-> (q[pl] - 1) * Place(d, pl - 1)]
    BY <1>1 DEF Steps
  <2>3. [pl \in 1..n |-> g.strategies[pl][q[pl]].offset] = Steps(d, q)
    <3> HIDE DEF n, d
    <3> QED BY <1>2, <1>3, <2>2
  <2> QED BY <2>1, <2>3 DEF Rank
<1>5. ASSUME NEW pl \in 1..n, NEW st \in 1..Len(g.strategies[pl]) PROVE g.strategies[pl][st].offset >= 0
  <2>1. Place(d, pl - 1) \in Nat /\ st - 1 \in Nat
    BY SubSeqPlace, PlayableFacts
  <2>2. \A a, b \in Nat : a * b >= 0
    OBVIOUS
  <2> QED BY <1>3, <2>1, <2>2
<1> QED BY <1>4, <1>5

LEMMA DenseIsLocated ==
  ASSUME NEW g, Playable(g), DenselyPlaced(g), Product(NumStrategies(g)) <= Len(g.results)
  PROVE  /\ Located(g)
         /\ \A k \in 1..Product(NumStrategies(g)) :
              /\ Iterated(NumStrategies(g))[k] \in Profiles(g)
              /\ Index(g, Iterated(NumStrategies(g))[k]) = k
         /\ \A q \in Profiles(g) : Index(g, q) \in 1..Product(NumStrategies(g))
         /\ Product(NumStrategies(g)) \in Nat \ {0}
         /\ DOMAIN Iterated(NumStrategies(g)) = 1..Product(NumStrategies(g))
<1> DEFINE n == Len(g.strategies)
           d == NumStrategies(g)
           K == Product(d)
<1>1. n \in Nat /\ d \in [1..n -> Nat \ {0}] /\ Len(g.results) \in Nat /\ DOMAIN g.strategies = 1..n
      /\ \A pl \in 1..n : DOMAIN g.strategies[pl] = 1..Len(g.strategies[pl])
  BY PlayableFacts
<1>2. /\ \A q \in Profiles(g) : Index(g, q) = Rank(d, q)
      /\ \A pl \in 1..n : \A st \in 1..Len(g.strategies[pl]) : g.strategies[pl][st].offset >= 0
  BY DenseIndex
<1>3. /\ K \in Nat \ {0} /\ Iterated(d) \in [1..K -> Profiles(g)]
      /\ \A k \in 1..K : Rank(d, Iterated(d)[k]) = k
      /\ \A q \in Profiles(g) : Rank(d, q) \in 1..K
  <2> HIDE DEF n, d
  <2> QED BY <1>1, IteratedCounts DEF Profiles, d
<1>4. \A q, r \in Profiles(g) : Rank(d, q) = Rank(d, r) => q = r
  BY <1>1, RankOneToOne DEF Profiles
<1> HIDE DEF n, d, K
<1>5. \A k \in 1..K : k \in 1..Len(g.results)
  BY <1>1, <1>3 DEF K, d
<1>6. Located(g)
  BY <1>1, <1>2, <1>3, <1>4, <1>5 DEF Located
<1>7. \A k \in 1..K : Iterated(d)[k] \in Profiles(g)
  BY <1>3
<1> QED BY <1>2, <1>3, <1>6, <1>7 DEF K, d

LEMMA IndexedIsSound ==
  ASSUME NEW g, Playable(g), WellLabelled(g), Product(NumStrategies(g)) <= Len(g.results),
         OwnOutcomes(g.results, g.outcomes), NEW h, h = IndexStrategies(g)
  PROVE  Sound(h) /\ DenselyPlaced(h) /\ InTurn(h)
<1> DEFINE n == Len(g.strategies)
           m(pl) == Len(g.strategies[pl])
<1>1. /\ Playable(h) /\ h.results = g.results /\ h.outcomes = g.outcomes
      /\ Len(h.strategies) = n /\ NumStrategies(h) = NumStrategies(g) /\ IndexedAs(h, g)
  BY IndexedStrategies
<1>2. DOMAIN g.strategies = 1..n
      /\ \A pl \in 1..n : DOMAIN g.strategies[pl] = 1..m(pl) /\ NumStrategies(g)[pl] = m(pl)
  BY PlayableFacts
<1>3. DOMAIN h.strategies = 1..n
      /\ \A pl \in 1..n : DOMAIN h.strategies[pl] = 1..m(pl) /\ Len(h.strategies[pl]) = m(pl)
  <2>1. DOMAIN h.strategies = 1..Len(h.strategies)
        /\ \A pl \in 1..Len(h.strategies) : DOMAIN h.strategies[pl] = 1..Len(h.strategies[pl])
                                          /\ NumStrategies(h)[pl] = Len(h.strategies[pl])
    BY <1>1, PlayableFacts
  <2> QED BY <1>1, <1>2, <2>1
<1>4. DenselyPlaced(h) /\ InTurn(h)
  <2> HIDE DEF n, m
  <2>1. DenselyPlaced(h)
    BY <1>1, <1>3 DEF DenselyPlaced, IndexedAs, n, m
  <2>2. InTurn(h)
    BY <1>1, <1>3 DEF InTurn, IndexedAs, n, m
  <2> QED BY <2>1, <2>2
<1>5. WellLabelled(h)
  <2>1. \A pl \in 1..n : \A st \in 1..m(pl) : h.strategies[pl][st].label = g.strategies[pl][st].label
    BY <1>1 DEF IndexedAs
  <2> HIDE DEF n, m
  <2> QED BY <1>2, <1>3, <2>1, SMTT(30) DEF WellLabelled
<1>6. Located(h)
  BY <1>1, <1>4, DenseIsLocated
<1> QED BY <1>1, <1>4, <1>5, <1>6 DEF Sound

-----------------------------------------------------------------------------
(* New tables, and files.                                                  *)

LabelsOK(labels) ==
  /\ labels \in Seq(Seq(Nat))
  /\ \A pl \in DOMAIN labels :
       /\ Len(labels[pl]) >= 1
       /\ \A st \in DOMAIN labels[pl] : labels[pl][st] \in Label
       /\ \A st, other \in DOMAIN labels[pl] : labels[pl][st] = labels[pl][other] => st = other

Lengths(labels) == [pl \in DOMAIN labels |-> Len(labels[pl])]

TextSound(text) ==
  /\ text \in [labels : Seq(Seq(Nat)), outcomes : Seq(Nat), body : Seq(Nat)]
  /\ LabelsOK(text.labels)
  /\ Len(text.body) = Product(Lengths(text.labels))
  /\ OwnOutcomes(text.body, text.outcomes)

LEMMA LabelsOKFacts ==
  ASSUME NEW labels, LabelsOK(labels)
  PROVE  /\ Len(labels) \in Nat /\ DOMAIN labels = 1..Len(labels)
         /\ \A pl \in 1..Len(labels) :
              /\ labels[pl] \in Seq(Nat) /\ Len(labels[pl]) \in Nat \ {0}
              /\ DOMAIN labels[pl] = 1..Len(labels[pl])
              /\ \A st \in 1..Len(labels[pl]) : labels[pl][st] \in Nat
         /\ Lengths(labels) \in [1..Len(labels) -> Nat \ {0}]
         /\ Product(Lengths(labels)) \in Nat \ {0}
<1> DEFINE n == Len(labels)
<1>1. n \in Nat /\ DOMAIN labels = 1..n /\ \A pl \in 1..n : labels[pl] \in Seq(Nat)
  BY ListIs DEF LabelsOK
<1>2. \A pl \in 1..n : /\ Len(labels[pl]) \in Nat \ {0} /\ DOMAIN labels[pl] = 1..Len(labels[pl])
                       /\ \A st \in 1..Len(labels[pl]) : labels[pl][st] \in Nat
  <2> SUFFICES ASSUME NEW pl \in 1..n
               PROVE  /\ Len(labels[pl]) \in Nat \ {0} /\ DOMAIN labels[pl] = 1..Len(labels[pl])
                      /\ \A st \in 1..Len(labels[pl]) : labels[pl][st] \in Nat
    OBVIOUS
  <2> DEFINE list == labels[pl]
  <2>1. list \in Seq(Nat) /\ Len(list) >= 1
    BY <1>1 DEF LabelsOK
  <2> HIDE DEF list
  <2>2. Len(list) \in Nat /\ DOMAIN list = 1..Len(list) /\ \A st \in 1..Len(list) : list[st] \in Nat
    BY <2>1, ListIs
  <2>3. Len(list) \in Nat \ {0}
    BY <2>1, <2>2
  <2> QED BY <2>2, <2>3 DEF list
<1>3. Lengths(labels) \in [1..n -> Nat \ {0}]
  BY <1>1, <1>2 DEF Lengths
<1>4. Product(Lengths(labels)) \in Nat \ {0}
  <2> HIDE DEF n
  <2> QED BY <1>1, <1>3, IteratedCounts
<1> QED BY <1>1, <1>2, <1>3, <1>4

LEMMA NewTableFacts ==
  ASSUME NEW labels, LabelsOK(labels), NEW h, h = NewTable(labels)
  PROVE  /\ Sound(h) /\ DenselyPlaced(h) /\ InTurn(h)
         /\ Labels(h) = labels /\ NumStrategies(h) = Lengths(labels)
         /\ Len(h.strategies) = Len(labels)
         /\ h.results = [k \in 1..Product(Lengths(labels)) |-> k]
         /\ h.outcomes = [k \in 1..Product(Lengths(labels)) |-> NoPayoff]
<1> DEFINE n == Len(labels)
           size == Product(Lengths(labels))
           list(pl) == [st \in DOMAIN labels[pl] |-> Strategy(labels[pl][st], 0)]
           lists == [pl \in DOMAIN labels |-> list(pl)]
           g == [strategies |-> lists,
                 results    |-> [k \in 1..size |-> k],
                 outcomes   |-> [k \in 1..size |-> NoPayoff]]
<1>1. /\ n \in Nat /\ DOMAIN labels = 1..n /\ size \in Nat \ {0}
      /\ \A pl \in 1..n : /\ Len(labels[pl]) \in Nat \ {0}
                          /\ DOMAIN labels[pl] = 1..Len(labels[pl])
                          /\ \A st \in 1..Len(labels[pl]) : labels[pl][st] \in Nat
  BY LabelsOKFacts
<1>2. h = IndexStrategies(g)
  BY DEF NewTable, Lengths
<1> HIDE DEF size
<1>3. ASSUME NEW pl \in 1..n
      PROVE  /\ list(pl) \in Seq(StrategyRecords) /\ Len(list(pl)) = Len(labels[pl])
             /\ DOMAIN list(pl) = 1..Len(labels[pl])
             /\ \A st \in 1..Len(labels[pl]) : list(pl)[st].label = labels[pl][st]
  <2> DEFINE m == Len(labels[pl])
  <2>1. \A st \in 1..m : Strategy(labels[pl][st], 0) \in StrategyRecords
                      /\ Strategy(labels[pl][st], 0).label = labels[pl][st]
    BY <1>1 DEF Strategy, StrategyRecords
  <2>2. m \in Nat /\ DOMAIN labels[pl] = 1..m
    BY <1>1
  <2>3. list(pl) \in [1..m -> StrategyRecords]
    BY <2>1, <2>2
  <2>4. \A st \in 1..m : list(pl)[st].label = labels[pl][st]
    BY <2>1, <2>2
  <2> HIDE DEF list, m
  <2>5. list(pl) \in Seq(StrategyRecords) /\ Len(list(pl)) = m /\ DOMAIN list(pl) = 1..m
    BY <2>2, <2>3, IsList
  <2> QED BY <2>4, <2>5 DEF m
<1> HIDE DEF list
<1>4. lists \in Seq(Seq(StrategyRecords)) /\ Len(lists) = n /\ DOMAIN lists = 1..n
  <2>1. lists \in [1..n -> Seq(StrategyRecords)]
    BY <1>1, <1>3
  <2> HIDE DEF lists, n
  <2> QED BY <1>1, <2>1, IsList
<1>5. \A pl \in 1..n : lists[pl] = list(pl)
  BY <1>1
<1> HIDE DEF lists
<1>6. /\ g.results \in Seq(Nat) /\ Len(g.results) = size
      /\ g.outcomes \in Seq(Nat) /\ Len(g.outcomes) = size
  <2>1. [k \in 1..size |-> k] \in [1..size -> Nat] /\ [k \in 1..size |-> NoPayoff] \in [1..size -> Nat]
    BY <1>1 DEF NoPayoff
  <2> DEFINE a == [k \in 1..size |-> k]
             b == [k \in 1..size |-> NoPayoff]
  <2> HIDE DEF a, b
  <2>2. a \in Seq(Nat) /\ Len(a) = size /\ b \in Seq(Nat) /\ Len(b) = size
    BY <1>1, <2>1, IsList DEF a, b
  <2>3. g.results = a /\ g.outcomes = b
    BY DEF a, b
  <2> QED BY <2>2, <2>3
<1>7. g.strategies = lists /\ g.results = [k \in 1..size |-> k] /\ g.outcomes = [k \in 1..size |-> NoPayoff]
  OBVIOUS
<1>8. g \in Games
  BY <1>4, <1>6, <1>7 DEF Games
<1> HIDE DEF g
<1>9. Playable(g)
  BY <1>1, <1>3, <1>4, <1>5, <1>7, <1>8 DEF Playable
<1>10. NumStrategies(g) = Lengths(labels)
  <2>1. \A pl \in 1..n : Len(lists[pl]) = Len(labels[pl])
    BY <1>3, <1>5
  <2> QED BY <1>1, <1>4, <1>7, <2>1 DEF NumStrategies, Lengths
<1>11. Labels(g) = labels
  <2>1. \A pl \in 1..n : [st \in DOMAIN lists[pl] |-> lists[pl][st].label] = labels[pl]
    <3> SUFFICES ASSUME NEW pl \in 1..n
                 PROVE  [st \in DOMAIN lists[pl] |-> lists[pl][st].label] = labels[pl]
      OBVIOUS
    <3>1. DOMAIN lists[pl] = 1..Len(labels[pl])
          /\ \A st \in 1..Len(labels[pl]) : lists[pl][st].label = labels[pl][st]
      BY <1>3, <1>5
    <3>2. labels[pl] = [st \in 1..Len(labels[pl]) |-> labels[pl][st]]
      <4>1. labels[pl] \in Seq(Nat)
        BY LabelsOKFacts
      <4> QED BY <4>1, ListIs
    <3> QED BY <3>1, <3>2
  <2>2. labels = [pl \in 1..n |-> labels[pl]]
    BY <1>1, ListIs DEF LabelsOK
  <2> HIDE DEF n
  <2> QED BY <1>4, <1>7, <2>1, <2>2 DEF Labels
<1>12. WellLabelled(g)
  <2>1. \A pl \in 1..n : \A st \in 1..Len(labels[pl]) : lists[pl][st].label = labels[pl][st]
    BY <1>3, <1>5
  <2>2. \A pl \in 1..n : DOMAIN lists[pl] = 1..Len(labels[pl])
    BY <1>3, <1>5
  <2>3. ASSUME NEW pl \in 1..n
        PROVE  /\ \A st \in 1..Len(labels[pl]) : lists[pl][st].label \in Label
               /\ \A st, other \in 1..Len(labels[pl]) :
                    lists[pl][st].label = lists[pl][other].label => st = other
    <3>1. DOMAIN labels[pl] = 1..Len(labels[pl])
      BY <1>1
    <3>2. /\ \A st \in DOMAIN labels[pl] : labels[pl][st] \in Label
          /\ \A st, other \in DOMAIN labels[pl] : labels[pl][st] = labels[pl][other] => st = other
      BY <1>1 DEF LabelsOK
    <3>3. \A st \in 1..Len(labels[pl]) : lists[pl][st].label = labels[pl][st]
      BY <2>1
    <3> HIDE DEF n
    <3> QED BY <3>1, <3>2, <3>3
  <2> HIDE DEF n
  <2>4. ASSUME NEW pl \in DOMAIN g.strategies
        PROVE  /\ \A st \in DOMAIN g.strategies[pl] : g.strategies[pl][st].label \in Label
               /\ \A st, other \in DOMAIN g.strategies[pl] :
                    g.strategies[pl][st].label = g.strategies[pl][other].label => st = other
    <3>1. pl \in 1..n /\ g.strategies[pl] = lists[pl]
      BY <1>4, <1>7
    <3>2. DOMAIN lists[pl] = 1..Len(labels[pl])
      BY <2>2, <3>1
    <3> QED BY <2>3, <3>1, <3>2
  <2> QED BY <2>4 DEF WellLabelled
<1>13. OwnOutcomes(g.results, g.outcomes)
  <2>1. \A k \in 1..size : g.results[k] = k
    BY <1>7
  <2> QED BY <1>1, <1>6, <2>1 DEF OwnOutcomes
<1>14. Product(NumStrategies(g)) <= Len(g.results)
  BY <1>1, <1>6, <1>10 DEF size
<1>15. Sound(h) /\ DenselyPlaced(h) /\ InTurn(h)
  BY <1>2, <1>9, <1>12, <1>13, <1>14, IndexedIsSound
<1>16. Labels(h) = Labels(g) /\ NumStrategies(h) = NumStrategies(g) /\ Len(h.strategies) = Len(g.strategies)
       /\ h.results = g.results /\ h.outcomes = g.outcomes
  BY <1>2, <1>9, IndexedStrategies
<1> QED BY <1>4, <1>7, <1>10, <1>11, <1>15, <1>16 DEF size

LEMMA SameStrategies ==
  ASSUME NEW g, Playable(g), NEW h \in Games, h.strategies = g.strategies
  PROVE  /\ Playable(h) /\ NumStrategies(h) = NumStrategies(g) /\ Labels(h) = Labels(g)
         /\ Profiles(h) = Profiles(g)
         /\ WellLabelled(g) => WellLabelled(h)
         /\ DenselyPlaced(h) <=> DenselyPlaced(g)
         /\ InTurn(h) <=> InTurn(g)
         /\ \A q : Index(h, q) = Index(g, q) /\ Named(h, q) = Named(g, q)
         /\ \A p : Position(h, p) = Position(g, p)
<1>1. Playable(h)
  BY DEF Playable
<1>2. NumStrategies(h) = NumStrategies(g) /\ Labels(h) = Labels(g)
  BY DEF NumStrategies, Labels
<1>3. Profiles(h) = Profiles(g)
  BY <1>2 DEF Profiles
<1>4. WellLabelled(g) => WellLabelled(h)
  BY DEF WellLabelled
<1>5. (DenselyPlaced(h) <=> DenselyPlaced(g)) /\ (InTurn(h) <=> InTurn(g))
  BY <1>2 DEF DenselyPlaced, InTurn
<1>6. \A q : Index(h, q) = Index(g, q)
  BY DEF Index
<1>7. \A q : Named(h, q) = Named(g, q)
  BY DEF Named
<1>8. \A p : Position(h, p) = Position(g, p)
  BY DEF Position
<1> QED BY <1>1, <1>2, <1>3, <1>4, <1>5, <1>6, <1>7, <1>8

LEMMA SameTable ==
  ASSUME NEW g, Sound(g), NEW h \in Games, h.strategies = g.strategies,
         Len(h.results) = Len(g.results), OwnOutcomes(h.results, h.outcomes)
  PROVE  Sound(h)
<1>1. Playable(g) /\ WellLabelled(g) /\ Located(g) /\ Product(NumStrategies(g)) <= Len(g.results)
  BY DEF Sound
<1>2. /\ Playable(h) /\ NumStrategies(h) = NumStrategies(g) /\ Profiles(h) = Profiles(g)
      /\ WellLabelled(h) /\ \A q : Index(h, q) = Index(g, q)
  BY <1>1, SameStrategies
<1>3. Located(h)
  BY <1>1, <1>2 DEF Located
<1> QED BY <1>1, <1>2, <1>3 DEF Sound

(* What is listed keeps its place.                                         *)
LEMMA FilledUp ==
  ASSUME NEW listed \in Seq(Nat), NEW blank \in Seq(Nat)
  PROVE  LET all == listed \o SubSeq(blank, Len(listed) + 1, Len(blank))
         IN  /\ all \in Seq(Nat) /\ Len(all) >= Len(listed) /\ Len(all) \in Nat
             /\ \A o \in 1..Len(listed) : all[o] = listed[o]
<1> DEFINE a == Len(listed)
           b == Len(blank)
           rest == SubSeq(blank, a + 1, b)
           all == listed \o rest
<1>1. a \in Nat /\ b \in Nat /\ \A i \in 1..b : blank[i] \in Nat
  BY ListIs
<1>2. rest \in Seq(Nat)
  <2>1. a + 1 \in Int /\ b \in Int /\ \A i \in (a + 1)..b : blank[i] \in Nat
    BY <1>1
  <2> HIDE DEF a, b
  <2> QED BY <2>1, SubSeqProperties
<1> HIDE DEF rest
<1>3. /\ all \in Seq(Nat) /\ Len(all) = Len(listed) + Len(rest)
      /\ \A i \in 1..(Len(listed) + Len(rest)) :
           all[i] = IF i <= Len(listed) THEN listed[i] ELSE rest[i - Len(listed)]
  BY <1>2, ConcatProperties
<1>4. Len(rest) \in Nat /\ Len(listed) \in Nat
  BY <1>2, ListIs
<1> HIDE DEF all
<1>5. all \in Seq(Nat) /\ Len(all) >= Len(listed) /\ Len(all) \in Nat
      /\ \A o \in 1..Len(listed) : all[o] = listed[o]
  BY <1>3, <1>4
<1> QED BY <1>5 DEF all, rest

LEMMA ReadFacts ==
  ASSUME NEW text, TextSound(text), NEW h, h = ReadNfgFile(text)
  PROVE  /\ Sound(h) /\ DenselyPlaced(h) /\ InTurn(h)
         /\ Labels(h) = text.labels /\ NumStrategies(h) = Lengths(text.labels)
         /\ h.results = text.body
         /\ Len(h.outcomes) >= Len(text.outcomes)
         /\ \A o \in 1..Len(text.outcomes) : h.outcomes[o] = text.outcomes[o]
<1> DEFINE fresh == NewTable(text.labels)
           size == Product(Lengths(text.labels))
           d == NumStrategies(fresh)
           blank == [o \in 1..Len(fresh.outcomes) |-> NoPayoff]
           listed == [o \in 1..Len(text.outcomes) |-> text.outcomes[o]]
           At(i) == CHOOSE k \in DOMAIN Iterated(d) : Index(fresh, Iterated(d)[k]) = i
           all == listed \o SubSeq(blank, Len(listed) + 1, Len(blank))
           table == [i \in DOMAIN fresh.results |-> text.body[At(i)]]
<1>1. /\ text.outcomes \in Seq(Nat) /\ text.body \in Seq(Nat)
      /\ LabelsOK(text.labels) /\ Len(text.body) = size
      /\ OwnOutcomes(text.body, text.outcomes)
  BY DEF TextSound
<1>2. /\ Sound(fresh) /\ DenselyPlaced(fresh) /\ InTurn(fresh)
      /\ Labels(fresh) = text.labels /\ d = Lengths(text.labels)
      /\ fresh.results = [k \in 1..size |-> k]
      /\ fresh.outcomes = [k \in 1..size |-> NoPayoff]
  BY <1>1, NewTableFacts
<1>3. size \in Nat \ {0}
  BY <1>1, LabelsOKFacts
<1>4. h = [fresh EXCEPT !.outcomes = all, !.results = table]
  BY DEF ReadNfgFile
<1>5. Playable(fresh) /\ fresh \in Games /\ Product(d) <= Len(fresh.results)
  BY <1>2 DEF Sound, Playable
<1>6. /\ DOMAIN Iterated(d) = 1..size
      /\ \A k \in 1..size : Index(fresh, Iterated(d)[k]) = k
  BY <1>2, <1>5, DenseIsLocated
<1> HIDE DEF fresh, size, d
<1>7. \A i \in 1..size : At(i) = i
  <2> SUFFICES ASSUME NEW i \in 1..size PROVE At(i) = i
    OBVIOUS
  <2>1. \A k \in 1..size : Index(fresh, Iterated(d)[k]) = i <=> k = i
    BY <1>6
  <2> QED BY <1>6, <2>1
<1>8. table = text.body
  <2>1. DOMAIN fresh.results = 1..size
    BY <1>2
  <2>2. table = [i \in 1..size |-> text.body[i]]
    <3>1. table = [i \in 1..size |-> text.body[At(i)]]
      BY <2>1
    <3> HIDE DEF At, table
    <3> QED BY <1>7, <3>1
  <2>3. text.body = [i \in 1..Len(text.body) |-> text.body[i]]
    BY <1>1, ListIs
  <2> HIDE DEF table
  <2> QED BY <1>1, <2>2, <2>3
<1>9. listed = text.outcomes
  BY <1>1, ListIs
<1>10. blank = [o \in 1..size |-> NoPayoff]
  <2>1. Len(fresh.outcomes) = size
    BY <1>2, <1>3
  <2> QED BY <2>1
<1> HIDE DEF table, listed, blank
<1>11. /\ all \in Seq(Nat) /\ Len(all) >= Len(text.outcomes) /\ Len(all) \in Nat
       /\ \A o \in 1..Len(text.outcomes) : all[o] = text.outcomes[o]
  <2>1. size \in Nat /\ listed \in Seq(Nat)
    BY <1>1, <1>3, <1>9
  <2>2. all = listed \o SubSeq(blank, Len(listed) + 1, Len(blank))
    OBVIOUS
  <2> HIDE DEF all
  <2>3. /\ all \in Seq(Nat) /\ Len(all) >= Len(listed) /\ Len(all) \in Nat
        /\ \A o \in 1..Len(listed) : all[o] = listed[o]
    <3>1. blank \in Seq(Nat)
      <4>1. blank \in [1..size -> Nat]
        BY <1>10 DEF NoPayoff
      <4> QED BY <2>1, <4>1, IsList
    <3> QED BY <2>1, <2>2, <3>1, FilledUp
  <2> QED BY <1>9, <2>3
<1> HIDE DEF all
<1>12. /\ h \in Games /\ h.strategies = fresh.strategies
       /\ h.results = text.body /\ h.outcomes = all
  BY <1>1, <1>4, <1>5, <1>8, <1>11 DEF Games
<1>13. OwnOutcomes(h.results, h.outcomes)
  <2>1. \A k \in 1..Len(text.body) : text.body[k] \in 0..Len(all)
    <3> SUFFICES ASSUME NEW k \in 1..Len(text.body) PROVE text.body[k] \in 0..Len(all)
      OBVIOUS
    <3>1. text.body[k] \in 0..Len(text.outcomes) /\ Len(text.outcomes) \in Nat
      BY <1>1 DEF OwnOutcomes
    <3> QED BY <1>11, <3>1
  <2> QED BY <1>1, <1>12, <2>1 DEF OwnOutcomes
<1>14. Len(h.results) = Len(fresh.results)
  BY <1>1, <1>2, <1>3, <1>12
<1>15. Sound(h)
  BY <1>2, <1>12, <1>13, <1>14, SameTable
<1>16. DenselyPlaced(h) /\ InTurn(h) /\ Labels(h) = text.labels /\ NumStrategies(h) = Lengths(text.labels)
  BY <1>2, <1>5, <1>12, SameStrategies DEF d
<1> QED BY <1>11, <1>12, <1>15, <1>16

LEMMA LengthsAre ==
  ASSUME NEW g, Playable(g)
  PROVE  NumStrategies(g) = Lengths(Labels(g))
<1>1. /\ DOMAIN Labels(g) = 1..Len(g.strategies) /\ DOMAIN g.strategies = 1..Len(g.strategies)
      /\ \A pl \in 1..Len(g.strategies) : Len(Labels(g)[pl]) = Len(g.strategies[pl])
  BY LabelsAre, PlayableFacts
<1> QED BY <1>1 DEF Lengths, NumStrategies

LEMMA NamedIs ==
  ASSUME NEW g, Playable(g), NEW q \in Profiles(g)
  PROVE  Named(g, q) = [pl \in DOMAIN Labels(g) |-> Labels(g)[pl][q[pl]]]
<1> DEFINE n == Len(g.strategies)
<1>1. DOMAIN Labels(g) = 1..n /\ DOMAIN g.strategies = 1..n
  BY LabelsAre, PlayableFacts
<1>2. \A pl \in 1..n : q[pl] \in 1..Len(g.strategies[pl])
  BY ProfilesAre
<1>3. \A pl \in 1..n : Labels(g)[pl] = [st \in 1..Len(g.strategies[pl]) |-> g.strategies[pl][st].label]
  BY LabelsAre
<1> HIDE DEF n
<1>4. \A pl \in 1..n : Labels(g)[pl][q[pl]] = g.strategies[pl][q[pl]].label
  <2> SUFFICES ASSUME NEW pl \in 1..n PROVE Labels(g)[pl][q[pl]] = g.strategies[pl][q[pl]].label
    OBVIOUS
  <2> DEFINE list == Labels(g)[pl]
             st == q[pl]
             m == Len(g.strategies[pl])
  <2>1. st \in 1..m /\ list = [k \in 1..m |-> g.strategies[pl][k].label]
    BY <1>2, <1>3
  <2> HIDE DEF list, st, m
  <2>2. list[st] = g.strategies[pl][st].label
    BY <2>1
  <2> QED BY <2>2 DEF list, st
<1> QED BY <1>1, <1>4 DEF Named

(* Games with the same labels and the same payoffs say the same.           *)
LEMMA SamePayoffs ==
  ASSUME NEW g, Playable(g), WellLabelled(g), NEW h, Playable(h), WellLabelled(h),
         Labels(g) = Labels(h), \A q \in Profiles(g) : GetPayoff(g, q) = GetPayoff(h, q)
  PROVE  Shown(g) = Shown(h)
<1>1. Profiles(h) = Profiles(g)
  BY LengthsAre DEF Profiles
<1>2. \A q \in Profiles(g) : Named(h, q) = Named(g, q)
  BY <1>1, NamedIs
<1> DEFINE P == ProfilesOver(Labels(g))
<1>3. Payoffs(g) = [p \in P |-> Payoffs(g)[p]] /\ Payoffs(h) = [p \in P |-> Payoffs(h)[p]]
  BY PayoffsAre
<1>4. ASSUME NEW p \in P PROVE Payoffs(g)[p] = Payoffs(h)[p]
  <2>1. PICK q \in Profiles(g) : Named(g, q) = p
    BY NamedFacts
  <2>2. Payoffs(g)[p] = GetPayoff(g, q)
    BY <2>1, PayoffsAre
  <2>3. Payoffs(h)[p] = GetPayoff(h, q)
    BY <1>1, <1>2, <2>1, PayoffsAre
  <2> QED BY <2>2, <2>3
<1>5. Payoffs(g) = Payoffs(h)
  <2> HIDE DEF P
  <2> QED BY <1>3, <1>4
<1> QED BY <1>5 DEF Shown

LEMMA LabelsAreOK ==
  ASSUME NEW g, Playable(g), WellLabelled(g)
  PROVE  LabelsOK(Labels(g))
<1> DEFINE n == Len(g.strategies)
           L == Labels(g)
<1>1. L \in Seq(Seq(Nat)) /\ DOMAIN L = 1..n
  BY LabelsAre
<1>2. ASSUME NEW pl \in 1..n
      PROVE  /\ Len(L[pl]) >= 1
             /\ \A st \in DOMAIN L[pl] : L[pl][st] \in Label
             /\ \A st, other \in DOMAIN L[pl] : L[pl][st] = L[pl][other] => st = other
  <2> DEFINE m == Len(g.strategies[pl])
  <2>1. /\ L[pl] = [st \in 1..m |-> g.strategies[pl][st].label]
        /\ Len(L[pl]) = m /\ DOMAIN L[pl] = 1..m
    BY LabelsAre
  <2>2. m \in Nat \ {0} /\ DOMAIN g.strategies[pl] = 1..m /\ pl \in DOMAIN g.strategies
    BY PlayableFacts
  <2>3. /\ \A st \in 1..m : g.strategies[pl][st].label \in Label
        /\ \A st, other \in 1..m :
             g.strategies[pl][st].label = g.strategies[pl][other].label => st = other
    BY <2>2 DEF WellLabelled
  <2> DEFINE list == L[pl]
  <2> HIDE DEF m, L, list
  <2>4. Len(list) = m /\ DOMAIN list = 1..m /\ \A st \in 1..m : list[st] = g.strategies[pl][st].label
    BY <2>1 DEF list
  <2>5. m >= 1
    BY <2>2
  <2>6. /\ \A st \in 1..m : list[st] \in Label
        /\ \A st, other \in 1..m : list[st] = list[other] => st = other
    BY <2>3, <2>4
  <2> QED BY <2>4, <2>5, <2>6 DEF list
<1> QED BY <1>1, <1>2 DEF LabelsOK

LEMMA WriteFacts ==
  ASSUME NEW g, Sound(g), NEW text, text = WriteNfgFile(g)
  PROVE  /\ TextSound(text) /\ text.labels = Labels(g) /\ text.outcomes = g.outcomes
         /\ \A k \in 1..Product(NumStrategies(g)) : text.body[k] = g.results[k]
<1> DEFINE K == Product(NumStrategies(g))
           body == [k \in 1..K |-> g.results[k]]
<1>1. Playable(g) /\ WellLabelled(g) /\ K <= Len(g.results) /\ OwnOutcomes(g.results, g.outcomes)
  BY DEF Sound
<1>2. text = [labels |-> Labels(g), outcomes |-> g.outcomes, body |-> body]
  BY DEF WriteNfgFile, Labels
<1>3. LabelsOK(Labels(g)) /\ NumStrategies(g) = Lengths(Labels(g))
  BY <1>1, LabelsAreOK, LengthsAre
<1>4. K \in Nat
  BY <1>3, LabelsOKFacts
<1>5. g.results \in Seq(Nat) /\ g.outcomes \in Seq(Nat)
  BY <1>1, PlayableFacts
<1>6. Len(g.results) \in Nat /\ \A k \in 1..Len(g.results) : g.results[k] \in Nat
  BY <1>5, ListIs
<1> HIDE DEF K
<1>7. \A k \in 1..K : k \in 1..Len(g.results)
  BY <1>1, <1>4, <1>6
<1>8. body \in [1..K -> Nat] /\ \A k \in 1..K : body[k] = g.results[k]
  BY <1>6, <1>7
<1> HIDE DEF body
<1>9. body \in Seq(Nat) /\ Len(body) = K
  BY <1>4, <1>8, IsList
<1>10. OwnOutcomes(body, g.outcomes)
  BY <1>1, <1>7, <1>8, <1>9 DEF OwnOutcomes
<1>11. /\ text.labels = Labels(g) /\ text.outcomes = g.outcomes /\ text.body = body
       /\ text \in [labels : Seq(Seq(Nat)), outcomes : Seq(Nat), body : Seq(Nat)]
  BY <1>2, <1>3, <1>5, <1>9 DEF LabelsOK
<1>12. Len(body) = Product(Lengths(Labels(g)))
  BY <1>3, <1>9 DEF K
<1>13. TextSound(text)
  BY <1>3, <1>10, <1>11, <1>12 DEF TextSound
<1> QED BY <1>8, <1>11, <1>13 DEF K

(* A dense table is read back as it was written.                           *)
THEOREM ReadsBack ==
  ASSUME NEW g, Sound(g), DenselyPlaced(g)
  PROVE  Shown(ReadNfgFile(WriteNfgFile(g))) = Shown(g)
<1> DEFINE text == WriteNfgFile(g)
           h == ReadNfgFile(text)
           K == Product(NumStrategies(g))
<1>1. /\ TextSound(text) /\ text.labels = Labels(g) /\ text.outcomes = g.outcomes
      /\ \A k \in 1..K : text.body[k] = g.results[k]
  BY WriteFacts
<1>2. /\ Sound(h) /\ DenselyPlaced(h) /\ Labels(h) = text.labels
      /\ h.results = text.body
      /\ \A o \in 1..Len(text.outcomes) : h.outcomes[o] = text.outcomes[o]
  BY <1>1, ReadFacts
<1> HIDE DEF text, h
<1>3. /\ Playable(g) /\ WellLabelled(g) /\ K <= Len(g.results) /\ OwnOutcomes(g.results, g.outcomes)
      /\ Playable(h) /\ WellLabelled(h)
  BY <1>2 DEF Sound
<1>4. NumStrategies(h) = NumStrategies(g) /\ Profiles(h) = Profiles(g)
  BY <1>1, <1>2, <1>3, LengthsAre DEF Profiles
<1>5. ASSUME NEW q \in Profiles(g) PROVE GetPayoff(g, q) = GetPayoff(h, q)
  <2> DEFINE i == Index(g, q)
  <2>1. i \in 1..K
    BY <1>3, DenseIsLocated
  <2>2. Index(h, q) = i
    BY <1>2, <1>3, <1>4, DenseIndex
  <2> HIDE DEF i
  <2>3. h.results[i] = g.results[i]
    BY <1>1, <1>2, <2>1
  <2>4. g.results[i] \in 0..Len(g.outcomes)
    <3>1. g.results \in Seq(Nat) /\ K \in Nat
      BY <1>3, PlayableFacts, DenseIsLocated
    <3>2. i \in 1..Len(g.results)
      BY <1>3, <2>1, <3>1
    <3> QED BY <1>3, <3>2 DEF OwnOutcomes
  <2>5. g.results[i] # Null => g.results[i] \in 1..Len(g.outcomes)
    <3>1. Len(g.outcomes) \in Nat
      BY <1>3, PlayableFacts
    <3> QED BY <2>4, <3>1 DEF Null
  <2>6. g.results[i] # Null => h.outcomes[g.results[i]] = g.outcomes[g.results[i]]
    BY <1>1, <1>2, <2>5
  <2> QED BY <2>2, <2>3, <2>6 DEF GetPayoff, i
<1>6. Shown(g) = Shown(h)
  BY <1>1, <1>2, <1>3, <1>5, SamePayoffs
<1> QED BY <1>6 DEF h, text

-----------------------------------------------------------------------------
(* A new player has one strategy, and nothing moves.                       *)

LEMMA SameBeginning ==
  ASSUME NEW T, NEW n \in Nat, NEW m \in Nat, NEW d \in [1..n -> T], NEW e \in [1..m -> T],
         NEW k \in Nat, k <= n, k <= m, \A i \in 1..k : e[i] = d[i]
  PROVE  SubSeq(e, 1, k) = SubSeq(d, 1, k)
<1>1. k \in 0..n /\ k \in 0..m
  OBVIOUS
<1>2. SubSeq(d, 1, k) \in [1..k -> T] /\ \A i \in 1..k : SubSeq(d, 1, k)[i] = d[i]
  BY <1>1, FirstOf
<1>3. SubSeq(e, 1, k) \in [1..k -> T] /\ \A i \in 1..k : SubSeq(e, 1, k)[i] = e[i]
  BY <1>1, FirstOf
<1> DEFINE a == SubSeq(d, 1, k)
           b == SubSeq(e, 1, k)
<1> HIDE DEF a, b
<1>4. a \in [1..k -> T] /\ b \in [1..k -> T] /\ \A i \in 1..k : a[i] = b[i]
  BY <1>2, <1>3 DEF a, b
<1> QED BY <1>4 DEF a, b

LEMMA NewPlayerIs ==
  ASSUME NEW g, Playable(g), NEW label \in Nat, NEW h, h = NewPlayer(g, label)
  PROVE  /\ Playable(h) /\ h.results = g.results /\ h.outcomes = g.outcomes
         /\ Len(h.strategies) = Len(g.strategies) + 1
         /\ \A pl \in 1..Len(g.strategies) : h.strategies[pl] = g.strategies[pl]
         /\ h.strategies[Len(g.strategies) + 1] = <<Strategy(label, 0)>>
<1> DEFINE s == g.strategies
           n == Len(s)
           own == <<Strategy(label, 0)>>
           T == Seq(StrategyRecords)
<1>1. g \in Games /\ s \in Seq(T) /\ n \in Nat /\ DOMAIN s = 1..n
      /\ \A pl \in 1..n : Len(s[pl]) >= 1
  BY PlayableFacts DEF Playable, Games
<1>2. own \in T /\ Len(own) = 1
  BY DEF Strategy, StrategyRecords
<1> HIDE DEF own, T, s
<1>3. /\ Append(s, own) \in Seq(T) /\ Len(Append(s, own)) = n + 1
      /\ \A pl \in 1..n : Append(s, own)[pl] = s[pl]
      /\ Append(s, own)[n + 1] = own
  BY <1>1, <1>2, AppendProperties
<1> DEFINE longer == Append(s, own)
<1>4. h = [g EXCEPT !.strategies = longer]
  BY DEF NewPlayer, s, own
<1> HIDE DEF longer
<1>5. longer \in Seq(T) /\ Len(longer) = n + 1 /\ longer[n + 1] = own
      /\ \A pl \in 1..n : longer[pl] = s[pl]
  BY <1>3 DEF longer
<1>6. h \in Games /\ h.strategies = longer /\ h.results = g.results /\ h.outcomes = g.outcomes
  BY <1>1, <1>4, <1>5 DEF Games, T
<1>7. \A pl \in DOMAIN longer : Len(longer[pl]) >= 1
  <2>1. DOMAIN longer = 1..(n + 1)
    BY <1>5, ListIs
  <2>2. \A pl \in 1..(n + 1) : pl \in 1..n \/ pl = n + 1
    BY <1>1
  <2>3. Len(own) >= 1
    BY <1>2
  <2> SUFFICES ASSUME NEW pl \in 1..(n + 1) PROVE Len(longer[pl]) >= 1
    BY <2>1
  <2>4. CASE pl \in 1..n
    BY <1>1, <1>5, <2>4
  <2>5. CASE pl = n + 1
    BY <1>5, <2>3, <2>5
  <2> QED BY <2>2, <2>4, <2>5
<1> QED BY <1>5, <1>6, <1>7 DEF Playable, s, own

LEMMA NewPlayerFacts ==
  ASSUME NEW g, Sound(g), NEW label \in Label, NEW h, h = NewPlayer(g, label)
  PROVE  /\ Sound(h)
         /\ Labels(h) = Append(Labels(g), <<label>>)
         /\ DenselyPlaced(g) => DenselyPlaced(h)
         /\ \A q \in Profiles(h) :
              /\ SubSeq(q, 1, Len(g.strategies)) \in Profiles(g)
              /\ GetPayoff(h, q) = GetPayoff(g, SubSeq(q, 1, Len(g.strategies)))
              /\ SubSeq(Named(h, q), 1, Len(g.strategies))
                   = Named(g, SubSeq(q, 1, Len(g.strategies)))
<1> DEFINE n == Len(g.strategies)
           c == NumStrategies(g)
           d == NumStrategies(h)
           first(q) == SubSeq(q, 1, n)
<1>0. Playable(g) /\ WellLabelled(g) /\ Located(g) /\ Product(c) <= Len(g.results)
      /\ OwnOutcomes(g.results, g.outcomes) /\ label \in Nat
  BY LabelIsNat DEF Sound
<1>1. /\ Playable(h) /\ h.results = g.results /\ h.outcomes = g.outcomes
      /\ Len(h.strategies) = n + 1
      /\ \A pl \in 1..n : h.strategies[pl] = g.strategies[pl]
      /\ h.strategies[n + 1] = <<Strategy(label, 0)>>
  BY <1>0, NewPlayerIs, ZenonT(60)
<1>2. n \in Nat /\ c \in [1..n -> Nat \ {0}] /\ DOMAIN g.strategies = 1..n
      /\ \A pl \in 1..n : c[pl] = Len(g.strategies[pl]) /\ DOMAIN g.strategies[pl] = 1..c[pl]
  <2>1. n \in Nat /\ c \in [1..n -> Nat \ {0}] /\ DOMAIN g.strategies = 1..n
        /\ \A pl \in 1..n : c[pl] = Len(g.strategies[pl])
    BY <1>0, PlayableFacts
  <2>2. \A pl \in 1..n : DOMAIN g.strategies[pl] = 1..Len(g.strategies[pl])
    BY <1>0, PlayableFacts
  <2> HIDE DEF n, c
  <2> QED BY <2>1, <2>2
<1>3. d \in [1..(n + 1) -> Nat \ {0}] /\ DOMAIN h.strategies = 1..(n + 1)
      /\ \A pl \in 1..(n + 1) : d[pl] = Len(h.strategies[pl])
  BY <1>1, PlayableFacts
<1>4. Len(h.strategies[n + 1]) = 1 /\ DOMAIN h.strategies[n + 1] = {1}
      /\ h.strategies[n + 1][1] = Strategy(label, 0)
  <2> HIDE DEF n
  <2> QED BY <1>1
<1>5. \A pl \in 1..(n + 1) : pl \in 1..n \/ pl = n + 1
  BY <1>2
<1>6. (\A pl \in 1..n : pl \in 1..(n + 1)) /\ n + 1 \in 1..(n + 1) /\ n \in 0..(n + 1)
  BY <1>2
<1>7. (\A pl \in 1..n : d[pl] = c[pl]) /\ d[n + 1] = 1
  <2> HIDE DEF n, c, d
  <2> QED BY <1>1, <1>2, <1>3, <1>4, <1>6
<1> HIDE DEF n, c, d
<1>8. \A k \in 0..n : Place(d, k) = Place(c, k)
  <2> SUFFICES ASSUME NEW k \in 0..n PROVE SubSeq(d, 1, k) = SubSeq(c, 1, k)
    BY DEF Place
  <2>1. n + 1 \in Nat /\ k \in Nat /\ k <= n /\ k <= n + 1 /\ \A i \in 1..k : d[i] = c[i]
    BY <1>2, <1>7
  <2> QED BY <1>2, <1>3, <2>1, SameBeginning
<1>9. Product(d) = Product(c)
  <2>1. c \in [1..n -> Nat] /\ d \in [1..(n + 1) -> Nat] /\ n + 1 \in Nat /\ n \in 0..n
        /\ (n + 1) - 1 = n
    BY <1>2, <1>3
  <2>2. Product(d) = Place(d, n + 1) /\ Place(d, n + 1) = Place(d, (n + 1) - 1) * d[n + 1]
    BY <1>6, <2>1, PlaceFacts
  <2>3. Product(c) = Place(c, n) /\ Place(c, n) \in Nat
    BY <1>2, <2>1, PlaceFacts
  <2>4. Product(d) = Place(c, n) * 1
    BY <1>7, <1>8, <2>1, <2>2
  <2> QED BY <2>3, <2>4
<1>10. ASSUME NEW q \in Profiles(h)
       PROVE  /\ first(q) \in Profiles(g)
              /\ \A pl \in 1..n : first(q)[pl] = q[pl]
              /\ q[n + 1] = 1
              /\ q \in [1..(n + 1) -> Nat \ {0}]
  <2>1. q \in [1..(n + 1) -> Nat \ {0}] /\ \A pl \in 1..(n + 1) : q[pl] \in 1..Len(h.strategies[pl])
    BY <1>1, ProfilesAre
  <2>2. n + 1 \in Nat
    BY <1>2
  <2>3. first(q) \in [1..n -> Nat \ {0}] /\ \A pl \in 1..n : first(q)[pl] = q[pl]
    <3> DEFINE T == Nat \ {0}
    <3>1. q \in [1..(n + 1) -> T]
      BY <2>1
    <3> HIDE DEF T
    <3>2. first(q) \in [1..n -> T] /\ \A pl \in 1..n : first(q)[pl] = q[pl]
      BY <1>6, <2>2, <3>1, FirstOf
    <3> QED BY <3>2 DEF T
  <2> HIDE DEF first
  <2>4. \A pl \in 1..n : first(q)[pl] \in 1..Len(g.strategies[pl])
    BY <1>1, <1>6, <2>1, <2>3
  <2>5. first(q) \in Profiles(g)
    BY <1>0, <2>3, <2>4, ProfilesAre DEF n
  <2>6. q[n + 1] = 1
    BY <1>4, <1>6, <2>1
  <2> QED BY <2>1, <2>3, <2>5, <2>6
<1>11. ASSUME NEW q \in Profiles(h) PROVE Index(h, q) = Index(g, first(q))
  <2> DEFINE r == first(q)
             a == [pl \in 1..n |-> g.strategies[pl][r[pl]].offset]
             b == [pl \in 1..(n + 1) |-> h.strategies[pl][q[pl]].offset]
  <2>1. r \in Profiles(g) /\ q[n + 1] = 1 /\ \A pl \in 1..n : r[pl] = q[pl]
    BY <1>10
  <2> HIDE DEF r, first
  <2>2. Index(g, r) = 1 + Total(a) /\ a \in [1..n -> Int]
    BY <1>0, <2>1, IndexIs DEF n
  <2>3. Index(h, q) = 1 + Total(b) /\ b \in [1..(n + 1) -> Int]
    BY <1>1, IndexIs
  <2>4. \A pl \in 1..n : b[pl] = a[pl]
    <3> SUFFICES ASSUME NEW pl \in 1..n PROVE b[pl] = a[pl]
      OBVIOUS
    <3>1. h.strategies[pl] = g.strategies[pl] /\ r[pl] = q[pl] /\ pl \in 1..(n + 1)
      BY <1>1, <1>6, <2>1
    <3> QED BY <3>1
  <2>5. b[n + 1] = 0
    <3>1. h.strategies[n + 1][q[n + 1]] = Strategy(label, 0) /\ Strategy(label, 0).offset = 0
      BY <1>4, <2>1 DEF Strategy
    <3> QED BY <1>6, <3>1
  <2> HIDE DEF a, b
  <2>6. n + 1 \in Nat /\ n \in Nat /\ (n + 1) - 1 = n /\ n <= n /\ n <= n + 1 /\ n \in 0..n
    BY <1>2
  <2>7. Total(b) = UpTo(b, n + 1) /\ UpTo(b, n + 1) = UpTo(b, (n + 1) - 1) + b[n + 1]
    BY <1>6, <2>3, <2>6, UpToFacts
  <2>8. Total(a) = UpTo(a, n) /\ UpTo(a, n) \in Int
    BY <2>2, <2>6, UpToFacts
  <2>9. UpTo(b, n) = UpTo(a, n)
    <3>1. SubSeq(b, 1, n) = SubSeq(a, 1, n)
      BY <2>2, <2>3, <2>4, <2>6, SameBeginning
    <3> QED BY <3>1 DEF UpTo
  <2>10. Total(b) = UpTo(a, n) + 0
    BY <2>5, <2>6, <2>7, <2>9
  <2> QED BY <2>2, <2>3, <2>8, <2>10 DEF r
<1>12. WellLabelled(h)
  <2>1. ASSUME NEW pl \in DOMAIN h.strategies
        PROVE  /\ \A st \in DOMAIN h.strategies[pl] : h.strategies[pl][st].label \in Label
               /\ \A st, other \in DOMAIN h.strategies[pl] :
                    h.strategies[pl][st].label = h.strategies[pl][other].label => st = other
    <3>1. CASE pl \in 1..n
      <4> DEFINE list == g.strategies[pl]
      <4>1. h.strategies[pl] = list /\ pl \in DOMAIN g.strategies
        BY <1>1, <1>2, <3>1
      <4>2. /\ \A st \in DOMAIN list : list[st].label \in Label
            /\ \A st, other \in DOMAIN list : list[st].label = list[other].label => st = other
        BY <1>0, <4>1 DEF WellLabelled
      <4> HIDE DEF list
      <4> QED BY <4>1, <4>2
    <3>2. CASE pl = n + 1
      <4>1. Strategy(label, 0).label = label
        BY DEF Strategy
      <4> QED BY <1>4, <3>2, <4>1
    <3> QED BY <1>3, <1>5, <3>1, <3>2
  <2> QED BY <2>1 DEF WellLabelled
<1>13. Located(h)
  <2>1. \A pl \in DOMAIN h.strategies : \A st \in DOMAIN h.strategies[pl] : h.strategies[pl][st].offset >= 0
    <3> SUFFICES ASSUME NEW pl \in DOMAIN h.strategies, NEW st \in DOMAIN h.strategies[pl]
                 PROVE  h.strategies[pl][st].offset >= 0
      OBVIOUS
    <3>1. CASE pl \in 1..n
      BY <1>0, <1>1, <1>2, <3>1 DEF Located
    <3>2. CASE pl = n + 1
      <4>1. Strategy(label, 0).offset = 0
        BY DEF Strategy
      <4> QED BY <1>4, <3>2, <4>1
    <3> QED BY <1>3, <1>5, <3>1, <3>2
  <2>2. \A q \in Profiles(h) : Index(h, q) \in 1..Len(h.results)
    BY <1>0, <1>1, <1>10, <1>11 DEF Located
  <2>3. ASSUME NEW q \in Profiles(h), NEW r \in Profiles(h), Index(h, q) = Index(h, r) PROVE q = r
    <3>1. Index(g, first(q)) = Index(g, first(r)) /\ first(q) \in Profiles(g) /\ first(r) \in Profiles(g)
      BY <1>10, <1>11, <2>3
    <3>2. first(q) = first(r)
      <4> HIDE DEF first
      <4> QED BY <1>0, <3>1 DEF Located
    <3>3. /\ \A pl \in 1..n : first(q)[pl] = q[pl]
          /\ \A pl \in 1..n : first(r)[pl] = r[pl]
          /\ q[n + 1] = 1 /\ r[n + 1] = 1
          /\ q \in [1..(n + 1) -> Nat \ {0}] /\ r \in [1..(n + 1) -> Nat \ {0}]
      BY <1>10
    <3> HIDE DEF first
    <3>4. \A pl \in 1..(n + 1) : q[pl] = r[pl]
      BY <1>5, <3>2, <3>3
    <3>5. q = [pl \in 1..(n + 1) |-> q[pl]] /\ r = [pl \in 1..(n + 1) |-> r[pl]]
      BY <3>3
    <3> QED BY <3>4, <3>5
  <2> QED BY <2>1, <2>2, <2>3 DEF Located
<1>14. Sound(h)
  BY <1>0, <1>1, <1>9, <1>12, <1>13 DEF Sound, d

<1>15. Labels(h) = Append(Labels(g), <<label>>)
  <2> DEFINE L == Labels(g)
             M == Labels(h)
             T == Seq(Nat)
  <2>1. L \in Seq(T) /\ Len(L) = n
    BY <1>0, LabelsAre DEF n
  <2>2. M \in Seq(T) /\ Len(M) = n + 1
    BY <1>1, LabelsAre
  <2>3. \A pl \in 1..n : M[pl] = L[pl]
    <3>1. \A pl \in 1..n : L[pl] = [st \in DOMAIN g.strategies[pl] |-> g.strategies[pl][st].label]
      BY <1>2 DEF Labels
    <3>2. \A pl \in 1..n : M[pl] = [st \in DOMAIN h.strategies[pl] |-> h.strategies[pl][st].label]
      BY <1>3, <1>6 DEF Labels
    <3> HIDE DEF L, M
    <3> SUFFICES ASSUME NEW pl \in 1..n PROVE M[pl] = L[pl]
      OBVIOUS
    <3> DEFINE list == g.strategies[pl]
    <3>3. L[pl] = [st \in DOMAIN list |-> list[st].label]
      BY <3>1
    <3>4. M[pl] = [st \in DOMAIN list |-> list[st].label]
      BY <1>1, <3>2
    <3> HIDE DEF list
    <3> QED BY <3>3, <3>4
  <2>4. M[n + 1] = <<label>>
    <3>1. M[n + 1] = [st \in DOMAIN h.strategies[n + 1] |-> h.strategies[n + 1][st].label]
      BY <1>3, <1>6 DEF Labels
    <3>2. M[n + 1] = [st \in {1} |-> label]
      <4>1. Strategy(label, 0).label = label
        BY DEF Strategy
      <4> HIDE DEF M
      <4> QED BY <1>4, <3>1, <4>1
    <3> HIDE DEF M
    <3>3. <<label>> = [st \in {1} |-> label]
      OBVIOUS
    <3> QED BY <3>2, <3>3
  <2>5. <<label>> \in T
    BY <1>0
  <2> HIDE DEF L, M, T
  <2> DEFINE A == Append(L, <<label>>)
  <2>6. A \in Seq(T) /\ Len(A) = n + 1 /\ (\A pl \in 1..n : A[pl] = L[pl]) /\ A[n + 1] = <<label>>
    BY <2>1, <2>5, AppendProperties
  <2> HIDE DEF A
  <2>7. \A pl \in 1..(n + 1) : M[pl] = A[pl]
    BY <1>5, <2>3, <2>4, <2>6
  <2>8. DOMAIN M = 1..(n + 1) /\ DOMAIN A = 1..(n + 1)
    BY <2>2, <2>6, ListIs
  <2>9. M = [pl \in 1..(n + 1) |-> M[pl]] /\ A = [pl \in 1..(n + 1) |-> A[pl]]
    BY <2>2, <2>6, <2>8
  <2>10. M = A
    BY <2>7, <2>9
  <2> QED BY <2>10 DEF M, A, L
<1>16. ASSUME DenselyPlaced(g) PROVE DenselyPlaced(h)
  <2> SUFFICES ASSUME NEW pl \in 1..(n + 1), NEW st \in 1..Len(h.strategies[pl])
               PROVE  h.strategies[pl][st].offset = (st - 1) * Place(d, pl - 1)
    BY <1>1 DEF DenselyPlaced, d
  <2>1. CASE pl \in 1..n
    <3>1. h.strategies[pl] = g.strategies[pl] /\ pl - 1 \in 0..n
      BY <1>1, <1>2, <2>1
    <3>2. g.strategies[pl][st].offset = (st - 1) * Place(c, pl - 1)
      BY <1>16, <2>1, <3>1 DEF DenselyPlaced, c, n
    <3> QED BY <1>8, <3>1, <3>2
  <2>2. CASE pl = n + 1
    <3>1. st = 1 /\ h.strategies[pl][st] = Strategy(label, 0) /\ Strategy(label, 0).offset = 0
      <4>1. Len(h.strategies[pl]) = 1
        BY <1>4, <2>2
      <4>2. st = 1
        BY <4>1
      <4>3. Strategy(label, 0).offset = 0
        BY DEF Strategy
      <4> QED BY <1>4, <2>2, <4>2, <4>3
    <3>2. pl - 1 = n /\ pl - 1 \in 0..n
      BY <1>2, <2>2
    <3>3. Place(d, pl - 1) \in Nat
      <4>1. c \in [1..n -> Nat] /\ n \in 0..n
        BY <1>2
      <4>2. Place(c, n) \in Nat
        BY <1>2, <4>1, PlaceFacts
      <4> QED BY <1>8, <3>2, <4>1, <4>2
    <3>4. (1 - 1) * Place(d, pl - 1) = 0
      BY <3>3
    <3> QED BY <3>1, <3>4
  <2> QED BY <1>5, <2>1, <2>2
<1>17. ASSUME NEW q \in Profiles(h) PROVE GetPayoff(h, q) = GetPayoff(g, first(q))
  <2> HIDE DEF first
  <2> QED BY <1>1, <1>11 DEF GetPayoff
<1>18. ASSUME NEW q \in Profiles(h) PROVE SubSeq(Named(h, q), 1, n) = Named(g, first(q))
  <2> DEFINE r == first(q)
             a == Named(g, r)
             b == Named(h, q)
  <2>1. r \in Profiles(g) /\ \A pl \in 1..n : r[pl] = q[pl]
    BY <1>10
  <2>2. q \in [1..(n + 1) -> Nat \ {0}] /\ \A pl \in 1..(n + 1) : q[pl] \in 1..Len(h.strategies[pl])
    BY <1>1, ProfilesAre
  <2> HIDE DEF r, first
  <2>3. a = [pl \in 1..n |-> g.strategies[pl][r[pl]].label]
    BY <1>2 DEF Named
  <2>4. b = [pl \in 1..(n + 1) |-> h.strategies[pl][q[pl]].label]
    BY <1>3 DEF Named
  <2> DEFINE T == {g.strategies[pl][r[pl]].label : pl \in 1..n} \cup {h.strategies[pl][q[pl]].label : pl \in 1..(n + 1)}
  <2>5. a \in [1..n -> T] /\ b \in [1..(n + 1) -> T]
    <3>1. \A pl \in 1..n : g.strategies[pl][r[pl]].label \in T
      OBVIOUS
    <3>2. \A pl \in 1..(n + 1) : h.strategies[pl][q[pl]].label \in T
      OBVIOUS
    <3> HIDE DEF T, a, b
    <3> QED BY <2>3, <2>4, <3>1, <3>2
  <2>6. \A pl \in 1..n : b[pl] = a[pl]
    <3> SUFFICES ASSUME NEW pl \in 1..n PROVE b[pl] = a[pl]
      OBVIOUS
    <3>1. h.strategies[pl] = g.strategies[pl] /\ r[pl] = q[pl] /\ pl \in 1..(n + 1)
      BY <1>1, <1>6, <2>1
    <3> QED BY <2>3, <2>4, <3>1
  <2>7. n + 1 \in Nat /\ n <= n /\ n <= n + 1 /\ n \in 0..n
    BY <1>2
  <2> HIDE DEF a, b, T
  <2>8. SubSeq(b, 1, n) = SubSeq(a, 1, n)
    BY <1>2, <2>5, <2>6, <2>7, SameBeginning
  <2>9. SubSeq(a, 1, n) = a
    <3>1. SubSeq(a, 1, n) \in [1..n -> T] /\ \A i \in 1..n : SubSeq(a, 1, n)[i] = a[i]
      BY <1>2, <2>5, <2>7, FirstOf
    <3> DEFINE z == SubSeq(a, 1, n)
    <3> HIDE DEF z
    <3>2. z \in [1..n -> T] /\ \A i \in 1..n : z[i] = a[i]
      BY <3>1 DEF z
    <3>3. z = [i \in 1..n |-> z[i]] /\ a = [i \in 1..n |-> a[i]]
      BY <2>5, <3>2
    <3>4. z = a
      BY <3>2, <3>3
    <3> QED BY <3>4 DEF z
  <2> QED BY <2>8, <2>9 DEF a, b, r
<1> QED BY <1>10, <1>14, <1>15, <1>16, <1>17, <1>18 DEF n

-----------------------------------------------------------------------------
(* One game's profiles in another's table, and lists with one strategy     *)
(* less.                                                                   *)

LEMMA SameCells ==
  ASSUME NEW g, Playable(g), NEW h, Playable(h), Len(h.strategies) = Len(g.strategies),
         NEW q \in Profiles(h), NEW r \in Profiles(g),
         \A pl \in 1..Len(g.strategies) : h.strategies[pl][q[pl]] = g.strategies[pl][r[pl]]
  PROVE  Index(h, q) = Index(g, r) /\ Named(h, q) = Named(g, r)
<1> DEFINE n == Len(g.strategies)
           cell(pl) == g.strategies[pl][r[pl]]
<1>1. DOMAIN q = 1..n /\ DOMAIN r = 1..n /\ DOMAIN g.strategies = 1..n /\ DOMAIN h.strategies = 1..n
  BY ProfilesAre, PlayableFacts
<1>2. \A pl \in 1..n : h.strategies[pl][q[pl]] = cell(pl)
  OBVIOUS
<1>3. Index(g, r) = 1 + Total([pl \in 1..n |-> cell(pl).offset])
      /\ Named(g, r) = [pl \in 1..n |-> cell(pl).label]
  BY <1>1 DEF Index, Named
<1> HIDE DEF n, cell
<1>4. [pl \in 1..n |-> h.strategies[pl][q[pl]].offset] = [pl \in 1..n |-> cell(pl).offset]
      /\ [pl \in 1..n |-> h.strategies[pl][q[pl]].label] = [pl \in 1..n |-> cell(pl).label]
  BY <1>2
<1>5. Index(h, q) = 1 + Total([pl \in 1..n |-> h.strategies[pl][q[pl]].offset])
      /\ Named(h, q) = [pl \in 1..n |-> h.strategies[pl][q[pl]].label]
  BY <1>1 DEF Index, Named
<1> QED BY <1>3, <1>4, <1>5

(* Taking an entry out of a sequence moves the later ones one place up.    *)
LEMMA RemovedAt ==
  ASSUME NEW T, NEW s \in Seq(T), NEW i \in 1..Len(s)
  PROVE  /\ RemoveAt(s, i) \in Seq(T) /\ Len(RemoveAt(s, i)) = Len(s) - 1
         /\ \A k \in 1..(Len(s) - 1) : RemoveAt(s, i)[k] = s[IF k < i THEN k ELSE k + 1]
<1> DEFINE m == Len(s)
           a == SubSeq(s, 1, i - 1)
           b == SubSeq(s, i + 1, m)
<1>1. m \in Nat /\ i \in 1..m /\ \A k \in 1..m : s[k] \in T
  BY ListIs
<1>2. a \in Seq(T) /\ Len(a) = i - 1 /\ \A k \in 1..(i - 1) : a[k] = s[k]
  <2>1. 1 \in Int /\ i - 1 \in Int /\ \A k \in 1..(i - 1) : s[k] \in T
    BY <1>1
  <2> HIDE DEF m
  <2>2. a \in Seq(T) /\ Len(a) = (IF 1 <= i - 1 THEN i - 1 - 1 + 1 ELSE 0)
        /\ \A k \in 1..(i - 1 - 1 + 1) : a[k] = s[1 + k - 1]
    BY <2>1, SubSeqProperties
  <2> HIDE DEF a
  <2> QED BY <1>1, <2>2
<1>3. b \in Seq(T) /\ Len(b) = m - i /\ \A k \in 1..(m - i) : b[k] = s[i + k]
  <2>1. i + 1 \in Int /\ m \in Int /\ \A k \in (i + 1)..m : s[k] \in T
    BY <1>1
  <2> HIDE DEF m
  <2>2. b \in Seq(T) /\ Len(b) = (IF i + 1 <= m THEN m - (i + 1) + 1 ELSE 0)
        /\ \A k \in 1..(m - (i + 1) + 1) : b[k] = s[(i + 1) + k - 1]
    BY <2>1, SubSeqProperties
  <2> HIDE DEF b
  <2> QED BY <1>1, <2>2
<1>4. RemoveAt(s, i) = a \o b
  BY DEF RemoveAt
<1> HIDE DEF a, b, m
<1>5. /\ a \o b \in Seq(T) /\ Len(a \o b) = Len(a) + Len(b)
      /\ \A k \in 1..(Len(a) + Len(b)) : (a \o b)[k] = IF k <= Len(a) THEN a[k] ELSE b[k - Len(a)]
  BY <1>2, <1>3, ConcatProperties
<1>6. \A k \in 1..(m - 1) : (a \o b)[k] = s[IF k < i THEN k ELSE k + 1]
  <2> SUFFICES ASSUME NEW k \in 1..(m - 1) PROVE (a \o b)[k] = s[IF k < i THEN k ELSE k + 1]
    OBVIOUS
  <2>1. (a \o b)[k] = IF k <= i - 1 THEN a[k] ELSE b[k - (i - 1)]
    BY <1>1, <1>2, <1>3, <1>5
  <2>2. CASE k < i
    BY <1>1, <1>2, <2>1, <2>2
  <2>3. CASE ~(k < i)
    <3>1. k - (i - 1) \in 1..(m - i) /\ i + (k - (i - 1)) = k + 1
      BY <1>1, <2>3
    <3>2. (a \o b)[k] = b[k - (i - 1)]
      BY <1>1, <2>1, <2>3
    <3> QED BY <1>3, <2>3, <3>1, <3>2
  <2> QED BY <2>2, <2>3
<1>7. Len(a \o b) = m - 1
  BY <1>1, <1>2, <1>3, <1>5
<1> QED BY <1>4, <1>5, <1>6, <1>7 DEF m

LEMMA SmallerProduct ==
  ASSUME NEW n \in Nat, NEW d \in [1..n -> Nat], NEW e \in [1..n -> Nat],
         \A i \in 1..n : d[i] <= e[i]
  PROVE  Product(d) <= Product(e)
<1> DEFINE S == {i \in 0..n : Place(d, i) <= Place(e, i)}
<1>1. /\ \A i \in 0..n : Place(d, i) \in Nat
      /\ Place(d, 0) = 1
      /\ \A i \in 1..n : Place(d, i) = Place(d, i - 1) * d[i]
      /\ Product(d) = Place(d, n)
  BY PlaceFacts
<1>2. /\ \A i \in 0..n : Place(e, i) \in Nat
      /\ Place(e, 0) = 1
      /\ \A i \in 1..n : Place(e, i) = Place(e, i - 1) * e[i]
      /\ Product(e) = Place(e, n)
  BY PlaceFacts
<1>3. 0 \in S
  BY <1>1, <1>2
<1>4. ASSUME NEW k \in 0..(n - 1), k \in S PROVE k + 1 \in S
  <2>1. k \in 0..n /\ k + 1 \in 1..n /\ k + 1 \in 0..n /\ (k + 1) - 1 = k
    OBVIOUS
  <2>2. Place(d, k + 1) = Place(d, k) * d[k + 1] /\ Place(e, k + 1) = Place(e, k) * e[k + 1]
    BY <1>1, <1>2, <2>1
  <2>3. Place(d, k) <= Place(e, k) /\ d[k + 1] <= e[k + 1]
    BY <1>4, <2>1
  <2>4. Place(d, k) \in Nat /\ Place(e, k) \in Nat /\ d[k + 1] \in Nat /\ e[k + 1] \in Nat
    BY <1>1, <1>2, <2>1
  <2>5. \A a, b, x, y \in Nat : a <= b /\ x <= y => a * x <= b * y
    <3> SUFFICES ASSUME NEW a \in Nat, NEW b \in Nat, NEW x \in Nat, NEW y \in Nat, a <= b, x <= y
                 PROVE  a * x <= b * y
      OBVIOUS
    <3>1. PICK i \in Nat : b = a + i
      BY b - a \in Nat
    <3>2. PICK j \in Nat : y = x + j
      BY y - x \in Nat
    <3>3. b * y = a * x + (a * j + i * y)
      BY <3>1, <3>2
    <3>4. a * x \in Nat /\ a * j \in Nat /\ i * y \in Nat
      OBVIOUS
    <3> QED BY <3>3, <3>4
  <2>6. Place(d, k) * d[k + 1] <= Place(e, k) * e[k + 1]
    BY <2>3, <2>4, <2>5
  <2> QED BY <2>1, <2>2, <2>6
<1>5. 0..n \subseteq S
  <2> HIDE DEF S
  <2> QED BY <1>3, <1>4, CountingFromZero
<1>6. n \in S
  BY <1>5
<1> QED BY <1>1, <1>2, <1>6

-----------------------------------------------------------------------------
(* One player's list of strategies is replaced.                            *)

WithList(g, pl, list) == [g EXCEPT !.strategies[pl] = list]

LEMMA OneListChanged ==
  ASSUME NEW g, Playable(g), NEW pl \in 1..Len(g.strategies),
         NEW list \in Seq(StrategyRecords), Len(list) >= 1,
         NEW h, h = WithList(g, pl, list)
  PROVE  /\ Playable(h) /\ h.results = g.results /\ h.outcomes = g.outcomes
         /\ Len(h.strategies) = Len(g.strategies)
         /\ h.strategies[pl] = list
         /\ \A i \in 1..Len(g.strategies) : i # pl => h.strategies[i] = g.strategies[i]
         /\ Labels(h) = [Labels(g) EXCEPT ![pl] = [st \in 1..Len(list) |-> list[st].label]]
<1> DEFINE s == g.strategies
           n == Len(s)
           T == Seq(StrategyRecords)
           new == [s EXCEPT ![pl] = list]
<1>1. g \in Games /\ s \in Seq(T) /\ n \in Nat /\ DOMAIN s = 1..n
      /\ \A i \in 1..n : Len(s[i]) >= 1
  BY PlayableFacts DEF Playable, Games
<1>2. h = [g EXCEPT !.strategies = new]
  BY DEF WithList
<1>3. DOMAIN list = 1..Len(list)
  OBVIOUS
<1>4. new \in [1..n -> T] /\ new[pl] = list /\ \A i \in 1..n : i # pl => new[i] = s[i]
  <2>1. list \in T
    OBVIOUS
  <2> HIDE DEF T
  <2>2. s \in [1..n -> T]
    BY <1>1
  <2> HIDE DEF s
  <2> QED BY <1>1, <2>1, <2>2 DEF s
<1> HIDE DEF new
<1>5. new \in Seq(T) /\ Len(new) = n /\ DOMAIN new = 1..n
  <2> HIDE DEF T
  <2> QED BY <1>1, <1>4, IsList
<1>6. h \in Games /\ h.strategies = new /\ h.results = g.results /\ h.outcomes = g.outcomes
  BY <1>1, <1>2, <1>5 DEF Games
<1>7. \A i \in 1..n : Len(new[i]) >= 1
  BY <1>1, <1>4
<1>8. Playable(h)
  BY <1>5, <1>6, <1>7 DEF Playable
<1>9. Labels(h) = [Labels(g) EXCEPT ![pl] = [st \in 1..Len(list) |-> list[st].label]]
  <2> DEFINE lab(f) == [st \in DOMAIN f |-> f[st].label]
  <2>1. Labels(h) = [i \in 1..n |-> lab(new[i])]
    BY <1>5, <1>6 DEF Labels
  <2>2. Labels(g) = [i \in 1..n |-> lab(s[i])]
    BY <1>1 DEF Labels
  <2>3. [st \in 1..Len(list) |-> list[st].label] = lab(list)
    BY <1>3
  <2> DEFINE L == Labels(g)
  <2>4. DOMAIN L = 1..n /\ \A i \in 1..n : L[i] = lab(s[i])
    BY <2>2
  <2> HIDE DEF lab, L
  <2>5. [L EXCEPT ![pl] = lab(list)] = [i \in 1..n |-> lab(new[i])]
    <3>1. [L EXCEPT ![pl] = lab(list)] = [i \in 1..n |-> IF i = pl THEN lab(list) ELSE L[i]]
      BY <2>4
    <3>2. \A i \in 1..n : (IF i = pl THEN lab(list) ELSE L[i]) = lab(new[i])
      BY <1>4, <2>4
    <3> QED BY <3>1, <3>2
  <2> QED BY <2>1, <2>3, <2>5 DEF L
<1> HIDE DEF n
<1> QED BY <1>4, <1>5, <1>6, <1>8, <1>9 DEF n, s

LEMMA ListOf ==
  ASSUME NEW g, Playable(g), NEW pl \in 1..Len(g.strategies)
  PROVE  /\ g.strategies[pl] \in Seq(StrategyRecords) /\ Len(g.strategies[pl]) \in Nat \ {0}
         /\ DOMAIN g.strategies[pl] = 1..Len(g.strategies[pl])
         /\ \A st \in 1..Len(g.strategies[pl]) : g.strategies[pl][st] \in StrategyRecords
BY PlayableFacts

LEMMA WellLabelledIs ==
  ASSUME NEW g, Playable(g)
  PROVE  WellLabelled(g) <=>
           \A pl \in 1..Len(g.strategies) :
             /\ \A st \in 1..Len(g.strategies[pl]) : g.strategies[pl][st].label \in Label
             /\ \A st, other \in 1..Len(g.strategies[pl]) :
                  g.strategies[pl][st].label = g.strategies[pl][other].label => st = other
<1>1. DOMAIN g.strategies = 1..Len(g.strategies)
      /\ \A pl \in 1..Len(g.strategies) : DOMAIN g.strategies[pl] = 1..Len(g.strategies[pl])
  BY PlayableFacts
<1> DEFINE W(list, D) ==
             /\ \A st \in D : list[st].label \in Label
             /\ \A st, other \in D : list[st].label = list[other].label => st = other
<1>2. WellLabelled(g) <=> \A pl \in DOMAIN g.strategies : W(g.strategies[pl], DOMAIN g.strategies[pl])
  BY DEF WellLabelled
<1>3. ASSUME NEW pl \in 1..Len(g.strategies)
      PROVE  W(g.strategies[pl], DOMAIN g.strategies[pl]) <=> W(g.strategies[pl], 1..Len(g.strategies[pl]))
  <2> HIDE DEF W
  <2> QED BY <1>1
<1>4. WellLabelled(g) <=> \A pl \in 1..Len(g.strategies) : W(g.strategies[pl], 1..Len(g.strategies[pl]))
  <2> HIDE DEF W
  <2> QED BY <1>1, <1>2, <1>3
<1> QED BY <1>4

LEMMA ListLabelled ==
  ASSUME NEW g, Playable(g), WellLabelled(g), NEW pl \in 1..Len(g.strategies)
  PROVE  /\ \A st \in 1..Len(g.strategies[pl]) : g.strategies[pl][st].label \in Label
         /\ \A st, other \in 1..Len(g.strategies[pl]) :
              g.strategies[pl][st].label = g.strategies[pl][other].label => st = other
BY WellLabelledIs

(* Every profile of h is one of g with the same payoffs.                   *)
PartOf(h, g) ==
  \A q \in Profiles(h) : \E r \in Profiles(g) :
    Named(h, q) = Named(g, r) /\ GetPayoff(h, q) = GetPayoff(g, r)

(* Taking a strategy away leaves the others where they were in the table.  *)
LEMMA DeletedFacts ==
  ASSUME NEW g, Sound(g), NEW pl \in 1..Len(g.strategies), Len(g.strategies[pl]) # 1,
         NEW st \in 1..Len(g.strategies[pl]), NEW h, h = DeleteStrategy(g, pl, st)
  PROVE  /\ Sound(h) /\ Len(g.strategies[pl]) > 1
         /\ Labels(h) = [Labels(g) EXCEPT ![pl] = RemoveAt(@, st)]
         /\ PartOf(h, g)
<1> DEFINE n == Len(g.strategies)
           old == g.strategies[pl]
           m == Len(old)
           new == RemoveAt(old, st)
           kept(k) == IF k < st THEN k ELSE k + 1
           shift(q) == [i \in 1..n |-> IF i = pl THEN kept(q[i]) ELSE q[i]]
<1>0. Playable(g) /\ WellLabelled(g) /\ Located(g) /\ Product(NumStrategies(g)) <= Len(g.results)
      /\ OwnOutcomes(g.results, g.outcomes)
  BY DEF Sound
<1>1. old \in Seq(StrategyRecords) /\ m \in Nat /\ m > 1 /\ st \in 1..m
      /\ \A k \in 1..m : old[k] \in StrategyRecords
  <2>1. old \in Seq(StrategyRecords) /\ m \in Nat \ {0} /\ \A k \in 1..m : old[k] \in StrategyRecords
    BY <1>0, ListOf
  <2>2. m # 1 /\ st \in 1..m
    OBVIOUS
  <2> HIDE DEF m, old
  <2> QED BY <2>1, <2>2
<1>2. new \in Seq(StrategyRecords) /\ Len(new) = m - 1 /\ \A k \in 1..(m - 1) : new[k] = old[kept(k)]
  <2> HIDE DEF old, new
  <2> QED BY <1>1, RemovedAt DEF new
<1>3. h = WithList(g, pl, new)
  BY DEF DeleteStrategy, WithList
<1> HIDE DEF new
<1>4. /\ Playable(h) /\ h.results = g.results /\ h.outcomes = g.outcomes
      /\ Len(h.strategies) = n /\ h.strategies[pl] = new
      /\ \A i \in 1..n : i # pl => h.strategies[i] = g.strategies[i]
      /\ Labels(h) = [Labels(g) EXCEPT ![pl] = [k \in 1..Len(new) |-> new[k].label]]
  <2>1. Len(new) >= 1
    BY <1>1, <1>2
  <2>2. pl \in 1..Len(g.strategies)
    OBVIOUS
  <2>3. new \in Seq(StrategyRecords)
    BY <1>2
  <2> HIDE DEF n, m, old
  <2>4. /\ Playable(h) /\ h.results = g.results /\ h.outcomes = g.outcomes
        /\ Len(h.strategies) = Len(g.strategies) /\ h.strategies[pl] = new
        /\ \A i \in 1..Len(g.strategies) : i # pl => h.strategies[i] = g.strategies[i]
        /\ Labels(h) = [Labels(g) EXCEPT ![pl] = [k \in 1..Len(new) |-> new[k].label]]
    BY <1>0, <1>3, <2>1, <2>2, <2>3, OneListChanged
  <2> QED BY <2>4 DEF n
<1>5. n \in Nat /\ DOMAIN Labels(g) = 1..n
  BY <1>0, PlayableFacts, LabelsAre
<1> HIDE DEF n, m
<1>6. \A k \in 1..(m - 1) : kept(k) \in 1..m
  BY <1>1
<1>7. \A j, k \in 1..(m - 1) : kept(j) = kept(k) => j = k
  BY <1>1
<1>8. Labels(h) = [Labels(g) EXCEPT ![pl] = RemoveAt(@, st)]
  <2> DEFINE L == [k \in 1..m |-> old[k].label]
             M == [k \in 1..(m - 1) |-> new[k].label]
  <2>1. Labels(g)[pl] = L
    BY <1>0, LabelsAre DEF m, n
  <2>2. L \in Seq(Nat) /\ Len(L) = m /\ \A k \in 1..m : L[k] = old[k].label
    <3>1. L \in [1..m -> Nat]
      BY <1>1 DEF StrategyRecords
    <3>2. \A k \in 1..m : L[k] = old[k].label
      OBVIOUS
    <3> HIDE DEF L
    <3> QED BY <1>1, <3>1, <3>2, IsList
  <2> HIDE DEF L
  <2> DEFINE R == RemoveAt(L, st)
  <2>3. R \in Seq(Nat) /\ Len(R) = m - 1 /\ \A k \in 1..(m - 1) : R[k] = L[kept(k)]
    BY <1>1, <2>2, RemovedAt
  <2> HIDE DEF R
  <2>4. \A k \in 1..(m - 1) : R[k] = new[k].label
    BY <1>2, <1>6, <2>2, <2>3
  <2>5. R = M
    <3>1. DOMAIN R = 1..(m - 1)
      BY <2>3, ListIs
    <3>2. R = [k \in 1..(m - 1) |-> R[k]]
      BY <2>3, <3>1
    <3> QED BY <2>4, <3>2
  <2> HIDE DEF M
  <2>6. [k \in 1..Len(new) |-> new[k].label] = M
    BY <1>2 DEF M
  <2> QED BY <1>4, <1>5, <2>1, <2>5, <2>6 DEF R
<1>9. ASSUME NEW q \in Profiles(h)
      PROVE  /\ shift(q) \in Profiles(g) /\ q[pl] \in 1..(m - 1)
             /\ Index(h, q) = Index(g, shift(q)) /\ Named(h, q) = Named(g, shift(q))
  <2> DEFINE r == shift(q)
  <2>1. q \in [1..n -> Nat \ {0}] /\ \A i \in 1..n : q[i] \in 1..Len(h.strategies[i])
    BY <1>4, ProfilesAre DEF n
  <2>2. pl \in 1..n
    BY DEF n
  <2>3. q[pl] \in 1..(m - 1) /\ kept(q[pl]) \in 1..m
    BY <1>2, <1>4, <1>6, <2>1, <2>2
  <2>4. DOMAIN r = 1..n /\ r[pl] = kept(q[pl]) /\ \A i \in 1..n : i # pl => r[i] = q[i]
    BY <2>2
  <2>5. r = [i \in 1..n |-> r[i]]
    OBVIOUS
  <2> HIDE DEF r
  <2>6. \A i \in 1..n : r[i] \in 1..Len(g.strategies[i]) /\ h.strategies[i][q[i]] = g.strategies[i][r[i]]
    <3> SUFFICES ASSUME NEW i \in 1..n
                 PROVE  r[i] \in 1..Len(g.strategies[i]) /\ h.strategies[i][q[i]] = g.strategies[i][r[i]]
      OBVIOUS
    <3>1. CASE i = pl
      <4>1. r[i] = kept(q[pl]) /\ r[i] \in 1..m
        BY <2>3, <2>4, <3>1
      <4>2. h.strategies[i][q[i]] = new[q[pl]] /\ new[q[pl]] = old[r[i]]
        BY <1>2, <1>4, <2>3, <3>1, <4>1
      <4> QED BY <3>1, <4>1, <4>2 DEF m
    <3>2. CASE i # pl
      <4>1. r[i] = q[i] /\ h.strategies[i] = g.strategies[i]
        BY <1>4, <2>4, <3>2
      <4> QED BY <2>1, <4>1
    <3> QED BY <3>1, <3>2
  <2>7. r \in Profiles(g)
    <3>1. \A i \in 1..n : r[i] \in Nat \ {0}
      <4> SUFFICES ASSUME NEW i \in 1..n PROVE r[i] \in Nat \ {0}
        OBVIOUS
      <4>1. r[i] \in 1..Len(g.strategies[i]) /\ Len(g.strategies[i]) \in Nat
        BY <1>0, <2>6, ListOf DEF n
      <4> QED BY <4>1
    <3>2. r \in [1..n -> Nat \ {0}]
      BY <2>5, <3>1
    <3> QED BY <1>0, <2>6, <3>2, ProfilesAre DEF n
  <2>8. Index(h, q) = Index(g, r) /\ Named(h, q) = Named(g, r)
    <3>1. \A i \in 1..Len(g.strategies) : h.strategies[i][q[i]] = g.strategies[i][r[i]]
      BY <2>6 DEF n
    <3>2. Len(h.strategies) = Len(g.strategies) /\ Playable(h) /\ Playable(g)
      BY <1>0, <1>4 DEF n
    <3> QED BY <2>7, <3>1, <3>2, SameCells, SMTT(30)
  <2> QED BY <2>3, <2>7, <2>8 DEF r
<1>10. ASSUME NEW q \in Profiles(h), NEW p \in Profiles(h), shift(q) = shift(p) PROVE q = p
  <2>1. q \in [1..n -> Nat \ {0}] /\ p \in [1..n -> Nat \ {0}]
    BY <1>4, ProfilesAre DEF n
  <2>2. q[pl] \in 1..(m - 1) /\ p[pl] \in 1..(m - 1)
    BY <1>9
  <2>3. \A i \in 1..n : shift(q)[i] = (IF i = pl THEN kept(q[i]) ELSE q[i])
                     /\ shift(p)[i] = (IF i = pl THEN kept(p[i]) ELSE p[i])
    OBVIOUS
  <2> DEFINE a == shift(q)
             b == shift(p)
  <2>4. \A i \in 1..n : a[i] = (IF i = pl THEN kept(q[i]) ELSE q[i])
                     /\ b[i] = (IF i = pl THEN kept(p[i]) ELSE p[i])
    BY <2>3
  <2>5. a = b
    BY <1>10
  <2> HIDE DEF a, b, shift
  <2>6. \A i \in 1..n : q[i] = p[i]
    <3> SUFFICES ASSUME NEW i \in 1..n PROVE q[i] = p[i]
      OBVIOUS
    <3>1. CASE i = pl
      <4>1. kept(q[pl]) = kept(p[pl])
        BY <2>4, <2>5, <3>1
      <4> HIDE DEF kept
      <4> QED BY <1>7, <2>2, <3>1, <4>1
    <3>2. CASE i # pl
      BY <2>4, <2>5, <3>2
    <3> QED BY <3>1, <3>2
  <2>7. q = [i \in 1..n |-> q[i]] /\ p = [i \in 1..n |-> p[i]]
    BY <2>1
  <2> QED BY <2>6, <2>7
<1>11. Located(h)
  <2> HIDE DEF shift
  <2>1. \A i \in 1..n : \A k \in 1..Len(g.strategies[i]) : g.strategies[i][k].offset >= 0
    <3>1. DOMAIN g.strategies = 1..n /\ \A i \in 1..n : DOMAIN g.strategies[i] = 1..Len(g.strategies[i])
      BY <1>0, PlayableFacts DEF n
    <3> QED BY <1>0, <3>1 DEF Located
  <2>2. \A i \in DOMAIN h.strategies : \A k \in DOMAIN h.strategies[i] : h.strategies[i][k].offset >= 0
    <3>1. DOMAIN h.strategies = 1..n /\ \A i \in 1..n : DOMAIN h.strategies[i] = 1..Len(h.strategies[i])
      BY <1>4, PlayableFacts
    <3> SUFFICES ASSUME NEW i \in 1..n, NEW k \in 1..Len(h.strategies[i])
                 PROVE  h.strategies[i][k].offset >= 0
      BY <3>1
    <3>2. CASE i = pl
      <4>1. k \in 1..(m - 1)
        BY <1>2, <1>4, <3>2
      <4>2. kept(k) \in 1..m /\ h.strategies[i][k] = old[kept(k)]
        BY <1>2, <1>4, <1>6, <3>2, <4>1
      <4> HIDE DEF kept
      <4> QED BY <2>1, <3>2, <4>2 DEF m
    <3>3. CASE i # pl
      BY <1>4, <2>1, <3>3
    <3> QED BY <3>2, <3>3
  <2>3. \A q \in Profiles(h) : Index(h, q) \in 1..Len(h.results)
    BY <1>0, <1>4, <1>9 DEF Located
  <2>4. \A q, p \in Profiles(h) : Index(h, q) = Index(h, p) => q = p
    BY <1>0, <1>9, <1>10 DEF Located
  <2> QED BY <2>2, <2>3, <2>4 DEF Located
<1>12. WellLabelled(h)
  <2> SUFFICES ASSUME NEW i \in 1..n
               PROVE  /\ \A k \in 1..Len(h.strategies[i]) : h.strategies[i][k].label \in Label
                      /\ \A k, other \in 1..Len(h.strategies[i]) :
                           h.strategies[i][k].label = h.strategies[i][other].label => k = other
    BY <1>4, WellLabelledIs
  <2>1. CASE i = pl
    <3>1. h.strategies[i] = new /\ Len(new) = m - 1
      BY <1>2, <1>4, <2>1
    <3>2. /\ \A k \in 1..m : old[k].label \in Label
          /\ \A k, other \in 1..m : old[k].label = old[other].label => k = other
      BY <1>0, ListLabelled DEF m
    <3> HIDE DEF kept, old
    <3>3. \A k \in 1..(m - 1) : new[k].label \in Label
      BY <1>2, <1>6, <3>2
    <3>4. \A k, other \in 1..(m - 1) : new[k].label = new[other].label => k = other
      BY <1>2, <1>6, <1>7, <3>2
    <3> QED BY <3>1, <3>3, <3>4
  <2>2. CASE i # pl
    <3> DEFINE list == g.strategies[i]
    <3>1. h.strategies[i] = list
      BY <1>4, <2>2
    <3>2. i \in 1..Len(g.strategies)
      BY DEF n
    <3>3. /\ \A k \in 1..Len(list) : list[k].label \in Label
          /\ \A k, other \in 1..Len(list) : list[k].label = list[other].label => k = other
      BY <1>0, <3>2, ListLabelled
    <3> HIDE DEF list
    <3> QED BY <3>1, <3>3
  <2> QED BY <2>1, <2>2
<1>13. Product(NumStrategies(h)) <= Product(NumStrategies(g))
  <2>1. NumStrategies(h) \in [1..n -> Nat] /\ NumStrategies(g) \in [1..n -> Nat]
        /\ \A i \in 1..n : NumStrategies(h)[i] = Len(h.strategies[i]) /\ NumStrategies(g)[i] = Len(g.strategies[i])
                        /\ Len(g.strategies[i]) \in Nat
    <3>1. NumStrategies(g) \in [1..n -> Nat \ {0}]
          /\ \A i \in 1..n : NumStrategies(g)[i] = Len(g.strategies[i]) /\ Len(g.strategies[i]) \in Nat \ {0}
      BY <1>0, PlayableFacts DEF n
    <3>2. NumStrategies(h) \in [1..n -> Nat \ {0}]
          /\ \A i \in 1..n : NumStrategies(h)[i] = Len(h.strategies[i])
      <4>0. Playable(h)
        BY <1>4
      <4>1. NumStrategies(h) \in [1..Len(h.strategies) -> Nat \ {0}]
            /\ \A i \in 1..Len(h.strategies) : NumStrategies(h)[i] = Len(h.strategies[i])
        BY <4>0, PlayableFacts
      <4>2. Len(h.strategies) = n
        BY <1>4
      <4> QED BY <4>1, <4>2
    <3> QED BY <3>1, <3>2
  <2>2. \A i \in 1..n : NumStrategies(h)[i] <= NumStrategies(g)[i]
    <3> SUFFICES ASSUME NEW i \in 1..n PROVE Len(h.strategies[i]) <= Len(g.strategies[i])
      BY <2>1
    <3>1. CASE i = pl
      BY <1>1, <1>2, <1>4, <3>1 DEF m
    <3>2. CASE i # pl
      BY <1>4, <2>1, <3>2
    <3> QED BY <3>1, <3>2
  <2> QED BY <1>5, <2>1, <2>2, SmallerProduct
<1>14. Product(NumStrategies(h)) <= Len(h.results)
  <2>1. Product(NumStrategies(h)) \in Nat /\ Product(NumStrategies(g)) \in Nat /\ Len(g.results) \in Nat
    <3>1. \A f \in {g, h} : Product(NumStrategies(f)) \in Nat
      BY <1>0, <1>4, LabelsAreOK, LengthsAre, LabelsOKFacts, <1>12
    <3> QED BY <1>0, <3>1, PlayableFacts
  <2> QED BY <1>0, <1>4, <1>13, <2>1
<1>15. Sound(h)
  BY <1>0, <1>4, <1>11, <1>12, <1>14 DEF Sound
<1>16. ASSUME NEW q \in Profiles(h)
       PROVE  \E r \in Profiles(g) : Named(h, q) = Named(g, r) /\ GetPayoff(h, q) = GetPayoff(g, r)
  <2> DEFINE r == shift(q)
  <2>1. r \in Profiles(g) /\ Index(h, q) = Index(g, r) /\ Named(h, q) = Named(g, r)
    BY <1>9
  <2> HIDE DEF r
  <2>2. GetPayoff(h, q) = GetPayoff(g, r)
    BY <1>4, <2>1 DEF GetPayoff
  <2> QED BY <2>1, <2>2
<1> QED BY <1>1, <1>8, <1>15, <1>16 DEF m, PartOf

LEMMA PayoffsFrom ==
  ASSUME NEW g, Playable(g), WellLabelled(g), NEW h, Playable(h), WellLabelled(h), PartOf(h, g)
  PROVE  Payoffs(h) = [p \in ProfilesOver(Labels(h)) |-> Payoffs(g)[p]]
<1> DEFINE P == ProfilesOver(Labels(h))
<1>1. Payoffs(h) = [p \in P |-> Payoffs(h)[p]]
  BY PayoffsAre
<1>2. ASSUME NEW p \in P PROVE Payoffs(h)[p] = Payoffs(g)[p]
  <2>1. PICK q \in Profiles(h) : Named(h, q) = p
    BY NamedFacts
  <2>2. PICK r \in Profiles(g) : Named(g, r) = p /\ GetPayoff(h, q) = GetPayoff(g, r)
    BY <2>1 DEF PartOf
  <2>3. Payoffs(h)[p] = GetPayoff(h, q)
    BY <2>1, PayoffsAre
  <2>4. Payoffs(g)[p] = GetPayoff(g, r)
    BY <2>2, PayoffsAre
  <2> QED BY <2>2, <2>3, <2>4
<1> HIDE DEF P
<1> QED BY <1>1, <1>2 DEF P

-----------------------------------------------------------------------------
(* A rebuilt table has an outcome wherever the old one has one for old     *)
(* strategies, and none where the new strategy is played.                  *)

MarkedNew(g, profile) == \E pl \in DOMAIN profile : g.strategies[pl][profile[pl]].offset < 0

LEMMA RebuiltIs ==
  ASSUME NEW e, Playable(e), WellLabelled(e),
         \A q \in Profiles(e) : ~MarkedNew(e, q) =>
           Index(e, q) \in 1..Len(e.results),
         \A q, r \in Profiles(e) :
           ~MarkedNew(e, q) /\ ~MarkedNew(e, r) /\ Index(e, q) = Index(e, r) => q = r,
         OwnOutcomes(e.results, e.outcomes),
         NEW h, h = RebuildTable(e)
  PROVE  /\ Sound(h) /\ DenselyPlaced(h) /\ InTurn(h)
         /\ Labels(h) = Labels(e) /\ h.outcomes = e.outcomes
         /\ Profiles(h) = Profiles(e)
         /\ \A q \in Profiles(e) :
              h.results[Index(h, q)] = IF MarkedNew(e, q) THEN Null ELSE e.results[Index(e, q)]
<1> DEFINE n == Len(e.strategies)
           d == NumStrategies(e)
           K == Product(d)
           visited == Iterated(d)
           Kept(q) == IF MarkedNew(e, q) THEN Null ELSE e.results[Index(e, q)]
           results == [k \in 1..K |-> Kept(visited[k])]
           f == [e EXCEPT !.results = results]
<1>1. n \in Nat /\ d \in [1..n -> Nat \ {0}] /\ e \in Games
      /\ e.results \in Seq(Nat) /\ e.outcomes \in Seq(Nat)
  BY PlayableFacts DEF Playable
<1>2. /\ K \in Nat \ {0} /\ visited \in [1..K -> Profiles(e)]
      /\ \A k \in 1..K : Rank(d, visited[k]) = k
  <2> HIDE DEF n, d
  <2> QED BY <1>1, IteratedCounts DEF Profiles, d
<1> HIDE DEF n
<1>3. h = IndexStrategies(f)
  <2>1. DOMAIN visited = 1..K
    BY <1>2
  <2> HIDE DEF visited, K
  <2>2. h = IndexStrategies([e EXCEPT !.results = [k \in DOMAIN visited |-> Kept(visited[k])]])
    BY DEF RebuildTable, MarkedNew, visited
  <2> QED BY <2>1, <2>2
<1>4. Len(e.results) \in Nat /\ Len(e.outcomes) \in Nat /\ \A k \in 1..Len(e.results) : e.results[k] \in Nat
  BY <1>1, ListIs
<1>5. \A k \in 1..K : visited[k] \in Profiles(e)
  BY <1>2
<1> HIDE DEF visited, K, Kept, d
<1>6. ASSUME NEW q \in Profiles(e)
      PROVE  Kept(q) \in Nat /\ Kept(q) \in 0..Len(e.outcomes)
             /\ (Kept(q) # Null => ~MarkedNew(e, q) /\ Index(e, q) \in 1..Len(e.results)
                                   /\ Kept(q) = e.results[Index(e, q)])
  <2>1. CASE MarkedNew(e, q)
    BY <1>4, <2>1 DEF Kept, Null
  <2>2. CASE ~MarkedNew(e, q)
    <3>1. Index(e, q) \in 1..Len(e.results) /\ Kept(q) = e.results[Index(e, q)]
      BY <2>2 DEF Kept
    <3>2. e.results[Index(e, q)] \in 0..Len(e.outcomes)
      BY <3>1 DEF OwnOutcomes
    <3> QED BY <1>4, <2>2, <3>1, <3>2
  <2> QED BY <2>1, <2>2
<1>7. results \in [1..K -> Nat] /\ \A k \in 1..K : results[k] = Kept(visited[k])
  BY <1>5, <1>6
<1> HIDE DEF results
<1>8. results \in Seq(Nat) /\ Len(results) = K
  BY <1>2, <1>7, IsList
<1>9. f \in Games /\ f.strategies = e.strategies /\ f.results = results /\ f.outcomes = e.outcomes
  BY <1>1, <1>8 DEF Games
<1> HIDE DEF f
<1>10. Playable(f) /\ WellLabelled(f) /\ NumStrategies(f) = d /\ Labels(f) = Labels(e)
  BY <1>9, SameStrategies DEF d
<1>11. OwnOutcomes(results, e.outcomes)
  <2>1. \A k \in 1..K : results[k] \in 0..Len(e.outcomes)
    BY <1>5, <1>6, <1>7
  <2>2. ASSUME NEW j \in 1..K, NEW k \in 1..K, results[j] = results[k], results[j] # Null PROVE j = k
    <3> DEFINE q == visited[j]
               r == visited[k]
    <3>1. q \in Profiles(e) /\ r \in Profiles(e) /\ Kept(q) = Kept(r) /\ Kept(q) # Null
      BY <1>5, <1>7, <2>2
    <3>2. Rank(d, q) = j /\ Rank(d, r) = k
      BY <1>2
    <3> HIDE DEF q, r
    <3>3. /\ ~MarkedNew(e, q) /\ Index(e, q) \in 1..Len(e.results) /\ Kept(q) = e.results[Index(e, q)]
          /\ ~MarkedNew(e, r) /\ Index(e, r) \in 1..Len(e.results) /\ Kept(r) = e.results[Index(e, r)]
      BY <1>6, <3>1
    <3>4. Index(e, q) = Index(e, r)
      BY <3>1, <3>3 DEF OwnOutcomes
    <3>5. q = r
      BY <3>1, <3>3, <3>4
    <3> QED BY <3>2, <3>5
  <2> QED BY <1>8, <2>1, <2>2 DEF OwnOutcomes
<1>12. Product(NumStrategies(f)) <= Len(f.results)
  BY <1>2, <1>8, <1>9, <1>10 DEF K
<1>13. Sound(h) /\ DenselyPlaced(h) /\ InTurn(h)
  BY <1>3, <1>9, <1>10, <1>11, <1>12, IndexedIsSound
<1>14. /\ h.results = results /\ h.outcomes = e.outcomes /\ Labels(h) = Labels(e)
       /\ NumStrategies(h) = d /\ Playable(h)
  BY <1>3, <1>9, <1>10, IndexedStrategies
<1>15. Profiles(h) = Profiles(e)
  BY <1>14 DEF Profiles, d
<1>16. ASSUME NEW q \in Profiles(e) PROVE h.results[Index(h, q)] = Kept(q)
  <2> DEFINE k == Index(h, q)
             r == visited[k]
  <2>1. /\ Located(h) /\ \A i \in 1..K : Iterated(d)[i] \in Profiles(h) /\ Index(h, Iterated(d)[i]) = i
        /\ \A p \in Profiles(h) : Index(h, p) \in 1..K
    <3>1. Product(NumStrategies(h)) <= Len(h.results)
      BY <1>13 DEF Sound
    <3> QED BY <1>13, <1>14, <3>1, DenseIsLocated DEF K
  <2>2. k \in 1..K
    BY <1>15, <2>1
  <2>3. r \in Profiles(h) /\ Index(h, r) = k
    BY <2>1, <2>2 DEF visited
  <2>4. r = q
    BY <1>15, <2>1, <2>3 DEF Located
  <2> HIDE DEF r, k
  <2>5. results[k] = Kept(visited[k])
    BY <1>7, <2>2
  <2>6. results[k] = Kept(r)
    BY <2>5 DEF r
  <2> QED BY <1>14, <2>4, <2>6 DEF k
<1> QED BY <1>13, <1>14, <1>15, <1>16 DEF Kept

LEMMA NewStrategyFacts ==
  ASSUME NEW g, Sound(g), NEW pl \in 1..Len(g.strategies),
         NEW label \in Label, label \notin ToSet(Labels(g)[pl]),
         NEW h, h = NewStrategy(g, pl, label)
  PROVE  /\ Sound(h) /\ DenselyPlaced(h) /\ InTurn(h)
         /\ Labels(h) = [Labels(g) EXCEPT ![pl] = Append(@, label)]
         /\ \A q \in Profiles(h) :
              IF Named(h, q)[pl] = label
              THEN GetPayoff(h, q) = NoPayoff
              ELSE \E r \in Profiles(g) : Named(h, q) = Named(g, r) /\ GetPayoff(h, q) = GetPayoff(g, r)
<1> DEFINE n == Len(g.strategies)
           old == g.strategies[pl]
           m == Len(old)
           added == Strategy(label, -1)
           list == Append(old, added)
           e == WithList(g, pl, list)
<1>0. Playable(g) /\ WellLabelled(g) /\ Located(g) /\ OwnOutcomes(g.results, g.outcomes)
      /\ label \in Nat /\ n \in Nat /\ pl \in 1..n
  BY LabelIsNat, PlayableFacts DEF Sound
<1>1. old \in Seq(StrategyRecords) /\ m \in Nat \ {0} /\ \A k \in 1..m : old[k] \in StrategyRecords
  BY <1>0, ListOf
<1>2. added \in StrategyRecords /\ added.label = label /\ added.offset = -1
  BY <1>0 DEF Strategy, StrategyRecords
<1> HIDE DEF old, added
<1>3. /\ list \in Seq(StrategyRecords) /\ Len(list) = m + 1
      /\ (\A k \in 1..m : list[k] = old[k]) /\ list[m + 1] = added
  BY <1>1, <1>2, AppendProperties
<1>4. h = RebuildTable(e)
  BY DEF NewStrategy, WithList, old, added
<1> HIDE DEF list, e
<1>5. /\ Playable(e) /\ e.results = g.results /\ e.outcomes = g.outcomes
      /\ Len(e.strategies) = n /\ e.strategies[pl] = list
      /\ \A i \in 1..n : i # pl => e.strategies[i] = g.strategies[i]
      /\ Labels(e) = [Labels(g) EXCEPT ![pl] = [k \in 1..Len(list) |-> list[k].label]]
  <2>1. Len(list) >= 1
    BY <1>1, <1>3
  <2> QED BY <1>0, <1>3, <2>1, OneListChanged DEF e
<1> HIDE DEF n, m
<1>6. Labels(e) = [Labels(g) EXCEPT ![pl] = Append(@, label)]
  <2> DEFINE L == [k \in 1..m |-> old[k].label]
             M == [k \in 1..(m + 1) |-> list[k].label]
  <2>1. Labels(g)[pl] = L /\ DOMAIN Labels(g) = 1..n
    BY <1>0, LabelsAre DEF m, n, old
  <2>2. L \in Seq(Nat) /\ Len(L) = m /\ \A k \in 1..m : L[k] = old[k].label
    <3>1. L \in [1..m -> Nat]
      BY <1>1 DEF StrategyRecords
    <3>2. \A k \in 1..m : L[k] = old[k].label
      OBVIOUS
    <3> HIDE DEF L
    <3> QED BY <1>1, <3>1, <3>2, IsList
  <2> HIDE DEF L
  <2> DEFINE A == Append(L, label)
  <2>3. A \in Seq(Nat) /\ Len(A) = m + 1 /\ (\A k \in 1..m : A[k] = L[k]) /\ A[m + 1] = label
    BY <1>0, <2>2, AppendProperties
  <2> HIDE DEF A
  <2>4. \A k \in 1..(m + 1) : A[k] = list[k].label
    <3> SUFFICES ASSUME NEW k \in 1..(m + 1) PROVE A[k] = list[k].label
      OBVIOUS
    <3>1. k \in 1..m \/ k = m + 1
      BY <1>1
    <3> QED BY <1>2, <1>3, <2>2, <2>3, <3>1
  <2>5. A = M
    <3>1. DOMAIN A = 1..(m + 1)
      BY <2>3, ListIs
    <3>2. A = [k \in 1..(m + 1) |-> A[k]]
      BY <2>3, <3>1
    <3> QED BY <2>4, <3>2
  <2> HIDE DEF M
  <2>6. [k \in 1..Len(list) |-> list[k].label] = M
    BY <1>3 DEF M
  <2> QED BY <1>5, <2>1, <2>5, <2>6 DEF A
<1>7. \A k \in 1..m : old[k].label # label
  <2>1. \A x : x \in ToSet(Labels(g)[pl]) <=> \E k \in 1..m : x = old[k].label
    BY <1>0, LabelsAre DEF old, m
  <2> QED BY <2>1
<1>8. WellLabelled(e)
  <2> SUFFICES ASSUME NEW i \in 1..n
               PROVE  /\ \A k \in 1..Len(e.strategies[i]) : e.strategies[i][k].label \in Label
                      /\ \A k, other \in 1..Len(e.strategies[i]) :
                           e.strategies[i][k].label = e.strategies[i][other].label => k = other
    BY <1>5, WellLabelledIs
  <2>1. CASE i = pl
    <3>1. e.strategies[i] = list /\ Len(list) = m + 1
      BY <1>3, <1>5, <2>1
    <3>2. /\ \A k \in 1..m : old[k].label \in Label
          /\ \A k, other \in 1..m : old[k].label = old[other].label => k = other
      BY <1>0, ListLabelled DEF m, old, n
    <3>3. \A k \in 1..(m + 1) : k \in 1..m \/ k = m + 1
      BY <1>1
    <3>4. \A k \in 1..(m + 1) : list[k].label \in Label
      BY <1>2, <1>3, <3>2, <3>3
    <3>5. \A k, other \in 1..(m + 1) : list[k].label = list[other].label => k = other
      BY <1>2, <1>3, <1>7, <3>2, <3>3
    <3> QED BY <3>1, <3>4, <3>5
  <2>2. CASE i # pl
    <3> DEFINE l == g.strategies[i]
    <3>1. e.strategies[i] = l
      BY <1>5, <2>2
    <3>2. i \in 1..Len(g.strategies)
      BY DEF n
    <3>3. /\ \A k \in 1..Len(l) : l[k].label \in Label
          /\ \A k, other \in 1..Len(l) : l[k].label = l[other].label => k = other
      BY <1>0, <3>2, ListLabelled
    <3> HIDE DEF l
    <3> QED BY <3>1, <3>3
  <2> QED BY <2>1, <2>2
<1>9. ASSUME NEW q \in Profiles(e)
      PROVE  /\ q[pl] \in 1..(m + 1)
             /\ q[pl] = m + 1 => MarkedNew(e, q) /\ Named(e, q)[pl] = label
             /\ q[pl] \in 1..m =>
                  ~MarkedNew(e, q) /\ q \in Profiles(g) /\ Index(e, q) = Index(g, q)
                  /\ Named(e, q) = Named(g, q) /\ Named(e, q)[pl] # label
  <2>1. q \in [1..n -> Nat \ {0}] /\ \A i \in 1..n : q[i] \in 1..Len(e.strategies[i])
    BY <1>5, ProfilesAre
  <2>2. q[pl] \in 1..(m + 1)
    BY <1>0, <1>3, <1>5, <2>1
  <2>3. DOMAIN q = 1..n /\ DOMAIN e.strategies = 1..n
    BY <1>5, <2>1, PlayableFacts
  <2>4. Named(e, q)[pl] = list[q[pl]].label
    BY <1>0, <1>5, <2>3 DEF Named
  <2>5. ASSUME q[pl] = m + 1 PROVE MarkedNew(e, q) /\ Named(e, q)[pl] = label
    <3>1. e.strategies[pl][q[pl]] = added
      BY <1>3, <1>5, <2>5
    <3>2. added.offset < 0
      BY <1>2
    <3>3. MarkedNew(e, q)
      BY <1>0, <2>3, <3>1, <3>2 DEF MarkedNew
    <3> QED BY <1>2, <1>3, <2>4, <2>5, <3>3
  <2>6. ASSUME q[pl] \in 1..m
        PROVE  ~MarkedNew(e, q) /\ q \in Profiles(g) /\ Index(e, q) = Index(g, q)
               /\ Named(e, q) = Named(g, q) /\ Named(e, q)[pl] # label
    <3>1. \A i \in 1..n : q[i] \in 1..Len(g.strategies[i]) /\ e.strategies[i][q[i]] = g.strategies[i][q[i]]
      <4> SUFFICES ASSUME NEW i \in 1..n
                   PROVE  q[i] \in 1..Len(g.strategies[i]) /\ e.strategies[i][q[i]] = g.strategies[i][q[i]]
        OBVIOUS
      <4>1. CASE i = pl
        BY <1>3, <1>5, <2>6, <4>1 DEF m, old
      <4>2. CASE i # pl
        BY <1>5, <2>1, <4>2
      <4> QED BY <4>1, <4>2
    <3>2. q \in Profiles(g)
      BY <1>0, <2>1, <3>1, ProfilesAre DEF n
    <3>3. Index(e, q) = Index(g, q) /\ Named(e, q) = Named(g, q)
      <4>1. \A i \in 1..Len(g.strategies) : e.strategies[i][q[i]] = g.strategies[i][q[i]]
        BY <3>1 DEF n
      <4>2. Len(e.strategies) = Len(g.strategies) /\ Playable(e) /\ Playable(g)
        BY <1>0, <1>5 DEF n
      <4> QED BY <3>2, <4>1, <4>2, SameCells
    <3>4. \A i \in 1..n : g.strategies[i][q[i]].offset >= 0 /\ g.strategies[i][q[i]].offset \in Int
      <4>1. \A i \in 1..n : i \in DOMAIN g.strategies /\ q[i] \in DOMAIN g.strategies[i]
                         /\ g.strategies[i][q[i]] \in StrategyRecords
        <5> SUFFICES ASSUME NEW i \in 1..n
                     PROVE  i \in DOMAIN g.strategies /\ q[i] \in DOMAIN g.strategies[i]
                            /\ g.strategies[i][q[i]] \in StrategyRecords
          OBVIOUS
        <5>1. i \in DOMAIN g.strategies
          BY <1>0, PlayableFacts DEF n
        <5>2. DOMAIN g.strategies[i] = 1..Len(g.strategies[i])
              /\ \A k \in 1..Len(g.strategies[i]) : g.strategies[i][k] \in StrategyRecords
          BY <1>0, ListOf DEF n
        <5> QED BY <3>1, <5>1, <5>2
      <4>2. \A x \in StrategyRecords : x.offset \in Int
        BY DEF StrategyRecords
      <4> QED BY <1>0, <4>1, <4>2 DEF Located
    <3>5. ~MarkedNew(e, q)
      <4>1. \A i \in 1..n : ~(e.strategies[i][q[i]].offset < 0)
        <5> SUFFICES ASSUME NEW i \in 1..n PROVE ~(e.strategies[i][q[i]].offset < 0)
          OBVIOUS
        <5>1. e.strategies[i][q[i]] = g.strategies[i][q[i]]
          BY <3>1
        <5>2. g.strategies[i][q[i]].offset >= 0 /\ g.strategies[i][q[i]].offset \in Int
          BY <3>4
        <5> QED BY <5>1, <5>2
      <4> QED BY <2>3, <4>1 DEF MarkedNew
    <3>6. Named(e, q)[pl] # label
      BY <1>3, <1>7, <2>4, <2>6
    <3> QED BY <3>2, <3>3, <3>5, <3>6
  <2> QED BY <2>2, <2>5, <2>6
<1>10. \A q \in Profiles(e) : q[pl] = m + 1 \/ q[pl] \in 1..m
  BY <1>1, <1>9
<1>11. /\ Sound(h) /\ DenselyPlaced(h) /\ InTurn(h)
       /\ Labels(h) = Labels(e) /\ h.outcomes = e.outcomes
       /\ Profiles(h) = Profiles(e)
       /\ \A q \in Profiles(e) :
            h.results[Index(h, q)] = IF MarkedNew(e, q) THEN Null ELSE e.results[Index(e, q)]
  <2>1. \A q \in Profiles(e) : ~MarkedNew(e, q) => Index(e, q) \in 1..Len(e.results)
    BY <1>0, <1>5, <1>9, <1>10 DEF Located
  <2>2. \A q, r \in Profiles(e) :
          ~MarkedNew(e, q) /\ ~MarkedNew(e, r) /\ Index(e, q) = Index(e, r) => q = r
    BY <1>0, <1>9, <1>10 DEF Located
  <2>3. OwnOutcomes(e.results, e.outcomes)
    BY <1>0, <1>5
  <2>4. Playable(e)
    BY <1>5
  <2> QED BY <1>4, <1>8, <2>1, <2>2, <2>3, <2>4, RebuiltIs
<1>12. ASSUME NEW q \in Profiles(h)
       PROVE  IF Named(h, q)[pl] = label
              THEN GetPayoff(h, q) = NoPayoff
              ELSE \E r \in Profiles(g) : Named(h, q) = Named(g, r) /\ GetPayoff(h, q) = GetPayoff(g, r)
  <2>1. q \in Profiles(e)
    BY <1>11
  <2>2. Named(h, q) = Named(e, q)
    <3>1. Playable(h)
      BY <1>11 DEF Sound
    <3>2. Named(h, q) = [i \in DOMAIN Labels(h) |-> Labels(h)[i][q[i]]]
      BY <3>1, NamedIs
    <3>3. Playable(e) /\ Labels(h) = Labels(e)
      BY <1>5, <1>11
    <3>4. Named(e, q) = [i \in DOMAIN Labels(e) |-> Labels(e)[i][q[i]]]
      BY <2>1, <3>3, NamedIs
    <3> QED BY <3>2, <3>3, <3>4
  <2>3. CASE q[pl] = m + 1
    <3>1. Named(h, q)[pl] = label /\ h.results[Index(h, q)] = Null
      BY <1>9, <1>11, <2>1, <2>2, <2>3
    <3> QED BY <3>1 DEF GetPayoff
  <2>4. CASE q[pl] \in 1..m
    <3>1. /\ ~MarkedNew(e, q) /\ q \in Profiles(g) /\ Index(e, q) = Index(g, q)
          /\ Named(e, q) = Named(g, q) /\ Named(e, q)[pl] # label
      BY <1>9, <2>1, <2>4
    <3>2. h.results[Index(h, q)] = g.results[Index(g, q)] /\ h.outcomes = g.outcomes
      BY <1>5, <1>11, <2>1, <3>1
    <3>3. GetPayoff(h, q) = GetPayoff(g, q)
      BY <3>2 DEF GetPayoff
    <3> QED BY <2>2, <3>1, <3>3
  <2> QED BY <1>10, <2>1, <2>3, <2>4
<1> QED BY <1>6, <1>11, <1>12

LEMMA PayoffsWithNew ==
  ASSUME NEW g, Sound(g), NEW pl \in 1..Len(g.strategies),
         NEW label \in Label, label \notin ToSet(Labels(g)[pl])
  PROVE  LET h == NewStrategy(g, pl, label)
         IN  Payoffs(h) = [p \in ProfilesOver(Labels(h)) |->
                            IF p[pl] = label THEN NoPayoff ELSE Payoffs(g)[p]]
<1> DEFINE h == NewStrategy(g, pl, label)
           P == ProfilesOver(Labels(h))
<1>1. /\ Sound(h)
      /\ \A q \in Profiles(h) :
           IF Named(h, q)[pl] = label
           THEN GetPayoff(h, q) = NoPayoff
           ELSE \E r \in Profiles(g) : Named(h, q) = Named(g, r) /\ GetPayoff(h, q) = GetPayoff(g, r)
  BY NewStrategyFacts
<1> HIDE DEF h
<1>2. Playable(g) /\ WellLabelled(g) /\ Playable(h) /\ WellLabelled(h)
  BY <1>1 DEF Sound
<1>3. Payoffs(h) = [p \in P |-> Payoffs(h)[p]]
  BY <1>2, PayoffsAre
<1>4. ASSUME NEW p \in P PROVE Payoffs(h)[p] = IF p[pl] = label THEN NoPayoff ELSE Payoffs(g)[p]
  <2>1. PICK q \in Profiles(h) : Named(h, q) = p
    BY <1>2, NamedFacts
  <2>2. Payoffs(h)[p] = GetPayoff(h, q)
    BY <1>2, <2>1, PayoffsAre
  <2>3. CASE p[pl] = label
    BY <1>1, <2>1, <2>2, <2>3
  <2>4. CASE p[pl] # label
    <3>1. PICK r \in Profiles(g) : Named(g, r) = p /\ GetPayoff(h, q) = GetPayoff(g, r)
      BY <1>1, <2>1, <2>4
    <3>2. Payoffs(g)[p] = GetPayoff(g, r)
      BY <1>2, <3>1, PayoffsAre
    <3> QED BY <2>2, <2>4, <3>1, <3>2
  <2> QED BY <2>3, <2>4
<1> HIDE DEF P
<1>5. Payoffs(h) = [p \in P |-> IF p[pl] = label THEN NoPayoff ELSE Payoffs(g)[p]]
  BY <1>3, <1>4
<1> QED BY <1>5 DEF h, P

(* A label that the player has not used is always left.                    *)
LEMMA LabelIsLeft ==
  ASSUME NEW s \in Seq(Nat)
  PROVE  \E l \in 1..(Len(s) + 1) : l \notin ToSet(s)
<1> DEFINE m == Len(s)
           D == 1..m
<1>1. m \in Nat /\ DOMAIN s = 1..m
  OBVIOUS
<1>2. IsFiniteSet(D) /\ Cardinality(D) = m
  <2>1. m \in Int /\ 1 \in Int
    BY <1>1
  <2> HIDE DEF m
  <2>2. IsFiniteSet(1..m) /\ Cardinality(1..m) = IF 1 > m THEN 0 ELSE m - 1 + 1
    BY <2>1, FS_Interval
  <2> QED BY <1>1, <2>2
<1>3. IsFiniteSet(1..(m + 1)) /\ Cardinality(1..(m + 1)) = m + 1
  BY <1>1, FS_Interval
<1>4. s \in Surjection(D, ToSet(s))
  <2>1. \A x : x \in ToSet(s) <=> \E k \in D : x = s[k]
    BY <1>1 DEF ToSet
  <2>2. s \in [D -> ToSet(s)]
    BY <1>1, <2>1
  <2> QED BY <2>1, <2>2 DEF Surjection
<1>5. IsFiniteSet(ToSet(s)) /\ Cardinality(ToSet(s)) <= m
  <2> DEFINE T == ToSet(s)
  <2> HIDE DEF T, D
  <2>1. IsFiniteSet(T) /\ Cardinality(T) <= Cardinality(D)
    BY <1>2, <1>4, FS_Surjection DEF T
  <2> QED BY <1>2, <2>1 DEF T
<1> HIDE DEF m, D
<1>6. SUFFICES ASSUME 1..(m + 1) \subseteq ToSet(s) PROVE FALSE
  BY DEF m
<1>7. Cardinality(1..(m + 1)) <= Cardinality(ToSet(s))
  BY <1>5, <1>6, FS_Subset
<1>8. Cardinality(ToSet(s)) \in Nat
  BY <1>5, FS_CardinalityType
<1> QED BY <1>1, <1>3, <1>5, <1>7, <1>8

-----------------------------------------------------------------------------
(* Outcomes and payoffs.                                                   *)

(* The payoff of an outcome that is in the table changes for the one       *)
(* profile it belongs to.                                                  *)
LEMMA SetPayoffFacts ==
  ASSUME NEW g, Sound(g), NEW q \in Profiles(g), g.results[Index(g, q)] # Null, NEW v \in Nat,
         NEW h, h = SetPayoff(g, g.results[Index(g, q)], v)
  PROVE  /\ Sound(h) /\ Labels(h) = Labels(g)
         /\ DenselyPlaced(h) <=> DenselyPlaced(g)
         /\ InTurn(h) <=> InTurn(g)
         /\ Payoffs(h) = [Payoffs(g) EXCEPT ![Named(g, q)] = v]
         /\ Named(g, q) \in DOMAIN Payoffs(g)
<1> DEFINE i == Index(g, q)
           o == g.results[i]
           new == [g.outcomes EXCEPT ![o] = v]
<1>0. Playable(g) /\ WellLabelled(g) /\ Located(g) /\ OwnOutcomes(g.results, g.outcomes) /\ g \in Games
  BY DEF Sound, Playable
<1>1. g.results \in Seq(Nat) /\ g.outcomes \in Seq(Nat) /\ Len(g.results) \in Nat /\ Len(g.outcomes) \in Nat
      /\ DOMAIN g.outcomes = 1..Len(g.outcomes)
  BY <1>0, PlayableFacts
<1>2. i \in 1..Len(g.results)
  BY <1>0 DEF Located
<1>3. o \in 1..Len(g.outcomes)
  <2>1. o \in 0..Len(g.outcomes) /\ o # 0
    BY <1>0, <1>2 DEF OwnOutcomes, Null
  <2> QED BY <1>1, <2>1
<1>4. h = [g EXCEPT !.outcomes = new]
  BY DEF SetPayoff
<1> HIDE DEF i, o
<1>5. new \in Seq(Nat) /\ Len(new) = Len(g.outcomes)
      /\ new[o] = v /\ \A k \in 1..Len(g.outcomes) : k # o => new[k] = g.outcomes[k]
  <2> DEFINE s == g.outcomes
             m == Len(s)
             t == [s EXCEPT ![o] = v]
  <2>1. s \in [1..m -> Nat] /\ o \in 1..m /\ m \in Nat
    BY <1>1, <1>3
  <2> HIDE DEF s, m
  <2>2. t \in [1..m -> Nat] /\ t[o] = v /\ \A k \in 1..m : k # o => t[k] = s[k]
    BY <2>1
  <2> HIDE DEF t
  <2>3. t \in Seq(Nat) /\ Len(t) = m
    BY <2>1, <2>2, IsList
  <2> QED BY <2>2, <2>3 DEF s, m, t
<1> HIDE DEF new
<1>6. h \in Games /\ h.strategies = g.strategies /\ h.results = g.results /\ h.outcomes = new
  BY <1>0, <1>4, <1>5 DEF Games
<1>7. OwnOutcomes(h.results, h.outcomes)
  BY <1>0, <1>5, <1>6 DEF OwnOutcomes
<1>8. Sound(h)
  BY <1>6, <1>7, SameTable
<1>9. /\ Playable(h) /\ WellLabelled(h) /\ Labels(h) = Labels(g) /\ Profiles(h) = Profiles(g)
      /\ (DenselyPlaced(h) <=> DenselyPlaced(g)) /\ (InTurn(h) <=> InTurn(g))
      /\ \A p : Index(h, p) = Index(g, p) /\ Named(h, p) = Named(g, p)
  BY <1>0, <1>6, SameStrategies
<1> DEFINE P == ProfilesOver(Labels(g))
           name == Named(g, q)
<1>10. Payoffs(g) = [p \in P |-> Payoffs(g)[p]] /\ Payoffs(h) = [p \in P |-> Payoffs(h)[p]]
       /\ DOMAIN Payoffs(g) = P /\ name \in P
  BY <1>0, <1>9, PayoffsAre, NamedFacts
<1>11. ASSUME NEW p \in P
       PROVE  Payoffs(h)[p] = IF p = name THEN v ELSE Payoffs(g)[p]
  <2>1. PICK r \in Profiles(g) : Named(g, r) = p
    BY <1>0, NamedFacts
  <2>2. Payoffs(h)[p] = GetPayoff(h, r) /\ Payoffs(g)[p] = GetPayoff(g, r)
    BY <1>0, <1>9, <2>1, PayoffsAre
  <2>3. GetPayoff(h, r) = IF h.results[Index(g, r)] = Null THEN NoPayoff ELSE h.outcomes[h.results[Index(g, r)]]
    BY <1>9 DEF GetPayoff
  <2>4. GetPayoff(g, r) = IF g.results[Index(g, r)] = Null THEN NoPayoff ELSE g.outcomes[g.results[Index(g, r)]]
    BY DEF GetPayoff
  <2>5. CASE r = q
    <3>1. g.results[Index(g, r)] = o /\ o # Null
      BY <2>5 DEF o, i
    <3> QED BY <1>5, <1>6, <2>1, <2>2, <2>3, <2>5, <3>1
  <2>6. CASE r # q
    <3>1. p # name
      BY <1>0, <2>1, <2>6, NamedFacts
    <3>2. Index(g, r) \in 1..Len(g.results) /\ Index(g, r) # i
      BY <1>0, <2>6 DEF Located, i
    <3>3. g.results[Index(g, r)] # Null =>
            g.results[Index(g, r)] # o /\ g.results[Index(g, r)] \in 0..Len(g.outcomes)
      BY <1>0, <1>2, <3>2 DEF OwnOutcomes, o
    <3>4. g.results[Index(g, r)] # Null =>
            new[g.results[Index(g, r)]] = g.outcomes[g.results[Index(g, r)]]
      <4>1. \A k \in 0..Len(g.outcomes) : k # 0 => k \in 1..Len(g.outcomes)
        BY <1>1
      <4> QED BY <1>5, <3>3, <4>1 DEF Null
    <3> QED BY <1>6, <2>2, <2>3, <2>4, <3>1, <3>4
  <2> QED BY <2>5, <2>6
<1> HIDE DEF P, name
<1>12. Payoffs(h) = [Payoffs(g) EXCEPT ![name] = v]
  BY <1>10, <1>11
<1> QED BY <1>8, <1>9, <1>10, <1>12 DEF name

(* A new outcome at a place without one: what the table says stays, for    *)
(* the payoffs of both are zero.                                           *)
LEMMA NewOutcomeFacts ==
  ASSUME NEW g, Sound(g), NEW q \in Profiles(g), g.results[Index(g, q)] = Null,
         NEW made, made = NewOutcome(g),
         NEW h, h = SetOutcome(made, q, Len(made.outcomes))
  PROVE  /\ Sound(h) /\ Shown(h) = Shown(g)
         /\ DenselyPlaced(h) <=> DenselyPlaced(g)
         /\ InTurn(h) <=> InTurn(g)
         /\ q \in Profiles(h)
         /\ h.results[Index(h, q)] = Len(made.outcomes)
         /\ h.results[Index(h, q)] # Null
<1> DEFINE i == Index(g, q)
           o == Len(made.outcomes)
           longer == Append(g.outcomes, NoPayoff)
           table == [g.results EXCEPT ![i] = o]
<1>0. Playable(g) /\ WellLabelled(g) /\ Located(g) /\ OwnOutcomes(g.results, g.outcomes) /\ g \in Games
  BY DEF Sound, Playable
<1>1. g.results \in Seq(Nat) /\ g.outcomes \in Seq(Nat) /\ Len(g.results) \in Nat /\ Len(g.outcomes) \in Nat
  BY <1>0, PlayableFacts
<1>2. i \in 1..Len(g.results)
  BY <1>0 DEF Located
<1>3. longer \in Seq(Nat) /\ Len(longer) = Len(g.outcomes) + 1
      /\ (\A k \in 1..Len(g.outcomes) : longer[k] = g.outcomes[k])
      /\ longer[Len(g.outcomes) + 1] = NoPayoff
  <2> DEFINE s == g.outcomes
  <2>1. s \in Seq(Nat) /\ NoPayoff \in Nat
    BY <1>1 DEF NoPayoff
  <2> HIDE DEF s
  <2>2. Append(s, NoPayoff) \in Seq(Nat) /\ Len(Append(s, NoPayoff)) = Len(s) + 1
        /\ (\A k \in 1..Len(s) : Append(s, NoPayoff)[k] = s[k])
        /\ Append(s, NoPayoff)[Len(s) + 1] = NoPayoff
    BY <2>1, AppendProperties
  <2> QED BY <2>2 DEF s
<1>4. made = [g EXCEPT !.outcomes = longer]
  BY DEF NewOutcome
<1> HIDE DEF longer
<1>5. made \in Games /\ made.strategies = g.strategies /\ made.results = g.results /\ made.outcomes = longer
  BY <1>0, <1>3, <1>4 DEF Games
<1>6. o = Len(g.outcomes) + 1 /\ o \in Nat /\ o # 0
  BY <1>1, <1>3, <1>5
<1>7. Index(made, q) = i
  BY <1>5 DEF Index
<1> HIDE DEF i, o
<1>8. h = [made EXCEPT !.results = table]
  <2>1. h = [made EXCEPT !.results[Index(made, q)] = o]
    BY DEF SetOutcome, o
  <2> QED BY <1>5, <1>7, <2>1
<1>9. table \in Seq(Nat) /\ Len(table) = Len(g.results)
      /\ table[i] = o /\ \A k \in 1..Len(g.results) : k # i => table[k] = g.results[k]
  <2> DEFINE s == g.results
             m == Len(s)
             t == [s EXCEPT ![i] = o]
  <2>1. s \in [1..m -> Nat] /\ i \in 1..m /\ m \in Nat
    BY <1>1, <1>2
  <2> HIDE DEF s, m
  <2>2. t \in [1..m -> Nat] /\ t[i] = o /\ \A k \in 1..m : k # i => t[k] = s[k]
    BY <1>6, <2>1
  <2> HIDE DEF t
  <2>3. t \in Seq(Nat) /\ Len(t) = m
    BY <2>1, <2>2, IsList
  <2> QED BY <2>2, <2>3 DEF s, m, t
<1> HIDE DEF table
<1>10. h \in Games /\ h.strategies = g.strategies /\ h.results = table /\ h.outcomes = longer
  BY <1>5, <1>8, <1>9 DEF Games
<1>11. OwnOutcomes(table, longer)
  <2>1. \A k \in 1..Len(g.results) : g.results[k] \in 0..Len(g.outcomes)
    BY <1>0 DEF OwnOutcomes
  <2>2. \A k \in 1..Len(g.results) : table[k] \in 0..Len(longer)
    <3> SUFFICES ASSUME NEW k \in 1..Len(g.results) PROVE table[k] \in 0..Len(longer)
      OBVIOUS
    <3>1. CASE k = i
      BY <1>3, <1>6, <1>9, <3>1
    <3>2. CASE k # i
      <4>1. table[k] \in 0..Len(g.outcomes)
        BY <1>9, <2>1, <3>2
      <4> QED BY <1>1, <1>3, <4>1
    <3> QED BY <3>1, <3>2
  <2>3. \A k \in 1..Len(g.results) : g.results[k] # o
    <3> SUFFICES ASSUME NEW k \in 1..Len(g.results) PROVE g.results[k] # o
      OBVIOUS
    <3>1. g.results[k] \in 0..Len(g.outcomes)
      BY <2>1
    <3> QED BY <1>1, <1>6, <3>1
  <2>4. \A j, k \in 1..Len(g.results) : g.results[j] = g.results[k] /\ g.results[j] # Null => j = k
    BY <1>0 DEF OwnOutcomes
  <2>5. \A j, k \in 1..Len(g.results) : table[j] = table[k] /\ table[j] # Null => j = k
    BY <1>9, <2>3, <2>4
  <2> QED BY <1>9, <2>2, <2>5 DEF OwnOutcomes
<1>12. Sound(h)
  BY <1>9, <1>10, <1>11, SameTable
<1>13. /\ Playable(h) /\ WellLabelled(h) /\ Labels(h) = Labels(g) /\ Profiles(h) = Profiles(g)
       /\ (DenselyPlaced(h) <=> DenselyPlaced(g)) /\ (InTurn(h) <=> InTurn(g))
       /\ \A p : Index(h, p) = Index(g, p) /\ Named(h, p) = Named(g, p)
  BY <1>0, <1>10, SameStrategies
<1>14. ASSUME NEW r \in Profiles(g) PROVE GetPayoff(g, r) = GetPayoff(h, r)
  <2>1. GetPayoff(h, r) = IF table[Index(g, r)] = Null THEN NoPayoff ELSE longer[table[Index(g, r)]]
    BY <1>10, <1>13 DEF GetPayoff
  <2>2. GetPayoff(g, r) = IF g.results[Index(g, r)] = Null THEN NoPayoff ELSE g.outcomes[g.results[Index(g, r)]]
    BY DEF GetPayoff
  <2>3. CASE Index(g, r) = i
    <3>1. GetPayoff(g, r) = NoPayoff
      BY <2>2, <2>3 DEF i
    <3>2. GetPayoff(h, r) = NoPayoff
      BY <1>3, <1>6, <1>9, <2>1, <2>3 DEF Null
    <3> QED BY <3>1, <3>2
  <2>4. CASE Index(g, r) # i
    <3>1. Index(g, r) \in 1..Len(g.results)
      BY <1>0 DEF Located
    <3>2. table[Index(g, r)] = g.results[Index(g, r)] /\ g.results[Index(g, r)] \in 0..Len(g.outcomes)
      BY <1>0, <1>9, <2>4, <3>1 DEF OwnOutcomes
    <3>3. g.results[Index(g, r)] # Null => g.results[Index(g, r)] \in 1..Len(g.outcomes)
      BY <1>1, <3>2 DEF Null
    <3> QED BY <1>3, <2>1, <2>2, <3>2, <3>3
  <2> QED BY <2>3, <2>4
<1>15. Shown(h) = Shown(g)
  BY <1>0, <1>13, <1>14, SamePayoffs
<1>16. h.results[Index(h, q)] = o /\ o # Null
  BY <1>6, <1>9, <1>10, <1>13 DEF i, Null
<1> QED BY <1>12, <1>13, <1>15, <1>16 DEF o

-----------------------------------------------------------------------------
(* The texts of the undo and redo lists.                                   *)

Views == [labels : Seq(Seq(Nat)), payoffs : UNION {[P -> Nat] : P \in SUBSET Seq(Nat)}]
Lists == [about : Views, found : BOOLEAN]
Texts == [nfg : [labels : Seq(Seq(Nat)), outcomes : Seq(Nat), body : Seq(Nat)],
          profiles : Seq(Lists), saw : Views, edit : BOOLEAN, intact : BOOLEAN]

(* Texts that can be read, and are what was shown if the table was dense.  *)
Kept ==
  {text \in Texts :
    /\ TextSound(text.nfg)
    /\ text.intact => Shown(ReadNfgFile(text.nfg)) = text.saw}

LEMMA ShownIsView ==
  ASSUME NEW g, Sound(g)
  PROVE  Shown(g) \in Views /\ Shown(g).labels = Labels(g) /\ Shown(g).payoffs = Payoffs(g)
<1> DEFINE n == Len(g.strategies)
           P == ProfilesOver(Labels(g))
<1>0. Playable(g) /\ WellLabelled(g) /\ Located(g) /\ OwnOutcomes(g.results, g.outcomes)
  BY DEF Sound
<1>1. Labels(g) \in Seq(Seq(Nat)) /\ n \in Nat
  BY <1>0, LabelsAre, PlayableFacts
<1>2. P \in SUBSET Seq(Nat)
  <2> SUFFICES ASSUME NEW p \in P PROVE p \in Seq(Nat)
    OBVIOUS
  <2>1. p = [pl \in 1..n |-> p[pl]]
        /\ \A pl \in 1..n : \E st \in 1..Len(g.strategies[pl]) : p[pl] = g.strategies[pl][st].label
    BY <1>0, NamesAre
  <2>2. \A pl \in 1..n : p[pl] \in Nat
    <3> SUFFICES ASSUME NEW pl \in 1..n PROVE p[pl] \in Nat
      OBVIOUS
    <3>1. PICK st \in 1..Len(g.strategies[pl]) : p[pl] = g.strategies[pl][st].label
      BY <2>1
    <3>2. g.strategies[pl][st] \in StrategyRecords
      BY <1>0, ListOf
    <3> QED BY <3>1, <3>2 DEF StrategyRecords
  <2> HIDE DEF n
  <2>3. p \in [1..n -> Nat]
    BY <2>1, <2>2
  <2> QED BY <1>1, <2>3, IsList
<1>3. ASSUME NEW p \in P PROVE Payoffs(g)[p] \in Nat
  <2>1. PICK q \in Profiles(g) : Named(g, q) = p
    BY <1>0, NamedFacts
  <2>2. Payoffs(g)[p] = GetPayoff(g, q)
    BY <1>0, <2>1, PayoffsAre
  <2> DEFINE i == Index(g, q)
  <2>3. i \in 1..Len(g.results)
    BY <1>0 DEF Located
  <2>4. g.results[i] \in 0..Len(g.outcomes)
    BY <1>0, <2>3 DEF OwnOutcomes
  <2>5. g.outcomes \in Seq(Nat) /\ Len(g.outcomes) \in Nat /\ \A o \in 1..Len(g.outcomes) : g.outcomes[o] \in Nat
    <3>1. g.outcomes \in Seq(Nat)
      BY <1>0, PlayableFacts
    <3> QED BY <3>1, ListIs
  <2>6. g.results[i] # Null => g.results[i] \in 1..Len(g.outcomes)
    BY <2>4, <2>5 DEF Null
  <2>7. GetPayoff(g, q) \in Nat
    BY <2>5, <2>6 DEF GetPayoff, NoPayoff
  <2> QED BY <2>2, <2>7
<1>4. Payoffs(g) = [p \in P |-> Payoffs(g)[p]]
  BY <1>0, PayoffsAre
<1> HIDE DEF P
<1>5. Payoffs(g) \in [P -> Nat]
  BY <1>3, <1>4
<1>6. Payoffs(g) \in UNION {[D -> Nat] : D \in SUBSET Seq(Nat)}
  BY <1>2, <1>5
<1> HIDE DEF n
<1> QED BY <1>1, <1>6 DEF Shown, Views

LEMMA SavedFacts ==
  ASSUME NEW g, Sound(g), NEW lists \in Seq(Lists), NEW edit \in BOOLEAN,
         NEW text, text = SaveDocument(g, lists, Shown(g), edit)
  PROVE  /\ text \in Kept
         /\ text.profiles = lists /\ text.saw = Shown(g) /\ text.edit = edit
<1>1. text = [nfg |-> WriteNfgFile(g), profiles |-> lists, saw |-> Shown(g),
              edit |-> edit, intact |-> Dense(g)]
  BY DEF SaveDocument
<1>2. TextSound(WriteNfgFile(g))
  BY WriteFacts
<1>3. WriteNfgFile(g) \in [labels : Seq(Seq(Nat)), outcomes : Seq(Nat), body : Seq(Nat)]
  BY <1>2 DEF TextSound
<1>4. Shown(g) \in Views
  BY ShownIsView
<1>5. Dense(g) \in BOOLEAN /\ (Dense(g) => DenselyPlaced(g))
  <2>1. Playable(g)
    BY DEF Sound
  <2>2. Dense(g) \in BOOLEAN
    BY DEF Dense
  <2> QED BY <2>1, <2>2, DenseIs
<1>6. Dense(g) => Shown(ReadNfgFile(WriteNfgFile(g))) = Shown(g)
  BY <1>5, ReadsBack
<1>7. text \in Texts
  BY <1>1, <1>3, <1>4, <1>5 DEF Texts
<1>8. /\ text.nfg = WriteNfgFile(g) /\ text.intact = Dense(g)
      /\ text.profiles = lists /\ text.saw = Shown(g) /\ text.edit = edit
  BY <1>1
<1> QED BY <1>2, <1>6, <1>7, <1>8 DEF Kept

(* A list of equilibria of another game than the one seen is still in the  *)
(* text of an edit, or a text does not give back its game.                 *)
Explained(lists, saw, texts) ==
  \A k \in DOMAIN lists :
    lists[k].found /\ lists[k].about # saw =>
      \E text \in texts :
        ~text.intact \/ (text.edit /\ lists[k] \in ToSet(text.profiles))

UndoExplained(undo) ==
  \A i \in 1..Len(undo) :
    Explained(undo[i].profiles, undo[i].saw, {undo[j] : j \in 1..i})

RedoExplained(redo, undo) ==
  \A i \in 1..Len(redo) :
    Explained(redo[i].profiles, redo[i].saw, ToSet(undo) \cup {redo[j] : j \in i..Len(redo)})

LEMMA EndOfList ==
  ASSUME NEW T, NEW s \in Seq(T), Len(s) >= 1
  PROVE  /\ Last(s) \in T /\ Last(s) = s[Len(s)] /\ Len(s) \in Nat \ {0}
         /\ Front(s) \in Seq(T) /\ Len(Front(s)) = Len(s) - 1
         /\ \A k \in 1..(Len(s) - 1) : Front(s)[k] = s[k]
         /\ ToSet(s) = ToSet(Front(s)) \cup {Last(s)}
<1> DEFINE m == Len(s)
           f == SubSeq(s, 1, m - 1)
<1>1. m \in Nat \ {0} /\ DOMAIN s = 1..m /\ s \in [1..m -> T] /\ \A k \in 1..m : s[k] \in T
  BY ListIs
<1> HIDE DEF m
<1>2. f \in Seq(T) /\ Len(f) = m - 1 /\ \A k \in 1..(m - 1) : f[k] = s[k]
  <2>1. m - 1 \in 0..m /\ m \in Nat
    BY <1>1
  <2> QED BY <1>1, <2>1, FirstOf
<1>3. Front(s) = f /\ Last(s) = s[m]
  BY DEF Front, Last, m
<1> HIDE DEF f
<1>4. DOMAIN f = 1..(m - 1)
  BY <1>2, ListIs
<1>5. \A k \in 1..m : k \in 1..(m - 1) \/ k = m
  BY <1>1
<1>6. (\A k \in 1..(m - 1) : k \in 1..m) /\ m \in 1..m
  BY <1>1
<1>7. ToSet(s) = {s[k] : k \in 1..m} /\ ToSet(f) = {f[k] : k \in 1..(m - 1)}
  BY <1>1, <1>4 DEF ToSet
<1>8. ToSet(s) = ToSet(f) \cup {s[m]}
  <2>1. \A x : x \in ToSet(s) <=> \E k \in 1..m : x = s[k]
    BY <1>7
  <2>2. \A x : x \in ToSet(f) <=> \E k \in 1..(m - 1) : x = s[k]
    BY <1>2, <1>7
  <2> QED BY <1>5, <1>6, <2>1, <2>2
<1> QED BY <1>1, <1>2, <1>3, <1>6, <1>8 DEF m

LEMMA AppendedList ==
  ASSUME NEW T, NEW s \in Seq(T), NEW x \in T
  PROVE  /\ Append(s, x) \in Seq(T) /\ Len(Append(s, x)) = Len(s) + 1 /\ Len(s) \in Nat
         /\ \A k \in 1..Len(s) : Append(s, x)[k] = s[k]
         /\ Append(s, x)[Len(s) + 1] = x
         /\ Last(Append(s, x)) = x
         /\ ToSet(Append(s, x)) = ToSet(s) \cup {x}
<1> DEFINE m == Len(s)
           a == Append(s, x)
<1>1. m \in Nat /\ DOMAIN s = 1..m
  BY ListIs
<1>2. a \in Seq(T) /\ Len(a) = m + 1 /\ (\A k \in 1..m : a[k] = s[k]) /\ a[m + 1] = x
  BY AppendProperties
<1> HIDE DEF a, m
<1>3. DOMAIN a = 1..(m + 1)
  BY <1>2, ListIs
<1>4. Last(a) = x
  BY <1>2 DEF Last
<1>5. \A y : y \in ToSet(s) <=> \E k \in 1..m : y = s[k]
  BY <1>1 DEF ToSet
<1>6. \A y : y \in ToSet(a) <=> \E k \in 1..(m + 1) : y = a[k]
  BY <1>3 DEF ToSet
<1>7. /\ \A k \in 1..(m + 1) : k \in 1..m \/ k = m + 1
      /\ \A k \in 1..m : k \in 1..(m + 1)
      /\ m + 1 \in 1..(m + 1)
  BY <1>1
<1>8. ToSet(a) = ToSet(s) \cup {x}
  BY <1>2, <1>5, <1>6, <1>7
<1> QED BY <1>1, <1>2, <1>4, <1>8 DEF a, m

LEMMA ToSetIs ==
  ASSUME NEW T, NEW s \in Seq(T)
  PROVE  ToSet(s) = {s[k] : k \in 1..Len(s)}
BY ListIs DEF ToSet

LEMMA MoreTexts ==
  ASSUME NEW lists, NEW saw, NEW few, NEW many, few \subseteq many, Explained(lists, saw, few)
  PROVE  Explained(lists, saw, many)
BY DEF Explained

(* A text is written.                                                      *)
LEMMA TextWritten ==
  ASSUME NEW undo \in Seq(Kept), UndoExplained(undo), NEW text \in Kept,
         Explained(text.profiles, text.saw, ToSet(undo) \cup {text})
  PROVE  UndoExplained(Append(undo, text))
<1> DEFINE m == Len(undo)
           more == Append(undo, text)
<1>1. m \in Nat /\ Len(more) = m + 1 /\ (\A k \in 1..m : more[k] = undo[k]) /\ more[m + 1] = text
      /\ ToSet(more) = ToSet(undo) \cup {text} /\ more \in Seq(Kept)
  BY AppendedList
<1>2. ToSet(more) = {more[j] : j \in 1..(m + 1)}
  BY <1>1, ToSetIs
<1> HIDE DEF more
<1> SUFFICES ASSUME NEW i \in 1..(m + 1)
             PROVE  Explained(more[i].profiles, more[i].saw, {more[j] : j \in 1..i})
  BY <1>1 DEF UndoExplained, more
<1>3. CASE i \in 1..m
  <2>1. Explained(undo[i].profiles, undo[i].saw, {undo[j] : j \in 1..i})
    BY <1>3 DEF UndoExplained
  <2>2. {undo[j] : j \in 1..i} = {more[j] : j \in 1..i}
    <3>1. \A j \in 1..i : more[j] = undo[j]
      BY <1>1, <1>3
    <3> QED BY <3>1
  <2> QED BY <1>1, <1>3, <2>1, <2>2
<1>4. CASE i = m + 1
  BY <1>1, <1>2, <1>4
<1> HIDE DEF m
<1>5. i \in 1..m \/ i = m + 1
  BY <1>1
<1> QED BY <1>3, <1>4, <1>5

(* The last text of the undo list goes to the redo list ...                *)
LEMMA TextTakenBack ==
  ASSUME NEW undo \in Seq(Kept), Len(undo) > 1, NEW redo \in Seq(Kept),
         UndoExplained(undo), RedoExplained(redo, undo)
  PROVE  UndoExplained(Front(undo)) /\ RedoExplained(Append(redo, Last(undo)), Front(undo))
<1> DEFINE m == Len(undo)
           n == Len(redo)
           front == Front(undo)
           last == Last(undo)
           more == Append(redo, last)
<1>1. /\ last \in Kept /\ last = undo[m] /\ m \in Nat \ {0}
      /\ front \in Seq(Kept) /\ Len(front) = m - 1
      /\ \A k \in 1..(m - 1) : front[k] = undo[k]
      /\ ToSet(undo) = ToSet(front) \cup {last}
  <2>1. Len(undo) >= 1
    <3>1. Len(undo) \in Nat
      BY ListIs
    <3> QED BY <3>1
  <2> QED BY <2>1, EndOfList
<1> HIDE DEF front, last
<1>2. n \in Nat /\ Len(more) = n + 1 /\ (\A k \in 1..n : more[k] = redo[k]) /\ more[n + 1] = last
  BY <1>1, AppendedList
<1> HIDE DEF more
<1>3. ToSet(undo) = {undo[j] : j \in 1..m}
  BY ToSetIs
<1> HIDE DEF m, n
<1>4. UndoExplained(front)
  <2> SUFFICES ASSUME NEW i \in 1..(m - 1)
               PROVE  Explained(front[i].profiles, front[i].saw, {front[j] : j \in 1..i})
    BY <1>1 DEF UndoExplained
  <2>1. i \in 1..m /\ \A j \in 1..i : j \in 1..(m - 1)
    BY <1>1
  <2>2. Explained(undo[i].profiles, undo[i].saw, {undo[j] : j \in 1..i})
    BY <2>1 DEF UndoExplained, m
  <2>3. {undo[j] : j \in 1..i} = {front[j] : j \in 1..i}
    <3>1. \A j \in 1..i : front[j] = undo[j]
      BY <1>1, <2>1
    <3> QED BY <3>1
  <2> QED BY <1>1, <2>2, <2>3
<1>5. RedoExplained(more, front)
  <2> SUFFICES ASSUME NEW i \in 1..(n + 1)
               PROVE  Explained(more[i].profiles, more[i].saw, ToSet(front) \cup {more[j] : j \in i..(n + 1)})
    BY <1>2 DEF RedoExplained
  <2>1. i \in 1..n \/ i = n + 1
    BY <1>2
  <2>2. CASE i \in 1..n
    <3>1. Explained(redo[i].profiles, redo[i].saw, ToSet(undo) \cup {redo[j] : j \in i..n})
      BY <2>2 DEF RedoExplained, n
    <3>2. /\ \A j \in i..n : j \in i..(n + 1) /\ more[j] = redo[j]
          /\ n + 1 \in i..(n + 1)
      BY <1>2, <2>2
    <3>3. ToSet(undo) \cup {redo[j] : j \in i..n} \subseteq ToSet(front) \cup {more[j] : j \in i..(n + 1)}
      BY <1>1, <1>2, <3>2
    <3>4. Explained(redo[i].profiles, redo[i].saw, ToSet(front) \cup {more[j] : j \in i..(n + 1)})
      BY <3>1, <3>3, MoreTexts
    <3> QED BY <1>2, <2>2, <3>4
  <2>3. CASE i = n + 1
    <3>1. Explained(last.profiles, last.saw, ToSet(undo))
      <4>1. m \in 1..m
        BY <1>1
      <4>2. Explained(undo[m].profiles, undo[m].saw, {undo[j] : j \in 1..m})
        BY <4>1 DEF UndoExplained, m
      <4> QED BY <1>1, <1>3, <4>2
    <3>2. n + 1 \in i..(n + 1)
      BY <1>2, <2>3
    <3>3. ToSet(undo) \subseteq ToSet(front) \cup {more[j] : j \in i..(n + 1)}
      BY <1>1, <1>2, <3>2
    <3>4. Explained(last.profiles, last.saw, ToSet(front) \cup {more[j] : j \in i..(n + 1)})
      BY <3>1, <3>3, MoreTexts
    <3> QED BY <1>2, <2>3, <3>4
  <2> QED BY <2>1, <2>2, <2>3
<1> QED BY <1>4, <1>5 DEF front, more, last

(* ... and from there back to the undo list.                               *)
LEMMA TextRestored ==
  ASSUME NEW undo \in Seq(Kept), NEW redo \in Seq(Kept), redo # <<>>,
         UndoExplained(undo), RedoExplained(redo, undo)
  PROVE  /\ Last(redo) \in Kept /\ Front(redo) \in Seq(Kept)
         /\ UndoExplained(Append(undo, Last(redo)))
         /\ RedoExplained(Front(redo), Append(undo, Last(redo)))
<1> DEFINE n == Len(redo)
           front == Front(redo)
           last == Last(redo)
           more == Append(undo, last)
<1>1. /\ last \in Kept /\ last = redo[n] /\ n \in Nat \ {0}
      /\ front \in Seq(Kept) /\ Len(front) = n - 1
      /\ \A k \in 1..(n - 1) : front[k] = redo[k]
  <2>1. Len(redo) >= 1
    <3>1. Len(redo) \in Nat /\ Len(redo) # 0
      BY EmptySeq
    <3> QED BY <3>1
  <2> QED BY <2>1, EndOfList
<1> HIDE DEF front, last
<1>2. ToSet(more) = ToSet(undo) \cup {last}
  BY <1>1, AppendedList
<1> HIDE DEF n
<1>3. UndoExplained(more)
  <2>1. n \in 1..n /\ n..n = {n}
    BY <1>1
  <2>2. Explained(redo[n].profiles, redo[n].saw, ToSet(undo) \cup {redo[j] : j \in n..n})
    BY <2>1 DEF RedoExplained, n
  <2>3. {redo[j] : j \in n..n} = {last}
    BY <1>1, <2>1
  <2>4. Explained(last.profiles, last.saw, ToSet(undo) \cup {last})
    BY <1>1, <2>2, <2>3
  <2> QED BY <1>1, <2>4, TextWritten
<1> HIDE DEF more
<1>4. RedoExplained(front, more)
  <2> SUFFICES ASSUME NEW i \in 1..(n - 1)
               PROVE  Explained(front[i].profiles, front[i].saw, ToSet(more) \cup {front[j] : j \in i..(n - 1)})
    BY <1>1 DEF RedoExplained
  <2>1. i \in 1..n
    BY <1>1
  <2>2. Explained(redo[i].profiles, redo[i].saw, ToSet(undo) \cup {redo[j] : j \in i..n})
    BY <2>1 DEF RedoExplained, n
  <2>3. \A j \in i..n : j = n \/ (j \in i..(n - 1) /\ front[j] = redo[j])
    BY <1>1
  <2>4. ToSet(undo) \cup {redo[j] : j \in i..n} \subseteq ToSet(more) \cup {front[j] : j \in i..(n - 1)}
    BY <1>1, <1>2, <2>3
  <2>5. Explained(redo[i].profiles, redo[i].saw, ToSet(more) \cup {front[j] : j \in i..(n - 1)})
    BY <2>2, <2>4, MoreTexts
  <2> QED BY <1>1, <2>5
<1> QED BY <1>1, <1>3, <1>4 DEF front, more, last

-----------------------------------------------------------------------------
(* What holds in every state of the document.                              *)

TableInv ==
  /\ "DeleteStrategy" \notin since => DenselyPlaced(game)
  /\ since = {} => InTurn(game)

ListsInv ==
  /\ Sound(game) /\ shown = Shown(game)
  /\ profiles \in Seq(Lists)
  /\ undoList \in Seq(Kept) /\ Len(undoList) >= 1 /\ redoList \in Seq(Kept)
  /\ ShownIsLastSaved
  /\ Explained(profiles, shown, ToSet(undoList))
  /\ UndoExplained(undoList)
  /\ RedoExplained(redoList, undoList)

DocumentInv == TableInv /\ ListsInv

LEMMA NothingRedone == \A undo : RedoExplained(<<>>, undo)
BY DEF RedoExplained

LEMMA NothingListed == \A saw, texts : Explained(<<>>, saw, texts)
BY DEF Explained

LEMMA ViewsUpdated ==
  ASSUME ListsInv, NEW g, Sound(g), NEW edit \in BOOLEAN, edit \/ g = game, UpdateViews(g, edit)
  PROVE  ListsInv' /\ game' = g /\ shown' = Shown(g)
<1> DEFINE text == SaveDocument(g, profiles, Shown(g), edit)
<1>1. /\ game' = g /\ shown' = Shown(g) /\ undoList' = Append(undoList, text) /\ redoList' = <<>>
      /\ profiles' = IF edit THEN <<>> ELSE profiles
      /\ reloaded' = FALSE
  BY DEF UpdateViews
<1>2. /\ shown = Shown(game) /\ profiles \in Seq(Lists) /\ undoList \in Seq(Kept)
      /\ Explained(profiles, shown, ToSet(undoList)) /\ UndoExplained(undoList)
  BY DEF ListsInv
<1>3. text \in Kept /\ text.profiles = profiles /\ text.saw = Shown(g) /\ text.edit = edit
  BY <1>2, SavedFacts
<1> HIDE DEF text
<1>4. /\ undoList' \in Seq(Kept) /\ Len(undoList') = Len(undoList) + 1 /\ Len(undoList) \in Nat
      /\ Last(undoList') = text /\ ToSet(undoList') = ToSet(undoList) \cup {text}
  BY <1>1, <1>2, <1>3, AppendedList
<1>5. Explained(text.profiles, text.saw, ToSet(undoList) \cup {text})
  <2>1. CASE edit
    <3> SUFFICES ASSUME NEW k \in DOMAIN profiles PROVE profiles[k] \in ToSet(text.profiles)
      BY <1>3, <2>1 DEF Explained
    <3> QED BY <1>3 DEF ToSet
  <2>2. CASE g = game
    <3>1. text.saw = shown
      BY <1>2, <1>3, <2>2
    <3>2. ToSet(undoList) \subseteq ToSet(undoList) \cup {text}
      OBVIOUS
    <3> QED BY <1>2, <1>3, <3>1, <3>2, MoreTexts
  <2> QED BY <2>1, <2>2
<1>6. UndoExplained(undoList')
  BY <1>1, <1>2, <1>3, <1>5, TextWritten
<1>7. Explained(profiles', shown', ToSet(undoList'))
  <2>1. CASE edit
    BY <1>1, <2>1, NothingListed
  <2>2. CASE ~edit
    BY <1>1, <1>3, <1>4, <1>5, <2>2
  <2> QED BY <2>1, <2>2
<1>8. profiles' \in Seq(Lists) /\ redoList' \in Seq(Kept) /\ Len(undoList') >= 1
  BY <1>1, <1>2, <1>4
<1>9. ShownIsLastSaved'
  BY <1>1, <1>3, <1>4 DEF ShownIsLastSaved
<1>10. RedoExplained(redoList', undoList')
  BY <1>1, NothingRedone
<1> QED BY <1>1, <1>4, <1>6, <1>7, <1>8, <1>9, <1>10 DEF ListsInv

(* A text of the undo list is loaded.                                      *)
LEMMA Loaded ==
  ASSUME NEW text \in Kept, Load(text), undoList' \in Seq(Kept), Len(undoList') >= 1,
         redoList' \in Seq(Kept), text = Last(undoList'),
         UndoExplained(undoList'), RedoExplained(redoList', undoList')
  PROVE  DocumentInv'
<1> DEFINE g == ReadNfgFile(text.nfg)
           u == undoList'
<1>1. /\ game' = g /\ shown' = Shown(g) /\ profiles' = text.profiles /\ reloaded' = TRUE /\ since' = {}
  BY DEF Load
<1>2. TextSound(text.nfg) /\ (text.intact => Shown(g) = text.saw) /\ text \in Texts
  BY DEF Kept
<1>3. Sound(g) /\ DenselyPlaced(g) /\ InTurn(g)
  BY <1>2, ReadFacts
<1> HIDE DEF g
<1>4. text.profiles \in Seq(Lists)
  BY <1>2 DEF Texts
<1>5. ShownIsLastSaved'
  BY <1>1, <1>2 DEF ShownIsLastSaved
<1>6. Explained(text.profiles, Shown(g), ToSet(u))
  <2> HIDE DEF u
  <2>1. u \in Seq(Kept) /\ Len(u) >= 1 /\ text = Last(u) /\ UndoExplained(u)
    BY DEF u
  <2>2. Len(u) \in Nat \ {0} /\ text = u[Len(u)] /\ text \in ToSet(u)
    BY <2>1, EndOfList
  <2>3. CASE text.intact
    <3>1. Len(u) \in 1..Len(u)
      BY <2>2
    <3>2. Explained(text.profiles, text.saw, {u[j] : j \in 1..Len(u)})
      BY <2>1, <2>2, <3>1 DEF UndoExplained
    <3>3. ToSet(u) = {u[j] : j \in 1..Len(u)}
      BY <2>1, ToSetIs
    <3> QED BY <1>2, <2>3, <3>2, <3>3
  <2>4. CASE ~text.intact
    BY <2>2, <2>4 DEF Explained
  <2> QED BY <2>3, <2>4
<1>7. TableInv'
  BY <1>1, <1>3 DEF TableInv
<1>8. ListsInv'
  BY <1>1, <1>3, <1>4, <1>5, <1>6 DEF ListsInv
<1> QED BY <1>7, <1>8 DEF DocumentInv

LEMMA InitDocument == Init => DocumentInv
<1> SUFFICES ASSUME Init PROVE DocumentInv
  OBVIOUS
<1>1. PICK dims \in InitialDims :
        LET opened == NewTable([pl \in DOMAIN dims |-> [st \in 1..dims[pl] |-> st]])
        IN  game = [opened EXCEPT !.outcomes = [o \in DOMAIN @ |-> o]]
  BY DEF Init
<1> DEFINE n == Len(dims)
           labels == [pl \in DOMAIN dims |-> [st \in 1..dims[pl] |-> st]]
           opened == NewTable(labels)
           K == Product(Lengths(labels))
           new == [o \in 1..K |-> o]
<1>2. game = [opened EXCEPT !.outcomes = [o \in DOMAIN opened.outcomes |-> o]]
  BY <1>1
<1>3. n \in Nat /\ DOMAIN dims = 1..n /\ \A pl \in 1..n : dims[pl] \in 1..MaxStrategies
  BY DocumentAssumption, ListIs
<1> HIDE DEF n
<1>4. LabelsOK(labels)
  <2>1. \A pl \in 1..n : labels[pl] = [st \in 1..dims[pl] |-> st]
    BY <1>3
  <2>2. \A pl \in 1..n : /\ labels[pl] \in Seq(Nat) /\ Len(labels[pl]) = dims[pl]
                         /\ DOMAIN labels[pl] = 1..dims[pl] /\ dims[pl] \in Nat
                         /\ \A st \in 1..dims[pl] : labels[pl][st] = st
    <3> SUFFICES ASSUME NEW pl \in 1..n
                 PROVE  /\ labels[pl] \in Seq(Nat) /\ Len(labels[pl]) = dims[pl]
                        /\ DOMAIN labels[pl] = 1..dims[pl] /\ dims[pl] \in Nat
                        /\ \A st \in 1..dims[pl] : labels[pl][st] = st
      OBVIOUS
    <3> DEFINE m == dims[pl]
               list == [st \in 1..m |-> st]
    <3>1. m \in Nat
      BY <1>3, DocumentAssumption
    <3>2. labels[pl] = list
      BY <2>1
    <3> HIDE DEF m
    <3>3. list \in [1..m -> Nat] /\ \A st \in 1..m : list[st] = st
      BY <3>1
    <3> HIDE DEF list
    <3>4. list \in Seq(Nat) /\ Len(list) = m /\ DOMAIN list = 1..m
      BY <3>1, <3>3, IsList
    <3> HIDE DEF labels
    <3> QED BY <3>1, <3>2, <3>3, <3>4 DEF m
  <2>3. DOMAIN labels = 1..n
    BY <1>3
  <2>4. labels \in Seq(Seq(Nat))
    <3> DEFINE T == Seq(Nat)
    <3>1. labels = [pl \in 1..n |-> labels[pl]]
      BY <1>3
    <3> HIDE DEF labels
    <3>2. \A pl \in 1..n : labels[pl] \in T
      BY <2>2
    <3> HIDE DEF T
    <3>3. labels \in [1..n -> T]
      BY <3>1, <3>2
    <3>4. labels \in Seq(T)
      BY <1>3, <3>3, IsList
    <3> QED BY <3>4 DEF T
  <2> HIDE DEF labels
  <2>5. ASSUME NEW pl \in 1..n
        PROVE  /\ Len(labels[pl]) >= 1
               /\ \A st \in DOMAIN labels[pl] : labels[pl][st] \in Label
               /\ \A st, other \in DOMAIN labels[pl] : labels[pl][st] = labels[pl][other] => st = other
    <3> DEFINE list == labels[pl]
               m == dims[pl]
    <3>1. /\ Len(list) = m /\ DOMAIN list = 1..m /\ m \in 1..MaxStrategies
          /\ \A st \in 1..m : list[st] = st
      BY <1>3, <2>2
    <3> HIDE DEF list, m
    <3>2. m >= 1 /\ \A st \in 1..m : st \in Label
      BY <3>1, DocumentAssumption DEF Label
    <3>3. /\ Len(list) >= 1
          /\ \A st \in DOMAIN list : list[st] \in Label
          /\ \A st, other \in DOMAIN list : list[st] = list[other] => st = other
      BY <3>1, <3>2
    <3> QED BY <3>3 DEF list
  <2> QED BY <2>3, <2>4, <2>5 DEF LabelsOK
<1> HIDE DEF labels, opened
<1>5. /\ Sound(opened) /\ DenselyPlaced(opened) /\ InTurn(opened)
      /\ opened.outcomes = [k \in 1..K |-> NoPayoff]
      /\ K \in Nat
  BY <1>4, NewTableFacts, LabelsOKFacts DEF opened
<1> HIDE DEF K
<1>6. new \in Seq(Nat) /\ Len(new) = K
  <2>1. new \in [1..K -> Nat]
    BY <1>5
  <2> HIDE DEF new
  <2> QED BY <1>5, <2>1, IsList
<1>7. game = [opened EXCEPT !.outcomes = new]
  BY <1>2, <1>5
<1> HIDE DEF new
<1>8. opened \in Games /\ Playable(opened) /\ OwnOutcomes(opened.results, opened.outcomes)
      /\ Len(opened.outcomes) = K
  <2>1. Len([k \in 1..K |-> NoPayoff]) = K
    BY <1>5
  <2> QED BY <1>5, <2>1 DEF Sound, Playable
<1>9. game \in Games /\ game.strategies = opened.strategies /\ game.results = opened.results
      /\ game.outcomes = new
  BY <1>6, <1>7, <1>8 DEF Games
<1>10. OwnOutcomes(game.results, game.outcomes)
  BY <1>6, <1>8, <1>9 DEF OwnOutcomes
<1>11. Sound(game)
  BY <1>5, <1>9, <1>10, SameTable
<1>12. DenselyPlaced(game) /\ InTurn(game)
  BY <1>5, <1>8, <1>9, SameStrategies
<1> DEFINE text == SaveDocument(game, <<>>, Shown(game), FALSE)
<1>13. /\ shown = Shown(game) /\ profiles = <<>> /\ undoList = <<text>> /\ redoList = <<>>
       /\ reloaded = FALSE /\ since = {}
  BY DEF Init
<1>14. text \in Kept /\ text.profiles = <<>> /\ text.saw = Shown(game)
  <2>1. <<>> \in Seq(Lists) /\ FALSE \in BOOLEAN
    OBVIOUS
  <2> DEFINE none == <<>>
             f == FALSE
  <2> HIDE DEF none, f
  <2>2. none \in Seq(Lists) /\ f \in BOOLEAN /\ text = SaveDocument(game, none, Shown(game), f)
    BY <2>1 DEF none, f
  <2> HIDE DEF text
  <2>3. text \in Kept /\ text.profiles = none /\ text.saw = Shown(game)
    BY <1>11, <2>2, SavedFacts
  <2> QED BY <2>3 DEF none
<1> HIDE DEF text
<1>15. undoList \in Seq(Kept) /\ Len(undoList) = 1 /\ Last(undoList) = text /\ undoList[1] = text
       /\ redoList \in Seq(Kept) /\ profiles \in Seq(Lists)
  BY <1>13, <1>14 DEF Last
<1>16. UndoExplained(undoList)
  BY <1>14, <1>15, NothingListed DEF UndoExplained
<1>17. Explained(profiles, shown, ToSet(undoList)) /\ RedoExplained(redoList, undoList)
  BY <1>13, NothingListed, NothingRedone
<1>18. ShownIsLastSaved
  BY <1>13, <1>14, <1>15 DEF ShownIsLastSaved
<1> QED BY <1>11, <1>12, <1>13, <1>15, <1>16, <1>17, <1>18 DEF DocumentInv, ListsInv, TableInv

-----------------------------------------------------------------------------
(* Every operation keeps this, and edits do what PayoffTable promises.     *)

LEMMA PayoffsWithPlayer ==
  ASSUME NEW g, Sound(g), NEW label \in Label, NEW h, h = NewPlayer(g, label)
  PROVE  Payoffs(h) = [p \in ProfilesOver(Labels(h)) |->
                        Payoffs(g)[SubSeq(p, 1, Len(g.strategies))]]
<1> DEFINE P == ProfilesOver(Labels(h))
           n == Len(g.strategies)
<1>1. /\ Sound(h)
      /\ \A q \in Profiles(h) :
           /\ SubSeq(q, 1, n) \in Profiles(g)
           /\ GetPayoff(h, q) = GetPayoff(g, SubSeq(q, 1, n))
           /\ SubSeq(Named(h, q), 1, n) = Named(g, SubSeq(q, 1, n))
  BY NewPlayerFacts
<1>2. Playable(g) /\ WellLabelled(g) /\ Playable(h) /\ WellLabelled(h)
  BY <1>1 DEF Sound
<1>3. Payoffs(h) = [p \in P |-> Payoffs(h)[p]]
  BY <1>2, PayoffsAre
<1> HIDE DEF n
<1>4. ASSUME NEW p \in P PROVE Payoffs(h)[p] = Payoffs(g)[SubSeq(p, 1, n)]
  <2>1. PICK q \in Profiles(h) : Named(h, q) = p
    BY <1>2, NamedFacts
  <2>2. Payoffs(h)[p] = GetPayoff(h, q)
    BY <1>2, <2>1, PayoffsAre
  <2> DEFINE r == SubSeq(q, 1, n)
  <2>3. r \in Profiles(g) /\ GetPayoff(h, q) = GetPayoff(g, r) /\ SubSeq(p, 1, n) = Named(g, r)
    BY <1>1, <2>1
  <2> HIDE DEF r
  <2>4. Payoffs(g)[Named(g, r)] = GetPayoff(g, r)
    BY <1>2, <2>3, PayoffsAre
  <2> QED BY <2>2, <2>3, <2>4
<1> HIDE DEF P
<1> QED BY <1>3, <1>4 DEF P, n

LEMMA PlayerAdded ==
  ASSUME DocumentInv, DoNewPlayer
  PROVE  DocumentInv' /\ PT!AddPlayer
<1> DEFINE h == NewPlayer(game, 1)
           n == Len(game.strategies)
<1>1. ListsInv /\ TableInv /\ Sound(game) /\ shown = Shown(game) /\ Playable(game)
  BY DEF DocumentInv, ListsInv, Sound
<1>2. UpdateViews(h, TRUE) /\ since' = since \cup {"NewPlayer"}
  BY DEF DoNewPlayer
<1>3. 1 \in Label
  BY LabelIsNat
<1>4. /\ Sound(h) /\ Labels(h) = Append(Labels(game), <<1>>)
      /\ DenselyPlaced(game) => DenselyPlaced(h)
      /\ Payoffs(h) = [p \in ProfilesOver(Labels(h)) |-> Payoffs(game)[SubSeq(p, 1, n)]]
  BY <1>1, <1>3, NewPlayerFacts, PayoffsWithPlayer
<1> HIDE DEF h
<1>5. ListsInv' /\ game' = h /\ shown' = Shown(h)
  BY <1>1, <1>2, <1>4, ViewsUpdated
<1>6. TableInv'
  BY <1>1, <1>2, <1>4, <1>5 DEF TableInv
<1>7. PT!Combinations(Labels(h)) = ProfilesOver(Labels(h))
  BY <1>4, CombinationsAre DEF Sound
<1>8. shown.labels = Labels(game) /\ shown.payoffs = Payoffs(game)
      /\ shown'.labels = Labels(h) /\ shown'.payoffs = Payoffs(h)
  BY <1>1, <1>4, <1>5, ShownIsView
<1>9. Len(shown.labels) = n
  BY <1>1, <1>8, LabelsAre
<1>10. PT!AddPlayer
  <2>1. shown'.labels = Append(shown.labels, <<1>>)
    BY <1>4, <1>8
  <2>2. shown'.payoffs = [p \in PT!Combinations(shown'.labels) |-> shown.payoffs[SubSeq(p, 1, Len(shown.labels))]]
    BY <1>4, <1>7, <1>8, <1>9
  <2>3. 1 \in 1..(MaxStrategies + 1)
    BY <1>3 DEF Label
  <2> QED BY <2>1, <2>2, <2>3 DEF PT!AddPlayer
<1> QED BY <1>5, <1>6, <1>10 DEF DocumentInv

LEMMA StrategyAdded ==
  ASSUME DocumentInv, NEW pl \in DOMAIN game.strategies, DoNewStrategy(pl)
  PROVE  DocumentInv' /\ PT!EditTable
<1> DEFINE label == FreshLabel(pl)
           h == NewStrategy(game, pl, label)
           n == Len(game.strategies)
<1>1. ListsInv /\ TableInv /\ Sound(game) /\ shown = Shown(game) /\ Playable(game)
      /\ pl \in 1..n /\ DOMAIN Labels(game) = 1..n
  BY PlayableFacts, LabelsAre DEF DocumentInv, ListsInv, Sound
<1>2. UpdateViews(h, TRUE) /\ since' = {} /\ Len(game.strategies[pl]) < MaxStrategies
  BY DEF DoNewStrategy
<1>3. label \in Label /\ label \notin ToSet(Labels(game)[pl])
  <2> DEFINE s == Labels(game)[pl]
             m == Len(game.strategies[pl])
  <2>1. s \in Seq(Nat) /\ Len(s) = m /\ m \in Nat
    <3>1. Labels(game) \in Seq(Seq(Nat)) /\ Len(s) = m /\ Len(Labels(game)) = n
      BY <1>1, LabelsAre
    <3>2. m \in Nat
      BY <1>1, ListOf
    <3> QED BY <1>1, <3>1, <3>2
  <2>2. \E l \in 1..(m + 1) : l \notin ToSet(s)
    <3> HIDE DEF s, m
    <3> QED BY <2>1, LabelIsLeft
  <2>3. label = CHOOSE l \in 1..(m + 1) : l \notin ToSet(s)
    BY DEF FreshLabel
  <2> HIDE DEF s, label
  <2>4. label \in 1..(m + 1) /\ label \notin ToSet(s)
    BY <2>2, <2>3
  <2>5. label \in Label
    BY <1>2, <2>1, <2>4, DocumentAssumption DEF Label
  <2> QED BY <2>4, <2>5 DEF s
<1> HIDE DEF label
<1>4. /\ Sound(h) /\ DenselyPlaced(h) /\ InTurn(h)
      /\ Labels(h) = [Labels(game) EXCEPT ![pl] = Append(@, label)]
      /\ Payoffs(h) = [p \in ProfilesOver(Labels(h)) |->
                        IF p[pl] = label THEN NoPayoff ELSE Payoffs(game)[p]]
  <2>1. pl \in 1..Len(game.strategies)
    BY <1>1
  <2> HIDE DEF h
  <2>2. h = NewStrategy(game, pl, label)
    BY DEF h
  <2>3. /\ Sound(h) /\ DenselyPlaced(h) /\ InTurn(h)
        /\ Labels(h) = [Labels(game) EXCEPT ![pl] = Append(@, label)]
    BY <1>1, <1>3, <2>1, <2>2, NewStrategyFacts
  <2>4. Payoffs(h) = [p \in ProfilesOver(Labels(h)) |->
                       IF p[pl] = label THEN NoPayoff ELSE Payoffs(game)[p]]
    BY <1>1, <1>3, <2>1, <2>2, PayoffsWithNew
  <2> QED BY <2>3, <2>4
<1> HIDE DEF h
<1>5. ListsInv' /\ game' = h /\ shown' = Shown(h)
  BY <1>1, <1>2, <1>4, ViewsUpdated
<1>6. TableInv'
  BY <1>2, <1>4, <1>5 DEF TableInv
<1>7. PT!Combinations(Labels(h)) = ProfilesOver(Labels(h))
  BY <1>4, CombinationsAre DEF Sound
<1>8. shown.labels = Labels(game) /\ shown.payoffs = Payoffs(game)
      /\ shown'.labels = Labels(h) /\ shown'.payoffs = Payoffs(h)
  BY <1>1, <1>4, <1>5, ShownIsView
<1>9. PT!AddStrategy(pl)
  <2>1. label \in 1..(MaxStrategies + 1) \ PT!ToSet(shown.labels[pl])
    <3>1. PT!ToSet(shown.labels[pl]) = ToSet(shown.labels[pl])
      BY DEF PT!ToSet, ToSet
    <3> QED BY <1>3, <1>8, <3>1 DEF Label
  <2>2. shown'.labels = [shown.labels EXCEPT ![pl] = Append(@, label)]
    BY <1>4, <1>8
  <2>3. shown'.payoffs = [p \in PT!Combinations(shown'.labels) |->
                           IF p[pl] = label THEN NoPayoff ELSE shown.payoffs[p]]
    BY <1>4, <1>7, <1>8
  <2> QED BY <2>1, <2>2, <2>3 DEF PT!AddStrategy
<1>10. PT!EditTable
  <2>1. pl \in DOMAIN shown.labels
    BY <1>1, <1>8
  <2> QED BY <1>9, <2>1 DEF PT!EditTable
<1> QED BY <1>5, <1>6, <1>10 DEF DocumentInv

LEMMA StrategyDeleted ==
  ASSUME DocumentInv, NEW pl \in DOMAIN game.strategies, NEW st \in DOMAIN game.strategies[pl],
         DoDeleteStrategy(pl, st)
  PROVE  DocumentInv' /\ (PT!EditTable \/ UNCHANGED shown)
<1> DEFINE h == DeleteStrategy(game, pl, st)
           n == Len(game.strategies)
           m == Len(game.strategies[pl])
<1>1. /\ ListsInv /\ TableInv /\ Sound(game) /\ shown = Shown(game) /\ Playable(game) /\ WellLabelled(game)
      /\ pl \in 1..n /\ DOMAIN Labels(game) = 1..n
  BY PlayableFacts, LabelsAre DEF DocumentInv, ListsInv, Sound
<1>2. UpdateViews(h, TRUE) /\ since' = since \cup {"DeleteStrategy"}
  BY DEF DoDeleteStrategy
<1>3. st \in 1..m /\ Len(Labels(game)[pl]) = m /\ DOMAIN Labels(game)[pl] = 1..m
  <2>1. pl \in 1..Len(game.strategies)
    BY <1>1
  <2>2. st \in 1..m
    <3>1. DOMAIN game.strategies[pl] = 1..m
      BY <1>1, <2>1, ListOf
    <3> QED BY <3>1
  <2>3. Len(Labels(game)[pl]) = m /\ DOMAIN Labels(game)[pl] = 1..m
    BY <1>1, <2>1, LabelsAre
  <2> QED BY <2>2, <2>3
<1>4. CASE m = 1
  <2>1. h = game
    BY <1>4 DEF DeleteStrategy
  <2>2. ListsInv' /\ game' = h /\ shown' = Shown(h)
    BY <1>1, <1>2, <2>1, ViewsUpdated
  <2>3. TableInv'
    BY <1>2 DEF TableInv
  <2> QED BY <1>1, <2>1, <2>2, <2>3 DEF DocumentInv
<1>5. CASE m # 1
  <2>1. /\ Sound(h) /\ m > 1
        /\ Labels(h) = [Labels(game) EXCEPT ![pl] = RemoveAt(@, st)]
        /\ PartOf(h, game)
    <3>1. pl \in 1..Len(game.strategies) /\ Len(game.strategies[pl]) # 1
          /\ st \in 1..Len(game.strategies[pl])
      BY <1>1, <1>3, <1>5
    <3> HIDE DEF h
    <3>2. h = DeleteStrategy(game, pl, st)
      BY DEF h
    <3> HIDE DEF m, n
    <3>3. Sound(game)
      BY <1>1
    <3>4. \A x : x = DeleteStrategy(game, pl, st) =>
            /\ Sound(x) /\ Len(game.strategies[pl]) > 1
            /\ Labels(x) = [Labels(game) EXCEPT ![pl] = RemoveAt(@, st)]
            /\ PartOf(x, game)
      BY <3>1, <3>3, DeletedFacts
    <3> QED BY <3>2, <3>4 DEF m
  <2> HIDE DEF h
  <2>2. Payoffs(h) = [p \in ProfilesOver(Labels(h)) |-> Payoffs(game)[p]]
    BY <1>1, <2>1, PayoffsFrom DEF Sound
  <2>3. ListsInv' /\ game' = h /\ shown' = Shown(h)
    BY <1>1, <1>2, <2>1, ViewsUpdated
  <2>4. TableInv'
    BY <1>2 DEF TableInv
  <2>5. PT!Combinations(Labels(h)) = ProfilesOver(Labels(h))
    BY <2>1, CombinationsAre DEF Sound
  <2>6. shown.labels = Labels(game) /\ shown.payoffs = Payoffs(game)
        /\ shown'.labels = Labels(h) /\ shown'.payoffs = Payoffs(h)
    BY <1>1, <2>1, <2>3, ShownIsView
  <2>7. PT!DropStrategy(pl, st)
    <3>1. Len(shown.labels[pl]) > 1
      BY <1>3, <2>1, <2>6
    <3>2. \A s, i : PT!RemoveAt(s, i) = RemoveAt(s, i)
      BY DEF PT!RemoveAt, RemoveAt
    <3>3. shown'.labels = [shown.labels EXCEPT ![pl] = PT!RemoveAt(@, st)]
      BY <2>1, <2>6, <3>2
    <3>4. shown'.payoffs = [p \in PT!Combinations(shown'.labels) |-> shown.payoffs[p]]
      BY <2>2, <2>5, <2>6
    <3> QED BY <3>1, <3>3, <3>4 DEF PT!DropStrategy
  <2>8. PT!EditTable
    <3>1. pl \in DOMAIN shown.labels /\ st \in DOMAIN shown.labels[pl]
      BY <1>1, <1>3, <2>6
    <3> QED BY <2>7, <3>1 DEF PT!EditTable
  <2> QED BY <2>3, <2>4, <2>8 DEF DocumentInv
<1> QED BY <1>4, <1>5

LEMMA CellsAreProfiles ==
  ASSUME Playable(game), NEW profile \in Cells
  PROVE  profile \in Profiles(game)
<1> DEFINE n == Len(game.strategies)
<1>1. n \in Nat /\ DOMAIN game.strategies = 1..n /\ \A pl \in 1..n : Len(game.strategies[pl]) \in Nat
  BY PlayableFacts
<1>2. profile \in [1..n -> 1..MaxStrategies] /\ \A pl \in 1..n : profile[pl] <= Len(game.strategies[pl])
  BY <1>1 DEF Cells
<1>3. \A pl \in 1..n : profile[pl] \in Nat \ {0} /\ profile[pl] \in 1..Len(game.strategies[pl])
  <2> SUFFICES ASSUME NEW pl \in 1..n
               PROVE  profile[pl] \in Nat \ {0} /\ profile[pl] \in 1..Len(game.strategies[pl])
    OBVIOUS
  <2>1. profile[pl] \in 1..MaxStrategies /\ profile[pl] <= Len(game.strategies[pl])
        /\ Len(game.strategies[pl]) \in Nat /\ MaxStrategies \in Nat
    BY <1>1, <1>2, DocumentAssumption
  <2> QED BY <2>1
<1>4. profile \in [1..n -> Nat \ {0}]
  <2> HIDE DEF n
  <2> QED BY <1>2, <1>3
<1> QED BY <1>3, <1>4, ProfilesAre

LEMMA PayoffTyped ==
  ASSUME NEW v \in NewPayoffs, NEW name, name \in DOMAIN shown.payoffs,
         shown'.labels = shown.labels, shown'.payoffs = [shown.payoffs EXCEPT ![name] = v]
  PROVE  PT!EditTable
<1>1. v \in AllPayoffs
  BY DEF AllPayoffs
<1>2. PT!ChangePayoff(name)
  BY <1>1 DEF PT!ChangePayoff
<1> QED BY <1>2 DEF PT!EditTable

LEMMA PayoffSet ==
  ASSUME DocumentInv, NEW profile \in Cells, DoSetPayoff(profile)
  PROVE  DocumentInv' /\ PT!EditTable
<1>1. /\ ListsInv /\ TableInv /\ Sound(game) /\ shown = Shown(game) /\ Playable(game)
  BY DEF DocumentInv, ListsInv, Sound
<1>2. profile \in Profiles(game)
  BY <1>1, CellsAreProfiles
<1> DEFINE o == game.results[Index(game, profile)]
<1>3. PICK v \in NewPayoffs : UpdateViews(SetPayoff(game, o, v), TRUE)
  BY DEF DoSetPayoff
<1>4. o # Null /\ since' = since /\ v \in Nat
  BY DocumentAssumption DEF DoSetPayoff
<1> DEFINE h == SetPayoff(game, o, v)
           name == Named(game, profile)
<1> HIDE DEF h, name
<1>5. /\ Sound(h) /\ Labels(h) = Labels(game)
      /\ DenselyPlaced(h) <=> DenselyPlaced(game)
      /\ InTurn(h) <=> InTurn(game)
      /\ Payoffs(h) = [Payoffs(game) EXCEPT ![name] = v]
      /\ name \in DOMAIN Payoffs(game)
  <2>1. h = SetPayoff(game, game.results[Index(game, profile)], v)
    BY DEF h
  <2> QED BY <1>1, <1>2, <1>4, <2>1, SetPayoffFacts DEF name
<1>6. ListsInv' /\ game' = h /\ shown' = Shown(h)
  BY <1>1, <1>3, <1>5, ViewsUpdated DEF h
<1>7. TableInv'
  BY <1>1, <1>4, <1>5, <1>6 DEF TableInv
<1>8. shown.labels = Labels(game) /\ shown.payoffs = Payoffs(game)
      /\ shown'.labels = Labels(h) /\ shown'.payoffs = Payoffs(h)
  BY <1>1, <1>5, <1>6, ShownIsView
<1>9. PT!EditTable
  BY <1>5, <1>8, PayoffTyped
<1> QED BY <1>6, <1>7, <1>9 DEF DocumentInv

LEMMA TwoAppended ==
  ASSUME NEW T, NEW s \in Seq(T), NEW a \in T, NEW b \in T
  PROVE  s \o <<a, b>> = Append(Append(s, a), b)
OBVIOUS

LEMMA OutcomeMade ==
  ASSUME DocumentInv, NEW profile \in Cells, DoNewOutcome(profile)
  PROVE  DocumentInv' /\ PT!EditTable
<1>1. /\ ListsInv /\ TableInv /\ Sound(game) /\ shown = Shown(game) /\ Playable(game)
      /\ profiles \in Seq(Lists) /\ undoList \in Seq(Kept) /\ UndoExplained(undoList)
      /\ Explained(profiles, shown, ToSet(undoList))
  BY DEF DocumentInv, ListsInv, Sound
<1>2. profile \in Profiles(game)
  BY <1>1, CellsAreProfiles
<1> DEFINE made == NewOutcome(game)
           outcome == Len(made.outcomes)
           placed == SetOutcome(made, profile, outcome)
           h(v) == SetPayoff(placed, outcome, v)
<1>3. PICK v \in NewPayoffs :
        /\ game' = h(v) /\ shown' = Shown(game')
        /\ undoList' = undoList \o <<SaveDocument(placed, profiles, Shown(placed), TRUE),
                                     SaveDocument(game', <<>>, shown', TRUE)>>
  BY DEF DoNewOutcome
<1>4. /\ game.results[Index(game, profile)] = Null /\ v \in Nat
      /\ redoList' = <<>> /\ profiles' = <<>> /\ reloaded' = FALSE /\ since' = since
  BY DocumentAssumption DEF DoNewOutcome
<1>5. /\ Sound(placed) /\ Shown(placed) = Shown(game)
      /\ DenselyPlaced(placed) <=> DenselyPlaced(game)
      /\ InTurn(placed) <=> InTurn(game)
      /\ profile \in Profiles(placed)
      /\ placed.results[Index(placed, profile)] = outcome
      /\ placed.results[Index(placed, profile)] # Null
  BY <1>1, <1>2, <1>4, NewOutcomeFacts
<1> DEFINE g == h(v)
           name == Named(placed, profile)
<1>6. g = SetPayoff(placed, placed.results[Index(placed, profile)], v)
  BY <1>5
<1> HIDE DEF placed, g, name
<1>7. /\ Sound(g) /\ Labels(g) = Labels(placed)
      /\ DenselyPlaced(g) <=> DenselyPlaced(placed)
      /\ InTurn(g) <=> InTurn(placed)
      /\ Payoffs(g) = [Payoffs(placed) EXCEPT ![name] = v]
      /\ name \in DOMAIN Payoffs(placed)
  BY <1>4, <1>5, <1>6, SetPayoffFacts DEF name
<1> DEFINE first == SaveDocument(placed, profiles, Shown(placed), TRUE)
           second == SaveDocument(g, <<>>, Shown(g), TRUE)
<1>8. game' = g /\ shown' = Shown(g) /\ undoList' = undoList \o <<first, second>>
  BY <1>3 DEF g
<1> HIDE DEF first, second
<1>9. first \in Kept /\ first.profiles = profiles /\ first.saw = shown /\ first.edit = TRUE
  <2> DEFINE yes == TRUE
             saw == Shown(placed)
  <2>1. yes \in BOOLEAN /\ first = SaveDocument(placed, profiles, Shown(placed), yes)
    BY DEF first
  <2> HIDE DEF yes
  <2>2. first \in Kept /\ first.profiles = profiles /\ first.saw = saw /\ first.edit = yes
    BY <1>1, <1>5, <2>1, SavedFacts
  <2>3. saw = shown
    BY <1>1, <1>5
  <2> QED BY <2>2, <2>3 DEF yes
<1>10. second \in Kept /\ second.profiles = <<>> /\ second.saw = Shown(g)
  <2> DEFINE none == <<>>
             yes == TRUE
  <2>1. none \in Seq(Lists) /\ yes \in BOOLEAN
    OBVIOUS
  <2>2. second = SaveDocument(g, none, Shown(g), yes)
    BY DEF second
  <2> HIDE DEF none, yes
  <2>3. second \in Kept /\ second.profiles = none /\ second.saw = Shown(g)
    BY <1>7, <2>1, <2>2, SavedFacts
  <2> QED BY <2>3 DEF none
<1> DEFINE u == Append(undoList, first)
           w == Append(u, second)
<1>11. u \in Seq(Kept) /\ UndoExplained(u) /\ Len(u) \in Nat
  <2>1. Explained(first.profiles, first.saw, ToSet(undoList) \cup {first})
    <3>1. ToSet(undoList) \subseteq ToSet(undoList) \cup {first}
      OBVIOUS
    <3> QED BY <1>1, <1>9, <3>1, MoreTexts
  <2>2. UndoExplained(u)
    BY <1>1, <1>9, <2>1, TextWritten
  <2>3. u \in Seq(Kept) /\ Len(undoList) \in Nat /\ Len(u) = Len(undoList) + 1
    BY <1>1, <1>9, AppendedList
  <2> QED BY <2>2, <2>3
<1> HIDE DEF u
<1>12. w \in Seq(Kept) /\ UndoExplained(w) /\ Len(w) >= 1 /\ Last(w) = second
  <2>1. w \in Seq(Kept) /\ Len(w) = Len(u) + 1 /\ Last(w) = second
    BY <1>10, <1>11, AppendedList
  <2>2. UndoExplained(w)
    BY <1>10, <1>11, NothingListed, TextWritten
  <2> QED BY <1>11, <2>1, <2>2
<1>13. undoList' = w
  BY <1>1, <1>8, <1>9, <1>10, TwoAppended DEF u
<1> HIDE DEF w
<1>14. ListsInv'
  <2>1. ShownIsLastSaved'
    BY <1>8, <1>10, <1>12, <1>13 DEF ShownIsLastSaved
  <2>2. Explained(profiles', shown', ToSet(undoList'))
    BY <1>4, NothingListed
  <2>3. redoList' \in Seq(Kept) /\ profiles' \in Seq(Lists) /\ RedoExplained(redoList', undoList')
    BY <1>4, NothingRedone
  <2> QED BY <1>7, <1>8, <1>12, <1>13, <2>1, <2>2, <2>3 DEF ListsInv
<1>15. TableInv'
  BY <1>1, <1>4, <1>5, <1>7, <1>8 DEF TableInv
<1>16. PT!EditTable
  <2>1. Shown(placed).labels = Labels(placed) /\ Shown(placed).payoffs = Payoffs(placed)
        /\ Shown(g).labels = Labels(g) /\ Shown(g).payoffs = Payoffs(g)
    BY <1>5, <1>7, ShownIsView
  <2>2. shown = Shown(placed) /\ shown' = Shown(g)
    BY <1>1, <1>5, <1>8
  <2>3. /\ shown'.labels = shown.labels /\ name \in DOMAIN shown.payoffs
        /\ shown'.payoffs = [shown.payoffs EXCEPT ![name] = v]
    BY <1>7, <2>1, <2>2
  <2> QED BY <2>3, PayoffTyped
<1> QED BY <1>14, <1>15, <1>16 DEF DocumentInv

LEMMA Solved ==
  ASSUME DocumentInv, Solve
  PROVE  DocumentInv' /\ UNCHANGED shown
<1>1. /\ ListsInv /\ TableInv /\ Sound(game) /\ shown = Shown(game)
      /\ profiles \in Seq(Lists) /\ undoList \in Seq(Kept) /\ UndoExplained(undoList)
      /\ Explained(profiles, shown, ToSet(undoList))
  BY DEF DocumentInv, ListsInv
<1>2. PICK found \in BOOLEAN : profiles' = Append(profiles, [about |-> shown, found |-> found])
  BY DEF Solve
<1> DEFINE list(f) == [about |-> shown, found |-> f]
           saved == Append(profiles, list(FALSE))
           text == SaveDocument(game, saved, Shown(game), FALSE)
<1>3. undoList' = Append(undoList, text) /\ redoList' = <<>> /\ reloaded' = FALSE
      /\ game' = game /\ shown' = shown /\ since' = since
  BY <1>1 DEF Solve
<1>4. \A f \in BOOLEAN : list(f) \in Lists /\ list(f).about = shown
  <2>1. shown \in Views
    BY <1>1, ShownIsView
  <2> QED BY <2>1 DEF Lists
<1>5. profiles' = Append(profiles, list(found))
  BY <1>2
<1> HIDE DEF list
<1>6. ASSUME NEW f \in BOOLEAN, NEW texts, ToSet(undoList) \subseteq texts
      PROVE  Append(profiles, list(f)) \in Seq(Lists) /\ Explained(Append(profiles, list(f)), shown, texts)
  <2> DEFINE more == Append(profiles, list(f))
             m == Len(profiles)
  <2>1. list(f) \in Lists
    BY <1>4
  <2>2. more \in Seq(Lists) /\ Len(more) = m + 1 /\ m \in Nat
        /\ (\A k \in 1..m : more[k] = profiles[k]) /\ more[m + 1] = list(f)
    BY <1>1, <2>1, AppendedList
  <2> HIDE DEF more
  <2>3. DOMAIN more = 1..(m + 1) /\ DOMAIN profiles = 1..m
    BY <1>1, <2>2, ListIs
  <2>4. Explained(profiles, shown, texts)
    BY <1>1, <1>6, MoreTexts
  <2>5. \A k \in 1..(m + 1) : k \in 1..m \/ k = m + 1
    BY <2>2
  <2>6. more[m + 1].about = shown
    BY <1>4, <2>2
  <2> HIDE DEF m
  <2>7. Explained(more, shown, texts)
    BY <2>2, <2>3, <2>4, <2>5, <2>6 DEF Explained
  <2> QED BY <2>2, <2>7 DEF more
<1>7. saved \in Seq(Lists)
  <2>1. FALSE \in BOOLEAN /\ ToSet(undoList) \subseteq ToSet(undoList)
    OBVIOUS
  <2> QED BY <1>6, <2>1
<1>8. text \in Kept /\ text.profiles = saved /\ text.saw = shown
  <2> HIDE DEF saved
  <2> DEFINE no == FALSE
  <2>1. no \in BOOLEAN /\ text = SaveDocument(game, saved, Shown(game), no)
    OBVIOUS
  <2> HIDE DEF text, no
  <2> QED BY <1>1, <1>7, <2>1, SavedFacts
<1>9. ToSet(undoList) \subseteq ToSet(undoList) \cup {text}
  OBVIOUS
<1> HIDE DEF text
<1>10. Explained(saved, shown, ToSet(undoList) \cup {text})
  BY <1>6, <1>9
<1> HIDE DEF saved
<1>11. UndoExplained(undoList')
  BY <1>1, <1>3, <1>8, <1>10, TextWritten
<1>12. /\ undoList' \in Seq(Kept) /\ Len(undoList') = Len(undoList) + 1 /\ Len(undoList) \in Nat
       /\ Last(undoList') = text /\ ToSet(undoList') = ToSet(undoList) \cup {text}
  BY <1>1, <1>3, <1>8, AppendedList
<1>13. profiles' \in Seq(Lists) /\ Explained(profiles', shown', ToSet(undoList'))
  BY <1>3, <1>5, <1>6, <1>9, <1>12
<1>14. ShownIsLastSaved'
  BY <1>3, <1>8, <1>12 DEF ShownIsLastSaved
<1>15. redoList' \in Seq(Kept) /\ RedoExplained(redoList', undoList') /\ Len(undoList') >= 1
  BY <1>3, <1>12, NothingRedone
<1>16. ListsInv'
  BY <1>1, <1>3, <1>11, <1>12, <1>13, <1>14, <1>15 DEF ListsInv
<1>17. TableInv'
  BY <1>1, <1>3 DEF TableInv
<1> QED BY <1>3, <1>16, <1>17 DEF DocumentInv

LEMMA ViewChanged ==
  ASSUME DocumentInv, ChangeView
  PROVE  DocumentInv' /\ UNCHANGED shown
<1>1. ListsInv /\ TableInv /\ Sound(game) /\ shown = Shown(game)
  BY DEF DocumentInv, ListsInv
<1> DEFINE no == FALSE
<1>2. UpdateViews(game, no) /\ since' = since /\ no \in BOOLEAN
  BY DEF ChangeView
<1> HIDE DEF no
<1>3. ListsInv' /\ game' = game /\ shown' = Shown(game)
  BY <1>1, <1>2, ViewsUpdated
<1>4. TableInv'
  BY <1>1, <1>2, <1>3 DEF TableInv
<1> QED BY <1>1, <1>3, <1>4 DEF DocumentInv

LEMMA Undone ==
  ASSUME DocumentInv, Undo
  PROVE  DocumentInv'
<1>1. /\ undoList \in Seq(Kept) /\ redoList \in Seq(Kept)
      /\ UndoExplained(undoList) /\ RedoExplained(redoList, undoList)
  BY DEF DocumentInv, ListsInv
<1> DEFINE text == Last(undoList')
           u == Front(undoList)
           r == Append(redoList, Last(undoList))
<1>2. Len(undoList) > 1 /\ redoList' = r /\ undoList' = u /\ Load(text)
  BY DEF Undo
<1> HIDE DEF text
<1>3. Len(undoList) \in Nat /\ Len(undoList) >= 1
  <2>1. Len(undoList) \in Nat
    BY <1>1, ListIs
  <2> QED BY <1>2, <2>1
<1>4. u \in Seq(Kept) /\ Len(u) = Len(undoList) - 1 /\ Last(undoList) \in Kept
  BY <1>1, <1>3, EndOfList
<1>5. UndoExplained(u) /\ RedoExplained(r, u)
  BY <1>1, <1>2, TextTakenBack
<1>6. r \in Seq(Kept)
  BY <1>1, <1>4, AppendedList
<1> HIDE DEF u, r
<1>7. Len(u) >= 1
  BY <1>2, <1>3, <1>4
<1>8. text \in Kept /\ text = Last(u)
  <2>1. Last(u) \in Kept
    BY <1>4, <1>7, EndOfList
  <2> QED BY <1>2, <2>1 DEF text
<1> QED BY <1>2, <1>4, <1>5, <1>6, <1>7, <1>8, Loaded

LEMMA Redone ==
  ASSUME DocumentInv, Redo
  PROVE  DocumentInv'
<1>1. /\ undoList \in Seq(Kept) /\ redoList \in Seq(Kept)
      /\ UndoExplained(undoList) /\ RedoExplained(redoList, undoList)
  BY DEF DocumentInv, ListsInv
<1> DEFINE text == Last(undoList')
           u == Append(undoList, Last(redoList))
           r == Front(redoList)
<1>2. redoList # <<>> /\ redoList' = r /\ undoList' = u /\ Load(text)
  BY DEF Redo
<1> HIDE DEF text
<1>3. Last(redoList) \in Kept /\ r \in Seq(Kept) /\ UndoExplained(u) /\ RedoExplained(r, u)
  BY <1>1, <1>2, TextRestored
<1>4. u \in Seq(Kept) /\ Len(u) = Len(undoList) + 1 /\ Len(undoList) \in Nat
      /\ Last(u) = Last(redoList)
  BY <1>1, <1>3, AppendedList
<1> HIDE DEF u, r
<1>5. Len(u) >= 1 /\ text \in Kept /\ text = Last(u)
  BY <1>2, <1>3, <1>4 DEF text
<1> QED BY <1>2, <1>3, <1>4, <1>5, Loaded

LEMMA NothingChanged ==
  ASSUME DocumentInv, UNCHANGED vars
  PROVE  DocumentInv' /\ UNCHANGED shown
<1>1. /\ game' = game /\ profiles' = profiles /\ undoList' = undoList /\ redoList' = redoList
      /\ shown' = shown /\ reloaded' = reloaded /\ since' = since
  BY DEF vars
<1>2. TableInv'
  BY <1>1 DEF DocumentInv, TableInv
<1>3. ListsInv'
  BY <1>1 DEF DocumentInv, ListsInv, ShownIsLastSaved
<1> QED BY <1>1, <1>2, <1>3 DEF DocumentInv

LEMMA DocumentStep ==
  ASSUME DocumentInv, [Next]_vars
  PROVE  DocumentInv' /\ (Undo \/ Redo \/ PT!EditTable \/ UNCHANGED shown)
<1>1. CASE DoNewPlayer
  <2>1. DocumentInv' /\ PT!AddPlayer
    BY <1>1, PlayerAdded
  <2>2. PT!EditTable
    BY <2>1 DEF PT!EditTable
  <2> QED BY <2>1, <2>2
<1>2. ASSUME NEW pl \in DOMAIN game.strategies, DoNewStrategy(pl)
      PROVE  DocumentInv' /\ PT!EditTable
  BY <1>2, StrategyAdded
<1>3. ASSUME NEW pl \in DOMAIN game.strategies, NEW st \in DOMAIN game.strategies[pl],
             DoDeleteStrategy(pl, st)
      PROVE  DocumentInv' /\ (PT!EditTable \/ UNCHANGED shown)
  BY <1>3, StrategyDeleted
<1>4. ASSUME NEW profile \in Cells, DoSetPayoff(profile)
      PROVE  DocumentInv' /\ PT!EditTable
  BY <1>4, PayoffSet
<1>5. ASSUME NEW profile \in Cells, DoNewOutcome(profile)
      PROVE  DocumentInv' /\ PT!EditTable
  BY <1>5, OutcomeMade
<1>6. CASE Solve
  BY <1>6, Solved
<1>7. CASE ChangeView
  BY <1>7, ViewChanged
<1>8. CASE Undo
  BY <1>8, Undone
<1>9. CASE Redo
  BY <1>9, Redone
<1>10. CASE UNCHANGED vars
  BY <1>10, NothingChanged
<1> QED BY <1>1, <1>2, <1>3, <1>4, <1>5, <1>6, <1>7, <1>8, <1>9, <1>10 DEF Next

(* In every state of the document the offsets of each profile lead to an   *)
(* entry of its own, no two entries share an outcome, every text of the    *)
(* undo and redo lists can be read and, if it was written from a dense     *)
(* table, gives back what was shown, and every list of equilibria in it    *)
(* that is of another game is explained by it or by the texts next to it.  *)
THEOREM DocumentInvariance == Spec => []DocumentInv
<1>1. Init => DocumentInv
  BY InitDocument
<1>2. DocumentInv /\ [Next]_vars => DocumentInv'
  BY DocumentStep
<1> QED BY <1>1, <1>2, PTL DEF Spec

(* What is shown is what was shown when the last text of the undo list was *)
(* written, however far the user went back and forth (gamedoc.cc, Undo and *)
(* Redo), unless it was written from a table with gaps.                    *)
THEOREM UndoShowsWhatWasSaved == Spec => []ShownIsLastSaved
<1>1. DocumentInv => ShownIsLastSaved
  BY DEF DocumentInv, ListsInv
<1> QED BY <1>1, DocumentInvariance, PTL

LEMMA OrderedTable == DocumentInv => TableInOrder
<1> SUFFICES ASSUME DocumentInv PROVE TableInOrder
  OBVIOUS
<1>1. TableInv /\ Sound(game) /\ shown = Shown(game) /\ Playable(game)
  BY DEF DocumentInv, ListsInv, Sound
<1>2. "DeleteStrategy" \notin since => Shown(ReadNfgFile(WriteNfgFile(game))) = shown
  BY <1>1, ReadsBack DEF TableInv
<1>3. since = {} => Numbered(game)
  BY <1>1, DenseIs DEF TableInv
<1> QED BY <1>2, <1>3 DEF TableInOrder

(* A table from which no strategy was deleted is written to a file as the  *)
(* game shown, and the numbers of its strategies count through all players *)
(* unless a player was added (gametable.cc, file.cc).                      *)
THEOREM FilesOfTablesInOrder == Spec => []TableInOrder
BY OrderedTable, DocumentInvariance, PTL

(* Where equilibria of another game come from: every list that is not of   *)
(* the game shown was brought back by an undo or redo from the text of the *)
(* edit that discarded it, and is still in the undo list there, or a text  *)
(* of the undo list does not give back its game.                           *)
THEOREM StaleEquilibriaComeFromTexts ==
  Spec => []Explained(profiles, shown, ToSet(undoList))
<1>1. DocumentInv => Explained(profiles, shown, ToSet(undoList))
  BY DEF DocumentInv, ListsInv
<1> QED BY <1>1, DocumentInvariance, PTL

(* Every edit of a table changes what it says as PayoffTable promises:     *)
(* whatever was added and deleted before, offsets lead to the right entry, *)
(* and rebuilding the table moves every entry to its new place.            *)
THEOREM EditsAreThoseOfATable == Spec => EditsImplementTable
<1>1. DocumentInv /\ [Next]_vars => [Undo \/ Redo \/ PT!EditTable]_(PT!table)
  <2>1. UNCHANGED shown => UNCHANGED PT!table
    BY DEF PT!table
  <2> QED BY <2>1, DocumentStep
<1> QED BY <1>1, DocumentInvariance, PTL DEF Spec, EditsImplementTable
=============================================================================
