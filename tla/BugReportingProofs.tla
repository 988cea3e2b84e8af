------------------------- MODULE BugReportingProofs -------------------------
(***************************************************************************)
(* What holds of BugReporting for every team, set of reporters, strategy,  *)
(* duration and bound: every variable keeps its type, and the inductive    *)
(* invariant, by which no report is lost or resumed twice, no unit of a    *)
(* resource is lost or invented, nobody waits while a unit is free, and    *)
(* the developers' queue stays in priority order.                          *)
(***************************************************************************)
EXTENDS BugReporting, FiniteSetTheorems, TLAPS

-----------------------------------------------------------------------------
(* What SimPy's operations do to a queue and a resource, for every queue,  *)
(* item and priority: the facts the invariants rest on.                    *)

(* A process enters the queue at one of its places, the last one included. *)
LEMMA AheadIsAPrefixLength ==
  ASSUME NEW S, NEW q \in Seq(S), NEW item, NEW key
  PROVE  /\ IsFiniteSet(Ahead(q, item, key))
         /\ Cardinality(Ahead(q, item, key)) \in 0..Len(q)
<1>1. /\ IsFiniteSet(1..Len(q)) /\ Cardinality(1..Len(q)) = Len(q)
  <2>1. Len(q) \in Nat /\ 1 \in Int /\ Len(q) \in Int
    OBVIOUS
  <2>2. IsFiniteSet(1..Len(q)) /\ Cardinality(1..Len(q)) = IF 1 > Len(q) THEN 0 ELSE Len(q) - 1 + 1
    BY ONLY <2>1, FS_Interval
  <2>3. QED
    BY <2>1, <2>2
<1>2. Ahead(q, item, key) \subseteq 1..Len(q)
  BY DEF Ahead
<1>3. QED
  BY <1>1, <1>2, FS_Subset, FS_CardinalityType

(* What Enter returns, place by place.                                     *)
LEMMA EnterShape ==
  ASSUME NEW S, NEW q \in Seq(S), NEW item \in S, NEW key
  PROVE  LET p == Cardinality(Ahead(q, item, key)) + 1
         IN /\ p \in 1..(Len(q) + 1)
            /\ Enter(q, item, key) =
                 [j \in 1..(Len(q) + 1) |-> IF j < p THEN q[j] ELSE IF j = p THEN item ELSE q[j - 1]]
<1> DEFINE e == Enter(q, item, key)
           p == Cardinality(Ahead(q, item, key)) + 1
<1>1. p \in 1..(Len(q) + 1)
  BY AheadIsAPrefixLength
<1>2. e = [j \in 1..(Len(q) + 1) |-> IF j < p THEN q[j] ELSE IF j = p THEN item ELSE q[j - 1]]
  <2> DEFINE front == SubSeq(q, 1, p - 1)
             back == SubSeq(q, p, Len(q))
  <2> HIDE DEF p
  <2>1. /\ front \in Seq(S) /\ Len(front) = p - 1 /\ \A j \in 1..(p - 1) : front[j] = q[j]
    BY <1>1
  <2>2. /\ back \in Seq(S) /\ Len(back) = Len(q) + 1 - p
        /\ \A j \in 1..(Len(q) + 1 - p) : back[j] = q[p + j - 1]
    BY <1>1
  <2> DEFINE first == front \o <<item>>
  <2>3. e = first \o back
    BY DEF Enter, InsertAt, p
  <2>4. /\ first \in Seq(S) /\ Len(first) = p
        /\ \A j \in 1..p : first[j] = IF j < p THEN q[j] ELSE item
    <3> HIDE DEF front
    <3>1. QED
      BY <1>1, <2>1
  <2> HIDE DEF first, back, e
  <2>5. /\ e \in Seq(S) /\ Len(e) = Len(q) + 1 /\ DOMAIN e = 1..(Len(q) + 1)
        /\ \A j \in 1..p : e[j] = first[j]
        /\ \A j \in 1..(Len(q) + 1 - p) : e[p + j] = back[j]
    BY <1>1, <2>2, <2>3, <2>4
  <2>6. ASSUME NEW j \in 1..(Len(q) + 1)
        PROVE  e[j] = IF j < p THEN q[j] ELSE IF j = p THEN item ELSE q[j - 1]
    <3>1. CASE j <= p
      BY <3>1, <1>1, <2>4, <2>5
    <3>2. CASE j > p
      <4> DEFINE k == j - p
      <4>1. k \in 1..(Len(q) + 1 - p) /\ j = p + k /\ p + k - 1 = j - 1
        BY <3>2, <1>1
      <4>2. e[j] = back[k] /\ back[k] = q[j - 1]
        BY <4>1, <2>2, <2>5
      <4>3. QED
        BY <3>2, <4>2, <1>1
    <3>3. QED
      BY <3>1, <3>2, <1>1
  <2>7. QED
    BY <2>5, <2>6
<1>3. QED
  BY <1>1, <1>2

(* Entering adds the process to those that wait, once.                     *)
LEMMA EnterAddsItem ==
  ASSUME NEW S, NEW q \in Seq(S), NEW item \in S, NEW key
  PROVE  /\ Enter(q, item, key) \in Seq(S)
         /\ Enter(q, item, key) # << >>
         /\ Range(Enter(q, item, key)) = Range(q) \cup {item}
         /\ IsInjective(q) /\ item \notin Range(q) => IsInjective(Enter(q, item, key))
<1> DEFINE e == Enter(q, item, key)
           p == Cardinality(Ahead(q, item, key)) + 1
<1>1. p \in 1..(Len(q) + 1)
  BY EnterShape
<1>2. e = [j \in 1..(Len(q) + 1) |-> IF j < p THEN q[j] ELSE IF j = p THEN item ELSE q[j - 1]]
  BY EnterShape
<1>3. e \in Seq(S) /\ Len(e) = Len(q) + 1 /\ DOMAIN e = 1..(Len(q) + 1)
  BY <1>1, <1>2
<1>4. Range(e) = Range(q) \cup {item}
  <2>1. Range(e) \subseteq Range(q) \cup {item}
    BY <1>1, <1>2, <1>3 DEF Range
  <2>2. item \in Range(e)
    BY <1>1, <1>2, <1>3 DEF Range
  <2>3. ASSUME NEW k \in 1..Len(q) PROVE q[k] \in Range(e)
    <3>1. CASE k < p
      BY <3>1, <1>1, <1>2, <1>3 DEF Range
    <3>2. CASE k >= p
      <4>1. e[k + 1] = q[k] /\ k + 1 \in DOMAIN e
        BY <3>2, <1>1, <1>2, <1>3
      <4>2. QED
        BY <4>1 DEF Range
    <3>3. QED
      BY <3>1, <3>2, <1>1
  <2>4. Range(q) \subseteq Range(e)
    BY <2>3 DEF Range
  <2> HIDE DEF e
  <2>5. QED
    BY <2>1, <2>2, <2>4
<1>5. IsInjective(q) /\ item \notin Range(q) => IsInjective(e)
  BY <1>1, <1>2, <1>3 DEF IsInjective, Range
<1>6. QED
  BY <1>3, <1>4, <1>5

(* The processes ahead of a new one are a prefix of the queue.             *)
LEMMA AheadIsAPrefix ==
  ASSUME NEW S, NEW q \in Seq(S), NEW item, NEW key
  PROVE  Ahead(q, item, key) = 1..Cardinality(Ahead(q, item, key))
<1> DEFINE T == Ahead(q, item, key)
           c == Cardinality(T)
<1>1. IsFiniteSet(T) /\ c \in Nat
  BY AheadIsAPrefixLength
<1>2. T \subseteq 1..Len(q) /\ \A z \in T : 1..z \subseteq T
  BY DEF Ahead
<1> HIDE DEF T
<1>3. ASSUME NEW z \in T PROVE z \in 1..c
  <2>1. z \in Nat /\ z >= 1 /\ 1 \in Int /\ z \in Int
    BY <1>2
  <2>2. Cardinality(1..z) = IF 1 > z THEN 0 ELSE z - 1 + 1
    BY ONLY <2>1, FS_Interval
  <2>3. Cardinality(1..z) <= c
    BY <1>1, <1>2, FS_Subset
  <2>4. QED
    BY <2>1, <2>2, <2>3, <1>1
<1>4. IsFiniteSet(1..c) /\ Cardinality(1..c) = c
  <2>1. 1 \in Int /\ c \in Int
    BY <1>1
  <2>2. IsFiniteSet(1..c) /\ Cardinality(1..c) = IF 1 > c THEN 0 ELSE c - 1 + 1
    BY ONLY <2>1, FS_Interval
  <2>3. QED
    BY <2>2, <1>1
<1>5. T = 1..c
  BY <1>3, <1>4, FS_Subset
<1>6. QED
  BY <1>5 DEF T

(* A queue served by priority stays so when a process enters, and the      *)
(* process is served after those of its own priority that came before it.  *)
THEOREM EnterKeepsOrder ==
  ASSUME NEW S, NEW q \in Seq(S), NEW item \in S, NEW key,
         \A x \in S : key[x] \in Int, Ordered(q, key)
  PROVE  Ordered(Enter(q, item, key), key)
<1> DEFINE e == Enter(q, item, key)
           p == Cardinality(Ahead(q, item, key)) + 1
<1>1. /\ p \in 1..(Len(q) + 1)
      /\ e = [j \in 1..(Len(q) + 1) |-> IF j < p THEN q[j] ELSE IF j = p THEN item ELSE q[j - 1]]
  BY EnterShape
<1>2. Ahead(q, item, key) = 1..(p - 1)
  <2>1. Cardinality(Ahead(q, item, key)) \in Nat
    BY AheadIsAPrefixLength
  <2>2. p - 1 = Cardinality(Ahead(q, item, key))
    BY <2>1
  <2>3. QED
    BY <2>2, AheadIsAPrefix
<1> HIDE DEF p, e
<1>3. \A j \in 1..(p - 1) : key[q[j]] >= key[item]
  BY <1>1, <1>2 DEF Ahead
<1>4. \A k \in p..Len(q) : key[q[k]] <= key[item]
  <2>1. ASSUME p <= Len(q), key[q[p]] >= key[item] PROVE FALSE
    <3>1. \A j \in 1..p : key[q[j]] >= key[item]
      BY <1>1, <1>3, <2>1
    <3>2. p \in Ahead(q, item, key)
      BY <3>1, <1>1, <2>1 DEF Ahead
    <3>3. QED
      BY <3>2, <1>1, <1>2
  <2>2. ASSUME NEW k \in p..Len(q) PROVE key[q[k]] <= key[item]
    <3>1. p \in 1..Len(q) /\ k \in 1..Len(q) /\ p <= k
      BY <1>1
    <3>2. q[p] \in S /\ q[k] \in S
      BY <3>1
    <3>3. key[q[p]] >= key[q[k]]
      BY <3>1, <3>2 DEF Ordered
    <3>4. QED
      BY <2>1, <3>1, <3>2, <3>3
  <2>3. QED
    BY <2>2
<1>5. ASSUME NEW j \in 1..(Len(q) + 1), NEW k \in 1..(Len(q) + 1), j < k
      PROVE  key[e[j]] >= key[e[k]]
  <2>1. CASE k < p
    <3>1. e[j] = q[j] /\ e[k] = q[k] /\ j \in DOMAIN q /\ k \in DOMAIN q
      BY <1>1, <1>5, <2>1
    <3>2. QED
      BY <3>1, <1>5 DEF Ordered
  <2>2. CASE k = p
    <3>1. e[j] = q[j] /\ e[k] = item /\ j \in 1..(p - 1)
      BY <1>1, <1>5, <2>2
    <3>2. QED
      BY <3>1, <1>3
  <2>3. CASE k > p /\ j = p
    <3>1. e[j] = item /\ e[k] = q[k - 1] /\ k - 1 \in p..Len(q) /\ q[k - 1] \in S
      BY <1>1, <1>5, <2>3
    <3>2. QED
      BY <3>1, <1>4
  <2>4. CASE k > p /\ j < p
    <3>1. /\ e[j] = q[j] /\ e[k] = q[k - 1]
          /\ j \in DOMAIN q /\ k - 1 \in DOMAIN q /\ j < k - 1
      BY <1>1, <1>5, <2>4
    <3>2. QED
      BY <3>1 DEF Ordered
  <2>5. CASE k > p /\ j > p
    <3>1. /\ e[j] = q[j - 1] /\ e[k] = q[k - 1]
          /\ j - 1 \in DOMAIN q /\ k - 1 \in DOMAIN q /\ j - 1 < k - 1
      BY <1>1, <1>5, <2>5
    <3>2. QED
      BY <3>1 DEF Ordered
  <2>6. QED
    BY <2>1, <2>2, <2>3, <2>4, <2>5, <1>1
<1>6. QED
  BY <1>1, <1>5 DEF Ordered, e

(* Serving the head takes exactly that process out of the queue.           *)
LEMMA TailDropsHead ==
  ASSUME NEW S, NEW q \in Seq(S), q # << >>
  PROVE  /\ Tail(q) \in Seq(S)
         /\ Head(q) \in S
         /\ Head(q) \in Range(q)
         /\ IsInjective(q) => /\ IsInjective(Tail(q))
                              /\ Range(Tail(q)) = Range(q) \ {Head(q)}
<1>1. Len(q) > 0 /\ DOMAIN q = 1..Len(q) /\ Head(q) = q[1]
  OBVIOUS
<1>2. /\ Tail(q) \in Seq(S) /\ DOMAIN Tail(q) = 1..(Len(q) - 1)
      /\ \A k \in 1..(Len(q) - 1) : Tail(q)[k] = q[k + 1]
  BY <1>1
<1>3. Head(q) \in S /\ Head(q) \in Range(q)
  BY <1>1 DEF Range
<1>4. ASSUME IsInjective(q) PROVE IsInjective(Tail(q))
  BY <1>1, <1>2, <1>4 DEF IsInjective
<1>5. ASSUME IsInjective(q) PROVE Range(Tail(q)) = Range(q) \ {Head(q)}
  <2>1. ASSUME NEW k \in 2..Len(q) PROVE q[k] \in Range(Tail(q))
    <3>1. k - 1 \in DOMAIN Tail(q) /\ Tail(q)[k - 1] = q[k]
      BY <1>1, <1>2
    <3>2. QED
      BY <3>1 DEF Range
  <2>2. ASSUME NEW k \in DOMAIN Tail(q)
        PROVE  Tail(q)[k] \in Range(q) /\ Tail(q)[k] # Head(q)
    BY <1>1, <1>2, <1>5 DEF IsInjective, Range
  <2>3. QED
    BY <1>1, <2>1, <2>2 DEF Range
<1>6. QED
  BY <1>2, <1>3, <1>4, <1>5

(* Putting a process in front of others that do not include it.            *)
LEMMA ConsAddsHead ==
  ASSUME NEW S, NEW q \in Seq(S), NEW i \in S
  PROVE  /\ <<i>> \o q \in Seq(S)
         /\ <<i>> \o q # << >> /\ Head(<<i>> \o q) = i
         /\ Range(<<i>> \o q) = Range(q) \cup {i}
         /\ IsInjective(q) /\ i \notin Range(q) => IsInjective(<<i>> \o q)
<1> DEFINE c == <<i>> \o q
<1>1. /\ c \in Seq(S) /\ DOMAIN c = 1..(Len(q) + 1) /\ DOMAIN q = 1..Len(q)
      /\ c[1] = i /\ \A k \in 1..Len(q) : c[k + 1] = q[k]
      /\ Len(c) = Len(q) + 1
  OBVIOUS
<1>2. \A k \in DOMAIN c : k # 1 => c[k] = q[k - 1] /\ k - 1 \in DOMAIN q
  BY <1>1
<1>3. c # << >> /\ Head(c) = i
  BY <1>1
<1>4. Range(c) = Range(q) \cup {i}
  <2>1. Range(c) \subseteq Range(q) \cup {i}
    BY <1>1, <1>2 DEF Range
  <2>2. i \in Range(c)
    BY <1>1 DEF Range
  <2>3. ASSUME NEW k \in DOMAIN q PROVE q[k] \in Range(c)
    <3>1. k + 1 \in DOMAIN c /\ c[k + 1] = q[k]
      BY <1>1
    <3>2. QED
      BY <3>1 DEF Range
  <2>4. QED
    BY <2>1, <2>2, <2>3 DEF Range
<1>5. IsInjective(q) /\ i \notin Range(q) => IsInjective(c)
  BY <1>1, <1>2 DEF IsInjective, Range
<1>6. QED
  BY <1>1, <1>3, <1>4, <1>5

(* One group of processes in front of another, disjoint one.               *)
LEMMA ConcatHolds ==
  ASSUME NEW S, NEW p \in Seq(S), NEW q \in Seq(S), NEW P, NEW Q,
         Holds(p, P), Holds(q, Q), P \cap Q = {}
  PROVE  p \o q \in Seq(S) /\ Holds(p \o q, P \cup Q)
<1> DEFINE c == p \o q
           m == Len(p)
           n == Len(q)
<1>1. /\ c \in Seq(S) /\ m \in Nat /\ n \in Nat /\ Len(c) = m + n
      /\ DOMAIN p = 1..m /\ DOMAIN q = 1..n /\ DOMAIN c = 1..(m + n)
      /\ \A k \in 1..m : c[k] = p[k]
      /\ \A k \in 1..n : c[m + k] = q[k]
  OBVIOUS
<1> HIDE DEF c, m, n
<1>2. \A k \in DOMAIN c : k \notin DOMAIN p => k - m \in DOMAIN q /\ c[k] = q[k - m]
  <2>1. ASSUME NEW k \in 1..(m + n), k \notin 1..m
        PROVE  k - m \in 1..n /\ c[k] = q[k - m]
    <3>1. k - m \in 1..n /\ m + (k - m) = k
      BY <1>1, <2>1
    <3>2. QED
      BY <1>1, <3>1
  <2>2. QED
    BY <1>1, <2>1
<1>3. \A k \in DOMAIN p : p[k] \in P
  BY DEF Holds, Range
<1>4. \A k \in DOMAIN q : q[k] \in Q
  BY DEF Holds, Range
<1>5. ASSUME NEW j \in DOMAIN c, NEW k \in DOMAIN c, c[j] = c[k] PROVE j = k
  <2>1. CASE j \in DOMAIN p /\ k \in DOMAIN p
    BY <1>1, <1>5, <2>1 DEF Holds, IsInjective
  <2>2. CASE j \notin DOMAIN p /\ k \notin DOMAIN p
    <3>1. j - m = k - m
      BY <1>2, <1>5, <2>2 DEF Holds, IsInjective
    <3>2. QED
      BY <1>1, <3>1
  <2>3. CASE j \in DOMAIN p /\ k \notin DOMAIN p
    BY <1>1, <1>2, <1>3, <1>4, <1>5, <2>3
  <2>4. CASE j \notin DOMAIN p /\ k \in DOMAIN p
    BY <1>1, <1>2, <1>3, <1>4, <1>5, <2>4
  <2>5. QED
    BY <2>1, <2>2, <2>3, <2>4
<1>6. Range(c) \subseteq P \cup Q
  <2>1. ASSUME NEW k \in DOMAIN c PROVE c[k] \in P \cup Q
    <3>1. CASE k \in DOMAIN p
      BY <1>1, <1>3, <3>1
    <3>2. CASE k \notin DOMAIN p
      BY <1>2, <1>4, <3>2
    <3>3. QED
      BY <3>1, <3>2
  <2>2. QED
    BY <2>1 DEF Range
<1>7. P \subseteq Range(c)
  BY <1>1 DEF Holds, Range
<1>8. Q \subseteq Range(c)
  <2>1. \A k \in DOMAIN q : m + k \in DOMAIN c /\ c[m + k] = q[k]
    BY <1>1
  <2>2. QED
    BY <2>1 DEF Holds, Range
<1>9. QED
  BY <1>1, <1>5, <1>6, <1>7, <1>8 DEF Holds, IsInjective, c

LEMMA SingletonHolds ==
  ASSUME NEW S, NEW i \in S
  PROVE  <<i>> \in Seq(S) /\ Holds(<<i>>, {i})
BY DEF Holds, IsInjective, Range

(* A request keeps the resource sound: the process is then one of those    *)
(* that wait if no unit was free, one of the holders otherwise.            *)
THEOREM RequestKeepsSound ==
  ASSUME NEW S, NEW res \in [n : Nat, waitQ : Seq(S)], NEW i \in S, NEW key, NEW capacity,
         NEW holders, IsFiniteSet(holders), NEW waiting,
         Sound(res, capacity, holders, waiting), i \notin holders, i \notin waiting
  PROVE  Sound(Request(res, i, key), capacity,
               IF res.n = 0 THEN holders ELSE holders \cup {i},
               IF res.n = 0 THEN waiting \cup {i} ELSE waiting)
<1>1. res.waitQ \in Seq(S) /\ res.n \in Nat
  OBVIOUS
<1>2. CASE res.n = 0
  <2>1. Request(res, i, key) = [res EXCEPT !.waitQ = Enter(res.waitQ, i, key)]
    BY <1>2 DEF Request
  <2>2. /\ IsInjective(Enter(res.waitQ, i, key))
        /\ Range(Enter(res.waitQ, i, key)) = waiting \cup {i}
    BY <1>1, EnterAddsItem DEF Sound, Holds
  <2>3. QED
    BY <1>1, <1>2, <2>1, <2>2 DEF Sound, Holds
<1>3. CASE res.n # 0
  <2>1. Request(res, i, key) = [res EXCEPT !.n = res.n - 1]
    BY <1>3 DEF Request
  <2>2. Cardinality(holders \cup {i}) = Cardinality(holders) + 1 /\ Cardinality(holders) \in Nat
    BY FS_AddElement, FS_CardinalityType
  <2>3. QED
    BY <1>1, <1>3, <2>1, <2>2 DEF Sound, Holds
<1>4. QED
  BY <1>2, <1>3

(* A release keeps the resource sound: the unit goes to the process that   *)
(* is woken, if one waits, and to nobody else.                             *)
THEOREM ReleaseKeepsSound ==
  ASSUME NEW S, NEW res \in [n : Nat, waitQ : Seq(S)], NEW i \in S, NEW capacity,
         NEW holders, IsFiniteSet(holders), NEW waiting,
         Sound(res, capacity, holders, waiting), i \in holders, waiting \cap holders = {}
  PROVE  /\ Sound(Release(res), capacity,
                  (holders \ {i}) \cup Range(Woken(res)), waiting \ Range(Woken(res)))
         /\ IsInjective(Woken(res)) /\ Range(Woken(res)) \subseteq waiting
<1>1. res.waitQ \in Seq(S) /\ res.n \in Nat
  OBVIOUS
<1>2. /\ Cardinality(holders \ {i}) = Cardinality(holders) - 1 /\ Cardinality(holders) \in Nat
      /\ IsFiniteSet(holders \ {i})
  BY FS_RemoveElement, FS_CardinalityType
<1>3. CASE res.waitQ = << >>
  <2>1. Release(res) = [res EXCEPT !.n = res.n + 1] /\ Range(Woken(res)) = {} /\ IsInjective(Woken(res))
    BY <1>3 DEF Release, Woken, Range, IsInjective
  <2>2. QED
    BY <1>1, <1>2, <1>3, <2>1 DEF Sound, Holds
<1>4. CASE res.waitQ # << >>
  <2> DEFINE w == Head(res.waitQ)
  <2>1. /\ Release(res) = [res EXCEPT !.waitQ = Tail(res.waitQ)]
        /\ Range(Woken(res)) = {w} /\ IsInjective(Woken(res))
    BY <1>4 DEF Release, Woken, Range, IsInjective
  <2>2. /\ w \in waiting /\ IsInjective(Tail(res.waitQ))
        /\ Range(Tail(res.waitQ)) = waiting \ {w}
    BY <1>1, <1>4, TailDropsHead DEF Sound, Holds
  <2>3. Cardinality((holders \ {i}) \cup {w}) = Cardinality(holders)
    <3> DEFINE others == holders \ {i}
    <3>1. w \notin others
      BY <2>2
    <3>2. IsFiniteSet(others) /\ Cardinality(others) = Cardinality(holders) - 1
      BY <1>2
    <3> HIDE DEF others, w
    <3>3. Cardinality(others \cup {w}) = Cardinality(others) + 1
      BY <3>1, <3>2, FS_AddElement
    <3>4. QED
      BY <1>2, <3>2, <3>3 DEF others
  <2>4. res.n = 0
    BY <1>1, <1>4 DEF Sound
  <2>5. QED
    BY <1>1, <2>1, <2>2, <2>3, <2>4 DEF Sound, Holds
<1>5. QED
  BY <1>3, <1>4

(* Serving a queue from its head keeps it in order, and the one served has *)
(* the highest priority of those that waited.                              *)
LEMMA TailKeepsOrder ==
  ASSUME NEW S, NEW q \in Seq(S), q # << >>, NEW key,
         \A x \in S : key[x] \in Int, Ordered(q, key)
  PROVE  /\ Ordered(Tail(q), key)
         /\ \A x \in Range(q) : key[Head(q)] >= key[x]
<1>1. /\ DOMAIN q = 1..Len(q) /\ Len(q) \in Nat /\ Len(q) > 0 /\ Head(q) = q[1]
      /\ DOMAIN Tail(q) = 1..(Len(q) - 1)
      /\ \A k \in 1..(Len(q) - 1) : Tail(q)[k] = q[k + 1]
      /\ \A k \in 1..Len(q) : q[k] \in S
  OBVIOUS
<1>2. Ordered(Tail(q), key)
  <2>1. ASSUME NEW j \in DOMAIN Tail(q), NEW k \in DOMAIN Tail(q), j < k
        PROVE  key[Tail(q)[j]] >= key[Tail(q)[k]]
    <3>1. j + 1 \in DOMAIN q /\ k + 1 \in DOMAIN q /\ j + 1 < k + 1
      BY <1>1, <2>1
    <3>2. key[q[j + 1]] >= key[q[k + 1]]
      BY <3>1 DEF Ordered
    <3>3. QED
      BY <1>1, <3>2
  <2>2. QED
    BY <2>1 DEF Ordered
<1>3. ASSUME NEW k \in DOMAIN q PROVE key[Head(q)] >= key[q[k]]
  <2>1. CASE k = 1
    BY <1>1, <2>1
  <2>2. CASE k > 1
    BY <1>1, <2>2 DEF Ordered
  <2>3. QED
    BY <1>1, <2>1, <2>2
<1>4. QED
  BY <1>2, <1>3 DEF Range

-----------------------------------------------------------------------------
(* The reporting process.                                                  *)

LEMMA MinOfTwo ==
  ASSUME NEW a \in Int, NEW b \in Int
  PROVE  Min({a, b}) = IF a <= b THEN a ELSE b
<1>1. CASE a <= b
  <2>1. a \in {a, b} /\ \A y \in {a, b} : a =< y
    BY <1>1
  <2>2. \A x \in {a, b} : (\A y \in {a, b} : x =< y) => x = a
    BY <1>1
  <2>3. QED
    BY <2>1, <2>2, <1>1 DEF Min
<1>2. CASE ~(a <= b)
  <2>1. b \in {a, b} /\ \A y \in {a, b} : b =< y
    BY <1>2
  <2>2. \A x \in {a, b} : (\A y \in {a, b} : x =< y) => x = b
    BY <1>2
  <2>3. QED
    BY <2>1, <2>2, <1>2 DEF Min
<1>3. QED
  BY <1>1, <1>2

(* A penalised chance is still a percentage.                               *)
LEMMA PenalisedIsPercent ==
  ASSUME NEW percent \in 0..100, NEW penalty \in Nat
  PROVE  Penalised(percent, penalty) \in 0..100
<1>1. Min({95, percent + penalty}) = IF 95 <= percent + penalty THEN 95 ELSE percent + penalty
  BY MinOfTwo
<1>2. QED
  BY <1>1 DEF Penalised

(* Reports drawn by the source are reports.                                *)
LEMMA NewReportsAreReports ==
  ASSUME NEW time \in Nat
  PROVE  NewReports(time) \subseteq Report
<1>1. SupportedPriorities = {1, 3}
  BY DEF SupportedPriorities, NonSevere, Severe
<1>2. ReviewTimes \subseteq Nat /\ UNION {FixEfforts[p] : p \in SupportedPriorities} \subseteq Nat
  BY DurationAssumption
<1>3. ASSUME NEW b \in NewReports(time) PROVE b \in Report
  <2>1. /\ b = [reporter |-> b.reporter, real_priority |-> b.real_priority,
                report_priority |-> b.report_priority, monitor_priority |-> b.monitor_priority,
                fix_effort |-> b.fix_effort, review_time |-> b.review_time,
                arrival_time |-> b.arrival_time, views_counter |-> b.views_counter]
        /\ b.reporter \in Reporters /\ b.real_priority \in SupportedPriorities
        /\ b.report_priority \in SupportedPriorities /\ b.monitor_priority \in SupportedPriorities
        /\ b.fix_effort \in UNION {FixEfforts[p] : p \in SupportedPriorities}
        /\ b.review_time \in ReviewTimes \cup {0}
        /\ b.arrival_time = time /\ b.views_counter = 0
    BY DEF NewReports
  <2>2. b.fix_effort \in Nat /\ b.review_time \in Nat
    BY <1>2, <2>1
  <2> HIDE DEF SupportedPriorities
  <2>3. QED
    BY <2>1, <2>2 DEF Report
<1>4. QED
  BY <1>3

LEMMA ReleaseType ==
  ASSUME NEW S, NEW res \in [n : Nat, waitQ : Seq(S)]
  PROVE  Release(res) \in [n : Nat, waitQ : Seq(S)] /\ Woken(res) \in Seq(S)
<1>1. CASE res.waitQ = << >>
  BY <1>1 DEF Release, Woken
<1>2. CASE res.waitQ # << >>
  <2>1. res.waitQ \in Seq(S)
    OBVIOUS
  <2>2. Tail(res.waitQ) \in Seq(S) /\ Head(res.waitQ) \in S
    BY <1>2, <2>1, TailDropsHead
  <2>3. Release(res) \in [n : Nat, waitQ : Seq(S)]
    BY <1>2, <2>2 DEF Release
  <2>4. Woken(res) = <<Head(res.waitQ)>> /\ <<Head(res.waitQ)>> \in Seq(S)
    BY <1>2, <2>2 DEF Woken
  <2>5. QED
    BY <2>3, <2>4
<1>3. QED
  BY <1>1, <1>2

LEMMA RequestType ==
  ASSUME NEW S, NEW res \in [n : Nat, waitQ : Seq(S)], NEW i \in S, NEW key
  PROVE  Request(res, i, key) \in [n : Nat, waitQ : Seq(S)]
<1>1. CASE res.n = 0
  <2>1. Enter(res.waitQ, i, key) \in Seq(S)
    BY EnterAddsItem
  <2>2. QED
    BY <1>1, <2>1 DEF Request
<1>2. CASE res.n # 0
  BY <1>2 DEF Request
<1>3. QED
  BY <1>1, <1>2

LEMMA HandOverType ==
  ASSUME ReportsOK, NEW i, NEW s \in Stages, NEW res, NEW g \in Stages
  PROVE  HandOver(i, s, res, g) \in [Reports -> Stages]
BY DEF HandOver, ReportsOK

-----------------------------------------------------------------------------
(* Type correctness.                                                       *)

LEMMA InitTypeOK == Init => TypeOK
<1> SUFFICES ASSUME Init PROVE TypeOK
  OBVIOUS
<1>1. Reports = {} /\ InterarrivalTimes \subseteq Nat /\ HourLength \in Nat
  BY DurationAssumption DEF Init, Reports
<1>2. SchedulerOK
  BY <1>1 DEF Init, SchedulerOK
<1>3. ReportsOK
  BY <1>1 DEF Init, ReportsOK
<1>4. ResourcesOK
  BY ConfigAssumption DEF Init, ResourcesOK, NewResource
<1>5. MonitorsOK
  BY ConfigAssumption DEF Init, MonitorsOK, CounterMap
<1>6. QED
  BY <1>2, <1>3, <1>4, <1>5 DEF TypeOK

(* The report SimPy resumes is one of the reports, and so are the others.  *)
LEMMA ResumedReport ==
  ASSUME SchedulerOK, NEW i, Resumes(i)
  PROVE  i \in Reports /\ Tail(ready) \in Seq(Reports)
<1>1. ready \in Seq(Reports) /\ ready # << >> /\ i = Head(ready)
  BY DEF Resumes, SchedulerOK
<1>2. QED
  BY <1>1, TailDropsHead

(* Holding does not touch who the reports are.                             *)
LEMMA SameReports ==
  ASSUME UNCHANGED arrivals
  PROVE  Reports' = Reports /\ bug_counter' = bug_counter
BY DEF arrivals, Reports

LEMMA ConsType ==
  ASSUME NEW S, NEW i \in S, NEW q \in Seq(S), NEW r \in Seq(S)
  PROVE  <<i>> \o q \in Seq(S) /\ <<i>> \o q \o r \in Seq(S)
BY ConsAddsHead

LEMMA StagesListed ==
  Stages = {"activated", "gkGranted", "gkReleased", "devGranted", "ignored", "devReleased",
            "review", "fix", "fixed", "discarded", "gkWait", "devWait"}
BY DEF Stages, ReadyStages, TimedStages, EndStages

LEMMA RequestGatekeeperTypeOK ==
  ASSUME TypeOK, NEW i, RequestGatekeeper(i) PROVE TypeOK'
<1> USE DEF TypeOK
<1>1. Reports' = Reports /\ i \in Reports /\ Tail(ready) \in Seq(Reports)
  BY SameReports, ResumedReport DEF RequestGatekeeper
<1>2. SchedulerOK'
  BY <1>1 DEF SchedulerOK, RequestGatekeeper
<1>3. ReportsOK'
  BY <1>1, StagesListed DEF ReportsOK, RequestGatekeeper, arrivals
<1>4. ResourcesOK'
  BY <1>1, RequestType DEF ResourcesOK, RequestGatekeeper
<1>5. MonitorsOK'
  BY <1>1 DEF MonitorsOK, RequestGatekeeper, monitors
<1>6. QED
  BY <1>2, <1>3, <1>4, <1>5

LEMMA StartReviewTypeOK ==
  ASSUME TypeOK, NEW i, StartReview(i) PROVE TypeOK'
<1> USE DEF TypeOK
<1>1. Reports' = Reports /\ i \in Reports /\ Tail(ready) \in Seq(Reports)
  BY SameReports, ResumedReport DEF StartReview
<1>2. SchedulerOK'
  BY <1>1 DEF SchedulerOK, StartReview
<1>3. ReportsOK'
  <2>1. now + report[i].review_time \in Nat
    <3>1. report[i] \in Report
      BY <1>1 DEF ReportsOK
    <3>2. report[i].review_time \in Nat
      BY <3>1 DEF Report
    <3>3. QED
      BY <3>2 DEF SchedulerOK
  <2>2. QED
    BY <1>1, <2>1, StagesListed DEF ReportsOK, StartReview, arrivals
<1>4. ResourcesOK' /\ MonitorsOK'
  BY <1>1 DEF ResourcesOK, MonitorsOK, StartReview, monitors
<1>5. QED
  BY <1>2, <1>3, <1>4

LEMMA EndReviewTypeOK ==
  ASSUME TypeOK, NEW i \in Reports, EndReview(i) PROVE TypeOK'
<1> USE DEF TypeOK
<1>1. Reports' = Reports
  BY SameReports DEF EndReview
<1>2. now' \in Nat
  BY DEF EndReview, Fires, ReportsOK
<1>3. SchedulerOK'
  <2>1. <<i>> \o Woken(gatekeepers) \in Seq(Reports)
    BY ReleaseType, ConsType DEF ResourcesOK
  <2>2. QED
    BY <1>1, <1>2, <2>1 DEF SchedulerOK, EndReview
<1>4. ReportsOK'
  <2>1. [report EXCEPT ![i].report_priority = report[i].real_priority] \in [Reports -> Report]
    BY DEF ReportsOK, Report
  <2>2. report' \in [Reports -> Report]
    BY <2>1 DEF EndReview, ReportsOK, CorrectPriority
  <2>3. stage' \in [Reports -> Stages]
    BY HandOverType, StagesListed DEF EndReview
  <2>4. QED
    BY <1>1, <2>2, <2>3 DEF ReportsOK, EndReview, arrivals
<1>5. ResourcesOK'
  BY <1>1, ReleaseType DEF ResourcesOK, EndReview
<1>6. MonitorsOK'
  BY <1>1 DEF MonitorsOK, EndReview, monitors
<1>7. QED
  BY <1>3, <1>4, <1>5, <1>6

LEMMA RequestDeveloperTypeOK ==
  ASSUME TypeOK, NEW i, RequestDeveloper(i) PROVE TypeOK'
<1> USE DEF TypeOK
<1>1. Reports' = Reports /\ i \in Reports /\ Tail(ready) \in Seq(Reports)
  BY SameReports, ResumedReport DEF RequestDeveloper
<1>2. SchedulerOK'
  BY <1>1 DEF SchedulerOK, RequestDeveloper
<1>3. ReportsOK'
  BY <1>1, StagesListed DEF ReportsOK, RequestDeveloper, arrivals
<1>4. ResourcesOK'
  BY <1>1, RequestType DEF ResourcesOK, RequestDeveloper
<1>5. MonitorsOK'
  BY <1>1 DEF MonitorsOK, RequestDeveloper, monitors
<1>6. QED
  BY <1>2, <1>3, <1>4, <1>5

LEMMA IgnoreReportTypeOK ==
  ASSUME TypeOK, NEW i, IgnoreReport(i) PROVE TypeOK'
<1> USE DEF TypeOK
<1>1. Reports' = Reports /\ i \in Reports /\ Tail(ready) \in Seq(Reports)
  BY SameReports, ResumedReport DEF IgnoreReport
<1>2. SchedulerOK'
  <2>1. <<i>> \o Woken(developers) \o Tail(ready) \in Seq(Reports)
    BY <1>1, ReleaseType, ConsType DEF ResourcesOK
  <2>2. QED
    BY <1>1, <2>1 DEF SchedulerOK, IgnoreReport
<1>3. ReportsOK'
  <2>1. report' \in [Reports -> Report]
    <3>1. report \in [Reports -> Report] /\ report[i] \in Report
      BY <1>1 DEF ReportsOK
    <3>2. [report[i] EXCEPT !.views_counter = @ + 1] \in Report
      BY <3>1 DEF Report
    <3>3. report' = [report EXCEPT ![i] = [report[i] EXCEPT !.views_counter = @ + 1]]
      BY DEF IgnoreReport
    <3>4. QED
      BY <3>1, <3>2, <3>3
  <2>2. stage' \in [Reports -> Stages]
    BY HandOverType, StagesListed DEF IgnoreReport
  <2>3. QED
    BY <1>1, <2>1, <2>2 DEF ReportsOK, IgnoreReport, arrivals
<1>4. ResourcesOK'
  BY <1>1, ReleaseType DEF ResourcesOK, IgnoreReport
<1>5. MonitorsOK'
  BY <1>1 DEF MonitorsOK, IgnoreReport, monitors
<1>6. QED
  BY <1>2, <1>3, <1>4, <1>5

LEMMA DiscardReportTypeOK ==
  ASSUME TypeOK, NEW i, DiscardReport(i) PROVE TypeOK'
<1> USE DEF TypeOK
<1>1. Reports' = Reports /\ i \in Reports /\ Tail(ready) \in Seq(Reports)
  BY SameReports, ResumedReport DEF DiscardReport
<1>2. SchedulerOK' /\ ReportsOK'
  BY <1>1, StagesListed DEF SchedulerOK, ReportsOK, DiscardReport, arrivals
<1>3. ResourcesOK' /\ MonitorsOK'
  BY <1>1 DEF ResourcesOK, MonitorsOK, DiscardReport, monitors
<1>4. QED
  BY <1>2, <1>3

LEMMA StartFixTypeOK ==
  ASSUME TypeOK, NEW i, StartFix(i) PROVE TypeOK'
<1> USE DEF TypeOK
<1>1. Reports' = Reports /\ i \in Reports /\ Tail(ready) \in Seq(Reports)
  BY SameReports, ResumedReport DEF StartFix
<1>2. SchedulerOK'
  BY <1>1 DEF SchedulerOK, StartFix
<1>3. ReportsOK'
  <2>1. now + report[i].fix_effort \in Nat
    <3>1. report[i] \in Report
      BY <1>1 DEF ReportsOK
    <3>2. report[i].fix_effort \in Nat
      BY <3>1 DEF Report
    <3>3. QED
      BY <3>2 DEF SchedulerOK
  <2>2. QED
    BY <1>1, <2>1, StagesListed DEF ReportsOK, StartFix, arrivals
<1>4. ResourcesOK' /\ MonitorsOK'
  BY <1>1 DEF ResourcesOK, MonitorsOK, StartFix, monitors
<1>5. QED
  BY <1>2, <1>3, <1>4

LEMMA EndFixTypeOK ==
  ASSUME TypeOK, NEW i \in Reports, EndFix(i) PROVE TypeOK'
<1> USE DEF TypeOK
<1>1. Reports' = Reports
  BY SameReports DEF EndFix
<1>2. now' \in Nat
  BY DEF EndFix, Fires, ReportsOK
<1>3. SchedulerOK'
  <2>1. <<i>> \o Woken(developers) \in Seq(Reports)
    BY ReleaseType, ConsType DEF ResourcesOK
  <2>2. QED
    BY <1>1, <1>2, <2>1 DEF SchedulerOK, EndFix
<1>4. ReportsOK'
  BY <1>1, HandOverType, StagesListed DEF ReportsOK, EndFix, arrivals
<1>5. ResourcesOK'
  BY <1>1, ReleaseType DEF ResourcesOK, EndFix
<1>6. MonitorsOK'
  BY <1>1 DEF MonitorsOK, EndFix, monitors
<1>7. QED
  BY <1>3, <1>4, <1>5, <1>6

LEMMA FixedMonitor ==
  ASSUME NEW C, NEW counters \in C,
         NEW m \in [resolved_monitor : Nat, priority_counters : C,
                    report_counters : C, resolved_counters : C]
  PROVE  [m EXCEPT !.resolved_monitor = @ + 1, !.resolved_counters = counters]
           \in [resolved_monitor : Nat, priority_counters : C,
                report_counters : C, resolved_counters : C]
<1>1. m.resolved_monitor + 1 \in Nat
  OBVIOUS
<1>2. ASSUME NEW k \in Nat
      PROVE  [m EXCEPT !.resolved_monitor = k, !.resolved_counters = counters]
               \in [resolved_monitor : Nat, priority_counters : C,
                    report_counters : C, resolved_counters : C]
  OBVIOUS
<1>3. QED
  BY <1>1, <1>2

LEMMA ResolveTypeOK ==
  ASSUME TypeOK, NEW i, Resolve(i) PROVE TypeOK'
<1> USE DEF TypeOK
<1>1. Reports' = Reports /\ i \in Reports /\ Tail(ready) \in Seq(Reports)
  BY SameReports, ResumedReport DEF Resolve
<1>2. SchedulerOK' /\ ReportsOK'
  BY <1>1, StagesListed DEF SchedulerOK, ReportsOK, Resolve, arrivals
<1>3. ResourcesOK'
  BY <1>1 DEF ResourcesOK, Resolve
<1>4. MonitorsOK'
  <2> DEFINE r == report[i].reporter
             rp == report[i].real_priority
             mp == report[i].monitor_priority
  <2>1. r \in Reporters /\ rp \in Priorities /\ mp \in Priorities
    <3>1. report[i] \in Report
      BY <1>1 DEF ReportsOK
    <3>2. SupportedPriorities \subseteq Priorities
      BY DEF SupportedPriorities, Priorities
    <3>3. QED
      BY <3>1, <3>2 DEF Report
  <2> HIDE DEF r, rp, mp
  <2>2. priority_monitors' \in [Priorities -> [completed : Nat, reported : Nat]]
    <3>1. priority_monitors' = [priority_monitors EXCEPT
             ![mp] = [priority_monitors[mp] EXCEPT !.completed = @ + 1]]
      BY DEF Resolve, CountedUnder, mp
    <3>2. priority_monitors[mp] \in [completed : Nat, reported : Nat]
      BY <2>1 DEF MonitorsOK
    <3>3. [priority_monitors[mp] EXCEPT !.completed = @ + 1] \in [completed : Nat, reported : Nat]
      BY <3>2
    <3>4. QED
      BY <2>1, <3>1, <3>3 DEF MonitorsOK
  <2>3. reporter_monitors' \in [Reporters ->
           [resolved_monitor : Nat, priority_counters : CounterMap,
            report_counters : CounterMap, resolved_counters : CounterMap]]
    <3> DEFINE m == reporter_monitors[r]
               counters == [m.resolved_counters EXCEPT ![rp] = @ + 1]
               T == [resolved_monitor : Nat, priority_counters : CounterMap,
                     report_counters : CounterMap, resolved_counters : CounterMap]
    <3>1. m \in T
      BY <2>1 DEF MonitorsOK
    <3>2. counters \in CounterMap
      BY <2>1, <3>1 DEF CounterMap
    <3>3. reporter_monitors' = [reporter_monitors EXCEPT
             ![r] = [m EXCEPT !.resolved_monitor = @ + 1, !.resolved_counters = counters]]
      <4>1. reporter_monitors' = [reporter_monitors EXCEPT
              ![r].resolved_monitor = @ + 1, ![r].resolved_counters[rp] = @ + 1]
        BY DEF Resolve, r, rp
      <4>2. reporter_monitors \in [Reporters -> T]
        BY DEF MonitorsOK
      <4>3. QED
        BY <2>1, <4>1, <4>2
    <3> HIDE DEF counters, m
    <3>4. [m EXCEPT !.resolved_monitor = @ + 1, !.resolved_counters = counters] \in T
      BY <3>1, <3>2, FixedMonitor
    <3>5. QED
      BY <2>1, <3>3, <3>4 DEF MonitorsOK, m
  <2>4. ignore_percent' \in [Reporters -> [SupportedPriorities -> 0..100]]
    <3>1. CASE UNCHANGED ignore_percent
      BY <3>1 DEF MonitorsOK
    <3>2. CASE Process = "throttling" /\ ApplyPenalty(r)
      <4>1. InflationPenalty \in Nat
        BY <3>2, ConfigAssumption DEF Process
      <4>2. ignore_percent[r] \in [SupportedPriorities -> 0..100]
        BY <2>1 DEF MonitorsOK
      <4>3. [p \in SupportedPriorities |-> Penalised(ignore_percent[r][p], InflationPenalty)]
              \in [SupportedPriorities -> 0..100]
        BY <4>1, <4>2, PenalisedIsPercent
      <4>4. QED
        BY <2>1, <3>2, <4>3 DEF ApplyPenalty, MonitorsOK
    <3>3. QED
      BY <3>1, <3>2 DEF Resolve, r
  <2>5. caught' \subseteq Reports'
    BY <1>1 DEF Resolve, MonitorsOK
  <2>6. QED
    BY <2>2, <2>3, <2>4, <2>5 DEF MonitorsOK
<1>5. QED
  BY <1>2, <1>3, <1>4

LEMMA CountNewType ==
  ASSUME NEW new, IsFiniteSet(new), NEW T, NEW draw \in [new -> T], NEW r, NEW field, NEW p
  PROVE  CountNew(draw, r, field, p) \in Nat
<1>1. {i \in DOMAIN draw : draw[i].reporter = r /\ draw[i][field] = p} \in SUBSET new
  OBVIOUS
<1>2. QED
  BY <1>1, FS_Subset, FS_CardinalityType DEF CountNew

(* The reports a batch adds are the next ones in number.                   *)
LEMMA BatchIds ==
  ASSUME bug_counter \in Nat, NEW size \in Nat,
         NEW new, new = (bug_counter + 1)..(bug_counter + size)
  PROVE  /\ IsFiniteSet(new) /\ Cardinality(new) = size
         /\ Reports \cup new = 1..(bug_counter + size)
         /\ Reports \cap new = {}
<1>1. bug_counter + 1 \in Int /\ bug_counter + size \in Int
  OBVIOUS
<1>2. /\ IsFiniteSet((bug_counter + 1)..(bug_counter + size))
      /\ Cardinality((bug_counter + 1)..(bug_counter + size)) =
           IF bug_counter + 1 > bug_counter + size THEN 0
           ELSE bug_counter + size - (bug_counter + 1) + 1
  <2>1. \A a, b \in Int :
          IsFiniteSet(a..b) /\ Cardinality(a..b) = IF a > b THEN 0 ELSE b - a + 1
    BY FS_Interval
  <2>2. QED
    BY <1>1, <2>1
<1>3. IsFiniteSet(new) /\ Cardinality(new) = size
  BY <1>2
<1>4. QED
  BY <1>3 DEF Reports

LEMMA FileBatchTypeOK ==
  ASSUME TypeOK, now' \in Nat, NEW size \in Nat,
         NEW new, new = (bug_counter + 1)..(bug_counter + size),
         NEW draw \in [new -> Report], FileBatch(new, draw)
  PROVE  /\ ReportsOK'
         /\ ready' \in Seq(Reports')
         /\ reporter_monitors' \in [Reporters ->
              [resolved_monitor : Nat, priority_counters : CounterMap,
               report_counters : CounterMap, resolved_counters : CounterMap]]
         /\ priority_monitors' \in [Priorities -> [completed : Nat, reported : Nat]]
<1> USE DEF TypeOK
<1>1. /\ bug_counter \in Nat /\ IsFiniteSet(new) /\ Cardinality(new) = size
      /\ Reports \cup new = 1..(bug_counter + size)
  BY BatchIds DEF ReportsOK
<1>2. bug_counter' = bug_counter + size /\ bug_counter' \in Nat /\ Reports' = Reports \cup new
  <2>1. bug_counter' = bug_counter + size
    BY <1>1 DEF FileBatch
  <2>2. Reports' = 1..bug_counter'
    BY DEF Reports
  <2>3. QED
    BY <1>1, <2>1, <2>2
<1>3. ReportsOK'
  <2>1. report' \in [Reports' -> Report]
    BY <1>2 DEF FileBatch, ReportsOK
  <2>2. stage' \in [Reports' -> Stages] /\ due' \in [Reports' -> Nat]
    BY <1>2, StagesListed DEF FileBatch, ReportsOK
  <2>3. /\ first_report_time' \in Nat \cup {None}
        /\ last_report_time' \in Nat \cup {None}
    BY DEF FileBatch, ReportsOK
  <2>4. QED
    BY <1>2, <2>1, <2>2, <2>3 DEF ReportsOK
<1>4. ready' \in Seq(Reports')
  <2>1. \A k \in 1..size : bug_counter + k \in Reports'
    BY <1>1, <1>2
  <2>2. ready' = [k \in 1..size |-> bug_counter + k]
    BY <1>1 DEF FileBatch
  <2> HIDE DEF Reports
  <2>3. QED
    BY <2>1, <2>2
<1>5. priority_monitors' \in [Priorities -> [completed : Nat, reported : Nat]]
  <2>1. ASSUME NEW p \in Priorities
        PROVE  [priority_monitors[p] EXCEPT
                  !.reported = @ + Cardinality({i \in new : draw[i].report_priority = p})]
                 \in [completed : Nat, reported : Nat]
    <3>1. Cardinality({i \in new : draw[i].report_priority = p}) \in Nat
      BY <1>1, FS_Subset, FS_CardinalityType
    <3>2. priority_monitors[p] \in [completed : Nat, reported : Nat]
      BY DEF MonitorsOK
    <3>3. QED
      BY <3>1, <3>2
  <2>2. QED
    BY <2>1 DEF FileBatch
<1>6. reporter_monitors' \in [Reporters ->
         [resolved_monitor : Nat, priority_counters : CounterMap,
          report_counters : CounterMap, resolved_counters : CounterMap]]
  <2> DEFINE T == [resolved_monitor : Nat, priority_counters : CounterMap,
                   report_counters : CounterMap, resolved_counters : CounterMap]
             filed(r) == [p \in Priorities |->
                            reporter_monitors[r].priority_counters[p] + CountNew(draw, r, "real_priority", p)]
             shown(r) == [p \in Priorities |->
                            reporter_monitors[r].report_counters[p] + CountNew(draw, r, "report_priority", p)]
  <2>1. ASSUME NEW r \in Reporters
        PROVE  [reporter_monitors[r] EXCEPT !.priority_counters = filed(r),
                                            !.report_counters = shown(r)] \in T
    <3>1. reporter_monitors[r] \in T
      BY DEF MonitorsOK
    <3>2. /\ reporter_monitors[r].priority_counters \in [Priorities -> Nat]
          /\ reporter_monitors[r].report_counters \in [Priorities -> Nat]
      BY <3>1 DEF CounterMap
    <3>3. ASSUME NEW p \in Priorities
          PROVE  /\ CountNew(draw, r, "real_priority", p) \in Nat
                 /\ CountNew(draw, r, "report_priority", p) \in Nat
      BY <1>1, CountNewType
    <3>4. ASSUME NEW p \in Priorities
          PROVE  /\ reporter_monitors[r].priority_counters[p] + CountNew(draw, r, "real_priority", p) \in Nat
                 /\ reporter_monitors[r].report_counters[p] + CountNew(draw, r, "report_priority", p) \in Nat
      <4>1. /\ reporter_monitors[r].priority_counters[p] \in Nat
            /\ reporter_monitors[r].report_counters[p] \in Nat
        BY <3>2
      <4>2. \A a, b \in Nat : a + b \in Nat
        OBVIOUS
      <4>3. QED
        BY <3>3, <4>1, <4>2, Zenon
    <3>5. filed(r) \in CounterMap /\ shown(r) \in CounterMap
      BY <3>4 DEF CounterMap
    <3> HIDE DEF filed, shown
    <3>6. QED
      BY <3>1, <3>5
  <2>2. reporter_monitors' =
          [r \in Reporters |-> [reporter_monitors[r] EXCEPT !.priority_counters = filed(r),
                                                            !.report_counters = shown(r)]]
    BY DEF FileBatch
  <2> HIDE DEF filed, shown
  <2>3. QED
    BY <2>1, <2>2
<1>7. QED
  BY <1>3, <1>4, <1>5, <1>6

LEMMA StartReportingTypeOK ==
  ASSUME TypeOK, StartReporting PROVE TypeOK'
<1>0. PICK size \in BatchSizes, gap \in InterarrivalTimes :
        /\ \E draw \in [(bug_counter + 1)..(bug_counter + size) -> NewReports(next_batch)] :
             FileBatch((bug_counter + 1)..(bug_counter + size), draw)
        /\ next_batch' = IF bug_counter' = MaxReports THEN Never ELSE now' + gap
  BY DEF StartReporting
<1>1. PICK draw \in [(bug_counter + 1)..(bug_counter + size) -> NewReports(next_batch)] :
        FileBatch((bug_counter + 1)..(bug_counter + size), draw)
  BY <1>0
<1>2. size \in Nat /\ gap \in Nat /\ MaxTime \in Nat
  BY DurationAssumption
<1>3. next_batch \in Nat /\ now' = next_batch
  BY DEF StartReporting, Fires, TypeOK, SchedulerOK
<1>4. draw \in [(bug_counter + 1)..(bug_counter + size) -> Report]
  BY <1>3, NewReportsAreReports
<1>5. /\ ReportsOK'
      /\ ready' \in Seq(Reports')
      /\ reporter_monitors' \in [Reporters ->
           [resolved_monitor : Nat, priority_counters : CounterMap,
            report_counters : CounterMap, resolved_counters : CounterMap]]
      /\ priority_monitors' \in [Priorities -> [completed : Nat, reported : Nat]]
  BY <1>1, <1>2, <1>3, <1>4, FileBatchTypeOK
<1>6. Reports \subseteq Reports'
  <2>1. bug_counter \in Nat
    BY DEF TypeOK, ReportsOK
  <2>2. bug_counter' = bug_counter + size
    BY <1>1, <1>2, <2>1, BatchIds DEF FileBatch
  <2>3. QED
    BY <1>2, <2>1, <2>2 DEF Reports
<1>7. MonitorsOK'
  BY <1>5, <1>6 DEF MonitorsOK, StartReporting, TypeOK
<1>8. SchedulerOK'
  BY <1>0, <1>2, <1>3, <1>5 DEF SchedulerOK, StartReporting, TypeOK, Never
<1>9. ResourcesOK'
  <2>1. \A q \in Seq(Reports) : q \in Seq(Reports')
    BY <1>6
  <2>2. QED
    BY <2>1 DEF ResourcesOK, StartReporting, TypeOK
<1>10. QED
  BY <1>5, <1>7, <1>8, <1>9 DEF TypeOK

LEMMA StepTypeOK == TypeOK /\ [Next]_vars => TypeOK'
<1> SUFFICES ASSUME TypeOK, [Next]_vars PROVE TypeOK'
  OBVIOUS
<1>1. CASE StartReporting
  BY <1>1, StartReportingTypeOK
<1>2. ASSUME NEW i \in Reports, ReportStep(i) PROVE TypeOK'
  BY <1>2, RequestGatekeeperTypeOK, StartReviewTypeOK, EndReviewTypeOK, RequestDeveloperTypeOK,
     IgnoreReportTypeOK, DiscardReportTypeOK, StartFixTypeOK, EndFixTypeOK, ResolveTypeOK
     DEF ReportStep
<1>3. CASE Control
  <2>1. Reports' = Reports /\ HourLength \in Nat
    BY <1>3, SameReports, DurationAssumption DEF Control
  <2>2. SchedulerOK' /\ ReportsOK'
    BY <1>3, <2>1 DEF Control, Fires, TypeOK, SchedulerOK, ReportsOK, arrivals
  <2>3. ResourcesOK' /\ MonitorsOK'
    BY <1>3, <2>1 DEF Control, TypeOK, ResourcesOK, MonitorsOK, monitors
  <2>4. QED
    BY <2>2, <2>3 DEF TypeOK
<1>4. CASE TimeUp
  <2>1. Reports' = Reports
    BY <1>4, SameReports DEF TimeUp
  <2>2. SchedulerOK' /\ ReportsOK'
    BY <1>4, <2>1 DEF TimeUp, TypeOK, SchedulerOK, ReportsOK, arrivals
  <2>3. ResourcesOK' /\ MonitorsOK'
    BY <1>4, <2>1 DEF TimeUp, TypeOK, ResourcesOK, MonitorsOK, monitors
  <2>4. QED
    BY <2>2, <2>3 DEF TypeOK
<1>5. CASE UNCHANGED vars
  <2>1. Reports' = Reports
    BY <1>5, SameReports DEF vars
  <2>2. SchedulerOK' /\ ReportsOK'
    BY <1>5, <2>1 DEF vars, scheduler, TypeOK, SchedulerOK, ReportsOK, arrivals
  <2>3. ResourcesOK' /\ MonitorsOK'
    BY <1>5, <2>1 DEF vars, TypeOK, ResourcesOK, MonitorsOK, monitors
  <2>4. QED
    BY <2>2, <2>3 DEF TypeOK
<1>6. QED
  BY <1>1, <1>2, <1>3, <1>4, <1>5 DEF Next, Finished

(* Every variable has its type in every run, whatever the configuration.   *)
THEOREM TypeCorrect == Spec => []TypeOK
<1>1. QED
  BY InitTypeOK, StepTypeOK, PTL DEF Spec

-----------------------------------------------------------------------------
(* The inductive invariant.                                                *)
(* The invariant, one part per queue.                                      *)
ReadySound == Holds(ready, At(ReadyStages))
DevSound == Sound(developers, TeamCapacity, DevHolders, At({"devWait"}))
GkSound == Sound(gatekeepers, GatekeeperCapacity, GkHolders, At({"gkWait"}))
QueuesSound == ReadySound /\ DevSound /\ GkSound

LEMMA QueuesSoundIsTheInvariant ==
  QueuesSound <=> Placement /\ UnitsConserved /\ NoIdleUnit
BY DEF QueuesSound, ReadySound, DevSound, GkSound, Sound, Placement, UnitsConserved, NoIdleUnit

LEMMA ReportsAreFinite ==
  ASSUME ReportsOK, NEW T PROVE IsFiniteSet(At(T)) /\ At(T) \subseteq Reports
<1>1. bug_counter \in Int /\ 1 \in Int
  BY DEF ReportsOK
<1>2. IsFiniteSet(Reports)
  BY <1>1, FS_Interval DEF Reports
<1>3. QED
  BY <1>2, FS_Subset DEF At

-----------------------------------------------------------------------------
(* How the sets of reports at a stage follow the stage.                    *)

LEMMA StageMoves ==
  ASSUME ReportsOK, Reports' = Reports, NEW i \in Reports, NEW s,
         stage' = [stage EXCEPT ![i] = s], NEW T
  PROVE  At(T)' = IF s \in T THEN At(T) \cup {i} ELSE At(T) \ {i}
BY DEF ReportsOK, At

LEMMA HandOverMoves ==
  ASSUME ReportsOK, Reports' = Reports, NEW i \in Reports, NEW s, NEW g, NEW res,
         stage' = HandOver(i, s, res, g), i \notin Range(Woken(res)),
         Range(Woken(res)) \subseteq Reports, NEW T
  PROVE  At(T)' = (At(T) \ ({i} \cup Range(Woken(res))))
                    \cup (IF s \in T THEN {i} ELSE {})
                    \cup (IF g \in T THEN Range(Woken(res)) ELSE {})
<1>1. Range(Woken(res)) = IF res.waitQ # << >> THEN {Head(res.waitQ)} ELSE {}
  BY DEF Woken, Range
<1>2. \A j \in Reports : stage'[j] = IF j = i THEN s
                                     ELSE IF j \in Range(Woken(res)) THEN g ELSE stage[j]
  BY <1>1 DEF HandOver
<1>3. At(T)' = {j \in Reports : stage'[j] \in T}
  BY DEF At
<1>4. QED
  BY <1>2, <1>3 DEF At

(* Resuming a report takes it out of the ones to resume.                   *)
LEMMA ResumeDropsHead ==
  ASSUME SchedulerOK, ReadySound, NEW i, Resumes(i)
  PROVE  Tail(ready) \in Seq(Reports) /\ Holds(Tail(ready), At(ReadyStages) \ {i})
<1>1. ready \in Seq(Reports) /\ ready # << >> /\ i = Head(ready)
  BY DEF Resumes, SchedulerOK
<1>2. QED
  BY <1>1, TailDropsHead DEF ReadySound, Holds

-----------------------------------------------------------------------------
(* Each operation keeps the queues sound.                                  *)

LEMMA RequestGatekeeperSound ==
  ASSUME TypeOK, QueuesSound, NEW i, RequestGatekeeper(i) PROVE QueuesSound'
<1> USE DEF TypeOK, QueuesSound
<1> DEFINE s == IF gatekeepers.n = 0 THEN "gkWait" ELSE "gkGranted"
<1>1. /\ Reports' = Reports /\ i \in Reports /\ stage[i] = "activated"
      /\ stage' = [stage EXCEPT ![i] = s]
  BY SameReports, ResumedReport DEF RequestGatekeeper
<1>2. \A T : At(T)' = IF s \in T THEN At(T) \cup {i} ELSE At(T) \ {i}
  BY <1>1, StageMoves
<1>3. \A T : i \in At(T) <=> "activated" \in T
  BY <1>1 DEF At
<1>4. ReadySound'
  <2>1. Holds(Tail(ready), At(ReadyStages) \ {i})
    BY ResumeDropsHead DEF RequestGatekeeper
  <2>2. CASE gatekeepers.n = 0
    <3>1. s \notin ReadyStages
      BY <2>2 DEF ReadyStages
    <3>2. QED
      BY <1>2, <2>1, <2>2, <3>1 DEF ReadySound, RequestGatekeeper
  <2>3. CASE gatekeepers.n # 0
    <3>1. s \in ReadyStages /\ i \in At(ReadyStages)
      BY <1>3, <2>3 DEF ReadyStages
    <3>2. At(ReadyStages)' = At(ReadyStages) /\ ready' = ready
      BY <1>2, <2>3, <3>1 DEF RequestGatekeeper
    <3>3. QED
      BY <3>2 DEF ReadySound
  <2>4. QED
    BY <2>2, <2>3
<1>5. DevSound'
  <2>1. DevHolders' = DevHolders /\ At({"devWait"})' = At({"devWait"})
    BY <1>2, <1>3 DEF DevHolders
  <2>2. QED
    BY <2>1 DEF DevSound, RequestGatekeeper
<1>6. GkSound'
  <2>1. /\ GkHolders' = IF gatekeepers.n = 0 THEN GkHolders ELSE GkHolders \cup {i}
        /\ At({"gkWait"})' = IF gatekeepers.n = 0 THEN At({"gkWait"}) \cup {i} ELSE At({"gkWait"})
    BY <1>2, <1>3 DEF GkHolders
  <2>2. i \notin GkHolders /\ i \notin At({"gkWait"}) /\ IsFiniteSet(GkHolders)
    BY <1>3, ReportsAreFinite DEF GkHolders
  <2>3. gatekeepers \in [n : Nat, waitQ : Seq(Reports)]
    BY DEF ResourcesOK
  <2>4. Sound(Request(gatekeepers, i, FirstComeFirstServed), GatekeeperCapacity,
              IF gatekeepers.n = 0 THEN GkHolders ELSE GkHolders \cup {i},
              IF gatekeepers.n = 0 THEN At({"gkWait"}) \cup {i} ELSE At({"gkWait"}))
    BY <1>1, <2>2, <2>3, RequestKeepsSound DEF GkSound
  <2>5. QED
    BY <2>1, <2>4 DEF GkSound, RequestGatekeeper
<1>7. QED
  BY <1>4, <1>5, <1>6

LEMMA RequestDeveloperSound ==
  ASSUME TypeOK, QueuesSound, NEW i, RequestDeveloper(i) PROVE QueuesSound'
<1> USE DEF TypeOK, QueuesSound
<1> DEFINE s == IF developers.n = 0 THEN "devWait" ELSE "devGranted"
<1>1. /\ Reports' = Reports /\ i \in Reports
      /\ stage[i] \in {"activated", "gkReleased", "ignored"}
      /\ stage' = [stage EXCEPT ![i] = s]
  BY SameReports, ResumedReport DEF RequestDeveloper
<1>2. \A T : At(T)' = IF s \in T THEN At(T) \cup {i} ELSE At(T) \ {i}
  BY <1>1, StageMoves
<1>3. \A T : i \in At(T) <=> stage[i] \in T
  BY <1>1 DEF At
<1>4. ReadySound'
  <2>1. Holds(Tail(ready), At(ReadyStages) \ {i})
    BY ResumeDropsHead DEF RequestDeveloper
  <2>2. CASE developers.n = 0
    <3>1. s \notin ReadyStages
      BY <2>2 DEF ReadyStages
    <3>2. QED
      BY <1>2, <2>1, <2>2, <3>1 DEF ReadySound, RequestDeveloper
  <2>3. CASE developers.n # 0
    <3>1. s \in ReadyStages /\ i \in At(ReadyStages)
      BY <1>1, <1>3, <2>3 DEF ReadyStages
    <3>2. At(ReadyStages)' = At(ReadyStages) /\ ready' = ready
      BY <1>2, <2>3, <3>1 DEF RequestDeveloper
    <3>3. QED
      BY <3>2 DEF ReadySound
  <2>4. QED
    BY <2>2, <2>3
<1>5. GkSound'
  <2>1. GkHolders' = GkHolders /\ At({"gkWait"})' = At({"gkWait"})
    BY <1>1, <1>2, <1>3 DEF GkHolders
  <2>2. QED
    BY <2>1 DEF GkSound, RequestDeveloper
<1>6. DevSound'
  <2>1. /\ DevHolders' = IF developers.n = 0 THEN DevHolders ELSE DevHolders \cup {i}
        /\ At({"devWait"})' = IF developers.n = 0 THEN At({"devWait"}) \cup {i} ELSE At({"devWait"})
    BY <1>1, <1>2, <1>3 DEF DevHolders
  <2>2. i \notin DevHolders /\ i \notin At({"devWait"}) /\ IsFiniteSet(DevHolders)
    BY <1>1, <1>3, ReportsAreFinite DEF DevHolders
  <2>3. developers \in [n : Nat, waitQ : Seq(Reports)]
    BY DEF ResourcesOK
  <2>4. Sound(Request(developers, i, QueuePriority), TeamCapacity,
              IF developers.n = 0 THEN DevHolders ELSE DevHolders \cup {i},
              IF developers.n = 0 THEN At({"devWait"}) \cup {i} ELSE At({"devWait"}))
    BY <1>1, <2>2, <2>3, RequestKeepsSound DEF DevSound
  <2>5. QED
    BY <2>1, <2>4 DEF DevSound, RequestDeveloper
<1>7. QED
  BY <1>4, <1>5, <1>6

(* A report that holds what it held, or nothing, leaves the resources      *)
(* alone: it only leaves the ones to resume.                               *)
LEMMA RunOnSound ==
  ASSUME TypeOK, QueuesSound, NEW i, Resumes(i), NEW from, NEW s,
         UNCHANGED <<arrivals, developers, gatekeepers>>,
         stage[i] = from, stage' = [stage EXCEPT ![i] = s], ready' = Tail(ready),
         <<from, s>> \in {<<"gkGranted", "review">>, <<"devGranted", "fix">>,
                          <<"ignored", "discarded">>, <<"devReleased", "fixed">>}
  PROVE  QueuesSound'
<1> USE DEF TypeOK, QueuesSound
<1>1. Reports' = Reports /\ i \in Reports
  BY SameReports, ResumedReport
<1>2. \A T : At(T)' = IF s \in T THEN At(T) \cup {i} ELSE At(T) \ {i}
  BY <1>1, StageMoves
<1>3. \A T : i \in At(T) <=> from \in T
  BY <1>1 DEF At
<1>4. ReadySound'
  <2>1. s \notin ReadyStages
    BY DEF ReadyStages
  <2>2. Holds(Tail(ready), At(ReadyStages) \ {i})
    BY ResumeDropsHead
  <2>3. QED
    BY <1>2, <2>1, <2>2 DEF ReadySound
<1>5. DevSound'
  <2>1. DevHolders' = DevHolders /\ At({"devWait"})' = At({"devWait"})
    BY <1>2, <1>3 DEF DevHolders
  <2>2. QED
    BY <2>1 DEF DevSound
<1>6. GkSound'
  <2>1. GkHolders' = GkHolders /\ At({"gkWait"})' = At({"gkWait"})
    BY <1>2, <1>3 DEF GkHolders
  <2>2. QED
    BY <2>1 DEF GkSound
<1>7. QED
  BY <1>4, <1>5, <1>6

(* What a release does to the report that releases and the one woken.      *)
LEMMA WokenWaits ==
  ASSUME TypeOK, QueuesSound
  PROVE  /\ Holds(Woken(developers), Range(Woken(developers)))
         /\ Range(Woken(developers)) \subseteq At({"devWait"})
         /\ Holds(Woken(gatekeepers), Range(Woken(gatekeepers)))
         /\ Range(Woken(gatekeepers)) \subseteq At({"gkWait"})
<1>1. ASSUME NEW res, NEW W, Holds(res.waitQ, W), res.waitQ \in Seq(Reports)
      PROVE  Holds(Woken(res), Range(Woken(res))) /\ Range(Woken(res)) \subseteq W
  <2>1. CASE res.waitQ = << >>
    BY <2>1 DEF Woken, Holds, IsInjective, Range
  <2>2. CASE res.waitQ # << >>
    <3>1. Head(res.waitQ) \in W
      BY <1>1, <2>2, TailDropsHead DEF Holds
    <3>2. Woken(res) = <<Head(res.waitQ)>>
      BY <2>2 DEF Woken
    <3>3. QED
      BY <3>1, <3>2 DEF Holds, IsInjective, Range
  <2>3. QED
    BY <2>1, <2>2
<1>2. developers.waitQ \in Seq(Reports) /\ gatekeepers.waitQ \in Seq(Reports)
  BY DEF TypeOK, ResourcesOK
<1>3. Holds(developers.waitQ, At({"devWait"})) /\ Holds(gatekeepers.waitQ, At({"gkWait"}))
  BY DEF QueuesSound, DevSound, GkSound, Sound
<1>4. QED
  BY <1>1, <1>2, <1>3

LEMMA EndReviewSound ==
  ASSUME TypeOK, QueuesSound, NEW i \in Reports, EndReview(i) PROVE QueuesSound'
<1> USE DEF TypeOK, QueuesSound
<1> DEFINE W == Range(Woken(gatekeepers))
<1>1. Reports' = Reports /\ stage[i] = "review" /\ ready = << >>
  BY SameReports DEF EndReview, Fires
<1>2. W \subseteq At({"gkWait"}) /\ Holds(Woken(gatekeepers), W)
  BY WokenWaits
<1>3. W \subseteq Reports /\ i \notin W
  BY <1>1, <1>2 DEF At
<1>4. \A T : At(T)' = (At(T) \ ({i} \cup W)) \cup (IF "gkReleased" \in T THEN {i} ELSE {})
                        \cup (IF "gkGranted" \in T THEN W ELSE {})
  BY <1>1, <1>3, HandOverMoves DEF EndReview
<1>5. \A T : i \in At(T) <=> "review" \in T
  BY <1>1 DEF At
<1>6. \A T : "gkWait" \notin T => W \cap At(T) = {}
  BY <1>2 DEF At
<1>7. ReadySound'
  <2>1. At(ReadyStages) = {}
    BY <1>1 DEF ReadySound, Holds, Range
  <2>2. "gkReleased" \in ReadyStages /\ "gkGranted" \in ReadyStages
    BY DEF ReadyStages
  <2>3. At(ReadyStages)' = {i} \cup W
    BY <1>4, <2>1, <2>2
  <2>4. Woken(gatekeepers) \in Seq(Reports)
    BY ReleaseType DEF ResourcesOK
  <2>5. Holds(<<i>> \o Woken(gatekeepers), {i} \cup W)
    BY <1>2, <1>3, <2>4, ConcatHolds, SingletonHolds
  <2>6. QED
    BY <2>3, <2>5 DEF ReadySound, EndReview
<1>8. DevSound'
  <2>1. DevHolders' = DevHolders /\ At({"devWait"})' = At({"devWait"})
    BY <1>4, <1>5, <1>6 DEF DevHolders
  <2>2. QED
    BY <2>1 DEF DevSound, EndReview
<1>9. GkSound'
  <2>1. /\ GkHolders' = (GkHolders \ {i}) \cup W
        /\ At({"gkWait"})' = At({"gkWait"}) \ W
    BY <1>4, <1>5, <1>6 DEF GkHolders
  <2>2. i \in GkHolders /\ IsFiniteSet(GkHolders) /\ At({"gkWait"}) \cap GkHolders = {}
    BY <1>5, ReportsAreFinite DEF GkHolders, At
  <2>3. gatekeepers \in [n : Nat, waitQ : Seq(Reports)]
    BY DEF ResourcesOK
  <2>4. Sound(Release(gatekeepers), GatekeeperCapacity, (GkHolders \ {i}) \cup W, At({"gkWait"}) \ W)
    BY <2>2, <2>3, ReleaseKeepsSound DEF GkSound
  <2>5. QED
    BY <2>1, <2>4 DEF GkSound, EndReview
<1>10. QED
  BY <1>7, <1>8, <1>9

(* The release of a developer, by a report that had one ignored or fixed.  *)
LEMMA ReleaseDeveloperSound ==
  ASSUME TypeOK, QueuesSound, NEW i \in Reports, NEW s, s \in {"ignored", "devReleased"},
         stage[i] \in {"devGranted", "fix"},
         UNCHANGED <<arrivals, gatekeepers>>, developers' = Release(developers),
         stage' = HandOver(i, s, developers, "devGranted"),
         NEW rest \in Seq(Reports), Holds(rest, At(ReadyStages) \ {i}),
         ready' = <<i>> \o Woken(developers) \o rest
  PROVE  QueuesSound'
<1> USE DEF TypeOK, QueuesSound
<1> DEFINE W == Range(Woken(developers))
<1>1. Reports' = Reports
  BY SameReports
<1>2. W \subseteq At({"devWait"}) /\ Holds(Woken(developers), W)
  BY WokenWaits
<1>3. W \subseteq Reports /\ i \notin W
  BY <1>2 DEF At
<1>4. \A T : At(T)' = (At(T) \ ({i} \cup W)) \cup (IF s \in T THEN {i} ELSE {})
                        \cup (IF "devGranted" \in T THEN W ELSE {})
  BY <1>1, <1>3, HandOverMoves
<1>5. \A T : i \in At(T) <=> stage[i] \in T
  BY DEF At
<1>6. \A T : "devWait" \notin T => W \cap At(T) = {}
  BY <1>2 DEF At
<1>7. ReadySound'
  <2>1. s \in ReadyStages /\ "devGranted" \in ReadyStages /\ "devWait" \notin ReadyStages
    BY DEF ReadyStages
  <2>2. At(ReadyStages)' = ({i} \cup W) \cup (At(ReadyStages) \ {i})
    BY <1>4, <1>6, <2>1
  <2>3. Woken(developers) \in Seq(Reports)
    BY ReleaseType DEF ResourcesOK
  <2>4. /\ <<i>> \o Woken(developers) \in Seq(Reports)
        /\ Holds(<<i>> \o Woken(developers), {i} \cup W)
    BY <1>2, <1>3, <2>3, ConcatHolds, SingletonHolds
  <2>5. ({i} \cup W) \cap (At(ReadyStages) \ {i}) = {}
    BY <1>6, <2>1
  <2>6. Holds(<<i>> \o Woken(developers) \o rest, ({i} \cup W) \cup (At(ReadyStages) \ {i}))
    BY <2>4, <2>5, ConcatHolds
  <2>7. QED
    BY <2>2, <2>6 DEF ReadySound
<1>8. GkSound'
  <2>1. ASSUME NEW T, T \in {{"gkWait"}, {"gkGranted", "review"}} PROVE At(T)' = At(T)
    <3>1. s \notin T /\ "devGranted" \notin T /\ "devWait" \notin T /\ stage[i] \notin T
      BY <2>1
    <3>2. i \notin At(T) /\ W \cap At(T) = {}
      BY <1>5, <1>6, <3>1
    <3>3. At(T)' = At(T) \ ({i} \cup W)
      BY <1>4, <3>1
    <3>4. QED
      BY <3>2, <3>3
  <2>2. QED
    BY <2>1 DEF GkSound, GkHolders
<1>9. DevSound'
  <2>1. /\ DevHolders' = (DevHolders \ {i}) \cup W
        /\ At({"devWait"})' = At({"devWait"}) \ W
    BY <1>4, <1>5, <1>6 DEF DevHolders
  <2>2. i \in DevHolders /\ IsFiniteSet(DevHolders) /\ At({"devWait"}) \cap DevHolders = {}
    BY <1>5, ReportsAreFinite DEF DevHolders, At
  <2>3. developers \in [n : Nat, waitQ : Seq(Reports)]
    BY DEF ResourcesOK
  <2>4. Sound(Release(developers), TeamCapacity, (DevHolders \ {i}) \cup W, At({"devWait"}) \ W)
    BY <2>2, <2>3, ReleaseKeepsSound DEF DevSound
  <2>5. QED
    BY <2>1, <2>4 DEF DevSound
<1>10. QED
  BY <1>7, <1>8, <1>9

LEMMA IgnoreReportSound ==
  ASSUME TypeOK, QueuesSound, NEW i, IgnoreReport(i) PROVE QueuesSound'
<1>1. i \in Reports /\ Tail(ready) \in Seq(Reports) /\ Holds(Tail(ready), At(ReadyStages) \ {i})
  BY ResumedReport, ResumeDropsHead DEF IgnoreReport, TypeOK, QueuesSound
<1>2. QED
  BY <1>1, ReleaseDeveloperSound DEF IgnoreReport

LEMMA EndFixSound ==
  ASSUME TypeOK, QueuesSound, NEW i \in Reports, EndFix(i) PROVE QueuesSound'
<1>1. ready = << >> /\ stage[i] = "fix"
  BY DEF EndFix, Fires
<1>2. At(ReadyStages) = {}
  BY <1>1 DEF QueuesSound, ReadySound, Holds, Range
<1>3. << >> \in Seq(Reports) /\ Holds(<< >>, At(ReadyStages) \ {i})
  BY <1>2 DEF Holds, IsInjective, Range
<1>4. <<i>> \o Woken(developers) \in Seq(Reports)
  BY ReleaseType, ConsType DEF TypeOK, ResourcesOK
<1>5. ready' = <<i>> \o Woken(developers) \o << >>
  BY <1>4 DEF EndFix
<1>6. QED
  BY <1>1, <1>3, <1>5, ReleaseDeveloperSound DEF EndFix

(* A batch only adds reports that are activated, in the order of filing.   *)
LEMMA StartReportingSound ==
  ASSUME TypeOK, QueuesSound, StartReporting PROVE QueuesSound'
<1> USE DEF TypeOK, QueuesSound
<1>1. PICK size \in BatchSizes :
        \E draw \in [(bug_counter + 1)..(bug_counter + size) -> NewReports(next_batch)] :
          FileBatch((bug_counter + 1)..(bug_counter + size), draw)
  BY DEF StartReporting
<1> DEFINE new == (bug_counter + 1)..(bug_counter + size)
<1>2. size \in Nat /\ bug_counter \in Nat
  BY DurationAssumption DEF ReportsOK
<1>3. /\ IsFiniteSet(new) /\ Cardinality(new) = size
      /\ Reports \cup new = 1..(bug_counter + size) /\ Reports \cap new = {}
  BY <1>2, BatchIds
<1>4. /\ Reports' = Reports \cup new
      /\ ready' = [k \in 1..size |-> bug_counter + k]
      /\ stage' = [i \in Reports \cup new |-> IF i \in new THEN "activated" ELSE stage[i]]
  <2>1. bug_counter' = bug_counter + size
    BY <1>1, <1>3 DEF FileBatch
  <2>2. Reports' = 1..bug_counter'
    BY DEF Reports
  <2>3. ready' = [k \in 1..size |-> bug_counter + k]
    BY <1>1, <1>3 DEF FileBatch
  <2>4. stage' = [i \in Reports \cup new |-> IF i \in new THEN "activated" ELSE stage[i]]
    BY <1>1 DEF FileBatch
  <2>5. QED
    BY <1>3, <2>1, <2>2, <2>3, <2>4
<1>5. \A T : At(T)' = At(T) \cup (IF "activated" \in T THEN new ELSE {})
  <2> HIDE DEF new
  <2>1. \A T : At(T)' = {i \in Reports \cup new : stage'[i] \in T}
    BY <1>4 DEF At
  <2>2. QED
    BY <1>3, <1>4, <2>1 DEF At
<1>6. ReadySound'
  <2>1. At(ReadyStages) = {}
    BY DEF StartReporting, Fires, ReadySound, Holds, Range
  <2>2. At(ReadyStages)' = new
    BY <1>5, <2>1 DEF ReadyStages
  <2>3. IsInjective(ready') /\ Range(ready') = new
    <3>1. \A k \in new : k - bug_counter \in 1..size /\ k = bug_counter + (k - bug_counter)
      BY <1>2
    <3>2. \A k \in 1..size : bug_counter + k \in new
      BY <1>2
    <3> DEFINE b == bug_counter
    <3>3. b \in Nat /\ ready' = [k \in 1..size |-> b + k]
      BY <1>2, <1>4
    <3> HIDE DEF new
    <3>4. Range(ready') = new
      BY <3>1, <3>2, <3>3 DEF Range
    <3> HIDE DEF b
    <3>5. IsInjective(ready')
      BY <1>2, <3>3 DEF IsInjective
    <3>6. QED
      BY <3>4, <3>5
  <2>4. QED
    BY <2>2, <2>3 DEF ReadySound, Holds
<1>7. DevSound' /\ GkSound'
  <2>1. /\ At({"devWait"})' = At({"devWait"}) /\ At({"gkWait"})' = At({"gkWait"})
        /\ DevHolders' = DevHolders /\ GkHolders' = GkHolders
    BY <1>5 DEF DevHolders, GkHolders
  <2>2. QED
    BY <2>1 DEF StartReporting, DevSound, GkSound
<1>8. QED
  BY <1>6, <1>7

LEMMA InitQueuesSound == Init => QueuesSound
<1> SUFFICES ASSUME Init PROVE QueuesSound
  OBVIOUS
<1>1. Reports = {}
  BY DEF Init, Reports
<1>2. \A T : At(T) = {}
  BY <1>1 DEF At
<1>3. ReadySound
  BY <1>2 DEF Init, ReadySound, Holds, IsInjective, Range
<1>4. \A c \in Nat : Sound(NewResource(c), c, {}, {})
  BY FS_EmptySet DEF Sound, Holds, IsInjective, Range, NewResource
<1>5. DevSound /\ GkSound
  BY <1>2, <1>4, ConfigAssumption DEF Init, DevSound, GkSound, DevHolders, GkHolders
<1>6. QED
  BY <1>3, <1>5 DEF QueuesSound

LEMMA StepQueuesSound == TypeOK /\ QueuesSound /\ [Next]_vars => QueuesSound'
<1> SUFFICES ASSUME TypeOK, QueuesSound, [Next]_vars PROVE QueuesSound'
  OBVIOUS
<1>1. CASE StartReporting
  BY <1>1, StartReportingSound
<1>2. ASSUME NEW i \in Reports, StartReview(i) \/ DiscardReport(i) \/ StartFix(i) \/ Resolve(i)
      PROVE  QueuesSound'
  <2>1. CASE StartReview(i)
    BY <2>1, RunOnSound DEF StartReview
  <2>2. CASE DiscardReport(i)
    BY <2>2, RunOnSound DEF DiscardReport
  <2>3. CASE StartFix(i)
    BY <2>3, RunOnSound DEF StartFix
  <2>4. CASE Resolve(i)
    BY <2>4, RunOnSound DEF Resolve
  <2>5. QED
    BY <1>2, <2>1, <2>2, <2>3, <2>4
<1>3. ASSUME NEW i \in Reports, ReportStep(i) PROVE QueuesSound'
  BY <1>2, <1>3, RequestGatekeeperSound, RequestDeveloperSound, EndReviewSound,
     IgnoreReportSound, EndFixSound DEF ReportStep
<1>4. CASE UNCHANGED <<ready, arrivals, stage, developers, gatekeepers>>
  <2>1. Reports' = Reports
    BY <1>4, SameReports
  <2>2. \A T : At(T)' = At(T)
    BY <1>4, <2>1 DEF At
  <2>3. QED
    BY <1>4, <2>2 DEF QueuesSound, ReadySound, DevSound, GkSound, DevHolders, GkHolders
<1>5. Control \/ TimeUp \/ UNCHANGED vars
        => UNCHANGED <<ready, arrivals, stage, developers, gatekeepers>>
  BY DEF Control, TimeUp, vars, scheduler
<1>6. QED
  BY <1>1, <1>3, <1>4, <1>5 DEF Next, Finished

(* No report is lost, queued twice or resumed twice, whatever the teams,   *)
(* the process and the interleaving.                                       *)
THEOREM PlacementHolds == Spec => []Placement
<1>1. QED
  BY InitTypeOK, StepTypeOK, InitQueuesSound, StepQueuesSound, QueuesSoundIsTheInvariant, PTL DEF Spec

(* Units of both teams are neither lost nor invented.                      *)
THEOREM UnitsAreConserved == Spec => []UnitsConserved
<1>1. QED
  BY InitTypeOK, StepTypeOK, InitQueuesSound, StepQueuesSound, QueuesSoundIsTheInvariant, PTL DEF Spec

(* No report waits for a developer or a gatekeeper while one is free.      *)
THEOREM NoUnitIsIdle == Spec => []NoIdleUnit
<1>1. QED
  BY InitTypeOK, StepTypeOK, InitQueuesSound, StepQueuesSound, QueuesSoundIsTheInvariant, PTL DEF Spec

-----------------------------------------------------------------------------
(* The order of the developers' queue.                                     *)

LEMMA QueuePriorityIsInt ==
  ASSUME ReportsOK, NEW i \in Reports PROVE QueuePriority[i] \in Int
<1>1. report[i] \in Report
  BY DEF ReportsOK
<1>2. report[i].report_priority \in Int /\ report[i].arrival_time \in Int
  BY <1>1 DEF Report, SupportedPriorities, NonSevere, Severe
<1>3. HourLength \in Nat \ {0}
  BY DurationAssumption
<1>4. report[i].arrival_time \div HourLength \in Int
  BY <1>2, <1>3
<1>5. QED
  BY <1>2, <1>4 DEF QueuePriority

(* A queue stays ordered when the priorities of those in it stay.          *)
LEMMA OrderedByKey ==
  ASSUME NEW q, NEW key, NEW key2, Ordered(q, key), \A x \in Range(q) : key2[x] = key[x]
  PROVE  Ordered(q, key2)
BY DEF Ordered, Range

(* Nothing that happens to other reports changes the priority a waiting    *)
(* report requested with.                                                  *)
LEMMA WaitingKeepsPriority ==
  ASSUME ReportsOK, [Next]_vars, NEW i \in At({"devWait"})
  PROVE  i \in Reports' /\ QueuePriority'[i] = QueuePriority[i]
<1>1. i \in Reports /\ stage[i] = "devWait"
  BY DEF At
<1>2. CASE StartReporting
  <2>1. PICK size \in BatchSizes :
          \E draw \in [(bug_counter + 1)..(bug_counter + size) -> NewReports(next_batch)] :
            FileBatch((bug_counter + 1)..(bug_counter + size), draw)
    BY <1>2 DEF StartReporting
  <2> DEFINE new == (bug_counter + 1)..(bug_counter + size)
  <2>2. size \in Nat /\ bug_counter \in Nat
    BY DurationAssumption DEF ReportsOK
  <2>3. /\ Cardinality(new) = size /\ Reports \cap new = {}
        /\ Reports \cup new = 1..(bug_counter + size)
    BY <2>2, BatchIds
  <2>4. Reports' = Reports \cup new
    <3>1. bug_counter' = bug_counter + size
      BY <2>1, <2>3 DEF FileBatch
    <3>2. Reports' = 1..bug_counter'
      BY DEF Reports
    <3>3. QED
      BY <2>3, <3>1, <3>2
  <2>5. report'[i] = report[i]
    <3>1. report' = [j \in Reports \cup new |->
                       IF j \in new THEN report'[j] ELSE report[j]] /\ i \notin new
      BY <1>1, <2>1, <2>3 DEF FileBatch
    <3>2. QED
      BY <1>1, <3>1
  <2>6. QED
    BY <1>1, <2>4, <2>5 DEF QueuePriority
<1>3. ASSUME Reports' = Reports,
             report'[i].report_priority = report[i].report_priority,
             report'[i].arrival_time = report[i].arrival_time
      PROVE  i \in Reports' /\ QueuePriority'[i] = QueuePriority[i]
  BY <1>1, <1>3 DEF QueuePriority
<1>4. CASE UNCHANGED <<arrivals, report>>
  BY <1>3, <1>4, SameReports
<1>5. ASSUME NEW j \in Reports, EndReview(j) \/ IgnoreReport(j)
      PROVE  i \in Reports' /\ QueuePriority'[i] = QueuePriority[i]
  <2>1. stage[j] \in {"review", "devGranted"} /\ i # j
    BY <1>1, <1>5 DEF EndReview, IgnoreReport
  <2>2. report'[i] = report[i]
    BY <1>1, <1>5, <2>1 DEF EndReview, IgnoreReport, ReportsOK, CorrectPriority
  <2>3. QED
    BY <1>3, <1>5, <2>2, SameReports DEF EndReview, IgnoreReport
<1>6. ASSUME NEW j \in Reports, ReportStep(j)
      PROVE  EndReview(j) \/ IgnoreReport(j) \/ UNCHANGED <<arrivals, report>>
  BY <1>6 DEF ReportStep, RequestGatekeeper, StartReview, RequestDeveloper, DiscardReport,
              StartFix, EndFix, Resolve
<1>7. Control \/ TimeUp \/ UNCHANGED vars => UNCHANGED <<arrivals, report>>
  BY DEF Control, TimeUp, vars
<1>8. QED
  BY <1>2, <1>4, <1>5, <1>6, <1>7 DEF Next, Finished

(* What a step may do to the developers.                                   *)
LEMMA DevelopersChange ==
  ASSUME TypeOK, [Next]_vars
  PROVE  \/ developers' = developers
         \/ \E i \in Reports : RequestDeveloper(i) /\ i \notin At({"devWait"})
         \/ developers' = Release(developers)
<1>1. ASSUME NEW i \in Reports, RequestDeveloper(i) PROVE i \notin At({"devWait"})
  BY <1>1 DEF RequestDeveloper, At
<1>2. ASSUME NEW i \in Reports, ReportStep(i)
      PROVE  \/ developers' = developers \/ RequestDeveloper(i)
             \/ developers' = Release(developers)
  BY <1>2 DEF ReportStep, RequestGatekeeper, StartReview, EndReview, IgnoreReport,
              DiscardReport, StartFix, EndFix, Resolve
<1>3. StartReporting \/ Control \/ TimeUp \/ UNCHANGED vars => developers' = developers
  BY DEF StartReporting, Control, TimeUp, vars
<1>4. QED
  BY <1>1, <1>2, <1>3 DEF Next, Finished

LEMMA StepQueueOrdered ==
  ASSUME TypeOK, QueuesSound, QueueOrdered, [Next]_vars PROVE QueueOrdered'
<1> DEFINE q == developers.waitQ
<1>1. /\ ReportsOK /\ q \in Seq(Reports) /\ Range(q) = At({"devWait"})
      /\ \A x \in Reports : QueuePriority[x] \in Int
  BY QueuePriorityIsInt DEF TypeOK, ResourcesOK, QueuesSound, DevSound, Sound, Holds
<1>2. \A x \in Range(q) : QueuePriority'[x] = QueuePriority[x]
  BY <1>1, WaitingKeepsPriority
<1>3. CASE developers' = developers
  <2>1. Ordered(q, QueuePriority')
    BY <1>2, OrderedByKey DEF QueueOrdered
  <2>2. QED
    BY <1>3, <2>1 DEF QueueOrdered
<1>4. CASE developers' = Release(developers)
  <2>1. CASE q = << >>
    <3>1. developers'.waitQ = q
      BY <1>4, <2>1 DEF Release, TypeOK, ResourcesOK
    <3>2. Ordered(q, QueuePriority')
      BY <1>2, OrderedByKey DEF QueueOrdered
    <3>3. QED
      BY <3>1, <3>2 DEF QueueOrdered
  <2>2. CASE q # << >>
    <3>1. developers'.waitQ = Tail(q)
      BY <1>4, <2>2 DEF Release, TypeOK, ResourcesOK
    <3>2. Ordered(Tail(q), QueuePriority)
      BY <1>1, <2>2, TailKeepsOrder DEF QueueOrdered
    <3>3. \A x \in Range(Tail(q)) : QueuePriority'[x] = QueuePriority[x]
      <4>1. Range(Tail(q)) \subseteq Range(q)
        <5>1. IsInjective(q)
          BY DEF QueuesSound, DevSound, Sound, Holds
        <5>2. QED
          BY <1>1, <2>2, <5>1, TailDropsHead
      <4>2. QED
        BY <1>2, <4>1
    <3>4. Ordered(Tail(q), QueuePriority')
      BY <3>2, <3>3, OrderedByKey
    <3>5. QED
      BY <3>1, <3>4 DEF QueueOrdered
  <2>3. QED
    BY <2>1, <2>2
<1>5. ASSUME NEW i \in Reports, RequestDeveloper(i) PROVE QueueOrdered'
  <2>1. QueuePriority' = QueuePriority
    <3>1. Reports' = Reports /\ report' = report
      BY <1>5, SameReports DEF RequestDeveloper
    <3>2. QED
      BY <3>1 DEF QueuePriority
  <2>2. Ordered(developers'.waitQ, QueuePriority)
    <3>1. developers' = Request(developers, i, QueuePriority)
      BY <1>5 DEF RequestDeveloper
    <3>2. CASE developers.n = 0
      <4>1. developers'.waitQ = Enter(q, i, QueuePriority)
        BY <3>1, <3>2 DEF Request, TypeOK, ResourcesOK
      <4>2. Ordered(Enter(q, i, QueuePriority), QueuePriority)
        BY <1>1, EnterKeepsOrder DEF QueueOrdered
      <4>3. QED
        BY <4>1, <4>2
    <3>3. CASE developers.n # 0
      BY <3>1, <3>3 DEF Request, QueueOrdered, TypeOK, ResourcesOK
    <3>4. QED
      BY <3>2, <3>3
  <2>3. QED
    BY <2>1, <2>2 DEF QueueOrdered
<1>6. QED
  BY <1>3, <1>4, <1>5, DevelopersChange

LEMMA InitQueueOrdered == Init => QueueOrdered
BY DEF Init, QueueOrdered, NewResource, Ordered

(* The inductive invariant of the reporting process.                       *)
THEOREM InvariantHolds == Spec => []IInv
<1>1. Init => TypeOK /\ QueuesSound /\ QueueOrdered
  BY InitTypeOK, InitQueuesSound, InitQueueOrdered
<1>2. TypeOK /\ QueuesSound /\ QueueOrdered /\ [Next]_vars => (TypeOK /\ QueuesSound /\ QueueOrdered)'
  BY StepTypeOK, StepQueuesSound, StepQueueOrdered
<1>3. TypeOK /\ QueuesSound /\ QueueOrdered => IInv
  BY QueuesSoundIsTheInvariant DEF IInv
<1>4. QED
  BY <1>1, <1>2, <1>3, PTL DEF Spec

(* The developers' queue is always served by priority.                     *)
THEOREM QueueStaysOrdered == Spec => []QueueOrdered
<1>1. IInv => QueueOrdered
  BY DEF IInv
<1>2. QED
  BY <1>1, InvariantHolds, PTL
=============================================================================
