-------------------------- MODULE EliminationProofs -------------------------
(***************************************************************************)
(* Proofs about Elimination, for every game and every number of players    *)
(* and strategies: each level of supports consists of the strategies that  *)
(* are undominated in the level above, whatever swaps the search makes,    *)
(* and strict elimination keeps every equilibrium.                         *)
(***************************************************************************)
EXTENDS Elimination, FiniteSetTheorems, WellFoundedInduction, TLAPS

-----------------------------------------------------------------------------
(* Dominance.                                                              *)

Dominance(support, pl) ==
  {st \in support[pl] \X support[pl] : Dominates(support, pl, st[1], st[2])}

LEMMA ProfilesInside ==
  ASSUME NEW pl \in Players, NEW p \in Profiles, NEW s \in Strategies(pl)
  PROVE  [p EXCEPT ![pl] = s] \in Profiles
BY DEF Profiles

LEMMA ValueIsInt ==
  ASSUME payoff \in [Profiles -> [Players -> Int]],
         NEW pl \in Players, NEW p \in Profiles, NEW s \in Strategies(pl)
  PROVE  GetStrategyValue(p, pl, s) \in Int
BY ProfilesInside DEF GetStrategyValue

(* A support leaves some profile.                                          *)
LEMMA SomeProfile ==
  ASSUME NEW support \in Supports
  PROVE  Within(support) # {}
<1> DEFINE p == [pl \in Players |-> CHOOSE s \in support[pl] : TRUE]
<1>1. \A pl \in Players : p[pl] \in support[pl] /\ support[pl] \subseteq Strategies(pl)
  BY DEF Supports
<1>2. p \in Within(support)
  BY <1>1 DEF Within, Profiles
<1> QED BY <1>2

LEMMA DominanceTransitive ==
  ASSUME payoff \in [Profiles -> [Players -> Int]], strict \in BOOLEAN,
         NEW support \in Supports, NEW pl \in Players,
         NEW r \in support[pl], NEW s \in support[pl], NEW t \in support[pl],
         Dominates(support, pl, r, s), Dominates(support, pl, s, t)
  PROVE  Dominates(support, pl, r, t)
<1> DEFINE v(p, x) == GetStrategyValue(p, pl, x)
<1>1. \A p \in Within(support) : v(p, r) \in Int /\ v(p, s) \in Int /\ v(p, t) \in Int
  BY ValueIsInt DEF Supports, Within
<1> HIDE DEF v
<1>2. CASE strict
  BY <1>1, <1>2 DEF Dominates, StrictlyDominates, v
<1>3. CASE ~strict
  <2>1. \A p \in Within(support) : v(p, r) >= v(p, s) /\ v(p, s) >= v(p, t)
    BY <1>3 DEF Dominates, WeaklyDominates, v
  <2>2. PICK p \in Within(support) : v(p, r) > v(p, s)
    BY <1>3 DEF Dominates, WeaklyDominates, v
  <2>3. \A q \in Within(support) : v(q, r) >= v(q, t)
    BY <1>1, <2>1
  <2>4. v(p, r) > v(p, t)
    BY <1>1, <2>1, <2>2
  <2> QED BY <1>3, <2>3, <2>4 DEF Dominates, WeaklyDominates, v
<1> QED BY <1>2, <1>3

LEMMA DominanceIrreflexive ==
  ASSUME payoff \in [Profiles -> [Players -> Int]], strict \in BOOLEAN,
         NEW support \in Supports, NEW pl \in Players, NEW s \in support[pl]
  PROVE  ~Dominates(support, pl, s, s)
<1>1. \A p \in Within(support) : GetStrategyValue(p, pl, s) \in Int
  BY ValueIsInt DEF Supports, Within
<1>2. PICK p \in Within(support) : TRUE
  BY SomeProfile
<1>3. \A q \in Within(support) : ~(GetStrategyValue(q, pl, s) > GetStrategyValue(q, pl, s))
  BY <1>1
<1> QED BY <1>2, <1>3 DEF Dominates, StrictlyDominates, WeaklyDominates

(* An order R on a set of strategies, as dominance is.                     *)
IsOrder(R) ==
  /\ \A s : <<s, s>> \notin R
  /\ \A r, s, t : <<r, s>> \in R /\ <<s, t>> \in R => <<r, t>> \in R

LEMMA DominanceIsOrder ==
  ASSUME payoff \in [Profiles -> [Players -> Int]], strict \in BOOLEAN,
         NEW support \in Supports, NEW pl \in Players
  PROVE  IsOrder(Dominance(support, pl))
<1>1. \A s : <<s, s>> \notin Dominance(support, pl)
  BY DominanceIrreflexive DEF Dominance
<1>2. ASSUME NEW r, NEW s, NEW t,
             <<r, s>> \in Dominance(support, pl), <<s, t>> \in Dominance(support, pl)
      PROVE  <<r, t>> \in Dominance(support, pl)
  <2>1. /\ r \in support[pl] /\ s \in support[pl] /\ t \in support[pl]
        /\ Dominates(support, pl, r, s) /\ Dominates(support, pl, s, t)
    BY <1>2 DEF Dominance
  <2>2. Dominates(support, pl, r, t)
    BY <2>1, DominanceTransitive
  <2> QED BY <2>1, <2>2 DEF Dominance
<1> QED BY <1>1, <1>2 DEF IsOrder

(* No equilibrium within a support plays a strategy strictly dominated     *)
(* there.                                                                  *)
LEMMA NashIsUndominated ==
  ASSUME payoff \in [Profiles -> [Players -> Int]], strict = TRUE,
         NEW support \in Supports, NEW pl \in Players,
         NEW p \in Within(support), IsNash(p)
  PROVE  p[pl] \in Undominated(support, pl)
<1> SUFFICES ASSUME NEW s \in support[pl], Dominates(support, pl, s, p[pl])
             PROVE  FALSE
  BY DEF Undominated, Within
<1>1. p \in Profiles /\ s \in Strategies(pl) /\ p[pl] \in Strategies(pl)
  BY DEF Within, Supports
<1>2. GetStrategyValue(p, pl, s) > GetStrategyValue(p, pl, p[pl])
  BY DEF Dominates, StrictlyDominates
<1>3. GetStrategyValue(p, pl, p[pl]) = payoff[p][pl]
  <2>1. [p EXCEPT ![pl] = p[pl]] = p
    BY <1>1 DEF Profiles
  <2> QED BY <2>1 DEF GetStrategyValue
<1>4. GetStrategyValue(p, pl, s) <= payoff[p][pl]
  BY <1>1 DEF IsNash
<1>5. GetStrategyValue(p, pl, s) \in Int /\ payoff[p][pl] \in Int
  BY <1>1, ValueIsInt
<1> QED BY <1>2, <1>3, <1>4, <1>5

-----------------------------------------------------------------------------
(* The array of the search: q lists the strategies of S, the first m are   *)
(* accepted, those after top have been beaten.                             *)

Enumerates(q, S) ==
  /\ q \in Seq(Nat)
  /\ \A i \in 1..Len(q) : q[i] \in S
  /\ \A s \in S : \E i \in 1..Len(q) : q[i] = s
  /\ \A i, j \in 1..Len(q) : q[i] = q[j] => i = j

Accepted(R, q, m) == \A i, j \in 1..m : <<q[i], q[j]>> \notin R
Harmless(R, q, m, top) == \A i \in 1..m : \A j \in (m + 1)..top : <<q[j], q[i]>> \notin R
Beaten(R, q, top) == \A j \in (top + 1)..Len(q) : \E i \in 1..top : <<q[i], q[j]>> \in R

(* The candidate is at m + 1; those up to position k were put aside.       *)
Candidate(R, q, m, k) ==
  /\ \A i \in 1..m : <<q[i], q[m + 1]>> \notin R
  /\ \A j \in (m + 2)..k : <<q[j], q[m + 1]>> \notin R

Swap(q, r, a, b) ==
  /\ r \in Seq(Nat) /\ Len(r) = Len(q)
  /\ r[a] = q[b] /\ r[b] = q[a]
  /\ \A k \in 1..Len(q) : k # a /\ k # b => r[k] = q[k]

LEMMA ExceptSwaps ==
  ASSUME NEW q \in Seq(Nat), NEW a \in 1..Len(q), NEW b \in 1..Len(q)
  PROVE  Swap(q, [q EXCEPT ![a] = q[b], ![b] = q[a]], a, b)
BY DEF Swap

LEMMA SwapEnumerates ==
  ASSUME NEW q, NEW r, NEW S, NEW a \in 1..Len(q), NEW b \in 1..Len(q),
         Enumerates(q, S), Swap(q, r, a, b)
  PROVE  Enumerates(r, S)
<1> DEFINE at(k) == IF k = a THEN b ELSE IF k = b THEN a ELSE k
<1>1. \A k \in 1..Len(q) : at(k) \in 1..Len(q) /\ at(at(k)) = k /\ r[k] = q[at(k)]
  BY DEF Swap
<1> HIDE DEF at
<1>2. Len(r) = Len(q) /\ r \in Seq(Nat)
  BY DEF Swap
<1>3. \A i \in 1..Len(r) : r[i] \in S
  BY <1>1, <1>2 DEF Enumerates
<1>4. \A s \in S : \E i \in 1..Len(r) : r[i] = s
  <2> SUFFICES ASSUME NEW s \in S PROVE \E i \in 1..Len(r) : r[i] = s
    OBVIOUS
  <2>1. PICK i \in 1..Len(q) : q[i] = s
    BY DEF Enumerates
  <2>2. at(i) \in 1..Len(r) /\ r[at(i)] = s
    BY <1>1, <1>2, <2>1
  <2> QED BY <2>2
<1>5. \A i, j \in 1..Len(r) : r[i] = r[j] => i = j
  <2> SUFFICES ASSUME NEW i \in 1..Len(r), NEW j \in 1..Len(r), r[i] = r[j] PROVE i = j
    OBVIOUS
  <2>1. q[at(i)] = q[at(j)] /\ at(i) \in 1..Len(q) /\ at(j) \in 1..Len(q)
    BY <1>1, <1>2
  <2>2. at(i) = at(j)
    BY <2>1 DEF Enumerates
  <2> QED BY <1>1, <1>2, <2>2
<1> QED BY <1>2, <1>3, <1>4, <1>5 DEF Enumerates

(* An element that was beaten passes what it beats on to its beater.       *)
LEMMA BeatenPassesOn ==
  ASSUME NEW R, IsOrder(R), NEW q \in Seq(Nat), NEW top \in 1..Len(q), Beaten(R, q, top),
         NEW w \in 1..(top - 1), <<q[w], q[top]>> \in R
  PROVE  Beaten(R, q, top - 1)
<1> SUFFICES ASSUME NEW j \in top..Len(q)
             PROVE  \E i \in 1..(top - 1) : <<q[i], q[j]>> \in R
  BY DEF Beaten
<1>1. CASE j = top
  BY <1>1
<1>2. CASE j # top
  <2>1. PICK i \in 1..top : <<q[i], q[j]>> \in R
    BY <1>2 DEF Beaten
  <2>2. CASE i = top
    BY <2>1, <2>2 DEF IsOrder
  <2>3. CASE i # top
    <3>1. i \in 1..(top - 1)
      BY <2>3
    <3> QED BY <2>1, <3>1
  <2> QED BY <2>2, <2>3
<1> QED BY <1>1, <1>2

(* Swapping among those that are still to be judged changes nothing.       *)
LEMMA SwapKeeps ==
  ASSUME NEW R, NEW q \in Seq(Nat), NEW r, NEW top \in 0..Len(q), NEW m \in Nat,
         NEW a \in (m + 1)..top, NEW b \in (m + 1)..top, Swap(q, r, a, b),
         Accepted(R, q, m), Harmless(R, q, m, top), Beaten(R, q, top)
  PROVE  Accepted(R, r, m) /\ Harmless(R, r, m, top) /\ Beaten(R, r, top)
<1>1. \A i \in 1..m : r[i] = q[i]
  <2>1. \A i \in 1..m : i \in 1..Len(q) /\ i # a /\ i # b
    OBVIOUS
  <2> QED BY <2>1 DEF Swap
<1>2. Accepted(R, r, m)
  BY <1>1 DEF Accepted
<1>3. Harmless(R, r, m, top)
  <2> SUFFICES ASSUME NEW i \in 1..m, NEW j \in (m + 1)..top PROVE <<r[j], r[i]>> \notin R
    BY DEF Harmless
  <2>1. \E k \in (m + 1)..top : r[j] = q[k]
    <3>1. j \in 1..Len(q)
      OBVIOUS
    <3>2. CASE j = a
      BY <3>2 DEF Swap
    <3>3. CASE j = b
      BY <3>3 DEF Swap
    <3>4. CASE j # a /\ j # b
      BY <3>1, <3>4 DEF Swap
    <3> QED BY <3>2, <3>3, <3>4
  <2> QED BY <1>1, <2>1 DEF Harmless
<1>4. Beaten(R, r, top)
  <2> SUFFICES ASSUME NEW j \in (top + 1)..Len(q) PROVE \E i \in 1..top : <<r[i], r[j]>> \in R
    BY DEF Beaten, Swap
  <2>1. r[j] = q[j]
    <3>1. j \in 1..Len(q) /\ j # a /\ j # b
      OBVIOUS
    <3> QED BY <3>1 DEF Swap
  <2>2. PICK i \in 1..top : <<q[i], q[j]>> \in R
    BY DEF Beaten
  <2>3. \E k \in 1..top : r[k] = q[i]
    <3>1. CASE i = a
      BY <3>1 DEF Swap
    <3>2. CASE i = b
      BY <3>2 DEF Swap
    <3>3. CASE i # a /\ i # b
      BY <3>3 DEF Swap
    <3> QED BY <3>1, <3>2, <3>3
  <2> QED BY <2>1, <2>2, <2>3
<1> QED BY <1>2, <1>3, <1>4

(* The last one left takes the place of the candidate it beats: what the   *)
(* old candidate does not beat is no threat to the new one.                *)
LEMMA SupersedeKeeps ==
  ASSUME NEW R, IsOrder(R), NEW q \in Seq(Nat), NEW r, NEW top \in 1..Len(q), NEW m \in Nat,
         NEW k \in (m + 1)..(top - 1), Swap(q, r, top, m + 1),
         Candidate(R, q, m, k), <<q[top], q[m + 1]>> \in R
  PROVE  Candidate(R, r, m, k) /\ <<r[m + 1], r[top]>> \in R
<1>1. r[m + 1] = q[top] /\ r[top] = q[m + 1]
  BY DEF Swap
<1>2. \A i \in 1..m : r[i] = q[i]
  <2>1. \A i \in 1..m : i \in 1..Len(q) /\ i # top /\ i # m + 1
    OBVIOUS
  <2> QED BY <2>1 DEF Swap
<1>3. \A j \in (m + 2)..k : r[j] = q[j]
  <2>1. \A j \in (m + 2)..k : j \in 1..Len(q) /\ j # top /\ j # m + 1
    OBVIOUS
  <2> QED BY <2>1 DEF Swap
<1>4. ASSUME NEW i \in 1..m PROVE <<r[i], r[m + 1]>> \notin R
  BY <1>1, <1>2 DEF Candidate, IsOrder
<1>5. ASSUME NEW j \in (m + 2)..k PROVE <<r[j], r[m + 1]>> \notin R
  BY <1>1, <1>3 DEF Candidate, IsOrder
<1> QED BY <1>1, <1>4, <1>5 DEF Candidate

(* One is put aside.                                                       *)
LEMMA AsideKeeps ==
  ASSUME NEW R, NEW q \in Seq(Nat), NEW r, NEW top \in 1..Len(q), NEW m \in Nat,
         NEW k \in (m + 1)..(top - 1), Swap(q, r, top, k + 1),
         Candidate(R, q, m, k), <<q[top], q[m + 1]>> \notin R
  PROVE  Candidate(R, r, m, k + 1)
<1>1. r[m + 1] = q[m + 1] /\ r[k + 1] = q[top]
  <2>1. m + 1 \in 1..Len(q) /\ m + 1 # top /\ m + 1 # k + 1
    OBVIOUS
  <2> QED BY <2>1 DEF Swap
<1>2. \A i \in 1..m : r[i] = q[i]
  <2>1. \A i \in 1..m : i \in 1..Len(q) /\ i # top /\ i # k + 1
    OBVIOUS
  <2> QED BY <2>1 DEF Swap
<1>3. \A j \in (m + 2)..k : r[j] = q[j]
  <2>1. \A j \in (m + 2)..k : j \in 1..Len(q) /\ j # top /\ j # k + 1
    OBVIOUS
  <2> QED BY <2>1 DEF Swap
<1>4. ASSUME NEW j \in (m + 2)..(k + 1) PROVE <<r[j], r[m + 1]>> \notin R
  <2>1. CASE j = k + 1
    BY <1>1, <2>1
  <2>2. CASE j # k + 1
    <3>1. j \in (m + 2)..k
      BY <2>2
    <3> QED BY <1>1, <1>3, <3>1 DEF Candidate
  <2> QED BY <2>1, <2>2
<1>5. ASSUME NEW i \in 1..m PROVE <<r[i], r[m + 1]>> \notin R
  BY <1>1, <1>2 DEF Candidate
<1> QED BY <1>4, <1>5 DEF Candidate

(* All others were compared with the candidate.                            *)
LEMMA CandidateIsAccepted ==
  ASSUME NEW R, IsOrder(R), NEW q \in Seq(Nat), NEW top \in 1..Len(q), NEW m \in 0..(top - 1),
         Accepted(R, q, m), Harmless(R, q, m, top), Candidate(R, q, m, top)
  PROVE  Accepted(R, q, m + 1) /\ Harmless(R, q, m + 1, top)
<1>1. ASSUME NEW i \in 1..(m + 1), NEW j \in 1..(m + 1) PROVE <<q[i], q[j]>> \notin R
  <2>1. CASE i = m + 1 /\ j = m + 1
    BY <2>1 DEF IsOrder
  <2>2. CASE i = m + 1 /\ j # m + 1
    BY <2>2 DEF Harmless
  <2>3. CASE i # m + 1 /\ j = m + 1
    BY <2>3 DEF Candidate
  <2>4. CASE i # m + 1 /\ j # m + 1
    BY <2>4 DEF Accepted
  <2> QED BY <2>1, <2>2, <2>3, <2>4
<1>2. ASSUME NEW i \in 1..(m + 1), NEW j \in (m + 2)..top PROVE <<q[j], q[i]>> \notin R
  <2>1. CASE i = m + 1
    BY <2>1 DEF Candidate
  <2>2. CASE i # m + 1
    BY <2>2 DEF Harmless
  <2> QED BY <2>1, <2>2
<1> QED BY <1>1, <1>2 DEF Accepted, Harmless

(* In the end the accepted are the maximal ones.                           *)
LEMMA AcceptedAreMaximal ==
  ASSUME NEW R, IsOrder(R), NEW S, NEW q, Enumerates(q, S), NEW m \in 0..Len(q),
         Accepted(R, q, m), Beaten(R, q, m)
  PROVE  {t \in S : \A s \in S : <<s, t>> \notin R} = S \ {q[i] : i \in (m + 1)..Len(q)}
<1>1. ASSUME NEW t \in S, \A s \in S : <<s, t>> \notin R
      PROVE  t \notin {q[i] : i \in (m + 1)..Len(q)}
  <2> SUFFICES ASSUME NEW j \in (m + 1)..Len(q), t = q[j] PROVE FALSE
    OBVIOUS
  <2>1. PICK i \in 1..m : <<q[i], q[j]>> \in R
    BY DEF Beaten
  <2>2. q[i] \in S
    BY DEF Enumerates
  <2> QED BY <1>1, <2>1, <2>2
<1>2. ASSUME NEW t \in S, t \notin {q[i] : i \in (m + 1)..Len(q)}, NEW s \in S
      PROVE  <<s, t>> \notin R
  <2>1. PICK i \in 1..Len(q) : q[i] = t
    BY DEF Enumerates
  <2>2. PICK j \in 1..Len(q) : q[j] = s
    BY DEF Enumerates
  <2>3. Len(q) \in Nat
    BY DEF Enumerates
  <2>4. i \in 1..m
    BY <1>2, <2>1, <2>3
  <2>5. CASE j \in 1..m
    BY <2>1, <2>2, <2>4, <2>5 DEF Accepted
  <2>6. CASE j \in (m + 1)..Len(q)
    <3>1. PICK k \in 1..m : <<q[k], q[j]>> \in R
      BY <2>6 DEF Beaten
    <3>2. <<q[k], q[i]>> \notin R
      BY <2>4 DEF Accepted
    <3> QED BY <2>1, <2>2, <3>1, <3>2 DEF IsOrder
  <2> QED BY <2>3, <2>5, <2>6
<1> QED BY <1>1, <1>2

-----------------------------------------------------------------------------
(* The inductive invariant.                                                *)

Order == Dominance(Level, player)

(* The new level is ready for the players before the one being searched    *)
(* and unchanged for those after.                                          *)
PlayersInTurn ==
  \A pl \in Players :
    /\ pl < player => newSupport[pl] = Undominated(Level, pl)
    /\ pl > player => newSupport[pl] = Level[pl]

Searching ==
  phase # "idle" =>
    /\ current = Len(levels) /\ ~noFurther
    /\ Enumerates(set, Level[player])
    /\ dis + 1 \in 0..Len(set)
    /\ Accepted(Order, set, min) /\ Beaten(Order, set, dis + 1)
    /\ PlayersInTurn

Comparing ==
  phase \in {"scan", "compare"} =>
    /\ min <= dis + 1
    /\ Harmless(Order, set, min, dis + 1)
    /\ newSupport[player] = Level[player]

WithCandidate ==
  phase = "compare" =>
    /\ inc \in (min + 1)..(dis + 1)
    /\ Candidate(Order, set, min, inc)

Removing ==
  phase = "remove" =>
    /\ min = dis + 1
    /\ removing \in (min + 1)..(Len(set) + 1)
    /\ newSupport[player] = Level[player] \ {set[i] : i \in (min + 1)..(removing - 1)}

SearchInv == Searching /\ Comparing /\ WithCandidate /\ Removing

IInv == TypeOK /\ SearchInv /\ LevelsAreUndominated /\ NashSurvives

(* What every step of a search can rely on.                                *)
LEMMA SearchContext ==
  ASSUME TypeOK, SearchInv, phase # "idle"
  PROVE  /\ Level \in Supports /\ player \in Players
         /\ IsOrder(Order)
         /\ set \in Seq(Nat) /\ Len(set) \in Nat /\ min \in Nat /\ dis \in Int
         /\ \A i, j \in 1..Len(set) : Beats(i, j) <=> <<set[i], set[j]>> \in Order
         /\ Level[player] # {}
<1>1. Level \in Supports /\ player \in Players
  BY DEF TypeOK, Level
<1>2. IsOrder(Order)
  BY <1>1, DominanceIsOrder DEF TypeOK, Order
<1>3. Level[player] # {}
  BY <1>1 DEF Supports
<1>4. \A i \in 1..Len(set) : set[i] \in Level[player]
  BY DEF SearchInv, Searching, Enumerates
<1>5. \A i, j \in 1..Len(set) : Beats(i, j) <=> <<set[i], set[j]>> \in Order
  BY <1>4 DEF Beats, Order, Dominance
<1> QED BY <1>1, <1>2, <1>3, <1>5 DEF TypeOK

(* What the levels say does not change while they do not.                  *)
LEMMA StackKept ==
  ASSUME UNCHANGED stack
  PROVE  /\ Level' = Level
         /\ \A support, pl : Undominated(support, pl)' = Undominated(support, pl)
         /\ player' = player => Order' = Order
         /\ LevelsAreUndominated => LevelsAreUndominated'
         /\ NashSurvives => NashSurvives'
<1>1. Level' = Level
  BY DEF stack, Level
<1>2. \A support, pl, s, t : Dominates(support, pl, s, t)' = Dominates(support, pl, s, t)
  BY DEF stack, Dominates, StrictlyDominates, WeaklyDominates, GetStrategyValue
<1>3. \A support, pl : Undominated(support, pl)' = Undominated(support, pl)
  BY <1>2 DEF Undominated
<1>4. player' = player => Order' = Order
  BY <1>1, <1>2 DEF Order, Dominance
<1>5. LevelsAreUndominated => LevelsAreUndominated'
  BY <1>3 DEF LevelsAreUndominated, stack
<1>6. NashSurvives => NashSurvives'
  BY DEF NashSurvives, IsNash, GetStrategyValue, stack
<1> QED BY <1>1, <1>3, <1>4, <1>5, <1>6

(* A step within the search for one player changes neither levels nor what *)
(* the other players get.                                                  *)
LEMMA TurnKept ==
  ASSUME PlayersInTurn, UNCHANGED stack, player' = player,
         \A pl \in Players : pl # player => newSupport'[pl] = newSupport[pl],
         player \in Players, Players \subseteq Int
  PROVE  PlayersInTurn'
BY StackKept DEF PlayersInTurn

LEMMA PlayersAreNumbers == Players \subseteq Int /\ IsFiniteSet(Players) /\ 1 \in Players
BY EliminationAssumption, FS_CardinalityType, FS_EmptySet

(* What the steps that compare two strategies rely on.                     *)
LEMMA CompareContext ==
  ASSUME IInv, phase \in {"scan", "compare"}, min <= dis,
         UNCHANGED stack, player' = player, newSupport' = newSupport
  PROVE  /\ IsOrder(Order) /\ set \in Seq(Nat) /\ Len(set) \in Nat
         /\ min \in Nat /\ dis \in Nat /\ dis + 1 \in (min + 1)..Len(set)
         /\ \A i, j \in 1..Len(set) : Beats(i, j) <=> <<set[i], set[j]>> \in Order
         /\ Enumerates(set, Level[player])
         /\ Accepted(Order, set, min) /\ Beaten(Order, set, dis + 1)
         /\ Harmless(Order, set, min, dis + 1)
         /\ newSupport'[player'] = Level'[player'] /\ current' = Len(levels') /\ ~noFurther'
         /\ Order' = Order /\ Level' = Level
         /\ PlayersInTurn' /\ LevelsAreUndominated' /\ NashSurvives'
<1>1. Order' = Order /\ Level' = Level /\ LevelsAreUndominated' /\ NashSurvives'
  BY StackKept DEF IInv
<1>2. PlayersInTurn'
  BY TurnKept, PlayersAreNumbers DEF IInv, SearchInv, Searching, TypeOK
<1>3. /\ IsOrder(Order) /\ set \in Seq(Nat) /\ min \in Nat /\ dis \in Int /\ Len(set) \in Nat
      /\ \A i, j \in 1..Len(set) : Beats(i, j) <=> <<set[i], set[j]>> \in Order
  BY SearchContext DEF IInv
<1>4. /\ Enumerates(set, Level[player]) /\ dis + 1 \in 0..Len(set) /\ Beaten(Order, set, dis + 1)
      /\ Harmless(Order, set, min, dis + 1) /\ Accepted(Order, set, min)
      /\ newSupport[player] = Level[player] /\ current = Len(levels) /\ ~noFurther
  BY DEF IInv, SearchInv, Searching, Comparing
<1> QED BY <1>1, <1>2, <1>3, <1>4 DEF stack

(* The first four parts of the invariant after such a step.                *)
LEMMA StillComparing ==
  ASSUME phase' \in {"scan", "compare"}, current' = Len(levels'), ~noFurther',
         Enumerates(set', Level'[player']), dis' + 1 \in 0..Len(set'), min' <= dis' + 1,
         Accepted(Order', set', min'), Beaten(Order', set', dis' + 1),
         Harmless(Order', set', min', dis' + 1),
         PlayersInTurn', newSupport'[player'] = Level'[player'],
         WithCandidate', TypeOK', LevelsAreUndominated', NashSurvives'
  PROVE  IInv'
BY DEF IInv, SearchInv, Searching, Comparing, Removing

LEMMA DropLastKeeps ==
  ASSUME IInv, DropLast PROVE IInv'
<1> USE DEF DropLast
<1> DEFINE top == dis + 1
<1>1. UNCHANGED stack /\ player' = player /\ newSupport' = newSupport /\ phase = "scan"
      /\ phase' = "scan" /\ min <= dis /\ set' = set /\ min' = min /\ dis' = dis - 1
  OBVIOUS
<1>2. /\ IsOrder(Order) /\ set \in Seq(Nat) /\ Len(set) \in Nat
      /\ min \in Nat /\ dis \in Nat /\ top \in (min + 1)..Len(set)
      /\ \A i, j \in 1..Len(set) : Beats(i, j) <=> <<set[i], set[j]>> \in Order
      /\ Enumerates(set, Level[player])
      /\ Accepted(Order, set, min) /\ Beaten(Order, set, top) /\ Harmless(Order, set, min, top)
      /\ newSupport'[player'] = Level'[player'] /\ current' = Len(levels') /\ ~noFurther'
      /\ Order' = Order /\ Level' = Level
      /\ PlayersInTurn' /\ LevelsAreUndominated' /\ NashSurvives'
  BY <1>1, CompareContext
<1>3. PICK w \in 1..min : Beats(w, top)
  OBVIOUS
<1>4. dis' + 1 = top - 1
  BY <1>1, <1>2
<1> HIDE DEF DropLast, top
<1>5. w \in 1..Len(set) /\ w \in 1..(top - 1) /\ top \in 1..Len(set)
  BY <1>2
<1>6. <<set[w], set[top]>> \in Order
  BY <1>2, <1>3, <1>5
<1>7. Beaten(Order, set, top - 1)
  BY <1>2, <1>5, <1>6, BeatenPassesOn
<1>8. Harmless(Order, set, min, top - 1)
  <2>1. \A j \in (min + 1)..(top - 1) : j \in (min + 1)..top
    BY <1>2
  <2> QED BY <1>2, <2>1 DEF Harmless
<1>9. dis' + 1 \in 0..Len(set') /\ min' <= dis' + 1
  BY <1>1, <1>2, <1>4
<1>10. TypeOK'
  <2>1. UNCHANGED <<payoff, strict, levels, current, noFurther, player, set, min, inc, removing,
                    newSupport>>
    BY DEF DropLast, stack
  <2>2. dis' \in Int
    BY <1>1, <1>2
  <2> QED BY <1>1, <2>1, <2>2 DEF IInv, TypeOK
<1>11. WithCandidate'
  BY <1>1 DEF WithCandidate
<1> QED BY <1>1, <1>2, <1>4, <1>7, <1>8, <1>9, <1>10, <1>11, StillComparing

LEMMA TryLastKeeps ==
  ASSUME IInv, TryLast PROVE IInv'
<1> USE DEF TryLast
<1> DEFINE top == dis + 1
<1>1. UNCHANGED stack /\ player' = player /\ newSupport' = newSupport /\ phase = "scan"
      /\ phase' = "compare" /\ min <= dis /\ min' = min /\ dis' = dis /\ inc' = min + 1
      /\ set' = [set EXCEPT ![top] = set[min + 1], ![min + 1] = set[top]]
  BY DEF Swapped
<1>2. /\ IsOrder(Order) /\ set \in Seq(Nat) /\ Len(set) \in Nat
      /\ min \in Nat /\ dis \in Nat /\ top \in (min + 1)..Len(set)
      /\ \A i, j \in 1..Len(set) : Beats(i, j) <=> <<set[i], set[j]>> \in Order
      /\ Enumerates(set, Level[player])
      /\ Accepted(Order, set, min) /\ Beaten(Order, set, top) /\ Harmless(Order, set, min, top)
      /\ newSupport'[player'] = Level'[player'] /\ current' = Len(levels') /\ ~noFurther'
      /\ Order' = Order /\ Level' = Level
      /\ PlayersInTurn' /\ LevelsAreUndominated' /\ NashSurvives'
  BY <1>1, CompareContext
<1>3. \A i \in 1..min : ~Beats(i, top)
  OBVIOUS
<1>4. dis' + 1 = top
  BY <1>1, <1>2
<1> HIDE DEF TryLast, top
<1>5. /\ min + 1 \in (min + 1)..top /\ top \in (min + 1)..top /\ top \in 0..Len(set)
      /\ min + 1 \in 1..Len(set) /\ top \in 1..Len(set)
  BY <1>2
<1>6. Swap(set, set', top, min + 1)
  BY <1>1, <1>2, <1>5, ExceptSwaps
<1>7. Accepted(Order, set', min) /\ Harmless(Order, set', min, top) /\ Beaten(Order, set', top)
  BY <1>2, <1>5, <1>6, SwapKeeps
<1>8. Enumerates(set', Level[player]) /\ Len(set') = Len(set) /\ set' \in Seq(Nat)
  BY <1>2, <1>5, <1>6, SwapEnumerates DEF Swap
<1>9. Candidate(Order, set', min, min + 1)
  <2>1. ASSUME NEW i \in 1..min PROVE <<set'[i], set'[min + 1]>> \notin Order
    <3>1. i \in 1..Len(set) /\ i # top /\ i # min + 1
      BY <1>2
    <3>2. set'[i] = set[i] /\ set'[min + 1] = set[top]
      BY <1>6, <3>1 DEF Swap
    <3> QED BY <1>2, <1>3, <1>5, <3>1, <3>2
  <2>2. (min + 2)..(min + 1) = {}
    BY <1>2
  <2> QED BY <2>1, <2>2 DEF Candidate
<1>10. dis' + 1 \in 0..Len(set') /\ min' <= dis' + 1 /\ inc' \in (min' + 1)..(dis' + 1)
  BY <1>1, <1>2, <1>4, <1>5, <1>8
<1>11. TypeOK'
  <2>1. inc' \in Nat /\ set' \in Seq(Nat) /\ removing' = removing
    BY <1>1, <1>2, <1>8, TryLast DEF TryLast
  <2>2. UNCHANGED <<payoff, strict, levels, current, noFurther>>
    BY <1>1 DEF stack
  <2> QED BY <1>1, <2>1, <2>2 DEF IInv, TypeOK
<1>12. WithCandidate'
  BY <1>1, <1>2, <1>9, <1>10 DEF WithCandidate
<1> QED BY <1>1, <1>2, <1>4, <1>7, <1>8, <1>10, <1>11, <1>12, StillComparing

LEMMA EliminateKeeps ==
  ASSUME IInv, Eliminate PROVE IInv'
<1> USE DEF Eliminate
<1> DEFINE top == dis + 1
<1>1. UNCHANGED stack /\ player' = player /\ newSupport' = newSupport /\ phase = "compare"
      /\ phase' = "compare" /\ min <= dis /\ inc <= dis
      /\ set' = set /\ min' = min /\ dis' = dis - 1 /\ inc' = inc
  BY DEF IInv, TypeOK, SearchInv, WithCandidate
<1>2. /\ IsOrder(Order) /\ set \in Seq(Nat) /\ Len(set) \in Nat
      /\ min \in Nat /\ dis \in Nat /\ top \in (min + 1)..Len(set)
      /\ \A i, j \in 1..Len(set) : Beats(i, j) <=> <<set[i], set[j]>> \in Order
      /\ Enumerates(set, Level[player])
      /\ Accepted(Order, set, min) /\ Beaten(Order, set, top) /\ Harmless(Order, set, min, top)
      /\ newSupport'[player'] = Level'[player'] /\ current' = Len(levels') /\ ~noFurther'
      /\ Order' = Order /\ Level' = Level
      /\ PlayersInTurn' /\ LevelsAreUndominated' /\ NashSurvives'
  BY <1>1, CompareContext
<1>3. inc \in (min + 1)..dis /\ inc \in Nat /\ Candidate(Order, set, min, inc)
  BY <1>1, <1>2 DEF IInv, TypeOK, SearchInv, WithCandidate
<1>4. Beats(min + 1, top)
  OBVIOUS
<1>5. dis' + 1 = top - 1
  BY <1>1, <1>2
<1>6. inc \in (min + 1)..(top - 1)
  BY <1>2, <1>3
<1>7. TypeOK'
  <2>1. UNCHANGED <<payoff, strict, levels, current, noFurther, player, set, min, inc, removing,
                    newSupport>>
    BY DEF stack
  <2>2. dis' \in Int
    BY <1>1, <1>2
  <2> QED BY <1>1, <2>1, <2>2 DEF IInv, TypeOK
<1> HIDE DEF Eliminate, top
<1>8. min + 1 \in 1..(top - 1) /\ min + 1 \in 1..Len(set) /\ top \in 1..Len(set)
  BY <1>2, <1>6
<1>9. Beaten(Order, set, top - 1)
  BY <1>2, <1>4, <1>8, BeatenPassesOn
<1>10. Harmless(Order, set, min, top - 1)
  <2>1. \A j \in (min + 1)..(top - 1) : j \in (min + 1)..top
    BY <1>2
  <2> QED BY <1>2, <2>1 DEF Harmless
<1>11. dis' + 1 \in 0..Len(set') /\ min' <= dis' + 1 /\ inc' \in (min' + 1)..(dis' + 1)
  BY <1>1, <1>2, <1>5, <1>6, <1>8
<1>12. WithCandidate'
  BY <1>1, <1>2, <1>3, <1>11 DEF WithCandidate
<1> QED BY <1>1, <1>2, <1>5, <1>7, <1>9, <1>10, <1>11, <1>12, StillComparing

LEMMA SupersedeKeepsInv ==
  ASSUME IInv, Supersede PROVE IInv'
<1> USE DEF Supersede
<1> DEFINE top == dis + 1
<1>1. UNCHANGED stack /\ player' = player /\ newSupport' = newSupport /\ phase = "compare"
      /\ phase' = "compare" /\ min <= dis /\ inc <= dis
      /\ min' = min /\ dis' = dis - 1 /\ inc' = inc
      /\ set' = [set EXCEPT ![top] = set[min + 1], ![min + 1] = set[top]]
  BY DEF IInv, TypeOK, SearchInv, WithCandidate, Swapped
<1>2. /\ IsOrder(Order) /\ set \in Seq(Nat) /\ Len(set) \in Nat
      /\ min \in Nat /\ dis \in Nat /\ top \in (min + 1)..Len(set)
      /\ \A i, j \in 1..Len(set) : Beats(i, j) <=> <<set[i], set[j]>> \in Order
      /\ Enumerates(set, Level[player])
      /\ Accepted(Order, set, min) /\ Beaten(Order, set, top) /\ Harmless(Order, set, min, top)
      /\ newSupport'[player'] = Level'[player'] /\ current' = Len(levels') /\ ~noFurther'
      /\ Order' = Order /\ Level' = Level
      /\ PlayersInTurn' /\ LevelsAreUndominated' /\ NashSurvives'
  BY <1>1, CompareContext
<1>3. inc \in (min + 1)..dis /\ inc \in Nat /\ Candidate(Order, set, min, inc)
  BY <1>1, <1>2 DEF IInv, TypeOK, SearchInv, WithCandidate
<1>4. Beats(top, min + 1)
  OBVIOUS
<1>5. dis' + 1 = top - 1
  BY <1>1, <1>2
<1>6. inc \in (min + 1)..(top - 1)
  BY <1>2, <1>3
<1>7. UNCHANGED <<payoff, strict, levels, current, noFurther, player, min, inc, removing,
                  newSupport>>
  BY DEF stack
<1> HIDE DEF Supersede, top
<1>8. /\ min + 1 \in 1..(top - 1) /\ min + 1 \in (min + 1)..top /\ top \in (min + 1)..top
      /\ min + 1 \in 1..Len(set) /\ top \in 1..Len(set) /\ top \in 0..Len(set)
  BY <1>2, <1>6
<1>9. Swap(set, set', top, min + 1)
  BY <1>1, <1>2, <1>8, ExceptSwaps
<1>10. Accepted(Order, set', min) /\ Harmless(Order, set', min, top) /\ Beaten(Order, set', top)
  BY <1>2, <1>8, <1>9, SwapKeeps
<1>11. Enumerates(set', Level[player]) /\ Len(set') = Len(set) /\ set' \in Seq(Nat)
  BY <1>2, <1>8, <1>9, SwapEnumerates DEF Swap
<1>12. Candidate(Order, set', min, inc) /\ <<set'[min + 1], set'[top]>> \in Order
  BY <1>2, <1>3, <1>4, <1>6, <1>8, <1>9, SupersedeKeeps
<1>13. Beaten(Order, set', top - 1)
  BY <1>2, <1>8, <1>10, <1>11, <1>12, BeatenPassesOn
<1>14. Harmless(Order, set', min, top - 1)
  <2>1. \A j \in (min + 1)..(top - 1) : j \in (min + 1)..top
    BY <1>2
  <2> QED BY <1>10, <2>1 DEF Harmless
<1>15. dis' + 1 \in 0..Len(set') /\ min' <= dis' + 1 /\ inc' \in (min' + 1)..(dis' + 1)
  BY <1>1, <1>2, <1>5, <1>6, <1>8, <1>11
<1>16. TypeOK'
  <2>1. dis' \in Int
    BY <1>1, <1>2
  <2> QED BY <1>1, <1>7, <1>11, <2>1 DEF IInv, TypeOK
<1>17. WithCandidate'
  BY <1>1, <1>2, <1>12, <1>15 DEF WithCandidate
<1> QED BY <1>1, <1>2, <1>5, <1>10, <1>11, <1>13, <1>14, <1>15, <1>16, <1>17, StillComparing

LEMMA PutAsideKeeps ==
  ASSUME IInv, PutAside PROVE IInv'
<1> USE DEF PutAside
<1> DEFINE top == dis + 1
<1>1. UNCHANGED stack /\ player' = player /\ newSupport' = newSupport /\ phase = "compare"
      /\ phase' = "compare" /\ min <= dis /\ inc <= dis
      /\ min' = min /\ dis' = dis /\ inc' = inc + 1
      /\ set' = [set EXCEPT ![top] = set[inc + 1], ![inc + 1] = set[top]]
  BY DEF IInv, TypeOK, SearchInv, WithCandidate, Swapped
<1>2. /\ IsOrder(Order) /\ set \in Seq(Nat) /\ Len(set) \in Nat
      /\ min \in Nat /\ dis \in Nat /\ top \in (min + 1)..Len(set)
      /\ \A i, j \in 1..Len(set) : Beats(i, j) <=> <<set[i], set[j]>> \in Order
      /\ Enumerates(set, Level[player])
      /\ Accepted(Order, set, min) /\ Beaten(Order, set, top) /\ Harmless(Order, set, min, top)
      /\ newSupport'[player'] = Level'[player'] /\ current' = Len(levels') /\ ~noFurther'
      /\ Order' = Order /\ Level' = Level
      /\ PlayersInTurn' /\ LevelsAreUndominated' /\ NashSurvives'
  BY <1>1, CompareContext
<1>3. inc \in (min + 1)..dis /\ inc \in Nat /\ Candidate(Order, set, min, inc)
  BY <1>1, <1>2 DEF IInv, TypeOK, SearchInv, WithCandidate
<1>4. ~Beats(top, min + 1)
  OBVIOUS
<1>5. dis' + 1 = top
  BY <1>1, <1>2
<1>6. inc \in (min + 1)..(top - 1)
  BY <1>2, <1>3
<1>7. UNCHANGED <<payoff, strict, levels, current, noFurther, player, min, dis, removing,
                  newSupport>>
  BY DEF stack
<1> HIDE DEF PutAside, top
<1>8. /\ inc + 1 \in (min + 1)..top /\ top \in (min + 1)..top
      /\ inc + 1 \in 1..Len(set) /\ min + 1 \in 1..Len(set)
      /\ top \in 1..Len(set) /\ top \in 0..Len(set)
  BY <1>2, <1>6
<1>9. Swap(set, set', top, inc + 1)
  BY <1>1, <1>2, <1>8, ExceptSwaps
<1>10. Accepted(Order, set', min) /\ Harmless(Order, set', min, top) /\ Beaten(Order, set', top)
  BY <1>2, <1>8, <1>9, SwapKeeps
<1>11. Enumerates(set', Level[player]) /\ Len(set') = Len(set) /\ set' \in Seq(Nat)
  BY <1>2, <1>8, <1>9, SwapEnumerates DEF Swap
<1>12. Candidate(Order, set', min, inc + 1)
  BY <1>2, <1>3, <1>4, <1>6, <1>8, <1>9, AsideKeeps
<1>13. dis' + 1 \in 0..Len(set') /\ min' <= dis' + 1 /\ inc' \in (min' + 1)..(dis' + 1)
  BY <1>1, <1>2, <1>5, <1>6, <1>8, <1>11
<1>14. TypeOK'
  <2>1. inc' \in Nat
    BY <1>1, <1>3
  <2> QED BY <1>1, <1>7, <1>11, <2>1 DEF IInv, TypeOK
<1>15. WithCandidate'
  BY <1>1, <1>2, <1>12, <1>13 DEF WithCandidate
<1> QED BY <1>1, <1>2, <1>5, <1>10, <1>11, <1>13, <1>14, <1>15, StillComparing

LEMMA AcceptCandidateKeeps ==
  ASSUME IInv, AcceptCandidate PROVE IInv'
<1> USE DEF AcceptCandidate
<1> DEFINE top == dis + 1
<1>1. UNCHANGED stack /\ player' = player /\ newSupport' = newSupport /\ phase = "compare"
      /\ phase' = "scan" /\ min <= dis /\ inc = dis + 1
      /\ set' = set /\ min' = min + 1 /\ dis' = dis /\ inc' = inc
  BY DEF IInv, TypeOK, SearchInv, WithCandidate
<1>2. /\ IsOrder(Order) /\ set \in Seq(Nat) /\ Len(set) \in Nat
      /\ min \in Nat /\ dis \in Nat /\ top \in (min + 1)..Len(set)
      /\ \A i, j \in 1..Len(set) : Beats(i, j) <=> <<set[i], set[j]>> \in Order
      /\ Enumerates(set, Level[player])
      /\ Accepted(Order, set, min) /\ Beaten(Order, set, top) /\ Harmless(Order, set, min, top)
      /\ newSupport'[player'] = Level'[player'] /\ current' = Len(levels') /\ ~noFurther'
      /\ Order' = Order /\ Level' = Level
      /\ PlayersInTurn' /\ LevelsAreUndominated' /\ NashSurvives'
  BY <1>1, CompareContext
<1>3. Candidate(Order, set, min, top)
  BY <1>1 DEF IInv, SearchInv, WithCandidate
<1>4. UNCHANGED <<payoff, strict, levels, current, noFurther, player, set, dis, inc, removing,
                  newSupport>>
  BY DEF stack
<1>5. dis' + 1 = top
  BY <1>1, <1>2
<1> HIDE DEF AcceptCandidate, top
<1>6. top \in 1..Len(set) /\ min \in 0..(top - 1)
  BY <1>2
<1>7. Accepted(Order, set, min + 1) /\ Harmless(Order, set, min + 1, top)
  BY <1>2, <1>3, <1>6, CandidateIsAccepted
<1>8. dis' + 1 \in 0..Len(set') /\ min' <= dis' + 1
  BY <1>1, <1>2, <1>5, <1>6
<1>9. TypeOK'
  <2>1. min' \in Nat
    BY <1>1, <1>2
  <2> QED BY <1>1, <1>4, <2>1 DEF IInv, TypeOK
<1>10. WithCandidate'
  BY <1>1 DEF WithCandidate
<1> QED BY <1>1, <1>2, <1>5, <1>7, <1>8, <1>9, <1>10, StillComparing

LEMMA StartRemovingKeeps ==
  ASSUME IInv, StartRemoving PROVE IInv'
<1> USE DEF StartRemoving
<1>1. UNCHANGED stack /\ player' = player /\ newSupport' = newSupport /\ phase = "scan"
      /\ phase' = "remove" /\ removing' = min + 1
      /\ UNCHANGED <<payoff, strict, levels, current, noFurther, set, min, dis, inc>>
  BY DEF stack
<1>2. Order' = Order /\ Level' = Level /\ LevelsAreUndominated' /\ NashSurvives'
  BY <1>1, StackKept DEF IInv
<1>3. PlayersInTurn'
  BY <1>1, TurnKept, PlayersAreNumbers DEF IInv, SearchInv, Searching, TypeOK
<1>4. min = dis + 1 /\ min \in Nat /\ Len(set) \in Nat /\ min <= Len(set)
  BY SearchContext DEF IInv, SearchInv, Searching, Comparing
<1>5. TypeOK'
  BY <1>1, <1>4 DEF IInv, TypeOK
<1>6. Searching'
  BY <1>1, <1>2, <1>3 DEF IInv, SearchInv, Searching
<1>7. Removing'
  <2>1. (min + 1)..((min + 1) - 1) = {}
    BY <1>4
  <2>2. newSupport[player] = Level[player]
    BY DEF IInv, SearchInv, Comparing
  <2>3. {set[i] : i \in (min + 1)..((min + 1) - 1)} = {}
    BY <2>1
  <2> QED BY <1>1, <1>2, <1>4, <2>2, <2>3 DEF Removing
<1> QED BY <1>1, <1>2, <1>5, <1>6, <1>7 DEF IInv, SearchInv, Comparing, WithCandidate

(* The first strategy of the array is never removed, so there is another   *)
(* one whenever RemoveStrategy looks.                                      *)
LEMMA RemoveKeeps ==
  ASSUME IInv, Remove PROVE IInv'
<1> USE DEF Remove
<1> DEFINE gone(k) == {set[i] : i \in (min + 1)..k}
<1>1. UNCHANGED stack /\ player' = player /\ phase = "remove" /\ phase' = "remove"
      /\ removing' = removing + 1 /\ removing <= Len(set)
      /\ newSupport' = RemoveStrategy(newSupport, player, set[removing])
      /\ UNCHANGED <<payoff, strict, levels, current, noFurther, set, min, dis, inc>>
  BY DEF stack
<1>2. Order' = Order /\ Level' = Level /\ LevelsAreUndominated' /\ NashSurvives'
  BY <1>1, StackKept DEF IInv
<1>3. /\ min \in Nat /\ min = dis + 1 /\ Len(set) \in Nat /\ removing \in (min + 1)..Len(set)
      /\ Enumerates(set, Level[player]) /\ Beaten(Order, set, min)
      /\ newSupport[player] = Level[player] \ gone(removing - 1)
      /\ newSupport \in Supports /\ player \in Players /\ Level \in Supports
  BY <1>1, SearchContext DEF IInv, SearchInv, Searching, Removing, TypeOK
<1> HIDE DEF Remove, gone
<1>4. min >= 1
  <2>1. PICK i \in 1..min : <<set[i], set[removing]>> \in Order
    BY <1>3 DEF Beaten
  <2> QED BY <1>3, <2>1
<1>5. set[1] # set[removing] /\ set[1] \in newSupport[player] /\ set[removing] \in newSupport[player]
  <2>1. /\ 1 \in 1..Len(set) /\ removing \in 1..Len(set) /\ 1 # removing
        /\ \A i \in (min + 1)..(removing - 1) : i \in 1..Len(set) /\ i # 1 /\ i # removing
    BY <1>3, <1>4
  <2>2. \A i \in (min + 1)..(removing - 1) : set[i] # set[1] /\ set[i] # set[removing]
    BY <1>3, <2>1 DEF Enumerates
  <2>3. set[1] \notin gone(removing - 1) /\ set[removing] \notin gone(removing - 1)
    BY <2>2 DEF gone
  <2> QED BY <1>3, <2>1, <2>3 DEF Enumerates
<1>6. IsFiniteSet(newSupport[player])
  <2>1. newSupport[player] \subseteq 1..NumStrategies[player] /\ NumStrategies[player] \in Nat
    BY <1>3, EliminationAssumption DEF Supports, Strategies
  <2>2. IsFiniteSet(1..NumStrategies[player])
    BY <2>1, FS_Interval
  <2> QED BY <2>1, <2>2, FS_Subset
<1>7. Cardinality(newSupport[player]) # 1
  BY <1>5, <1>6, FS_Singleton
<1>8. newSupport' = [newSupport EXCEPT ![player] = @ \ {set[removing]}]
  BY <1>1, <1>7 DEF RemoveStrategy
<1>9. newSupport' \in Supports
  BY <1>3, <1>5, <1>8 DEF Supports
<1>10. newSupport'[player] = Level[player] \ gone(removing)
  <2>1. gone(removing) = gone(removing - 1) \cup {set[removing]}
    <3>1. (min + 1)..removing = (min + 1)..(removing - 1) \cup {removing}
      BY <1>3
    <3> QED BY <3>1 DEF gone
  <2>2. newSupport'[player] = newSupport[player] \ {set[removing]}
    BY <1>3, <1>8 DEF Supports
  <2> QED BY <1>3, <2>1, <2>2
<1>11. PlayersInTurn'
  <2>1. \A pl \in Players : pl # player => newSupport'[pl] = newSupport[pl]
    BY <1>3, <1>8 DEF Supports
  <2> QED BY <1>1, <1>3, <2>1, TurnKept, PlayersAreNumbers DEF IInv, SearchInv, Searching
<1>12. TypeOK'
  <2>1. removing' \in Nat
    BY <1>1, <1>3
  <2> QED BY <1>1, <1>9, <2>1 DEF IInv, TypeOK
<1>13. Searching'
  BY <1>1, <1>2, <1>11 DEF IInv, SearchInv, Searching
<1>14. Removing'
  <2>1. removing' \in (min + 1)..(Len(set) + 1) /\ removing' - 1 = removing
    BY <1>1, <1>3
  <2> QED BY <1>1, <1>2, <1>3, <1>10, <2>1 DEF Removing, gone
<1> QED BY <1>1, <1>2, <1>12, <1>13, <1>14 DEF IInv, SearchInv, Comparing, WithCandidate

(* A search begins with an array of all the strategies of the player.      *)
LEMMA InOrderEnumerates ==
  ASSUME NEW S \in SUBSET Nat, IsFiniteSet(S), NEW f \in InOrder(S)
  PROVE  Enumerates(f, S)
<1> DEFINE n == Cardinality(S)
<1>1. n \in Nat
  BY FS_CardinalityType
<1>2. f \in [1..n -> S] /\ \A i, j \in 1..n : i < j => f[i] < f[j]
  BY DEF InOrder
<1> HIDE DEF n
<1>3. f \in Seq(Nat) /\ Len(f) = n
  <2>1. f \in [1..n -> Nat]
    BY <1>2
  <2>2. f \in Seq(Nat)
    BY <1>1, <2>1
  <2>3. DOMAIN f = 1..Len(f) /\ DOMAIN f = 1..n /\ Len(f) \in Nat
    BY <2>1, <2>2
  <2>4. ~(Len(f) < n) /\ ~(n < Len(f))
    <3>1. \A i \in Nat : i \in 1..Len(f) <=> i \in 1..n
      BY <2>3
    <3>2. Len(f) < n => n \in 1..n /\ n \notin 1..Len(f)
      BY <1>1, <2>3
    <3>3. n < Len(f) => Len(f) \in 1..Len(f) /\ Len(f) \notin 1..n
      BY <1>1, <2>3
    <3> QED BY <1>1, <2>3, <3>1, <3>2, <3>3
  <2>5. Len(f) \in Nat
    BY <2>2
  <2>6. Len(f) = n
    BY <1>1, <2>4, <2>5
  <2> QED BY <2>2, <2>6
<1>4. ASSUME NEW i \in 1..n, NEW j \in 1..n, f[i] = f[j] PROVE i = j
  <2>1. f[i] \in Nat /\ f[j] \in Nat
    BY <1>2
  <2>2. ~(f[i] < f[j]) /\ ~(f[j] < f[i])
    BY <1>4, <2>1
  <2>3. ~(i < j) /\ ~(j < i)
    BY <1>2, <2>2
  <2> QED BY <1>1, <2>3
<1>5. f \in Injection(1..n, S)
  BY <1>2, <1>4 DEF Injection, IsInjective
<1>6. Cardinality(1..n) = n
  BY <1>1, FS_Interval
<1>7. f \in Surjection(1..n, S)
  BY <1>5, <1>6, FS_Injection DEF n
<1>8. \A s \in S : \E i \in 1..n : f[i] = s
  BY <1>7 DEF Surjection
<1> QED BY <1>2, <1>3, <1>4, <1>8 DEF Enumerates

LEMMA StrategiesAreFinite ==
  ASSUME NEW support \in Supports, NEW pl \in Players
  PROVE  support[pl] \in SUBSET Nat /\ IsFiniteSet(support[pl])
<1>1. support[pl] \subseteq 1..NumStrategies[pl] /\ NumStrategies[pl] \in Nat
  BY EliminationAssumption DEF Supports, Strategies
<1>2. IsFiniteSet(1..NumStrategies[pl])
  BY <1>1, FS_Interval
<1> QED BY <1>1, <1>2, FS_Subset

LEMMA SearchForBegins ==
  ASSUME IInv, UNCHANGED stack, NEW pl \in Players, SearchFor(pl),
         UNCHANGED <<inc, removing>>, current = Len(levels), ~noFurther,
         newSupport' \in Supports, newSupport'[pl] = Level[pl], PlayersInTurn'
  PROVE  IInv'
<1>1. phase' = "scan" /\ player' = pl /\ min' = 0 /\ dis' = Len(set') - 1
      /\ set' \in InOrder(Level[pl])
  BY DEF SearchFor
<1>2. Level' = Level /\ LevelsAreUndominated' /\ NashSurvives'
  BY StackKept DEF IInv
<1>3. Level \in Supports
  BY DEF IInv, TypeOK, Level
<1>4. Enumerates(set', Level[pl])
  BY <1>1, <1>3, StrategiesAreFinite, InOrderEnumerates
<1>5. set' \in Seq(Nat) /\ Len(set') \in Nat /\ dis' + 1 = Len(set') /\ dis' \in Int
  BY <1>1, <1>4 DEF Enumerates
<1>6. TypeOK'
  BY <1>1, <1>5 DEF IInv, TypeOK, stack
<1>7. Accepted(Order', set', 0) /\ Harmless(Order', set', 0, dis' + 1)
  BY DEF Accepted, Harmless
<1>8. Beaten(Order', set', dis' + 1)
  <2>1. (Len(set') + 1)..Len(set') = {}
    BY <1>5
  <2> QED BY <1>5, <2>1 DEF Beaten
<1>9. current' = Len(levels') /\ ~noFurther'
  BY DEF stack
<1>10. WithCandidate'
  BY <1>1 DEF WithCandidate
<1>11. dis' + 1 \in 0..Len(set') /\ min' <= dis' + 1
  BY <1>1, <1>5
<1> QED BY <1>1, <1>2, <1>4, <1>6, <1>7, <1>8, <1>9, <1>10, <1>11, StillComparing

LEMMA NextLevelKeeps ==
  ASSUME IInv, NextLevel PROVE IInv'
<1> USE DEF NextLevel
<1>1. UNCHANGED stack /\ SearchFor(1) /\ UNCHANGED <<inc, removing>> /\ current = Len(levels)
      /\ ~noFurther /\ newSupport' = Level /\ 1 \in Players /\ player' = 1
  BY PlayersAreNumbers DEF SearchFor
<1>2. Level \in Supports /\ Level' = Level
  BY <1>1, StackKept DEF IInv, TypeOK, Level
<1>3. \A pl \in Players : ~(pl < 1)
  BY EliminationAssumption, FS_CardinalityType
<1>4. PlayersInTurn'
  BY <1>1, <1>2, <1>3 DEF PlayersInTurn
<1> QED BY <1>1, <1>2, <1>4, SearchForBegins

(* All dominated strategies of the player have been removed.               *)
LEMMA SearchedThrough ==
  ASSUME IInv, phase = "remove", removing > Len(set)
  PROVE  \A pl \in Players : pl <= player => newSupport[pl] = Undominated(Level, pl)
<1>1. /\ min \in 0..Len(set) /\ min = dis + 1 /\ removing \in Nat /\ removing - 1 = Len(set)
      /\ Enumerates(set, Level[player]) /\ Beaten(Order, set, min) /\ Accepted(Order, set, min)
      /\ newSupport[player] = Level[player] \ {set[i] : i \in (min + 1)..(removing - 1)}
      /\ PlayersInTurn /\ player \in Players /\ Level \in Supports /\ IsOrder(Order)
  BY SearchContext DEF IInv, SearchInv, Searching, Removing, TypeOK
<1>2. newSupport[player] = {t \in Level[player] : \A s \in Level[player] : <<s, t>> \notin Order}
  BY <1>1, AcceptedAreMaximal
<1>3. newSupport[player] = Undominated(Level, player)
  BY <1>2 DEF Undominated, Order, Dominance
<1> QED BY <1>1, <1>3, PlayersAreNumbers DEF PlayersInTurn

LEMMA NextPlayerKeeps ==
  ASSUME IInv, NextPlayer PROVE IInv'
<1> USE DEF NextPlayer
<1> DEFINE next == player + 1
<1>1. UNCHANGED stack /\ SearchFor(next) /\ UNCHANGED <<inc, removing>> /\ newSupport' = newSupport
      /\ next \in Players /\ player' = next /\ phase = "remove" /\ removing > Len(set)
  BY SearchContext DEF IInv, TypeOK, SearchFor
<1>2. player \in Players /\ player \in Int /\ current = Len(levels) /\ ~noFurther
      /\ newSupport \in Supports /\ PlayersInTurn
  BY <1>1, PlayersAreNumbers DEF IInv, TypeOK, SearchInv, Searching
<1>3. \A pl \in Players : pl <= player => newSupport[pl] = Undominated(Level, pl)
  BY <1>1, SearchedThrough
<1>4. /\ \A pl \in Players : Undominated(Level, pl)' = Undominated(Level, pl)
      /\ Level' = Level
  BY <1>1, StackKept
<1>5. newSupport'[next] = Level[next]
  BY <1>1, <1>2 DEF PlayersInTurn
<1>6. PlayersInTurn'
  <2> SUFFICES ASSUME NEW pl \in Players
               PROVE  /\ pl < player' => newSupport'[pl] = Undominated(Level, pl)'
                      /\ pl > player' => newSupport'[pl] = Level'[pl]
    BY DEF PlayersInTurn
  <2>1. pl \in Int
    BY PlayersAreNumbers
  <2>2. pl < next => pl <= player
    BY <1>2, <2>1
  <2>3. pl > next => pl > player
    BY <1>2, <2>1
  <2> QED BY <1>1, <1>2, <1>3, <1>4, <2>2, <2>3 DEF PlayersInTurn
<1> HIDE DEF next
<1> QED BY <1>1, <1>2, <1>5, <1>6, SearchForBegins

LEMMA PushLevelKeeps ==
  ASSUME IInv, PushLevel PROVE IInv'
<1> USE DEF PushLevel
<1>1. /\ phase = "remove" /\ phase' = "idle" /\ removing > Len(set) /\ player + 1 \notin Players
      /\ UNCHANGED <<payoff, strict, player, set, min, dis, inc, removing, newSupport>>
  OBVIOUS
<1>2. \A pl \in Players : newSupport[pl] = Undominated(Level, pl)
  <2>1. \A pl \in Players : pl <= player
    BY <1>1, EliminationAssumption, FS_CardinalityType DEF IInv, TypeOK
  <2> QED BY <1>1, <2>1, SearchedThrough
<1>3. /\ current = Len(levels) /\ levels \in Seq(Supports) /\ current \in 1..Len(levels)
      /\ newSupport \in Supports /\ payoff \in [Profiles -> [Players -> Int]]
      /\ LevelsAreUndominated /\ NashSurvives /\ ~noFurther
  BY <1>1 DEF IInv, SearchInv, Searching, TypeOK
<1>4. SearchInv'
  BY <1>1 DEF SearchInv, Searching, Comparing, WithCandidate, Removing
<1>5. \A support, pl : Undominated(support, pl)' = Undominated(support, pl)
  BY <1>1 DEF Undominated, Dominates, StrictlyDominates, WeaklyDominates, GetStrategyValue
<1>6. \A p : IsNash(p)' = IsNash(p)
  BY <1>1 DEF IsNash, GetStrategyValue
<1>7. CASE newSupport # Level
  <2>1. levels' = Append(levels, newSupport) /\ current' = current + 1 /\ noFurther' = noFurther
    BY <1>7
  <2>2. /\ levels' \in Seq(Supports) /\ Len(levels') = Len(levels) + 1
        /\ \A k \in 1..Len(levels) : levels'[k] = levels[k]
        /\ levels'[Len(levels) + 1] = newSupport
    BY <1>3, <2>1
  <2> HIDE DEF PushLevel
  <2>3. TypeOK'
    <3>1. current' \in 1..Len(levels')
      BY <1>3, <2>1, <2>2
    <3> QED BY <1>1, <2>1, <2>2, <3>1 DEF IInv, TypeOK
  <2>4. LevelsAreUndominated'
    <3>1. ASSUME NEW k \in 1..(Len(levels') - 1), NEW pl \in Players
          PROVE  (levels[k + 1][pl] = Undominated(levels[k], pl))'
      <4>0. k \in 1..Len(levels) /\ Undominated(levels[k], pl)' = Undominated(levels[k], pl)
        <5>1. k \in 1..Len(levels)
          BY <1>3, <2>2
        <5>2. levels'[k] = levels[k]
          BY <2>2, <5>1
        <5> QED BY <1>5, <5>1, <5>2
      <4>1. CASE k = Len(levels)
        <5>1. Level = levels[k]
          BY <1>3, <4>1 DEF Level
        <5> QED BY <1>2, <2>2, <4>0, <4>1, <5>1
      <4>2. CASE k # Len(levels)
        <5>1. k \in 1..(Len(levels) - 1) /\ k \in 1..Len(levels) /\ k + 1 \in 1..Len(levels)
          BY <1>3, <2>2, <4>2
        <5>2. levels[k + 1][pl] = Undominated(levels[k], pl)
          BY <1>3, <5>1 DEF LevelsAreUndominated
        <5> QED BY <2>2, <4>0, <5>1, <5>2
      <4> QED BY <4>1, <4>2
    <3> QED BY <1>3, <2>1, <3>1 DEF LevelsAreUndominated
  <2>5. NashSurvives'
    <3> SUFFICES ASSUME strict', NEW k \in 1..Len(levels'), NEW p \in Profiles, IsNash(p)'
                 PROVE  p \in Within(levels'[k])
      BY DEF NashSurvives
    <3>1. strict = TRUE /\ IsNash(p)
      BY <1>1, <1>6 DEF IInv, TypeOK
    <3>2. CASE k \in 1..Len(levels)
      BY <1>3, <2>2, <3>1, <3>2 DEF NashSurvives
    <3>3. CASE k = Len(levels) + 1
      <4>1. p \in Within(Level) /\ Level \in Supports
        BY <1>3, <3>1 DEF NashSurvives, Level
      <4>2. \A pl \in Players : p[pl] \in newSupport[pl]
        BY <1>2, <1>3, <3>1, <4>1, NashIsUndominated
      <4> QED BY <2>2, <3>3, <4>2 DEF Within
    <3> QED BY <1>3, <2>2, <3>2, <3>3
  <2> QED BY <1>4, <2>3, <2>4, <2>5 DEF IInv
<1>8. CASE newSupport = Level
  <2>1. levels' = levels /\ current' = current /\ noFurther' = TRUE
    BY <1>8
  <2>2. TypeOK'
    BY <1>1, <2>1 DEF IInv, TypeOK
  <2>3. LevelsAreUndominated'
    BY <1>2, <1>3, <1>5, <1>8, <2>1 DEF LevelsAreUndominated, Level
  <2>4. NashSurvives'
    BY <1>1, <1>3, <1>6, <2>1 DEF NashSurvives
  <2> QED BY <1>4, <2>2, <2>3, <2>4 DEF IInv
<1> QED BY <1>7, <1>8

-----------------------------------------------------------------------------
(* Going up and down, and starting over.                                   *)

LEMMA FullSupportKeepsAll == FullSupport \in Supports /\ Within(FullSupport) = Profiles
<1>1. \A pl \in Players : 1 \in Strategies(pl)
  BY EliminationAssumption DEF Strategies
<1> QED BY <1>1 DEF FullSupport, Supports, Within, Profiles

LEMMA MoveKeeps ==
  ASSUME IInv, GoDown \/ PreviousLevel \/ TopLevel PROVE IInv'
<1>1. phase = "idle" /\ UNCHANGED <<payoff, strict, levels, noFurther, search>>
      /\ current' \in 1..Len(levels)
  BY DEF IInv, TypeOK, GoDown, PreviousLevel, TopLevel
<1>2. TypeOK'
  BY <1>1 DEF IInv, TypeOK, search
<1>3. SearchInv'
  BY <1>1 DEF SearchInv, Searching, Comparing, WithCandidate, Removing, search
<1>4. LevelsAreUndominated'
  <2>1. \A support, pl : Undominated(support, pl)' = Undominated(support, pl)
    BY <1>1 DEF Undominated, Dominates, StrictlyDominates, WeaklyDominates, GetStrategyValue
  <2> QED BY <1>1, <2>1 DEF IInv, LevelsAreUndominated
<1>5. NashSurvives'
  BY <1>1 DEF IInv, NashSurvives, IsNash, GetStrategyValue
<1> QED BY <1>2, <1>3, <1>4, <1>5 DEF IInv

LEMMA ResetKeeps ==
  ASSUME levels = <<FullSupport>>, ~noFurther
  PROVE  LevelsAreUndominated /\ NashSurvives
<1>1. Len(levels) = 1 /\ levels[1] = FullSupport
  OBVIOUS
<1> QED BY <1>1, FullSupportKeepsAll DEF LevelsAreUndominated, NashSurvives

LEMMA SetStrictKeeps ==
  ASSUME IInv, NEW s \in BOOLEAN, SetStrict(s) PROVE IInv'
<1> USE DEF SetStrict
<1>1. phase = "idle" /\ strict' = s /\ UNCHANGED <<payoff, search>>
  OBVIOUS
<1>2. SearchInv'
  BY <1>1 DEF SearchInv, Searching, Comparing, WithCandidate, Removing, search
<1>3. CASE s # strict
  <2>1. levels' = <<FullSupport>> /\ current' = 1 /\ noFurther' = FALSE
    BY <1>3 DEF Reset
  <2>2. levels' \in Seq(Supports) /\ current' \in 1..Len(levels')
    BY <2>1, FullSupportKeepsAll
  <2>3. TypeOK'
    BY <1>1, <2>1, <2>2 DEF IInv, TypeOK, search
  <2>4. LevelsAreUndominated' /\ NashSurvives'
    <3>1. Len(levels') = 1 /\ levels'[1] = FullSupport
      BY <2>1
    <3> QED BY <2>1, <3>1, FullSupportKeepsAll DEF LevelsAreUndominated, NashSurvives
  <2> QED BY <1>2, <2>3, <2>4 DEF IInv
<1>4. CASE s = strict
  <2>1. UNCHANGED stack
    BY <1>4 DEF stack
  <2>2. TypeOK'
    BY <1>1, <2>1 DEF IInv, TypeOK, search, stack
  <2> QED BY <1>2, <2>1, <2>2, StackKept DEF IInv
<1> QED BY <1>3, <1>4

LEMMA InitEstablishes == Init => IInv
<1> SUFFICES ASSUME Init PROVE IInv
  OBVIOUS
<1> USE DEF Init
<1>1. levels \in Seq(Supports) /\ current \in 1..Len(levels) /\ newSupport \in Supports
  BY FullSupportKeepsAll
<1>2. TypeOK
  <2>1. payoff \in [Profiles -> [Players -> Int]] /\ player \in Players
    BY EliminationAssumption, PlayersAreNumbers
  <2>2. set \in Seq(Nat) /\ min \in Nat /\ dis \in Int /\ inc \in Nat /\ removing \in Nat
    OBVIOUS
  <2> QED BY <1>1, <2>1, <2>2 DEF TypeOK
<1>3. SearchInv
  BY DEF SearchInv, Searching, Comparing, WithCandidate, Removing
<1> QED BY <1>2, <1>3, ResetKeeps DEF IInv

(* Every command and every step of the search keeps the invariant.         *)
LEMMA StepKeeps == IInv /\ [Next]_vars => IInv'
<1> SUFFICES ASSUME IInv, [Next]_vars PROVE IInv'
  OBVIOUS
<1>1. CASE \E s \in BOOLEAN : SetStrict(s)
  BY <1>1, SetStrictKeeps
<1>2. CASE GoDown \/ PreviousLevel \/ TopLevel
  BY <1>2, MoveKeeps
<1>3. CASE NextLevel
  BY <1>3, NextLevelKeeps
<1>4. CASE Search
  BY <1>4, DropLastKeeps, TryLastKeeps, EliminateKeeps, SupersedeKeepsInv, PutAsideKeeps,
     AcceptCandidateKeeps, StartRemovingKeeps, RemoveKeeps, NextPlayerKeeps, PushLevelKeeps
     DEF Search
<1>5. CASE UNCHANGED vars
  <2>1. UNCHANGED stack /\ UNCHANGED search
    BY <1>5 DEF vars, stack, search
  <2>2. TypeOK'
    BY <2>1 DEF IInv, TypeOK, stack, search
  <2>3. LevelsAreUndominated' /\ NashSurvives' /\ Order' = Order /\ Level' = Level
        /\ (PlayersInTurn => PlayersInTurn')
    BY <2>1, StackKept DEF IInv, PlayersInTurn, search
  <2>4. SearchInv'
    BY <2>1, <2>3 DEF IInv, SearchInv, Searching, Comparing, WithCandidate, Removing, stack, search
  <2> QED BY <2>2, <2>3, <2>4 DEF IInv
<1> QED BY <1>1, <1>2, <1>3, <1>4, <1>5 DEF Next

(* The invariant of the search, which the theorems below follow from:      *)
(* accepted strategies are incomparable, the ones left cannot harm them,   *)
(* and every strategy put away is beaten by one that is not.               *)
THEOREM Invariance == Spec => []IInv
BY InitEstablishes, StepKeeps, PTL DEF Spec

(* The variables of the search keep their types; in particular nobody is   *)
(* ever left without a strategy by RemoveStrategy.                         *)
THEOREM TypeCorrect == Spec => []TypeOK
<1>1. IInv => TypeOK
  BY DEF IInv
<1> QED BY <1>1, Invariance, PTL

(* Undominated of stratspt.cc finds exactly the undominated strategies, in *)
(* every game, for strict and for weak dominance.                          *)
THEOREM LevelsCorrect == Spec => []LevelsAreUndominated
<1>1. IInv => LevelsAreUndominated
  BY DEF IInv
<1> QED BY <1>1, Invariance, PTL

(* However many levels of strictly dominated strategies are eliminated, no *)
(* equilibrium in pure strategies is lost.                                 *)
THEOREM EquilibriaSurvive == Spec => []NashSurvives
<1>1. IInv => NashSurvives
  BY DEF IInv
<1> QED BY <1>1, Invariance, PTL

-----------------------------------------------------------------------------
(* Elimination makes up no equilibrium.                                    *)

Dominators(support, pl, s) == {t \in support[pl] : Dominates(support, pl, t, s)}

(* Whatever is dominated is dominated by an undominated strategy: follow   *)
(* dominators upwards until nothing dominates.                             *)
LEMMA DominatedByUndominated ==
  ASSUME payoff \in [Profiles -> [Players -> Int]], strict \in BOOLEAN,
         NEW support \in Supports, NEW pl \in Players,
         NEW s \in support[pl], s \notin Undominated(support, pl)
  PROVE  \E t \in Undominated(support, pl) : Dominates(support, pl, t, s)
<1> DEFINE S == support[pl]
           D(t) == Dominators(support, pl, t)
           T == {D(t) : t \in D(s)}
<1>1. IsFiniteSet(S)
  BY StrategiesAreFinite
<1>2. D(s) # {}
  BY DEF Undominated, Dominators
<1>3. \A t \in S : D(t) \subseteq S /\ IsFiniteSet(D(t))
  BY <1>1, FS_Subset DEF Dominators
<1>4. D(s) \subseteq S
  BY <1>3
<1>5. T \subseteq FiniteSubsetsOf(S) /\ T # {}
  BY <1>2, <1>3, <1>4 DEF FiniteSubsetsOf
<1>6. PICK least \in T : \A U \in T : <<U, least>> \notin StrictSubsetOrdering(S)
  <2>1. IsWellFoundedOn(StrictSubsetOrdering(S), FiniteSubsetsOf(S))
    BY FS_StrictSubsetOrderingWellFounded
  <2> HIDE DEF T
  <2> QED BY <1>5, <2>1, WFMin
<1>7. PICK t \in D(s) : least = D(t)
  BY <1>6
<1>8. t \in S /\ Dominates(support, pl, t, s)
  BY <1>7 DEF Dominators
<1>9. ASSUME NEW u \in S, Dominates(support, pl, u, t) PROVE FALSE
  <2>1. u \in D(s)
    BY <1>8, <1>9, DominanceTransitive DEF Dominators
  <2>2. D(u) \subseteq D(t)
    BY <1>8, <1>9, DominanceTransitive DEF Dominators
  <2>3. u \in D(t) /\ u \notin D(u)
    BY <1>9, DominanceIrreflexive DEF Dominators
  <2>4. D(u) # D(t) /\ D(u) \in SUBSET S /\ D(t) \in SUBSET S
    BY <1>3, <1>8, <2>3
  <2>5. <<D(u), D(t)>> \in StrictSubsetOrdering(S)
    BY <2>2, <2>4 DEF StrictSubsetOrdering
  <2> QED BY <1>6, <1>7, <2>1, <2>5
<1> QED BY <1>8, <1>9 DEF Undominated

(* A profile from which no player gains by a strategy of the support.      *)
IsNashWithin(support, p) ==
  \A pl \in Players : \A s \in support[pl] : GetStrategyValue(p, pl, s) <= payoff[p][pl]

(* Whoever gains by a dominated strategy gains by an undominated one.      *)
LEMMA NashOfUndominated ==
  ASSUME payoff \in [Profiles -> [Players -> Int]], strict \in BOOLEAN,
         NEW support \in Supports, NEW smaller \in Supports,
         \A pl \in Players : smaller[pl] = Undominated(support, pl),
         NEW p \in Within(smaller), IsNashWithin(smaller, p)
  PROVE  p \in Within(support) /\ IsNashWithin(support, p)
<1>1. p \in Within(support)
  BY DEF Within, Undominated
<1>2. ASSUME NEW pl \in Players, NEW s \in support[pl]
      PROVE  GetStrategyValue(p, pl, s) <= payoff[p][pl]
  <2>1. CASE s \in Undominated(support, pl)
    BY <2>1 DEF IsNashWithin
  <2>2. CASE s \notin Undominated(support, pl)
    <3>1. PICK t \in Undominated(support, pl) : Dominates(support, pl, t, s)
      BY <2>2, DominatedByUndominated
    <3>2. t \in Strategies(pl) /\ s \in Strategies(pl) /\ p \in Profiles
      BY <1>1 DEF Undominated, Supports, Within
    <3>3. /\ GetStrategyValue(p, pl, t) \in Int /\ GetStrategyValue(p, pl, s) \in Int
          /\ payoff[p][pl] \in Int
      BY <3>2, ValueIsInt
    <3>4. GetStrategyValue(p, pl, t) >= GetStrategyValue(p, pl, s)
      BY <1>1, <3>1, <3>3 DEF Dominates, StrictlyDominates, WeaklyDominates
    <3>5. GetStrategyValue(p, pl, t) <= payoff[p][pl]
      BY DEF IsNashWithin
    <3> QED BY <3>3, <3>4, <3>5
  <2> QED BY <2>1, <2>2
<1> QED BY <1>1, <1>2 DEF IsNashWithin

LEMMA NoFalseNashByLevel ==
  NoFalseNash <=> \A k \in 1..Len(levels) : \A p \in Within(levels[k]) :
                    IsNashWithin(levels[k], p) => IsNash(p)
BY DEF NoFalseNash, IsNashWithin

(* The full support makes up nothing.                                      *)
LEMMA FullSupportIsHonest ==
  ASSUME levels = <<FullSupport>> PROVE NoFalseNash
<1>1. Len(levels) = 1 /\ levels[1] = FullSupport
  OBVIOUS
<1> QED BY <1>1 DEF NoFalseNash, IsNash, FullSupport

LEMMA PushLevelIsHonest ==
  ASSUME IInv, NoFalseNash, PushLevel PROVE NoFalseNash'
<1>1. /\ current = Len(levels) /\ levels \in Seq(Supports) /\ Level \in Supports
      /\ newSupport \in Supports /\ payoff \in [Profiles -> [Players -> Int]]
      /\ strict \in BOOLEAN /\ removing > Len(set) /\ phase = "remove"
      /\ player + 1 \notin Players /\ payoff' = payoff
  BY DEF IInv, SearchInv, Searching, TypeOK, PushLevel, Level
<1>2. \A pl \in Players : newSupport[pl] = Undominated(Level, pl)
  <2>1. \A pl \in Players : pl <= player
    BY <1>1, EliminationAssumption, FS_CardinalityType DEF IInv, TypeOK
  <2> QED BY <1>1, <2>1, SearchedThrough
<1>3. ASSUME NEW p \in Within(newSupport), IsNashWithin(newSupport, p) PROVE IsNash(p)
  <2>1. p \in Within(Level) /\ IsNashWithin(Level, p)
    BY <1>1, <1>2, <1>3, NashOfUndominated
  <2> QED BY <1>1, <2>1, NoFalseNashByLevel DEF Level, IInv, TypeOK
<1>4. \A support, p : IsNash(p)' = IsNash(p) /\ IsNashWithin(support, p)' = IsNashWithin(support, p)
  BY <1>1 DEF IsNash, IsNashWithin, GetStrategyValue
<1>5. ASSUME NEW k \in 1..Len(levels'), NEW p \in Within(levels'[k]), IsNashWithin(levels'[k], p)
      PROVE  IsNash(p)
  <2>1. CASE levels' = levels
    BY <1>5, <2>1, NoFalseNashByLevel
  <2>2. CASE levels' = Append(levels, newSupport)
    <3>1. CASE k \in 1..Len(levels)
      BY <1>1, <1>5, <2>2, <3>1, NoFalseNashByLevel
    <3>2. CASE k = Len(levels) + 1
      BY <1>1, <1>3, <1>5, <2>2, <3>2
    <3> QED BY <1>1, <2>2, <3>1, <3>2
  <2> QED BY <2>1, <2>2 DEF PushLevel
<1> QED BY <1>4, <1>5 DEF NoFalseNash, IsNashWithin

(* Whether the game eliminated from is a strict or a weak one, no profile  *)
(* looks like an equilibrium of a level that is none of the whole game.    *)
THEOREM EliminationMakesNoNash == Spec => []NoFalseNash
<1>1. Init => NoFalseNash
  BY FullSupportIsHonest DEF Init
<1>2. ASSUME IInv, NoFalseNash, [Next]_vars PROVE NoFalseNash'
  <2>1. CASE PushLevel
    BY <1>2, <2>1, PushLevelIsHonest
  <2>2. CASE levels' = <<FullSupport>>
    <3>1. Len(levels') = 1 /\ levels'[1] = FullSupport
      BY <2>2
    <3> QED BY <3>1 DEF NoFalseNash, IsNash, FullSupport
  <2>3. CASE UNCHANGED <<payoff, levels>>
    BY <1>2, <2>3 DEF NoFalseNash, IsNash, GetStrategyValue
  <2>4. PushLevel \/ levels' = <<FullSupport>> \/ UNCHANGED <<payoff, levels>>
    BY <1>2 DEF Next, SetStrict, Reset, GoDown, NextLevel, PreviousLevel, TopLevel, Search,
                DropLast, TryLast, Eliminate, Supersede, PutAside, AcceptCandidate,
                StartRemoving, Remove, NextPlayer, vars, stack
  <2> QED BY <2>1, <2>2, <2>3, <2>4
<1> QED BY <1>1, <1>2, Invariance, PTL DEF Spec

=============================================================================
