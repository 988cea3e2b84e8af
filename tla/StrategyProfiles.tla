-------------------------- MODULE StrategyProfiles --------------------------
(***************************************************************************)
(* Gambit's StrategyProfileIterator (libgambit/stratitr.cc): the order in  *)
(* which the profiles of a strategic game are visited.  Files are written  *)
(* and read in this order, so it is also what the position of a payoff in  *)
(* a .nfg file means.  A profile is the sequence of the positions of the   *)
(* players' strategies; "dims" is the number of strategies per player.     *)
(***************************************************************************)
EXTENDS Naturals, Sequences, SequencesExt

Product(dims) ==
  LET upTo[i \in 0..Len(dims)] == IF i = 0 THEN 1 ELSE upTo[i - 1] * dims[i]
  IN  upTo[Len(dims)]

Total(list) ==
  LET upTo[i \in 0..Len(list)] == IF i = 0 THEN 0 ELSE upTo[i - 1] + list[i]
  IN  upTo[Len(list)]

First(dims) == [pl \in DOMAIN dims |-> 1]

AtLast(dims, profile) == \A pl \in DOMAIN dims : profile[pl] = dims[pl]

(* Mutant: the last player moves first.                                    *)
AdvanceLastFirst(dims, profile) ==
  IF AtLast(dims, profile)
  THEN First(dims)
  ELSE LET pl == CHOOSE i \in DOMAIN dims :
                   /\ profile[i] < dims[i]
                   /\ \A j \in (i + 1)..Len(dims) : profile[j] = dims[j]
       IN  [j \in DOMAIN dims |-> CASE j > pl -> 1
                                    [] j = pl -> profile[j] + 1
                                    [] j < pl -> profile[j]]

(* The first player with a strategy left moves on to it and all players    *)
(* before go back to their first.                                          *)
Advance(dims, profile) ==
  IF AtLast(dims, profile)
  THEN First(dims)
  ELSE LET pl == CHOOSE i \in DOMAIN dims :
                   /\ profile[i] < dims[i]
                   /\ \A j \in 1..(i - 1) : profile[j] = dims[j]
       IN  [j \in DOMAIN dims |-> CASE j < pl -> 1
                                    [] j = pl -> profile[j] + 1
                                    [] j > pl -> profile[j]]

(* All profiles in the order of the iterator.                              *)
Iterated(dims) ==
  LET visited[k \in 1..Product(dims)] ==
        IF k = 1 THEN First(dims) ELSE Advance(dims, visited[k - 1])
  IN  visited

=============================================================================
