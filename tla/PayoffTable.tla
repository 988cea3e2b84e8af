----------------------------- MODULE PayoffTable ----------------------------
(***************************************************************************)
(* What a strategic game is, whatever the layout of its table: each player *)
(* has a list of strategies, and every combination of strategies has       *)
(* payoffs.  Editing a game changes what it says and nothing else.         *)
(***************************************************************************)
EXTENDS Naturals, Sequences, SequencesExt

CONSTANTS Label, Payoff, ZeroPayoff

VARIABLES labels, payoffs

table == <<labels, payoffs>>

Combinations(lists) ==
  {p \in [DOMAIN lists -> Label] : \A pl \in DOMAIN lists : p[pl] \in ToSet(lists[pl])}

(* A new player has one strategy, with which nothing changes.              *)
AddPlayer ==
  /\ \E l \in Label : labels' = Append(labels, <<l>>)
  /\ payoffs' = [p \in Combinations(labels') |-> payoffs[SubSeq(p, 1, Len(labels))]]

(* The payoffs of a new strategy are zero, all others are kept.            *)
AddStrategy(pl) ==
  \E l \in Label \ ToSet(labels[pl]) :
    /\ labels' = [labels EXCEPT ![pl] = Append(@, l)]
    /\ payoffs' = [p \in Combinations(labels') |-> IF p[pl] = l THEN ZeroPayoff ELSE payoffs[p]]

(* What remains keeps its payoffs; nobody loses the last strategy.         *)
DropStrategy(pl, st) ==
  /\ Len(labels[pl]) > 1
  /\ labels' = [labels EXCEPT ![pl] = RemoveAt(@, st)]
  /\ payoffs' = [p \in Combinations(labels') |-> payoffs[p]]

ChangePayoff(p) ==
  /\ UNCHANGED labels
  /\ \E v \in Payoff : payoffs' = [payoffs EXCEPT ![p] = v]

EditTable ==
  \/ AddPlayer
  \/ \E pl \in DOMAIN labels : AddStrategy(pl)
  \/ \E pl \in DOMAIN labels : \E st \in DOMAIN labels[pl] : DropStrategy(pl, st)
  \/ \E p \in DOMAIN payoffs : ChangePayoff(p)

=============================================================================
