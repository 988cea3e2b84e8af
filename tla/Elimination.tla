----------------------------- MODULE Elimination ----------------------------
(***************************************************************************)
(* Iterated elimination of dominated strategies in Gambit: the search for  *)
(* the undominated strategies of a support (libgambit/stratspt.cc) and the *)
(* stack of supports a user goes up and down in (gui/gamedoc.cc).          *)
(*                                                                         *)
(* A support gives every player a set of strategies; a strategy is its     *)
(* number, and supports keep the order of numbers.  The search works in an *)
(* array of a player's strategies, here "set": its first "min" entries are *)
(* known to be undominated, those after position "dis" + 1 to be dominated *)
(* and the first of those left, its candidate, is compared with the others *)
(* at positions from "inc" on.  The array counts from 1, min, dis and inc  *)
(* from 0, as in the code.                                                 *)
(***************************************************************************)
EXTENDS Integers, Sequences, FiniteSets

CONSTANTS
  Players,           \* 1..n
  NumStrategies,     \* of each player
  Games              \* the payoffs of the games considered, per profile and player

Strategies(pl) == 1..NumStrategies[pl]

Profiles == {p \in [Players -> UNION {Strategies(pl) : pl \in Players}] :
              \A pl \in Players : p[pl] \in Strategies(pl)}

ASSUME EliminationAssumption ==
  /\ IsFiniteSet(Players) /\ Players # {} /\ Players = 1..Cardinality(Players)
  /\ NumStrategies \in [Players -> Nat] /\ \A pl \in Players : NumStrategies[pl] > 0
  /\ Games \subseteq [Profiles -> [Players -> Int]]

VARIABLES
  payoff,       \* of the game of the document, which does not change here
  strict,       \* m_strict: eliminate strictly dominated strategies only
  levels,       \* m_supports
  current,      \* m_current
  noFurther,    \* m_noFurther
  phase,        \* of the search: idle, scan, compare, remove
  player,       \* whose strategies are searched
  set, min, dis, inc,
  removing,     \* position in set of the next strategy to remove
  newSupport    \* newS

vars == <<payoff, strict, levels, current, noFurther, phase, player, set, min, dis, inc,
          removing, newSupport>>
search == <<phase, player, set, min, dis, inc, removing, newSupport>>
stack == <<payoff, strict, levels, current, noFurther>>

(* Nobody is without a strategy in a support.                              *)
Supports ==
  {f \in [Players -> SUBSET UNION {Strategies(pl) : pl \in Players}] :
    \A pl \in Players : f[pl] \subseteq Strategies(pl) /\ f[pl] # {}}

FullSupport == [pl \in Players |-> Strategies(pl)]

(* The profiles in which all play strategies of the support.               *)
Within(support) == {p \in Profiles : \A pl \in Players : p[pl] \in support[pl]}

GetStrategyValue(p, pl, s) == payoff[[p EXCEPT ![pl] = s]][pl]

(* Mutant: a strategy that does as well is taken to dominate.              *)
DoesAsWell(support, pl, s, t) ==
  \A p \in Within(support) : GetStrategyValue(p, pl, s) >= GetStrategyValue(p, pl, t)

StrictlyDominates(support, pl, s, t) ==
  \A p \in Within(support) : GetStrategyValue(p, pl, s) > GetStrategyValue(p, pl, t)

(* Mutant: one gain is enough.                                             *)
SometimesBetter(support, pl, s, t) ==
  \E p \in Within(support) : GetStrategyValue(p, pl, s) > GetStrategyValue(p, pl, t)

WeaklyDominates(support, pl, s, t) ==
  /\ \A p \in Within(support) : GetStrategyValue(p, pl, s) >= GetStrategyValue(p, pl, t)
  /\ \E p \in Within(support) : GetStrategyValue(p, pl, s) > GetStrategyValue(p, pl, t)

Dominates(support, pl, s, t) ==
  IF strict THEN StrictlyDominates(support, pl, s, t) ELSE WeaklyDominates(support, pl, s, t)

(* Nobody is left without a strategy.                                      *)
RemoveStrategy(support, pl, s) ==
  IF Cardinality(support[pl]) = 1 THEN support ELSE [support EXCEPT ![pl] = @ \ {s}]

IsNash(p) ==
  \A pl \in Players : \A s \in Strategies(pl) : GetStrategyValue(p, pl, s) <= payoff[p][pl]

-----------------------------------------------------------------------------

Level == levels[current]
Beats(i, j) == Dominates(Level, player, set[i], set[j])
Swapped(i, j) == [set EXCEPT ![i] = set[j], ![j] = set[i]]

InOrder(S) == {f \in [1..Cardinality(S) -> S] :
                \A i, j \in 1..Cardinality(S) : i < j => f[i] < f[j]}

SearchFor(pl) ==
  /\ phase' = "scan" /\ player' = pl
  /\ set' \in InOrder(Level[pl])
  /\ min' = 0
  /\ dis' = Len(set') - 1

Reset ==
  /\ levels' = <<FullSupport>>
  /\ current' = 1
  /\ noFurther' = FALSE

Init ==
  /\ payoff \in Games
  /\ strict = TRUE
  /\ levels = <<FullSupport>> /\ current = 1 /\ noFurther = FALSE
  /\ phase = "idle" /\ player = 1 /\ set = <<>> /\ min = 0 /\ dis = 0 /\ inc = 0
  /\ removing = 0 /\ newSupport = FullSupport

SetStrict(s) ==
  /\ phase = "idle"
  /\ strict' = s
  /\ IF s # strict THEN Reset ELSE UNCHANGED <<levels, current, noFurther>>
  /\ UNCHANGED <<payoff, search>>

(* A level that was computed before is shown again.                        *)
GoDown ==
  /\ phase = "idle" /\ current < Len(levels)
  /\ current' = current + 1
  /\ UNCHANGED <<payoff, strict, levels, noFurther, search>>

(* Otherwise the strategies of one player after the other are searched.    *)
NextLevel ==
  /\ phase = "idle" /\ current = Len(levels) /\ ~noFurther
  /\ newSupport' = Level
  /\ SearchFor(1)
  /\ UNCHANGED <<stack, inc, removing>>

PreviousLevel ==
  /\ phase = "idle" /\ current > 1
  /\ current' = current - 1
  /\ UNCHANGED <<payoff, strict, levels, noFurther, search>>

TopLevel ==
  /\ phase = "idle"
  /\ current' = 1
  /\ UNCHANGED <<payoff, strict, levels, noFurther, search>>

(* The last strategy left is dominated by one known to be undominated ...  *)
DropLast ==
  /\ phase = "scan" /\ min <= dis
  /\ \E i \in 1..min : Beats(i, dis + 1)
  /\ dis' = dis - 1
  /\ UNCHANGED <<stack, phase, player, set, min, inc, removing, newSupport>>

(* ... or becomes the candidate.                                           *)
TryLast ==
  /\ phase = "scan" /\ min <= dis
  /\ \A i \in 1..min : ~Beats(i, dis + 1)
  /\ set' = Swapped(dis + 1, min + 1)
  /\ inc' = min + 1
  /\ phase' = "compare"
  /\ UNCHANGED <<stack, player, min, dis, removing, newSupport>>

(* The candidate dominates the last strategy left.                         *)
Eliminate ==
  /\ phase = "compare" /\ inc <= dis
  /\ Beats(min + 1, dis + 1)
  /\ dis' = dis - 1
  /\ UNCHANGED <<stack, phase, player, set, min, inc, removing, newSupport>>

(* Mutant: the candidate is forgotten and its rival stays where it was.    *)
SupersedeInPlace ==
  /\ phase = "compare" /\ inc <= dis
  /\ ~Beats(min + 1, dis + 1) /\ Beats(dis + 1, min + 1)
  /\ dis' = dis - 1
  /\ UNCHANGED <<stack, phase, player, set, min, inc, removing, newSupport>>

(* The last strategy left dominates the candidate and takes its place.     *)
Supersede ==
  /\ phase = "compare" /\ inc <= dis
  /\ ~Beats(min + 1, dis + 1) /\ Beats(dis + 1, min + 1)
  /\ set' = Swapped(dis + 1, min + 1)
  /\ dis' = dis - 1
  /\ UNCHANGED <<stack, phase, player, min, inc, removing, newSupport>>

(* Mutant: the two are swapped for ever.                                   *)
PutAsideAgain ==
  /\ phase = "compare" /\ inc <= dis
  /\ ~Beats(min + 1, dis + 1) /\ ~Beats(dis + 1, min + 1)
  /\ set' = Swapped(dis + 1, inc + 1)
  /\ UNCHANGED <<stack, phase, player, min, dis, inc, removing, newSupport>>

PutAside ==
  /\ phase = "compare" /\ inc <= dis
  /\ ~Beats(min + 1, dis + 1) /\ ~Beats(dis + 1, min + 1)
  /\ set' = Swapped(dis + 1, inc + 1)
  /\ inc' = inc + 1
  /\ UNCHANGED <<stack, phase, player, min, dis, removing, newSupport>>

AcceptCandidate ==
  /\ phase = "compare" /\ inc > dis
  /\ min' = min + 1
  /\ phase' = "scan"
  /\ UNCHANGED <<stack, player, set, dis, inc, removing, newSupport>>

StartRemoving ==
  /\ phase = "scan" /\ min > dis
  /\ phase' = "remove"
  /\ removing' = min + 1
  /\ UNCHANGED <<stack, player, set, min, dis, inc, newSupport>>

Remove ==
  /\ phase = "remove" /\ removing <= Len(set)
  /\ newSupport' = RemoveStrategy(newSupport, player, set[removing])
  /\ removing' = removing + 1
  /\ UNCHANGED <<stack, phase, player, set, min, dis, inc>>

NextPlayer ==
  /\ phase = "remove" /\ removing > Len(set) /\ player + 1 \in Players
  /\ SearchFor(player + 1)
  /\ UNCHANGED <<stack, inc, removing, newSupport>>

(* The last player is done: a new level, or nothing more to eliminate.     *)
PushLevel ==
  /\ phase = "remove" /\ removing > Len(set) /\ player + 1 \notin Players
  /\ phase' = "idle"
  /\ IF newSupport # Level
     THEN /\ levels' = Append(levels, newSupport)
          /\ current' = current + 1
          /\ UNCHANGED noFurther
     ELSE /\ noFurther' = TRUE
          /\ UNCHANGED <<levels, current>>
  /\ UNCHANGED <<payoff, strict, player, set, min, dis, inc, removing, newSupport>>

Search ==
  \/ DropLast \/ TryLast
  \/ Eliminate \/ Supersede \/ PutAside \/ AcceptCandidate
  \/ StartRemoving \/ Remove \/ NextPlayer \/ PushLevel

Next ==
  \/ \E s \in BOOLEAN : SetStrict(s)
  \/ GoDown \/ NextLevel \/ PreviousLevel \/ TopLevel
  \/ Search

Spec == Init /\ [][Next]_vars

(* Undominated runs to its end within one command.                         *)
FairSpec == Spec /\ WF_vars(Search)

-----------------------------------------------------------------------------

TypeOK ==
  /\ payoff \in [Profiles -> [Players -> Int]]
  /\ strict \in BOOLEAN /\ noFurther \in BOOLEAN
  /\ levels \in Seq(Supports) /\ current \in 1..Len(levels)
  /\ phase \in {"idle", "scan", "compare", "remove"}
  /\ player \in Players
  /\ set \in Seq(Nat) /\ min \in Nat /\ dis \in Int /\ inc \in Nat /\ removing \in Nat
  /\ newSupport \in Supports

Undominated(support, pl) ==
  {t \in support[pl] : \A s \in support[pl] : ~Dominates(support, pl, s, t)}

(* Every level keeps exactly the strategies nothing in the level above     *)
(* dominates, whatever the order the search compared them in, and the      *)
(* stack ends only where no strategy is dominated.                         *)
LevelsAreUndominated ==
  /\ \A k \in 1..(Len(levels) - 1) : \A pl \in Players :
       levels[k + 1][pl] = Undominated(levels[k], pl)
  /\ noFurther => \A pl \in Players :
       levels[Len(levels)][pl] = Undominated(levels[Len(levels)], pl)

(* Strict elimination never costs an equilibrium: a profile from which     *)
(* nobody can gain by deviating is left in every level.                    *)
NashSurvives ==
  strict => \A k \in 1..Len(levels) : {p \in Profiles : IsNash(p)} \subseteq Within(levels[k])

(* Neither strict nor weak elimination makes up an equilibrium: whoever    *)
(* could gain by an eliminated strategy could also gain by one that is     *)
(* left.                                                                   *)
NoFalseNash ==
  \A k \in 1..Len(levels) : \A p \in Within(levels[k]) :
    (\A pl \in Players : \A s \in levels[k][pl] : GetStrategyValue(p, pl, s) <= payoff[p][pl])
      => IsNash(p)

(* A search that was started ends.                                         *)
SearchEnds == [](phase # "idle" => <>(phase = "idle"))

=============================================================================
