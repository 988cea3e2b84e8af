------------------------------ MODULE GameTable -----------------------------
(***************************************************************************)
(* Gambit's strategic games in table form (libgambit/gametable.cc with the *)
(* parts of game.cc and file.cc it needs): every operation takes a game    *)
(* and returns the changed one.                                            *)
(*                                                                         *)
(*   strategies   per player the list of strategies; a strategy is its     *)
(*                label, its offset into the table and its number in the   *)
(*                whole game (m_id).  m_number is its place in the list    *)
(*   results      the table: the number of an outcome, or Null             *)
(*   outcomes     the outcomes in the order of their numbers; of an        *)
(*                outcome only a token for its payoffs is kept, NoPayoff   *)
(*                for payoffs of zero                                      *)
(*                                                                         *)
(* "The sum of the offsets of the strategies of a profile is the index of  *)
(* its outcome" (game.h) is what everything here depends on.               *)
(***************************************************************************)
EXTENDS StrategyProfiles, Integers, FiniteSets

Null == 0
NoPayoff == 0

NumPlayers(g) == Len(g.strategies)
NumStrategies(g) == [pl \in DOMAIN g.strategies |-> Len(g.strategies[pl])]

(* GetIndex of a pure strategy profile.                                    *)
Index(g, profile) ==
  1 + Total([pl \in DOMAIN profile |-> g.strategies[pl][profile[pl]].offset])

GetPayoff(g, profile) ==
  LET outcome == g.results[Index(g, profile)]
  IN  IF outcome = Null THEN NoPayoff ELSE g.outcomes[outcome]

IndexStrategies(g) ==
  LET dims == NumStrategies(g)
  IN  [g EXCEPT !.strategies =
        [pl \in DOMAIN dims |->
          [st \in 1..dims[pl] |->
            [g.strategies[pl][st] EXCEPT !.offset = (st - 1) * Product(SubSeq(dims, 1, pl - 1)),
                                         !.id = Total(SubSeq(dims, 1, pl - 1)) + st]]]]

Strategy(label, offset) == [label |-> label, offset |-> offset, id |-> 0]

(* A new game has one outcome per contingency.                             *)
NewTable(labels) ==
  LET size == Product([pl \in DOMAIN labels |-> Len(labels[pl])])
  IN  IndexStrategies(
        [strategies |-> [pl \in DOMAIN labels |->
                          [st \in DOMAIN labels[pl] |-> Strategy(labels[pl][st], 0)]],
         results    |-> [k \in 1..size |-> k],
         outcomes   |-> [k \in 1..size |-> NoPayoff]])

(* The new table keeps what the old one has for the profiles of the old    *)
(* strategies.  A strategy with a negative offset is the new one.          *)
RebuildTable(g) ==
  LET profiles == Iterated(NumStrategies(g))
      IsNew(profile) == \E pl \in DOMAIN profile : g.strategies[pl][profile[pl]].offset < 0
      Kept(profile) == IF IsNew(profile) THEN Null ELSE g.results[Index(g, profile)]
  IN  IndexStrategies([g EXCEPT !.results = [k \in DOMAIN profiles |-> Kept(profiles[k])]])

(* Mutant: the new strategy is not marked by a negative offset.            *)
NewStrategyUnflagged(g, pl, label) ==
  RebuildTable([g EXCEPT !.strategies[pl] = Append(@, Strategy(label, 0))])

NewStrategy(g, pl, label) ==
  RebuildTable([g EXCEPT !.strategies[pl] = Append(@, Strategy(label, -1))])

(* Neither the table nor the offsets and numbers of the remaining          *)
(* strategies change: the call of RebuildTable is commented out.           *)
DeleteStrategy(g, pl, st) ==
  IF Len(g.strategies[pl]) = 1
  THEN g
  ELSE [g EXCEPT !.strategies[pl] = RemoveAt(@, st)]

(* The player's only strategy gets no number (m_id stays 0).               *)
NewPlayer(g, label) ==
  [g EXCEPT !.strategies = Append(@, <<Strategy(label, 0)>>)]

NewOutcome(g) == [g EXCEPT !.outcomes = Append(@, NoPayoff)]

SetOutcome(g, profile, outcome) == [g EXCEPT !.results[Index(g, profile)] = outcome]

SetPayoff(g, outcome, payoff) == [g EXCEPT !.outcomes[outcome] = payoff]

(* The first so many results are written, as many as there are profiles.   *)
WriteNfgFile(g) ==
  [labels   |-> [pl \in DOMAIN g.strategies |->
                  [st \in DOMAIN g.strategies[pl] |-> g.strategies[pl][st].label]],
   outcomes |-> g.outcomes,
   body     |-> [k \in 1..Product(NumStrategies(g)) |-> g.results[k]]]

(* A new game gets the payoffs of the listed outcomes, further outcomes if *)
(* more are listed than it has contingencies, and then its outcomes in the *)
(* order of the iterator.                                                  *)
ReadNfgFile(text) ==
  LET fresh == NewTable(text.labels)
      profiles == Iterated(NumStrategies(fresh))
      listed == [o \in 1..(Len(text.outcomes)) |-> text.outcomes[o]]
      blank == [o \in 1..Len(fresh.outcomes) |-> NoPayoff]
      At(i) == CHOOSE k \in DOMAIN profiles : Index(fresh, profiles[k]) = i
  IN  [fresh EXCEPT
        !.outcomes = listed \o SubSeq(blank, Len(listed) + 1, Len(blank)),
        !.results = [i \in DOMAIN @ |-> text.body[At(i)]]]

(* What the table says: the payoffs of every combination of labels.        *)
Labels(g) == [pl \in DOMAIN g.strategies |->
               [st \in DOMAIN g.strategies[pl] |-> g.strategies[pl][st].label]]

ProfilesOver(labels) ==
  {p \in [DOMAIN labels -> UNION {ToSet(labels[pl]) : pl \in DOMAIN labels}] :
    \A pl \in DOMAIN labels : p[pl] \in ToSet(labels[pl])}

Payoffs(g) ==
  LET Position(p) == [pl \in DOMAIN p |->
                       CHOOSE st \in DOMAIN g.strategies[pl] : g.strategies[pl][st].label = p[pl]]
  IN  [p \in ProfilesOver(Labels(g)) |-> GetPayoff(g, Position(p))]

(* The table is laid out as IndexStrategies and the files assume.          *)
Dense(g) ==
  \A pl \in DOMAIN g.strategies : \A st \in DOMAIN g.strategies[pl] :
    g.strategies[pl][st].offset = IndexStrategies(g).strategies[pl][st].offset

(* Numbers of strategies are their positions in a mixed profile.           *)
Numbered(g) ==
  \A pl \in DOMAIN g.strategies : \A st \in DOMAIN g.strategies[pl] :
    g.strategies[pl][st].id = IndexStrategies(g).strategies[pl][st].id

=============================================================================
