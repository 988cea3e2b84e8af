------------------------------ MODULE GameTree ------------------------------
(***************************************************************************)
(* The extensive form of Gambit (libgambit/gametree.cc): a tree of nodes   *)
(* whose decision nodes are grouped in information sets, the operations    *)
(* that edit it, and what is computed from it: whether the players have    *)
(* perfect recall, and their reduced strategies (libgambit/game.cc).       *)
(*                                                                         *)
(* The tree is a record, and operations map trees to trees since most of   *)
(* them call others.  Nodes, information sets and the actions of one       *)
(* information set are numbers, and a new one gets the least that is free: *)
(* these are the identities of objects, not the numbers the program shows  *)
(* ("number", positions).  Outcomes and labels are left out.               *)
(***************************************************************************)
EXTENDS Integers, SequencesExt

CONSTANTS
  Players,         \* without the chance player
  Node,            \* 1..n: how many there may be at a time
  MaxActions,      \* of an information set
  Weights,         \* probabilities a user may type, in units of 1 / Whole
  Whole,
  SavedGames,      \* trees a session may start from
  MaxEdits

None == 0
Chance == 0
Infoset == Node    \* at most one for each decision node

ASSUME TreeAssumption ==
  /\ Node = 1..Cardinality(Node)
  /\ Players = 1..Cardinality(Players)
  /\ Whole \in Nat /\ \A k \in 1..MaxActions : Whole % k = 0

VARIABLES
  game,
  torn,     \* an operation was left halfway by an exception
  edits     \* number of edits so far

vars == <<game, torn, edits>>

NewTree ==
  [root |-> 1,
   parent   |-> [n \in Node |-> None],
   children |-> [n \in Node |-> <<>>],
   infoset  |-> [n \in Node |-> None],
   number   |-> [n \in Node |-> 0],
   player   |-> [h \in Infoset |-> Chance],
   actions  |-> [h \in Infoset |-> <<>>],
   probs    |-> [h \in Infoset |-> <<>>],
   members  |-> [h \in Infoset |-> <<>>],
   infosets |-> [pl \in Players \cup {Chance} |-> <<>>]]

-----------------------------------------------------------------------------
(* Reading the tree.                                                       *)

Preorder(g, n) ==
  LET from[m \in Node] ==
        <<m>> \o FlattenSeq([i \in DOMAIN g.children[m] |-> from[g.children[m][i]]])
  IN from[n]

Below(g, n) == ToSet(Preorder(g, n))
Nodes(g) == Below(g, g.root)
Infosets(g) == UNION {ToSet(g.infosets[pl]) : pl \in DOMAIN g.infosets}

NumActions(g, h) == Len(g.actions[h])
IsTerminal(g, n) == g.children[n] = <<>>

(* n and the nodes on the way from it to the root.                         *)
Ancestors(g, n) ==
  LET up[m \in Node] == {m} \cup (IF g.parent[m] = None THEN {} ELSE up[g.parent[m]])
  IN up[n]

IsSuccessorOf(g, n, m) == m \in Ancestors(g, n)

(* Position of n among the children of its parent.                         *)
ChildIndex(g, n) == CHOOSE i \in DOMAIN g.children[g.parent[n]] : g.children[g.parent[n]][i] = n

GetPriorAction(g, n) ==
  LET h == g.infoset[g.parent[n]] IN <<h, g.actions[h][ChildIndex(g, n)]>>

Precedes(g, action, n) ==
  \E m \in Ancestors(g, n) \ {g.root} : GetPriorAction(g, m) = action

Least(S) == CHOOSE i \in S : \A j \in S : i <= j

FreeNodes(g) == {n \in Node : n # g.root /\ g.parent[n] = None}
FreeInfosets(g) == Infoset \ Infosets(g)

-----------------------------------------------------------------------------
(* Canonicalize numbers the nodes and sorts members and information sets;  *)
(* both bubble sorts stop one element short, so the last one stays last.   *)

SortedButLast(s, Key(_)) ==
  IF s = <<>> THEN s
  ELSE LET first == 1..(Len(s) - 1)
           earlier(i, j) == \/ Key(s[i]) < Key(s[j])
                            \/ Key(s[i]) = Key(s[j]) /\ i < j
           order == SetToSortSeq(first, earlier)
       IN [i \in first |-> s[order[i]]] \o <<Last(s)>>

NumberNodes(g) ==
  LET order == Preorder(g, g.root)
  IN [g EXCEPT !.number = [n \in Node |->
        IF Contains(order, n) THEN CHOOSE i \in DOMAIN order : order[i] = n ELSE @[n]]]

SortMembers(g) ==
  [g EXCEPT !.members = [h \in Infoset |-> SortedButLast(@[h], LAMBDA n : g.number[n])]]

SortInfosets(g) ==
  [g EXCEPT !.infosets = [pl \in DOMAIN @ |->
     SortedButLast(@[pl], LAMBDA h : g.number[g.members[h][1]])]]

Canonicalize(g) == SortInfosets(SortMembers(NumberNodes(g)))

-----------------------------------------------------------------------------
(* Information sets.                                                       *)

UniformProbs(pl, k) == IF pl = Chance THEN [a \in 1..k |-> Whole \div k] ELSE <<>>

(* A new information set, last of its player, with its number.             *)
NewInfoset(g, pl, k) ==
  LET h == Least(FreeInfosets(g))
  IN <<[g EXCEPT !.player[h] = pl, !.actions[h] = [a \in 1..k |-> a],
                 !.probs[h] = UniformProbs(pl, k), !.members[h] = <<>>,
                 !.infosets[pl] = Append(@, h)], h>>

AddMember(g, h, n) == [g EXCEPT !.members[h] = Append(@, n), !.infoset[n] = h]

(* The information set goes with its last member.                          *)
RemoveMember(g, n) ==
  LET h == g.infoset[n]
      left == RemoveFirst(g.members[h], n)
      g1 == [g EXCEPT !.members[h] = left, !.infoset[n] = None]
  IN IF left # <<>> THEN g1
     ELSE [g1 EXCEPT !.infosets[g.player[h]] = RemoveFirst(@, h),
                     !.player[h] = Chance, !.actions[h] = <<>>, !.probs[h] = <<>>]

SetInfoset(g, n, h) ==
  IF g.infoset[n] \in {None, h} THEN g
  ELSE Canonicalize(AddMember(RemoveMember(g, n), h, n))

LeaveInfoset(g, n) ==
  LET old == g.infoset[n]
      new == NewInfoset(RemoveMember(g, n), g.player[old], Len(g.children[n]))
  IN IF old = None \/ Len(g.members[old]) = 1 THEN g
     ELSE Canonicalize(AddMember(new[1], new[2], n))

(* Mutant: the new player's list is forgotten.                             *)
SetPlayerUnlisted(g, h, pl) ==
  IF g.player[h] = pl THEN g
  ELSE Canonicalize([g EXCEPT !.infosets[g.player[h]] = RemoveFirst(@, h),
                              !.player[h] = pl])

SetPlayer(g, h, pl) ==
  IF g.player[h] = pl THEN g
  ELSE Canonicalize([g EXCEPT !.infosets[g.player[h]] = RemoveFirst(@, h),
                              !.infosets[pl] = Append(@, h), !.player[h] = pl])

-----------------------------------------------------------------------------
(* Moves.                                                                  *)

InsertChild(g, n, i) ==
  LET c == Least(FreeNodes(g))
  IN [g EXCEPT !.parent[c] = n, !.children[n] = InsertAt(@, i, c)]

AppendChildren(g, n, k) ==
  FoldLeft(LAMBDA a, i : InsertChild(a, n, Len(a.children[n]) + 1), g, [i \in 1..k |-> i])

(* c is no longer a child of n, and deleted.                               *)
Discard(g, n, c) ==
  [g EXCEPT !.children[n] = RemoveFirst(@, c), !.parent[c] = None, !.number[c] = 0]

(* m takes the place of n under the parent of n.                           *)
Replace(g, n, m) ==
  LET up == g.parent[n]
  IN IF up = None THEN [g EXCEPT !.root = m, !.parent[m] = None]
     ELSE [g EXCEPT !.children[up][ChildIndex(g, n)] = m, !.parent[m] = up]

AppendMove(g, n, h) ==
  Canonicalize(AppendChildren(AddMember(g, h, n), n, NumActions(g, h)))

AppendNewMove(g, n, pl, k) ==
  LET new == NewInfoset(g, pl, k) IN AppendMove(new[1], n, new[2])

(* A move before n, whose first action leads to n.                         *)
InsertMove(g, n, h) ==
  LET m == Least(FreeNodes(g))
      g1 == [Replace(AddMember(g, h, m), n, m) EXCEPT !.parent[n] = m, !.children[m] = <<n>>]
  IN Canonicalize(AppendChildren(g1, m, NumActions(g, h) - 1))

InsertNewMove(g, n, pl, k) ==
  LET new == NewInfoset(g, pl, k) IN InsertMove(new[1], n, new[2])

RECURSIVE DeleteTree(_, _)
DeleteTree(g, n) ==
  LET g1 == FoldLeft(LAMBDA a, c : Discard(DeleteTree(a, c), n, c), g, g.children[n])
  IN Canonicalize(IF g1.infoset[n] = None THEN g1 ELSE RemoveMember(g1, n))

(* n takes the place of its parent, whose other subtrees are deleted while *)
(* that of n hangs in the air.                                             *)
DeleteParent(g, n) ==
  LET old == g.parent[n]
      g1 == DeleteTree([g EXCEPT !.children[old] = RemoveFirst(@, n)], old)
      g2 == Replace(g1, old, n)
  IN Canonicalize([g2 EXCEPT !.parent[old] = None, !.number[old] = 0])

(* The copy joins the information sets of the original; if dest is below   *)
(* src, the copy ends there.                                               *)
RECURSIVE CopySubtree(_, _, _, _)
CopySubtree(g, n, src, stop) ==
  IF src = stop \/ IsTerminal(g, src) THEN g
  ELSE LET g1 == AppendMove(g, n, g.infoset[src])
       IN FoldLeft(LAMBDA a, i : CopySubtree(a, g1.children[n][i], g.children[src][i], stop),
                   g1, [i \in DOMAIN g.children[src] |-> i])

CopyTree(g, dest, src) ==
  IF src = dest \/ ~IsTerminal(g, dest) \/ IsTerminal(g, src) THEN g
  ELSE Canonicalize(CopySubtree(g, dest, src, dest))

(* src and the terminal node dest change places.                           *)
MoveTree(g, dest, src) ==
  IF src = dest \/ ~IsTerminal(g, dest) \/ IsSuccessorOf(g, dest, src) THEN g
  ELSE LET from == g.parent[src]
           to == g.parent[dest]
           i == ChildIndex(g, src)
           j == ChildIndex(g, dest)
       IN Canonicalize([g EXCEPT !.children[from][i] = dest, !.children[to][j] = src,
                                 !.parent[src] = to, !.parent[dest] = from])

-----------------------------------------------------------------------------
(* Actions.                                                                *)

(* Mutant: the action comes last, its branches where they were asked for.  *)
InsertActionLast(g, h, where) ==
  LET a == Least((1..MaxActions) \ ToSet(g.actions[h]))
      g1 == [g EXCEPT !.actions[h] = Append(@, a),
                      !.probs[h] = IF g.player[h] = Chance THEN Append(@, 0) ELSE @]
  IN Canonicalize(FoldLeft(LAMBDA t, m : InsertChild(t, m, where), g1, g.members[h]))

InsertAction(g, h, where) ==
  LET a == Least((1..MaxActions) \ ToSet(g.actions[h]))
      g1 == [g EXCEPT !.actions[h] = InsertAt(@, where, a),
                      !.probs[h] = IF g.player[h] = Chance THEN InsertAt(@, where, 0) ELSE @]
  IN Canonicalize(FoldLeft(LAMBDA t, m : InsertChild(t, m, where), g1, g.members[h]))

(* The probability that goes is the last one, whichever action goes.       *)
RemoveAction(g, h, which) ==
  [g EXCEPT !.actions[h] = RemoveAt(@, which),
            !.probs[h] = IF g.player[h] = Chance THEN Front(@) ELSE @]

(* The branches of members i and later; the members are looked up again    *)
(* after a branch has been deleted, and may then be fewer.                 *)
RECURSIVE DeleteBranches(_, _, _, _)
DeleteBranches(g, h, where, i) ==
  IF i > Len(g.members[h]) THEN <<g, FALSE>>
  ELSE LET branch == g.children[g.members[h][i]][where]
           g1 == DeleteTree(g, branch)
       IN IF i > Len(g1.members[h]) THEN <<g1, TRUE>>
          ELSE LET m == g1.members[h][i]
               IN DeleteBranches(Discard(g1, m, g1.children[m][where]), h, where, i + 1)

DeleteAction(g, h, where) ==
  LET result == DeleteBranches(RemoveAction(g, h, where), h, where, 1)
  IN IF result[2] THEN result ELSE <<Canonicalize(result[1]), FALSE>>

(* Mutant: only the first of the members that follow the action leaves.    *)
SeparateFirst(g, action, i) ==
  LET step(a, m) ==
        IF ~Precedes(a.g, action, m) \/ a.new # None THEN a
        ELSE LET g1 == LeaveInfoset(a.g, m) IN [g |-> g1, new |-> g1.infoset[m]]
  IN FoldLeft(step, [g |-> g, new |-> None], g.members[i]).g

(* The members of i that follow the action get an information set of their *)
(* own.                                                                    *)
Separate(g, action, i) ==
  LET step(a, m) ==
        IF ~Precedes(a.g, action, m) THEN a
        ELSE IF a.new # None THEN [a EXCEPT !.g = SetInfoset(a.g, m, a.new)]
        ELSE LET g1 == LeaveInfoset(a.g, m) IN [g |-> g1, new |-> g1.infoset[m]]
  IN FoldLeft(step, [g |-> g, new |-> None], g.members[i]).g

(* The player's information sets are gone through by their positions,      *)
(* which every separation may change.                                      *)
RECURSIVE RevealFrom(_, _, _, _, _)
RevealFrom(g, h, pl, act, iset) ==
  IF act > NumActions(g, h) THEN g
  ELSE IF iset > Len(g.infosets[pl]) THEN RevealFrom(g, h, pl, act + 1, 1)
  ELSE RevealFrom(Separate(g, <<h, g.actions[h][act]>>, g.infosets[pl][iset]),
                  h, pl, act, iset + 1)

Reveal(g, h, pl) == Canonicalize(RevealFrom(g, h, pl, 1, 1))

-----------------------------------------------------------------------------
(* Perfect recall, as the program judges it.                               *)

(* The first member of h, in the order of the list, on the way to m.       *)
MemberAbove(g, h, m) ==
  LET above == SelectSeq(g.members[h], LAMBDA n : n # m /\ IsSuccessorOf(g, m, n))
  IN IF above = <<>> THEN None ELSE above[1]

(* The action at h that leads to m.                                        *)
ActionTo(g, h, m) ==
  CHOOSE a \in 1..NumActions(g, h) : IsSuccessorOf(g, m, g.children[MemberAbove(g, h, m)][a])

(* Mutant: it does not matter which action was taken.                      *)
ForgottenMoveOnly(g, h1, h2) ==
  LET m == g.members[h2]
      Preceded(k) == MemberAbove(g, h1, m[k]) # None
  IN \E k \in DOMAIN m :
       \/ h1 = h2 /\ Preceded(k)
       \/ \E j \in 1..(k - 1) : Preceded(j) /\ ~Preceded(k)

(* The members of h2 are gone through in order; one is compared with those *)
(* before it.                                                              *)
Forgotten(g, h1, h2) ==
  LET m == g.members[h2]
      Preceded(k) == MemberAbove(g, h1, m[k]) # None
  IN \E k \in DOMAIN m :
       \/ h1 = h2 /\ Preceded(k)
       \/ \E j \in 1..(k - 1) :
            Preceded(j) /\ (Preceded(k) => ActionTo(g, h1, m[j]) # ActionTo(g, h1, m[k]))

IsPerfectRecall(g) ==
  \A pl \in Players : \A h1, h2 \in ToSet(g.infosets[pl]) : ~Forgotten(g, h1, h2)

-----------------------------------------------------------------------------
(* Reduced strategies.  Information sets that were decided on keep a flag  *)
(* and the branch taken; at a node of somebody else the walk continues     *)
(* with the first child and comes back for the next one, "next", from the  *)
(* terminal nodes, along the pointers "back" to the nodes of others passed *)
(* before.                                                                 *)

IndexAmong(s, e) == CHOOSE i \in DOMAIN s : s[i] = e

MakeStrategy(g, pl, w) ==
  [w EXCEPT !.made = Append(@, [i \in DOMAIN g.infosets[pl] |->
     LET h == g.infosets[pl][i] IN IF w.flag[h] THEN w.branch[h] ELSE 0])]

NextSibling(g, n) ==
  LET all == g.children[g.parent[n]]
      i == ChildIndex(g, n)
  IN IF i = Len(all) THEN None ELSE all[i + 1]

(* Mutant: only siblings are visited next.                                 *)
ResumeAtSibling(g, w, nn) == NextSibling(g, nn)

(* The next subtree to visit after the one of nn, if any is left.          *)
RECURSIVE Resume(_, _, _)
Resume(g, w, nn) ==
  LET next == NextSibling(g, nn)
      back == w.back[g.parent[nn]]
  IN IF next # None \/ back = None THEN next ELSE Resume(g, w, w.visiting[back])

RECURSIVE MakeReducedStrats(_, _, _, _, _)
MakeReducedStrats(g, pl, n, nn, w) ==
  LET h == g.infoset[n]
      child == g.children[n]
      Try(a, i) == MakeReducedStrats(g, pl, child[i], nn,
                     [a EXCEPT !.visiting[n] = child[i], !.branch[h] = i])
  IN IF child # <<>> /\ g.player[h] = pl /\ ~w.flag[h] THEN
       LET w1 == FoldLeft(Try, [w EXCEPT !.flag[h] = TRUE], [i \in DOMAIN child |-> i])
       IN [w1 EXCEPT !.flag[h] = FALSE]
     ELSE IF child # <<>> /\ g.player[h] = pl THEN
       MakeReducedStrats(g, pl, child[w.branch[h]], nn, w)
     ELSE IF child # <<>> THEN
       MakeReducedStrats(g, pl, child[1], child[1],
         [w EXCEPT !.back[n] = IF nn = None THEN None ELSE g.parent[nn],
                   !.visiting[n] = child[1], !.branch[h] = 0])
     ELSE LET m == IF nn = None THEN None ELSE Resume(g, w, nn)
          IN IF m = None THEN MakeStrategy(g, pl, w)
             ELSE LET up == g.parent[m]
                      w1 == MakeReducedStrats(g, pl, m, m, [w EXCEPT !.visiting[up] = m])
                  IN [w1 EXCEPT !.visiting[up] = w.visiting[up]]

ReducedStrategies(g, pl) ==
  MakeReducedStrats(g, pl, g.root, None,
    [flag |-> [h \in Infoset |-> FALSE], branch |-> [h \in Infoset |-> 0],
     visiting |-> [n \in Node |-> None], back |-> [n \in Node |-> None], made |-> <<>>]).made

-----------------------------------------------------------------------------

Init == game \in SavedGames /\ torn = FALSE /\ edits = 0

Edit(g) == game' = g /\ torn' = FALSE /\ edits' = edits + 1

CanAdd(k) == k <= Cardinality(FreeNodes(game))

DoAppendMove(n, h) ==
  /\ IsTerminal(game, n) /\ CanAdd(NumActions(game, h))
  /\ Edit(AppendMove(game, n, h))

DoAppendNewMove(n, pl, k) ==
  /\ IsTerminal(game, n) /\ CanAdd(k)
  /\ Edit(AppendNewMove(game, n, pl, k))

DoInsertMove(n, h) ==
  /\ CanAdd(NumActions(game, h))
  /\ Edit(InsertMove(game, n, h))

DoInsertNewMove(n, pl, k) ==
  /\ CanAdd(k)
  /\ Edit(InsertNewMove(game, n, pl, k))

DoDeleteTree(n) == Edit(DeleteTree(game, n))

DoDeleteParent(n) ==
  /\ n # game.root
  /\ Edit(DeleteParent(game, n))

DoCopyTree(dest, src) ==
  /\ CanAdd(Cardinality(Below(game, src)) - 1)
  /\ Edit(CopyTree(game, dest, src))

DoMoveTree(dest, src) == Edit(MoveTree(game, dest, src))

(* Refused if the information set has another number of actions.           *)
DoSetInfoset(n, h) ==
  /\ Len(game.children[n]) = NumActions(game, h)
  /\ Edit(SetInfoset(game, n, h))

DoLeaveInfoset(n) == Edit(LeaveInfoset(game, n))

(* Not to or from the chance player.                                       *)
DoSetPlayer(h, pl) ==
  /\ game.player[h] # Chance
  /\ Edit(SetPlayer(game, h, pl))

DoInsertAction(h, where) ==
  /\ where <= NumActions(game, h) + 1 /\ NumActions(game, h) < MaxActions
  /\ CanAdd(Len(game.members[h]))
  /\ Edit(InsertAction(game, h, where))

DoDeleteAction(h, where) ==
  /\ NumActions(game, h) > 1 /\ where <= NumActions(game, h)
  /\ LET result == DeleteAction(game, h, where)
     IN game' = result[1] /\ torn' = result[2] /\ edits' = edits + 1

DoSetActionProb(h, a, w) ==
  /\ game.player[h] = Chance /\ a <= NumActions(game, h)
  /\ Edit([game EXCEPT !.probs[h][a] = w])

DoReveal(h, pl) == Edit(Reveal(game, h, pl))

Next ==
  /\ edits < MaxEdits /\ ~torn
  /\ \/ \E n \in Nodes(game) :
          \/ DoDeleteTree(n) \/ DoDeleteParent(n) \/ DoLeaveInfoset(n)
          \/ \E src \in Nodes(game) : DoCopyTree(n, src) \/ DoMoveTree(n, src)
          \/ \E h \in Infosets(game) :
                DoAppendMove(n, h) \/ DoInsertMove(n, h) \/ DoSetInfoset(n, h)
          \/ \E pl \in Players \cup {Chance}, k \in 1..MaxActions :
                DoAppendNewMove(n, pl, k) \/ DoInsertNewMove(n, pl, k)
     \/ \E h \in Infosets(game) :
          \/ \E pl \in Players : DoSetPlayer(h, pl) \/ DoReveal(h, pl)
          \/ \E a \in 1..MaxActions :
                \/ DoInsertAction(h, a) \/ DoDeleteAction(h, a)
                \/ \E w \in Weights : DoSetActionProb(h, a, w)

Spec == Init /\ [][Next]_vars

-----------------------------------------------------------------------------

(* Parents and children agree, every node is reached once and numbered by  *)
(* its position, decision nodes have a child for each action and belong to *)
(* one information set, which is listed once, with its player, and chance  *)
(* has a probability for each action.                                      *)
WellFormed(g) ==
  LET order == Preorder(g, g.root)
      sets == FlattenSeq([pl \in 1..(Cardinality(Players) + 1) |-> g.infosets[pl - 1]])
  IN /\ IsInjective(order) /\ IsInjective(sets)
     /\ g.parent[g.root] = None
     /\ \A n \in ToSet(order) : \A c \in ToSet(g.children[n]) : g.parent[c] = n
     /\ \A n \in Node \ ToSet(order) : g.parent[n] = None /\ g.infoset[n] = None
     /\ ~IsTerminal(g, g.root) => \A i \in DOMAIN order : g.number[order[i]] = i
     /\ \A n \in ToSet(order) :
          IF IsTerminal(g, n) THEN g.infoset[n] = None
          ELSE /\ g.infoset[n] \in ToSet(sets)
               /\ Len(g.children[n]) = NumActions(g, g.infoset[n])
     /\ \A pl \in DOMAIN g.infosets : \A h \in ToSet(g.infosets[pl]) :
          /\ g.player[h] = pl
          /\ g.members[h] # <<>> /\ IsInjective(g.members[h])
          /\ ToSet(g.members[h]) = {n \in ToSet(order) : g.infoset[n] = h}
          /\ Len(g.probs[h]) = IF pl = Chance THEN NumActions(g, h) ELSE 0

TreeWellFormed == ~torn => WellFormed(game)

AbsentMinded(g, h) ==
  \E m, n \in ToSet(g.members[h]) : m # n /\ IsSuccessorOf(g, m, n)

(* An edit that was not meant to change what an action leads to leaves it  *)
(* alone: where a node and its parent stay and the parent stays in its     *)
(* information set, the action between them stays the same, and a chance   *)
(* action keeps its probability unless one before it was deleted (then the *)
(* probabilities are misplaced, see RemoveAction) or a new one was set.    *)
(* Only deleting an action of an information set that precedes itself may  *)
(* stop halfway.                                                           *)
SamePlace(n) ==
  /\ game.parent[n] # None
  /\ game'.parent[n] = game.parent[n]
  /\ game'.infoset[game.parent[n]] = game.infoset[game.parent[n]]

BranchesKeepTheirActions ==
  [][/\ (\E n \in Node : /\ ~torn' /\ SamePlace(n)
                           /\ GetPriorAction(game', n) # GetPriorAction(game, n))
          => \E n, src \in Nodes(game) : DoMoveTree(n, src)
     /\ \A h \in ToSet(game.infosets[Chance]) \cap ToSet(game'.infosets[Chance]) :
          \A i \in DOMAIN game.actions[h], j \in DOMAIN game'.actions[h] :
            game.actions[h][i] = game'.actions[h][j] /\ i <= j =>
              \/ game'.probs[h][j] = game.probs[h][i]
              \/ \E w \in Weights : DoSetActionProb(h, i, w)
     /\ torn' => \E h \in Infosets(game) : AbsentMinded(game, h)]_vars

(* Perfect recall: all members of an information set have the same moves   *)
(* of their player behind them.                                            *)
OwnMoves(g, pl, n) ==
  {GetPriorAction(g, m) : m \in {k \in Ancestors(g, n) \ {g.root} :
                                   g.player[g.infoset[g.parent[k]]] = pl}}

Remembered(g) ==
  \A pl \in Players : \A h \in ToSet(g.infosets[pl]) :
    \A m, n \in ToSet(g.members[h]) : OwnMoves(g, pl, m) = OwnMoves(g, pl, n)

(* What is judged to be perfect recall: a game in which every player       *)
(* remembers all his moves is never rejected; and in a game that is        *)
(* accepted, no information set precedes itself, and wherever a player has *)
(* an earlier information set behind him at two members, he took the same  *)
(* action there.  Nothing is claimed of members with that set behind them  *)
(* beside members without: game.h:716-719 promises to notice these too,    *)
(* but they are noticed or not depending on the order of the members.      *)
MovesAt(g, h, n) == {a \in ToSet(g.actions[h]) : Precedes(g, <<h, a>>, n)}

RecallJudged ==
  ~torn =>
    /\ Remembered(game) => IsPerfectRecall(game)
    /\ IsPerfectRecall(game) =>
         \A pl \in Players : \A h, before \in ToSet(game.infosets[pl]) :
           \A m, n \in ToSet(game.members[h]) :
             LET past(k) == MovesAt(game, before, k)
             IN /\ before = h => past(m) = {}
                /\ past(m) # {} /\ past(n) # {} => past(m) = past(n)

(* A reduced strategy chooses an action exactly where the choices made     *)
(* before it let the player move, and each is generated once.              *)
Reduced(g, pl) ==
  LET own == g.infosets[pl]
      Open(c, i) == \E n \in ToSet(g.members[own[i]]) :
         \A act \in OwnMoves(g, pl, n) :
           LET k == c[IndexAmong(own, act[1])]
           IN k \in 1..NumActions(g, act[1]) /\ g.actions[act[1]][k] = act[2]
  IN {c \in [DOMAIN own -> 0..MaxActions] :
        \A i \in DOMAIN own : IF Open(c, i) THEN c[i] \in 1..NumActions(g, own[i])
                                            ELSE c[i] = 0}

StrategiesReduced ==
  ~torn => \A pl \in Players :
    LET made == ReducedStrategies(game, pl)
    IN IsInjective(made) /\ ToSet(made) = Reduced(game, pl)

(* Revealing a move to a player tells him that move and nothing else:      *)
(* members of an information set with the same actions of the move behind  *)
(* them stay together, and no nodes are joined that he told apart.  Where  *)
(* the move lies before members of one of his information sets only, he    *)
(* tells its actions apart there.  Nothing more is claimed of where he     *)
(* does: sets may be skipped while the list changes under the loop, so     *)
(* that not `all members of information set which follow action' leave     *)
(* (gametree.cc:198-199).                                                  *)
SameMoveBehind(g, h, m, n) == MovesAt(g, h, m) = MovesAt(g, h, n)

After(g, h, pl) ==
  {i \in ToSet(g.infosets[pl]) : \E m \in ToSet(g.members[i]) : MovesAt(g, h, m) # {}}

OnlyTheMove(h, pl) ==
  /\ \A i \in ToSet(game.infosets[pl]) : \A m, n \in ToSet(game.members[i]) :
       SameMoveBehind(game, h, m, n) => game'.infoset[m] = game'.infoset[n]
  /\ \A i \in Infosets(game') : \A m, n \in ToSet(game'.members[i]) :
       /\ game.infoset[m] = game.infoset[n]
       /\ Cardinality(After(game, h, pl)) = 1 /\ game.infoset[m] \in After(game, h, pl)
            => SameMoveBehind(game, h, m, n)

RevealsOnlyTheMove ==
  [][game'.children = game.children =>
     \A h \in Infosets(game), pl \in Players : DoReveal(h, pl) => OnlyTheMove(h, pl)]_vars

=============================================================================
