---------------------------- MODULE GameDocument ----------------------------
(***************************************************************************)
(* The document of Gambit's graphical interface (gui/gamedoc.cc) for a     *)
(* strategic game: the table being edited, the lists of equilibria that    *)
(* were computed for it, and the undo and redo lists.  Both hold the text  *)
(* of the whole document, written at every change; the last text of the    *)
(* undo list is the document shown.                                        *)
(*                                                                         *)
(* Labels of a player's strategies are kept different, so that they can    *)
(* stand for the strategies.  Colours and other views, titles and names    *)
(* are one operation, ChangeView, without a state of its own.              *)
(*                                                                         *)
(* No operation reads a history: saw, edit and intact of a text (what was  *)
(* shown when it was written, whether by an edit, from a dense table),     *)
(* about of a profile list (the game it was computed for), and the         *)
(* variables shown (what the table says), reloaded (an undo or redo was    *)
(* last) and since (the operations since strategies were last numbered).   *)
(***************************************************************************)
EXTENDS GameTable

CONSTANTS
  InitialDims,    \* the numbers of strategies of the games opened
  MaxPlayers, MaxStrategies, MaxLists, MaxTexts,   \* bounds
  NewPayoffs      \* payoffs a user types in

ASSUME DocumentAssumption ==
  /\ \A dims \in InitialDims : dims \in Seq(1..MaxStrategies) /\ dims # <<>>
  /\ MaxPlayers \in Nat /\ MaxStrategies \in Nat /\ MaxLists \in Nat /\ MaxTexts \in Nat \ {0}
  /\ NewPayoffs \subseteq Nat

VARIABLES game, profiles, undoList, redoList, shown, reloaded, since

vars == <<game, profiles, undoList, redoList, shown, reloaded, since>>

Shown(g) == [labels |-> Labels(g), payoffs |-> Payoffs(g)]

SaveDocument(g, lists, saw, edit) ==
  [nfg |-> WriteNfgFile(g), profiles |-> lists,
   saw |-> saw, edit |-> edit, intact |-> Dense(g)]

(* The text is written before the profiles of the old game are discarded.  *)
UpdateViews(g, edit) ==
  /\ game' = g
  /\ shown' = Shown(g)
  /\ undoList' = Append(undoList, SaveDocument(g, profiles, shown', edit))
  /\ redoList' = <<>>
  /\ profiles' = IF edit THEN <<>> ELSE profiles
  /\ reloaded' = FALSE

MayChange(n) == Len(undoList) + n <= MaxTexts

(* A game was read from a file; all its payoffs are different.             *)
Init ==
  /\ \E dims \in InitialDims :
       LET opened == NewTable([pl \in DOMAIN dims |-> [st \in 1..dims[pl] |-> st]])
       IN  game = [opened EXCEPT !.outcomes = [o \in DOMAIN @ |-> o]]
  /\ shown = Shown(game)
  /\ profiles = <<>>
  /\ undoList = <<SaveDocument(game, <<>>, shown, FALSE)>>
  /\ redoList = <<>>
  /\ reloaded = FALSE
  /\ since = {}

DoNewPlayer ==
  /\ MayChange(1) /\ NumPlayers(game) < MaxPlayers
  /\ UpdateViews(NewPlayer(game, 1), TRUE)
  /\ since' = since \cup {"NewPlayer"}

FreshLabel(pl) ==
  CHOOSE l \in 1..(Len(game.strategies[pl]) + 1) : l \notin ToSet(Labels(game)[pl])

DoNewStrategy(pl) ==
  /\ MayChange(1) /\ Len(game.strategies[pl]) < MaxStrategies
  /\ UpdateViews(NewStrategy(game, pl, FreshLabel(pl)), TRUE)
  /\ since' = {}

DoDeleteStrategy(pl, st) ==
  /\ MayChange(1)
  /\ UpdateViews(DeleteStrategy(game, pl, st), TRUE)
  /\ since' = since \cup {"DeleteStrategy"}

(* A payoff is typed into a cell that has an outcome ...                   *)
DoSetPayoff(profile) ==
  /\ MayChange(1)
  /\ game.results[Index(game, profile)] # Null
  /\ \E v \in NewPayoffs :
       UpdateViews(SetPayoff(game, game.results[Index(game, profile)], v), TRUE)
  /\ UNCHANGED since

(* ... or into one without: it gets a new outcome first, which is a change *)
(* of its own in the undo list.                                            *)
DoNewOutcome(profile) ==
  /\ MayChange(2)
  /\ game.results[Index(game, profile)] = Null
  /\ \E v \in NewPayoffs :
       LET made == NewOutcome(game)
           outcome == Len(made.outcomes)
           placed == SetOutcome(made, profile, outcome)
       IN  /\ game' = SetPayoff(placed, outcome, v)
           /\ shown' = Shown(game')
           /\ undoList' = undoList \o <<SaveDocument(placed, profiles, Shown(placed), TRUE),
                                        SaveDocument(game', <<>>, shown', TRUE)>>
  /\ redoList' = <<>> /\ profiles' = <<>> /\ reloaded' = FALSE
  /\ UNCHANGED since

(* A solver is started: its list is added and saved before it has found    *)
(* anything (AddProfileList); what it finds later is not saved.            *)
Solve ==
  /\ MayChange(1) /\ Len(profiles) < MaxLists
  /\ \E found \in BOOLEAN :
       profiles' = Append(profiles, [about |-> shown, found |-> found])
  /\ undoList' = Append(undoList,
       SaveDocument(game, Append(profiles, [about |-> shown, found |-> FALSE]), shown, FALSE))
  /\ redoList' = <<>> /\ reloaded' = FALSE
  /\ UNCHANGED <<game, shown, since>>

ChangeView ==
  /\ MayChange(1)
  /\ UpdateViews(game, FALSE)
  /\ UNCHANGED since

(* LoadDocument reads the text: the game and the profile lists in it.      *)
Load(text) ==
  /\ game' = ReadNfgFile(text.nfg)
  /\ shown' = Shown(game')
  /\ profiles' = text.profiles
  /\ reloaded' = TRUE
  /\ since' = {}

(* Mutant: the text that is taken back is loaded.                          *)
UndoToItself ==
  /\ Len(undoList) > 1
  /\ redoList' = Append(redoList, Last(undoList))
  /\ undoList' = Front(undoList)
  /\ Load(Last(undoList))

Undo ==
  /\ Len(undoList) > 1
  /\ redoList' = Append(redoList, Last(undoList))
  /\ undoList' = Front(undoList)
  /\ Load(Last(undoList'))

Redo ==
  /\ redoList # <<>>
  /\ undoList' = Append(undoList, Last(redoList))
  /\ redoList' = Front(redoList)
  /\ Load(Last(undoList'))

Cells ==
  {p \in [DOMAIN game.strategies -> 1..MaxStrategies] :
    \A pl \in DOMAIN game.strategies : p[pl] <= Len(game.strategies[pl])}

Next ==
  \/ DoNewPlayer
  \/ \E pl \in DOMAIN game.strategies : DoNewStrategy(pl)
  \/ \E pl \in DOMAIN game.strategies : \E st \in DOMAIN game.strategies[pl] :
       DoDeleteStrategy(pl, st)
  \/ \E profile \in Cells : DoSetPayoff(profile) \/ DoNewOutcome(profile)
  \/ Solve
  \/ ChangeView
  \/ Undo
  \/ Redo

Spec == Init /\ [][Next]_vars

-----------------------------------------------------------------------------

(* Editing a table changes what the table says as PayoffTable promises:    *)
(* the offsets of every strategy, new, old or left behind by deletions,    *)
(* lead to the right entry, and adding a strategy moves all entries to     *)
(* their new places.  Undo and redo replace the table instead.             *)
AllPayoffs == {NoPayoff} \cup NewPayoffs \cup 1..(MaxStrategies * MaxStrategies)

PT == INSTANCE PayoffTable WITH
        Label <- 1..(MaxStrategies + 1), Payoff <- AllPayoffs, ZeroPayoff <- NoPayoff,
        labels <- shown.labels, payoffs <- shown.payoffs

EditsImplementTable == [][Undo \/ Redo \/ PT!EditTable]_(PT!table)

(* What is shown is what was shown when the last text of the undo list was *)
(* written, however far the user went back and forth, unless it was        *)
(* written when a deletion had left gaps in the table.                     *)
ShownIsLastSaved ==
  LET text == Last(undoList)
  IN  (~reloaded \/ text.intact) => shown = text.saw

(* Unless a strategy was deleted since strategies were last numbered, what *)
(* is written to a file or copied reads back as the game shown; and unless *)
(* a player was added either, the numbers of strategies, by which mixed    *)
(* profiles are read, count through all players' lists.                    *)
TableInOrder ==
  /\ "DeleteStrategy" \notin since => Shown(ReadNfgFile(WriteNfgFile(game))) = shown
  /\ since = {} => Numbered(game)

(* Equilibria that are listed are those of the game shown: a change of the *)
(* game wipes out what was computed for the game before (`to avoid         *)
(* confusion', gamedoc.cc:374-377), and the texts of the undo list hold no *)
(* profiles (gamedoc.cc:408-409).  The code breaks it: the text of an edit *)
(* is written before the wipe and holds the equilibria after all.          *)
EquilibriaOfThisGame ==
  \A k \in DOMAIN profiles : profiles[k].found => profiles[k].about = shown

=============================================================================
