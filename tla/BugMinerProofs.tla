--------------------------- MODULE BugMinerProofs ---------------------------
(***************************************************************************)
(* What the Bugzilla miner exports is consistent, for every catalogue,     *)
(* every number of changes people make while it reads, and wherever a call *)
(* fails.  The argument: a history only grows, so its first resolution and *)
(* its first change of the priority stay what they are; and a report that  *)
(* was listed and not yet enriched shows the priority its bug was filed    *)
(* with unless a history read later will show the first change of it.      *)
(***************************************************************************)
EXTENDS BugMiner, NumberLemmas

-----------------------------------------------------------------------------
(* The first and the last of some positions.                               *)

LEMMA FirstOfIsFirst ==
  ASSUME NEW n \in Nat, NEW P \in SUBSET (1..n), P # {}
  PROVE  FirstOf(P) \in P /\ \A j \in P : FirstOf(P) <= j
BY SmallestExists DEF FirstOf

LEMMA LastOfIsLast ==
  ASSUME NEW n \in Nat, NEW P \in SUBSET (1..n), P # {}
  PROVE  LastOf(P) \in P /\ \A j \in P : j <= LastOf(P)
BY LargestExists DEF LastOf

-----------------------------------------------------------------------------
(* What the history explorer says of a history is true of it.              *)

Entry == [who : Users, change : Changes]

LEMMA ChangeFields ==
  ASSUME NEW change \in Changes
  PROVE  /\ change.field \in {STATUS_FIELD, ASSIGNEE_FIELD, PRIORITY_FIELD}
         /\ change.field = STATUS_FIELD => change.added \in Statuses /\ change.removed \in Statuses
         /\ change.field = PRIORITY_FIELD => change.added \in Priorities /\ change.removed \in Priorities
BY DEF Changes, STATUS_FIELD, ASSIGNEE_FIELD, PRIORITY_FIELD

LEMMA EntriesOf ==
  ASSUME NEW changes \in Seq(Entry)
  PROVE  /\ Len(changes) \in Nat /\ DOMAIN changes = 1..Len(changes)
         /\ \A i \in 1..Len(changes) : changes[i].who \in Users /\ changes[i].change \in Changes
<1>1. Len(changes) \in Nat /\ DOMAIN changes = 1..Len(changes)
  OBVIOUS
<1>2. \A i \in 1..Len(changes) : changes[i] \in Entry
  OBVIOUS
<1> QED BY <1>1, <1>2 DEF Entry

(* A report as the list call left it: nothing is known from the history.   *)
Unread(r) == r.resolvedBy = None /\ r.priorityChanger = None /\ r.originalPriority = None

LEMMA WithResolutionIsTrue ==
  ASSUME NEW r \in Reports, Unread(r), NEW changes \in Seq(Entry)
  PROVE  /\ WithResolution(r, changes) \in Reports
         /\ TrueOf(WithResolution(r, changes), changes)
         /\ WithResolution(r, changes).issueKey = r.issueKey
         /\ WithResolution(r, changes).status = r.status
         /\ WithResolution(r, changes).priority = r.priority
         /\ WithResolution(r, changes).originalPriority = None
         /\ WithResolution(r, changes).priorityChanger = None
         /\ ResolvedHistory(changes) # {} => WithResolution(r, changes).resolvedBy # None
<1> DEFINE resolved == FirstOf(ResolvedHistory(changes))
           resolver == changes[resolved].who
           touched == ResolverInteractions(changes, resolver)
           start == FirstOf(touched)
           assigned == FirstOrNone(ResolverAssigned(changes, resolver))
           r2 == WithResolution(r, changes)
<1>1. CASE ResolvedHistory(changes) = {}
  BY <1>1 DEF WithResolution, Unread, TrueOf
<1>2. CASE ResolvedHistory(changes) # {}
  <2>1. /\ Len(changes) \in Nat /\ DOMAIN changes = 1..Len(changes)
        /\ \A i \in 1..Len(changes) : changes[i].who \in Users /\ changes[i].change \in Changes
    BY EntriesOf
  <2>2. ResolvedHistory(changes) \in SUBSET (1..Len(changes))
    BY <2>1 DEF ResolvedHistory, Touching
  <2>3. resolved \in ResolvedHistory(changes) /\ \A j \in ResolvedHistory(changes) : resolved <= j
    BY <1>2, <2>1, <2>2, FirstOfIsFirst
  <2> HIDE DEF resolved
  <2>4. resolved \in 1..Len(changes) /\ resolver \in Users
    BY <2>1, <2>2, <2>3
  <2>5. touched \in SUBSET (1..Len(changes)) /\ resolved \in touched
    BY <2>1, <2>4 DEF ResolverInteractions
  <2> HIDE DEF touched
  <2>6. start \in touched /\ \A j \in touched : start <= j
    BY <2>1, <2>5, FirstOfIsFirst
  <2> HIDE DEF start
  <2>7. assigned \in Dates \cup {None}
    <3> DEFINE P == ResolverAssigned(changes, resolver)
    <3>1. P \in SUBSET (1..Len(changes))
      BY <2>1 DEF ResolverAssigned, Touching
    <3> HIDE DEF P
    <3>2. P # {} => FirstOf(P) \in P
      BY <2>1, <3>1, FirstOfIsFirst
    <3>3. \A i \in P : i \in Nat \ {0}
      BY <2>1, <3>1
    <3>4. FirstOrNone(P) \in Dates \cup {None}
      BY <3>2, <3>3 DEF FirstOrNone, Dates
    <3> QED BY <3>4 DEF P, assigned
  <2> HIDE DEF assigned
  <2>8. r2 = [r EXCEPT !.resolvedBy = resolver, !.resolutionDate = resolved,
                       !.resolverAssigned = assigned, !.resolutionStart = start]
    BY <1>2 DEF WithResolution, assigned, start, touched, resolved
  <2> HIDE DEF r2
  <2>9. r2 \in Reports
    <3>1. resolver \in Users /\ resolved \in Dates /\ start \in Dates
      BY <2>1, <2>4, <2>5, <2>6 DEF Dates
    <3> HIDE DEF resolver
    <3> QED BY <2>7, <2>8, <3>1 DEF Reports
  <2>10. /\ r2.resolvedBy = resolver /\ r2.resolutionDate = resolved /\ r2.resolutionStart = start
         /\ r2.priorityChanger = None /\ r2.originalPriority = None
         /\ r2.issueKey = r.issueKey /\ r2.status = r.status /\ r2.priority = r.priority
    BY <2>8 DEF Unread, Reports
  <2>11. resolver # None
    BY <2>4, MinerAssumption
  <2>12. /\ resolved \in DOMAIN changes /\ changes[resolved].change.field = STATUS_FIELD
         /\ changes[resolved].change.added = RESOLVED_STATUS
    BY <2>3 DEF ResolvedHistory, Touching
  <2>13. \A i \in 1..(resolved - 1) :
           ~(i \in DOMAIN changes /\ changes[i].change.field = STATUS_FIELD
             /\ changes[i].change.added = RESOLVED_STATUS)
    BY <2>1, <2>3, <2>4 DEF ResolvedHistory, Touching
  <2>14. start \in 1..resolved /\ changes[start].who = resolver
    BY <2>1, <2>4, <2>5, <2>6 DEF touched, ResolverInteractions
  <2>15. \A i \in 1..(start - 1) : changes[i].who # resolver
    BY <2>1, <2>4, <2>6, <2>14 DEF touched, ResolverInteractions
  <2>16. TrueOf(r2, changes)
    BY <2>10, <2>12, <2>13, <2>14, <2>15 DEF TrueOf
  <2> QED BY <2>9, <2>10, <2>11, <2>16 DEF r2
<1> QED BY <1>1, <1>2

LEMMA WithPriorityChangeIsTrue ==
  ASSUME NEW r \in Reports, r.priorityChanger = None, r.originalPriority = None,
         NEW changes \in Seq(Entry), TrueOf(r, changes)
  PROVE  /\ WithPriorityChange(r, changes) \in Reports
         /\ TrueOf(WithPriorityChange(r, changes), changes)
         /\ WithPriorityChange(r, changes).issueKey = r.issueKey
         /\ WithPriorityChange(r, changes).status = r.status
         /\ WithPriorityChange(r, changes).priority = r.priority
         /\ WithPriorityChange(r, changes).resolvedBy = r.resolvedBy
         /\ IF Touching(changes, PRIORITY_FIELD) = {}
            THEN WithPriorityChange(r, changes).originalPriority = None
            ELSE \E i \in DOMAIN changes :
                   /\ changes[i].change.field = PRIORITY_FIELD
                   /\ \A j \in 1..(i - 1) : changes[j].change.field # PRIORITY_FIELD
                   /\ changes[i].change.removed \in Priorities
                   /\ WithPriorityChange(r, changes).originalPriority = changes[i].change.removed
<1> DEFINE touched == Touching(changes, PRIORITY_FIELD)
           first == FirstOf(touched)
           r2 == WithPriorityChange(r, changes)
<1>1. CASE touched = {}
  BY <1>1 DEF WithPriorityChange
<1>2. CASE touched # {}
  <2>1. /\ Len(changes) \in Nat /\ DOMAIN changes = 1..Len(changes)
        /\ \A i \in 1..Len(changes) : changes[i].who \in Users /\ changes[i].change \in Changes
    BY EntriesOf
  <2>2. touched \in SUBSET (1..Len(changes))
    BY <2>1 DEF Touching
  <2>3. first \in touched /\ \A j \in touched : first <= j
    <3> HIDE DEF touched
    <3> QED BY <1>2, <2>1, <2>2, FirstOfIsFirst
  <2>4. r2 = [r EXCEPT !.priorityChanger = changes[first].who, !.priorityChange = first,
                       !.originalPriority = changes[first].change.removed,
                       !.newPriority = changes[first].change.added]
    BY <1>2 DEF WithPriorityChange
  <2> HIDE DEF first, r2
  <2>5. /\ first \in 1..Len(changes) /\ changes[first].who \in Users
        /\ changes[first].change.field = PRIORITY_FIELD
        /\ changes[first].change \in Changes
    BY <2>1, <2>2, <2>3 DEF Touching
  <2>6. changes[first].change.removed \in Priorities /\ changes[first].change.added \in Priorities
    BY <2>5, ChangeFields
  <2>7. r2 \in Reports
    <3>1. first \in Dates
      BY <2>1, <2>5 DEF Dates
    <3> QED BY <2>4, <2>5, <2>6, <3>1 DEF Reports
  <2>8. /\ r2.priorityChanger = changes[first].who /\ r2.priorityChange = first
        /\ r2.originalPriority = changes[first].change.removed
        /\ r2.newPriority = changes[first].change.added
        /\ r2.issueKey = r.issueKey /\ r2.status = r.status /\ r2.priority = r.priority
        /\ r2.resolvedBy = r.resolvedBy /\ r2.resolutionDate = r.resolutionDate
        /\ r2.resolutionStart = r.resolutionStart
    BY <2>4 DEF Reports
  <2>9. \A j \in 1..(first - 1) : changes[j].change.field # PRIORITY_FIELD
    BY <2>1, <2>3, <2>5 DEF Touching
  <2>10. TrueOf(r2, changes)
    BY <2>1, <2>5, <2>8, <2>9 DEF TrueOf
  <2>11. \E i \in DOMAIN changes :
            /\ changes[i].change.field = PRIORITY_FIELD
            /\ \A j \in 1..(i - 1) : changes[j].change.field # PRIORITY_FIELD
            /\ changes[i].change.removed \in Priorities
            /\ r2.originalPriority = changes[i].change.removed
    BY <2>1, <2>5, <2>6, <2>8, <2>9
  <2> QED BY <1>2, <2>7, <2>8, <2>10, <2>11 DEF r2
<1> QED BY <1>1, <1>2

(* A history only grows, and what was said of it stays true.               *)
LEMMA TrueOfMore ==
  ASSUME NEW r \in Reports, NEW changes \in Seq(Entry), NEW e \in Entry, TrueOf(r, changes)
  PROVE  TrueOf(r, Append(changes, e))
<1> DEFINE more == Append(changes, e)
<1>1. /\ DOMAIN changes = 1..Len(changes) /\ DOMAIN more = 1..(Len(changes) + 1)
      /\ Len(changes) \in Nat /\ \A i \in 1..Len(changes) : more[i] = changes[i]
  OBVIOUS
<1> HIDE DEF more
<1>2. r.resolvedBy # None => r.resolutionDate \in Nat
  BY <1>1 DEF TrueOf
<1>3. \A i \in 1..Len(changes) : \A j \in 1..(i - 1) : j \in 1..Len(changes)
  BY <1>1
<1> QED BY <1>1, <1>3 DEF TrueOf, more

-----------------------------------------------------------------------------
(* The inductive invariant.                                                *)

(* The first change of a priority removes the one the bug was filed with.  *)
HistoryBeginsAtFiled ==
  \A b \in Bugs : \A i \in DOMAIN history[b] :
    (/\ history[b][i].change.field = PRIORITY_FIELD
     /\ \A j \in 1..(i - 1) : history[b][j].change.field # PRIORITY_FIELD)
    => history[b][i].change.removed = filed[b]

(* A report not yet enriched: if its bug's priority was never changed it   *)
(* shows the one it was filed with, and if it shows a resolution, there is *)
(* one in the history.                                                     *)
ListedFits(r) ==
  /\ Unread(r)
  /\ Touching(history[r.issueKey], PRIORITY_FIELD) = {} => r.priority = filed[r.issueKey]
  /\ r.status = RESOLVED_STATUS => ResolvedHistory(history[r.issueKey]) # {}

ReadFits(r) == TrueOf(r, history[r.issueKey]) /\ AgreesWith(r, filed[r.issueKey])

Response ==
  step = "history" =>
    /\ component <= Len(ComponentCatalog)
    /\ Len(bugs) = Len(BugsOf[ComponentCatalog[component]]) /\ next <= Len(bugs) + 1
    /\ \A i \in DOMAIN bugs : bugs[i].issueKey = BugsOf[ComponentCatalog[component]][i]
    /\ \A i \in 1..(next - 1) : ReadFits(bugs[i])
    /\ \A i \in next..Len(bugs) : ListedFits(bugs[i])

Collected == \A i \in DOMAIN bugReports : ReadFits(bugReports[i])

NothingWritten == step \in {"list", "history"} => file = << >>

IInv ==
  /\ TypeOK /\ HistoryBeginsAtFiled /\ Response /\ Collected
  /\ ComponentsWholeOrAbsent /\ NothingWritten

-----------------------------------------------------------------------------
(* What the tracker answers.                                               *)

Listing(c) == BugsOf[ComponentCatalog[c]]

LEMMA ListingFacts ==
  /\ Len(ComponentCatalog) \in Nat /\ DOMAIN ComponentCatalog = 1..Len(ComponentCatalog)
  /\ \A c \in 1..Len(ComponentCatalog) :
       /\ Listing(c) \in Seq(Bugs) /\ Len(Listing(c)) \in Nat
       /\ DOMAIN Listing(c) = 1..Len(Listing(c))
       /\ \A i, j \in 1..Len(Listing(c)) : Listing(c)[i] = Listing(c)[j] => i = j
  /\ \A c, d \in 1..Len(ComponentCatalog) :
       c # d => Range(Listing(c)) \cap Range(Listing(d)) = {}
<1>1. Len(ComponentCatalog) \in Nat /\ DOMAIN ComponentCatalog = 1..Len(ComponentCatalog)
  BY MinerAssumption
<1>2. ASSUME NEW c \in 1..Len(ComponentCatalog)
      PROVE  /\ Listing(c) \in Seq(Bugs) /\ Len(Listing(c)) \in Nat
             /\ DOMAIN Listing(c) = 1..Len(Listing(c))
             /\ \A i, j \in 1..Len(Listing(c)) : Listing(c)[i] = Listing(c)[j] => i = j
  <2>1. ComponentCatalog[c] \in Range(ComponentCatalog)
    BY <1>1 DEF Range
  <2>2. Listing(c) \in Seq(Range(Listing(c))) /\ IsInjective(Listing(c))
    BY <2>1, MinerAssumption DEF Listing
  <2>3. Len(Listing(c)) \in Nat /\ DOMAIN Listing(c) = 1..Len(Listing(c))
    BY <2>2
  <2>4. \A i \in 1..Len(Listing(c)) : Listing(c)[i] \in Bugs
    BY <2>1, <2>3 DEF Bugs, Range, Listing
  <2>5. Listing(c) \in Seq(Bugs)
    BY <2>2, <2>3, <2>4
  <2> QED BY <2>2, <2>3, <2>5 DEF IsInjective
<1>3. ASSUME NEW c \in 1..Len(ComponentCatalog), NEW d \in 1..Len(ComponentCatalog), c # d
      PROVE  Range(Listing(c)) \cap Range(Listing(d)) = {}
  <2>1. ComponentCatalog[c] \in Range(ComponentCatalog) /\ ComponentCatalog[d] \in Range(ComponentCatalog)
    BY <1>1 DEF Range
  <2>2. ComponentCatalog[c] # ComponentCatalog[d]
    BY <1>1, <1>3, MinerAssumption DEF IsInjective
  <2> QED BY <2>1, <2>2, MinerAssumption DEF Listing
<1> QED BY <1>1, <1>2, <1>3

LEMMA TouchingIsSmall ==
  ASSUME NEW changes \in Seq(Entry), NEW field
  PROVE  Touching(changes, field) \in SUBSET (1..Len(changes)) /\ Len(changes) \in Nat
BY EntriesOf DEF Touching

(* The fields of a listed bug, and what they say of its history.           *)
LEMMA ListedIsHonest ==
  ASSUME TypeOK, NEW b \in Bugs
  PROVE  /\ Priority(b) \in Priorities /\ Status(b) \in Statuses
         /\ Touching(history[b], PRIORITY_FIELD) = {} => Priority(b) = filed[b]
         /\ Status(b) = RESOLVED_STATUS => ResolvedHistory(history[b]) # {}
<1> DEFINE changes == history[b]
<1>1. changes \in Seq(Entry) /\ filed[b] \in Priorities
  BY DEF TypeOK, Entry
<1> HIDE DEF changes
<1>2. ASSUME NEW field, Touching(changes, field) # {}
      PROVE  /\ LastOf(Touching(changes, field)) \in Touching(changes, field)
             /\ LastOf(Touching(changes, field)) \in DOMAIN changes
             /\ changes[LastOf(Touching(changes, field))].change \in Changes
             /\ changes[LastOf(Touching(changes, field))].change.field = field
  <2> DEFINE P == Touching(changes, field)
  <2>1. P \in SUBSET (1..Len(changes)) /\ Len(changes) \in Nat
    BY <1>1, TouchingIsSmall
  <2>2. LastOf(P) \in P
    <3> HIDE DEF P
    <3> QED BY <1>2, <2>1, LastOfIsLast DEF P
  <2> QED BY <1>1, <2>1, <2>2, EntriesOf DEF Touching
<1>3. Priority(b) = IF Touching(changes, PRIORITY_FIELD) = {} THEN filed[b]
                    ELSE changes[LastOf(Touching(changes, PRIORITY_FIELD))].change.added
  BY DEF Priority, Current, changes
<1>4. Status(b) = IF Touching(changes, STATUS_FIELD) = {} THEN "NEW"
                  ELSE changes[LastOf(Touching(changes, STATUS_FIELD))].change.added
  BY DEF Status, Current, changes
<1>5. Priority(b) \in Priorities
  BY <1>1, <1>2, <1>3, ChangeFields
<1>6. Status(b) \in Statuses
  BY <1>2, <1>4, ChangeFields DEF Statuses
<1>7. Status(b) = RESOLVED_STATUS => ResolvedHistory(changes) # {}
  <2>1. "NEW" # RESOLVED_STATUS
    BY DEF RESOLVED_STATUS
  <2> QED BY <1>2, <1>4, <2>1 DEF ResolvedHistory
<1> QED BY <1>3, <1>5, <1>6, <1>7 DEF changes

LEMMA ListedFitsNow ==
  ASSUME TypeOK, NEW b \in Bugs
  PROVE  Listed(b) \in Reports /\ ListedFits(Listed(b)) /\ Listed(b).issueKey = b
BY ListedIsHonest DEF Listed, ListedFits, Unread, Reports

(* Applying the history to a listed report makes it one that tells the     *)
(* truth and covers what was listed.                                       *)
LEMMA ApplyMakesItFit ==
  ASSUME TypeOK, HistoryBeginsAtFiled, NEW r \in Reports, ListedFits(r)
  PROVE  /\ ApplyBugHistory(r, history[r.issueKey]) \in Reports
         /\ ReadFits(ApplyBugHistory(r, history[r.issueKey]))
         /\ ApplyBugHistory(r, history[r.issueKey]).issueKey = r.issueKey
<1> DEFINE changes == history[r.issueKey]
           r1 == WithResolution(r, changes)
           r2 == WithPriorityChange(r1, changes)
<1>1. r.issueKey \in Bugs /\ changes \in Seq(Entry) /\ Unread(r)
  BY DEF TypeOK, Reports, Entry, ListedFits
<1>2. DOMAIN changes = 1..Len(changes)
  BY <1>1
<1> HIDE DEF changes
<1>3. /\ r1 \in Reports /\ TrueOf(r1, changes) /\ r1.issueKey = r.issueKey
      /\ r1.status = r.status /\ r1.priority = r.priority
      /\ r1.originalPriority = None /\ r1.priorityChanger = None
      /\ ResolvedHistory(changes) # {} => r1.resolvedBy # None
  BY <1>1, WithResolutionIsTrue
<1> HIDE DEF r1
<1>4. /\ r2 \in Reports /\ TrueOf(r2, changes) /\ r2.issueKey = r1.issueKey
      /\ r2.status = r1.status /\ r2.priority = r1.priority /\ r2.resolvedBy = r1.resolvedBy
      /\ IF Touching(changes, PRIORITY_FIELD) = {}
         THEN r2.originalPriority = None
         ELSE \E i \in DOMAIN changes :
                /\ changes[i].change.field = PRIORITY_FIELD
                /\ \A j \in 1..(i - 1) : changes[j].change.field # PRIORITY_FIELD
                /\ changes[i].change.removed \in Priorities
                /\ r2.originalPriority = changes[i].change.removed
  BY <1>1, <1>3, WithPriorityChangeIsTrue
<1> HIDE DEF r2
<1>5. (IF r2.originalPriority # None THEN r2.originalPriority ELSE r2.priority) = filed[r.issueKey]
  <2>1. CASE Touching(changes, PRIORITY_FIELD) = {}
    BY <1>3, <1>4, <2>1 DEF ListedFits, changes
  <2>2. CASE Touching(changes, PRIORITY_FIELD) # {}
    <3>1. PICK i \in DOMAIN changes :
                /\ changes[i].change.field = PRIORITY_FIELD
                /\ \A j \in 1..(i - 1) : changes[j].change.field # PRIORITY_FIELD
                /\ changes[i].change.removed \in Priorities
                /\ r2.originalPriority = changes[i].change.removed
      BY <1>4, <2>2
    <3>2. changes[i].change.removed = filed[r.issueKey]
      BY <1>1, <3>1 DEF HistoryBeginsAtFiled, changes
    <3> QED BY <3>1, <3>2, MinerAssumption
  <2> QED BY <2>1, <2>2
<1>6. r2.status = RESOLVED_STATUS => r2.resolvedBy # None
  BY <1>3, <1>4 DEF ListedFits, changes
<1>7. r2 = ApplyBugHistory(r, history[r.issueKey])
  BY DEF r2, r1, changes, ApplyBugHistory
<1> QED BY <1>3, <1>4, <1>5, <1>6, <1>7 DEF ReadFits, AgreesWith, changes

-----------------------------------------------------------------------------
(* Every step keeps the invariant.                                         *)

LEMMA InitEstablishes == Init => IInv
<1> SUFFICES ASSUME Init PROVE IInv
  OBVIOUS
<1> USE DEF Init
<1>1. TypeOK
  <2>1. \A b \in Bugs : << >> \in Seq([who : Users, change : Changes])
    OBVIOUS
  <2> QED BY <2>1, ListingFacts DEF TypeOK
<1>2. HistoryBeginsAtFiled
  BY DEF HistoryBeginsAtFiled
<1>3. ComponentsWholeOrAbsent
  BY DEF ComponentsWholeOrAbsent, Range, IsPrefix
<1> QED BY <1>1, <1>2, <1>3 DEF IInv, Response, Collected, NothingWritten

LEMMA ChangeBugKeeps == ASSUME IInv, ChangeBug PROVE IInv'
<1>1. PICK b \in Bugs, who \in Users, change \in Changes :
        /\ change.field = PRIORITY_FIELD => change.removed = Priority(b)
        /\ history' = [history EXCEPT ![b] = Append(@, [who |-> who, change |-> change])]
  BY DEF ChangeBug
<1> DEFINE e == [who |-> who, change |-> change]
<1>2. e \in Entry /\ TypeOK
  BY DEF Entry, IInv
<1>3. /\ history \in [Bugs -> Seq(Entry)] /\ history[b] \in Seq(Entry)
      /\ history'[b] = Append(history[b], e)
      /\ \A c \in Bugs : c # b => history'[c] = history[c]
  BY <1>1, <1>2 DEF TypeOK, Entry
<1>4. UNCHANGED <<filed, component, step, bugs, next, bugReports, file>>
  BY DEF ChangeBug
<1> HIDE DEF e
<1>5. TypeOK'
  <2>1. Append(history[b], e) \in Seq(Entry)
    BY <1>2, <1>3
  <2>2. history' \in [Bugs -> Seq(Entry)]
    BY <1>1, <1>3, <2>1 DEF e
  <2> QED BY <1>2, <1>4, <2>2 DEF TypeOK, Entry
<1>6. /\ Len(history[b]) \in Nat /\ DOMAIN history[b] = 1..Len(history[b])
      /\ DOMAIN history'[b] = 1..(Len(history[b]) + 1)
      /\ \A i \in 1..Len(history[b]) : history'[b][i] = history[b][i]
      /\ history'[b][Len(history[b]) + 1] = e
  BY <1>3
<1>7. HistoryBeginsAtFiled'
  <2> SUFFICES ASSUME NEW c \in Bugs, NEW i \in DOMAIN history'[c],
                      history'[c][i].change.field = PRIORITY_FIELD,
                      \A j \in 1..(i - 1) : history'[c][j].change.field # PRIORITY_FIELD
               PROVE  history'[c][i].change.removed = filed[c]
    BY <1>4 DEF HistoryBeginsAtFiled
  <2>1. CASE c # b
    BY <1>3, <2>1 DEF HistoryBeginsAtFiled, IInv
  <2>2. CASE c = b /\ i \in 1..Len(history[b])
    <3>1. \A j \in 1..(i - 1) : j \in 1..Len(history[b])
      BY <1>6, <2>2
    <3>2. \A j \in 1..(i - 1) : history[b][j].change.field # PRIORITY_FIELD
      BY <1>6, <2>2, <3>1
    <3> QED BY <1>6, <2>2, <3>2 DEF HistoryBeginsAtFiled, IInv
  <2>3. CASE c = b /\ i = Len(history[b]) + 1
    <3>1. Touching(history[b], PRIORITY_FIELD) = {}
      <4>1. \A j \in 1..Len(history[b]) : j \in 1..(i - 1)
        BY <1>6, <2>3
      <4> QED BY <1>6, <2>3, <4>1 DEF Touching
    <3>2. Priority(b) = filed[b]
      BY <1>2, <3>1, ListedIsHonest
    <3> QED BY <1>1, <1>6, <2>3, <3>2 DEF e
  <2> QED BY <1>6, <2>1, <2>2, <2>3
<1>8. ASSUME NEW r \in Reports PROVE ReadFits(r) => ReadFits(r)'
  <2>1. TrueOf(r, history[r.issueKey]) => TrueOf(r, history'[r.issueKey])
    BY <1>2, <1>3, TrueOfMore DEF Reports
  <2> QED BY <1>4, <2>1 DEF ReadFits, AgreesWith
<1>9. ASSUME NEW r \in Reports PROVE ListedFits(r) => ListedFits(r)'
  <2>1. \A field : Touching(history[b], field) \subseteq Touching(history'[b], field)
    BY <1>6 DEF Touching
  <2>2. ResolvedHistory(history[b]) \subseteq ResolvedHistory(history'[b])
    BY <1>6 DEF ResolvedHistory, Touching
  <2>3. r.issueKey \in Bugs
    BY DEF Reports
  <2>4. CASE r.issueKey = b
    BY <1>4, <2>1, <2>2, <2>4 DEF ListedFits, Unread
  <2>5. CASE r.issueKey # b
    BY <1>3, <1>4, <2>3, <2>5 DEF ListedFits, Unread
  <2> QED BY <2>4, <2>5
<1>10. Response'
  <2>1. \A i \in 1..Len(bugs) : bugs[i] \in Reports
    BY <1>2 DEF TypeOK
  <2>2. ASSUME step = "history"
        PROVE  /\ \A i \in 1..(next - 1) : ReadFits(bugs[i])'
               /\ \A i \in next..Len(bugs) : ListedFits(bugs[i])'
    <3>1. next \in Nat \ {0} /\ next <= Len(bugs) + 1 /\ Len(bugs) \in Nat
      BY <1>2, <2>2 DEF TypeOK, Response, IInv
    <3>2. ASSUME NEW i \in 1..(next - 1) PROVE ReadFits(bugs[i])'
      <4>1. i \in 1..Len(bugs) /\ ReadFits(bugs[i])
        BY <2>2, <3>1 DEF Response, IInv
      <4>2. bugs[i] \in Reports /\ bugs'[i] = bugs[i]
        BY <1>4, <2>1, <4>1
      <4> QED BY <1>4, <1>8, <4>1, <4>2
    <3>3. ASSUME NEW i \in next..Len(bugs) PROVE ListedFits(bugs[i])'
      <4>1. i \in 1..Len(bugs) /\ ListedFits(bugs[i])
        BY <2>2, <3>1 DEF Response, IInv
      <4> QED BY <1>4, <1>9, <2>1, <4>1
    <3> QED BY <3>2, <3>3
  <2> QED BY <1>4, <2>2 DEF Response, IInv
<1>11. Collected'
  <2>1. \A i \in DOMAIN bugReports : bugReports[i] \in Reports
    BY <1>2 DEF TypeOK
  <2> QED BY <1>4, <1>8, <2>1 DEF Collected, IInv
<1>12. ComponentsWholeOrAbsent' /\ NothingWritten'
  BY <1>4 DEF ComponentsWholeOrAbsent, NothingWritten, IInv
<1> QED BY <1>5, <1>7, <1>10, <1>11, <1>12 DEF IInv

(* A step that leaves the tracker alone keeps what is said of its records. *)
LEMMA TrackerKept ==
  ASSUME filed' = filed, history' = history
  PROVE  /\ HistoryBeginsAtFiled => HistoryBeginsAtFiled'
         /\ \A r : ReadFits(r) => ReadFits(r)'
         /\ \A r : ListedFits(r) => ListedFits(r)'
BY DEF HistoryBeginsAtFiled, ReadFits, ListedFits

LEMMA ListBugsKeeps == ASSUME IInv, ListBugs PROVE IInv'
<1>1. TypeOK /\ component \in 1..Len(ComponentCatalog) /\ step = "list"
  <2>1. TypeOK /\ component <= Len(ComponentCatalog) /\ step = "list"
    BY DEF IInv, ListBugs, More
  <2>2. component \in 1..(Len(ComponentCatalog) + 1)
    BY <2>1 DEF TypeOK
  <2> QED BY <2>1, <2>2, ListingFacts
<1> DEFINE L == Listing(component)
<1>2. /\ L \in Seq(Bugs) /\ Len(L) \in Nat /\ DOMAIN L = 1..Len(L)
      /\ bugs' = [i \in 1..Len(L) |-> Listed(L[i])]
      /\ step' = "history" /\ next' = 1
      /\ UNCHANGED <<filed, history, component, bugReports, file>>
  BY <1>1, ListingFacts DEF ListBugs, Listing
<1> HIDE DEF L
<1>3. \A i \in 1..Len(L) : /\ Listed(L[i]) \in Reports /\ ListedFits(Listed(L[i]))
                           /\ Listed(L[i]).issueKey = L[i]
  BY <1>1, <1>2, ListedFitsNow
<1>4. bugs' \in Seq(Reports) /\ Len(bugs') = Len(L) /\ DOMAIN bugs' = 1..Len(L)
  BY <1>2, <1>3
<1>5. TypeOK'
  <2>1. next' \in Nat \ {0} /\ step' \in {"list", "history", "export", "closed", "failed"}
    BY <1>2
  <2> QED BY <1>1, <1>2, <1>4, <2>1 DEF TypeOK
<1>6. HistoryBeginsAtFiled' /\ Collected'
  BY <1>2, TrackerKept DEF IInv, Collected
<1>7. Response'
  <2>1. \A i \in 1..Len(L) : ListedFits(bugs[i])'
    <3>1. ASSUME NEW i \in 1..Len(L) PROVE ListedFits(bugs[i])'
      <4>1. bugs'[i] = Listed(L[i])
        BY <1>2
      <4>2. ListedFits(Listed(L[i]))
        BY <1>3
      <4> QED BY <1>2, <4>1, <4>2 DEF ListedFits, Unread
    <3> QED BY <3>1
  <2>2. \A i \in 1..Len(L) : bugs'[i].issueKey = L[i]
    BY <1>2, <1>3
  <2>3. 1..(next' - 1) = {} /\ next'..Len(bugs') = 1..Len(L) /\ next' <= Len(bugs') + 1
    BY <1>2, <1>4
  <2>4. component <= Len(ComponentCatalog)
    BY <1>1, ListingFacts
  <2> QED BY <1>2, <1>4, <2>1, <2>2, <2>3, <2>4 DEF Response, L, Listing
<1>8. ComponentsWholeOrAbsent' /\ NothingWritten'
  BY <1>1, <1>2 DEF ComponentsWholeOrAbsent, NothingWritten, IInv
<1> QED BY <1>5, <1>6, <1>7, <1>8 DEF IInv

LEMMA GetHistoryKeeps == ASSUME IInv, GetHistory PROVE IInv'
<1>1. /\ TypeOK /\ HistoryBeginsAtFiled /\ Response /\ step = "history" /\ next <= Len(bugs)
      /\ next' = next + 1
      /\ UNCHANGED <<filed, history, component, step, bugReports, file>>
  BY DEF IInv, GetHistory
<1>2. /\ next \in 1..Len(bugs) /\ Len(bugs) \in Nat /\ bugs \in Seq(Reports)
      /\ bugs[next] \in Reports /\ DOMAIN bugs = 1..Len(bugs)
  BY <1>1 DEF TypeOK
<1> DEFINE r == ApplyBugHistory(bugs[next], history[bugs[next].issueKey])
<1>3. /\ DOMAIN bugs' = 1..Len(bugs) /\ Len(bugs') = Len(bugs) /\ bugs'[next] = r
      /\ \A i \in 1..Len(bugs) : i # next => bugs'[i] = bugs[i]
  BY <1>2 DEF GetHistory
<1>4. ListedFits(bugs[next])
  BY <1>1, <1>2 DEF Response
<1>5. r \in Reports /\ ReadFits(r) /\ r.issueKey = bugs[next].issueKey
  BY <1>1, <1>2, <1>4, ApplyMakesItFit
<1>6. bugs' \in Seq(Reports)
  BY <1>2, <1>5 DEF GetHistory
<1> HIDE DEF r
<1>7. TypeOK'
  <2>1. next' \in Nat \ {0}
    BY <1>1, <1>2
  <2> QED BY <1>1, <1>6, <2>1 DEF TypeOK
<1>8. HistoryBeginsAtFiled' /\ Collected'
  BY <1>1, TrackerKept DEF IInv, Collected
<1>9. Response'
  <2>1. ASSUME NEW i \in 1..(next' - 1) PROVE ReadFits(bugs[i])'
    <3>1. CASE i = next
      BY <1>1, <1>3, <1>5, <3>1 DEF ReadFits
    <3>2. CASE i # next
      <4>1. i \in 1..(next - 1) /\ i \in 1..Len(bugs)
        BY <1>1, <1>2, <3>2
      <4>2. ReadFits(bugs[i]) /\ bugs'[i] = bugs[i]
        BY <1>1, <1>3, <3>2, <4>1 DEF Response
      <4> QED BY <1>1, <4>2 DEF ReadFits
    <3> QED BY <3>1, <3>2
  <2>2. ASSUME NEW i \in next'..Len(bugs') PROVE ListedFits(bugs[i])'
    <3>1. i \in next..Len(bugs) /\ i \in 1..Len(bugs) /\ i # next
      BY <1>1, <1>2, <1>3
    <3>2. ListedFits(bugs[i]) /\ bugs'[i] = bugs[i]
      BY <1>1, <1>3, <3>1 DEF Response
    <3> QED BY <1>1, <3>2 DEF ListedFits, Unread
  <2>3. \A i \in DOMAIN bugs' : bugs'[i].issueKey = bugs[i].issueKey
    BY <1>3, <1>5
  <2>4. next' <= Len(bugs') + 1
    BY <1>1, <1>2, <1>3
  <2> QED BY <1>1, <1>2, <1>3, <2>1, <2>2, <2>3, <2>4 DEF Response
<1>10. ComponentsWholeOrAbsent' /\ NothingWritten'
  BY <1>1 DEF ComponentsWholeOrAbsent, NothingWritten, IInv
<1> QED BY <1>7, <1>8, <1>9, <1>10 DEF IInv

LEMMA BugsInOrder ==
  ASSUME NEW c \in 1..Len(ComponentCatalog), NEW d \in 1..Len(ComponentCatalog),
         NEW i \in 1..Len(Listing(c)), NEW j \in 1..Len(Listing(d)),
         c < d \/ (c = d /\ i < j)
  PROVE  Before(Listing(c)[i], Listing(d)[j])
BY ListingFacts DEF Before, Listing

(* The bugs of the components that the miner has passed.                   *)
Passed(c) == {Range(Listing(d)) : d \in 1..(c - 1)}
Reported(q) == {r.issueKey : r \in Range(q)}

LEMMA PassedGrows ==
  ASSUME NEW c \in 1..Len(ComponentCatalog)
  PROVE  /\ Passed(c + 1) = Passed(c) \cup {Range(Listing(c))}
         /\ (UNION Passed(c)) \cap Range(Listing(c)) = {}
<1>1. 1..(c + 1 - 1) = 1..(c - 1) \cup {c} /\ 1..(c - 1) \subseteq 1..Len(ComponentCatalog)
  BY ListingFacts
<1>2. \A d \in 1..(c - 1) : d # c
  BY ListingFacts
<1>3. Passed(c + 1) = Passed(c) \cup {Range(Listing(c))}
  BY <1>1 DEF Passed
<1>4. (UNION Passed(c)) \cap Range(Listing(c)) = {}
  BY <1>1, <1>2, ListingFacts DEF Passed
<1> QED BY <1>3, <1>4

LEMMA WholeUnfolds ==
  ComponentsWholeOrAbsent <=>
    /\ Reported(bugReports) \subseteq UNION Passed(component)
    /\ \A listed \in Passed(component) :
         listed \subseteq Reported(bugReports) \/ listed \cap Reported(bugReports) = {}
    /\ \A i, j \in DOMAIN bugReports : i < j => Before(bugReports[i].issueKey, bugReports[j].issueKey)
    /\ IsPrefix(file, bugReports)
    /\ step = "closed" => file = bugReports
BY DEF ComponentsWholeOrAbsent, Passed, Reported, Listing

LEMMA AddAllKeeps == ASSUME IInv, AddAll PROVE IInv'
<1>1. /\ TypeOK /\ Response /\ Collected /\ step = "history" /\ next > Len(bugs)
      /\ bugReports' = bugReports \o bugs /\ file = << >>
      /\ step' = "list" /\ component' = component + 1 /\ bugs' = << >> /\ next' = 1
      /\ UNCHANGED <<filed, history, file>>
  BY DEF IInv, AddAll, EndOfComponent, NothingWritten
<1>2. component \in 1..Len(ComponentCatalog)
  BY <1>1, ListingFacts DEF TypeOK, Response
<1> DEFINE L == Listing(component)
           n == Len(bugReports)
<1>3. /\ Len(bugs) = Len(L) /\ Len(L) \in Nat /\ DOMAIN L = 1..Len(L) /\ DOMAIN bugs = 1..Len(L)
      /\ \A i \in 1..Len(L) : bugs[i].issueKey = L[i]
      /\ \A i \in 1..Len(L) : ReadFits(bugs[i])
  <2>1. bugs \in Seq(Reports) /\ next \in Nat
    BY <1>1 DEF TypeOK
  <2>2. next - 1 = Len(bugs)
    BY <1>1, <2>1 DEF Response
  <2>3. \A i \in 1..Len(bugs) : ReadFits(bugs[i])
    BY <1>1, <2>2 DEF Response
  <2>4. Len(bugs) = Len(L) /\ \A i \in DOMAIN bugs : bugs[i].issueKey = L[i]
    BY <1>1 DEF Response, Listing
  <2> QED BY <1>2, <2>1, <2>3, <2>4, ListingFacts
<1> HIDE DEF L
<1>4. /\ bugReports \in Seq(Reports) /\ bugs \in Seq(Reports) /\ n \in Nat
      /\ DOMAIN bugReports = 1..n /\ DOMAIN bugReports' = 1..(n + Len(L))
      /\ \A i \in 1..n : bugReports'[i] = bugReports[i]
      /\ \A i \in 1..Len(L) : bugReports'[n + i] = bugs[i]
      /\ \A i \in (n + 1)..(n + Len(L)) : i - n \in 1..Len(L) /\ bugReports'[i] = bugs[i - n]
  <2>1. bugReports \in Seq(Reports) /\ bugs \in Seq(Reports) /\ n \in Nat
    BY <1>1 DEF TypeOK
  <2>2. /\ DOMAIN bugReports = 1..n /\ DOMAIN bugReports' = 1..(n + Len(bugs))
        /\ \A i \in 1..n : bugReports'[i] = bugReports[i]
        /\ \A i \in (n + 1)..(n + Len(bugs)) : bugReports'[i] = bugs[i - n]
    BY <1>1, <2>1
  <2> HIDE DEF n
  <2>3. \A i \in 1..Len(L) : n + i \in (n + 1)..(n + Len(L)) /\ n + i - n = i
    BY <1>3, <2>1
  <2>4. \A i \in (n + 1)..(n + Len(L)) : i - n \in 1..Len(L)
    BY <1>3, <2>1
  <2> QED BY <1>3, <2>1, <2>2, <2>3, <2>4
<1> HIDE DEF n
<1>5. TypeOK'
  <2>1. bugReports' \in Seq(Reports) /\ bugs' \in Seq(Reports)
    BY <1>1, <1>4
  <2>2. component' \in 1..(Len(ComponentCatalog) + 1) /\ next' \in Nat \ {0}
    BY <1>1, <1>2, ListingFacts
  <2> QED BY <1>1, <2>1, <2>2 DEF TypeOK
<1>6. HistoryBeginsAtFiled' /\ Response' /\ NothingWritten'
  BY <1>1, TrackerKept DEF IInv, Response, NothingWritten
<1>7. Collected'
  <2>1. ASSUME NEW i \in DOMAIN bugReports' PROVE ReadFits(bugReports[i])'
    <3>1. ReadFits(bugReports'[i])
      <4>1. CASE i \in 1..n
        BY <1>1, <1>4, <4>1 DEF Collected
      <4>2. CASE i \in (n + 1)..(n + Len(L))
        BY <1>3, <1>4, <4>2
      <4> QED BY <1>3, <1>4, <2>1, <4>1, <4>2
    <3> QED BY <1>1, <3>1 DEF ReadFits
  <2> QED BY <2>1 DEF Collected
<1>8. Reported(bugReports') = Reported(bugReports) \cup Range(L)
  <2>1. ASSUME NEW x \in Reported(bugReports') PROVE x \in Reported(bugReports) \cup Range(L)
    <3>1. PICK i \in 1..(n + Len(L)) : x = bugReports'[i].issueKey
      BY <1>4, <2>1 DEF Reported, Range
    <3>2. CASE i \in 1..n
      BY <1>4, <3>1, <3>2 DEF Reported, Range
    <3>3. CASE i \in (n + 1)..(n + Len(L))
      BY <1>3, <1>4, <3>1, <3>3 DEF Range
    <3> QED BY <1>3, <1>4, <3>1, <3>2, <3>3
  <2>2. ASSUME NEW x \in Reported(bugReports) PROVE x \in Reported(bugReports')
    <3>1. PICK i \in 1..n : x = bugReports[i].issueKey
      BY <1>4, <2>2 DEF Reported, Range
    <3>2. i \in DOMAIN bugReports' /\ bugReports'[i] = bugReports[i]
      BY <1>3, <1>4, <3>1
    <3> QED BY <3>1, <3>2 DEF Reported, Range
  <2>3. ASSUME NEW x \in Range(L) PROVE x \in Reported(bugReports')
    <3>1. PICK i \in 1..Len(L) : x = L[i]
      BY <1>3, <2>3 DEF Range
    <3>2. n + i \in DOMAIN bugReports' /\ bugReports'[n + i].issueKey = x
      BY <1>3, <1>4, <3>1
    <3> QED BY <3>2 DEF Reported, Range
  <2> QED BY <2>1, <2>2, <2>3
<1>9. Reported(bugReports) \subseteq UNION Passed(component)
  BY WholeUnfolds DEF IInv
<1>10. ASSUME NEW i \in DOMAIN bugReports', NEW j \in DOMAIN bugReports', i < j
       PROVE  Before(bugReports'[i].issueKey, bugReports'[j].issueKey)
  <2>1. CASE j \in 1..n
    <3>1. i \in 1..n
      BY <1>4, <1>10, <2>1
    <3> QED BY <1>4, <1>10, <2>1, <3>1, WholeUnfolds DEF IInv
  <2>2. CASE i \in 1..n /\ j \in (n + 1)..(n + Len(L))
    <3>1. bugReports[i].issueKey \in UNION Passed(component)
      BY <1>4, <1>9, <2>2 DEF Reported, Range
    <3>2. PICK d \in 1..(component - 1) : bugReports[i].issueKey \in Range(Listing(d))
      BY <3>1 DEF Passed
    <3>3. d \in 1..Len(ComponentCatalog) /\ d < component
      BY <1>2, <3>2, ListingFacts
    <3>4. PICK k \in 1..Len(Listing(d)) : bugReports[i].issueKey = Listing(d)[k]
      BY <3>2, <3>3, ListingFacts DEF Range
    <3>5. j - n \in 1..Len(L) /\ bugReports'[j].issueKey = L[j - n]
      BY <1>3, <1>4, <2>2
    <3>6. Before(Listing(d)[k], L[j - n])
      BY <1>2, <3>3, <3>4, <3>5, BugsInOrder DEF L
    <3> QED BY <1>4, <2>2, <3>4, <3>5, <3>6
  <2>3. CASE i \in (n + 1)..(n + Len(L))
    <3>1. j \in (n + 1)..(n + Len(L))
      BY <1>3, <1>4, <1>10, <2>3
    <3>2. /\ i - n \in 1..Len(L) /\ bugReports'[i].issueKey = L[i - n]
          /\ j - n \in 1..Len(L) /\ bugReports'[j].issueKey = L[j - n]
          /\ i - n < j - n
      BY <1>3, <1>4, <1>10, <2>3, <3>1
    <3> QED BY <1>2, <3>2, BugsInOrder DEF L
  <2> QED BY <1>3, <1>4, <1>10, <2>1, <2>2, <2>3
<1>11. ComponentsWholeOrAbsent'
  <2>1. Passed(component') = Passed(component) \cup {Range(L)} /\ (UNION Passed(component)) \cap Range(L) = {}
    BY <1>1, <1>2, PassedGrows DEF L
  <2>2. Reported(bugReports') \subseteq UNION Passed(component')
    BY <1>8, <1>9, <2>1
  <2>3. ASSUME NEW listed \in Passed(component')
        PROVE  listed \subseteq Reported(bugReports') \/ listed \cap Reported(bugReports') = {}
    <3>1. CASE listed = Range(L)
      BY <1>8, <3>1
    <3>2. CASE listed \in Passed(component)
      <4>1. listed \subseteq Reported(bugReports) \/ listed \cap Reported(bugReports) = {}
        BY <3>2, WholeUnfolds DEF IInv
      <4>2. listed \cap Range(L) = {}
        BY <2>1, <3>2
      <4> QED BY <1>8, <4>1, <4>2
    <3> QED BY <2>1, <2>3, <3>1, <3>2
  <2>4. IsPrefix(file', bugReports') /\ step' # "closed"
    <3>1. Len(bugReports') \in Nat /\ bugReports' \in Seq(Reports)
      BY <1>5 DEF TypeOK
    <3>2. Len(file') = 0 /\ SubSeq(file', 1, 0) = SubSeq(bugReports', 1, 0)
      BY <1>1
    <3> QED BY <1>1, <3>1, <3>2 DEF IsPrefix
  <2> QED BY <1>10, <2>2, <2>3, <2>4
          DEF ComponentsWholeOrAbsent, Passed, Reported, Listing
<1> QED BY <1>5, <1>6, <1>7, <1>11 DEF IInv

LEMMA FailKeeps == ASSUME IInv, Fail PROVE IInv'
<1>1. /\ TypeOK /\ Response /\ step \in {"list", "history"} /\ component <= Len(ComponentCatalog)
      /\ step' = "list" /\ component' = component + 1 /\ bugs' = << >> /\ next' = 1
      /\ UNCHANGED <<filed, history, bugReports, file>>
  BY DEF IInv, Fail, Asking, More, EndOfComponent, Response
<1>2. component \in 1..Len(ComponentCatalog)
  BY <1>1, ListingFacts DEF TypeOK
<1>3. TypeOK'
  <2>1. bugs' \in Seq(Reports) /\ next' \in Nat \ {0}
    BY <1>1
  <2>2. component' \in 1..(Len(ComponentCatalog) + 1)
    BY <1>1, <1>2, ListingFacts
  <2> QED BY <1>1, <2>1, <2>2 DEF TypeOK
<1>4. HistoryBeginsAtFiled' /\ Response' /\ NothingWritten' /\ Collected'
  BY <1>1, TrackerKept DEF IInv, Response, NothingWritten, Collected
<1>5. ComponentsWholeOrAbsent'
  <2>1. /\ Passed(component') = Passed(component) \cup {Range(Listing(component))}
        /\ (UNION Passed(component)) \cap Range(Listing(component)) = {}
    BY <1>1, <1>2, PassedGrows
  <2>2. Reported(bugReports) \subseteq UNION Passed(component)
    BY WholeUnfolds DEF IInv
  <2>3. \A listed \in Passed(component') :
          listed \subseteq Reported(bugReports) \/ listed \cap Reported(bugReports) = {}
    <3>1. \A listed \in Passed(component) :
            listed \subseteq Reported(bugReports) \/ listed \cap Reported(bugReports) = {}
      BY WholeUnfolds DEF IInv
    <3>2. Range(Listing(component)) \cap Reported(bugReports) = {}
      BY <2>1, <2>2
    <3> QED BY <2>1, <3>1, <3>2
  <2>4. Reported(bugReports) \subseteq UNION Passed(component')
    BY <2>1, <2>2
  <2>5. bugReports' = bugReports /\ file' = file /\ step' # "closed"
    BY <1>1
  <2>6. /\ \A i, j \in DOMAIN bugReports : i < j => Before(bugReports[i].issueKey, bugReports[j].issueKey)
        /\ IsPrefix(file, bugReports)
    BY WholeUnfolds DEF IInv
  <2> QED BY <2>3, <2>4, <2>5, <2>6 DEF ComponentsWholeOrAbsent, Passed, Reported, Listing
<1> QED BY <1>3, <1>4, <1>5 DEF IInv

(* A step of the export: only the file and the step change.                *)
LEMMA ExportContext ==
  ASSUME IInv, UNCHANGED <<filed, history, component, bugs, next, bugReports>>,
         step' \in {"export", "closed", "failed"}, file' \in Seq(Reports),
         IsPrefix(file', bugReports), step' = "closed" => file' = bugReports
  PROVE  IInv'
<1>1. TypeOK'
  BY DEF IInv, TypeOK
<1>2. HistoryBeginsAtFiled' /\ Response' /\ NothingWritten' /\ Collected'
  BY TrackerKept DEF IInv, Response, NothingWritten, Collected
<1>3. ComponentsWholeOrAbsent'
  BY DEF IInv, ComponentsWholeOrAbsent
<1> QED BY <1>1, <1>2, <1>3 DEF IInv

LEMMA PrefixFacts ==
  ASSUME NEW S, NEW s \in Seq(S), NEW t \in Seq(S)
  PROVE  IsPrefix(s, t) <=> (Len(s) <= Len(t) /\ \A i \in 1..Len(s) : s[i] = t[i])
<1>1. Len(s) \in Nat /\ Len(t) \in Nat
  OBVIOUS
<1>2. ASSUME Len(s) <= Len(t)
      PROVE  SubSeq(s, 1, Len(s)) = SubSeq(t, 1, Len(s)) <=> \A i \in 1..Len(s) : s[i] = t[i]
  BY <1>1, <1>2
<1> QED BY <1>2 DEF IsPrefix

LEMMA ExportKeeps ==
  ASSUME IInv, OpenFile \/ PrintRecord \/ CloseFile \/ ExportFails
  PROVE  IInv'
<1>1. /\ file \in Seq(Reports) /\ bugReports \in Seq(Reports) /\ IsPrefix(file, bugReports)
      /\ Len(file) \in Nat /\ Len(bugReports) \in Nat
      /\ Len(file) <= Len(bugReports) /\ \A i \in 1..Len(file) : file[i] = bugReports[i]
  <2>1. file \in Seq(Reports) /\ bugReports \in Seq(Reports) /\ IsPrefix(file, bugReports)
    BY DEF IInv, TypeOK, ComponentsWholeOrAbsent
  <2> QED BY <2>1, PrefixFacts
<1>2. CASE OpenFile
  BY <1>1, <1>2, ExportContext DEF OpenFile
<1>3. CASE PrintRecord
  <2>1. /\ Len(file) + 1 \in 1..Len(bugReports) /\ step' = "export"
        /\ file' = Append(file, bugReports[Len(file) + 1])
        /\ UNCHANGED <<filed, history, component, bugs, next, bugReports>>
    BY <1>1, <1>3 DEF PrintRecord
  <2>2. /\ file' \in Seq(Reports) /\ Len(file') = Len(file) + 1
        /\ \A i \in 1..Len(file) : file'[i] = file[i]
        /\ file'[Len(file) + 1] = bugReports[Len(file) + 1]
    BY <1>1, <2>1
  <2>3. Len(file') <= Len(bugReports) /\ \A i \in 1..Len(file') : file'[i] = bugReports[i]
    BY <1>1, <2>1, <2>2
  <2>4. IsPrefix(file', bugReports)
    BY <1>1, <2>2, <2>3, PrefixFacts
  <2> QED BY <2>1, <2>2, <2>4, ExportContext
<1>4. CASE CloseFile
  <2>1. Len(file) = Len(bugReports)
    BY <1>4 DEF CloseFile
  <2>2. file = bugReports
    BY <1>1, <2>1
  <2> QED BY <1>1, <1>4, <2>2, ExportContext DEF CloseFile
<1>5. CASE ExportFails
  <2>1. PICK n \in 0..Len(file) : file' = SubSeq(file, 1, n)
    BY <1>5 DEF ExportFails
  <2>2. file' \in Seq(Reports) /\ Len(file') = n /\ \A i \in 1..n : file'[i] = file[i]
    BY <1>1, <2>1
  <2>3. Len(file') <= Len(bugReports) /\ \A i \in 1..Len(file') : file'[i] = bugReports[i]
    BY <1>1, <2>1, <2>2
  <2>4. IsPrefix(file', bugReports)
    BY <1>1, <2>2, <2>3, PrefixFacts
  <2> QED BY <1>5, <2>2, <2>4, ExportContext DEF ExportFails
<1> QED BY <1>2, <1>3, <1>4, <1>5

LEMMA StutterKeeps == ASSUME IInv, UNCHANGED vars PROVE IInv'
<1> USE DEF vars
<1>1. TypeOK' /\ HistoryBeginsAtFiled' /\ Response' /\ Collected' /\ NothingWritten'
  BY TrackerKept DEF IInv, TypeOK, Response, Collected, NothingWritten, ListedFits, Unread
<1>2. ComponentsWholeOrAbsent'
  BY DEF IInv, ComponentsWholeOrAbsent
<1> QED BY <1>1, <1>2 DEF IInv

LEMMA StepKeeps == IInv /\ [Next]_vars => IInv'
<1> SUFFICES ASSUME IInv, [Next]_vars PROVE IInv'
  OBVIOUS
<1>1. CASE ChangeBug
  BY <1>1, ChangeBugKeeps
<1>2. CASE ListBugs
  BY <1>2, ListBugsKeeps
<1>3. CASE GetHistory
  BY <1>3, GetHistoryKeeps
<1>4. CASE AddAll
  BY <1>4, AddAllKeeps
<1>5. CASE Fail
  BY <1>5, FailKeeps
<1>6. CASE OpenFile \/ PrintRecord \/ CloseFile \/ ExportFails
  BY <1>6, ExportKeeps
<1>7. CASE Finished \/ UNCHANGED vars
  BY <1>7, StutterKeeps DEF Finished
<1> QED BY <1>1, <1>2, <1>3, <1>4, <1>5, <1>6, <1>7 DEF Next

-----------------------------------------------------------------------------
(* The inductive invariant holds in every reachable state.                 *)
THEOREM Invariance == Spec => []IInv
BY InitEstablishes, StepKeeps, PTL DEF Spec

(* Every variable of the miner and of the tracker keeps its type.          *)
THEOREM TypeCorrect == Spec => []TypeOK
<1>1. IInv => TypeOK
  BY DEF IInv
<1> QED BY <1>1, Invariance, PTL

(* However calls fail, what is exported consists of whole components in    *)
(* catalogue order, and the file of the first of these reports.            *)
THEOREM ExportIsWhole == Spec => []ComponentsWholeOrAbsent
<1>1. IInv => ComponentsWholeOrAbsent
  BY DEF IInv
<1> QED BY <1>1, Invariance, PTL

LEMMA CollectedFit == IInv => \A r \in Range(bugReports) : ReadFits(r)
BY DEF IInv, Collected, Range

(* However bugs are changed after their history was read, the resolution   *)
(* and the priority change a report names remain the first ones.           *)
THEOREM FirstChangesStayFirst == Spec => []ReportsStayTrue
<1>1. IInv => ReportsStayTrue
  BY CollectedFit DEF ReadFits, ReportsStayTrue
<1> QED BY <1>1, Invariance, PTL

(* However bugs are changed between the two calls, a report tells the      *)
(* priority its bug was filed with, and who resolved it if it was listed   *)
(* as resolved.                                                            *)
THEOREM TwoCallsFit == Spec => []HistoryCoversListing
<1>1. IInv => HistoryCoversListing
  BY CollectedFit DEF ReadFits, HistoryCoversListing
<1> QED BY <1>1, Invariance, PTL
=============================================================================
