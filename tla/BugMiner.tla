------------------------------ MODULE BugMiner ------------------------------
(***************************************************************************)
(* The Bugzilla miner: RestClient.getLibreOfficeBugs lists the bugs of one *)
(* component after the other, asks for the history of each, lets           *)
(* HistoryExplorer derive from it who resolved the bug and how its         *)
(* priority was changed, and App has CsvExporter write all of it to a      *)
(* file.  Any call may fail; a component that fails is skipped.            *)
(*                                                                         *)
(* The tracker is external and alive: people go on changing bugs while the *)
(* miner reads, and a bug's fields and its history come from two calls.    *)
(* It returns a history in the order of its dates; a date is the position  *)
(* in the history, and somebody who changes two fields at once makes two   *)
(* entries, one after the other.                                           *)
(***************************************************************************)
EXTENDS Integers, SequencesExt

CONSTANTS
  None,              \* a field that is not set
  ComponentCatalog,  \* getComponentCatalog, a sequence
  BugsOf,            \* per component, the bugs its list call returns
  Users,
  Priorities,
  MaxChanges         \* bound on the changes people make meanwhile and before

Bugs == UNION {Range(BugsOf[c]) : c \in Range(ComponentCatalog)}

ASSUME MinerAssumption ==
  /\ ComponentCatalog \in Seq(Range(ComponentCatalog)) /\ IsInjective(ComponentCatalog)
  /\ None \notin Users \cup Priorities \cup Nat /\ MaxChanges \in Nat
  /\ \A c \in Range(ComponentCatalog) :
       BugsOf[c] \in Seq(Range(BugsOf[c])) /\ IsInjective(BugsOf[c])
  /\ \A c, d \in Range(ComponentCatalog) : c # d => Range(BugsOf[c]) \cap Range(BugsOf[d]) = {}

VARIABLES
  filed,       \* the tracker: the priority each bug was filed with
  history,     \* the tracker: the changes of each bug
  component,   \* the component under way, as a position in the catalogue
  step,        \* which call comes next
  bugs,        \* the response to the list call, enriched as histories arrive
  next,        \* the bug whose history comes next
  bugReports,  \* what is to be exported
  file         \* the records written to the file

vars == <<filed, history, component, step, bugs, next, bugReports, file>>

STATUS_FIELD == "status"
PRIORITY_FIELD == "priority"
ASSIGNEE_FIELD == "assigned_to"
RESOLVED_STATUS == "RESOLVED"
Statuses == {"NEW", RESOLVED_STATUS, "REOPENED"}

Changes == [field : {STATUS_FIELD}, added : Statuses \ {"NEW"}, removed : Statuses]
           \cup [field : {ASSIGNEE_FIELD}, added : Users, removed : {None}]
           \cup [field : {PRIORITY_FIELD}, added : Priorities, removed : Priorities]

-----------------------------------------------------------------------------
(* What the tracker's records of a bug say now.                            *)
Touching(changes, field) == {i \in DOMAIN changes : changes[i].change.field = field}
LastOf(positions) == CHOOSE i \in positions : \A j \in positions : j <= i
FirstOf(positions) == CHOOSE i \in positions : \A j \in positions : i <= j
Current(b, field, initial) ==
  LET touching == Touching(history[b], field)
  IN  IF touching = {} THEN initial ELSE history[b][LastOf(touching)].change.added
Priority(b) == Current(b, PRIORITY_FIELD, filed[b])
Status(b) == Current(b, STATUS_FIELD, "NEW")

TotalChanges == MapThenSumSet(LAMBDA b : Len(history[b]), Bugs)

(* Somebody changes a bug.                                                 *)
ChangeBug ==
  /\ TotalChanges < MaxChanges
  /\ \E b \in Bugs, who \in Users, change \in Changes :
       /\ change.field = STATUS_FIELD => change.removed = Status(b) /\ change.added # Status(b)
       /\ change.field = PRIORITY_FIELD => change.removed = Priority(b) /\ change.added # Priority(b)
       /\ history' = [history EXCEPT ![b] = Append(@, [who |-> who, change |-> change])]
  /\ UNCHANGED <<filed, component, step, bugs, next, bugReports, file>>

-----------------------------------------------------------------------------
(* A report as the list call returns it: what only the history tells is    *)
(* not set.                                                                *)
Listed(b) ==
  [issueKey |-> b, status |-> Status(b), priority |-> Priority(b),
   resolvedBy |-> None, resolutionDate |-> None, resolverAssigned |-> None,
   resolutionStart |-> None, priorityChanger |-> None, priorityChange |-> None,
   originalPriority |-> None, newPriority |-> None]

(* Mutant: the last resolution is taken.                                   *)
ResolvedHistoryLast(changes) ==
  {i \in Touching(changes, STATUS_FIELD) :
     /\ changes[i].change.added = RESOLVED_STATUS
     /\ \A j \in Touching(changes, STATUS_FIELD) :
          changes[j].change.added = RESOLVED_STATUS => j <= i}

(* getResolvedPredicate: the changes that resolve the bug.                 *)
ResolvedHistory(changes) ==
  {i \in Touching(changes, STATUS_FIELD) : changes[i].change.added = RESOLVED_STATUS}

(* getResolverAssignedPredicate, getResolverInteractionsPred               *)
ResolverAssigned(changes, resolver) ==
  {i \in Touching(changes, ASSIGNEE_FIELD) : changes[i].change.added = resolver}
ResolverInteractions(changes, resolver) == {i \in DOMAIN changes : changes[i].who = resolver}

FirstOrNone(positions) == IF positions = {} THEN None ELSE FirstOf(positions)

(* applyBugHistory: of the first resolution, who, when and since when.     *)
WithResolution(report, changes) ==
  LET resolved == FirstOf(ResolvedHistory(changes))
      resolver == changes[resolved].who
  IN  IF ResolvedHistory(changes) = {} THEN report
      ELSE [report EXCEPT
              !.resolvedBy = resolver, !.resolutionDate = resolved,
              !.resolverAssigned = FirstOrNone(ResolverAssigned(changes, resolver)),
              !.resolutionStart = FirstOf(ResolverInteractions(changes, resolver))]

(* setPriorityChangeInformation: of the first change of the priority.      *)
WithPriorityChange(report, changes) ==
  LET first == FirstOf(Touching(changes, PRIORITY_FIELD))
  IN  IF Touching(changes, PRIORITY_FIELD) = {} THEN report
      ELSE [report EXCEPT
              !.priorityChanger = changes[first].who, !.priorityChange = first,
              !.originalPriority = changes[first].change.removed,
              !.newPriority = changes[first].change.added]

ApplyBugHistory(report, changes) == WithPriorityChange(WithResolution(report, changes), changes)

-----------------------------------------------------------------------------
Init ==
  /\ filed \in [Bugs -> Priorities]
  /\ history = [b \in Bugs |-> << >>]
  /\ component = 1 /\ step = "list" /\ bugs = << >> /\ next = 1
  /\ bugReports = << >> /\ file = << >>

More == component <= Len(ComponentCatalog)
Asking == (step = "list" /\ More) \/ (step = "history" /\ next <= Len(bugs))

(* On to the next component: the response goes out of scope.               *)
EndOfComponent == step' = "list" /\ component' = component + 1 /\ bugs' = << >> /\ next' = 1

(* The list call of the next component is answered.                        *)
ListBugs ==
  /\ step = "list" /\ More
  /\ bugs' = [i \in DOMAIN BugsOf[ComponentCatalog[component]] |->
                Listed(BugsOf[ComponentCatalog[component]][i])]
  /\ step' = "history" /\ next' = 1
  /\ UNCHANGED <<filed, history, component, bugReports, file>>

(* Mutant: a bug that is not resolved is not asked about.                  *)
GetHistoryIfResolved ==
  /\ step = "history" /\ next <= Len(bugs)
  /\ bugs' = IF bugs[next].status # RESOLVED_STATUS THEN bugs
             ELSE [bugs EXCEPT ![next] = ApplyBugHistory(@, history[@.issueKey])]
  /\ next' = next + 1
  /\ UNCHANGED <<filed, history, component, step, bugReports, file>>

(* The history of the next bug arrives and is applied.                     *)
GetHistory ==
  /\ step = "history" /\ next <= Len(bugs)
  /\ bugs' = [bugs EXCEPT ![next] = ApplyBugHistory(@, history[@.issueKey])]
  /\ next' = next + 1
  /\ UNCHANGED <<filed, history, component, step, bugReports, file>>

(* All histories are there.                                                *)
AddAll ==
  /\ step = "history" /\ next > Len(bugs)
  /\ bugReports' = bugReports \o bugs
  /\ EndOfComponent
  /\ UNCHANGED <<filed, history, file>>

(* Mutant: what was read before the failure is kept.                       *)
FailAndKeep ==
  /\ Asking
  /\ bugReports' = IF step = "list" THEN bugReports
                   ELSE bugReports \o SubSeq(bugs, 1, next - 1)
  /\ EndOfComponent
  /\ UNCHANGED <<filed, history, file>>

(* A call fails, or its answer cannot be read: the component is skipped.   *)
Fail ==
  /\ Asking
  /\ EndOfComponent
  /\ UNCHANGED <<filed, history, bugReports, file>>

(* generateCsv: the header, then record by record, then close.             *)
OpenFile ==
  /\ step = "list" /\ ~More
  /\ step' = "export"
  /\ UNCHANGED <<filed, history, component, bugs, next, bugReports, file>>

PrintRecord ==
  /\ step = "export" /\ Len(file) < Len(bugReports)
  /\ file' = Append(file, bugReports[Len(file) + 1])
  /\ UNCHANGED <<filed, history, component, step, bugs, next, bugReports>>

CloseFile ==
  /\ step = "export" /\ Len(file) = Len(bugReports)
  /\ step' = "closed"
  /\ UNCHANGED <<filed, history, component, bugs, next, bugReports, file>>

(* An IOException: what was not flushed yet is lost, a record that was     *)
(* flushed in part included.                                               *)
ExportFails ==
  /\ step = "export"
  /\ step' = "failed"
  /\ \E n \in 0..Len(file) : file' = SubSeq(file, 1, n)
  /\ UNCHANGED <<filed, history, component, bugs, next, bugReports>>

Finished == step \in {"closed", "failed"} /\ UNCHANGED vars

Next ==
  \/ ChangeBug
  \/ ListBugs \/ GetHistory \/ AddAll \/ Fail
  \/ OpenFile \/ PrintRecord \/ CloseFile \/ ExportFails \/ Finished

Spec == Init /\ [][Next]_vars
-----------------------------------------------------------------------------
Dates == Nat \ {0}
Reports ==
  [issueKey : Bugs, status : Statuses, priority : Priorities,
   resolvedBy : Users \cup {None}, resolutionDate : Dates \cup {None},
   resolverAssigned : Dates \cup {None}, resolutionStart : Dates \cup {None},
   priorityChanger : Users \cup {None}, priorityChange : Dates \cup {None},
   originalPriority : Priorities \cup {None}, newPriority : Priorities \cup {None}]

(* The type of the state: what the tracker keeps, where the miner is, and  *)
(* the reports it has read, collected and written.                         *)
TypeOK ==
  /\ filed \in [Bugs -> Priorities]
  /\ history \in [Bugs -> Seq([who : Users, change : Changes])]
  /\ component \in 1..(Len(ComponentCatalog) + 1)
  /\ step \in {"list", "history", "export", "closed", "failed"}
  /\ next \in Nat \ {0}
  /\ bugs \in Seq(Reports) /\ bugReports \in Seq(Reports) /\ file \in Seq(Reports)

(* The order in which the catalogue and the list calls name the bugs.      *)
Before(a, b) ==
  \E c, d \in DOMAIN ComponentCatalog :
    \E i \in DOMAIN BugsOf[ComponentCatalog[c]], j \in DOMAIN BugsOf[ComponentCatalog[d]] :
      /\ BugsOf[ComponentCatalog[c]][i] = a /\ BugsOf[ComponentCatalog[d]][j] = b
      /\ c < d \/ (c = d /\ i < j)

(* A component is exported as a whole or not at all, in the order of the   *)
(* catalogue, and every bug of it once; a closed file holds all reports    *)
(* and a broken one the first of them.                                     *)
ComponentsWholeOrAbsent ==
  LET reported == {r.issueKey : r \in Range(bugReports)}
      passed == {Range(BugsOf[ComponentCatalog[c]]) : c \in 1..(component - 1)}
  IN  /\ reported \subseteq UNION passed
      /\ \A listed \in passed : listed \subseteq reported \/ listed \cap reported = {}
      /\ \A i, j \in DOMAIN bugReports :
           i < j => Before(bugReports[i].issueKey, bugReports[j].issueKey)
      /\ IsPrefix(file, bugReports)
      /\ step = "closed" => file = bugReports

(* What a report says of changes made to its bug.                          *)
TrueOf(r, changes) ==
  LET Resolves(i) == /\ i \in DOMAIN changes /\ changes[i].change.field = STATUS_FIELD
                     /\ changes[i].change.added = RESOLVED_STATUS
  IN  /\ r.resolvedBy # None =>
           /\ Resolves(r.resolutionDate) /\ changes[r.resolutionDate].who = r.resolvedBy
           /\ \A i \in 1..(r.resolutionDate - 1) : ~Resolves(i)
           /\ r.resolutionStart \in 1..r.resolutionDate
           /\ changes[r.resolutionStart].who = r.resolvedBy
           /\ \A i \in 1..(r.resolutionStart - 1) : changes[i].who # r.resolvedBy
      /\ r.priorityChanger # None =>
           /\ r.priorityChange \in DOMAIN changes
           /\ changes[r.priorityChange].who = r.priorityChanger
           /\ changes[r.priorityChange].change.added = r.newPriority
           /\ \A i \in 1..(r.priorityChange - 1) : changes[i].change.field # PRIORITY_FIELD

(* What a report says about a resolution and about the first change of the *)
(* priority stays true, however the bug is changed after its history was   *)
(* read: the resolution is the first one ever, its resolver had not        *)
(* touched the bug before resolutionStart, which is no later than the      *)
(* resolution, and nobody changed the priority before the change named.    *)
ReportsStayTrue == \A r \in Range(bugReports) : TrueOf(r, history[r.issueKey])

(* What was listed of a bug and what was read later of its history agree.  *)
AgreesWith(r, priority) ==
  /\ (IF r.originalPriority # None THEN r.originalPriority ELSE r.priority) = priority
  /\ r.status = RESOLVED_STATUS => r.resolvedBy # None

(* The two calls fit together although bugs change between them: a report  *)
(* tells which priority the bug was filed with, and one that was listed as *)
(* resolved has a resolver.  The analysis of inflation rests on it.        *)
HistoryCoversListing == \A r \in Range(bugReports) : AgreesWith(r, filed[r.issueKey])
=============================================================================
