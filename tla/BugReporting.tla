---------------------------- MODULE BugReporting ----------------------------
(***************************************************************************)
(* The bug reporting process of simmodel.py: a source of bug reports, the  *)
(* developer and gatekeeper resources they queue for, the four reporting   *)
(* processes (simple, vanilla, gatekeeper, throttling), the monitors that  *)
(* the payoffs are computed from and the controller that stops the run.    *)
(*                                                                         *)
(* A process of the simulation is a Python generator that SimPy resumes.   *)
(* One action is one resumption: the code from one yield to the next, so   *)
(* `stage' is the program counter of a report.  `ready' holds the          *)
(* processes SimPy resumes at the current time, in order; a timed event    *)
(* fires only when nobody is ready.                                        *)
(*                                                                         *)
(* Time is real in the code.  Here an instant stands for an interval, so   *)
(* timed events of the same instant fire in any order; HourLength instants *)
(* make an hour, the unit of the controller and of the queue priority.     *)
(***************************************************************************)
EXTENDS SimResource

CONSTANTS
  None,                 \* Python's None
  Reporters,            \* names in reporters_config
  InflatingReporters,   \* reporters whose strategy may report 1 as 3
  DeflatingReporters,   \* reporters whose strategy may report 3 as 1
  HasGatekeeper,        \* gatekeeper_config is given
  InflationPenalty,     \* inflation_factor in percent, None without a quota system
  SimpleReportingModel, \* gtconfig.simple_reporting_model
  TeamCapacity,         \* number of developers
  GatekeeperCapacity,   \* number of gatekeepers
  TargetFixes,          \* fixes after which the run stops
  ViewsToDiscard,       \* views after which an ignored report is dropped
  IgnorePercent,        \* initial chance, per priority, of ignoring a report
  CatchOutcomes,        \* values the inflation catcher may generate
  FixEfforts,           \* values of resolution_time_gen, per priority
  ReviewTimes,          \* values of review_time_gen
  InterarrivalTimes,    \* values of interarrival_time_gen
  BatchSizes,           \* values of batch_size_gen
  HourLength,           \* instants per hour
  MaxTime,              \* the horizon of simulate(until=max_time)
  MaxReports            \* bound of the model: reports the source may file

NonSevere == 1
Normal == 2
Severe == 3
Priorities == {NonSevere, Normal, Severe}
SupportedPriorities == {NonSevere, Severe}

ASSUME ConfigAssumption ==
  /\ None \notin Int
  /\ IsFiniteSet(Reporters)
  /\ InflatingReporters \subseteq Reporters
  /\ DeflatingReporters \subseteq Reporters
  /\ HasGatekeeper \in BOOLEAN /\ SimpleReportingModel \in BOOLEAN
  /\ InflationPenalty \in Nat \cup {None}
  /\ TeamCapacity \in Nat \ {0} /\ GatekeeperCapacity \in Nat \ {0}
  /\ TargetFixes \in Nat /\ ViewsToDiscard \in Nat
  /\ IgnorePercent \in [SupportedPriorities -> 0..100]
  /\ CatchOutcomes \in (SUBSET BOOLEAN) \ {{}}

ASSUME DurationAssumption ==
  /\ \A p \in SupportedPriorities : FixEfforts[p] \subseteq Nat
  /\ ReviewTimes \subseteq Nat
  /\ InterarrivalTimes \subseteq Nat
  /\ BatchSizes \subseteq Nat
  /\ HourLength \in Nat \ {0} /\ MaxTime \in Nat /\ MaxReports \in Nat

VARIABLES
  now,               \* SimPy's clock
  ready,             \* processes to resume at the current time, in order
  stopped,           \* "no", "target" (stopSimulation) or "time" (until)
  next_check,        \* when the controller wakes
  next_batch,        \* when the source wakes
  bug_counter,       \* bugs caught so far; reports are named 1..bug_counter
  report,            \* the BasicBugReport of each report
  stage,             \* the program counter of each report process
  due,               \* when a holding report wakes; when it last woke, after
  developers,        \* developer_resource
  gatekeepers,       \* gatekeeper_resource
  ignore_percent,    \* ignore_generators: chance of True per reporter, priority
  reporter_monitors, \* what each reporter filed and got fixed
  priority_monitors, \* what was filed and fixed per reported priority
  caught,            \* history: the fixed reports the catcher found false;
                     \* no action reads it
  first_report_time, last_report_time

scheduler == <<now, ready, stopped, next_check, next_batch>>
monitors == <<reporter_monitors, priority_monitors, caught>>
arrivals == <<bug_counter, first_report_time, last_report_time>>
vars == <<scheduler, arrivals, report, stage, due, developers, gatekeepers,
          ignore_percent, monitors>>

-----------------------------------------------------------------------------
(* Which reporting process a report follows (the dispatch of               *)
(* start_reporting).                                                       *)
Process ==
  IF InflationPenalty = None /\ ~HasGatekeeper
  THEN IF SimpleReportingModel THEN "simple" ELSE "vanilla"
  ELSE IF HasGatekeeper THEN "gatekeeper" ELSE "throttling"

ReadyStages == {"activated", "gkGranted", "gkReleased", "devGranted",
                "ignored", "devReleased"}
TimedStages == {"review", "fix"}
EndStages == {"fixed", "discarded"}
Stages == ReadyStages \cup TimedStages \cup EndStages \cup {"gkWait", "devWait"}

Reports == 1..bug_counter
At(S) == {i \in Reports : stage[i] \in S}
DevHolders == At({"devGranted", "fix"})
GkHolders == At({"gkGranted", "review"})

IsFalseReport(i) == report[i].report_priority # report[i].real_priority

(* The strategies: honest reporters keep the priority, an inflating        *)
(* (deflating) one may raise (lower) it.                                   *)
PriorityToReport(r, p) ==
  {p} \cup (IF p = NonSevere /\ r \in InflatingReporters THEN {Severe} ELSE {})
      \cup (IF p = Severe /\ r \in DeflatingReporters THEN {NonSevere} ELSE {})

(* The values a new report may take.  monitor_priority is the priority     *)
(* whose 'completed' monitor start_reporting hands to the report process,  *)
(* the reported one at the time of filing.                                 *)
NewReports(time) ==
  {b \in [reporter : Reporters, real_priority : SupportedPriorities,
          report_priority : SupportedPriorities, monitor_priority : SupportedPriorities,
          fix_effort : UNION {FixEfforts[p] : p \in SupportedPriorities},
          review_time : IF HasGatekeeper THEN ReviewTimes ELSE {0},
          arrival_time : {time}, views_counter : {0}] :
     /\ b.fix_effort \in FixEfforts[b.real_priority]
     /\ b.report_priority \in PriorityToReport(b.reporter, b.real_priority)
     /\ b.monitor_priority = b.report_priority}

(* Mutant: the simple process queues by true priority.                     *)
QueueByRealPriority ==
  [i \in Reports |-> IF Process = "simple" THEN report[i].real_priority
                     ELSE report[i].arrival_time \div HourLength]

(* The priority a report requests a developer with.                        *)
QueuePriority ==
  [i \in Reports |-> IF Process = "simple" THEN report[i].report_priority
                     ELSE report[i].arrival_time \div HourLength]

(* Mutant: the gatekeepers review by reported priority.                    *)
ReviewedByPriority == [i \in Reports |-> report[i].report_priority]

(* The priority a report requests a gatekeeper with: SimPy's default.      *)
FirstComeFirstServed == [i \in Reports |-> 0]

TotalFixes == priority_monitors[NonSevere].completed
            + priority_monitors[Normal].completed
            + priority_monitors[Severe].completed

(* Mutant: the run goes on until the target is passed.                     *)
StopLater == TotalFixes > TargetFixes

StopSimulation == TotalFixes >= TargetFixes

Penalised(percent, penalty) ==
  IF percent < 95 THEN Min({95, percent + penalty}) ELSE percent

(* Mutant: a report that returns to the queue may be ignored again.        *)
MayBeIgnoredAgain(i) == Process # "simple"

(* Whether the ignore procedure is still ahead of a report that got a      *)
(* developer: it is passed through once, and never in the simple process.  *)
MayBeIgnored(i) == Process # "simple" /\ report[i].views_counter = 0

Discarded(i) == report[i].views_counter >= ViewsToDiscard

IgnoreChance(i) == ignore_percent[report[i].reporter][report[i].report_priority]


(* Mutant: a fix is counted under the priority the report has by then.     *)
CountedUnderFinal(i) == report[i].report_priority

(* The priority whose 'completed' monitor counts the fix of i.             *)
CountedUnder(i) == report[i].monitor_priority

-----------------------------------------------------------------------------
(* The scheduler.                                                          *)

Never == MaxTime + 1

Pending == {next_check, next_batch} \cup {due[i] : i \in At(TimedStages)}

(* SimPy pops the event due at time t.                                     *)
Fires(t) ==
  /\ stopped = "no" /\ ready = << >>
  /\ t <= MaxTime /\ \A u \in Pending : t <= u
  /\ now' = t

(* SimPy resumes report i, the first of those ready.                       *)
Resumes(i) == stopped = "no" /\ ready # << >> /\ i = Head(ready)

(* Mutant: the waiter keeps waiting.                                       *)
HandOverToNobody(i, s, res, g) ==
  [j \in Reports |-> IF j = i THEN s ELSE stage[j]]

(* i gives a unit of res back and runs on in stage s; a waiter that is     *)
(* handed the unit is resumed right after i, in stage g.                   *)
HandOver(i, s, res, g) ==
  [j \in Reports |-> IF j = i THEN s
                     ELSE IF res.waitQ # << >> /\ j = Head(res.waitQ) THEN g
                     ELSE stage[j]]

Init ==
  /\ now = 0 /\ ready = << >> /\ stopped = "no"
  /\ next_check = HourLength
  /\ next_batch \in InterarrivalTimes
  /\ bug_counter = 0 /\ first_report_time = None /\ last_report_time = None
  /\ report = << >> /\ stage = << >> /\ due = << >>
  /\ developers = NewResource(TeamCapacity)
  /\ gatekeepers = NewResource(GatekeeperCapacity)
  /\ ignore_percent = [r \in Reporters |-> IgnorePercent]
  /\ reporter_monitors =
       [r \in Reporters |-> [resolved_monitor  |-> 0,
                             priority_counters |-> [p \in Priorities |-> 0],
                             report_counters   |-> [p \in Priorities |-> 0],
                             resolved_counters |-> [p \in Priorities |-> 0]]]
  /\ priority_monitors = [p \in Priorities |-> [completed |-> 0, reported |-> 0]]
  /\ caught = {}

-----------------------------------------------------------------------------
(* The source: wakes, files a batch of reports that all arrive now and     *)
(* holds until the next one.  MaxReports bounds it: a batch is cut to what *)
(* is left, and when nothing is left the next inter-arrival time is longer *)
(* than the run.                                                           *)

CountNew(draw, r, field, p) ==
  Cardinality({i \in DOMAIN draw : draw[i].reporter = r /\ draw[i][field] = p})

FileBatch(new, draw) ==
  /\ bug_counter' = bug_counter + Cardinality(new)
  /\ report' = [i \in Reports \cup new |-> IF i \in new THEN draw[i] ELSE report[i]]
  /\ stage' = [i \in Reports \cup new |-> IF i \in new THEN "activated" ELSE stage[i]]
  /\ due' = [i \in Reports \cup new |-> IF i \in new THEN now' ELSE due[i]]
  /\ ready' = [k \in 1..Cardinality(new) |-> bug_counter + k]
  /\ last_report_time' = now'
  /\ first_report_time' = IF first_report_time = None /\ new # {}
                          THEN now' ELSE first_report_time
  /\ reporter_monitors' =
       [r \in Reporters |-> [reporter_monitors[r] EXCEPT
          !.priority_counters = [p \in Priorities |-> @[p] + CountNew(draw, r, "real_priority", p)],
          !.report_counters = [p \in Priorities |-> @[p] + CountNew(draw, r, "report_priority", p)]]]
  /\ priority_monitors' =
       [p \in Priorities |-> [priority_monitors[p] EXCEPT
          !.reported = @ + Cardinality({i \in new : draw[i].report_priority = p})]]

StartReporting ==
  /\ Fires(next_batch)
  /\ \E size \in BatchSizes, gap \in InterarrivalTimes :
       LET new == (bug_counter + 1)..(bug_counter + size)
       IN /\ bug_counter + size <= MaxReports
          /\ \E draw \in [new -> NewReports(next_batch)] : FileBatch(new, draw)
          /\ next_batch' = IF bug_counter' = MaxReports THEN Never ELSE now' + gap
  /\ UNCHANGED <<stopped, next_check, developers, gatekeepers, ignore_percent, caught>>

-----------------------------------------------------------------------------
(* The gatekeeper's part of a report.                                      *)

RequestGatekeeper(i) ==
  /\ Resumes(i) /\ stage[i] = "activated" /\ Process = "gatekeeper"
  /\ gatekeepers' = Request(gatekeepers, i, FirstComeFirstServed)
  /\ stage' = [stage EXCEPT ![i] = IF gatekeepers.n = 0 THEN "gkWait" ELSE "gkGranted"]
  /\ ready' = IF gatekeepers.n = 0 THEN Tail(ready) ELSE ready
  /\ UNCHANGED <<now, stopped, next_check, next_batch, arrivals, report, due,
                 developers, ignore_percent, monitors>>

(* Mutant: the review takes no time.                                       *)
ReviewAtOnce(i) ==
  /\ Resumes(i) /\ stage[i] = "gkGranted"
  /\ stage' = [stage EXCEPT ![i] = "review"]
  /\ due' = [due EXCEPT ![i] = now]
  /\ ready' = Tail(ready)
  /\ UNCHANGED <<now, stopped, next_check, next_batch, arrivals, report,
                 developers, gatekeepers, ignore_percent, monitors>>

StartReview(i) ==
  /\ Resumes(i) /\ stage[i] = "gkGranted"
  /\ stage' = [stage EXCEPT ![i] = "review"]
  /\ due' = [due EXCEPT ![i] = now + report[i].review_time]
  /\ ready' = Tail(ready)
  /\ UNCHANGED <<now, stopped, next_check, next_batch, arrivals, report,
                 developers, gatekeepers, ignore_percent, monitors>>

(* Mutants: the assignment is swapped; only inflation is corrected.        *)
CorrectReality(i) == [report EXCEPT ![i].real_priority = report[i].report_priority]
CorrectInflation(i) == [report EXCEPT ![i].report_priority = NonSevere]

CorrectPriority(i) == [report EXCEPT ![i].report_priority = report[i].real_priority]

EndReview(i) ==
  /\ stage[i] = "review" /\ Fires(due[i])
  /\ \E noticed \in CatchOutcomes :
       report' = IF IsFalseReport(i) /\ noticed THEN CorrectPriority(i) ELSE report
  /\ gatekeepers' = Release(gatekeepers)
  /\ stage' = HandOver(i, "gkReleased", gatekeepers, "gkGranted")
  /\ ready' = <<i>> \o Woken(gatekeepers)
  /\ UNCHANGED <<stopped, next_check, next_batch, arrivals, due, developers,
                 ignore_percent, monitors>>

-----------------------------------------------------------------------------
(* The developers' part.                                                   *)

RequestDeveloper(i) ==
  /\ Resumes(i)
  /\ \/ stage[i] = "activated" /\ Process # "gatekeeper"
     \/ stage[i] = "gkReleased"
     \/ stage[i] = "ignored" /\ ~Discarded(i)
  /\ developers' = Request(developers, i, QueuePriority)
  /\ stage' = [stage EXCEPT ![i] = IF developers.n = 0 THEN "devWait" ELSE "devGranted"]
  /\ ready' = IF developers.n = 0 THEN Tail(ready) ELSE ready
  /\ UNCHANGED <<now, stopped, next_check, next_batch, arrivals, report, due,
                 gatekeepers, ignore_percent, monitors>>

IgnoreReport(i) ==
  /\ Resumes(i) /\ stage[i] = "devGranted" /\ MayBeIgnored(i)
  /\ IgnoreChance(i) > 0
  /\ report' = [report EXCEPT ![i].views_counter = @ + 1]
  /\ developers' = Release(developers)
  /\ stage' = HandOver(i, "ignored", developers, "devGranted")
  /\ ready' = <<i>> \o Woken(developers) \o Tail(ready)
  /\ UNCHANGED <<now, stopped, next_check, next_batch, arrivals, due,
                 gatekeepers, ignore_percent, monitors>>

DiscardReport(i) ==
  /\ Resumes(i) /\ stage[i] = "ignored" /\ Discarded(i)
  /\ stage' = [stage EXCEPT ![i] = "discarded"]
  /\ ready' = Tail(ready)
  /\ UNCHANGED <<now, stopped, next_check, next_batch, arrivals, report, due,
                 developers, gatekeepers, ignore_percent, monitors>>

StartFix(i) ==
  /\ Resumes(i) /\ stage[i] = "devGranted"
  /\ MayBeIgnored(i) => IgnoreChance(i) < 100
  /\ stage' = [stage EXCEPT ![i] = "fix"]
  /\ due' = [due EXCEPT ![i] = now + report[i].fix_effort]
  /\ ready' = Tail(ready)
  /\ UNCHANGED <<now, stopped, next_check, next_batch, arrivals, report,
                 developers, gatekeepers, ignore_percent, monitors>>

EndFix(i) ==
  /\ stage[i] = "fix" /\ Fires(due[i])
  /\ developers' = Release(developers)
  /\ stage' = HandOver(i, "devReleased", developers, "devGranted")
  /\ ready' = <<i>> \o Woken(developers)
  /\ UNCHANGED <<stopped, next_check, next_batch, arrivals, report, due,
                 gatekeepers, ignore_percent, monitors>>

(* Mutant: the reporters share their generators.                           *)
PenaliseEveryone(r) ==
  ignore_percent' = [s \in Reporters |->
    [p \in SupportedPriorities |-> Penalised(ignore_percent[s][p], InflationPenalty)]]

(* apply_penalty: every chance of the reporter grows by the penalty, to at *)
(* most 95%; a chance already beyond is left alone.                        *)
ApplyPenalty(r) ==
  ignore_percent' = [ignore_percent EXCEPT
    ![r] = [p \in SupportedPriorities |-> Penalised(@[p], InflationPenalty)]]

(* update_monitors and, in the throttling process, the penalty.            *)
Resolve(i) ==
  /\ Resumes(i) /\ stage[i] = "devReleased"
  /\ LET r == report[i].reporter
     IN /\ reporter_monitors' =
             [reporter_monitors EXCEPT
                ![r].resolved_monitor = @ + 1,
                ![r].resolved_counters[report[i].real_priority] = @ + 1]
        /\ priority_monitors' =
             [priority_monitors EXCEPT ![CountedUnder(i)].completed = @ + 1]
        /\ IF Process = "throttling" /\ IsFalseReport(i) /\ InflationPenalty > 0
           THEN \E noticed \in CatchOutcomes :
                  IF noticed THEN ApplyPenalty(r) /\ caught' = caught \cup {i}
                  ELSE UNCHANGED <<ignore_percent, caught>>
           ELSE UNCHANGED <<ignore_percent, caught>>
  /\ stage' = [stage EXCEPT ![i] = "fixed"]
  /\ ready' = Tail(ready)
  /\ UNCHANGED <<now, stopped, next_check, next_batch, arrivals, report, due,
                 developers, gatekeepers>>

-----------------------------------------------------------------------------
(* Mutant: the controller checks once.                                     *)
ControlOnce ==
  /\ Fires(next_check)
  /\ IF StopSimulation
     THEN stopped' = "target" /\ UNCHANGED next_check
     ELSE next_check' = Never /\ UNCHANGED stopped
  /\ UNCHANGED <<ready, next_batch, arrivals, report, stage, due, developers,
                 gatekeepers, ignore_percent, monitors>>

(* The controller: every hour it stops the run if enough was fixed.        *)
Control ==
  /\ Fires(next_check)
  /\ IF StopSimulation
     THEN stopped' = "target" /\ UNCHANGED next_check
     ELSE next_check' = now' + HourLength /\ UNCHANGED stopped
  /\ UNCHANGED <<ready, next_batch, arrivals, report, stage, due, developers,
                 gatekeepers, ignore_percent, monitors>>

(* simulate(until=max_time): the next event lies beyond the horizon.       *)
TimeUp ==
  /\ stopped = "no" /\ ready = << >> /\ \A u \in Pending : u > MaxTime
  /\ stopped' = "time"
  /\ UNCHANGED <<now, ready, next_check, next_batch, arrivals, report, stage,
                 due, developers, gatekeepers, ignore_percent, monitors>>

(* simulate() has returned.                                                *)
Finished == stopped # "no" /\ UNCHANGED vars

ReportStep(i) ==
  \/ RequestGatekeeper(i) \/ StartReview(i) \/ EndReview(i)
  \/ RequestDeveloper(i) \/ IgnoreReport(i) \/ DiscardReport(i)
  \/ StartFix(i) \/ EndFix(i) \/ Resolve(i)

Next == StartReporting \/ (\E i \in Reports : ReportStep(i)) \/ Control \/ TimeUp \/ Finished

Spec == Init /\ [][Next]_vars

(* SimPy's event loop pops one event after the other and never rests.      *)
FairSpec == Spec /\ WF_vars(Next)

-----------------------------------------------------------------------------
(* Properties.                                                             *)

CounterMap == [Priorities -> Nat]

Report == [reporter : Reporters, real_priority : SupportedPriorities,
           report_priority : SupportedPriorities, monitor_priority : SupportedPriorities,
           fix_effort : Nat, review_time : Nat, arrival_time : Nat, views_counter : Nat]

SchedulerOK ==
  /\ now \in Nat /\ next_check \in Nat /\ next_batch \in Nat
  /\ stopped \in {"no", "target", "time"} /\ ready \in Seq(Reports)

ReportsOK ==
  /\ bug_counter \in Nat
  /\ first_report_time \in Nat \cup {None} /\ last_report_time \in Nat \cup {None}
  /\ report \in [Reports -> Report]
  /\ stage \in [Reports -> Stages] /\ due \in [Reports -> Nat]

ResourcesOK ==
  /\ developers \in [n : Nat, waitQ : Seq(Reports)]
  /\ gatekeepers \in [n : Nat, waitQ : Seq(Reports)]

MonitorsOK ==
  /\ ignore_percent \in [Reporters -> [SupportedPriorities -> 0..100]]
  /\ reporter_monitors \in [Reporters ->
       [resolved_monitor : Nat, priority_counters : CounterMap,
        report_counters : CounterMap, resolved_counters : CounterMap]]
  /\ priority_monitors \in [Priorities -> [completed : Nat, reported : Nat]]
  /\ caught \subseteq Reports

(* Every variable has its type.                                            *)
TypeOK == SchedulerOK /\ ReportsOK /\ ResourcesOK /\ MonitorsOK

(* A suspended report is in exactly one place: among the processes to      *)
(* resume, in the queue of the resource it waits for, or holding.  None is *)
(* lost, queued twice or resumed twice.                                    *)
Placement ==
  /\ Holds(ready, At(ReadyStages))
  /\ Holds(developers.waitQ, At({"devWait"}))
  /\ Holds(gatekeepers.waitQ, At({"gkWait"}))

(* Units are conserved: across queueing, hand-overs, ignored reports and   *)
(* second requests, a unit is either free or held by exactly one report.   *)
UnitsConserved ==
  /\ developers.n + Cardinality(DevHolders) = TeamCapacity
  /\ gatekeepers.n + Cardinality(GkHolders) = GatekeeperCapacity

(* Nobody waits for a unit while one is free.                              *)
NoIdleUnit ==
  /\ developers.n > 0 => developers.waitQ = << >>
  /\ gatekeepers.n > 0 => gatekeepers.waitQ = << >>

(* The developers' queue is always in the order of the priorities that the *)
(* reports requested with.                                                 *)
QueueOrdered == Ordered(developers.waitQ, QueuePriority)

(* The inductive invariant.                                                *)
IInv == TypeOK /\ Placement /\ UnitsConserved /\ NoIdleUnit /\ QueueOrdered

(* SimpleBugReport: a developer who becomes free takes the waiting report  *)
(* of the highest reported priority and, of those, the oldest.             *)
SeverestFirst ==
  [][\A i, j \in At({"devWait"}) :
       stage'[i] = "devGranted" /\ j # i =>
         \/ report[i].report_priority > report[j].report_priority
         \/ report[i].report_priority = report[j].report_priority /\ i < j]_vars

(* The other processes queue by int(arrival_time): a free developer takes  *)
(* a report of the latest hour, and of the reports of one hour that were   *)
(* never ignored, the oldest.                                              *)
LatestHourFirst ==
  [][\A i, j \in At({"devWait"}) :
       stage'[i] = "devGranted" /\ j # i =>
         LET hour(k) == report[k].arrival_time \div HourLength
         IN \/ hour(i) > hour(j)
            \/ hour(i) = hour(j) /\ (i < j \/ report[i].views_counter + report[j].views_counter > 0)]_vars

(* The gatekeepers' queue is first come, first served: priorities that may *)
(* be false do not decide who is reviewed first.                           *)
FirstComeFirstReviewed ==
  [][\A i, j \in At({"gkWait"}) : stage'[i] = "gkGranted" /\ j # i => i < j]_vars

(* At no instant are more reports being fixed than there are developers:   *)
(* no fix runs on a unit it does not hold, and none is cut short to let    *)
(* another one begin.                                                      *)
BeingFixed(t) ==
  {i \in At({"fix", "devReleased", "fixed"}) : due[i] - report[i].fix_effort < t /\ t <= due[i]}

DeveloperHours == \A t \in 1..now : Cardinality(BeingFixed(t)) <= TeamCapacity

(* The time a fixed report adds to its monitors covers its review and its  *)
(* fix.                                                                    *)
ResolutionTakesItsTime ==
  \A i \in At({"fixed"}) :
    due[i] - report[i].arrival_time >= report[i].review_time + report[i].fix_effort

(* With an infallible gatekeeper the developers only ever see true         *)
(* priorities, so honest and dishonest reports are ignored alike.          *)
TriagedPriority ==
  HasGatekeeper /\ CatchOutcomes = {TRUE} =>
    \A i \in At({"gkReleased", "devWait", "devGranted", "ignored", "fix",
                 "devReleased", "fixed", "discarded"}) : ~IsFalseReport(i)

(* The monitors the payoffs are computed from agree: however reports are   *)
(* reviewed, ignored and queued, those per reporter and those per priority *)
(* count the same filed and the same fixed reports, each once, and under a *)
(* priority no more is fixed than was filed.                               *)
LedgersAgree ==
  /\ TotalFixes = Cardinality(At({"fixed"}))
  /\ \A r \in Reporters :
       LET m     == reporter_monitors[r]
           filed == {i \in Reports : report[i].reporter = r}
           fixed == filed \cap At({"fixed"})
       IN /\ m.resolved_monitor = Cardinality(fixed)
          /\ \A p \in Priorities :
               /\ m.priority_counters[p] = Cardinality({i \in filed : report[i].real_priority = p})
               /\ m.report_counters[p] = Cardinality({i \in filed : report[i].monitor_priority = p})
               /\ m.resolved_counters[p] = Cardinality({i \in fixed : report[i].real_priority = p})
  /\ \A p \in Priorities :
       LET m     == priority_monitors[p]
           filed == {i \in Reports : report[i].monitor_priority = p}
       IN /\ m.reported = Cardinality(filed)
          /\ m.completed = Cardinality(filed \cap At({"fixed"}))
          /\ m.completed <= m.reported

(* The run stops at the first hourly check that finds the target reached:  *)
(* what was fixed before the check before this one was too little.         *)
PromptStop ==
  /\ next_check > HourLength =>
       Cardinality({i \in At({"fixed"}) : due[i] < next_check - HourLength}) < TargetFixes
  /\ stopped = "target" => TotalFixes >= TargetFixes

(* The chances of being ignored of a reporter who never deflates are the   *)
(* initial ones raised by the penalty exactly once for each inflated       *)
(* report of theirs that the catcher noticed when it was fixed, for every  *)
(* priority alike, and capped at 95%: no penalty is missed, given twice or *)
(* shared, and the honest keep their chances.  The property is silent on   *)
(* reporters who deflate: `penalizing inflators' (simmodel.py:78, 714) is  *)
(* said of inflation only, and is_false_report penalises both alike.       *)
CaughtInflations(r) ==
  {i \in caught : /\ report[i].reporter = r
                  /\ report[i].report_priority > report[i].real_priority}

PenaltyMatchesOffences ==
  \A r \in Reporters \ DeflatingReporters :
    LET k == Cardinality(CaughtInflations(r))
    IN \A p \in SupportedPriorities :
         ignore_percent[r][p] = IF k = 0 THEN IgnorePercent[p]
                                ELSE Penalised(IgnorePercent[p], k * InflationPenalty)

(* What becomes of an ignored report: with a limit of at most one view it  *)
(* is discarded and never fixed; with a larger limit it is queued again    *)
(* and, as it is not checked a second time, never discarded.               *)
IgnoredFate ==
  \A i \in Reports :
    /\ stage[i] = "discarded" => ViewsToDiscard <= 1
    /\ stage[i] \in {"devWait", "devGranted", "fix", "fixed"} /\ ViewsToDiscard <= 1
         => report[i].views_counter = 0
    /\ report[i].views_counter <= 1

(* The process implements the abstract life cycle.                         *)
Status(s) == CASE s = "fix" \/ s = "devReleased" -> "inProgress"
               [] s = "fixed" -> "fixed"
               [] s = "discarded" -> "dropped"
               [] OTHER -> "open"

Lifecycle == INSTANCE ReportLifecycle WITH
  Capacity <- TeamCapacity,
  item <- [i \in Reports |-> [status  |-> Status(stage[i]),
                             visible |-> report[i].report_priority,
                             true    |-> report[i].real_priority]],
  ended <- stopped # "no"

ImplementsLifecycle == Lifecycle!Spec

(* Where nothing is ignored and enough is filed, every run reaches its     *)
(* target and stops.                                                       *)
EventuallyStops == <>(stopped = "target")

=============================================================================
