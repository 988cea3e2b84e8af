----------------------- MODULE BugReportingProperties -----------------------
(***************************************************************************)
(* What follows from the inductive invariant of BugReporting, for every    *)
(* configuration: how a single report moves through its stages, and what   *)
(* that means for priorities, ignored reports, times, the stopping of the  *)
(* run, penalties, working hours and monitors; who is served first; and    *)
(* that the process, whichever of the four is configured, implements       *)
(* ReportLifecycle. Queueing, hand-overs, reviews and ignored reports are  *)
(* not seen there: a report is in progress from the start of its fix until *)
(* its monitors are updated, and there are never more of these than        *)
(* developers.                                                             *)
(***************************************************************************)
EXTENDS BugReportingProofs

Sane == TypeOK /\ QueuesSound

-----------------------------------------------------------------------------
(* What a step may do to one report.                                       *)

Rests(i) == stage'[i] = stage[i] /\ report'[i] = report[i] /\ due'[i] = due[i]

(* It is filed now ...                                                     *)
Filed(i) ==
  /\ now' = next_batch /\ report'[i] \in NewReports(now')
  /\ stage'[i] = "activated" /\ due'[i] = now'

(* ... or handed the unit it waits for ...                                 *)
HandedOver(i) ==
  /\ <<stage[i], stage'[i]>> \in {<<"gkWait", "gkGranted">>, <<"devWait", "devGranted">>}
  /\ report'[i] = report[i] /\ due'[i] = due[i]

(* ... or it runs to its next yield at the current time ...                *)
RunsOn(i) ==
  /\ i = Head(ready) /\ ready # << >> /\ now' = now
  /\ \/ /\ stage[i] = "activated" /\ Process = "gatekeeper"
        /\ stage'[i] \in {"gkWait", "gkGranted"}
        /\ report'[i] = report[i] /\ due'[i] = due[i]
     \/ /\ stage[i] = "gkGranted" /\ stage'[i] = "review"
        /\ report'[i] = report[i] /\ due'[i] = now + report[i].review_time
     \/ /\ \/ stage[i] = "activated" /\ Process # "gatekeeper"
           \/ stage[i] = "gkReleased"
           \/ stage[i] = "ignored" /\ ~Discarded(i)
        /\ stage'[i] \in {"devWait", "devGranted"}
        /\ report'[i] = report[i] /\ due'[i] = due[i]
     \/ /\ stage[i] = "devGranted" /\ stage'[i] = "ignored" /\ MayBeIgnored(i)
        /\ report'[i] = [report[i] EXCEPT !.views_counter = @ + 1] /\ due'[i] = due[i]
     \/ /\ stage[i] = "ignored" /\ Discarded(i) /\ stage'[i] = "discarded"
        /\ report'[i] = report[i] /\ due'[i] = due[i]
     \/ /\ stage[i] = "devGranted" /\ stage'[i] = "fix"
        /\ report'[i] = report[i] /\ due'[i] = now + report[i].fix_effort
     \/ /\ stage[i] = "devReleased" /\ stage'[i] = "fixed"
        /\ report'[i] = report[i] /\ due'[i] = due[i]

(* ... or the time it held for is over.                                    *)
Wakes(i) ==
  /\ ready = << >> /\ now' = due[i] /\ due'[i] = due[i]
  /\ \/ /\ stage[i] = "review" /\ stage'[i] = "gkReleased"
        /\ \E noticed \in CatchOutcomes :
             report'[i] = IF IsFalseReport(i) /\ noticed
                          THEN [report[i] EXCEPT !.report_priority = report[i].real_priority]
                          ELSE report[i]
     \/ stage[i] = "fix" /\ stage'[i] = "devReleased" /\ report'[i] = report[i]

(* A step that gives a unit back moves the reports it names and no other.  *)
LEMMA OnlyNamedMove ==
  ASSUME NEW i, NEW s, NEW res, NEW g, stage' = HandOver(i, s, res, g),
         NEW j \in Reports, j # i
  PROVE  stage'[j] = IF j \in Range(Woken(res)) THEN g ELSE stage[j]
<1>1. Range(Woken(res)) = IF res.waitQ # << >> THEN {Head(res.waitQ)} ELSE {}
  BY DEF Woken, Range
<1> QED BY <1>1 DEF HandOver

LEMMA BatchOfReports ==
  ASSUME TypeOK, StartReporting
  PROVE  /\ Reports \subseteq Reports'
         /\ \A i \in Reports : Rests(i)
         /\ \A i \in Reports' \ Reports : Filed(i)
<1>1. PICK size \in BatchSizes :
        \E draw \in [(bug_counter + 1)..(bug_counter + size) -> NewReports(next_batch)] :
          FileBatch((bug_counter + 1)..(bug_counter + size), draw)
  BY DEF StartReporting
<1> DEFINE new == (bug_counter + 1)..(bug_counter + size)
<1>2. PICK draw \in [new -> NewReports(next_batch)] : FileBatch(new, draw)
  BY <1>1
<1>3. /\ size \in Nat /\ bug_counter \in Nat /\ Cardinality(new) = size
      /\ Reports \cap new = {} /\ Reports \cup new = 1..(bug_counter + size)
  BY DurationAssumption, BatchIds DEF TypeOK, ReportsOK
<1>4. now' = next_batch
  BY DEF StartReporting, Fires
<1> HIDE DEF new
<1>5. Reports' = Reports \cup new
  <2>1. bug_counter' = bug_counter + size
    BY <1>2, <1>3 DEF FileBatch
  <2>2. Reports' = 1..bug_counter'
    BY DEF Reports
  <2> QED BY <1>3, <2>1, <2>2
<1>6. /\ report' = [j \in Reports \cup new |-> IF j \in new THEN draw[j] ELSE report[j]]
      /\ stage' = [j \in Reports \cup new |-> IF j \in new THEN "activated" ELSE stage[j]]
      /\ due' = [j \in Reports \cup new |-> IF j \in new THEN now' ELSE due[j]]
  BY <1>2 DEF FileBatch
<1>7. ASSUME NEW i \in Reports PROVE Rests(i)
  BY <1>3, <1>6 DEF Rests
<1>8. ASSUME NEW i \in Reports' \ Reports PROVE Filed(i)
  BY <1>3, <1>4, <1>5, <1>6 DEF Filed
<1> QED BY <1>5, <1>7, <1>8

(* A step of report i moves i, may hand a unit to another, and leaves all  *)
(* others alone.                                                           *)
LEMMA StepMoves ==
  ASSUME Sane, NEW i \in Reports, ReportStep(i)
  PROVE  /\ Reports' = Reports
         /\ RunsOn(i) \/ Wakes(i)
         /\ \A j \in Reports : j # i => Rests(j) \/ HandedOver(j)
<1> USE DEF Sane
<1>1. /\ report \in [Reports -> Report] /\ stage \in [Reports -> Stages] /\ due \in [Reports -> Nat]
      /\ report[i] \in Report
  BY DEF TypeOK, ReportsOK
<1>2. /\ \A j \in Range(Woken(developers)) : j \in Reports /\ stage[j] = "devWait"
      /\ \A j \in Range(Woken(gatekeepers)) : j \in Reports /\ stage[j] = "gkWait"
  BY WokenWaits DEF At
<1>3. Reports' = Reports
  BY SameReports DEF ReportStep, RequestGatekeeper, StartReview, EndReview, RequestDeveloper,
                     IgnoreReport, DiscardReport, StartFix, EndFix, Resolve
<1>4. CASE RequestGatekeeper(i)
  <2>1. RunsOn(i)
    BY <1>1, <1>4 DEF RequestGatekeeper, Resumes, RunsOn
  <2>2. \A j \in Reports : j # i => Rests(j)
    BY <1>1, <1>4 DEF RequestGatekeeper, Rests
  <2> QED BY <1>3, <2>1, <2>2
<1>5. CASE StartReview(i)
  <2>1. RunsOn(i)
    BY <1>1, <1>5 DEF StartReview, Resumes, RunsOn
  <2>2. \A j \in Reports : j # i => Rests(j)
    BY <1>1, <1>5 DEF StartReview, Rests
  <2> QED BY <1>3, <2>1, <2>2
<1>6. CASE EndReview(i)
  <2>1. stage'[i] = "gkReleased"
    BY <1>6 DEF EndReview, HandOver
  <2>2. PICK noticed \in CatchOutcomes :
          report' = IF IsFalseReport(i) /\ noticed THEN CorrectPriority(i) ELSE report
    BY <1>6 DEF EndReview
  <2>3. report'[i] = IF IsFalseReport(i) /\ noticed
                     THEN [report[i] EXCEPT !.report_priority = report[i].real_priority]
                     ELSE report[i]
    BY <1>1, <2>2 DEF CorrectPriority
  <2>4. Wakes(i)
    BY <1>6, <2>1, <2>3 DEF EndReview, Fires, Wakes
  <2>5. ASSUME NEW j \in Reports, j # i PROVE Rests(j) \/ HandedOver(j)
    <3>1. report'[j] = report[j] /\ due'[j] = due[j]
      BY <1>1, <1>6, <2>2, <2>5 DEF EndReview, CorrectPriority
    <3>2. stage'[j] = IF j \in Range(Woken(gatekeepers)) THEN "gkGranted" ELSE stage[j]
      BY <1>6, <2>5, OnlyNamedMove DEF EndReview
    <3> QED BY <1>2, <3>1, <3>2 DEF Rests, HandedOver
  <2> QED BY <1>3, <2>4, <2>5
<1>7. CASE RequestDeveloper(i)
  <2>1. RunsOn(i)
    BY <1>1, <1>7 DEF RequestDeveloper, Resumes, RunsOn
  <2>2. \A j \in Reports : j # i => Rests(j)
    BY <1>1, <1>7 DEF RequestDeveloper, Rests
  <2> QED BY <1>3, <2>1, <2>2
<1>8. CASE IgnoreReport(i)
  <2>1. stage'[i] = "ignored" /\ report'[i] = [report[i] EXCEPT !.views_counter = @ + 1]
    BY <1>1, <1>8 DEF IgnoreReport, HandOver
  <2>2. RunsOn(i)
    BY <1>8, <2>1 DEF IgnoreReport, Resumes, RunsOn
  <2>3. ASSUME NEW j \in Reports, j # i PROVE Rests(j) \/ HandedOver(j)
    <3>1. report'[j] = report[j] /\ due'[j] = due[j]
      BY <1>1, <1>8, <2>3 DEF IgnoreReport
    <3>2. stage'[j] = IF j \in Range(Woken(developers)) THEN "devGranted" ELSE stage[j]
      BY <1>8, <2>3, OnlyNamedMove DEF IgnoreReport
    <3> QED BY <1>2, <3>1, <3>2 DEF Rests, HandedOver
  <2> QED BY <1>3, <2>2, <2>3
<1>9. CASE DiscardReport(i)
  <2>1. RunsOn(i)
    BY <1>1, <1>9 DEF DiscardReport, Resumes, RunsOn
  <2>2. \A j \in Reports : j # i => Rests(j)
    BY <1>1, <1>9 DEF DiscardReport, Rests
  <2> QED BY <1>3, <2>1, <2>2
<1>10. CASE StartFix(i)
  <2>1. RunsOn(i)
    BY <1>1, <1>10 DEF StartFix, Resumes, RunsOn
  <2>2. \A j \in Reports : j # i => Rests(j)
    BY <1>1, <1>10 DEF StartFix, Rests
  <2> QED BY <1>3, <2>1, <2>2
<1>11. CASE EndFix(i)
  <2>1. stage'[i] = "devReleased"
    BY <1>11 DEF EndFix, HandOver
  <2>2. Wakes(i)
    BY <1>11, <2>1 DEF EndFix, Fires, Wakes
  <2>3. ASSUME NEW j \in Reports, j # i PROVE Rests(j) \/ HandedOver(j)
    <3>1. report'[j] = report[j] /\ due'[j] = due[j]
      BY <1>11 DEF EndFix
    <3>2. stage'[j] = IF j \in Range(Woken(developers)) THEN "devGranted" ELSE stage[j]
      BY <1>11, <2>3, OnlyNamedMove DEF EndFix
    <3> QED BY <1>2, <3>1, <3>2 DEF Rests, HandedOver
  <2> QED BY <1>3, <2>2, <2>3
<1>12. CASE Resolve(i)
  <2>1. RunsOn(i)
    BY <1>1, <1>12 DEF Resolve, Resumes, RunsOn
  <2>2. \A j \in Reports : j # i => Rests(j)
    BY <1>1, <1>12 DEF Resolve, Rests
  <2> QED BY <1>3, <2>1, <2>2
<1> QED BY <1>4, <1>5, <1>6, <1>7, <1>8, <1>9, <1>10, <1>11, <1>12 DEF ReportStep

LEMMA OthersRest ==
  ASSUME Control \/ TimeUp \/ UNCHANGED vars
  PROVE  Reports' = Reports /\ \A i \in Reports : Rests(i)
<1>1. UNCHANGED <<arrivals, report, stage, due>>
  BY DEF Control, TimeUp, vars
<1> QED BY <1>1, SameReports DEF Rests

(* Every step, seen from one report.                                       *)
LEMMA StepOfReport ==
  ASSUME Sane, [Next]_vars
  PROVE  /\ Reports \subseteq Reports'
         /\ \A i \in Reports' \ Reports : Filed(i)
         /\ \A i \in Reports : Rests(i) \/ HandedOver(i) \/ RunsOn(i) \/ Wakes(i)
<1>1. CASE StartReporting
  BY <1>1, BatchOfReports DEF Sane
<1>2. ASSUME NEW i \in Reports, ReportStep(i)
      PROVE  /\ Reports' = Reports
             /\ \A j \in Reports : Rests(j) \/ HandedOver(j) \/ RunsOn(j) \/ Wakes(j)
  BY <1>2, StepMoves
<1>3. CASE Control \/ TimeUp \/ UNCHANGED vars
  BY <1>3, OthersRest
<1> QED BY <1>1, <1>2, <1>3 DEF Next, Finished

-----------------------------------------------------------------------------
(* Priorities and views.                                                   *)

LEMMA GatekeeperProcess == HasGatekeeper <=> Process = "gatekeeper"
BY ConfigAssumption DEF Process

LEMMA TrueReportsAreTriaged ==
  ASSUME Sane, TriagedPriority, [Next]_vars PROVE TriagedPriority'
<1> SUFFICES ASSUME HasGatekeeper, CatchOutcomes = {TRUE}, NEW i \in Reports',
                    stage'[i] \in {"gkReleased", "devWait", "devGranted", "ignored", "fix",
                                   "devReleased", "fixed", "discarded"}
             PROVE  report'[i].report_priority = report'[i].real_priority
  BY DEF TriagedPriority, At, IsFalseReport
<1>1. i \in Reports
  BY StepOfReport DEF Filed
<1>2. /\ report[i] \in Report /\ Process = "gatekeeper"
      /\ Rests(i) \/ HandedOver(i) \/ RunsOn(i) \/ Wakes(i)
  BY <1>1, StepOfReport, GatekeeperProcess DEF Sane, TypeOK, ReportsOK
<1>3. CASE stage[i] \in {"gkReleased", "devWait", "devGranted", "ignored", "fix",
                         "devReleased", "fixed", "discarded"}
  <2>1. report[i].report_priority = report[i].real_priority
    BY <1>1, <1>3 DEF TriagedPriority, At, IsFalseReport
  <2> QED BY <1>2, <1>3, <2>1 DEF Rests, HandedOver, RunsOn, Wakes, Report
<1>4. CASE stage[i] \notin {"gkReleased", "devWait", "devGranted", "ignored", "fix",
                            "devReleased", "fixed", "discarded"}
  <2>1. Wakes(i) /\ stage[i] = "review"
    BY <1>2, <1>4 DEF Rests, HandedOver, RunsOn, Wakes
  <2> QED BY <1>2, <2>1 DEF Wakes, IsFalseReport, Report
<1> QED BY <1>3, <1>4

(* With an infallible gatekeeper no developer ever sees a false priority,  *)
(* whoever inflates or deflates and however reports are queued and ignored.*)
THEOREM PrioritiesAreTriaged == Spec => []TriagedPriority
<1>1. Init => TriagedPriority
  BY DEF Init, TriagedPriority, At, Reports
<1>2. IInv => Sane
  BY QueuesSoundIsTheInvariant DEF IInv, Sane
<1> QED BY <1>1, <1>2, InvariantHolds, TrueReportsAreTriaged, PTL DEF Spec

(* Who was ignored: never more than once, and not before a developer saw   *)
(* the report.                                                             *)
Views ==
  \A i \in Reports :
    LET views == report[i].views_counter
    IN  /\ views \in {0, 1}
        /\ stage[i] \in {"activated", "gkWait", "gkGranted", "review", "gkReleased"} => views = 0
        /\ stage[i] = "ignored" => views = 1
        /\ stage[i] = "discarded" => ViewsToDiscard <= 1
        /\ stage[i] \in {"devWait", "devGranted", "fix", "devReleased", "fixed"}
             => views = 0 \/ ViewsToDiscard > 1

LEMMA ViewsStay == ASSUME Sane, Views, [Next]_vars PROVE Views'
<1> SUFFICES ASSUME NEW i \in Reports'
             PROVE  LET views == report'[i].views_counter
                    IN  /\ views \in {0, 1}
                        /\ stage'[i] \in {"activated", "gkWait", "gkGranted", "review", "gkReleased"}
                             => views = 0
                        /\ stage'[i] = "ignored" => views = 1
                        /\ stage'[i] = "discarded" => ViewsToDiscard <= 1
                        /\ stage'[i] \in {"devWait", "devGranted", "fix", "devReleased", "fixed"}
                             => views = 0 \/ ViewsToDiscard > 1
  BY DEF Views
<1>1. CASE i \notin Reports
  <2>1. Filed(i)
    BY <1>1, StepOfReport
  <2> QED BY <2>1 DEF Filed, NewReports
<1>2. CASE i \in Reports
  <2>1. Rests(i) \/ HandedOver(i) \/ RunsOn(i) \/ Wakes(i)
    BY <1>2, StepOfReport
  <2>2. report[i] \in Report /\ ViewsToDiscard \in Nat
    BY <1>2, ConfigAssumption DEF Sane, TypeOK, ReportsOK
  <2>3. CASE Rests(i) \/ HandedOver(i) \/ Wakes(i)
    BY <1>2, <2>2, <2>3 DEF Views, Rests, HandedOver, Wakes, Report
  <2>4. CASE RunsOn(i)
    BY <1>2, <2>2, <2>4 DEF Views, RunsOn, MayBeIgnored, Discarded, Report
  <2> QED BY <2>1, <2>3, <2>4
<1> QED BY <1>1, <1>2

(* An ignored report is discarded at once or never: what becomes of it     *)
(* depends on the limit of views alone.                                    *)
THEOREM FateOfTheIgnored == Spec => []IgnoredFate
<1>1. Init => Views
  BY DEF Init, Views, Reports
<1>2. IInv => Sane
  BY QueuesSoundIsTheInvariant DEF IInv, Sane
<1>3. Views => IgnoredFate
  <2>1. ViewsToDiscard \in Nat
    BY ConfigAssumption
  <2> QED BY <2>1 DEF Views, IgnoredFate
<1> QED BY <1>1, <1>2, <1>3, InvariantHolds, ViewsStay, PTL DEF Spec

-----------------------------------------------------------------------------
(* Time: nothing that is due is in the past, and the time between a filing *)
(* and a fix is at least the time spent on both.                           *)

Clock ==
  /\ now <= MaxTime /\ now <= next_batch
  /\ now <= next_check /\ next_check <= now + HourLength
  /\ \A i \in Reports : stage[i] \in TimedStages => now <= due[i]

Reviewed == Stages \ {"activated", "gkWait", "gkGranted", "review"}

Worked ==
  \A i \in Reports :
    LET reviewed == report[i].arrival_time + report[i].review_time
    IN  /\ report[i].arrival_time <= now
        /\ ~HasGatekeeper => report[i].review_time = 0
        /\ stage[i] \in Reviewed => reviewed <= now
        /\ stage[i] = "review" => reviewed <= due[i]
        /\ stage[i] \in {"fix", "devReleased", "fixed"} => reviewed + report[i].fix_effort <= due[i]
        /\ stage[i] = "devReleased" => due[i] = now
        /\ stage[i] = "fixed" => due[i] <= now

(* When time passes, nobody is ready.                                      *)
LEMMA TimePasses ==
  ASSUME Sane, Clock, [Next]_vars
  PROVE  /\ now' \in Nat /\ now <= now'
         /\ now' # now => ready = << >> /\ \A i \in Reports : stage[i] \notin ReadyStages
         /\ \A i \in Reports : stage[i] \in TimedStages => now' = now \/ now' <= due[i]
<1> USE DEF Sane
<1>1. now \in Nat /\ now' \in Nat
  BY StepTypeOK DEF TypeOK, SchedulerOK
<1>2. ASSUME NEW t, Fires(t), t \in Pending
      PROVE  /\ ready = << >> /\ now' = t /\ now <= t
             /\ \A i \in Reports : stage[i] \in TimedStages => t <= due[i]
  BY <1>2 DEF Fires, Pending, Clock, At
<1>3. ready = << >> => \A i \in Reports : stage[i] \notin ReadyStages
  BY DEF QueuesSound, ReadySound, Holds, Range, At
<1>4. now' = now \/ \E t \in Pending : Fires(t)
  <2>1. StartReporting \/ Control => \E t \in Pending : Fires(t)
    BY DEF StartReporting, Control, Pending
  <2>2. ASSUME NEW i \in Reports, EndReview(i) \/ EndFix(i) PROVE due[i] \in Pending /\ Fires(due[i])
    BY <2>2 DEF EndReview, EndFix, Pending, At, TimedStages
  <2>3. ASSUME NEW i \in Reports, ReportStep(i) PROVE now' = now \/ EndReview(i) \/ EndFix(i)
    BY <2>3 DEF ReportStep, RequestGatekeeper, StartReview, RequestDeveloper, IgnoreReport,
                DiscardReport, StartFix, Resolve
  <2>4. TimeUp \/ UNCHANGED vars => now' = now
    BY DEF TimeUp, vars, scheduler
  <2> QED BY <2>1, <2>2, <2>3, <2>4 DEF Next, Finished
<1>5. CASE now' = now
  BY <1>1, <1>5
<1>6. CASE \E t \in Pending : Fires(t)
  BY <1>1, <1>2, <1>3, <1>6
<1> QED BY <1>4, <1>5, <1>6

(* What a step does to the wakings of the source and of the controller.    *)
LEMMA WakingsMove ==
  ASSUME Sane, [Next]_vars
  PROVE  /\ \/ next_batch' = next_batch
            \/ StartReporting /\ now' = next_batch /\ now' <= MaxTime /\ now' <= next_check
               /\ next_check' = next_check
               /\ (next_batch' = Never \/ \E gap \in Nat : next_batch' = now' + gap)
         /\ \/ next_check' = next_check
            \/ Control /\ ~StopSimulation /\ now' = next_check /\ next_check' = now' + HourLength
               /\ next_batch' = next_batch
<1>1. CASE StartReporting
  BY <1>1, DurationAssumption DEF StartReporting, Fires, Pending
<1>2. CASE Control
  BY <1>2 DEF Control, Fires
<1>3. ASSUME NEW i \in Reports, ReportStep(i) PROVE UNCHANGED <<next_batch, next_check>>
  BY <1>3 DEF ReportStep, RequestGatekeeper, StartReview, EndReview, RequestDeveloper, IgnoreReport,
              DiscardReport, StartFix, EndFix, Resolve
<1>4. TimeUp \/ UNCHANGED vars => UNCHANGED <<next_batch, next_check>>
  BY DEF TimeUp, vars, scheduler
<1> QED BY <1>1, <1>2, <1>3, <1>4 DEF Next, Finished

LEMMA NoLaterThanPending ==
  ASSUME Sane, Clock, [Next]_vars
  PROVE  now' <= MaxTime /\ (next_batch' = next_batch => now' <= next_batch)
         /\ (next_check' = next_check => now' <= next_check)
<1>1. ASSUME NEW t, Fires(t) PROVE now' <= MaxTime /\ now' <= next_batch /\ now' <= next_check
  BY <1>1 DEF Fires, Pending
<1>2. now' = now \/ \E t : Fires(t)
  <2>1. ASSUME NEW i \in Reports, ReportStep(i) PROVE now' = now \/ Fires(due[i])
    BY <2>1 DEF ReportStep, RequestGatekeeper, StartReview, EndReview, RequestDeveloper, IgnoreReport,
              DiscardReport, StartFix, EndFix, Resolve
  <2>2. TimeUp \/ UNCHANGED vars => now' = now
    BY DEF TimeUp, vars, scheduler
  <2> QED BY <2>1, <2>2 DEF Next, Finished, StartReporting, Control
<1> QED BY <1>1, <1>2 DEF Clock

LEMMA ClockRuns == ASSUME Sane, Clock, [Next]_vars PROVE Clock'
<1> USE DEF Sane
<1>1. /\ now \in Nat /\ now' \in Nat /\ next_check \in Nat /\ next_batch \in Nat
      /\ HourLength \in Nat /\ MaxTime \in Nat
  BY StepTypeOK, DurationAssumption DEF TypeOK, SchedulerOK
<1>2. now <= now' /\ now' <= MaxTime
  BY TimePasses, NoLaterThanPending
<1>3. now' <= next_batch'
  BY <1>1, <1>2, WakingsMove, NoLaterThanPending DEF Never
<1>4. now' <= next_check' /\ next_check' <= now' + HourLength
  BY <1>1, <1>2, WakingsMove, NoLaterThanPending DEF Clock
<1>5. ASSUME NEW i \in Reports', stage'[i] \in TimedStages PROVE now' <= due'[i]
  <2>1. i \in Reports
    BY <1>5, StepOfReport DEF Filed, TimedStages
  <2>2. Rests(i) \/ HandedOver(i) \/ RunsOn(i) \/ Wakes(i)
    BY <2>1, StepOfReport
  <2>3. report[i] \in Report /\ due[i] \in Nat
    BY <2>1 DEF TypeOK, ReportsOK
  <2>4. CASE Rests(i)
    BY <1>1, <1>5, <2>1, <2>3, <2>4, TimePasses DEF Rests, Clock
  <2>5. CASE RunsOn(i)
    <3>1. stage'[i] \in {"review", "fix"}
      BY <1>5, <2>5 DEF RunsOn, TimedStages
    <3>2. report[i].review_time \in Nat /\ report[i].fix_effort \in Nat
      BY <2>3 DEF Report
    <3>3. now' = now /\ (due'[i] = now + report[i].review_time \/ due'[i] = now + report[i].fix_effort)
      BY <2>5, <3>1 DEF RunsOn
    <3> QED BY <1>1, <3>2, <3>3
  <2>6. ~HandedOver(i) /\ ~Wakes(i)
    BY <1>5 DEF HandedOver, Wakes, TimedStages
  <2> QED BY <2>2, <2>4, <2>5, <2>6
<1> QED BY <1>2, <1>3, <1>4, <1>5 DEF Clock

LEMMA WorkIsTimed == ASSUME Sane, Clock, Worked, [Next]_vars PROVE Worked'
<1> USE DEF Sane
<1> SUFFICES ASSUME NEW i \in Reports'
             PROVE  (LET reviewed == report[i].arrival_time + report[i].review_time
                     IN  /\ report[i].arrival_time <= now
                         /\ ~HasGatekeeper => report[i].review_time = 0
                         /\ stage[i] \in Reviewed => reviewed <= now
                         /\ stage[i] = "review" => reviewed <= due[i]
                         /\ stage[i] \in {"fix", "devReleased", "fixed"}
                              => reviewed + report[i].fix_effort <= due[i]
                         /\ stage[i] = "devReleased" => due[i] = now
                         /\ stage[i] = "fixed" => due[i] <= now)'
  BY DEF Worked
<1>1. now \in Nat /\ now' \in Nat /\ now <= now' /\ next_batch \in Nat
  BY TimePasses DEF TypeOK, SchedulerOK
<1>2. CASE i \notin Reports
  <2>1. Filed(i)
    BY <1>2, StepOfReport
  <2>2. now' = next_batch /\ stage'[i] = "activated" /\ report'[i] \in NewReports(now')
    BY <2>1 DEF Filed
  <2>3. report'[i].arrival_time = now' /\ (~HasGatekeeper => report'[i].review_time = 0)
    BY <2>2 DEF NewReports
  <2> QED BY <1>1, <2>2, <2>3 DEF Reviewed
<1>3. CASE i \in Reports
  <2>1. Rests(i) \/ HandedOver(i) \/ RunsOn(i) \/ Wakes(i)
    BY <1>3, StepOfReport
  <2>2. /\ report[i] \in Report /\ due[i] \in Nat /\ stage[i] \in Stages
        /\ report[i].arrival_time \in Nat /\ report[i].review_time \in Nat
        /\ report[i].fix_effort \in Nat
    BY <1>3 DEF TypeOK, ReportsOK, Report
  <2>3. /\ report[i].arrival_time <= now
        /\ ~HasGatekeeper => report[i].review_time = 0
        /\ stage[i] \in Reviewed => report[i].arrival_time + report[i].review_time <= now
        /\ stage[i] = "review" => report[i].arrival_time + report[i].review_time <= due[i]
        /\ stage[i] \in {"fix", "devReleased", "fixed"}
             => report[i].arrival_time + report[i].review_time + report[i].fix_effort <= due[i]
        /\ stage[i] = "devReleased" => due[i] = now
        /\ stage[i] = "fixed" => due[i] <= now
    BY <1>3 DEF Worked
  <2>4. CASE Rests(i)
    <3>1. stage[i] = "devReleased" => now' = now
      BY <1>3, TimePasses DEF ReadyStages
    <3> QED BY <1>1, <2>2, <2>3, <2>4, <3>1 DEF Rests
  <2>5. CASE HandedOver(i)
    BY <1>1, <2>2, <2>3, <2>5 DEF HandedOver, Reviewed, Stages
  <2>6. CASE RunsOn(i)
    <3>1. Process # "gatekeeper" => report[i].review_time = 0
      BY <2>3, GatekeeperProcess
    <3>2. /\ report'[i].arrival_time = report[i].arrival_time
          /\ report'[i].review_time = report[i].review_time
          /\ report'[i].fix_effort = report[i].fix_effort
      BY <2>2, <2>6 DEF RunsOn, Report
    <3>3. now' = now
      BY <2>6 DEF RunsOn
    <3>4. stage'[i] \in {"gkWait", "gkGranted"} \/ stage'[i] \in Stages
      BY <2>6, StagesListed DEF RunsOn
    <3>5. CASE stage'[i] \in {"gkWait", "gkGranted"}
      BY <1>1, <2>2, <2>3, <3>2, <3>3, <3>5 DEF Reviewed
    <3>6. CASE stage'[i] = "review"
      BY <1>1, <2>2, <2>3, <2>6, <3>2, <3>3, <3>6 DEF RunsOn, Reviewed
    <3>7. CASE stage'[i] \in {"devWait", "devGranted", "ignored", "discarded"}
      <4>1. report[i].arrival_time + report[i].review_time <= now
        <5>1. stage[i] \in Reviewed \/ (stage[i] = "activated" /\ Process # "gatekeeper")
          BY <2>6, <3>7, StagesListed DEF RunsOn, Reviewed
        <5> QED BY <1>1, <2>2, <2>3, <3>1, <5>1
      <4> QED BY <1>1, <2>2, <2>3, <3>2, <3>3, <3>7, <4>1
    <3>8. CASE stage'[i] = "fix"
      <4>1. stage[i] = "devGranted" /\ due'[i] = now + report[i].fix_effort
        BY <2>6, <3>8 DEF RunsOn
      <4>2. stage[i] \in Reviewed
        BY <4>1, StagesListed DEF Reviewed
      <4> QED BY <1>1, <2>2, <2>3, <3>2, <3>3, <3>8, <4>1, <4>2
    <3>9. CASE stage'[i] = "fixed"
      <4>1. stage[i] = "devReleased" /\ due'[i] = due[i]
        BY <2>6, <3>9 DEF RunsOn
      <4>2. stage[i] \in Reviewed
        BY <4>1, StagesListed DEF Reviewed
      <4> QED BY <1>1, <2>2, <2>3, <3>2, <3>3, <3>9, <4>1, <4>2
    <3>10. stage'[i] \in {"gkWait", "gkGranted", "review", "devWait", "devGranted", "ignored",
                          "discarded", "fix", "fixed"}
      BY <2>6 DEF RunsOn
    <3> QED BY <3>5, <3>6, <3>7, <3>8, <3>9, <3>10
  <2>7. CASE Wakes(i)
    <3>1. /\ report'[i].arrival_time = report[i].arrival_time
          /\ report'[i].review_time = report[i].review_time
          /\ report'[i].fix_effort = report[i].fix_effort
      BY <2>2, <2>7 DEF Wakes, Report
    <3>2. now' = due[i] /\ due'[i] = due[i]
      BY <2>7 DEF Wakes
    <3>3. CASE stage[i] = "review" /\ stage'[i] = "gkReleased"
      BY <1>1, <2>2, <2>3, <3>1, <3>2, <3>3
    <3>4. CASE stage[i] = "fix" /\ stage'[i] = "devReleased"
      <4>1. stage[i] \in Reviewed
        BY <3>4, StagesListed DEF Reviewed
      <4> QED BY <1>1, <2>2, <2>3, <3>1, <3>2, <3>4, <4>1
    <3> QED BY <2>7, <3>3, <3>4 DEF Wakes
  <2> QED BY <2>1, <2>4, <2>5, <2>6, <2>7
<1> QED BY <1>2, <1>3

LEMMA TimeStarts == Init => Clock /\ Worked
<1>1. ASSUME Init PROVE Reports = {}
  BY <1>1 DEF Init, Reports
<1> QED BY <1>1, DurationAssumption DEF Init, Clock, Worked

(* The invariant of the queues and of time together.                       *)
LEMMA TimesHold == Spec => [](Sane /\ Clock /\ Worked)
<1>1. IInv => Sane
  BY QueuesSoundIsTheInvariant DEF IInv, Sane
<1> QED BY <1>1, InvariantHolds, TimeStarts, ClockRuns, WorkIsTimed, PTL DEF Spec

(* What a fixed report adds to its monitors covers its review and its fix, *)
(* however long it queued for either.                                      *)
THEOREM ResolutionTakesTime == Spec => []ResolutionTakesItsTime
<1>1. Sane /\ Worked => ResolutionTakesItsTime
  <2> SUFFICES ASSUME Sane, Worked, NEW i \in Reports, stage[i] = "fixed"
               PROVE  due[i] - report[i].arrival_time >= report[i].review_time + report[i].fix_effort
    BY DEF ResolutionTakesItsTime, At
  <2>1. /\ due[i] \in Nat /\ report[i].arrival_time \in Nat /\ report[i].review_time \in Nat
        /\ report[i].fix_effort \in Nat
    BY DEF Sane, TypeOK, ReportsOK, Report
  <2>2. report[i].arrival_time + report[i].review_time + report[i].fix_effort <= due[i]
    BY DEF Worked
  <2> QED BY <2>1, <2>2
<1> QED BY <1>1, TimesHold, PTL
-----------------------------------------------------------------------------
(* The fixes that were counted, and what the controller knows of them.     *)

LEMMA StopMoves ==
  ASSUME [Next]_vars
  PROVE  stopped' = stopped \/ TimeUp \/ (Control /\ StopSimulation)
<1>1. ASSUME NEW i \in Reports, ReportStep(i) PROVE stopped' = stopped
  BY <1>1 DEF ReportStep, RequestGatekeeper, StartReview, EndReview, RequestDeveloper, IgnoreReport,
              DiscardReport, StartFix, EndFix, Resolve
<1>2. Control => stopped' = stopped \/ StopSimulation
  BY DEF Control
<1>3. StartReporting \/ UNCHANGED vars => stopped' = stopped
  BY DEF StartReporting, vars, scheduler
<1> QED BY <1>1, <1>2, <1>3 DEF Next, Finished

(* A fix is counted when its report resolves, and at no other time.        *)
LEMMA FixesMove ==
  ASSUME Sane, [Next]_vars
  PROVE  \/ At({"fixed"})' = At({"fixed"}) /\ TotalFixes' = TotalFixes
         \/ \E i \in At({"devReleased"}) :
              /\ Resolve(i) /\ At({"fixed"})' = At({"fixed"}) \cup {i}
              /\ TotalFixes' = TotalFixes + 1
<1> USE DEF Sane
<1>1. /\ Reports \subseteq Reports'
      /\ \A j \in Reports' : j \notin Reports => Filed(j)
      /\ \A j \in Reports : Rests(j) \/ HandedOver(j) \/ RunsOn(j) \/ Wakes(j)
  BY StepOfReport
<1>2. \A j \in Reports : stage[j] = "fixed" => stage'[j] = "fixed"
  BY <1>1 DEF Rests, HandedOver, RunsOn, Wakes
<1>3. \A j \in Reports' : stage'[j] = "fixed" =>
        j \in Reports /\ (stage[j] = "fixed" \/ (stage[j] = "devReleased" /\ RunsOn(j)))
  BY <1>1 DEF Filed, Rests, HandedOver, RunsOn, Wakes
<1>4. CASE \E i \in Reports : Resolve(i)
  <2>1. PICK i \in Reports : Resolve(i)
    BY <1>4
  <2>2. i = Head(ready) /\ stage[i] = "devReleased" /\ stage'[i] = "fixed" /\ Reports' = Reports
    BY <2>1, SameReports DEF Resolve, Resumes, TypeOK, ReportsOK
  <2>3. \A j \in Reports : RunsOn(j) => j = i
    BY <2>2 DEF RunsOn
  <2>4. At({"fixed"})' = At({"fixed"}) \cup {i}
    BY <1>2, <1>3, <2>2, <2>3 DEF At
  <2>5. TotalFixes' = TotalFixes + 1
    <3>1. /\ priority_monitors \in [Priorities -> [completed : Nat, reported : Nat]]
          /\ CountedUnder(i) \in {NonSevere, Severe}
      BY <2>1 DEF TypeOK, MonitorsOK, ReportsOK, Report, CountedUnder, SupportedPriorities
    <3>2. priority_monitors' = [priority_monitors EXCEPT ![CountedUnder(i)].completed = @ + 1]
      BY <2>1 DEF Resolve
    <3>3. \A p \in Priorities : /\ priority_monitors[p].completed \in Nat
                                /\ priority_monitors'[p].completed =
                                     IF p = CountedUnder(i) THEN priority_monitors[p].completed + 1
                                     ELSE priority_monitors[p].completed
      BY <3>1, <3>2
    <3> QED BY <3>1, <3>3 DEF TotalFixes, Priorities, NonSevere, Normal, Severe
  <2> QED BY <2>1, <2>2, <2>4, <2>5 DEF At
<1>5. CASE \A i \in Reports : ~Resolve(i)
  <2>1. At({"fixed"})' = At({"fixed"})
    <3>1. ASSUME NEW j \in Reports, stage[j] = "devReleased", stage'[j] = "fixed" PROVE FALSE
      <4>1. RunsOn(j)
        BY <1>1, <3>1 DEF Rests, HandedOver, Wakes
      <4>2. ~(StartReporting \/ Control \/ TimeUp \/ UNCHANGED vars)
        BY <3>1, BatchOfReports, OthersRest DEF Rests
      <4>3. PICK i \in Reports : ReportStep(i)
        BY <4>2 DEF Next, Finished
      <4>4. i = j
        BY <3>1, <4>3, StepMoves DEF Rests, HandedOver
      <4> QED BY <1>5, <3>1, <4>3, <4>4
              DEF ReportStep, RequestGatekeeper, StartReview, EndReview, RequestDeveloper,
                  IgnoreReport, DiscardReport, StartFix, EndFix
    <3>2. At({"fixed"})' = {j \in Reports' : stage'[j] = "fixed"}
      BY DEF At
    <3> QED BY <1>1, <1>2, <1>3, <3>1, <3>2 DEF At
  <2>2. \A p \in Priorities : priority_monitors'[p].completed = priority_monitors[p].completed
    <3>1. CASE StartReporting
      <4>1. PICK new, draw : FileBatch(new, draw)
        BY <3>1 DEF StartReporting
      <4>2. priority_monitors' =
              [p \in Priorities |-> [priority_monitors[p] EXCEPT
                 !.reported = @ + Cardinality({i \in new : draw[i].report_priority = p})]]
        BY <4>1 DEF FileBatch
      <4>3. \A p \in Priorities : priority_monitors[p] \in [completed : Nat, reported : Nat]
        BY DEF TypeOK, MonitorsOK
      <4> QED BY <4>2, <4>3
    <3>2. ASSUME NEW i \in Reports, ReportStep(i) PROVE priority_monitors' = priority_monitors
      BY <1>5, <3>2
         DEF ReportStep, RequestGatekeeper, StartReview, EndReview, RequestDeveloper, IgnoreReport,
             DiscardReport, StartFix, EndFix, monitors
    <3>3. Control \/ TimeUp \/ UNCHANGED vars => priority_monitors' = priority_monitors
      BY DEF Control, TimeUp, vars, monitors
    <3> QED BY <3>1, <3>2, <3>3 DEF Next, Finished
  <2>3. TotalFixes' = TotalFixes
    BY <2>2 DEF TotalFixes, Priorities, NonSevere, Normal, Severe
  <2> QED BY <2>1, <2>3
<1> QED BY <1>4, <1>5

FixesCounted == TotalFixes = Cardinality(At({"fixed"}))

LEMMA FixesStayCounted == ASSUME Sane, FixesCounted, [Next]_vars PROVE FixesCounted'
<1>1. IsFiniteSet(At({"fixed"})) /\ Cardinality(At({"fixed"})) \in Nat
  BY ReportsAreFinite, FS_CardinalityType DEF Sane, TypeOK
<1>2. ASSUME NEW i \in At({"devReleased"})
      PROVE  Cardinality(At({"fixed"}) \cup {i}) = Cardinality(At({"fixed"})) + 1
  BY <1>1, <1>2, FS_AddElement DEF At
<1> QED BY <1>2, FixesMove DEF FixesCounted

LEMMA PromptnessStays ==
  ASSUME Sane, Clock, Worked, FixesCounted, PromptStop, [Next]_vars
  PROVE  PromptStop'
<1> USE DEF Sane
<1> DEFINE before(check) == {i \in At({"fixed"}) : due[i] < check - HourLength}
<1>1. /\ now \in Nat /\ now' \in Nat /\ next_check \in Nat /\ HourLength \in Nat
      /\ TotalFixes \in Nat /\ TargetFixes \in Nat
  <2>1. Cardinality(At({"fixed"})) \in Nat
    BY ReportsAreFinite, FS_CardinalityType DEF TypeOK
  <2> QED BY <2>1, StepTypeOK, DurationAssumption, ConfigAssumption
          DEF TypeOK, SchedulerOK, FixesCounted
<1>2. next_check' > HourLength =>
        Cardinality({i \in At({"fixed"}) : due[i] < next_check - HourLength})' < TargetFixes
  <2>1. \A i \in At({"fixed"}) : due'[i] = due[i]
    BY StepOfReport DEF At, Rests, HandedOver, RunsOn, Wakes
  <2>2. CASE next_check' = next_check
    <3>1. ASSUME NEW i \in At({"devReleased"}), Resolve(i) PROVE due'[i] = now
      BY <3>1 DEF Resolve, Worked, At
    <3>2. next_check - HourLength <= now
      BY <1>1 DEF Clock
    <3>3. {i \in At({"fixed"}) : due[i] < next_check - HourLength}' = before(next_check)
      <4>1. CASE At({"fixed"})' = At({"fixed"})
        BY <2>1, <2>2, <4>1
      <4>2. ASSUME NEW i \in At({"devReleased"}), Resolve(i), At({"fixed"})' = At({"fixed"}) \cup {i}
            PROVE  {j \in At({"fixed"}) : due[j] < next_check - HourLength}' = before(next_check)
        <5>1. due'[i] = now /\ ~(now < next_check - HourLength)
          BY <1>1, <3>1, <3>2, <4>2
        <5> QED BY <2>1, <2>2, <4>2, <5>1
      <4> QED BY <4>1, <4>2, FixesMove
    <3> QED BY <2>2, <3>3 DEF PromptStop
  <2>3. CASE next_check' # next_check
    <3>1. Control /\ ~StopSimulation
      BY <2>3, WakingsMove
    <3>2. At({"fixed"})' = At({"fixed"}) /\ TotalFixes < TargetFixes
      <4>1. stage' = stage /\ Reports' = Reports
        BY <3>1, SameReports DEF Control
      <4> QED BY <1>1, <3>1, <4>1 DEF At, StopSimulation
    <3>3. {i \in At({"fixed"}) : due[i] < next_check - HourLength}' \subseteq At({"fixed"})
      BY <3>2
    <3>4. Cardinality({i \in At({"fixed"}) : due[i] < next_check - HourLength}') \in Nat
          /\ Cardinality({i \in At({"fixed"}) : due[i] < next_check - HourLength}')
               <= Cardinality(At({"fixed"}))
      BY <3>3, ReportsAreFinite, FS_Subset, FS_CardinalityType DEF TypeOK
    <3> QED BY <1>1, <3>2, <3>4 DEF FixesCounted
  <2> QED BY <2>2, <2>3
<1>3. stopped' = "target" => TotalFixes' >= TargetFixes
  <2>1. TotalFixes' >= TotalFixes
    BY <1>1, FixesMove
  <2>2. TotalFixes' \in Nat
    BY <1>1, FixesMove
  <2>3. TimeUp => stopped' = "time"
    BY DEF TimeUp
  <2> QED BY <1>1, <2>1, <2>2, <2>3, StopMoves DEF PromptStop, StopSimulation
<1> QED BY <1>2, <1>3 DEF PromptStop

(* The run stops at the first hourly check that finds the target reached.  *)
THEOREM StopsPromptly == Spec => []PromptStop
<1>1. ASSUME Init PROVE FixesCounted /\ PromptStop
  <2>1. At({"fixed"}) = {}
    BY <1>1 DEF Init, At, Reports
  <2>2. TotalFixes = 0
    BY <1>1 DEF Init, TotalFixes, Priorities
  <2>3. HourLength \in Nat
    BY DurationAssumption
  <2>4. Cardinality(At({"fixed"})) = 0
    BY <2>1, FS_EmptySet
  <2>5. FixesCounted
    BY <2>2, <2>4 DEF FixesCounted
  <2>6. next_check = HourLength /\ stopped = "no"
    BY <1>1 DEF Init
  <2>7. PromptStop
    BY <2>3, <2>6 DEF PromptStop
  <2> QED BY <2>5, <2>7
<1> QED BY <1>1, TimesHold, FixesStayCounted, PromptnessStays, PTL DEF Spec
-----------------------------------------------------------------------------
(* Penalties.                                                              *)

(* Penalties add up: another one on top of k is k + 1 of them, capped.     *)
LEMMA PenaltiesAddUp ==
  ASSUME NEW percent \in 0..100, NEW penalty \in Nat, NEW k \in Nat
  PROVE  Penalised(IF k = 0 THEN percent ELSE Penalised(percent, k * penalty), penalty) =
           Penalised(percent, (k + 1) * penalty)
<1>1. ASSUME NEW x \in Int, NEW y \in Int
      PROVE  Penalised(x, y) = IF x < 95 THEN IF 95 <= x + y THEN 95 ELSE x + y ELSE x
  BY <1>1, MinOfTwo DEF Penalised
<1>2. /\ k * penalty \in Nat /\ (k + 1) * penalty \in Nat
      /\ (k + 1) * penalty = k * penalty + penalty
      /\ k = 0 => (k + 1) * penalty = penalty
  OBVIOUS
<1> DEFINE m == k * penalty
           n == (k + 1) * penalty
<1>3. m \in Nat /\ n \in Nat /\ n = m + penalty /\ (k = 0 => n = penalty)
  BY <1>2
<1> HIDE DEF m, n
<1>4. CASE k = 0
  BY <1>3, <1>4 DEF n
<1>5. CASE k # 0
  <2>1. Penalised(percent, m) \in Int
        /\ Penalised(percent, m) = IF percent < 95 THEN IF 95 <= percent + m THEN 95 ELSE percent + m
                                   ELSE percent
    BY <1>1, <1>3
  <2>2. Penalised(percent, n) = IF percent < 95 THEN IF 95 <= percent + n THEN 95 ELSE percent + n
                                ELSE percent
    BY <1>1, <1>3
  <2>3. Penalised(Penalised(percent, m), penalty) = Penalised(percent, n)
    BY <1>1, <1>3, <2>1, <2>2
  <2> QED BY <1>5, <2>3 DEF m, n
<1> QED BY <1>4, <1>5

(* What a report says is what the strategy of its reporter may say, and    *)
(* what the catcher noticed is fixed.                                      *)
Strategic ==
  /\ \A i \in Reports :
       report[i].report_priority \in PriorityToReport(report[i].reporter, report[i].real_priority)
  /\ caught \subseteq At({"fixed"})

(* Reporters whose chances are those of k caught inflations.               *)
RaisedBy(r, k) ==
  \A p \in SupportedPriorities :
    ignore_percent[r][p] = IF k = 0 THEN IgnorePercent[p]
                           ELSE Penalised(IgnorePercent[p], k * InflationPenalty)

(* Chances change, and reports are caught, at the end of a fix only.       *)
LEMMA ChancesMove ==
  ASSUME Sane, [Next]_vars
  PROVE  \/ UNCHANGED <<ignore_percent, caught>>
         \/ \E i \in At({"devReleased"}) :
              /\ Resolve(i) /\ IsFalseReport(i) /\ InflationPenalty \in Nat
              /\ ApplyPenalty(report[i].reporter) /\ caught' = caught \cup {i}
<1>1. ASSUME NEW i \in Reports, Resolve(i), ~UNCHANGED <<ignore_percent, caught>>
      PROVE  /\ i \in At({"devReleased"}) /\ IsFalseReport(i) /\ InflationPenalty \in Nat
             /\ ApplyPenalty(report[i].reporter) /\ caught' = caught \cup {i}
  <2>1. /\ stage[i] = "devReleased" /\ Process = "throttling" /\ IsFalseReport(i)
        /\ ApplyPenalty(report[i].reporter) /\ caught' = caught \cup {i}
    BY <1>1 DEF Resolve
  <2>2. InflationPenalty \in Nat
    BY <2>1, ConfigAssumption DEF Process
  <2> QED BY <2>1, <2>2 DEF At
<1>2. ASSUME NEW i \in Reports, ReportStep(i), ~Resolve(i) PROVE UNCHANGED <<ignore_percent, caught>>
  BY <1>2 DEF ReportStep, RequestGatekeeper, StartReview, EndReview, RequestDeveloper, IgnoreReport,
              DiscardReport, StartFix, EndFix, monitors
<1>3. StartReporting \/ Control \/ TimeUp \/ UNCHANGED vars => UNCHANGED <<ignore_percent, caught>>
  BY DEF StartReporting, Control, TimeUp, vars, monitors
<1> QED BY <1>1, <1>2, <1>3 DEF Next, Finished

(* What was fixed stays as it is.                                          *)
LEMMA FixedRest ==
  ASSUME Sane, [Next]_vars, NEW i \in At({"fixed"})
  PROVE  i \in At({"fixed"})' /\ report'[i] = report[i]
<1>1. i \in Reports /\ stage[i] = "fixed"
  BY DEF At
<1>2. stage'[i] = "fixed" /\ report'[i] = report[i]
  BY <1>1, StepOfReport DEF Rests, HandedOver, RunsOn, Wakes
<1> QED BY <1>1, <1>2, StepOfReport DEF At

LEMMA StrategicStays == ASSUME Sane, Strategic, [Next]_vars PROVE Strategic'
<1>1. ASSUME NEW i \in Reports'
      PROVE  report'[i].report_priority \in PriorityToReport(report'[i].reporter, report'[i].real_priority)
  <2>1. CASE i \notin Reports
    <3>1. report'[i] \in NewReports(now')
      BY <2>1, StepOfReport DEF Filed
    <3> QED BY <3>1 DEF NewReports
  <2>2. CASE i \in Reports
    <3>1. /\ Rests(i) \/ HandedOver(i) \/ RunsOn(i) \/ Wakes(i)
          /\ report[i] \in Report
          /\ report[i].report_priority \in PriorityToReport(report[i].reporter, report[i].real_priority)
      BY <2>2, StepOfReport DEF Strategic, Sane, TypeOK, ReportsOK
    <3>2. \/ report'[i] = report[i]
          \/ report'[i] = [report[i] EXCEPT !.views_counter = @ + 1]
          \/ report'[i] = [report[i] EXCEPT !.report_priority = report[i].real_priority]
      BY <3>1 DEF Rests, HandedOver, RunsOn, Wakes
    <3>3. report[i].real_priority \in PriorityToReport(report[i].reporter, report[i].real_priority)
      BY DEF PriorityToReport
    <3> QED BY <3>1, <3>2, <3>3 DEF Report
  <2> QED BY <2>1, <2>2
<1>2. caught' \subseteq At({"fixed"})'
  <2>1. caught \subseteq At({"fixed"})'
    BY FixedRest DEF Strategic
  <2>2. ASSUME NEW i \in At({"devReleased"}), Resolve(i) PROVE i \in At({"fixed"})'
    <3>1. i \in Reports /\ stage'[i] = "fixed"
      BY <2>2 DEF Resolve, Sane, TypeOK, ReportsOK, At
    <3> QED BY <3>1, StepOfReport DEF At
  <2> QED BY <2>1, <2>2, ChancesMove
<1> QED BY <1>1, <1>2 DEF Strategic

(* A reporter who never deflates is false by inflation only.               *)
LEMMA FalseIsInflated ==
  ASSUME Strategic, NEW i \in Reports, IsFalseReport(i), report[i].reporter \notin DeflatingReporters
  PROVE  report[i].report_priority > report[i].real_priority
<1>1. report[i].report_priority = Severe /\ report[i].real_priority = NonSevere
  BY DEF Strategic, IsFalseReport, PriorityToReport
<1> QED BY <1>1 DEF Severe, NonSevere

LEMMA PenaltiesStay ==
  ASSUME Sane, Strategic, PenaltyMatchesOffences, [Next]_vars
  PROVE  PenaltyMatchesOffences'
<1> SUFFICES ASSUME NEW r \in Reporters \ DeflatingReporters
             PROVE  RaisedBy(r, Cardinality(CaughtInflations(r)))'
  BY DEF PenaltyMatchesOffences, RaisedBy
<1> DEFINE C == CaughtInflations(r)
<1>1. RaisedBy(r, Cardinality(C))
  BY DEF PenaltyMatchesOffences, RaisedBy
<1>2. /\ C \subseteq At({"fixed"})
      /\ \A i \in At({"fixed"}) : report'[i] = report[i]
  BY FixedRest DEF Strategic, CaughtInflations
<1>3. IsFiniteSet(C) /\ Cardinality(C) \in Nat
  BY <1>2, ReportsAreFinite, FS_Subset, FS_CardinalityType DEF Sane, TypeOK
<1>4. ASSUME CaughtInflations(r)' = C, ignore_percent'[r] = ignore_percent[r]
      PROVE  RaisedBy(r, Cardinality(CaughtInflations(r)))'
  BY <1>1, <1>4 DEF RaisedBy
<1>5. CASE UNCHANGED <<ignore_percent, caught>>
  <2>1. CaughtInflations(r)' = C
    BY <1>2, <1>5 DEF CaughtInflations, Strategic
  <2> QED BY <1>4, <1>5, <2>1
<1>6. ASSUME NEW i \in At({"devReleased"}), Resolve(i), IsFalseReport(i), InflationPenalty \in Nat,
             ApplyPenalty(report[i].reporter), caught' = caught \cup {i}
      PROVE  RaisedBy(r, Cardinality(CaughtInflations(r)))'
  <2>1. /\ i \in Reports /\ i \notin C /\ report'[i] = report[i]
        /\ ignore_percent \in [Reporters -> [SupportedPriorities -> 0..100]]
    BY <1>2, <1>6 DEF At, Resolve, Sane, TypeOK, MonitorsOK
  <2>2. CASE report[i].reporter # r
    <3>1. ignore_percent'[r] = ignore_percent[r]
      BY <1>6, <2>1, <2>2 DEF ApplyPenalty
    <3>2. CaughtInflations(r)' = C
      BY <1>2, <1>6, <2>1, <2>2 DEF CaughtInflations, Strategic
    <3> QED BY <1>4, <3>1, <3>2
  <2>3. CASE report[i].reporter = r
    <3>1. CaughtInflations(r)' = C \cup {i}
      <4>1. report[i].report_priority > report[i].real_priority
        BY <1>6, <2>1, <2>3, FalseIsInflated
      <4> QED BY <1>2, <1>6, <2>1, <2>3, <4>1 DEF CaughtInflations, Strategic
    <3>2. Cardinality(CaughtInflations(r)') = Cardinality(C) + 1
      BY <1>3, <2>1, <3>1, FS_AddElement
    <3>3. ASSUME NEW p \in SupportedPriorities
          PROVE  ignore_percent'[r][p] =
                   Penalised(IgnorePercent[p], (Cardinality(C) + 1) * InflationPenalty)
      <4>1. ignore_percent'[r][p] = Penalised(ignore_percent[r][p], InflationPenalty)
        BY <1>6, <2>1, <2>3 DEF ApplyPenalty
      <4>2. IgnorePercent[p] \in 0..100
        BY ConfigAssumption
      <4>3. ignore_percent[r][p] = IF Cardinality(C) = 0 THEN IgnorePercent[p]
                                   ELSE Penalised(IgnorePercent[p], Cardinality(C) * InflationPenalty)
        BY <1>1 DEF RaisedBy
      <4> HIDE DEF C
      <4> QED BY <1>3, <1>6, <4>1, <4>2, <4>3, PenaltiesAddUp
    <3>4. Cardinality(C) + 1 # 0
      BY <1>3
    <3> QED BY <3>2, <3>3, <3>4 DEF RaisedBy
  <2> QED BY <2>2, <2>3
<1> QED BY <1>5, <1>6, ChancesMove

(* The chances of being ignored of a reporter who never deflates are       *)
(* raised exactly once for each inflation that was fixed and noticed, and  *)
(* by nothing anybody else reports.                                        *)
THEOREM PenaltiesMatch == Spec => []PenaltyMatchesOffences
<1>1. ASSUME Init PROVE Strategic /\ PenaltyMatchesOffences
  <2>1. Strategic
    BY <1>1 DEF Init, Strategic, Reports
  <2>2. \A r : Cardinality(CaughtInflations(r)) = 0
    <3>1. \A r : CaughtInflations(r) = {}
      BY <1>1 DEF Init, CaughtInflations
    <3> QED BY <3>1, FS_EmptySet
  <2>3. PenaltyMatchesOffences
    BY <1>1, <2>2 DEF Init, PenaltyMatchesOffences
  <2> QED BY <2>1, <2>3
<1>2. IInv => Sane
  BY QueuesSoundIsTheInvariant DEF IInv, Sane
<1> QED BY <1>1, <1>2, InvariantHolds, StrategicStays, PenaltiesStay, PTL DEF Spec

-----------------------------------------------------------------------------
(* Hours: who is being fixed at an instant that has passed is settled, and *)
(* while time passes only holders of a developer are being fixed.          *)

LEMMA HoursStay ==
  ASSUME Sane, Clock, Worked, DeveloperHours, [Next]_vars PROVE DeveloperHours'
<1> USE DEF Sane
<1> SUFFICES ASSUME NEW t \in 1..now' PROVE Cardinality(BeingFixed(t)') <= TeamCapacity
  BY DEF DeveloperHours
<1>1. now \in Nat /\ now' \in Nat /\ t \in Nat /\ TeamCapacity \in Nat
  BY StepTypeOK, ConfigAssumption DEF TypeOK, SchedulerOK
<1>2. ASSUME NEW i \in BeingFixed(t)'
      PROVE  /\ i \in Reports /\ report[i].fix_effort \in Nat /\ due[i] \in Nat
             /\ \/ stage[i] = "devGranted" /\ now' = now /\ now < t
                \/ /\ stage[i] \in {"fix", "devReleased", "fixed"}
                   /\ due[i] - report[i].fix_effort < t /\ t <= due[i]
                   /\ stage[i] = "devReleased" => stage'[i] = "devReleased" \/ now' = now
  <2>1. /\ i \in Reports' /\ stage'[i] \in {"fix", "devReleased", "fixed"}
        /\ due'[i] - report'[i].fix_effort < t /\ t <= due'[i]
    BY <1>2 DEF BeingFixed, At
  <2>2. i \in Reports /\ (Rests(i) \/ RunsOn(i) \/ Wakes(i))
    BY <2>1, StepOfReport DEF Filed, HandedOver
  <2>3. report[i] \in Report /\ report[i].fix_effort \in Nat /\ due[i] \in Nat
    BY <2>2 DEF TypeOK, ReportsOK, Report
  <2>4. CASE Rests(i)
    BY <2>1, <2>2, <2>3, <2>4 DEF Rests
  <2>5. CASE RunsOn(i) /\ stage'[i] = "fix"
    <3>1. stage[i] = "devGranted" /\ now' = now /\ report'[i] = report[i]
          /\ due'[i] = now + report[i].fix_effort
      BY <2>5 DEF RunsOn
    <3>2. now < t
      BY <1>1, <2>1, <2>3, <3>1
    <3> QED BY <2>2, <2>3, <3>1, <3>2
  <2>6. CASE RunsOn(i) /\ stage'[i] # "fix"
    <3>1. stage[i] = "devReleased" /\ now' = now /\ report'[i] = report[i] /\ due'[i] = due[i]
      BY <2>1, <2>6 DEF RunsOn
    <3> QED BY <2>1, <2>2, <2>3, <3>1
  <2>7. CASE Wakes(i)
    <3>1. stage[i] = "fix" /\ report'[i] = report[i] /\ due'[i] = due[i]
      BY <2>1, <2>7 DEF Wakes
    <3> QED BY <2>1, <2>2, <2>3, <3>1
  <2> QED BY <2>2, <2>4, <2>5, <2>6, <2>7
<1>3. CASE t <= now
  <2>1. BeingFixed(t)' \subseteq BeingFixed(t)
    <3>1. ASSUME NEW i \in BeingFixed(t)' PROVE i \in BeingFixed(t)
      <4>1. ~(now < t)
        BY <1>1, <1>3
      <4> QED BY <1>2, <4>1 DEF BeingFixed, At
    <3> QED BY <3>1
  <2>2. IsFiniteSet(BeingFixed(t)) /\ Cardinality(BeingFixed(t)) <= TeamCapacity
    <3>1. IsFiniteSet(BeingFixed(t))
      BY ReportsAreFinite, FS_Subset DEF TypeOK, BeingFixed
    <3> QED BY <1>1, <1>3, <3>1 DEF DeveloperHours
  <2>3. Cardinality(BeingFixed(t)') <= Cardinality(BeingFixed(t))
        /\ Cardinality(BeingFixed(t)) \in Nat /\ Cardinality(BeingFixed(t)') \in Nat
    BY <2>1, <2>2, FS_Subset, FS_CardinalityType
  <2> QED BY <1>1, <2>2, <2>3
<1>4. CASE now < t
  <2>1. now' # now
    BY <1>1, <1>4
  <2>2. \A i \in Reports : stage[i] \notin ReadyStages
    BY <2>1, TimePasses
  <2>3. ASSUME NEW i \in BeingFixed(t)' PROVE i \in DevHolders
    <3>1. i \in Reports /\ stage[i] \in {"fix", "devReleased", "fixed"} /\ t <= due[i] /\ due[i] \in Nat
      BY <1>2, <2>1, <2>3
    <3>2. stage[i] # "devReleased"
      BY <2>2, <3>1 DEF ReadyStages
    <3>3. stage[i] # "fixed"
      BY <1>1, <1>4, <3>1 DEF Worked
    <3> QED BY <3>1, <3>2, <3>3 DEF DevHolders, At
  <2>4. IsFiniteSet(DevHolders) /\ developers.n \in Nat
        /\ developers.n + Cardinality(DevHolders) = TeamCapacity
    BY ReportsAreFinite DEF TypeOK, ResourcesOK, DevHolders, QueuesSound, DevSound, Sound
  <2>5. BeingFixed(t)' \in SUBSET DevHolders
    BY <2>3
  <2>6. Cardinality(BeingFixed(t)') <= Cardinality(DevHolders)
        /\ Cardinality(BeingFixed(t)') \in Nat /\ Cardinality(DevHolders) \in Nat
    BY <2>4, <2>5, FS_Subset, FS_CardinalityType
  <2> QED BY <1>1, <2>4, <2>6
<1> QED BY <1>1, <1>3, <1>4

(* The team never works more hours than it has: at no instant are more     *)
(* reports being fixed than there are developers.                          *)
THEOREM HoursAreKept == Spec => []DeveloperHours
<1>1. Init => DeveloperHours
  BY DEF Init, DeveloperHours
<1> QED BY <1>1, TimesHold, HoursStay, PTL DEF Spec

-----------------------------------------------------------------------------
(* The monitors.                                                           *)

Fixed == At({"fixed"})
Of(r) == {i \in Reports : report[i].reporter = r}
RealOf(r, p) == {i \in Of(r) : report[i].real_priority = p}
ToldBy(r, p) == {i \in Of(r) : report[i].monitor_priority = p}
Under(p) == {i \in Reports : report[i].monitor_priority = p}

(* What the monitors of a reporter and of a priority count.                *)
ReporterLedger(r) ==
  LET m == reporter_monitors[r]
  IN  /\ m.resolved_monitor = Cardinality(Of(r) \cap Fixed)
      /\ \A p \in Priorities :
           /\ m.priority_counters[p] = Cardinality(RealOf(r, p))
           /\ m.report_counters[p] = Cardinality(ToldBy(r, p))
           /\ m.resolved_counters[p] = Cardinality(RealOf(r, p) \cap Fixed)

PriorityLedger(p) ==
  /\ priority_monitors[p].reported = Cardinality(Under(p))
  /\ priority_monitors[p].completed = Cardinality(Under(p) \cap Fixed)

Ledgers ==
  /\ \A r \in Reporters : ReporterLedger(r)
  /\ \A p \in Priorities : PriorityLedger(p)

LEMMA ClassesAreFinite ==
  ASSUME Sane, NEW r, NEW p
  PROVE  /\ IsFiniteSet(Reports) /\ IsFiniteSet(Fixed) /\ Fixed \subseteq Reports
         /\ IsFiniteSet(Of(r)) /\ IsFiniteSet(RealOf(r, p)) /\ IsFiniteSet(ToldBy(r, p))
         /\ IsFiniteSet(Under(p))
<1>1. IsFiniteSet(Reports) /\ IsFiniteSet(Fixed) /\ Fixed \subseteq Reports
  <2>1. At(Stages) = Reports
    BY DEF Sane, TypeOK, ReportsOK, At
  <2> QED BY <2>1, ReportsAreFinite DEF Sane, TypeOK, Fixed
<1>2. /\ Of(r) \in SUBSET Reports /\ RealOf(r, p) \in SUBSET Reports
      /\ ToldBy(r, p) \in SUBSET Reports /\ Under(p) \in SUBSET Reports
  BY DEF Of, RealOf, ToldBy, Under
<1> QED BY <1>1, <1>2, FS_Subset

(* What a report is counted by never changes.                              *)
LEMMA ClassStays ==
  ASSUME Sane, [Next]_vars, NEW i \in Reports
  PROVE  /\ i \in Reports'
         /\ report'[i].reporter = report[i].reporter
         /\ report'[i].real_priority = report[i].real_priority
         /\ report'[i].monitor_priority = report[i].monitor_priority
<1>1. report[i] \in Report
  BY DEF Sane, TypeOK, ReportsOK
<1>2. /\ i \in Reports'
      /\ \/ report'[i] = report[i]
         \/ report'[i] = [report[i] EXCEPT !.views_counter = @ + 1]
         \/ report'[i] = [report[i] EXCEPT !.report_priority = report[i].real_priority]
  BY StepOfReport DEF Rests, HandedOver, RunsOn, Wakes
<1> QED BY <1>1, <1>2 DEF Report

LEMMA ClassesStay ==
  ASSUME Sane, [Next]_vars, Reports' = Reports, NEW r, NEW p
  PROVE  /\ Of(r)' = Of(r) /\ RealOf(r, p)' = RealOf(r, p)
         /\ ToldBy(r, p)' = ToldBy(r, p) /\ Under(p)' = Under(p)
<1>1. Of(r)' = Of(r)
  BY ClassStays DEF Of
<1>2. RealOf(r, p)' = RealOf(r, p) /\ ToldBy(r, p)' = ToldBy(r, p)
  <2>1. \A i \in Of(r) : /\ report'[i].real_priority = report[i].real_priority
                         /\ report'[i].monitor_priority = report[i].monitor_priority
    BY ClassStays DEF Of
  <2> QED BY <1>1, <2>1 DEF RealOf, ToldBy
<1>3. Under(p)' = Under(p)
  BY ClassStays DEF Under
<1> QED BY <1>1, <1>2, <1>3

LEMMA ResolveIsCounted ==
  ASSUME Sane, Ledgers, NEW i \in Reports, Resolve(i) PROVE Ledgers'
<1> USE DEF Sane
<1> DEFINE rep == report[i].reporter
           real == report[i].real_priority
           told == report[i].monitor_priority
<1>1. /\ Next /\ Reports' = Reports /\ stage[i] = "devReleased"
      /\ stage' = [stage EXCEPT ![i] = "fixed"]
  BY SameReports DEF Resolve, Next, ReportStep
<1>2. /\ report[i] \in Report /\ rep \in Reporters /\ real \in Priorities /\ told \in Priorities
      /\ stage \in [Reports -> Stages]
  BY DEF TypeOK, ReportsOK, Report, Priorities, SupportedPriorities
<1>3. Fixed' = Fixed \cup {i} /\ i \notin Fixed /\ IsFiniteSet(Fixed)
  BY <1>1, <1>2, ClassesAreFinite DEF Fixed, At
<1>4. ASSUME NEW C, IsFiniteSet(C)
      PROVE  /\ Cardinality(C \cap Fixed) \in Nat
             /\ Cardinality(C \cap Fixed') =
                  IF i \in C THEN Cardinality(C \cap Fixed) + 1 ELSE Cardinality(C \cap Fixed)
  <2>1. IsFiniteSet(C \cap Fixed)
    BY <1>4, FS_Intersection
  <2>2. CASE i \in C
    <3>1. C \cap Fixed' = (C \cap Fixed) \cup {i} /\ i \notin C \cap Fixed
      BY <1>3, <2>2
    <3> QED BY <2>1, <2>2, <3>1, FS_AddElement, FS_CardinalityType
  <2>3. CASE i \notin C
    <3>1. C \cap Fixed' = C \cap Fixed
      BY <1>3, <2>3
    <3> QED BY <2>1, <2>3, <3>1, FS_CardinalityType
  <2> QED BY <2>2, <2>3
<1>5. ASSUME NEW r, NEW p
      PROVE  /\ Of(r)' = Of(r) /\ RealOf(r, p)' = RealOf(r, p)
             /\ ToldBy(r, p)' = ToldBy(r, p) /\ Under(p)' = Under(p)
  BY <1>1, ClassesStay
<1>6. ASSUME NEW r \in Reporters PROVE ReporterLedger(r)'
  <2> DEFINE m == reporter_monitors[r]
  <2>1. /\ reporter_monitors' = [reporter_monitors EXCEPT
                                   ![rep].resolved_monitor = @ + 1,
                                   ![rep].resolved_counters[real] = @ + 1]
        /\ reporter_monitors \in [Reporters ->
             [resolved_monitor : Nat, priority_counters : CounterMap,
              report_counters : CounterMap, resolved_counters : CounterMap]]
    BY DEF Resolve, TypeOK, MonitorsOK
  <2>2. /\ m.resolved_monitor \in Nat /\ m.resolved_counters \in [Priorities -> Nat]
        /\ reporter_monitors'[r].resolved_monitor =
             IF r = rep THEN m.resolved_monitor + 1 ELSE m.resolved_monitor
        /\ reporter_monitors'[r].priority_counters = m.priority_counters
        /\ reporter_monitors'[r].report_counters = m.report_counters
        /\ \A p \in Priorities :
             reporter_monitors'[r].resolved_counters[p] =
               IF r = rep /\ p = real THEN m.resolved_counters[p] + 1 ELSE m.resolved_counters[p]
    BY <1>2, <2>1 DEF CounterMap
  <2>3. i \in Of(r) <=> r = rep
    BY DEF Of
  <2>4. \A p : i \in RealOf(r, p) <=> r = rep /\ p = real
    BY <2>3 DEF RealOf
  <2>5. ReporterLedger(r)
    BY DEF Ledgers
  <2>6. reporter_monitors'[r].resolved_monitor = Cardinality(Of(r)' \cap Fixed')
    BY <1>4, <1>5, <2>2, <2>3, <2>5, ClassesAreFinite DEF ReporterLedger
  <2>7. ASSUME NEW p \in Priorities
        PROVE  /\ reporter_monitors'[r].priority_counters[p] = Cardinality(RealOf(r, p)')
               /\ reporter_monitors'[r].report_counters[p] = Cardinality(ToldBy(r, p)')
               /\ reporter_monitors'[r].resolved_counters[p] = Cardinality(RealOf(r, p)' \cap Fixed')
    <3>1. Cardinality(RealOf(r, p)' \cap Fixed') =
            IF r = rep /\ p = real THEN Cardinality(RealOf(r, p) \cap Fixed) + 1
            ELSE Cardinality(RealOf(r, p) \cap Fixed)
      BY <1>4, <1>5, <2>4, ClassesAreFinite
    <3>2. RealOf(r, p)' = RealOf(r, p) /\ ToldBy(r, p)' = ToldBy(r, p)
      BY <1>5
    <3> HIDE DEF rep, real
    <3> QED BY <2>2, <2>5, <2>7, <3>1, <3>2 DEF ReporterLedger
  <2> QED BY <2>6, <2>7 DEF ReporterLedger
<1>7. ASSUME NEW p \in Priorities PROVE PriorityLedger(p)'
  <2>1. /\ priority_monitors' = [priority_monitors EXCEPT ![told].completed = @ + 1]
        /\ priority_monitors \in [Priorities -> [completed : Nat, reported : Nat]]
    BY DEF Resolve, CountedUnder, TypeOK, MonitorsOK
  <2>2. /\ priority_monitors'[p].completed = IF p = told THEN priority_monitors[p].completed + 1
                                             ELSE priority_monitors[p].completed
        /\ priority_monitors'[p].reported = priority_monitors[p].reported
    BY <1>2, <2>1
  <2>3. i \in Under(p) <=> p = told
    BY DEF Under
  <2>4. PriorityLedger(p)
    BY DEF Ledgers
  <2> QED BY <1>4, <1>5, <2>2, <2>3, <2>4, ClassesAreFinite DEF PriorityLedger
<1> QED BY <1>6, <1>7 DEF Ledgers

LEMMA FilingIsCounted ==
  ASSUME Sane, Ledgers, StartReporting PROVE Ledgers'
<1> USE DEF Sane
<1>1. PICK size \in BatchSizes :
        \E draw \in [(bug_counter + 1)..(bug_counter + size) -> NewReports(next_batch)] :
          FileBatch((bug_counter + 1)..(bug_counter + size), draw)
  BY DEF StartReporting
<1> DEFINE new == (bug_counter + 1)..(bug_counter + size)
<1>2. PICK draw \in [new -> NewReports(next_batch)] : FileBatch(new, draw)
  BY <1>1
<1>3. /\ size \in Nat /\ bug_counter \in Nat /\ IsFiniteSet(new) /\ Cardinality(new) = size
      /\ Reports \cap new = {} /\ Reports \cup new = 1..(bug_counter + size)
  <2>1. size \in Nat /\ bug_counter \in Nat
    BY DurationAssumption DEF TypeOK, ReportsOK
  <2> QED BY <2>1, BatchIds
<1> HIDE DEF new
<1>4. Reports' = Reports \cup new
  <2>1. bug_counter' = bug_counter + size
    BY <1>2, <1>3 DEF FileBatch
  <2>2. Reports' = 1..bug_counter'
    BY DEF Reports
  <2> QED BY <1>3, <2>1, <2>2
<1>5. /\ report' = [j \in Reports \cup new |-> IF j \in new THEN draw[j] ELSE report[j]]
      /\ stage' = [j \in Reports \cup new |-> IF j \in new THEN "activated" ELSE stage[j]]
      /\ DOMAIN draw = new
  BY <1>2 DEF FileBatch
<1>6. /\ \A j \in Reports : report'[j] = report[j] /\ j \notin new
      /\ \A j \in new : report'[j] = draw[j] /\ draw[j].monitor_priority = draw[j].report_priority
  BY <1>3, <1>5, <1>2 DEF NewReports
<1>7. Fixed' = Fixed
  BY <1>3, <1>4, <1>5 DEF Fixed, At
<1>8. ASSUME NEW C, NEW N, IsFiniteSet(C), C \subseteq Reports, N \subseteq new
      PROVE  /\ Cardinality(C \cup N) = Cardinality(C) + Cardinality(N)
             /\ (C \cup N) \cap Fixed' = C \cap Fixed
  <2>1. IsFiniteSet(N) /\ C \cap N = {}
    BY <1>3, <1>8, FS_Subset
  <2>2. Cardinality(C \cup N) = Cardinality(C) + Cardinality(N) - Cardinality({})
    BY <1>8, <2>1, FS_Union
  <2>3. Cardinality(C) \in Nat /\ Cardinality(N) \in Nat
    BY <1>8, <2>1, FS_CardinalityType
  <2>4. N \cap Fixed = {}
    BY <1>3, <1>8, ClassesAreFinite
  <2> QED BY <1>7, <2>2, <2>3, <2>4, FS_EmptySet
<1>9. ASSUME NEW r \in Reporters PROVE ReporterLedger(r)'
  <2> DEFINE m == reporter_monitors[r]
             newOf == {j \in new : draw[j].reporter = r}
             newReal(p) == {j \in new : draw[j].reporter = r /\ draw[j].real_priority = p}
             newTold(p) == {j \in new : draw[j].reporter = r /\ draw[j].report_priority = p}
  <2>1. Of(r)' = Of(r) \cup newOf
    BY <1>4, <1>6 DEF Of
  <2>2. ASSUME NEW p
        PROVE  RealOf(r, p)' = RealOf(r, p) \cup newReal(p) /\ ToldBy(r, p)' = ToldBy(r, p) \cup newTold(p)
    BY <1>4, <1>6 DEF Of, RealOf, ToldBy
  <2>3. ASSUME NEW p
        PROVE  /\ CountNew(draw, r, "real_priority", p) = Cardinality(newReal(p))
               /\ CountNew(draw, r, "report_priority", p) = Cardinality(newTold(p))
    BY <1>5 DEF CountNew
  <2>4. /\ reporter_monitors' =
             [s \in Reporters |-> [reporter_monitors[s] EXCEPT
                !.priority_counters = [p \in Priorities |-> @[p] + CountNew(draw, s, "real_priority", p)],
                !.report_counters = [p \in Priorities |-> @[p] + CountNew(draw, s, "report_priority", p)]]]
        /\ reporter_monitors \in [Reporters ->
             [resolved_monitor : Nat, priority_counters : CounterMap,
              report_counters : CounterMap, resolved_counters : CounterMap]]
    BY <1>2 DEF FileBatch, TypeOK, MonitorsOK
  <2>5. /\ reporter_monitors'[r].resolved_monitor = m.resolved_monitor
        /\ reporter_monitors'[r].resolved_counters = m.resolved_counters
        /\ \A p \in Priorities :
             /\ reporter_monitors'[r].priority_counters[p] =
                  m.priority_counters[p] + CountNew(draw, r, "real_priority", p)
             /\ reporter_monitors'[r].report_counters[p] =
                  m.report_counters[p] + CountNew(draw, r, "report_priority", p)
    BY <2>4
  <2>6. ReporterLedger(r)
    BY DEF Ledgers
  <2>7. /\ Of(r) \subseteq Reports
        /\ \A p : RealOf(r, p) \subseteq Reports /\ ToldBy(r, p) \subseteq Reports
    BY DEF Of, RealOf, ToldBy
  <2>8. /\ newOf \subseteq new
        /\ \A p : newReal(p) \subseteq new /\ newTold(p) \subseteq new
    OBVIOUS
  <2> HIDE DEF newOf, newReal, newTold
  <2>9. reporter_monitors'[r].resolved_monitor = Cardinality(Of(r)' \cap Fixed')
    BY <1>8, <2>1, <2>5, <2>6, <2>7, <2>8, ClassesAreFinite DEF ReporterLedger
  <2>10. ASSUME NEW p \in Priorities
         PROVE  /\ reporter_monitors'[r].priority_counters[p] = Cardinality(RealOf(r, p)')
                /\ reporter_monitors'[r].report_counters[p] = Cardinality(ToldBy(r, p)')
                /\ reporter_monitors'[r].resolved_counters[p] = Cardinality(RealOf(r, p)' \cap Fixed')
    <3>1. Cardinality(RealOf(r, p)') = Cardinality(RealOf(r, p)) + Cardinality(newReal(p))
          /\ RealOf(r, p)' \cap Fixed' = RealOf(r, p) \cap Fixed
      BY <1>8, <2>2, <2>7, <2>8, ClassesAreFinite
    <3>2. Cardinality(ToldBy(r, p)') = Cardinality(ToldBy(r, p)) + Cardinality(newTold(p))
      BY <1>8, <2>2, <2>7, <2>8, ClassesAreFinite
    <3> QED BY <2>3, <2>5, <2>6, <2>10, <3>1, <3>2 DEF ReporterLedger
  <2> QED BY <2>9, <2>10 DEF ReporterLedger
<1>10. ASSUME NEW p \in Priorities PROVE PriorityLedger(p)'
  <2> DEFINE newUnder == {j \in new : draw[j].report_priority = p}
  <2>1. Under(p)' = Under(p) \cup newUnder
    BY <1>4, <1>6 DEF Under
  <2>2. /\ priority_monitors' =
             [q \in Priorities |-> [priority_monitors[q] EXCEPT
                !.reported = @ + Cardinality({j \in new : draw[j].report_priority = q})]]
        /\ priority_monitors \in [Priorities -> [completed : Nat, reported : Nat]]
    BY <1>2 DEF FileBatch, TypeOK, MonitorsOK
  <2>3. /\ priority_monitors'[p].completed = priority_monitors[p].completed
        /\ priority_monitors'[p].reported = priority_monitors[p].reported + Cardinality(newUnder)
    BY <2>2
  <2>4. PriorityLedger(p) /\ Under(p) \subseteq Reports /\ newUnder \subseteq new
    BY DEF Ledgers, Under
  <2> HIDE DEF newUnder
  <2> QED BY <1>8, <2>1, <2>3, <2>4, ClassesAreFinite DEF PriorityLedger
<1> QED BY <1>9, <1>10 DEF Ledgers

LEMMA LedgersStay == ASSUME Sane, Ledgers, [Next]_vars PROVE Ledgers'
<1>1. ASSUME NEW i \in Reports, Resolve(i) PROVE Ledgers'
  BY <1>1, ResolveIsCounted
<1>2. CASE StartReporting
  BY <1>2, FilingIsCounted
<1>3. ASSUME \A i \in Reports : ~Resolve(i), ~StartReporting PROVE Ledgers'
  <2>1. Reports' = Reports
    BY <1>3, StepMoves, OthersRest DEF Next, Finished
  <2>2. UNCHANGED monitors
    BY <1>3 DEF Next, Finished, ReportStep, RequestGatekeeper, StartReview, EndReview,
                RequestDeveloper, IgnoreReport, DiscardReport, StartFix, EndFix, Control, TimeUp, vars
  <2>3. Fixed' = Fixed
    BY <1>3, FixesMove DEF Fixed, At
  <2>4. ASSUME NEW r, NEW p
        PROVE  /\ Of(r)' = Of(r) /\ RealOf(r, p)' = RealOf(r, p)
               /\ ToldBy(r, p)' = ToldBy(r, p) /\ Under(p)' = Under(p)
    BY <2>1, ClassesStay
  <2> QED BY <2>2, <2>3, <2>4 DEF Ledgers, ReporterLedger, PriorityLedger, monitors
<1> QED BY <1>1, <1>2, <1>3

(* The monitors that the payoffs are computed from count the filed and the *)
(* fixed reports of each reporter and priority, each once.                 *)
THEOREM MonitorsAgree == Spec => []LedgersAgree
<1>1. ASSUME Init PROVE Ledgers /\ FixesCounted
  <2>1. Reports = {} /\ Cardinality({}) = 0
    BY <1>1, FS_EmptySet DEF Init, Reports
  <2>2. \A r, p : Of(r) = {} /\ RealOf(r, p) = {} /\ ToldBy(r, p) = {} /\ Under(p) = {}
    BY <2>1 DEF Of, RealOf, ToldBy, Under
  <2>3. Ledgers
    BY <1>1, <2>1, <2>2 DEF Init, Ledgers, ReporterLedger, PriorityLedger
  <2>4. Fixed = {} /\ TotalFixes = 0
    BY <1>1, <2>1 DEF Init, Fixed, At, TotalFixes, Priorities
  <2> QED BY <2>1, <2>3, <2>4 DEF FixesCounted, Fixed
<1>2. IInv => Sane
  BY QueuesSoundIsTheInvariant DEF IInv, Sane
<1>3. ASSUME Sane, Ledgers, FixesCounted PROVE LedgersAgree
  <2>1. ASSUME NEW r, NEW p
        PROVE  /\ Of(r) = {i \in Reports : report[i].reporter = r}
               /\ RealOf(r, p) = {i \in {j \in Reports : report[j].reporter = r} : report[i].real_priority = p}
               /\ ToldBy(r, p) = {i \in {j \in Reports : report[j].reporter = r} :
                                    report[i].monitor_priority = p}
               /\ RealOf(r, p) \cap Fixed =
                    {i \in {j \in Reports : report[j].reporter = r} \cap At({"fixed"}) :
                       report[i].real_priority = p}
               /\ Under(p) = {i \in Reports : report[i].monitor_priority = p}
    BY DEF Of, RealOf, ToldBy, Under, Fixed
  <2>2. ASSUME NEW p \in Priorities PROVE priority_monitors[p].completed <= priority_monitors[p].reported
    <3>1. Cardinality(Under(p) \cap Fixed) <= Cardinality(Under(p))
      BY <1>3, ClassesAreFinite, FS_Intersection
    <3> QED BY <1>3, <3>1 DEF Ledgers, PriorityLedger
  <2>3. ASSUME NEW r \in Reporters
        PROVE  LET m     == reporter_monitors[r]
                   filed == {i \in Reports : report[i].reporter = r}
                   fixed == filed \cap At({"fixed"})
               IN /\ m.resolved_monitor = Cardinality(fixed)
                  /\ \A p \in Priorities :
                       /\ m.priority_counters[p] =
                            Cardinality({i \in filed : report[i].real_priority = p})
                       /\ m.report_counters[p] =
                            Cardinality({i \in filed : report[i].monitor_priority = p})
                       /\ m.resolved_counters[p] =
                            Cardinality({i \in fixed : report[i].real_priority = p})
    <3>1. ReporterLedger(r)
      BY <1>3 DEF Ledgers
    <3>2. reporter_monitors[r].resolved_monitor =
            Cardinality({i \in Reports : report[i].reporter = r} \cap At({"fixed"}))
      BY <2>1, <3>1 DEF ReporterLedger, Fixed
    <3> DEFINE filed == {i \in Reports : report[i].reporter = r}
               fixed == filed \cap At({"fixed"})
    <3>3. ASSUME NEW p \in Priorities
          PROVE  /\ RealOf(r, p) = {i \in filed : report[i].real_priority = p}
                 /\ ToldBy(r, p) = {i \in filed : report[i].monitor_priority = p}
                 /\ RealOf(r, p) \cap Fixed = {i \in fixed : report[i].real_priority = p}
      BY DEF Of, RealOf, ToldBy, Fixed
    <3>4. ASSUME NEW p \in Priorities
          PROVE  /\ reporter_monitors[r].priority_counters[p] =
                      Cardinality({i \in filed : report[i].real_priority = p})
                 /\ reporter_monitors[r].report_counters[p] =
                      Cardinality({i \in filed : report[i].monitor_priority = p})
                 /\ reporter_monitors[r].resolved_counters[p] =
                      Cardinality({i \in fixed : report[i].real_priority = p})
      BY <3>1, <3>3 DEF ReporterLedger
    <3> QED BY <3>2, <3>4
  <2>4. ASSUME NEW p \in Priorities
        PROVE  LET m     == priority_monitors[p]
                   filed == {i \in Reports : report[i].monitor_priority = p}
               IN /\ m.reported = Cardinality(filed)
                  /\ m.completed = Cardinality(filed \cap At({"fixed"}))
                  /\ m.completed <= m.reported
    BY <1>3, <2>1, <2>2 DEF Ledgers, PriorityLedger, Fixed
  <2>5. TotalFixes = Cardinality(At({"fixed"}))
    BY <1>3 DEF FixesCounted
  <2> QED BY <2>3, <2>4, <2>5 DEF LedgersAgree
<1> QED BY <1>1, <1>2, <1>3, InvariantHolds, FixesStayCounted, LedgersStay, PTL DEF Spec

-----------------------------------------------------------------------------
(* Who is served first: PriorityQ keeps processes of one priority in the   *)
(* order in which they entered, and reports enter in the order in which    *)
(* they were filed.                                                        *)

(* Queues in which those of A that have the same key are in order.         *)

FirstServed(q, key, A) ==
  \A j, k \in DOMAIN q :
    j < k /\ key[q[j]] = key[q[k]] /\ q[j] \in A /\ q[k] \in A => q[j] < q[k]

LEMMA FirstServedStays ==
  ASSUME NEW q, NEW key, NEW A, FirstServed(q, key, A), NEW key2, NEW A2,
         \A x \in Range(q) : key2[x] = key[x] /\ (x \in A2 => x \in A)
  PROVE  FirstServed(q, key2, A2)
BY DEF FirstServed, Range

LEMMA TailKeepsFirst ==
  ASSUME NEW S, NEW q \in Seq(S), q # << >>, NEW key, NEW A, FirstServed(q, key, A)
  PROVE  FirstServed(Tail(q), key, A)
<1>1. /\ DOMAIN Tail(q) = 1..(Len(q) - 1) /\ DOMAIN q = 1..Len(q) /\ Len(q) \in Nat
      /\ \A k \in 1..(Len(q) - 1) : Tail(q)[k] = q[k + 1]
  OBVIOUS
<1>2. ASSUME NEW j \in DOMAIN Tail(q), NEW k \in DOMAIN Tail(q), j < k
      PROVE  j + 1 \in DOMAIN q /\ k + 1 \in DOMAIN q /\ j + 1 < k + 1
  BY <1>1, <1>2
<1> QED BY <1>1, <1>2 DEF FirstServed

LEMMA ConsKeepsFirst ==
  ASSUME NEW S, NEW q \in Seq(S), NEW i \in S, NEW key, NEW A, i \notin A, FirstServed(q, key, A)
  PROVE  FirstServed(<<i>> \o q, key, A)
<1> DEFINE r == <<i>> \o q
<1>1. /\ DOMAIN r = 1..(Len(q) + 1) /\ DOMAIN q = 1..Len(q) /\ Len(q) \in Nat
      /\ r[1] = i /\ \A k \in 2..(Len(q) + 1) : r[k] = q[k - 1]
  OBVIOUS
<1> HIDE DEF r
<1>2. ASSUME NEW j \in DOMAIN r, NEW k \in DOMAIN r, j < k, key[r[j]] = key[r[k]],
             r[j] \in A, r[k] \in A
      PROVE  r[j] < r[k]
  <2>1. j # 1
    BY <1>1, <1>2
  <2>2. j - 1 \in DOMAIN q /\ k - 1 \in DOMAIN q /\ j - 1 < k - 1 /\ r[j] = q[j - 1] /\ r[k] = q[k - 1]
    BY <1>1, <1>2, <2>1
  <2> QED BY <1>2, <2>2 DEF FirstServed
<1> QED BY <1>2 DEF FirstServed, r

LEMMA EnterKeepsFirst ==
  ASSUME NEW S, NEW q \in Seq(S), NEW item \in S, NEW key, NEW A,
         \A x \in S : key[x] \in Int, Ordered(q, key), FirstServed(q, key, A),
         item \in A => \A x \in Range(q) : x \in A => x < item
  PROVE  FirstServed(Enter(q, item, key), key, A)
<1> DEFINE e == Enter(q, item, key)
           p == Cardinality(Ahead(q, item, key)) + 1
<1>1. /\ p \in 1..(Len(q) + 1)
      /\ e = [j \in 1..(Len(q) + 1) |-> IF j < p THEN q[j] ELSE IF j = p THEN item ELSE q[j - 1]]
      /\ DOMAIN q = 1..Len(q) /\ Len(q) \in Nat /\ \A j \in 1..Len(q) : q[j] \in S
  BY EnterShape
<1>2. Ahead(q, item, key) = 1..(p - 1)
  <2>1. Cardinality(Ahead(q, item, key)) \in Nat
    BY AheadIsAPrefixLength
  <2>2. p - 1 = Cardinality(Ahead(q, item, key))
    BY <2>1
  <2> QED BY <2>2, AheadIsAPrefix
<1> HIDE DEF p, e
<1>3. ASSUME NEW k \in p..Len(q) PROVE key[q[k]] # key[item]
  <2>1. p \in 1..Len(q) /\ k \in 1..Len(q) /\ p <= k /\ q[p] \in S /\ q[k] \in S
    BY <1>1
  <2>2. key[q[p]] >= key[q[k]]
    BY <2>1 DEF Ordered
  <2>3. ASSUME key[q[k]] = key[item] PROVE FALSE
    <3>1. key[q[p]] >= key[item]
      BY <2>2, <2>3
    <3>2. \A j \in 1..p : key[q[j]] >= key[item]
      BY <1>1, <1>2, <3>1 DEF Ahead
    <3>3. p \in Ahead(q, item, key)
      BY <2>1, <3>2 DEF Ahead
    <3> QED BY <1>1, <1>2, <3>3
  <2> QED BY <2>3
<1>4. ASSUME NEW j \in DOMAIN e, NEW k \in DOMAIN e, j < k, key[e[j]] = key[e[k]],
             e[j] \in A, e[k] \in A
      PROVE  e[j] < e[k]
  <2>1. CASE k < p
    <3>1. e[j] = q[j] /\ e[k] = q[k] /\ j \in DOMAIN q /\ k \in DOMAIN q
      BY <1>1, <1>4, <2>1
    <3> QED BY <3>1, <1>4 DEF FirstServed
  <2>2. CASE k = p
    <3>1. e[j] = q[j] /\ e[k] = item /\ j \in DOMAIN q
      BY <1>1, <1>4, <2>2
    <3>2. q[j] \in Range(q)
      BY <3>1 DEF Range
    <3> QED BY <3>1, <3>2, <1>4
  <2>3. CASE j = p
    <3>1. e[j] = item /\ e[k] = q[k - 1] /\ k - 1 \in p..Len(q)
      BY <1>1, <1>4, <2>3
    <3> QED BY <3>1, <1>3, <1>4
  <2>4. CASE j < p /\ k > p
    <3>1. /\ e[j] = q[j] /\ e[k] = q[k - 1]
          /\ j \in DOMAIN q /\ k - 1 \in DOMAIN q /\ j < k - 1
      BY <1>1, <1>4, <2>4
    <3> QED BY <3>1, <1>4 DEF FirstServed
  <2>5. CASE j > p
    <3>1. /\ e[j] = q[j - 1] /\ e[k] = q[k - 1]
          /\ j - 1 \in DOMAIN q /\ k - 1 \in DOMAIN q /\ j - 1 < k - 1
      BY <1>1, <1>4, <2>5
    <3> QED BY <3>1, <1>4 DEF FirstServed
  <2> QED BY <2>1, <2>2, <2>3, <2>4, <2>5, <1>1, <1>4
<1> QED BY <1>4 DEF FirstServed, e

(* A request and a release keep the queue of a resource so.                *)
LEMMA ResourceKeepsFirst ==
  ASSUME NEW S, NEW res \in [n : Nat, waitQ : Seq(S)], NEW key, NEW A,
         \A x \in S : key[x] \in Int, Ordered(res.waitQ, key), FirstServed(res.waitQ, key, A)
  PROVE  /\ FirstServed(Release(res).waitQ, key, A)
         /\ \A i \in S : (i \in A => \A x \in Range(res.waitQ) : x \in A => x < i)
              => FirstServed(Request(res, i, key).waitQ, key, A)
<1>1. res.waitQ \in Seq(S)
  OBVIOUS
<1>2. FirstServed(Release(res).waitQ, key, A)
  BY <1>1, TailKeepsFirst DEF Release
<1>3. ASSUME NEW i \in S, i \in A => \A x \in Range(res.waitQ) : x \in A => x < i
      PROVE  FirstServed(Request(res, i, key).waitQ, key, A)
  BY <1>1, <1>3, EnterKeepsFirst DEF Request
<1> QED BY <1>2, <1>3

(* The one at the head is served before those of its key.                  *)
LEMMA HeadIsFirst ==
  ASSUME NEW S, NEW q \in Seq(S), q # << >>, NEW key, NEW A,
         \A x \in S : key[x] \in Int, Ordered(q, key), FirstServed(q, key, A),
         NEW x \in Range(q), x # Head(q)
  PROVE  \/ key[Head(q)] > key[x]
         \/ key[Head(q)] = key[x] /\ (Head(q) \in A /\ x \in A => Head(q) < x)
<1>1. PICK k \in DOMAIN q : x = q[k]
  BY DEF Range
<1>2. Head(q) = q[1] /\ 1 \in DOMAIN q /\ 1 < k /\ q[1] \in S /\ q[k] \in S
  BY <1>1
<1>3. key[q[1]] >= key[q[k]]
  BY <1>2 DEF Ordered
<1> QED BY <1>1, <1>2, <1>3 DEF FirstServed
-----------------------------------------------------------------------------
(* Reports ask for their first resource in the order of filing.            *)

Activated == At({"activated"})

(* Those of a batch that have not run yet are the last ones filed, and are *)
(* resumed in order.                                                       *)
InFilingOrder ==
  /\ FirstServed(ready, FirstComeFirstServed, Activated)
  /\ \A i \in Activated, j \in Reports : i < j => j \in Activated

LEMMA ActivatedMoves ==
  ASSUME Sane, NEW i \in Reports, ReportStep(i)
  PROVE  Reports' = Reports /\ Activated' = Activated \ {i}
<1>1. /\ Reports' = Reports
      /\ RunsOn(i) \/ Wakes(i)
      /\ \A j \in Reports : j # i => Rests(j) \/ HandedOver(j)
  BY StepMoves
<1>2. stage'[i] # "activated"
  BY <1>1 DEF RunsOn, Wakes
<1>3. \A j \in Reports : j # i => (stage'[j] = "activated" <=> stage[j] = "activated")
  BY <1>1 DEF Rests, HandedOver
<1> QED BY <1>1, <1>2, <1>3 DEF Activated, At

(* How a step of report i changes the processes to resume.                 *)
LEMMA ReadyMoves ==
  ASSUME Sane, NEW i \in Reports, ReportStep(i)
  PROVE  \/ ready # << >> /\ i = Head(ready) /\ ready' \in {ready, Tail(ready)}
         \/ /\ i \notin Activated
            /\ \E res \in {developers, gatekeepers} :
                 \/ ready = << >> /\ ready' = <<i>> \o Woken(res)
                 \/ /\ ready # << >> /\ i = Head(ready)
                    /\ ready' = <<i>> \o Woken(res) \o Tail(ready)
<1>1. CASE EndReview(i) \/ EndFix(i)
  BY <1>1 DEF EndReview, EndFix, Fires, Activated, At
<1>2. CASE IgnoreReport(i)
  BY <1>2 DEF IgnoreReport, Resumes, Activated, At
<1>3. CASE ~(EndReview(i) \/ EndFix(i) \/ IgnoreReport(i))
  BY <1>3 DEF ReportStep, RequestGatekeeper, StartReview, RequestDeveloper, DiscardReport, StartFix,
              Resolve, Resumes
<1> QED BY <1>1, <1>2, <1>3

LEMMA FilingOrderStays ==
  ASSUME Sane, InFilingOrder, [Next]_vars PROVE InFilingOrder'
<1> USE DEF Sane
<1>1. ready \in Seq(Reports) /\ IsInjective(ready) /\ Activated \subseteq Range(ready)
  BY DEF TypeOK, SchedulerOK, QueuesSound, ReadySound, Holds, Activated, At, ReadyStages
<1>2. ASSUME NEW i \in Reports, ReportStep(i) PROVE InFilingOrder'
  <2> DEFINE key == FirstComeFirstServed
  <2>1. Reports' = Reports /\ Activated' = Activated \ {i}
    BY <1>2, ActivatedMoves
  <2>2. key' = key
    BY <2>1 DEF FirstComeFirstServed
  <2> HIDE DEF key
  <2>3. FirstServed(ready, key, Activated \ {i})
    BY FirstServedStays DEF InFilingOrder, key
  <2>4. FirstServed(ready', key, Activated \ {i})
    <3>1. CASE ready # << >> /\ ready' \in {ready, Tail(ready)}
      BY <1>1, <2>3, <3>1, TailKeepsFirst
    <3>2. ASSUME NEW res \in {developers, gatekeepers}, NEW rest \in Seq(Reports),
                 FirstServed(rest, key, Activated \ {i})
          PROVE  FirstServed(<<i>> \o Woken(res) \o rest, key, Activated \ {i})
      <4>1. Woken(res) \in Seq(Reports) /\ Range(Woken(res)) \cap Activated = {}
        BY WokenWaits, ReleaseType DEF TypeOK, ResourcesOK, At, Activated
      <4>2. FirstServed(Woken(res) \o rest, key, Activated \ {i})
            /\ Woken(res) \o rest \in Seq(Reports)
        <5>1. CASE res.waitQ = << >>
          <6>1. Woken(res) \o rest = rest
            BY <5>1 DEF Woken
          <6> QED BY <3>2, <6>1
        <5>2. CASE res.waitQ # << >>
          <6>1. Woken(res) = <<Head(res.waitQ)>>
            BY <5>2 DEF Woken
          <6>2. Head(res.waitQ) \in Reports /\ Head(res.waitQ) \notin Activated
            BY <4>1, <6>1 DEF Range
          <6> QED BY <3>2, <6>1, <6>2, ConsKeepsFirst, ConsAddsHead
        <5> QED BY <5>1, <5>2
      <4>3. <<i>> \o Woken(res) \o rest = <<i>> \o (Woken(res) \o rest)
        BY <4>1
      <4> QED BY <4>2, <4>3, ConsKeepsFirst
    <3>3. FirstServed(<< >>, key, Activated \ {i}) /\ << >> \in Seq(Reports)
      BY DEF FirstServed
    <3>4. ready # << >> => Tail(ready) \in Seq(Reports) /\ FirstServed(Tail(ready), key, Activated \ {i})
      BY <1>1, <2>3, TailKeepsFirst
    <3>5. ASSUME NEW res \in {developers, gatekeepers}, ready' = <<i>> \o Woken(res)
          PROVE  ready' = <<i>> \o Woken(res) \o << >>
      <4>1. Woken(res) \in Seq(Reports)
        BY ReleaseType DEF TypeOK, ResourcesOK
      <4> QED BY <3>5, <4>1, ConsAddsHead
    <3> QED BY <1>2, <3>1, <3>2, <3>3, <3>4, <3>5, ReadyMoves
  <2>5. ASSUME NEW a \in Activated', NEW b \in Reports', a < b PROVE b \in Activated'
    <3>1. a \in Activated /\ b \in Reports /\ b \in Activated /\ a # i
      BY <2>1, <2>5 DEF InFilingOrder
    <3>2. i \in Activated => i < a
      <4>1. SUFFICES ASSUME i \in Activated PROVE i < a
        OBVIOUS
      <4>2. ready # << >> /\ i = Head(ready)
        BY <1>2, <4>1, ReadyMoves
      <4>3. a \in Range(ready) /\ a # Head(ready)
        BY <1>1, <3>1, <4>2
      <4>4. \A x \in Reports : FirstComeFirstServed[x] = 0
        BY DEF FirstComeFirstServed
      <4>5. Ordered(ready, FirstComeFirstServed)
        BY <1>1, <4>4 DEF Ordered
      <4>6. \/ FirstComeFirstServed[i] > FirstComeFirstServed[a]
            \/ i \in Activated /\ a \in Activated => i < a
        <5>1. \A x \in Reports : FirstComeFirstServed[x] \in Int
          BY <4>4
        <5> QED BY <1>1, <4>2, <4>3, <4>5, <5>1, HeadIsFirst DEF InFilingOrder
      <4>7. ~(FirstComeFirstServed[i] > FirstComeFirstServed[a])
        BY <3>1, <4>4 DEF Activated, At
      <4> QED BY <3>1, <4>1, <4>6, <4>7
    <3> QED BY <2>1, <2>5, <3>1, <3>2 DEF Activated, At, Reports
  <2> QED BY <2>1, <2>2, <2>4, <2>5 DEF InFilingOrder, key
<1>3. CASE StartReporting
  <2>1. PICK size \in BatchSizes :
          \E draw \in [(bug_counter + 1)..(bug_counter + size) -> NewReports(next_batch)] :
            FileBatch((bug_counter + 1)..(bug_counter + size), draw)
    BY <1>3 DEF StartReporting
  <2> DEFINE new == (bug_counter + 1)..(bug_counter + size)
  <2>2. size \in Nat /\ bug_counter \in Nat /\ Cardinality(new) = size
    BY DurationAssumption, BatchIds DEF TypeOK, ReportsOK
  <2>3. bug_counter' = bug_counter + size /\ ready' = [k \in 1..size |-> bug_counter + k]
    BY <2>1, <2>2 DEF FileBatch
  <2>4. Activated = {}
    BY <1>1, <1>3 DEF StartReporting, Fires, Range
  <2>5. \A i \in Reports' : i \in Activated' <=> i \notin Reports
    BY <1>3, <2>4, BatchOfReports DEF Rests, Filed, Activated, At
  <2>6. Reports' = 1..bug_counter' /\ Reports = 1..bug_counter
    BY DEF Reports
  <2>7. FirstServed(ready', FirstComeFirstServed', Activated')
    BY <2>2, <2>3 DEF FirstServed
  <2>8. \A i \in Activated', j \in Reports' : i < j => j \in Activated'
    <3>1. Activated' \subseteq Reports'
      BY DEF Activated, At
    <3> QED BY <2>2, <2>3, <2>5, <2>6, <3>1
  <2> QED BY <2>7, <2>8 DEF InFilingOrder
<1>4. CASE Control \/ TimeUp \/ UNCHANGED vars
  <2>1. Reports' = Reports /\ UNCHANGED <<ready, stage>>
    BY <1>4, OthersRest DEF Control, TimeUp, vars, scheduler
  <2> QED BY <2>1 DEF InFilingOrder, FirstComeFirstServed, Activated, At
<1> QED BY <1>2, <1>3, <1>4 DEF Next, Finished

(* Who has not run yet was filed after everybody who has.                  *)
LEMMA NewcomerIsLast ==
  ASSUME Sane, InFilingOrder, NEW i \in Activated, NEW j \in Reports, j \notin Activated
  PROVE  j < i
BY DEF InFilingOrder, Activated, At, Reports, Sane, TypeOK, ReportsOK
-----------------------------------------------------------------------------
(* The gatekeepers' queue.                                                 *)

ReviewsInOrder == FirstServed(gatekeepers.waitQ, FirstComeFirstServed, Reports)

LEMMA GatekeepersChange ==
  ASSUME [Next]_vars
  PROVE  \/ gatekeepers' = gatekeepers
         \/ gatekeepers' = Release(gatekeepers)
         \/ \E i \in Activated :
              /\ ReportStep(i) /\ gatekeepers' = Request(gatekeepers, i, FirstComeFirstServed)
<1>1. ASSUME NEW i \in Reports, ReportStep(i)
      PROVE  \/ gatekeepers' = gatekeepers \/ gatekeepers' = Release(gatekeepers)
             \/ i \in Activated /\ gatekeepers' = Request(gatekeepers, i, FirstComeFirstServed)
  BY <1>1 DEF ReportStep, RequestGatekeeper, StartReview, EndReview, RequestDeveloper, IgnoreReport,
              DiscardReport, StartFix, EndFix, Resolve, Activated, At
<1>2. StartReporting \/ Control \/ TimeUp \/ UNCHANGED vars => gatekeepers' = gatekeepers
  BY DEF StartReporting, Control, TimeUp, vars
<1> QED BY <1>1, <1>2 DEF Next, Finished

LEMMA ZeroKey ==
  ASSUME NEW q \in Seq(Reports)
  PROVE  /\ \A x \in Reports : FirstComeFirstServed[x] = 0 /\ FirstComeFirstServed[x] \in Int
         /\ Ordered(q, FirstComeFirstServed)
BY DEF FirstComeFirstServed, Ordered

LEMMA ReviewsStayInOrder ==
  ASSUME Sane, InFilingOrder, ReviewsInOrder, [Next]_vars PROVE ReviewsInOrder'
<1> USE DEF Sane
<1> DEFINE key == FirstComeFirstServed
           q == gatekeepers.waitQ
<1>1. /\ gatekeepers \in [n : Nat, waitQ : Seq(Reports)] /\ q \in Seq(Reports)
      /\ Range(q) = At({"gkWait"})
  BY DEF TypeOK, ResourcesOK, QueuesSound, GkSound, Sound, Holds
<1>2. /\ \A x \in Reports : key[x] = 0 /\ key[x] \in Int
      /\ Ordered(q, key)
  BY <1>1, ZeroKey
<1>3. FirstServed(gatekeepers'.waitQ, key, Reports) /\ Range(gatekeepers'.waitQ) \subseteq Reports
  <2>1. CASE gatekeepers' = gatekeepers
    BY <1>1, <2>1 DEF ReviewsInOrder, At
  <2>2. CASE gatekeepers' = Release(gatekeepers)
    <3>1. Release(gatekeepers).waitQ \in Seq(Reports)
      BY <1>1, ReleaseType
    <3>2. FirstServed(Release(gatekeepers).waitQ, key, Reports)
      BY <1>1, <1>2, ResourceKeepsFirst DEF ReviewsInOrder
    <3>3. Range(Release(gatekeepers).waitQ) \subseteq Reports
      BY <3>1 DEF Range
    <3> QED BY <2>2, <3>2, <3>3
  <2>3. ASSUME NEW i \in Activated, gatekeepers' = Request(gatekeepers, i, key)
        PROVE  FirstServed(gatekeepers'.waitQ, key, Reports)
               /\ Range(gatekeepers'.waitQ) \subseteq Reports
    <3>1. i \in Reports /\ \A x \in Range(q) : x < i
      BY <1>1, NewcomerIsLast DEF Activated, At
    <3>2. Request(gatekeepers, i, key).waitQ \in Seq(Reports)
      BY <1>1, <3>1, RequestType
    <3> QED BY <1>1, <1>2, <2>3, <3>1, <3>2, ResourceKeepsFirst DEF ReviewsInOrder, Range
  <2> QED BY <2>1, <2>2, <2>3, GatekeepersChange
<1>4. \A x \in Reports : key'[x] = key[x]
  BY <1>2, StepOfReport DEF FirstComeFirstServed
<1> QED BY <1>3, <1>4, FirstServedStays DEF ReviewsInOrder

(* Only a release hands a unit over, and to the head of the queue.         *)
LEMMA ServedIsHead ==
  ASSUME Sane, [Next]_vars, NEW i \in Reports
  PROVE  /\ stage[i] = "gkWait" /\ stage'[i] = "gkGranted"
              => gatekeepers.waitQ # << >> /\ i = Head(gatekeepers.waitQ)
         /\ stage[i] = "devWait" /\ stage'[i] = "devGranted"
              => developers.waitQ # << >> /\ i = Head(developers.waitQ)
<1> SUFFICES ASSUME <<stage[i], stage'[i]>> \in {<<"gkWait", "gkGranted">>, <<"devWait", "devGranted">>}
             PROVE  \/ /\ stage[i] = "gkWait"
                       /\ gatekeepers.waitQ # << >> /\ i = Head(gatekeepers.waitQ)
                    \/ /\ stage[i] = "devWait"
                       /\ developers.waitQ # << >> /\ i = Head(developers.waitQ)
  OBVIOUS
<1>1. PICK k \in Reports : ReportStep(k)
  <2>1. ~Rests(i)
    BY DEF Rests
  <2> QED BY <2>1, BatchOfReports, OthersRest DEF Sane, Next, Finished
<1>2. k # i
  BY <1>1, StepMoves DEF RunsOn, Wakes
<1>3. stage \in [Reports -> Stages]
  BY DEF Sane, TypeOK, ReportsOK
<1>4. ASSUME NEW s, stage' = [stage EXCEPT ![k] = s] PROVE FALSE
  BY <1>2, <1>3, <1>4
<1>5. CASE EndReview(k)
  BY <1>2, <1>5 DEF EndReview, HandOver
<1>6. CASE IgnoreReport(k) \/ EndFix(k)
  BY <1>2, <1>6 DEF IgnoreReport, EndFix, HandOver
<1> QED BY <1>1, <1>4, <1>5, <1>6
        DEF ReportStep, RequestGatekeeper, StartReview, RequestDeveloper, DiscardReport, StartFix, Resolve

LEMMA ReviewedFirstCome ==
  ASSUME Sane, ReviewsInOrder, [Next]_vars,
         NEW i \in At({"gkWait"}), NEW j \in At({"gkWait"}), stage'[i] = "gkGranted", j # i
  PROVE  i < j
<1> DEFINE q == gatekeepers.waitQ
<1>1. q \in Seq(Reports) /\ Range(q) = At({"gkWait"}) /\ At({"gkWait"}) \subseteq Reports
  BY DEF Sane, TypeOK, ResourcesOK, QueuesSound, GkSound, Sound, Holds, At
<1>2. q # << >> /\ i = Head(q)
  BY ServedIsHead DEF At
<1>3. /\ \A x \in Reports : FirstComeFirstServed[x] = 0 /\ FirstComeFirstServed[x] \in Int
      /\ Ordered(q, FirstComeFirstServed)
  BY <1>1, ZeroKey
<1>4. \/ FirstComeFirstServed[i] > FirstComeFirstServed[j]
      \/ i \in Reports /\ j \in Reports => i < j
  BY <1>1, <1>2, <1>3, HeadIsFirst DEF ReviewsInOrder
<1> QED BY <1>1, <1>3, <1>4

(* False priorities do not decide who is reviewed first: the gatekeepers   *)
(* review in the order of filing.                                          *)
THEOREM ReviewsAreFirstCome == Spec => FirstComeFirstReviewed
<1>1. Init => Sane /\ InFilingOrder /\ ReviewsInOrder
  <2>1. Init => Reports = {} /\ ready = << >> /\ gatekeepers.waitQ = << >>
    BY DEF Init, Reports, NewResource
  <2>2. Init => InFilingOrder /\ ReviewsInOrder
    BY <2>1 DEF InFilingOrder, ReviewsInOrder, FirstServed, Activated, At
  <2> QED BY <2>2, InitTypeOK, InitQueuesSound DEF Sane
<1>2. IInv => Sane
  BY QueuesSoundIsTheInvariant DEF IInv, Sane
<1>3. Sane /\ ReviewsInOrder /\ [Next]_vars =>
        [\A i, j \in At({"gkWait"}) : stage'[i] = "gkGranted" /\ j # i => i < j]_vars
  BY ReviewedFirstCome
<1> QED BY <1>1, <1>2, <1>3, InvariantHolds, FilingOrderStays, ReviewsStayInOrder, PTL
        DEF Spec, FirstComeFirstReviewed
-----------------------------------------------------------------------------
(* The developers' queue, where there is no gatekeeper.                    *)

Unseen == {i \in Reports : report[i].views_counter = 0}

(* Nobody is at a gatekeeper, and in the simple process nobody is ignored. *)
NoDetours ==
  /\ Process # "gatekeeper" =>
       \A i \in Reports : stage[i] \notin {"gkWait", "gkGranted", "review", "gkReleased"}
  /\ Process = "simple" => \A i \in Reports : report[i].views_counter = 0

LEMMA NoDetoursStay == ASSUME Sane, NoDetours, [Next]_vars PROVE NoDetours'
<1>1. ASSUME Process # "gatekeeper", NEW i \in Reports'
      PROVE  stage'[i] \notin {"gkWait", "gkGranted", "review", "gkReleased"}
  BY <1>1, StepOfReport DEF NoDetours, Filed, Rests, HandedOver, RunsOn, Wakes
<1>2. ASSUME Process = "simple", NEW i \in Reports' PROVE report'[i].views_counter = 0
  <2>1. CASE i \notin Reports
    <3>1. Filed(i)
      BY <2>1, StepOfReport
    <3> QED BY <3>1 DEF Filed, NewReports
  <2>2. CASE i \in Reports
    <3>1. /\ Rests(i) \/ HandedOver(i) \/ RunsOn(i) \/ Wakes(i)
          /\ stage[i] # "review"
      BY <1>2, <2>2, StepOfReport DEF NoDetours
    <3>2. report'[i] = report[i]
      BY <1>2, <3>1 DEF Rests, HandedOver, RunsOn, Wakes, MayBeIgnored
    <3> QED BY <1>2, <2>2, <3>2 DEF NoDetours
  <2> QED BY <2>1, <2>2
<1> QED BY <1>1, <1>2 DEF NoDetours

FixesInOrder ==
  Process # "gatekeeper" => FirstServed(developers.waitQ, QueuePriority, Unseen)

LEMMA DeveloperQueue ==
  ASSUME Sane
  PROVE  /\ developers \in [n : Nat, waitQ : Seq(Reports)] /\ developers.waitQ \in Seq(Reports)
         /\ Range(developers.waitQ) = At({"devWait"})
         /\ \A x \in Reports : QueuePriority[x] \in Int
BY QueuePriorityIsInt
   DEF Sane, TypeOK, ResourcesOK, QueuesSound, DevSound, Sound, Holds

LEMMA FixesStayInOrder ==
  ASSUME Sane, QueueOrdered, Views, InFilingOrder, NoDetours, FixesInOrder, [Next]_vars
  PROVE  FixesInOrder'
<1> USE DEF Sane
<1> SUFFICES ASSUME Process # "gatekeeper"
             PROVE  FirstServed(developers'.waitQ, QueuePriority', Unseen')
  BY DEF FixesInOrder
<1> DEFINE key == QueuePriority
           q == developers.waitQ
<1>1. /\ developers \in [n : Nat, waitQ : Seq(Reports)] /\ q \in Seq(Reports)
      /\ Range(q) = At({"devWait"}) /\ \A x \in Reports : key[x] \in Int
  BY DeveloperQueue
<1>2. FirstServed(q, key, Unseen) /\ Ordered(q, key)
  BY DEF FixesInOrder, QueueOrdered
<1>3. \A x \in Range(q) : key'[x] = key[x] /\ (x \in Unseen' => x \in Unseen)
  <2>1. ASSUME NEW x \in At({"devWait"}) PROVE report'[x] = report[x] /\ x \in Reports
    BY <2>1, StepOfReport DEF At, Rests, HandedOver, RunsOn, Wakes
  <2>2. ReportsOK
    BY DEF TypeOK
  <2> QED BY <1>1, <2>1, <2>2, WaitingKeepsPriority DEF Unseen
<1> HIDE DEF key
<1>4. CASE developers' = developers
  BY <1>2, <1>3, <1>4, FirstServedStays DEF key
<1>5. CASE developers' = Release(developers)
  <2>1. FirstServed(Release(developers).waitQ, key, Unseen)
    BY <1>1, <1>2, ResourceKeepsFirst
  <2>2. Range(Release(developers).waitQ) \subseteq Range(q)
    <3>1. q # << >> => Range(Tail(q)) \subseteq Range(q)
      <4>1. IsInjective(q)
        BY DEF QueuesSound, DevSound, Sound, Holds
      <4> QED BY <1>1, <4>1, TailDropsHead
    <3> QED BY <1>1, <3>1 DEF Release
  <2> QED BY <1>3, <1>5, <2>1, <2>2, FirstServedStays DEF key
<1>6. ASSUME NEW i \in Reports, RequestDeveloper(i)
      PROVE  FirstServed(developers'.waitQ, QueuePriority', Unseen')
  <2>1. Reports' = Reports /\ report' = report
    BY <1>6, SameReports DEF RequestDeveloper
  <2>2. key' = key /\ Unseen' = Unseen
    BY <2>1 DEF key, QueuePriority, Unseen
  <2>3. i \in Unseen => i \in Activated
    <3>1. stage[i] \in {"activated", "ignored"}
      BY <1>6 DEF RequestDeveloper, NoDetours
    <3>2. stage[i] = "ignored" => report[i].views_counter = 1
      BY DEF Views
    <3> QED BY <3>1, <3>2 DEF Unseen, Activated, At
  <2>4. i \in Unseen => \A x \in Range(q) : x < i
    BY <1>1, <2>3, NewcomerIsLast DEF Activated, At
  <2>5. FirstServed(Request(developers, i, key).waitQ, key, Unseen)
    BY <1>1, <1>2, <2>4, ResourceKeepsFirst
  <2> QED BY <1>6, <2>2, <2>5 DEF RequestDeveloper, key
<1> QED BY <1>4, <1>5, <1>6, DevelopersChange

(* Who gets a developer, among those that wait for one.                    *)
LEMMA ServedByPriority ==
  ASSUME Sane, QueueOrdered, FixesInOrder, Process # "gatekeeper", [Next]_vars,
         NEW i \in At({"devWait"}), NEW j \in At({"devWait"}), stage'[i] = "devGranted", j # i
  PROVE  /\ i \in Reports /\ j \in Reports
         /\ \/ QueuePriority[i] > QueuePriority[j]
            \/ QueuePriority[i] = QueuePriority[j] /\ (i \in Unseen /\ j \in Unseen => i < j)
<1>1. /\ developers.waitQ \in Seq(Reports) /\ Range(developers.waitQ) = At({"devWait"})
      /\ \A x \in Reports : QueuePriority[x] \in Int
  BY DeveloperQueue
<1>2. i \in Reports /\ j \in Reports
  BY DEF At
<1>3. developers.waitQ # << >> /\ i = Head(developers.waitQ)
  BY ServedIsHead DEF At
<1> QED BY <1>1, <1>2, <1>3, HeadIsFirst DEF FixesInOrder, QueueOrdered

OrderInv == IInv /\ Views /\ InFilingOrder /\ NoDetours /\ FixesInOrder

LEMMA OrderInvHolds == Spec => []OrderInv
<1>1. Init => Views /\ InFilingOrder /\ NoDetours /\ FixesInOrder
  <2>1. Init => Reports = {} /\ ready = << >> /\ developers.waitQ = << >>
    BY DEF Init, Reports, NewResource
  <2> QED BY <2>1 DEF Views, InFilingOrder, NoDetours, FixesInOrder, FirstServed, Activated, At
<1>2. IInv => Sane /\ QueueOrdered
  BY QueuesSoundIsTheInvariant DEF IInv, Sane
<1>3. OrderInv <=> IInv /\ Views /\ InFilingOrder /\ NoDetours /\ FixesInOrder
  BY DEF OrderInv
<1> QED BY <1>1, <1>2, <1>3, InvariantHolds, ViewsStay, FilingOrderStays, NoDetoursStay,
           FixesStayInOrder, PTL DEF Spec

(* In the simple process a developer who becomes free takes the waiting    *)
(* report of the highest reported priority and, of those, the oldest.      *)
THEOREM SimpleServesSeverest ==
  ASSUME Process = "simple" PROVE Spec => SeverestFirst
<1>1. ASSUME OrderInv, [Next]_vars, NEW i \in At({"devWait"}), NEW j \in At({"devWait"}),
             stage'[i] = "devGranted", j # i
      PROVE  \/ report[i].report_priority > report[j].report_priority
             \/ report[i].report_priority = report[j].report_priority /\ i < j
  <2>1. Sane /\ QueueOrdered
    BY <1>1, QueuesSoundIsTheInvariant DEF OrderInv, IInv, Sane
  <2>2. /\ i \in Reports /\ j \in Reports
        /\ \/ QueuePriority[i] > QueuePriority[j]
           \/ QueuePriority[i] = QueuePriority[j] /\ (i \in Unseen /\ j \in Unseen => i < j)
    BY <1>1, <2>1, ServedByPriority DEF OrderInv
  <2>3. i \in Unseen /\ j \in Unseen
    BY <1>1, <2>2 DEF OrderInv, NoDetours, Unseen
  <2> QED BY <2>2, <2>3 DEF QueuePriority
<1>2. OrderInv /\ [Next]_vars =>
        [\A i, j \in At({"devWait"}) :
           stage'[i] = "devGranted" /\ j # i =>
             \/ report[i].report_priority > report[j].report_priority
             \/ report[i].report_priority = report[j].report_priority /\ i < j]_vars
  BY <1>1
<1> QED BY <1>2, OrderInvHolds, PTL DEF Spec, SeverestFirst

(* In the vanilla and the throttling process a developer who becomes free  *)
(* takes a report of the latest hour and, of those nobody has seen, the    *)
(* oldest.                                                                 *)
THEOREM LatestHourIsServed ==
  ASSUME Process \in {"vanilla", "throttling"} PROVE Spec => LatestHourFirst
<1> DEFINE hour(k) == report[k].arrival_time \div HourLength
           good(i, j) == \/ hour(i) > hour(j)
                         \/ /\ hour(i) = hour(j)
                            /\ i < j \/ report[i].views_counter + report[j].views_counter > 0
<1>1. ASSUME OrderInv, [Next]_vars, NEW i \in At({"devWait"}), NEW j \in At({"devWait"}),
             stage'[i] = "devGranted", j # i
      PROVE  good(i, j)
  <2>1. Sane /\ QueueOrdered
    BY <1>1, QueuesSoundIsTheInvariant DEF OrderInv, IInv, Sane
  <2>2. /\ i \in Reports /\ j \in Reports
        /\ \/ QueuePriority[i] > QueuePriority[j]
           \/ QueuePriority[i] = QueuePriority[j] /\ (i \in Unseen /\ j \in Unseen => i < j)
    BY <1>1, <2>1, ServedByPriority DEF OrderInv
  <2>3. QueuePriority[i] = hour(i) /\ QueuePriority[j] = hour(j)
    BY <2>2 DEF QueuePriority
  <2>4. report[i].views_counter \in {0, 1} /\ report[j].views_counter \in {0, 1}
    BY <1>1, <2>2 DEF OrderInv, Views
  <2>5. (i \in Unseen /\ j \in Unseen) \/ report[i].views_counter + report[j].views_counter > 0
    BY <2>2, <2>4 DEF Unseen
  <2> QED BY <2>2, <2>3, <2>5
<1>2. OrderInv /\ [Next]_vars =>
        [\A i, j \in At({"devWait"}) :
           stage'[i] = "devGranted" /\ j # i =>
             LET time(k) == report[k].arrival_time \div HourLength
             IN \/ time(i) > time(j)
                \/ time(i) = time(j) /\ (i < j \/ report[i].views_counter + report[j].views_counter > 0)]_vars
  BY <1>1
<1> QED BY <1>2, OrderInvHolds, PTL DEF Spec, LatestHourFirst

-----------------------------------------------------------------------------
(* The abstract life cycle.                                                *)

(* Report i as the abstract specification sees it.                         *)
Seen(i) == [status  |-> Status(stage[i]),
            visible |-> report[i].report_priority,
            true    |-> report[i].real_priority]

SeenAll == [i \in Reports |-> Seen(i)]

(* The report whose developer was just released is resumed next: nothing   *)
(* happens between the end of a fix and the update of the monitors.        *)
ReleasedIsNext ==
  \A i \in Reports : stage[i] = "devReleased" => ready # << >> /\ Head(ready) = i

LEMMA ReleasedStaysNext == ASSUME Sane, ReleasedIsNext, [Next]_vars PROVE ReleasedIsNext'
<1> SUFFICES ASSUME NEW j \in Reports', stage'[j] = "devReleased"
             PROVE  ready' # << >> /\ Head(ready') = j
  BY DEF ReleasedIsNext
<1>1. /\ j \in Reports
      /\ Rests(j) \/ Wakes(j)
  BY StepOfReport DEF Filed, HandedOver, RunsOn
<1>2. CASE Rests(j)
  <2>1. stage[j] = "devReleased" /\ ready # << >> /\ Head(ready) = j
    BY <1>1, <1>2 DEF Rests, ReleasedIsNext
  <2>2. ASSUME NEW i \in Reports, ReportStep(i) PROVE FALSE
    <3>1. i = j
      BY <2>1, <2>2 DEF ReportStep, RequestGatekeeper, StartReview, EndReview, RequestDeveloper,
                        IgnoreReport, DiscardReport, StartFix, EndFix, Resolve, Resumes, Fires
    <3>2. stage'[j] # "devReleased"
      BY <2>1, <2>2, <3>1, StepMoves DEF RunsOn, Wakes
    <3> QED BY <3>2
  <2>3. UNCHANGED vars
    BY <2>1, <2>2 DEF Next, Finished, StartReporting, Control, TimeUp, Fires
  <2> QED BY <2>1, <2>3 DEF vars, scheduler
<1>3. CASE Wakes(j)
  <2>1. stage[j] = "fix"
    BY <1>3 DEF Wakes
  <2>2. ~(StartReporting \/ Control \/ TimeUp \/ UNCHANGED vars)
    BY <1>1, <2>1, BatchOfReports, OthersRest DEF Sane, Rests
  <2>3. PICK i \in Reports : ReportStep(i)
    BY <2>2 DEF Next, Finished
  <2>4. i = j
    BY <1>1, <2>1, <2>3, StepMoves DEF Rests, HandedOver
  <2>5. EndFix(j)
    BY <2>1, <2>3, <2>4 DEF ReportStep, RequestGatekeeper, StartReview, EndReview, RequestDeveloper,
                            IgnoreReport, DiscardReport, StartFix, Resolve
  <2>6. ready' = <<j>> \o Woken(developers) /\ Woken(developers) \in Seq(Reports)
    BY <2>5, ReleaseType DEF EndFix, Sane, TypeOK, ResourcesOK
  <2> QED BY <1>1, <2>6, ConsAddsHead
<1> QED BY <1>1, <1>2, <1>3

-----------------------------------------------------------------------------
(* The steps.                                                              *)

LEMMA SeenIsItem ==
  ASSUME TypeOK, NEW i \in Reports
  PROVE  /\ SeenAll[i] = Seen(i)
         /\ Seen(i) \in [status : {"open", "inProgress", "fixed", "dropped"},
                         visible : Priorities, true : Priorities]
<1>1. report[i] \in Report /\ SupportedPriorities \subseteq Priorities
  BY DEF TypeOK, ReportsOK, SupportedPriorities, Priorities
<1> QED BY <1>1 DEF SeenAll, Seen, Status, Report

LEMMA StatusListed ==
  /\ Status("fix") = "inProgress" /\ Status("devReleased") = "inProgress"
  /\ Status("fixed") = "fixed" /\ Status("discarded") = "dropped"
  /\ \A s \in {"activated", "gkWait", "gkGranted", "review", "gkReleased", "devWait",
               "devGranted", "ignored"} : Status(s) = "open"
BY DEF Status

(* The abstract specification counts as FiniteSets does.                   *)
LEMMA SameCardinality == \A S : Lifecycle!Cardinality(S) = Cardinality(S)
BY DEF Lifecycle!Cardinality, Cardinality

LEMMA FilingIsOpen ==
  ASSUME TypeOK, TypeOK', StartReporting PROVE Lifecycle!Next
<1> DEFINE Item == [status : {"open", "inProgress", "fixed", "dropped"},
                    visible : Priorities, true : Priorities]
<1>1. /\ Reports \subseteq Reports'
      /\ \A i \in Reports : Seen(i)' = Seen(i)
      /\ \A i \in Reports' \ Reports : stage'[i] = "activated"
  BY BatchOfReports DEF Rests, Seen, Filed
<1>2. ASSUME NEW i \in Reports' PROVE Seen(i)' \in Item
  <2>1. report'[i] \in Report /\ SupportedPriorities \subseteq Priorities
    BY DEF TypeOK, ReportsOK, SupportedPriorities, Priorities
  <2> QED BY <2>1 DEF Seen, Status, Report
<1>3. \A i \in Reports' : i \notin Reports => Seen(i)'.status = "open"
  BY <1>1, StatusListed DEF Seen
<1>4. stopped = "no" /\ stopped' = "no"
  BY DEF StartReporting, Fires
<1>5. SeenAll' \in [Reports' -> Item] /\ DOMAIN SeenAll = Reports /\ DOMAIN SeenAll' = Reports'
  BY <1>2 DEF SeenAll
<1>6. \A i \in DOMAIN SeenAll' : IF i \in DOMAIN SeenAll THEN SeenAll'[i] = SeenAll[i]
                                 ELSE SeenAll'[i].status = "open"
  BY <1>1, <1>3, <1>5 DEF SeenAll
<1>7. Lifecycle!Open
  BY <1>1, <1>5, <1>6 DEF Lifecycle!Open, Lifecycle!Items, Lifecycle!Item, SeenAll, Seen
<1> QED BY <1>4, <1>7 DEF Lifecycle!Next

(* A step of report i is seen as a change of i alone.                      *)
LEMMA SeenMoves ==
  ASSUME Sane, NEW i \in Reports, ReportStep(i)
  PROVE  /\ SeenAll' = [SeenAll EXCEPT ![i] = Seen(i)']
         /\ SeenAll[i] = Seen(i) /\ DOMAIN SeenAll = Reports
         /\ stopped = "no" /\ stopped' = "no"
<1>1. Reports' = Reports /\ \A j \in Reports : j # i => Rests(j) \/ HandedOver(j)
  BY StepMoves
<1>2. ASSUME NEW j \in Reports, j # i PROVE Seen(j)' = Seen(j)
  BY <1>1, <1>2, StatusListed DEF Rests, HandedOver, Seen
<1>3. stopped = "no" /\ stopped' = "no"
  BY DEF ReportStep, RequestGatekeeper, StartReview, EndReview, RequestDeveloper, IgnoreReport,
         DiscardReport, StartFix, EndFix, Resolve, Resumes, Fires
<1> QED BY <1>1, <1>2, <1>3 DEF SeenAll

LEMMA ReportStepIsSeen ==
  ASSUME Sane, ReleasedIsNext, NEW i \in Reports, ReportStep(i)
  PROVE  Lifecycle!Next \/ UNCHANGED <<SeenAll, stopped>>
<1>1. /\ SeenAll' = [SeenAll EXCEPT ![i] = Seen(i)']
      /\ SeenAll[i] = Seen(i) /\ DOMAIN SeenAll = Reports
      /\ stopped = "no" /\ stopped' = "no"
  BY SeenMoves
<1>2. report[i] \in Report
  BY DEF Sane, TypeOK, ReportsOK
<1>3. ASSUME Seen(i)' = Seen(i) PROVE UNCHANGED <<SeenAll, stopped>>
  BY <1>1, <1>3 DEF SeenAll
<1>4. ASSUME Status(stage[i]) = "open",
             Seen(i)' = [Seen(i) EXCEPT !.visible = Seen(i).true]
      PROVE  Lifecycle!Next
  <2>1. Lifecycle!Correct(i)
    BY <1>1, <1>4 DEF Lifecycle!Correct, SeenAll, Seen
  <2> QED BY <1>1, <2>1 DEF Lifecycle!Next, Lifecycle!Items, SeenAll
<1>5. ASSUME Status(stage[i]) = "inProgress", Seen(i)' = [Seen(i) EXCEPT !.status = "fixed"]
      PROVE  Lifecycle!Next
  <2>1. Lifecycle!Finish(i)
    BY <1>1, <1>5 DEF Lifecycle!Finish, SeenAll, Seen
  <2> QED BY <1>1, <2>1 DEF Lifecycle!Next, Lifecycle!Items, SeenAll
<1>6. ASSUME Status(stage[i]) = "open", Seen(i)' = [Seen(i) EXCEPT !.status = "dropped"]
      PROVE  Lifecycle!Next
  <2>1. Lifecycle!Drop(i)
    BY <1>1, <1>6 DEF Lifecycle!Drop, SeenAll, Seen
  <2> QED BY <1>1, <2>1 DEF Lifecycle!Next, Lifecycle!Items, SeenAll
<1>7. ASSUME stage[i] = "devGranted", i = Head(ready),
             Seen(i)' = [Seen(i) EXCEPT !.status = "inProgress"]
      PROVE  Lifecycle!Next
  <2>1. Lifecycle!InProgress = At({"fix"})
    <3>1. \A j \in Reports : stage[j] # "devReleased"
      BY <1>7 DEF ReleasedIsNext
    <3>2. \A j \in Reports : SeenAll[j].status = "inProgress" <=> stage[j] = "fix"
      BY <3>1 DEF SeenAll, Seen, Status
    <3> QED BY <1>1, <3>2 DEF Lifecycle!InProgress, Lifecycle!Items, SeenAll, Seen, At
  <2>2. Cardinality(At({"fix"})) < TeamCapacity
    <3>1. At({"fix"}) \cup {i} \subseteq DevHolders /\ i \notin At({"fix"})
      BY <1>7 DEF At, DevHolders
    <3>2. /\ IsFiniteSet(At({"fix"})) /\ Cardinality(At({"fix"})) \in Nat
          /\ IsFiniteSet(DevHolders) /\ Cardinality(DevHolders) \in Nat
      BY ReportsAreFinite, FS_CardinalityType DEF Sane, TypeOK, DevHolders
    <3>3. Cardinality(At({"fix"}) \cup {i}) = Cardinality(At({"fix"})) + 1
      BY <3>1, <3>2, FS_AddElement
    <3>4. Cardinality(At({"fix"}) \cup {i}) <= Cardinality(DevHolders)
      BY <3>1, <3>2, FS_Subset
    <3>5. developers.n \in Nat /\ developers.n + Cardinality(DevHolders) = TeamCapacity
      BY DEF Sane, TypeOK, ResourcesOK, QueuesSound, DevSound, Sound
    <3>6. TeamCapacity \in Nat
      BY ConfigAssumption
    <3> QED BY <3>2, <3>3, <3>4, <3>5, <3>6
  <2>3. Status(stage[i]) = "open"
    BY <1>7, StatusListed
  <2>4. Lifecycle!Start(i)
    <3>1. SeenAll[i].status = "open"
      BY <1>1, <2>3 DEF Seen
    <3>2. SeenAll' = [SeenAll EXCEPT ![i].status = "inProgress"]
      BY <1>1, <1>7
    <3>3. Cardinality(Lifecycle!InProgress) < TeamCapacity
      BY <2>1, <2>2
    <3> QED BY <3>1, <3>2, <3>3, SameCardinality DEF Lifecycle!Start, SeenAll, Seen
  <2> QED BY <1>1, <2>4 DEF Lifecycle!Next, Lifecycle!Items, SeenAll
<1>8. CASE RunsOn(i)
  <2>1. /\ report'[i].report_priority = report[i].report_priority
        /\ report'[i].real_priority = report[i].real_priority
    BY <1>2, <1>8 DEF RunsOn, Report
  <2>2. CASE Status(stage'[i]) = Status(stage[i])
    BY <1>3, <2>1, <2>2 DEF Seen
  <2>3. CASE stage[i] = "ignored" /\ stage'[i] = "discarded"
    BY <1>6, <2>1, <2>3, StatusListed DEF Seen
  <2>4. CASE stage[i] = "devGranted" /\ stage'[i] = "fix"
    BY <1>7, <1>8, <2>1, <2>4, StatusListed DEF Seen, RunsOn
  <2>5. CASE stage[i] = "devReleased" /\ stage'[i] = "fixed"
    BY <1>5, <2>1, <2>5, StatusListed DEF Seen
  <2>6. \/ Status(stage'[i]) = Status(stage[i])
        \/ stage[i] = "ignored" /\ stage'[i] = "discarded"
        \/ stage[i] = "devGranted" /\ stage'[i] = "fix"
        \/ stage[i] = "devReleased" /\ stage'[i] = "fixed"
    BY <1>8, StatusListed DEF RunsOn
  <2> QED BY <2>2, <2>3, <2>4, <2>5, <2>6
<1>9. CASE Wakes(i)
  <2>1. CASE stage[i] = "review" /\ stage'[i] = "gkReleased"
    <3>1. \/ report'[i] = report[i]
          \/ report'[i] = [report[i] EXCEPT !.report_priority = report[i].real_priority]
      BY <1>9, <2>1 DEF Wakes
    <3>2. CASE report'[i] = report[i]
      BY <1>3, <2>1, <3>2, StatusListed DEF Seen
    <3>3. CASE report'[i] = [report[i] EXCEPT !.report_priority = report[i].real_priority]
      <4>1. /\ report'[i].report_priority = report[i].real_priority
            /\ report'[i].real_priority = report[i].real_priority
        BY <1>2, <3>3 DEF Report
      <4> QED BY <1>4, <2>1, <4>1, StatusListed DEF Seen
    <3> QED BY <3>1, <3>2, <3>3
  <2>2. CASE stage[i] = "fix" /\ stage'[i] = "devReleased" /\ report'[i] = report[i]
    BY <1>3, <2>2, StatusListed DEF Seen
  <2> QED BY <1>9, <2>1, <2>2 DEF Wakes
<1> QED BY <1>8, <1>9, StepMoves

LEMMA StepIsSeen ==
  ASSUME Sane, ReleasedIsNext, [Next]_vars
  PROVE  [Lifecycle!Next]_<<SeenAll, stopped # "no">>
<1>1. CASE StartReporting
  <2>1. TypeOK /\ TypeOK'
    BY StepTypeOK DEF Sane
  <2> QED BY <1>1, <2>1, FilingIsOpen
<1>2. ASSUME NEW i \in Reports, ReportStep(i) PROVE Lifecycle!Next \/ UNCHANGED <<SeenAll, stopped>>
  BY <1>2, ReportStepIsSeen
<1>3. CASE Control \/ TimeUp
  <2>1. SeenAll' = SeenAll
    BY <1>3, OthersRest DEF Rests, SeenAll, Seen
  <2>2. CASE stopped' = stopped
    BY <2>1, <2>2
  <2>3. CASE stopped' # stopped
    <3>1. stopped = "no" /\ stopped' # "no"
      BY <1>3, <2>3 DEF Control, TimeUp, Fires
    <3> QED BY <2>1, <3>1 DEF Lifecycle!Next, Lifecycle!End, SeenAll, Seen
  <2> QED BY <2>2, <2>3
<1>4. CASE UNCHANGED vars
  <2>1. SeenAll' = SeenAll
    BY <1>4, OthersRest DEF Rests, SeenAll, Seen
  <2> QED BY <1>4, <2>1 DEF vars, scheduler
<1> QED BY <1>1, <1>2, <1>3, <1>4 DEF Next, Finished

(* Every configuration of the reporting process implements the abstract    *)
(* life cycle of a report.                                                 *)
THEOREM ReportingImplementsLifecycle == Spec => ImplementsLifecycle
<1>1. Init => Lifecycle!Init
  BY DEF Init, Lifecycle!Init, Reports
<1>2. Init => ReleasedIsNext
  BY DEF Init, ReleasedIsNext, Reports
<1>3. IInv => Sane
  BY QueuesSoundIsTheInvariant DEF IInv, Sane
<1>4. Sane /\ ReleasedIsNext /\ [Next]_vars => [Lifecycle!Next]_<<SeenAll, stopped # "no">>
  BY StepIsSeen
<1> QED BY <1>1, <1>2, <1>3, <1>4, ReleasedStaysNext, InvariantHolds, PTL
        DEF Spec, ImplementsLifecycle, Lifecycle!Spec, SeenAll, Seen
=============================================================================
