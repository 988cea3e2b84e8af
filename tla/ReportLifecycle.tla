-------------------------- MODULE ReportLifecycle --------------------------
(***************************************************************************)
(* What the reporting process promises, whatever the mechanism: reports    *)
(* are opened, at most Capacity of them are worked on at a time, work that *)
(* was started is finished (no pre-emption), a report ends fixed or        *)
(* dropped and stays so, and its visible priority changes only once, before*)
(* the work, and only to the true one.                                     *)
(***************************************************************************)
EXTENDS Integers, FiniteSets

CONSTANTS
  Capacity,    \* how many reports are worked on at a time, at least 1
  Priorities

VARIABLES
  item,   \* item[i]: status, visible and true priority of report i
  ended   \* the tracking period is over

Items == DOMAIN item
InProgress == {i \in Items : item[i].status = "inProgress"}

Init == item = << >> /\ ended = FALSE

Item == [status : {"open", "inProgress", "fixed", "dropped"},
         visible : Priorities, true : Priorities]

Open ==
  /\ Items \subseteq DOMAIN item' /\ item' \in [DOMAIN item' -> Item]
  /\ \A i \in DOMAIN item' :
       IF i \in Items THEN item'[i] = item[i] ELSE item'[i].status = "open"

Correct(i) ==
  /\ item[i].status = "open"
  /\ item' = [item EXCEPT ![i].visible = item[i].true]

Start(i) ==
  /\ item[i].status = "open" /\ Cardinality(InProgress) < Capacity
  /\ item' = [item EXCEPT ![i].status = "inProgress"]

Finish(i) ==
  /\ item[i].status = "inProgress"
  /\ item' = [item EXCEPT ![i].status = "fixed"]

Drop(i) ==
  /\ item[i].status = "open"
  /\ item' = [item EXCEPT ![i].status = "dropped"]

End == ended' = TRUE /\ UNCHANGED item

Next ==
  /\ ~ended
  /\ \/ UNCHANGED ended /\ Open
     \/ UNCHANGED ended /\ \E i \in Items : Correct(i) \/ Start(i) \/ Finish(i) \/ Drop(i)
     \/ End

Spec == Init /\ [][Next]_<<item, ended>>
=============================================================================
