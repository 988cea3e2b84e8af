--------------------------- MODULE MCBugReporting ---------------------------
(***************************************************************************)
(* Values for the constants of BugReporting that a .cfg cannot write.      *)
(***************************************************************************)
EXTENDS BugReporting

NobodyIgnored == [p \in SupportedPriorities |-> 0]
NonSevereIgnored == [p \in SupportedPriorities |-> IF p = NonSevere THEN 40 ELSE 0]
BothIgnored == [p \in SupportedPriorities |-> IF p = NonSevere THEN 60 ELSE 30]

Effort1or2 == [p \in SupportedPriorities |-> {1, 2}]
Effort2 == [p \in SupportedPriorities |-> {2}]
=============================================================================
