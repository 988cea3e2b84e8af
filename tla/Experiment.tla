----------------------------- MODULE Experiment -----------------------------
(***************************************************************************)
(* What launching a simulation promises, however the work is divided: it   *)
(* is asked to simulate a configuration, makes independent runs of just    *)
(* that configuration and answers with lists that hold every run once, all *)
(* lists in the same order.  Replications implements it with a pool of     *)
(* processes.                                                              *)
(***************************************************************************)
EXTENDS Integers, Sequences

CONSTANTS Configs, Streams, Measures

VARIABLES
  asked,     \* << >> or what is being simulated, as a sequence of length 1
  runs,      \* the runs made so far
  answered,  \* whether the lists are there
  lists      \* the answer, a list per measure

NoLists == [m \in Measures |-> << >>]

Init == asked = << >> /\ runs = {} /\ answered = FALSE /\ lists = NoLists

Ask ==
  /\ asked = << >>
  /\ \E config \in Configs : asked' = <<config>>
  /\ UNCHANGED <<runs, answered, lists>>

(* A run draws random numbers that no other run of the experiment drew.    *)
Run ==
  /\ asked # << >> /\ ~answered
  /\ \E run \in (runs' \ runs) :
       /\ run.played = asked[1]
       /\ run.stream \in Streams \ {other.stream : other \in runs}
       /\ runs' = runs \cup {run}
  /\ UNCHANGED <<asked, answered, lists>>

(* The lists enumerate the runs, all of them alike.                        *)
Answer ==
  /\ asked # << >> /\ ~answered /\ answered'
  /\ \A m, n \in Measures : lists'[m] = lists'[n]
  /\ \A m \in Measures :
       /\ {lists'[m][i] : i \in DOMAIN lists'[m]} = runs
       /\ \A i, j \in DOMAIN lists'[m] : i # j => lists'[m][i] # lists'[m][j]
  /\ UNCHANGED <<asked, runs>>

TakeAnswer ==
  /\ answered
  /\ asked' = << >> /\ runs' = {} /\ ~answered' /\ lists' = NoLists

Next == Ask \/ Run \/ Answer \/ TakeAnswer

Spec == Init /\ [][Next]_<<asked, runs, answered, lists>>
=============================================================================
