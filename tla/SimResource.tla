---------------------------- MODULE SimResource ----------------------------
(***************************************************************************)
(* The SimPy 2.3.1 Resource as the simulation uses it: capacity units, a   *)
(* PriorityQ of waiting processes, no pre-emption.  SimPy is a library, so *)
(* this module is modelled from how simmodel.py uses it (Resource(...,     *)
(* qType=PriorityQ, preemptable=False), yield request, yield release).     *)
(*                                                                         *)
(* A resource is a record [n, waitQ]: the free units and the processes     *)
(* that wait for one, the next to be served first.  A larger number is a   *)
(* higher priority; processes of equal priority are served first come,     *)
(* first served.                                                           *)
(***************************************************************************)
EXTENDS Integers, SequencesExt

NewResource(capacity) == [n |-> capacity, waitQ |-> << >>]

(* PriorityQ.enter: item goes before the first waiter of strictly lower    *)
(* priority, so behind the longest prefix of waiters of its own priority   *)
(* or a higher one.  key[j] is the priority j requests with.               *)
(* Mutant: it goes before those of its own priority, too.                  *)
AheadOfEquals(q, item, key) ==
  {z \in DOMAIN q : \A j \in 1..z : key[q[j]] > key[item]}

Ahead(q, item, key) ==
  {z \in DOMAIN q : \A j \in 1..z : key[q[j]] >= key[item]}

Enter(q, item, key) == InsertAt(q, Cardinality(Ahead(q, item, key)) + 1, item)

(* q holds each member of S once and nothing else.                         *)
Holds(q, S) == IsInjective(q) /\ Range(q) = S

(* The queue is served by priority.                                        *)
Ordered(q, key) == \A j, k \in DOMAIN q : j < k => key[q[j]] >= key[q[k]]

(* yield request: a free unit is taken at once, else the process queues.   *)
Request(res, item, key) ==
  IF res.n = 0 THEN [res EXCEPT !.waitQ = Enter(@, item, key)]
               ELSE [res EXCEPT !.n = @ - 1]

(* Mutant: the unit is handed over and freed.                              *)
ReleaseTwice(res) ==
  [n |-> res.n + 1, waitQ |-> IF res.waitQ = << >> THEN << >> ELSE Tail(res.waitQ)]

(* yield release: the unit goes to the head of the queue, which is woken;  *)
(* it becomes free only when nobody waits.                                 *)
Release(res) ==
  IF res.waitQ = << >> THEN [res EXCEPT !.n = @ + 1]
                       ELSE [res EXCEPT !.waitQ = Tail(@)]

(* The process that a release of res wakes, if any.                        *)
Woken(res) == IF res.waitQ = << >> THEN << >> ELSE <<Head(res.waitQ)>>

(* A resource of the given capacity is sound with respect to the processes *)
(* that hold its units and those that wait for one: no unit is lost or     *)
(* invented, nobody waits twice, and nobody waits while a unit is free.    *)
Sound(res, capacity, holders, waiting) ==
  /\ Holds(res.waitQ, waiting)
  /\ res.n + Cardinality(holders) = capacity
  /\ res.n > 0 => res.waitQ = << >>
=============================================================================
