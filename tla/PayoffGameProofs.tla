-------------------------- MODULE PayoffGameProofs --------------------------
(***************************************************************************)
(* The launcher and the payoffs of the bug reporting game, for every pool  *)
(* of processes and every number of blocks, teams, players and strategies. *)
(*                                                                         *)
(* Of one launch: each block is in one place, the lists stay in step, the  *)
(* runs are independent of each other, and the launch implements           *)
(* Experiment. It asks, each run of a process is a run of the experiment,  *)
(* and the answer is there when the last block is collected; taking and    *)
(* returning blocks and collecting the others are not seen by the caller.  *)
(* Of a game: it launches as the launcher's specification allows, and each *)
(* payoff comes from runs of its own profile.                              *)
(***************************************************************************)
EXTENDS PayoffGame, NumberLemmas

(* Outputs are collected only when all blocks are back.                    *)
CollectedAfterMap == collected > 0 => returned = Blocks

PlaceInv == PoolTypeOK /\ BlocksInOnePlace /\ CollectedAfterMap

Inputs == [reporters_config : ReporterConfigs, max_iterations : Nat]

-----------------------------------------------------------------------------
(* Types.                                                                  *)

LEMMA NoResultsType == NoResults \in ResultLists
BY DEF NoResults, ResultLists

LEMMA ExtendType ==
  ASSUME NEW a \in ResultLists, NEW b \in ResultLists
  PROVE  /\ Extend(a, b) \in ResultLists
         /\ \A m \in Metrics : Extend(a, b)[m] = a[m] \o b[m]
BY DEF Extend, ResultLists

LEMMA SamplesPerWorkerType ==
  ASSUME NEW n \in Nat, NEW b \in Nat \ {0} PROVE SamplesPerWorker(n, b) \in Nat
BY DEF SamplesPerWorker

LEMMA AssignedHasOutput ==
  ASSUME PoolTypeOK, NEW p \in Processes, assigned[p] # 0
  PROVE  /\ assigned[p] \in Blocks
         /\ worker_inputs[assigned[p]] \in Inputs
         /\ worker_outputs[assigned[p]] \in ResultLists
<1>1. worker_inputs \in Seq(Inputs) /\ worker_outputs \in Seq(ResultLists)
  BY DEF PoolTypeOK, Inputs
<1>2. assigned[p] \in 1..Len(worker_inputs) /\ Len(worker_outputs) = Len(worker_inputs)
  BY <1>1 DEF PoolTypeOK
<1>3. QED
  BY <1>1, <1>2 DEF Blocks

(* When every block is back no process works on one.                       *)
LEMMA NobodyWorksAfterMap ==
  ASSUME PoolTypeOK, BlocksInOnePlace, returned = Blocks
  PROVE  \A p \in Processes : assigned[p] = 0
<1>1. {assigned[p] : p \in Processes} \ {0} = {}
  BY DEF BlocksInOnePlace, PoolTypeOK, Blocks
<1>2. QED
  BY <1>1

LEMMA PoolInitHolds == ASSUME PoolInit PROVE PlaceInv
<1>1. /\ seeds \in Nat /\ pool = {} /\ worker_inputs = << >> /\ handed_out = 0
      /\ worker_outputs = << >> /\ returned = {} /\ collected = 0
  BY DEF PoolInit
<1>2. rng \in [Processes -> RandomStates] /\ assigned = [p \in Processes |-> 0]
  BY DEF PoolInit, RandomStates
<1>3. results \in ResultLists
  BY NoResultsType DEF PoolInit
<1>4. PoolTypeOK
  BY <1>1, <1>2, <1>3 DEF PoolTypeOK, Blocks
<1>5. BlocksInOnePlace
  BY <1>1, <1>2 DEF BlocksInOnePlace
<1>6. QED
  BY <1>1, <1>4, <1>5 DEF PlaceInv, CollectedAfterMap

LEMMA LaunchKeepsPlace ==
  ASSUME PlaceInv, NEW config \in ReporterConfigs, NEW n \in MaxIterations,
         NEW parallel \in BOOLEAN, Launch(config, n, parallel)
  PROVE  PlaceInv'
<1> DEFINE blocks == IF parallel THEN ParallelBlocks ELSE 1
           input == [reporters_config |-> config, max_iterations |-> SamplesPerWorker(n, blocks)]
<1>1. blocks \in Nat \ {0} /\ n \in Nat
  BY PoolAssumption
<1>2. input \in Inputs
  BY <1>1, SamplesPerWorkerType DEF Inputs
<1>3. worker_inputs' = [b \in 1..blocks |-> input] /\ worker_outputs' = [b \in 1..blocks |-> NoResults]
  BY DEF Launch
<1>4. /\ worker_inputs' \in Seq(Inputs) /\ Len(worker_inputs') = blocks
      /\ worker_outputs' \in Seq(ResultLists) /\ Len(worker_outputs') = blocks
  <2> HIDE DEF blocks, input
  <2>1. QED
    BY <1>1, <1>2, <1>3, NoResultsType
<1>5. \A p \in Processes : assigned'[p] = 0
  BY DEF PlaceInv, PoolTypeOK, Launch, Launched
<1>6. assigned' \in [Processes -> {0}]
  BY <1>5 DEF PlaceInv, PoolTypeOK, Launch
<1>7. /\ rng' = rng /\ seeds' = seeds /\ pool' \in {{Main}, Workers}
      /\ handed_out' = 0 /\ returned' = {} /\ collected' = 0 /\ results' \in ResultLists
  BY NoResultsType DEF Launch
<1>8. PoolTypeOK'
  <2> HIDE DEF blocks
  <2>1. 0 \in 0..Len(worker_inputs')
    BY <1>1, <1>4
  <2>2. QED
    BY <2>1, <1>4, <1>6, <1>7 DEF PoolTypeOK, PlaceInv, Blocks, Inputs
<1>9. BlocksInOnePlace'
  BY <1>5, <1>7 DEF BlocksInOnePlace
<1>10. QED
  BY <1>7, <1>8, <1>9 DEF PlaceInv, CollectedAfterMap

LEMMA TakeBlockKeepsPlace ==
  ASSUME PlaceInv, NEW p \in Processes, TakeBlock(p)
  PROVE  PlaceInv'
<1>1. /\ assigned \in [Processes -> 0..Len(worker_inputs)] /\ assigned[p] = 0 /\ p \in pool
      /\ handed_out \in 0..Len(worker_inputs) /\ handed_out < Len(worker_inputs)
      /\ Len(worker_inputs) \in Nat
  BY DEF PlaceInv, PoolTypeOK, TakeBlock
<1>2. /\ handed_out' = handed_out + 1
      /\ assigned' = [assigned EXCEPT ![p] = handed_out + 1]
      /\ UNCHANGED <<rng, seeds, pool, worker_inputs, worker_outputs, returned, collected, results>>
  BY DEF TakeBlock
<1>3. handed_out' \in 0..Len(worker_inputs)' /\ assigned' \in [Processes -> 0..Len(worker_inputs)']
  BY <1>1, <1>2
<1>4. PoolTypeOK'
  BY <1>2, <1>3 DEF PlaceInv, PoolTypeOK, Blocks
<1>5. BlocksInOnePlace'
  <2>1. /\ \A q \in Processes : assigned[q] # handed_out + 1
        /\ returned \subseteq 1..handed_out
    <3>1. returned \subseteq 1..handed_out
      BY DEF PlaceInv, BlocksInOnePlace
    <3>2. \A q \in Processes : assigned[q] # 0 => assigned[q] \in 1..handed_out
      BY DEF PlaceInv, BlocksInOnePlace
    <3>3. QED
      BY <1>1, <3>1, <3>2
  <2>2. \A q, r \in Processes : q # r /\ assigned'[q] # 0 => assigned'[q] # assigned'[r]
    BY <1>1, <1>2, <2>1 DEF PlaceInv, BlocksInOnePlace
  <2>3. \A q \in Processes : assigned'[q] # 0 => q \in pool'
    BY <1>1, <1>2 DEF PlaceInv, BlocksInOnePlace
  <2>4. {assigned'[q] : q \in Processes} \ {0} = (1..handed_out') \ returned'
    <3>1. 1..handed_out' = 1..handed_out \cup {handed_out + 1} /\ handed_out + 1 \notin 1..handed_out
      BY <1>1, <1>2
    <3>2. {assigned'[q] : q \in Processes} \ {0} =
             ({assigned[q] : q \in Processes} \ {0}) \cup {handed_out + 1}
      BY <1>1, <1>2
    <3>3. {assigned[q] : q \in Processes} \ {0} = (1..handed_out) \ returned
      BY DEF PlaceInv, BlocksInOnePlace
    <3>4. handed_out + 1 \notin returned
      BY <2>1, <3>1
    <3>5. QED
      BY <1>2, <3>1, <3>2, <3>3, <3>4
  <2>5. returned' \subseteq 1..handed_out'
    BY <1>1, <1>2, <2>1
  <2>6. QED
    BY <2>2, <2>3, <2>4, <2>5 DEF BlocksInOnePlace
<1>6. CollectedAfterMap'
  BY <1>2 DEF PlaceInv, CollectedAfterMap, Blocks
<1>7. QED
  BY <1>4, <1>5, <1>6 DEF PlaceInv

LEMMA ReplicateKeepsPlace ==
  ASSUME PlaceInv, NEW p \in Processes, Replicate(p)
  PROVE  PlaceInv'
<1> DEFINE b == assigned[p]
           run == [played |-> worker_inputs[b].reporters_config, stream |-> Seeded(p)]
           one == [m \in Metrics |-> <<run>>]
<1>1. b # 0 /\ b \in Blocks /\ worker_inputs[b] \in Inputs /\ worker_outputs[b] \in ResultLists
  BY AssignedHasOutput DEF Replicate, PlaceInv
<1>2. Seeded(p) \in RandomStates /\ [Seeded(p) EXCEPT !.used = @ + 1] \in RandomStates
  BY DEF PlaceInv, PoolTypeOK, Seeded, RandomStates
<1>3. run \in Replication
  BY <1>1, <1>2 DEF Replication, Inputs
<1>4. one \in ResultLists
  BY <1>3 DEF ResultLists
<1>5. worker_outputs' = [worker_outputs EXCEPT ![b] = Extend(worker_outputs[b], one)]
  BY DEF Replicate
<1>6. worker_outputs' \in Seq(ResultLists) /\ Len(worker_outputs') = Len(worker_outputs)
  <2> HIDE DEF one, b
  <2>1. worker_outputs \in Seq(ResultLists)
    BY DEF PlaceInv, PoolTypeOK
  <2>2. Extend(worker_outputs[b], one) \in ResultLists
    BY <1>1, <1>4, ExtendType
  <2>3. b \in 1..Len(worker_outputs)
    BY <1>1 DEF PlaceInv, PoolTypeOK, Blocks
  <2>4. QED
    BY <1>5, <2>1, <2>2, <2>3
<1>7. /\ seeds' = seeds + 1 /\ rng' = [rng EXCEPT ![p] = [Seeded(p) EXCEPT !.used = @ + 1]]
      /\ UNCHANGED <<pool, worker_inputs, handed_out, assigned, returned, collected, results>>
  BY DEF Replicate
<1>8. seeds' \in Nat /\ rng' \in [Processes -> RandomStates]
  BY <1>2, <1>7 DEF PlaceInv, PoolTypeOK
<1>9. PoolTypeOK'
  BY <1>6, <1>7, <1>8 DEF PlaceInv, PoolTypeOK, Blocks
<1>10. BlocksInOnePlace' /\ CollectedAfterMap'
  BY <1>7 DEF PlaceInv, BlocksInOnePlace, CollectedAfterMap, Blocks
<1>11. QED
  BY <1>9, <1>10 DEF PlaceInv

LEMMA ReturnBlockKeepsPlace ==
  ASSUME PlaceInv, NEW p \in Processes, ReturnBlock(p)
  PROVE  PlaceInv'
<1> DEFINE b == assigned[p]
<1>1. /\ b # 0 /\ b \in Blocks
      /\ returned' = returned \cup {b} /\ assigned' = [assigned EXCEPT ![p] = 0]
      /\ UNCHANGED <<rng, seeds, pool, worker_inputs, handed_out, worker_outputs, collected, results>>
  BY AssignedHasOutput DEF ReturnBlock, PlaceInv
<1>2. assigned \in [Processes -> 0..Len(worker_inputs)] /\ Len(worker_inputs) \in Nat
  BY DEF PlaceInv, PoolTypeOK
<1>3. PoolTypeOK'
  BY <1>1, <1>2 DEF PlaceInv, PoolTypeOK, Blocks
<1>4. BlocksInOnePlace'
  <2>1. \A q \in Processes : q # p => assigned[q] # b
    BY <1>1 DEF PlaceInv, BlocksInOnePlace
  <2>2. {assigned[q] : q \in Processes} \ {0} = (1..handed_out) \ returned
    BY DEF PlaceInv, BlocksInOnePlace
  <2>3. {assigned'[q] : q \in Processes} \ {0} = ({assigned[q] : q \in Processes} \ {0}) \ {b}
    BY <1>1, <1>2, <2>1
  <2>4. {assigned'[q] : q \in Processes} \ {0} = (1..handed_out') \ returned'
    BY <1>1, <2>2, <2>3
  <2>5. returned' \subseteq 1..handed_out'
    BY <1>1, <2>2 DEF PlaceInv, BlocksInOnePlace
  <2>6. \A q, r \in Processes : q # r /\ assigned'[q] # 0 => assigned'[q] # assigned'[r]
    BY <1>1, <1>2 DEF PlaceInv, BlocksInOnePlace
  <2>7. \A q \in Processes : assigned'[q] # 0 => q \in pool'
    BY <1>1, <1>2 DEF PlaceInv, BlocksInOnePlace
  <2>8. QED
    BY <2>4, <2>5, <2>6, <2>7 DEF BlocksInOnePlace
<1>5. CollectedAfterMap'
  BY <1>1 DEF PlaceInv, CollectedAfterMap, Blocks
<1>6. QED
  BY <1>3, <1>4, <1>5 DEF PlaceInv

LEMMA CollectKeepsPlace ==
  ASSUME PlaceInv, Collect
  PROVE  PlaceInv'
<1>1. /\ collected \in 0..Len(worker_inputs) /\ Len(worker_inputs) \in Nat
      /\ collected < Len(worker_inputs) /\ returned = Blocks
      /\ results' = Extend(results, worker_outputs[collected + 1])
      /\ collected' = collected + 1
      /\ UNCHANGED <<rng, seeds, pool, worker_inputs, handed_out, assigned, worker_outputs, returned>>
  BY DEF Collect, PlaceInv, PoolTypeOK
<1>2. results \in ResultLists /\ worker_outputs[collected + 1] \in ResultLists
  BY <1>1 DEF PlaceInv, PoolTypeOK
<1>3. results' \in ResultLists /\ collected' \in 0..Len(worker_inputs)
  <2>1. results' \in ResultLists
    BY <1>1, <1>2, ExtendType
  <2>2. QED
    BY <1>1, <2>1
<1>4. PoolTypeOK'
  BY <1>1, <1>3 DEF PlaceInv, PoolTypeOK, Blocks
<1>5. BlocksInOnePlace' /\ CollectedAfterMap'
  BY <1>1 DEF PlaceInv, BlocksInOnePlace, CollectedAfterMap, Blocks
<1>6. QED
  BY <1>4, <1>5 DEF PlaceInv

LEMMA ReturnKeepsPlace ==
  ASSUME PlaceInv, Return
  PROVE  PlaceInv'
<1>1. /\ pool' = {} /\ worker_inputs' = << >> /\ worker_outputs' = << >> /\ handed_out' = 0
      /\ returned' = {} /\ collected' = 0 /\ results' = NoResults
      /\ rng' = rng /\ seeds' = seeds /\ assigned' = assigned
  BY DEF Return
<1>2. returned = Blocks
  <2>1. worker_inputs # << >> /\ collected = Len(worker_inputs)
    BY DEF Return, AllCollected, Launched
  <2>2. collected > 0
    BY <2>1 DEF PlaceInv, PoolTypeOK
  <2>3. QED
    BY <2>2 DEF PlaceInv, CollectedAfterMap
<1>3. \A p \in Processes : assigned'[p] = 0
  BY <1>1, <1>2, NobodyWorksAfterMap DEF PlaceInv
<1>4. assigned' \in [Processes -> {0}]
  BY <1>1, <1>3 DEF PlaceInv, PoolTypeOK
<1>5. PoolTypeOK'
  <2>1. /\ rng' \in [Processes -> RandomStates] /\ seeds' \in Nat
        /\ Len(worker_inputs') = 0 /\ Len(worker_outputs') = 0
        /\ worker_outputs' \in Seq(ResultLists) /\ worker_inputs' \in Seq(Inputs)
    BY <1>1 DEF PlaceInv, PoolTypeOK
  <2>2. QED
    BY <1>1, <1>4, <2>1, NoResultsType DEF PoolTypeOK, Blocks, Inputs
<1>6. BlocksInOnePlace' /\ CollectedAfterMap'
  BY <1>1, <1>3 DEF BlocksInOnePlace, CollectedAfterMap
<1>7. QED
  BY <1>5, <1>6 DEF PlaceInv

LEMMA PoolStepsKeepPlace ==
  ASSUME PlaceInv, [PoolNext]_poolVars
  PROVE  PlaceInv'
<1>1. CASE UNCHANGED poolVars
  BY <1>1 DEF poolVars, PlaceInv, PoolTypeOK, BlocksInOnePlace, CollectedAfterMap, Blocks
<1>2. CASE PoolNext
  BY <1>2, LaunchKeepsPlace, TakeBlockKeepsPlace, ReplicateKeepsPlace, ReturnBlockKeepsPlace,
     CollectKeepsPlace, ReturnKeepsPlace DEF PoolNext, PoolStep
<1>3. QED
  BY <1>1, <1>2

(* Every variable of the launcher keeps its type.                          *)
THEOREM PoolTypeCorrect == PoolSpec => []PoolTypeOK
<1>1. PlaceInv => PoolTypeOK
  BY DEF PlaceInv
<1>2. QED
  BY <1>1, PoolInitHolds, PoolStepsKeepPlace, PTL DEF PoolSpec

(* No block is worked on twice, none is lost between the caller and the    *)
(* processes of the pool.                                                  *)
THEOREM BlocksHaveOnePlace == PoolSpec => []BlocksInOnePlace
<1>1. PlaceInv => BlocksInOnePlace
  BY DEF PlaceInv
<1>2. QED
  BY <1>1, PoolInitHolds, PoolStepsKeepPlace, PTL DEF PoolSpec
-----------------------------------------------------------------------------
(* The runs and the lists.                                                 *)

(* Every run was seeded with one of the seeds handed out.                  *)
SeedsHandedOut ==
  \A b \in Blocks, m \in Metrics :
    \A i \in DOMAIN worker_outputs[b][m] : worker_outputs[b][m][i].stream.seed <= seeds

(* Different entries of the blocks' lists are different runs.              *)
OutputsDistinct ==
  \A b, c \in Blocks, m \in Metrics :
    \A i \in DOMAIN worker_outputs[b][m], j \in DOMAIN worker_outputs[c][m] :
      b # c \/ i # j => worker_outputs[b][m][i].stream # worker_outputs[c][m][j].stream

ResultsDistinct ==
  \A m \in Metrics : \A i, j \in DOMAIN results[m] :
    i # j => results[m][i].stream # results[m][j].stream

OutputsInStep ==
  \A b \in Blocks : \A m, n \in Metrics : worker_outputs[b][m] = worker_outputs[b][n]
ResultsInStep == \A m, n \in Metrics : results[m] = results[n]

(* The results are the runs of the blocks collected so far.                *)
ResultsFromBlocks ==
  \A m \in Metrics : \A i \in DOMAIN results[m] :
    \E b \in 1..collected : \E j \in DOMAIN worker_outputs[b][m] :
      results[m][i] = worker_outputs[b][m][j]
BlocksInResults ==
  \A m \in Metrics : \A b \in 1..collected : \A j \in DOMAIN worker_outputs[b][m] :
    \E i \in DOMAIN results[m] : results[m][i] = worker_outputs[b][m][j]

(* All blocks simulate the configuration of the launch.                    *)
OneConfig ==
  \A b \in Blocks :
    /\ worker_inputs[b].reporters_config = worker_inputs[1].reporters_config
    /\ \A m \in Metrics : \A i \in DOMAIN worker_outputs[b][m] :
         worker_outputs[b][m][i].played = worker_inputs[1].reporters_config

RunInv ==
  /\ PlaceInv /\ SeedsHandedOut /\ OutputsDistinct /\ ResultsDistinct /\ OutputsInStep
  /\ ResultsInStep /\ ResultsFromBlocks /\ BlocksInResults /\ OneConfig

LEMMA RunInvGives == RunInv => ListsInStep /\ RunsIndependent
<1>1. ASSUME RunInv PROVE ListsInStep
  BY <1>1 DEF RunInv, OutputsInStep, ResultsInStep, ListsInStep
<1>2. ASSUME RunInv PROVE RunsIndependent
  BY <1>2 DEF RunInv, OutputsDistinct, ResultsDistinct, RunsIndependent
<1>3. QED
  BY <1>1, <1>2

(* With nothing launched there is nothing to say about runs.               *)
LEMMA NothingLaunched ==
  ASSUME worker_inputs = << >>, collected = 0, results = NoResults
  PROVE  /\ SeedsHandedOut /\ OutputsDistinct /\ ResultsDistinct /\ OutputsInStep
         /\ ResultsInStep /\ ResultsFromBlocks /\ BlocksInResults /\ OneConfig
<1>1. Blocks = {} /\ 1..collected = {} /\ \A m \in Metrics : results[m] = << >> /\ DOMAIN results[m] = {}
  BY DEF Blocks, NoResults
<1>2. QED
  BY <1>1 DEF SeedsHandedOut, OutputsDistinct, ResultsDistinct, OutputsInStep, ResultsInStep,
     ResultsFromBlocks, BlocksInResults, OneConfig

LEMMA RunInit == ASSUME PoolInit PROVE RunInv
BY PoolInitHolds, NothingLaunched DEF PoolInit, RunInv

LEMMA LaunchKeepsRuns ==
  ASSUME RunInv, NEW config \in ReporterConfigs, NEW n \in MaxIterations,
         NEW parallel \in BOOLEAN, Launch(config, n, parallel)
  PROVE  RunInv'
<1> DEFINE blocks == IF parallel THEN ParallelBlocks ELSE 1
<1>1. PlaceInv'
  BY LaunchKeepsPlace DEF RunInv
<1>2. /\ blocks \in Nat \ {0} /\ Blocks' = 1..blocks /\ collected' = 0 /\ results' = NoResults
      /\ \A b \in 1..blocks : /\ worker_inputs'[b].reporters_config = config
                              /\ worker_outputs'[b] = NoResults
  BY PoolAssumption DEF Launch, Blocks
<1>3. \A b \in Blocks', m \in Metrics : worker_outputs'[b][m] = << >> /\ DOMAIN worker_outputs'[b][m] = {}
  BY <1>2 DEF NoResults
<1>4. \A m \in Metrics : results'[m] = << >> /\ DOMAIN results'[m] = {}
  BY <1>2 DEF NoResults
<1>5. 1..collected' = {} /\ 1 \in Blocks'
  BY <1>2
<1>6. SeedsHandedOut' /\ OutputsDistinct' /\ OutputsInStep'
  BY <1>3 DEF SeedsHandedOut, OutputsDistinct, OutputsInStep
<1>7. ResultsDistinct' /\ ResultsInStep' /\ ResultsFromBlocks' /\ BlocksInResults'
  BY <1>4, <1>5 DEF ResultsDistinct, ResultsInStep, ResultsFromBlocks, BlocksInResults
<1>8. OneConfig'
  BY <1>2, <1>3, <1>5 DEF OneConfig
<1>9. QED
  BY <1>1, <1>6, <1>7, <1>8 DEF RunInv

LEMMA AppendEntries ==
  ASSUME NEW S, NEW s \in Seq(S), NEW e \in S, NEW i \in DOMAIN Append(s, e)
  PROVE  \/ i \in DOMAIN s /\ Append(s, e)[i] = s[i]
         \/ i = Len(s) + 1 /\ Append(s, e)[i] = e
OBVIOUS

(* A run is appended to every list of one block and to nothing else.       *)
LEMMA ReplicateAppends ==
  ASSUME PlaceInv, NEW p \in Processes, Replicate(p)
  PROVE  LET b == assigned[p]
             run == [played |-> worker_inputs[b].reporters_config, stream |-> Seeded(p)]
         IN  /\ b \in Blocks /\ Blocks' = Blocks /\ run \in Replication
             /\ \A c \in Blocks, m \in Metrics :
                  /\ worker_outputs[c][m] \in Seq(Replication)
                  /\ worker_outputs'[c][m] =
                       IF c = b THEN Append(worker_outputs[c][m], run) ELSE worker_outputs[c][m]
<1> DEFINE b == assigned[p]
           run == [played |-> worker_inputs[b].reporters_config, stream |-> Seeded(p)]
           one == [m \in Metrics |-> <<run>>]
<1>1. /\ b \in Blocks /\ worker_inputs[b] \in Inputs
      /\ worker_outputs' = [worker_outputs EXCEPT ![b] = Extend(worker_outputs[b], one)]
      /\ Blocks' = Blocks
  BY AssignedHasOutput DEF Replicate, PlaceInv, Blocks
<1>2. run \in Replication
  <2>1. Seeded(p) \in RandomStates
    BY DEF PlaceInv, PoolTypeOK, Seeded, RandomStates
  <2>2. QED
    BY <1>1, <2>1 DEF Replication, Inputs
<1>3. \A c \in Blocks : c \in 1..Len(worker_outputs) /\ worker_outputs[c] \in ResultLists
  BY DEF PlaceInv, PoolTypeOK, Blocks
<1>4. \A c \in Blocks, m \in Metrics : worker_outputs[c][m] \in Seq(Replication)
  BY <1>3 DEF ResultLists
<1>5. \A m \in Metrics : Extend(worker_outputs[b], one)[m] = Append(worker_outputs[b][m], run)
  <2> HIDE DEF run, b
  <2>1. TAKE m \in Metrics
  <2>2. Extend(worker_outputs[b], one)[m] = worker_outputs[b][m] \o <<run>>
    BY DEF Extend
  <2>3. QED
    BY <1>1, <1>2, <1>4, <2>2
<1>6. worker_outputs \in Seq(ResultLists)
  BY DEF PlaceInv, PoolTypeOK
<1>7. \A c \in Blocks : worker_outputs'[c] =
         IF c = b THEN Extend(worker_outputs[b], one) ELSE worker_outputs[c]
  <2> HIDE DEF one, b
  <2>1. QED
    BY <1>1, <1>3, <1>6
<1>8. QED
  <2> HIDE DEF one, run, b
  <2>1. \A c \in Blocks, m \in Metrics :
          worker_outputs'[c][m] =
            IF c = b THEN Append(worker_outputs[c][m], run) ELSE worker_outputs[c][m]
    BY <1>5, <1>7
  <2>2. QED
    BY <1>1, <1>2, <1>4, <2>1 DEF run, b

(* While a process makes runs nothing is collected.                        *)
LEMMA NothingCollectedYet ==
  ASSUME PlaceInv, NEW p \in Processes, assigned[p] # 0
  PROVE  collected = 0
<1>1. collected \in Nat
  BY DEF PlaceInv, PoolTypeOK
<1>2. ~(collected > 0)
  BY NobodyWorksAfterMap DEF PlaceInv, CollectedAfterMap
<1>3. QED
  BY <1>1, <1>2

LEMMA ReplicateKeepsRuns ==
  ASSUME RunInv, NEW p \in Processes, Replicate(p)
  PROVE  RunInv'
<1> DEFINE b == assigned[p]
           run == [played |-> worker_inputs[b].reporters_config, stream |-> Seeded(p)]
<1>1. PlaceInv /\ PlaceInv'
  BY ReplicateKeepsPlace DEF RunInv
<1>2. /\ b \in Blocks /\ Blocks' = Blocks /\ run \in Replication
      /\ \A c \in Blocks, m \in Metrics :
           /\ worker_outputs[c][m] \in Seq(Replication)
           /\ worker_outputs'[c][m] =
                IF c = b THEN Append(worker_outputs[c][m], run) ELSE worker_outputs[c][m]
  BY <1>1, ReplicateAppends
<1>3. /\ seeds' = seeds + 1 /\ seeds \in Nat /\ run.stream.seed = seeds + 1
      /\ run.played = worker_inputs[b].reporters_config
      /\ worker_inputs' = worker_inputs /\ results' = results /\ collected' = 0 /\ collected = 0
  BY <1>1, NothingCollectedYet DEF Replicate, Seeded, PlaceInv, PoolTypeOK
<1> HIDE DEF run, b
<1>4. \A c \in Blocks, m \in Metrics : \A i \in DOMAIN worker_outputs'[c][m] :
        \/ /\ i \in DOMAIN worker_outputs[c][m]
           /\ worker_outputs'[c][m][i] = worker_outputs[c][m][i]
        \/ /\ c = b /\ i = Len(worker_outputs[c][m]) + 1
           /\ worker_outputs'[c][m][i] = run
  <2>1. TAKE c \in Blocks, m \in Metrics
  <2>2. CASE c = b
    <3>1. /\ worker_outputs'[c][m] = Append(worker_outputs[c][m], run)
          /\ worker_outputs[c][m] \in Seq(Replication) /\ run \in Replication
      BY <1>2, <2>2
    <3>2. \A i \in DOMAIN Append(worker_outputs[c][m], run) :
            \/ /\ i \in DOMAIN worker_outputs[c][m]
               /\ Append(worker_outputs[c][m], run)[i] = worker_outputs[c][m][i]
            \/ /\ i = Len(worker_outputs[c][m]) + 1
               /\ Append(worker_outputs[c][m], run)[i] = run
      BY <3>1, AppendEntries
    <3>3. QED
      BY <2>2, <3>1, <3>2
  <2>3. CASE c # b
    BY <1>2, <2>3
  <2>4. QED
    BY <2>2, <2>3
<1>5. \A c \in Blocks, m \in Metrics : \A i \in DOMAIN worker_outputs[c][m] :
        /\ worker_outputs[c][m][i] \in Replication
        /\ worker_outputs[c][m][i].stream.seed \in Nat
        /\ worker_outputs[c][m][i].stream.seed <= seeds
        /\ worker_outputs[c][m][i].stream # run.stream
  <2>1. \A c \in Blocks, m \in Metrics : \A i \in DOMAIN worker_outputs[c][m] :
          worker_outputs[c][m][i] \in Replication
    BY <1>2
  <2>2. QED
    BY <1>3, <2>1 DEF RunInv, SeedsHandedOut, Replication, RandomStates
<1>6. SeedsHandedOut'
  BY <1>2, <1>3, <1>4, <1>5 DEF SeedsHandedOut
<1>7. OutputsDistinct'
  <2>1. SUFFICES ASSUME NEW c \in Blocks, NEW d \in Blocks, NEW m \in Metrics,
                        NEW i \in DOMAIN worker_outputs'[c][m],
                        NEW j \in DOMAIN worker_outputs'[d][m], c # d \/ i # j
                 PROVE  worker_outputs'[c][m][i].stream # worker_outputs'[d][m][j].stream
    BY <1>2 DEF OutputsDistinct
  <2>2. CASE i \in DOMAIN worker_outputs[c][m] /\ j \in DOMAIN worker_outputs[d][m]
             /\ worker_outputs'[c][m][i] = worker_outputs[c][m][i]
             /\ worker_outputs'[d][m][j] = worker_outputs[d][m][j]
    BY <2>1, <2>2 DEF RunInv, OutputsDistinct
  <2>3. CASE /\ i \in DOMAIN worker_outputs[c][m]
             /\ worker_outputs'[c][m][i] = worker_outputs[c][m][i]
             /\ worker_outputs'[d][m][j] = run
    BY <1>5, <2>3
  <2>4. CASE /\ j \in DOMAIN worker_outputs[d][m]
             /\ worker_outputs'[d][m][j] = worker_outputs[d][m][j]
             /\ worker_outputs'[c][m][i] = run
    BY <1>5, <2>4
  <2>5. CASE c = b /\ d = b /\ i = Len(worker_outputs[c][m]) + 1
             /\ j = Len(worker_outputs[d][m]) + 1
    BY <2>1, <2>5
  <2>6. QED
    BY <1>4, <2>2, <2>3, <2>4, <2>5
<1>8. OutputsInStep'
  BY <1>2 DEF RunInv, OutputsInStep
<1>9. ResultsDistinct' /\ ResultsInStep'
  BY <1>3 DEF RunInv, ResultsDistinct, ResultsInStep
<1>10. ResultsFromBlocks' /\ BlocksInResults'
  <2>1. 1..collected = {}
    BY <1>3
  <2>2. QED
    BY <1>3, <2>1 DEF RunInv, ResultsFromBlocks, BlocksInResults
<1>11. OneConfig'
  BY <1>2, <1>3, <1>4 DEF RunInv, OneConfig
<1>12. QED
  BY <1>1, <1>6, <1>7, <1>8, <1>9, <1>10, <1>11 DEF RunInv

(* What collecting a block does to the results, entry by entry.            *)
LEMMA CollectAppends ==
  ASSUME PlaceInv, Collect, NEW m \in Metrics
  PROVE  LET out == worker_outputs[collected + 1][m]
         IN  /\ collected + 1 \in Blocks /\ collected' = collected + 1
             /\ out \in Seq(Replication) /\ results[m] \in Seq(Replication)
             /\ results'[m] = results[m] \o out
             /\ \A i \in DOMAIN results[m] :
                  i \in DOMAIN results'[m] /\ results'[m][i] = results[m][i]
             /\ \A j \in DOMAIN out :
                  Len(results[m]) + j \in DOMAIN results'[m] /\ results'[m][Len(results[m]) + j] = out[j]
             /\ \A i \in DOMAIN results'[m] :
                  i \in DOMAIN results[m] \/ (i - Len(results[m]) \in DOMAIN out /\ i > Len(results[m]))
<1> DEFINE out == worker_outputs[collected + 1][m]
<1>1. /\ collected \in Nat /\ collected + 1 \in 1..Len(worker_inputs) /\ collected' = collected + 1
      /\ results' = Extend(results, worker_outputs[collected + 1])
  BY DEF PlaceInv, PoolTypeOK, Collect
<1>2. results \in ResultLists /\ worker_outputs[collected + 1] \in ResultLists
  BY <1>1 DEF PlaceInv, PoolTypeOK
<1>3. out \in Seq(Replication) /\ results[m] \in Seq(Replication)
  BY <1>2 DEF ResultLists
<1>4. results'[m] = results[m] \o out
  BY <1>1 DEF Extend
<1>5. collected + 1 \in Blocks
  BY <1>1 DEF PlaceInv, PoolTypeOK, Blocks
<1> HIDE DEF out
<1>6. \A i \in DOMAIN results[m] : i \in DOMAIN results'[m] /\ results'[m][i] = results[m][i]
  BY <1>3, <1>4
<1>7. \A j \in DOMAIN out :
        Len(results[m]) + j \in DOMAIN results'[m] /\ results'[m][Len(results[m]) + j] = out[j]
  BY <1>3, <1>4
<1>8. \A i \in DOMAIN results'[m] :
        i \in DOMAIN results[m] \/ (i - Len(results[m]) \in DOMAIN out /\ i > Len(results[m]))
  BY <1>3, <1>4
<1>9. QED
  BY <1>1, <1>3, <1>4, <1>5, <1>6, <1>7, <1>8 DEF out

LEMMA CollectKeepsRuns ==
  ASSUME RunInv, Collect
  PROVE  RunInv'
<1>1. PlaceInv /\ PlaceInv'
  BY CollectKeepsPlace DEF RunInv
<1>2. /\ UNCHANGED <<seeds, worker_inputs, worker_outputs>> /\ Blocks' = Blocks
      /\ collected \in Nat /\ 1..collected \subseteq Blocks
      /\ collected' = collected + 1
  <2>1. UNCHANGED <<seeds, worker_inputs, worker_outputs>> /\ Blocks' = Blocks /\ collected' = collected + 1
    BY DEF Collect, Blocks
  <2>2. collected \in 0..Len(worker_inputs) /\ Blocks = 1..Len(worker_inputs) /\ Len(worker_inputs) \in Nat
    BY <1>1 DEF PlaceInv, PoolTypeOK, Blocks
  <2>3. QED
    BY <2>1, <2>2
<1>3. SeedsHandedOut' /\ OutputsDistinct' /\ OutputsInStep' /\ OneConfig'
  BY <1>2 DEF RunInv, SeedsHandedOut, OutputsDistinct, OutputsInStep, OneConfig
<1>4. ResultsInStep'
  <2>1. \A m, n \in Metrics : worker_outputs[collected + 1][m] = worker_outputs[collected + 1][n]
    BY <1>1, CollectAppends DEF RunInv, OutputsInStep
  <2>2. \A m \in Metrics : results'[m] = results[m] \o worker_outputs[collected + 1][m]
    BY <1>1, CollectAppends
  <2>3. QED
    BY <2>1, <2>2 DEF RunInv, ResultsInStep
<1>5. ASSUME NEW m \in Metrics
      PROVE  /\ \A i \in DOMAIN results'[m] : \E b \in 1..collected' :
                  \E j \in DOMAIN worker_outputs'[b][m] : results'[m][i] = worker_outputs'[b][m][j]
             /\ \A b \in 1..collected' : \A j \in DOMAIN worker_outputs'[b][m] :
                  \E i \in DOMAIN results'[m] : results'[m][i] = worker_outputs'[b][m][j]
             /\ \A i, j \in DOMAIN results'[m] :
                  i # j => results'[m][i].stream # results'[m][j].stream
  <2> DEFINE out == worker_outputs[collected + 1][m]
             len == Len(results[m])
  <2>1. /\ collected + 1 \in Blocks
        /\ out \in Seq(Replication) /\ results[m] \in Seq(Replication) /\ len \in Nat
        /\ \A i \in DOMAIN results[m] :
             i \in DOMAIN results'[m] /\ results'[m][i] = results[m][i]
        /\ \A j \in DOMAIN out : len + j \in DOMAIN results'[m] /\ results'[m][len + j] = out[j]
        /\ \A i \in DOMAIN results'[m] :
             i \in DOMAIN results[m] \/ (i - len \in DOMAIN out /\ i > len)
    <3>1. results[m] \in Seq(Replication)
      BY <1>1, CollectAppends
    <3>2. len \in Nat
      BY <3>1
    <3>3. QED
      BY <1>1, <3>1, <3>2, CollectAppends
  <2>2. /\ \A i \in DOMAIN results[m] : i \in 1..len
        /\ \A j \in DOMAIN out : j \in Nat \ {0}
    BY <2>1
  <2> HIDE DEF len
  <2>3. \A i \in DOMAIN results'[m] :
          i \in DOMAIN results[m] \/ \E j \in DOMAIN out : i = len + j /\ results'[m][i] = out[j]
    <3>1. TAKE i \in DOMAIN results'[m]
    <3>2. CASE i \in DOMAIN results[m]
      BY <3>2
    <3>3. CASE i - len \in DOMAIN out /\ i > len /\ i \notin DOMAIN results[m]
      <4>1. i \in Int
        <5>1. results'[m] = results[m] \o out
          BY <1>1, CollectAppends
        <5>2. QED
          BY <2>1, <5>1
      <4>2. i = len + (i - len)
        BY <2>1, <4>1
      <4>3. QED
        BY <2>1, <3>3, <4>2
    <3>4. QED
      BY <2>1, <3>2, <3>3
  <2>4. 1..collected' = 1..collected \cup {collected + 1}
    BY <1>2
  <2>5. \A i \in DOMAIN results'[m] : \E b \in 1..collected' :
          \E j \in DOMAIN worker_outputs'[b][m] : results'[m][i] = worker_outputs'[b][m][j]
    BY <1>2, <2>1, <2>3, <2>4 DEF RunInv, ResultsFromBlocks
  <2>6. \A b \in 1..collected' : \A j \in DOMAIN worker_outputs'[b][m] :
          \E i \in DOMAIN results'[m] : results'[m][i] = worker_outputs'[b][m][j]
    <3>1. TAKE b \in 1..collected'
    <3>2. CASE b \in 1..collected
      <4>1. TAKE j \in DOMAIN worker_outputs'[b][m]
      <4>2. PICK i \in DOMAIN results[m] : results[m][i] = worker_outputs[b][m][j]
        BY <1>2, <3>2 DEF RunInv, BlocksInResults
      <4>3. QED
        BY <1>2, <2>1, <4>2
    <3>3. CASE b = collected + 1
      BY <1>2, <2>1, <3>3
    <3>4. QED
      BY <2>4, <3>2, <3>3
  <2>7. \A i \in DOMAIN results[m], j \in DOMAIN out : results[m][i].stream # out[j].stream
    <3>1. TAKE i \in DOMAIN results[m], j \in DOMAIN out
    <3>2. PICK b \in 1..collected : \E k \in DOMAIN worker_outputs[b][m] :
            results[m][i] = worker_outputs[b][m][k]
      BY DEF RunInv, ResultsFromBlocks
    <3>3. b \in Blocks /\ b # collected + 1
      BY <1>2
    <3>4. PICK k \in DOMAIN worker_outputs[b][m] : results[m][i] = worker_outputs[b][m][k]
      BY <3>2
    <3>5. worker_outputs[b][m][k].stream # worker_outputs[collected + 1][m][j].stream
      BY <2>1, <3>3 DEF RunInv, OutputsDistinct
    <3>6. QED
      BY <3>4, <3>5
  <2>8. \A i, j \in DOMAIN out : i # j => out[i].stream # out[j].stream
    BY <2>1 DEF RunInv, OutputsDistinct
  <2>9. \A i, j \in DOMAIN results'[m] : i # j => results'[m][i].stream # results'[m][j].stream
    <3> HIDE DEF out
    <3>1. TAKE i, j \in DOMAIN results'[m]
    <3>2. HAVE i # j
    <3>3. CASE i \in DOMAIN results[m] /\ j \in DOMAIN results[m]
      BY <2>1, <3>2, <3>3 DEF RunInv, ResultsDistinct
    <3>4. CASE i \in DOMAIN results[m] /\ j \notin DOMAIN results[m]
      BY <2>1, <2>3, <2>7, <3>4
    <3>5. CASE i \notin DOMAIN results[m] /\ j \in DOMAIN results[m]
      BY <2>1, <2>3, <2>7, <3>5
    <3>6. CASE i \notin DOMAIN results[m] /\ j \notin DOMAIN results[m]
      <4>1. PICK k \in DOMAIN out : i = len + k /\ results'[m][i] = out[k]
        BY <2>3, <3>6
      <4>2. PICK l \in DOMAIN out : j = len + l /\ results'[m][j] = out[l]
        BY <2>3, <3>6
      <4>3. k # l
        BY <3>2, <4>1, <4>2
      <4>4. QED
        BY <2>8, <4>1, <4>2, <4>3
    <3>7. QED
      BY <3>3, <3>4, <3>5, <3>6
  <2>10. QED
    BY <2>5, <2>6, <2>9
<1>6. ResultsFromBlocks' /\ BlocksInResults' /\ ResultsDistinct'
  BY <1>5 DEF ResultsFromBlocks, BlocksInResults, ResultsDistinct
<1>7. QED
  BY <1>1, <1>3, <1>4, <1>6 DEF RunInv

LEMMA ReturnKeepsRuns ==
  ASSUME RunInv, Return
  PROVE  RunInv'
<1>1. PlaceInv'
  BY ReturnKeepsPlace DEF RunInv
<1>2. worker_inputs' = << >> /\ collected' = 0 /\ results' = NoResults
  BY DEF Return
<1>3. Blocks' = {} /\ 1..collected' = {}
  BY <1>2 DEF Blocks
<1>4. \A m \in Metrics : results'[m] = << >> /\ DOMAIN results'[m] = {}
  BY <1>2 DEF NoResults
<1>5. SeedsHandedOut' /\ OutputsDistinct' /\ OutputsInStep' /\ OneConfig'
  BY <1>3 DEF SeedsHandedOut, OutputsDistinct, OutputsInStep, OneConfig
<1>6. ResultsDistinct' /\ ResultsInStep' /\ ResultsFromBlocks' /\ BlocksInResults'
  BY <1>3, <1>4 DEF ResultsDistinct, ResultsInStep, ResultsFromBlocks, BlocksInResults
<1>7. QED
  BY <1>1, <1>5, <1>6 DEF RunInv

LEMMA PoolStepsKeepRuns ==
  ASSUME RunInv, [PoolNext]_poolVars
  PROVE  RunInv'
<1>1. ASSUME UNCHANGED <<seeds, worker_inputs, worker_outputs, collected, results>>, PlaceInv'
      PROVE  RunInv'
  BY <1>1 DEF RunInv, SeedsHandedOut, OutputsDistinct, OutputsInStep, OneConfig,
     ResultsDistinct, ResultsInStep, ResultsFromBlocks, BlocksInResults, Blocks
<1>2. PlaceInv'
  BY PoolStepsKeepPlace DEF RunInv
<1>3. CASE UNCHANGED poolVars
  BY <1>1, <1>2, <1>3 DEF poolVars
<1>4. ASSUME NEW p \in Processes, TakeBlock(p) \/ ReturnBlock(p) PROVE RunInv'
  BY <1>1, <1>2, <1>4 DEF TakeBlock, ReturnBlock
<1>5. CASE PoolNext
  BY <1>4, <1>5, LaunchKeepsRuns, ReplicateKeepsRuns, CollectKeepsRuns, ReturnKeepsRuns
     DEF PoolNext, PoolStep
<1>6. QED
  BY <1>3, <1>5

(* The strengthened invariant of the runs.                                 *)
THEOREM RunInvHolds == PoolSpec => []RunInv
BY RunInit, PoolStepsKeepRuns, PTL DEF PoolSpec

(* The lists that are read in step are in step.                            *)
THEOREM ListsStayInStep == PoolSpec => []ListsInStep
BY RunInvHolds, RunInvGives, PTL

(* No two runs of a launch draw the same random numbers.                   *)
THEOREM RunsAreIndependent == PoolSpec => []RunsIndependent
BY RunInvHolds, RunInvGives, PTL

-----------------------------------------------------------------------------
(* How many runs there are.                                                *)

BlocksAlike == \A b \in Blocks : worker_inputs[b].max_iterations = worker_inputs[1].max_iterations
ReturnedFull ==
  \A b \in returned, m \in Metrics :
    Len(worker_outputs[b][m]) = worker_inputs[b].max_iterations
ResultsFull ==
  \A m \in Metrics :
    Len(results[m]) = IF collected = 0 THEN 0 ELSE collected * worker_inputs[1].max_iterations

FullInv == RunInv /\ BlocksAlike /\ ReturnedFull /\ ResultsFull

LEMMA FullInit == ASSUME PoolInit PROVE FullInv
BY RunInit DEF PoolInit, FullInv, BlocksAlike, ReturnedFull, ResultsFull, Blocks, NoResults

LEMMA LaunchKeepsFull ==
  ASSUME FullInv, NEW config \in ReporterConfigs, NEW n \in MaxIterations,
         NEW parallel \in BOOLEAN, Launch(config, n, parallel)
  PROVE  FullInv'
<1> DEFINE blocks == IF parallel THEN ParallelBlocks ELSE 1
           input == [reporters_config |-> config, max_iterations |-> SamplesPerWorker(n, blocks)]
<1>1. blocks \in Nat \ {0}
  BY PoolAssumption
<1>2. worker_inputs' = [b \in 1..blocks |-> input] /\ returned' = {} /\ collected' = 0 /\ results' = NoResults
  BY DEF Launch
<1>3. RunInv'
  BY LaunchKeepsRuns DEF FullInv
<1>4. BlocksAlike'
  <2>1. Blocks' = 1..blocks /\ \A b \in 1..blocks : worker_inputs'[b] = input
    BY <1>2 DEF Blocks
  <2>2. 1 \in 1..blocks
    BY <1>1
  <2> HIDE DEF input, blocks
  <2> QED BY <2>1, <2>2 DEF BlocksAlike
<1>5. ReturnedFull'
  BY <1>2 DEF ReturnedFull
<1>6. ResultsFull'
  BY <1>2 DEF ResultsFull, NoResults
<1> QED BY <1>3, <1>4, <1>5, <1>6 DEF FullInv

LEMMA ReplicateKeepsFull ==
  ASSUME FullInv, NEW p \in Processes, Replicate(p)
  PROVE  FullInv'
<1> DEFINE b == assigned[p]
<1>1. RunInv' /\ PlaceInv
  BY ReplicateKeepsRuns DEF FullInv, RunInv
<1>2. /\ b # 0 /\ UNCHANGED <<worker_inputs, returned, collected, results>> /\ Blocks' = Blocks
  BY DEF Replicate, Blocks
<1>3. b \notin returned
  BY <1>1, <1>2 DEF PlaceInv, BlocksInOnePlace
<1>4. \A c \in Blocks, m \in Metrics : c # b => worker_outputs'[c][m] = worker_outputs[c][m]
  <2> HIDE DEF b
  <2> QED BY <1>1, ReplicateAppends, ZenonT(60) DEF b
<1>5. returned \subseteq Blocks
  BY <1>1 DEF PlaceInv, PoolTypeOK
<1>6. BlocksAlike' /\ ResultsFull'
  BY <1>2 DEF FullInv, BlocksAlike, ResultsFull
<1>7. ReturnedFull'
  <2> HIDE DEF b
  <2> QED BY <1>2, <1>3, <1>4, <1>5 DEF FullInv, ReturnedFull
<1> QED BY <1>1, <1>6, <1>7 DEF FullInv

LEMMA ReturnBlockKeepsFull ==
  ASSUME FullInv, NEW p \in Processes, ReturnBlock(p)
  PROVE  FullInv'
<1> DEFINE b == assigned[p]
<1>1. RunInv'
  BY PoolStepsKeepRuns DEF FullInv, PoolNext, PoolStep
<1>2. PlaceInv /\ OutputsInStep
  BY DEF FullInv, RunInv
<1>3. /\ b # 0 /\ returned' = returned \cup {b}
      /\ UNCHANGED <<worker_inputs, worker_outputs, collected, results>> /\ Blocks' = Blocks
      /\ Len(worker_outputs[b]["completed_per_reporter"]) = worker_inputs[b].max_iterations
  BY DEF ReturnBlock, Blocks
<1>4. b \in Blocks
  BY <1>2, <1>3, AssignedHasOutput DEF PlaceInv
<1>5. \A m \in Metrics : worker_outputs[b][m] = worker_outputs[b]["completed_per_reporter"]
  BY <1>2, <1>4 DEF OutputsInStep, Metrics
<1>6. BlocksAlike' /\ ResultsFull'
  BY <1>3 DEF FullInv, BlocksAlike, ResultsFull
<1>7. ReturnedFull'
  <2> HIDE DEF b
  <2>1. \A m \in Metrics : Len(worker_outputs[b][m]) = worker_inputs[b].max_iterations
    BY <1>3, <1>5
  <2> QED BY <1>3, <2>1 DEF FullInv, ReturnedFull
<1> QED BY <1>1, <1>6, <1>7 DEF FullInv

LEMMA CollectKeepsFull ==
  ASSUME FullInv, Collect
  PROVE  FullInv'
<1>1. RunInv' /\ PlaceInv
  BY CollectKeepsRuns DEF FullInv, RunInv
<1>2. /\ UNCHANGED <<worker_inputs, worker_outputs, returned>> /\ Blocks' = Blocks /\ returned = Blocks
  BY DEF Collect, Blocks
<1>3. /\ collected \in Nat /\ collected + 1 \in Blocks /\ 1 \in Blocks
      /\ worker_inputs[1].max_iterations \in Nat
  <2>1. /\ collected \in 0..Len(worker_inputs) /\ Len(worker_inputs) \in Nat
        /\ collected < Len(worker_inputs) /\ worker_inputs \in Seq(Inputs)
    BY <1>1 DEF PlaceInv, PoolTypeOK, Collect, Inputs
  <2>2. 1 \in 1..Len(worker_inputs)
    BY <2>1
  <2>3. worker_inputs[1] \in Inputs
    BY <2>1, <2>2
  <2> QED BY <2>1, <2>2, <2>3 DEF Blocks, Inputs
<1>4. BlocksAlike' /\ ReturnedFull'
  BY <1>2 DEF FullInv, BlocksAlike, ReturnedFull
<1>5. ASSUME NEW m \in Metrics
      PROVE  Len(results'[m]) = IF collected' = 0 THEN 0 ELSE collected' * worker_inputs'[1].max_iterations
  <2> DEFINE out == worker_outputs[collected + 1][m]
             size == worker_inputs[1].max_iterations
  <2>1. /\ out \in Seq(Replication) /\ results[m] \in Seq(Replication)
        /\ results'[m] = results[m] \o out /\ collected' = collected + 1
    BY <1>1, CollectAppends
  <2>2. Len(out) = size
    BY <1>2, <1>3 DEF FullInv, BlocksAlike, ReturnedFull
  <2>3. Len(results[m]) = IF collected = 0 THEN 0 ELSE collected * size
    BY DEF FullInv, ResultsFull
  <2> HIDE DEF out, size
  <2>4. Len(results'[m]) = Len(results[m]) + size
    <3> DEFINE old == results[m]
    <3>1. old \in Seq(Replication) /\ out \in Seq(Replication)
      BY <2>1
    <3> HIDE DEF old
    <3>2. Len(old \o out) = Len(old) + Len(out)
      BY <3>1
    <3> QED BY <2>1, <2>2, <3>2 DEF old
  <2>5. size \in Nat /\ (collected + 1) * size = collected * size + size
    BY <1>3 DEF size
  <2>6. (collected = 0 => collected * size = 0) /\ collected + 1 # 0
    BY <1>3, <2>5
  <2>7. Len(results'[m]) = (collected + 1) * size
    BY <2>3, <2>4, <2>5, <2>6
  <2> QED BY <1>2, <2>1, <2>6, <2>7 DEF size
<1>6. ResultsFull'
  BY <1>5 DEF ResultsFull
<1> QED BY <1>1, <1>4, <1>6 DEF FullInv

LEMMA PoolStepsKeepFull ==
  ASSUME FullInv, [PoolNext]_poolVars
  PROVE  FullInv'
<1>1. RunInv'
  BY PoolStepsKeepRuns DEF FullInv
<1>2. ASSUME UNCHANGED <<worker_inputs, worker_outputs, returned, collected, results>> PROVE FullInv'
  BY <1>1, <1>2 DEF FullInv, BlocksAlike, ReturnedFull, ResultsFull, Blocks
<1>3. CASE UNCHANGED poolVars
  BY <1>2, <1>3 DEF poolVars
<1>4. ASSUME NEW p \in Processes, TakeBlock(p) PROVE FullInv'
  BY <1>2, <1>4 DEF TakeBlock
<1>5. CASE Return
  <2>1. worker_inputs' = << >> /\ returned' = {} /\ collected' = 0 /\ results' = NoResults
    BY <1>5 DEF Return
  <2> QED BY <1>1, <2>1 DEF FullInv, BlocksAlike, ReturnedFull, ResultsFull, Blocks, NoResults
<1> QED BY <1>3, <1>4, <1>5, LaunchKeepsFull, ReplicateKeepsFull, ReturnBlockKeepsFull, CollectKeepsFull
        DEF PoolNext, PoolStep

(* When the blocks are collected every run is there: as many as the blocks *)
(* times what a block was asked for (launch_simulation_parallel).          *)
THEOREM NoRunIsLost ==
  PoolSpec => [](AllCollected => \A m \in Metrics :
                   Len(results[m]) = Len(worker_inputs) * worker_inputs[1].max_iterations)
<1>1. FullInv /\ AllCollected =>
        \A m \in Metrics : Len(results[m]) = Len(worker_inputs) * worker_inputs[1].max_iterations
  <2>1. FullInv /\ AllCollected => collected = Len(worker_inputs) /\ collected # 0
    <3>1. FullInv => worker_inputs \in Seq(Inputs)
      BY DEF FullInv, RunInv, PlaceInv, PoolTypeOK, Inputs
    <3> QED BY <3>1 DEF AllCollected, Launched
  <2> QED BY <2>1 DEF FullInv, ResultsFull
<1> QED BY <1>1, FullInit, PoolStepsKeepFull, PTL DEF PoolSpec

-----------------------------------------------------------------------------
(* However a launch is divided, it implements Experiment.                  *)

Asked == IF Launched THEN <<worker_inputs[1].reporters_config>> ELSE << >>
AllRuns == RunsOf(worker_outputs)
Answered == AllCollected
Lists == IF AllCollected THEN results ELSE NoResults

-----------------------------------------------------------------------------
(* Facts about the mapping.                                                *)

LEMMA RunsOfBlocks ==
  ASSUME PlaceInv
  PROVE  \A x : x \in AllRuns <=>
           \E b \in Blocks : \E i \in DOMAIN worker_outputs[b]["completed_per_reporter"] :
             x = worker_outputs[b]["completed_per_reporter"][i]
<1>1. DOMAIN worker_outputs = Blocks
  BY DEF PlaceInv, PoolTypeOK, Blocks
<1>2. QED
  BY <1>1 DEF AllRuns, RunsOf, Range

LEMMA NotLaunchedNoRuns ==
  ASSUME worker_outputs = << >>
  PROVE  AllRuns = {}
BY DEF AllRuns, RunsOf

(* Before a launch nothing is asked and nothing is answered.               *)
LEMMA NotLaunchedNotAnswered ==
  ASSUME ~Launched
  PROVE  Asked = << >> /\ ~Answered /\ Lists = NoResults
BY DEF Asked, Answered, AllCollected, Lists

LEMMA LaunchedNotEmpty ==
  ASSUME PlaceInv, Launched
  PROVE  Len(worker_inputs) \in Nat \ {0} /\ 1 \in Blocks
<1>1. worker_inputs \in Seq(Inputs) /\ worker_inputs # << >>
  BY DEF PlaceInv, PoolTypeOK, Inputs, Launched
<1>2. QED
  BY <1>1 DEF Blocks

LEMMA AppendKeeps ==
  ASSUME NEW S, NEW s \in Seq(S), NEW e \in S
  PROVE  /\ \A i \in DOMAIN s : i \in DOMAIN Append(s, e) /\ Append(s, e)[i] = s[i]
         /\ Len(s) + 1 \in DOMAIN Append(s, e) /\ Append(s, e)[Len(s) + 1] = e
OBVIOUS

-----------------------------------------------------------------------------
(* The steps.                                                              *)

LEMMA LaunchIsAsk ==
  ASSUME RunInv, NEW config \in ReporterConfigs, NEW n \in MaxIterations,
         NEW parallel \in BOOLEAN, Launch(config, n, parallel)
  PROVE  Abstract!Ask
<1> DEFINE blocks == IF parallel THEN ParallelBlocks ELSE 1
           input == [reporters_config |-> config, max_iterations |-> SamplesPerWorker(n, blocks)]
<1>1. blocks \in Nat \ {0}
  BY PoolAssumption
<1>2. /\ ~Launched /\ worker_inputs' = [b \in 1..blocks |-> input]
      /\ worker_outputs' = [b \in 1..blocks |-> NoResults]
      /\ collected' = 0 /\ results' = NoResults
  BY DEF Launch
<1> HIDE DEF blocks
<1>3. 1 \in 1..blocks /\ worker_inputs'[1] = input /\ Len(worker_inputs') = blocks
  BY <1>1, <1>2
<1>4. worker_inputs' # << >>
  BY <1>1, <1>3
<1>5. Launched' /\ ~AllCollected' /\ Asked' = <<config>>
  BY <1>1, <1>2, <1>3, <1>4 DEF Launched, AllCollected, Asked
<1>6. AllRuns = {}
  <2>1. Blocks = {}
    BY <1>2 DEF Launched, Blocks
  <2>2. QED
    BY <2>1, RunsOfBlocks DEF RunInv
<1>7. AllRuns' = {}
  BY <1>2 DEF AllRuns, RunsOf, Range, NoResults, Metrics
<1>8. Asked = << >> /\ ~Answered /\ Lists = NoResults
  BY <1>2, NotLaunchedNotAnswered
<1>9. Answered' = Answered /\ Lists' = Lists
  BY <1>5, <1>8 DEF Answered, Lists, AllCollected
<1>10. QED
  BY <1>5, <1>6, <1>7, <1>8, <1>9 DEF Abstract!Ask, Asked, AllRuns, Answered, Lists

LEMMA ReplicateIsRun ==
  ASSUME RunInv, NEW p \in Processes, Replicate(p)
  PROVE  Abstract!Run
<1> DEFINE b == assigned[p]
           run == [played |-> worker_inputs[b].reporters_config, stream |-> Seeded(p)]
           key == "completed_per_reporter"
<1>1. PlaceInv /\ PlaceInv' /\ b \in Blocks /\ Launched
  <2>1. PlaceInv /\ PlaceInv'
    BY ReplicateKeepsPlace DEF RunInv
  <2>2. b \in Blocks
    BY <2>1, ReplicateAppends
  <2>3. QED
    BY <2>1, <2>2 DEF Blocks, Launched
<1>2. /\ Blocks' = Blocks /\ run \in Replication
      /\ \A c \in Blocks :
           /\ worker_outputs[c][key] \in Seq(Replication)
           /\ worker_outputs'[c][key] =
                IF c = b THEN Append(worker_outputs[c][key], run) ELSE worker_outputs[c][key]
  <2>1. key \in Metrics
    BY DEF Metrics
  <2>2. QED
    BY <1>1, <2>1, ReplicateAppends
<1>3. /\ UNCHANGED <<worker_inputs, results, collected>> /\ collected = 0
      /\ run.stream.seed = seeds + 1 /\ seeds \in Nat
      /\ run.played = worker_inputs[1].reporters_config /\ run.stream \in RandomStates
  <2>1. /\ UNCHANGED <<worker_inputs, results, collected>> /\ collected = 0
        /\ run.stream.seed = seeds + 1 /\ seeds \in Nat
    BY <1>1, NothingCollectedYet DEF Replicate, Seeded, PlaceInv, PoolTypeOK
  <2>2. run.played = worker_inputs[1].reporters_config
    BY <1>1 DEF RunInv, OneConfig
  <2>3. run.stream \in RandomStates
    BY <1>2 DEF Replication
  <2>4. QED
    BY <2>1, <2>2, <2>3
<1>4. \A x \in AllRuns : x.stream # run.stream
  <2>1. \A c \in Blocks : \A i \in DOMAIN worker_outputs[c][key] :
          worker_outputs[c][key][i] \in Replication
    BY <1>2
  <2>2. \A c \in Blocks : \A i \in DOMAIN worker_outputs[c][key] :
          /\ worker_outputs[c][key][i].stream.seed \in Nat
          /\ worker_outputs[c][key][i].stream.seed <= seeds
    BY <2>1 DEF RunInv, SeedsHandedOut, Replication, RandomStates, Metrics
  <2>3. QED
    BY <1>1, <1>3, <2>2, RunsOfBlocks
<1> HIDE DEF run, b
<1>5. AllRuns' = AllRuns \cup {run}
  <2>1. \A x : x \in AllRuns' <=>
          \E c \in Blocks : \E i \in DOMAIN worker_outputs'[c][key] :
            x = worker_outputs'[c][key][i]
    <3>1. DOMAIN worker_outputs' = Blocks
      BY <1>1, <1>2 DEF PlaceInv, PoolTypeOK, Blocks
    <3>2. QED
      BY <3>1 DEF AllRuns, RunsOf, Range
  <2>2. \A x : x \in AllRuns <=>
          \E c \in Blocks : \E i \in DOMAIN worker_outputs[c][key] :
            x = worker_outputs[c][key][i]
    BY <1>1, RunsOfBlocks
  <2>0. /\ worker_outputs[b][key] \in Seq(Replication) /\ run \in Replication
        /\ worker_outputs'[b][key] = Append(worker_outputs[b][key], run)
    BY <1>1, <1>2
  <2>3. \A c \in Blocks : \A i \in DOMAIN worker_outputs[c][key] :
          /\ i \in DOMAIN worker_outputs'[c][key]
          /\ worker_outputs'[c][key][i] = worker_outputs[c][key][i]
    <3>1. TAKE c \in Blocks
    <3>2. CASE c = b
      <4>1. \A i \in DOMAIN worker_outputs[b][key] :
              /\ i \in DOMAIN Append(worker_outputs[b][key], run)
              /\ Append(worker_outputs[b][key], run)[i] = worker_outputs[b][key][i]
        BY <2>0, AppendKeeps
      <4>2. QED
        BY <2>0, <3>2, <4>1
    <3>3. CASE c # b
      BY <1>2, <3>3
    <3>4. QED
      BY <3>2, <3>3
  <2>4. /\ Len(worker_outputs[b][key]) + 1 \in DOMAIN worker_outputs'[b][key]
        /\ worker_outputs'[b][key][Len(worker_outputs[b][key]) + 1] = run
    <3>1. /\ Len(worker_outputs[b][key]) + 1 \in DOMAIN Append(worker_outputs[b][key], run)
          /\ Append(worker_outputs[b][key], run)[Len(worker_outputs[b][key]) + 1] = run
      BY <2>0, AppendKeeps
    <3>2. QED
      BY <2>0, <3>1
  <2>5. \A c \in Blocks : \A i \in DOMAIN worker_outputs'[c][key] :
          \/ i \in DOMAIN worker_outputs[c][key]
          \/ c = b /\ worker_outputs'[c][key][i] = run
    <3>1. TAKE c \in Blocks
    <3>2. CASE c = b
      <4>1. /\ worker_outputs'[c][key] = Append(worker_outputs[c][key], run)
            /\ worker_outputs[c][key] \in Seq(Replication) /\ run \in Replication
        BY <1>2, <3>2
      <4>2. \A i \in DOMAIN Append(worker_outputs[c][key], run) :
              \/ i \in DOMAIN worker_outputs[c][key]
              \/ Append(worker_outputs[c][key], run)[i] = run
        BY <4>1, AppendEntries
      <4>3. QED
        BY <3>2, <4>1, <4>2
    <3>3. CASE c # b
      BY <1>2, <3>3
    <3>4. QED
      BY <3>2, <3>3
  <2>6. QED
    BY <1>1, <2>1, <2>2, <2>3, <2>4, <2>5
<1>6. Asked # << >> /\ Asked[1] = run.played /\ Asked' = Asked
  BY <1>1, <1>3 DEF Asked, Launched
<1>7. ~Answered /\ Answered' = Answered /\ Lists' = Lists
  BY <1>1, <1>3, LaunchedNotEmpty DEF Answered, Lists, AllCollected, Launched
<1>8. run \in AllRuns' \ AllRuns
  BY <1>4, <1>5
<1>9. run.stream \in RandomStates \ {other.stream : other \in AllRuns}
  BY <1>3, <1>4
<1>10. QED
  BY <1>5, <1>6, <1>7, <1>8, <1>9 DEF Abstract!Run, Asked, AllRuns, Answered, Lists

(* While blocks are missing the caller sees nothing of a step that leaves  *)
(* the runs alone; the last block brings the answer.                       *)
LEMMA CollectIsAnswer ==
  ASSUME RunInv, Collect
  PROVE  Abstract!Answer \/ UNCHANGED <<Asked, AllRuns, Answered, Lists>>
<1>1. /\ PlaceInv /\ RunInv' /\ Launched /\ Launched'
      /\ UNCHANGED <<worker_inputs, worker_outputs>>
      /\ collected \in Nat /\ Len(worker_inputs) \in Nat
      /\ collected < Len(worker_inputs) /\ collected' = collected + 1
  BY CollectKeepsRuns DEF RunInv, PlaceInv, PoolTypeOK, Collect, Launched
<1>2. Asked' = Asked /\ AllRuns' = AllRuns /\ ~Answered /\ Asked # << >> /\ Lists = NoResults
  BY <1>1 DEF Asked, AllRuns, Answered, AllCollected, Launched, Lists
<1>3. CASE collected + 1 # Len(worker_inputs)
  BY <1>1, <1>2, <1>3 DEF Answered, Lists, AllCollected
<1>4. CASE collected + 1 = Len(worker_inputs)
  <2>1. AllCollected' /\ Answered' /\ Lists' = results'
    BY <1>1, <1>4 DEF AllCollected, Answered, Lists
  <2>2. \A m, n \in Metrics : results'[m] = results'[n]
    BY <1>1 DEF RunInv, ResultsInStep
  <2>3. 1..collected' = Blocks /\ Blocks' = Blocks
    BY <1>1, <1>4 DEF PlaceInv, PoolTypeOK, Blocks
  <2>4. ASSUME NEW m \in Metrics
        PROVE  {results'[m][i] : i \in DOMAIN results'[m]} = AllRuns
    <3> DEFINE key == "completed_per_reporter"
    <3>1. \A b \in Blocks : worker_outputs[b][m] = worker_outputs[b][key]
      BY DEF RunInv, OutputsInStep, Metrics
    <3>2. \A i \in DOMAIN results'[m] : \E b \in Blocks :
            \E j \in DOMAIN worker_outputs[b][m] : results'[m][i] = worker_outputs[b][m][j]
      BY <1>1, <2>3 DEF RunInv, ResultsFromBlocks
    <3>3. \A b \in Blocks : \A j \in DOMAIN worker_outputs[b][m] :
            \E i \in DOMAIN results'[m] : results'[m][i] = worker_outputs[b][m][j]
      BY <1>1, <2>3 DEF RunInv, BlocksInResults
    <3>4. QED
      BY <1>1, <3>1, <3>2, <3>3, RunsOfBlocks
  <2>5. \A m \in Metrics : \A i, j \in DOMAIN results'[m] :
          i # j => results'[m][i] # results'[m][j]
    BY <1>1 DEF RunInv, ResultsDistinct
  <2>6. Abstract!Answer
    BY <1>2, <2>1, <2>2, <2>4, <2>5 DEF Abstract!Answer, Asked, AllRuns, Answered, Lists
  <2>7. QED
    BY <2>6
<1>5. QED
  BY <1>3, <1>4

LEMMA ReturnIsTakeAnswer ==
  ASSUME Return
  PROVE  Abstract!TakeAnswer
<1>1. Answered
  BY DEF Return, Answered
<1>2. ~Launched' /\ worker_outputs' = << >>
  BY DEF Return, Launched
<1>3. Asked' = << >> /\ ~Answered' /\ Lists' = NoResults
  BY <1>2 DEF Asked, Answered, AllCollected, Lists
<1>4. AllRuns' = {}
  BY <1>2 DEF AllRuns, RunsOf
<1>5. QED
  BY <1>1, <1>3, <1>4
     DEF Abstract!TakeAnswer, Abstract!NoLists, NoResults, Asked, AllRuns, Answered, Lists

-----------------------------------------------------------------------------
LEMMA InitIsInit == PoolInit => Abstract!Init
<1>1. ASSUME PoolInit PROVE Asked = << >> /\ AllRuns = {} /\ ~Answered /\ Lists = NoResults
  BY <1>1, NotLaunchedNotAnswered, NotLaunchedNoRuns DEF PoolInit, Launched
<1>2. QED
  BY <1>1 DEF Abstract!Init, Abstract!NoLists, NoResults, Asked, AllRuns, Answered, Lists,
     AllCollected

LEMMA StepIsStep ==
  ASSUME RunInv, [PoolNext]_poolVars
  PROVE  [Abstract!Next]_<<Asked, AllRuns, Answered, Lists>>
<1>1. ASSUME UNCHANGED <<worker_inputs, worker_outputs, collected, results>>
      PROVE  UNCHANGED <<Asked, AllRuns, Answered, Lists>>
  BY <1>1 DEF Asked, AllRuns, Answered, Lists, AllCollected, Launched
<1>2. CASE UNCHANGED poolVars
  BY <1>1, <1>2 DEF poolVars
<1>3. ASSUME NEW p \in Processes, TakeBlock(p) \/ ReturnBlock(p)
      PROVE  UNCHANGED <<Asked, AllRuns, Answered, Lists>>
  BY <1>1, <1>3 DEF TakeBlock, ReturnBlock
<1>4. CASE PoolNext
  BY <1>3, <1>4, LaunchIsAsk, ReplicateIsRun, CollectIsAnswer, ReturnIsTakeAnswer
     DEF PoolNext, PoolStep, Abstract!Next
<1>5. QED
  BY <1>2, <1>4

(* However the work is divided, a launch is one experiment: independent    *)
(* runs of the configuration asked for, each once in every list.           *)
THEOREM LaunchIsAnExperiment == PoolSpec => ImplementsExperiment
<1>1. RunInv /\ [PoolNext]_poolVars => [Abstract!Next]_<<Asked, AllRuns, Answered, Lists>>
  BY StepIsStep
<1>2. QED
  BY <1>1, InitIsInit, RunInvHolds, PTL
     DEF PoolSpec, ImplementsExperiment, Abstract!Spec, Asked, AllRuns, Answered, Lists

-----------------------------------------------------------------------------
(* Division with remainder.                                                *)

LEMMA DivisionOfNext ==
  ASSUME NEW n \in Nat, NEW s \in Nat \ {0}
  PROVE  IF (n % s) + 1 < s
         THEN (n + 1) \div s = n \div s /\ (n + 1) % s = (n % s) + 1
         ELSE (n + 1) \div s = n \div s + 1 /\ (n + 1) % s = 0 /\ n % s = s - 1
<1> DEFINE q == n \div s
           r == n % s
<1>1. q \in Nat /\ r \in 0..(s - 1) /\ n = s * q + r
  BY Divides
<1> HIDE DEF q, r
<1>2. CASE r + 1 < s
  <2>1. r + 1 \in 0..(s - 1) /\ n + 1 = s * q + (r + 1)
    BY <1>1, <1>2
  <2>2. (n + 1) \div s = q /\ (n + 1) % s = r + 1
    BY <1>1, <2>1, DivisionIsUnique
  <2> QED BY <1>2, <2>2 DEF q, r
<1>3. CASE ~(r + 1 < s)
  <2>1. r = s - 1 /\ 0 \in 0..(s - 1) /\ q + 1 \in Nat /\ n + 1 = s * (q + 1) + 0
    BY <1>1, <1>3
  <2> DEFINE more == q + 1
  <2> HIDE DEF more
  <2>2. (s * more + 0) \div s = more /\ (s * more + 0) % s = 0
    BY <2>1, DivisionIsUnique DEF more
  <2>3. (n + 1) \div s = q + 1 /\ (n + 1) % s = 0
    BY <2>1, <2>2 DEF more
  <2> QED BY <1>3, <2>1, <2>3 DEF q, r
<1> QED BY <1>2, <1>3

LEMMA DivisionBound ==
  ASSUME NEW s \in Nat \ {0}, NEW m \in Nat, NEW k \in 1..(m * s)
  PROVE  (k - 1) \div s + 1 \in 1..m /\ ((k - 1) % s) + 1 \in 1..s
<1> DEFINE q == (k - 1) \div s
           r == (k - 1) % s
<1>1. m * s \in Nat /\ k - 1 \in Nat
  OBVIOUS
<1>2. q \in Nat /\ r \in 0..(s - 1) /\ k - 1 = s * q + r
  BY <1>1, Divides
<1> HIDE DEF q, r
<1>3. q < m
  <2> SUFFICES ASSUME q >= m PROVE FALSE
    BY <1>2
  <2>1. q - m \in Nat /\ s * q = m * s + s * (q - m) /\ s * (q - m) >= 0
    BY <1>2
  <2> QED BY <1>1, <1>2, <2>1
<1> QED BY <1>2, <1>3 DEF q, r

-----------------------------------------------------------------------------
(* The reader of the solver's line counts as the line is laid out.         *)

Size == Len(StrategyCatalog)

LEMMA CatalogFacts ==
  /\ Size \in Nat \ {0} /\ DOMAIN StrategyCatalog = 1..Size
  /\ \A i \in 1..Size : StrategyCatalog[i] \in Strategies
  /\ \A s \in Strategies : \E i \in 1..Size : s = StrategyCatalog[i]
  /\ \A i, j \in 1..Size : StrategyCatalog[i] = StrategyCatalog[j] => i = j
  /\ NumberOfTeams \in Nat /\ NumberOfTeams >= 2
BY GameAssumption DEF Size, Strategies, Range, IsInjective

LEMMA SolverLineFacts ==
  /\ NumberOfTeams * Size \in Nat /\ NumberOfTeams * Size >= 1
  /\ Len(SolverLine) = NumberOfTeams * Size /\ DOMAIN SolverLine = 1..(NumberOfTeams * Size)
  /\ \A k \in 1..(NumberOfTeams * Size) :
       SolverLine[k] = <<(k - 1) \div Size, StrategyCatalog[((k - 1) % Size) + 1]>>
<1>1. NumberOfTeams * Size \in Nat /\ NumberOfTeams * Size >= 1
  BY CatalogFacts
<1> QED BY <1>1 DEF SolverLine, Size

LEMMA ReadIndicesComputed ==
  \A k \in 1..Len(SolverLine) :
    ReadIndices[k] = IF k = 1 THEN [team |-> 0, strategy |-> 1] ELSE NextIndices(ReadIndices[k - 1])
<1> DEFINE n == Len(SolverLine)
           T == [team : Nat, strategy : 1..Size]
           base == [team |-> 0, strategy |-> 1]
           F == [k \in 1..n |-> [at \in T |-> NextIndices(at)]]
<1>1. n \in Nat /\ 1 <= n
  BY SolverLineFacts
<1>2. base \in T /\ \A at \in T : NextIndices(at) \in T
  BY CatalogFacts DEF NextIndices, Size
<1>3. F \in [1..n -> [T -> T]]
  BY <1>2
<1>4. PICK f \in [1..n -> T] : \A k \in 1..n : f[k] = IF k = 1 THEN base ELSE F[k][f[k - 1]]
  <2>1. HasSolution(T, 1, n, base, F)
    <3> HIDE DEF n, T, base, F
    <3> QED BY <1>1, <1>2, <1>3, RecursionExists
  <2> HIDE DEF n, T, base, F
  <2> QED BY <2>1 DEF HasSolution
<1>5. \A k \in 1..n : k # 1 => k - 1 \in 1..n
  BY <1>1
<1>6. \A k \in 1..n : f[k] = IF k = 1 THEN base ELSE NextIndices(f[k - 1])
  BY <1>4, <1>5
<1>7. f = [k \in 1..n |-> IF k = 1 THEN base ELSE NextIndices(f[k - 1])]
  BY <1>4, <1>6
<1>8. ReadIndices = [k \in 1..n |-> IF k = 1 THEN base ELSE NextIndices(ReadIndices[k - 1])]
  <2> DEFINE Computed(g) == g = [k \in 1..n |-> IF k = 1 THEN base ELSE NextIndices(g[k - 1])]
  <2>1. ReadIndices = CHOOSE g : Computed(g)
    BY DEF ReadIndices
  <2>2. Computed(f)
    BY <1>7
  <2> HIDE DEF Computed
  <2>3. Computed(ReadIndices)
    BY <2>1, <2>2
  <2> QED BY <2>3 DEF Computed
<1> QED BY <1>8

LEMMA ReadIndicesAre ==
  \A k \in 1..Len(SolverLine) :
    ReadIndices[k] = [team |-> (k - 1) \div Size, strategy |-> ((k - 1) % Size) + 1]
<1> DEFINE n == Len(SolverLine)
           Place(k) == [team |-> (k - 1) \div Size, strategy |-> ((k - 1) % Size) + 1]
           S == {k \in 1..n : ReadIndices[k] = Place(k)}
<1>1. n \in Nat /\ Size \in Nat \ {0}
  BY SolverLineFacts, CatalogFacts
<1>2. n # 0 => 1 \in S
  <2>1. 0 \div Size = 0 /\ 0 % Size = 0
    BY <1>1
  <2>2. n # 0 => ReadIndices[1] = [team |-> 0, strategy |-> 1]
    BY <1>1, ReadIndicesComputed
  <2> QED BY <1>1, <2>1, <2>2
<1>3. ASSUME NEW k \in 1..(n - 1), k \in S PROVE k + 1 \in S
  <2>1. k + 1 \in 1..n /\ k + 1 # 1 /\ k + 1 - 1 = k /\ k - 1 \in Nat /\ k = (k - 1) + 1
    BY <1>1
  <2>2. ReadIndices[k + 1] = NextIndices(Place(k))
    BY <1>3, <2>1, ReadIndicesComputed
  <2>3. (k - 1) \div Size \in Nat /\ (k - 1) % Size \in 0..(Size - 1)
    BY <1>1, <2>1, Divides
  <2>4. IF ((k - 1) % Size) + 1 < Size
        THEN k \div Size = (k - 1) \div Size /\ k % Size = ((k - 1) % Size) + 1
        ELSE k \div Size = (k - 1) \div Size + 1 /\ k % Size = 0
    <3> DEFINE m == k - 1
    <3>1. m \in Nat /\ m + 1 = k
      BY <2>1
    <3> HIDE DEF m
    <3>2. IF (m % Size) + 1 < Size
          THEN (m + 1) \div Size = m \div Size /\ (m + 1) % Size = (m % Size) + 1
          ELSE (m + 1) \div Size = (m \div Size) + 1 /\ (m + 1) % Size = 0
      BY <1>1, <3>1, DivisionOfNext
    <3> QED BY <3>1, <3>2 DEF m
  <2>5. NextIndices(Place(k)) = [team |-> k \div Size, strategy |-> (k % Size) + 1]
    <3> DEFINE q == (k - 1) \div Size
               r == (k - 1) % Size
    <3>1. q \in Nat /\ r \in 0..(Size - 1) /\ Place(k) = [team |-> q, strategy |-> r + 1]
      BY <2>3
    <3>2. NextIndices(Place(k)) = IF r + 1 < Size THEN [team |-> q, strategy |-> r + 2]
                                  ELSE [team |-> q + 1, strategy |-> 1]
      <4> HIDE DEF q, r, Place
      <4> QED BY <1>1, <3>1 DEF NextIndices, Size
    <3> HIDE DEF Place
    <3> QED BY <1>1, <2>4, <3>1, <3>2
  <2> QED BY <2>1, <2>2, <2>5
<1>4. 1..n \subseteq S
  <2> HIDE DEF n, S
  <2> QED BY <1>1, <1>2, <1>3, CountingUp
<1> QED BY <1>4

(* What the reader makes of a line.                                        *)
AsRead(k) == [team |-> ReadIndices[k].team, strategy |-> StrategyCatalog[ReadIndices[k].strategy],
              probability |-> SolverLine[k]]

LEMMA ReadAsMeant ==
  \A k \in DOMAIN SolverLine :
    /\ AsRead(k).probability = <<AsRead(k).team, AsRead(k).strategy>>
    /\ AsRead(k).team \in Teams /\ AsRead(k).strategy \in Strategies
<1> SUFFICES ASSUME NEW k \in DOMAIN SolverLine
             PROVE  /\ AsRead(k).probability = <<AsRead(k).team, AsRead(k).strategy>>
                    /\ AsRead(k).team \in Teams /\ AsRead(k).strategy \in Strategies
  OBVIOUS
<1>1. k \in 1..(NumberOfTeams * Size) /\ k \in 1..Len(SolverLine)
  BY SolverLineFacts
<1>2. ReadIndices[k] = [team |-> (k - 1) \div Size, strategy |-> ((k - 1) % Size) + 1]
  BY <1>1, ReadIndicesAre
<1>3. SolverLine[k] = <<(k - 1) \div Size, StrategyCatalog[((k - 1) % Size) + 1]>>
  BY <1>1, SolverLineFacts
<1>4. (k - 1) \div Size + 1 \in 1..NumberOfTeams /\ ((k - 1) % Size) + 1 \in 1..Size
  BY <1>1, CatalogFacts, DivisionBound
<1>5. (k - 1) \div Size \in Teams
  <2>1. k - 1 \in Nat /\ Size \in Nat \ {0}
    BY <1>1, CatalogFacts
  <2>2. (k - 1) \div Size \in Nat
    BY <2>1, Divides
  <2> QED BY <1>4, <2>2, CatalogFacts DEF Teams
<1>6. AsRead(k) = [team |-> (k - 1) \div Size, strategy |-> StrategyCatalog[((k - 1) % Size) + 1],
                  probability |-> <<(k - 1) \div Size, StrategyCatalog[((k - 1) % Size) + 1]>>]
  BY <1>2, <1>3 DEF AsRead
<1> QED BY <1>4, <1>5, <1>6, CatalogFacts

LEMMA AllRead ==
  ASSUME NEW t \in Teams, NEW s \in Strategies
  PROVE  \E k \in DOMAIN SolverLine : AsRead(k).probability = <<t, s>>
<1>1. PICK i \in 1..Size : s = StrategyCatalog[i]
  BY CatalogFacts
<1> DEFINE k == Size * t + i
<1>2. t \in Nat /\ t + 1 <= NumberOfTeams /\ Size \in Nat \ {0} /\ i - 1 \in 0..(Size - 1)
      /\ NumberOfTeams \in Nat
  BY CatalogFacts DEF Teams
<1>3. k \in Nat /\ k >= 1 /\ k - 1 = Size * t + (i - 1)
  BY <1>2
<1>4. k <= NumberOfTeams * Size
  <2>1. NumberOfTeams - t - 1 \in Nat
    BY <1>2
  <2>2. NumberOfTeams * Size = Size * t + Size + Size * (NumberOfTeams - t - 1)
        /\ Size * (NumberOfTeams - t - 1) >= 0
    BY <1>2, <2>1
  <2> QED BY <1>2, <2>2
<1>5. (k - 1) \div Size = t /\ (k - 1) % Size = i - 1
  BY <1>2, <1>3, DivisionIsUnique
<1>6. k \in 1..(NumberOfTeams * Size)
  BY <1>3, <1>4, SolverLineFacts
<1>7. SolverLine[k] = <<(k - 1) \div Size, StrategyCatalog[((k - 1) % Size) + 1]>>
      /\ k \in DOMAIN SolverLine
  BY <1>6, SolverLineFacts
<1>8. SolverLine[k] = <<t, s>>
  <2> HIDE DEF k
  <2> QED BY <1>1, <1>5, <1>7
<1> QED BY <1>7, <1>8 DEF AsRead

(* The probabilities of the solver's line reach the team and the strategy  *)
(* they are meant for (calculate_equilibrium), whatever the number of      *)
(* teams and the length of the catalogue.                                  *)
THEOREM EquilibriaAreRead == Spec => []EquilibriumRead
<1>1. ASSUME Init PROVE EquilibriumRead
  BY <1>1 DEF Init, EquilibriumRead
<1>2. ASSUME EquilibriumRead, [Next]_vars PROVE EquilibriumRead'
  <2>1. CASE CalculateEquilibrium
    <3>1. equilibrium' = {AsRead(k) : k \in DOMAIN SolverLine}
      BY <2>1 DEF CalculateEquilibrium, AsRead
    <3>2. \A e \in equilibrium' : e.probability = <<e.team, e.strategy>>
      BY <3>1, ReadAsMeant
    <3>3. \A e \in equilibrium' : e.probability \in Teams \X Strategies
      <4> SUFFICES ASSUME NEW k \in DOMAIN SolverLine PROVE AsRead(k).probability \in Teams \X Strategies
        BY <3>1
      <4> QED BY ReadAsMeant
    <3>4. \A pair \in Teams \X Strategies : \E e \in equilibrium' : e.probability = pair
      BY <3>1, AllRead
    <3> QED BY <3>2, <3>3, <3>4 DEF EquilibriumRead
  <2>2. CASE step' # "done"
    BY <2>2 DEF EquilibriumRead
  <2>3. CASE step' = step /\ equilibrium' = equilibrium
    BY <1>2, <2>3 DEF EquilibriumRead
  <2> QED BY <1>2, <2>1, <2>2, <2>3 DEF Next, RunSimulation, vars, gameVars, Finished, AssignTeams,
             SimulateProfile, SimulateTwins, Simulate, RecycleTwins, NextTeam,
             ConsolidateSimulation, GetTeamMetrics, Crash
<1> QED BY <1>1, <1>2, PTL DEF Spec
-----------------------------------------------------------------------------
(* The order of the profiles.                                              *)

Profiles == Seq(Strategies)
Longer(shorter) ==
  [k \in 1..(Len(shorter) * Size) |->
     Append(shorter[(k - 1) \div Size + 1], StrategyCatalog[((k - 1) % Size) + 1])]

LEMMA LongerType ==
  ASSUME NEW shorter \in Seq(Profiles)
  PROVE  /\ Longer(shorter) \in Seq(Profiles)
         /\ Len(Longer(shorter)) = Len(shorter) * Size
         /\ \A k \in 1..(Len(shorter) * Size) :
              /\ (k - 1) \div Size + 1 \in 1..Len(shorter)
              /\ ((k - 1) % Size) + 1 \in 1..Size
              /\ Longer(shorter)[k] = Append(shorter[(k - 1) \div Size + 1],
                                            StrategyCatalog[((k - 1) % Size) + 1])
<1>1. Size \in Nat \ {0} /\ Len(shorter) \in Nat /\ Len(shorter) * Size \in Nat
  BY CatalogFacts
<1>2. \A k \in 1..(Len(shorter) * Size) :
        (k - 1) \div Size + 1 \in 1..Len(shorter) /\ ((k - 1) % Size) + 1 \in 1..Size
  BY <1>1, DivisionBound
<1>3. \A k \in 1..(Len(shorter) * Size) :
        Append(shorter[(k - 1) \div Size + 1], StrategyCatalog[((k - 1) % Size) + 1]) \in Profiles
  <2> SUFFICES ASSUME NEW i \in 1..Len(shorter), NEW j \in 1..Size
               PROVE  Append(shorter[i], StrategyCatalog[j]) \in Profiles
    BY <1>2
  <2>1. shorter[i] \in Profiles /\ StrategyCatalog[j] \in Strategies
    BY CatalogFacts
  <2> QED BY <2>1 DEF Profiles
<1> QED BY <1>1, <1>2, <1>3 DEF Longer

LEMMA ProductComputed ==
  \A n \in 0..NumberOfTeams :
    /\ Product[n] \in Seq(Profiles)
    /\ Product[n] = IF n = 0 THEN << << >> >> ELSE Longer(Product[n - 1])
<1> DEFINE N == NumberOfTeams
           T == Seq(Profiles)
           base == << << >> >>
           F == [n \in 0..N |-> [shorter \in T |-> Longer(shorter)]]
<1>1. N \in Nat /\ 0 <= N /\ 0 \in Int /\ N \in Int
  BY CatalogFacts
<1>2. base \in T
  BY DEF Profiles
<1>3. F \in [0..N -> [T -> T]]
  BY LongerType
<1>4. PICK f \in [0..N -> T] : \A n \in 0..N : f[n] = IF n = 0 THEN base ELSE F[n][f[n - 1]]
  <2>1. HasSolution(T, 0, N, base, F)
    <3> HIDE DEF N, T, base, F
    <3> QED BY <1>1, <1>2, <1>3, RecursionExists
  <2> HIDE DEF N, T, base, F
  <2> QED BY <2>1 DEF HasSolution
<1>5. \A n \in 0..N : n # 0 => n - 1 \in 0..N
  BY <1>1
<1>6. \A n \in 0..N : f[n] = IF n = 0 THEN base ELSE Longer(f[n - 1])
  BY <1>4, <1>5
<1>7. f = [n \in 0..N |-> IF n = 0 THEN base ELSE Longer(f[n - 1])]
  BY <1>4, <1>6
<1>8. Product = [n \in 0..N |-> IF n = 0 THEN base ELSE Longer(Product[n - 1])] /\ Product \in [0..N -> T]
  <2> DEFINE Computed(g) == g = [n \in 0..N |-> IF n = 0 THEN base ELSE Longer(g[n - 1])]
  <2>1. Product = CHOOSE g : Computed(g)
    BY DEF Product, Longer, Size
  <2>2. Computed(f)
    BY <1>7
  <2> HIDE DEF Computed
  <2>3. Computed(Product)
    BY <2>1, <2>2
  <2> DEFINE S == {n \in 0..N : Product[n] \in T}
  <2>4. Product = [n \in 0..N |-> IF n = 0 THEN base ELSE Longer(Product[n - 1])]
    BY <2>3 DEF Computed
  <2>5. \A n \in 0..N : Product[n] = IF n = 0 THEN base ELSE Longer(Product[n - 1])
    BY <2>4
  <2>6. 0 \in S
    <3>1. 0 \in 0..N
      BY <1>1
    <3>2. Product[0] = base
      BY <2>5, <3>1
    <3> QED BY <1>2, <3>1, <3>2
  <2>7. ASSUME NEW n \in 0..(N - 1), n \in S PROVE n + 1 \in S
    <3>1. n + 1 \in 0..N /\ n + 1 # 0 /\ n + 1 - 1 = n
      BY <1>1
    <3>2. Product[n + 1] = Longer(Product[n + 1 - 1])
      BY <2>5, <3>1
    <3>3. Product[n + 1] = Longer(Product[n])
      BY <3>1, <3>2
    <3> QED BY <2>7, <3>1, <3>3, LongerType
  <2>8. 0..N \subseteq S
    <3> HIDE DEF S, N
    <3> QED BY <1>1, <2>6, <2>7, CountingFromZero
  <2> HIDE DEF T
  <2> QED BY <2>4, <2>8
<1> QED BY <1>8
(* The last position that has a strategy left moves on to it, those after  *)
(* it go back to the first.                                                *)
MovesOn(a, b, n) ==
  \E pl \in 1..n : \E i \in 1..(Size - 1) :
    /\ \A j \in 1..(pl - 1) : a[j] = b[j]
    /\ a[pl] = StrategyCatalog[i] /\ b[pl] = StrategyCatalog[i + 1]
    /\ \A j \in (pl + 1)..n : a[j] = StrategyCatalog[Size] /\ b[j] = StrategyCatalog[1]

InOrder(list, n) ==
  /\ list \in Seq(Profiles) /\ Len(list) >= 1
  /\ \A k \in 1..Len(list) : Len(list[k]) = n
  /\ \A j \in 1..n : list[1][j] = StrategyCatalog[1]
  /\ \A k \in 1..(Len(list) - 1) : MovesOn(list[k], list[k + 1], n)

LEMMA AppendedProfile ==
  ASSUME NEW n \in Nat, NEW a \in Profiles, Len(a) = n, NEW s \in Strategies
  PROVE  /\ Len(Append(a, s)) = n + 1
         /\ \A j \in 1..n : Append(a, s)[j] = a[j]
         /\ Append(a, s)[n + 1] = s
BY DEF Profiles

LEMMA LongerInOrder ==
  ASSUME NEW n \in Nat, NEW list, InOrder(list, n)
  PROVE  InOrder(Longer(list), n + 1)
<1> DEFINE long == Longer(list)
           Q(k) == (k - 1) \div Size + 1
           R(k) == ((k - 1) % Size) + 1
<1>1. /\ list \in Seq(Profiles) /\ Len(list) \in Nat /\ Len(list) >= 1 /\ Size \in Nat \ {0}
      /\ \A i \in 1..Len(list) : list[i] \in Profiles /\ Len(list[i]) = n
      /\ \A i \in 1..Size : StrategyCatalog[i] \in Strategies
  BY CatalogFacts DEF InOrder
<1>2. /\ long \in Seq(Profiles) /\ Len(long) = Len(list) * Size
      /\ \A k \in 1..Len(long) :
           /\ Q(k) \in 1..Len(list) /\ R(k) \in 1..Size
           /\ long[k] = Append(list[Q(k)], StrategyCatalog[R(k)])
  BY <1>1, LongerType
<1>3. Len(long) \in Nat /\ Len(long) >= 1
  BY <1>1, <1>2
<1> HIDE DEF long, Q, R
<1>4. \A k \in 1..Len(long) :
        /\ Len(long[k]) = n + 1
        /\ \A j \in 1..n : long[k][j] = list[Q(k)][j]
        /\ long[k][n + 1] = StrategyCatalog[R(k)]
  <2> SUFFICES ASSUME NEW k \in 1..Len(long)
               PROVE  /\ Len(long[k]) = n + 1
                      /\ \A j \in 1..n : long[k][j] = list[Q(k)][j]
                      /\ long[k][n + 1] = StrategyCatalog[R(k)]
    OBVIOUS
  <2>1. list[Q(k)] \in Profiles /\ Len(list[Q(k)]) = n /\ StrategyCatalog[R(k)] \in Strategies
    BY <1>1, <1>2
  <2> DEFINE a == list[Q(k)]
             s == StrategyCatalog[R(k)]
  <2>2. long[k] = Append(a, s)
    BY <1>2
  <2> HIDE DEF a, s
  <2>3. /\ Len(Append(a, s)) = n + 1
        /\ \A j \in 1..n : Append(a, s)[j] = a[j]
        /\ Append(a, s)[n + 1] = s
    BY <2>1, AppendedProfile DEF a, s
  <2> QED BY <2>2, <2>3 DEF a, s
<1>5. \A j \in 1..(n + 1) : long[1][j] = StrategyCatalog[1]
  <2>1. 0 \div Size = 0 /\ 0 % Size = 0 /\ Q(1) = 1 /\ R(1) = 1
    BY <1>1 DEF Q, R
  <2>2. 1 \in 1..Len(long)
    BY <1>3
  <2>3. \A j \in 1..(n + 1) : j \in 1..n \/ j = n + 1
    OBVIOUS
  <2>4. \A j \in 1..n : list[1][j] = StrategyCatalog[1]
    BY DEF InOrder
  <2> QED BY <1>4, <2>1, <2>2, <2>3, <2>4
<1>6. ASSUME NEW k \in 1..(Len(long) - 1) PROVE MovesOn(long[k], long[k + 1], n + 1)
  <2>1. k \in 1..Len(long) /\ k + 1 \in 1..Len(long) /\ k - 1 \in Nat /\ k - 1 + 1 = k /\ k + 1 - 1 = k
    BY <1>3
  <2>2. IF R(k) < Size THEN Q(k + 1) = Q(k) /\ R(k + 1) = R(k) + 1
        ELSE Q(k + 1) = Q(k) + 1 /\ R(k + 1) = 1 /\ R(k) = Size
    <3> DEFINE m == k - 1
    <3>1. m \in Nat /\ m + 1 = k
      BY <2>1
    <3> HIDE DEF m
    <3>2. IF (m % Size) + 1 < Size
          THEN (m + 1) \div Size = m \div Size /\ (m + 1) % Size = (m % Size) + 1
          ELSE (m + 1) \div Size = (m \div Size) + 1 /\ (m + 1) % Size = 0 /\ m % Size = Size - 1
      BY <1>1, <3>1, DivisionOfNext
    <3>3. m \div Size \in Nat /\ m % Size \in Nat
      <4>1. Size \in Nat \ {0}
        BY <1>1
      <4> QED BY <3>1, <4>1
    <3>4. Q(k + 1) = ((m + 1) \div Size) + 1 /\ R(k + 1) = ((m + 1) % Size) + 1
      BY <2>1, <3>1 DEF Q, R
    <3>5. Q(k) = (m \div Size) + 1 /\ R(k) = (m % Size) + 1
      BY DEF Q, R, m
    <3> QED BY <1>1, <3>2, <3>3, <3>4, <3>5
  <2>3. R(k) \in 1..Size /\ Q(k) \in 1..Len(list) /\ Q(k + 1) \in 1..Len(list)
    BY <1>2, <2>1
  <2>4. CASE R(k) < Size
    <3>1. n + 1 \in 1..(n + 1) /\ R(k) \in 1..(Size - 1)
      BY <1>1, <2>3, <2>4
    <3>2. \A j \in 1..((n + 1) - 1) : long[k][j] = long[k + 1][j]
      <4>1. \A j \in 1..n : long[k][j] = list[Q(k)][j]
        BY <1>4, <2>1
      <4>2. \A j \in 1..n : long[k + 1][j] = list[Q(k + 1)][j]
        BY <1>4, <2>1
      <4>3. Q(k + 1) = Q(k) /\ (n + 1) - 1 = n
        BY <2>2, <2>4
      <4> QED BY <4>1, <4>2, <4>3
    <3>3. long[k][n + 1] = StrategyCatalog[R(k)] /\ long[k + 1][n + 1] = StrategyCatalog[R(k) + 1]
      BY <1>4, <2>1, <2>2, <2>4
    <3>4. \A j \in (n + 1 + 1)..(n + 1) : FALSE
      OBVIOUS
    <3> QED BY <3>1, <3>2, <3>3, <3>4 DEF MovesOn
  <2>5. CASE ~(R(k) < Size)
    <3>1. Q(k) \in 1..(Len(list) - 1) /\ Q(k + 1) = Q(k) + 1
      BY <1>1, <2>2, <2>3, <2>5
    <3>2. MovesOn(list[Q(k)], list[Q(k) + 1], n)
      BY <3>1 DEF InOrder
    <3>3. PICK pl \in 1..n, i \in 1..(Size - 1) :
            /\ \A j \in 1..(pl - 1) : list[Q(k)][j] = list[Q(k) + 1][j]
            /\ list[Q(k)][pl] = StrategyCatalog[i] /\ list[Q(k) + 1][pl] = StrategyCatalog[i + 1]
            /\ \A j \in (pl + 1)..n : /\ list[Q(k)][j] = StrategyCatalog[Size]
                                      /\ list[Q(k) + 1][j] = StrategyCatalog[1]
      BY <3>2 DEF MovesOn
    <3>4. \A j \in 1..n : long[k][j] = list[Q(k)][j] /\ long[k + 1][j] = list[Q(k) + 1][j]
      BY <1>4, <2>1, <3>1
    <3>5. long[k][n + 1] = StrategyCatalog[Size] /\ long[k + 1][n + 1] = StrategyCatalog[1]
      BY <1>4, <2>1, <2>2, <2>5
    <3>6. /\ pl \in 1..(n + 1) /\ \A j \in 1..(pl - 1) : j \in 1..n
          /\ \A j \in (pl + 1)..(n + 1) : j = n + 1 \/ (j \in 1..n /\ j \in (pl + 1)..n)
      OBVIOUS
    <3>7. \A j \in 1..(pl - 1) : long[k][j] = long[k + 1][j]
      BY <3>3, <3>4, <3>6
    <3>8. long[k][pl] = StrategyCatalog[i] /\ long[k + 1][pl] = StrategyCatalog[i + 1]
      BY <3>3, <3>4
    <3>9. \A j \in (pl + 1)..(n + 1) : long[k][j] = StrategyCatalog[Size] /\ long[k + 1][j] = StrategyCatalog[1]
      BY <3>3, <3>4, <3>5, <3>6
    <3> QED BY <3>6, <3>7, <3>8, <3>9 DEF MovesOn
  <2> QED BY <2>4, <2>5
<1>7. InOrder(long, n + 1)
  BY <1>2, <1>3, <1>4, <1>5, <1>6 DEF InOrder
<1> QED BY <1>7 DEF long

LEMMA ProductInOrder == \A n \in 0..NumberOfTeams : InOrder(Product[n], n)
<1> DEFINE S == {n \in 0..NumberOfTeams : InOrder(Product[n], n)}
<1>1. NumberOfTeams \in Nat
  BY CatalogFacts
<1>2. 0 \in S
  <2>1. Product[0] = << << >> >> /\ Product[0] \in Seq(Profiles)
    BY <1>1, ProductComputed
  <2> DEFINE base == << << >> >>
  <2>2. /\ Len(base) = 1 /\ base[1] = << >> /\ Len(base[1]) = 0
        /\ 1..0 = {} /\ 1..(Len(base) - 1) = {} /\ 1..Len(base) = {1}
    OBVIOUS
  <2> HIDE DEF base
  <2>3. base \in Seq(Profiles)
    BY <2>1 DEF base
  <2>4. InOrder(base, 0)
    BY <2>2, <2>3 DEF InOrder
  <2> QED BY <1>1, <2>1, <2>4 DEF base
<1>3. ASSUME NEW n \in 0..(NumberOfTeams - 1), n \in S PROVE n + 1 \in S
  <2>1. n + 1 \in 0..NumberOfTeams /\ n + 1 # 0 /\ n + 1 - 1 = n /\ n \in Nat
    BY <1>1
  <2>2. Product[n + 1] = Longer(Product[n + 1 - 1])
    BY <2>1, ProductComputed
  <2>3. InOrder(Longer(Product[n]), n + 1)
    BY <1>3, <2>1, LongerInOrder
  <2> QED BY <2>1, <2>2, <2>3
<1>4. 0..NumberOfTeams \subseteq S
  <2> HIDE DEF S
  <2> QED BY <1>1, <1>2, <1>3, CountingFromZero
<1> QED BY <1>4
(* Gambit's iterator counts strategies; there are as many profiles.        *)
Dims == [t \in 1..NumberOfTeams |-> Size]
NumberOfProfiles == Len(Product[NumberOfTeams])

LEMMA ProfilesFacts ==
  /\ NumberOfProfiles \in Nat \ {0}
  /\ DOMAIN Product[NumberOfTeams] = 1..NumberOfProfiles
  /\ \A k \in 1..NumberOfProfiles : \A j \in 1..NumberOfTeams :
       Product[NumberOfTeams][k][j] \in Strategies
  /\ \A j \in 1..NumberOfTeams : Product[NumberOfTeams][1][j] = StrategyCatalog[1]
  /\ \A k \in 1..(NumberOfProfiles - 1) :
       MovesOn(Product[NumberOfTeams][k], Product[NumberOfTeams][k + 1], NumberOfTeams)
<1>1. NumberOfTeams \in 0..NumberOfTeams
  BY CatalogFacts
<1>2. InOrder(Product[NumberOfTeams], NumberOfTeams)
  BY <1>1, ProductInOrder
<1>3. Product[NumberOfTeams] \in Seq(Profiles)
  BY <1>2 DEF InOrder
<1>4. ASSUME NEW k \in 1..NumberOfProfiles, NEW j \in 1..NumberOfTeams
      PROVE  Product[NumberOfTeams][k][j] \in Strategies
  <2>1. Product[NumberOfTeams][k] \in Profiles /\ Len(Product[NumberOfTeams][k]) = NumberOfTeams
    BY <1>2, <1>3 DEF InOrder, NumberOfProfiles
  <2> QED BY <2>1 DEF Profiles
<1> QED BY <1>2, <1>3, <1>4 DEF InOrder, NumberOfProfiles

LEMMA DimsFacts ==
  /\ DOMAIN Dims = 1..NumberOfTeams /\ Len(Dims) = NumberOfTeams
  /\ \A i \in 1..NumberOfTeams : Dims[i] = Size
<1>1. NumberOfTeams \in Nat
  BY CatalogFacts
<1>2. Dims \in Seq({Size})
  BY <1>1 DEF Dims
<1> QED BY <1>1, <1>2 DEF Dims

LEMMA AsManyProfiles == StratItr!Product(Dims) = NumberOfProfiles
<1> DEFINE N == NumberOfTeams
           Fits(g) == g = [i \in 0..N |-> IF i = 0 THEN 1 ELSE g[i - 1] * Dims[i]]
           upTo == CHOOSE g : Fits(g)
           lengths == [i \in 0..N |-> Len(Product[i])]
           S == {i \in 0..N : upTo[i] = Len(Product[i])}
<1>1. N \in Nat /\ Size \in Nat
  BY CatalogFacts
<1>2. StratItr!Product(Dims) = upTo[N]
  BY DimsFacts DEF StratItr!Product
<1>3. /\ Len(Product[0]) = 1
      /\ \A i \in 0..N : i # 0 => Len(Product[i]) = Len(Product[i - 1]) * Dims[i]
  <2>1. Product[0] = << << >> >>
    BY <1>1, ProductComputed
  <2>2. ASSUME NEW i \in 0..N, i # 0 PROVE Len(Product[i]) = Len(Product[i - 1]) * Dims[i]
    <3>1. i - 1 \in 0..N /\ i \in 1..N
      BY <1>1, <2>2
    <3>2. Product[i - 1] \in Seq(Profiles) /\ Product[i] = Longer(Product[i - 1])
      BY <2>2, <3>1, ProductComputed
    <3> QED BY <3>1, <3>2, LongerType, DimsFacts
  <2> QED BY <2>1, <2>2
<1>4. \E g : Fits(g)
  <2>1. \A i \in 0..N : lengths[i] = IF i = 0 THEN 1 ELSE lengths[i - 1] * Dims[i]
    <3>1. \A i \in 0..N : i # 0 => i - 1 \in 0..N
      BY <1>1
    <3> QED BY <1>3, <3>1
  <2>2. Fits(lengths)
    BY <2>1
  <2> HIDE DEF Fits
  <2> QED BY <2>2
<1>5. \A i \in 0..N : upTo[i] = IF i = 0 THEN 1 ELSE upTo[i - 1] * Dims[i]
  <2>1. Fits(upTo)
    <3> HIDE DEF Fits
    <3> QED BY <1>4
  <2> HIDE DEF upTo
  <2> QED BY <2>1
<1> HIDE DEF upTo, lengths, Fits
<1>6. 0 \in S
  <2>1. 0 \in 0..N
    BY <1>1
  <2> QED BY <1>3, <1>5, <2>1
<1>7. ASSUME NEW i \in 0..(N - 1), i \in S PROVE i + 1 \in S
  <2>1. i + 1 \in 0..N /\ i + 1 # 0 /\ (i + 1) - 1 = i
    BY <1>1
  <2>2. upTo[i + 1] = upTo[(i + 1) - 1] * Dims[i + 1]
    BY <1>5, <2>1
  <2>3. Len(Product[i + 1]) = Len(Product[(i + 1) - 1]) * Dims[i + 1]
    BY <1>3, <2>1
  <2> QED BY <1>7, <2>1, <2>2, <2>3
<1>8. 0..N \subseteq S
  <2> HIDE DEF S, N
  <2> QED BY <1>1, <1>6, <1>7, CountingFromZero
<1>9. N \in S
  BY <1>1, <1>8
<1> QED BY <1>2, <1>9 DEF NumberOfProfiles

LEMMA AdvanceMoves ==
  ASSUME NEW x \in [1..NumberOfTeams -> 1..Size], NEW pl \in 1..NumberOfTeams,
         x[pl] < Size, \A j \in 1..(pl - 1) : x[j] = Size
  PROVE  StratItr!Advance(Dims, x) =
           [j \in 1..NumberOfTeams |-> IF j < pl THEN 1 ELSE IF j = pl THEN x[pl] + 1 ELSE x[j]]
<1> DEFINE N == NumberOfTeams
           Moves(i) == i \in DOMAIN Dims /\ x[i] < Dims[i] /\ \A j \in 1..(i - 1) : x[j] = Dims[j]
           first == CHOOSE i \in DOMAIN Dims : x[i] < Dims[i] /\ \A j \in 1..(i - 1) : x[j] = Dims[j]
<1>1. N \in Nat /\ Size \in Nat /\ \A j \in 1..N : x[j] \in 1..Size
  BY CatalogFacts
<1>2. ~StratItr!AtLast(Dims, x)
  <2>1. pl \in DOMAIN Dims /\ x[pl] # Dims[pl]
    BY <1>1, DimsFacts
  <2> QED BY <2>1 DEF StratItr!AtLast
<1>3. Moves(pl)
  <2>1. \A j \in 1..(pl - 1) : j \in 1..N
    BY <1>1
  <2> QED BY <2>1, DimsFacts
<1>4. \A i : Moves(i) => i = pl
  <2> SUFFICES ASSUME NEW i, Moves(i) PROVE i = pl
    OBVIOUS
  <2>1. i \in 1..N /\ x[i] < Size /\ \A j \in 1..(i - 1) : j \in 1..N /\ x[j] = Dims[j]
    BY <1>1, DimsFacts
  <2>2. \A j \in 1..(i - 1) : x[j] = Size
    BY <2>1, DimsFacts
  <2>3. ~(i < pl)
    <3> SUFFICES ASSUME i < pl PROVE FALSE
      OBVIOUS
    <3>1. i \in 1..(pl - 1)
      BY <2>1
    <3> QED BY <1>1, <2>1, <3>1
  <2>4. ~(pl < i)
    <3> SUFFICES ASSUME pl < i PROVE FALSE
      OBVIOUS
    <3>1. pl \in 1..(i - 1)
      BY <2>1
    <3> QED BY <1>1, <2>2, <3>1
  <2> QED BY <2>1, <2>3, <2>4
<1>5. first = pl
  <2>1. first = CHOOSE i : Moves(i)
    OBVIOUS
  <2> HIDE DEF Moves, first
  <2> QED BY <1>3, <1>4, <2>1
<1>6. StratItr!Advance(Dims, x) =
        [j \in DOMAIN Dims |-> CASE j < first -> 1 [] j = first -> x[j] + 1 [] j > first -> x[j]]
  BY <1>2 DEF StratItr!Advance
<1> HIDE DEF first
<1> QED BY <1>1, <1>5, <1>6, DimsFacts
(* The profile that is passed on, counted as Gambit counts.                *)
Rank(s) == CHOOSE i \in 1..Size : s = StrategyCatalog[i]
Ranks(k) == [j \in 1..NumberOfTeams |-> Rank(Product[NumberOfTeams][k][NumberOfTeams + 1 - j])]

LEMMA RankFacts ==
  /\ \A s \in Strategies : Rank(s) \in 1..Size /\ StrategyCatalog[Rank(s)] = s
  /\ \A i \in 1..Size : Rank(StrategyCatalog[i]) = i
<1>1. \A s \in Strategies : Rank(s) \in 1..Size /\ StrategyCatalog[Rank(s)] = s
  BY CatalogFacts DEF Rank
<1>2. ASSUME NEW i \in 1..Size PROVE Rank(StrategyCatalog[i]) = i
  <2>1. StrategyCatalog[i] \in Strategies
    BY CatalogFacts
  <2>2. Rank(StrategyCatalog[i]) \in 1..Size /\ StrategyCatalog[Rank(StrategyCatalog[i])] = StrategyCatalog[i]
    BY <1>1, <2>1
  <2> QED BY <2>2, CatalogFacts
<1> QED BY <1>1, <1>2

LEMMA RanksFacts ==
  /\ \A k \in 1..NumberOfProfiles : Ranks(k) \in [1..NumberOfTeams -> 1..Size]
  /\ Ranks(1) = StratItr!First(Dims)
  /\ \A k \in 1..(NumberOfProfiles - 1) : Ranks(k + 1) = StratItr!Advance(Dims, Ranks(k))
<1> DEFINE N == NumberOfTeams
           a(k) == Product[N][k]
<1>1. N \in Nat /\ Size \in Nat \ {0} /\ NumberOfProfiles \in Nat \ {0}
  BY CatalogFacts, ProfilesFacts
<1>2. \A j \in 1..N : N + 1 - j \in 1..N
  BY <1>1
<1>3. ASSUME NEW k \in 1..NumberOfProfiles PROVE Ranks(k) \in [1..N -> 1..Size]
  BY <1>2, ProfilesFacts, RankFacts DEF Ranks
<1>4. Ranks(1) = StratItr!First(Dims)
  <2>1. 1 \in 1..Size
    BY <1>1
  <2>2. \A j \in 1..N : Rank(a(1)[N + 1 - j]) = 1
    BY <1>2, <2>1, ProfilesFacts, RankFacts
  <2> QED BY <2>2, DimsFacts DEF Ranks, StratItr!First
<1>5. ASSUME NEW k \in 1..(NumberOfProfiles - 1) PROVE Ranks(k + 1) = StratItr!Advance(Dims, Ranks(k))
  <2>1. k \in 1..NumberOfProfiles /\ k + 1 \in 1..NumberOfProfiles
    BY <1>1
  <2>2. MovesOn(a(k), a(k + 1), N)
    BY ProfilesFacts
  <2>3. PICK p \in 1..N, i \in 1..(Size - 1) :
          /\ \A j \in 1..(p - 1) : a(k)[j] = a(k + 1)[j]
          /\ a(k)[p] = StrategyCatalog[i] /\ a(k + 1)[p] = StrategyCatalog[i + 1]
          /\ \A j \in (p + 1)..N : a(k)[j] = StrategyCatalog[Size] /\ a(k + 1)[j] = StrategyCatalog[1]
    BY <2>2 DEF MovesOn
  <2> DEFINE x == Ranks(k)
             y == Ranks(k + 1)
             pl == N + 1 - p
  <2>4. /\ x \in [1..N -> 1..Size] /\ y \in [1..N -> 1..Size]
        /\ \A j \in 1..N : x[j] = Rank(a(k)[N + 1 - j]) /\ y[j] = Rank(a(k + 1)[N + 1 - j])
    BY <1>3, <2>1 DEF Ranks
  <2>5. pl \in 1..N /\ N + 1 - pl = p /\ i \in 1..Size /\ i + 1 \in 1..Size /\ i < Size
        /\ 1 \in 1..Size /\ Size \in 1..Size
    BY <1>1
  <2> HIDE DEF a, x, y, pl
  <2>6. x[pl] = i /\ y[pl] = i + 1
    <3>1. x[pl] = Rank(a(k)[p]) /\ y[pl] = Rank(a(k + 1)[p])
      BY <2>4, <2>5
    <3> QED BY <2>3, <2>5, <3>1, RankFacts
  <2>7. \A j \in 1..(pl - 1) : x[j] = Size /\ y[j] = 1
    <3> SUFFICES ASSUME NEW j \in 1..(pl - 1) PROVE x[j] = Size /\ y[j] = 1
      OBVIOUS
    <3>1. j \in 1..N /\ N + 1 - j \in (p + 1)..N
      BY <1>1, <2>5
    <3>2. a(k)[N + 1 - j] = StrategyCatalog[Size] /\ a(k + 1)[N + 1 - j] = StrategyCatalog[1]
      BY <2>3, <3>1
    <3> QED BY <2>4, <2>5, <3>1, <3>2, RankFacts
  <2>8. \A j \in (pl + 1)..N : x[j] = y[j]
    <3> SUFFICES ASSUME NEW j \in (pl + 1)..N PROVE x[j] = y[j]
      OBVIOUS
    <3>1. j \in 1..N /\ N + 1 - j \in 1..(p - 1)
      BY <1>1, <2>5
    <3>2. a(k)[N + 1 - j] = a(k + 1)[N + 1 - j]
      BY <2>3, <3>1
    <3> QED BY <2>4, <3>1, <3>2
  <2>9. StratItr!Advance(Dims, x) =
          [j \in 1..N |-> IF j < pl THEN 1 ELSE IF j = pl THEN x[pl] + 1 ELSE x[j]]
    BY <2>4, <2>5, <2>6, <2>7, AdvanceMoves
  <2>10. \A j \in 1..N : y[j] = IF j < pl THEN 1 ELSE IF j = pl THEN x[pl] + 1 ELSE x[j]
    <3>1. \A j \in 1..N : j \in 1..(pl - 1) \/ j = pl \/ j \in (pl + 1)..N
      BY <1>1, <2>5
    <3> QED BY <1>1, <2>5, <2>6, <2>7, <2>8, <3>1
  <2>11. y = StratItr!Advance(Dims, x)
    BY <2>4, <2>9, <2>10
  <2> QED BY <2>11 DEF x, y
<1> QED BY <1>3, <1>4, <1>5

LEMMA IteratedIsRanks ==
  \A k \in 1..NumberOfProfiles : StratItr!Iterated(Dims)[k] = Ranks(k)
<1> DEFINE K == NumberOfProfiles
           Fits(g) == g = [k \in 1..K |-> IF k = 1 THEN StratItr!First(Dims)
                                          ELSE StratItr!Advance(Dims, g[k - 1])]
           visited == CHOOSE g : Fits(g)
           ranks == [k \in 1..K |-> Ranks(k)]
           S == {k \in 1..K : visited[k] = Ranks(k)}
<1>1. K \in Nat \ {0}
  BY ProfilesFacts
<1>2. StratItr!Iterated(Dims) = visited
  BY AsManyProfiles DEF StratItr!Iterated
<1>3. \A k \in 1..K : k # 1 => k - 1 \in 1..(K - 1) /\ k - 1 \in 1..K /\ (k - 1) + 1 = k
  BY <1>1
<1>4. \E g : Fits(g)
  <2>1. \A k \in 1..K : ranks[k] = IF k = 1 THEN StratItr!First(Dims)
                                   ELSE StratItr!Advance(Dims, ranks[k - 1])
    <3> SUFFICES ASSUME NEW k \in 1..K
                 PROVE  ranks[k] = IF k = 1 THEN StratItr!First(Dims)
                                   ELSE StratItr!Advance(Dims, ranks[k - 1])
      OBVIOUS
    <3>1. CASE k = 1
      BY <3>1, RanksFacts
    <3>2. CASE k # 1
      <4>1. ranks[k - 1] = Ranks(k - 1) /\ ranks[k] = Ranks(k)
        BY <1>3, <3>2
      <4>2. Ranks((k - 1) + 1) = StratItr!Advance(Dims, Ranks(k - 1))
        BY <1>3, <3>2, RanksFacts
      <4> QED BY <1>3, <3>2, <4>1, <4>2
    <3> QED BY <3>1, <3>2
  <2>2. Fits(ranks)
    <3> DEFINE computed == [k \in 1..K |-> IF k = 1 THEN StratItr!First(Dims)
                                           ELSE StratItr!Advance(Dims, ranks[k - 1])]
    <3>1. \A k \in 1..K : ranks[k] = computed[k]
      BY <2>1
    <3> QED BY <3>1
  <2> HIDE DEF Fits
  <2> QED BY <2>2
<1>5. \A k \in 1..K : visited[k] = IF k = 1 THEN StratItr!First(Dims)
                                   ELSE StratItr!Advance(Dims, visited[k - 1])
  <2>1. Fits(visited)
    <3> HIDE DEF Fits
    <3> QED BY <1>4
  <2> HIDE DEF visited
  <2> QED BY <2>1
<1> HIDE DEF visited, ranks, Fits
<1>6. K # 0 => 1 \in S
  <2>1. 1 \in 1..K
    BY <1>1
  <2> QED BY <1>5, <2>1, RanksFacts
<1>7. ASSUME NEW k \in 1..(K - 1), k \in S PROVE k + 1 \in S
  <2>1. k + 1 \in 1..K /\ k + 1 # 1 /\ (k + 1) - 1 = k
    BY <1>1
  <2>2. visited[k + 1] = StratItr!Advance(Dims, visited[(k + 1) - 1])
    BY <1>5, <2>1
  <2>3. Ranks(k + 1) = StratItr!Advance(Dims, Ranks(k))
    BY RanksFacts
  <2> QED BY <1>7, <2>1, <2>2, <2>3
<1>8. 1..K \subseteq S
  <2> HIDE DEF S, K
  <2> QED BY <1>1, <1>6, <1>7, CountingUp
<1> QED BY <1>2, <1>8

(* The k-th profile simulated is the k-th of Gambit's iterator.            *)
LEMMA SameOrder ==
  /\ DOMAIN StrategyMaps = 1..NumberOfProfiles /\ Len(StrategyMaps) = NumberOfProfiles
  /\ \A k \in 1..NumberOfProfiles : StrategyMaps[k] = GambitProfile(k)
                                 /\ StrategyMaps[k] \in [Teams -> Strategies]
<1>1. NumberOfTeams \in Nat /\ NumberOfProfiles \in Nat
  BY CatalogFacts, ProfilesFacts
<1>2. DOMAIN StrategyMaps = 1..NumberOfProfiles
  BY ProfilesFacts DEF StrategyMaps
<1>3. Len(StrategyMaps) = NumberOfProfiles
  BY <1>1, <1>2
<1>4. ASSUME NEW k \in 1..NumberOfProfiles
      PROVE  StrategyMaps[k] = GambitProfile(k) /\ StrategyMaps[k] \in [Teams -> Strategies]
  <2> DEFINE given == Product[NumberOfTeams][k]
  <2>1. \A t \in Teams : t + 1 \in 1..NumberOfTeams /\ NumberOfTeams - t \in 1..NumberOfTeams
                         /\ NumberOfTeams + 1 - (t + 1) = NumberOfTeams - t
    BY <1>1 DEF Teams
  <2>2. StrategyMaps[k] = [t \in Teams |-> given[NumberOfTeams - t]]
    BY <1>2, ProfilesFacts DEF StrategyMaps
  <2>3. GambitProfile(k) = [t \in Teams |-> StrategyCatalog[Ranks(k)[t + 1]]]
    BY IteratedIsRanks DEF GambitProfile, Dims, Size
  <2>4. \A t \in Teams : StrategyCatalog[Ranks(k)[t + 1]] = given[NumberOfTeams - t]
                         /\ given[NumberOfTeams - t] \in Strategies
    BY <2>1, ProfilesFacts, RankFacts DEF Ranks
  <2> HIDE DEF given
  <2> QED BY <2>2, <2>3, <2>4
<1> QED BY <1>2, <1>3, <1>4
-----------------------------------------------------------------------------
(* Types; the game does with the pool what its specification allows.       *)

Records == [team : Teams \cup {AGGREGATE_AGENT_TEAM, None}, strategy : Strategies \cup {None}]
Assigned == [team : Teams \cup {AGGREGATE_AGENT_TEAM}, strategy : Strategies]
Working == {"assign", "profile", "simulating", "metrics"}

GameTypeOK ==
  /\ game_configuration \in [twins : BOOLEAN, parallel : BOOLEAN, replications : MaxIterations]
  /\ \E n \in PlayerCounts : player_configuration \in [1..n -> Records]
  /\ step \in Working \cup {"game", "done", "crashed"}
  /\ team \in Teams
  /\ index \in Nat
  /\ step \in Working => index \in 1..NumberOfProfiles

LEMMA TeamsFacts ==
  /\ Teams = 0..(NumberOfTeams - 1) /\ NumberOfTeams \in Nat /\ NumberOfTeams >= 2
  /\ 0 \in Teams /\ AGGREGATE_AGENT_TEAM \in Int /\ AGGREGATE_AGENT_TEAM \notin Teams
  /\ None \notin Teams /\ None # AGGREGATE_AGENT_TEAM /\ None \notin Strategies
<1>1. None \notin Int /\ None \notin Strategies
  BY GameAssumption
<1>2. AGGREGATE_AGENT_TEAM \in Int /\ AGGREGATE_AGENT_TEAM < 0
  BY DEF AGGREGATE_AGENT_TEAM
<1> QED BY <1>1, <1>2, CatalogFacts DEF Teams

LEMMA PlayersFacts ==
  ASSUME GameTypeOK
  PROVE  \E n \in PlayerCounts : n \in Nat \ {0} /\ Players = 1..n
                              /\ player_configuration \in [1..n -> Records]
<1>1. PICK n \in PlayerCounts : player_configuration \in [1..n -> Records]
  BY DEF GameTypeOK
<1>2. n \in Nat \ {0}
  BY GameAssumption
<1> QED BY <1>1, <1>2 DEF Players

(* The opponent is another team.                                           *)
Opponent(t) == IF t = NumberOfTeams - 1 THEN t - 1 ELSE NumberOfTeams - 1

LEMMA OpponentFacts ==
  ASSUME NEW t \in Teams
  PROVE  /\ Opponent(t) \in Teams \ {t}
         /\ \A profile : OpponentStrategy(t, profile) = profile[Opponent(t)]
BY TeamsFacts DEF Opponent, OpponentStrategy

LEMMA CanBeLaunched ==
  ASSUME GameTypeOK, NEW config \in [Players -> Assigned]
  PROVE  Played(config) \in ReporterConfigs /\ Played(config) \in [Players -> Strategies]
<1>1. PICK n \in PlayerCounts : Players = 1..n
  BY PlayersFacts
<1>2. Played(config) \in [1..n -> Strategies]
  BY <1>1 DEF Played, Assigned
<1> QED BY <1>1, <1>2, GameAssumption

LEMMA ProfileAssigned ==
  ASSUME GameTypeOK, step = "profile", ~Twins, ~Raises
  PROVE  /\ ProfileConfiguration(StrategyMaps[index]) \in [Players -> Assigned]
         /\ \A p \in Players : /\ player_configuration[p].team \in Teams
                               /\ ProfileConfiguration(StrategyMaps[index])[p] =
                                    [team |-> player_configuration[p].team,
                                     strategy |-> StrategyMaps[index][player_configuration[p].team]]
<1>1. PICK n \in PlayerCounts : Players = 1..n /\ player_configuration \in [1..n -> Records]
  BY PlayersFacts
<1>2. \A p \in Players : player_configuration[p].team \in Teams
  BY DEF Raises
<1>3. StrategyMaps[index] \in [Teams -> Strategies]
  BY SameOrder DEF GameTypeOK, Working
<1>4. \A p \in Players : player_configuration[p] \in Records
  BY <1>1
<1>5. \A p \in Players : ProfileConfiguration(StrategyMaps[index])[p] =
                           [team |-> player_configuration[p].team,
                            strategy |-> StrategyMaps[index][player_configuration[p].team]]
  BY <1>4 DEF ProfileConfiguration, Records
<1>6. \A p \in Players : ProfileConfiguration(StrategyMaps[index])[p] \in Assigned
  <2> DEFINE profile == StrategyMaps[index]
  <2>1. profile \in [Teams -> Strategies]
    BY <1>3
  <2>2. \A p \in Players : ProfileConfiguration(profile)[p] =
                             [team |-> player_configuration[p].team,
                              strategy |-> profile[player_configuration[p].team]]
    BY <1>5
  <2> HIDE DEF profile
  <2>3. \A p \in Players : profile[player_configuration[p].team] \in Strategies
    BY <1>2, <2>1
  <2>4. \A p \in Players : ProfileConfiguration(profile)[p] \in Assigned
    <3>1. \A t \in Teams, s \in Strategies : [team |-> t, strategy |-> s] \in Assigned
      BY DEF Assigned
    <3> QED BY <1>2, <2>2, <2>3, <3>1
  <2> QED BY <2>4 DEF profile
<1> QED BY <1>2, <1>5, <1>6 DEF ProfileConfiguration

LEMMA TwinsAssigned ==
  ASSUME GameTypeOK, step = "profile"
  PROVE  TwinsConfiguration(team, StrategyMaps[index]) \in [Players -> Assigned]
<1>1. StrategyMaps[index] \in [Teams -> Strategies] /\ team \in Teams
  BY SameOrder DEF GameTypeOK, Working
<1>2. OpponentStrategy(team, StrategyMaps[index]) \in Strategies
  BY <1>1, OpponentFacts
<1> QED BY <1>1, <1>2 DEF TwinsConfiguration, Assigned

LEMMA AssignedIsRecord == Assigned \subseteq Records
BY DEF Assigned, Records

LEMMA GameTypeInit == ASSUME Init PROVE GameTypeOK
<1>1. PICK n \in PlayerCounts : player_configuration = [p \in 1..n |-> [team |-> None, strategy |-> None]]
  BY DEF Init
<1>2. player_configuration \in [1..n -> Records]
  BY <1>1 DEF Records
<1>3. 1 \in 1..NumberOfProfiles /\ 1 \in Nat
  BY ProfilesFacts
<1> QED BY <1>2, <1>3, TeamsFacts DEF Init, GameTypeOK, Working

LEMMA NextTeamType ==
  ASSUME GameTypeOK, NextTeam
  PROVE  team' \in Teams /\ step' \in {"profile", "metrics"}
BY TeamsFacts DEF GameTypeOK, NextTeam

LEMMA GameTypeStep == ASSUME GameTypeOK, [Next]_vars PROVE GameTypeOK'
<1>1. CASE UNCHANGED gameVars
  BY <1>1 DEF gameVars, GameTypeOK
<1>2. CASE AssignTeams
  <2>1. PICK n \in PlayerCounts : n \in Nat \ {0} /\ Players = 1..n
                               /\ player_configuration \in [1..n -> Records]
    BY PlayersFacts
  <2>2. player_configuration' \in [1..n -> Records]
    <3>1. CASE ~Twins /\ NumberOfTeams = Cardinality(Players)
      <4>1. Cardinality(1..n) = n
        BY <2>1, FS_Interval
      <4>2. \A p \in 1..n : p - 1 \in Teams
        BY <2>1, <3>1, <4>1, TeamsFacts
      <4>3. \A p \in 1..n : player_configuration[p] \in Records
        BY <2>1
      <4>4. \A p \in 1..n : [player_configuration[p] EXCEPT !.team = p - 1] \in Records
        BY <4>2, <4>3 DEF Records
      <4>5. player_configuration' = [p \in 1..n |-> [player_configuration[p] EXCEPT !.team = p - 1]]
        BY <1>2, <2>1, <3>1 DEF AssignTeams, OwnTeams
      <4> QED BY <4>4, <4>5
    <3>2. CASE ~(~Twins /\ NumberOfTeams = Cardinality(Players))
      BY <1>2, <2>1, <3>2 DEF AssignTeams
    <3> QED BY <3>1, <3>2
  <2> QED BY <1>2, <2>2 DEF AssignTeams, GameTypeOK, Working
<1>3. ASSUME NEW config \in [Players -> Assigned], player_configuration' = config
      PROVE  \E n \in PlayerCounts : player_configuration' \in [1..n -> Records]
  <2>1. PICK n \in PlayerCounts : Players = 1..n
    BY PlayersFacts
  <2> QED BY <1>3, <2>1, AssignedIsRecord
<1>4. CASE SimulateProfile
  <2>1. \E n \in PlayerCounts : player_configuration' \in [1..n -> Records]
    BY <1>3, <1>4, ProfileAssigned DEF SimulateProfile, Simulate
  <2> QED BY <1>4, <2>1 DEF SimulateProfile, Simulate, GameTypeOK, Working
<1>5. CASE SimulateTwins
  <2>1. \E n \in PlayerCounts : player_configuration' \in [1..n -> Records]
    BY <1>3, <1>5, TwinsAssigned DEF SimulateTwins, Simulate
  <2> QED BY <1>5, <2>1 DEF SimulateTwins, Simulate, GameTypeOK, Working
<1>6. CASE RecycleTwins
  <2>1. \E n \in PlayerCounts : player_configuration' \in [1..n -> Records]
    BY <1>3, <1>6, TwinsAssigned DEF RecycleTwins
  <2> QED BY <1>6, <2>1, NextTeamType DEF RecycleTwins, GameTypeOK, Working
<1>7. CASE ConsolidateSimulation
  BY <1>7, NextTeamType DEF ConsolidateSimulation, GameTypeOK, Working
<1>8. CASE GetTeamMetrics
  <2>1. index + 1 \in Nat /\ (index < Len(StrategyMaps) => index + 1 \in 1..NumberOfProfiles)
    BY ProfilesFacts, SameOrder DEF GameTypeOK
  <2> QED BY <1>8, <2>1 DEF GetTeamMetrics, GameTypeOK, Working
<1>9. CASE CalculateEquilibrium
  BY <1>9 DEF CalculateEquilibrium, GameTypeOK, Working
<1>10. CASE Crash
  BY <1>10 DEF Crash, GameTypeOK, Working
<1> QED BY <1>1, <1>2, <1>4, <1>5, <1>6, <1>7, <1>8, <1>9, <1>10
        DEF Next, RunSimulation, vars, gameVars, Finished

LEMMA PoolMoves == ASSUME GameTypeOK, [Next]_vars PROVE [PoolNext]_poolVars
<1>1. ASSUME NEW config \in [Players -> Assigned], Simulate(config) PROVE PoolNext
  <2>1. /\ Launch(Played(config), game_configuration.replications, game_configuration.parallel)
        /\ game_configuration.replications \in MaxIterations /\ game_configuration.parallel \in BOOLEAN
    BY <1>1 DEF Simulate, GameTypeOK
  <2> QED BY <2>1, CanBeLaunched DEF PoolNext
<1>2. CASE SimulateProfile
  BY <1>1, <1>2, ProfileAssigned DEF SimulateProfile
<1>3. CASE SimulateTwins
  BY <1>1, <1>3, TwinsAssigned DEF SimulateTwins
<1>4. CASE ConsolidateSimulation
  BY <1>4 DEF ConsolidateSimulation, PoolNext
<1>5. CASE UNCHANGED poolVars
  BY <1>5
<1>6. ASSUME NEW p \in Processes, PoolStep(p) PROVE PoolNext
  BY <1>6 DEF PoolNext
<1> QED BY <1>2, <1>3, <1>4, <1>5, <1>6
        DEF Next, RunSimulation, vars, Finished, AssignTeams, RecycleTwins, GetTeamMetrics,
            CalculateEquilibrium, Crash, PoolNext

LEMMA GameTypesHold == Spec => []GameTypeOK
BY GameTypeInit, GameTypeStep, PTL DEF Spec

(* The game launches a simulation only when the one before has returned.   *)
LEMMA PoolIsUsedProperly == Spec => PoolSpec
<1>1. Init => PoolInit
  BY DEF Init
<1> QED BY <1>1, PoolMoves, GameTypesHold, PTL DEF Spec, PoolSpec

(* Throughout a game the lists of a launch stay in step.                   *)
THEOREM GameListsStayInStep == Spec => []ListsInStep
BY PoolIsUsedProperly, ListsStayInStep, PTL

(* Throughout a game no two runs of a launch draw the same random numbers. *)
THEOREM GameRunsAreIndependent == Spec => []RunsIndependent
BY PoolIsUsedProperly, RunsAreIndependent, PTL

(* Every launch of a game, for whatever profile and however divided, is an *)
(* experiment.                                                             *)
THEOREM GameLaunchesExperiments == Spec => ImplementsExperiment
BY PoolIsUsedProperly, LaunchIsAnExperiment, PTL
-----------------------------------------------------------------------------
(* Dataframes.                                                             *)

Row(config, out, n, p) ==
  [run |-> n, reporter_name |-> p, reporter_team |-> config[p].team,
   reporter_strategy |-> config[p].strategy, outcome |-> out[n]]
Frame(config, out) == {Row(config, out, n, p) : n \in DOMAIN out, p \in DOMAIN config}

(* What so many runs of a configuration can yield.                         *)
Outcomes(runs, played) ==
  {out \in [1..runs -> [PayoffMetrics -> Replication]] :
     /\ \A n, k \in 1..runs : out[n] = out[k] => n = k
     /\ \A n \in 1..runs, m \in PayoffMetrics : out[n][m].played = played}

(* One player is the agent of a team, all others are the aggregate.        *)
TwinsConfig(players, agent, t, a, b) ==
  [p \in players |-> IF p = agent THEN [team |-> t, strategy |-> a]
                     ELSE [team |-> AGGREGATE_AGENT_TEAM, strategy |-> b]]

LEMMA RowFields ==
  ASSUME NEW config, NEW out, NEW n, NEW p
  PROVE  /\ Row(config, out, n, p).run = n
         /\ Row(config, out, n, p).reporter_name = p
         /\ Row(config, out, n, p).reporter_team = config[p].team
         /\ Row(config, out, n, p).reporter_strategy = config[p].strategy
         /\ Row(config, out, n, p).outcome = out[n]
BY DEF Row

LEMMA RunsOfFrame ==
  ASSUME NEW config, NEW out, DOMAIN config # {}
  PROVE  /\ {row.run : row \in Frame(config, out)} = DOMAIN out
         /\ Frame(config, out) = {} <=> DOMAIN out = {}
<1>1. \A row \in Frame(config, out) : row.run \in DOMAIN out
  BY RowFields DEF Frame
<1>2. \A n \in DOMAIN out : \E row \in Frame(config, out) : row.run = n
  <2>1. PICK p \in DOMAIN config : TRUE
    OBVIOUS
  <2>2. \A n \in DOMAIN out : Row(config, out, n, p) \in Frame(config, out)
    BY DEF Frame
  <2> QED BY <2>2, RowFields
<1> QED BY <1>1, <1>2

TeamRows(frame, n, t) == {row \in frame : row.run = n /\ row.reporter_team = t}

LEMMA RowsOfTeam ==
  ASSUME NEW config, NEW out, NEW n \in DOMAIN out, NEW t
  PROVE  TeamRows(Frame(config, out), n, t) =
           {Row(config, out, n, p) : p \in {q \in DOMAIN config : config[q].team = t}}
<1>1. ASSUME NEW row \in Frame(config, out), row.run = n, row.reporter_team = t
      PROVE  \E p \in DOMAIN config : config[p].team = t /\ row = Row(config, out, n, p)
  BY <1>1, RowFields DEF Frame
<1>2. ASSUME NEW p \in DOMAIN config, config[p].team = t
      PROVE  /\ Row(config, out, n, p) \in Frame(config, out)
             /\ Row(config, out, n, p).run = n /\ Row(config, out, n, p).reporter_team = t
  BY <1>2, RowFields DEF Frame
<1> QED BY <1>1, <1>2 DEF TeamRows

LEMMA FirstRunCount ==
  ASSUME NEW config, NEW out, 1 \in DOMAIN out, IsFiniteSet(DOMAIN config), NEW s
  PROVE  Cardinality(PlayingInFirstRun(Frame(config, out), s)) = Cardinality(Playing(config, s))
<1> DEFINE S == Playing(config, s)
           T == PlayingInFirstRun(Frame(config, out), s)
           f == [p \in S |-> Row(config, out, 1, p)]
<1>1. IsFiniteSet(S)
  BY FS_Subset DEF Playing
<1>2. \A p \in S : Row(config, out, 1, p) \in T
  BY RowFields DEF Playing, PlayingInFirstRun, Frame
<1>3. \A row \in T : \E p \in S : row = Row(config, out, 1, p)
  BY RowFields DEF Playing, PlayingInFirstRun, Frame
<1>4. \A p, q \in S : Row(config, out, 1, p) = Row(config, out, 1, q) => p = q
  BY RowFields
<1> HIDE DEF S, T
<1>5. f \in Bijection(S, T)
  <2>1. f \in [S -> T]
    BY <1>2
  <2>2. \A row \in T : \E p \in S : f[p] = row
    BY <1>3
  <2>3. \A p, q \in S : f[p] = f[q] => p = q
    BY <1>4
  <2> HIDE DEF f
  <2> QED BY <2>1, <2>2, <2>3 DEF Bijection, Injection, Surjection, IsInjective
<1> HIDE DEF f
<1>6. Cardinality(T) = Cardinality(S)
  <2>1. ExistsBijection(S, T)
    BY <1>5 DEF ExistsBijection
  <2> QED BY <1>1, <2>1, FS_Bijection
<1> QED BY <1>6 DEF S, T

IsTwins(config, players, agent, t, a, b) ==
  /\ config \in [players -> Assigned] /\ DOMAIN config = players
  /\ config[agent].team = t /\ config[agent].strategy = a
  /\ \A p \in players \ {agent} : config[p].team = AGGREGATE_AGENT_TEAM /\ config[p].strategy = b
  /\ {p \in players : config[p].team = t} = {agent}
  /\ {config[p].team : p \in players} \ {AGGREGATE_AGENT_TEAM} = {t}

LEMMA TwinsConfigFacts ==
  ASSUME NEW players, NEW agent \in players, NEW t \in Teams,
         NEW a \in Strategies, NEW b \in Strategies
  PROVE  IsTwins(TwinsConfig(players, agent, t, a, b), players, agent, t, a, b)
<1> DEFINE config == TwinsConfig(players, agent, t, a, b)
<1>1. config \in [players -> Assigned]
  BY DEF TwinsConfig, Assigned
<1>2. config[agent] = [team |-> t, strategy |-> a]
  BY DEF TwinsConfig
<1>3. \A p \in players \ {agent} : config[p] = [team |-> AGGREGATE_AGENT_TEAM, strategy |-> b]
  BY DEF TwinsConfig
<1>4. t # AGGREGATE_AGENT_TEAM
  BY TeamsFacts
<1> HIDE DEF config
<1>5. \A p \in players \ {agent} : config[p].team = AGGREGATE_AGENT_TEAM /\ config[p].strategy = b
  BY <1>3
<1>6. config[agent].team = t /\ config[agent].strategy = a
  BY <1>2
<1>7. {p \in players : config[p].team = t} = {agent}
  BY <1>4, <1>5, <1>6
<1>8. {config[p].team : p \in players} \ {AGGREGATE_AGENT_TEAM} = {t}
  BY <1>4, <1>5, <1>6
<1> QED BY <1>1, <1>5, <1>6, <1>7, <1>8 DEF config, IsTwins

(* The team a row is given when its frame is recycled for config.          *)
NewTeam(config, row) ==
  IF Cardinality({config[p].strategy : p \in DOMAIN config}) # 1
  THEN CHOOSE t \in {config[p].team : p \in Playing(config, row.reporter_strategy)} : TRUE
  ELSE IF row.reporter_team = AGGREGATE_AGENT_TEAM THEN AGGREGATE_AGENT_TEAM
  ELSE CHOOSE t \in {config[p].team : p \in DOMAIN config} \ {AGGREGATE_AGENT_TEAM} : TRUE

LEMMA RelabelledRows ==
  ASSUME NEW config, NEW old, NEW new, NEW out, DOMAIN new = DOMAIN old,
         \A p \in DOMAIN old : new[p].strategy = old[p].strategy,
         \A p \in DOMAIN old, n \in DOMAIN out : NewTeam(config, Row(old, out, n, p)) = new[p].team
  PROVE  Relabelled(Frame(old, out), config) = Frame(new, out)
<1>1. Relabelled(Frame(old, out), config) =
        {[row EXCEPT !.reporter_team = NewTeam(config, row)] : row \in Frame(old, out)}
  BY DEF Relabelled, NewTeam
<1>2. \A p \in DOMAIN old, n \in DOMAIN out :
        [Row(old, out, n, p) EXCEPT !.reporter_team = NewTeam(config, Row(old, out, n, p))] =
          Row(new, out, n, p)
  <2> SUFFICES ASSUME NEW p \in DOMAIN old, NEW n \in DOMAIN out
               PROVE  [Row(old, out, n, p) EXCEPT !.reporter_team = NewTeam(config, Row(old, out, n, p))] =
                        Row(new, out, n, p)
    OBVIOUS
  <2>1. [Row(old, out, n, p) EXCEPT !.reporter_team = new[p].team] = Row(new, out, n, p)
    BY DEF Row
  <2> QED BY <2>1
<1>3. ASSUME NEW p \in DOMAIN old, NEW n \in DOMAIN out
      PROVE  /\ Row(old, out, n, p) \in Frame(old, out)
             /\ Row(new, out, n, p) \in Frame(new, out)
  BY DEF Frame
<1>4. \A row \in Frame(old, out) : \E p \in DOMAIN old, n \in DOMAIN out : row = Row(old, out, n, p)
  BY DEF Frame
<1>5. \A row \in Frame(new, out) : \E p \in DOMAIN old, n \in DOMAIN out : row = Row(new, out, n, p)
  BY DEF Frame
<1> DEFINE change(row) == [row EXCEPT !.reporter_team = NewTeam(config, row)]
<1>6. \A p \in DOMAIN old, n \in DOMAIN out : change(Row(old, out, n, p)) = Row(new, out, n, p)
  BY <1>2
<1> HIDE DEF change
<1>7. {change(row) : row \in Frame(old, out)} = Frame(new, out)
  BY <1>3, <1>4, <1>5, <1>6
<1> QED BY <1>1, <1>7 DEF change

(* A recycled frame: whoever played the agent's strategy is the agent now. *)
LEMMA RelabelledIsTwins ==
  ASSUME NEW n \in Nat \ {0}, NEW runs \in Nat \ {0}, NEW t \in Teams, NEW u \in Teams,
         NEW a \in Strategies, NEW b \in Strategies, NEW c \in Strategies, NEW d \in Strategies,
         NEW out \in Outcomes(runs, Played(TwinsConfig(1..n, 1, u, c, d))),
         SameCounts(Frame(TwinsConfig(1..n, 1, u, c, d), out), TwinsConfig(1..n, 1, t, a, b))
  PROVE  \E agent \in 1..n :
           /\ Relabelled(Frame(TwinsConfig(1..n, 1, u, c, d), out), TwinsConfig(1..n, 1, t, a, b)) =
                Frame(TwinsConfig(1..n, agent, t, a, b), out)
           /\ Played(TwinsConfig(1..n, agent, t, a, b)) = Played(TwinsConfig(1..n, 1, u, c, d))
<1> DEFINE players == 1..n
           old == TwinsConfig(players, 1, u, c, d)
           config == TwinsConfig(players, 1, t, a, b)
<1>1. /\ 1 \in players /\ IsFiniteSet(players) /\ Cardinality(players) = n
      /\ DOMAIN out = 1..runs /\ 1 \in DOMAIN out
  <2>1. IsFiniteSet(1..n) /\ Cardinality(1..n) = n
    BY FS_Interval
  <2> QED BY <2>1 DEF Outcomes
<1>2. /\ DOMAIN old = players /\ old[1].team = u /\ old[1].strategy = c
      /\ \A p \in players \ {1} : old[p].team = AGGREGATE_AGENT_TEAM /\ old[p].strategy = d
  <2>1. IsTwins(old, players, 1, u, c, d)
    BY <1>1, TwinsConfigFacts
  <2> HIDE DEF old, players
  <2> QED BY <2>1 DEF IsTwins
<1>3. /\ DOMAIN config = players /\ config[1].team = t /\ config[1].strategy = a
      /\ \A p \in players \ {1} : config[p].team = AGGREGATE_AGENT_TEAM /\ config[p].strategy = b
      /\ {config[p].team : p \in players} \ {AGGREGATE_AGENT_TEAM} = {t}
  <2>1. IsTwins(config, players, 1, t, a, b)
    BY <1>1, TwinsConfigFacts
  <2> HIDE DEF config, players
  <2> QED BY <2>1 DEF IsTwins
<1> HIDE DEF players, old, config
<1>4. \A p \in players :
        Cardinality(Playing(old, config[p].strategy)) = Cardinality(Playing(config, config[p].strategy))
  <2>1. SameCounts(Frame(old, out), config)
    BY DEF players, old, config
  <2>2. \A s : Cardinality(PlayingInFirstRun(Frame(old, out), s)) = Cardinality(Playing(old, s))
    BY <1>1, <1>2, FirstRunCount
  <2> QED BY <1>3, <2>1, <2>2 DEF SameCounts
<1>5. \A s : Playing(old, s) \subseteq players /\ IsFiniteSet(Playing(old, s))
  <2>1. \A s : Playing(old, s) \subseteq players
    BY <1>2 DEF Playing
  <2> QED BY <1>1, <2>1, FS_Subset
<1>6. ASSUME NEW agent \in players,
             \A p \in players : old[p].strategy = TwinsConfig(players, agent, t, a, b)[p].strategy,
             \A p \in players, k \in DOMAIN out :
               NewTeam(config, Row(old, out, k, p)) = TwinsConfig(players, agent, t, a, b)[p].team
      PROVE  /\ Relabelled(Frame(old, out), config) = Frame(TwinsConfig(players, agent, t, a, b), out)
             /\ Played(TwinsConfig(players, agent, t, a, b)) = Played(old)
  <2> DEFINE new == TwinsConfig(players, agent, t, a, b)
  <2>1. DOMAIN new = players
    BY DEF TwinsConfig
  <2> HIDE DEF new
  <2>2. /\ \A p \in DOMAIN old : new[p].strategy = old[p].strategy
        /\ \A p \in DOMAIN old, k \in DOMAIN out : NewTeam(config, Row(old, out, k, p)) = new[p].team
    BY <1>2, <1>6 DEF new
  <2>3. Relabelled(Frame(old, out), config) = Frame(new, out)
    BY <1>2, <2>1, <2>2, RelabelledRows
  <2>4. Played(new) = Played(old)
    BY <1>2, <2>1, <2>2 DEF Played
  <2> QED BY <2>3, <2>4 DEF new
<1>7. CASE \A p \in players : config[p].strategy = a
  <2>1. Playing(config, a) = players /\ {config[p].strategy : p \in DOMAIN config} = {a}
    BY <1>1, <1>3, <1>7 DEF Playing
  <2>2. Cardinality(Playing(old, a)) = Cardinality(players)
    BY <1>1, <1>3, <1>4, <2>1
  <2>3. Playing(old, a) = players
    BY <1>1, <1>5, <2>2, FS_Subset
  <2>4. \A p \in players : old[p].strategy = a
    BY <2>3 DEF Playing
  <2> DEFINE new == TwinsConfig(players, 1, t, a, b)
  <2>5. new[1].team = t /\ new[1].strategy = a
        /\ \A p \in players \ {1} : new[p].team = AGGREGATE_AGENT_TEAM /\ new[p].strategy = a
    BY <1>3, <1>7 DEF config
  <2>6. \A p \in players, k \in DOMAIN out : NewTeam(config, Row(old, out, k, p)) = new[p].team
    <3>1. Cardinality({config[p].strategy : p \in DOMAIN config}) = 1
      BY <2>1, FS_Singleton
    <3>2. (CHOOSE x \in {config[p].team : p \in DOMAIN config} \ {AGGREGATE_AGENT_TEAM} : TRUE) = t
      BY <1>3
    <3>3. \A p \in players : old[p].team = AGGREGATE_AGENT_TEAM <=> p # 1
      BY <1>1, <1>2, TeamsFacts
    <3> HIDE DEF new
    <3> SUFFICES ASSUME NEW p \in players, NEW k \in DOMAIN out
                 PROVE  NewTeam(config, Row(old, out, k, p)) = new[p].team
      OBVIOUS
    <3>4. Row(old, out, k, p).reporter_team = old[p].team
      BY RowFields
    <3>5. CASE p = 1
      BY <2>5, <3>1, <3>2, <3>3, <3>4, <3>5 DEF NewTeam
    <3>6. CASE p # 1
      BY <2>5, <3>1, <3>3, <3>4, <3>6 DEF NewTeam
    <3> QED BY <3>5, <3>6
  <2>7. \A p \in players : old[p].strategy = new[p].strategy
    <3> HIDE DEF new
    <3> QED BY <2>4, <2>5
  <2> QED BY <1>1, <1>6, <2>6, <2>7 DEF players, old, config
<1>8. CASE \E p \in players : config[p].strategy # a
  <2>1. PICK q \in players : q # 1 /\ config[q].strategy = b /\ a # b
    BY <1>3, <1>8
  <2>2. Playing(config, a) = {1} /\ Playing(config, b) = players \ {1}
        /\ {config[p].strategy : p \in DOMAIN config} = {a, b}
    BY <1>1, <1>3, <2>1 DEF Playing
  <2>3. Cardinality(Playing(old, a)) = 1 /\ Cardinality(Playing(old, b)) = n - 1
    <3>1. Cardinality(players \ {1}) = n - 1 /\ Cardinality({1}) = 1
      <4>1. Cardinality(players \ {1}) = Cardinality(players) - 1
        BY <1>1, FS_RemoveElement
      <4> QED BY <1>1, <4>1, FS_Singleton
    <3> QED BY <1>1, <1>3, <1>4, <2>1, <2>2, <3>1
  <2>4. PICK agent : Playing(old, a) = {agent}
    BY <1>5, <2>3, FS_Singleton
  <2>5. agent \in players
    BY <1>5, <2>4
  <2>6. Playing(old, b) = players \ {agent}
    <3>1. IsFiniteSet(players \ {agent}) /\ Cardinality(players \ {agent}) = n - 1
      BY <1>1, <2>5, FS_RemoveElement
    <3>2. Playing(old, b) \subseteq players \ {agent}
      BY <1>5, <2>1, <2>4 DEF Playing
    <3> QED BY <2>3, <3>1, <3>2, FS_Subset
  <2>7. old[agent].strategy = a /\ \A p \in players \ {agent} : old[p].strategy = b
    BY <2>4, <2>6 DEF Playing
  <2> DEFINE new == TwinsConfig(players, agent, t, a, b)
  <2>8. new[agent].team = t /\ new[agent].strategy = a
        /\ \A p \in players \ {agent} : new[p].team = AGGREGATE_AGENT_TEAM /\ new[p].strategy = b
    <3>1. IsTwins(new, players, agent, t, a, b)
      BY <2>5, TwinsConfigFacts
    <3> HIDE DEF new
    <3> QED BY <3>1 DEF IsTwins
  <2> HIDE DEF new
  <2>9. \A p \in players, k \in DOMAIN out : NewTeam(config, Row(old, out, k, p)) = new[p].team
    <3>1. Cardinality({config[p].strategy : p \in DOMAIN config}) # 1
      <4>1. IsFiniteSet(players) /\ {a, b} # {} /\ ~ \E x : {a, b} = {x}
        BY <1>1, <2>1
      <4>2. IsFiniteSet({a, b})
        <5>1. IsFiniteSet({a}) /\ {a, b} = {a} \cup {b}
          BY FS_Singleton
        <5>2. IsFiniteSet({a} \cup {b})
          BY <5>1, FS_AddElement
        <5> QED BY <5>1, <5>2
      <4> QED BY <2>2, <4>1, <4>2, FS_Singleton
    <3>2. {config[p].team : p \in Playing(config, a)} = {t}
          /\ {config[p].team : p \in Playing(config, b)} = {AGGREGATE_AGENT_TEAM}
      BY <1>3, <2>1, <2>2
    <3> SUFFICES ASSUME NEW p \in players, NEW k \in DOMAIN out
                 PROVE  NewTeam(config, Row(old, out, k, p)) = new[p].team
      OBVIOUS
    <3>3. NewTeam(config, Row(old, out, k, p)) =
            CHOOSE x \in {config[r].team : r \in Playing(config, old[p].strategy)} : TRUE
      BY <3>1, RowFields DEF NewTeam
    <3>4. CASE p = agent
      BY <2>7, <2>8, <3>2, <3>3, <3>4
    <3>5. CASE p # agent
      BY <2>7, <2>8, <3>2, <3>3, <3>5
    <3> QED BY <3>4, <3>5
  <2>10. \A p \in players : old[p].strategy = new[p].strategy
    BY <2>7, <2>8
  <2> QED BY <1>6, <2>5, <2>9, <2>10 DEF players, old, config, new
<1> QED BY <1>7, <1>8 DEF players, old, config

-----------------------------------------------------------------------------
(* The frames of a profile.                                                *)

RunsPerProfile ==
  LET blocks == IF game_configuration.parallel THEN ParallelBlocks ELSE 1
  IN  blocks * SamplesPerWorker(game_configuration.replications, blocks)

RowsOver(players) ==
  [run : Nat \ {0}, reporter_name : players, reporter_team : Teams \cup {AGGREGATE_AGENT_TEAM},
   reporter_strategy : Strategies, outcome : [PayoffMetrics -> Replication]]

TwinsOf(players, agent, t, profile) == TwinsConfig(players, agent, t, profile[t], profile[Opponent(t)])
OwnConfig(players, profile) == [p \in players |-> [team |-> p - 1, strategy |-> profile[p - 1]]]

(* A frame of so many runs with an agent of team t.                        *)
TwinsFrame(frame, players, runs, t, profile) ==
  \E agent \in players : \E out \in Outcomes(runs, Played(TwinsOf(players, agent, t, profile))) :
    frame = Frame(TwinsOf(players, agent, t, profile), out)

(* A frame in which every player is a team.                                *)
OwnFrame(frame, players, runs, profile) ==
  \E out \in Outcomes(runs, Played(OwnConfig(players, profile))) :
    frame = Frame(OwnConfig(players, profile), out)

(* A frame that was simulated for some team and some profile.              *)
HistoryFrame(frame, players, runs) ==
  \E t \in Teams, a \in Strategies, b \in Strategies :
    \E out \in Outcomes(runs, Played(TwinsConfig(players, 1, t, a, b))) :
      frame = Frame(TwinsConfig(players, 1, t, a, b), out)

(* The rows a payoff is made of: one per run, those of the team's player.  *)
TwinsRows(rows, players, runs, t, profile) ==
  \E agent \in players : \E out \in Outcomes(runs, Played(TwinsOf(players, agent, t, profile))) :
    rows = {Row(TwinsOf(players, agent, t, profile), out, n, agent) : n \in 1..runs}
OwnRows(rows, players, runs, t, profile) ==
  \E out \in Outcomes(runs, Played(OwnConfig(players, profile))) :
    rows = {Row(OwnConfig(players, profile), out, n, t + 1) : n \in 1..runs}

LEMMA OutcomesFacts ==
  ASSUME NEW runs, NEW played, NEW out \in Outcomes(runs, played)
  PROVE  /\ DOMAIN out = 1..runs /\ \A n \in 1..runs : out[n] \in [PayoffMetrics -> Replication]
         /\ \A n, k \in 1..runs : out[n] = out[k] => n = k
         /\ \A n \in 1..runs, m \in PayoffMetrics : out[n][m].played = played
BY DEF Outcomes

LEMMA FrameType ==
  ASSUME NEW players, NEW config \in [players -> Assigned], NEW runs \in Nat, NEW played,
         NEW out \in Outcomes(runs, played)
  PROVE  /\ Frame(config, out) \subseteq RowsOver(players)
         /\ \A n \in 1..runs, p \in players : Row(config, out, n, p) \in RowsOver(players)
<1>1. \A n \in 1..runs, p \in players : Row(config, out, n, p) \in RowsOver(players)
  <2> SUFFICES ASSUME NEW n \in 1..runs, NEW p \in players
               PROVE  Row(config, out, n, p) \in RowsOver(players)
    OBVIOUS
  <2>1. out[n] \in [PayoffMetrics -> Replication] /\ n \in Nat \ {0}
    BY OutcomesFacts
  <2>2. config[p].team \in Teams \cup {AGGREGATE_AGENT_TEAM} /\ config[p].strategy \in Strategies
    BY DEF Assigned
  <2> QED BY <2>1, <2>2 DEF Row, RowsOver
<1>2. DOMAIN out = 1..runs /\ DOMAIN config = players
  BY OutcomesFacts
<1> QED BY <1>1, <1>2 DEF Frame

LEMMA TwinsOfAssigned ==
  ASSUME NEW players, NEW agent \in players, NEW t \in Teams, NEW profile \in [Teams -> Strategies]
  PROVE  /\ IsTwins(TwinsOf(players, agent, t, profile), players, agent, t, profile[t], profile[Opponent(t)])
         /\ TwinsOf(players, agent, t, profile) \in [players -> Assigned]
<1>1. profile[t] \in Strategies /\ profile[Opponent(t)] \in Strategies
  BY OpponentFacts
<1>2. IsTwins(TwinsOf(players, agent, t, profile), players, agent, t, profile[t], profile[Opponent(t)])
  BY <1>1, TwinsConfigFacts DEF TwinsOf
<1> QED BY <1>2 DEF IsTwins

LEMMA OwnConfigAssigned ==
  ASSUME NEW profile \in [Teams -> Strategies]
  PROVE  OwnConfig(1..NumberOfTeams, profile) \in [1..NumberOfTeams -> Assigned]
<1>1. \A p \in 1..NumberOfTeams : p - 1 \in Teams
  BY TeamsFacts
<1> QED BY <1>1 DEF OwnConfig, Assigned

LEMMA FrameTypes ==
  ASSUME NEW players, NEW runs \in Nat, NEW t \in Teams, NEW profile \in [Teams -> Strategies], NEW frame
  PROVE  /\ TwinsFrame(frame, players, runs, t, profile) => frame \in SUBSET RowsOver(players)
         /\ OwnFrame(frame, players, runs, profile) /\ players = 1..NumberOfTeams
              => frame \in SUBSET RowsOver(players)
         /\ TwinsRows(frame, players, runs, t, profile) => frame \in SUBSET RowsOver(players)
         /\ OwnRows(frame, players, runs, t, profile) /\ players = 1..NumberOfTeams
              => frame \in SUBSET RowsOver(players)
<1>1. ASSUME TwinsFrame(frame, players, runs, t, profile) PROVE frame \in SUBSET RowsOver(players)
  BY <1>1, TwinsOfAssigned, FrameType DEF TwinsFrame
<1>2. ASSUME OwnFrame(frame, players, runs, profile), players = 1..NumberOfTeams
      PROVE  frame \in SUBSET RowsOver(players)
  BY <1>2, OwnConfigAssigned, FrameType DEF OwnFrame
<1>3. ASSUME TwinsRows(frame, players, runs, t, profile) PROVE frame \in SUBSET RowsOver(players)
  <2>1. PICK agent \in players :
          \E out \in Outcomes(runs, Played(TwinsOf(players, agent, t, profile))) :
            frame = {Row(TwinsOf(players, agent, t, profile), out, n, agent) : n \in 1..runs}
    BY <1>3 DEF TwinsRows
  <2> DEFINE config == TwinsOf(players, agent, t, profile)
  <2>3. PICK out \in Outcomes(runs, Played(config)) :
          frame = {Row(config, out, n, agent) : n \in 1..runs}
    BY <2>1
  <2>2. config \in [players -> Assigned]
    BY TwinsOfAssigned
  <2> HIDE DEF config
  <2>4. \A n \in 1..runs : Row(config, out, n, agent) \in RowsOver(players)
    BY <2>2, FrameType
  <2> QED BY <2>3, <2>4
<1>4. ASSUME OwnRows(frame, players, runs, t, profile), players = 1..NumberOfTeams
      PROVE  frame \in SUBSET RowsOver(players)
  <2>1. t + 1 \in players
    BY <1>4, TeamsFacts
  <2>2. PICK out \in Outcomes(runs, Played(OwnConfig(players, profile))) :
          frame = {Row(OwnConfig(players, profile), out, n, t + 1) : n \in 1..runs}
    BY <1>4 DEF OwnRows
  <2> DEFINE config == OwnConfig(players, profile)
  <2>3. config \in [players -> Assigned] /\ out \in Outcomes(runs, Played(config))
    BY <1>4, OwnConfigAssigned
  <2>4. frame = {Row(config, out, n, t + 1) : n \in 1..runs}
    BY <2>2
  <2> HIDE DEF config
  <2>5. \A n \in 1..runs : Row(config, out, n, t + 1) \in RowsOver(players)
    BY <2>1, <2>3, FrameType
  <2> QED BY <2>4, <2>5
<1> QED BY <1>1, <1>2, <1>3, <1>4

LEMMA RunsPerProfileType == ASSUME GameTypeOK PROVE RunsPerProfile \in Nat
<1> DEFINE blocks == IF game_configuration.parallel THEN ParallelBlocks ELSE 1
<1>1. blocks \in Nat \ {0} /\ game_configuration.replications \in Nat
  <2>1. game_configuration.replications \in MaxIterations
    BY DEF GameTypeOK
  <2>2. blocks = ParallelBlocks \/ blocks = 1
    BY Zenon
  <2>3. game_configuration.replications \in Nat
    BY <2>1, PoolAssumption
  <2> HIDE DEF blocks
  <2> QED BY <2>2, <2>3, PoolAssumption
<1> HIDE DEF blocks
<1>2. SamplesPerWorker(game_configuration.replications, blocks) \in Nat
  BY <1>1, SamplesPerWorkerType
<1>3. blocks * SamplesPerWorker(game_configuration.replications, blocks) \in Nat
  BY <1>1, <1>2
<1> QED BY <1>3 DEF RunsPerProfile, blocks

(* The lists of a launch become a frame of all its runs.                   *)
LEMMA ConsolidatedIsFrame ==
  ASSUME FullInv, GameTypeOK, AllCollected,
         worker_inputs[1].reporters_config = Played(player_configuration),
         Len(worker_inputs) * worker_inputs[1].max_iterations = RunsPerProfile
  PROVE  \E out \in Outcomes(RunsPerProfile, Played(player_configuration)) :
           ConsolidatePayoffResults = Frame(player_configuration, out)
<1> DEFINE R == RunsPerProfile
           out == [n \in 1..R |-> [m \in PayoffMetrics |-> results[m][n]]]
           first == "completed_per_reporter"
<1>1. R \in Nat /\ PayoffMetrics \subseteq Metrics /\ first \in PayoffMetrics
  BY RunsPerProfileType DEF PayoffMetrics, Metrics
<1>2. collected = Len(worker_inputs) /\ collected \in Nat /\ collected # 0
  BY DEF AllCollected, Launched, FullInv, RunInv, PlaceInv, PoolTypeOK
<1>3. \A m \in Metrics : results[m] \in Seq(Replication) /\ Len(results[m]) = R
  <2>1. \A m \in Metrics : results[m] \in Seq(Replication)
    BY DEF FullInv, RunInv, PlaceInv, PoolTypeOK, ResultLists
  <2>2. \A m \in Metrics : Len(results[m]) = R
    BY <1>2 DEF FullInv, ResultsFull
  <2> QED BY <2>1, <2>2
<1>4. \A m \in Metrics : DOMAIN results[m] = 1..R /\ \A n \in 1..R : results[m][n] \in Replication
  <2> HIDE DEF R
  <2> QED BY <1>1, <1>3
<1>5. \A m \in Metrics, n \in 1..R : results[m][n].played = Played(player_configuration)
  <2> SUFFICES ASSUME NEW m \in Metrics, NEW n \in 1..R
               PROVE  results[m][n].played = Played(player_configuration)
    OBVIOUS
  <2>1. PICK b \in 1..collected : \E j \in DOMAIN worker_outputs[b][m] :
          results[m][n] = worker_outputs[b][m][j]
    BY <1>4 DEF FullInv, RunInv, ResultsFromBlocks
  <2>2. b \in Blocks
    BY <1>2 DEF FullInv, RunInv, PlaceInv, PoolTypeOK, Blocks
  <2> QED BY <2>1, <2>2 DEF FullInv, RunInv, OneConfig
<1>6. out \in Outcomes(R, Played(player_configuration))
  <2>1. out \in [1..R -> [PayoffMetrics -> Replication]]
    BY <1>1, <1>4
  <2>2. ASSUME NEW n \in 1..R, NEW k \in 1..R, out[n] = out[k] PROVE n = k
    <3>1. results[first][n] = results[first][k]
      <4>1. out[n][first] = results[first][n] /\ out[k][first] = results[first][k]
        BY <1>1
      <4> HIDE DEF out
      <4> QED BY <2>2, <4>1
    <3>2. first \in Metrics /\ n \in DOMAIN results[first] /\ k \in DOMAIN results[first]
      BY <1>1, <1>4
    <3> QED BY <3>1, <3>2 DEF FullInv, RunInv, ResultsDistinct
  <2>3. \A n \in 1..R, m \in PayoffMetrics : out[n][m].played = Played(player_configuration)
    BY <1>1, <1>5
  <2> HIDE DEF out, R
  <2> QED BY <2>1, <2>2, <2>3 DEF Outcomes
<1>7. ConsolidatePayoffResults = Frame(player_configuration, out)
  <2>1. Runs = 1..R /\ DOMAIN out = 1..R
    BY <1>1, <1>4 DEF Runs
  <2>2. \A n \in 1..R : out[n] = [m \in PayoffMetrics |-> results[m][n]]
    OBVIOUS
  <2> HIDE DEF out, R
  <2> QED BY <2>1, <2>2 DEF ConsolidatePayoffResults, Frame, Row, Players
<1> QED BY <1>6, <1>7

(* The metrics of a profile of the twins: team t is in frame t + 1 only.   *)
LEMMA TwinsMetrics ==
  ASSUME NEW runs \in Nat, NEW profile \in [Teams -> Strategies], 1 \in Players,
         DOMAIN overall_dataframes = 1..NumberOfTeams,
         \A d \in 1..NumberOfTeams : TwinsFrame(overall_dataframes[d], Players, runs, d - 1, profile),
         NEW t \in Teams
  PROVE  /\ RunsOfProfile = 1..runs
         /\ TwinsRows(TeamMetrics[t], Players, runs, t, profile)
<1>1. /\ t + 1 \in 1..NumberOfTeams /\ (t + 1) - 1 = t /\ 1 \in 1..NumberOfTeams
      /\ \A d \in 1..NumberOfTeams : d - 1 \in Teams /\ (d - 1 = t <=> d = t + 1)
  BY TeamsFacts
<1>2. ASSUME NEW d \in 1..NumberOfTeams, NEW n \in 1..runs, d # t + 1
      PROVE  RowsIn(d, n, t) = {}
  <2>1. PICK agent \in Players :
          \E out \in Outcomes(runs, Played(TwinsOf(Players, agent, d - 1, profile))) :
            overall_dataframes[d] = Frame(TwinsOf(Players, agent, d - 1, profile), out)
    BY DEF TwinsFrame
  <2> DEFINE config == TwinsOf(Players, agent, d - 1, profile)
  <2>2. PICK out \in Outcomes(runs, Played(config)) : overall_dataframes[d] = Frame(config, out)
    BY <2>1
  <2>3. d - 1 \in Teams /\ d - 1 # t
    BY <1>1, <1>2
  <2>4. IsTwins(config, Players, agent, d - 1, profile[d - 1], profile[Opponent(d - 1)])
    BY <2>3, TwinsOfAssigned
  <2> HIDE DEF config
  <2>5. DOMAIN config = Players /\ \A p \in Players : config[p].team # t
    BY <2>3, <2>4, TeamsFacts DEF IsTwins
  <2>6. DOMAIN out = 1..runs
    BY OutcomesFacts
  <2>7. RowsIn(d, n, t) = {Row(config, out, n, p) : p \in {q \in DOMAIN config : config[q].team = t}}
    <3>1. RowsIn(d, n, t) = TeamRows(Frame(config, out), n, t)
      BY <2>2 DEF RowsIn, TeamRows
    <3>2. n \in DOMAIN out
      BY <2>6
    <3> QED BY <3>1, <3>2, RowsOfTeam
  <2> QED BY <2>5, <2>7
<1>3. PICK agent \in Players :
        \E out \in Outcomes(runs, Played(TwinsOf(Players, agent, t, profile))) :
          overall_dataframes[t + 1] = Frame(TwinsOf(Players, agent, t, profile), out)
  <2>1. TwinsFrame(overall_dataframes[t + 1], Players, runs, (t + 1) - 1, profile)
    BY <1>1
  <2>2. TwinsFrame(overall_dataframes[t + 1], Players, runs, t, profile)
    BY <1>1, <2>1
  <2> QED BY <2>2 DEF TwinsFrame
<1> DEFINE config == TwinsOf(Players, agent, t, profile)
<1>4. PICK out \in Outcomes(runs, Played(config)) : overall_dataframes[t + 1] = Frame(config, out)
  BY <1>3
<1>5. IsTwins(config, Players, agent, t, profile[t], profile[Opponent(t)])
  BY TwinsOfAssigned
<1>6. DOMAIN config = Players /\ {p \in Players : config[p].team = t} = {agent}
  <2> HIDE DEF config
  <2> QED BY <1>5 DEF IsTwins
<1>7. DOMAIN out = 1..runs
  BY OutcomesFacts
<1> HIDE DEF config
<1>8. \A n \in 1..runs : RowsIn(t + 1, n, t) = {Row(config, out, n, agent)}
  <2> SUFFICES ASSUME NEW n \in 1..runs PROVE RowsIn(t + 1, n, t) = {Row(config, out, n, agent)}
    OBVIOUS
  <2>1. RowsIn(t + 1, n, t) = {Row(config, out, n, p) : p \in {q \in DOMAIN config : config[q].team = t}}
    <3>1. RowsIn(t + 1, n, t) = TeamRows(Frame(config, out), n, t)
      BY <1>4 DEF RowsIn, TeamRows
    <3>2. n \in DOMAIN out
      BY <1>7
    <3> QED BY <3>1, <3>2, RowsOfTeam
  <2> QED BY <1>6, <2>1
<1>9. \A n \in 1..runs : FramesOf(n, t) = {t + 1}
  BY <1>1, <1>2, <1>8 DEF FramesOf
<1>10. \A n \in 1..runs : FrameOf(n, t) = t + 1
  BY <1>1, <1>9 DEF FrameOf
<1>11. RunsOfProfile = 1..runs
  <2>1. TwinsFrame(overall_dataframes[1], Players, runs, 1 - 1, profile)
    BY <1>1
  <2>2. PICK first \in Players :
          \E o \in Outcomes(runs, Played(TwinsOf(Players, first, 1 - 1, profile))) :
            overall_dataframes[1] = Frame(TwinsOf(Players, first, 1 - 1, profile), o)
    BY <2>1 DEF TwinsFrame
  <2> DEFINE c == TwinsOf(Players, first, 1 - 1, profile)
  <2>3. PICK o \in Outcomes(runs, Played(c)) : overall_dataframes[1] = Frame(c, o)
    BY <2>2
  <2>4. DOMAIN c = Players
    BY DEF TwinsOf, TwinsConfig
  <2> HIDE DEF c
  <2>5. DOMAIN o = 1..runs
    BY OutcomesFacts
  <2> QED BY <2>3, <2>4, <2>5, RunsOfFrame DEF RunsOfProfile
<1>12. TeamMetrics[t] = UNION {{Row(config, out, n, agent)} : n \in 1..runs}
  BY <1>8, <1>10, <1>11 DEF TeamMetrics
<1>13. TeamMetrics[t] = {Row(config, out, n, agent) : n \in 1..runs}
  BY <1>12
<1> QED BY <1>11, <1>13 DEF TwinsRows, config

(* Without the reduction the one frame has all teams.                      *)
LEMMA OwnMetrics ==
  ASSUME NEW runs \in Nat, NEW profile \in [Teams -> Strategies], Players = 1..NumberOfTeams,
         DOMAIN overall_dataframes = {1},
         OwnFrame(overall_dataframes[1], Players, runs, profile),
         NEW t \in Teams
  PROVE  /\ RunsOfProfile = 1..runs
         /\ OwnRows(TeamMetrics[t], Players, runs, t, profile)
<1> DEFINE config == OwnConfig(Players, profile)
<1>1. t + 1 \in Players /\ 1 \in Players /\ \A p \in Players : p - 1 = t <=> p = t + 1
  BY TeamsFacts
<1>2. PICK out \in Outcomes(runs, Played(config)) : overall_dataframes[1] = Frame(config, out)
  BY DEF OwnFrame
<1>3. DOMAIN config = Players /\ \A p \in Players : config[p].team = p - 1
  BY DEF OwnConfig
<1>4. DOMAIN out = 1..runs
  BY OutcomesFacts
<1> HIDE DEF config
<1>5. {p \in DOMAIN config : config[p].team = t} = {t + 1}
  BY <1>1, <1>3
<1>6. \A n \in 1..runs : RowsIn(1, n, t) = {Row(config, out, n, t + 1)}
  <2> SUFFICES ASSUME NEW n \in 1..runs PROVE RowsIn(1, n, t) = {Row(config, out, n, t + 1)}
    OBVIOUS
  <2>1. RowsIn(1, n, t) = {Row(config, out, n, p) : p \in {q \in DOMAIN config : config[q].team = t}}
    <3>1. RowsIn(1, n, t) = TeamRows(Frame(config, out), n, t)
      BY <1>2 DEF RowsIn, TeamRows
    <3>2. n \in DOMAIN out
      BY <1>4
    <3> QED BY <3>1, <3>2, RowsOfTeam
  <2> QED BY <1>5, <2>1
<1>7. \A n \in 1..runs : FramesOf(n, t) = {1}
  BY <1>6 DEF FramesOf
<1>8. \A n \in 1..runs : FrameOf(n, t) = 1
  BY <1>7 DEF FrameOf
<1>9. RunsOfProfile = 1..runs
  BY <1>1, <1>2, <1>3, <1>4, RunsOfFrame DEF RunsOfProfile
<1>10. TeamMetrics[t] = {Row(config, out, n, t + 1) : n \in 1..runs}
  BY <1>6, <1>8, <1>9 DEF TeamMetrics
<1> QED BY <1>9, <1>10 DEF OwnRows, config

-----------------------------------------------------------------------------
(* The invariant of the game.                                              *)

(* A simulation is under way in step "simulating" only, of the profile and *)
(* the team the game is at.                                                *)
LaunchedFor ==
  /\ step \notin {"simulating", "crashed"} => worker_inputs = << >>
  /\ step = "simulating" =>
       /\ worker_inputs # << >>
       /\ worker_inputs[1].reporters_config = Played(player_configuration)
       /\ Len(worker_inputs) * worker_inputs[1].max_iterations = RunsPerProfile
       /\ Twins => player_configuration = TwinsOf(Players, 1, team, StrategyMaps[index])
       /\ ~Twins => /\ Players = 1..NumberOfTeams
                    /\ player_configuration = OwnConfig(Players, StrategyMaps[index])

TeamsOfPlayers ==
  ~Twins => \/ \A p \in Players : player_configuration[p].team = None
            \/ /\ Players = 1..NumberOfTeams
               /\ \A p \in Players : player_configuration[p].team = p - 1

(* The dataframes of the profile: with the twins reduction one per team so *)
(* far, simulated or recycled.                                             *)
FramesSoFar ==
  /\ overall_dataframes \in Seq(SUBSET RowsOver(Players))
  /\ step = "assign" => overall_dataframes = << >> /\ team = 0
  /\ step \in {"profile", "simulating"} =>
       /\ Twins => Len(overall_dataframes) = team
       /\ ~Twins => Len(overall_dataframes) = 0 /\ team = 0
  /\ step = "metrics" =>
       /\ Twins => Len(overall_dataframes) = NumberOfTeams
       /\ ~Twins => Len(overall_dataframes) = 1
       /\ team = 0
  /\ step \in Working => \A d \in 1..Len(overall_dataframes) :
       /\ Twins => TwinsFrame(overall_dataframes[d], Players, RunsPerProfile, d - 1, StrategyMaps[index])
       /\ ~Twins => /\ Players = 1..NumberOfTeams
                    /\ OwnFrame(overall_dataframes[d], Players, RunsPerProfile, StrategyMaps[index])

(* What was simulated; what is being simulated was not simulated before.   *)
HistorySoFar ==
  /\ simulation_history \in Seq(SUBSET RowsOver(Players))
  /\ Twins => \A h \in DOMAIN simulation_history :
       HistoryFrame(simulation_history[h], Players, RunsPerProfile)
  /\ Twins /\ step = "simulating" => \A h \in DOMAIN simulation_history :
       simulation_history[h] # {} /\ ~SameCounts(simulation_history[h], player_configuration)
  /\ step = "assign" => simulation_history = << >>
  /\ NoMixtureSimulatedTwice

PayoffsSoFar ==
  /\ profile_payoffs \in Seq([Teams -> SUBSET RowsOver(Players)])
  /\ step \in Working => Len(profile_payoffs) = index - 1
  /\ Len(profile_payoffs) <= NumberOfProfiles
  /\ profile_payoffs # << >> => RunsPerProfile # 0
  /\ \A k \in 1..Len(profile_payoffs), t \in Teams :
       /\ Twins => TwinsRows(profile_payoffs[k][t], Players, RunsPerProfile, t, StrategyMaps[k])
       /\ ~Twins => /\ Players = 1..NumberOfTeams
                    /\ OwnRows(profile_payoffs[k][t], Players, RunsPerProfile, t, StrategyMaps[k])

GameInv ==
  /\ GameTypeOK /\ FullInv
  /\ LaunchedFor /\ TeamsOfPlayers /\ FramesSoFar /\ HistorySoFar /\ PayoffsSoFar

(* What the game is played with does not change.                           *)
LEMMA SamePlayers ==
  ASSUME GameTypeOK, [Next]_vars
  PROVE  /\ game_configuration' = game_configuration /\ Players' = Players
         /\ RunsPerProfile' = RunsPerProfile /\ (Twins' <=> Twins)
<1>1. game_configuration' = game_configuration
  BY DEF Next, RunSimulation, vars, gameVars, Finished, AssignTeams, SimulateProfile, SimulateTwins,
         Simulate, RecycleTwins, ConsolidateSimulation, GetTeamMetrics, CalculateEquilibrium, Crash
<1>2. ASSUME NEW config \in [Players -> Assigned], player_configuration' = config
      PROVE  Players' = Players
  BY <1>2 DEF Players
<1>3. ASSUME SimulateProfile PROVE Players' = Players
  BY <1>2, <1>3, ProfileAssigned DEF SimulateProfile, Simulate
<1>4. ASSUME SimulateTwins PROVE Players' = Players
  BY <1>2, <1>4, TwinsAssigned DEF SimulateTwins, Simulate
<1>5. ASSUME RecycleTwins PROVE Players' = Players
  BY <1>2, <1>5, TwinsAssigned DEF RecycleTwins
<1>6. ASSUME AssignTeams PROVE Players' = Players
  BY <1>6 DEF AssignTeams, OwnTeams, Players
<1>7. ASSUME player_configuration' = player_configuration PROVE Players' = Players
  BY <1>7 DEF Players
<1>8. Players' = Players
  BY <1>3, <1>4, <1>5, <1>6, <1>7 DEF Next, RunSimulation, vars, gameVars, Finished,
     ConsolidateSimulation, GetTeamMetrics, CalculateEquilibrium, Crash
<1> QED BY <1>1, <1>8 DEF RunsPerProfile, Twins

LEMMA GameInvInit == ASSUME Init PROVE GameInv
<1>1. GameTypeOK /\ FullInv /\ worker_inputs = << >>
  BY GameTypeInit, FullInit DEF Init, PoolInit
<1>2. \A p \in Players : player_configuration[p].team = None
  BY DEF Init, Players
<1>3. step = "assign" /\ index = 1 /\ team = 0 /\ simulation_history = << >>
      /\ overall_dataframes = << >> /\ profile_payoffs = << >>
  BY DEF Init
<1>4. LaunchedFor /\ TeamsOfPlayers
  BY <1>1, <1>2, <1>3 DEF LaunchedFor, TeamsOfPlayers
<1>5. FramesSoFar
  BY <1>3 DEF FramesSoFar
<1>6. HistorySoFar
  BY <1>3 DEF HistorySoFar, NoMixtureSimulatedTwice
<1>7. PayoffsSoFar
  BY <1>3, ProfilesFacts DEF PayoffsSoFar
<1> QED BY <1>1, <1>4, <1>5, <1>6, <1>7 DEF GameInv


Story == LaunchedFor /\ TeamsOfPlayers /\ FramesSoFar /\ HistorySoFar /\ PayoffsSoFar
Same == Players' = Players /\ RunsPerProfile' = RunsPerProfile /\ (Twins' <=> Twins)

LEMMA QuietStep ==
  ASSUME GameInv, Same, UNCHANGED gameVars, worker_inputs' = worker_inputs
  PROVE  Story'
<1>1. UNCHANGED <<game_configuration, player_configuration, step, index, team, simulation_history,
                  overall_dataframes, profile_payoffs>>
  BY DEF gameVars
<1>2. LaunchedFor'
  BY <1>1 DEF GameInv, LaunchedFor, Same
<1>3. TeamsOfPlayers'
  BY <1>1 DEF GameInv, TeamsOfPlayers, Same
<1>4. FramesSoFar'
  BY <1>1 DEF GameInv, FramesSoFar, Same
<1>5. HistorySoFar'
  BY <1>1 DEF GameInv, HistorySoFar, NoMixtureSimulatedTwice, Same
<1>6. PayoffsSoFar'
  BY <1>1 DEF GameInv, PayoffsSoFar, Same
<1> QED BY <1>2, <1>3, <1>4, <1>5, <1>6 DEF Story

LEMMA AssignTeamsStep ==
  ASSUME GameInv, Same, AssignTeams
  PROVE  Story'
<1>1. /\ step = "assign" /\ step' = "profile" /\ worker_inputs' = worker_inputs
      /\ UNCHANGED <<game_configuration, index, team, simulation_history, overall_dataframes, profile_payoffs>>
  BY DEF AssignTeams, poolVars
<1>2. overall_dataframes = << >> /\ team = 0 /\ simulation_history = << >>
  BY <1>1 DEF GameInv, FramesSoFar, HistorySoFar
<1>3. LaunchedFor'
  BY <1>1 DEF GameInv, LaunchedFor
<1>4. TeamsOfPlayers'
  <2>1. PICK n \in PlayerCounts : n \in Nat \ {0} /\ Players = 1..n
                               /\ player_configuration \in [1..n -> Records]
    BY PlayersFacts DEF GameInv
  <2>2. CASE ~Twins /\ NumberOfTeams = Cardinality(Players)
    <3>1. Cardinality(1..n) = n
      BY <2>1, FS_Interval
    <3>2. Players = 1..NumberOfTeams
      BY <2>1, <2>2, <3>1
    <3>3. player_configuration' = OwnTeams
      BY <2>2 DEF AssignTeams
    <3>4. \A p \in Players : player_configuration[p] \in Records
      BY <2>1
    <3>5. \A p \in Players : player_configuration'[p].team = p - 1
      BY <3>3, <3>4 DEF OwnTeams, Records
    <3> QED BY <3>2, <3>5 DEF TeamsOfPlayers, Same
  <2>3. CASE ~(~Twins /\ NumberOfTeams = Cardinality(Players))
    <3>1. player_configuration' = player_configuration
      BY <2>3 DEF AssignTeams
    <3> QED BY <3>1 DEF GameInv, TeamsOfPlayers, Same
  <2> QED BY <2>2, <2>3
<1>5. FramesSoFar'
  BY <1>1, <1>2 DEF GameInv, FramesSoFar, Same
<1>6. HistorySoFar'
  BY <1>1, <1>2 DEF GameInv, HistorySoFar, NoMixtureSimulatedTwice, Same
<1>7. PayoffsSoFar'
  BY <1>1 DEF GameInv, PayoffsSoFar, Same, Working
<1> QED BY <1>3, <1>4, <1>5, <1>6, <1>7 DEF Story

(* What is launched.                                                       *)
LEMMA LaunchFacts ==
  ASSUME GameTypeOK, NEW config \in [Players -> Assigned], Simulate(config), Same
  PROVE  /\ player_configuration' = config /\ step' = "simulating" /\ worker_inputs' # << >>
         /\ worker_inputs'[1].reporters_config = Played(config)
         /\ Len(worker_inputs') * worker_inputs'[1].max_iterations = RunsPerProfile
         /\ UNCHANGED <<game_configuration, index, team, simulation_history, overall_dataframes, profile_payoffs>>
<1> DEFINE blocks == IF game_configuration.parallel THEN ParallelBlocks ELSE 1
           input == [reporters_config |-> Played(config),
                     max_iterations |-> SamplesPerWorker(game_configuration.replications, blocks)]
<1>1. blocks \in Nat \ {0}
  <2>1. blocks = ParallelBlocks \/ blocks = 1
    BY Zenon
  <2> HIDE DEF blocks
  <2> QED BY <2>1, PoolAssumption
<1>2. worker_inputs' = [b \in 1..blocks |-> input]
  BY DEF Simulate, Launch
<1>3. RunsPerProfile = blocks * SamplesPerWorker(game_configuration.replications, blocks)
  BY DEF RunsPerProfile
<1> HIDE DEF blocks
<1>4. Len(worker_inputs') = blocks /\ 1 \in 1..blocks /\ worker_inputs'[1] = input
  BY <1>1, <1>2
<1>5. worker_inputs' # << >>
  BY <1>1, <1>4
<1> QED BY <1>3, <1>4, <1>5 DEF Simulate

LEMMA SimulateProfileStep ==
  ASSUME GameInv, Same, SimulateProfile
  PROVE  Story'
<1> DEFINE profile == StrategyMaps[index]
           config == ProfileConfiguration(profile)
<1>1. step = "profile" /\ ~Twins /\ ~Raises /\ Simulate(config) /\ GameTypeOK
  BY DEF SimulateProfile, GameInv
<1>2. /\ config \in [Players -> Assigned]
      /\ \A p \in Players : /\ player_configuration[p].team \in Teams
                            /\ config[p] = [team |-> player_configuration[p].team,
                                            strategy |-> profile[player_configuration[p].team]]
  BY <1>1, ProfileAssigned
<1>3. Players = 1..NumberOfTeams /\ \A p \in Players : player_configuration[p].team = p - 1
  <2>1. PICK n \in PlayerCounts : n \in Nat \ {0} /\ Players = 1..n
    BY <1>1, PlayersFacts
  <2>2. 1 \in Players
    BY <2>1
  <2> QED BY <1>1, <1>2, <2>2, TeamsFacts DEF GameInv, TeamsOfPlayers
<1> HIDE DEF config
<1>4. config = OwnConfig(Players, profile)
  BY <1>2, <1>3 DEF OwnConfig
<1>5. /\ player_configuration' = config /\ step' = "simulating" /\ worker_inputs' # << >>
      /\ worker_inputs'[1].reporters_config = Played(config)
      /\ Len(worker_inputs') * worker_inputs'[1].max_iterations = RunsPerProfile
      /\ UNCHANGED <<game_configuration, index, team, simulation_history, overall_dataframes, profile_payoffs>>
  BY <1>1, <1>2, LaunchFacts
<1>6. LaunchedFor'
  BY <1>1, <1>3, <1>4, <1>5 DEF LaunchedFor, Same
<1>7. TeamsOfPlayers'
  BY <1>3, <1>4, <1>5 DEF TeamsOfPlayers, Same, OwnConfig
<1>8. FramesSoFar'
  BY <1>1, <1>5 DEF GameInv, FramesSoFar, Same, Working
<1>9. HistorySoFar'
  BY <1>1, <1>5 DEF GameInv, HistorySoFar, NoMixtureSimulatedTwice, Same
<1>10. PayoffsSoFar'
  BY <1>1, <1>5 DEF GameInv, PayoffsSoFar, Same, Working
<1> QED BY <1>6, <1>7, <1>8, <1>9, <1>10 DEF Story

LEMMA TwinsConfigurationIs ==
  ASSUME GameTypeOK, step = "profile"
  PROVE  /\ TwinsConfiguration(team, StrategyMaps[index]) = TwinsOf(Players, 1, team, StrategyMaps[index])
         /\ StrategyMaps[index] \in [Teams -> Strategies] /\ team \in Teams
<1>1. StrategyMaps[index] \in [Teams -> Strategies] /\ team \in Teams
  BY SameOrder DEF GameTypeOK, Working
<1>2. OpponentStrategy(team, StrategyMaps[index]) = StrategyMaps[index][Opponent(team)]
  BY <1>1, OpponentFacts
<1> QED BY <1>1, <1>2 DEF TwinsConfiguration, TwinsOf, TwinsConfig

LEMMA SimulateTwinsStep ==
  ASSUME GameInv, Same, SimulateTwins
  PROVE  Story'
<1> DEFINE config == TwinsConfiguration(team, StrategyMaps[index])
<1>1. /\ step = "profile" /\ Twins /\ ~Raises /\ Simulate(config) /\ GameTypeOK
      /\ Recyclable(config) = {}
  BY DEF SimulateTwins, GameInv
<1>2. config \in [Players -> Assigned] /\ config = TwinsOf(Players, 1, team, StrategyMaps[index])
  BY <1>1, TwinsAssigned, TwinsConfigurationIs
<1>3. \A h \in DOMAIN simulation_history :
        simulation_history[h] # {} /\ ~SameCounts(simulation_history[h], config)
  <2> HIDE DEF config
  <2> QED BY <1>1 DEF Raises, Recyclable
<1> HIDE DEF config
<1>5. /\ player_configuration' = config /\ step' = "simulating" /\ worker_inputs' # << >>
      /\ worker_inputs'[1].reporters_config = Played(config)
      /\ Len(worker_inputs') * worker_inputs'[1].max_iterations = RunsPerProfile
      /\ UNCHANGED <<game_configuration, index, team, simulation_history, overall_dataframes, profile_payoffs>>
  BY <1>1, <1>2, LaunchFacts
<1>6. LaunchedFor'
  BY <1>1, <1>2, <1>5 DEF LaunchedFor, Same
<1>7. TeamsOfPlayers'
  BY <1>1 DEF TeamsOfPlayers, Same
<1>8. FramesSoFar'
  BY <1>1, <1>5 DEF GameInv, FramesSoFar, Same, Working
<1>9. HistorySoFar'
  BY <1>1, <1>3, <1>5 DEF GameInv, HistorySoFar, NoMixtureSimulatedTwice, Same
<1>10. PayoffsSoFar'
  BY <1>1, <1>5 DEF GameInv, PayoffsSoFar, Same, Working
<1> QED BY <1>6, <1>7, <1>8, <1>9, <1>10 DEF Story

(* One more dataframe of the profile.                                      *)
LEMMA FrameAdded ==
  ASSUME GameInv, Same, NEW frame, overall_dataframes' = Append(overall_dataframes, frame), NextTeam,
         step \in {"profile", "simulating"}, UNCHANGED <<index, profile_payoffs>>,
         Twins => TwinsFrame(frame, Players, RunsPerProfile, team, StrategyMaps[index]),
         ~Twins => /\ Players = 1..NumberOfTeams
                   /\ OwnFrame(frame, Players, RunsPerProfile, StrategyMaps[index])
  PROVE  FramesSoFar' /\ PayoffsSoFar' /\ frame \in SUBSET RowsOver(Players)
<1> DEFINE frames == overall_dataframes
           profile == StrategyMaps[index]
<1>1. /\ RunsPerProfile \in Nat /\ profile \in [Teams -> Strategies] /\ team \in Teams
      /\ step \in Working
  BY RunsPerProfileType, SameOrder DEF GameInv, GameTypeOK, Working
<1>2. frame \in SUBSET RowsOver(Players)
  <2> HIDE DEF profile
  <2>1. CASE Twins
    <3>1. TwinsFrame(frame, Players, RunsPerProfile, team, profile)
      BY <2>1 DEF profile
    <3> QED BY <1>1, <3>1, FrameTypes
  <2>2. CASE ~Twins
    <3>1. Players = 1..NumberOfTeams /\ OwnFrame(frame, Players, RunsPerProfile, profile)
      BY <2>2 DEF profile
    <3> QED BY <1>1, <3>1, FrameTypes
  <2> QED BY <2>1, <2>2
<1>3. /\ frames \in Seq(SUBSET RowsOver(Players)) /\ Len(frames) \in Nat
      /\ Twins => Len(frames) = team
      /\ ~Twins => Len(frames) = 0 /\ team = 0
  BY DEF GameInv, FramesSoFar
<1>4. /\ frames' \in Seq(SUBSET RowsOver(Players)) /\ Len(frames') = Len(frames) + 1
      /\ \A d \in 1..Len(frames) : frames'[d] = frames[d]
      /\ frames'[Len(frames) + 1] = frame
  BY <1>2, <1>3
<1>5. \A d \in 1..(Len(frames) + 1) : d \in 1..Len(frames) \/ d = Len(frames) + 1
  BY <1>3
<1>6. \A d \in 1..Len(frames) :
        /\ Twins => TwinsFrame(frames[d], Players, RunsPerProfile, d - 1, profile)
        /\ ~Twins => /\ Players = 1..NumberOfTeams
                     /\ OwnFrame(frames[d], Players, RunsPerProfile, profile)
  BY <1>1 DEF GameInv, FramesSoFar
<1>7. \A d \in 1..Len(frames') :
        /\ Twins => TwinsFrame(frames'[d], Players, RunsPerProfile, d - 1, profile)
        /\ ~Twins => /\ Players = 1..NumberOfTeams
                     /\ OwnFrame(frames'[d], Players, RunsPerProfile, profile)
  <2> SUFFICES ASSUME NEW d \in 1..Len(frames')
               PROVE  /\ Twins => TwinsFrame(frames'[d], Players, RunsPerProfile, d - 1, profile)
                      /\ ~Twins => /\ Players = 1..NumberOfTeams
                                   /\ OwnFrame(frames'[d], Players, RunsPerProfile, profile)
    OBVIOUS
  <2> HIDE DEF frames, profile
  <2>1. CASE d \in 1..Len(frames)
    BY <1>4, <1>6, <2>1
  <2>2. CASE d = Len(frames) + 1
    <3>1. frames'[d] = frame /\ d - 1 = Len(frames)
      BY <1>3, <1>4, <2>2
    <3> QED BY <1>3, <3>1 DEF profile
  <2> QED BY <1>4, <1>5, <2>1, <2>2
<1>8. FramesSoFar'
  <2>1. CASE Twins /\ team < NumberOfTeams - 1
    <3>1. step' = "profile" /\ team' = team + 1
      BY <2>1 DEF NextTeam
    <3> QED BY <1>3, <1>4, <1>7, <2>1, <3>1 DEF FramesSoFar, Same
  <2>2. CASE ~(Twins /\ team < NumberOfTeams - 1)
    <3>1. step' = "metrics" /\ team' = 0
      BY <2>2 DEF NextTeam
    <3>2. Twins => team = NumberOfTeams - 1
      BY <1>1, <2>2, TeamsFacts
    <3>3. (Twins => Len(frames') = NumberOfTeams) /\ (~Twins => Len(frames') = 1)
      BY <1>3, <1>4, <3>2, TeamsFacts
    <3> QED BY <1>4, <1>7, <3>1, <3>3 DEF FramesSoFar, Same
  <2> QED BY <2>1, <2>2
<1>9. PayoffsSoFar'
  BY <1>1 DEF GameInv, PayoffsSoFar, Same
<1> QED BY <1>2, <1>8, <1>9

LEMMA RecycleTwinsStep ==
  ASSUME GameInv, Same, RecycleTwins
  PROVE  Story'
<1> DEFINE profile == StrategyMaps[index]
           config == TwinsConfiguration(team, profile)
           first == CHOOSE h \in Recyclable(config) : \A g \in Recyclable(config) : h <= g
           R == RunsPerProfile
<1>1. /\ step = "profile" /\ Twins /\ ~Raises /\ GameTypeOK /\ Recyclable(config) # {}
      /\ player_configuration' = config /\ NextTeam /\ worker_inputs' = worker_inputs
      /\ overall_dataframes' = Append(overall_dataframes, Recycled(config))
      /\ UNCHANGED <<game_configuration, index, simulation_history, profile_payoffs>>
  BY DEF RecycleTwins, GameInv, poolVars
<1>2. config = TwinsOf(Players, 1, team, profile) /\ profile \in [Teams -> Strategies] /\ team \in Teams
  BY <1>1, TwinsConfigurationIs
<1>3. first \in Recyclable(config)
  <2>1. Recyclable(config) \in SUBSET (1..Len(simulation_history)) /\ Len(simulation_history) \in Nat
    BY DEF Recyclable, GameInv, HistorySoFar
  <2>2. \E h \in Recyclable(config) : \A g \in Recyclable(config) : h <= g
    BY <1>1, <2>1, SmallestExists
  <2> HIDE DEF config
  <2> QED BY <2>2
<1>4. Recycled(config) = Relabelled(simulation_history[first], config)
  BY DEF Recycled
<1> HIDE DEF first, config
<1>5. /\ first \in DOMAIN simulation_history /\ SameCounts(simulation_history[first], config)
      /\ simulation_history[first] # {} /\ HistoryFrame(simulation_history[first], Players, R)
  BY <1>1, <1>3 DEF Recyclable, Raises, GameInv, HistorySoFar
<1>6. PICK n \in Nat \ {0} : Players = 1..n
  BY <1>1, PlayersFacts
<1>7. PICK u \in Teams, c \in Strategies, d \in Strategies :
        \E out \in Outcomes(R, Played(TwinsConfig(Players, 1, u, c, d))) :
          simulation_history[first] = Frame(TwinsConfig(Players, 1, u, c, d), out)
  BY <1>5 DEF HistoryFrame
<1> DEFINE old == TwinsConfig(Players, 1, u, c, d)
<1>8. PICK out \in Outcomes(R, Played(old)) : simulation_history[first] = Frame(old, out)
  BY <1>7
<1>9. R \in Nat \ {0}
  <2>1. R \in Nat
    BY <1>1, RunsPerProfileType
  <2>4. DOMAIN old # {}
    BY <1>6 DEF TwinsConfig
  <2> HIDE DEF old, R
  <2>2. DOMAIN out = 1..R /\ DOMAIN old # {}
    BY <2>4, OutcomesFacts
  <2>3. DOMAIN out # {}
    BY <1>5, <1>8, <2>2, RunsOfFrame
  <2> QED BY <2>1, <2>2, <2>3
<1>10. PICK agent \in Players :
         /\ Relabelled(Frame(old, out), config) = Frame(TwinsOf(Players, agent, team, profile), out)
         /\ Played(TwinsOf(Players, agent, team, profile)) = Played(old)
  <2> DEFINE a == profile[team]
             b == profile[Opponent(team)]
  <2>1. a \in Strategies /\ b \in Strategies
    BY <1>2, OpponentFacts
  <2>2. config = TwinsConfig(1..n, 1, team, a, b) /\ old = TwinsConfig(1..n, 1, u, c, d)
    BY <1>2, <1>6 DEF TwinsOf
  <2>3. SameCounts(Frame(old, out), config)
    BY <1>5, <1>8
  <2>4. \A agent \in Players : TwinsOf(Players, agent, team, profile) = TwinsConfig(1..n, agent, team, a, b)
    BY <1>6 DEF TwinsOf
  <2> HIDE DEF a, b, old, R
  <2>5. \E agent \in 1..n :
          /\ Relabelled(Frame(old, out), config) = Frame(TwinsConfig(1..n, agent, team, a, b), out)
          /\ Played(TwinsConfig(1..n, agent, team, a, b)) = Played(old)
    BY <1>2, <1>9, <2>1, <2>2, <2>3, RelabelledIsTwins
  <2> QED BY <1>6, <2>4, <2>5
<1>11. TwinsFrame(Recycled(config), Players, R, team, profile)
  <2> HIDE DEF old, R
  <2>1. Recycled(config) = Frame(TwinsOf(Players, agent, team, profile), out)
    BY <1>4, <1>8, <1>10
  <2>2. out \in Outcomes(R, Played(TwinsOf(Players, agent, team, profile)))
    BY <1>10
  <2> QED BY <2>1, <2>2 DEF TwinsFrame
<1>12. FramesSoFar' /\ PayoffsSoFar'
  BY <1>1, <1>11, FrameAdded
<1>13. LaunchedFor'
  <2>1. step' \in {"profile", "metrics"}
    BY <1>1 DEF NextTeam
  <2> QED BY <1>1, <2>1 DEF GameInv, LaunchedFor
<1>14. TeamsOfPlayers'
  BY <1>1 DEF TeamsOfPlayers, Same
<1>15. HistorySoFar'
  <2>1. step' \in {"profile", "metrics"}
    BY <1>1 DEF NextTeam
  <2> QED BY <1>1, <2>1 DEF GameInv, HistorySoFar, NoMixtureSimulatedTwice, Same
<1> QED BY <1>12, <1>13, <1>14, <1>15 DEF Story

(* Two frames in which the strategies are not played equally often.        *)
DifferentMixtures(f, g) ==
  \E s \in Strategies : Cardinality(PlayingInFirstRun(f, s)) # Cardinality(PlayingInFirstRun(g, s))

(* A frame is like the configuration it was simulated for.                 *)
LEMMA FrameIsLikeItsConfig ==
  ASSUME NEW n \in Nat, NEW config \in [1..n -> Assigned], NEW frame,
         NEW out, 1 \in DOMAIN out, ~SameCounts(frame, config)
  PROVE  DifferentMixtures(frame, Frame(config, out)) /\ DifferentMixtures(Frame(config, out), frame)
<1>1. PICK p \in DOMAIN config :
        Cardinality(PlayingInFirstRun(frame, config[p].strategy)) #
        Cardinality(Playing(config, config[p].strategy))
  BY DEF SameCounts
<1>2. IsFiniteSet(DOMAIN config) /\ config[p].strategy \in Strategies
  BY FS_Interval DEF Assigned
<1>3. Cardinality(PlayingInFirstRun(Frame(config, out), config[p].strategy)) =
        Cardinality(Playing(config, config[p].strategy))
  BY <1>2, FirstRunCount
<1> QED BY <1>1, <1>2, <1>3 DEF DifferentMixtures

LEMMA HistoryHasRuns ==
  ASSUME NEW players, 1 \in players, NEW runs, NEW frame, frame # {},
         HistoryFrame(frame, players, runs)
  PROVE  1..runs # {}
<1>1. PICK t \in Teams, a \in Strategies, b \in Strategies :
        \E out \in Outcomes(runs, Played(TwinsConfig(players, 1, t, a, b))) :
          frame = Frame(TwinsConfig(players, 1, t, a, b), out)
  BY DEF HistoryFrame
<1> DEFINE config == TwinsConfig(players, 1, t, a, b)
<1>2. PICK out \in Outcomes(runs, Played(config)) : frame = Frame(config, out)
  BY <1>1
<1>3. DOMAIN config # {}
  BY DEF TwinsConfig
<1> HIDE DEF config
<1>4. DOMAIN out = 1..runs
  BY OutcomesFacts
<1> QED BY <1>2, <1>3, <1>4, RunsOfFrame

(* The frame of a launch of the twins goes into the history.               *)
LEMMA HistoryAdded ==
  ASSUME GameInv, Same, step = "simulating",
         NEW out \in Outcomes(RunsPerProfile, Played(player_configuration)),
         simulation_history' = Append(simulation_history, Frame(player_configuration, out)),
         Frame(player_configuration, out) \in SUBSET RowsOver(Players),
         step' \in {"profile", "metrics"}
  PROVE  HistorySoFar'
<1> DEFINE config == player_configuration
           frame == Frame(config, out)
           old == simulation_history
           R == RunsPerProfile
<1>1. GameTypeOK /\ old \in Seq(SUBSET RowsOver(Players)) /\ Len(old) \in Nat /\ R \in Nat
  BY RunsPerProfileType DEF GameInv, HistorySoFar
<1>2. /\ old' \in Seq(SUBSET RowsOver(Players)) /\ Len(old') = Len(old) + 1
      /\ \A h \in 1..Len(old) : old'[h] = old[h]
      /\ old'[Len(old) + 1] = frame
  <2> HIDE DEF frame
  <2>1. frame \in SUBSET RowsOver(Players) /\ old' = Append(old, frame)
    BY DEF frame
  <2> QED BY <1>1, <2>1
<1>3. /\ DOMAIN old = 1..Len(old) /\ DOMAIN old' = 1..Len(old')
      /\ \A h \in DOMAIN old' : h \in 1..Len(old) \/ h = Len(old) + 1
  BY <1>1, <1>2
<1>4. ASSUME Twins PROVE \A h \in DOMAIN old' : HistoryFrame(old'[h], Players, R)
  <2>1. \A h \in 1..Len(old) : HistoryFrame(old[h], Players, R)
    BY <1>3, <1>4 DEF GameInv, HistorySoFar
  <2>2. HistoryFrame(frame, Players, R)
    <3> DEFINE profile == StrategyMaps[index]
    <3>1. config = TwinsConfig(Players, 1, team, profile[team], profile[Opponent(team)])
      BY <1>4 DEF GameInv, LaunchedFor, TwinsOf
    <3>2. profile \in [Teams -> Strategies] /\ team \in Teams
      BY <1>1, SameOrder DEF GameTypeOK, Working
    <3>3. profile[team] \in Strategies /\ profile[Opponent(team)] \in Strategies
      BY <3>2, OpponentFacts
    <3> HIDE DEF profile
    <3> QED BY <3>1, <3>2, <3>3 DEF HistoryFrame
  <2> HIDE DEF frame, R
  <2> QED BY <1>2, <1>3, <2>1, <2>2
<1>5. ASSUME Twins PROVE \A g, h \in DOMAIN old' : g # h => DifferentMixtures(old'[g], old'[h])
  <2>1. \A g, h \in 1..Len(old) : g # h => DifferentMixtures(old[g], old[h])
    BY <1>3, <1>5 DEF GameInv, HistorySoFar, NoMixtureSimulatedTwice, DifferentMixtures
  <2>2. ASSUME NEW h \in 1..Len(old)
        PROVE  DifferentMixtures(old[h], frame) /\ DifferentMixtures(frame, old[h])
    <3>1. old[h] # {} /\ ~SameCounts(old[h], config) /\ HistoryFrame(old[h], Players, R)
      BY <1>3, <1>5 DEF GameInv, HistorySoFar
    <3>2. PICK n \in Nat \ {0} : Players = 1..n
      BY <1>1, PlayersFacts
    <3>3. R # 0
      <4> HIDE DEF R
      <4>1. 1..R # {}
        <5>1. 1 \in Players /\ old[h] # {} /\ HistoryFrame(old[h], Players, R)
          BY <3>1, <3>2
        <5> HIDE DEF old
        <5> QED BY <5>1, HistoryHasRuns
      <4> QED BY <1>1, <4>1
    <3>4. DOMAIN out = 1..R /\ 1 \in DOMAIN out
      <4>1. DOMAIN out = 1..R
        BY OutcomesFacts
      <4> HIDE DEF R
      <4> QED BY <1>1, <3>3, <4>1
    <3>5. config \in [1..n -> Assigned]
      <4>1. config = TwinsOf(Players, 1, team, StrategyMaps[index])
        BY <1>5 DEF GameInv, LaunchedFor
      <4>2. StrategyMaps[index] \in [Teams -> Strategies] /\ team \in Teams /\ 1 \in Players
        BY <1>1, <3>2, SameOrder DEF GameTypeOK, Working
      <4> DEFINE profile == StrategyMaps[index]
      <4>3. TwinsOf(Players, 1, team, profile) \in [Players -> Assigned]
        <5> HIDE DEF profile
        <5>1. profile \in [Teams -> Strategies]
          BY <4>2 DEF profile
        <5> QED BY <4>2, <5>1, TwinsOfAssigned
      <4> QED BY <3>2, <4>1, <4>3
    <3> HIDE DEF config
    <3> QED BY <3>1, <3>4, <3>5, FrameIsLikeItsConfig
  <2>3. \A g, h \in DOMAIN old' : g # h => DifferentMixtures(old'[g], old'[h])
    <3> SUFFICES ASSUME NEW g \in DOMAIN old', NEW h \in DOMAIN old', g # h
                 PROVE  DifferentMixtures(old'[g], old'[h])
      OBVIOUS
    <3> HIDE DEF frame
    <3>1. CASE g \in 1..Len(old) /\ h \in 1..Len(old)
      BY <1>2, <2>1, <3>1
    <3>2. CASE g \in 1..Len(old) /\ h = Len(old) + 1
      BY <1>2, <2>2, <3>2
    <3>3. CASE g = Len(old) + 1 /\ h \in 1..Len(old)
      BY <1>2, <2>2, <3>3
    <3> QED BY <1>3, <3>1, <3>2, <3>3
  <2> QED BY <2>3
<1>6. NoMixtureSimulatedTwice'
  BY <1>5 DEF NoMixtureSimulatedTwice, DifferentMixtures, Same
<1> QED BY <1>2, <1>4, <1>6 DEF HistorySoFar, Same

LEMMA ConsolidateStep ==
  ASSUME GameInv, Same, ConsolidateSimulation
  PROVE  Story'
<1> DEFINE config == player_configuration
           profile == StrategyMaps[index]
<1>1. /\ step = "simulating" /\ GameTypeOK /\ FullInv /\ AllCollected /\ NextTeam
      /\ worker_inputs' = << >>
      /\ simulation_history' = Append(simulation_history, ConsolidatePayoffResults)
      /\ overall_dataframes' = Append(overall_dataframes, ConsolidatePayoffResults)
      /\ UNCHANGED <<game_configuration, player_configuration, index, profile_payoffs>>
  BY DEF ConsolidateSimulation, Return, GameInv
<1>2. /\ worker_inputs[1].reporters_config = Played(config)
      /\ Len(worker_inputs) * worker_inputs[1].max_iterations = RunsPerProfile
      /\ Twins => config = TwinsOf(Players, 1, team, profile)
      /\ ~Twins => Players = 1..NumberOfTeams /\ config = OwnConfig(Players, profile)
  BY <1>1 DEF GameInv, LaunchedFor
<1>3. PICK out \in Outcomes(RunsPerProfile, Played(config)) :
        ConsolidatePayoffResults = Frame(config, out)
  BY <1>1, <1>2, ConsolidatedIsFrame
<1>4. 1 \in Players
  BY <1>1, PlayersFacts
<1>5. step' \in {"profile", "metrics"}
  BY <1>1 DEF NextTeam
<1> DEFINE frame == Frame(config, out)
<1>6. Twins => TwinsFrame(frame, Players, RunsPerProfile, team, profile)
  BY <1>2, <1>4 DEF TwinsFrame
<1>7. ~Twins => Players = 1..NumberOfTeams /\ OwnFrame(frame, Players, RunsPerProfile, profile)
  BY <1>2 DEF OwnFrame
<1>8. overall_dataframes' = Append(overall_dataframes, frame)
  BY <1>1, <1>3
<1>9. FramesSoFar' /\ PayoffsSoFar' /\ frame \in SUBSET RowsOver(Players)
  <2> HIDE DEF frame
  <2> QED BY <1>1, <1>6, <1>7, <1>8, FrameAdded
<1>10. HistorySoFar'
  BY <1>1, <1>3, <1>5, <1>9, HistoryAdded
<1>11. LaunchedFor'
  BY <1>1, <1>5 DEF LaunchedFor
<1>12. TeamsOfPlayers'
  BY <1>1 DEF GameInv, TeamsOfPlayers, Same
<1> QED BY <1>9, <1>10, <1>11, <1>12 DEF Story

(* The payoffs of one more profile.                                        *)
LEMMA GetTeamMetricsStep ==
  ASSUME GameInv, Same, GetTeamMetrics
  PROVE  Story'
<1> DEFINE profile == StrategyMaps[index]
           R == RunsPerProfile
           payoffs == profile_payoffs
<1>1. /\ step = "metrics" /\ GameTypeOK /\ ~Raises
      /\ profile_payoffs' = Append(profile_payoffs, TeamMetrics)
      /\ overall_dataframes' = << >> /\ index' = index + 1 /\ worker_inputs' = worker_inputs
      /\ step' = IF index < Len(StrategyMaps) THEN "profile" ELSE "game"
      /\ UNCHANGED <<game_configuration, player_configuration, team, simulation_history>>
  BY DEF GetTeamMetrics, GameInv, poolVars
<1>2. /\ step' \in {"profile", "game"} /\ (step' \in Working => step' = "profile")
  BY <1>1 DEF Working
<1>3. /\ R \in Nat /\ profile \in [Teams -> Strategies] /\ index \in 1..NumberOfProfiles /\ index \in Nat
      /\ Len(StrategyMaps) = NumberOfProfiles /\ NumberOfProfiles \in Nat /\ step \in Working
  BY <1>1, RunsPerProfileType, SameOrder, ProfilesFacts DEF GameTypeOK, Working
<1>4. team = 0 /\ worker_inputs = << >>
  BY <1>1 DEF GameInv, FramesSoFar, LaunchedFor
<1>5. 1 \in Players
  BY <1>1, PlayersFacts
<1>6. \A t \in Teams :
        /\ RunsOfProfile = 1..R
        /\ Twins => TwinsRows(TeamMetrics[t], Players, R, t, profile)
        /\ ~Twins => Players = 1..NumberOfTeams /\ OwnRows(TeamMetrics[t], Players, R, t, profile)
  <2> SUFFICES ASSUME NEW t \in Teams
               PROVE  /\ RunsOfProfile = 1..R
                      /\ Twins => TwinsRows(TeamMetrics[t], Players, R, t, profile)
                      /\ ~Twins => /\ Players = 1..NumberOfTeams
                                   /\ OwnRows(TeamMetrics[t], Players, R, t, profile)
    OBVIOUS
  <2>1. DOMAIN overall_dataframes = 1..Len(overall_dataframes)
    BY DEF GameInv, FramesSoFar
  <2>2. \A d \in 1..Len(overall_dataframes) :
          /\ Twins => TwinsFrame(overall_dataframes[d], Players, R, d - 1, profile)
          /\ ~Twins => /\ Players = 1..NumberOfTeams
                       /\ OwnFrame(overall_dataframes[d], Players, R, profile)
    BY <1>3 DEF GameInv, FramesSoFar
  <2>3. CASE Twins
    <3>1. Len(overall_dataframes) = NumberOfTeams
      BY <1>1, <2>3 DEF GameInv, FramesSoFar
    <3> HIDE DEF profile, R
    <3> QED BY <1>3, <1>5, <2>1, <2>2, <2>3, <3>1, TwinsMetrics
  <2>4. CASE ~Twins
    <3>1. Len(overall_dataframes) = 1 /\ DOMAIN overall_dataframes = {1} /\ 1 \in 1..Len(overall_dataframes)
      BY <1>1, <2>1, <2>4 DEF GameInv, FramesSoFar
    <3>2. Players = 1..NumberOfTeams /\ OwnFrame(overall_dataframes[1], Players, R, profile)
      BY <2>2, <2>4, <3>1
    <3> HIDE DEF profile, R
    <3> QED BY <1>3, <2>4, <3>1, <3>2, OwnMetrics
  <2> QED BY <2>3, <2>4
<1>7. R # 0
  <2>1. 0 \in Teams
    BY TeamsFacts
  <2>2. RunsOfProfile # {}
    BY <1>1 DEF Raises
  <2> HIDE DEF R
  <2> QED BY <1>3, <1>6, <2>1, <2>2
<1>8. TeamMetrics \in [Teams -> SUBSET RowsOver(Players)]
  <2>1. \A t \in Teams : TeamMetrics[t] \in SUBSET RowsOver(Players)
    <3> SUFFICES ASSUME NEW t \in Teams PROVE TeamMetrics[t] \in SUBSET RowsOver(Players)
      OBVIOUS
    <3> DEFINE rows == TeamMetrics[t]
    <3>1. CASE Twins
      <4>1. TwinsRows(rows, Players, R, t, profile)
        BY <1>6, <3>1
      <4> HIDE DEF rows, profile, R
      <4>2. rows \in SUBSET RowsOver(Players)
        BY <1>3, <4>1, FrameTypes
      <4> QED BY <4>2 DEF rows
    <3>2. CASE ~Twins
      <4>1. Players = 1..NumberOfTeams /\ OwnRows(rows, Players, R, t, profile)
        BY <1>6, <3>2
      <4> HIDE DEF rows, profile, R
      <4>2. rows \in SUBSET RowsOver(Players)
        BY <1>3, <4>1, FrameTypes
      <4> QED BY <4>2 DEF rows
    <3> QED BY <3>1, <3>2
  <2> QED BY <2>1 DEF TeamMetrics
<1>9. /\ payoffs \in Seq([Teams -> SUBSET RowsOver(Players)]) /\ Len(payoffs) = index - 1
      /\ \A k \in 1..Len(payoffs), t \in Teams :
           /\ Twins => TwinsRows(payoffs[k][t], Players, R, t, StrategyMaps[k])
           /\ ~Twins => /\ Players = 1..NumberOfTeams
                        /\ OwnRows(payoffs[k][t], Players, R, t, StrategyMaps[k])
  BY <1>3 DEF GameInv, PayoffsSoFar
<1>10. /\ payoffs' \in Seq([Teams -> SUBSET RowsOver(Players)]) /\ Len(payoffs') = index
       /\ \A k \in 1..(index - 1) : payoffs'[k] = payoffs[k]
       /\ payoffs'[index] = TeamMetrics
  <2> DEFINE added == TeamMetrics
  <2>1. added \in [Teams -> SUBSET RowsOver(Players)] /\ payoffs' = Append(payoffs, added)
    BY <1>1, <1>8
  <2> HIDE DEF added
  <2>2. /\ payoffs' \in Seq([Teams -> SUBSET RowsOver(Players)]) /\ Len(payoffs') = index
        /\ \A k \in 1..(index - 1) : payoffs'[k] = payoffs[k]
        /\ payoffs'[index] = added
    BY <1>3, <1>9, <2>1
  <2> QED BY <2>2 DEF added
<1>11. \A k \in 1..index, t \in Teams :
         /\ Twins => TwinsRows(payoffs'[k][t], Players, R, t, StrategyMaps[k])
         /\ ~Twins => /\ Players = 1..NumberOfTeams
                      /\ OwnRows(payoffs'[k][t], Players, R, t, StrategyMaps[k])
  <2> SUFFICES ASSUME NEW k \in 1..index, NEW t \in Teams
               PROVE  /\ Twins => TwinsRows(payoffs'[k][t], Players, R, t, StrategyMaps[k])
                      /\ ~Twins => /\ Players = 1..NumberOfTeams
                                   /\ OwnRows(payoffs'[k][t], Players, R, t, StrategyMaps[k])
    OBVIOUS
  <2>1. CASE k = index
    BY <1>6, <1>10, <2>1
  <2>2. CASE k # index
    <3>1. k \in 1..(index - 1)
      BY <1>3, <2>2
    <3>2. k \in 1..Len(payoffs)
      BY <1>9, <3>1
    <3> HIDE DEF R
    <3> QED BY <1>9, <1>10, <3>1, <3>2
  <2> QED BY <2>1, <2>2
<1>12. PayoffsSoFar'
  <2>1. Len(payoffs') <= NumberOfProfiles /\ Len(payoffs') = index' - 1
    BY <1>1, <1>3, <1>10
  <2> HIDE DEF R
  <2>2. R' = R /\ Players' = Players /\ (Twins' <=> Twins)
    BY DEF Same, R
  <2>3. R' # 0
    BY <1>7, <2>2
  <2>4. \A k \in 1..Len(payoffs'), t \in Teams :
         /\ Twins' => TwinsRows(payoffs'[k][t], Players', R', t, StrategyMaps[k])
         /\ ~Twins' => /\ Players' = 1..NumberOfTeams
                       /\ OwnRows(payoffs'[k][t], Players', R', t, StrategyMaps[k])
    BY <1>10, <1>11, <2>2
  <2> QED BY <1>10, <2>1, <2>2, <2>3, <2>4 DEF PayoffsSoFar, R
<1>13. FramesSoFar'
  BY <1>1, <1>2, <1>4 DEF FramesSoFar
<1>14. HistorySoFar'
  BY <1>1, <1>2 DEF GameInv, HistorySoFar, NoMixtureSimulatedTwice, Same
<1>15. LaunchedFor'
  BY <1>1, <1>2, <1>4 DEF LaunchedFor
<1>16. TeamsOfPlayers'
  BY <1>1 DEF GameInv, TeamsOfPlayers, Same
<1> QED BY <1>12, <1>13, <1>14, <1>15, <1>16 DEF Story

LEMMA CalculateEquilibriumStep ==
  ASSUME GameInv, Same, CalculateEquilibrium
  PROVE  Story'
<1>1. /\ step = "game" /\ step' = "done" /\ worker_inputs' = worker_inputs
      /\ UNCHANGED <<game_configuration, player_configuration, index, team, simulation_history,
                     overall_dataframes, profile_payoffs>>
  BY DEF CalculateEquilibrium, poolVars
<1>2. LaunchedFor' /\ TeamsOfPlayers'
  BY <1>1 DEF GameInv, LaunchedFor, TeamsOfPlayers, Same
<1>3. FramesSoFar'
  BY <1>1 DEF GameInv, FramesSoFar, Same, Working
<1>4. HistorySoFar'
  BY <1>1 DEF GameInv, HistorySoFar, NoMixtureSimulatedTwice, Same
<1>5. PayoffsSoFar'
  BY <1>1 DEF GameInv, PayoffsSoFar, Same, Working
<1> QED BY <1>2, <1>3, <1>4, <1>5 DEF Story

LEMMA CrashStep ==
  ASSUME GameInv, Same, Crash
  PROVE  Story'
<1>1. /\ step' = "crashed" /\ worker_inputs' = worker_inputs
      /\ UNCHANGED <<game_configuration, player_configuration, index, team, simulation_history,
                     overall_dataframes, profile_payoffs>>
  BY DEF Crash, poolVars
<1>2. LaunchedFor' /\ TeamsOfPlayers'
  BY <1>1 DEF GameInv, LaunchedFor, TeamsOfPlayers, Same
<1>3. FramesSoFar'
  BY <1>1 DEF GameInv, FramesSoFar, Same, Working
<1>4. HistorySoFar'
  BY <1>1 DEF GameInv, HistorySoFar, NoMixtureSimulatedTwice, Same
<1>5. PayoffsSoFar'
  BY <1>1 DEF GameInv, PayoffsSoFar, Same, Working
<1> QED BY <1>2, <1>3, <1>4, <1>5 DEF Story

LEMMA GameInvStep == ASSUME GameInv, [Next]_vars PROVE GameInv'
<1>1. GameTypeOK' /\ FullInv'
  BY GameTypeStep, PoolMoves, PoolStepsKeepFull DEF GameInv
<1>2. Same
  BY SamePlayers DEF GameInv, Same
<1>3. ASSUME UNCHANGED gameVars, worker_inputs' = worker_inputs PROVE Story'
  BY <1>2, <1>3, QuietStep
<1>4. ASSUME NEW p \in Processes, PoolStep(p) PROVE worker_inputs' = worker_inputs
  BY <1>4 DEF PoolStep, TakeBlock, Replicate, ReturnBlock
<1>5. Collect => worker_inputs' = worker_inputs
  BY DEF Collect
<1>6. UNCHANGED vars => UNCHANGED gameVars /\ worker_inputs' = worker_inputs
  BY DEF vars, poolVars
<1>7. ASSUME RunSimulation PROVE Story'
  <2>1. ASSUME Collect, UNCHANGED gameVars PROVE Story'
    BY <1>3, <1>5, <2>1
  <2> QED BY <1>2, <1>7, <2>1, AssignTeamsStep, SimulateProfileStep, SimulateTwinsStep, RecycleTwinsStep,
             ConsolidateStep, GetTeamMetricsStep, CalculateEquilibriumStep, CrashStep DEF RunSimulation
<1>8. ASSUME NEW p \in Processes, PoolStep(p), UNCHANGED gameVars PROVE Story'
  BY <1>3, <1>4, <1>8
<1>9. ASSUME Finished \/ UNCHANGED vars PROVE Story'
  BY <1>3, <1>6, <1>9 DEF Finished
<1>10. Story'
  BY <1>7, <1>8, <1>9 DEF Next
<1> QED BY <1>1, <1>10 DEF GameInv, Story

LEMMA GameInvHolds == Spec => []GameInv
BY GameInvInit, GameInvStep, PTL DEF Spec

-----------------------------------------------------------------------------
(* What the payoffs are.                                                   *)

(* With the twins reduction no mixture of strategies is simulated twice:   *)
(* a launch is preceded by the search of the whole history.                *)
THEOREM MixturesAreSimulatedOnce == Spec => []NoMixtureSimulatedTwice
<1>1. GameInv => NoMixtureSimulatedTwice
  BY DEF GameInv, HistorySoFar
<1> QED BY <1>1, GameInvHolds, PTL

(* A payoff is computed from runs of the profile Gambit takes it for,      *)
(* whether they were simulated for it or recycled from another profile.    *)
THEOREM PayoffsAreOfTheirProfile == Spec => []PayoffsOfTheirProfile
<1>1. ASSUME GameInv PROVE PayoffsOfTheirProfile
  <2> SUFFICES ASSUME NEW k \in DOMAIN profile_payoffs, NEW t \in Teams,
                      NEW row \in profile_payoffs[k][t], NEW m \in PayoffMetrics
               PROVE  /\ row.outcome[m].played[row.reporter_name] = GambitProfile(k)[t]
                      /\ Twins => \E u \in Teams \ {t} : \A q \in Players \ {row.reporter_name} :
                                    row.outcome[m].played[q] = GambitProfile(k)[u]
                      /\ ~Twins => \A q \in Players \ {row.reporter_name} :
                                     row.outcome[m].played[q] = GambitProfile(k)[q - 1]
    BY DEF PayoffsOfTheirProfile
  <2> DEFINE R == RunsPerProfile
             profile == StrategyMaps[k]
  <2>1. /\ Twins => TwinsRows(profile_payoffs[k][t], Players, R, t, profile)
        /\ ~Twins => /\ Players = 1..NumberOfTeams
                     /\ OwnRows(profile_payoffs[k][t], Players, R, t, profile)
        /\ k \in 1..NumberOfProfiles
    <3>1. /\ k \in 1..Len(profile_payoffs) /\ Len(profile_payoffs) \in Nat
          /\ Len(profile_payoffs) <= NumberOfProfiles /\ NumberOfProfiles \in Nat
      BY <1>1, ProfilesFacts DEF GameInv, PayoffsSoFar
    <3>2. k \in 1..NumberOfProfiles
      BY <3>1
    <3> QED BY <1>1, <3>1, <3>2 DEF GameInv, PayoffsSoFar
  <2>2. profile = GambitProfile(k) /\ profile \in [Teams -> Strategies]
    BY <2>1, SameOrder
  <2>3. CASE Twins
    <3>1. PICK agent \in Players :
            \E out \in Outcomes(R, Played(TwinsOf(Players, agent, t, profile))) :
              profile_payoffs[k][t] = {Row(TwinsOf(Players, agent, t, profile), out, n, agent) : n \in 1..R}
      BY <2>1, <2>3 DEF TwinsRows
    <3> DEFINE config == TwinsOf(Players, agent, t, profile)
    <3>2. PICK out \in Outcomes(R, Played(config)) :
            profile_payoffs[k][t] = {Row(config, out, n, agent) : n \in 1..R}
      BY <3>1
    <3>3. /\ Played(config)[agent] = profile[t]
          /\ \A q \in Players \ {agent} : Played(config)[q] = profile[Opponent(t)]
      BY DEF Played, TwinsOf, TwinsConfig
    <3> HIDE DEF config, R
    <3>4. PICK n \in 1..R : row = Row(config, out, n, agent)
      BY <3>2
    <3>5. row.reporter_name = agent /\ row.outcome[m].played = Played(config)
      BY <3>4, RowFields, OutcomesFacts
    <3>6. Opponent(t) \in Teams \ {t}
      BY OpponentFacts
    <3> QED BY <2>2, <2>3, <3>3, <3>5, <3>6
  <2>4. CASE ~Twins
    <3> DEFINE config == OwnConfig(Players, profile)
    <3>1. PICK out \in Outcomes(R, Played(config)) :
            profile_payoffs[k][t] = {Row(config, out, n, t + 1) : n \in 1..R}
      BY <2>1, <2>4 DEF OwnRows
    <3>2. \A q \in Players : Played(config)[q] = profile[q - 1]
      BY DEF Played, OwnConfig
    <3> HIDE DEF config, R
    <3>3. PICK n \in 1..R : row = Row(config, out, n, t + 1)
      BY <3>1
    <3>4. row.reporter_name = t + 1 /\ row.outcome[m].played = Played(config)
      BY <3>3, RowFields, OutcomesFacts
    <3>5. t + 1 \in Players /\ (t + 1) - 1 = t
      BY <2>1, <2>4, TeamsFacts
    <3> QED BY <2>2, <2>4, <3>2, <3>4, <3>5
  <2> QED BY <2>3, <2>4
<1> QED BY <1>1, GameInvHolds, PTL

(* f numbers the elements of S.                                            *)
Numbers(f, runs, S) ==
  /\ f \in [1..runs -> S]
  /\ \A x \in S : \E n \in 1..runs : f[n] = x
  /\ \A n, k \in 1..runs : f[n] = f[k] => n = k

LEMMA Counted ==
  ASSUME NEW runs \in Nat, NEW S, NEW f, Numbers(f, runs, S)
  PROVE  Cardinality(S) = runs
<1>1. IsFiniteSet(1..runs) /\ Cardinality(1..runs) = runs
  BY FS_Interval
<1>2. f \in Bijection(1..runs, S)
  BY DEF Numbers, Bijection, Injection, Surjection, IsInjective
<1>3. ExistsBijection(1..runs, S)
  BY <1>2 DEF ExistsBijection
<1> QED BY <1>1, <1>3, FS_Bijection

(* As many rows as runs, of different runs with different outcomes.        *)
OnePerRun(rows, runs) ==
  /\ Cardinality(rows) = runs
  /\ Cardinality({row.run : row \in rows}) = runs
  /\ Cardinality({row.outcome : row \in rows}) = runs

LEMMA RowsCounted ==
  ASSUME NEW runs \in Nat \ {0}, NEW config, NEW played, NEW out \in Outcomes(runs, played), NEW p, NEW rows,
         rows = {Row(config, out, n, p) : n \in 1..runs}
  PROVE  OnePerRun(rows, runs) /\ rows # {}
<1> DEFINE f == [n \in 1..runs |-> Row(config, out, n, p)]
<1>1. /\ \A n \in 1..runs : f[n] \in rows /\ f[n].run = n /\ f[n].outcome = out[n]
      /\ \A row \in rows : \E n \in 1..runs : row = f[n]
      /\ f \in [1..runs -> rows]
  BY RowFields
<1>2. \A n, k \in 1..runs : out[n] = out[k] => n = k
  BY OutcomesFacts
<1> HIDE DEF f
<1>3. Cardinality(rows) = runs
  <2>1. \A n, k \in 1..runs : f[n] = f[k] => n = k
    BY <1>1
  <2>2. Numbers(f, runs, rows)
    BY <1>1, <2>1 DEF Numbers
  <2> QED BY <2>2, Counted
<1>4. Cardinality({row.run : row \in rows}) = runs
  <2>1. \A row \in rows : row.run \in 1..runs
    BY <1>1
  <2>2. \A n \in 1..runs : \E row \in rows : row.run = n
    BY <1>1
  <2>3. {row.run : row \in rows} = 1..runs
    BY <2>1, <2>2
  <2>4. Cardinality(1..runs) = runs
    BY FS_Interval
  <2> QED BY <2>3, <2>4
<1>5. Cardinality({row.outcome : row \in rows}) = runs
  <2> DEFINE S == {row.outcome : row \in rows}
             g == [n \in 1..runs |-> out[n]]
  <2>1. g \in [1..runs -> S] /\ \A n \in 1..runs : g[n] = out[n]
    BY <1>1
  <2>2. ASSUME NEW row \in rows PROVE \E n \in 1..runs : out[n] = row.outcome
    <3>1. PICK n \in 1..runs : row = f[n]
      BY <1>1
    <3> QED BY <1>1, <3>1
  <2>3. \A x \in S : \E n \in 1..runs : g[n] = x
    BY <2>1, <2>2
  <2>5. Numbers(g, runs, S)
    <3> HIDE DEF g, S
    <3> QED BY <1>2, <2>1, <2>3 DEF Numbers
  <2> HIDE DEF g, S
  <2>4. Cardinality(S) = runs
    BY <2>5, Counted
  <2> QED BY <2>4 DEF S
<1>6. rows # {}
  <2>1. 1 \in 1..runs
    OBVIOUS
  <2> QED BY <1>1, <2>1
<1> QED BY <1>3, <1>4, <1>5, <1>6 DEF OnePerRun

(* Every payoff of a game averages over the same number of runs, at least  *)
(* one, and counts no run twice.                                           *)
THEOREM PayoffsAreComparable == Spec => []ComparablePayoffs
<1>1. ASSUME GameInv PROVE ComparablePayoffs
  <2> DEFINE R == RunsPerProfile
  <2>1. R \in Nat
    BY <1>1, RunsPerProfileType DEF GameInv
  <2>2. ASSUME NEW k \in DOMAIN profile_payoffs, NEW t \in Teams
        PROVE  OnePerRun(profile_payoffs[k][t], R) /\ profile_payoffs[k][t] # {}
    <3> DEFINE rows == profile_payoffs[k][t]
               profile == StrategyMaps[k]
    <3>1. R # 0 /\ k \in 1..Len(profile_payoffs)
      BY <1>1 DEF GameInv, PayoffsSoFar
    <3>2. /\ Twins => TwinsRows(rows, Players, R, t, profile)
          /\ ~Twins => /\ Players = 1..NumberOfTeams
                       /\ OwnRows(rows, Players, R, t, profile)
      BY <1>1, <3>1 DEF GameInv, PayoffsSoFar
    <3> HIDE DEF rows, profile, R
    <3>3. CASE Twins
      <4>1. PICK agent \in Players :
              \E out \in Outcomes(R, Played(TwinsOf(Players, agent, t, profile))) :
                rows = {Row(TwinsOf(Players, agent, t, profile), out, n, agent) : n \in 1..R}
        BY <3>2, <3>3 DEF TwinsRows
      <4> DEFINE config == TwinsOf(Players, agent, t, profile)
      <4>2. PICK out \in Outcomes(R, Played(config)) : rows = {Row(config, out, n, agent) : n \in 1..R}
        BY <4>1
      <4> HIDE DEF config
      <4>3. OnePerRun(rows, R) /\ rows # {}
        BY <2>1, <3>1, <4>2, RowsCounted
      <4> QED BY <4>3 DEF rows
    <3>4. CASE ~Twins
      <4> DEFINE config == OwnConfig(Players, profile)
      <4>1. PICK out \in Outcomes(R, Played(config)) : rows = {Row(config, out, n, t + 1) : n \in 1..R}
        BY <3>2, <3>4 DEF OwnRows
      <4> HIDE DEF config
      <4>2. OnePerRun(rows, R) /\ rows # {}
        BY <2>1, <3>1, <4>1, RowsCounted, SMTT(30)
      <4> QED BY <4>2 DEF rows
    <3> QED BY <3>3, <3>4
  <2> HIDE DEF R
  <2> QED BY <2>2 DEF ComparablePayoffs, OnePerRun
<1> QED BY <1>1, GameInvHolds, PTL
=============================================================================
