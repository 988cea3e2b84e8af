---------------------------- MODULE Replications ----------------------------
(***************************************************************************)
(* The replications of one simulation, simutils.launch_simulation and      *)
(* launch_simulation_parallel: the work is split into blocks, each worker  *)
(* process of a pool takes a block, simulates its share and appends what   *)
(* each run produced to seven lists; the caller concatenates the lists of  *)
(* all blocks.                                                             *)
(*                                                                         *)
(* The pool is pathos' ProcessingPool, a library: an idle process takes    *)
(* the next block, map returns when every output is there, the outputs in  *)
(* the order of the inputs, whoever finished first.  The processes are     *)
(* forked once and kept, so all of them start with the random state of     *)
(* the process that forked them.  A run of the simulation is one step: it  *)
(* shares nothing with another process.  Called directly,                  *)
(* launch_simulation is a single block that the main process takes.        *)
(***************************************************************************)
EXTENDS Integers, SequencesExt

CONSTANTS
  Workers,          \* the processes of the pool
  Main,             \* the process that launches simulations
  ParallelBlocks,   \* gtconfig.parallel_blocks
  ReporterConfigs,  \* what a simulation can be asked to simulate
  MaxIterations     \* values of max_iterations

ASSUME PoolAssumption ==
  /\ IsFiniteSet(Workers) /\ Main \notin Workers
  /\ ParallelBlocks \in Nat \ {0}
  /\ MaxIterations \subseteq Nat

Metrics == {"completed_per_reporter", "completed_per_priority", "bugs_per_reporter",
            "reports_per_reporter", "resolved_per_reporter", "reported_per_priotity",
            "reporting_times"}

Processes == Workers \cup {Main}

VARIABLES
  rng,            \* numpy's global generator of each process
  seeds,          \* seeds taken from the operating system so far
  pool,           \* the processes that may take a block of this launch
  worker_inputs,  \* the blocks: what to simulate and how often
  handed_out,     \* blocks taken so far
  assigned,       \* the block each process works on, 0 if none
  worker_outputs, \* the lists each block has filled
  returned,       \* blocks whose output is back
  collected,      \* outputs concatenated so far
  results         \* the lists of the launch

poolVars == <<rng, seeds, pool, worker_inputs, handed_out, assigned,
              worker_outputs, returned, collected, results>>

-----------------------------------------------------------------------------
(* The state of a generator: how it was seeded and the runs it has served. *)
RandomStates == [seed : Nat, used : Nat]

(* One run of run_model: the configuration it simulated and the random     *)
(* numbers it drew.                                                        *)
Replication == [played : ReporterConfigs, stream : RandomStates]

NoResults == [m \in Metrics |-> << >>]
Blocks == DOMAIN worker_inputs
Launched == worker_inputs # << >>
AllCollected == Launched /\ collected = Len(worker_inputs)

(* Mutant: the processes keep the random state they were forked with.      *)
SeedKept(p) == rng[p]

(* np.random.seed(): fresh entropy from the operating system.              *)
Seeded(p) == [seed |-> seeds + 1, used |-> 0]

(* samples_per_worker: Python 2's integer division.                        *)
SamplesPerWorker(iterations, blocks) == iterations \div blocks

(* Mutant: one list is extended at the wrong end.                          *)
ExtendAtWrongEnd(lists, more) ==
  [m \in Metrics |-> IF m = "resolved_per_reporter" THEN more[m] \o lists[m]
                     ELSE lists[m] \o more[m]]

(* Every list extended with what another holds for the same metric.        *)
Extend(lists, more) == [m \in Metrics |-> lists[m] \o more[m]]

-----------------------------------------------------------------------------
PoolInit ==
  /\ rng = [p \in Processes |-> [seed |-> 0, used |-> 0]]
  /\ seeds = 0
  /\ pool = {}
  /\ worker_inputs = << >>
  /\ handed_out = 0
  /\ assigned = [p \in Processes |-> 0]
  /\ worker_outputs = << >>
  /\ returned = {}
  /\ collected = 0
  /\ results = NoResults

(* The launch: the inputs of every block carry the same configuration.     *)
(* They are pickled when they are submitted, so a later change of the      *)
(* caller's list of players does not reach the workers.                    *)
Launch(config, iterations, parallel) ==
  LET blocks == IF parallel THEN ParallelBlocks ELSE 1
  IN  /\ ~Launched
      /\ pool' = IF parallel THEN Workers ELSE {Main}
      /\ worker_inputs' = [b \in 1..blocks |->
           [reporters_config |-> config,
            max_iterations |-> SamplesPerWorker(iterations, blocks)]]
      /\ worker_outputs' = [b \in 1..blocks |-> NoResults]
      /\ handed_out' = 0 /\ returned' = {} /\ collected' = 0
      /\ results' = NoResults
      /\ UNCHANGED <<rng, seeds, assigned>>

(* A process of the pool takes the next block.                             *)
TakeBlock(p) ==
  /\ p \in pool /\ assigned[p] = 0
  /\ handed_out < Len(worker_inputs)
  /\ handed_out' = handed_out + 1
  /\ assigned' = [assigned EXCEPT ![p] = handed_out + 1]
  /\ UNCHANGED <<rng, seeds, pool, worker_inputs, worker_outputs, returned,
                 collected, results>>

(* One turn of launch_simulation's loop: seed, simulate, append to all     *)
(* lists.                                                                  *)
Replicate(p) ==
  LET b == assigned[p]
      seeded == Seeded(p)
      run == [played |-> worker_inputs[b].reporters_config, stream |-> seeded]
  IN  /\ b # 0
      /\ Len(worker_outputs[b]["completed_per_reporter"]) < worker_inputs[b].max_iterations
      /\ seeds' = seeds + 1
      /\ rng' = [rng EXCEPT ![p] = [seeded EXCEPT !.used = @ + 1]]
      /\ worker_outputs' = [worker_outputs EXCEPT ![b] =
                              Extend(@, [m \in Metrics |-> <<run>>])]
      /\ UNCHANGED <<pool, worker_inputs, handed_out, assigned, returned,
                     collected, results>>

(* The loop ends and the dictionary of lists goes back to the caller.      *)
ReturnBlock(p) ==
  LET b == assigned[p]
  IN  /\ b # 0
      /\ Len(worker_outputs[b]["completed_per_reporter"]) = worker_inputs[b].max_iterations
      /\ returned' = returned \cup {b}
      /\ assigned' = [assigned EXCEPT ![p] = 0]
      /\ UNCHANGED <<rng, seeds, pool, worker_inputs, handed_out, worker_outputs,
                     collected, results>>

(* One turn of the consolidation, once map has returned.                   *)
Collect ==
  /\ Launched /\ returned = Blocks
  /\ collected < Len(worker_inputs)
  /\ results' = Extend(results, worker_outputs[collected + 1])
  /\ collected' = collected + 1
  /\ UNCHANGED <<rng, seeds, pool, worker_inputs, handed_out, assigned,
                 worker_outputs, returned>>

(* The launch returns: its caller has the lists, the rest is garbage.      *)
Return ==
  /\ AllCollected
  /\ pool' = {} /\ worker_inputs' = << >> /\ worker_outputs' = << >>
  /\ handed_out' = 0 /\ returned' = {} /\ collected' = 0
  /\ results' = NoResults
  /\ UNCHANGED <<rng, seeds, assigned>>

PoolStep(p) == TakeBlock(p) \/ Replicate(p) \/ ReturnBlock(p)

PoolNext ==
  \/ \E config \in ReporterConfigs, n \in MaxIterations, parallel \in BOOLEAN :
       Launch(config, n, parallel)
  \/ \E p \in Processes : PoolStep(p)
  \/ Collect
  \/ Return

PoolSpec == PoolInit /\ [][PoolNext]_poolVars

-----------------------------------------------------------------------------
ResultLists == [Metrics -> Seq(Replication)]

PoolTypeOK ==
  /\ rng \in [Processes -> RandomStates]
  /\ seeds \in Nat
  /\ pool \in {{}, {Main}, Workers}
  /\ worker_inputs \in Seq([reporters_config : ReporterConfigs, max_iterations : Nat])
  /\ handed_out \in 0..Len(worker_inputs)
  /\ assigned \in [Processes -> 0..Len(worker_inputs)]
  /\ worker_outputs \in Seq(ResultLists)
  /\ Len(worker_outputs) = Len(worker_inputs)
  /\ returned \subseteq Blocks
  /\ collected \in 0..Len(worker_inputs)
  /\ results \in ResultLists

(* Every block is in one place: not taken yet, with one process, or back.  *)
(* A block two processes worked on would hold too many runs, one that      *)
(* nobody has would keep the caller waiting for ever.                      *)
BlocksInOnePlace ==
  /\ \A p, q \in Processes : p # q /\ assigned[p] # 0 => assigned[p] # assigned[q]
  /\ \A p \in Processes : assigned[p] # 0 => p \in pool
  /\ {assigned[p] : p \in Processes} \ {0} = (1..handed_out) \ returned
  /\ returned \subseteq 1..handed_out

(* The seven lists are read in step by consolidate_payoff_results: entry n *)
(* of each must come from the same run.                                    *)
ListsInStep ==
  \A m, n \in Metrics :
    /\ results[m] = results[n]
    /\ \A b \in Blocks : worker_outputs[b][m] = worker_outputs[b][n]

(* No two runs of a launch draw the same random numbers, although the      *)
(* processes of the pool were forked with the same random state.           *)
RunsIndependent ==
  \A m \in Metrics :
    /\ \A i, j \in DOMAIN results[m] :
         i # j => results[m][i].stream # results[m][j].stream
    /\ \A b, c \in Blocks :
         \A i \in DOMAIN worker_outputs[b][m], j \in DOMAIN worker_outputs[c][m] :
           <<b, i>> # <<c, j>> =>
             worker_outputs[b][m][i].stream # worker_outputs[c][m][j].stream

(* However the work is divided, a launch is one experiment.                *)
RunsOf(lists) == UNION {Range(lists[b]["completed_per_reporter"]) : b \in DOMAIN lists}
Abstract ==
  INSTANCE Experiment WITH
    Configs <- ReporterConfigs, Streams <- RandomStates, Measures <- Metrics,
    asked <- IF Launched THEN <<worker_inputs[1].reporters_config>> ELSE << >>,
    runs <- RunsOf(worker_outputs),
    answered <- AllCollected,
    lists <- IF AllCollected THEN results ELSE NoResults
ImplementsExperiment == Abstract!Spec
=============================================================================
