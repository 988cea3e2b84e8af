---------------------------- MODULE FitnessSearch ---------------------------
(***************************************************************************)
(* The evolutionary search of release parameters: ECJ's evaluation threads *)
(* (external) call Fitness.evaluate for the individuals of a population,   *)
(* which runs fitness_script.bsh, which runs getequilibrium.py.  All       *)
(* scripts work in the same directory.                                     *)
(*                                                                         *)
(* An individual is a record of its three genes.  A number stands for the  *)
(* fitness it deserves: the worst value of its game, less its costs, is    *)
(* kept as the game and the individual it was computed from.               *)
(***************************************************************************)
EXTENDS Naturals, Sequences, FiniteSetsExt

CONSTANTS None,
  NumThreads,    \* evalthreads, at least one
  Individuals    \* the population, a sequence of records of genes

Threads == 0..(NumThreads - 1)

VARIABLES
  running,       \* the search; a fatal error exits the process
  nextOne,       \* individualCounter
  chunk,         \* of each thread: its individuals that are to be evaluated
  at,            \* where the script of each thread is; "none" if there is none
  directories,   \* csv and nfg exist
  nfg,           \* the game files in nfg, by number of teams: whose game
  results,       \* of each thread: $equilibrium_results, the game solved or None
  worst,         \* of each thread: $current_worst, a file, the game it is from or None
  test,          \* of each thread: the variable of that name in the script's shell
  output,        \* of each thread: the line the script has printed or None
  fitness        \* of each individual that was evaluated, or None

vars == <<running, nextOne, chunk, at, directories, nfg, results, worst, test, output,
          fitness>>
script == <<results, worst, test, output>>

Init ==
  /\ running = TRUE
  /\ nextOne = 1
  /\ chunk = [t \in Threads |-> <<>>]
  /\ at = [t \in Threads |-> "none"]
  /\ directories = FALSE
  /\ nfg = [teams \in {} |-> None]
  /\ results = [t \in Threads |-> None]
  /\ worst = [t \in Threads |-> None]
  /\ test = [t \in Threads |-> 0]
  /\ output = [t \in Threads |-> None]
  /\ fitness = [i \in DOMAIN Individuals |-> None]

Candidate(t) == Individuals[Head(chunk[t])]

(* chunk-size is auto: equal shares, the first threads take what is over.  *)
ChunkSize(t) ==
  (Len(Individuals) \div NumThreads) + (IF t < Len(Individuals) % NumThreads THEN 1 ELSE 0)

TakeChunk(t) ==
  /\ running /\ chunk[t] = <<>> /\ nextOne <= Len(Individuals) /\ ChunkSize(t) > 0
  /\ chunk' = [chunk EXCEPT ![t] =
                 [i \in 1..Min({ChunkSize(t), Len(Individuals) - nextOne + 1}) |->
                   nextOne + i - 1]]
  /\ nextOne' = nextOne + ChunkSize(t)
  /\ UNCHANGED <<running, at, directories, nfg, script, fitness>>

Goes(t, from, to) == at[t] = from /\ at' = [at EXCEPT ![t] = to]

StartScript(t) ==
  /\ running /\ chunk[t] # <<>> /\ Goes(t, "none", "clean")
  /\ results' = [results EXCEPT ![t] = None]
  /\ worst' = [worst EXCEPT ![t] = None]
  /\ test' = [test EXCEPT ![t] = 0]
  /\ output' = [output EXCEPT ![t] = None]
  /\ UNCHANGED <<running, nextOne, chunk, directories, nfg, fitness>>

(* rm -fr csv nfg, also those another script is using.                     *)
RemoveDirectories(t) ==
  /\ Goes(t, "clean", "make")
  /\ directories' = FALSE
  /\ nfg' = [teams \in {} |-> None]
  /\ UNCHANGED <<running, nextOne, chunk, script, fitness>>

MakeDirectories(t) ==
  /\ Goes(t, "make", "simulate")
  /\ directories' = TRUE
  /\ UNCHANGED <<running, nextOne, chunk, nfg, script, fitness>>

(* The script's first argument is the number of developers; the program it *)
(* passes it to takes it for the number of testers, its teams.             *)
PlayedBy(candidate) ==
  [testers |-> candidate.devs, devs |-> candidate.testers, defects |-> candidate.defects]

(* The game file is named for the number of teams.  Without the            *)
(* directories the program ends and its results stay empty.                *)
WriteGame(t) ==
  LET game == PlayedBy(Candidate(t))
  IN  /\ at[t] = "simulate"
      /\ IF directories
         THEN /\ at' = [at EXCEPT ![t] = "solve"]
              /\ nfg' = [teams \in DOMAIN nfg \cup {game.testers} |->
                          IF teams = game.testers THEN game ELSE nfg[teams]]
         ELSE /\ at' = [at EXCEPT ![t] = "reduce"]
              /\ UNCHANGED nfg
      /\ UNCHANGED <<running, nextOne, chunk, directories, script, fitness>>

SolveGame(t) ==
  LET teams == PlayedBy(Candidate(t)).testers
  IN  /\ Goes(t, "solve", "reduce")
      /\ results' = IF teams \in DOMAIN nfg
                    THEN [results EXCEPT ![t] = nfg[teams]] ELSE results
      /\ UNCHANGED <<running, nextOne, chunk, directories, nfg, worst, test, output, fitness>>

(* The loop over the results is the last command of a pipe and runs in a   *)
(* shell of its own: the file it writes stays, its "test=1" is lost.       *)
ReduceResults(t) ==
  /\ Goes(t, "reduce", "check")
  /\ worst' = [worst EXCEPT ![t] = results[t]]
  /\ UNCHANGED <<running, nextOne, chunk, directories, nfg, results, test, output, fitness>>

PrintFitness(t) ==
  /\ Goes(t, "check", "exit")
  /\ output' = IF test[t] = 0 THEN output
               ELSE [output EXCEPT ![t] = [game |-> worst[t], costs |-> Candidate(t)]]
  /\ UNCHANGED <<running, nextOne, chunk, directories, nfg, results, worst, test, fitness>>

(* The exit status is not read.  No output is fatal for the whole search.  *)
SetFitness(t) ==
  /\ running /\ Goes(t, "exit", "none")
  /\ chunk' = [chunk EXCEPT ![t] = Tail(@)]
  /\ IF output[t] = None
     THEN running' = FALSE /\ UNCHANGED fitness
     ELSE fitness' = [fitness EXCEPT ![Head(chunk[t])] = output[t]] /\ UNCHANGED running
  /\ UNCHANGED <<nextOne, directories, nfg, script>>

Next ==
  \E t \in Threads :
    \/ TakeChunk(t) \/ StartScript(t)
    \/ RemoveDirectories(t) \/ MakeDirectories(t) \/ WriteGame(t) \/ SolveGame(t)
    \/ ReduceResults(t) \/ PrintFitness(t) \/ SetFitness(t)

Spec == Init /\ [][Next]_vars

-----------------------------------------------------------------------------

(* "The evaluation script must return a single Dpuble value"               *)
(* (Fitness.java): a script whose program has solved the game prints one.  *)
SolvedGamesAreReported ==
  \A t \in Threads : at[t] = "exit" /\ results[t] # None => output[t] # None

=============================================================================
