# A verification project for the bug reporting simulation and its mechanism search

The repository studies how a bug tracking process should be run when reporters may
inflate the priority of their reports. It mines a bug tracker, fits a discrete-event
simulation of the reporting process to the data, simulates every strategy profile of the
game the reporters play, hands the payoffs to Gambit and searches release parameters with
an evolutionary algorithm. This directory holds TLA+ specifications of that system, the TLC
configurations that check them on small instances and proofs, checked by TLAPS, of what
holds for every instance.

Run, inside this directory, `tlc -config SimpleReporting.cfg MCBugReporting.tla` (and so
on, one `.cfg` per run) and `tlapm BugReportingProofs.tla` (and
so on, for every module named `...Proofs`, for `BugReportingProperties` and `NumberLemmas`).

## 1. Inventory

Paths are relative to `src/`; `simmodel.py` and its neighbours are in
`ecj/bug-report-simmodel/`.

| component | state | operations | what is hard | what makes it correct |
|---|---|---|---|---|
| **Simulation model** `simmodel.py` | SimPy's clock and event list, developer and gatekeeper resources with their queues, one `BasicBugReport` per report, the ignore generators, the monitors, first and last report time | the source files batches; `arrive` of the simple, vanilla, gatekeeper and throttling report; the controller's hourly check | generators interleave at every `yield`; a developer is taken, given back by an ignored report and asked for again; reviews change what a later step reads; penalties change later decisions of the same run | reports and units are conserved, the queue is served in the promised order, monitors agree with each other and with what happened, the run stops when it should |
| **SimPy 2.3.1** (library) | resources, event list | `request`, `release`, `hold`, `activate` | order of processes due at the same time | priority queue, hand-over without an idle unit |
| **Replications** `simutils.py` | a pool of worker processes, seven result lists | `launch_simulation`, `launch_simulation_parallel`, `launch_simulation_wrapper` | work is split by integer division; results are collected in parallel | every replication asked for is run once; the lists stay in step |
| **Simulation driver** `simdriver.py`, `simvalid.py` | generators fitted to the data | input generation, simulation and validation per project | statistics | out of scope of a model checker |
| **Payoffs and game** `payoffgetter.py`, `simcruncher.py`, `gtutils.py`, `getequilibrium.py`, `gtconfig.py` | the strategy catalogue, the profiles, the reporter configurations (mutated from profile to profile), the payoffs | enumerate profiles, assign strategies, simulate, write the `.nfg` file, run the solver, parse equilibria | shared mutable configurations; the order of profiles is a convention with the solver; files with fixed names | payoff k belongs to profile k, every player plays the strategy of the profile |
| **Twins reduction** `simtwins.py` | the agents of a team | one simulation per player against its twins | who plays which strategy | payoffs of a player come from the run in which it deviates |
| **Experiments** `penaltyexp.py`, `defaultabuse.py`, `playerdata.py` | none of their own | parameter sweeps | long sequences of runs over one input record | each run starts from the same inputs |
| **Data preparation** `simdata.py`, `siminput.py` | data frames | batches, resolved-in-batch, streams of arrivals, inflation records, drive-by filter | boundaries of batches; two loops that count fixes differently | the batches used are those that ended with their fixes; streams add up to the reports |
| **Evolutionary search** `ecj/Fitness.java`, `ecj/fitness_script.bsh`, `ecj/column_extractor.bsh`, `ecj/priority_inflation.params` | the population, `evaluated` flags, the working directory's `csv` and `nfg` | evaluate a candidate by running the script | evaluation threads (`evalthreads = auto`) run scripts that delete and rebuild the same directories | a candidate's fitness is computed from its own simulation |
| **Bugzilla miner** `bugzilla.miner/` | lists of reports, the CSV file | fetch bugs, apply histories, export | bugs change between two calls; a component that fails half-way | exported reports are true of the histories; components are exported whole or not at all |
| **Gambit: tables** `libgambit/gametable.cc`, `game.cc`, `file.cc`, `stratitr.cc` | players with their strategies, each with an offset into one table of outcomes | add and delete strategies and players, outcomes, payoffs; write and read `.nfg` files | position, offset and number of a strategy must agree with the table, and some operations update only some of them | the table has the payoffs of every profile; a file reads back as the game written |
| **Gambit: document** `gui/gamedoc.cc` | the game, lists of equilibria, undo and redo lists of texts | every edit, solver runs, undo, redo | the text is written while the views are being updated | what is shown is what was saved; equilibria belong to the game shown |
| **Gambit: elimination** `libgambit/stratspt.cc`, `gui/gamedoc.cc` | a stack of supports | go to the next, previous or top level | the search reorders the list it scans | what is removed is dominated, equilibria survive, the search ends |
| **Gambit: trees** `libgambit/gametree.cc`, `game.cc` | nodes with children, information sets with members and actions, lists of information sets per player | some fifteen edits; perfect recall, reduced strategies | four structures point at each other; edits reorder the lists being walked | they agree after every edit, and positions of branches keep meaning the same actions |
| **Gambit: rest**, **ECJ** `ecj/ec/` | | | solvers in floating point, windows, generated code | third-party |

Components interact as follows: miner -> CSV -> data preparation -> driver (generators) ->
payoffs: for each profile, replications -> `simmodel.run_model` -> result lists -> payoffs ->
Gambit -> equilibria -> CSV -> `column_extractor.bsh` -> fitness -> ECJ. The search calls the
whole chain as an external command, once per candidate and from several threads.

The Gambit sources lie in `ecj/bug-report-simmodel/gambit-15.1.0/src/`. They are vendored,
but the payoffs of this repository pass through their files and profile order, and they
hold most of its stateful code: the parts listed above are modelled, see section 8 for the
rest.

## 2. The modules

1. `SimResource`: SimPy's priority resource.
2. `BugReporting` (extends `SimResource`) and the abstract `ReportLifecycle` it implements;
   `MCBugReporting` with three runs, one per reporting process (the vanilla process is the
   throttling one without its penalty); `BugReportingProofs` (what
   the operations of `SimResource` do to any queue, types and the inductive invariant) and `BugReportingProperties` (what follows from it).
3. `Replications`, the pool of processes, and the abstract `Experiment` it implements.
4. `PayoffGame` (extends `Replications`): the profiles in the solver's order
   (`StrategyProfiles`), the shared player dictionaries, the twins reduction with recycled
   results, the equilibria; `PayoffGameProofs` (the launcher and the game).
5. `BatchAssignment`: batches of reports, the batch a report is resolved in, streams;
   `BatchAssignmentProofs`.
6. `BugMiner`: fetching components with failures, histories, export; `BugMinerProofs`.
7. `FitnessSearch`: evaluation threads, the script and the shared directories.
8. `StrategyProfiles`, `GameTable` (operators on tables), `GameDocument` (the state machine)
   and the abstract `PayoffTable` that editing a table implements; `GameDocumentProofs`.
9. `Elimination` and `EliminationProofs`.
10. `GameTree`.
11. `NumberLemmas`: facts about numbers that the proofs of 4, 5, 6 and 8 need.

`StrategyProfiles` is shared by 4 and 8: the order in which payoffs are handed over is the
same convention on both sides.

## 3. The reporting process

### What is modelled

`BugReporting` models `run_model` and everything it activates. A SimPy process is a Python
generator: SimPy resumes it and it runs to its next `yield`. **One action is one
resumption.** The variable `stage` is the program counter of each report:

| stage | the generator is suspended at / about to run |
|---|---|
| `activated` | `activate(...)` was called; first line of `arrive` |
| `gkWait`, `gkGranted` | `yield request, self, gatekeeper_resource`, in the queue / granted |
| `review` | `yield hold, ..., review_time` |
| `gkReleased` | `yield release, self, gatekeeper_resource` |
| `devWait`, `devGranted` | `yield request, self, developer_resource, ...` |
| `ignored` | `yield release` of the ignoring procedure |
| `fix` | `yield hold, ..., fix_effort` |
| `devReleased` | the `yield release` after the fix |
| `fixed`, `discarded` | returned |

`ready` is the list of processes SimPy resumes at the current time, in its order. SimPy
posts a process that was granted or has released *first* at the current time, and a woken
waiter right behind the process that woke it; processes activated by the source come in
the order of activation. A timed event fires only when `ready` is empty.

| action | code |
|---|---|
| `StartReporting` | one turn of the loop of `BugReportSource.start_reporting`: the batch, `catch_bug`, the reported priority, the dispatch, the counters, the next hold |
| `RequestGatekeeper`, `StartReview`, `EndReview` | `GatekeeperBugReport.arrive`, up to the release of the gatekeeper |
| `RequestDeveloper` | every `yield request` for a developer, the one after an ignored turn included |
| `IgnoreReport`, `DiscardReport` | the ignoring procedure |
| `StartFix`, `EndFix`, `Resolve` | the fix, `update_monitors` and, with a quota system, `apply_penalty` |
| `Control` | one turn of `SimulationController.control`, `stopSimulation` included |
| `TimeUp`, `Finished` | `simulate(until=max_time)` ends |

Random draws (batch sizes, gaps, efforts, review times, priorities, reporters, outcomes of
the catcher, whether a report is ignored) are nondeterministic choices from the constants;
a probability matters only where the code tests it, so an ignore chance is a percentage and
a report can be ignored iff it is above 0 and fixed iff it is below 100. Only the
priorities 1 and 3 are filed (`SUPPORTED_PRIORITIES`): the ignore and effort generators
exist for no other. Reports are named 1, 2, ... in the order of filing.

**Time.** The code's clock is a float. An instant of the model stands for an interval, so
timed events of the same instant fire in any order; `HourLength` instants make an hour,
the unit of the controller and, through `int(arrival_time)`, of the queue. What `simulate`
does to the clock when the horizon is reached is left out.

**Left out.** `BugReportTimeOut` (created only if `DEFAULT_TIMEOUT` is not `None`, and it
is the constant `None`), log output, the values that monitors average (their counts are
kept), the names of reports.

`SimResource` models the SimPy resource. It is external: it is modelled from the arguments
the code passes (`qType=PriorityQ`, `preemptable=False`) and SimPy's documented behaviour.

`ReportLifecycle` is the abstract specification: reports are opened, at most `Capacity` are
worked on at a time, started work is finished, an end is final, and the visible priority
changes only before the work and only to the true one. `BugReporting` implements it under
the mapping `Lifecycle` (status from `stage`).

### Runs

All runs use two or one reporters and three or four reports, in batches of one or two: the
smallest numbers with which a report waits behind another of the same and of another
priority, a released unit finds zero, one and two waiters, and arrivals interleave with
hand-overs. `MaxReports` and `MaxTime` are the bounds; when the bound is reached the source
never wakes again.

| run | configuration | what it asks |
|---|---|---|
| `simple` | `simple_reporting_model`, one developer, efforts 1 or 2, horizon long enough for every report | `DeveloperHours`: at no instant are more reports being fixed than there are developers; `SeverestFirst`: a free developer takes the severest waiting report and of those the oldest; `EventuallyStops` |
| `gatekeeper` | two developers, one gatekeeper who always catches, one inflating and one deflating reporter | `IInv`, the invariant the proofs use; `TriagedPriority`; `LedgersAgree`; `ResolutionTakesItsTime`; `FirstComeFirstReviewed`; `ImplementsLifecycle` |
| `throttling` | two instants per hour, `views_to_discard` 2 so that ignored reports return to the queue, penalty 40 %, fallible catcher, one reporter who inflates and one who deflates | `IInv` with returning reports; `PenaltyMatchesOffences`: for a reporter who never deflates, the chances are the initial ones plus exactly one penalty per inflation that was fixed and noticed, capped at 95 %; `PromptStop`: the run stops at the first check after the target; `IgnoredFate`: an ignored report queues again, is not checked a second time and never discarded; `LatestHourFirst`: who is served next when the priority is `int(arrival_time)` |

There is no run of the vanilla process: `VanillaBugReport.arrive` is `ThrottlingBugReport.arrive`
without its last step, the penalty, so the run `throttling` goes through all of it, and the
theorems of section 7 hold of both. A limit of one view or none is in the run `gatekeeper`
(`DiscardReport`) and in the theorem about `IgnoredFate`, which holds for every limit.

`throttling` shows a consequence worth knowing: a larger number is a higher priority for
SimPy, so `int(arrival_time)` serves the *latest* hour first. `LatestHourFirst` states it;
a report of an early hour waits as long as later ones arrive.

To state penalties exactly the model keeps a history, `caught`: the reports the catcher found
false when they were fixed. `PenaltyMatchesOffences` speaks of reporters who never deflate,
although `ThrottlingBugReport` asks `is_false_report`, which is true of a deflated report as
well: `simmodel.py:714` says "If inflation happens, the offender gets penalized" and
`simmodel.py:78` "penalizing inflators". Whether a deflation should be penalised is open, the
code does it and the documentation does not mention it; the property takes no side, and says
that another reporter's deflations cost the others nothing.

**Fairness.** Only `simple` uses it: `WF_vars(Next)`. SimPy's `simulate` is a loop that
pops the next event until there is none, so some step is always taken. No fairness of a
particular process is assumed: that each report gets its turn follows from the clock.

## 4. The payoffs of the game

### What is modelled

`Replications` models `launch_simulation`, `launch_simulation_parallel` and
`launch_simulation_wrapper`; `PayoffGame` extends it with `payoffgetter.run_simulation`,
`simtwins.py`, `simcruncher.py`, `get_strategic_game_format` and `calculate_equilibrium`.

| variable | code |
|---|---|
| `worker_inputs`, `worker_outputs` | the lists of inputs and of dictionaries with seven result lists in `launch_simulation_parallel`; the entry of a block under way is the worker's own lists |
| `assigned`, `handed_out`, `returned` | the pool: what each process works on, how far the inputs are handed out, which outputs are back |
| `rng`, `seeds` | numpy's global generator of each process; entropy taken by `np.random.seed()` |
| `results`, `collected` | the consolidated lists |
| `player_configuration` | the list of dictionaries with the keys `team` and `strategy` that all profiles share |
| `step`, `index`, `team` | where `run_simulation` (and `simtwins.simulate_payoffs`) is |
| `simulation_history`, `overall_dataframes` | the lists of the same names |
| `profile_payoffs`, `equilibrium` | the payoffs handed to Gambit by position; what is read from its answer |

| action | code |
|---|---|
| `Launch`, `Collect`, `Return` | the caller's side of a launch |
| `TakeBlock`, `Replicate`, `ReturnBlock` | a process: take an input, one turn of the loop (seed, simulate, append seven times), return |
| `AssignTeams`, `SimulateProfile` | `assign_teams`, `configure_strategies_per_team` and the launch |
| `SimulateTwins`, `RecycleTwins` | one team of `simtwins.simulate_payoffs`: aggregation, twins' strategies, `check_simulation_history`, then a launch or a relabelled result |
| `ConsolidateSimulation`, `GetTeamMetrics` | `consolidate_payoff_results`; `get_team_metrics` for every team |
| `CalculateEquilibrium` | the solver's line is read with a strategy and a team counter |
| `Crash` | an exception nobody catches |

A run of the simulation is one step, since processes share no memory: what a replication
yields is abstracted to the pair of the strategies played and the random numbers drawn, and
a payoff to the set of rows it averages. Scores and averages are therefore compared by
where they come from, not by value.

The pool is pathos' and external: an idle process takes the next input, `map` returns when
all outputs are back and in the order of the inputs. The workers are forked, which is why
they start with the same random state and why `np.random.seed()` in the loop matters. The
solver is external: it reads the payoffs in the order of its own enumeration of profiles
(`GambitProfile`) and answers with one line of probabilities, team by team.

`Experiment` is the abstract specification of a launch: it is asked for a configuration,
makes independent runs of it and answers with lists that hold every run once, all alike.

### Runs

| run | configuration | what it asks |
|---|---|---|
| `game` | two teams, two strategies, two or three players, two processes, three blocks, 1 or 4 replications: fewer than blocks and not divisible by them; twins or not, parallel or not | of every launch: `ListsInStep`, `RunsIndependent`, `ImplementsExperiment`. Of the game: `PayoffsOfTheirProfile`: payoff *k* comes from runs in which the players played Gambit's profile *k*; `ComparablePayoffs`; `NoMixtureSimulatedTwice`; `EquilibriumRead`; `GameCompletes` |
| `replications_lost` | three replications in two blocks | refutes `AllReplicationsRun` |

Two strategies and two teams are the least with which the order of the profiles matters and
a result can be recycled for another profile; three players give the twins' aggregate two
members. Three blocks on two processes make a process take a second block while another
still works.

`replications_lost` disagrees with the documentation: `README.md:16` calls
`replications_per_profile` "the number of replications to execute per strategy profile",
but `simutils.py:474` divides it by `parallel_blocks` as integers, so the remainder is never
run, and none at all when there are more blocks than replications; the consolidation then
fails on an empty data frame (`Crash`).

**Fairness.** `game` assumes weak fairness of the main thread (`RunSimulation`) and of each
process of the pool: the operating system runs them all and none waits for a lock. Nothing
is assumed of which process takes which block. `GameCompletes` lists the conditions under
which the code ends with an exception instead.

## 5. The data the simulation learns from

### Mining

`BugMiner` models the Java program that makes the CSV file. Its other actor is the bug
tracker, which is external: people change bugs at any time, also between the call that lists
a component and the calls for the histories.

| variable | code |
|---|---|
| `filed`, `history` | the tracker: the priority a bug was filed with, its changes in order |
| `component`, `bugs`, `next` | the two loops of `getLibreOfficeBugs` and the response under way |
| `bugReports` | the list of the same name |
| `step`, `file` | where `main` is; the records written |

| action | code |
|---|---|
| `ChangeBug` | somebody changes status, priority or assignee (tracker) |
| `ListBugs`, `GetHistory` | the two calls; `applyBugHistory` is part of the second |
| `AddAll`, `Fail` | the end of the `try` block and its `catch` |
| `OpenFile`, `PrintRecord`, `CloseFile`, `ExportFails` | `generateCsv` and the `catch` of `main` |

Columns that are copied unchanged are left out, dates are positions in the history, and an
entry of the history holds one change.

### Batches and streams

`BatchAssignment` models what becomes of the data frame: the two loops of
`include_batch_information`, the selection of batches in `get_team_training_data`, and the
windows and gaps of `get_reporter_configuration`. It is a sequential program; what makes it
hard is that two loops count fixes in different ways, by date and by batch. A behaviour
either groups reports or makes a stream of them (`InitGrouping`, `InitStream`); the actions
`AssignBatch`, `MarkResolved`, `AssessBatch`, `ExtendWindows`, `MeasureGap` are one turn of
one loop each. A report is its creation and resolution date; one that `resolved_definition`
rejects has no date in the model, because every comparison with it comes out the same. The
branch of `get_reporter_configuration` without batching is left out.

### Runs

| run | configuration | what it asks |
|---|---|---|
| `miner` | components of one and two bugs, two users, two priorities, three changes, any call may fail | `ComponentsWholeOrAbsent`; `ReportsStayTrue`: what is exported about the first resolution and the first change of priority remains true as the history grows; `HistoryCoversListing`: although they come from two calls, listing and history together tell the priority a bug was filed with, and who resolved it if it was listed as resolved |
| `batches` | every data frame of up to four reports with dates 0 to 3 (streams: 0 to 5, days of two instants), 1 or 2 fixes per batch | `ResolvedAreFirstFixes`; `ClosedBatchesAreUsed`: the batches used are those a fix ended, except where dates are out of order or shared by two batches; `StreamAddsUp` |

Three changes are what it takes to resolve, reopen and resolve a bug again; two users make
the two resolvers differ. Four reports make two batches of two, with every order of dates
and every tie; a window of one day must be passed by two days before a new batch starts,
which dates up to 5 allow.

`batches` shows where the two loops part: if two reports share a creation date and one of
them ends a batch, the first loop counted the fix of the other batch as well, and the closed
batch may be excluded as an observation. `ClosedBatchesAreUsed` states exactly when this may
happen.

The windows disagree with the documentation: `simdata.py:456` calls `window_size` the "size
of the window that represents a batch. In DAYS", but `simdata.py:473-479` cuts the distance
to whole days before it compares by `<=`, so a window of one day lasts until just before
the second day is over. `StreamAddsUp` holds for windows as they are.

No fairness is assumed in these runs: both programs only end, and nothing waits.

### Searching

`FitnessSearch` models one generation of the search: ECJ's evaluation threads (external)
share out the population in chunks under a lock and call `Fitness.evaluate`, which runs
`fitness_script.bsh`, which runs `getequilibrium.py`. All scripts use one directory.

| variable | code |
|---|---|
| `nextOne`, `chunk` | `individualCounter`, the part of the population each thread took |
| `at` | the command the script of each thread has come to |
| `directories`, `nfg` | the directories `csv` and `nfg`; the game files in them, by number of teams |
| `results`, `worst`, `test`, `output` | the two temporary files, the variable `test` of the script's shell, the line printed |
| `fitness`, `running` | what was set; the process, which `fatal` ends |

The actions are the commands of the script (`RemoveDirectories` ... `PrintFitness`) and the
two ends of `Fitness.evaluate` (`StartScript`, `SetFitness`). A value is kept as the game
and the candidate it was computed from.

The run `fitness`, two threads and two candidates, refutes `SolvedGamesAreReported`:
`Fitness.java:40` says "The evaluation script must return a single Dpuble value", but
`fitness_script.bsh:37` sets `test=1` inside a loop that is the last command of a pipe, so in
a subshell, and line 40 always finds 0. No evaluation ever returns a value. Nothing stronger
can therefore be asked of the search, in particular not whose game a fitness comes from,
although the model has what the question needs: the directories are removed under other
threads (lines 20, 21), game files are named for the number of teams only. Two more things
seen while modelling: the script passes developers first, `getequilibrium.py:50` takes its
first argument for testers (`PlayedBy`); and lines 56, 60 and 62 compute the costs of testers
and defects from other arguments.

## 6. Gambit

### Tables and the document

`GameTable` has the operations on a strategic game as operators that take a game and return
the changed one; `GameDocument` is the state machine of the document that is edited.

| `GameTable` | code |
|---|---|
| `strategies[pl][st].offset`, `.id` | `m_offset`, `m_id`; the position in the sequence is `m_number` |
| `results`, `outcomes` | `m_results`, `m_outcomes`; of an outcome one token for its payoffs |
| `RebuildTable`, `IndexStrategies` | the same: a negative offset marks the new strategy |
| `WriteNfgFile`, `ReadNfgFile` | the file as labels, listed outcomes and the numbers in its body |

| `GameDocument` | code |
|---|---|
| `game`, `profiles` | `m_game`, `m_profiles` |
| `undoList`, `redoList` | the lists of texts; a text is what `SaveDocument` writes |
| `shown`, `reloaded`, `since` | histories that no action reads: what the table says, whether an undo or redo came last, the operations since strategies were last indexed |

| action | code |
|---|---|
| `DoNewPlayer`, `DoNewStrategy`, `DoDeleteStrategy`, `DoSetPayoff`, `DoNewOutcome` | the functions of these names, `UpdateViews` included; a payoff typed into an empty cell makes an outcome first, with a text of its own |
| `Solve`, `ChangeView` | a solver is started and its list added; a change that keeps the game |
| `Undo`, `Redo` | the lists and `LoadDocument` |

`PayoffTable` is the abstract specification: labels, and payoffs for each combination of
labels. Every edit implements one of its actions (`EditsImplementTable`).

The run `document` opens games of 2 x 2 and 1 x 2 with all payoffs different and takes up to
three changes and any undo and redo. Three strategies and three players at most: enough for
a deletion before an insertion, for a player added to a table with gaps, and for an undo
past a deletion. It shows what the code relies on, and where it stops:

* `DeleteStrategy` does not rebuild the table (`game.cc:55`, commented out). Payoffs are
  still right, since they are found through offsets, but the text written counts profiles
  and takes the first entries of the table. So undo, save and copy after a deletion may
  show another game: `ShownIsLastSaved` and `TableInOrder` state exactly when they do not.
* the strategy of a new player has no number (`m_id`, 0) until strategies are indexed again.

The run `stale_equilibria` asks of the same sessions whether the equilibria in the document
are those of the game shown (`EquilibriaOfThisGame`). `gamedoc.cc:374-377` says they are wiped
out when the game changes, and `gamedoc.cc:408-409` that the undo list stores no profiles. TLC
finds otherwise: `UpdateViews` writes the text (`gamedoc.cc:364-365`) before it wipes them out,
so the text of an edit holds the equilibria of the game before. Solve a game, edit it, make
another change and undo it: the edited game is shown with the equilibria of the game before.

### Elimination of dominated strategies

`Elimination` models the stack of supports and the search beneath it. A support is a set of
strategies per player. `set`, `min`, `dis`, `inc` are the variables of `Undominated`, an
iteration of its loops is an action:

| action | code |
|---|---|
| `NextLevel`, `GoDown`, `PreviousLevel`, `TopLevel`, `SetStrict` | the stack |
| `DropLast`, `TryLast` | the last of those left is beaten by an accepted strategy, or becomes the candidate |
| `Eliminate`, `Supersede`, `PutAside` | the candidate beats another, is beaten, or neither |
| `AcceptCandidate`, `StartRemoving`, `Remove`, `NextPlayer`, `PushLevel` | the candidate has survived; the support is reduced; the level is added |

The search starts with the strategies in any order (`InOrder`), although the code's lists
are sorted: the order should not matter. The run `elimination` takes every game of 3 x 2
with payoffs 0 and 1: three strategies are the fewest with chains of dominance and all three
branches in one search, two payoffs tell weak from strict dominance. `LevelsAreUndominated`
compares each level with the definition, `NashSurvives` is for strict, `NoFalseNash` for both
kinds: an equilibrium of the reduced game is one of the game.

**Fairness.** `WF_vars(Search)`: `Undominated` runs to its end within one command; nothing
makes the user ask for a level.

### Trees

`GameTree` models the edits of an extensive game. A game is one record of functions on
node and information set numbers, which stand for the objects; `number` is the number the
program gives a node. Every edit ends with `Canonicalize` where the code's does. `DoAppendNewMove`
and `DoDeleteAction` come from the Python module, the other actions from the document.

| property | what it says |
|---|---|
| `TreeWellFormed` | parents, children, members, lists of information sets, actions and probabilities agree |
| `BranchesKeepTheirActions` | where an edit leaves a node in its place, its branch still means the same action, and chance actions keep their probabilities |
| `RecallJudged` | `IsPerfectRecall` accepts every game of perfect recall; in a game it accepts no information set precedes itself, and no player forgets which action he took |
| `StrategiesReduced` | the walk generates each reduced strategy once and no other |
| `RevealsOnlyTheMove` | revealing a move tells a player nothing but the move, and joins nothing he told apart; if the move lies before one of his information sets only, its actions are told apart there |

The run `tree` starts from an empty tree and two trees with an information set whose members
have different pasts (`MCGameTree`) and makes any two edits. Two are enough to copy or move a
subtree whose actions then change, and to disorder the lists before they are walked; the
saved trees give what would take four or five. `torn` marks a game an exception has left
halfway; a session may also end at `MaxEdits`, so deadlock is not checked. No fairness: nothing
has to happen to a tree.

Where the code does less than one might expect:

* `DeleteAction` removes the action, then the branches member by member; if a member lies
  below another, the deleted subtree takes it along and the loop goes past the list
  (`gametree.cc:61`). Only then may `torn` become true (`BranchesKeepTheirActions`).
* `RemoveAction` has moved `which` to the end when it removes a probability
  (`gametree.cc:163-167`), so the last probability goes, not that of the action.
* `IsPerfectRecall` notices that a player forgot *whether* he moved only if a member that has
  the move behind it comes before one that has not in the list (`gametree.cc:653-663`).
  `game.h:716-719` promises that it returns true for games of perfect recall and otherwise
  finds a pair of violating sets; it does not. `RecallJudged` claims nothing of this case: no
  run covers it.
* both bubble sorts of `Canonicalize` stop one element short (`gametree.cc:698`, `712`): the
  last member and the last information set stay last, so the order the previous point
  depends on is not that of the tree.
* `Reveal` goes through the player's list of information sets by position, while each set it
  splits reorders the list (`gametree.cc:194-205`). A set that slips forward is skipped and
  stays together, although the comment says that the new set "holds all members of information
  set which follow 'action'" (`gametree.cc:198-199`). It happens in the saved tree `Unknown`:
  reveal player 1's move to player 2, and his set {4, 5} is split and moved behind {6, 3},
  which is skipped: 6 follows player 1's first action, 3 follows none. No
  run covers skipped sets: `RevealsOnlyTheMove` says that a move is known afterwards only
  where one set lies after it.

## 7. Proofs

TLC checks the properties above on small instances; TLAPS proves most of them for every
value of the constants that satisfies the `ASSUME`s of the modules. Nothing else is assumed.

### The reporting process

`ConfigAssumption` and `DurationAssumption`: finite reporters, teams of at least one (the
code takes `max(1, ...)` for a generated size), natural durations, percentages for chances.

* `TypeCorrect`: `Spec => []TypeOK`. `TypeOK` is inductive by itself.
* `InvariantHolds`: `Spec => []IInv`, and from it `PlacementHolds`, `UnitsAreConserved`,
  `NoUnitIsIdle`, `QueueStaysOrdered`.

`UnitsConserved` and `NoIdleUnit` are not inductive alone: a release hands the unit to the
head of the queue, and the count of holders is right only if the head is a report that
really waits. `Placement` says so: the queues and `ready` hold exactly the reports at the
matching stages, each once. The argument is organised around the resource, not the
variables: `Sound(res, capacity, holders, waiting)` collects what relates a resource to the
reports, `RequestKeepsSound` and `ReleaseKeepsSound` (in `BugReportingProofs`) show that SimPy's
two operations keep it for *any* resource, and each action of `BugReporting` is shown to
change the sets of holders and of waiting reports as the operation says (`StageMoves`,
`HandOverMoves`). `EnterKeepsOrder` is the fact about the priority queue: entering behind
the longest prefix of equal or higher priority keeps the queue sorted; `QueueStaysOrdered`
adds that no other report's step changes the priority of one that waits.

`BugReportingProperties` derives every safety property and action property that the three
runs check, and the refinement. Each needs a little more than `IInv`:

| theorem | property | what is added to `IInv` |
|---|---|---|
| `PrioritiesAreTriaged` | `TriagedPriority` | nothing: inductive with the stages |
| `FateOfTheIgnored` | `IgnoredFate` | `Views`: how often a report at each stage can have been ignored |
| `ResolutionTakesTime` | `ResolutionTakesItsTime` | `Clock`: when a report at each stage is due, relative to `now`; `Worked`: the time since arrival covers the review and the fix as far as they are done |
| `StopsPromptly` | `PromptStop` | `FixesCounted`: the monitors' sum is the number of fixed reports; nothing is fixed in the past of the last check |
| `PenaltiesMatch` | `PenaltyMatchesOffences` | `Strategic`: a report says what the strategy of its reporter may say, so that who never deflates is false by inflation only, and what was noticed is fixed; then one more noticed inflation is one more penalty, also where the cap hides it |
| `HoursAreKept` | `DeveloperHours` | the fixes at an instant of the past do not change any more; those of the present hold a unit each, and units are conserved |
| `MonitorsAgree` | `LedgersAgree` | `Ledgers`: every counter is the cardinality of a set of reports, and moves when its set does |
| `ReviewsAreFirstCome` | `FirstComeFirstReviewed` | `InFilingOrder`: reports reach the gatekeepers in the order of their numbers |
| `SimpleServesSeverest`, `LatestHourIsServed` | `SeverestFirst`, `LatestHourFirst` | `NoDetours`, `FixesInOrder`: of the reports of one priority that were never ignored, the older one stands in front |
| `ReportingImplementsLifecycle` | `ImplementsLifecycle` | `ReleasedIsNext`: who has released its developer updates its monitors before anybody starts a fix, so that there are never more reports in progress than developers |

The last two orders are stated for the processes that have them (`Process = "simple"`,
`Process \in {"vanilla", "throttling"}`); all other theorems hold of all four.

### The launcher and the game

For every pool, number of blocks and number of replications that satisfies
`PoolAssumption` (`PayoffGameProofs`):

* `PoolTypeCorrect`, `BlocksHaveOnePlace`: a block is waiting, with one process or back. The
  strengthening is `CollectedAfterMap`: outputs are collected only when all blocks are back,
  hence when no process works (`NobodyWorksAfterMap`).
* `RunInvHolds`, and from it `ListsStayInStep` and `RunsAreIndependent`. That streams differ
  is inductive only with `SeedsHandedOut` (no run has a seed still to be handed out), and the
  results need `ResultsFromBlocks` and `BlocksInResults`: they are exactly the runs of the
  blocks collected so far.
* `NoRunIsLost`: an answered launch has as many entries in each list as its blocks were asked
  for together. `FullInv` adds that the blocks ask for the same number and that a block that
  is back is full. (It is the product with the integer quotient: `replications_lost` shows
  that this need not be what was configured.)
* `LaunchIsAnExperiment`: `PoolSpec => ImplementsExperiment`. A launch maps to `Ask`, a turn
  of a worker's loop to `Run`, the last collected block to `Answer`, the return to
  `TakeAnswer`; everything else is a stutter.

For every number of teams and players and every catalogue of strategies that satisfies
`GameAssumption` (`PayoffGameProofs`):

* The game uses the pool only as `PoolSpec` allows (`PoolIsUsedProperly`), so
  `GameListsStayInStep`, `GameRunsAreIndependent` and `GameLaunchesExperiments` carry the
  results about one launch over to all launches of a game.
* `EquilibriaAreRead`: `Spec => []EquilibriumRead`. `ReadIndices[k]` is quotient and
  remainder of `k - 1`; `ReadAsMeant` and `AllRead` say that counting strategies and teams
  visits all pairs in the solver's order.
* `PayoffsAreOfTheirProfile`, `PayoffsAreComparable`, `MixturesAreSimulatedOnce`:
  `Spec => []...` for `PayoffsOfTheirProfile`, `ComparablePayoffs`,
  `NoMixtureSimulatedTwice`. Two arguments meet here. **The order:** `SameOrder` shows that
  the k-th profile of `get_strategy_map` is the k-th of Gambit's iterator: the reversed
  products and the iterator both move like the digits of a number, the first team fastest
  (`InOrder`, `MovesOn`, `RanksFacts`). **The runs:** `GameInv` follows a dataframe from the
  launch to the payoff. `LaunchedFor`: what is being simulated is the profile (and the team)
  the game is at. `FramesSoFar`: each dataframe of the profile comes from runs of a
  configuration in which one agent plays the team's strategy among players of its
  opponent's. `HistorySoFar`: so does each earlier one, for some team and some strategies.
  `PayoffsSoFar`: the payoffs have one row per run, that of the agent. The step that could
  go wrong is `RecycleTwins`, where a frame of other teams and of another agent is relabelled:
  `RelabelledIsTwins` shows that equal counts of strategies in the first run are enough to
  make it a frame of the present profile, possibly with another player as the agent.
  Nothing about the values of the constants is used but that there are two teams and one
  player at least and that the catalogue names no strategy twice.

### Elimination

For every number of players and strategies and all integer payoffs that satisfy
`EliminationAssumption` (`EliminationProofs`):

* `LevelsCorrect`: `Spec => []LevelsAreUndominated`, and `EquilibriaSurvive`:
  `Spec => []NashSurvives`, from `Invariance`. The search is inductive with three facts about
  the array: the accepted strategies, its first `min`, do not beat each other (`Accepted`);
  none of those left beats one that was accepted, so accepting is final (`Harmless`); and each
  one put away behind `dis` is beaten by one that is not (`Beaten`). The last holds although
  the beater may itself be put away later, because dominance is an order
  (`DominanceIsOrder`): whoever beats the beater beats what it has beaten. That what remains
  is what is undominated, in whatever order the array began, is `AcceptedAreMaximal`.
* `NashIsUndominated`: against the strategies of an equilibrium, a strategy that strictly
  dominates one of them would be a better answer; hence no level loses an equilibrium.
* `EliminationMakesNoNash`: `Spec => []NoFalseNash`, for weak dominance too. Whoever could
  gain by an eliminated strategy could gain as much by one that beats it, and supports are
  finite: some strategy that is left does as well, level by level up to the whole game.

### The miner

For every catalogue, every set of users and any number of changes (`BugMinerProofs`), from
`Invariance`, whose `IInv` has `TypeOK` and, besides the bookkeeping of the loops,

* `HistoryBeginsAtFiled`: the first change of a priority names the priority the bug was filed
  with as the one removed;
* `Response`: each bug listed and not yet read shows the priority it was filed with unless
  its history, which is read later, has a change of it, and a resolution only if the history
  has one (`ListedFits`); each one read is true of its history and agrees with the filing
  (`ReadFits`);
* `Collected`, `NothingWritten`: what was collected was read, and nothing is written before
  the last component.

`ExportIsWhole`, `FirstChangesStayFirst` and `TwoCallsFit` are `Spec => []...` for
`ComponentsWholeOrAbsent`, `ReportsStayTrue` and `HistoryCoversListing`.

### Batches and streams

For every data frame in the order of creation (the only thing assumed of dates), every
target, every group of reporters and every length of a day (`BatchAssignmentProofs`), from
`Invariance`:

* `MarksAreFirstFixes`: `Spec => []ResolvedAreFirstFixes`. The loop marks by one counter that
  it resets when the batch changes; `MarkingInv` says what it has counted:
  the fixes before the row in the row's batch, capped at the target. It is right because
  batches are runs of rows (`BatchesInv`), so that a batch never comes back.
* `ObservationsAreClosed`: `Spec => []ClosedBatchesAreUsed`. The two loops count fixes
  differently, the first among all reports between two dates, the second among the rows of a
  batch. `StartsInv` and `ClosingInv` relate them: a batch starts with its first row, and at
  its last row, and at no other, the first loop had counted enough. What is marked in the
  open batch are fixes the first loop counted; the fixes that closed a batch are rows of it
  and were made meanwhile if no date is shared and none is out of order. That a batch's rows
  suffice for the target says then that the target is marked (`MarkedUpToTarget`, from
  `FirstsAreCapped`).
* `StreamsAddUp`: `Spec => []StreamAddsUp`. `StreamOf` describes the windows of the rows seen so
  far; `StreamGrows` and `StreamOpens` show that one row more leaves a stream, the second
  because dates in order cannot come back to a window that is over. `StreamAddsUp` sums with
  `FoldSeq`, whose definition takes places in an order of its own; `TotalOfOneMore` and
  `TotalCountSplits` show that the order does not matter.

### Tables and the document

For every set of games opened, every bound on players, strategies and lists and every set of
payoffs that satisfy `DocumentAssumption` (`GameDocumentProofs`). The assumption says that
the games opened keep to the bound on strategies and have a player; the models take one
label more than the bound, which is what `DoNewStrategy` needs to find a free one.

* `IteratedCounts`: Gambit's iterator visits each profile of players with any numbers of
  strategies once, the k-th in rank k. The prover has no induction, so the recursive functions
  `Total`, `Product` and `Iterated` are first shown to satisfy their equations
  (`TotalComputed`, `ProductComputed`); then a least counterexample, which a set of numbers
  has (`NumberLemmas`), takes the place of induction.
* `ReadsBack`: a table whose strategies are placed densely is read back from its file as the
  game shown. It needs `DenselyPlaced`: otherwise the text counts entries that no profile has.
* `DocumentInvariance`: `Spec => []DocumentInv`. Its parts:
  * `Sound(game)`: different profiles have different entries in the table, and no two entries
    share an outcome. The second is what makes `SetPayoff` change one cell.
  * `Kept`: every text of the undo and redo lists can be read, and one written from a
    dense table gives back what was shown.
  * `Explained`, `UndoExplained`, `RedoExplained`: a list of equilibria of another game is in
    the text of an edit in the undo list, or for a redo text among it and those behind it, or
    one of these texts does not give back its game. This is what `Undo` and `Redo` hand back
    and forth; the property alone says nothing of the texts they will load.
  * `TableInv`: without a deletion the table is dense, and without a new player the numbers
    of strategies count on from player to player.
* `UndoShowsWhatWasSaved`, `FilesOfTablesInOrder`: `Spec => []...` for `ShownIsLastSaved`,
  `TableInOrder`.
* `StaleEquilibriaComeFromTexts`: `Explained` of the document shown. It is no excuse for what
  the run `stale_equilibria` finds: it says that the text written too early, besides tables
  that lose their game, is the only way there.
* `EditsAreThoseOfATable`: `Spec => EditsImplementTable`. Each edit has a lemma about the
  game it returns: a new player leaves all offsets (`NewPlayerFacts`), a deletion leaves those
  of the other strategies (`DeletedFacts`), a new strategy rebuilds the table, which moves
  the entry of each profile, whatever gaps there were, to the place the new numbers give it
  (`RebuiltIs`, `NewStrategyFacts`), an outcome made in an empty cell is of no other
  (`NewOutcomeFacts`). `SameCells` and `PayoffsFrom` turn entries into what a reader of the
  table sees.

Before the proof TLC evaluated the parts of `DocumentInv` in all 32585 states of the run
`document`.

### What stays with TLC

* Liveness: `EventuallyStops`, `GameCompletes`, `SearchEnds`.
* `GameTree`: copying and deleting subtrees, reading a tree back and reducing strategies
  are recursive operators, and the prover loses its SMT solver in a module that has one.

## 8. Not modelled

* Statistics: fitting, clustering, validation, plots (`simdriver.py`, `simvalid.py`,
  `analytics.py`), the empirical distributions of `simutils.py`, the filters of
  `simdata.py`. They compute numbers; nothing about them is a state.
* `penaltyexp.py`, `defaultabuse.py`: loops over the payoff pipeline that write CSV files.
* Gambit: the equilibrium solvers (`tools/`: lrslib, polyhedra, homotopies in floating
  point), `python/gambit/lib/libgambit.cpp` (generated by Cython), the labenski library and
  the windows of `gui/`. By size they are nearly all of the vendored code. Of the modelled
  parts: outcomes, labels and new players of trees, `.efg` files, subgames, `IsConstSum`,
  mixed profiles, behaviour supports.
* ECJ, apart from how evaluations are handed to threads.
