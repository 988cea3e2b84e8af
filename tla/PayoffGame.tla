----------------------------- MODULE PayoffGame -----------------------------
(***************************************************************************)
(* The payoffs of the bug reporting game, payoffgetter.run_simulation with *)
(* simtwins, simcruncher and gtutils: every strategy profile is simulated  *)
(* by a launch of Replications, the payoff of a team is averaged over the  *)
(* runs, the table of payoffs goes to Gambit by position and so do its     *)
(* equilibria come back.                                                   *)
(*                                                                         *)
(* The players' dictionaries are shared by all profiles: each profile      *)
(* overwrites their 'team' and 'strategy'.  With the twins reduction a     *)
(* team's payoff is that of one agent who plays the team's strategy among  *)
(* players who all play its opponent's, and a result of an earlier profile *)
(* is recycled, its teams relabelled, when as many played each strategy.   *)
(*                                                                         *)
(* A number computed from runs is kept as the set of rows it is computed   *)
(* from; a row knows the run behind each of its metrics.                   *)
(***************************************************************************)
EXTENDS Replications

CONSTANTS
  None,             \* a dictionary key that is not set
  StrategyCatalog,  \* the strategies, in the order of the catalogue
  NumberOfTeams,    \* NUMBER_OF_TEAMS
  PlayerCounts      \* how many reporters the data may yield as players

AGGREGATE_AGENT_TEAM == -1
Teams == 0..(NumberOfTeams - 1)
Strategies == Range(StrategyCatalog)

ASSUME GameAssumption ==
  /\ None \notin Int \cup Strategies
  /\ StrategyCatalog \in Seq(Strategies) \ {<< >>} /\ IsInjective(StrategyCatalog)
  /\ NumberOfTeams \in Nat \ {0, 1}
  /\ PlayerCounts \subseteq Nat \ {0}
  /\ ReporterConfigs = UNION {[1..n -> Strategies] : n \in PlayerCounts}

VARIABLES
  game_configuration,   \* twins reduction, parallel execution, replications
  player_configuration, \* the players' team and strategy
  step,                 \* where run_simulation is
  index,                \* the profile under way
  team,                 \* with twins, the team under way
  simulation_history,   \* the dataframes simulated so far
  overall_dataframes,   \* the dataframes of the profile under way
  profile_payoffs,      \* per profile and team, the rows averaged
  equilibrium           \* what is read from the solver's answer

gameVars == <<game_configuration, player_configuration, step, index, team,
              simulation_history, overall_dataframes, profile_payoffs, equilibrium>>
vars == <<poolVars, gameVars>>

Players == DOMAIN player_configuration
Twins == game_configuration.twins

-----------------------------------------------------------------------------
(* itertools.product(strategy_list, repeat=n): the last position varies    *)
(* fastest.                                                                *)
Product[n \in 0..NumberOfTeams] ==
  LET size == Len(StrategyCatalog)
      shorter == Product[n - 1]
  IN  IF n = 0 THEN << << >> >>
      ELSE [k \in 1..(Len(shorter) * size) |->
             Append(shorter[(k - 1) \div size + 1],
                    StrategyCatalog[((k - 1) % size) + 1])]

(* Mutant: the profiles are taken as product yields them.                  *)
ProfilesAsProduced ==
  [k \in DOMAIN Product[NumberOfTeams] |->
     [t \in Teams |-> Product[NumberOfTeams][k][t + 1]]]

(* get_strategy_map: each profile reversed, so that team 0 varies fastest. *)
StrategyMaps ==
  [k \in DOMAIN Product[NumberOfTeams] |->
     [t \in Teams |-> Product[NumberOfTeams][k][NumberOfTeams - t]]]

(* assign_teams: every player is a team of its own.                        *)
OwnTeams == [p \in Players |-> [player_configuration[p] EXCEPT !.team = p - 1]]

(* configure_strategies_per_team                                           *)
ProfileConfiguration(profile) ==
  [p \in Players |-> [player_configuration[p] EXCEPT
                        !.strategy = profile[player_configuration[p].team]]]

(* Mutant: the aggregate plays the agent's own strategy.                   *)
OwnStrategy(t, profile) == profile[t]

(* get_twins_strategy_map: the strategy of the other team, the last one of *)
(* them if there are several.                                              *)
OpponentStrategy(t, profile) ==
  profile[IF t = NumberOfTeams - 1 THEN t - 1 ELSE NumberOfTeams - 1]

(* aggregate_players and the strategies of the twins' profile: the first   *)
(* player is the agent, all others form the aggregate.                     *)
TwinsConfiguration(t, profile) ==
  [p \in Players |->
     IF p = 1 THEN [team |-> t, strategy |-> profile[t]]
     ELSE [team |-> AGGREGATE_AGENT_TEAM, strategy |-> OpponentStrategy(t, profile)]]

Played(config) == [p \in DOMAIN config |-> config[p].strategy]

(* consolidate_payoff_results: one row per run and player.                 *)
PayoffMetrics == {"completed_per_reporter", "bugs_per_reporter",
                  "reports_per_reporter", "resolved_per_reporter"}
Runs == DOMAIN results["completed_per_reporter"]
ConsolidatePayoffResults ==
  {[run |-> n, reporter_name |-> p,
    reporter_team |-> player_configuration[p].team,
    reporter_strategy |-> player_configuration[p].strategy,
    outcome |-> [m \in PayoffMetrics |-> results[m][n]]] : n \in Runs, p \in Players}

-----------------------------------------------------------------------------
(* check_simulation_history                                                *)
Playing(config, s) == {p \in DOMAIN config : config[p].strategy = s}
PlayingInFirstRun(frame, s) ==
  {row \in frame : row.run = 1 /\ row.reporter_strategy = s}

(* Mutant: a frame is recycled if the same strategies occur in it.         *)
SameStrategies(frame, config) ==
  \A p \in DOMAIN config : PlayingInFirstRun(frame, config[p].strategy) # {}

(* As many players play each strategy of config in the frame.              *)
SameCounts(frame, config) ==
  \A p \in DOMAIN config :
    LET s == config[p].strategy
    IN  Cardinality(PlayingInFirstRun(frame, s)) = Cardinality(Playing(config, s))

(* Mutant: only the latest result is looked at.                            *)
RecyclableLast(config) ==
  {h \in DOMAIN simulation_history :
     h = Len(simulation_history) /\ SameCounts(simulation_history[h], config)}

Recyclable(config) ==
  {h \in DOMAIN simulation_history : SameCounts(simulation_history[h], config)}

(* Mutant: the rows keep the teams of the profile they were simulated for. *)
NotRelabelled(frame, config) == frame

(* Mutant: everybody becomes the agent.                                    *)
AllRelabelled(frame, config) ==
  {[row EXCEPT !.reporter_team = config[1].team] : row \in frame}

(* The teams are relabelled: if all play the same strategy the agent stays *)
(* the agent, else the rows of a strategy go to the team that plays it.    *)
Relabelled(frame, config) ==
  LET agents == {config[p].team : p \in DOMAIN config} \ {AGGREGATE_AGENT_TEAM}
      TeamOf(s) == CHOOSE t \in {config[p].team : p \in Playing(config, s)} : TRUE
      oneStrategy == Cardinality({config[p].strategy : p \in DOMAIN config}) = 1
      NewTeam(row) ==
        IF ~oneStrategy THEN TeamOf(row.reporter_strategy)
        ELSE IF row.reporter_team = AGGREGATE_AGENT_TEAM THEN AGGREGATE_AGENT_TEAM
        ELSE CHOOSE t \in agents : TRUE
  IN  {[row EXCEPT !.reporter_team = NewTeam(row)] : row \in frame}

(* The first dataframe that fits, relabelled.                              *)
Recycled(config) ==
  LET first == CHOOSE h \in Recyclable(config) : \A g \in Recyclable(config) : h <= g
  IN  Relabelled(simulation_history[first], config)

-----------------------------------------------------------------------------
(* get_team_metrics: the rows of a team in a run are those of the last     *)
(* dataframe in which the team has any.                                    *)
RowsIn(d, n, t) ==
  {row \in overall_dataframes[d] : row.run = n /\ row.reporter_team = t}
FramesOf(n, t) == {d \in DOMAIN overall_dataframes : RowsIn(d, n, t) # {}}
RunsOfProfile == {row.run : row \in overall_dataframes[1]}

FrameOf(n, t) == CHOOSE d \in FramesOf(n, t) : \A e \in FramesOf(n, t) : e <= d
TeamMetrics ==
  [t \in Teams |-> UNION {RowsIn(FrameOf(n, t), n, t) : n \in RunsOfProfile}]

(* What raises an exception that nobody catches: a player without a team,  *)
(* an empty dataframe (it has no column 'run'), lists of different         *)
(* lengths, a team without rows.                                           *)
Raises ==
  CASE step = "profile" ->
         IF Twins THEN \E h \in DOMAIN simulation_history : simulation_history[h] = {}
                  ELSE \E p \in Players : player_configuration[p].team \notin Teams
    [] step = "simulating" ->
         AllCollected /\ Len(results["completed_per_reporter"]) #
                         Len(results["bugs_per_reporter"])
    [] step = "metrics" ->
         RunsOfProfile = {} \/ \E n \in RunsOfProfile, t \in Teams : FramesOf(n, t) = {}
    [] OTHER -> FALSE

-----------------------------------------------------------------------------
Init ==
  /\ PoolInit
  /\ game_configuration \in [twins : BOOLEAN, parallel : BOOLEAN, replications : MaxIterations]
  /\ \E n \in PlayerCounts :
       player_configuration = [p \in 1..n |-> [team |-> None, strategy |-> None]]
  /\ step = "assign" /\ index = 1 /\ team = 0
  /\ simulation_history = << >> /\ overall_dataframes = << >>
  /\ profile_payoffs = << >> /\ equilibrium = {}

(* Teams are assigned once, if no player reduction is needed.              *)
AssignTeams ==
  /\ step = "assign"
  /\ step' = "profile"
  /\ player_configuration' =
       IF ~Twins /\ NumberOfTeams = Cardinality(Players) THEN OwnTeams
       ELSE player_configuration
  /\ UNCHANGED <<poolVars, game_configuration, index, team, simulation_history,
                 overall_dataframes, profile_payoffs, equilibrium>>

Simulate(config) ==
  /\ player_configuration' = config
  /\ Launch(Played(config), game_configuration.replications, game_configuration.parallel)
  /\ step' = "simulating"
  /\ UNCHANGED <<game_configuration, index, team, simulation_history,
                 overall_dataframes, profile_payoffs, equilibrium>>

SimulateProfile ==
  /\ step = "profile" /\ ~Twins /\ ~Raises
  /\ Simulate(ProfileConfiguration(StrategyMaps[index]))

SimulateTwins ==
  LET config == TwinsConfiguration(team, StrategyMaps[index])
  IN  /\ step = "profile" /\ Twins /\ ~Raises
      /\ Recyclable(config) = {}
      /\ Simulate(config)

(* A dataframe is there: with twins, on to the next team.                  *)
NextTeam ==
  IF Twins /\ team < NumberOfTeams - 1
  THEN step' = "profile" /\ team' = team + 1
  ELSE step' = "metrics" /\ team' = 0

RecycleTwins ==
  LET config == TwinsConfiguration(team, StrategyMaps[index])
  IN  /\ step = "profile" /\ Twins /\ ~Raises
      /\ Recyclable(config) # {}
      /\ player_configuration' = config
      /\ overall_dataframes' = Append(overall_dataframes, Recycled(config))
      /\ NextTeam
      /\ UNCHANGED <<poolVars, game_configuration, index, simulation_history,
                     profile_payoffs, equilibrium>>

(* The launch returns and its lists become a dataframe.                    *)
ConsolidateSimulation ==
  /\ step = "simulating" /\ ~Raises
  /\ Return
  /\ simulation_history' = Append(simulation_history, ConsolidatePayoffResults)
  /\ overall_dataframes' = Append(overall_dataframes, ConsolidatePayoffResults)
  /\ NextTeam
  /\ UNCHANGED <<game_configuration, player_configuration, index, profile_payoffs,
                 equilibrium>>

GetTeamMetrics ==
  /\ step = "metrics" /\ ~Raises
  /\ profile_payoffs' = Append(profile_payoffs, TeamMetrics)
  /\ overall_dataframes' = << >>
  /\ index' = index + 1
  /\ step' = IF index < Len(StrategyMaps) THEN "profile" ELSE "game"
  /\ UNCHANGED <<poolVars, game_configuration, player_configuration, team,
                 simulation_history, equilibrium>>

(* calculate_equilibrium: the solver answers with a line of probabilities; *)
(* number k is here the pair of team and strategy it is meant for.  The    *)
(* reader counts strategies and, when they are used up, teams.             *)
SolverLine ==
  [k \in 1..(NumberOfTeams * Len(StrategyCatalog)) |->
     <<(k - 1) \div Len(StrategyCatalog),
       StrategyCatalog[((k - 1) % Len(StrategyCatalog)) + 1]>>]

(* Mutant: the next team begins one strategy too early.                    *)
NextIndicesEarly(at) ==
  IF at.strategy < Len(StrategyCatalog) - 1 THEN [at EXCEPT !.strategy = @ + 1]
  ELSE [team |-> at.team + 1, strategy |-> 1]

NextIndices(at) ==
  IF at.strategy < Len(StrategyCatalog) THEN [at EXCEPT !.strategy = @ + 1]
  ELSE [team |-> at.team + 1, strategy |-> 1]

ReadIndices[k \in 1..Len(SolverLine)] ==
  IF k = 1 THEN [team |-> 0, strategy |-> 1] ELSE NextIndices(ReadIndices[k - 1])

CalculateEquilibrium ==
  /\ step = "game"
  /\ step' = "done"
  /\ equilibrium' = {[team |-> ReadIndices[k].team,
                      strategy |-> StrategyCatalog[ReadIndices[k].strategy],
                      probability |-> SolverLine[k]] : k \in DOMAIN SolverLine}
  /\ UNCHANGED <<poolVars, game_configuration, player_configuration, index, team,
                 simulation_history, overall_dataframes, profile_payoffs>>

Crash ==
  /\ Raises
  /\ step' = "crashed"
  /\ UNCHANGED <<poolVars, game_configuration, player_configuration, index, team,
                 simulation_history, overall_dataframes, profile_payoffs, equilibrium>>

Finished == step \in {"done", "crashed"} /\ UNCHANGED vars

RunSimulation ==
  \/ AssignTeams \/ SimulateProfile \/ SimulateTwins \/ RecycleTwins
  \/ Collect /\ UNCHANGED gameVars
  \/ ConsolidateSimulation \/ GetTeamMetrics \/ CalculateEquilibrium \/ Crash

Next ==
  \/ RunSimulation
  \/ \E p \in Processes : PoolStep(p) /\ UNCHANGED gameVars
  \/ Finished

Spec == Init /\ [][Next]_vars

(* The operating system runs every process, and main when map returns.     *)
FairSpec ==
  /\ Spec
  /\ WF_vars(RunSimulation)
  /\ \A p \in Processes : WF_vars(PoolStep(p) /\ UNCHANGED gameVars)
-----------------------------------------------------------------------------
Rows == [run : Nat \ {0}, reporter_name : Players,
         reporter_team : Teams \cup {AGGREGATE_AGENT_TEAM},
         reporter_strategy : Strategies, outcome : [PayoffMetrics -> Replication]]

(* Gambit reads payoffs by position (ParsePayoffBody): payoff k belongs to *)
(* the k-th profile of its iterator, the first player moving on first.     *)
StratItr == INSTANCE StrategyProfiles

GambitProfile(k) ==
  LET profile == StratItr!Iterated([t \in 1..NumberOfTeams |-> Len(StrategyCatalog)])[k]
  IN  [t \in Teams |-> StrategyCatalog[profile[t + 1]]]

(* Payoff k is that of Gambit's profile k, for every team: it is computed  *)
(* from runs in which the players of the team really played its strategy   *)
(* and all others that of their own team or, with the twins reduction, of  *)
(* the team's opponent.  That must hold for recycled results, too, and     *)
(* whichever team the shared dictionaries named when they were simulated.  *)
PayoffsOfTheirProfile ==
  \A k \in DOMAIN profile_payoffs : \A t \in Teams :
    \A row \in profile_payoffs[k][t], m \in PayoffMetrics :
      LET played == row.outcome[m].played
          others == Players \ {row.reporter_name}
      IN  /\ played[row.reporter_name] = GambitProfile(k)[t]
          /\ IF Twins
             THEN \E u \in Teams \ {t} : \A q \in others : played[q] = GambitProfile(k)[u]
             ELSE \A q \in others : played[q] = GambitProfile(k)[q - 1]

(* The payoffs of a game are comparable: each averages over the same       *)
(* number of runs, at least one, one row per run, no run twice.            *)
ComparablePayoffs ==
  \A k, l \in DOMAIN profile_payoffs : \A t, u \in Teams :
    LET rows == profile_payoffs[k][t]
    IN  /\ rows # {}
        /\ Cardinality(rows) = Cardinality({row.run : row \in rows})
        /\ Cardinality(rows) = Cardinality({row.outcome : row \in rows})
        /\ Cardinality(rows) = Cardinality(profile_payoffs[l][u])

(* Recycling does what it is for: with the twins reduction no mixture of   *)
(* strategies is simulated a second time.                                  *)
NoMixtureSimulatedTwice ==
  Twins => \A g, h \in DOMAIN simulation_history :
    g # h => \E s \in Strategies : Cardinality(PlayingInFirstRun(simulation_history[g], s))
                                 # Cardinality(PlayingInFirstRun(simulation_history[h], s))

(* Each probability of the solver's line is read as that of the team and   *)
(* the strategy it is meant for, and none is lost.                         *)
EquilibriumRead ==
  step = "done" =>
    /\ \A e \in equilibrium : e.probability = <<e.team, e.strategy>>
    /\ {e.probability : e \in equilibrium} = Teams \X Strategies

(* Every replication asked for is run: README.md:16 calls                  *)
(* replications_per_profile "the number of replications to execute per     *)
(* strategy profile".                                                      *)
AllReplicationsRun ==
  AllCollected => Len(results["completed_per_reporter"]) = game_configuration.replications

(* A game ends with its equilibria, unless no replication was run at all   *)
(* or the players could not be assigned to teams.                          *)
GameCompletes ==
  <>(\/ step = "done"
     \/ /\ step = "crashed"
        /\ \/ ~Twins /\ Cardinality(Players) # NumberOfTeams
           \/ game_configuration.replications = 0
           \/ game_configuration.parallel /\ game_configuration.replications < ParallelBlocks)
=============================================================================
