---------------------------- MODULE MCSimulation ----------------------------
(* The instance of Simulation that TLC checks. *)
EXTENDS Simulation

\* Three draws of the random scenarios.
SomeDraws ==
  {<<<<10, 95, 40, 70, 5, 85, 60, 30>>, <<80, 15, 90, 35, 60, 0, 50, 100>>>>,
   <<<<0, 100, 0, 100, 0, 100, 0, 100>>, <<100, 100, 0, 0, 100, 0, 100, 0>>>>,
   <<<<55, 45, 50, 65, 35, 50, 75, 25>>, <<20, 60, 45, 50, 90, 70, 10, 5>>>>}

\* The pipeline's prices: all alike, rising with the node, one that is zero, and
\* more than 1 for the second asset.
SomeTables ==
  {<<[n \in 1 .. 8 |-> 50], [n \in 1 .. 8 |-> 50]>>,
   <<[n \in 1 .. 8 |-> 10 * n], [n \in 1 .. 8 |-> 90 - 10 * n]>>,
   <<[n \in 1 .. 8 |-> IF n = 1 THEN 0 ELSE 60], [n \in 1 .. 8 |-> 130]>>}

\* All results rounded one way, exact, or some of them either way.
SomeRoundings ==
  {[n \in 1 .. 8 |-> -1], [n \in 1 .. 8 |-> 0], [n \in 1 .. 8 |-> 1],
   [n \in 1 .. 8 |-> (n % 3) - 1]}

\* The defaults of DefaultMarketConfig and DefaultMultiMarketConfig.
Default ==
  [program |-> "single", scenario |-> Split, topology |-> "full",
   demand |-> FALSE, cycle |-> FALSE, substitution |-> FALSE, pipeline |-> FALSE,
   alpha |-> 20, maxQty |-> One, spread |-> 1, minProfit |-> 5,
   tradesPerStep |-> 0, tau |-> 50, includeSelf |-> TRUE]

Topologies == {"full", "chain", "clustered"}

SingleConfigs ==
  {[Default EXCEPT !.scenario = sc, !.topology = top, !.demand = d, !.cycle = d /\ c,
                   !.tradesPerStep = k] :
     sc \in SingleScenarios, top \in Topologies, d, c \in BOOLEAN, k \in {0, 2}}
MultiConfigs ==
  {[Default EXCEPT !.program = "multi", !.scenario = sc, !.topology = top, !.demand = TRUE,
                   !.cycle = c, !.substitution = sub, !.tradesPerStep = k] :
     sc \in MultiScenarios, top \in Topologies, c, sub \in BOOLEAN, k \in {0, 3}}
PipelineConfigs ==
  {[Default EXCEPT !.scenario = sc, !.demand = TRUE, !.cycle = TRUE, !.pipeline = TRUE] :
     sc \in {CycleBasic, CycleFragmented}}
  \cup
  {[Default EXCEPT !.program = "multi", !.scenario = sc, !.demand = d, !.cycle = TRUE,
                   !.substitution = sub, !.pipeline = TRUE] :
     sc \in {MultiBasic}, d, sub \in BOOLEAN}
\* Global acceptance knows no topology.
DynamicsConfigs ==
  {[Default EXCEPT !.program = "dynamics", !.scenario = sc, !.alpha = al, !.tau = t] :
     sc \in SingleScenarios, al \in {20, 100}, t \in {40, 50, 75}}
LocalConfigs ==
  {[Default EXCEPT !.program = "local", !.scenario = sc, !.topology = top, !.alpha = 20,
                   !.tau = t, !.includeSelf = self] :
     sc \in {Split, Fragmented}, top \in Topologies, t \in {40, 75}, self \in BOOLEAN}

AllConfigs == SingleConfigs \cup MultiConfigs \cup PipelineConfigs \cup DynamicsConfigs
                 \cup LocalConfigs
=============================================================================
