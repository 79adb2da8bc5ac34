------------------------------ MODULE Scenarios ------------------------------
(***************************************************************************)
(* The scenarios that the market simulations start from (market.go,        *)
(* multi_market.go).  Scores, weights and rates are hundredths, holdings   *)
(* and targets hundredths of one.  Where the code draws random numbers,    *)
(* Draws stands for what it may draw.                                      *)
(***************************************************************************)
EXTENDS Scores, Sequences

CONSTANT Draws  \* random numbers: tuples of two functions [1 .. 8 -> Score]

Nothing(n) == [i \in 1 .. n |-> 0]

\* A market of one asset, without inventory or demand.
Plain(scores, clusters) ==
  LET none == <<Nothing(Len(scores))>>
  IN  [scores |-> <<scores>>, clusters |-> clusters, holdings |-> none,
       targets |-> none, consumption |-> none, production |-> none,
       weights |-> none]

Stocked(scenario, holdings, targets) ==
  [scenario EXCEPT !.holdings = <<holdings>>, !.targets = <<targets>>]
Cyclic(scenario, consumption, production) ==
  [scenario EXCEPT !.consumption = <<consumption>>, !.production = <<production>>]

\* MarketScenarioState and marketClusters
TwoPairs == {{1, 2}, {3, 4}}
AllFour == {1 .. 4}
Split == Plain(<<100, 0, 100, 0>>, {{1, 3}, {2, 4}})
Clustered == Plain(<<90, 85, 15, 10>>, TwoPairs)
Collapse == Plain(<<4, 3, 2, 1>>, AllFour)
HighLiquidity == Plain(<<65, 55, 45, 35, 75, 25>>, {1 .. 3, 4 .. 6})
Fragmented == Plain(<<95, 90, 85, 15, 10, 5>>, {1 .. 3, 4 .. 6})

\* MarketInventoryDemandState: one producer and three consumers, or two of each.
DemandBasic ==
  Stocked(Plain(<<25, 85, 80, 75>>, AllFour),
          <<1000, 0, 0, 0>>, <<200, 300, 300, 200>>)
DemandFragmented ==
  Stocked(Plain(<<90, 85, 30, 25>>, TwoPairs),
          <<800, 700, 0, 0>>, <<200, 200, 500, 400>>)
\* The random ones draw scores, holdings up to 5 and targets from 1 to 6.
Random(d) == Plain([i \in 1 .. 8 |-> d[1][i]], {1 .. 4, 5 .. 8})
DrawnStock(d, least, most) ==
  Stocked(Plain([i \in 1 .. 6 |-> least + ((most - least) * d[1][i]) \div One],
                {1 .. 3, 4 .. 6}),
          [i \in 1 .. 6 |-> 5 * d[2][i]], [i \in 1 .. 6 |-> 100 + 5 * d[1][i]])
DemandRandom(d) == DrawnStock(d, 25, 90)

\* MarketCycleState, with the default rates.
CycleBasic == Cyclic(DemandBasic, <<0, 10, 10, 10>>, <<30, 0, 0, 0>>)
CycleFragmented ==
  Cyclic([DemandFragmented EXCEPT !.scores = <<<<90, 85, 35, 30>>>>],
         <<0, 0, 10, 10>>, <<25, 25, 0, 0>>)
CycleRandom(d) ==
  Cyclic(DrawnStock(d, 20, 90), [i \in 1 .. 6 |-> d[1][i] \div 10],
         [i \in 1 .. 6 |-> d[2][i] \div 4])

SingleScenarios ==
  {Split, Clustered, Collapse, HighLiquidity, Fragmented, DemandBasic,
   DemandFragmented, CycleBasic, CycleFragmented}
    \cup UNION {{Random(d), DemandRandom(d), CycleRandom(d)} : d \in Draws}

-----------------------------------------------------------------------------
\* setScenarioPreferences for n nodes: everybody prefers the first asset, the
\* second, or the first half of the nodes one and the second half the other.
Uniform(n, x, y) == <<[i \in 1 .. n |-> x], [i \in 1 .. n |-> y]>>
Halves(n, liked, other) ==
  <<[i \in 1 .. n |-> IF i <= n \div 2 THEN liked ELSE other],
    [i \in 1 .. n |-> IF i > n \div 2 THEN liked ELSE other]>>

\* MultiMarketScenario
MultiBasic ==
  [scores |-> <<<<80, 75, 65, 60>>, <<45, 70, 75, 65>>>>,
   clusters |-> AllFour,
   holdings |-> <<<<800, 0, 100, 0>>, <<0, 800, 100, 0>>>>,
   targets |-> <<<<200, 300, 300, 200>>, <<300, 200, 300, 200>>>>,
   consumption |-> Uniform(4, 3, 3),
   production |-> <<<<20, 0, 0, 0>>, <<0, 20, 0, 0>>>>,
   weights |-> Uniform(4, 100, 100)]

\* The other scenarios: node a produces asset a and starts with 5 more of it.
Drawn(n, d, scores, clusters, weights) ==
  [scores |-> scores, clusters |-> clusters,
   holdings |-> [a \in 1 .. 2 |->
                   [i \in 1 .. n |-> 2 * d[a][i] + (IF i = a THEN 500 ELSE 0)]],
   targets |-> [a \in 1 .. 2 |-> [i \in 1 .. n |-> 200 + d[a][i]]],
   consumption |-> Uniform(n, 2, 2),
   production |-> [a \in 1 .. 2 |-> [i \in 1 .. n |-> IF i = a THEN 15 ELSE 0]],
   weights |-> weights]

\* What is drawn as a score: 0.45 + 0.2r.
DrawnScore(r) == 45 + (20 * r) \div One

MultiCompete(d) ==
  Drawn(6, d, <<[i \in 1 .. 6 |-> 25 + DrawnScore(d[1][i])],
                [i \in 1 .. 6 |-> DrawnScore(d[2][i])]>>,
        {1 .. 3, 4 .. 6}, Uniform(6, 160, 90))
MultiFlight(d) ==
  Drawn(6, d, Uniform(6, 25, 85), {1 .. 3, 4 .. 6}, Uniform(6, 55, 170))
MultiFragmented(d) ==
  Drawn(4, d, Halves(4, 85, 35), TwoPairs, Halves(4, 160, 80))
MultiCoexist(d) ==
  Drawn(4, d, [a \in 1 .. 2 |-> [i \in 1 .. 4 |-> DrawnScore(d[a][i])]],
        AllFour, Halves(4, 160, 80))

\* UtilityMode "clustered" replaces the preferences of a scenario.
ClusteredUtility(s) ==
  [s EXCEPT !.weights = Halves(Len(s.scores[1]), 150, 75)]
RandomUtility(s, d) ==
  [s EXCEPT !.weights =
     [a \in 1 .. 2 |-> [i \in 1 .. Len(s.scores[1]) |-> 80 + (60 * d[a][i]) \div One]]]

MultiScenarios ==
  LET fixed == {MultiBasic} \cup
        UNION {{MultiCompete(d), MultiFlight(d), MultiFragmented(d), MultiCoexist(d)} : d \in Draws}
  IN  fixed \cup {ClusteredUtility(s) : s \in fixed}
            \cup {RandomUtility(s, d) : s \in fixed, d \in Draws}
=============================================================================
