-------------------------- MODULE SimulationProofs --------------------------
(***************************************************************************)
(* Theorems about the simulations, for every scenario, number of nodes and *)
(* assets, topology, price table and configuration that is valid.          *)
(***************************************************************************)
EXTENDS Simulation, Sums

(***************************************************************************)
(* Rounded steps                                                           *)
(***************************************************************************)
LEMMA PartOfGain ==
  ASSUME NEW alpha \in Score, NEW d \in Nat
  PROVE  0 <= (alpha * d) \div One /\ (alpha * d) \div One <= d
<1>1. alpha * d >= 0 /\ alpha * d \in Int
  BY DEF Score, One
<1>2. (One - alpha) * d >= 0
  BY DEF Score, One
<1>3. alpha * d <= One * d
  BY <1>2 DEF Score, One
<1>4. QED
  BY <1>1, <1>3 DEF One

LEMMA PartOfLoss ==
  ASSUME NEW alpha \in Score, NEW d \in Nat
  PROVE  -d <= (alpha * (-d)) \div One /\ (alpha * (-d)) \div One <= 0
<1>1. alpha * d >= 0 /\ alpha * d \in Int
  BY DEF Score, One
<1>2. (One - alpha) * d >= 0
  BY DEF Score, One
<1>3. alpha * (-d) = -(alpha * d)
  BY DEF Score, One
<1>4. alpha * d <= One * d
  BY <1>2 DEF Score, One
<1>5. QED
  BY <1>1, <1>3, <1>4 DEF One

\* A score never overshoots the goal it moves to, nor turns away from it.
LEMMA Between ==
  ASSUME NEW alpha \in Score, NEW score \in Score, NEW goal \in Score
  PROVE  /\ Toward(alpha, score, goal) \in Score
         /\ score <= goal => score <= Toward(alpha, score, goal)
                             /\ Toward(alpha, score, goal) <= goal
         /\ goal <= score => goal <= Toward(alpha, score, goal)
                             /\ Toward(alpha, score, goal) <= score
<1> DEFINE move == (alpha * (goal - score)) \div One
<1>1. move \in Int /\ score \in Int /\ goal \in Int
  BY DEF Score, One
<1>2. 0 <= score /\ score <= One /\ 0 <= goal /\ goal <= One
  BY DEF Score, One
<1>3. CASE score <= goal
  <2>1. goal - score \in Nat
    BY <1>1, <1>3
  <2>2. 0 <= move /\ move <= goal - score
    BY <2>1, PartOfGain
  <2>3. QED
    BY <1>1, <1>2, <1>3, <2>2 DEF Toward, Clamp01, Score, One
<1>4. CASE goal <= score
  <2>1. score - goal \in Nat /\ goal - score = -(score - goal)
    BY <1>1, <1>4
  <2>2. -(score - goal) <= move /\ move <= 0
    BY <2>1, PartOfLoss
  <2>3. QED
    BY <1>1, <1>2, <1>4, <2>1, <2>2 DEF Toward, Clamp01, Score, One
<1>5. QED
  BY <1>1, <1>3, <1>4

LEMMA ShareReaches ==
  ASSUME NEW x \in Nat, NEW n \in Nat \ {0}, NEW t \in Nat
  PROVE  (x \div n >= t <=> x >= t * n) /\ x \div n \in Nat
OBVIOUS

LEMMA RatioIsShare ==
  ASSUME NEW S, IsFiniteSet(S), NEW f, NEW tau
  PROVE  Ratio(f, S, tau) \in Score
<1> DEFINE few == Cardinality(Accepting(f, S, tau))
           all == Cardinality(S)
<1>1. CASE S = {}
  BY <1>1 DEF Ratio, Score, One
<1>2. CASE S # {}
  <2>1. Accepting(f, S, tau) \subseteq S
    BY DEF Accepting
  <2>2. few \in Nat /\ all \in Nat /\ few <= all
    BY <2>1, FS_Subset, FS_CardinalityType
  <2>3. all # 0
    BY <1>2, FS_EmptySet
  <2>4. Ratio(f, S, tau) = (One * few) \div all
    BY <1>2 DEF Ratio, few, all
  <2> HIDE DEF few, all
  <2>5. One * few \in Nat /\ One + 1 \in Nat
    BY <2>2 DEF One
  <2>6. /\ (One * few) \div all >= One + 1 <=> One * few >= (One + 1) * all
        /\ (One * few) \div all \in Nat
    BY <2>2, <2>3, <2>5, ShareReaches
  <2>7. One * few < (One + 1) * all
    BY <2>2, <2>3 DEF One
  <2>8. (One * few) \div all <= One
    BY <2>2, <2>5, <2>6, <2>7 DEF One
  <2>9. QED
    BY <2>4, <2>6, <2>8 DEF Score, One
<1>3. QED
  BY <1>1, <1>2

LEMMA HigherOf ==
  ASSUME NEW x \in Score, NEW y \in Score
  PROVE  Max({x, y}) = IF x >= y THEN x ELSE y
<1> DEFINE z == IF x >= y THEN x ELSE y
<1>1. z \in {x, y} /\ \A w \in {x, y} : z >= w
  BY DEF Score, One
<1>2. \A v \in {x, y} : (\A w \in {x, y} : v >= w) => v = z
  BY DEF Score, One
<1> HIDE DEF z
<1>3. Max({x, y}) = z
  BY <1>1, <1>2 DEF Max
<1>4. QED
  BY <1>3 DEF z

LEMMA LowerOf ==
  ASSUME NEW x \in Score, NEW y \in Score
  PROVE  Min({x, y}) = IF x <= y THEN x ELSE y
<1> DEFINE z == IF x <= y THEN x ELSE y
<1>1. z \in {x, y} /\ \A w \in {x, y} : z <= w
  BY DEF Score, One
<1>2. \A v \in {x, y} : (\A w \in {x, y} : v <= w) => v = z
  BY DEF Score, One
<1> HIDE DEF z
<1>3. Min({x, y}) = z
  BY <1>1, <1>2 DEF Min
<1>4. QED
  BY <1>3 DEF z

\* However a step rounds, it does not turn away from its goal, and passes it by no
\* more than a hundredth.
LEMMA RoundedBetween ==
  ASSUME NEW alpha \in Score, NEW score \in Score, NEW goal \in Score, NEW slip \in Slip
  PROVE  LET g == TowardRounded(alpha, score, goal, slip)
         IN  /\ g \in Score
             /\ score <= goal => score <= g
             /\ goal <= score => g <= score
             /\ score <= g \/ goal - 1 <= g
             /\ g <= score \/ g <= goal + 1
<1> DEFINE part == alpha * (goal - score)
           move == part \div One
           moved == Clamp01(score + move + slip)
           g == TowardRounded(alpha, score, goal, slip)
<1>1. /\ score \in Int /\ goal \in Int /\ alpha \in Int /\ slip \in Int
      /\ part \in Int /\ -1 <= slip /\ slip <= 1
      /\ 0 <= score /\ score <= One /\ 0 <= goal /\ goal <= One
  BY DEF Score, One, Slip
<1>2. g = CASE part > 0 -> Max({score, moved})
            [] part < 0 -> Min({score, moved})
            [] OTHER -> score
  BY DEF TowardRounded
<1>3. moved = LET x == score + move + slip IN IF x < 0 THEN 0 ELSE IF x > One THEN One ELSE x
  BY DEF Clamp01
<1>4. score <= goal => part >= 0 /\ 0 <= move /\ move <= goal - score
  <2>1. SUFFICES ASSUME score <= goal
                 PROVE  part >= 0 /\ 0 <= move /\ move <= goal - score
    OBVIOUS
  <2>2. goal - score \in Nat
    BY <1>1, <2>1
  <2>3. 0 <= move /\ move <= goal - score
    BY <2>2, PartOfGain
  <2>4. part >= 0
    BY <2>2 DEF Score, One
  <2>5. QED
    BY <2>3, <2>4
<1>5. goal <= score => part <= 0 /\ -(score - goal) <= move /\ move <= 0
  <2>1. SUFFICES ASSUME goal <= score
                 PROVE  part <= 0 /\ -(score - goal) <= move /\ move <= 0
    OBVIOUS
  <2>2. score - goal \in Nat /\ goal - score = -(score - goal)
    BY <1>1, <2>1
  <2>3. -(score - goal) <= move /\ move <= 0
    BY <2>2, PartOfLoss
  <2>4. alpha * (score - goal) >= 0
    BY <2>2 DEF Score, One
  <2>5. part = -(alpha * (score - goal))
    BY <2>2 DEF Score, One
  <2>6. QED
    BY <1>1, <2>3, <2>4, <2>5
<1>6. move \in Int
  BY <1>1 DEF One
<1> HIDE DEF part, move
<1>7. moved \in Score
  BY <1>1, <1>6 DEF Clamp01, Score, One
<1> HIDE DEF moved, g
<1>8. CASE part > 0
  <2>1. g = IF score >= moved THEN score ELSE moved
    <3>1. g = Max({score, moved})
      BY <1>1, <1>2, <1>8
    <3>2. QED
      BY <1>7, <3>1, HigherOf
  <2>2. score <= goal /\ 0 <= move /\ move <= goal - score
    BY <1>1, <1>4, <1>5, <1>8
  <2>3. moved <= goal + 1
    BY <1>1, <1>3, <1>6, <2>2 DEF One
  <2>4. QED
    BY <1>1, <1>7, <1>8, <1>4, <1>5, <2>1, <2>2, <2>3 DEF g, Score, One
<1>9. CASE part < 0
  <2>1. g = IF score <= moved THEN score ELSE moved
    <3>1. g = Min({score, moved})
      BY <1>1, <1>2, <1>9
    <3>2. QED
      BY <1>7, <3>1, LowerOf
  <2>2. goal <= score /\ -(score - goal) <= move /\ move <= 0
    BY <1>1, <1>4, <1>5, <1>9
  <2>3. goal - 1 <= moved
    BY <1>1, <1>3, <1>6, <2>2 DEF One
  <2>4. QED
    BY <1>1, <1>7, <1>9, <1>4, <1>5, <2>1, <2>2, <2>3 DEF g, Score, One
<1>10. CASE part = 0
  <2>1. g = score
    BY <1>1, <1>2, <1>10
  <2>2. QED
    BY <1>1, <2>1 DEF g
<1>11. QED
  BY <1>1, <1>8, <1>9, <1>10

\* One step of StepAcceptance: nobody who accepts leaves while the share is above
\* the threshold, and nobody joins while it is below.
LEMMA AcceptanceStep ==
  ASSUME NEW S, IsFiniteSet(S), NEW f \in [S -> Score],
         NEW alpha \in Score, NEW tau \in Score, NEW slip, \A n \in S : slip[n] \in Slip
  PROVE  LET g == StepAcceptance(alpha, f, tau, slip)
             m == Ratio(f, S, tau)
             before == Accepting(f, S, tau)
             after == Accepting(g, S, tau)
         IN  /\ g \in [S -> Score]
             /\ m > tau => before \subseteq after
             /\ m + 1 < tau => after \subseteq before
<1> DEFINE g == StepAcceptance(alpha, f, tau, slip)
           m == Ratio(f, S, tau)
<1>1. m \in Score
  BY RatioIsShare
<1>2. DOMAIN f = S /\ g = [n \in S |-> TowardRounded(alpha, f[n], m, slip[n])]
  BY DEF StepAcceptance
<1> HIDE DEF g, m
<1>3. ASSUME NEW n \in S
      PROVE  /\ g[n] \in Score
             /\ m > tau => (f[n] >= tau => g[n] >= tau)
             /\ m + 1 < tau => (g[n] >= tau => f[n] >= tau)
  <2>1. f[n] \in Score /\ g[n] = TowardRounded(alpha, f[n], m, slip[n]) /\ slip[n] \in Slip
    BY <1>2
  <2> DEFINE score == f[n]
             there == TowardRounded(alpha, score, m, slip[n])
  <2>2. /\ there \in Score
        /\ score <= there \/ m - 1 <= there
        /\ there <= score \/ there <= m + 1
    BY <1>1, <2>1, RoundedBetween
  <2> HIDE DEF there
  <2>3. g[n] = there
    BY <2>1 DEF there
  <2>4. QED
    BY <1>1, <2>1, <2>2, <2>3 DEF Score, One
<1>4. g \in [S -> Score]
  BY <1>2, <1>3
<1>5. m > tau => Accepting(f, S, tau) \subseteq Accepting(g, S, tau)
  BY <1>3 DEF Accepting
<1>6. m + 1 < tau => Accepting(g, S, tau) \subseteq Accepting(f, S, tau)
  BY <1>3 DEF Accepting
<1>7. QED
  BY <1>4, <1>5, <1>6 DEF g, m

(***************************************************************************)
(* The runs of RunDynamics                                                 *)
(***************************************************************************)
\* Nothing else happens in a run of RunDynamics, and it has scores.
DynamicsInv ==
  /\ cfg \in Configs
  /\ cfg.program = "dynamics" => phase = "step" /\ scores[1] \in [Nodes -> Score]

\* What a valid configuration and its scenario are.
LEMMA ConfigFacts ==
  ASSUME cfg \in Configs
  PROVE  /\ cfg.program \in {"single", "multi", "dynamics", "local"}
         /\ cfg.topology \in {"full", "chain", "clustered"}
         /\ cfg.alpha \in Score /\ cfg.tau \in Score
         /\ cfg.maxQty \in Nat \ {0} /\ cfg.spread \in Nat
         /\ cfg.minProfit \in Nat /\ Limit \in Nat
         /\ cfg.program # "multi" => Assets = {1}
         /\ cfg.scenario.scores[1] \in [Nodes -> Score]
<1>1. IsConfig(cfg)
  BY SimulationAssumption
<1>2. IsScenario(cfg.scenario)
  BY <1>1 DEF IsConfig
<1>3. Len(s.scores) \in Nat /\ Len(s.scores[1]) \in Nat
  BY <1>2 DEF IsScenario, s
<1>4. Len(s.scores[1]) * Len(s.scores) \in Nat
  BY <1>3
<1>5. Limit \in Nat
  BY <1>1, <1>4 DEF IsConfig, Limit
<1>6. cfg.scenario.scores[1] \in [Nodes -> Score]
  BY <1>2 DEF IsScenario, Nodes, s
<1>. QED
  BY <1>1, <1>5, <1>6 DEF IsConfig, Assets, s

Table(S) == [Assets -> [Nodes -> S]]

\* Assets and nodes are numbers, and there are finitely many.
LEMMA ScenarioFacts ==
  ASSUME cfg \in Configs
  PROVE  /\ IsFiniteSet(Nodes) /\ Nodes \subseteq Nat \ {0}
         /\ IsFiniteSet(Assets) /\ Assets \subseteq Nat \ {0} /\ 1 \in Assets
         /\ s.scores \in Table(Score)
         /\ s.holdings \in Table(Nat) /\ s.targets \in Table(Nat)
         /\ s.consumption \in Table(Nat) /\ s.production \in Table(Nat)
         /\ \A c \in s.clusters : c \subseteq Nodes
         /\ \A c, d \in s.clusters : c = d \/ c \cap d = {}
<1>1. IsScenario(s)
  BY SimulationAssumption DEF IsConfig, s
<1>2. s.scores \in Seq(Seq(Score)) /\ 1 \in Assets
  BY <1>1 DEF IsScenario, Assets
<1>3. Assets = 1 .. Len(s.scores) /\ Len(s.scores) \in Nat
  BY <1>2 DEF Assets
<1>4. s.scores[1] \in Seq(Score)
  BY <1>2, <1>3
<1>5. Nodes = 1 .. Len(s.scores[1]) /\ Len(s.scores[1]) \in Nat
  BY <1>4 DEF Nodes
<1>6. IsFiniteSet(Assets) /\ IsFiniteSet(Nodes)
  BY <1>3, <1>5, FS_Interval
<1>. QED
  BY <1>1, <1>2, <1>3, <1>5, <1>6 DEF IsScenario, Table, Assets, Nodes

LEMMA DynamicsInitially == Init => DynamicsInv
<1> SUFFICES ASSUME Init PROVE DynamicsInv
  OBVIOUS
<1>1. cfg \in Configs /\ scores = cfg.scenario.scores /\ phase = "step"
  BY DEF Init, s
<1>2. QED
  BY <1>1, ConfigFacts DEF DynamicsInv

LEMMA OnlyDynamics ==
  ASSUME DynamicsInv, cfg.program = "dynamics", Next
  PROVE  Dynamics
<1>1. phase = "step"
  BY DEF DynamicsInv
<1>2. ~Market
  BY DEF Market
<1>3. ~StartStep
  BY <1>2 DEF StartStep
<1>4. ~EndDemand /\ ~EndTrading /\ ~EndStep
  BY <1>1 DEF EndDemand, EndTrading, EndStep
<1>5. QED
  BY <1>1, <1>3, <1>4 DEF Next

LEMMA ConfigStays == ASSUME Next PROVE cfg' = cfg
<1>1. ASSUME NEW t, DemandTrade(t) PROVE cfg' = cfg
  BY <1>1 DEF DemandTrade
<1>2. ASSUME NEW t, ArbitrageTrade(t) PROVE cfg' = cfg
  BY <1>2 DEF ArbitrageTrade
<1>3. ASSUME NEW t, CrossAssetTrade(t) PROVE cfg' = cfg
  BY <1>3 DEF CrossAssetTrade
<1>4. StartStep \/ EndDemand \/ EndTrading \/ EndStep \/ Dynamics => cfg' = cfg
  BY DEF StartStep, EndDemand, EndTrading, EndStep, Dynamics
<1>5. QED
  BY <1>1, <1>2, <1>3, <1>4 DEF Next

\* What one step of the program does to the scores.
LEMMA DynamicsMoves ==
  ASSUME DynamicsInv, cfg.program = "dynamics", Dynamics
  PROVE  /\ phase' = phase /\ cfg' = cfg
         /\ \E slip \in Roundings :
              scores'[1] = StepAcceptance(cfg.alpha, scores[1], cfg.tau, slip)
BY DEF Dynamics

\* The lemma AcceptanceStep, in a step of the program.
LEMMA DynamicsTurns ==
  ASSUME DynamicsInv, cfg.program = "dynamics", Next
  PROVE  LET share == Ratio(scores[1], Nodes, cfg.tau)
             before == Accepting(scores[1], Nodes, cfg.tau)
             after == Accepting(scores'[1], Nodes, cfg.tau)
         IN  /\ phase' = phase /\ cfg' = cfg /\ scores'[1] \in [Nodes -> Score]
             /\ share > cfg.tau => before \subseteq after
             /\ share + 1 < cfg.tau => after \subseteq before
<1>1. phase' = phase /\ cfg' = cfg
  BY OnlyDynamics, DynamicsMoves
<1>2. PICK slip \in Roundings :
        scores'[1] = StepAcceptance(cfg.alpha, scores[1], cfg.tau, slip)
  BY OnlyDynamics, DynamicsMoves
<1>3. cfg \in Configs /\ scores[1] \in [Nodes -> Score]
  BY DEF DynamicsInv
<1>4. \A n \in Nodes : slip[n] \in Slip
  BY <1>2, <1>3, SimulationAssumption DEF Nodes, s
<1>5. cfg.alpha \in Score /\ cfg.tau \in Score /\ IsFiniteSet(Nodes)
  BY <1>3, ConfigFacts, ScenarioFacts
<1> QED
  BY <1>1, <1>2, <1>3, <1>4, <1>5, AcceptanceStep

LEMMA DynamicsPreserved ==
  ASSUME DynamicsInv, [Next]_vars
  PROVE  DynamicsInv'
<1>1. CASE UNCHANGED vars
  BY <1>1 DEF DynamicsInv, vars, Nodes, s
<1>2. CASE Next /\ cfg.program # "dynamics"
  BY <1>2, ConfigStays DEF DynamicsInv
<1>3. CASE Next /\ cfg.program = "dynamics"
  <2>1. phase' = phase /\ cfg' = cfg /\ scores'[1] \in [Nodes -> Score]
    BY <1>3, DynamicsTurns
  <2>2. Nodes' = Nodes
    BY <2>1 DEF Nodes, s
  <2>3. QED
    BY <1>3, <2>1, <2>2 DEF DynamicsInv
<1>4. QED
  BY <1>1, <1>2, <1>3

\* While the share of accepting nodes is above the threshold, acceptance only
\* spreads, and while it is below, it only recedes: a step of StepAcceptance moves
\* no node across the threshold against the majority it sees, for any number of
\* nodes, scores, alpha and tau, and however each node's result is rounded.  A
\* share that meets tau is not among the cases.
THEOREM NeverTurns == Spec => BandwagonNeverTurns
<1> DEFINE Turn ==
      cfg.program = "dynamics" =>
        LET share == Ratio(scores[1], Nodes, cfg.tau)
            before == Accepting(scores[1], Nodes, cfg.tau)
            after == Accepting(scores'[1], Nodes, cfg.tau)
        IN  /\ share > cfg.tau => before \subseteq after
            /\ share + 1 < cfg.tau => after \subseteq before
<1>1. ASSUME DynamicsInv, Next
      PROVE  Turn
  BY <1>1, DynamicsTurns
<1>2. DynamicsInv /\ [Next]_vars => [Turn]_vars
  BY <1>1
<1>3. QED
  BY <1>2, DynamicsInitially, DynamicsPreserved, PTL DEF Spec, BandwagonNeverTurns

(***************************************************************************)
(* The operators of a step                                                 *)
(***************************************************************************)
\* What does not change while the configuration does not.
LEMMA Fixed ==
  ASSUME cfg' = cfg
  PROVE  /\ s' = s /\ Assets' = Assets /\ Nodes' = Nodes /\ Near' = Near
         /\ Limit' = Limit /\ Groups' = Groups /\ Books' = Books
         /\ Market' = Market /\ Cycling' = Cycling
<1>1. s' = s
  BY DEF s
<1>2. Assets' = Assets /\ Nodes' = Nodes
  BY <1>1 DEF Assets, Nodes
<1>. QED
  BY <1>1, <1>2 DEF Near, Limit, Groups, Books, Market, Cycling, Amounts

\* InventoryState.Add on both sides of a trade; nothing is clamped when the giver
\* holds enough.
LEMMA MovedFacts ==
  ASSUME NEW h \in Table(Nat), NEW a \in Assets, NEW n \in Nodes, NEW m \in Nodes, n # m,
         NEW q \in Nat, q <= h[a][n]
  PROVE  LET g == Moved(h, a, n, m, q)
         IN  /\ g \in Table(Nat)
             /\ g[a][n] = h[a][n] - q /\ g[a][m] = h[a][m] + q
             /\ \A k \in Nodes \ {n, m} : g[a][k] = h[a][k]
             /\ \A b \in Assets \ {a} : g[b] = h[b]
<1>. DEFINE f == Plus(h, a, n, -q)
            g == Moved(h, a, n, m, q)
<1>1. h[a][n] \in Nat /\ h[a][m] \in Nat
  BY DEF Table
<1>2. Max0(h[a][n] + -q) = h[a][n] - q /\ h[a][n] - q \in Nat /\ h[a][m] + q \in Nat
  BY <1>1 DEF Max0
<1>. DEFINE left == h[a][n] - q
            more == h[a][m] + q
<1>3. f = [h EXCEPT ![a][n] = left]
  BY <1>2 DEF Plus
<1>4. left \in Nat /\ more \in Nat
  BY <1>2
<1>. HIDE DEF f, left, more
<1>5. /\ f \in Table(Nat) /\ f[a][n] = left
      /\ \A k \in Nodes \ {n} : f[a][k] = h[a][k]
      /\ \A b \in Assets \ {a} : f[b] = h[b]
  BY <1>3, <1>4 DEF Table
<1>6. Max0(f[a][m] + q) = more
  BY <1>1, <1>5 DEF Max0, more
<1>7. g = [f EXCEPT ![a][m] = more]
  BY <1>6 DEF Moved, Plus, f
<1>. HIDE DEF g
<1>8. /\ g \in Table(Nat) /\ g[a][m] = more
      /\ \A k \in Nodes \ {m} : g[a][k] = f[a][k]
      /\ \A b \in Assets \ {a} : g[b] = f[b]
  BY <1>4, <1>5, <1>7 DEF Table
<1>. QED
  BY <1>5, <1>8 DEF left, more, g

\* What a trade moves within a set of nodes stays in it.
LEMMA MovedTotal ==
  ASSUME NEW h \in Table(Nat), NEW a \in Assets, NEW n \in Nodes, NEW m \in Nodes, n # m,
         NEW q \in Nat, q <= h[a][n],
         NEW G \in SUBSET Nodes, IsFiniteSet(G), n \in G <=> m \in G, NEW b \in Assets
  PROVE  Total(Moved(h, a, n, m, q)[b], G) = Total(h[b], G)
<1>. DEFINE g == Moved(h, a, n, m, q)
<1>1. /\ g \in Table(Nat)
      /\ g[a][n] = h[a][n] - q /\ g[a][m] = h[a][m] + q
      /\ \A k \in Nodes \ {n, m} : g[a][k] = h[a][k]
      /\ \A c \in Assets \ {a} : g[c] = h[c]
  BY MovedFacts
<1>2. \A k \in G : h[b][k] \in Int /\ g[b][k] \in Int
  BY <1>1 DEF Table
<1>3. h[a][n] \in Int /\ h[a][m] \in Int
  BY DEF Table
<1>. HIDE DEF g
<1>4. CASE b # a
  BY <1>1, <1>4 DEF Total, g
<1>5. CASE b = a /\ n \notin G
  <2>1. \A k \in G : g[b][k] = h[b][k]
    BY <1>1, <1>5
  <2>. QED BY <1>2, <2>1, SumEqual DEF Total, g
<1>6. CASE b = a /\ n \in G
  <2>1. \A k \in G \ {n, m} : g[b][k] = h[b][k]
    BY <1>1, <1>6
  <2>2. g[b][n] + g[b][m] = h[b][n] + h[b][m]
    BY <1>1, <1>3, <1>6
  <2>3. n \in G /\ m \in G
    BY <1>6
  <2>4. SumFunctionOnSet(g[b], G) = SumFunctionOnSet(h[b], G)
    BY <1>2, <2>1, <2>2, <2>3, SumMove
  <2>. QED BY <2>4 DEF Total, g
<1>. QED
  BY <1>4, <1>5, <1>6

LEMMA ClampType == ASSUME NEW x \in Int PROVE Clamp01(x) \in Score
BY DEF Clamp01, Score, One

LEMMA TowardType ==
  ASSUME NEW alpha \in Score, NEW score \in Score, NEW goal \in Int
  PROVE  Toward(alpha, score, goal) \in Score
<1>1. alpha * (goal - score) \in Int
  BY DEF Score
<1>2. score + (alpha * (goal - score)) \div One \in Int
  BY <1>1 DEF Score, One
<1>. QED
  BY <1>2, ClampType DEF Toward

\* A goal between two bounds keeps a score between them.
LEMMA TowardInside ==
  ASSUME NEW alpha \in Score, NEW score \in Score, NEW goal \in Score,
         NEW lo \in Score, NEW hi \in Score,
         lo <= score, score <= hi, lo <= goal, goal <= hi
  PROVE  lo <= Toward(alpha, score, goal) /\ Toward(alpha, score, goal) <= hi
<1>1. /\ Toward(alpha, score, goal) \in Score
      /\ score <= goal => score <= Toward(alpha, score, goal)
                          /\ Toward(alpha, score, goal) <= goal
      /\ goal <= score => goal <= Toward(alpha, score, goal)
                          /\ Toward(alpha, score, goal) <= score
  BY Between
<1>. QED
  BY <1>1 DEF Score, One

\* ApplyTradeFeedback moves the scores of the two sides, in one asset.
LEMMA FeedbackFacts ==
  ASSUME cfg \in Configs, NEW f \in Table(Score), prices \in Table(Nat),
         NEW a \in Assets, NEW n \in Nodes, NEW m \in Nodes, n # m
  PROVE  LET g == FeedbackAt(f, a, n, m)
             price == Clearing(prices[a][n], prices[a][m])
         IN  /\ g \in Table(Score)
             /\ \A k \in {n, m} : g[a][k] = Toward(cfg.alpha, f[a][k], price)
             /\ \A k \in Nodes \ {n, m} : g[a][k] = f[a][k]
             /\ \A b \in Assets \ {a} : g[b] = f[b]
<1>. DEFINE g == FeedbackAt(f, a, n, m)
            price == Clearing(prices[a][n], prices[a][m])
            x == Toward(cfg.alpha, f[a][n], price)
            y == Toward(cfg.alpha, f[a][m], price)
<1>1. price \in Int
  <2>1. prices[a][n] \in Nat /\ prices[a][m] \in Nat
    BY DEF Table
  <2>. QED BY <2>1 DEF Clearing
<1>2. f[a][n] \in Score /\ f[a][m] \in Score /\ cfg.alpha \in Score
  BY ConfigFacts DEF Table
<1>. HIDE DEF price
<1>3. x \in Score /\ y \in Score
  BY <1>1, <1>2, TowardType
<1>4. g = [f EXCEPT ![a][n] = x, ![a][m] = y]
  BY DEF FeedbackAt, Feedback, price, Table
<1>. HIDE DEF g, x, y
<1>5. /\ g \in Table(Score) /\ g[a][n] = x /\ g[a][m] = y
      /\ \A k \in Nodes \ {n, m} : g[a][k] = f[a][k]
      /\ \A b \in Assets \ {a} : g[b] = f[b]
  BY <1>3, <1>4 DEF Table
<1>. QED
  BY <1>5 DEF g, x, y, price

(***************************************************************************)
(* Quotes                                                                  *)
(***************************************************************************)
\* Where the loops are: only markets trade, arbitrage is for one asset, whose
\* prices are at most 1.
PhaseInv ==
  /\ cfg \in Configs
  /\ phase # "step" => Market /\ step >= 1
  /\ phase = "arbitrage" => cfg.program = "single"
  /\ cfg.program # "multi" => prices \in Table(Score)

IInv == SimulationTypeOK /\ PhaseInv

LEMMA StateFacts ==
  ASSUME IInv
  PROVE  /\ cfg \in Configs /\ scores \in Table(Score) /\ prices \in Table(Nat)
         /\ holdings \in Table(Nat) /\ books \in Books
         /\ step \in Nat /\ executed \in Nat /\ executed <= Limit
BY ConfigFacts, SimulationAssumption DEF IInv, SimulationTypeOK, PhaseInv, Table

LEMMA NeedFacts ==
  ASSUME cfg \in Configs, NEW h \in Table(Nat), NEW a \in Assets, NEW n \in Nodes
  PROVE  /\ Need(h, a, n) \in Nat /\ Surplus(h, a, n) \in Nat
         /\ Surplus(h, a, n) <= h[a][n]
         /\ h[a][n] \in Nat /\ s.targets[a][n] \in Nat
<1>1. h[a][n] \in Nat /\ s.targets[a][n] \in Nat
  BY ScenarioFacts DEF Table
<1>. QED
  BY <1>1 DEF Need, Surplus, Max0

\* The loops break at the limit, so a trade that comes is within it.
LEMMA UpcomingFacts ==
  ASSUME IInv, NEW rank, NEW t \in Upcoming(rank)
  PROVE  t \in DOMAIN rank /\ executed + 1 \in 0 .. Limit
<1>1. executed \in Nat /\ Limit \in Nat
  BY StateFacts, ConfigFacts
<1>2. t \in DOMAIN rank /\ ~LimitReached
  BY DEF Upcoming
<1>. QED
  BY <1>1, <1>2 DEF LimitReached

LEMMA RankType == ASSUME NEW x \in Nat, NEW y \in Nat PROVE Rank(x, y) \in Nat
BY DEF Rank, One

LEMMA MinOfThree ==
  ASSUME NEW x \in Nat, NEW y \in Nat, NEW z \in Nat
  PROVE  /\ Min({x, y, z}) \in Nat
         /\ Min({x, y, z}) <= x /\ Min({x, y, z}) <= y /\ Min({x, y, z}) <= z
<1>1. {x, y, z} \in SUBSET Nat /\ {x, y, z} # {}
  OBVIOUS
<1>. QED
  BY <1>1, MinFacts

\* A demand trade moves something that the seller can spare and the buyer needs.
LEMMA DemandFacts ==
  ASSUME IInv, NEW t \in NextDemand
  PROVE  /\ t.asset \in Assets /\ t.seller \in Nodes /\ t.buyer \in Nodes
         /\ Connected(t.seller, t.buyer) /\ t.seller # t.buyer
         /\ Quantity(t.asset, t.seller, t.buyer) \in Nat \ {0}
         /\ Quantity(t.asset, t.seller, t.buyer) <= Surplus(holdings, t.asset, t.seller)
         /\ Quantity(t.asset, t.seller, t.buyer) <= Need(holdings, t.asset, t.buyer)
         /\ Quantity(t.asset, t.seller, t.buyer) <= holdings[t.asset][t.seller]
         /\ DemandRank(t) \in Nat /\ executed + 1 \in 0 .. Limit
<1>1. t \in DemandQuotes /\ executed + 1 \in 0 .. Limit
  BY UpcomingFacts DEF NextDemand
<1>2. /\ t.asset \in Assets /\ t.seller \in Nodes /\ t.buyer \in Nodes
      /\ Connected(t.seller, t.buyer) /\ Quantity(t.asset, t.seller, t.buyer) > 0
  BY <1>1 DEF DemandQuotes
<1>3. t.seller # t.buyer
  BY <1>2 DEF Connected
<1>4. cfg \in Configs /\ holdings \in Table(Nat)
  BY StateFacts
<1>5. /\ Surplus(holdings, t.asset, t.seller) \in Nat
      /\ Surplus(holdings, t.asset, t.seller) <= holdings[t.asset][t.seller]
      /\ holdings[t.asset][t.seller] \in Nat
      /\ Need(holdings, t.asset, t.buyer) \in Nat
  BY <1>2, <1>4, NeedFacts
<1>6. cfg.maxQty \in Nat
  BY <1>4, ConfigFacts
<1>7. /\ Quantity(t.asset, t.seller, t.buyer) \in Nat
      /\ Quantity(t.asset, t.seller, t.buyer) <= Surplus(holdings, t.asset, t.seller)
      /\ Quantity(t.asset, t.seller, t.buyer) <= Need(holdings, t.asset, t.buyer)
  BY <1>5, <1>6, MinOfThree DEF Quantity
<1>8. DemandRank(t) \in Nat
  <2>1. t.asset \in Nat /\ t.seller \in Nat /\ t.buyer \in Nat
    BY <1>2, <1>4, ScenarioFacts
  <2>. QED BY <2>1, RankType DEF DemandRank
<1>. QED
  BY <1>1, <1>2, <1>3, <1>5, <1>7, <1>8

LEMMA ArbitrageFacts ==
  ASSUME IInv, phase = "arbitrage", NEW t \in NextArbitrage
  PROVE  /\ t.seller \in Nodes /\ t.buyer \in Nodes
         /\ Connected(t.seller, t.buyer) /\ t.seller # t.buyer
         /\ ArbitrageRank(t) \in Nat /\ executed + 1 \in 0 .. Limit
<1>1. t \in ArbitrageQuotes /\ executed + 1 \in 0 .. Limit
  BY UpcomingFacts DEF NextArbitrage
<1>2. /\ t.seller \in Nodes /\ t.buyer \in Nodes /\ t.seller # t.buyer
      /\ Connected(t.seller, t.buyer)
  BY <1>1 DEF ArbitrageQuotes
<1>3. ArbitrageRank(t) \in Nat
  <2>1. prices \in Table(Score) /\ 1 \in Assets
    BY StateFacts, ScenarioFacts DEF IInv, PhaseInv
  <2>2. prices[1][t.seller] \in Score /\ prices[1][t.buyer] \in Score
    BY <1>2, <2>1 DEF Table
  <2>. DEFINE x == prices[1][t.buyer]
              y == prices[1][t.seller]
  <2>. HIDE DEF x, y
  <2>3. One - (x - y) \in Nat
    <3>1. x \in 0 .. 100 /\ y \in 0 .. 100
      BY <2>2 DEF Score, One, x, y
    <3>2. 100 - (x - y) \in Nat
      BY <3>1
    <3>. QED BY <3>2 DEF One
  <2>4. t.seller \in Nat /\ t.buyer \in Nat
    BY <1>2, StateFacts, ScenarioFacts
  <2>. QED BY <2>3, <2>4, RankType DEF ArbitrageRank, x, y
<1>. QED
  BY <1>1, <1>2, <1>3

LEMMA CeilDivPositive ==
  ASSUME NEW x \in Nat \ {0}, NEW y \in Nat \ {0}
  PROVE  CeilDiv(x, y) \in Nat \ {0}
<1>1. x + y - 1 \in Nat /\ x + y - 1 >= y
  OBVIOUS
<1>2. (x + y - 1) \div y >= 1 <=> x + y - 1 >= 1 * y
  BY <1>1, ShareReaches
<1>3. (x + y - 1) \div y \in Nat
  BY <1>1, ShareReaches
<1>. QED
  BY <1>1, <1>2, <1>3 DEF CeilDiv

LEMMA TimesPositive ==
  ASSUME NEW x \in Nat \ {0}, NEW y \in Nat \ {0} PROVE x * y \in Nat \ {0}
OBVIOUS

\* Both sides of a cross-asset trade hold what they give, and give something.
LEMMA CrossFacts ==
  ASSUME IInv, NEW t \in NextCross
  PROVE  /\ t.sell \in Assets /\ t.buy \in Assets /\ t.sell # t.buy
         /\ t.seller \in Nodes /\ t.buyer \in Nodes
         /\ Connected(t.seller, t.buyer) /\ t.seller # t.buyer
         /\ cfg.maxQty \in Nat \ {0} /\ cfg.maxQty <= holdings[t.sell][t.seller]
         /\ BuyQty(t) \in Nat \ {0} /\ BuyQty(t) <= holdings[t.buy][t.buyer]
         /\ CrossRank(t) \in Nat /\ executed + 1 \in 0 .. Limit
<1>1. t \in CrossQuotes /\ executed + 1 \in 0 .. Limit
  BY UpcomingFacts DEF NextCross
<1>2. /\ t.sell \in Assets /\ t.buy \in Assets /\ t.sell # t.buy
      /\ t.seller \in Nodes /\ t.buyer \in Nodes
      /\ Connected(t.seller, t.buyer)
      /\ (CanExchange(t) \/ CanSwitch(t))
  BY <1>1 DEF CrossQuotes
<1>3. t.seller # t.buyer
  BY <1>2 DEF Connected
<1>4. cfg \in Configs /\ holdings \in Table(Nat) /\ prices \in Table(Nat)
  BY StateFacts
<1>5. cfg.maxQty \in Nat \ {0} /\ cfg.spread \in Nat
  BY <1>4, ConfigFacts
<1>6. InStock(t) /\ Priced(t) /\ CanPay(t, BuyQty(t))
  BY <1>2 DEF CanExchange, CanSwitch, BuyQty
<1>7. /\ holdings[t.sell][t.seller] \in Nat /\ holdings[t.buy][t.buyer] \in Nat
      /\ cfg.maxQty <= holdings[t.sell][t.seller]
      /\ BuyQty(t) <= holdings[t.buy][t.buyer]
  <2>1. holdings[t.sell][t.seller] \in Nat /\ holdings[t.buy][t.buyer] \in Nat
    BY <1>2, <1>4 DEF Table
  <2>2. holdings[t.sell][t.seller] >= cfg.maxQty /\ holdings[t.buy][t.buyer] >= BuyQty(t)
    BY <1>6 DEF InStock, CanPay
  <2>. QED BY <2>1, <2>2
<1>8. BuyQty(t) \in Nat \ {0}
  <2>. DEFINE p == prices[t.sell][t.seller]
              q == prices[t.buy][t.buyer]
              u == prices[t.sell][t.buyer]
              v == prices[t.buy][t.seller]
  <2>1. /\ p \in Nat \ {0} /\ q \in Nat \ {0} /\ u \in Nat \ {0} /\ v \in Nat \ {0}
        /\ One \in Nat \ {0} /\ One + cfg.spread \in Nat \ {0}
    BY <1>2, <1>4, <1>5, <1>6 DEF Priced, Table, One
  <2>2. /\ Asked(t) = cfg.maxQty * p * q * (One + cfg.spread)
        /\ Offered(t) = cfg.maxQty * u * v * One
        /\ Parts(t) = v * q * One
    BY DEF Asked, Offered, Parts
  <2>. HIDE DEF p, q, u, v
  <2>3. cfg.maxQty * p * q \in Nat \ {0} /\ cfg.maxQty * u * v \in Nat \ {0} /\ v * q \in Nat \ {0}
    BY <1>5, <2>1, TimesPositive
  <2>4. Asked(t) \in Nat \ {0} /\ Offered(t) \in Nat \ {0} /\ Parts(t) \in Nat \ {0}
    BY <2>1, <2>2, <2>3, TimesPositive
  <2>5. Asked(t) + Offered(t) \in Nat \ {0} /\ 2 * Parts(t) \in Nat \ {0}
    BY <2>4
  <2>6. ExchangeQty(t) \in Nat \ {0} /\ SwitchQty(t) \in Nat \ {0}
    BY <2>4, <2>5, CeilDivPositive DEF ExchangeQty, SwitchQty
  <2>. QED BY <2>6 DEF BuyQty
<1>9. CrossRank(t) \in Nat
  <2>1. t.sell \in Nat /\ t.buy \in Nat /\ t.seller \in Nat /\ t.buyer \in Nat
    BY <1>2, <1>4, ScenarioFacts
  <2>2. Rank(t.sell, t.buy) \in Nat
    BY <2>1, RankType
  <2>3. Rank(Rank(t.sell, t.buy), t.seller) \in Nat
    BY <2>1, <2>2, RankType
  <2>. QED BY <2>1, <2>3, RankType DEF CrossRank
<1>. QED
  BY <1>1, <1>2, <1>3, <1>5, <1>7, <1>8, <1>9

(***************************************************************************)
(* The head and the tail of a step                                         *)
(***************************************************************************)
LEMMA MinOfTwo ==
  ASSUME NEW x \in Nat, NEW y \in Nat
  PROVE  Min({x, y}) \in Nat /\ Min({x, y}) <= x /\ Min({x, y}) <= y
<1>1. {x, y} \in SUBSET Nat /\ {x, y} # {}
  OBVIOUS
<1>. QED
  BY <1>1, MinFacts

\* Nobody consumes more than they hold.
LEMMA CycleFacts ==
  ASSUME cfg \in Configs, holdings \in Table(Nat)
  PROVE  /\ Eaten \in Table(Nat) /\ AfterCycle \in Table(Nat)
         /\ \A a \in Assets, n \in Nodes :
              /\ Eaten[a][n] <= holdings[a][n]
              /\ AfterCycle[a][n] = holdings[a][n] - Eaten[a][n] + s.production[a][n]
<1>1. ASSUME NEW a \in Assets, NEW n \in Nodes
      PROVE  /\ Eaten[a][n] \in Nat /\ Eaten[a][n] <= holdings[a][n]
             /\ AfterCycle[a][n] = holdings[a][n] - Eaten[a][n] + s.production[a][n]
             /\ AfterCycle[a][n] \in Nat
  <2>1. s.consumption[a][n] \in Nat /\ s.production[a][n] \in Nat /\ holdings[a][n] \in Nat
    BY ScenarioFacts DEF Table
  <2>2. Eaten[a][n] = Min({s.consumption[a][n], holdings[a][n]})
    BY DEF Eaten
  <2>3. Eaten[a][n] \in Nat /\ Eaten[a][n] <= holdings[a][n]
    BY <2>1, <2>2, MinOfTwo
  <2>4. AfterCycle[a][n] = holdings[a][n] - Eaten[a][n] + s.production[a][n]
    BY DEF AfterCycle
  <2>. QED BY <2>1, <2>3, <2>4
<1>2. /\ Eaten = [a \in Assets |-> [n \in Nodes |-> Eaten[a][n]]]
      /\ AfterCycle = [a \in Assets |-> [n \in Nodes |-> AfterCycle[a][n]]]
  BY DEF Eaten, AfterCycle
<1>3. Eaten \in Table(Nat) /\ AfterCycle \in Table(Nat)
  BY <1>1, <1>2, Zenon DEF Table
<1>. QED
  BY <1>1, <1>3

LEMMA DivType == ASSUME NEW x \in Int, NEW y \in Nat \ {0} PROVE x \div y \in Int
OBVIOUS

LEMMA TimesType == ASSUME NEW x \in Int, NEW y \in Int PROVE x * y \in Int
OBVIOUS

LEMMA PressureType ==
  ASSUME cfg \in Configs, scores \in Table(Score), NEW h \in Table(Nat),
         NEW a \in Assets, NEW n \in Nodes
  PROVE  Pressure(h, a, n) \in Score
<1>. DEFINE need == Need(h, a, n)
            surplus == Surplus(h, a, n)
            target == s.targets[a][n]
            old == scores[a][n]
            up == (need * (One - old)) \div (target + One)
            down == (surplus * old) \div (h[a][n] + target + One)
<1>1. need \in Nat /\ surplus \in Nat /\ target \in Nat /\ h[a][n] \in Nat
  BY NeedFacts
<1>2. old \in Int /\ One \in Nat \ {0} /\ cfg.alpha \in Int
  <2>1. old \in Score /\ cfg.alpha \in Score
    BY ConfigFacts DEF Table
  <2>. HIDE DEF old
  <2>. QED BY <2>1 DEF Score, One
<1>3. Pressure(h, a, n) = Clamp01(old + (cfg.alpha * up) \div One - (cfg.alpha * down) \div One)
  BY DEF Pressure
<1>4. up \in Int /\ down \in Int
  <2>. HIDE DEF need, surplus, target, old
  <2>1. One - old \in Int /\ target + One \in Nat \ {0} /\ h[a][n] + target + One \in Nat \ {0}
    BY <1>1, <1>2
  <2>2. need * (One - old) \in Int /\ surplus * old \in Int
    BY <1>1, <1>2, <2>1, TimesType
  <2>. QED BY <2>1, <2>2, DivType
<1>. HIDE DEF need, surplus, target, old, up, down
<1>5. (cfg.alpha * up) \div One \in Int /\ (cfg.alpha * down) \div One \in Int
  BY <1>2, <1>4, TimesType, DivType
<1>6. old + (cfg.alpha * up) \div One - (cfg.alpha * down) \div One \in Int
  BY <1>2, <1>5
<1>. QED
  BY <1>3, <1>6, ClampType

LEMMA SubstitutedType ==
  ASSUME cfg \in Configs, NEW f \in Table(Score), NEW h, NEW table
  PROVE  Substituted(f, h, table) \in Table(Score)
<1>1. ASSUME NEW a \in Assets, NEW n \in Nodes
      PROVE  /\ f[a][n] \in Score
             /\ Clamp01(f[a][n] + (cfg.alpha * (One - f[a][n])) \div (10 * One)) \in Score
             /\ Clamp01(f[a][n] - (cfg.alpha * f[a][n]) \div (10 * One)) \in Score
  <2>. DEFINE x == f[a][n]
  <2>1. x \in Score
    BY DEF Table
  <2>. HIDE DEF x
  <2>2. x \in Int /\ One - x \in Int /\ 10 * One \in Nat \ {0} /\ cfg.alpha \in Int
    BY <2>1, ConfigFacts DEF Score, One
  <2>3. (cfg.alpha * (One - x)) \div (10 * One) \in Int /\ (cfg.alpha * x) \div (10 * One) \in Int
    BY <2>2, TimesType, DivType
  <2>4. /\ x + (cfg.alpha * (One - x)) \div (10 * One) \in Int
        /\ x - (cfg.alpha * x) \div (10 * One) \in Int
    BY <2>2, <2>3
  <2>5. /\ Clamp01(x + (cfg.alpha * (One - x)) \div (10 * One)) \in Score
        /\ Clamp01(x - (cfg.alpha * x) \div (10 * One)) \in Score
    BY <2>4, ClampType
  <2>. QED BY <2>1, <2>5 DEF x
<1>2. ASSUME NEW a \in Assets, NEW n \in Nodes
      PROVE  (IF a = Preferred(table, n)
              THEN Clamp01(f[a][n] + (cfg.alpha * (One - f[a][n])) \div (10 * One))
              ELSE IF h[a][n] > 0
                   THEN Clamp01(f[a][n] - (cfg.alpha * f[a][n]) \div (10 * One))
                   ELSE f[a][n]) \in Score
  BY <1>1, Zenon
<1>. QED
  BY <1>2, Zenon DEF Substituted, Table

\* The neighbours of a node are nodes.
LEMMA NearFacts ==
  ASSUME cfg \in Configs, NEW n \in Nodes
  PROVE  Near[n] \subseteq Nodes
<1>1. cfg.topology \in {"full", "chain", "clustered"}
  BY ConfigFacts
<1>2. CASE cfg.topology = "full"
  BY <1>2 DEF Near, Topology
<1>3. CASE cfg.topology = "chain"
  BY <1>3 DEF Near, Topology
<1>4. CASE cfg.topology = "clustered"
  <2>1. Near[n] = (UNION {c \in s.clusters : n \in c}) \ {n}
    BY <1>4 DEF Near, Topology
  <2>2. \A c \in s.clusters : c \subseteq Nodes
    BY ScenarioFacts
  <2>. QED BY <2>1, <2>2
<1>. QED
  BY <1>1, <1>2, <1>3, <1>4

\* A mean lies between bounds of what it is the mean of.
LEMMA MeanFacts ==
  ASSUME NEW S, IsFiniteSet(S), S # {}, NEW f, NEW lo \in Score, NEW hi \in Score,
         \A x \in S : f[x] \in Score /\ lo <= f[x] /\ f[x] <= hi
  PROVE  Mean(f, S) \in Score /\ lo <= Mean(f, S) /\ Mean(f, S) <= hi
<1>. DEFINE t == SumFunctionOnSet(f, S)
            c == Cardinality(S)
<1>1. c \in Nat \ {0}
  BY FS_EmptySet, FS_CardinalityType
<1>2. lo \in Nat /\ hi \in Nat /\ hi <= One
  BY DEF Score, One
<1>3. \A x \in S : f[x] \in Int /\ f[x] \in Nat /\ lo <= f[x] /\ f[x] <= hi
  BY DEF Score, One
<1>4. lo \in Int /\ hi \in Int
  BY <1>2
<1>5. t \in Nat
  BY <1>3, SumType
<1>6. lo * c <= t /\ t <= hi * c
  BY <1>3, <1>4, SumBounds
<1>. HIDE DEF t, c
<1>7. t \div c \in Nat /\ t \div c >= lo
  BY <1>1, <1>2, <1>5, <1>6, ShareReaches
<1>8. hi + 1 \in Nat /\ ~(t >= (hi + 1) * c)
  <2>1. (hi + 1) * c = hi * c + c /\ hi * c \in Nat
    BY <1>1, <1>2
  <2>. QED BY <1>1, <1>2, <1>5, <1>6, <2>1
<1>9. ~(t \div c >= hi + 1)
  BY <1>1, <1>5, <1>8, ShareReaches
<1>10. Mean(f, S) = t \div c
  BY DEF Mean, t, c
<1>. QED
  BY <1>2, <1>7, <1>9, <1>10 DEF Score, One

\* StepMarketTopology moves a score towards the mean of its neighbourhood, which
\* bounds of the neighbourhood bound.
LEMMA TopologyFacts ==
  ASSUME cfg \in Configs, scores \in Table(Score), NEW a \in Assets, NEW n \in Nodes
  PROVE  LET g == StepMarketTopology(cfg.alpha, scores[a], Near)
             mean == Mean(scores[a], Near[n] \cup {n})
         IN  /\ DOMAIN g = Nodes /\ g[n] = Toward(cfg.alpha, scores[a][n], mean)
             /\ mean \in Score /\ g[n] \in Score
             /\ \A lo, hi \in Score :
                  (\A m \in Near[n] \cup {n} : lo <= scores[a][m] /\ scores[a][m] <= hi)
                    => lo <= g[n] /\ g[n] <= hi
<1>. DEFINE g == StepMarketTopology(cfg.alpha, scores[a], Near)
            around == Near[n] \cup {n}
            mean == Mean(scores[a], around)
<1>1. around \subseteq Nodes /\ IsFiniteSet(around) /\ around # {}
  BY NearFacts, ScenarioFacts, FS_Subset
<1>2. DOMAIN scores[a] = Nodes /\ \A m \in around : scores[a][m] \in Score
  BY <1>1 DEF Table
<1>3. DOMAIN g = Nodes /\ g[n] = Toward(cfg.alpha, scores[a][n], mean)
  BY <1>2 DEF StepMarketTopology
<1>4. cfg.alpha \in Score /\ scores[a][n] \in Score
  BY <1>2, ConfigFacts
<1>. HIDE DEF g, around
<1>5. ASSUME NEW lo \in Score, NEW hi \in Score,
             \A m \in around : lo <= scores[a][m] /\ scores[a][m] <= hi
      PROVE  mean \in Score /\ lo <= mean /\ mean <= hi
  BY <1>1, <1>2, <1>5, MeanFacts
<1>. HIDE DEF mean
<1>6. mean \in Score
  <2>1. \A m \in around : 0 <= scores[a][m] /\ scores[a][m] <= One
    BY <1>2 DEF Score, One
  <2>2. 0 \in Score /\ One \in Score
    BY DEF Score, One
  <2>. QED BY <1>5, <2>1, <2>2
<1>7. g[n] \in Score
  BY <1>3, <1>4, <1>6, Between
<1>8. ASSUME NEW lo \in Score, NEW hi \in Score,
             \A m \in around : lo <= scores[a][m] /\ scores[a][m] <= hi
      PROVE  lo <= g[n] /\ g[n] <= hi
  <2>1. lo <= mean /\ mean <= hi
    BY <1>5, <1>8
  <2>2. lo <= scores[a][n] /\ scores[a][n] <= hi
    BY <1>8 DEF around
  <2>. QED BY <1>3, <1>4, <1>6, <2>1, <2>2, TowardInside
<1>. QED
  BY <1>3, <1>6, <1>7, <1>8 DEF g, mean, around

(***************************************************************************)
(* The type invariant                                                      *)
(***************************************************************************)
LEMMA BooksFacts ==
  ASSUME books \in Books
  PROVE  /\ books.fulfilled \in Amounts
         /\ books.produced \in Table(Nat) /\ books.consumed \in Table(Nat)
BY DEF Books, Table

\* Adding to an amount.
LEMMA AddTo ==
  ASSUME NEW f \in Amounts, NEW a \in Assets, NEW q \in Nat
  PROVE  LET g == [f EXCEPT ![a] = f[a] + q]
         IN  /\ g \in Amounts /\ g[a] = f[a] + q
             /\ \A b \in Assets \ {a} : g[b] = f[b]
<1>1. f[a] + q \in Nat
  BY DEF Amounts
<1>. QED
  BY <1>1 DEF Amounts

LEMMA InvHolds ==
  ASSUME cfg \in Configs, cfg' = cfg,
         scores' \in Table(Score), prices' \in Table(Nat), holdings' \in Table(Nat),
         step' \in 0 .. Steps, executed' \in 0 .. Limit, cursor' \in Nat,
         phase' \in {"step", "demand", "arbitrage", "cross", "topology"},
         books' \in Books,
         phase' # "step" => Market /\ step' >= 1,
         phase' = "arbitrage" => cfg.program = "single",
         cfg.program # "multi" => prices' \in Table(Score)
  PROVE  IInv'
<1>1. /\ Assets' = Assets /\ Nodes' = Nodes /\ Limit' = Limit /\ Books' = Books
      /\ Market' = Market
  BY Fixed
<1>2. SimulationTypeOK'
  BY <1>1 DEF SimulationTypeOK, Table
<1>3. PhaseInv'
  BY <1>1 DEF PhaseInv, Table
<1>. QED
  BY <1>2, <1>3 DEF IInv

LEMMA ScoresAreNatural == ASSUME NEW f \in Table(Score) PROVE f \in Table(Nat)
BY DEF Table, Score, One

LEMMA InvInitially == ASSUME Init PROVE IInv
<1>1. /\ cfg \in Configs /\ scores = s.scores /\ holdings = s.holdings
      /\ prices = s.scores /\ step = 0 /\ phase = "step" /\ cursor = 0 /\ executed = 0
  BY DEF Init
<1>2. scores \in Table(Score) /\ prices \in Table(Score) /\ holdings \in Table(Nat)
  BY <1>1, ScenarioFacts
<1>3. prices \in Table(Nat)
  BY <1>2, ScoresAreNatural
<1>4. Limit \in Nat /\ Steps \in Nat
  BY <1>1, ConfigFacts, SimulationAssumption
<1>5. Zero \in Amounts /\ ZeroEach \in [Assets -> [Nodes -> Nat]]
  BY DEF Zero, ZeroEach, Amounts
<1>6. books \in Books
  BY <1>5 DEF Init, Books
<1>7. SimulationTypeOK
  BY <1>1, <1>2, <1>3, <1>4, <1>6 DEF SimulationTypeOK, Table
<1>8. PhaseInv
  BY <1>1, <1>2 DEF PhaseInv
<1>. QED
  BY <1>7, <1>8 DEF IInv

LEMMA RangesHold ==
  ASSUME IInv
  PROVE  /\ step \in 0 .. Steps /\ executed \in 0 .. Limit /\ cursor \in Nat
         /\ phase \in {"step", "demand", "arbitrage", "cross", "topology"}
         /\ phase # "step" => Market /\ step >= 1
         /\ phase = "arbitrage" => cfg.program = "single"
         /\ cfg.program # "multi" => prices \in Table(Score)
BY DEF IInv, SimulationTypeOK, PhaseInv

LEMMA StartFacts ==
  ASSUME IInv, StartStep
  PROVE  /\ holdings' = IF Cycling THEN AfterCycle ELSE holdings
         /\ holdings' \in Table(Nat) /\ scores' \in Table(Score)
         /\ prices' \in Table(Nat)
         /\ cfg.program # "multi" => prices' \in Table(Score)
         /\ ~cfg.pipeline => prices' = scores'
         /\ books' \in Books
<1>1. /\ cfg \in Configs /\ scores \in Table(Score) /\ holdings \in Table(Nat)
      /\ books \in Books
  BY StateFacts
<1>. DEFINE stock == IF Cycling THEN AfterCycle ELSE holdings
            pressed == IF Cycling
                       THEN [a \in Assets |-> [n \in Nodes |-> Pressure(stock, a, n)]]
                       ELSE scores
            given == {[a \in Assets |-> [n \in Nodes |-> p[a][n]]] : p \in PipelineTables}
            switching == cfg.program = "multi" /\ cfg.demand /\ cfg.substitution
<1>2. stock \in Table(Nat)
  BY <1>1, CycleFacts
<1>3. pressed \in Table(Score)
  <2>. HIDE DEF stock
  <2>1. \A a \in Assets, n \in Nodes : Pressure(stock, a, n) \in Score
    BY <1>1, <1>2, PressureType
  <2>. QED BY <1>1, <2>1 DEF Table
<1>4. ASSUME cfg.pipeline, NEW table \in given
      PROVE  /\ table \in Table(Nat)
             /\ cfg.program # "multi" => table \in Table(Score)
  <2>1. PICK p \in PipelineTables : table = [a \in Assets |-> [n \in Nodes |-> p[a][n]]]
    BY <1>4
  <2>2. IsTable(p, cfg)
    BY <1>1, <1>4, SimulationAssumption
  <2>3. \A a \in Assets, n \in Nodes :
          p[a][n] \in IF cfg.program = "multi" THEN Nat ELSE Score
    BY <2>2 DEF IsTable, Assets, Nodes, s
  <2>4. \A x \in Score : x \in Nat
    BY DEF Score, One
  <2>. QED BY <2>1, <2>3, <2>4 DEF Table
<1>5. /\ holdings' = stock
      /\ \E table \in IF cfg.pipeline THEN given ELSE {pressed} :
           /\ scores' = IF switching THEN Substituted(pressed, stock, table) ELSE pressed
           /\ prices' = IF cfg.pipeline THEN table ELSE scores'
  BY DEF StartStep
<1>. HIDE DEF pressed, given, switching
<1>6. PICK table \in IF cfg.pipeline THEN given ELSE {pressed} :
        /\ scores' = IF switching THEN Substituted(pressed, stock, table) ELSE pressed
        /\ prices' = IF cfg.pipeline THEN table ELSE scores'
  BY <1>5
<1>7. scores' \in Table(Score)
  BY <1>1, <1>3, <1>6, SubstitutedType
<1>8. prices' \in Table(Nat) /\ (cfg.program # "multi" => prices' \in Table(Score))
  BY <1>4, <1>6, <1>7, ScoresAreNatural
<1>9. books' \in Books
  <2>. DEFINE consumed == [a \in Assets |-> [n \in Nodes |-> books.consumed[a][n] + Eaten[a][n]]]
              produced == [a \in Assets |-> [n \in Nodes |-> books.produced[a][n] + s.production[a][n]]]
  <2>1. /\ books.consumed \in Table(Nat) /\ books.produced \in Table(Nat)
        /\ Eaten \in Table(Nat) /\ s.production \in Table(Nat)
    BY <1>1, BooksFacts, CycleFacts, ScenarioFacts
  <2>2. \A a \in Assets, n \in Nodes : /\ books.consumed[a][n] + Eaten[a][n] \in Nat
                                      /\ books.produced[a][n] + s.production[a][n] \in Nat
    BY <2>1 DEF Table
  <2>3. consumed \in Table(Nat) /\ produced \in Table(Nat)
    BY <2>2 DEF Table
  <2>4. books' = IF ~Cycling THEN books
                 ELSE [books EXCEPT !.consumed = consumed, !.produced = produced]
    BY DEF StartStep
  <2>. HIDE DEF consumed, produced
  <2>. QED BY <1>1, <2>3, <2>4 DEF Books, Table
<1>. QED
  BY <1>2, <1>5, <1>6, <1>7, <1>8, <1>9

LEMMA StartKeeps == ASSUME IInv, StartStep PROVE IInv'
<1>1. /\ holdings' \in Table(Nat) /\ scores' \in Table(Score) /\ prices' \in Table(Nat)
      /\ cfg.program # "multi" => prices' \in Table(Score)
      /\ books' \in Books
  BY StartFacts
<1>2. /\ step' = step + 1 /\ executed' = 0 /\ cursor' = 0 /\ cfg' = cfg /\ Market
      /\ step < Steps
      /\ phase' = IF cfg.demand THEN "demand"
                  ELSE IF cfg.program = "single" THEN "arbitrage" ELSE "topology"
  BY DEF StartStep, Enter
<1>3. step \in 0 .. Steps /\ Steps \in Nat /\ Limit \in Nat /\ cfg \in Configs
  BY RangesHold, StateFacts, ConfigFacts, SimulationAssumption
<1>4. step' \in 0 .. Steps /\ step' >= 1 /\ executed' \in 0 .. Limit /\ cursor' \in Nat
  BY <1>2, <1>3
<1>5. /\ phase' \in {"step", "demand", "arbitrage", "cross", "topology"}
      /\ phase' = "arbitrage" => cfg.program = "single"
  BY <1>2
<1>. QED
  BY <1>1, <1>2, <1>3, <1>4, <1>5, InvHolds

\* The three loops and what ends them leave step and prices alone.
LEMMA LoopHolds ==
  ASSUME IInv, cfg' = cfg, step' = step, prices' = prices,
         scores' \in Table(Score), holdings' \in Table(Nat), books' \in Books,
         executed' \in 0 .. Limit, cursor' \in Nat,
         phase' \in {"step", "demand", "arbitrage", "cross", "topology"},
         phase' # "step" => phase # "step",
         phase' = "arbitrage" => phase = "arbitrage" \/ cfg.program = "single"
  PROVE  IInv'
<1>1. cfg \in Configs /\ prices' \in Table(Nat)
  BY StateFacts
<1>2. /\ step' \in 0 .. Steps /\ (phase' # "step" => Market /\ step' >= 1)
      /\ phase' = "arbitrage" => cfg.program = "single"
      /\ cfg.program # "multi" => prices' \in Table(Score)
  BY RangesHold
<1>. QED
  BY <1>1, <1>2, InvHolds

\* What a demand trade writes.
LEMMA DemandBooks ==
  ASSUME IInv, phase = "demand", NEW t \in NextDemand, DemandTrade(t)
  PROVE  LET q == Quantity(t.asset, t.seller, t.buyer)
         IN  /\ books' \in Books
             /\ books'.fulfilled =
                  [books.fulfilled EXCEPT ![t.asset] = books.fulfilled[t.asset] + q]
             /\ books'.produced = books.produced /\ books'.consumed = books.consumed
<1>. DEFINE q == Quantity(t.asset, t.seller, t.buyer)
            a == t.asset
            fulfilled == [books.fulfilled EXCEPT ![a] = books.fulfilled[a] + q]
<1>1. q \in Nat /\ a \in Assets /\ books \in Books
  BY DemandFacts, StateFacts
<1>2. books' = [books EXCEPT !.fulfilled[a] = @ + q]
  BY DEF DemandTrade
<1>. HIDE DEF q, a
<1>3. books' = [books EXCEPT !.fulfilled = fulfilled]
  BY <1>2
<1>4. fulfilled \in Amounts
  BY <1>1, BooksFacts, AddTo
<1>. HIDE DEF fulfilled
<1>5. /\ books' \in Books /\ books'.fulfilled = fulfilled
      /\ books'.produced = books.produced /\ books'.consumed = books.consumed
  BY <1>1, <1>3, <1>4 DEF Books
<1>. QED
  BY <1>5 DEF q, a, fulfilled

LEMMA DemandKeeps ==
  ASSUME IInv, phase = "demand", NEW t \in NextDemand, DemandTrade(t)
  PROVE  IInv'
<1>. DEFINE q == Quantity(t.asset, t.seller, t.buyer)
<1>1. /\ t.asset \in Assets /\ t.seller \in Nodes /\ t.buyer \in Nodes
      /\ t.seller # t.buyer /\ q \in Nat
      /\ q <= holdings[t.asset][t.seller]
      /\ DemandRank(t) \in Nat /\ executed + 1 \in 0 .. Limit
  BY DemandFacts
<1>2. /\ cursor' = DemandRank(t)
      /\ holdings' = Moved(holdings, t.asset, t.seller, t.buyer, q)
      /\ scores' = FeedbackAt(scores, t.asset, t.seller, t.buyer)
      /\ executed' = executed + 1
      /\ cfg' = cfg /\ prices' = prices /\ step' = step /\ phase' = phase
  BY DEF DemandTrade
<1>. HIDE DEF q
<1>3. /\ cfg \in Configs /\ scores \in Table(Score) /\ prices \in Table(Nat)
      /\ holdings \in Table(Nat)
  BY StateFacts
<1>4. holdings' \in Table(Nat)
  BY <1>1, <1>2, <1>3, MovedFacts
<1>5. scores' \in Table(Score)
  BY <1>1, <1>2, <1>3, FeedbackFacts
<1>6. books' \in Books
  BY DemandBooks
<1>. QED
  BY <1>1, <1>2, <1>4, <1>5, <1>6, LoopHolds

LEMMA ArbitrageKeeps ==
  ASSUME IInv, phase = "arbitrage", NEW t \in NextArbitrage, ArbitrageTrade(t)
  PROVE  IInv'
<1>1. /\ t.seller \in Nodes /\ t.buyer \in Nodes /\ t.seller # t.buyer
      /\ ArbitrageRank(t) \in Nat /\ executed + 1 \in 0 .. Limit
  BY ArbitrageFacts
<1>2. /\ cursor' = ArbitrageRank(t) /\ holdings' = holdings
      /\ scores' = FeedbackAt(scores, 1, t.seller, t.buyer)
      /\ executed' = executed + 1
      /\ cfg' = cfg /\ prices' = prices /\ step' = step /\ phase' = phase
  BY DEF ArbitrageTrade
<1>3. /\ cfg \in Configs /\ scores \in Table(Score) /\ prices \in Table(Nat)
      /\ holdings \in Table(Nat)
  BY StateFacts
<1>4. 1 \in Assets
  BY <1>3, ScenarioFacts
<1>5. scores' \in Table(Score)
  BY <1>1, <1>2, <1>3, <1>4, FeedbackFacts
<1>6. books' \in Books
  BY StateFacts DEF ArbitrageTrade
<1>. QED
  BY <1>1, <1>2, <1>3, <1>5, <1>6, LoopHolds

\* Where the two assets of a cross-asset trade end up, one move after the other.
LEMMA CrossMoves ==
  ASSUME IInv, phase = "cross", NEW t \in NextCross
  PROVE  LET h == Moved(holdings, t.sell, t.seller, t.buyer, cfg.maxQty)
         IN  /\ h \in Table(Nat) /\ cfg.maxQty <= holdings[t.sell][t.seller]
             /\ BuyQty(t) \in Nat /\ BuyQty(t) <= h[t.buy][t.buyer]
             /\ Moved(h, t.buy, t.buyer, t.seller, BuyQty(t)) \in Table(Nat)
<1>. DEFINE h == Moved(holdings, t.sell, t.seller, t.buyer, cfg.maxQty)
<1>1. /\ t.sell \in Assets /\ t.buy \in Assets /\ t.sell # t.buy
      /\ t.seller \in Nodes /\ t.buyer \in Nodes /\ t.seller # t.buyer
      /\ cfg.maxQty \in Nat /\ cfg.maxQty <= holdings[t.sell][t.seller]
      /\ BuyQty(t) \in Nat /\ BuyQty(t) <= holdings[t.buy][t.buyer]
  BY CrossFacts
<1>2. holdings \in Table(Nat)
  BY StateFacts
<1>3. h \in Table(Nat) /\ \A b \in Assets \ {t.sell} : h[b] = holdings[b]
  BY <1>1, <1>2, MovedFacts
<1>. HIDE DEF h
<1>4. BuyQty(t) <= h[t.buy][t.buyer]
  BY <1>1, <1>3
<1>5. Moved(h, t.buy, t.buyer, t.seller, BuyQty(t)) \in Table(Nat)
  BY <1>1, <1>3, <1>4, MovedFacts
<1>. QED
  BY <1>1, <1>3, <1>4, <1>5 DEF h

LEMMA CrossKeeps ==
  ASSUME IInv, phase = "cross", NEW t \in NextCross, CrossAssetTrade(t)
  PROVE  IInv'
<1>. DEFINE f == FeedbackAt(scores, t.sell, t.seller, t.buyer)
<1>1. /\ t.sell \in Assets /\ t.buy \in Assets
      /\ t.seller \in Nodes /\ t.buyer \in Nodes /\ t.seller # t.buyer
      /\ CrossRank(t) \in Nat /\ executed + 1 \in 0 .. Limit
  BY CrossFacts
<1>2. /\ cursor' = CrossRank(t)
      /\ scores' = FeedbackAt(f, t.buy, t.seller, t.buyer)
      /\ executed' = executed + 1
      /\ cfg' = cfg /\ prices' = prices /\ step' = step /\ phase' = phase
  BY DEF CrossAssetTrade
<1>3. holdings' \in Table(Nat)
  BY CrossMoves DEF CrossAssetTrade
<1>4. cfg \in Configs /\ scores \in Table(Score) /\ prices \in Table(Nat)
  BY StateFacts
<1>5. f \in Table(Score)
  BY <1>1, <1>4, FeedbackFacts
<1>. HIDE DEF f
<1>6. scores' \in Table(Score)
  BY <1>1, <1>2, <1>4, <1>5, FeedbackFacts
<1>7. books' \in Books
  BY StateFacts DEF CrossAssetTrade
<1>. QED
  BY <1>1, <1>2, <1>3, <1>6, <1>7, LoopHolds

LEMMA EndKeeps == ASSUME IInv, EndDemand \/ EndTrading PROVE IInv'
<1>1. /\ cfg' = cfg /\ scores' = scores /\ holdings' = holdings /\ prices' = prices
      /\ step' = step /\ executed' = executed /\ books' = books /\ cursor' = 0
      /\ phase # "step"
      /\ phase' \in {"step", "demand", "arbitrage", "cross", "topology"}
      /\ phase' = "arbitrage" => cfg.program = "single"
  BY DEF EndDemand, EndTrading, Enter
<1>2. /\ scores \in Table(Score) /\ holdings \in Table(Nat) /\ books \in Books
      /\ executed \in 0 .. Limit
  BY StateFacts, RangesHold
<1>. QED
  BY <1>1, <1>2, LoopHolds

LEMMA EndStepKeeps == ASSUME IInv, EndStep PROVE IInv'
<1>1. /\ scores' = [a \in Assets |-> StepMarketTopology(cfg.alpha, scores[a], Near)]
      /\ cfg' = cfg /\ holdings' = holdings /\ prices' = prices /\ step' = step
      /\ books' = books
      /\ executed' = executed /\ cursor' = 0 /\ phase' = "step"
  BY DEF EndStep, Enter
<1>2. /\ cfg \in Configs /\ scores \in Table(Score) /\ holdings \in Table(Nat)
      /\ books \in Books /\ executed \in Nat /\ executed \in 0 .. Limit
  BY StateFacts, RangesHold
<1>3. scores' \in Table(Score)
  <2>1. ASSUME NEW a \in Assets
        PROVE  StepMarketTopology(cfg.alpha, scores[a], Near) \in [Nodes -> Score]
    <3>. DEFINE g == StepMarketTopology(cfg.alpha, scores[a], Near)
    <3>1. g = [n \in DOMAIN scores[a] |-> g[n]] /\ DOMAIN scores[a] = Nodes
      BY <1>2 DEF StepMarketTopology, Table
    <3>2. \A n \in Nodes : g[n] \in Score
      BY <1>2, TopologyFacts
    <3>. HIDE DEF g
    <3>3. g \in [Nodes -> Score]
      BY <3>1, <3>2
    <3>. QED BY <3>3 DEF g
  <2>. QED BY <1>1, <2>1 DEF Table
<1>. QED
  BY <1>1, <1>2, <1>3, LoopHolds

\* A step of RunDynamics or RunLocalDynamics yields scores.
LEMMA AcceptanceType ==
  ASSUME cfg \in Configs, scores \in Table(Score), NEW slip \in Roundings
  PROVE  /\ StepAcceptance(cfg.alpha, scores[1], cfg.tau, slip) \in [Nodes -> Score]
         /\ StepLocalAcceptance(cfg.alpha, scores[1], Near, cfg.tau, cfg.includeSelf, slip)
              \in [Nodes -> Score]
<1>1. /\ cfg.alpha \in Score /\ cfg.tau \in Score /\ IsFiniteSet(Nodes)
      /\ 1 \in Assets /\ \A n \in Nodes : slip[n] \in Slip
  BY ConfigFacts, ScenarioFacts, SimulationAssumption DEF Nodes, s
<1>2. scores[1] \in [Nodes -> Score]
  BY <1>1 DEF Table
<1>. DEFINE To(n, S) ==
       TowardRounded(cfg.alpha, scores[1][n], Ratio(scores[1], S, cfg.tau), slip[n])
<1>3. ASSUME NEW S \in SUBSET Nodes, NEW n \in Nodes
      PROVE  To(n, S) \in Score
  <2>1. Ratio(scores[1], S, cfg.tau) \in Score
    BY <1>1, FS_Subset, RatioIsShare
  <2>2. scores[1][n] \in Score
    BY <1>2
  <2>. QED BY <1>1, <2>1, <2>2, RoundedBetween
<1>4. StepAcceptance(cfg.alpha, scores[1], cfg.tau, slip) \in [Nodes -> Score]
  BY <1>2, <1>3 DEF StepAcceptance
<1>5. StepLocalAcceptance(cfg.alpha, scores[1], Near, cfg.tau, cfg.includeSelf, slip)
        \in [Nodes -> Score]
  <2>. DEFINE Around(n) == IF cfg.includeSelf THEN Near[n] \cup {n} ELSE Near[n]
  <2>1. \A n \in Nodes : Around(n) \in SUBSET Nodes
    BY NearFacts
  <2>2. StepLocalAcceptance(cfg.alpha, scores[1], Near, cfg.tau, cfg.includeSelf, slip)
          = [n \in Nodes |-> To(n, Around(n))]
    BY <1>2 DEF StepLocalAcceptance
  <2>. HIDE DEF Around, To
  <2>3. \A n \in Nodes : To(n, Around(n)) \in Score
    BY <1>3, <2>1
  <2>. QED BY <2>2, <2>3
<1>. QED
  BY <1>4, <1>5

LEMMA DynamicsKeeps == ASSUME IInv, Dynamics PROVE IInv'
<1>1. /\ cfg' = cfg /\ holdings' = holdings /\ prices' = prices /\ phase' = phase
      /\ cursor' = cursor /\ executed' = executed /\ books' = books
      /\ step' = step + 1 /\ step < Steps /\ phase = "step" /\ ~Market
      /\ \E slip \in Roundings :
           scores' =
             <<IF cfg.program = "dynamics"
               THEN StepAcceptance(cfg.alpha, scores[1], cfg.tau, slip)
               ELSE StepLocalAcceptance(cfg.alpha, scores[1], Near, cfg.tau,
                                        cfg.includeSelf, slip)>>
  BY DEF Dynamics
<1>2. /\ cfg \in Configs /\ scores \in Table(Score) /\ holdings \in Table(Nat)
      /\ prices \in Table(Nat) /\ books \in Books
      /\ step \in 0 .. Steps /\ executed \in 0 .. Limit /\ cursor \in Nat
      /\ cfg.program # "multi" => prices \in Table(Score)
      /\ Steps \in Nat
  BY StateFacts, RangesHold, SimulationAssumption
<1>3. Assets = {1}
  BY <1>1, <1>2, ConfigFacts DEF Market
<1>4. scores' \in Table(Score)
  <2>1. PICK f \in [Nodes -> Score] : scores' = <<f>>
    BY <1>1, <1>2, AcceptanceType
  <2>2. <<f>> = [a \in {1} |-> f]
    OBVIOUS
  <2>. QED BY <1>3, <2>1, <2>2 DEF Table
<1>5. step' \in 0 .. Steps
  BY <1>1, <1>2
<1>. QED
  BY <1>1, <1>2, <1>4, <1>5, InvHolds

LEMMA InvPreserved == ASSUME IInv, [Next]_vars PROVE IInv'
<1>1. CASE UNCHANGED vars
  <2>1. /\ cfg' = cfg /\ scores' = scores /\ holdings' = holdings /\ prices' = prices
        /\ step' = step /\ phase' = phase /\ cursor' = cursor /\ executed' = executed
        /\ books' = books
    BY <1>1 DEF vars
  <2>2. cfg \in Configs /\ scores \in Table(Score) /\ prices \in Table(Nat)
        /\ holdings \in Table(Nat) /\ books \in Books
    BY StateFacts
  <2>. QED BY <2>1, <2>2, RangesHold, InvHolds
<1>2. CASE Next
  <2>1. CASE StartStep BY <2>1, StartKeeps
  <2>2. CASE phase = "demand" /\ \E t \in NextDemand : DemandTrade(t)
    BY <2>2, DemandKeeps
  <2>3. CASE EndDemand BY <2>3, EndKeeps
  <2>4. CASE phase = "arbitrage" /\ \E t \in NextArbitrage : ArbitrageTrade(t)
    BY <2>4, ArbitrageKeeps
  <2>5. CASE phase = "cross" /\ \E t \in NextCross : CrossAssetTrade(t)
    BY <2>5, CrossKeeps
  <2>6. CASE EndTrading BY <2>6, EndKeeps
  <2>7. CASE EndStep BY <2>7, EndStepKeeps
  <2>8. CASE Dynamics BY <2>8, DynamicsKeeps
  <2>. QED
    BY <1>2, <2>1, <2>2, <2>3, <2>4, <2>5, <2>6, <2>7, <2>8 DEF Next
<1>. QED
  BY <1>1, <1>2

\* Scores stay in [0, 1] whatever the prices, the inventory is never negative, no
\* step trades beyond its limit in all of its loops, and what is booked is never
\* negative: for every number of nodes, assets and steps, and all options.
THEOREM SimulationTypeCorrect == Spec => []SimulationTypeOK
<1>1. Init => IInv
  BY InvInitially
<1>2. IInv /\ [Next]_vars => IInv'
  BY InvPreserved
<1>3. IInv => SimulationTypeOK
  BY DEF IInv
<1>. QED
  BY <1>1, <1>2, <1>3, PTL DEF Spec

(***************************************************************************)
(* Conservation within the groups                                          *)
(***************************************************************************)
LEMMA GroupFacts ==
  ASSUME cfg \in Configs, NEW g \in Groups
  PROVE  g \in SUBSET Nodes /\ IsFiniteSet(g)
<1>1. g \subseteq Nodes
  BY ScenarioFacts DEF Groups
<1>. QED
  BY <1>1, ScenarioFacts, FS_Subset

\* Who is connected is in the same group.
LEMMA SameGroup ==
  ASSUME cfg \in Configs, NEW g \in Groups, NEW n \in Nodes, NEW m \in Nodes,
         Connected(n, m)
  PROVE  n \in g <=> m \in g
<1>1. CASE cfg.topology # "clustered"
  BY <1>1 DEF Groups
<1>2. CASE cfg.topology = "clustered"
  <2>1. g \in s.clusters
    BY <1>2 DEF Groups
  <2>2. m \in UNION {c \in s.clusters : n \in c}
    BY <1>2 DEF Connected, Near, Topology
  <2>3. PICK c \in s.clusters : n \in c /\ m \in c
    BY <2>2
  <2>4. c = g \/ c \cap g = {}
    BY <2>1, ScenarioFacts
  <2>. QED BY <2>3, <2>4
<1>. QED
  BY <1>1, <1>2

LEMMA ConserveInitially == ASSUME Init PROVE GroupsConserve
<1>1. cfg \in Configs /\ holdings = s.holdings
  BY DEF Init
<1>2. books.produced = ZeroEach /\ books.consumed = ZeroEach
  BY DEF Init
<1>. SUFFICES ASSUME NEW a \in Assets, NEW g \in Groups
     PROVE  Total(holdings[a], g) =
              Total(s.holdings[a], g) + Total(books.produced[a], g) - Total(books.consumed[a], g)
  BY DEF GroupsConserve
<1>3. g \subseteq Nodes /\ IsFiniteSet(g)
  BY <1>1, GroupFacts
<1>4. \A n \in g : ZeroEach[a][n] = 0
  BY <1>3 DEF ZeroEach
<1>5. Total(books.produced[a], g) = 0 /\ Total(books.consumed[a], g) = 0
  BY <1>2, <1>3, <1>4, SumZero DEF Total
<1>6. Total(s.holdings[a], g) \in Int
  <2>1. \A n \in g : s.holdings[a][n] \in Int
    BY <1>1, <1>3, ScenarioFacts DEF Table
  <2>. QED BY <1>3, <2>1, SumType DEF Total
<1>. QED
  BY <1>1, <1>5, <1>6

\* A step that keeps the totals and what is booked of the cycle.
LEMMA ConserveKept ==
  ASSUME GroupsConserve, cfg' = cfg,
         books'.produced = books.produced, books'.consumed = books.consumed,
         \A a \in Assets, g \in Groups : Total(holdings'[a], g) = Total(holdings[a], g)
  PROVE  GroupsConserve'
<1>1. s' = s /\ Assets' = Assets /\ Groups' = Groups
  BY Fixed
<1>. QED
  BY <1>1 DEF GroupsConserve, Total

LEMMA CycleConserves ==
  ASSUME IInv, GroupsConserve, StartStep PROVE GroupsConserve'
<1>1. /\ cfg \in Configs /\ holdings \in Table(Nat) /\ books \in Books /\ cfg' = cfg
      /\ holdings' = IF Cycling THEN AfterCycle ELSE holdings
  BY StateFacts, StartFacts DEF StartStep
<1>2. CASE ~Cycling
  <2>1. books' = books /\ holdings' = holdings
    BY <1>1, <1>2 DEF StartStep
  <2>. QED BY <1>1, <2>1, ConserveKept
<1>3. CASE Cycling
  <2>1. s' = s /\ Assets' = Assets /\ Groups' = Groups
    BY <1>1, Fixed
  <2>. SUFFICES ASSUME NEW a \in Assets, NEW g \in Groups
       PROVE  Total(holdings'[a], g) = Total(s.holdings[a], g)
                + Total(books'.produced[a], g) - Total(books'.consumed[a], g)
    BY <2>1 DEF GroupsConserve, Total
  <2>. DEFINE H == holdings[a]
              A == AfterCycle[a]
              E == Eaten[a]
              P == s.production[a]
              made == books.produced[a]
              used == books.consumed[a]
              K == [n \in g |-> H[n] + P[n]]
  <2>2. g \subseteq Nodes /\ IsFiniteSet(g)
    BY <1>1, GroupFacts
  <2>3. \A n \in g : /\ H[n] \in Int /\ P[n] \in Int /\ E[n] \in Int /\ A[n] \in Int
                     /\ made[n] \in Int /\ used[n] \in Int /\ s.holdings[a][n] \in Int
                     /\ A[n] = H[n] - E[n] + P[n]
    BY <1>1, <2>2, CycleFacts, ScenarioFacts, BooksFacts DEF Table
  <2>4. holdings'[a] = A
    BY <1>1, <1>3
  <2>5. /\ books'.produced = [b \in Assets |-> [n \in Nodes |-> books.produced[b][n] + s.production[b][n]]]
        /\ books'.consumed = [b \in Assets |-> [n \in Nodes |-> books.consumed[b][n] + Eaten[b][n]]]
    BY <1>1, <1>3 DEF StartStep, Books
  <2>6. \A n \in g : /\ books'.produced[a][n] = made[n] + P[n]
                     /\ books'.consumed[a][n] = used[n] + E[n]
    BY <2>2, <2>5
  <2>. HIDE DEF H, A, E, P, made, used
  <2>7. SumFunctionOnSet(books'.produced[a], g)
          = SumFunctionOnSet(made, g) + SumFunctionOnSet(P, g)
    BY <2>2, <2>3, <2>6, SumPlus
  <2>8. SumFunctionOnSet(books'.consumed[a], g)
          = SumFunctionOnSet(used, g) + SumFunctionOnSet(E, g)
    BY <2>2, <2>3, <2>6, SumPlus
  <2>9. \A n \in g : K[n] = H[n] + P[n] /\ K[n] = A[n] + E[n]
    BY <2>3
  <2>. HIDE DEF K
  <2>10. SumFunctionOnSet(K, g) = SumFunctionOnSet(H, g) + SumFunctionOnSet(P, g)
    BY <2>2, <2>3, <2>9, SumPlus
  <2>11. SumFunctionOnSet(K, g) = SumFunctionOnSet(A, g) + SumFunctionOnSet(E, g)
    BY <2>2, <2>3, <2>9, SumPlus
  <2>12. /\ SumFunctionOnSet(H, g) \in Int /\ SumFunctionOnSet(P, g) \in Int
         /\ SumFunctionOnSet(A, g) \in Int /\ SumFunctionOnSet(E, g) \in Int
         /\ SumFunctionOnSet(made, g) \in Int /\ SumFunctionOnSet(used, g) \in Int
         /\ SumFunctionOnSet(s.holdings[a], g) \in Int
    BY <2>2, <2>3, SumType
  <2>13. SumFunctionOnSet(H, g) = SumFunctionOnSet(s.holdings[a], g)
           + SumFunctionOnSet(made, g) - SumFunctionOnSet(used, g)
    BY DEF GroupsConserve, Total, H, made, used
  <2>14. SumFunctionOnSet(A, g) = SumFunctionOnSet(s.holdings[a], g)
           + (SumFunctionOnSet(made, g) + SumFunctionOnSet(P, g))
           - (SumFunctionOnSet(used, g) + SumFunctionOnSet(E, g))
    <3>. DEFINE h == SumFunctionOnSet(H, g)
                x == SumFunctionOnSet(A, g)
                e == SumFunctionOnSet(E, g)
                p == SumFunctionOnSet(P, g)
                m == SumFunctionOnSet(made, g)
                u == SumFunctionOnSet(used, g)
                z == SumFunctionOnSet(s.holdings[a], g)
    <3>1. /\ h \in Int /\ x \in Int /\ e \in Int /\ p \in Int /\ m \in Int
          /\ u \in Int /\ z \in Int
      BY <2>12
    <3>2. h + p = x + e /\ h = z + m - u
      BY <2>10, <2>11, <2>13, Zenon
    <3>. HIDE DEF h, x, e, p, m, u, z
    <3>3. x = z + (m + p) - (u + e)
      BY <3>1, <3>2
    <3>. QED BY <3>3 DEF h, x, e, p, m, u, z
  <2>. QED
    BY <2>4, <2>7, <2>8, <2>14, Zenon DEF Total
<1>. QED
  BY <1>2, <1>3

LEMMA DemandConserves ==
  ASSUME IInv, GroupsConserve, phase = "demand", NEW t \in NextDemand, DemandTrade(t)
  PROVE  GroupsConserve'
<1>. DEFINE q == Quantity(t.asset, t.seller, t.buyer)
<1>1. /\ t.asset \in Assets /\ t.seller \in Nodes /\ t.buyer \in Nodes
      /\ Connected(t.seller, t.buyer) /\ t.seller # t.buyer
      /\ q \in Nat /\ q <= holdings[t.asset][t.seller]
  BY DemandFacts
<1>2. cfg' = cfg /\ holdings' = Moved(holdings, t.asset, t.seller, t.buyer, q)
  BY DEF DemandTrade
<1>3. books'.produced = books.produced /\ books'.consumed = books.consumed
  BY DemandBooks
<1>4. cfg \in Configs /\ holdings \in Table(Nat)
  BY StateFacts
<1>. HIDE DEF q
<1>5. ASSUME NEW a \in Assets, NEW g \in Groups
      PROVE  Total(holdings'[a], g) = Total(holdings[a], g)
  <2>1. g \in SUBSET Nodes /\ IsFiniteSet(g) /\ (t.seller \in g <=> t.buyer \in g)
    BY <1>1, <1>4, GroupFacts, SameGroup
  <2>. QED BY <1>1, <1>2, <1>4, <2>1, MovedTotal
<1>. QED
  BY <1>2, <1>3, <1>5, ConserveKept

LEMMA CrossConserves ==
  ASSUME IInv, GroupsConserve, phase = "cross", NEW t \in NextCross, CrossAssetTrade(t)
  PROVE  GroupsConserve'
<1>. DEFINE h == Moved(holdings, t.sell, t.seller, t.buyer, cfg.maxQty)
<1>1. /\ t.sell \in Assets /\ t.buy \in Assets /\ t.seller \in Nodes /\ t.buyer \in Nodes
      /\ Connected(t.seller, t.buyer) /\ t.seller # t.buyer /\ cfg.maxQty \in Nat
  BY CrossFacts
<1>2. /\ h \in Table(Nat) /\ cfg.maxQty <= holdings[t.sell][t.seller]
      /\ BuyQty(t) \in Nat /\ BuyQty(t) <= h[t.buy][t.buyer]
  BY CrossMoves
<1>3. cfg' = cfg /\ holdings' = Moved(h, t.buy, t.buyer, t.seller, BuyQty(t))
  BY DEF CrossAssetTrade
<1>4. books'.produced = books.produced /\ books'.consumed = books.consumed
  BY DEF CrossAssetTrade
<1>5. cfg \in Configs /\ holdings \in Table(Nat)
  BY StateFacts
<1>6. ASSUME NEW a \in Assets, NEW g \in Groups
      PROVE  Total(holdings'[a], g) = Total(holdings[a], g)
  <2>1. g \in SUBSET Nodes /\ IsFiniteSet(g) /\ (t.seller \in g <=> t.buyer \in g)
    BY <1>1, <1>5, GroupFacts, SameGroup
  <2>2. Total(h[a], g) = Total(holdings[a], g)
    BY <1>1, <1>2, <1>5, <2>1, MovedTotal
  <2>. HIDE DEF h
  <2>3. Total(Moved(h, t.buy, t.buyer, t.seller, BuyQty(t))[a], g) = Total(h[a], g)
    BY <1>1, <1>2, <2>1, MovedTotal
  <2>. QED BY <1>3, <2>2, <2>3
<1>. QED
  BY <1>3, <1>4, <1>6, ConserveKept

LEMMA ConservePreserved ==
  ASSUME IInv, GroupsConserve, [Next]_vars PROVE GroupsConserve'
<1>1. ASSUME cfg' = cfg, holdings' = holdings,
             books'.produced = books.produced, books'.consumed = books.consumed
      PROVE  GroupsConserve'
  BY <1>1, ConserveKept
<1>2. CASE UNCHANGED vars
  BY <1>1, <1>2 DEF vars
<1>3. CASE Next
  <2>1. CASE StartStep BY <2>1, CycleConserves
  <2>2. CASE phase = "demand" /\ \E t \in NextDemand : DemandTrade(t)
    BY <2>2, DemandConserves
  <2>3. CASE EndDemand \/ EndTrading \/ Dynamics
    BY <1>1, <2>3 DEF EndDemand, EndTrading, Dynamics
  <2>4. CASE phase = "arbitrage" /\ \E t \in NextArbitrage : ArbitrageTrade(t)
    BY <1>1, <2>4 DEF ArbitrageTrade
  <2>5. CASE phase = "cross" /\ \E t \in NextCross : CrossAssetTrade(t)
    BY <2>5, CrossConserves
  <2>6. CASE EndStep
    BY <1>1, <2>6 DEF EndStep
  <2>. QED
    BY <1>3, <2>1, <2>2, <2>3, <2>4, <2>5, <2>6 DEF Next
<1>. QED
  BY <1>2, <1>3

\* Within every group of connected nodes the trades of a run neither create nor
\* destroy anything, although InventoryState.Add clamps at zero: no trade takes
\* more than the giver holds.
THEOREM MarketsConserve == Spec => []GroupsConserve
<1>1. Init => IInv /\ GroupsConserve
  BY InvInitially, ConserveInitially
<1>2. IInv /\ GroupsConserve /\ [Next]_vars => IInv' /\ GroupsConserve'
  BY InvPreserved, ConservePreserved
<1>. QED
  BY <1>1, <1>2, PTL DEF Spec

(***************************************************************************)
(* Within a step nothing drifts apart                                      *)
(***************************************************************************)
Lowest(a, g) == Min({prices[a][m] : m \in g})
Highest(a, g) == Max({prices[a][m] : m \in g})

\* The scores f lie, group by group, between the prices of the step.
Within(f) ==
  \A a \in Assets, g \in Groups : \A n \in g : Lowest(a, g) <= f[a][n] /\ f[a][n] <= Highest(a, g)

\* Without the pipeline, prices are scores.
QuotedInv == Market /\ ~cfg.pipeline => prices \in Table(Score) /\ Within(scores)

LEMMA RangeFacts ==
  ASSUME cfg \in Configs, NEW p \in Table(Score), NEW a \in Assets, NEW g \in Groups,
         NEW n \in g
  PROVE  LET Q == {p[a][m] : m \in g}
         IN  /\ Min(Q) \in Score /\ Max(Q) \in Score
             /\ Min(Q) <= p[a][n] /\ p[a][n] <= Max(Q)
<1>. DEFINE Q == {p[a][m] : m \in g}
<1>1. g \subseteq Nodes
  BY GroupFacts
<1>2. Q \subseteq Score /\ p[a][n] \in Q
  BY <1>1 DEF Table
<1>. HIDE DEF Q
<1>3. Q \in SUBSET (0 .. 100) /\ Q \in SUBSET Nat /\ Q # {} /\ 100 \in Nat
  BY <1>2 DEF Score, One
<1>4. Min(Q) \in Q /\ Min(Q) <= p[a][n]
  BY <1>2, <1>3, MinFacts
<1>5. Max(Q) \in Q /\ p[a][n] <= Max(Q)
  BY <1>2, <1>3, MaxFacts
<1>. QED
  BY <1>2, <1>4, <1>5 DEF Q

LEMMA QuotedBounds ==
  ASSUME cfg \in Configs, prices \in Table(Score), NEW a \in Assets, NEW g \in Groups,
         NEW n \in g
  PROVE  /\ Lowest(a, g) \in Score /\ Highest(a, g) \in Score
         /\ Lowest(a, g) <= prices[a][n] /\ prices[a][n] <= Highest(a, g)
BY RangeFacts DEF Lowest, Highest

LEMMA NearInGroup ==
  ASSUME cfg \in Configs, NEW g \in Groups, NEW n \in g
  PROVE  Near[n] \subseteq g
<1>1. n \in Nodes
  BY GroupFacts
<1>2. CASE cfg.topology # "clustered"
  BY <1>1, <1>2, NearFacts DEF Groups
<1>3. CASE cfg.topology = "clustered"
  <2>1. g \in s.clusters
    BY <1>3 DEF Groups
  <2>2. Near[n] = (UNION {c \in s.clusters : n \in c}) \ {n}
    BY <1>1, <1>3 DEF Near, Topology
  <2>3. \A c \in s.clusters : n \in c => c = g
    BY <2>1, ScenarioFacts
  <2>. QED BY <2>2, <2>3
<1>. QED
  BY <1>2, <1>3

LEMMA ClearingBetween ==
  ASSUME NEW x \in Score, NEW y \in Score, NEW lo \in Score, NEW hi \in Score,
         lo <= x, x <= hi, lo <= y, y <= hi
  PROVE  /\ Clearing(x, y) \in Score
         /\ lo <= Clearing(x, y) /\ Clearing(x, y) <= hi
BY DEF Clearing, Score, One

\* A trade moves both scores towards a price between two prices of their group.
LEMMA FeedbackWithin ==
  ASSUME cfg \in Configs, prices \in Table(Score), NEW f \in Table(Score), Within(f),
         NEW a \in Assets, NEW n \in Nodes, NEW m \in Nodes, Connected(n, m)
  PROVE  FeedbackAt(f, a, n, m) \in Table(Score) /\ Within(FeedbackAt(f, a, n, m))
<1>. DEFINE h == FeedbackAt(f, a, n, m)
            price == Clearing(prices[a][n], prices[a][m])
<1>1. n # m
  BY DEF Connected
<1>2. prices \in Table(Nat)
  BY ScoresAreNatural
<1>3. /\ h \in Table(Score)
      /\ \A k \in {n, m} : h[a][k] = Toward(cfg.alpha, f[a][k], price)
      /\ \A k \in Nodes \ {n, m} : h[a][k] = f[a][k]
      /\ \A b \in Assets \ {a} : h[b] = f[b]
  BY <1>1, <1>2, FeedbackFacts
<1>. HIDE DEF h
<1>4. ASSUME NEW b \in Assets, NEW g \in Groups, NEW k \in g
      PROVE  Lowest(b, g) <= h[b][k] /\ h[b][k] <= Highest(b, g)
  <2>. DEFINE lo == Lowest(b, g)
              hi == Highest(b, g)
  <2>1. /\ lo \in Score /\ hi \in Score /\ k \in Nodes
        /\ lo <= f[b][k] /\ f[b][k] <= hi
    BY QuotedBounds, GroupFacts DEF Within
  <2>2. CASE b # a \/ k \notin {n, m}
    BY <1>3, <2>1, <2>2
  <2>3. CASE b = a /\ k \in {n, m}
    <3>1. n \in g /\ m \in g
      BY <2>3, SameGroup
    <3>2. prices[a][n] \in Score /\ prices[a][m] \in Score
      BY DEF Table
    <3>3. /\ lo <= prices[a][n] /\ prices[a][n] <= hi
          /\ lo <= prices[a][m] /\ prices[a][m] <= hi
      BY <2>3, <3>1, QuotedBounds
    <3>. HIDE DEF lo, hi
    <3>4. price \in Score /\ lo <= price /\ price <= hi
      BY <2>1, <3>2, <3>3, ClearingBetween
    <3>. HIDE DEF price
    <3>5. cfg.alpha \in Score /\ f[b][k] \in Score
      BY <2>1, ConfigFacts DEF Table
    <3>6. lo <= Toward(cfg.alpha, f[b][k], price) /\ Toward(cfg.alpha, f[b][k], price) <= hi
      BY <2>1, <3>4, <3>5, TowardInside
    <3>7. h[b][k] = Toward(cfg.alpha, f[b][k], price)
      BY <1>3, <2>3
    <3>. QED BY <3>6, <3>7 DEF lo, hi
  <2>. QED BY <2>2, <2>3
<1>. QED
  BY <1>3, <1>4 DEF Within, h

LEMMA TopologyWithin ==
  ASSUME cfg \in Configs, scores \in Table(Score), prices \in Table(Score), Within(scores)
  PROVE  Within([a \in Assets |-> StepMarketTopology(cfg.alpha, scores[a], Near)])
<1>. DEFINE f == [a \in Assets |-> StepMarketTopology(cfg.alpha, scores[a], Near)]
<1>1. ASSUME NEW a \in Assets, NEW g \in Groups, NEW n \in g
      PROVE  Lowest(a, g) <= f[a][n] /\ f[a][n] <= Highest(a, g)
  <2>1. Lowest(a, g) \in Score /\ Highest(a, g) \in Score /\ n \in Nodes
    BY QuotedBounds, GroupFacts
  <2>2. \A m \in Near[n] \cup {n} :
          Lowest(a, g) <= scores[a][m] /\ scores[a][m] <= Highest(a, g)
    BY NearInGroup DEF Within
  <2>. QED BY <2>1, <2>2, TopologyFacts
<1>. QED
  BY <1>1 DEF Within

\* Prices, groups and bounds stay within a step.
LEMMA QuotedKept ==
  ASSUME cfg' = cfg, prices' = prices, QuotedInv, Market /\ ~cfg.pipeline => Within(scores')
  PROVE  QuotedInv'
<1>1. Market' = Market /\ Assets' = Assets /\ Nodes' = Nodes /\ Groups' = Groups
  BY Fixed
<1>2. \A a, g : Lowest(a, g)' = Lowest(a, g) /\ Highest(a, g)' = Highest(a, g)
  BY DEF Lowest, Highest
<1>. QED
  BY <1>1, <1>2 DEF QuotedInv, Within, Table

LEMMA QuotedInitially == ASSUME Init PROVE QuotedInv
<1>1. cfg \in Configs /\ scores = s.scores /\ prices = s.scores
  BY DEF Init
<1>2. prices \in Table(Score) /\ scores = prices
  BY <1>1, ScenarioFacts
<1>3. Within(prices)
  BY <1>1, <1>2, QuotedBounds DEF Within
<1>. QED
  BY <1>2, <1>3 DEF QuotedInv

LEMMA QuotedPreserved == ASSUME IInv, QuotedInv, [Next]_vars PROVE QuotedInv'
<1>1. cfg \in Configs /\ scores \in Table(Score)
  BY StateFacts
<1>2. ASSUME cfg' = cfg, prices' = prices, scores' = scores PROVE QuotedInv'
  BY <1>2, QuotedKept DEF QuotedInv, Within
<1>3. CASE UNCHANGED vars
  BY <1>2, <1>3 DEF vars
<1>4. CASE StartStep
  <2>1. cfg' = cfg /\ (~cfg.pipeline => prices' = scores') /\ scores' \in Table(Score)
    BY <1>4, StartFacts DEF StartStep
  <2>. SUFFICES ASSUME ~cfg.pipeline PROVE prices' \in Table(Score)' /\ Within(scores)'
    BY <2>1 DEF QuotedInv
  <2>2. prices' \in Table(Score)'
    BY <2>1, Fixed DEF Table
  <2>3. Assets' = Assets /\ Groups' = Groups
    BY <2>1, Fixed
  <2>4. ASSUME NEW a \in Assets, NEW g \in Groups, NEW n \in g
        PROVE  Lowest(a, g)' <= scores'[a][n] /\ scores'[a][n] <= Highest(a, g)'
    <3>1. /\ Lowest(a, g)' = Min({scores'[a][m] : m \in g})
          /\ Highest(a, g)' = Max({scores'[a][m] : m \in g})
      BY <2>1 DEF Lowest, Highest
    <3>. QED BY <1>1, <2>1, <3>1, RangeFacts
  <2>. QED BY <2>2, <2>3, <2>4 DEF Within
<1>5. CASE phase = "demand" /\ \E t \in NextDemand : DemandTrade(t)
  <2>1. PICK t \in NextDemand : DemandTrade(t)
    BY <1>5
  <2>2. /\ t.asset \in Assets /\ t.seller \in Nodes /\ t.buyer \in Nodes
        /\ Connected(t.seller, t.buyer)
    BY DemandFacts
  <2>3. cfg' = cfg /\ prices' = prices /\ scores' = FeedbackAt(scores, t.asset, t.seller, t.buyer)
    BY <2>1 DEF DemandTrade
  <2>. QED BY <1>1, <2>2, <2>3, FeedbackWithin, QuotedKept DEF QuotedInv
<1>6. CASE phase = "arbitrage" /\ \E t \in NextArbitrage : ArbitrageTrade(t)
  <2>1. PICK t \in NextArbitrage : ArbitrageTrade(t)
    BY <1>6
  <2>2. /\ 1 \in Assets /\ t.seller \in Nodes /\ t.buyer \in Nodes
        /\ Connected(t.seller, t.buyer)
    BY <1>1, <1>6, ArbitrageFacts, ScenarioFacts
  <2>3. cfg' = cfg /\ prices' = prices /\ scores' = FeedbackAt(scores, 1, t.seller, t.buyer)
    BY <2>1 DEF ArbitrageTrade
  <2>. QED BY <1>1, <2>2, <2>3, FeedbackWithin, QuotedKept DEF QuotedInv
<1>7. CASE phase = "cross" /\ \E t \in NextCross : CrossAssetTrade(t)
  <2>1. PICK t \in NextCross : CrossAssetTrade(t)
    BY <1>7
  <2>2. /\ t.sell \in Assets /\ t.buy \in Assets /\ t.seller \in Nodes /\ t.buyer \in Nodes
        /\ Connected(t.seller, t.buyer)
    BY CrossFacts
  <2>. DEFINE f == FeedbackAt(scores, t.sell, t.seller, t.buyer)
  <2>3. /\ cfg' = cfg /\ prices' = prices
        /\ scores' = FeedbackAt(f, t.buy, t.seller, t.buyer)
    BY <2>1 DEF CrossAssetTrade
  <2>4. ASSUME prices \in Table(Score), Within(scores) PROVE Within(scores')
    <3>1. f \in Table(Score) /\ Within(f)
      BY <1>1, <2>2, <2>4, FeedbackWithin
    <3>. HIDE DEF f
    <3>. QED BY <1>1, <2>2, <2>3, <2>4, <3>1, FeedbackWithin
  <2>. QED BY <2>3, <2>4, QuotedKept DEF QuotedInv
<1>8. CASE EndDemand \/ EndTrading
  BY <1>2, <1>8 DEF EndDemand, EndTrading
<1>9. CASE EndStep
  <2>1. /\ cfg' = cfg /\ prices' = prices
        /\ scores' = [a \in Assets |-> StepMarketTopology(cfg.alpha, scores[a], Near)]
    BY <1>9 DEF EndStep
  <2>. QED BY <1>1, <2>1, TopologyWithin, QuotedKept DEF QuotedInv
<1>10. CASE Dynamics
  <2>1. ~Market /\ cfg' = cfg
    BY <1>10 DEF Dynamics
  <2>2. ~Market'
    BY <2>1, Fixed
  <2>. QED BY <2>2 DEF QuotedInv
<1>. QED
  BY <1>3, <1>4, <1>5, <1>6, <1>7, <1>8, <1>9, <1>10 DEF Next

\* Without the pipeline no trade of a step takes a score out of the range of
\* prices that its group began the step with, however stale they are by then, nor
\* does StepMarketTopology at the end of the step.
THEOREM TradesDoNotDiverge == Spec => []StepNeverDiverges
<1>1. Init => IInv /\ QuotedInv
  BY InvInitially, QuotedInitially
<1>2. IInv /\ QuotedInv /\ [Next]_vars => IInv' /\ QuotedInv'
  BY InvPreserved, QuotedPreserved
<1>3. QuotedInv => StepNeverDiverges
  BY DEF QuotedInv, Within, Lowest, Highest, StepNeverDiverges
<1>. QED
  BY <1>1, <1>2, <1>3, PTL DEF Spec

(***************************************************************************)
(* What was fulfilled was needed                                           *)
(***************************************************************************)
\* Moving at most the seller's surplus and the buyer's need takes it off both, and
\* leaves the need of the seller and the surplus of the buyer at zero.
LEMMA NeedMoved ==
  ASSUME cfg \in Configs, NEW h \in Table(Nat), NEW a \in Assets,
         NEW n \in Nodes, NEW m \in Nodes, n # m, NEW q \in Nat \ {0},
         q <= Surplus(h, a, n), q <= Need(h, a, m)
  PROVE  LET k == Moved(h, a, n, m, q)
         IN  /\ k \in Table(Nat)
             /\ Surplus(k, a, n) = Surplus(h, a, n) - q
             /\ Need(k, a, m) = Need(h, a, m) - q
             /\ \A i \in Nodes \ {n} : Surplus(k, a, i) = Surplus(h, a, i)
             /\ \A i \in Nodes \ {m} : Need(k, a, i) = Need(h, a, i)
<1>. DEFINE k == Moved(h, a, n, m, q)
<1>1. /\ Surplus(h, a, n) <= h[a][n] /\ h[a][n] \in Nat /\ s.targets[a][n] \in Nat
      /\ h[a][m] \in Nat /\ s.targets[a][m] \in Nat
      /\ Surplus(h, a, n) \in Nat /\ Need(h, a, m) \in Nat
  BY NeedFacts
<1>2. q <= h[a][n]
  BY <1>1
<1>3. /\ k \in Table(Nat) /\ k[a][n] = h[a][n] - q /\ k[a][m] = h[a][m] + q
      /\ \A i \in Nodes \ {n, m} : k[a][i] = h[a][i]
  BY <1>2, MovedFacts
<1>. HIDE DEF k
<1>4. /\ Surplus(k, a, n) = Surplus(h, a, n) - q /\ Need(k, a, n) = Need(h, a, n)
      /\ Need(k, a, m) = Need(h, a, m) - q /\ Surplus(k, a, m) = Surplus(h, a, m)
  <2>. DEFINE x == h[a][n]
              y == h[a][m]
              u == s.targets[a][n]
              v == s.targets[a][m]
  <2>1. x \in Nat /\ y \in Nat /\ u \in Nat /\ v \in Nat
    BY <1>1
  <2>2. q <= Max0(x - u) /\ q <= Max0(v - y)
    BY DEF Surplus, Need
  <2>3. k[a][n] = x - q /\ k[a][m] = y + q
    BY <1>3
  <2>. HIDE DEF x, y, u, v
  <2>4. /\ Max0((x - q) - u) = Max0(x - u) - q /\ Max0(u - (x - q)) = Max0(u - x)
        /\ Max0(v - (y + q)) = Max0(v - y) - q /\ Max0((y + q) - v) = Max0(y - v)
    BY <2>1, <2>2 DEF Max0
  <2>5. /\ Surplus(k, a, n) = Max0((x - q) - u) /\ Need(k, a, n) = Max0(u - (x - q))
        /\ Surplus(k, a, m) = Max0((y + q) - v) /\ Need(k, a, m) = Max0(v - (y + q))
    BY <2>3, Zenon DEF Surplus, Need, u, v
  <2>6. /\ Surplus(h, a, n) = Max0(x - u) /\ Need(h, a, n) = Max0(u - x)
        /\ Surplus(h, a, m) = Max0(y - v) /\ Need(h, a, m) = Max0(v - y)
    BY Zenon DEF Surplus, Need, x, y, u, v
  <2>. QED BY <2>4, <2>5, <2>6, Zenon
<1>5. /\ \A i \in Nodes \ {n, m} : Surplus(k, a, i) = Surplus(h, a, i)
      /\ \A i \in Nodes \ {n, m} : Need(k, a, i) = Need(h, a, i)
  BY <1>3 DEF Surplus, Need
<1>. QED
  BY <1>3, <1>4, <1>5 DEF k

LEMMA DemandFulfils ==
  ASSUME IInv, phase = "demand", NEW t \in NextDemand, DemandTrade(t), NEW a \in Assets,
         books'.fulfilled[a] # books.fulfilled[a]
  PROVE  LET quantity == books'.fulfilled[a] - books.fulfilled[a]
         IN  Unmet(a)' = Unmet(a) - quantity /\ Excess(a)' = Excess(a) - quantity
<1>. DEFINE q == Quantity(t.asset, t.seller, t.buyer)
            f == [i \in Nodes |-> Need(holdings, a, i)]
            g == [i \in Nodes |-> Need(holdings', a, i)]
            F == [i \in Nodes |-> Surplus(holdings, a, i)]
            G == [i \in Nodes |-> Surplus(holdings', a, i)]
<1>1. /\ t.asset \in Assets /\ t.seller \in Nodes /\ t.buyer \in Nodes
      /\ t.seller # t.buyer /\ q \in Nat \ {0}
      /\ q <= Surplus(holdings, t.asset, t.seller) /\ q <= Need(holdings, t.asset, t.buyer)
  BY DemandFacts
<1>2. /\ cfg \in Configs /\ holdings \in Table(Nat) /\ books.fulfilled \in Amounts
      /\ IsFiniteSet(Nodes)
  BY StateFacts, BooksFacts, ScenarioFacts
<1>3. /\ cfg' = cfg /\ holdings' = Moved(holdings, t.asset, t.seller, t.buyer, q)
      /\ books'.fulfilled = [books.fulfilled EXCEPT ![t.asset] = books.fulfilled[t.asset] + q]
  BY DemandBooks DEF DemandTrade
<1>. HIDE DEF q
<1>4. a = t.asset
  BY <1>2, <1>3 DEF Amounts
<1>5. books'.fulfilled[a] - books.fulfilled[a] = q
  <2>1. books.fulfilled[a] \in Nat
    BY <1>2 DEF Amounts
  <2>2. books'.fulfilled[a] = books.fulfilled[a] + q
    BY <1>2, <1>3, <1>4 DEF Amounts
  <2>. QED BY <1>1, <2>1, <2>2
<1>6. /\ holdings' \in Table(Nat)
      /\ Surplus(holdings', a, t.seller) = Surplus(holdings, a, t.seller) - q
      /\ Need(holdings', a, t.buyer) = Need(holdings, a, t.buyer) - q
      /\ \A i \in Nodes \ {t.seller} : Surplus(holdings', a, i) = Surplus(holdings, a, i)
      /\ \A i \in Nodes \ {t.buyer} : Need(holdings', a, i) = Need(holdings, a, i)
  BY <1>1, <1>2, <1>3, <1>4, NeedMoved
<1>7. /\ \A i \in Nodes : f[i] \in Int /\ g[i] \in Int
      /\ \A i \in Nodes : F[i] \in Int /\ G[i] \in Int
  BY <1>2, <1>6, NeedFacts
<1>8. /\ g[t.buyer] = f[t.buyer] - q /\ \A i \in Nodes \ {t.buyer} : g[i] = f[i]
      /\ G[t.seller] = F[t.seller] - q /\ \A i \in Nodes \ {t.seller} : G[i] = F[i]
  BY <1>1, <1>6
<1>9. Unmet(a) = SumFunctionOnSet(f, Nodes) /\ Excess(a) = SumFunctionOnSet(F, Nodes)
  BY DEF Unmet, Excess
<1>10. Unmet(a)' = SumFunctionOnSet(g, Nodes) /\ Excess(a)' = SumFunctionOnSet(G, Nodes)
  <2>1. Nodes' = Nodes /\ s' = s
    BY <1>3, Fixed
  <2>2. /\ [i \in Nodes |-> Need(holdings, a, i)]' = g
        /\ [i \in Nodes |-> Surplus(holdings, a, i)]' = G
    BY <2>1 DEF Need, Surplus
  <2>. QED BY <2>1, <2>2 DEF Unmet, Excess
<1>. HIDE DEF f, g, F, G
<1>11. SumFunctionOnSet(g, Nodes) = SumFunctionOnSet(f, Nodes) + g[t.buyer] - f[t.buyer]
  <2>1. t.buyer \in Nodes /\ IsFiniteSet(Nodes)
    BY <1>1, <1>2
  <2>2. \A i \in Nodes : f[i] \in Int /\ g[i] \in Int
    BY <1>7
  <2>3. \A i \in Nodes \ {t.buyer} : g[i] = f[i]
    BY <1>8
  <2>. QED BY <2>1, <2>2, <2>3, SumChange
<1>12. SumFunctionOnSet(G, Nodes) = SumFunctionOnSet(F, Nodes) + G[t.seller] - F[t.seller]
  <2>1. t.seller \in Nodes /\ IsFiniteSet(Nodes)
    BY <1>1, <1>2
  <2>2. \A i \in Nodes : F[i] \in Int /\ G[i] \in Int
    BY <1>7
  <2>3. \A i \in Nodes \ {t.seller} : G[i] = F[i]
    BY <1>8
  <2>. QED BY <2>1, <2>2, <2>3, SumChange
<1>13. SumFunctionOnSet(f, Nodes) \in Int /\ SumFunctionOnSet(F, Nodes) \in Int
  BY <1>2, <1>7, SumType
<1>14. /\ SumFunctionOnSet(g, Nodes) = SumFunctionOnSet(f, Nodes) - q
       /\ SumFunctionOnSet(G, Nodes) = SumFunctionOnSet(F, Nodes) - q
  <2>. DEFINE x == SumFunctionOnSet(f, Nodes)
              y == SumFunctionOnSet(F, Nodes)
              u == f[t.buyer]
              v == F[t.seller]
  <2>1. x \in Int /\ y \in Int /\ u \in Int /\ v \in Int /\ q \in Int
    BY <1>1, <1>7, <1>13
  <2>2. /\ SumFunctionOnSet(g, Nodes) = x + (u - q) - u
        /\ SumFunctionOnSet(G, Nodes) = y + (v - q) - v
    BY <1>8, <1>11, <1>12
  <2>. HIDE DEF x, y, u, v
  <2>3. x + (u - q) - u = x - q /\ y + (v - q) - v = y - q
    BY <2>1
  <2>. QED BY <2>2, <2>3 DEF x, y
<1>. QED
  BY <1>5, <1>9, <1>10, <1>14

\* Only a demand trade counts as fulfilled demand.
LEMMA OnlyDemandFulfils ==
  ASSUME IInv, Next, ~(phase = "demand" /\ \E t \in NextDemand : DemandTrade(t))
  PROVE  books'.fulfilled = books.fulfilled
<1>1. books \in Books
  BY StateFacts
<1>2. CASE StartStep \/ EndStep
  BY <1>1, <1>2 DEF StartStep, EndStep, Books
<1>3. CASE EndDemand \/ EndTrading \/ Dynamics
  BY <1>3 DEF EndDemand, EndTrading, Dynamics
<1>4. CASE phase = "arbitrage" /\ \E t \in NextArbitrage : ArbitrageTrade(t)
  BY <1>4 DEF ArbitrageTrade
<1>5. CASE phase = "cross" /\ \E t \in NextCross : CrossAssetTrade(t)
  BY <1>5 DEF CrossAssetTrade
<1>. QED
  BY <1>2, <1>3, <1>4, <1>5 DEF Next

\* What DemandFulfilled counts was needed by its buyer and could be spared by its
\* seller when the trade came, not only when it was quoted.
THEOREM OnlyNeedsFulfilled == Spec => FulfilledWasNeeded
<1>. DEFINE Fulfils ==
       \A a \in Assets :
         books'.fulfilled[a] # books.fulfilled[a] =>
           LET quantity == books'.fulfilled[a] - books.fulfilled[a]
           IN  Unmet(a)' = Unmet(a) - quantity /\ Excess(a)' = Excess(a) - quantity
<1>1. ASSUME IInv, Next PROVE Fulfils
  <2>1. CASE phase = "demand" /\ \E t \in NextDemand : DemandTrade(t)
    BY <1>1, <2>1, DemandFulfils
  <2>2. CASE ~(phase = "demand" /\ \E t \in NextDemand : DemandTrade(t))
    BY <1>1, <2>2, OnlyDemandFulfils
  <2>. QED BY <2>1, <2>2
<1>2. Init => IInv
  BY InvInitially
<1>3. IInv /\ [Next]_vars => IInv' /\ [Fulfils]_vars
  BY <1>1, InvPreserved
<1>. QED
  BY <1>2, <1>3, PTL DEF Spec, FulfilledWasNeeded
=============================================================================
