----------------------------- MODULE Simulation -----------------------------
(***************************************************************************)
(* The simulations of core/sim: RunMarketSimulation (one asset; demand     *)
(* trades, then arbitrage), RunMultiMarketSimulation (two assets; demand   *)
(* trades, then cross-asset trades) and RunDynamics/RunLocalDynamics       *)
(* (scores only).  Each is one goroutine; an action is one trade of its    *)
(* loops, or what happens between two of them.                             *)
(*                                                                         *)
(* Tables are indexed by asset, then node.  All trades of a step are       *)
(* quoted on the prices read at its start, while every trade moves the     *)
(* scores that prices come from.  Price model "pipeline" (core/price) is   *)
(* any table of PipelineTables.                                            *)
(***************************************************************************)
EXTENDS Scenarios

CONSTANTS
  Configs,        \* the options: see ConfigOK
  PipelineTables, \* price tables of the pipeline model
  Roundings,      \* how a step of the dynamics rounds: a slip for each node
  Steps           \* bound on the steps of a run

\* Assets and nodes are numbered; clusters are disjoint.
IsScenario(sc) ==
  LET Table(S) == [DOMAIN sc.scores -> [DOMAIN sc.scores[1] -> S]]
  IN  /\ sc.scores \in Seq(Seq(Score)) /\ 1 \in DOMAIN sc.scores
      /\ sc.scores \in Table(Score)
      /\ {sc.holdings, sc.targets, sc.consumption, sc.production, sc.weights} \subseteq Table(Nat)
      /\ \A c \in sc.clusters : c \subseteq DOMAIN sc.scores[1]
      /\ \A c, d \in sc.clusters : c = d \/ c \cap d = {}

\* MarketConfig, MultiMarketConfig and DynamicsConfig, with their scenario.
IsConfig(c) ==
  /\ c.program \in {"single", "multi", "dynamics", "local"}
  /\ c.scenario \in IF c.program = "multi" THEN MultiScenarios ELSE SingleScenarios
  /\ IsScenario(c.scenario)
  /\ c.program # "multi" => DOMAIN c.scenario.scores = {1}
  /\ c.topology \in {"full", "chain", "clustered"}
  /\ {c.demand, c.cycle, c.substitution, c.pipeline, c.includeSelf} \subseteq BOOLEAN
  /\ c.alpha \in Score /\ c.tau \in Score
  /\ c.maxQty \in Nat \ {0} /\ c.spread \in Nat /\ c.minProfit \in Nat
  /\ c.tradesPerStep \in Nat

\* The pipeline's price of the single asset is at most 1; with two assets the need
\* of a node multiplies it.
IsTable(p, c) ==
  \A a \in DOMAIN c.scenario.scores, n \in DOMAIN c.scenario.scores[1] :
    p[a][n] \in IF c.program = "multi" THEN Nat ELSE Score

ASSUME SimulationAssumption ==
  /\ Steps \in Nat
  /\ \A c \in Configs : IsConfig(c)
  /\ \A c \in Configs, p \in PipelineTables : c.pipeline => IsTable(p, c)
  /\ \A c \in Configs, r \in Roundings : \A n \in DOMAIN c.scenario.scores[1] : r[n] \in Slip

VARIABLES
  cfg,       \* the configuration
  scores,    \* AcceptanceState, MultiAcceptanceState
  holdings,  \* InventoryState
  prices,    \* the price table that this step trades on
  step, phase,
  cursor,    \* rank of the last pair that the loop has traded
  executed,  \* trades of this step
  books      \* DemandFulfilled, and what was produced and consumed

vars == <<cfg, scores, holdings, prices, step, phase, cursor, executed, books>>

s == cfg.scenario
Assets == DOMAIN s.scores
Nodes == DOMAIN s.scores[1]
Near == Topology(cfg.topology, Nodes, s.clusters)

\* TradesPerStep, where 0 stands for one trade per node and asset.
Limit ==
  IF cfg.tradesPerStep = 0 THEN Len(s.scores[1]) * Len(s.scores) ELSE cfg.tradesPerStep
LimitMissed == executed > Limit
LimitReached == executed >= Limit

\* marketPairConnected
AnyPair(n, m) == n # m
Connected(n, m) == n # m /\ m \in Near[n]

-----------------------------------------------------------------------------
(***************************************************************************)
(* Inventory, demand and the cycle                                         *)
(***************************************************************************)
Max0(x) == IF x < 0 THEN 0 ELSE x

\* InventoryState.Add: holdings are clamped at zero.
Plus(h, a, n, q) == [h EXCEPT ![a][n] = Max0(@ + q)]
Moved(h, a, from, to, q) == Plus(Plus(h, a, from, -q), a, to, q)

Need(h, a, n) == Max0(s.targets[a][n] - h[a][n])
Surplus(h, a, n) == Max0(h[a][n] - s.targets[a][n])

\* The single market needs EnableDemand for its cycle, the other does not.
Cycling == cfg.cycle /\ (cfg.program = "multi" \/ cfg.demand)

\* ConsumptionState.ApplyWithVolume: nobody consumes more than they hold.
Eaten == [a \in Assets |-> [n \in Nodes |-> Min({s.consumption[a][n], holdings[a][n]})]]
\* ... and then ProductionState.ApplyWithVolume.
AfterCycle ==
  [a \in Assets |-> [n \in Nodes |-> holdings[a][n] - Eaten[a][n] + s.production[a][n]]]

\* StepDemandPricePressure: need raises a score, surplus lowers it.
Pressure(h, a, n) ==
  LET need == Need(h, a, n)
      surplus == Surplus(h, a, n)
      target == s.targets[a][n]
  IN  Clamp01(scores[a][n]
        + (cfg.alpha * ((need * (One - scores[a][n])) \div (target + One))) \div One
        - (cfg.alpha * ((surplus * scores[a][n]) \div (h[a][n] + target + One))) \div One)

\* PreferredAsset: the first of the most valuable ones.
EffectiveValue(table, n, a) == table[a][n] * s.weights[a][n]
Preferred(table, n) ==
  Min({a \in Assets : \A b \in Assets :
         EffectiveValue(table, n, b) <= EffectiveValue(table, n, a)})

\* StepSubstitutionPressure
Substituted(f, h, table) ==
  [a \in Assets |-> [n \in Nodes |->
     IF a = Preferred(table, n)
     THEN Clamp01(f[a][n] + (cfg.alpha * (One - f[a][n])) \div (10 * One))
     ELSE IF h[a][n] > 0
          THEN Clamp01(f[a][n] - (cfg.alpha * f[a][n]) \div (10 * One))
          ELSE f[a][n]]]

-----------------------------------------------------------------------------
(***************************************************************************)
(* Quotes                                                                  *)
(***************************************************************************)
Overlaps(ask, bid) == bid * One >= ask * (One + cfg.spread)
Clearing(ask, bid) == (ask + bid) \div 2

\* QuoteDemandTrade and QuoteTrade, the latter without quantities.
SurplusOnly(a, seller, buyer) == Min({Surplus(holdings, a, seller), cfg.maxQty})
Quantity(a, seller, buyer) ==
  Min({Surplus(holdings, a, seller), Need(holdings, a, buyer), cfg.maxQty})
DemandQuotes ==
  {t \in [asset : Assets, seller : Nodes, buyer : Nodes] :
     /\ Connected(t.seller, t.buyer)
     /\ Quantity(t.asset, t.seller, t.buyer) > 0
     /\ Overlaps(prices[t.asset][t.seller], prices[t.asset][t.buyer])}

\* FindArbitrage, and of what it found what can be traded: buy cheap, sell dear.
ArbitrageQuotes ==
  {t \in [seller : Nodes, buyer : Nodes] :
     /\ t.seller # t.buyer
     /\ prices[1][t.buyer] - prices[1][t.seller] >= cfg.minProfit
     /\ Connected(t.seller, t.buyer)
     /\ Overlaps(prices[1][t.seller], prices[1][t.buyer])}

\* For maxQty of the sold asset, the seller asks for this much of the other, and
\* the buyer offers that much, both in parts of one denominator.
Asked(t) == cfg.maxQty * prices[t.sell][t.seller] * prices[t.buy][t.buyer] * (One + cfg.spread)
Offered(t) == cfg.maxQty * prices[t.sell][t.buyer] * prices[t.buy][t.seller] * One
Parts(t) == prices[t.buy][t.seller] * prices[t.buy][t.buyer] * One

CeilDiv(x, y) == (x + y - 1) \div y

Priced(t) == \A n \in {t.seller, t.buyer} : prices[t.sell][n] > 0 /\ prices[t.buy][n] > 0
InStock(t) == holdings[t.sell][t.seller] >= cfg.maxQty

OnCredit(t, quantity) == TRUE
CanPay(t, quantity) == holdings[t.buy][t.buyer] >= quantity

\* QuoteCrossAssetTrade: half way between the two.
ExchangeQty(t) == CeilDiv(Asked(t) + Offered(t), 2 * Parts(t))
CanExchange(t) ==
  InStock(t) /\ Priced(t) /\ Offered(t) >= Asked(t) /\ CanPay(t, ExchangeQty(t))

\* QuoteSubstitutionSwitch: what the seller asks for, whatever the buyer thinks.
SwitchQty(t) == CeilDiv(Asked(t), Parts(t))
CanSwitch(t) ==
  cfg.substitution /\ InStock(t) /\ Priced(t) /\ CanPay(t, SwitchQty(t))

BuyQty(t) == IF CanExchange(t) THEN ExchangeQty(t) ELSE SwitchQty(t)

\* substitutionSellerCanSwitch
WantsSwitch(n, give, take) ==
  /\ cfg.substitution
  /\ holdings[give][n] > 0
  /\ Preferred(prices, n) = take
  /\ EffectiveValue(prices, n, take) > EffectiveValue(prices, n, give)
Willing(n, give, take) ==
  \/ Surplus(holdings, give, n) > 0 /\ Need(holdings, take, n) > 0
  \/ WantsSwitch(n, give, take)

CrossQuotes ==
  {t \in [sell : Assets, buy : Assets, seller : Nodes, buyer : Nodes] :
     /\ t.sell # t.buy
     /\ Connected(t.seller, t.buyer)
     /\ Willing(t.seller, t.sell, t.buy) /\ Willing(t.buyer, t.buy, t.sell)
     /\ CanExchange(t) \/ CanSwitch(t)}

\* ApplyTradeFeedback: the scores of both sides move towards the price.
Feedback(f, a, seller, buyer, price) ==
  [f EXCEPT ![a][seller] = Toward(cfg.alpha, @, price),
            ![a][buyer] = Toward(cfg.alpha, @, price)]
FeedbackAt(f, a, seller, buyer) ==
  Feedback(f, a, seller, buyer, Clearing(prices[a][seller], prices[a][buyer]))

-----------------------------------------------------------------------------
(***************************************************************************)
(* The loops meet the pairs in a fixed order and each of them once: the    *)
(* next trade is the first quote beyond the last one.                      *)
(***************************************************************************)
Rank(outer, inner) == outer * (One + 1) + inner

DemandRank(t) == Rank(Rank(t.asset, t.seller), t.buyer)
CrossRank(t) == Rank(Rank(Rank(t.sell, t.buy), t.seller), t.buyer)
\* Opportunities are sorted by profit, then by the nodes.
ArbitrageRank(t) ==
  Rank(Rank(One - (prices[1][t.buyer] - prices[1][t.seller]), t.seller), t.buyer)

\* The next trade of a loop, if there is one, among quotes with their ranks; the
\* inner loops break at the limit.
Upcoming(rank) ==
  LET open == {t \in DOMAIN rank : rank[t] > cursor}
  IN  IF LimitReached THEN {} ELSE {t \in open : \A u \in open : rank[t] <= rank[u]}

NextDemand == Upcoming([t \in DemandQuotes |-> DemandRank(t)])
NextArbitrage == Upcoming([t \in ArbitrageQuotes |-> ArbitrageRank(t)])
NextCross == Upcoming([t \in CrossQuotes |-> CrossRank(t)])

-----------------------------------------------------------------------------
Zero == [a \in Assets |-> 0]
ZeroEach == [a \in Assets |-> [n \in Nodes |-> 0]]

Init ==
  /\ cfg \in Configs
  /\ scores = s.scores
  /\ holdings = s.holdings
  /\ prices = s.scores
  /\ step = 0 /\ phase = "step" /\ cursor = 0 /\ executed = 0
  /\ books = [fulfilled |-> Zero, produced |-> ZeroEach, consumed |-> ZeroEach]

Market == cfg.program \in {"single", "multi"}

Enter(p) == phase' = p /\ cursor' = 0

\* The head of a step: the cycle, its pressure on the scores, substitution, and
\* the price table.
StartStep ==
  /\ phase = "step" /\ step < Steps /\ Market
  /\ step' = step + 1 /\ executed' = 0
  /\ LET stock == IF Cycling THEN AfterCycle ELSE holdings
         pressed == IF Cycling THEN [a \in Assets |-> [n \in Nodes |-> Pressure(stock, a, n)]]
                    ELSE scores
         switching == cfg.program = "multi" /\ cfg.demand /\ cfg.substitution
     IN  /\ holdings' = stock
         /\ \E table \in IF cfg.pipeline THEN {[a \in Assets |-> [n \in Nodes |-> p[a][n]]] : p \in PipelineTables}
                         ELSE {pressed} :
              /\ scores' = IF switching THEN Substituted(pressed, stock, table) ELSE pressed
              /\ prices' = IF cfg.pipeline THEN table ELSE scores'
  /\ books' = IF ~Cycling THEN books
              ELSE [books EXCEPT
                     !.consumed = [a \in Assets |-> [n \in Nodes |-> @[a][n] + Eaten[a][n]]],
                     !.produced = [a \in Assets |-> [n \in Nodes |-> @[a][n] + s.production[a][n]]]]
  /\ Enter(IF cfg.demand THEN "demand" ELSE IF cfg.program = "single" THEN "arbitrage" ELSE "topology")
  /\ UNCHANGED cfg

DemandTrade(t) ==
  LET quantity == Quantity(t.asset, t.seller, t.buyer)
  IN  /\ cursor' = DemandRank(t)
      /\ holdings' = Moved(holdings, t.asset, t.seller, t.buyer, quantity)
      /\ scores' = FeedbackAt(scores, t.asset, t.seller, t.buyer)
      /\ executed' = executed + 1
      /\ books' = [books EXCEPT !.fulfilled[t.asset] = @ + quantity]
      /\ UNCHANGED <<cfg, prices, step, phase>>

EndDemand ==
  /\ phase = "demand"
  /\ NextDemand = {}
  /\ Enter(IF cfg.program = "single" THEN "arbitrage" ELSE "cross")
  /\ UNCHANGED <<cfg, scores, holdings, prices, step, executed, books>>

\* An arbitrage trade moves no inventory.
ArbitrageTrade(t) ==
  /\ cursor' = ArbitrageRank(t)
  /\ scores' = FeedbackAt(scores, 1, t.seller, t.buyer)
  /\ executed' = executed + 1
  /\ UNCHANGED <<cfg, holdings, prices, step, phase, books>>

CrossAssetTrade(t) ==
  /\ cursor' = CrossRank(t)
  /\ holdings' = Moved(Moved(holdings, t.sell, t.seller, t.buyer, cfg.maxQty),
                       t.buy, t.buyer, t.seller, BuyQty(t))
  /\ scores' = FeedbackAt(FeedbackAt(scores, t.sell, t.seller, t.buyer),
                          t.buy, t.seller, t.buyer)
  /\ executed' = executed + 1
  /\ UNCHANGED <<cfg, prices, step, phase, books>>

EndTrading ==
  /\ \/ phase = "cross" /\ NextCross = {}
     \/ phase = "arbitrage" /\ NextArbitrage = {}
  /\ Enter("topology")
  /\ UNCHANGED <<cfg, scores, holdings, prices, step, executed, books>>

\* The tail of a step: every node moves towards its neighbourhood.
EndStep ==
  /\ phase = "topology"
  /\ scores' = [a \in Assets |-> StepMarketTopology(cfg.alpha, scores[a], Near)]
  /\ Enter("step")
  /\ UNCHANGED <<cfg, holdings, prices, step, executed, books>>

\* A step of RunDynamics or RunLocalDynamics.
Dynamics ==
  /\ phase = "step" /\ step < Steps /\ ~Market
  /\ step' = step + 1
  /\ \E slip \in Roundings :
       scores' =
         <<IF cfg.program = "dynamics"
           THEN StepAcceptance(cfg.alpha, scores[1], cfg.tau, slip)
           ELSE StepLocalAcceptance(cfg.alpha, scores[1], Near, cfg.tau,
                                    cfg.includeSelf, slip)>>
  /\ UNCHANGED <<cfg, holdings, prices, phase, cursor, executed, books>>

Next ==
  \/ StartStep
  \/ phase = "demand" /\ \E t \in NextDemand : DemandTrade(t)
  \/ EndDemand
  \/ phase = "arbitrage" /\ \E t \in NextArbitrage : ArbitrageTrade(t)
  \/ phase = "cross" /\ \E t \in NextCross : CrossAssetTrade(t)
  \/ EndTrading
  \/ EndStep
  \/ Dynamics

Spec == Init /\ [][Next]_vars

-----------------------------------------------------------------------------
Amounts == [Assets -> Nat]

Books ==
  [fulfilled : Amounts,
   produced : [Assets -> [Nodes -> Nat]], consumed : [Assets -> [Nodes -> Nat]]]

\* Scores stay in [0, 1], whatever the prices; holdings are not negative, and a
\* step trades no more often than TradesPerStep, in all of its loops together.
SimulationTypeOK ==
  /\ scores \in [Assets -> [Nodes -> Score]] /\ prices \in [Assets -> [Nodes -> Nat]]
  /\ holdings \in [Assets -> [Nodes -> Nat]]
  /\ step \in 0 .. Steps /\ executed \in 0 .. Limit /\ cursor \in Nat
  /\ phase \in {"step", "demand", "arbitrage", "cross", "topology"}
  /\ books \in Books

Total(f, S) == SumFunctionOnSet(f, S)

\* The nodes that are connected at all.
Groups == IF cfg.topology = "clustered" THEN s.clusters ELSE {Nodes}

\* Trades conserve every asset within every group of connected nodes: it holds
\* what it had and what it produced and did not consume.  InventoryState.Add
\* clamps at zero, so whoever gave more than they have would create the rest.
GroupsConserve ==
  \A a \in Assets, g \in Groups :
    Total(holdings[a], g) =
      Total(s.holdings[a], g) + Total(books.produced[a], g) - Total(books.consumed[a], g)

\* Within a step no group of connected nodes drifts apart ("trades reduce
\* divergence"): however many trades move a score, on prices that earlier trades
\* of the step made stale, it stays between the prices the step began with.
StepNeverDiverges ==
  Market /\ ~cfg.pipeline =>
    \A a \in Assets, g \in Groups : \A n \in g :
      LET quoted == {prices[a][m] : m \in g}
      IN  Min(quoted) <= scores[a][n] /\ scores[a][n] <= Max(quoted)

Unmet(a) == SumFunctionOnSet([n \in Nodes |-> Need(holdings, a, n)], Nodes)
Excess(a) == SumFunctionOnSet([n \in Nodes |-> Surplus(holdings, a, n)], Nodes)

\* What DemandFulfilled counts was needed and could be spared: it is gone from
\* the unmet demand and from the surplus of the whole market, with no seller
\* left in need and no buyer with more than the target.
FulfilledWasNeeded ==
  [][\A a \in Assets :
       books'.fulfilled[a] # books.fulfilled[a] =>
         LET quantity == books'.fulfilled[a] - books.fulfilled[a]
         IN  Unmet(a)' = Unmet(a) - quantity /\ Excess(a)' = Excess(a) - quantity]_vars

\* Global acceptance does not turn (StepAcceptance): while the share of accepting
\* nodes is above tau nobody leaves them, and while it is below tau nobody joins,
\* however scores and shares are rounded.  That takes a share at least a
\* hundredth away from tau: of a share that meets tau exactly, where float64
\* decides, nothing is said.
BandwagonNeverTurns ==
  [][cfg.program = "dynamics" =>
       LET share == Ratio(scores[1], Nodes, cfg.tau)
           before == Accepting(scores[1], Nodes, cfg.tau)
           after == Accepting(scores'[1], Nodes, cfg.tau)
       IN  /\ share > cfg.tau => before \subseteq after
           /\ share + 1 < cfg.tau => after \subseteq before]_vars
=============================================================================
