----------------------------- MODULE Inventories -----------------------------
(***************************************************************************)
(* InventoryState and the transactions that are applied to it              *)
(* (core/model/protocol.go), over the values of Values.                    *)
(*                                                                         *)
(* An inventory counts amounts per node and unit and knows no values, so   *)
(* it cannot tell whether an issue or an input was seen before.            *)
(***************************************************************************)
EXTENDS Values

CONSTANT MaxApplied  \* bound on the number of transactions that are applied

ASSUME InventoryAssumption == MaxApplied \in Nat /\ IsFiniteSet(Nodes)

VARIABLES
  inv,      \* inv[n][u]: InventoryState.Holdings
  minted,   \* history: minted[u] is what the applied issues added up to
  applied   \* history: how many transactions were applied

inventoryVars == <<inv, minted, applied>>

\* What the values in S add up to, for one owner or for all.
Worth(S, unit) ==
  SumFunctionOnSet([v \in S |-> v.amount], {v \in S : v.unit = unit})
OwnedBy(S, node) == {v \in S : v.owner = node}

Debited(holdings, S) ==
  [n \in Nodes |-> [u \in Units |-> holdings[n][u] - Worth(OwnedBy(S, n), u)]]
Credited(holdings, S) ==
  [n \in Nodes |-> [u \in Units |-> holdings[n][u] + Worth(OwnedBy(S, n), u)]]

\* No AddChecked overflows: amounts are positive, so the last sum decides.
Fits(holdings) == \A n \in Nodes, u \in Units : holdings[n][u] <= MaxAmount

-----------------------------------------------------------------------------
\* ValidateStructuralIssueTx: outputs of one unit, with distinct ids.  It checks
\* neither the signature nor the issuer, nor that the issue is a new one.
ValidateStructuralIssueTx(unit, outputs) ==
  outputs # {} /\ \A v \in outputs : v.unit = unit /\ v.owner # NoNode

Gathered(tx) == tx.inputsA \cup tx.inputsB

\* checkTradeConservation
TradeConserves(tx) ==
  /\ {v.unit : v \in Gathered(tx)} = {v.unit : v \in tx.outputs}
  /\ \A u \in {v.unit : v \in Gathered(tx)} :
       /\ Worth(Gathered(tx), u) <= MaxAmount
       /\ Worth(Gathered(tx), u) = Worth(tx.outputs, u)

CoveredEach(party, inputs) ==
  \A v \in inputs : v.amount <= inv[party][v.unit]
\* checkTradeInventoryCoverage: all inputs of a party and unit together.
Covered(party, inputs) ==
  \A u \in Units : Worth(inputs, u) <= inv[party][u]

\* ValidateTradeTx.  The outputs of the two parties are one set here: they are
\* checked alike and may have any owner.
ValidateTradeTx(tx) ==
  /\ tx.partyA # tx.partyB
  /\ Gathered(tx) # {} /\ tx.outputs # {}
  /\ \A v \in tx.inputsA : v.owner = tx.partyA
  /\ \A v \in tx.inputsB : v.owner = tx.partyB
  /\ \A v \in tx.outputs : v.owner # NoNode /\ v.amount \in Amounts
  /\ Gathered(tx) \cap tx.outputs = {}
  /\ TradeConserves(tx)
  /\ Covered(tx.partyA, tx.inputsA) /\ Covered(tx.partyB, tx.inputsB)

-----------------------------------------------------------------------------
InventoryInit ==
  /\ Init
  /\ inv = [n \in Nodes |-> [u \in Units |-> 0]]
  /\ minted = [u \in Units |-> 0]
  /\ applied = 0

Install(holdings) ==
  /\ inv' = holdings
  /\ applied' = applied + 1
  /\ UNCHANGED vars

\* ApplyStructuralIssueTx; when an output overflows, the copy is dropped.
ApplyIssue(unit, outputs) ==
  /\ ValidateStructuralIssueTx(unit, outputs)
  /\ Fits(Credited(inv, outputs))
  /\ Install(Credited(inv, outputs))
  /\ minted' = [minted EXCEPT ![unit] = @ + Worth(outputs, unit)]

ApplyTradeInPlace(tx) ==
  /\ ValidateTradeTx(tx)
  /\ IF Fits(Credited(Debited(inv, Gathered(tx)), tx.outputs))
     THEN Install(Credited(Debited(inv, Gathered(tx)), tx.outputs))
     ELSE Install(Debited(inv, Gathered(tx)))
  /\ UNCHANGED minted
\* ApplyTradeTx works on a copy: all inputs are taken, then the outputs given;
\* when one of them overflows, the copy is dropped.  InventoryState.Sub would
\* refuse to go below zero; after the validation it never has to.
ApplyTrade(tx) ==
  /\ ValidateTradeTx(tx)
  /\ Fits(Credited(Debited(inv, Gathered(tx)), tx.outputs))
  /\ Install(Credited(Debited(inv, Gathered(tx)), tx.outputs))
  /\ UNCHANGED minted

\* The trade's own outputs; their issuer, expiry and depth count for nothing.
TradeOutputs ==
  {d \in Drafts : /\ d.issuer = IssuerOf[d.unit] /\ d.owner # NoNode
                  /\ d.expiry = Never /\ d.depth = 0 /\ d.amount \in Amounts}

Pairs(S) == {{v, w} : v, w \in S}

Apply ==
  \/ \E u \in Units, outputs \in Pairs(Presentable) : ApplyIssue(u, outputs)
  \/ \E nodeA \in Nodes : \E nodeB \in Nodes \ {nodeA} :
       \E inputsA \in Pairs(Held(nodeA)) \cup {{}}, inputsB \in Pairs(Held(nodeB)) \cup {{}} :
         /\ Covered(nodeA, inputsA) /\ Covered(nodeB, inputsB)
         /\ \E outputs \in Pairs({d \in TradeOutputs : KnownKind(inputsA \cup inputsB, d)}) :
              ApplyTrade([partyA |-> nodeA, partyB |-> nodeB,
                          inputsA |-> inputsA, inputsB |-> inputsB, outputs |-> outputs])

\* Making transactions and applying them commute (the first never looks at the
\* inventory), so the first are made first; inventories are bounded tighter.
InventoryNext ==
  \/ applied = 0 /\ Next /\ UNCHANGED inventoryVars
  \/ /\ applied < MaxApplied
     /\ Cardinality(issued) + Cardinality(transfers) < MaxTransactions
     /\ Apply

InventorySpec == InventoryInit /\ [][InventoryNext]_<<vars, inventoryVars>>

-----------------------------------------------------------------------------
\* No holding is negative or exceeds an int64, whatever was applied.
InventoryTypeOK ==
  /\ inv \in [Nodes -> [Units -> 0 .. MaxAmount]]
  /\ minted \in [Units -> Nat]
  /\ applied \in 0 .. MaxApplied

\* Trades create and destroy nothing, together and whoever the outputs go to:
\* the holdings of a unit add up to what the applied issues added.  A trade whose
\* output overflows its receiver leaves no trace of the inputs already taken.
InventoryIsMinted ==
  \A u \in Units : SumFunctionOnSet([n \in Nodes |-> inv[n][u]], Nodes) = minted[u]
=============================================================================
