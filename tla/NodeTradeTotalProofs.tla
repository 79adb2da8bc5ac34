------------------------- MODULE NodeTradeTotalProofs -------------------------
(***************************************************************************)
(* Theorems about NodeTrade that count: what all nodes hold together, and  *)
(* the trades that the store's ledger and flow documents record.           *)
(*                                                                         *)
(* A trade writes two nodes and leaves a total alone because what was      *)
(* checked under their locks still holds; the documents, written one trade *)
(* at a time, together never hold more than memory holds after the commit  *)
(* that they are ahead of.                                                 *)
(***************************************************************************)
EXTENDS NodeTradeProofs, Sums

\* The facts about the constants and the state that every proof below needs.
LEMMA NodesFacts ==
  ASSUME IInv
  PROVE  /\ IsFiniteSet(Nodes) /\ Stored \subseteq Nodes
         /\ inv \in [Nodes -> Holdings] /\ disk \in [Nodes -> Holdings]
         /\ volume \in [Nodes -> Volumes] /\ diskFlow \in [Nodes -> Volumes]
         /\ minted \in [Units -> Nat] /\ pc \in [Callers -> Steps]
         /\ job \in [Callers -> Quotes]
  BY ConstantsAssumption DEF IInv, TypeOK

\* There are finitely many nodes to add up.
LEMMA NodesFinite == IsFiniteSet(Nodes)
  BY ConstantsAssumption

\* Holdings of naturals have a natural total.
LEMMA TotalType ==
  ASSUME NEW h \in [Nodes -> Holdings], NEW u \in Units
  PROVE  /\ \A n \in Nodes : Balance(h[n], u) \in Nat
         /\ Total(h, u) \in Nat
<1>. DEFINE f == [n \in Nodes |-> Balance(h[n], u)]
<1>1. \A n \in Nodes : Balance(h[n], u) \in Nat
  BY HoldingsFacts, ConstantsAssumption
<1>2. \A n \in Nodes : f[n] \in Nat /\ f[n] \in Int
  BY <1>1
<1>. HIDE DEF f
<1>3. SumFunctionOnSet(f, Nodes) \in Nat
  BY <1>2, SumType, NodesFinite
<1>. QED
  BY <1>1, <1>3 DEF Total, f

\* Nodes that hold nothing hold nothing together.
LEMMA TotalNothing ==
  ASSUME NEW h, h = [n \in Nodes |-> NoHoldings], NEW u \in Units
  PROVE  Total(h, u) = 0
<1>. DEFINE f == [n \in Nodes |-> Balance(h[n], u)]
<1>1. \A n \in Nodes : f[n] = 0
  BY DEF Balance, NoHoldings
<1>. HIDE DEF f
<1>2. SumFunctionOnSet(f, Nodes) = 0
  BY <1>1, SumZero, NodesFinite
<1>. QED
  BY <1>2 DEF Total, f

\* Nodes that each hold no more hold no more together.
LEMMA TotalMonotone ==
  ASSUME NEW h \in [Nodes -> Holdings], NEW k \in [Nodes -> Holdings], NEW u \in Units,
         \A n \in Nodes : Balance(h[n], u) <= Balance(k[n], u)
  PROVE  Total(h, u) <= Total(k, u)
<1>. DEFINE f == [n \in Nodes |-> Balance(h[n], u)]
            g == [n \in Nodes |-> Balance(k[n], u)]
<1>1. \A n \in Nodes : f[n] \in Int /\ g[n] \in Int /\ f[n] <= g[n]
  BY TotalType
<1>. HIDE DEF f, g
<1>2. SumFunctionOnSet(f, Nodes) <= SumFunctionOnSet(g, Nodes)
  BY <1>1, SumMonotone, NodesFinite
<1>. QED
  BY <1>2 DEF Total, f, g

\* What one node receives, the total receives.
LEMMA TotalReceived ==
  ASSUME NEW h \in [Nodes -> Holdings], NEW k \in [Nodes -> Holdings], NEW u \in Units,
         NEW a \in Nodes, \A n \in Nodes \ {a} : k[n] = h[n]
  PROVE  Total(k, u) = Total(h, u) + Balance(k[a], u) - Balance(h[a], u)
<1>. DEFINE f == [n \in Nodes |-> Balance(h[n], u)]
            g == [n \in Nodes |-> Balance(k[n], u)]
<1>0. \A n \in Nodes : Balance(h[n], u) \in Nat /\ Balance(k[n], u) \in Nat
  BY TotalType
<1>. HIDE DEF f, g
<1>1. \A n \in Nodes : f[n] = Balance(h[n], u) /\ g[n] = Balance(k[n], u)
  BY DEF f, g
<1>2. \A n \in Nodes \ {a} : Balance(k[n], u) = Balance(h[n], u)
  BY Zenon
<1>3. \A n \in Nodes \ {a} : g[n] = f[n]
  BY <1>1, <1>2
<1>4. \A n \in Nodes : f[n] \in Int /\ g[n] \in Int
  <2>. SUFFICES ASSUME NEW n \in Nodes PROVE f[n] \in Int /\ g[n] \in Int
    OBVIOUS
  <2>1. f[n] \in Nat /\ g[n] \in Nat
    BY <1>0, <1>1, Zenon
  <2>. QED BY <2>1
<1>5. SumFunctionOnSet(g, Nodes) = SumFunctionOnSet(f, Nodes) + g[a] - f[a]
  BY <1>3, <1>4, SumChange, NodesFinite
<1>6. Total(k, u) = SumFunctionOnSet(g, Nodes) /\ Total(h, u) = SumFunctionOnSet(f, Nodes)
  BY DEF Total, f, g
<1>. QED
  BY <1>1, <1>5, <1>6

\* What two nodes move between them leaves the total alone.
LEMMA TotalMoved ==
  ASSUME NEW h \in [Nodes -> Holdings], NEW k \in [Nodes -> Holdings], NEW u \in Units,
         NEW a \in Nodes, NEW b \in Nodes, a # b,
         \A n \in Nodes \ {a, b} : k[n] = h[n],
         Balance(k[a], u) + Balance(k[b], u) = Balance(h[a], u) + Balance(h[b], u)
  PROVE  Total(k, u) = Total(h, u)
<1>. DEFINE half == [h EXCEPT ![a] = k[a]]
<1>1. /\ half \in [Nodes -> Holdings] /\ half[a] = k[a] /\ half[b] = h[b]
      /\ \A n \in Nodes \ {a} : half[n] = h[n]
      /\ \A n \in Nodes \ {b} : k[n] = half[n]
  OBVIOUS
<1>. HIDE DEF half
<1>2. Total(half, u) = Total(h, u) + Balance(half[a], u) - Balance(h[a], u)
  BY <1>1, TotalReceived
<1>3. Total(k, u) = Total(half, u) + Balance(k[b], u) - Balance(half[b], u)
  BY <1>1, TotalReceived
<1>4. /\ Balance(h[a], u) \in Nat /\ Balance(h[b], u) \in Nat
      /\ Balance(k[a], u) \in Nat /\ Balance(k[b], u) \in Nat
      /\ Total(h, u) \in Nat /\ Total(half, u) \in Nat
  BY <1>1, TotalType
<1>5. Balance(half[a], u) = Balance(k[a], u) /\ Balance(half[b], u) = Balance(h[b], u)
  BY <1>1
<1>. QED
  BY <1>2, <1>3, <1>4, <1>5

-----------------------------------------------------------------------------
(***************************************************************************)
(* Trades conserve                                                         *)
(***************************************************************************)

\* What a party holds after a trade.
LEMMA AfterBalance ==
  ASSUME IInv, NEW q \in Quotes, NEW n \in Parties(q), Affordable(q), Fits(q),
         NEW u \in Units
  PROVE  Balance(HoldingsAfter(q, n), u)
           = Balance(inv[n], u) - (IF u = Gives(q, n) THEN Gave(q, n) ELSE 0)
                                + (IF u = Gets(q, n) THEN Got(q, n) ELSE 0)
<1>. DEFINE given == Given(inv[n], Gives(q, n), Gave(q, n))
<1>1. /\ n \in Nodes /\ inv[n] \in Holdings
      /\ Balance(inv[n], Gives(q, n)) >= Gave(q, n)
      /\ Balance(inv[n], Gets(q, n)) + Got(q, n) <= MaxAmount
  BY TermsFacts, NodesFacts DEF Affordable, Fits
<1>2. /\ Gives(q, n) \in Units /\ Gets(q, n) \in Units
      /\ Gave(q, n) \in Nat \ {0} /\ Got(q, n) \in Nat \ {0}
  BY TermsFacts
<1>3. /\ given \in Holdings
      /\ \A v \in Units : Balance(given, v) = IF v = Gives(q, n)
                                              THEN Balance(inv[n], Gives(q, n)) - Gave(q, n)
                                              ELSE Balance(inv[n], v)
  BY <1>1, <1>2, GivenFacts
<1>4. \A v \in Units : Balance(inv[n], v) \in Nat
  BY <1>1, HoldingsFacts, ConstantsAssumption
<1>5. Balance(given, Gets(q, n)) + Got(q, n) <= MaxAmount
  BY <1>1, <1>2, <1>3, <1>4, ConstantsAssumption
<1>. HIDE DEF given
<1>6. \A v \in Units : Balance(Received(given, Gets(q, n), Got(q, n)), v)
                         = IF v = Gets(q, n) THEN Balance(given, Gets(q, n)) + Got(q, n)
                                             ELSE Balance(given, v)
  BY <1>2, <1>3, <1>5, ReceivedFacts
<1>7. HoldingsAfter(q, n) = Received(given, Gets(q, n), Got(q, n))
  BY DEF HoldingsAfter, given
<1>8. Balance(inv[n], u) \in Nat /\ Balance(inv[n], Gives(q, n)) \in Nat
  BY <1>2, <1>4
<1>. QED
  BY <1>2, <1>3, <1>6, <1>7, <1>8

\* What the seller gives the buyer gets, and the other way round.
LEMMA TradeMoves ==
  ASSUME IInv, NEW q \in Quotes, Affordable(q), Fits(q), NEW u \in Units
  PROVE  Balance(HoldingsAfter(q, Terms[q].seller), u)
           + Balance(HoldingsAfter(q, Terms[q].buyer), u)
           = Balance(inv[Terms[q].seller], u) + Balance(inv[Terms[q].buyer], u)
<1>. DEFINE s == Terms[q].seller
            b == Terms[q].buyer
<1>1. s \in Parties(q) /\ b \in Parties(q) /\ s # b /\ s \in Nodes /\ b \in Nodes
  BY TermsFacts
<1>2. /\ Gives(q, s) = Gets(q, b) /\ Gets(q, s) = Gives(q, b)
      /\ Gave(q, s) = Got(q, b) /\ Got(q, s) = Gave(q, b)
  BY <1>1 DEF Gives, Gets, Gave, Got
<1>3. Gave(q, s) \in Nat /\ Got(q, s) \in Nat
  BY TermsFacts
<1>4. Balance(inv[s], u) \in Nat /\ Balance(inv[b], u) \in Nat
  BY <1>1, NodesFacts, TotalType
<1>5. Balance(HoldingsAfter(q, s), u)
        = Balance(inv[s], u) - (IF u = Gives(q, s) THEN Gave(q, s) ELSE 0)
                             + (IF u = Gets(q, s) THEN Got(q, s) ELSE 0)
  BY <1>1, AfterBalance
<1>6. Balance(HoldingsAfter(q, b), u)
        = Balance(inv[b], u) - (IF u = Gives(q, b) THEN Gave(q, b) ELSE 0)
                             + (IF u = Gets(q, b) THEN Got(q, b) ELSE 0)
  BY <1>1, AfterBalance
<1>. HIDE DEF s, b
<1>7. Balance(HoldingsAfter(q, s), u) + Balance(HoldingsAfter(q, b), u)
        = Balance(inv[s], u) + Balance(inv[b], u)
  BY <1>2, <1>3, <1>4, <1>5, <1>6
<1>. QED
  BY <1>7 DEF s, b

\* The memory that commitPreparedState leaves.
MemoryAfter(q) == [n \in Nodes |-> IF n \in Parties(q) THEN HoldingsAfter(q, n) ELSE inv[n]]

\* What memory holds after the commit of a trade adds up to what it held before.
LEMMA TradeKeepsTotal ==
  ASSUME IInv, NEW q \in Quotes, Affordable(q), Fits(q), NEW u \in Units
  PROVE  /\ MemoryAfter(q) \in [Nodes -> Holdings]
         /\ Total(MemoryAfter(q), u) = Total(inv, u)
<1>. DEFINE s == Terms[q].seller
            b == Terms[q].buyer
            k == MemoryAfter(q)
<1>1. s \in Nodes /\ b \in Nodes /\ s # b /\ Parties(q) = {s, b}
  BY TermsFacts DEF Parties
<1>2. k \in [Nodes -> Holdings]
  BY AfterFacts, NodesFacts DEF MemoryAfter, IInv
<1>3. /\ \A n \in Nodes \ {s, b} : k[n] = inv[n]
      /\ k[s] = HoldingsAfter(q, s) /\ k[b] = HoldingsAfter(q, b)
  BY <1>1 DEF MemoryAfter
<1>4. Balance(k[s], u) + Balance(k[b], u) = Balance(inv[s], u) + Balance(inv[b], u)
  BY <1>3, TradeMoves
<1>. HIDE DEF s, b, k
<1>5. Total(k, u) = Total(inv, u)
  BY <1>1, <1>2, <1>3, <1>4, NodesFacts, TotalMoved
<1>. QED
  BY <1>2, <1>5 DEF k

\* A signed trade that has been reserved, and an unsigned one whose checks have
\* passed, can be committed.
LEMMA Committable ==
  ASSUME IInv, NEW c \in Callers, ExecutePlain(c) \/ Persist(c) \/ Commit(c)
  PROVE  job[c] \in Quotes /\ Affordable(job[c]) /\ Fits(job[c])
<1>1. job[c] \in Quotes
  BY NodesFacts
<1>2. CASE ExecutePlain(c)
  BY <1>1, <1>2 DEF ExecutePlain
<1>3. CASE Persist(c) \/ Commit(c)
  <2>1. pc[c] \in {"persist", "commit"}
    BY <1>3 DEF Persist, Commit, At
  <2>2. Prepared(job[c])
    BY <2>1 DEF IInv, PreparedInv
  <2>. QED BY <1>1, <2>2 DEF Prepared
<1>. QED
  BY <1>2, <1>3

\* What AddInventory adds to the memory of a running process.
LEMMA AddInventoryFacts ==
  ASSUME IInv, NEW n \in Nodes, NEW u \in Units, NEW x \in Issues,
         AddInventory(n, u, x), ~Exit
  PROVE  /\ x \in Nat \ {0}
         /\ minted' = [minted EXCEPT ![u] = @ + x]
         /\ inv' \in [Nodes -> Holdings]
         /\ \A m \in Nodes \ {n} : inv'[m] = inv[m]
         /\ \A v \in Units :
              Balance(inv'[n], v) = IF v = u THEN Balance(inv[n], u) + x ELSE Balance(inv[n], v)
<1>1. /\ x \in Nat \ {0} /\ inv[n] \in Holdings
      /\ Balance(inv[n], u) + x <= MaxAmount
      /\ inv' = [inv EXCEPT ![n] = Received(inv[n], u, x)]
      /\ minted' = [minted EXCEPT ![u] = @ + x]
  BY NodesFacts, ConstantsAssumption DEF AddInventory
<1>2. /\ Received(inv[n], u, x) \in Holdings
      /\ \A v \in Units : Balance(Received(inv[n], u, x), v)
                            = IF v = u THEN Balance(inv[n], u) + x ELSE Balance(inv[n], v)
  BY <1>1, ReceivedFacts
<1>3. inv'[n] = Received(inv[n], u, x) /\ inv' \in [Nodes -> Holdings]
  BY <1>1, <1>2, NodesFacts
<1>4. \A m \in Nodes \ {n} : inv'[m] = inv[m]
  BY <1>1, NodesFacts
<1>. QED
  BY <1>1, <1>2, <1>3, <1>4

\* A step of a running process keeps the total of every unit, or credits one.
LEMMA StepConserves ==
  ASSUME IInv, [Next]_vars, status = "up", status' = "up", minted' = minted, NEW u \in Units
  PROVE  Total(inv', u) = Total(inv, u)
<1>1. CASE inv' = inv
  BY <1>1, Zenon DEF Total
<1>2. ASSUME NEW c \in Callers, ExecutePlain(c) \/ Commit(c)
      PROVE  Total(inv', u) = Total(inv, u)
  <2>1. inv' = MemoryAfter(job[c])
    BY <1>2 DEF ExecutePlain, Commit, CommitMemory, MemoryAfter
  <2>2. job[c] \in Quotes /\ Affordable(job[c]) /\ Fits(job[c])
    BY <1>2, Committable
  <2>3. Total(MemoryAfter(job[c]), u) = Total(inv, u)
    BY <2>2, TradeKeepsTotal
  <2>. QED BY <2>1, <2>3
<1>3. ~Exit
  BY DEF Exit
<1>4. ASSUME NEW n \in Nodes, NEW v \in Units, NEW x \in Issues, AddInventory(n, v, x)
      PROVE  FALSE
  <2>1. x \in Nat \ {0} /\ minted' = [minted EXCEPT ![v] = @ + x]
    BY <1>3, <1>4, AddInventoryFacts
  <2>2. minted[v] \in Nat /\ minted'[v] = minted[v] + x
    BY <2>1, NodesFacts
  <2>. QED BY <2>1, <2>2
<1>5. ASSUME NEW c \in Callers,
             \/ Start(c) \/ Acquire(c)
             \/ Refuse(c) \/ ReserveInMemory(c) \/ PanicInCheck(c)
             \/ Persist(c) \/ PersistNothing(c) \/ PersistFails(c) \/ PersistUnmarked(c)
             \/ Unlock(c)
      PROVE  inv' = inv
  BY <1>3, <1>5
  DEF Start, StartQuote, StartExecute, Acquire, LockExecution, LockFirst, LockSecond,
      Refuse, ReserveInMemory, PanicInCheck, Persist, PersistNothing, PersistFails,
      PersistUnmarked, Unlock, memory
<1>6. ASSUME Crash \/ Restart \/ RestartFails \/ Tick PROVE inv' = inv
  BY <1>3, <1>6 DEF Crash, Restart, RestartFails, Tick, memory
<1>7. CASE UNCHANGED vars
  BY <1>1, <1>7 DEF vars
<1>. QED
  BY <1>1, <1>2, <1>4, <1>5, <1>6, <1>7 DEF Next, Work

\* Trades move resources between the parties and create or destroy none, in
\* whatever order calls interleave, fail or panic: the total of a unit in the
\* memory of a running process changes by AddInventory alone.
THEOREM Conservation ==
  Spec => TradesConserve
<1>1. IInv /\ [Next]_vars =>
        [(status = "up" /\ status' = "up" /\ minted' = minted)
           => \A u \in Units : Total(inv', u) = Total(inv, u)]_vars
  BY StepConserves
<1>. QED
  BY <1>1, Invariance, PTL DEF Spec, TradesConserve

-----------------------------------------------------------------------------
(***************************************************************************)
(* Nothing from nothing                                                    *)
(***************************************************************************)

\* One execution at a time is past its locks.
MutexInv == \A c \in Callers : pc[c] \in Working => mutex = c

\* Whoever works on a signed trade holds signedTradeExecutionMu.
LEMMA MutexPreserved ==
  ASSUME IInv, MutexInv, [Next]_vars
  PROVE  MutexInv'
<1>0. pc \in [Callers -> Steps] /\ None \notin Callers
  BY NodesFacts, ConstantsAssumption
<1>. USE <1>0 DEF MutexInv, Working
<1>1. ASSUME NEW c \in Callers, NEW q \in Quotes, StartQuote(c, q) \/ StartExecute(c, q)
      PROVE  MutexInv'
  BY <1>1 DEF StartQuote, StartExecute, Goto, locks
<1>2. ASSUME NEW c \in Callers, LockExecution(c) PROVE MutexInv'
  BY <1>2 DEF LockExecution, Goto
<1>3. ASSUME NEW c \in Callers, LockFirst(c) \/ LockSecond(c) PROVE MutexInv'
  BY <1>3 DEF LockFirst, LockSecond, Goto
<1>4. ASSUME NEW c \in Callers, Unlock(c) PROVE MutexInv'
  BY <1>4 DEF Unlock, Goto
<1>5. ASSUME NEW c \in Callers,
             \/ Refuse(c) \/ ExecutePlain(c) \/ ReserveInMemory(c)
             \/ Persist(c) \/ PersistNothing(c) \/ PersistFails(c) \/ PersistUnmarked(c)
             \/ Commit(c)
      PROVE  MutexInv'
  BY <1>5
  DEF Refuse, ExecutePlain, ReserveInMemory, Persist, PersistNothing, PersistFails,
      PersistUnmarked, Commit, At, Goto, locks
<1>6. CASE Exit
  BY <1>6 DEF Exit
<1>7. ASSUME NEW c \in Callers, PanicInCheck(c) PROVE MutexInv'
  BY <1>6, <1>7 DEF PanicInCheck
<1>8. ASSUME NEW n \in Nodes, NEW u \in Units, NEW x \in Issues, AddInventory(n, u, x)
      PROVE  MutexInv'
  BY <1>6, <1>8 DEF AddInventory, locks, calls
<1>9. ASSUME Crash \/ Restart \/ RestartFails \/ Tick PROVE MutexInv'
  BY <1>6, <1>9 DEF Crash, Restart, RestartFails, Tick, locks, calls
<1>10. CASE UNCHANGED vars
  BY <1>10 DEF vars
<1>. HIDE DEF MutexInv, Working
<1>. QED
  BY <1>1, <1>2, <1>3, <1>4, <1>5, <1>7, <1>8, <1>9, <1>10 DEF Next, Start, Acquire, Work

\* No more is held than was issued, in memory and by the documents; nodes
\* without a store have no document.
WealthInv ==
  /\ \A n \in Nodes \ Stored : disk[n] = NoHoldings
  /\ \A u \in Units : Total(inv, u) <= minted[u] /\ Total(disk, u) <= minted[u]

\* When nobody is about to commit, each document is covered by its node.
LEMMA AllCovered ==
  ASSUME IInv, CoverInv, WealthInv, status = "up",
         NEW n \in Nodes, \A c \in Callers : pc[c] = "commit" => n \notin Parties(job[c]),
         NEW u \in Units
  PROVE  Balance(disk[n], u) <= Balance(inv[n], u)
<1>1. CASE n \in Stored
  BY <1>1 DEF CoverInv, Covered
<1>2. CASE n \notin Stored
  <2>1. Balance(disk[n], u) = 0 /\ Balance(inv[n], u) \in Nat
    BY <1>2, NodesFacts, TotalType DEF WealthInv, Balance, NoHoldings
  <2>. QED BY <2>1
<1>. QED
  BY <1>1, <1>2

\* What the documents hold together after persistSignedTrade is no more than
\* what memory will hold after the commit: every other document is covered.
LEMMA PersistKeepsTotal ==
  ASSUME IInv, CoverInv, MutexInv, WealthInv, NEW c \in Callers, Persist(c), NEW u \in Units
  PROVE  Total(disk', u) <= Total(inv, u)
<1>. DEFINE q == job[c]
<1>1. /\ status = "up" /\ pc[c] = "persist"
      /\ disk' = [n \in Nodes |-> IF n \in Parties(q) THEN HoldingsAfter(q, n) ELSE disk[n]]
  BY DEF Persist, SavePrepared, At
<1>2. q \in Quotes /\ Affordable(q) /\ Fits(q)
  BY Committable
<1>. HIDE DEF q
<1>3. /\ MemoryAfter(q) \in [Nodes -> Holdings]
      /\ Total(MemoryAfter(q), u) = Total(inv, u)
  BY <1>2, TradeKeepsTotal
<1>4. disk' \in [Nodes -> Holdings]
  BY <1>1, <1>2, AfterFacts, NodesFacts DEF IInv
<1>5. \A d \in Callers : pc[d] # "commit"
  BY <1>1 DEF MutexInv, Working
<1>6. ASSUME NEW n \in Nodes
      PROVE  Balance(disk'[n], u) <= Balance(MemoryAfter(q)[n], u)
  <2>1. CASE n \in Parties(q)
    <3>1. disk'[n] = HoldingsAfter(q, n) /\ MemoryAfter(q)[n] = HoldingsAfter(q, n)
      BY <1>1, <2>1 DEF MemoryAfter
    <3>2. Balance(disk'[n], u) = Balance(MemoryAfter(q)[n], u)
      BY <3>1
    <3>3. Balance(disk'[n], u) \in Nat
      BY <1>4, TotalType
    <3>. QED BY <3>2, <3>3
  <2>2. CASE n \notin Parties(q)
    <3>1. disk'[n] = disk[n] /\ MemoryAfter(q)[n] = inv[n]
      BY <1>1, <2>2 DEF MemoryAfter
    <3>2. Balance(disk[n], u) <= Balance(inv[n], u)
      BY <1>1, <1>5, AllCovered
    <3>. QED BY <3>1, <3>2
  <2>. QED BY <2>1, <2>2
<1>7. Total(disk', u) <= Total(MemoryAfter(q), u)
  BY <1>3, <1>4, <1>6, TotalMonotone
<1>. QED
  BY <1>3, <1>7

\* A crash leaves memory to be reloaded from the documents.
LEMMA ExitWealth ==
  ASSUME IInv, WealthInv, Exit
  PROVE  WealthInv'
<1>1. inv' = [n \in Nodes |-> NoHoldings] /\ disk' = disk /\ minted' = minted
  BY DEF Exit, store
<1>2. \A u \in Units : Total(inv', u) = 0 /\ minted[u] \in Nat
  BY <1>1, TotalNothing, NodesFacts
<1>3. \A u \in Units : Total(disk', u) = Total(disk, u)
  BY <1>1, Zenon
<1>. QED
  BY <1>1, <1>2, <1>3 DEF WealthInv

\* No step lets memory or documents hold more than was credited.
LEMMA WealthPreserved ==
  ASSUME "unmarked" \notin PersistFaults,
         \A q \in Plain : Parties(q) \cap Stored = {},
         IInv, CoverInv, MutexInv, WealthInv, [Next]_vars
  PROVE  WealthInv'
<1>1. ASSUME inv' = inv, disk' = disk, minted' = minted PROVE WealthInv'
  BY <1>1 DEF WealthInv, Total
<1>2. ASSUME NEW c \in Callers, ExecutePlain(c) \/ Commit(c) PROVE WealthInv'
  <2>1. inv' = MemoryAfter(job[c]) /\ disk' = disk /\ minted' = minted
    BY <1>2 DEF ExecutePlain, Commit, CommitMemory, MemoryAfter, store
  <2>2. job[c] \in Quotes /\ Affordable(job[c]) /\ Fits(job[c])
    BY <1>2, Committable
  <2>3. \A u \in Units : Total(inv', u) = Total(inv, u)
    BY <2>1, <2>2, TradeKeepsTotal
  <2>4. \A u \in Units : Total(disk', u) = Total(disk, u)
    BY <2>1, Zenon
  <2>. QED BY <2>1, <2>3, <2>4 DEF WealthInv
<1>3. ASSUME NEW c \in Callers, Persist(c) PROVE WealthInv'
  <2>1. /\ inv' = inv /\ minted' = minted
        /\ disk' = [n \in Nodes |-> IF n \in Parties(job[c])
                                    THEN HoldingsAfter(job[c], n) ELSE disk[n]]
        /\ Parties(job[c]) \subseteq Stored
    BY <1>3 DEF Persist, SavePrepared, memory
  <2>2. \A n \in Nodes \ Stored : disk'[n] = NoHoldings
    BY <2>1 DEF WealthInv
  <2>3. ASSUME NEW u \in Units PROVE Total(disk', u) <= minted[u]
    <3>1. disk' \in [Nodes -> Holdings]
      BY <2>1, <1>3, Committable, AfterFacts, NodesFacts DEF IInv
    <3>2. Total(disk', u) <= Total(inv, u) /\ Total(inv, u) <= minted[u]
      BY <1>3, PersistKeepsTotal DEF WealthInv
    <3>3. Total(disk', u) \in Nat /\ Total(inv, u) \in Nat /\ minted[u] \in Nat
      BY <3>1, TotalType, NodesFacts
    <3>. QED BY <3>2, <3>3
  <2>4. \A u \in Units : Total(inv', u) = Total(inv, u)
    BY <2>1, Zenon
  <2>. QED BY <2>1, <2>2, <2>3, <2>4 DEF WealthInv
<1>4. CASE Exit
  BY <1>4, ExitWealth
<1>5. ASSUME NEW n \in Nodes, NEW u \in Units, NEW x \in Issues, AddInventory(n, u, x)
      PROVE  WealthInv'
  <2>1. CASE ~Exit
    <3>1. /\ x \in Nat \ {0} /\ minted' = [minted EXCEPT ![u] = @ + x]
          /\ inv' \in [Nodes -> Holdings]
          /\ \A m \in Nodes \ {n} : inv'[m] = inv[m]
          /\ \A v \in Units : Balance(inv'[n], v)
                                = IF v = u THEN Balance(inv[n], u) + x ELSE Balance(inv[n], v)
      BY <1>5, <2>1, AddInventoryFacts
    <3>2. disk' = disk
      BY <1>5, <2>1 DEF AddInventory, store
    <3>3. ASSUME NEW v \in Units
          PROVE  Total(inv', v) <= minted'[v] /\ Total(disk', v) <= minted'[v]
      <4>1. Total(inv', v) = Total(inv, v) + Balance(inv'[n], v) - Balance(inv[n], v)
        BY <3>1, NodesFacts, TotalReceived
      <4>2. /\ Total(inv, v) \in Nat /\ Total(disk, v) \in Nat /\ minted[v] \in Nat
            /\ Balance(inv[n], v) \in Nat
        BY NodesFacts, TotalType
      <4>3. minted'[v] = IF v = u THEN minted[v] + x ELSE minted[v]
        BY <3>1, NodesFacts
      <4>4. Total(inv, v) <= minted[v] /\ Total(disk, v) <= minted[v]
        BY DEF WealthInv
      <4>5. Total(disk', v) = Total(disk, v)
        BY <3>2, Zenon
      <4>6. Balance(inv'[n], v) = IF v = u THEN Balance(inv[n], v) + x ELSE Balance(inv[n], v)
        BY <3>1
      <4>. QED BY <3>1, <4>1, <4>2, <4>3, <4>4, <4>5, <4>6
    <3>. QED BY <3>2, <3>3 DEF WealthInv
  <2>. QED BY <1>4, <2>1
<1>6. ASSUME Restart PROVE WealthInv'
  <2>1. /\ disk' = disk /\ minted' = minted
        /\ inv' = [n \in Nodes |-> IF n \in Stored THEN disk[n] ELSE NoHoldings]
    BY <1>6 DEF Restart, LoadDocuments, store
  <2>2. inv' = disk
    BY <2>1, NodesFacts DEF WealthInv
  <2>3. \A u \in Units : Total(inv', u) = Total(disk, u) /\ Total(disk', u) = Total(disk, u)
    BY <2>1, <2>2, Zenon
  <2>. QED BY <2>1, <2>3 DEF WealthInv
<1>7. ASSUME NEW c \in Callers,
             \/ Start(c) \/ Acquire(c)
             \/ Refuse(c) \/ ReserveInMemory(c) \/ PersistNothing(c) \/ PersistFails(c)
             \/ Unlock(c)
      PROVE  WealthInv'
  BY <1>1, <1>7
  DEF Start, StartQuote, StartExecute, Acquire, LockExecution, LockFirst, LockSecond,
      Refuse, ReserveInMemory, PersistNothing, PersistFails, Unlock, memory, store
<1>8. ASSUME NEW c \in Callers, PanicInCheck(c) \/ PersistUnmarked(c) PROVE WealthInv'
  BY <1>4, <1>8 DEF PanicInCheck, PersistUnmarked
<1>9. ASSUME Crash \/ RestartFails \/ Tick PROVE WealthInv'
  BY <1>1, <1>4, <1>9 DEF Crash, RestartFails, Tick, memory, store
<1>10. CASE UNCHANGED vars
  BY <1>1, <1>10 DEF vars
<1>. QED
  BY <1>2, <1>3, <1>5, <1>6, <1>7, <1>8, <1>9, <1>10 DEF Next, Work

\* Resources are never duplicated by failed writes, crashes and restarts: what
\* memory holds, and what the documents would bring back, was issued.  Two
\* things break this and are excluded, as for DocumentsCovered: a trade whose
\* executed marker could not be written, and an unsigned trade of a node with a
\* store.
THEOREM NeverDuplicated ==
  ASSUME "unmarked" \notin PersistFaults,
         \A q \in Plain : Parties(q) \cap Stored = {}
  PROVE  Spec => []NothingFromNothing
<1>1. Init => MutexInv /\ WealthInv
  <2>. SUFFICES ASSUME Init PROVE MutexInv /\ WealthInv
    OBVIOUS
  <2>1. MutexInv
    BY DEF Init, MutexInv, Working
  <2>2. /\ inv = [n \in Nodes |-> NoHoldings] /\ disk = [n \in Nodes |-> NoHoldings]
        /\ \A u \in Units : minted[u] = 0
    BY DEF Init
  <2>3. \A u \in Units : Total(inv, u) = 0 /\ Total(disk, u) = 0
    BY <2>2, TotalNothing
  <2>. QED BY <2>1, <2>2, <2>3 DEF WealthInv
<1>2. IInv /\ MutexInv /\ [Next]_vars => MutexInv'
  BY MutexPreserved
<1>3. IInv /\ CoverInv /\ MutexInv /\ WealthInv /\ [Next]_vars => WealthInv'
  BY WealthPreserved
<1>4. WealthInv => NothingFromNothing
  BY DEF WealthInv, NothingFromNothing
<1>. QED
  BY <1>1, <1>2, <1>3, <1>4, Invariance, CoverInvariance, PTL DEF Spec

-----------------------------------------------------------------------------
(***************************************************************************)
(* Flow documents and the ledger                                           *)
(***************************************************************************)

Volume(u) == [a \in Auths |-> VolumeOf(a, u)]
Recorded(n) == {a \in ledger : n \in Parties(a)}

\* A flow document is ahead of its node only until the commit to memory, and
\* then holds what the commit will write; a trade that is about to be persisted
\* is not in the ledger yet.
FlowInv ==
  /\ IsFiniteSet(ledger)
  /\ status = "up" => \A n \in Stored :
       volume[n] = diskFlow[n] \/ \E c \in Callers : pc[c] = "commit" /\ n \in Parties(job[c])
  /\ \A c \in Callers : pc[c] = "commit" =>
       \A n \in Parties(job[c]) \cap Stored : diskFlow[n] = VolumeAfter(job[c], n)
  /\ \A c \in Callers : pc[c] = "persist" /\ Parties(job[c]) \subseteq Stored =>
       job[c] \notin ledger
  /\ FlowCountsLedger

\* A trade that a new ledger has in addition was counted once.
LEMMA RecordedOnce ==
  ASSUME IInv, IsFiniteSet(ledger), NEW a \in Auths, a \notin ledger,
         ledger' = ledger \cup {a}, NEW n \in Parties(a), NEW u \in Units
  PROVE  SumFunctionOnSet(Volume(u), Recorded(n)')
           = VolumeOf(a, u) + SumFunctionOnSet(Volume(u), Recorded(n))
<1>1. Recorded(n)' = Recorded(n) \cup {a} /\ a \notin Recorded(n)
  BY DEF Recorded, Parties
<1>2. IsFiniteSet(Recorded(n))
  BY FS_Subset DEF Recorded
<1>3. Recorded(n) \cup {a} \subseteq Auths
  BY DEF Recorded, IInv, TypeOK
<1>4. \A b \in Auths : VolumeOf(b, u) \in Int
  BY TermsFacts DEF VolumeOf, Quotes
<1>5. \A b \in Recorded(n) \cup {a} : Volume(u)[b] \in Int
  BY <1>3, <1>4 DEF Volume
<1>6. Volume(u)[a] = VolumeOf(a, u)
  BY DEF Volume
<1>. HIDE DEF Recorded
<1>7. SumFunctionOnSet(Volume(u), Recorded(n) \cup {a})
        = Volume(u)[a] + SumFunctionOnSet(Volume(u), Recorded(n))
  BY <1>1, <1>2, <1>5, SumAdd
<1>. QED
  BY <1>1, <1>6, <1>7

\* A step that writes no document, no volume of a node with one and nothing to
\* the ledger, and neither reserves a trade nor begins or ends a commit.
LEMMA FlowFrame ==
  ASSUME FlowInv, diskFlow' = diskFlow, ledger' = ledger,
         \A n \in Stored : volume'[n] = volume[n],
         status' = "up" => status = "up",
         \A c \in Callers : (pc'[c] = "commit") = (pc[c] = "commit"),
         \A c \in Callers : pc'[c] = "persist" => pc[c] = "persist",
         \A c \in Callers : pc[c] \in {"persist", "commit"} => job'[c] = job[c]
  PROVE  FlowInv'
<1>1. ASSUME NEW c \in Callers, pc'[c] = "commit", NEW n \in Parties(job'[c]) \cap Stored
      PROVE  diskFlow'[n] = VolumeAfter(job[c], n)'
  <2>1. pc[c] = "commit" /\ job'[c] = job[c] /\ volume'[n] = volume[n]
    BY <1>1
  <2>2. diskFlow[n] = VolumeAfter(job[c], n)
    BY <1>1, <2>1 DEF FlowInv, Parties
  <2>. QED BY <2>1, <2>2 DEF VolumeAfter
<1>2. \A c \in Callers : pc'[c] = "commit" =>
        \A n \in Parties(job'[c]) \cap Stored : diskFlow'[n] = VolumeAfter(job[c], n)'
  BY <1>1
<1>3. ASSUME status' = "up", NEW n \in Stored
      PROVE  volume'[n] = diskFlow'[n]
               \/ \E c \in Callers : pc'[c] = "commit" /\ n \in Parties(job'[c])
  BY <1>3 DEF FlowInv
<1>4. \A c \in Callers : pc'[c] = "persist" /\ Parties(job'[c]) \subseteq Stored =>
        job'[c] \notin ledger'
  BY DEF FlowInv
<1>5. FlowCountsLedger' /\ IsFiniteSet(ledger')
  BY DEF FlowInv, FlowCountsLedger
<1>. QED
  BY <1>2, <1>3, <1>4, <1>5 DEF FlowInv, Parties

\* While c works, nobody else is about to persist or to commit.
LEMMA WorksAlone ==
  ASSUME MutexInv, NEW c \in Callers, pc[c] \in Working
  PROVE  \A d \in Callers \ {c} : pc[d] \notin {"persist", "commit"}
  BY DEF MutexInv, Working

\* persistSignedTrade adds the trade to the ledger and to both flow documents.
LEMMA PersistFlow ==
  ASSUME IInv, MutexInv, FlowInv, NEW c \in Callers, Persist(c)
  PROVE  FlowInv'
<1>. DEFINE q == job[c]
<1>1. /\ status = "up" /\ pc[c] = "persist" /\ Parties(q) \subseteq Stored
      /\ diskFlow' = [n \in Nodes |-> IF n \in Parties(q) THEN VolumeAfter(q, n) ELSE diskFlow[n]]
      /\ ledger' = ledger \cup {q} /\ pc' = [pc EXCEPT ![c] = "commit"]
      /\ volume' = volume /\ job' = job
  BY DEF Persist, SavePrepared, At, Goto, memory
<1>2. q \in Auths /\ q \in Quotes /\ Stored \subseteq Nodes
  BY <1>1, NodesFacts DEF IInv, PreparedInv, Prepared
<1>3. /\ pc'[c] = "commit"
      /\ \A d \in Callers \ {c} : pc'[d] \notin {"persist", "commit"}
      /\ \A d \in Callers : pc[d] # "commit"
  BY <1>1, NodesFacts, WorksAlone DEF Working
<1>4. q \notin ledger /\ IsFiniteSet(ledger) /\ FlowCountsLedger
  BY <1>1 DEF FlowInv
<1>5. \A n \in Parties(q) \cap Stored : diskFlow'[n] = VolumeAfter(job[c], n)'
  BY <1>1, <1>2 DEF VolumeAfter
<1>. HIDE DEF q
<1>6. \A n \in Stored : volume[n] = diskFlow[n]
  BY <1>1, <1>3 DEF FlowInv
<1>7. \A n \in Stored \ Parties(q) : volume'[n] = diskFlow'[n]
  BY <1>1, <1>2, <1>6
<1>8. ASSUME NEW n \in Stored, NEW u \in Units
      PROVE  diskFlow'[n][u] = SumFunctionOnSet(Volume(u), Recorded(n)')
  <2>1. diskFlow[n][u] = SumFunctionOnSet(Volume(u), Recorded(n))
    BY <1>4 DEF FlowCountsLedger, Volume, Recorded
  <2>2. CASE n \in Parties(q)
    <3>1. SumFunctionOnSet(Volume(u), Recorded(n)')
            = VolumeOf(q, u) + SumFunctionOnSet(Volume(u), Recorded(n))
      BY <1>1, <1>2, <1>4, <2>2, RecordedOnce
    <3>2. diskFlow'[n] = VolumeAfter(q, n)
      BY <1>1, <1>2, <2>2
    <3>3. VolumeAfter(q, n)[u] = volume[n][u]
            + (IF u = Terms[q].sellUnit THEN Terms[q].sellAmount ELSE 0)
            + (IF u = Terms[q].buyUnit THEN Terms[q].buyAmount ELSE 0)
      BY DEF VolumeAfter
    <3>4. volume[n][u] = diskFlow[n][u] /\ volume[n][u] \in Nat
      BY <1>2, <1>6, NodesFacts DEF Volumes
    <3>5. Terms[q].sellAmount \in Nat /\ Terms[q].buyAmount \in Nat
      BY <1>2, TermsFacts
    <3>. QED BY <2>1, <3>1, <3>2, <3>3, <3>4, <3>5 DEF VolumeOf
  <2>3. CASE n \notin Parties(q)
    <3>1. Recorded(n)' = Recorded(n)
      BY <1>1, <2>3 DEF Recorded, Parties
    <3>2. diskFlow'[n] = diskFlow[n]
      BY <1>1, <1>2, <2>3
    <3>. QED BY <2>1, <3>1, <3>2
  <2>. QED BY <2>2, <2>3
<1>9. FlowCountsLedger'
  BY <1>8 DEF FlowCountsLedger, Volume, Recorded, VolumeOf, Parties
<1>10. IsFiniteSet(ledger')
  BY <1>1, <1>4, FS_AddElement
<1>11. \A d \in Callers : pc'[d] = "commit" =>
         \A n \in Parties(job'[d]) \cap Stored : diskFlow'[n] = VolumeAfter(job[d], n)'
  BY <1>1, <1>3, <1>5 DEF q
<1>12. \A n \in Stored : volume'[n] = diskFlow'[n]
         \/ \E d \in Callers : pc'[d] = "commit" /\ n \in Parties(job'[d])
  BY <1>1, <1>3, <1>7 DEF q
<1>13. \A d \in Callers : pc'[d] # "persist"
  BY <1>3
<1>. QED
  BY <1>9, <1>10, <1>11, <1>12, <1>13 DEF FlowInv, Parties

\* The memory of a node follows its flow document when the commit is done.
LEMMA CommitFlow ==
  ASSUME IInv, MutexInv, FlowInv, NEW c \in Callers, Commit(c)
  PROVE  FlowInv'
<1>1. /\ status = "up" /\ pc[c] = "commit" /\ job' = job
      /\ volume' = [n \in Nodes |-> IF n \in Parties(job[c])
                                    THEN VolumeAfter(job[c], n) ELSE volume[n]]
      /\ diskFlow' = diskFlow /\ ledger' = ledger /\ pc' = [pc EXCEPT ![c] = "unlock"]
  BY DEF Commit, CommitMemory, At, Goto, store
<1>2. \A d \in Callers \ {c} : pc[d] \notin {"persist", "commit"}
  BY <1>1, WorksAlone DEF Working
<1>3. \A d \in Callers : pc'[d] \notin {"persist", "commit"}
  BY <1>1, <1>2, NodesFacts
<1>4. \A n \in Stored : volume'[n] = diskFlow'[n]
  <2>. SUFFICES ASSUME NEW n \in Stored PROVE volume'[n] = diskFlow'[n]
    OBVIOUS
  <2>1. n \in Nodes
    BY NodesFacts
  <2>2. CASE n \in Parties(job[c])
    <3>1. diskFlow[n] = VolumeAfter(job[c], n)
      BY <1>1, <2>2 DEF FlowInv
    <3>. QED BY <1>1, <2>1, <2>2, <3>1
  <2>3. CASE n \notin Parties(job[c])
    <3>1. volume[n] = diskFlow[n]
      BY <1>1, <1>2, <2>3 DEF FlowInv
    <3>. QED BY <1>1, <2>1, <2>3, <3>1
  <2>. QED BY <2>2, <2>3
<1>5. FlowCountsLedger' /\ IsFiniteSet(ledger')
  BY <1>1 DEF FlowInv, FlowCountsLedger
<1>. QED
  BY <1>3, <1>4, <1>5 DEF FlowInv

\* No step lets a flow document and the ledger come apart.
LEMMA FlowPreserved ==
  ASSUME "unmarked" \notin PersistFaults,
         \A q \in Plain : Parties(q) \cap Stored = {},
         IInv, MutexInv, FlowInv, [Next]_vars
  PROVE  FlowInv'
<1>0. pc \in [Callers -> Steps] /\ Stored \subseteq Nodes
  BY NodesFacts
<1>1. ASSUME NEW c \in Callers, NEW q \in Quotes, StartQuote(c, q) \/ StartExecute(c, q)
      PROVE  FlowInv'
  BY <1>0, <1>1, NodesFacts, FlowFrame DEF StartQuote, StartExecute, At, Goto, memory, store
<1>2. ASSUME NEW c \in Callers, LockExecution(c) \/ LockFirst(c) \/ LockSecond(c)
      PROVE  FlowInv'
  BY <1>0, <1>2, FlowFrame DEF LockExecution, LockFirst, LockSecond, At, Goto, memory, store
<1>3. ASSUME NEW c \in Callers, Refuse(c) \/ PersistFails(c) \/ Unlock(c) PROVE FlowInv'
  BY <1>0, <1>3, FlowFrame DEF Refuse, PersistFails, Unlock, At, Goto, memory, store
<1>4. ASSUME NEW c \in Callers, ExecutePlain(c) PROVE FlowInv'
  <2>1. \A n \in Stored : volume'[n] = volume[n]
    BY <1>0, <1>4 DEF ExecutePlain, CommitMemory
  <2>. QED BY <1>0, <1>4, <2>1, FlowFrame DEF ExecutePlain, At, Goto, store
<1>5. ASSUME NEW c \in Callers, ReserveInMemory(c) PROVE FlowInv'
  <2>1. /\ status = "up" /\ pc[c] = "check" /\ job' = job /\ status' = status
        /\ volume' = volume /\ diskFlow' = diskFlow /\ ledger' = ledger
        /\ pc' = [pc EXCEPT ![c] = "persist"] /\ Admissible(job[c])
    BY <1>5 DEF ReserveInMemory, At, Goto, store
  <2>2. \A d \in Callers : pc[d] # "commit" /\ pc'[d] # "commit"
    BY <1>0, <2>1, WorksAlone DEF Working
  <2>3. Parties(job[c]) \subseteq Stored => job[c] \notin ledger
    BY <2>1, NodesFacts, TermsFacts DEF Admissible, Replayed
  <2>4. \A d \in Callers : pc'[d] = "persist" /\ Parties(job'[d]) \subseteq Stored =>
          job'[d] \notin ledger'
    BY <1>0, <2>1, <2>3 DEF FlowInv
  <2>5. FlowCountsLedger' /\ IsFiniteSet(ledger')
    BY <2>1 DEF FlowInv, FlowCountsLedger
  <2>6. \A n \in Stored : volume'[n] = diskFlow'[n]
    BY <2>1, <2>2 DEF FlowInv
  <2>. QED BY <2>2, <2>4, <2>5, <2>6 DEF FlowInv, Parties
<1>6. CASE Exit
  BY <1>6, FlowFrame DEF Exit, FlowInv, FlowCountsLedger, store
<1>7. ASSUME NEW c \in Callers, PanicInCheck(c) PROVE FlowInv'
  BY <1>6, <1>7 DEF PanicInCheck
<1>8. ASSUME NEW c \in Callers, Persist(c) PROVE FlowInv'
  BY <1>8, PersistFlow
<1>9. ASSUME NEW c \in Callers, PersistNothing(c) PROVE FlowInv'
  <2>1. /\ status = "up" /\ pc[c] = "persist" /\ job' = job /\ status' = status
        /\ volume' = volume /\ diskFlow' = diskFlow /\ ledger' = ledger
        /\ pc' = [pc EXCEPT ![c] = "commit"] /\ Parties(job[c]) \cap Stored = {}
    BY <1>9 DEF PersistNothing, At, Goto, memory, store
  <2>2. \A d \in Callers \ {c} : pc[d] \notin {"persist", "commit"} /\ pc'[d] = pc[d]
    BY <1>0, <2>1, WorksAlone DEF Working
  <2>3. \A n \in Stored : volume'[n] = diskFlow'[n]
    BY <2>1, <2>2 DEF FlowInv
  <2>4. \A d \in Callers : pc'[d] # "persist" /\
          (pc'[d] = "commit" => Parties(job'[d]) \cap Stored = {})
    BY <1>0, <2>1, <2>2
  <2>5. FlowCountsLedger' /\ IsFiniteSet(ledger')
    BY <2>1 DEF FlowInv, FlowCountsLedger
  <2>. QED BY <2>3, <2>4, <2>5 DEF FlowInv, Parties
<1>10. ASSUME NEW c \in Callers, PersistUnmarked(c) PROVE FlowInv'
  BY <1>10 DEF PersistUnmarked
<1>11. ASSUME NEW c \in Callers, Commit(c) PROVE FlowInv'
  BY <1>11, CommitFlow
<1>12. ASSUME NEW n \in Nodes, NEW u \in Units, NEW x \in Issues, AddInventory(n, u, x)
       PROVE  FlowInv'
  BY <1>6, <1>12, FlowFrame DEF AddInventory, store, calls
<1>13. ASSUME Restart PROVE FlowInv'
  <2>1. /\ \A c \in Callers : pc'[c] = "idle"
        /\ \A n \in Stored : volume'[n] = diskFlow'[n]
        /\ diskFlow' = diskFlow /\ ledger' = ledger
    BY <1>0, <1>13 DEF Restart, store, calls, IInv, LockInv
  <2>2. FlowCountsLedger' /\ IsFiniteSet(ledger')
    BY <2>1 DEF FlowInv, FlowCountsLedger
  <2>. QED BY <2>1, <2>2 DEF FlowInv
<1>14. ASSUME Crash \/ RestartFails \/ Tick PROVE FlowInv'
  BY <1>6, <1>14, FlowFrame DEF Crash, RestartFails, Tick, memory, store, calls
<1>15. CASE UNCHANGED vars
  BY <1>15, FlowFrame DEF vars
<1>. QED
  BY <1>1, <1>2, <1>3, <1>4, <1>5, <1>7, <1>8, <1>9, <1>10, <1>11, <1>12, <1>13,
     <1>14, <1>15
  DEF Next, Start, Acquire, Work

\* The flow document of a node counts every trade of the ledger that it was a
\* party of exactly once, across failed writes, retries and restarts.  The two
\* exclusions are those of DocumentsCovered: both leave the volume in memory and
\* the one on disk apart, and the next trade writes the former over the latter.
THEOREM FlowIsLedger ==
  ASSUME "unmarked" \notin PersistFaults,
         \A q \in Plain : Parties(q) \cap Stored = {}
  PROVE  Spec => []FlowCountsLedger
<1>1. Init => MutexInv /\ FlowInv
  <2>. SUFFICES ASSUME Init PROVE MutexInv /\ FlowInv
    OBVIOUS
  <2>1. ledger = {} /\ \A c \in Callers : pc[c] = "idle"
    BY DEF Init
  <2>2. \A n \in Stored : volume[n] = NoVolume /\ diskFlow[n] = NoVolume
    BY ConstantsAssumption DEF Init
  <2>3. ASSUME NEW n \in Stored, NEW u \in Units
        PROVE  diskFlow[n][u] = SumFunctionOnSet([a \in Auths |-> VolumeOf(a, u)],
                                                 {a \in ledger : n \in Parties(a)})
    <3>1. {a \in ledger : n \in Parties(a)} = {} /\ diskFlow[n][u] = 0
      BY <2>1, <2>2 DEF NoVolume
    <3>. QED BY <3>1, SumEmpty
  <2>4. FlowCountsLedger
    BY <2>3 DEF FlowCountsLedger
  <2>. QED BY <2>1, <2>2, <2>4, FS_EmptySet DEF MutexInv, Working, FlowInv
<1>2. IInv /\ MutexInv /\ [Next]_vars => MutexInv'
  BY MutexPreserved
<1>3. IInv /\ MutexInv /\ FlowInv /\ [Next]_vars => FlowInv'
  BY FlowPreserved
<1>4. FlowInv => FlowCountsLedger
  BY DEF FlowInv
<1>. QED
  BY <1>1, <1>2, <1>3, <1>4, Invariance, PTL DEF Spec
=============================================================================
