--------------------------- MODULE NodeTradeProofs ---------------------------
(***************************************************************************)
(* Theorems about NodeTrade, for any nodes, quotes, goroutines, faults and *)
(* bounds that ConstantsAssumption allows.                                 *)
(*                                                                         *)
(* All rests on LockInv, who holds which mutex at which step: what         *)
(* executeSignedTrade has checked under the locks of two nodes still holds *)
(* when it commits, two steps later.                                       *)
(***************************************************************************)
EXTENDS NodeTrade, TLAPS

\* The steps of an execution that has the locks of both nodes.
Working == {"check", "persist", "commit"}

LockInv ==
  /\ status # "up" => \A c \in Callers : pc[c] = "idle"
  /\ \A c \in Callers : pc[c] = "second" => lock[FirstNode(job[c])] = c
  /\ \A c \in Callers : pc[c] \in Working => \A n \in Parties(job[c]) : lock[n] = c

\* What was checked before the trade was reserved still holds.
Prepared(a) ==
  /\ a \in Auths /\ ReplayGuarded(a)
  /\ Affordable(a) /\ Fits(a)
  /\ \A n \in Parties(a) : a \in seen[n]

PreparedInv == \A c \in Callers : pc[c] \in {"persist", "commit"} => Prepared(job[c])

IInv == TypeOK /\ LockInv /\ PreparedInv

-----------------------------------------------------------------------------
(***************************************************************************)
(* Quotes and holdings                                                     *)
(***************************************************************************)

\* The terms of a quote have the types that buildTradeTx gives them.
LEMMA TermsFacts ==
  ASSUME NEW q \in Quotes
  PROVE  /\ Parties(q) \subseteq Nodes
         /\ Terms[q].seller \in Parties(q) /\ Terms[q].buyer \in Parties(q)
         /\ Terms[q].seller # Terms[q].buyer
         /\ Terms[q].sellUnit \in Units /\ Terms[q].buyUnit \in Units
         /\ Terms[q].sellAmount \in Nat \ {0} /\ Terms[q].buyAmount \in Nat \ {0}
         /\ \A n : Gives(q, n) \in Units /\ Gets(q, n) \in Units
         /\ \A n : Gave(q, n) \in Nat \ {0} /\ Got(q, n) \in Nat \ {0}
  BY ConstantsAssumption DEF QuoteTerms, Parties, Gives, Gets, Gave, Got

\* orderedNodes orders the two parties and nobody else.
LEMMA OrderFacts ==
  ASSUME NEW q \in Quotes
  PROVE  /\ FirstNode(q) \in Nodes /\ SecondNode(q) \in Nodes
         /\ FirstNode(q) # SecondNode(q)
         /\ Parties(q) = {FirstNode(q), SecondNode(q)}
<1>1. \E n \in Parties(q) : \A m \in Parties(q) : Rank[n] <= Rank[m]
  <2>1. Rank[Terms[q].seller] \in Nat /\ Rank[Terms[q].buyer] \in Nat
    BY TermsFacts, ConstantsAssumption DEF Parties
  <2>. QED BY <2>1 DEF Parties
<1>2. FirstNode(q) \in Parties(q)
  BY <1>1 DEF FirstNode
<1>3. \E n \in Parties(q) : n # FirstNode(q)
  BY TermsFacts
<1>4. SecondNode(q) \in Parties(q) /\ SecondNode(q) # FirstNode(q)
  BY <1>3 DEF SecondNode
<1>. QED
  BY <1>2, <1>4, TermsFacts DEF Parties

\* A map of amounts is a map of holdings.
LEMMA IsHoldings ==
  ASSUME NEW K \in SUBSET Units, NEW h \in [K -> 0 .. MaxAmount]
  PROVE  h \in Holdings
  BY DEF Holdings

LEMMA HoldingsFacts ==
  ASSUME NEW h \in Holdings
  PROVE  /\ DOMAIN h \in SUBSET Units /\ h \in [DOMAIN h -> 0 .. MaxAmount]
         /\ \A u \in Units : Balance(h, u) \in 0 .. MaxAmount
<1>1. PICK K \in SUBSET Units : h \in [K -> 0 .. MaxAmount]
  BY DEF Holdings
<1>2. DOMAIN h = K
  BY <1>1
<1>. QED
  BY <1>1, <1>2, ConstantsAssumption DEF Balance

\* AddChecked: the amount is added, and no other changes.
LEMMA ReceivedFacts ==
  ASSUME NEW h \in Holdings, NEW u \in Units, NEW x \in Nat,
         Balance(h, u) + x <= MaxAmount
  PROVE  /\ Received(h, u, x) \in Holdings
         /\ \A v \in Units : Balance(Received(h, u, x), v)
                               = IF v = u THEN Balance(h, u) + x ELSE Balance(h, v)
<1>. DEFINE r == Received(h, u, x)
<1>1. DOMAIN h \cup {u} \in SUBSET Units /\ Balance(h, u) + x \in 0 .. MaxAmount
  BY HoldingsFacts, ConstantsAssumption
<1>2. r \in [DOMAIN h \cup {u} -> 0 .. MaxAmount]
  BY <1>1, HoldingsFacts DEF Received
<1>3. r \in Holdings
  BY <1>1, <1>2, IsHoldings
<1>4. ASSUME NEW v \in Units
      PROVE  Balance(r, v) = IF v = u THEN Balance(h, u) + x ELSE Balance(h, v)
  BY DEF Received, Balance
<1>. QED
  BY <1>3, <1>4

\* Sub of what the node has: the amount is taken, and no other changes.
LEMMA GivenFacts ==
  ASSUME NEW h \in Holdings, NEW u \in Units, NEW x \in Nat \ {0}, Balance(h, u) >= x
  PROVE  /\ Given(h, u, x) \in Holdings
         /\ \A v \in Units : Balance(Given(h, u, x), v)
                               = IF v = u THEN Balance(h, u) - x ELSE Balance(h, v)
<1>1. u \in DOMAIN h /\ h[u] >= x /\ h[u] \in 0 .. MaxAmount
  BY HoldingsFacts DEF Balance
<1>2. h[u] - x \in 0 .. MaxAmount
  BY <1>1, ConstantsAssumption
<1>3. Given(h, u, x) \in [DOMAIN h -> 0 .. MaxAmount]
  BY <1>2, HoldingsFacts DEF Given
<1>4. Given(h, u, x) \in Holdings
  BY <1>3, HoldingsFacts, IsHoldings
<1>5. ASSUME NEW v \in Units
      PROVE  Balance(Given(h, u, x), v) = IF v = u THEN Balance(h, u) - x ELSE Balance(h, v)
  BY <1>1, HoldingsFacts DEF Given, Balance
<1>. QED
  BY <1>4, <1>5

\* The state prepared for a party has the types of the state it replaces.
LEMMA AfterFacts ==
  ASSUME TypeOK, NEW q \in Quotes, NEW n \in Parties(q), Affordable(q), Fits(q)
  PROVE  HoldingsAfter(q, n) \in Holdings /\ VolumeAfter(q, n) \in Volumes
<1>. DEFINE given == Given(inv[n], Gives(q, n), Gave(q, n))
<1>1. /\ n \in Nodes /\ inv[n] \in Holdings /\ volume[n] \in Volumes
      /\ Balance(inv[n], Gives(q, n)) >= Gave(q, n)
      /\ Balance(inv[n], Gets(q, n)) + Got(q, n) <= MaxAmount
  BY TermsFacts DEF TypeOK, Affordable, Fits
<1>2. /\ Gives(q, n) \in Units /\ Gets(q, n) \in Units
      /\ Gave(q, n) \in Nat \ {0} /\ Got(q, n) \in Nat \ {0}
  BY TermsFacts
<1>3. /\ given \in Holdings
      /\ Balance(given, Gets(q, n)) = IF Gets(q, n) = Gives(q, n)
                                      THEN Balance(inv[n], Gives(q, n)) - Gave(q, n)
                                      ELSE Balance(inv[n], Gets(q, n))
  BY <1>1, <1>2, GivenFacts
<1>4. Balance(given, Gets(q, n)) + Got(q, n) <= MaxAmount
  BY <1>1, <1>2, <1>3, HoldingsFacts, ConstantsAssumption
<1>5. HoldingsAfter(q, n) \in Holdings
  BY <1>2, <1>3, <1>4, ReceivedFacts DEF HoldingsAfter
<1>6. VolumeAfter(q, n) \in Volumes
  <2>1. ASSUME NEW u \in Units PROVE VolumeAfter(q, n)[u] \in 0 .. MaxAmount
    <3>1. VolumeAfter(q, n)[u] <= MaxAmount
      BY DEF Fits
    <3>2. /\ Terms[q].sellAmount \in Nat /\ Terms[q].buyAmount \in Nat
          /\ volume[n][u] \in Nat
      BY <1>1, TermsFacts DEF Volumes
    <3>3. VolumeAfter(q, n)[u] \in Nat
      BY <3>2 DEF VolumeAfter
    <3>. QED BY <3>1, <3>3, ConstantsAssumption
  <2>2. VolumeAfter(q, n) = [u \in Units |-> VolumeAfter(q, n)[u]]
    BY DEF VolumeAfter
  <2>. QED BY <2>1, <2>2 DEF Volumes
<1>. QED
  BY <1>5, <1>6

\* Two executions past their locks have no party in common.
LEMMA Exclusion ==
  ASSUME LockInv, NEW c \in Callers, NEW d \in Callers,
         pc[c] \in Working, pc[d] \in Working,
         NEW n \in Parties(job[c]), n \in Parties(job[d])
  PROVE  c = d
BY DEF LockInv

\* What was checked before stays true while nobody touches the two nodes.
LEMMA StillPrepared ==
  ASSUME NEW q, Prepared(q),
         \A n \in Parties(q) : /\ inv'[n] = inv[n] /\ volume'[n] = volume[n]
                               /\ seen[n] \subseteq seen'[n]
  PROVE  Prepared(q)'
<1>1. Affordable(q)'
  BY DEF Prepared, Affordable
<1>2. \A n \in Parties(q) : \A u \in Units : VolumeAfter(q, n)'[u] = VolumeAfter(q, n)[u]
  BY DEF VolumeAfter
<1>3. Fits(q)'
  BY <1>2 DEF Prepared, Fits
<1>. QED
  BY <1>1, <1>3 DEF Prepared, ReplayGuarded

-----------------------------------------------------------------------------
(***************************************************************************)
(* The inductive invariant                                                 *)
(***************************************************************************)

LEMMA CommitTypes ==
  ASSUME TypeOK, NEW q \in Quotes, Affordable(q), Fits(q), CommitMemory(q)
  PROVE  inv' \in [Nodes -> Holdings] /\ volume' \in [Nodes -> Volumes]
  BY AfterFacts DEF CommitMemory, TypeOK

LEMMA SaveTypes ==
  ASSUME TypeOK, NEW q \in Quotes, Affordable(q), Fits(q), SavePrepared(q)
  PROVE  disk' \in [Nodes -> Holdings] /\ diskFlow' \in [Nodes -> Volumes]
  BY AfterFacts DEF SavePrepared, TypeOK

LEMMA EmptyTypes ==
  NoHoldings \in Holdings /\ NoVolume \in Volumes
<1>1. NoHoldings \in [{} -> 0 .. MaxAmount]
  BY DEF NoHoldings
<1>2. NoHoldings \in Holdings
  BY <1>1, IsHoldings
<1>. QED
  BY <1>2, ConstantsAssumption DEF NoVolume, Volumes

LEMMA ExitTypes ==
  ASSUME TypeOK, Exit
  PROVE  TypeOK'
<1>1. applied' \in [Auths -> Nat]
  BY DEF TypeOK, Exit
<1>2. /\ inv' \in [Nodes -> Holdings] /\ volume' \in [Nodes -> Volumes]
      /\ seen' \in [Nodes -> SUBSET Auths]
  BY EmptyTypes DEF Exit
<1>3. /\ lock' \in [Nodes -> Callers \cup {None}] /\ mutex' \in Callers \cup {None}
      /\ pc' \in [Callers -> Steps] /\ status' \in {"up", "down", "unloadable"}
  BY DEF Exit, Steps
<1>. QED
  BY <1>1, <1>2, <1>3 DEF TypeOK, Exit, store

LEMMA TypePreserved ==
  ASSUME IInv, [Next]_vars
  PROVE  TypeOK'
<1>. USE DEF IInv
<1>1. ASSUME NEW c \in Callers, NEW q \in Quotes, StartQuote(c, q) \/ StartExecute(c, q)
      PROVE  TypeOK'
  BY <1>1 DEF TypeOK, StartQuote, StartExecute, Goto, Steps, memory, store, locks
<1>2. ASSUME NEW c \in Callers, LockExecution(c) PROVE TypeOK'
  BY <1>2 DEF TypeOK, LockExecution, Goto, Steps, memory, store
<1>3. ASSUME NEW c \in Callers, LockFirst(c) PROVE TypeOK'
  BY <1>3 DEF TypeOK, LockFirst, Goto, Steps, memory, store
<1>4. ASSUME NEW c \in Callers, LockSecond(c) PROVE TypeOK'
  BY <1>4 DEF TypeOK, LockSecond, Goto, Steps, memory, store
<1>5. ASSUME NEW c \in Callers, Refuse(c) PROVE TypeOK'
  BY <1>5 DEF TypeOK, Refuse, Goto, Steps, memory, store, locks
<1>6. ASSUME NEW c \in Callers, ExecutePlain(c) PROVE TypeOK'
  <2>1. inv' \in [Nodes -> Holdings] /\ volume' \in [Nodes -> Volumes]
    BY <1>6, CommitTypes DEF ExecutePlain, TypeOK
  <2>. QED BY <1>6, <2>1 DEF TypeOK, ExecutePlain, Goto, Steps, store, locks
<1>7. ASSUME NEW c \in Callers, ReserveInMemory(c) PROVE TypeOK'
  BY <1>7 DEF TypeOK, ReserveInMemory, Goto, Steps, store, locks
<1>8. ASSUME NEW c \in Callers, PanicInCheck(c) PROVE TypeOK'
  BY <1>8, ExitTypes DEF PanicInCheck
<1>9. ASSUME NEW c \in Callers, Persist(c) PROVE TypeOK'
  <2>1. job[c] \in Auths /\ job[c] \in Quotes /\ Affordable(job[c]) /\ Fits(job[c])
    BY <1>9 DEF Persist, At, PreparedInv, Prepared, TypeOK
  <2>2. disk' \in [Nodes -> Holdings] /\ diskFlow' \in [Nodes -> Volumes]
    BY <1>9, <2>1, SaveTypes DEF Persist
  <2>. QED
    BY <1>9, <2>1, <2>2 DEF TypeOK, Persist, TakesEffect, Goto, Steps, memory, locks
<1>10. ASSUME NEW c \in Callers, PersistNothing(c) PROVE TypeOK'
  <2>1. job[c] \in Auths
    BY <1>10 DEF PersistNothing, At, PreparedInv, Prepared
  <2>. QED
    BY <1>10, <2>1 DEF TypeOK, PersistNothing, TakesEffect, Goto, Steps, memory, store, locks
<1>11. ASSUME NEW c \in Callers, PersistFails(c) PROVE TypeOK'
  BY <1>11 DEF TypeOK, PersistFails, ForgetReserved, Goto, Steps, store, locks
<1>12. ASSUME NEW c \in Callers, PersistUnmarked(c) PROVE TypeOK'
  <2>1. job[c] \in Auths /\ job[c] \in Quotes /\ Affordable(job[c]) /\ Fits(job[c])
    BY <1>12 DEF PersistUnmarked, At, PreparedInv, Prepared, TypeOK
  <2>2. disk' \in [Nodes -> Holdings] /\ diskFlow' \in [Nodes -> Volumes]
    BY <1>12, <2>1, SaveTypes DEF PersistUnmarked
  <2>. QED
    BY <1>12, <2>1, <2>2
    DEF TypeOK, PersistUnmarked, TakesEffect, ForgetReserved, Goto, Steps, locks
<1>13. ASSUME NEW c \in Callers, Commit(c) PROVE TypeOK'
  <2>1. job[c] \in Quotes /\ Affordable(job[c]) /\ Fits(job[c])
    BY <1>13 DEF Commit, At, PreparedInv, Prepared, TypeOK
  <2>2. inv' \in [Nodes -> Holdings] /\ volume' \in [Nodes -> Volumes]
    BY <1>13, <2>1, CommitTypes DEF Commit
  <2>. QED BY <1>13, <2>2 DEF TypeOK, Commit, Goto, Steps, store, locks
<1>14. ASSUME NEW c \in Callers, Unlock(c) PROVE TypeOK'
  BY <1>14 DEF TypeOK, Unlock, Goto, Steps, memory, store
<1>15. ASSUME NEW n \in Nodes, NEW u \in Units, NEW x \in Issues, AddInventory(n, u, x)
       PROVE  TypeOK'
  <2>1. CASE Exit
    BY <2>1, ExitTypes
  <2>2. CASE ~Exit
    <3>1. x \in Nat /\ inv[n] \in Holdings /\ Balance(inv[n], u) + x <= MaxAmount
      BY <1>15, <2>2, ConstantsAssumption DEF AddInventory, TypeOK
    <3>2. Received(inv[n], u, x) \in Holdings
      BY <3>1, ReceivedFacts
    <3>3. inv' \in [Nodes -> Holdings]
      BY <1>15, <2>2, <3>2 DEF AddInventory, TypeOK
    <3>4. minted' \in [Units -> 0 .. MaxMint]
      BY <1>15, <2>2, <3>1, ConstantsAssumption DEF AddInventory, TypeOK
    <3>. QED
      BY <1>15, <2>2, <3>3, <3>4 DEF AddInventory, TypeOK, store, locks, calls
  <2>. QED BY <2>1, <2>2
<1>16. ASSUME Crash PROVE TypeOK'
  BY <1>16, ExitTypes DEF Crash
<1>17. ASSUME Restart PROVE TypeOK'
  <2>1. inv' \in [Nodes -> Holdings] /\ volume' \in [Nodes -> Volumes]
    BY <1>17, EmptyTypes DEF Restart, LoadDocuments, TypeOK
  <2>. QED BY <1>17, <2>1 DEF TypeOK, Restart, store, locks, calls
<1>18. ASSUME RestartFails PROVE TypeOK'
  BY <1>18 DEF TypeOK, RestartFails, memory, store, locks, calls
<1>19. ASSUME Tick PROVE TypeOK'
  BY <1>19, ConstantsAssumption DEF TypeOK, Tick, memory, store, locks, calls
<1>20. CASE UNCHANGED vars
  BY <1>20 DEF TypeOK, vars
<1>. QED
  BY <1>1, <1>2, <1>3, <1>4, <1>5, <1>6, <1>7, <1>8, <1>9, <1>10, <1>11, <1>12,
     <1>13, <1>14, <1>15, <1>16, <1>17, <1>18, <1>19, <1>20
  DEF Next, Start, Acquire, Work

LEMMA ExitLocks ==
  ASSUME Exit
  PROVE  LockInv' /\ PreparedInv'
<1>1. \A c \in Callers : pc'[c] = "idle"
  BY DEF Exit
<1>. QED
  BY <1>1 DEF LockInv, PreparedInv, Working

\* The locks of a working call are its own until it unlocks them.
LEMMA LocksPreserved ==
  ASSUME IInv, [Next]_vars
  PROVE  LockInv'
<1>. USE DEF IInv, LockInv, Working
<1>1. ASSUME NEW c \in Callers, NEW q \in Quotes, StartQuote(c, q) \/ StartExecute(c, q)
      PROVE  LockInv'
  BY <1>1 DEF TypeOK, StartQuote, StartExecute, At, Goto, locks, Parties, FirstNode
<1>2. ASSUME NEW c \in Callers, LockExecution(c) PROVE LockInv'
  BY <1>2 DEF TypeOK, LockExecution, At, Goto
<1>3. ASSUME NEW c \in Callers, LockFirst(c) PROVE LockInv'
  <2>1. /\ FirstNode(job[c]) \in Nodes /\ lock[FirstNode(job[c])] = None
        /\ job' = job /\ status' = status /\ status = "up"
        /\ lock' = [lock EXCEPT ![FirstNode(job[c])] = c]
        /\ pc' = [pc EXCEPT ![c] = "second"]
    BY <1>3, OrderFacts DEF TypeOK, LockFirst, At, Goto
  <2>2. \A d \in Callers : pc'[d] = "second" => lock'[FirstNode(job'[d])] = d
    BY <2>1, ConstantsAssumption DEF TypeOK
  <2>3. \A d \in Callers : pc'[d] \in Working => \A n \in Parties(job'[d]) : lock'[n] = d
    BY <2>1, ConstantsAssumption, TermsFacts DEF TypeOK
  <2>. QED BY <2>1, <2>2, <2>3
<1>4. ASSUME NEW c \in Callers, LockSecond(c) PROVE LockInv'
  <2>1. /\ SecondNode(job[c]) \in Nodes /\ lock[SecondNode(job[c])] = None
        /\ FirstNode(job[c]) # SecondNode(job[c])
        /\ Parties(job[c]) = {FirstNode(job[c]), SecondNode(job[c])}
        /\ lock[FirstNode(job[c])] = c
        /\ job' = job /\ status' = status /\ status = "up"
        /\ lock' = [lock EXCEPT ![SecondNode(job[c])] = c]
        /\ pc' = [pc EXCEPT ![c] = pc'[c]] /\ pc'[c] \in {"check", "unlock"}
    BY <1>4, OrderFacts DEF TypeOK, LockSecond, At, Goto
  <2>2. \A d \in Callers : pc'[d] = "second" => lock'[FirstNode(job'[d])] = d
    BY <2>1, ConstantsAssumption DEF TypeOK
  <2>3. ASSUME NEW d \in Callers, pc'[d] \in Working, NEW n \in Parties(job'[d])
        PROVE  lock'[n] = d
    <3>1. CASE d = c
      BY <2>1, <3>1, ConstantsAssumption, OrderFacts DEF TypeOK
    <3>2. CASE d # c
      BY <2>1, <2>3, <3>2, ConstantsAssumption, TermsFacts DEF TypeOK
    <3>. QED BY <3>1, <3>2
  <2>. QED BY <2>1, <2>2, <2>3
<1>5. ASSUME NEW c \in Callers, Refuse(c) PROVE LockInv'
  BY <1>5 DEF TypeOK, Refuse, At, Goto, locks
<1>6. ASSUME NEW c \in Callers, ExecutePlain(c) PROVE LockInv'
  BY <1>6 DEF TypeOK, ExecutePlain, At, Goto, locks
<1>7. ASSUME NEW c \in Callers, ReserveInMemory(c) PROVE LockInv'
  BY <1>7 DEF TypeOK, ReserveInMemory, At, Goto, locks
<1>8. ASSUME NEW c \in Callers, PanicInCheck(c) PROVE LockInv'
  BY <1>8, ExitLocks DEF PanicInCheck
<1>9. ASSUME NEW c \in Callers, Persist(c) PROVE LockInv'
  BY <1>9 DEF TypeOK, Persist, At, Goto, locks
<1>10. ASSUME NEW c \in Callers, PersistNothing(c) PROVE LockInv'
  BY <1>10 DEF TypeOK, PersistNothing, At, Goto, locks
<1>11. ASSUME NEW c \in Callers, PersistFails(c) PROVE LockInv'
  BY <1>11 DEF TypeOK, PersistFails, At, Goto, locks
<1>12. ASSUME NEW c \in Callers, PersistUnmarked(c) PROVE LockInv'
  BY <1>12 DEF TypeOK, PersistUnmarked, At, Goto, locks
<1>13. ASSUME NEW c \in Callers, Commit(c) PROVE LockInv'
  BY <1>13 DEF TypeOK, Commit, At, Goto, locks
<1>14. ASSUME NEW c \in Callers, Unlock(c) PROVE LockInv'
  <2>1. /\ job' = job /\ status' = status /\ status = "up"
        /\ lock' = [n \in Nodes |-> IF lock[n] = c THEN None ELSE lock[n]]
        /\ pc' = [pc EXCEPT ![c] = "idle"]
    BY <1>14 DEF Unlock, At, Goto
  <2>2. \A d \in Callers : pc'[d] = "second" => lock'[FirstNode(job'[d])] = d
    BY <2>1, OrderFacts DEF TypeOK
  <2>3. \A d \in Callers : pc'[d] \in Working => \A n \in Parties(job'[d]) : lock'[n] = d
    BY <2>1, TermsFacts DEF TypeOK
  <2>. QED BY <2>1, <2>2, <2>3
<1>15. ASSUME NEW n \in Nodes, NEW u \in Units, NEW x \in Issues, AddInventory(n, u, x)
       PROVE  LockInv'
  <2>1. CASE Exit
    BY <2>1, ExitLocks
  <2>2. CASE ~Exit
    BY <1>15, <2>2 DEF AddInventory, locks, calls
  <2>. QED BY <2>1, <2>2
<1>16. ASSUME Crash PROVE LockInv'
  BY <1>16, ExitLocks DEF Crash
<1>17. ASSUME Restart PROVE LockInv'
  BY <1>17 DEF Restart, locks, calls
<1>18. ASSUME RestartFails PROVE LockInv'
  BY <1>18 DEF RestartFails, locks, calls
<1>19. ASSUME Tick PROVE LockInv'
  BY <1>19 DEF Tick, locks, calls
<1>20. CASE UNCHANGED vars
  BY <1>20 DEF vars
<1>. HIDE DEF LockInv, Working, IInv
<1>. QED
  BY <1>1, <1>2, <1>3, <1>4, <1>5, <1>6, <1>7, <1>8, <1>9, <1>10, <1>11, <1>12,
     <1>13, <1>14, <1>15, <1>16, <1>17, <1>18, <1>19, <1>20
  DEF Next, Start, Acquire, Work

\* A step that lets no call begin to persist, and touches no node of one that
\* does.
LEMMA PreparedFrame ==
  ASSUME PreparedInv,
         \A d \in Callers : pc'[d] \in {"persist", "commit"} =>
           /\ pc[d] \in {"persist", "commit"} /\ job'[d] = job[d]
           /\ \A n \in Parties(job[d]) : /\ inv'[n] = inv[n] /\ volume'[n] = volume[n]
                                         /\ seen[n] \subseteq seen'[n]
  PROVE  PreparedInv'
<1>. SUFFICES ASSUME NEW d \in Callers, pc'[d] \in {"persist", "commit"}
              PROVE  Prepared(job[d])' /\ job'[d] = job[d]
  BY DEF PreparedInv, Prepared
<1>1. Prepared(job[d])
  BY DEF PreparedInv
<1>. DEFINE q == job[d]
<1>2. Prepared(q) /\ \A n \in Parties(q) : /\ inv'[n] = inv[n] /\ volume'[n] = volume[n]
                                           /\ seen[n] \subseteq seen'[n]
  BY <1>1
<1>3. job'[d] = q
  OBVIOUS
<1>. QED
  BY <1>2, <1>3, StillPrepared

\* No other call touches the nodes of a call that has their locks.
LEMMA Elsewhere ==
  ASSUME IInv, NEW c \in Callers, NEW d \in Callers, c # d,
         pc[c] \in Working, pc[d] \in Working
  PROVE  /\ job[c] \in Quotes /\ job[d] \in Quotes
         /\ \A n \in Parties(job[d]) : n \in Nodes /\ n \notin Parties(job[c])
<1>1. job[c] \in Quotes /\ job[d] \in Quotes
  BY DEF IInv, TypeOK
<1>. QED
  BY <1>1, Exclusion, TermsFacts DEF IInv

LEMMA PreparedPreserved ==
  ASSUME IInv, [Next]_vars
  PROVE  PreparedInv'
<1>0. PreparedInv /\ pc \in [Callers -> Steps]
  BY DEF IInv, TypeOK
<1>1. ASSUME NEW c \in Callers, NEW q \in Quotes, StartQuote(c, q) \/ StartExecute(c, q)
      PROVE  PreparedInv'
  BY <1>0, <1>1, PreparedFrame DEF IInv, TypeOK, StartQuote, StartExecute, At, Goto, memory
<1>2. ASSUME NEW c \in Callers, LockExecution(c) PROVE PreparedInv'
  BY <1>0, <1>2, PreparedFrame DEF LockExecution, Goto, memory
<1>3. ASSUME NEW c \in Callers, LockFirst(c) PROVE PreparedInv'
  BY <1>0, <1>3, PreparedFrame DEF LockFirst, Goto, memory
<1>4. ASSUME NEW c \in Callers, LockSecond(c) PROVE PreparedInv'
  BY <1>0, <1>4, PreparedFrame DEF LockSecond, Goto, memory
<1>5. ASSUME NEW c \in Callers, Refuse(c) PROVE PreparedInv'
  BY <1>0, <1>5, PreparedFrame DEF Refuse, Goto, memory
<1>6. ASSUME NEW c \in Callers, ExecutePlain(c) PROVE PreparedInv'
  <2>1. ASSUME NEW d \in Callers, pc'[d] \in {"persist", "commit"}
        PROVE  /\ pc[d] \in {"persist", "commit"} /\ job'[d] = job[d]
               /\ \A n \in Parties(job[d]) : /\ inv'[n] = inv[n] /\ volume'[n] = volume[n]
                                             /\ seen[n] \subseteq seen'[n]
    <3>1. /\ pc[c] \in Working /\ pc[d] \in {"persist", "commit"} /\ d # c /\ job'[d] = job[d]
      BY <1>0, <1>6, <2>1 DEF ExecutePlain, At, Goto, Working
    <3>2. \A n \in Parties(job[d]) : n \in Nodes /\ n \notin Parties(job[c])
      BY <3>1, Elsewhere DEF Working
    <3>. QED BY <1>6, <3>1, <3>2 DEF ExecutePlain, CommitMemory
  <2>. QED BY <1>0, <2>1, PreparedFrame
<1>7. ASSUME NEW c \in Callers, ReserveInMemory(c) PROVE PreparedInv'
  <2>. SUFFICES ASSUME NEW d \in Callers, pc'[d] \in {"persist", "commit"}
                PROVE  Prepared(job[d])' /\ job'[d] = job[d]
    BY DEF PreparedInv, Prepared
  <2>1. /\ job' = job /\ inv' = inv /\ volume' = volume
        /\ seen' = [n \in Nodes |-> IF n \in Parties(job[c])
                                    THEN seen[n] \cup {job[c]} ELSE seen[n]]
        /\ job[c] \in Auths /\ job[c] \in Quotes
        /\ Admissible(job[c]) /\ Fits(job[c])
    BY <1>7 DEF ReserveInMemory, IInv, TypeOK
  <2>2. job[d] \in Quotes /\ \A n \in Parties(job[d]) : n \in Nodes
    BY TermsFacts DEF IInv, TypeOK
  <2>3. CASE d = c
    <3>1. \A n \in Parties(job[c]) : job[c] \in seen'[n]
      BY <2>1, <2>2, <2>3
    <3>2. Affordable(job[c]) /\ ReplayGuarded(job[c])
      BY <2>1 DEF Admissible
    <3>3. Affordable(job[d])' /\ Fits(job[d])' /\ ReplayGuarded(job[d])'
      BY <2>1, <2>3, <3>2 DEF Affordable, Fits, VolumeAfter, ReplayGuarded
    <3>. QED BY <2>1, <2>3, <3>1, <3>3 DEF Prepared
  <2>4. CASE d # c
    <3>1. Prepared(job[d])
      BY <1>0, <1>7, <2>4 DEF ReserveInMemory, Goto, PreparedInv
    <3>2. \A n \in Parties(job[d]) : seen[n] \subseteq seen'[n]
      BY <2>1, <2>2
    <3>. QED BY <2>1, <3>1, <3>2, StillPrepared
  <2>. QED BY <2>3, <2>4
<1>8. ASSUME NEW c \in Callers, PanicInCheck(c) PROVE PreparedInv'
  BY <1>8, ExitLocks DEF PanicInCheck
<1>9. ASSUME NEW c \in Callers, Persist(c) PROVE PreparedInv'
  BY <1>0, <1>9, PreparedFrame DEF Persist, At, Goto, memory
<1>10. ASSUME NEW c \in Callers, PersistNothing(c) PROVE PreparedInv'
  BY <1>0, <1>10, PreparedFrame DEF PersistNothing, At, Goto, memory
<1>11. ASSUME NEW c \in Callers, PersistFails(c) \/ PersistUnmarked(c) PROVE PreparedInv'
  <2>1. ASSUME NEW d \in Callers, pc'[d] \in {"persist", "commit"}
        PROVE  /\ pc[d] \in {"persist", "commit"} /\ job'[d] = job[d]
               /\ \A n \in Parties(job[d]) : /\ inv'[n] = inv[n] /\ volume'[n] = volume[n]
                                             /\ seen[n] \subseteq seen'[n]
    <3>1. /\ pc[c] \in Working /\ pc[d] \in {"persist", "commit"} /\ d # c /\ job'[d] = job[d]
      BY <1>0, <1>11, <2>1 DEF PersistFails, PersistUnmarked, At, Goto, Working
    <3>2. \A n \in Parties(job[d]) : n \in Nodes /\ n \notin Parties(job[c])
      BY <3>1, Elsewhere DEF Working
    <3>. QED BY <1>11, <3>1, <3>2 DEF PersistFails, PersistUnmarked, ForgetReserved
  <2>. QED BY <1>0, <2>1, PreparedFrame
<1>12. ASSUME NEW c \in Callers, Commit(c) PROVE PreparedInv'
  <2>1. ASSUME NEW d \in Callers, pc'[d] \in {"persist", "commit"}
        PROVE  /\ pc[d] \in {"persist", "commit"} /\ job'[d] = job[d]
               /\ \A n \in Parties(job[d]) : /\ inv'[n] = inv[n] /\ volume'[n] = volume[n]
                                             /\ seen[n] \subseteq seen'[n]
    <3>1. /\ pc[c] \in Working /\ pc[d] \in {"persist", "commit"} /\ d # c /\ job'[d] = job[d]
      BY <1>0, <1>12, <2>1 DEF Commit, At, Goto, Working
    <3>2. \A n \in Parties(job[d]) : n \in Nodes /\ n \notin Parties(job[c])
      BY <3>1, Elsewhere DEF Working
    <3>. QED BY <1>12, <3>1, <3>2 DEF Commit, CommitMemory
  <2>. QED BY <1>0, <2>1, PreparedFrame
<1>13. ASSUME NEW c \in Callers, Unlock(c) PROVE PreparedInv'
  BY <1>0, <1>13, PreparedFrame DEF Unlock, Goto, memory
<1>14. ASSUME NEW n \in Nodes, NEW u \in Units, NEW x \in Issues, AddInventory(n, u, x)
       PROVE  PreparedInv'
  <2>1. CASE Exit
    BY <2>1, ExitLocks
  <2>2. CASE ~Exit
    <3>1. \A d \in Callers : pc[d] \in Working => n \notin Parties(job[d])
      BY <1>14, ConstantsAssumption DEF AddInventory, IInv, LockInv
    <3>2. /\ pc' = pc /\ job' = job /\ volume' = volume /\ seen' = seen
          /\ inv' = [inv EXCEPT ![n] = Received(@, u, x)]
      BY <1>14, <2>2 DEF AddInventory, calls
    <3>3. \A d \in Callers : pc[d] \in {"persist", "commit"} =>
            \A m \in Parties(job[d]) : inv'[m] = inv[m]
      BY <3>1, <3>2, TermsFacts DEF Working, IInv, TypeOK
    <3>. QED BY <1>0, <3>2, <3>3, PreparedFrame
  <2>. QED BY <2>1, <2>2
<1>15. ASSUME Crash PROVE PreparedInv'
  BY <1>15, ExitLocks DEF Crash
<1>16. ASSUME Restart PROVE PreparedInv'
  <2>1. \A c \in Callers : pc'[c] = "idle"
    BY <1>16 DEF Restart, calls, IInv, LockInv
  <2>. QED BY <2>1 DEF PreparedInv
<1>17. ASSUME RestartFails PROVE PreparedInv'
  BY <1>0, <1>17, PreparedFrame DEF RestartFails, memory, calls
<1>18. ASSUME Tick PROVE PreparedInv'
  BY <1>0, <1>18, PreparedFrame DEF Tick, memory, calls
<1>19. CASE UNCHANGED vars
  BY <1>0, <1>19, PreparedFrame DEF vars
<1>. QED
  BY <1>1, <1>2, <1>3, <1>4, <1>5, <1>6, <1>7, <1>8, <1>9, <1>10, <1>11, <1>12,
     <1>13, <1>14, <1>15, <1>16, <1>17, <1>18, <1>19
  DEF Next, Start, Acquire, Work

LEMMA InitInv ==
  ASSUME Init
  PROVE  IInv
<1>1. TypeOK
  BY EmptyTypes, ConstantsAssumption DEF Init, TypeOK, Steps
<1>2. LockInv /\ PreparedInv
  BY DEF Init, LockInv, PreparedInv, Working
<1>. QED
  BY <1>1, <1>2 DEF IInv

LEMMA Invariance ==
  Spec => []IInv
<1>1. IInv /\ [Next]_vars => IInv'
  BY TypePreserved, LocksPreserved, PreparedPreserved DEF IInv
<1>. QED
  BY <1>1, InitInv, PTL DEF Spec

\* Holdings and volumes stay within 0 .. MaxAmount in memory and on disk: what
\* preparedTradeState computed without overflow is what commitPreparedState
\* and PersistExecutedTrade write, since nobody gets between.
THEOREM TypeCorrect ==
  Spec => []TypeOK
<1>1. IInv => TypeOK
  BY DEF IInv
<1>. QED
  BY <1>1, Invariance, PTL

-----------------------------------------------------------------------------
(***************************************************************************)
(* At most once                                                            *)
(***************************************************************************)

\* What rejects a trade that has taken effect: the ledger, or the replay sets
\* of nodes that have no store.
Known(a) ==
  IF Parties(a) \subseteq Stored THEN a \in ledger ELSE \A n \in Parties(a) : a \in seen[n]

AppliedInv ==
  /\ \A a \in Auths : applied[a] <= 1
  /\ \A a \in Auths : applied[a] > 0 => Known(a)
  /\ \A c \in Callers : pc[c] = "persist" => applied[job[c]] = 0

\* Nothing takes effect, nothing known is forgotten, nobody begins to persist.
LEMMA AppliedFrame ==
  ASSUME AppliedInv, applied' = applied, ledger' = ledger,
         \A a \in Auths : ~(Parties(a) \subseteq Stored) =>
           \A n \in Parties(a) : a \in seen[n] => a \in seen'[n],
         \A c \in Callers : pc'[c] = "persist" => pc[c] = "persist" /\ job'[c] = job[c]
  PROVE  AppliedInv'
<1>1. \A a \in Auths : Known(a) => Known(a)'
  BY DEF Known
<1>. QED
  BY <1>1 DEF AppliedInv

LEMMA ExitApplied ==
  ASSUME AppliedInv, TypeOK, Exit
  PROVE  AppliedInv'
<1>1. \A a \in Auths : applied'[a] = IF Parties(a) \subseteq Stored THEN applied[a] ELSE 0
  BY DEF Exit
<1>2. \A a \in Auths : applied'[a] > 0 => Known(a)'
  BY <1>1 DEF AppliedInv, Known, Exit, store
<1>. QED
  BY <1>1, <1>2 DEF AppliedInv, Exit

\* A trade that takes effect is known from then on, and was not before.
LEMMA EffectApplied ==
  ASSUME IInv, AppliedInv, NEW c \in Callers, pc[c] = "persist",
         TakesEffect(job[c]), job' = job,
         pc' = [pc EXCEPT ![c] = pc'[c]], pc'[c] # "persist",
         Known(job[c])', \A a \in Auths \ {job[c]} : Known(a) => Known(a)'
  PROVE  AppliedInv'
<1>1. job[c] \in Auths /\ applied[job[c]] = 0 /\ applied \in [Auths -> Nat]
  BY DEF IInv, PreparedInv, Prepared, TypeOK, AppliedInv
<1>2. applied' = [applied EXCEPT ![job[c]] = 1]
  BY <1>1 DEF TakesEffect
<1>3. \A a \in Auths : applied'[a] <= 1 /\ (applied'[a] > 0 => Known(a)')
  BY <1>1, <1>2 DEF AppliedInv
<1>4. ASSUME NEW d \in Callers, pc'[d] = "persist" PROVE applied'[job'[d]] = 0
  <2>1. d # c /\ pc[d] = "persist"
    BY <1>4 DEF IInv, TypeOK
  <2>2. job[d] \in Auths /\ job[d] \in Quotes /\ applied[job[d]] = 0
    BY <2>1 DEF IInv, PreparedInv, Prepared, TypeOK, AppliedInv
  <2>3. job[d] # job[c]
    BY <2>1, <2>2, Elsewhere, TermsFacts DEF Working
  <2>. QED BY <1>1, <1>2, <2>2, <2>3
<1>. QED
  BY <1>3, <1>4 DEF AppliedInv

LEMMA AppliedPreserved ==
  ASSUME IInv, AppliedInv, [Next]_vars
  PROVE  AppliedInv'
<1>0. pc \in [Callers -> Steps] /\ TypeOK
  BY DEF IInv, TypeOK
<1>1. ASSUME NEW c \in Callers, NEW q \in Quotes, StartQuote(c, q) \/ StartExecute(c, q)
      PROVE  AppliedInv'
  BY <1>0, <1>1, AppliedFrame DEF TypeOK, StartQuote, StartExecute, At, Goto, memory, store
<1>2. ASSUME NEW c \in Callers, LockExecution(c) \/ LockFirst(c) \/ LockSecond(c)
      PROVE  AppliedInv'
  BY <1>0, <1>2, AppliedFrame
  DEF LockExecution, LockFirst, LockSecond, Goto, memory, store
<1>3. ASSUME NEW c \in Callers, Refuse(c) \/ ExecutePlain(c) \/ Commit(c) \/ Unlock(c)
      PROVE  AppliedInv'
  BY <1>0, <1>3, AppliedFrame DEF Refuse, ExecutePlain, Commit, Unlock, Goto, memory, store
<1>4. ASSUME NEW c \in Callers, ReserveInMemory(c) PROVE AppliedInv'
  <2>1. /\ job' = job /\ applied' = applied /\ ledger' = ledger
        /\ seen' = [n \in Nodes |-> IF n \in Parties(job[c])
                                    THEN seen[n] \cup {job[c]} ELSE seen[n]]
        /\ pc' = [pc EXCEPT ![c] = "persist"]
        /\ job[c] \in Auths /\ job[c] \in Quotes /\ Admissible(job[c])
    BY <1>4 DEF ReserveInMemory, Goto, IInv, TypeOK, store
  <2>2. \A a \in Auths : Parties(a) \subseteq Nodes
    BY TermsFacts DEF Quotes
  <2>3. \A a \in Auths : Known(a) => Known(a)'
    BY <2>1, <2>2 DEF Known
  <2>4. applied[job[c]] = 0
    <3>1. Known(job[c]) => Replayed(job[c])
      BY <2>1, TermsFacts DEF Known, Replayed
    <3>2. ~(applied[job[c]] > 0) /\ applied[job[c]] \in Nat
      BY <2>1, <3>1 DEF Admissible, AppliedInv, IInv, TypeOK
    <3>. QED BY <3>2
  <2>5. \A d \in Callers : pc'[d] = "persist" => applied'[job'[d]] = 0
    BY <1>0, <2>1, <2>4 DEF AppliedInv
  <2>. QED BY <2>1, <2>3, <2>5 DEF AppliedInv
<1>5. ASSUME NEW c \in Callers, PanicInCheck(c) PROVE AppliedInv'
  BY <1>0, <1>5, ExitApplied DEF PanicInCheck
<1>6. ASSUME NEW c \in Callers, Persist(c) PROVE AppliedInv'
  <2>1. /\ pc[c] = "persist" /\ TakesEffect(job[c]) /\ job' = job /\ seen' = seen
        /\ ledger' = ledger \cup {job[c]} /\ pc' = [pc EXCEPT ![c] = "commit"]
        /\ Parties(job[c]) \subseteq Stored
    BY <1>6 DEF Persist, At, Goto, memory
  <2>2. Known(job[c])' /\ \A a \in Auths : Known(a) => Known(a)'
    BY <2>1 DEF Known
  <2>3. pc' = [pc EXCEPT ![c] = pc'[c]] /\ pc'[c] # "persist"
    BY <1>0, <2>1
  <2>. QED BY <2>1, <2>2, <2>3, EffectApplied
<1>7. ASSUME NEW c \in Callers, PersistNothing(c) PROVE AppliedInv'
  <2>1. /\ pc[c] = "persist" /\ TakesEffect(job[c]) /\ job' = job /\ seen' = seen
        /\ ledger' = ledger /\ pc' = [pc EXCEPT ![c] = "commit"]
        /\ Parties(job[c]) \cap Stored = {} /\ job[c] \in Quotes
    BY <1>7 DEF PersistNothing, At, Goto, memory, store, IInv, TypeOK
  <2>2. \A n \in Parties(job[c]) : job[c] \in seen[n]
    BY <2>1 DEF IInv, PreparedInv, Prepared
  <2>3. Known(job[c])' /\ \A a \in Auths : Known(a) => Known(a)'
    BY <2>1, <2>2, TermsFacts DEF Known
  <2>4. pc' = [pc EXCEPT ![c] = pc'[c]] /\ pc'[c] # "persist"
    BY <1>0, <2>1
  <2>. QED BY <2>1, <2>3, <2>4, EffectApplied
<1>8. ASSUME NEW c \in Callers, PersistFails(c) PROVE AppliedInv'
  <2>1. /\ Parties(job[c]) \subseteq Stored /\ job' = job /\ applied' = applied
        /\ ledger' = ledger /\ pc' = [pc EXCEPT ![c] = "unlock"]
        /\ ForgetReserved(job[c])
    BY <1>8 DEF PersistFails, Goto, store
  <2>2. \A a \in Auths : ~(Parties(a) \subseteq Stored) =>
          \A n \in Parties(a) : a \in seen[n] => a \in seen'[n]
    BY <2>1, TermsFacts DEF ForgetReserved, Quotes
  <2>. QED BY <1>0, <2>1, <2>2, AppliedFrame
<1>9. ASSUME NEW c \in Callers, PersistUnmarked(c) PROVE AppliedInv'
  <2>1. /\ pc[c] = "persist" /\ TakesEffect(job[c]) /\ job' = job
        /\ ledger' = ledger \cup {job[c]} /\ pc' = [pc EXCEPT ![c] = "unlock"]
        /\ Parties(job[c]) \subseteq Stored /\ ForgetReserved(job[c])
    BY <1>9 DEF PersistUnmarked, At, Goto
  <2>2. \A a \in Auths : ~(Parties(a) \subseteq Stored) =>
          \A n \in Parties(a) : a \in seen[n] => a \in seen'[n]
    BY <2>1, TermsFacts DEF ForgetReserved, Quotes
  <2>3. Known(job[c])' /\ \A a \in Auths : Known(a) => Known(a)'
    BY <2>1, <2>2 DEF Known
  <2>4. pc' = [pc EXCEPT ![c] = pc'[c]] /\ pc'[c] # "persist"
    BY <1>0, <2>1
  <2>. QED BY <2>1, <2>3, <2>4, EffectApplied
<1>10. ASSUME NEW n \in Nodes, NEW u \in Units, NEW x \in Issues, AddInventory(n, u, x)
       PROVE  AppliedInv'
  <2>1. CASE Exit
    BY <1>0, <2>1, ExitApplied
  <2>2. CASE ~Exit
    BY <1>10, <2>2, AppliedFrame DEF AddInventory, store, calls
  <2>. QED BY <2>1, <2>2
<1>11. ASSUME Crash PROVE AppliedInv'
  BY <1>0, <1>11, ExitApplied DEF Crash
<1>12. ASSUME Restart \/ RestartFails \/ Tick PROVE AppliedInv'
  BY <1>12, AppliedFrame DEF Restart, RestartFails, Tick, memory, store, calls
<1>13. CASE UNCHANGED vars
  BY <1>13, AppliedFrame DEF vars
<1>. QED
  BY <1>1, <1>2, <1>3, <1>4, <1>5, <1>6, <1>7, <1>8, <1>9, <1>10, <1>11, <1>12, <1>13
  DEF Next, Start, Acquire, Work

\* A trade that both parties signed takes effect at most once, whatever calls
\* of executeSignedTrade, failed writes, crashes and restarts come between.
THEOREM AppliesOnce ==
  Spec => []AppliedAtMostOnce
<1>1. Init => AppliedInv
  BY DEF Init, AppliedInv
<1>2. IInv /\ AppliedInv /\ [Next]_vars => AppliedInv'
  BY AppliedPreserved
<1>3. AppliedInv => AppliedAtMostOnce
  BY DEF AppliedInv, AppliedAtMostOnce
<1>. QED
  BY <1>1, <1>2, <1>3, Invariance, PTL DEF Spec

-----------------------------------------------------------------------------
(***************************************************************************)
(* Memory and documents                                                    *)
(***************************************************************************)

Covered(n) == \A u \in Units : Balance(disk[n], u) <= Balance(inv[n], u)

\* A document is ahead of its node only between persistSignedTrade and the
\* commit to memory, and then holds what the commit will write.
CoverInv ==
  /\ \A c \in Callers : pc[c] = "commit" =>
       \A n \in Parties(job[c]) \cap Stored : disk[n] = HoldingsAfter(job[c], n)
  /\ status = "up" => \A n \in Stored :
       Covered(n) \/ \E c \in Callers : pc[c] = "commit" /\ n \in Parties(job[c])

\* A step that writes neither a document nor the memory of a node with one, and
\* neither begins nor ends a commit.
LEMMA CoverFrame ==
  ASSUME CoverInv, disk' = disk,
         \A n \in Stored : inv'[n] = inv[n],
         status' = "up" => status = "up",
         \A c \in Callers : (pc'[c] = "commit") = (pc[c] = "commit"),
         \A c \in Callers : pc[c] = "commit" => job'[c] = job[c]
  PROVE  CoverInv'
<1>1. ASSUME NEW c \in Callers, pc'[c] = "commit", NEW n \in Parties(job'[c]) \cap Stored
      PROVE  disk'[n] = HoldingsAfter(job[c], n)'
  <2>1. pc[c] = "commit" /\ job'[c] = job[c] /\ inv'[n] = inv[n]
    BY <1>1
  <2>2. disk[n] = HoldingsAfter(job[c], n)
    BY <1>1, <2>1 DEF CoverInv, Parties
  <2>. QED BY <2>1, <2>2 DEF HoldingsAfter, Gives, Gets, Gave, Got
<1>2. \A n \in Stored : Covered(n) => Covered(n)'
  BY DEF Covered
<1>3. ASSUME status' = "up", NEW n \in Stored
      PROVE  Covered(n)' \/ \E c \in Callers : pc'[c] = "commit" /\ n \in Parties(job'[c])
  BY <1>2, <1>3 DEF CoverInv
<1>4. \A c \in Callers : pc'[c] = "commit" =>
        \A n \in Parties(job'[c]) \cap Stored : disk'[n] = HoldingsAfter(job[c], n)'
  BY <1>1
<1>. QED
  BY <1>3, <1>4 DEF CoverInv, Parties

LEMMA ExitCover ==
  ASSUME Exit
  PROVE  CoverInv'
  BY DEF Exit, CoverInv

\* The same for a step in which c begins or ends a commit: what it touches are
\* the nodes of c alone.
LEMMA OthersCovered ==
  ASSUME IInv, CoverInv, NEW c \in Callers, pc[c] \in Working,
         job' = job, status = "up",
         \A d \in Callers \ {c} : pc'[d] = pc[d],
         \A n \in Stored \ Parties(job[c]) : disk'[n] = disk[n] /\ inv'[n] = inv[n]
  PROVE  /\ \A d \in Callers \ {c} : pc'[d] = "commit" =>
              \A n \in Parties(job'[d]) \cap Stored : disk'[n] = HoldingsAfter(job[d], n)'
         /\ \A n \in Stored \ Parties(job[c]) :
              Covered(n)' \/ \E d \in Callers : pc'[d] = "commit" /\ n \in Parties(job'[d])
<1>1. ASSUME NEW d \in Callers \ {c}, pc'[d] = "commit",
             NEW n \in Parties(job'[d]) \cap Stored
      PROVE  disk'[n] = HoldingsAfter(job[d], n)'
  <2>1. pc[d] = "commit" /\ n \in Parties(job[d])
    BY <1>1 DEF Parties
  <2>2. n \notin Parties(job[c])
    BY <2>1, Elsewhere DEF Working
  <2>3. disk'[n] = disk[n] /\ inv'[n] = inv[n]
    BY <2>2
  <2>4. disk[n] = HoldingsAfter(job[d], n)
    BY <2>1 DEF CoverInv
  <2>. QED BY <2>3, <2>4 DEF HoldingsAfter, Gives, Gets, Gave, Got
<1>2. ASSUME NEW n \in Stored \ Parties(job[c])
      PROVE  Covered(n)' \/ \E d \in Callers : pc'[d] = "commit" /\ n \in Parties(job'[d])
  <2>1. disk'[n] = disk[n] /\ inv'[n] = inv[n]
    OBVIOUS
  <2>2. CASE Covered(n)
    BY <2>1, <2>2 DEF Covered
  <2>3. CASE \E d \in Callers : pc[d] = "commit" /\ n \in Parties(job[d])
    BY <2>3 DEF Parties
  <2>. QED BY <2>2, <2>3 DEF CoverInv
<1>. QED
  BY <1>1, <1>2

LEMMA CoverPreserved ==
  ASSUME "unmarked" \notin PersistFaults,
         \A q \in Plain : Parties(q) \cap Stored = {},
         IInv, CoverInv, [Next]_vars
  PROVE  CoverInv'
<1>0. pc \in [Callers -> Steps] /\ TypeOK
  BY DEF IInv, TypeOK
<1>1. ASSUME NEW c \in Callers, NEW q \in Quotes, StartQuote(c, q) \/ StartExecute(c, q)
      PROVE  CoverInv'
  BY <1>0, <1>1, CoverFrame DEF TypeOK, StartQuote, StartExecute, At, Goto, memory, store
<1>2. ASSUME NEW c \in Callers, LockExecution(c) \/ LockFirst(c) \/ LockSecond(c)
      PROVE  CoverInv'
  BY <1>0, <1>2, CoverFrame
  DEF LockExecution, LockFirst, LockSecond, At, Goto, memory, store
<1>3. ASSUME NEW c \in Callers, Refuse(c) \/ Unlock(c) \/ ReserveInMemory(c) \/ PersistFails(c)
      PROVE  CoverInv'
  BY <1>0, <1>3, CoverFrame
  DEF Refuse, Unlock, ReserveInMemory, PersistFails, At, Goto, memory, store
<1>4. ASSUME NEW c \in Callers, ExecutePlain(c) PROVE CoverInv'
  <2>1. \A n \in Stored : inv'[n] = inv[n]
    BY <1>4, ConstantsAssumption DEF ExecutePlain, CommitMemory
  <2>. QED BY <1>0, <1>4, <2>1, CoverFrame DEF ExecutePlain, At, Goto, store
<1>5. ASSUME NEW c \in Callers, PanicInCheck(c) PROVE CoverInv'
  BY <1>5, ExitCover DEF PanicInCheck
<1>6. ASSUME NEW c \in Callers, Persist(c) PROVE CoverInv'
  <2>1. /\ status = "up" /\ status' = status /\ job' = job /\ inv' = inv
        /\ disk' = [n \in Nodes |-> IF n \in Parties(job[c])
                                    THEN HoldingsAfter(job[c], n) ELSE disk[n]]
        /\ pc[c] = "persist" /\ pc' = [pc EXCEPT ![c] = "commit"]
    BY <1>6 DEF Persist, SavePrepared, At, Goto, memory
  <2>2. /\ pc[c] \in Working /\ pc'[c] = "commit" /\ Stored \subseteq Nodes
        /\ \A d \in Callers \ {c} : pc'[d] = pc[d]
    BY <1>0, <2>1, ConstantsAssumption DEF Working
  <2>3. \A n \in Stored \ Parties(job[c]) : disk'[n] = disk[n] /\ inv'[n] = inv[n]
    BY <2>1, <2>2
  <2>4. ASSUME NEW n \in Parties(job[c]) \cap Stored
        PROVE  disk'[n] = HoldingsAfter(job[c], n)'
    BY <2>1, <2>2 DEF HoldingsAfter, Gives, Gets, Gave, Got
  <2>5. \A n \in Stored \cap Parties(job[c]) :
          \E d \in Callers : pc'[d] = "commit" /\ n \in Parties(job'[d])
    BY <2>1, <2>2
  <2>6. \A n \in Stored \ Parties(job[c]) :
          Covered(n)' \/ \E d \in Callers : pc'[d] = "commit" /\ n \in Parties(job'[d])
    BY <2>1, <2>2, <2>3, OthersCovered
  <2>7. \A d \in Callers : pc'[d] = "commit" =>
          \A n \in Parties(job'[d]) \cap Stored : disk'[n] = HoldingsAfter(job[d], n)'
    BY <2>1, <2>2, <2>3, <2>4, OthersCovered
  <2>. QED BY <2>5, <2>6, <2>7 DEF CoverInv, Parties
<1>7. ASSUME NEW c \in Callers, PersistNothing(c) PROVE CoverInv'
  <2>1. /\ status = "up" /\ status' = status /\ job' = job /\ inv' = inv /\ disk' = disk
        /\ Parties(job[c]) \cap Stored = {}
        /\ pc[c] = "persist" /\ pc' = [pc EXCEPT ![c] = "commit"]
    BY <1>7 DEF PersistNothing, At, Goto, memory, store
  <2>2. /\ pc[c] \in Working /\ \A d \in Callers \ {c} : pc'[d] = pc[d]
    BY <1>0, <2>1 DEF Working
  <2>3. \A n \in Stored \ Parties(job[c]) : disk'[n] = disk[n] /\ inv'[n] = inv[n]
    BY <2>1
  <2>4. \A n \in Stored :
          Covered(n)' \/ \E d \in Callers : pc'[d] = "commit" /\ n \in Parties(job'[d])
    BY <2>1, <2>2, <2>3, OthersCovered
  <2>5. \A d \in Callers : pc'[d] = "commit" =>
          \A n \in Parties(job'[d]) \cap Stored : disk'[n] = HoldingsAfter(job[d], n)'
    BY <2>1, <2>2, <2>3, OthersCovered
  <2>. QED BY <2>4, <2>5 DEF CoverInv, Parties
<1>8. ASSUME NEW c \in Callers, PersistUnmarked(c) PROVE CoverInv'
  BY <1>8 DEF PersistUnmarked
<1>9. ASSUME NEW c \in Callers, Commit(c) PROVE CoverInv'
  <2>1. /\ status = "up" /\ status' = status /\ job' = job /\ disk' = disk
        /\ inv' = [n \in Nodes |-> IF n \in Parties(job[c])
                                   THEN HoldingsAfter(job[c], n) ELSE inv[n]]
        /\ pc[c] = "commit" /\ pc' = [pc EXCEPT ![c] = "unlock"]
    BY <1>9 DEF Commit, CommitMemory, At, Goto, store
  <2>2. /\ pc[c] \in Working /\ pc'[c] # "commit" /\ Stored \subseteq Nodes
        /\ \A d \in Callers \ {c} : pc'[d] = pc[d]
    BY <1>0, <2>1, ConstantsAssumption DEF Working
  <2>3. \A n \in Stored \ Parties(job[c]) : disk'[n] = disk[n] /\ inv'[n] = inv[n]
    BY <2>1, <2>2
  <2>4. ASSUME NEW n \in Stored \cap Parties(job[c])
        PROVE  Covered(n)'
    <3>1. disk[n] = HoldingsAfter(job[c], n)
      BY <2>1 DEF CoverInv
    <3>2. inv'[n] = disk'[n] /\ disk[n] \in Holdings
      BY <2>1, <2>2, <3>1, <1>0 DEF TypeOK
    <3>. QED BY <2>1, <3>2, HoldingsFacts, ConstantsAssumption DEF Covered
  <2>5. \A n \in Stored \ Parties(job[c]) :
          Covered(n)' \/ \E d \in Callers : pc'[d] = "commit" /\ n \in Parties(job'[d])
    BY <2>1, <2>2, <2>3, OthersCovered
  <2>6. \A d \in Callers : pc'[d] = "commit" =>
          \A n \in Parties(job'[d]) \cap Stored : disk'[n] = HoldingsAfter(job[d], n)'
    BY <2>1, <2>2, <2>3, OthersCovered
  <2>. QED BY <2>4, <2>5, <2>6 DEF CoverInv, Parties
<1>10. ASSUME NEW n \in Nodes, NEW u \in Units, NEW x \in Issues, AddInventory(n, u, x)
       PROVE  CoverInv'
  <2>1. CASE Exit
    BY <2>1, ExitCover
  <2>2. CASE ~Exit
    <3>1. /\ status = "up" /\ status' = status /\ pc' = pc /\ job' = job /\ disk' = disk
          /\ lock[n] = None /\ inv' = [inv EXCEPT ![n] = Received(@, u, x)]
          /\ Balance(inv[n], u) + x <= MaxAmount
      BY <1>10, <2>2 DEF AddInventory, store, calls
    <3>2. \A d \in Callers : pc[d] = "commit" => n \notin Parties(job[d])
      BY <3>1, ConstantsAssumption DEF IInv, LockInv, Working
    <3>3. ASSUME NEW d \in Callers, pc'[d] = "commit", NEW m \in Parties(job'[d]) \cap Stored
          PROVE  disk'[m] = HoldingsAfter(job[d], m)'
      <4>1. pc[d] = "commit" /\ m \in Parties(job[d]) /\ m # n /\ m \in Nodes
        BY <3>1, <3>2, <3>3, ConstantsAssumption DEF Parties
      <4>2. disk[m] = HoldingsAfter(job[d], m) /\ inv'[m] = inv[m]
        BY <1>0, <3>1, <4>1 DEF CoverInv, TypeOK
      <4>. QED BY <3>1, <4>2 DEF HoldingsAfter, Gives, Gets, Gave, Got
    <3>4. ASSUME NEW m \in Stored, Covered(m) PROVE Covered(m)'
      <4>1. CASE m = n
        <5>1. /\ inv[m] \in Holdings /\ disk[m] \in Holdings /\ x \in Nat
              /\ inv'[m] = Received(inv[m], u, x)
          BY <1>0, <3>1, <4>1, ConstantsAssumption DEF TypeOK
        <5>2. \A v \in Units : Balance(inv[m], v) \in Nat /\ Balance(disk[m], v) \in Nat
          BY <5>1, HoldingsFacts, ConstantsAssumption
        <5>3. \A v \in Units :
                Balance(inv'[m], v)
                  = IF v = u THEN Balance(inv[m], u) + x ELSE Balance(inv[m], v)
          BY <3>1, <4>1, <5>1, ReceivedFacts
        <5>4. ASSUME NEW v \in Units
              PROVE  Balance(disk'[m], v) <= Balance(inv'[m], v)
          <6>1. Balance(disk[m], v) <= Balance(inv[m], v)
            BY <3>4 DEF Covered
          <6>. QED BY <3>1, <5>1, <5>2, <5>3, <6>1
        <5>. QED BY <5>4 DEF Covered
      <4>2. CASE m # n
        BY <1>0, <3>1, <3>4, <4>2, ConstantsAssumption DEF Covered, TypeOK
      <4>. QED BY <4>1, <4>2
    <3>5. \A m \in Stored :
            Covered(m)' \/ \E d \in Callers : pc'[d] = "commit" /\ m \in Parties(job'[d])
      BY <3>1, <3>4 DEF CoverInv
    <3>. QED BY <3>3, <3>5 DEF CoverInv, Parties
  <2>. QED BY <2>1, <2>2
<1>11. ASSUME Crash PROVE CoverInv'
  BY <1>11, ExitCover DEF Crash
<1>12. ASSUME Restart PROVE CoverInv'
  <2>1. /\ \A c \in Callers : pc'[c] = "idle"
        /\ \A n \in Stored : inv'[n] = disk[n] /\ disk'[n] = disk[n] /\ disk[n] \in Holdings
    BY <1>0, <1>12, ConstantsAssumption
    DEF Restart, LoadDocuments, store, calls, IInv, LockInv, TypeOK
  <2>2. \A n \in Stored : Covered(n)'
    BY <2>1, HoldingsFacts, ConstantsAssumption DEF Covered
  <2>. QED BY <2>1, <2>2 DEF CoverInv
<1>13. ASSUME RestartFails \/ Tick PROVE CoverInv'
  BY <1>13, CoverFrame DEF RestartFails, Tick, memory, store, calls
<1>14. CASE UNCHANGED vars
  BY <1>14, CoverFrame DEF vars
<1>. QED
  BY <1>1, <1>2, <1>3, <1>4, <1>5, <1>6, <1>7, <1>8, <1>9, <1>10, <1>11, <1>12,
     <1>13, <1>14
  DEF Next, Start, Acquire, Work

\* CoverInv holds throughout, under the assumptions of its preservation.
LEMMA CoverInvariance ==
  ASSUME "unmarked" \notin PersistFaults,
         \A q \in Plain : Parties(q) \cap Stored = {}
  PROVE  Spec => []CoverInv
<1>1. Init => CoverInv
  <2>. SUFFICES ASSUME Init PROVE CoverInv
    OBVIOUS
  <2>1. \A n \in Stored : inv[n] = NoHoldings /\ disk[n] = NoHoldings
    BY ConstantsAssumption DEF Init
  <2>2. \A n \in Stored : Covered(n)
    BY <2>1 DEF Covered, Balance, NoHoldings
  <2>. QED BY <2>2 DEF Init, CoverInv
<1>2. IInv /\ CoverInv /\ [Next]_vars => CoverInv'
  BY CoverPreserved
<1>. QED
  BY <1>1, <1>2, Invariance, PTL DEF Spec

\* While no call works on a node, its document holds nothing that the node does
\* not hold in memory, so a restart never gives back what was given away.  Two
\* things break this and are excluded: a trade whose executed marker could not
\* be written, and an unsigned trade of a node with a store.
THEOREM DocumentsCovered ==
  ASSUME "unmarked" \notin PersistFaults,
         \A q \in Plain : Parties(q) \cap Stored = {}
  PROVE  Spec => []MemoryCoversDisk
<1>1. IInv /\ CoverInv => MemoryCoversDisk
  <2>. SUFFICES ASSUME IInv, CoverInv, status = "up", NEW n \in Stored, lock[n] = None
                PROVE  \A u \in Units : Balance(disk[n], u) <= Balance(inv[n], u)
    BY DEF MemoryCoversDisk
  <2>1. \A c \in Callers : pc[c] = "commit" => n \notin Parties(job[c])
    BY ConstantsAssumption DEF IInv, LockInv, Working
  <2>. QED BY <2>1 DEF CoverInv, Covered
<1>. QED
  BY <1>1, Invariance, CoverInvariance, PTL
=============================================================================
