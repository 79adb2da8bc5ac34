------------------------------ MODULE NodeTrade ------------------------------
(***************************************************************************)
(* Trade execution on the nodes of one process (core/node/trade.go), over  *)
(* the memory of the nodes and the store that they share.                  *)
(*                                                                         *)
(* Goroutines quote, execute unsigned trades (ExecuteTrade) and execute    *)
(* signed ones (executeSignedTrade) under the package's execution mutex    *)
(* and the mutexes of the two nodes, while AddInventory issues resources   *)
(* and the process crashes and restarts.  PersistExecutedTrade is one step *)
(* here: JSONStore models its file operations.                             *)
(*                                                                         *)
(* A quote, with the two intents that sign it, is one constant record.     *)
(* The price conditions of acceptQuoteLocked may fail at any time, so a    *)
(* call may always be refused.                                             *)
(***************************************************************************)
EXTENDS Integers, FiniteSets, FiniteSetsExt

CONSTANTS
  Nodes,          \* the nodes of the process
  Rank,           \* Rank[n]: the position of n's ID in the order of IDs
  Stored,         \* the nodes with a Store; they share one
  Ephemeral,      \* the nodes with AllowEphemeralReplayUnsafe
  Units,          \* the units of resources
  Auths,          \* ids of authorized trades: a quote and its two signatures
  Plain,          \* quotes that are executed without signatures
  Terms,          \* the quote behind each member of Auths and Plain
  Callers,        \* goroutines
  None,           \* "nobody", for a mutex
  PersistFaults,  \* how PersistExecutedTrade may fail: "failed", "unmarked"
  MaxAmount,      \* the largest Amount (2^63 - 1 in the code)
  MaxSignedIntentAge,
  Issues,         \* the amounts that AddInventory issues
  MaxMint,        \* bound on the amount of each unit that is ever issued
  MaxTime         \* bound on the clock

Quotes == Auths \cup Plain

QuoteTerms ==
  [seller : Nodes, buyer : Nodes, sellUnit : Units, buyUnit : Units,
   sellAmount : Nat \ {0}, buyAmount : Nat \ {0}, timestamp : Nat]

ASSUME ConstantsAssumption ==
  /\ IsFiniteSet(Nodes)
  /\ Rank \in [Nodes -> Nat]
  /\ \A m, n \in Nodes : Rank[m] = Rank[n] => m = n
  /\ Stored \subseteq Nodes
  /\ Ephemeral \subseteq Nodes
  /\ Auths \cap Plain = {}
  /\ Terms \in [Quotes -> QuoteTerms]
  /\ \A q \in Quotes : Terms[q].seller # Terms[q].buyer
  /\ None \notin Callers
  /\ Issues \subseteq Nat \ {0}
  /\ MaxAmount \in Nat /\ MaxSignedIntentAge \in Nat
  /\ MaxMint \in Nat /\ MaxTime \in Nat

VARIABLES
  inv,      \* inv[n]: the holdings of n in memory, a map from units to amounts
  volume,   \* volume[n]: TradeVolume of n's Flow records in memory
  seen,     \* seen[n]: n.ExecutedTrades
  disk,     \* disk[n]: n's inventory document
  diskFlow, \* diskFlow[n]: the TradeVolumes of n's flow document
  ledger,   \* the trades for which the store's HasExecutedTrade holds
  unmarked, \* the trades with a commit record that lost its manifest
  mutex,    \* holder of signedTradeExecutionMu
  lock,     \* lock[n]: holder of n.mu
  pc, job,  \* next step and quote of each caller
  status,   \* the process: up, down, or unloadable
  clock,    \* NowUnix
  applied,  \* history: how often each authorized trade took effect
  minted    \* history: the amount of each unit that AddInventory issued

memory == <<inv, volume, seen>>
store == <<disk, diskFlow, ledger, unmarked>>
locks == <<mutex, lock>>
calls == <<pc, job>>
vars == <<inv, volume, seen, disk, diskFlow, ledger, unmarked, mutex, lock,
          pc, job, status, clock, applied, minted>>

NoHoldings == [u \in {} |-> 0]
NoVolume == [u \in Units |-> 0]

Balance(holdings, u) == IF u \in DOMAIN holdings THEN holdings[u] ELSE 0

\* InventoryState.Sub leaves an entry of zero when everything is given away.
Given(holdings, u, x) == [holdings EXCEPT ![u] = @ - x]
Received(holdings, u, x) ==
  [v \in DOMAIN holdings \cup {u} |->
     IF v = u THEN Balance(holdings, u) + x ELSE holdings[v]]

Parties(q) == {Terms[q].seller, Terms[q].buyer}
Gives(q, n) == IF n = Terms[q].seller THEN Terms[q].sellUnit ELSE Terms[q].buyUnit
Gets(q, n) == IF n = Terms[q].seller THEN Terms[q].buyUnit ELSE Terms[q].sellUnit
Gave(q, n) == IF n = Terms[q].seller THEN Terms[q].sellAmount ELSE Terms[q].buyAmount
Got(q, n) == IF n = Terms[q].seller THEN Terms[q].buyAmount ELSE Terms[q].sellAmount

\* preparedTradeState: the holdings of a party after the trade.
HoldingsUnpaid(q, n) == Received(inv[n], Gets(q, n), Got(q, n))
HoldingsAfter(q, n) ==
  Received(Given(inv[n], Gives(q, n), Gave(q, n)), Gets(q, n), Got(q, n))

\* recordSuccessfulTrade: both parties count both units as traded.
VolumeAfter(q, n) ==
  [u \in Units |-> volume[n][u]
                   + (IF u = Terms[q].sellUnit THEN Terms[q].sellAmount ELSE 0)
                   + (IF u = Terms[q].buyUnit THEN Terms[q].buyAmount ELSE 0)]

VolumeFits(q) ==
  \A n \in Parties(q), u \in Units : VolumeAfter(q, n)[u] <= MaxAmount
\* No addition of preparedTradeState overflows.
Fits(q) ==
  \A n \in Parties(q) :
    /\ Balance(inv[n], Gets(q, n)) + Got(q, n) <= MaxAmount
    /\ \A u \in Units : VolumeAfter(q, n)[u] <= MaxAmount

\* acceptQuoteLocked of both parties, without its price conditions.
Affordable(q) == \A n \in Parties(q) : Balance(inv[n], Gives(q, n)) >= Gave(q, n)

\* validateSignedIntentFreshness
Fresh(a) ==
  /\ Terms[a].timestamp <= clock
  /\ clock - Terms[a].timestamp <= MaxSignedIntentAge

\* requireDurableReplayGuard, for two local nodes.
ReplayGuarded(a) == Parties(a) \subseteq Stored \/ Parties(a) \subseteq Ephemeral \ Stored

\* rejectInMemoryReplay and rejectReplayCheck
ReplayedInMemory(a) == \E n \in Parties(a) : a \in seen[n]
Replayed(a) ==
  \/ \E n \in Parties(a) : a \in seen[n]
  \/ a \in ledger /\ Parties(a) \cap Stored # {}

\* combinedInventory panics on a holding of zero: AddChecked refuses it.
ZeroHolding(holdings) == \E u \in DOMAIN holdings : holdings[u] = 0
CombinedPanics(q) == \E n \in Parties(q) : ZeroHolding(inv[n])

\* orderedNodes: the party with the smaller ID is locked first.
SellerFirst(q) == Terms[q].seller
FirstNode(q) == CHOOSE n \in Parties(q) : \A m \in Parties(q) : Rank[n] <= Rank[m]
SecondNode(q) == CHOOSE n \in Parties(q) : n # FirstNode(q)

Steps == {"idle", "quote", "mutex", "first", "second", "check", "persist",
          "commit", "unlock"}

-----------------------------------------------------------------------------
Init ==
  /\ inv = [n \in Nodes |-> NoHoldings]
  /\ volume = [n \in Nodes |-> NoVolume]
  /\ seen = [n \in Nodes |-> {}]
  /\ disk = [n \in Nodes |-> NoHoldings]
  /\ diskFlow = [n \in Nodes |-> NoVolume]
  /\ ledger = {} /\ unmarked = {}
  /\ mutex = None
  /\ lock = [n \in Nodes |-> None]
  /\ pc = [c \in Callers |-> "idle"]
  /\ job \in [Callers -> Quotes]
  /\ \A c, d \in Callers : job[c] = job[d]
  /\ status = "up"
  /\ clock = 0
  /\ applied = [a \in Auths |-> 0]
  /\ minted = [u \in Units |-> 0]

Goto(c, step) == pc' = [pc EXCEPT ![c] = step]

At(c, step) == status = "up" /\ pc[c] = step

(***************************************************************************)
(* The calls of a goroutine: QuoteSell takes the locks of the two nodes    *)
(* only, the two execution functions take the execution mutex before.      *)
(***************************************************************************)
StartQuote(c, q) ==
  /\ At(c, "idle")
  /\ job' = [job EXCEPT ![c] = q]
  /\ Goto(c, "quote")
  /\ UNCHANGED <<memory, store, locks, status, clock, applied, minted>>

StartExecute(c, q) ==
  /\ At(c, "idle")
  /\ job' = [job EXCEPT ![c] = q]
  /\ Goto(c, "mutex")
  /\ UNCHANGED <<memory, store, locks, status, clock, applied, minted>>

LockExecution(c) ==
  /\ At(c, "mutex")
  /\ mutex = None
  /\ mutex' = c
  /\ Goto(c, "first")
  /\ UNCHANGED <<memory, store, lock, job, status, clock, applied, minted>>

LockFirst(c) ==
  /\ \E step \in {"quote", "first"} : At(c, step)
  /\ lock[FirstNode(job[c])] = None
  /\ lock' = [lock EXCEPT ![FirstNode(job[c])] = c]
  /\ Goto(c, "second")
  /\ UNCHANGED <<memory, store, mutex, job, status, clock, applied, minted>>

\* quoteSellLocked reads the two nodes and is done.
LockSecond(c) ==
  /\ At(c, "second")
  /\ lock[SecondNode(job[c])] = None
  /\ lock' = [lock EXCEPT ![SecondNode(job[c])] = c]
  /\ Goto(c, IF mutex = c THEN "check" ELSE "unlock")
  /\ UNCHANGED <<memory, store, mutex, job, status, clock, applied, minted>>

\* Some check fails: an error is returned and nothing has changed.
Refuse(c) ==
  /\ At(c, "check")
  /\ Goto(c, "unlock")
  /\ UNCHANGED <<memory, store, locks, job, status, clock, applied, minted>>

CommitSellerOnly(q) ==
  /\ inv' = [inv EXCEPT ![Terms[q].seller] = HoldingsAfter(q, Terms[q].seller)]
  /\ volume' = [volume EXCEPT ![Terms[q].seller] = VolumeAfter(q, Terms[q].seller)]

CommitMemory(q) ==
  /\ inv' = [n \in Nodes |-> IF n \in Parties(q) THEN HoldingsAfter(q, n) ELSE inv[n]]
  /\ volume' = [n \in Nodes |-> IF n \in Parties(q) THEN VolumeAfter(q, n) ELSE volume[n]]

SaveUnpaid(q) ==
  /\ disk' = [n \in Nodes |-> IF n \in Parties(q) THEN HoldingsUnpaid(q, n) ELSE disk[n]]
  /\ diskFlow' = [n \in Nodes |-> IF n \in Parties(q) THEN VolumeAfter(q, n) ELSE diskFlow[n]]
SaveOldFlow(q) ==
  /\ disk' = [n \in Nodes |-> IF n \in Parties(q) THEN HoldingsAfter(q, n) ELSE disk[n]]
  /\ diskFlow' = [n \in Nodes |-> IF n \in Parties(q) THEN volume[n] ELSE diskFlow[n]]
\* PersistExecutedTrade writes the prepared states, not those in memory.
SavePrepared(q) ==
  /\ disk' = [n \in Nodes |-> IF n \in Parties(q) THEN HoldingsAfter(q, n) ELSE disk[n]]
  /\ diskFlow' = [n \in Nodes |-> IF n \in Parties(q) THEN VolumeAfter(q, n) ELSE diskFlow[n]]

\* ExecuteTrade: no replay check, no store.
ExecutePlain(c) ==
  /\ At(c, "check") /\ job[c] \in Plain
  /\ Affordable(job[c]) /\ ~CombinedPanics(job[c]) /\ Fits(job[c])
  /\ CommitMemory(job[c])
  /\ Goto(c, "unlock")
  /\ UNCHANGED <<seen, store, locks, job, status, clock, applied, minted>>

Admissible(a) ==
  Fresh(a) /\ ReplayGuarded(a) /\ Affordable(a) /\ ~Replayed(a)

\* Every check of executeSignedTrade has passed; reserveInMemoryReplay.
ReserveInMemory(c) ==
  /\ At(c, "check") /\ job[c] \in Auths
  /\ Admissible(job[c]) /\ ~CombinedPanics(job[c]) /\ Fits(job[c])
  /\ seen' = [n \in Nodes |-> IF n \in Parties(job[c])
                               THEN seen[n] \cup {job[c]} ELSE seen[n]]
  /\ Goto(c, "persist")
  /\ UNCHANGED <<inv, volume, store, locks, job, status, clock, applied, minted>>

\* rollbackInMemoryReplay
ForgetReserved(a) ==
  seen' = [n \in Nodes |-> IF n \in Parties(a) THEN seen[n] \ {a} ELSE seen[n]]

TakesEffect(a) == applied' = [applied EXCEPT ![a] = @ + 1]

\* persistSignedTrade of two nodes that share a store.
Persist(c) ==
  /\ At(c, "persist") /\ Parties(job[c]) \subseteq Stored
  /\ SavePrepared(job[c])
  /\ ledger' = ledger \cup {job[c]}
  /\ TakesEffect(job[c])
  /\ Goto(c, "commit")
  /\ UNCHANGED <<unmarked, memory, locks, job, status, clock, minted>>

\* persistSignedTrade of two nodes without a store.
PersistNothing(c) ==
  /\ At(c, "persist") /\ Parties(job[c]) \cap Stored = {}
  /\ TakesEffect(job[c])
  /\ Goto(c, "commit")
  /\ UNCHANGED <<memory, store, locks, job, status, clock, minted>>

\* PersistExecutedTrade fails and has undone its writes.
PersistFails(c) ==
  /\ At(c, "persist") /\ Parties(job[c]) \subseteq Stored
  /\ "failed" \in PersistFaults
  /\ ForgetReserved(job[c])
  /\ Goto(c, "unlock")
  /\ UNCHANGED <<inv, volume, store, locks, job, status, clock, applied, minted>>

\* PersistExecutedTrade fails at the executed marker: its writes and its commit
\* record stay, its manifest is removed.
PersistUnmarked(c) ==
  /\ At(c, "persist") /\ Parties(job[c]) \subseteq Stored
  /\ "unmarked" \in PersistFaults
  /\ SavePrepared(job[c])
  /\ ledger' = ledger \cup {job[c]}
  /\ unmarked' = unmarked \cup {job[c]}
  /\ TakesEffect(job[c])
  /\ ForgetReserved(job[c])
  /\ Goto(c, "unlock")
  /\ UNCHANGED <<inv, volume, locks, job, status, clock, minted>>

\* commitPreparedState of both parties.
Commit(c) ==
  /\ At(c, "commit")
  /\ CommitMemory(job[c])
  /\ Goto(c, "unlock")
  /\ UNCHANGED <<seen, store, locks, job, status, clock, applied, minted>>

\* The deferred unlocks; the call returns.
Unlock(c) ==
  /\ At(c, "unlock")
  /\ mutex' = IF mutex = c THEN None ELSE mutex
  /\ lock' = [n \in Nodes |-> IF lock[n] = c THEN None ELSE lock[n]]
  /\ Goto(c, "idle")
  /\ UNCHANGED <<memory, store, job, status, clock, applied, minted>>

\* The process ends: memory, calls and locks are gone.  A trade of nodes
\* without a store takes its effect, and the knowledge of it, with it.
Exit ==
  /\ status' = "down"
  /\ inv' = [n \in Nodes |-> NoHoldings]
  /\ volume' = [n \in Nodes |-> NoVolume]
  /\ seen' = [n \in Nodes |-> {}]
  /\ mutex' = None
  /\ lock' = [n \in Nodes |-> None]
  /\ pc' = [c \in Callers |-> "idle"]
  /\ applied' = [a \in Auths |-> IF Parties(a) \subseteq Stored THEN applied[a] ELSE 0]
  /\ UNCHANGED <<store, job, clock, minted>>

\* A panic in combinedInventory; nothing in the program recovers from it.
PanicInCheck(c) ==
  /\ At(c, "check")
  /\ Affordable(job[c]) /\ CombinedPanics(job[c])
  /\ job[c] \in Auths => Admissible(job[c])
  /\ Exit

(***************************************************************************)
(* The environment                                                         *)
(***************************************************************************)
AddInventory(n, u, x) ==
  /\ status = "up" /\ lock[n] = None
  /\ minted[u] + x <= MaxMint
  /\ \/ /\ Balance(inv[n], u) + x <= MaxAmount
        /\ inv' = [inv EXCEPT ![n] = Received(@, u, x)]
        /\ minted' = [minted EXCEPT ![u] = @ + x]
        /\ UNCHANGED <<volume, seen, store, locks, calls, status, clock, applied>>
     \/ /\ Balance(inv[n], u) + x > MaxAmount
        /\ Exit

Crash == status = "up" /\ Exit

\* LoadInventory panics on a holding of zero.
DocumentsLoad == \A n \in Stored : ~ZeroHolding(disk[n])

LoadNothing == inv' = inv

\* LoadInventory, for the nodes with a store.
LoadDocuments ==
  inv' = [n \in Nodes |-> IF n \in Stored THEN disk[n] ELSE NoHoldings]

\* NewNodeWithStore: the replay set, ExecutedTrades, starts empty.
Restart ==
  /\ status # "up" /\ unmarked = {} /\ DocumentsLoad
  /\ status' = "up"
  /\ LoadDocuments
  /\ volume' = [n \in Nodes |-> IF n \in Stored THEN diskFlow[n] ELSE NoVolume]
  /\ UNCHANGED <<seen, store, locks, calls, clock, applied, minted>>

\* Recovery refuses to open the store, or a document cannot be loaded.
RestartFails ==
  /\ status # "up" /\ (unmarked # {} \/ ~DocumentsLoad)
  /\ status' = "unloadable"
  /\ UNCHANGED <<memory, store, locks, calls, clock, applied, minted>>

Tick ==
  /\ status = "up" /\ clock < MaxTime
  /\ clock' = clock + 1
  /\ UNCHANGED <<memory, store, locks, calls, status, applied, minted>>

-----------------------------------------------------------------------------
Acquire(c) == LockExecution(c) \/ LockFirst(c) \/ LockSecond(c)

Work(c) ==
  \/ Refuse(c) \/ ExecutePlain(c) \/ ReserveInMemory(c) \/ PanicInCheck(c)
  \/ Persist(c) \/ PersistNothing(c) \/ PersistFails(c) \/ PersistUnmarked(c)
  \/ Commit(c) \/ Unlock(c)

Start(c) ==
  \/ \E q \in Quotes : StartQuote(c, q)
  \/ \E q \in Quotes : StartExecute(c, q)

Next ==
  \/ \E c \in Callers : Start(c) \/ Acquire(c) \/ Work(c)
  \/ \E n \in Nodes, u \in Units, x \in Issues : AddInventory(n, u, x)
  \/ Crash
  \/ Restart
  \/ RestartFails
  \/ Tick

Spec == Init /\ [][Next]_vars

\* A call that need not wait goes on.  A sync.Mutex passes to a waiter that
\* has been overtaken for long (starvation mode), so a lock that is released
\* again and again is acquired in the end.
FairSpec ==
  Spec /\ \A c \in Callers : WF_vars(Work(c)) /\ SF_vars(Acquire(c))

-----------------------------------------------------------------------------
Holdings == UNION {[K -> 0 .. MaxAmount] : K \in SUBSET Units}
Volumes == [Units -> 0 .. MaxAmount]

\* Holdings and volumes stay within 0 .. MaxAmount, in memory and on disk,
\* whatever is issued, traded, undone or reloaded.
TypeOK ==
  /\ inv \in [Nodes -> Holdings]
  /\ volume \in [Nodes -> Volumes]
  /\ seen \in [Nodes -> SUBSET Auths]
  /\ disk \in [Nodes -> Holdings]
  /\ diskFlow \in [Nodes -> Volumes]
  /\ ledger \subseteq Auths /\ unmarked \subseteq ledger
  /\ mutex \in Callers \cup {None}
  /\ lock \in [Nodes -> Callers \cup {None}]
  /\ pc \in [Callers -> Steps]
  /\ job \in [Callers -> Quotes]
  /\ status \in {"up", "down", "unloadable"}
  /\ clock \in 0 .. MaxTime
  /\ applied \in [Auths -> Nat]
  /\ minted \in [Units -> 0 .. MaxMint]

\* A trade that both parties signed takes effect at most once: concurrent
\* calls, retries after a failed write, and calls after a restart, when
\* ExecutedTrades is empty again, are rejected by the store or by memory.
AppliedAtMostOnce == \A a \in Auths : applied[a] <= 1

Total(holdings, u) == SumFunctionOnSet([n \in Nodes |-> Balance(holdings[n], u)], Nodes)

\* Trades move resources between the parties and create or destroy none: the
\* memory of a running process changes in total only by AddInventory, in
\* whatever order signed and unsigned trades interleave or fail.
TradesConserve ==
  [][(status = "up" /\ status' = "up" /\ minted' = minted)
       => \A u \in Units : Total(inv', u) = Total(inv, u)]_vars

\* Resources are never duplicated by a restart: neither the nodes in memory
\* nor the documents they would be reloaded from hold more of a unit than was
\* ever issued, although every document dates from its node's last trade.
NothingFromNothing ==
  \A u \in Units : Total(inv, u) <= minted[u] /\ Total(disk, u) <= minted[u]

\* While no call works on a node, its document holds nothing that the node has
\* given away since, nor more than it holds (a restart can lose what was issued
\* after the last trade, and nothing else).
MemoryCoversDisk ==
  status = "up" =>
    \A n \in Stored : lock[n] = None =>
      \A u \in Units : Balance(disk[n], u) <= Balance(inv[n], u)

VolumeOf(a, u) ==
  (IF u = Terms[a].sellUnit THEN Terms[a].sellAmount ELSE 0)
    + (IF u = Terms[a].buyUnit THEN Terms[a].buyAmount ELSE 0)

\* The flow document of a node counts every trade in the store's ledger that it
\* was a party of exactly once, across failed writes, retries and restarts.
FlowCountsLedger ==
  \A n \in Stored, u \in Units :
    diskFlow[n][u] = SumFunctionOnSet([a \in Auths |-> VolumeOf(a, u)],
                                      {a \in ledger : n \in Parties(a)})

\* Every call returns unless the process ends: QuoteSell, ExecuteTrade and
\* executeSignedTrade cannot wait for one another for ever, since all of them
\* lock the two nodes in the order of their IDs.
CallsReturn == \A c \in Callers : pc[c] # "idle" ~> pc[c] = "idle"

\* The documents that the store saved can be loaded again: a process that went
\* down comes up with the balances of its nodes (the claim of the store's test
\* TestJSONStoreReplaySurvivesRestart).
RestartLoads == status # "unloadable"
=============================================================================
